-------------------------- MODULE ConservationCase --------------------------
(***************************************************************************)
(* The conservation case of internal/domain: one record and the pure       *)
(* operations on it.  Every method of *ConservationCase is a pair          *)
(*                                                                         *)
(*    CanX(c, ...)   the method returns nil when called on c               *)
(*    X(c, ...)      the case the method then leaves behind                *)
(*                                                                         *)
(* A method that returns an error leaves the case as it was, because the   *)
(* store throws the mutated copy away.  What is abstracted:                *)
(*   - texts (titles, notes, evidence references, time stamps) are left    *)
(*     out: a request whose texts are blank or malformed is refused        *)
(*     without any effect; where a blank text can be STORED, in a draft    *)
(*     plan, the flag "complete" says whether ValidatePlan accepts it;     *)
(*   - thresholds and measurements are the outcome EvaluateMetrics gives;  *)
(*   - a plan step is the set of its parameter names, a reading of a       *)
(*     parameter is "within" or "off" its tolerance.                       *)
(* A definition said to be a mutant is one a mistake in the code could     *)
(* turn the next one into; it is there to test the properties with.        *)
(***************************************************************************)
EXTENDS Integers, Sequences, SequencesExt

CONSTANTS
    Regions,       \* (leaf_ref, region_ref) pairs
    Actors,        \* custodians, operators, verifiers and reviewers
    Params,        \* parameter names a plan step may carry
    UsableParams,  \* the names ValidateParameters lets a checkpoint carry
    Manifests,     \* archive manifests
    IntMax,        \* the largest value of Go's int
    NoOne,         \* the empty reviewer, verifier or signature
    NoManifest     \* a nil ArchiveManifest

ASSUME ParamsAssumption == UsableParams \subseteq Params
ASSUME NoOneAssumption == NoOne \notin Actors
ASSUME NoManifestAssumption == NoManifest \notin Manifests
ASSUME IntMaxAssumption == IntMax \in Nat /\ IntMax >= 24

-----------------------------------------------------------------------------
(* The types of types.go.                                                  *)

States == {"draft", "baseline_locked", "plan_draft", "trial_passed",
           "approved", "treating", "paused", "treated", "stable",
           "released", "archived"}

Outcomes == {"passed", "failed"}

PlanBody == [steps : Seq(SUBSET Params), complete : BOOLEAN]

Plan == [steps    : Seq(SUBSET Params),
         complete : BOOLEAN,
         status   : {"draft", "submitted", "returned", "approved"},
         decision : {"none", "return", "approve"},  \* "none" is the empty one
         reviewer : Actors \cup {NoOne}]

Trial == [version : Nat \ {0}, outcome : Outcomes]

Checkpoint == [step       : Nat \ {0},
               operator   : Actors,
               outcome    : {"completed", "deviation", "remediated"},
               verifiedBy : Actors \cup {NoOne}]

Stability == [hours : 1..IntMax, outcome : Outcomes]

Case == [state       : States,
         required    : SUBSET Regions,
         custodian   : Actors,
         conditions  : Seq(Regions),
         plans       : Seq(Plan),
         trials      : Seq(Trial),
         checkpoints : Seq(Checkpoint),
         stability   : Seq(Stability),
         release     : Actors \cup {NoOne},
         archive     : Manifests \cup {NoManifest}]

-----------------------------------------------------------------------------
(* case.go                                                                 *)

CanCreateCase(required) == required # {}

CreateCase(required, custodian) ==
    [state |-> "draft", required |-> required, custodian |-> custodian,
     conditions |-> <<>>, plans |-> <<>>, trials |-> <<>>,
     checkpoints |-> <<>>, stability |-> <<>>,
     release |-> NoOne, archive |-> NoManifest]

\* The version number of the current plan; 0 when there is none.
CurrentVersion(c) == Len(c.plans)

HasStatus(c, status) ==
    CurrentVersion(c) > 0 /\ c.plans[CurrentVersion(c)].status = status

ApprovedVersions(c) == {v \in DOMAIN c.plans : c.plans[v].status = "approved"}

\* The newest approved plan, the one ApprovedPlan's downward loop meets first.
ApprovedPlan(c) == c.plans[Max(ApprovedVersions(c))]

-----------------------------------------------------------------------------
(* condition.go                                                            *)

Recorded(c) == {c.conditions[i] : i \in DOMAIN c.conditions}

\* Mutant: a region may be recorded again.
CanAddConditionAgain(c, region) == c.state = "draft" /\ region \in c.required

CanAddCondition(c, region) ==
    /\ c.state = "draft"
    /\ region \in c.required
    /\ region \notin Recorded(c)

AddCondition(c, region) == [c EXCEPT !.conditions = Append(@, region)]

\* ValidateBaselineCoverage: nothing required is missing.
BaselineCovered(c) == c.required \subseteq Recorded(c)

CanLockBaseline(c) == c.state = "draft" /\ BaselineCovered(c)

\* Mutant: a state validState does not know.
LockBaselineUnknown(c) == [c EXCEPT !.state = "locked"]

LockBaseline(c) == [c EXCEPT !.state = "baseline_locked"]

-----------------------------------------------------------------------------
(* plan.go and AddTrial of trial.go                                        *)

\* Mutant: a plan may be replaced after its approval.
CanSavePlanLate(c) == c.state \in {"baseline_locked", "plan_draft", "approved"}

CanSavePlan(c) == c.state \in {"baseline_locked", "plan_draft"}

SavePlan(c, body) ==
    [c EXCEPT !.plans = Append(@, [steps    |-> body.steps,
                                   complete |-> body.complete,
                                   status   |-> "draft",
                                   decision |-> "none",
                                   reviewer |-> NoOne]),
              !.state = "plan_draft"]

\* Parameter NAMES are not looked at here, unlike in ValidateParameters.
ValidatePlan(p) ==
    /\ p.complete
    /\ Len(p.steps) > 0
    /\ \A i \in DOMAIN p.steps : p.steps[i] # {}

\* Mutant: the plan is not validated.
CanSubmitPlanUnchecked(c) == c.state = "plan_draft" /\ HasStatus(c, "draft")

CanSubmitPlan(c) ==
    /\ c.state = "plan_draft"
    /\ HasStatus(c, "draft")
    /\ ValidatePlan(c.plans[CurrentVersion(c)])

SubmitPlan(c) == [c EXCEPT !.plans[CurrentVersion(c)].status = "submitted"]

CanAddTrial(c, version) ==
    /\ c.state = "plan_draft"
    /\ HasStatus(c, "submitted")
    /\ version = CurrentVersion(c)

\* Mutant: only the latest trial is kept.
AddTrialLatest(c, version, outcome) ==
    [c EXCEPT !.trials = <<[version |-> version, outcome |-> outcome]>>,
              !.state = IF outcome = "passed" THEN "trial_passed" ELSE @]

AddTrial(c, version, outcome) ==
    [c EXCEPT !.trials = Append(@, [version |-> version, outcome |-> outcome]),
              !.state = IF outcome = "passed" THEN "trial_passed" ELSE @]

CanReviewEthics(c, reviewer) ==
    /\ c.state = "trial_passed"
    /\ HasStatus(c, "submitted")
    /\ reviewer = c.custodian

\* Mutant: both branches write the same decision.
ReviewEthicsApproving(c, reviewer, approve) ==
    [c EXCEPT
       !.plans[CurrentVersion(c)] =
           [@ EXCEPT !.reviewer = reviewer,
                     !.decision = "approve",
                     !.status   = IF approve THEN "approved" ELSE "returned"],
       !.state = IF approve THEN "approved" ELSE "plan_draft"]

ReviewEthics(c, reviewer, approve) ==
    [c EXCEPT
       !.plans[CurrentVersion(c)] =
           [@ EXCEPT !.reviewer = reviewer,
                     !.decision = IF approve THEN "approve" ELSE "return",
                     !.status   = IF approve THEN "approved" ELSE "returned"],
       !.state = IF approve THEN "approved" ELSE "plan_draft"]

-----------------------------------------------------------------------------
(* treatment.go; readings is a function from parameter names to verdicts.  *)

ValidateParameters(readings) ==
    DOMAIN readings # {} /\ DOMAIN readings \subseteq UsableParams

CanCompleteCheckpoint(c, step, readings) ==
    /\ c.state \in {"approved", "treating"}
    /\ ApprovedVersions(c) # {}
    /\ step = Len(c.checkpoints) + 1
    /\ step <= Len(ApprovedPlan(c).steps)
    /\ ValidateParameters(readings)
    /\ ApprovedPlan(c).steps[step] \subseteq DOMAIN readings

Deviated(c, step, readings) ==
    \E p \in ApprovedPlan(c).steps[step] : readings[p] = "off"

\* The state after a step that holds: the last one ends the treatment.
AfterStep(c, step) ==
    IF step = Len(ApprovedPlan(c).steps) THEN "treated" ELSE "treating"

CompleteCheckpoint(c, step, operator, readings) ==
    LET off == Deviated(c, step, readings)
    IN  [c EXCEPT
           !.checkpoints = Append(@, [step       |-> step,
                                      operator   |-> operator,
                                      outcome    |-> IF off THEN "deviation" ELSE "completed",
                                      verifiedBy |-> NoOne]),
           !.state = IF off THEN "paused" ELSE AfterStep(c, step)]

CanResolveDeviation(c, verifier) ==
    /\ c.state = "paused"
    /\ verifier # c.checkpoints[Len(c.checkpoints)].operator

\* Mutant: the treatment resumes, but the checkpoint is not marked.
ResolveDeviationUnmarked(c, verifier) ==
    LET last == Len(c.checkpoints)
    IN  [c EXCEPT !.checkpoints[last].verifiedBy = verifier,
                  !.state = AfterStep(c, c.checkpoints[last].step)]

ResolveDeviation(c, verifier) ==
    LET last == Len(c.checkpoints)
    IN  [c EXCEPT
           !.checkpoints[last] = [@ EXCEPT !.verifiedBy = verifier,
                                           !.outcome = "remediated"],
           !.state = AfterStep(c, c.checkpoints[last].step)]

-----------------------------------------------------------------------------
(* stability.go and BuildReleasePrecheck of reports.go                     *)

\* Two's complement wrap-around of an int addition.
Wrap(n) == ((n + IntMax + 1) % (2 * (IntMax + 1))) - (IntMax + 1)

\* The sum of the durations as the loop computes it, in Go's int.
TotalHours(observations) ==
    LET sum[i \in 0..Len(observations)] ==
            IF i = 0 THEN 0 ELSE Wrap(sum[i - 1] + observations[i].hours)
    IN  sum[Len(observations)]

\* Mutant: a released case may still be observed.
CanAddStabilityLate(c) == c.state \in {"treated", "stable", "released"}

CanAddStability(c) == c.state \in {"treated", "stable"}

\* Mutant: the 24 hours are forgotten.
AddStabilityAnyHours(c, hours, outcome) ==
    [c EXCEPT !.stability = Append(@, [hours |-> hours, outcome |-> outcome]),
              !.state = IF outcome = "passed" THEN "stable" ELSE "treated"]

AddStability(c, hours, outcome) ==
    LET observations == Append(c.stability, [hours |-> hours, outcome |-> outcome])
    IN  [c EXCEPT
           !.stability = observations,
           !.state = IF outcome = "passed" /\ TotalHours(observations) >= 24
                     THEN "stable" ELSE "treated"]

Operators(c) == {c.checkpoints[i].operator : i \in DOMAIN c.checkpoints}

\* Mutant: an operator of the case may sign it.
ReleaseEligibleAnyone(c, reviewer) == c.state = "stable" /\ reviewer # NoOne

\* Mutant: who verified a remediation may not sign either.
ReleaseEligibleApart(c, reviewer) ==
    /\ c.state = "stable"
    /\ reviewer # NoOne
    /\ reviewer \notin Operators(c)
    /\ \A i \in DOMAIN c.checkpoints : reviewer # c.checkpoints[i].verifiedBy

\* BuildReleasePrecheck(...).Eligible for a non-blank statement.
ReleaseEligible(c, reviewer) ==
    /\ c.state = "stable"
    /\ reviewer # NoOne
    /\ reviewer \notin Operators(c)

ReleaseCase(c, reviewer) == [c EXCEPT !.release = reviewer, !.state = "released"]

\* Mutant: a case may be sealed again.
CanMarkArchivedAgain(c) == c.state \in {"released", "archived"}

CanMarkArchived(c) == c.state = "released"

MarkArchived(c, manifest) ==
    [c EXCEPT !.archive = manifest, !.state = "archived"]

-----------------------------------------------------------------------------
(* invariants.go: what ValidateSnapshot accepts.  The checks of identity,  *)
(* time stamps and stored texts are left out with the texts.               *)

stateNeedsApproval == {"approved", "treating", "paused", "treated", "stable",
                       "released", "archived"}
stateNeedsTrial == stateNeedsApproval \cup {"trial_passed"}
isTreatmentComplete == {"treated", "stable", "released", "archived"}

validateConditionSnapshot(c) ==
    /\ Recorded(c) \subseteq c.required
    /\ \A i, j \in DOMAIN c.conditions :
          c.conditions[i] = c.conditions[j] => i = j
    /\ c.state # "draft" => c.required \subseteq Recorded(c)

validatePlanSnapshot(c) ==
    /\ \A v \in DOMAIN c.plans :
          LET p == c.plans[v]
          IN  /\ p.status # "draft" => ValidatePlan(p)
              /\ p.status \in {"approved", "returned"} => p.reviewer # NoOne
    /\ c.state \notin {"draft", "baseline_locked"} => c.plans # <<>>
    /\ \A v, w \in ApprovedVersions(c) : v = w
    /\ c.state \in stateNeedsApproval => ApprovedVersions(c) # {}

validateTrialSnapshot(c) ==
    /\ \A i \in DOMAIN c.trials : c.trials[i].version \in DOMAIN c.plans
    /\ c.state \in stateNeedsTrial =>
          \E i \in DOMAIN c.trials : c.trials[i] =
             [version |-> CurrentVersion(c), outcome |-> "passed"]

validateCheckpointSnapshot(c) ==
    /\ \A i \in DOMAIN c.checkpoints :
          LET cp == c.checkpoints[i]
          IN  /\ cp.step = i
              /\ ApprovedVersions(c) # {}
              /\ i <= Len(ApprovedPlan(c).steps)
              /\ cp.outcome = "deviation" =>
                    i = Len(c.checkpoints) /\ c.state = "paused"
              /\ cp.outcome = "remediated" =>
                    cp.verifiedBy \notin {NoOne, cp.operator}
    /\ c.state \in isTreatmentComplete =>
          /\ ApprovedVersions(c) # {}
          /\ Len(c.checkpoints) = Len(ApprovedPlan(c).steps)
    /\ c.release # NoOne => c.release \notin Operators(c)

validateStabilitySnapshot(c) ==
    c.state \in {"stable", "released", "archived"} =>
        /\ c.stability # <<>>
        /\ c.stability[Len(c.stability)].outcome = "passed"
        /\ TotalHours(c.stability) >= 24

validateTerminalSnapshot(c) ==
    /\ c.state = "archived" => c.archive # NoManifest /\ c.release # NoOne
    /\ c.state # "archived" => c.archive = NoManifest
    /\ c.state = "released" => c.release # NoOne

ValidateSnapshot(c) ==
    /\ c.required # {}
    /\ validateConditionSnapshot(c)
    /\ validatePlanSnapshot(c)
    /\ validateTrialSnapshot(c)
    /\ validateCheckpointSnapshot(c)
    /\ validateStabilitySnapshot(c)
    /\ validateTerminalSnapshot(c)

=============================================================================
