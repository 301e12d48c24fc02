--------------------------- MODULE CaseLifecycle ---------------------------
(***************************************************************************)
(* One conservation case from its creation to the archive, driven by every *)
(* write operation of the domain with every input.  A step is one accepted *)
(* command; a refused one leaves the case as it was and is a stutter.      *)
(***************************************************************************)
EXTENDS ConservationCase

CONSTANTS
    PlanBodies,    \* the plan texts conservators may send
    Hours,         \* the durations observers may send
    MaxPlans,      \* bound of the model: plan versions
    MaxTrials,     \* bound of the model: compatibility trials
    MaxStability   \* bound of the model: stability observations

ASSUME PlanBodiesAssumption == PlanBodies \subseteq PlanBody
ASSUME HoursAssumption == Hours \subseteq 1..IntMax

VARIABLE case

Readings == UNION {[names -> {"within", "off"}] : names \in SUBSET Params}

Init ==
    \E required \in SUBSET Regions, custodian \in Actors :
        CanCreateCase(required) /\ case = CreateCase(required, custodian)

Condition ==
    \E region \in Regions :
        CanAddCondition(case, region) /\ case' = AddCondition(case, region)

Lock == CanLockBaseline(case) /\ case' = LockBaseline(case)

Save ==
    \E body \in PlanBodies :
        /\ CurrentVersion(case) < MaxPlans
        /\ CanSavePlan(case)
        /\ case' = SavePlan(case, body)

Submit == CanSubmitPlan(case) /\ case' = SubmitPlan(case)

RecordTrial ==
    \E version \in 1..MaxPlans, outcome \in Outcomes :
        /\ Len(case.trials) < MaxTrials
        /\ CanAddTrial(case, version)
        /\ case' = AddTrial(case, version, outcome)

Review ==
    \E reviewer \in Actors, approve \in BOOLEAN :
        /\ CanReviewEthics(case, reviewer)
        /\ case' = ReviewEthics(case, reviewer, approve)

Complete ==
    \E step \in 1..(Len(case.checkpoints) + 1), operator \in Actors, readings \in Readings :
        /\ CanCompleteCheckpoint(case, step, readings)
        /\ case' = CompleteCheckpoint(case, step, operator, readings)

Resolve ==
    \E verifier \in Actors :
        /\ CanResolveDeviation(case, verifier)
        /\ case' = ResolveDeviation(case, verifier)

RecordStability ==
    \E hours \in Hours, outcome \in Outcomes :
        /\ Len(case.stability) < MaxStability
        /\ CanAddStability(case)
        /\ case' = AddStability(case, hours, outcome)

Release ==
    \E reviewer \in Actors \cup {NoOne} :
        /\ ReleaseEligible(case, reviewer)
        /\ case' = ReleaseCase(case, reviewer)

Archive ==
    \E manifest \in Manifests :
        CanMarkArchived(case) /\ case' = MarkArchived(case, manifest)

Next ==
    \/ Condition \/ Lock
    \/ Save \/ Submit \/ RecordTrial \/ Review
    \/ Complete \/ Resolve
    \/ RecordStability \/ Release \/ Archive

Spec == Init /\ [][Next]_case

-----------------------------------------------------------------------------
(* The shape of the record.                                                *)
TypeOK == case \in Case

(* Whatever sequence of commands the domain accepts, the case it leaves    *)
(* behind passes ValidateSnapshot: Mutate validates the result of every    *)
(* command and the server validates every row when it starts, so one       *)
(* accepted sequence that breaks this wedges the case or the whole server. *)
SnapshotValid == ValidateSnapshot(case)

PassedTrialOf(version) ==
    \E i \in DOMAIN case.trials :
        case.trials[i] = [version |-> version, outcome |-> "passed"]

(* What a release signature stands for: its plan is the newest version,    *)
(* approved by the registered custodian after a passed trial of that very  *)
(* version; each of its steps was done once and in order, every deviation  *)
(* remediated under the eyes of someone else; the last observation passed; *)
(* the signer treated nothing.                                             *)
ReleaseGate ==
    case.release # NoOne =>
        LET version == CurrentVersion(case)
            plan    == case.plans[version]
        IN  /\ plan.status = "approved" /\ plan.reviewer = case.custodian
            /\ PassedTrialOf(version)
            /\ Len(case.checkpoints) = Len(plan.steps)
            /\ \A i \in DOMAIN case.checkpoints :
                  LET cp == case.checkpoints[i]
                  IN  cp.step = i /\ \/ cp.outcome = "completed"
                                     \/ /\ cp.outcome = "remediated"
                                        /\ cp.verifiedBy \in Actors \ {cp.operator}
            /\ case.stability[Len(case.stability)].outcome = "passed"
            /\ case.release \notin Operators(case)

\* The hours really observed, summed without wrap-around.
TrueHours(observations) ==
    LET sum[i \in 0..Len(observations)] ==
            IF i = 0 THEN 0 ELSE sum[i - 1] + observations[i].hours
    IN  sum[Len(observations)]

(* A case counts as stable, and may be signed, only after 24 real hours of *)
(* observation, although the sum is taken in an int that may wrap around.  *)
StableIsLongEnough ==
    case.state \in {"stable", "released", "archived"} =>
        TrueHours(case.stability) >= 24

OneOpenDeviation(c) ==
    /\ c.state = "paused" <=>
          \E i \in DOMAIN c.checkpoints : c.checkpoints[i].outcome = "deviation"
    /\ \A i \in DOMAIN c.checkpoints :
          /\ c.checkpoints[i].outcome = "deviation" => i = Len(c.checkpoints)
          /\ ApprovedVersions(c) # {}
          /\ c.checkpoints[i].step \in DOMAIN ApprovedPlan(c).steps

(* A case is paused exactly while a deviation is open, and it is the last  *)
(* checkpoint, of a step the approved plan has: ResolveDeviation indexes   *)
(* the last checkpoint and BuildExecutionStatus the step of each one       *)
(* without looking, so anything else is a panic or a forgotten deviation.  *)
DeviationHolds == OneOpenDeviation(case)

ApprovedIsCurrent(c) ==
    /\ ApprovedVersions(c) \subseteq {CurrentVersion(c)}
    /\ ApprovedVersions(c) # {} <=> c.state \in stateNeedsApproval

(* Only a draft can still be worked on: the newest version is the one      *)
(* under review, an approved one is the newest and the only one, and       *)
(* exactly the states from approved on have it (so a plan cannot be        *)
(* replaced after its approval, nor treatment start without one).          *)
ApprovedPlanIsCurrent == ApprovedIsCurrent(case)

SignedIsReleased(c) == c.release # NoOne <=> c.state \in {"released", "archived"}

\* What every accepted command preserves; ValidateSnapshot alone is not
\* inductive (it lets a signed case go back, or a second plan follow an
\* approved one), the other three say what it leaves open.
Sound(c) ==
    /\ ValidateSnapshot(c)
    /\ OneOpenDeviation(c)
    /\ ApprovedIsCurrent(c)
    /\ SignedIsReleased(c)

\* The verdict on a plan is the registered custodian's, whoever asked.
CustodianDecides(c) ==
    \A v \in DOMAIN c.plans :
        c.plans[v].status \in {"approved", "returned"} => c.plans[v].reviewer = c.custodian

(* The inductive invariant of the proofs.                                  *)
IInv == TypeOK /\ Sound(case) /\ CustodianDecides(case)

\* How many gates lie between a case and its release, a submitted plan and a
\* plan that can be submitted among them, ...
GatesLeft(c) ==
    CASE c.state = "draft"                              -> 8
      [] c.state \in {"baseline_locked", "plan_draft"}  ->
           IF HasStatus(c, "submitted") THEN 5 ELSE IF CanSubmitPlan(c) THEN 6 ELSE 7
      [] c.state = "trial_passed"                       -> 4
      [] c.state \in {"approved", "treating", "paused"} -> 3
      [] c.state = "treated"                            -> 2
      [] c.state = "stable"                             -> 1
      [] OTHER                                          -> 0

\* ... and what is left to do before the next one: regions without a condition,
\* or steps without a checkpoint, each of which may yet need a verification.
WorkLeft(c) ==
    CASE c.state = "draft" -> Cardinality(c.required \ Recorded(c))
      [] c.state \in {"approved", "treating", "paused"} ->
           2 * (Len(ApprovedPlan(c).steps) - Len(c.checkpoints))
           + (IF c.state = "paused" THEN 1 ELSE 0)
      [] OTHER -> 0

Closer(new, old) ==
    \/ GatesLeft(new) < GatesLeft(old)
    \/ GatesLeft(new) = GatesLeft(old) /\ WorkLeft(new) < WorkLeft(old)

\* A command brings the case closer to its release by signer, who keeps out of
\* the treatment.  A sum that has wrapped around may take two observations.
WayOn(c, signer) ==
    \/ CanLockBaseline(c) /\ Closer(LockBaseline(c), c)
    \/ \E region \in Regions :
          CanAddCondition(c, region) /\ Closer(AddCondition(c, region), c)
    \/ \E body \in PlanBodies : CanSavePlan(c) /\ Closer(SavePlan(c, body), c)
    \/ CanSubmitPlan(c) /\ Closer(SubmitPlan(c), c)
    \/ \E outcome \in Outcomes :
          /\ CanAddTrial(c, CurrentVersion(c))
          /\ Closer(AddTrial(c, CurrentVersion(c), outcome), c)
    \/ \E reviewer \in Actors, approve \in BOOLEAN :
          CanReviewEthics(c, reviewer) /\ Closer(ReviewEthics(c, reviewer, approve), c)
    \/ \E operator \in Actors \ {signer}, readings \in Readings :
          LET step == Len(c.checkpoints) + 1
          IN  /\ CanCompleteCheckpoint(c, step, readings)
              /\ Closer(CompleteCheckpoint(c, step, operator, readings), c)
    \/ \E verifier \in Actors :
          CanResolveDeviation(c, verifier) /\ Closer(ResolveDeviation(c, verifier), c)
    \/ ReleaseEligible(c, signer) /\ Closer(ReleaseCase(c, signer), c)
    \/ /\ CanAddStability(c)
       /\ \E hours \in 1..IntMax :
             \/ Closer(AddStability(c, hours, "passed"), c)
             \/ Closer(AddStability(AddStability(c, IntMax, "passed"), hours, "passed"), c)

(* Separation of duties excludes nobody too many: from wherever the case   *)
(* has got to, over returned plans, failed trials, deviations and failed   *)
(* observations, whoever has not treated it can still be the one who signs *)
(* it, if there is somebody else to treat it.  Some command brings that    *)
(* release closer, the distance is a number (or rather two) that cannot    *)
(* fall for ever, and the signer stays out of the treatment on the way.    *)
(* (Nothing keeps the last such person from treating the case as well;     *)
(* it can never be released then, as every operator is refused for good.)  *)
ReleaseInReach ==
    case.release = NoOne =>
        /\ WorkLeft(case) \in Nat
        /\ \A signer \in Actors \ Operators(case) :
              Actors # {signer} => WayOn(case, signer)

(* An approved plan can be carried out: the conservator can record the     *)
(* next checkpoint of it.  (ReleaseInReach for the states of treatment.)   *)
ApprovedIsExecutable ==
    case.state \in {"approved", "treating"} =>
        \E readings \in Readings :
            CanCompleteCheckpoint(case, Len(case.checkpoints) + 1, readings)

(* A passing last observation and 24 real hours make the case stable.      *)
StableWhenObserved ==
    /\ case.state = "treated"
    /\ case.stability # <<>>
    /\ case.stability[Len(case.stability)].outcome = "passed"
    => TrueHours(case.stability) < 24

\* A checkpoint stays as it is, but for the remediation of an open deviation.
SameCheckpoint(old, new) ==
    \/ new = old
    \/ /\ old.outcome = "deviation" /\ new.outcome = "remediated"
       /\ new.step = old.step /\ new.operator = old.operator

(* What was recorded is never rewritten: conditions, trials, observations  *)
(* and checkpoints only grow, a deviation is remediated at most once, and  *)
(* neither the steps of a saved plan nor the verdict on it change.         *)
EvidenceKept ==
    [][/\ IsPrefix(case.conditions, case'.conditions)
       /\ IsPrefix(case.trials, case'.trials)
       /\ IsPrefix(case.stability, case'.stability)
       /\ DOMAIN case.checkpoints \subseteq DOMAIN case'.checkpoints
       /\ \A i \in DOMAIN case.checkpoints :
             SameCheckpoint(case.checkpoints[i], case'.checkpoints[i])
       /\ DOMAIN case.plans \subseteq DOMAIN case'.plans
       /\ \A v \in DOMAIN case.plans :
             LET old == case.plans[v]
                 new == case'.plans[v]
             IN  /\ new.steps = old.steps /\ new.complete = old.complete
                 /\ old.status \in {"approved", "returned"} => new = old
      ]_case

(* The phases cannot be walked backwards past a gate: the baseline does    *)
(* not change once locked, no plan changes once one is approved, treatment *)
(* stays done, a signature is final and an archived case frozen.           *)
GatesAreOneWay ==
    [][/\ case.state # "draft" => /\ case'.state # "draft"
                                  /\ case'.conditions = case.conditions
       /\ case.state \in stateNeedsApproval =>
             case'.state \in stateNeedsApproval /\ case'.plans = case.plans
       /\ case.state \in isTreatmentComplete =>
             case'.state \in isTreatmentComplete /\ case'.checkpoints = case.checkpoints
       /\ case.release # NoOne =>
             case' = [case EXCEPT !.state = "archived", !.archive = case'.archive]
       /\ case.state # "archived"
      ]_case

=============================================================================
