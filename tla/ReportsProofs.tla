--------------------------- MODULE ReportsProofs ---------------------------
(* Proofs about Reports: what the reports say is what the commands do.     *)
EXTENDS Reports, CaseLifecycleProofs, FiniteSetTheorems

-----------------------------------------------------------------------------
(* What the reports rely on beyond Sound.                                  *)

PassedTrial(c) ==
    \E i \in DOMAIN c.trials :
        c.trials[i] = [version |-> CurrentVersion(c), outcome |-> "passed"]

TrialDecides(c) ==
    PassedTrial(c) <=> c.state \in stateNeedsTrial \/ HasStatus(c, "returned")

\* While treatment goes on there is a step left, a passed trial waits for the
\* verdict on a submitted plan, and no plan comes before the baseline is locked.
StepsLeft(c) ==
    /\ c.state \in {"draft", "baseline_locked"} => c.plans = <<>>
    /\ c.state \in {"approved", "treating"} => Len(c.checkpoints) < Len(ApprovedPlan(c).steps)
    /\ c.state = "trial_passed" => HasStatus(c, "submitted")

PassedOf(c, v) ==
    \E i \in DOMAIN c.trials : c.trials[i] = [version |-> v, outcome |-> "passed"]

\* The stored decision on version v agrees with its status, and a decision has
\* been taken on exactly the versions that passed a trial, but for one that
\* waits for it.
VerdictOn(c, v) ==
    /\ c.plans[v].decision = "approve" <=> c.plans[v].status = "approved"
    /\ c.plans[v].decision = "return" <=> c.plans[v].status = "returned"
    /\ c.plans[v].decision # "none" <=>
          PassedOf(c, v) /\ (v = CurrentVersion(c) => c.state # "trial_passed")

Verdicts(c) == \A v \in DOMAIN c.plans : VerdictOn(c, v)

Ready(c) == TrialDecides(c) /\ StepsLeft(c) /\ Verdicts(c)

RInv == IInv /\ Ready(case)

LEMMA TrialDecidesFrame ==
    ASSUME NEW c, NEW d, TrialDecides(c), d.plans = c.plans, d.trials = c.trials,
           d.state \in stateNeedsTrial <=> c.state \in stateNeedsTrial
    PROVE  TrialDecides(d)
BY DEF TrialDecides, PassedTrial, CurrentVersion, HasStatus

LEMMA VerdictsFrame ==
    ASSUME NEW c, NEW d, Verdicts(c), d.plans = c.plans, d.trials = c.trials,
           d.state = "trial_passed" <=> c.state = "trial_passed"
    PROVE  Verdicts(d)
BY DEF Verdicts, VerdictOn, PassedOf, CurrentVersion

LEMMA SavePlanReady ==
    ASSUME NEW c \in Case, Sound(c), Ready(c), NEW body \in PlanBody, CanSavePlan(c)
    PROVE  Ready(SavePlan(c, body))
<1> DEFINE d == SavePlan(c, body)
           plan == [steps |-> body.steps, complete |-> body.complete,
                    status |-> "draft", decision |-> "none", reviewer |-> NoOne]
           n == Len(c.plans)
<1>1. /\ d.plans = Append(c.plans, plan) /\ d.trials = c.trials
      /\ d.state = "plan_draft" /\ plan.status = "draft" /\ plan.decision = "none"
      /\ c.state # "trial_passed"
    BY DEF SavePlan, CanSavePlan, Case
<1> HIDE DEF d, plan
<1>0. c.plans \in Seq(Plan) /\ n \in Nat /\ DOMAIN c.plans = 1..n
    BY CaseFields, LenProperties
<1>2. n \in Nat /\ CurrentVersion(d) = n + 1 /\ d.plans[n + 1] = plan
    BY <1>0, <1>1 DEF CurrentVersion
<1>3. \A i \in DOMAIN c.trials : c.trials[i].version # n + 1
    <2>1. DOMAIN c.plans = 1..n
        BY CaseFields
    <2> QED
        BY <1>2, <2>1 DEF Sound, ValidateSnapshot, validateTrialSnapshot
<1>4. \A i \in DOMAIN c.trials : c.trials[i] # [version |-> n + 1, outcome |-> "passed"]
    BY <1>3
<1>5. ~PassedTrial(d) /\ ~HasStatus(d, "returned")
    BY <1>1, <1>2, <1>4 DEF PassedTrial, HasStatus
<1>6. /\ DOMAIN d.plans = 1..(n + 1) /\ DOMAIN c.plans = 1..n
      /\ \A v \in 1..n : d.plans[v] = c.plans[v]
    BY <1>0, <1>1
<1>7. Verdicts(d)
    <2> SUFFICES ASSUME NEW v \in 1..(n + 1) PROVE VerdictOn(d, v)
        BY <1>6 DEF Verdicts
    <2>1. CASE v = n + 1
        BY <2>1, <1>1, <1>2, <1>4 DEF VerdictOn, PassedOf
    <2>2. CASE v \in 1..n
        <3>1. VerdictOn(c, v) /\ v # CurrentVersion(d)
            BY <2>2, <1>2, <1>6 DEF Ready, Verdicts
        <3> QED
            BY <2>2, <3>1, <1>1, <1>6 DEF VerdictOn, PassedOf
    <2> QED
        BY <2>1, <2>2, <1>2
<1>8. Ready(d)
    BY <1>1, <1>5, <1>7
    DEF Ready, TrialDecides, StepsLeft, stateNeedsTrial, stateNeedsApproval
<1> QED
    BY <1>8 DEF d

LEMMA SubmitPlanReady ==
    ASSUME NEW c \in Case, Ready(c), CanSubmitPlan(c)
    PROVE  Ready(SubmitPlan(c))
<1> DEFINE d == SubmitPlan(c)
           n == CurrentVersion(c)
           plan == [c.plans[n] EXCEPT !.status = "submitted"]
<1>1. c.plans \in Seq(Plan) /\ n \in 1..Len(c.plans) /\ n = Len(c.plans)
    BY CaseFields DEF CanSubmitPlan, HasStatus, CurrentVersion
<1>2. /\ d.plans = [c.plans EXCEPT ![n] = plan] /\ d.trials = c.trials
      /\ d.state = "plan_draft" /\ c.state = "plan_draft"
    BY DEF SubmitPlan, CanSubmitPlan, Case
<1>3. c.plans[n] \in Plan
    <2> HIDE DEF n
    <2> QED BY <1>1
<1>4. plan.status = "submitted" /\ plan.decision = c.plans[n].decision
      /\ c.plans[n].status = "draft" /\ n \in DOMAIN c.plans
    <2>1. plan.status = "submitted" /\ plan.decision = c.plans[n].decision
        <3> HIDE DEF n
        <3> QED BY <1>3 DEF Plan
    <2> QED
        BY <1>1, <2>1 DEF CanSubmitPlan, HasStatus
<1> HIDE DEF d, plan
<1>5. CurrentVersion(d) = n /\ d.plans[n] = plan
    <2> HIDE DEF n
    <2> QED BY <1>1, <1>2 DEF CurrentVersion
<1>6. ~HasStatus(d, "returned")
    BY <1>4, <1>5 DEF HasStatus
<1>7. ~PassedTrial(c)
    BY <1>2 DEF Ready, TrialDecides, CanSubmitPlan, HasStatus, stateNeedsTrial, stateNeedsApproval
<1>8. ~PassedTrial(d)
    BY <1>2, <1>5, <1>7 DEF PassedTrial
<1>9. Verdicts(d)
    <2> SUFFICES ASSUME NEW v \in DOMAIN c.plans PROVE VerdictOn(d, v)
        BY <1>2 DEF Verdicts
    <2>1. VerdictOn(c, v) /\ CurrentVersion(c) = n
        BY DEF Ready, Verdicts
    <2> HIDE DEF n
    <2>2. v # n => d.plans[v] = c.plans[v]
        BY <1>1, <1>2
    <2>3. v = n => /\ d.plans[v].decision = c.plans[v].decision
                   /\ d.plans[v].status \notin {"approved", "returned"}
                   /\ c.plans[v].status \notin {"approved", "returned"}
        BY <1>4, <1>5
    <2> QED
        BY <1>2, <1>5, <2>1, <2>2, <2>3 DEF VerdictOn, PassedOf
<1>10. Ready(d)
    BY <1>2, <1>6, <1>8, <1>9
    DEF Ready, TrialDecides, StepsLeft, stateNeedsTrial, stateNeedsApproval
<1> QED
    BY <1>10 DEF d

LEMMA AddTrialReady ==
    ASSUME NEW c \in Case, Ready(c), NEW version \in Nat, NEW outcome \in Outcomes,
           CanAddTrial(c, version)
    PROVE  Ready(AddTrial(c, version, outcome))
<1> DEFINE d == AddTrial(c, version, outcome)
           trial == [version |-> version, outcome |-> outcome]
           n == Len(c.trials)
<1>1. /\ d.plans = c.plans /\ d.trials = Append(c.trials, trial)
      /\ d.state = IF outcome = "passed" THEN "trial_passed" ELSE "plan_draft"
      /\ c.state = "plan_draft" /\ version = CurrentVersion(c)
    BY DEF AddTrial, CanAddTrial, Case
<1>2. HasStatus(c, "submitted") /\ HasStatus(d, "submitted") /\ ~HasStatus(d, "returned")
      /\ ~HasStatus(c, "returned") /\ CurrentVersion(d) = version
    BY <1>1 DEF CanAddTrial, HasStatus, CurrentVersion
<1>3. ~PassedTrial(c)
    BY <1>1, <1>2 DEF Ready, TrialDecides, stateNeedsTrial, stateNeedsApproval
<1> HIDE DEF d
<1>4. /\ n \in Nat /\ DOMAIN c.trials = 1..n /\ DOMAIN d.trials = 1..(n + 1)
      /\ \A i \in 1..n : d.trials[i] = c.trials[i]
      /\ d.trials[n + 1] = trial
    <2>1. c.trials \in Seq(Trial)
        BY CaseFields
    <2> HIDE DEF trial
    <2> QED
        BY <1>1, <2>1
<1> HIDE DEF n
<1>5. PassedTrial(d) <=> outcome = "passed"
    <2>1. CASE outcome = "passed"
        BY <2>1, <1>1, <1>2, <1>4 DEF PassedTrial
    <2>2. CASE outcome # "passed"
        <3> SUFFICES ASSUME NEW i \in 1..(n + 1),
                            d.trials[i] = [version |-> version, outcome |-> "passed"]
                     PROVE  FALSE
            BY <2>2, <1>2, <1>4 DEF PassedTrial
        <3>1. i # n + 1
            BY <2>2, <1>4
        <3>2. i \in 1..n /\ c.trials[i] = [version |-> version, outcome |-> "passed"]
            BY <3>1, <1>4
        <3> QED
            BY <3>2, <1>1, <1>3, <1>4 DEF PassedTrial
    <2> QED
        BY <2>1, <2>2
<1>6. Verdicts(d)
    <2> SUFFICES ASSUME NEW v \in DOMAIN c.plans PROVE VerdictOn(d, v)
        BY <1>1 DEF Verdicts
    <2>1. VerdictOn(c, v)
        BY DEF Ready, Verdicts
    <2>2. CASE v = version
        <3>1. PassedOf(d, v) <=> d.state = "trial_passed"
            BY <2>2, <1>1, <1>2, <1>5 DEF PassedOf, PassedTrial
        <3>2. c.plans[v].decision = "none"
            BY <2>1, <2>2, <1>1, <1>3 DEF VerdictOn, PassedOf, PassedTrial
        <3> QED
            BY <2>1, <2>2, <3>1, <3>2, <1>1, <1>2 DEF VerdictOn
    <2>3. CASE v # version
        <3>1. PassedOf(d, v) <=> PassedOf(c, v)
            <4>1. trial # [version |-> v, outcome |-> "passed"]
                BY <2>3
            <4> HIDE DEF trial
            <4> QED
                BY <4>1, <1>4 DEF PassedOf
        <3> QED
            BY <2>1, <2>3, <3>1, <1>1, <1>2 DEF VerdictOn
    <2> QED
        BY <2>2, <2>3
<1>7. Ready(d)
    BY <1>1, <1>2, <1>5, <1>6
    DEF Ready, TrialDecides, StepsLeft, stateNeedsTrial, stateNeedsApproval, Outcomes
<1> QED
    BY <1>7 DEF d

LEMMA ReviewEthicsReady ==
    ASSUME NEW c \in Case, Sound(c), Ready(c), NEW reviewer \in Actors,
           NEW approve \in BOOLEAN, CanReviewEthics(c, reviewer),
           ReviewEthics(c, reviewer, approve) \in Case,
           Sound(ReviewEthics(c, reviewer, approve))
    PROVE  Ready(ReviewEthics(c, reviewer, approve))
<1> DEFINE d == ReviewEthics(c, reviewer, approve)
           n == CurrentVersion(c)
           plan == [c.plans[n] EXCEPT !.reviewer = reviewer,
                                      !.decision = IF approve THEN "approve" ELSE "return",
                                      !.status = IF approve THEN "approved" ELSE "returned"]
<1>1. c.plans \in Seq(Plan) /\ n \in 1..Len(c.plans) /\ n = Len(c.plans)
    BY CaseFields DEF CanReviewEthics, HasStatus, CurrentVersion
<1>2. /\ d.plans = [c.plans EXCEPT ![n] = plan] /\ d.trials = c.trials
      /\ d.state = IF approve THEN "approved" ELSE "plan_draft"
      /\ d.checkpoints = c.checkpoints /\ c.state = "trial_passed"
    BY DEF ReviewEthics, CanReviewEthics, Case
<1>3. c.plans[n] \in Plan
    <2> HIDE DEF n
    <2> QED BY <1>1
<1>4. /\ plan.status = IF approve THEN "approved" ELSE "returned"
      /\ plan.decision = IF approve THEN "approve" ELSE "return"
    <2> HIDE DEF n
    <2> QED BY <1>3 DEF Plan
<1> HIDE DEF d, plan
<1>5. CurrentVersion(d) = n /\ d.plans[n] = plan /\ n > 0
    <2> HIDE DEF n
    <2> QED BY <1>1, <1>2 DEF CurrentVersion
<1>6. PassedTrial(c)
    BY <1>2 DEF Ready, TrialDecides, stateNeedsTrial
<1>7. PassedTrial(d)
    BY <1>2, <1>5, <1>6 DEF PassedTrial
<1>8. TrialDecides(d)
    BY <1>2, <1>4, <1>5, <1>7 DEF TrialDecides, HasStatus, stateNeedsTrial, stateNeedsApproval
<1>9. StepsLeft(d)
    <2>1. CASE approve
        <3>1. d \in Case /\ Sound(d)
            BY DEF d
        <3>2. d.state = "approved"
            BY <2>1, <1>2
        <3>3. c.checkpoints = <<>>
            BY <1>2, NoCheckpoints DEF Sound, stateNeedsApproval
        <3>4. Len(d.checkpoints) = 0
            BY <1>2, <3>3, EmptySeq
        <3>5. ApprovedPlan(d) = d.plans[n] /\ n \in DOMAIN d.plans
            BY <1>1, <1>2, <1>5, <3>1, <3>2, ApprovedPlanIsLast DEF Sound, stateNeedsApproval
        <3>6. d.plans[n].status = "approved"
            BY <2>1, <1>4, <1>5
        <3>7. Len(ApprovedPlan(d).steps) > 0
            BY <3>1, <3>5, <3>6 DEF Sound, ValidateSnapshot, validatePlanSnapshot, ValidatePlan
        <3> QED
            BY <3>2, <3>4, <3>7 DEF StepsLeft
    <2>2. CASE ~approve
        BY <2>2, <1>2 DEF StepsLeft
    <2> QED
        BY <2>1, <2>2
<1>10. Verdicts(d)
    <2> SUFFICES ASSUME NEW v \in DOMAIN c.plans PROVE VerdictOn(d, v)
        BY <1>2 DEF Verdicts
    <2>1. VerdictOn(c, v) /\ CurrentVersion(c) = n
        BY DEF Ready, Verdicts
    <2>2. d.state # "trial_passed"
        BY <1>2
    <2>3. CASE v = n
        <3>1. PassedOf(d, v)
            BY <2>3, <1>5, <1>7 DEF PassedOf, PassedTrial
        <3> QED
            BY <2>2, <2>3, <3>1, <1>4, <1>5 DEF VerdictOn
    <2>4. CASE v # n
        <3> HIDE DEF n
        <3>1. d.plans[v] = c.plans[v]
            BY <2>4, <1>1, <1>2
        <3> QED
            BY <2>1, <2>2, <2>4, <3>1, <1>2, <1>5 DEF VerdictOn, PassedOf
    <2> QED
        BY <2>3, <2>4
<1> QED
    BY <1>8, <1>9, <1>10 DEF Ready, d

LEMMA ApprovedShape ==
    ASSUME NEW c \in Case, ApprovedIsCurrent(c), c.state \in stateNeedsApproval
    PROVE  /\ ApprovedVersions(c) # {}
           /\ Len(ApprovedPlan(c).steps) \in Nat
           /\ DOMAIN ApprovedPlan(c).steps = 1..Len(ApprovedPlan(c).steps)
           /\ \A i \in DOMAIN ApprovedPlan(c).steps :
                 ApprovedPlan(c).steps[i] \subseteq Params
<1>1. ApprovedVersions(c) # {} /\ ApprovedPlan(c) \in Plan
    BY ApprovedPlanIsLast
<1>2. ApprovedPlan(c).steps \in Seq(SUBSET Params)
    BY <1>1 DEF Plan
<1> QED
    BY <1>1, <1>2

LEMMA CompleteCheckpointReady ==
    ASSUME NEW c \in Case, Sound(c), Ready(c), NEW step \in Nat, NEW operator \in Actors,
           NEW readings, CanCompleteCheckpoint(c, step, readings)
    PROVE  Ready(CompleteCheckpoint(c, step, operator, readings))
<1> DEFINE d == CompleteCheckpoint(c, step, operator, readings)
           off == Deviated(c, step, readings)
           cp == [step |-> step, operator |-> operator,
                  outcome |-> IF off THEN "deviation" ELSE "completed",
                  verifiedBy |-> NoOne]
<1>1. /\ d.state = (IF off THEN "paused" ELSE AfterStep(c, step))
      /\ c.state \in {"approved", "treating"} /\ d.plans = c.plans /\ d.trials = c.trials
      /\ d.checkpoints = Append(c.checkpoints, cp)
    BY DEF CompleteCheckpoint, CanCompleteCheckpoint, Case
<1> HIDE DEF d, off, cp
<1>2. ApprovedPlan(d) = ApprovedPlan(c)
    BY <1>1, PlansFrame
<1>3. Len(d.checkpoints) = step /\ step <= Len(ApprovedPlan(c).steps)
    BY <1>1, CaseFields DEF CanCompleteCheckpoint
<1>4. Len(ApprovedPlan(c).steps) \in Nat
    BY <1>1, ApprovedShape DEF Sound, stateNeedsApproval
<1>5. TrialDecides(d)
    BY <1>1, TrialDecidesFrame DEF Ready, AfterStep, stateNeedsTrial, stateNeedsApproval
<1>6. StepsLeft(d)
    BY <1>1, <1>2, <1>3, <1>4 DEF StepsLeft, AfterStep
<1>7. Verdicts(d)
    BY <1>1, VerdictsFrame DEF Ready, AfterStep
<1> QED
    BY <1>5, <1>6, <1>7 DEF Ready, d

LEMMA ResolveDeviationReady ==
    ASSUME NEW c \in Case, Sound(c), Ready(c), NEW verifier \in Actors,
           CanResolveDeviation(c, verifier)
    PROVE  Ready(ResolveDeviation(c, verifier))
<1> DEFINE d == ResolveDeviation(c, verifier)
           n == Len(c.checkpoints)
           cp == [c.checkpoints[n] EXCEPT !.verifiedBy = verifier, !.outcome = "remediated"]
<1>1. c.checkpoints \in Seq(Checkpoint) /\ n \in 1..n
    BY CaseFields, PausedHasCheckpoint DEF CanResolveDeviation, Sound
<1>2. /\ d.state = AfterStep(c, c.checkpoints[n].step)
      /\ c.state = "paused" /\ d.plans = c.plans /\ d.trials = c.trials
      /\ d.checkpoints = [c.checkpoints EXCEPT ![n] = cp]
    BY DEF ResolveDeviation, CanResolveDeviation, Case
<1>3. c.checkpoints[n].step = n /\ n <= Len(ApprovedPlan(c).steps)
    BY <1>1 DEF Sound, ValidateSnapshot, validateCheckpointSnapshot
<1> HIDE DEF d, cp
<1>4. ApprovedPlan(d) = ApprovedPlan(c)
    BY <1>2, PlansFrame
<1>5. Len(d.checkpoints) = n
    BY <1>1, <1>2
<1>6. Len(ApprovedPlan(c).steps) \in Nat
    BY <1>2, ApprovedShape DEF Sound, stateNeedsApproval
<1>7. TrialDecides(d)
    BY <1>2, TrialDecidesFrame DEF Ready, AfterStep, stateNeedsTrial, stateNeedsApproval
<1> HIDE DEF n
<1>8. StepsLeft(d)
    BY <1>1, <1>2, <1>3, <1>4, <1>5, <1>6 DEF StepsLeft, AfterStep
<1>9. Verdicts(d)
    BY <1>2, VerdictsFrame DEF Ready, AfterStep
<1> QED
    BY <1>7, <1>8, <1>9 DEF Ready, d

-----------------------------------------------------------------------------
(* The inductive invariant.                                                *)

LEMMA InitReady == Init => Ready(case)
<1> SUFFICES ASSUME NEW required \in SUBSET Regions, NEW custodian \in Actors,
                    case = CreateCase(required, custodian)
             PROVE  Ready(case)
    BY DEF Init
<1> QED
    BY DEF CreateCase, Ready, TrialDecides, PassedTrial, HasStatus, CurrentVersion,
           StepsLeft, Verdicts, stateNeedsTrial, stateNeedsApproval

LEMMA NextReady == IInv /\ Ready(case) /\ IInv' /\ [Next]_case => Ready(case')
<1> SUFFICES ASSUME case \in Case, Sound(case), Ready(case),
                    case' \in Case, Sound(case'), [Next]_case
             PROVE  Ready(case')
    BY DEF IInv, TypeOK
<1>1. CASE Condition
    <2> PICK region \in Regions :
            CanAddCondition(case, region) /\ case' = AddCondition(case, region)
        BY <1>1 DEF Condition
    <2>1. /\ case'.plans = case.plans /\ case'.trials = case.trials
          /\ case.state = "draft" /\ case'.state = "draft"
        BY DEF CanAddCondition, AddCondition, Case
    <2> QED
        BY <2>1, TrialDecidesFrame, VerdictsFrame DEF Ready, StepsLeft
<1>2. CASE Lock
    <2>1. /\ case'.plans = case.plans /\ case'.trials = case.trials
          /\ case.state = "draft" /\ case'.state = "baseline_locked"
        BY <1>2 DEF Lock, CanLockBaseline, LockBaseline, Case
    <2> QED
        BY <2>1, TrialDecidesFrame, VerdictsFrame DEF Ready, StepsLeft, stateNeedsTrial, stateNeedsApproval
<1>3. CASE Save
    <2> PICK body \in PlanBodies : CanSavePlan(case) /\ case' = SavePlan(case, body)
        BY <1>3 DEF Save
    <2> QED
        BY PlanBodiesAssumption, SavePlanReady
<1>4. CASE Submit
    BY <1>4, SubmitPlanReady DEF Submit
<1>5. CASE RecordTrial
    <2> PICK version \in 1..MaxPlans, outcome \in Outcomes :
            CanAddTrial(case, version) /\ case' = AddTrial(case, version, outcome)
        BY <1>5 DEF RecordTrial
    <2>1. version \in Nat
        BY CaseFields DEF CanAddTrial, CurrentVersion
    <2> QED
        BY <2>1, AddTrialReady
<1>6. CASE Review
    BY <1>6, ReviewEthicsReady DEF Review
<1>7. CASE Complete
    <2> PICK step \in 1..(Len(case.checkpoints) + 1), operator \in Actors, readings \in Readings :
            /\ CanCompleteCheckpoint(case, step, readings)
            /\ case' = CompleteCheckpoint(case, step, operator, readings)
        BY <1>7 DEF Complete
    <2> QED
        BY CaseFields, CompleteCheckpointReady
<1>8. CASE Resolve
    BY <1>8, ResolveDeviationReady DEF Resolve
<1>9. CASE RecordStability
    <2> PICK hours \in Hours, outcome \in Outcomes :
            CanAddStability(case) /\ case' = AddStability(case, hours, outcome)
        BY <1>9 DEF RecordStability
    <2>1. /\ case'.plans = case.plans /\ case'.trials = case.trials
          /\ case.state \in {"treated", "stable"} /\ case'.state \in {"treated", "stable"}
        BY DEF CanAddStability, AddStability, Case
    <2> QED
        BY <2>1, TrialDecidesFrame, VerdictsFrame DEF Ready, StepsLeft, stateNeedsTrial, stateNeedsApproval
<1>10. CASE Release
    <2> PICK reviewer \in Actors \cup {NoOne} :
            ReleaseEligible(case, reviewer) /\ case' = ReleaseCase(case, reviewer)
        BY <1>10 DEF Release
    <2>1. /\ case'.plans = case.plans /\ case'.trials = case.trials
          /\ case.state = "stable" /\ case'.state = "released"
        BY DEF ReleaseEligible, ReleaseCase, Case
    <2> QED
        BY <2>1, TrialDecidesFrame, VerdictsFrame DEF Ready, StepsLeft, stateNeedsTrial, stateNeedsApproval
<1>11. CASE Archive
    <2> PICK manifest \in Manifests :
            CanMarkArchived(case) /\ case' = MarkArchived(case, manifest)
        BY <1>11 DEF Archive
    <2>1. /\ case'.plans = case.plans /\ case'.trials = case.trials
          /\ case.state = "released" /\ case'.state = "archived"
        BY DEF CanMarkArchived, MarkArchived, Case
    <2> QED
        BY <2>1, TrialDecidesFrame, VerdictsFrame DEF Ready, StepsLeft, stateNeedsTrial, stateNeedsApproval
<1>12. CASE UNCHANGED case
    BY <1>12 DEF Ready
<1> QED
    BY <1>1, <1>2, <1>3, <1>4, <1>5, <1>6, <1>7, <1>8, <1>9, <1>10, <1>11, <1>12 DEF Next

THEOREM ReportsInductive == Spec => []RInv
<1>1. Init => RInv
    BY InitInv, InitReady DEF RInv
<1>2. RInv /\ [Next]_case => RInv'
    BY NextInv, NextReady DEF RInv
<1> QED
    BY <1>1, <1>2, PTL DEF Spec

-----------------------------------------------------------------------------
(* The plan history and the trials.                                        *)

LEMMA SomeTrial ==
    ASSUME NEW version, NEW outcomes
    PROVE  TrialsOf(case, version, outcomes) # {} <=>
              \E i \in DOMAIN case.trials : case.trials[i].version = version
                                            /\ case.trials[i].outcome \in outcomes
BY DEF TrialsOf

\* A trial equals the record of its fields.
LEMMA TrialIs ==
    ASSUME NEW c \in Case, NEW i \in DOMAIN c.trials, NEW v
    PROVE  c.trials[i].version = v /\ c.trials[i].outcome = "passed"
           <=> c.trials[i] = [version |-> v, outcome |-> "passed"]
<1>1. c.trials[i] \in Trial
    BY CaseFields
<1>2. \A t \in Trial : t = [version |-> t.version, outcome |-> t.outcome]
    BY DEF Trial
<1>3. c.trials[i] = [version |-> c.trials[i].version, outcome |-> c.trials[i].outcome]
    BY <1>1, <1>2
<1> QED
    BY <1>3

LEMMA HistoryIs == RInv => HistoryAgrees
<1> SUFFICES ASSUME case \in Case, Sound(case), Ready(case), NEW v \in DOMAIN PlanHistory(case)
             PROVE  LET h == PlanHistory(case)[v]
                    IN  /\ h.decision = "approve" <=> h.approved
                        /\ h.decision = "return" <=> h.status = "returned"
                        /\ h.approved => ExecutionStatus(case).total = Len(case.plans[v].steps)
                        /\ h.decision # "none" <=>
                              /\ TrialSummary(case, v).gate = "passed"
                              /\ h.current => case.state # "trial_passed"
    BY DEF RInv, IInv, TypeOK, HistoryAgrees
<1> DEFINE h == PlanHistory(case)[v]
<1>1. /\ v \in DOMAIN case.plans
      /\ h.approved <=> v = ApprovedVersion(case)
      /\ h.decision = Decision(case.plans[v])
      /\ h.status = case.plans[v].status
      /\ h.current <=> v = CurrentVersion(case)
    BY DEF PlanHistory
<1>2. case.plans \in Seq(Plan) /\ v \in Nat \ {0}
    BY <1>1, CaseFields
<1>3. case.plans[v] \in Plan
    BY <1>1, <1>2
<1>4. VerdictOn(case, v)
    BY <1>1 DEF Ready, Verdicts
<1>5. h.decision = case.plans[v].decision
    BY <1>1, <1>3, <1>4 DEF Decision, VerdictOn, Plan
<1>6. h.decision = "approve" <=> v \in ApprovedVersions(case)
    BY <1>1, <1>4, <1>5 DEF ApprovedVersions, VerdictOn
<1>7. TrialSummary(case, v).gate = "passed" <=> PassedOf(case, v)
    <2>1. TrialSummary(case, v).gate = "passed" <=> TrialsOf(case, v, {"passed"}) # {}
        BY DEF TrialSummary
    <2> QED
        BY <2>1, SomeTrial, TrialIs DEF PassedOf
<1>8. h.decision # "none" <=>
         /\ TrialSummary(case, v).gate = "passed"
         /\ h.current => case.state # "trial_passed"
    <2>1. h.decision # "none" <=>
             PassedOf(case, v) /\ (v = CurrentVersion(case) => case.state # "trial_passed")
        BY <1>4, <1>5 DEF VerdictOn
    <2>2. h.current <=> v = CurrentVersion(case)
        BY <1>1
    <2> HIDE DEF h
    <2> QED
        BY ONLY <1>7, <2>1, <2>2
<1>9. h.decision = "return" <=> h.status = "returned"
    BY <1>1, <1>4, <1>5 DEF VerdictOn
<1>10. /\ h.decision = "approve" <=> h.approved
       /\ h.approved => ExecutionStatus(case).total = Len(case.plans[v].steps)
    <2>1. CASE ApprovedVersions(case) = {}
        BY <1>1, <1>2, <1>6, <2>1 DEF ApprovedVersion
    <2>2. CASE ApprovedVersions(case) # {}
        <3>1. /\ ApprovedVersions(case) = {CurrentVersion(case)}
              /\ CurrentVersion(case) \in 1..Len(case.plans)
              /\ ApprovedPlan(case) = case.plans[CurrentVersion(case)]
            BY <2>2, ApprovedPlanIsLast DEF Sound, ApprovedIsCurrent
        <3>2. ApprovedVersion(case) = CurrentVersion(case)
            BY <3>1 DEF ApprovedVersion, Max
        <3>3. ExecutionStatus(case).total = Len(ApprovedPlan(case).steps)
            BY <2>2 DEF ExecutionStatus
        <3> QED
            BY <1>1, <1>6, <3>1, <3>2, <3>3
    <2> QED
        BY <2>1, <2>2
<1> QED
    BY ONLY <1>8, <1>9, <1>10

LEMMA TrialGateIs == RInv => TrialGateAgrees
<1> SUFFICES ASSUME case \in Case, Ready(case) PROVE TrialGateAgrees
    BY DEF RInv, IInv, TypeOK
<1>1. case.trials \in Seq(Trial)
    BY CaseFields
<1>2. \A i \in DOMAIN case.trials :
         case.trials[i].version = CurrentVersion(case) /\ case.trials[i].outcome = "passed"
         <=> case.trials[i] = [version |-> CurrentVersion(case), outcome |-> "passed"]
    BY TrialIs
<1>3. PassedTrial(case) <=> TrialsOf(case, CurrentVersion(case), {"passed"}) # {}
    BY <1>2, SomeTrial DEF PassedTrial
<1>4. \A version \in DOMAIN TrialSummaries(case) :
         /\ TrialSummaries(case)[version].expired <=> version # CurrentVersion(case)
         /\ TrialSummaries(case)[version].gate = "passed" <=>
               TrialsOf(case, version, {"passed"}) # {}
    BY DEF TrialSummaries, TrialSummary, Expired
<1>5. PassedTrial(case) => CurrentVersion(case) \in DOMAIN TrialSummaries(case)
    BY <1>2 DEF PassedTrial, TrialSummaries
<1>6. TrialGate(case) = "passed" <=> PassedTrial(case)
    BY <1>3, <1>4, <1>5 DEF TrialGate
<1> QED
    BY <1>6 DEF Ready, TrialDecides, TrialGateAgrees

-----------------------------------------------------------------------------
(* The treatment.                                                          *)

\* The readings of every parameter within tolerance.
LEMMA CanReadStep ==
    ASSUME NEW c \in Case, Sound(c), c.state \in {"approved", "treating"},
           Len(c.checkpoints) < Len(ApprovedPlan(c).steps), UsableParams = Params
    PROVE  \E readings \in Readings :
               CanCompleteCheckpoint(c, Len(c.checkpoints) + 1, readings)
<1> DEFINE step == Len(c.checkpoints) + 1
           names == ApprovedPlan(c).steps[step]
           readings == [p \in names |-> "within"]
<1>1. c.state \in stateNeedsApproval
    BY DEF stateNeedsApproval
<1>2. /\ ApprovedVersions(c) = {CurrentVersion(c)}
      /\ CurrentVersion(c) \in 1..Len(c.plans)
      /\ ApprovedPlan(c) = c.plans[CurrentVersion(c)]
    BY <1>1, ApprovedPlanIsLast DEF Sound
<1>3. step \in DOMAIN ApprovedPlan(c).steps
    BY <1>1, ApprovedShape, CaseFields DEF Sound
<1>4. names \subseteq Params
    BY <1>1, <1>3, ApprovedShape DEF Sound
<1>5. names # {}
    <2>1. CurrentVersion(c) \in ApprovedVersions(c)
        BY <1>2
    <2>2. CurrentVersion(c) \in DOMAIN c.plans
          /\ c.plans[CurrentVersion(c)].status = "approved"
        BY <2>1 DEF ApprovedVersions
    <2>3. ValidatePlan(ApprovedPlan(c))
        BY <1>2, <2>2 DEF Sound, ValidateSnapshot, validatePlanSnapshot
    <2> QED
        BY <1>3, <2>3 DEF ValidatePlan
<1>6. readings \in Readings /\ DOMAIN readings = names
    <2> HIDE DEF names
    <2> QED BY <1>4 DEF Readings
<1>7. step <= Len(ApprovedPlan(c).steps)
    BY <1>1, <1>3, ApprovedShape DEF Sound
<1> HIDE DEF readings
<1>8. CanCompleteCheckpoint(c, step, readings)
    BY <1>1, <1>2, <1>4, <1>5, <1>6, <1>7, ApprovedShape
    DEF Sound, CanCompleteCheckpoint, ValidateParameters
<1> QED
    BY <1>6, <1>8

LEMMA NextStepIs ==
    ASSUME UsableParams = Params PROVE RInv => NextStepAgrees
<1> SUFFICES ASSUME case \in Case, Sound(case), Ready(case),
                    NEW step \in 1..(Len(case.checkpoints) + 1)
             PROVE  ExecutionStatus(case).next = step <=>
                       \E readings \in Readings : CanCompleteCheckpoint(case, step, readings)
    BY DEF RInv, IInv, TypeOK, NextStepAgrees
<1>1. Len(case.checkpoints) \in Nat
    BY CaseFields
<1>2. \A readings \in Readings : CanCompleteCheckpoint(case, step, readings) =>
         case.state \in {"approved", "treating"} /\ step = Len(case.checkpoints) + 1
    BY DEF CanCompleteCheckpoint
<1>3. CASE ApprovedVersions(case) = {}
    <2>1. ExecutionStatus(case).next = 0
        BY <1>3 DEF ExecutionStatus
    <2> QED
        BY <1>3, <2>1 DEF CanCompleteCheckpoint
<1>4. CASE ApprovedVersions(case) # {}
    <2> DEFINE total == Len(ApprovedPlan(case).steps)
    <2>1. case.state \in stateNeedsApproval
        BY <1>4 DEF Sound, ApprovedIsCurrent
    <2>2. total \in Nat
        BY <2>1, ApprovedShape DEF Sound
    <2>3. ExecutionStatus(case).next = NextStep(case, total)
        BY <1>4 DEF ExecutionStatus
    <2> HIDE DEF total
    <2>4. CASE case.state \in {"approved", "treating"}
        <3>1. Len(case.checkpoints) < total
            BY <2>4 DEF Ready, StepsLeft, total
        <3>2. ExecutionStatus(case).next = Len(case.checkpoints) + 1
            BY <2>3, <2>4, <3>1 DEF NextStep
        <3>3. \E readings \in Readings :
                 CanCompleteCheckpoint(case, Len(case.checkpoints) + 1, readings)
            BY <2>4, <3>1, CanReadStep DEF total
        <3> QED
            BY <1>2, <3>2, <3>3
    <2>5. CASE case.state = "paused"
        BY <1>2, <2>3, <2>5 DEF NextStep
    <2>6. CASE case.state \in isTreatmentComplete
        <3>1. Len(case.checkpoints) = total
            BY <2>6 DEF Sound, ValidateSnapshot, validateCheckpointSnapshot, total
        <3>2. ExecutionStatus(case).next = 0
            BY <2>2, <2>3, <3>1 DEF NextStep
        <3> QED
            BY <1>2, <2>6, <3>2 DEF isTreatmentComplete
    <2> QED
        BY <2>1, <2>4, <2>5, <2>6 DEF stateNeedsApproval, isTreatmentComplete
<1> QED
    BY <1>3, <1>4

LEMMA ProgressIs == RInv => ProgressAgrees
<1> SUFFICES ASSUME case \in Case, Sound(case), Ready(case) PROVE ProgressAgrees
    BY DEF RInv, IInv, TypeOK
<1> DEFINE n == Len(case.checkpoints)
           done == CompletedSteps(case)
           open == PendingDeviations(case)
           pending == ExecutionStatus(case).pending
<1>1. /\ n \in Nat /\ DOMAIN case.checkpoints = 1..n
      /\ \A i \in 1..n : case.checkpoints[i] \in Checkpoint
    BY CaseFields
<1>2. done \cup open = 1..n /\ done \cap open = {}
    BY <1>1 DEF CompletedSteps, PendingDeviations, StepDone, Checkpoint
<1>3. /\ IsFiniteSet(done) /\ IsFiniteSet(open)
      /\ Cardinality(done) \in Nat /\ Cardinality(open) \in Nat
      /\ Cardinality(done) + Cardinality(open) = n
    <2> HIDE DEF n, done, open
    <2>1. IsFiniteSet(1..n) /\ Cardinality(1..n) = n
        BY <1>1, FS_Interval
    <2>2. IsFiniteSet(done) /\ IsFiniteSet(open)
        BY <1>2, <2>1, FS_Subset
    <2>3. Cardinality(done \cup open) =
             Cardinality(done) + Cardinality(open) - Cardinality(done \cap open)
        BY <2>2, FS_Union
    <2>4. Cardinality({}) = 0 /\ Cardinality(done) \in Nat /\ Cardinality(open) \in Nat
        BY <2>2, FS_EmptySet, FS_CardinalityType
    <2>5. Cardinality(done \cup open) = n
        BY <1>2, <2>1
    <2>6. Cardinality(done \cap open) = 0
        BY <1>2, <2>4
    <2> QED
        BY <2>2, <2>3, <2>4, <2>5, <2>6
<1>4. \A i \in open : i = n /\ case.state = "paused" /\ ApprovedVersions(case) # {}
    BY <1>1 DEF PendingDeviations, Sound, OneOpenDeviation
<1>5. case.state = "paused" <=> open # {}
    BY <1>1 DEF PendingDeviations, Sound, OneOpenDeviation
<1>6. CASE ApprovedVersions(case) = {}
    <2>1. case.state \notin stateNeedsApproval
        BY <1>6 DEF Sound, ApprovedIsCurrent
    <2>2. n = 0
        BY <2>1, NoCheckpoints, EmptySeq DEF Sound
    <2>3. /\ ExecutionStatus(case).total = 0 /\ ExecutionStatus(case).completed = 0
          /\ pending = {}
        BY <1>6 DEF ExecutionStatus
    <2>4. Cardinality(pending) = 0
        BY <2>3, FS_EmptySet
    <2> QED
        BY <2>1, <2>2, <2>3, <2>4 DEF ProgressAgrees, stateNeedsApproval, isTreatmentComplete
<1>7. CASE ApprovedVersions(case) # {}
    <2> DEFINE total == Len(ApprovedPlan(case).steps)
    <2>1. case.state \in stateNeedsApproval
        BY <1>7 DEF Sound, ApprovedIsCurrent
    <2>2. total \in Nat
        BY <2>1, ApprovedShape DEF Sound
    <2>3. /\ ExecutionStatus(case).total = total
          /\ ExecutionStatus(case).completed = Cardinality(done)
          /\ pending = {case.checkpoints[i].step : i \in open}
        BY <1>7 DEF ExecutionStatus
    <2>4. \A i \in 1..n : case.checkpoints[i].step = i
        BY <1>1 DEF Sound, ValidateSnapshot, validateCheckpointSnapshot
    <2>5. pending = open
        BY <1>1, <2>3, <2>4 DEF PendingDeviations
    <2>6. case.state \in isTreatmentComplete => total > 0 /\ n = total /\ open = {}
        <3> SUFFICES ASSUME case.state \in isTreatmentComplete
                     PROVE  total > 0 /\ n = total /\ open = {}
            OBVIOUS
        <3>1. n = total
            BY DEF Sound, ValidateSnapshot, validateCheckpointSnapshot
        <3>2. /\ CurrentVersion(case) \in ApprovedVersions(case)
              /\ ApprovedPlan(case) = case.plans[CurrentVersion(case)]
            BY <2>1, ApprovedPlanIsLast DEF Sound
        <3>3. ValidatePlan(ApprovedPlan(case))
            BY <3>2 DEF ApprovedVersions, Sound, ValidateSnapshot, validatePlanSnapshot
        <3> QED
            BY <1>5, <3>1, <3>3 DEF ValidatePlan, isTreatmentComplete
    <2>7. n <= total
        <3>1. n = 0 \/ n \in DOMAIN case.checkpoints
            BY <1>1
        <3> QED
            BY <2>2, <3>1 DEF Sound, ValidateSnapshot, validateCheckpointSnapshot
    <2>8. case.state \in {"approved", "treating"} => n < total
        BY DEF Ready, StepsLeft
    <2>9. open = {} <=> Cardinality(open) = 0
        BY <1>3, FS_EmptySet
    <2> HIDE DEF n, done, open, total, pending
    <2>10. total > 0 /\ Cardinality(done) = total <=> case.state \in isTreatmentComplete
        BY <1>3, <1>5, <2>1, <2>2, <2>6, <2>7, <2>8, <2>9
        DEF stateNeedsApproval, isTreatmentComplete
    <2> QED
        BY <1>3, <1>5, <2>3, <2>5, <2>10 DEF ProgressAgrees, n, pending
<1> QED
    BY <1>6, <1>7

-----------------------------------------------------------------------------
(* Stability and release, the baseline, and progress of the workflow.      *)

LEMMA EligibilityIs == RInv => EligibilityAgrees
<1> SUFFICES ASSUME case \in Case, Sound(case) PROVE EligibilityAgrees
    BY DEF RInv, IInv, TypeOK
<1>1. case.release # NoOne <=> case.state \in {"released", "archived"}
    BY DEF Sound, SignedIsReleased
<1>2. StabilityReport(case).eligible <=> case.state \in {"stable", "released", "archived"}
    BY <1>1 DEF StabilityReport, Eligible
<1>3. \A reviewer : case.state # "stable" => PrecheckError(case, reviewer) = "conflict"
    BY DEF PrecheckError, PrecheckReasons
<1>4. NoOne \notin Operators(case)
    <2>1. \A i \in DOMAIN case.checkpoints : case.checkpoints[i] \in Checkpoint
        BY CaseFields
    <2> QED
        BY <2>1, NoOneAssumption DEF Operators, Checkpoint
<1>5. \A reviewer : case.state = "stable" =>
         PrecheckError(case, reviewer) = IF reviewer = NoOne THEN "invalid"
                                         ELSE IF reviewer \in Operators(case) THEN "forbidden"
                                         ELSE "none"
    <2> SUFFICES ASSUME NEW reviewer, case.state = "stable"
                 PROVE  PrecheckError(case, reviewer) =
                            IF reviewer = NoOne THEN "invalid"
                            ELSE IF reviewer \in Operators(case) THEN "forbidden"
                            ELSE "none"
        OBVIOUS
    <2>1. CASE reviewer = NoOne
        <3>1. PrecheckReasons(case, reviewer) = {"missing_reviewer"}
            BY <2>1, <1>4 DEF PrecheckReasons
        <3> QED
            BY <2>1, <3>1 DEF PrecheckError
    <2>2. CASE reviewer # NoOne /\ reviewer \in Operators(case)
        <3>1. PrecheckReasons(case, reviewer) = {"duty_conflict"}
            BY <2>2 DEF PrecheckReasons
        <3> QED
            BY <2>2, <3>1 DEF PrecheckError
    <2>3. CASE reviewer # NoOne /\ reviewer \notin Operators(case)
        <3>1. PrecheckReasons(case, reviewer) = {}
            BY <2>3 DEF PrecheckReasons
        <3> QED
            BY <2>3, <3>1 DEF PrecheckError
    <2> QED
        BY <2>1, <2>2, <2>3
<1> QED
    BY <1>1, <1>2, <1>3, <1>5, NoOneAssumption DEF EligibilityAgrees, ReleaseEligible

\* The rounded percentage is 100.0 for the whole only, as long as a part of
\* 2000 is more than half a tenth of a percent.
LEMMA HundredPercent ==
    ASSUME NEW part \in Nat, NEW whole \in Nat \ {0}, part <= whole, whole < 2000
    PROVE  Percentage(part, whole) = 1000 <=> part = whole
<1> DEFINE top == 2000 * part + whole
           q == top \div (2 * whole)
<1>1. Percentage(part, whole) = q
    BY DEF Percentage
<1>2. q \in Int /\ (2 * whole) * q <= top /\ top < (2 * whole) * q + 2 * whole
    OBVIOUS
<1> HIDE DEF q
<1>3. CASE part = whole
    BY <1>1, <1>2, <1>3
<1>4. CASE part < whole
    BY <1>1, <1>2, <1>4
<1> QED
    BY <1>3, <1>4

LEMMA CoverageIs ==
    ASSUME IsFiniteSet(Regions) PROVE RInv => CoverageAgrees
<1> SUFFICES ASSUME case \in Case, Sound(case) PROVE CoverageAgrees
    BY DEF RInv, IInv, TypeOK
<1> DEFINE all == Cardinality(case.required)
           covered == case.required \cap Recorded(case)
<1>1. case.required \in SUBSET Regions /\ case.required # {}
    BY CaseFields DEF Sound, ValidateSnapshot
<1>2. Recorded(case) \subseteq case.required
    BY DEF Sound, ValidateSnapshot, validateConditionSnapshot
<1>3. {region \in Regions : CanAddCondition(case, region)} =
         IF case.state = "draft" THEN case.required \ Recorded(case) ELSE {}
    BY <1>1 DEF CanAddCondition
<1>4. case.state # "draft" => case.required \ Recorded(case) = {}
    BY DEF Sound, ValidateSnapshot, validateConditionSnapshot
<1>5. Duplicated(case) = {}
    BY DEF Duplicated, Sound, ValidateSnapshot, validateConditionSnapshot
<1>6. /\ IsFiniteSet(case.required) /\ all \in Nat \ {0}
      /\ Cardinality(covered) \in Nat /\ Cardinality(covered) <= all
      /\ Cardinality(covered) = all <=> covered = case.required
    <2>1. IsFiniteSet(case.required)
        BY <1>1, FS_Subset
    <2>2. all \in Nat /\ all # 0
        BY <1>1, <2>1, FS_CardinalityType, FS_EmptySet
    <2>3. IsFiniteSet(covered) /\ Cardinality(covered) \in Nat
          /\ Cardinality(covered) <= all
          /\ (Cardinality(covered) = all => covered = case.required)
        BY <2>1, FS_Subset, FS_CardinalityType
    <2> QED
        BY <2>1, <2>2, <2>3
<1>7. all < 2000 =>
         (Percentage(Cardinality(covered), all) = 1000 <=> case.required \ Recorded(case) = {})
    <2>1. case.required \ Recorded(case) = {} <=> covered = case.required
        OBVIOUS
    <2> HIDE DEF all, covered
    <2>2. all < 2000 =>
             (Percentage(Cardinality(covered), all) = 1000 <=> Cardinality(covered) = all)
        BY <1>6, HundredPercent
    <2> QED
        BY <1>6, <2>1, <2>2
<1>8. /\ CoverageReport(case).readOnly <=> case.state # "draft"
      /\ CoverageReport(case).missing = case.required \ Recorded(case)
      /\ CoverageReport(case).duplicates = Duplicated(case)
      /\ CoverageReport(case).percentage = Percentage(Cardinality(covered), all)
    BY DEF CoverageReport
<1> HIDE DEF all
<1>9. {region \in Regions : CanAddCondition(case, region)} =
         IF CoverageReport(case).readOnly THEN {} ELSE CoverageReport(case).missing
    BY <1>3, <1>8
<1>10. all < 2000 =>
         (CoverageReport(case).percentage = 1000 <=> CoverageReport(case).missing = {})
    BY <1>7, <1>8
<1> QED
    BY <1>4, <1>5, <1>8, <1>9, <1>10 DEF CoverageAgrees, all

-----------------------------------------------------------------------------
(* The release stays in reach.                                             *)

\* What wrapping around does to the sum of two ints.
LEMMA WrapIs ==
    ASSUME NEW x \in Int
    PROVE  /\ Wrap(x) \in -(IntMax + 1)..IntMax
           /\ x \in -(IntMax + 1)..IntMax => Wrap(x) = x
           /\ x \in (IntMax + 1)..(3 * IntMax + 2) => Wrap(x) = x - 2 * (IntMax + 1)
<1> DEFINE m == x + IntMax + 1
           k == 2 * (IntMax + 1)
<1>1. m \in Int /\ k \in Nat \ {0} /\ m = x + IntMax + 1 /\ k = 2 * (IntMax + 1)
    BY IntMaxAssumption
<1>2. Wrap(x) = (m % k) - (IntMax + 1)
    BY DEF Wrap
<1> HIDE DEF m, k
<1>3. m % k \in 0..(k - 1)
    BY <1>1
<1>4. m \in 0..(k - 1) => m % k = m
    BY <1>1
<1>5. m \in k..(2 * k - 1) => m % k = m - k
    BY <1>1
<1> QED
    BY <1>1, <1>2, <1>3, <1>4, <1>5, IntMaxAssumption

LEMMA TotalRange ==
    ASSUME NEW observations \in Seq(Stability)
    PROVE  TotalHours(observations) \in -(IntMax + 1)..IntMax
<1> DEFINE n == Len(observations)
<1>1. PICK sum : /\ sum \in [0..n -> Int] /\ sum[0] = 0
                 /\ TotalHours(observations) = sum[n]
                 /\ \A i \in 1..n : sum[i] = Wrap(sum[i - 1] + observations[i].hours)
    BY WrappedSum
<1>2. n \in Nat
    BY LenProperties
<1>3. \A i \in 1..n : observations[i].hours \in Int
    <2>1. \A i \in 1..n : observations[i] \in Stability
        BY ElementOfSeq
    <2> QED
        BY <2>1, IntMaxAssumption DEF Stability
<1> HIDE DEF n
<1>4. CASE n = 0
    BY <1>1, <1>4, IntMaxAssumption
<1>5. CASE n > 0
    <2>1. n \in 1..n /\ sum[n - 1] \in Int
        BY <1>1, <1>2, <1>5
    <2>2. sum[n - 1] + observations[n].hours \in Int
        BY <1>3, <2>1
    <2>3. Wrap(sum[n - 1] + observations[n].hours) \in -(IntMax + 1)..IntMax
        BY <2>2, WrapIs
    <2> QED
        BY <1>1, <2>1, <2>3
<1> QED
    BY <1>2, <1>4, <1>5

LEMMA TotalOfOneMore ==
    ASSUME NEW observations \in Seq(Stability), NEW last \in Stability
    PROVE  TotalHours(Append(observations, last)) = Wrap(TotalHours(observations) + last.hours)
<1> DEFINE n == Len(observations)
           more == Append(observations, last)
<1>1. PICK old : /\ old \in [0..n -> Int] /\ old[0] = 0
                 /\ TotalHours(observations) = old[n]
                 /\ \A i \in 1..n : old[i] = Wrap(old[i - 1] + observations[i].hours)
    BY WrappedSum
<1>2. /\ n \in Nat /\ more \in Seq(Stability) /\ Len(more) = n + 1 /\ more[n + 1] = last
      /\ \A i \in 1..n : more[i] = observations[i]
    BY LenProperties, AppendProperties
<1>3. PICK new : /\ new \in [0..(n + 1) -> Int] /\ new[0] = 0
                 /\ TotalHours(more) = new[n + 1]
                 /\ \A i \in 1..(n + 1) : new[i] = Wrap(new[i - 1] + more[i].hours)
    BY <1>2, WrappedSum
<1> HIDE DEF n, more
<1> DEFINE T == {i \in 0..n : new[i] = old[i]}
<1>4. 0 \in T
    BY <1>1, <1>2, <1>3
<1>5. \A i \in 0..(n - 1) : i \in T => i + 1 \in T
    <2> SUFFICES ASSUME NEW i \in 0..(n - 1), i \in T PROVE i + 1 \in T
        OBVIOUS
    <2>1. i + 1 \in 1..n /\ i + 1 \in 1..(n + 1) /\ (i + 1) - 1 = i
        BY <1>2
    <2>2. old[i + 1] = Wrap(old[i] + observations[i + 1].hours)
        BY <1>1, <2>1
    <2>3. new[i + 1] = Wrap(new[i] + more[i + 1].hours)
        BY <1>3, <2>1
    <2> QED
        BY <1>2, <2>1, <2>2, <2>3
<1> HIDE DEF T
<1>6. n \in T
    <2>1. 0..n \subseteq T
        BY <1>2, <1>4, <1>5, BoundedInduction
    <2> QED
        BY <1>2, <2>1
<1>7. n + 1 \in 1..(n + 1) /\ (n + 1) - 1 = n
    BY <1>2
<1>8. new[n + 1] = Wrap(new[n] + last.hours)
    BY <1>2, <1>3, <1>7
<1> QED
    BY <1>1, <1>3, <1>6, <1>8 DEF T, more

\* Whatever has been observed, one or two more observations make 24 hours.
LEMMA HoursSuffice ==
    ASSUME NEW total \in -(IntMax + 1)..IntMax, IntMax >= 26
    PROVE  \E hours \in 1..IntMax : \/ Wrap(total + hours) >= 24
                                    \/ Wrap(Wrap(total + IntMax) + hours) >= 24
<1>0. IntMax \in Nat /\ total \in Int /\ Wrap(24) = 24
    BY IntMaxAssumption, WrapIs
<1>1. CASE total >= 24 - IntMax /\ total < 24
    <2>1. 24 - total \in 1..IntMax /\ total + (24 - total) = 24
        BY <1>0, <1>1
    <2> QED
        BY <1>0, <2>1
<1>2. CASE total >= 24 /\ total < IntMax
    <2>1. 1 \in 1..IntMax /\ Wrap(total + 1) = total + 1
        BY <1>0, <1>2, WrapIs
    <2> QED
        BY <1>0, <1>2, <2>1
<1>3. CASE total = IntMax
    <2>1. Wrap(total + IntMax) = -2
        <3>1. total + IntMax \in (IntMax + 1)..(3 * IntMax + 2)
            BY <1>0, <1>3
        <3> QED
            BY <1>0, <1>3, <3>1, WrapIs
    <2>2. 26 \in 1..IntMax /\ Wrap(Wrap(total + IntMax) + 26) = 24
        BY <1>0, <2>1
    <2> QED
        BY <2>2
<1>4. CASE total < 24 - IntMax
    <2>1. Wrap(total + IntMax) = total + IntMax
        BY <1>0, <1>4, WrapIs
    <2> DEFINE hours == 24 - (total + IntMax)
    <2>2. hours \in 1..IntMax /\ (total + IntMax) + hours = 24
        BY <1>0, <1>4
    <2> HIDE DEF hours
    <2>3. Wrap(Wrap(total + IntMax) + hours) = 24
        BY <1>0, <2>1, <2>2
    <2> QED
        BY <2>2, <2>3
<1> QED
    BY <1>0, <1>1, <1>2, <1>3, <1>4

LEMMA GatesLeftIs ==
    ASSUME NEW c
    PROVE  /\ c.state = "draft" => GatesLeft(c) = 8
           /\ c.state \in {"baseline_locked", "plan_draft"} =>
                 GatesLeft(c) = IF HasStatus(c, "submitted") THEN 5
                                ELSE IF CanSubmitPlan(c) THEN 6 ELSE 7
           /\ c.state = "trial_passed" => GatesLeft(c) = 4
           /\ c.state \in {"approved", "treating", "paused"} => GatesLeft(c) = 3
           /\ c.state = "treated" => GatesLeft(c) = 2
           /\ c.state = "stable" => GatesLeft(c) = 1
           /\ c.state = "released" => GatesLeft(c) = 0
BY DEF GatesLeft

LEMMA WorkLeftIs ==
    ASSUME NEW c
    PROVE  /\ c.state = "draft" => WorkLeft(c) = Cardinality(c.required \ Recorded(c))
           /\ c.state \in {"approved", "treating"} =>
                 WorkLeft(c) = 2 * (Len(ApprovedPlan(c).steps) - Len(c.checkpoints)) + 0
           /\ c.state = "paused" =>
                 WorkLeft(c) = 2 * (Len(ApprovedPlan(c).steps) - Len(c.checkpoints)) + 1
           /\ c.state \notin {"draft", "approved", "treating", "paused"} => WorkLeft(c) = 0
BY DEF WorkLeft

LEMMA ReachLock ==
    ASSUME NEW c \in Case, NEW signer, CanLockBaseline(c)
    PROVE  WayOn(c, signer)
<1> DEFINE d == LockBaseline(c)
<1>1. c.state = "draft" /\ d.state = "baseline_locked"
    BY DEF CanLockBaseline, LockBaseline, Case
<1> HIDE DEF d
<1>2. GatesLeft(d) < GatesLeft(c)
    BY <1>1, GatesLeftIs
<1> QED
    BY <1>2 DEF WayOn, Closer, d

LEMMA ReachCondition ==
    ASSUME NEW c \in Case, NEW signer, IsFiniteSet(Regions),
           NEW region \in Regions, CanAddCondition(c, region)
    PROVE  WayOn(c, signer)
<1> DEFINE d == AddCondition(c, region)
           left == c.required \ Recorded(c)
<1>1. /\ c.state = "draft" /\ d.state = "draft" /\ d.required = c.required
      /\ d.conditions = Append(c.conditions, region) /\ region \in left
    BY DEF CanAddCondition, AddCondition, Case
<1> HIDE DEF d
<1>2. Recorded(d) = Recorded(c) \cup {region}
    <2> DEFINE n == Len(c.conditions)
    <2>1. c.conditions \in Seq(Regions) /\ n \in Nat /\ DOMAIN c.conditions = 1..n
        BY CaseFields, LenProperties
    <2>2. /\ DOMAIN d.conditions = 1..(n + 1) /\ d.conditions[n + 1] = region
          /\ \A i \in 1..n : d.conditions[i] = c.conditions[i]
        BY <1>1, <2>1
    <2> HIDE DEF n
    <2>3. 1..(n + 1) = 1..n \cup {n + 1}
        BY <2>1
    <2> QED
        BY <2>1, <2>2, <2>3 DEF Recorded
<1>3. d.required \ Recorded(d) = left \ {region}
    BY <1>1, <1>2
<1>4. IsFiniteSet(left)
    <2>1. left \subseteq Regions
        BY CaseFields
    <2> QED
        BY <2>1, FS_Subset
<1> HIDE DEF left
<1>5. Cardinality(left \ {region}) = Cardinality(left) - 1 /\ Cardinality(left) \in Nat
    BY <1>1, <1>4, FS_RemoveElement, FS_CardinalityType
<1>6. WorkLeft(d) < WorkLeft(c) /\ GatesLeft(d) = GatesLeft(c)
    <2>1. WorkLeft(c) = Cardinality(left) /\ WorkLeft(d) = Cardinality(left \ {region})
        BY <1>1, <1>3, WorkLeftIs DEF left
    <2> QED
        BY <1>1, <1>5, <2>1, GatesLeftIs
<1> QED
    BY <1>6 DEF WayOn, Closer, d

LEMMA ReachSave ==
    ASSUME NEW c \in Case, NEW signer, CanSavePlan(c),
           ~HasStatus(c, "submitted"), ~CanSubmitPlan(c),
           NEW body \in PlanBodies, ValidatePlan(body)
    PROVE  WayOn(c, signer)
<1> DEFINE d == SavePlan(c, body)
           plan == [steps |-> body.steps, complete |-> body.complete,
                    status |-> "draft", decision |-> "none", reviewer |-> NoOne]
           n == Len(c.plans)
<1>1. /\ c.state \in {"baseline_locked", "plan_draft"} /\ d.state = "plan_draft"
      /\ d.plans = Append(c.plans, plan)
    BY DEF CanSavePlan, SavePlan, Case
<1>2. plan.status = "draft" /\ ValidatePlan(plan)
    BY DEF ValidatePlan
<1> HIDE DEF d, plan
<1>3. c.plans \in Seq(Plan) /\ n \in Nat
    BY CaseFields, LenProperties
<1>4. CurrentVersion(d) > 0 /\ d.plans[CurrentVersion(d)] = plan
    BY <1>1, <1>3 DEF CurrentVersion
<1>5. CanSubmitPlan(d) /\ ~HasStatus(d, "submitted")
    BY <1>1, <1>2, <1>4 DEF CanSubmitPlan, HasStatus
<1>6. GatesLeft(d) < GatesLeft(c)
    BY <1>1, <1>5, GatesLeftIs
<1> QED
    BY <1>6 DEF WayOn, Closer, d

LEMMA ReachSubmit ==
    ASSUME NEW c \in Case, NEW signer, CanSubmitPlan(c)
    PROVE  WayOn(c, signer)
<1> DEFINE d == SubmitPlan(c)
           n == CurrentVersion(c)
           plan == [c.plans[n] EXCEPT !.status = "submitted"]
<1>1. c.plans \in Seq(Plan) /\ n \in 1..Len(c.plans) /\ n = Len(c.plans)
    BY CaseFields DEF CanSubmitPlan, HasStatus, CurrentVersion
<1>2. /\ d.plans = [c.plans EXCEPT ![n] = plan]
      /\ d.state = "plan_draft" /\ c.state = "plan_draft"
    BY DEF SubmitPlan, CanSubmitPlan, Case
<1>3. plan.status = "submitted"
    <2>1. c.plans[n] \in Plan
        <3> HIDE DEF n
        <3> QED BY <1>1
    <2> HIDE DEF n
    <2> QED BY <2>1 DEF Plan
<1>4. ~HasStatus(c, "submitted")
    BY DEF CanSubmitPlan, HasStatus
<1> HIDE DEF d, plan
<1>5. HasStatus(d, "submitted")
    <2>1. CurrentVersion(d) = n /\ d.plans[n] = plan /\ n > 0
        <3> HIDE DEF n
        <3> QED BY <1>1, <1>2 DEF CurrentVersion
    <2> QED
        BY <1>3, <2>1 DEF HasStatus
<1>6. GatesLeft(d) < GatesLeft(c)
    BY <1>2, <1>4, <1>5, GatesLeftIs
<1> QED
    BY <1>6 DEF WayOn, Closer, d

LEMMA ReachTrial ==
    ASSUME NEW c \in Case, NEW signer, c.state = "plan_draft", HasStatus(c, "submitted")
    PROVE  WayOn(c, signer)
<1> DEFINE d == AddTrial(c, CurrentVersion(c), "passed")
<1>1. d.state = "trial_passed" /\ CanAddTrial(c, CurrentVersion(c)) /\ "passed" \in Outcomes
    BY DEF AddTrial, CanAddTrial, Outcomes, Case
<1> HIDE DEF d
<1>2. GatesLeft(d) < GatesLeft(c)
    BY <1>1, GatesLeftIs
<1> QED
    BY <1>1, <1>2 DEF WayOn, Closer, d

LEMMA ReachReview ==
    ASSUME NEW c \in Case, NEW signer, c.state = "trial_passed", HasStatus(c, "submitted")
    PROVE  WayOn(c, signer)
<1> DEFINE d == ReviewEthics(c, c.custodian, TRUE)
<1>1. d.state = "approved" /\ CanReviewEthics(c, c.custodian) /\ c.custodian \in Actors
    BY CaseFields DEF ReviewEthics, CanReviewEthics, Case
<1> HIDE DEF d
<1>2. GatesLeft(d) < GatesLeft(c)
    BY <1>1, GatesLeftIs
<1> QED
    BY <1>1, <1>2 DEF WayOn, Closer, d

LEMMA ReachCheckpoint ==
    ASSUME NEW c \in Case, Sound(c), Ready(c), NEW signer \in Actors, Actors # {signer},
           c.state \in {"approved", "treating"}, UsableParams = Params
    PROVE  WayOn(c, signer)
<1> DEFINE total == Len(ApprovedPlan(c).steps)
           n == Len(c.checkpoints)
           step == n + 1
<1>1. total \in Nat /\ n \in Nat /\ n < total
    BY ApprovedShape, CaseFields DEF Sound, Ready, StepsLeft, stateNeedsApproval
<1>2. PICK operator \in Actors : operator # signer
    OBVIOUS
<1>3. PICK readings \in Readings : CanCompleteCheckpoint(c, step, readings)
    BY <1>1, CanReadStep
<1> DEFINE d == CompleteCheckpoint(c, step, operator, readings)
           cp == [step |-> step, operator |-> operator,
                  outcome |-> IF Deviated(c, step, readings) THEN "deviation" ELSE "completed",
                  verifiedBy |-> NoOne]
<1>4. /\ d.plans = c.plans /\ d.checkpoints = Append(c.checkpoints, cp)
      /\ d.state \in {"paused", "treated", "treating"}
    BY DEF CompleteCheckpoint, AfterStep, Case
<1> HIDE DEF d, cp
<1>5. ApprovedPlan(d) = ApprovedPlan(c)
    BY <1>4, PlansFrame
<1>6. Len(d.checkpoints) = n + 1
    BY <1>4, CaseFields
<1> HIDE DEF total, n
<1>7. WorkLeft(c) = 2 * (total - n) + 0
    BY WorkLeftIs DEF total, n
<1>8. CASE d.state = "treated"
    <2>1. GatesLeft(d) < GatesLeft(c)
        BY <1>8, GatesLeftIs
    <2> QED
        BY <1>2, <1>3, <2>1 DEF WayOn, Closer, d, n
<1>9. CASE d.state \in {"paused", "treating"}
    <2>1. GatesLeft(d) = GatesLeft(c)
        BY <1>9, GatesLeftIs
    <2>2. WorkLeft(d) \in {2 * (total - (n + 1)) + 0, 2 * (total - (n + 1)) + 1}
        BY <1>5, <1>6, <1>9, WorkLeftIs DEF total
    <2>3. WorkLeft(d) < WorkLeft(c)
        BY <1>1, <1>7, <2>2
    <2> QED
        BY <1>2, <1>3, <2>1, <2>3 DEF WayOn, Closer, d, n
<1> QED
    BY <1>4, <1>8, <1>9

LEMMA ReachResolve ==
    ASSUME NEW c \in Case, Sound(c), NEW signer \in Actors \ Operators(c), c.state = "paused"
    PROVE  WayOn(c, signer)
<1> DEFINE d == ResolveDeviation(c, signer)
           n == Len(c.checkpoints)
           cp == [c.checkpoints[n] EXCEPT !.verifiedBy = signer, !.outcome = "remediated"]
<1>1. c.checkpoints \in Seq(Checkpoint) /\ n \in 1..n /\ n \in DOMAIN c.checkpoints
    BY CaseFields, PausedHasCheckpoint, LenProperties DEF Sound
<1>2. CanResolveDeviation(c, signer)
    BY <1>1 DEF CanResolveDeviation, Operators
<1>3. /\ d.plans = c.plans /\ d.checkpoints = [c.checkpoints EXCEPT ![n] = cp]
      /\ d.state \in {"treated", "treating"}
    BY DEF ResolveDeviation, AfterStep, Case
<1> HIDE DEF d, cp
<1>4. ApprovedPlan(d) = ApprovedPlan(c)
    BY <1>3, PlansFrame
<1>5. Len(d.checkpoints) = n
    BY <1>1, <1>3
<1>6. Len(ApprovedPlan(c).steps) \in Nat
    BY ApprovedShape DEF Sound, stateNeedsApproval
<1> HIDE DEF n
<1>7. CASE d.state = "treated"
    <2>1. GatesLeft(d) < GatesLeft(c)
        BY <1>7, GatesLeftIs
    <2> QED
        BY <1>2, <2>1 DEF WayOn, Closer, d
<1>8. CASE d.state = "treating"
    <2>1. GatesLeft(d) = GatesLeft(c)
        BY <1>8, GatesLeftIs
    <2>2. /\ WorkLeft(d) = 2 * (Len(ApprovedPlan(c).steps) - n) + 0
          /\ WorkLeft(c) = 2 * (Len(ApprovedPlan(c).steps) - n) + 1
        BY <1>4, <1>5, <1>8, WorkLeftIs DEF n
    <2>3. WorkLeft(d) < WorkLeft(c)
        BY <1>1, <1>6, <2>2
    <2> QED
        BY <1>2, <2>1, <2>3 DEF WayOn, Closer, d
<1> QED
    BY <1>3, <1>7, <1>8

LEMMA ReachStable ==
    ASSUME NEW c \in Case, NEW signer, c.state = "treated", IntMax >= 26
    PROVE  WayOn(c, signer)
<1> DEFINE total == TotalHours(c.stability)
<1>1. IntMax \in 1..IntMax /\ 1..IntMax \subseteq Int
    BY IntMaxAssumption
<1>2. c.stability \in Seq(Stability)
    BY CaseFields
<1>3. PICK hours \in 1..IntMax : \/ Wrap(total + hours) >= 24
                                 \/ Wrap(Wrap(total + IntMax) + hours) >= 24
    BY <1>2, TotalRange, HoursSuffice
<1> DEFINE one  == AddStability(c, hours, "passed")
           more == AddStability(c, IntMax, "passed")
           two  == AddStability(more, hours, "passed")
<1>4. /\ [hours |-> hours, outcome |-> "passed"] \in Stability
      /\ [hours |-> IntMax, outcome |-> "passed"] \in Stability
    BY <1>1 DEF Stability, Outcomes
<1>5. /\ more.stability = Append(c.stability, [hours |-> IntMax, outcome |-> "passed"])
      /\ more.stability \in Seq(Stability)
      /\ TotalHours(more.stability) = Wrap(total + IntMax)
    <2> DEFINE last == [hours |-> IntMax, outcome |-> "passed"]
    <2>1. more.stability = Append(c.stability, last)
        BY DEF AddStability, Case
    <2>2. TotalHours(Append(c.stability, last)) = Wrap(total + IntMax)
        BY <1>2, <1>4, TotalOfOneMore
    <2>3. last \in Stability
        BY <1>4
    <2> HIDE DEF last, more
    <2>4. Append(c.stability, last) \in Seq(Stability)
        BY <1>2, <2>3
    <2> QED
        BY <2>1, <2>2, <2>4 DEF last
<1>6. Wrap(total + hours) >= 24 => one.state = "stable"
    <2>1. TotalHours(Append(c.stability, [hours |-> hours, outcome |-> "passed"])) =
             Wrap(total + hours)
        BY <1>2, <1>4, TotalOfOneMore
    <2> HIDE DEF total
    <2> QED
        BY <2>1 DEF AddStability, Case
<1>7. Wrap(Wrap(total + IntMax) + hours) >= 24 => two.state = "stable"
    <2>1. TotalHours(Append(more.stability, [hours |-> hours, outcome |-> "passed"])) =
             Wrap(Wrap(total + IntMax) + hours)
        <3> HIDE DEF more, total
        <3> QED BY <1>4, <1>5, TotalOfOneMore
    <2>2. more \in Case
        BY AddStabilityType, <1>1 DEF Outcomes
    <2> HIDE DEF more, total
    <2> QED
        BY <2>1, <2>2 DEF AddStability, Case
<1>8. CanAddStability(c)
    BY DEF CanAddStability
<1> HIDE DEF one, two, total
<1>9. one.state = "stable" => GatesLeft(one) < GatesLeft(c)
    BY GatesLeftIs
<1>10. two.state = "stable" => GatesLeft(two) < GatesLeft(c)
    BY GatesLeftIs
<1>11. Closer(one, c) \/ Closer(two, c)
    BY <1>3, <1>6, <1>7, <1>9, <1>10 DEF Closer
<1> QED
    BY <1>8, <1>11 DEF WayOn, one, two

LEMMA ReachRelease ==
    ASSUME NEW c \in Case, NEW signer \in Actors \ Operators(c), c.state = "stable"
    PROVE  WayOn(c, signer)
<1> DEFINE d == ReleaseCase(c, signer)
<1>1. d.state = "released" /\ ReleaseEligible(c, signer)
    BY NoOneAssumption DEF ReleaseCase, ReleaseEligible, Case
<1> HIDE DEF d
<1>2. GatesLeft(d) < GatesLeft(c)
    BY <1>1, GatesLeftIs
<1> QED
    BY <1>1, <1>2 DEF WayOn, Closer, d

LEMMA WorkIsFinite ==
    ASSUME NEW c \in Case, Sound(c), IsFiniteSet(Regions)
    PROVE  WorkLeft(c) \in Nat
<1>1. CASE c.state = "draft"
    <2>1. IsFiniteSet(c.required \ Recorded(c))
        BY CaseFields, FS_Subset
    <2> QED
        BY <1>1, <2>1, FS_CardinalityType, WorkLeftIs
<1>2. CASE c.state \in {"approved", "treating", "paused"}
    <2> DEFINE total == Len(ApprovedPlan(c).steps)
               n == Len(c.checkpoints)
    <2>1. total \in Nat
        BY <1>2, ApprovedShape DEF Sound, stateNeedsApproval
    <2>2. n \in Nat /\ (n = 0 \/ n \in DOMAIN c.checkpoints)
        BY CaseFields, LenProperties
    <2>3. n <= total
        BY <2>1, <2>2 DEF Sound, ValidateSnapshot, validateCheckpointSnapshot
    <2>4. WorkLeft(c) \in {2 * (total - n) + 0, 2 * (total - n) + 1}
        BY <1>2, WorkLeftIs
    <2> HIDE DEF total, n
    <2> QED
        BY <2>1, <2>2, <2>3, <2>4
<1>3. CASE c.state \notin {"draft", "approved", "treating", "paused"}
    <2>1. WorkLeft(c) = 0
        BY <1>3, WorkLeftIs
    <2> QED
        BY <2>1
<1> QED
    BY <1>1, <1>2, <1>3

LEMMA ReachIs ==
    ASSUME UsableParams = Params, IsFiniteSet(Regions), IntMax >= 26,
           \E body \in PlanBodies : ValidatePlan(body)
    PROVE  RInv => ReleaseInReach
<1> SUFFICES ASSUME case \in Case, Sound(case), Ready(case), case.release = NoOne,
                    NEW signer \in Actors \ Operators(case), Actors # {signer}
             PROVE  WayOn(case, signer)
    BY WorkIsFinite DEF RInv, IInv, TypeOK, ReleaseInReach
<1>1. CASE case.state = "draft"
    <2>1. CASE CanLockBaseline(case)
        BY <2>1, ReachLock
    <2>2. CASE ~CanLockBaseline(case)
        <3>1. \E region \in Regions : CanAddCondition(case, region)
            BY <1>1, <2>2, CaseFields DEF CanLockBaseline, BaselineCovered, CanAddCondition
        <3> QED
            BY <3>1, ReachCondition
    <2> QED
        BY <2>1, <2>2
<1>2. CASE case.state \in {"baseline_locked", "plan_draft"}
    <2>1. CASE CanSubmitPlan(case)
        BY <2>1, ReachSubmit
    <2>2. CASE HasStatus(case, "submitted")
        <3>1. case.plans # <<>>
            BY <2>2, CaseFields DEF HasStatus, CurrentVersion
        <3> QED
            BY <1>2, <2>2, <3>1, ReachTrial DEF Ready, StepsLeft
    <2>3. CASE ~CanSubmitPlan(case) /\ ~HasStatus(case, "submitted")
        BY <1>2, <2>3, ReachSave DEF CanSavePlan
    <2> QED
        BY <2>1, <2>2, <2>3
<1>3. CASE case.state = "trial_passed"
    BY <1>3, ReachReview DEF Ready, StepsLeft
<1>4. CASE case.state \in {"approved", "treating"}
    BY <1>4, ReachCheckpoint
<1>5. CASE case.state = "paused"
    BY <1>5, ReachResolve
<1>6. CASE case.state = "treated"
    BY <1>6, ReachStable
<1>7. CASE case.state = "stable"
    BY <1>7, ReachRelease
<1>8. case.state \notin {"released", "archived"}
    BY DEF Sound, SignedIsReleased
<1>9. case.state \in States
    BY CaseFields
<1> QED
    BY <1>1, <1>2, <1>3, <1>4, <1>5, <1>6, <1>7, <1>8, <1>9 DEF States

-----------------------------------------------------------------------------
(* The results.                                                            *)

(* What the plan history shows of a version (the decision on record, its   *)
(* status, whether it is the approved one) tells one story with the trials *)
(* of that version, and treatment is counted against the approved one.     *)
THEOREM HistoryIsTrue == Spec => []HistoryAgrees
BY HistoryIs, ReportsInductive, PTL

(* The trial gate of the report is the gate of ReviewEthics: no trial of   *)
(* an older version, and no failed one, opens it.                          *)
THEOREM TrialGateIsTrue == Spec => []TrialGateAgrees
BY TrialGateIs, ReportsInductive, PTL

(* Progress is complete exactly when treatment is, and every checkpoint is *)
(* counted once, for plans of any length.                                  *)
THEOREM ProgressIsTrue == Spec => []ProgressAgrees
BY ProgressIs, ReportsInductive, PTL

(* The announced next step is the one CompleteCheckpoint accepts, if every *)
(* name a plan may carry is one a checkpoint may carry (see the finding    *)
(* about unusable names for what happens otherwise).                       *)
THEOREM NextStepIsTrue ==
    ASSUME UsableParams = Params PROVE Spec => []NextStepAgrees
BY NextStepIs, ReportsInductive, PTL

(* What the stability report says of eligibility is what the precheck of a *)
(* release answers, for every reviewer.                                    *)
THEOREM EligibilityIsTrue == Spec => []EligibilityAgrees
BY EligibilityIs, ReportsInductive, PTL

(* What the coverage report calls missing is what can still be recorded;   *)
(* below 2000 regions 100.0 percent are all of them.                       *)
THEOREM CoverageIsTrue ==
    ASSUME IsFiniteSet(Regions) PROVE Spec => []CoverageAgrees
BY CoverageIs, ReportsInductive, PTL

(* Over returned plans, failed trials, deviations and failed observations  *)
(* the release by any person who has not treated the case stays in reach:  *)
(* some command brings it closer, if there is a second person to treat it, *)
(* every name of a plan can be measured, a plan is at hand that passes     *)
(* ValidatePlan, and an int holds 26 hours (with 25 two observations may   *)
(* not be enough to leave a sum at its largest).                           *)
THEOREM ReleaseStaysInReach ==
    ASSUME UsableParams = Params, IsFiniteSet(Regions), IntMax >= 26,
           \E body \in PlanBodies : ValidatePlan(body)
    PROVE  Spec => []ReleaseInReach
BY ReachIs, ReportsInductive, PTL

=============================================================================
