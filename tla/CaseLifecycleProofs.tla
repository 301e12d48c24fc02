------------------------ MODULE CaseLifecycleProofs ------------------------
(* Proofs about CaseLifecycle.                                             *)
EXTENDS CaseLifecycle, SequenceLemmas

-----------------------------------------------------------------------------
(* The fields of a case, and the operations keep their types.              *)

LEMMA CaseFields ==
    ASSUME NEW c \in Case
    PROVE  /\ c.state \in States
           /\ c.required \in SUBSET Regions
           /\ c.custodian \in Actors
           /\ c.conditions \in Seq(Regions)
           /\ c.plans \in Seq(Plan)
           /\ c.trials \in Seq(Trial)
           /\ c.checkpoints \in Seq(Checkpoint)
           /\ c.stability \in Seq(Stability)
           /\ c.release \in Actors \cup {NoOne}
           /\ c.archive \in Manifests \cup {NoManifest}
BY DEF Case

LEMMA AddConditionType ==
    ASSUME NEW c \in Case, NEW region \in Regions
    PROVE  AddCondition(c, region) \in Case
<1>1. Append(c.conditions, region) \in Seq(Regions)
    BY CaseFields
<1> QED
    BY <1>1 DEF AddCondition, Case

LEMMA SavePlanType ==
    ASSUME NEW c \in Case, NEW body \in PlanBody
    PROVE  SavePlan(c, body) \in Case
<1> DEFINE plan == [steps |-> body.steps, complete |-> body.complete,
                    status |-> "draft", decision |-> "none", reviewer |-> NoOne]
<1>1. plan \in Plan
    BY DEF PlanBody, Plan
<1>2. Append(c.plans, plan) \in Seq(Plan)
    <2> HIDE DEF plan
    <2> QED BY <1>1, CaseFields
<1> QED
    BY <1>2 DEF SavePlan, Case, States

LEMMA SubmitPlanType ==
    ASSUME NEW c \in Case, CanSubmitPlan(c)
    PROVE  SubmitPlan(c) \in Case
<1> DEFINE v == CurrentVersion(c)
           p == [c.plans[v] EXCEPT !.status = "submitted"]
           plans == [c.plans EXCEPT ![v] = p]
<1>1. c.plans \in Seq(Plan) /\ v \in 1..Len(c.plans)
    BY CaseFields DEF CanSubmitPlan, HasStatus, CurrentVersion
<1>2. c.plans[v] \in Plan
    <2> HIDE DEF v
    <2> QED BY <1>1
<1>3. p \in Plan
    BY <1>2 DEF Plan
<1>4. plans \in Seq(Plan)
    <2> HIDE DEF v, p
    <2> QED BY <1>1, <1>3, ExceptSeq
<1>5. SubmitPlan(c) = [c EXCEPT !.plans = plans]
    BY DEF SubmitPlan
<1> HIDE DEF plans
<1> QED
    BY <1>4, <1>5 DEF Case

LEMMA ReviewEthicsType ==
    ASSUME NEW c \in Case, NEW reviewer \in Actors, NEW approve \in BOOLEAN,
           CanReviewEthics(c, reviewer)
    PROVE  ReviewEthics(c, reviewer, approve) \in Case
<1> DEFINE v == CurrentVersion(c)
           p == [c.plans[v] EXCEPT !.reviewer = reviewer,
                                   !.decision = IF approve THEN "approve" ELSE "return",
                                   !.status = IF approve THEN "approved" ELSE "returned"]
           plans == [c.plans EXCEPT ![v] = p]
<1>1. c.plans \in Seq(Plan) /\ v \in 1..Len(c.plans)
    BY CaseFields DEF CanReviewEthics, HasStatus, CurrentVersion
<1>2. c.plans[v] \in Plan
    <2> HIDE DEF v
    <2> QED BY <1>1
<1>3. p \in Plan
    BY <1>2 DEF Plan
<1>4. plans \in Seq(Plan)
    <2> HIDE DEF v, p
    <2> QED BY <1>1, <1>3, ExceptSeq
<1>5. ReviewEthics(c, reviewer, approve) =
        [c EXCEPT !.plans = plans, !.state = IF approve THEN "approved" ELSE "plan_draft"]
    BY <1>1, <1>2 DEF ReviewEthics, Plan
<1> HIDE DEF plans
<1> QED
    BY <1>4, <1>5 DEF Case, States

LEMMA CompleteCheckpointType ==
    ASSUME NEW c \in Case, NEW step \in Nat \ {0}, NEW operator \in Actors, NEW readings
    PROVE  CompleteCheckpoint(c, step, operator, readings) \in Case
<1> DEFINE off == Deviated(c, step, readings)
           cp  == [step |-> step, operator |-> operator,
                   outcome |-> IF off THEN "deviation" ELSE "completed",
                   verifiedBy |-> NoOne]
           state == IF off THEN "paused" ELSE AfterStep(c, step)
<1>1. cp \in Checkpoint
    BY DEF Checkpoint
<1>2. Append(c.checkpoints, cp) \in Seq(Checkpoint)
    BY <1>1, CaseFields
<1>3. state \in States
    BY DEF AfterStep, States
<1>4. CompleteCheckpoint(c, step, operator, readings)
        = [c EXCEPT !.checkpoints = Append(@, cp), !.state = state]
    BY DEF CompleteCheckpoint
<1> HIDE DEF cp, state
<1> QED
    BY <1>2, <1>3, <1>4 DEF Case

LEMMA ResolveDeviationType ==
    ASSUME NEW c \in Case, NEW verifier \in Actors, c.checkpoints # <<>>
    PROVE  ResolveDeviation(c, verifier) \in Case
<1> DEFINE last == Len(c.checkpoints)
           cp == [c.checkpoints[last] EXCEPT !.verifiedBy = verifier, !.outcome = "remediated"]
           cps == [c.checkpoints EXCEPT ![last] = cp]
           state == AfterStep(c, c.checkpoints[last].step)
<1>1. c.checkpoints \in Seq(Checkpoint) /\ last \in 1..Len(c.checkpoints)
    BY CaseFields
<1>2. c.checkpoints[last] \in Checkpoint
    <2> HIDE DEF last
    <2> QED BY <1>1
<1>3. cp \in Checkpoint
    BY <1>2 DEF Checkpoint
<1>4. cps \in Seq(Checkpoint)
    <2> HIDE DEF last, cp
    <2> QED BY <1>1, <1>3, ExceptSeq
<1>5. state \in States
    BY DEF AfterStep, States
<1>6. ResolveDeviation(c, verifier) = [c EXCEPT !.checkpoints = cps, !.state = state]
    BY DEF ResolveDeviation
<1> HIDE DEF cps, state
<1> QED
    BY <1>4, <1>5, <1>6 DEF Case

-----------------------------------------------------------------------------
(* Which part of Sound depends on which fields.                            *)

LEMMA ApprovedPlanIsLast ==
    ASSUME NEW c \in Case, ApprovedIsCurrent(c), c.state \in stateNeedsApproval
    PROVE  /\ ApprovedVersions(c) = {CurrentVersion(c)}
           /\ CurrentVersion(c) \in 1..Len(c.plans)
           /\ ApprovedPlan(c) = c.plans[CurrentVersion(c)]
           /\ ApprovedPlan(c) \in Plan
<1>1. ApprovedVersions(c) = {CurrentVersion(c)}
    BY DEF ApprovedIsCurrent
<1>2. c.plans \in Seq(Plan) /\ CurrentVersion(c) \in 1..Len(c.plans)
    <2>1. c.plans \in Seq(Plan)
        BY CaseFields
    <2>2. CurrentVersion(c) \in DOMAIN c.plans
        BY <1>1 DEF ApprovedVersions
    <2> QED
        BY <2>1, <2>2
<1>3. Max({CurrentVersion(c)}) = CurrentVersion(c)
    BY <1>2 DEF Max
<1> QED
    BY <1>1, <1>2, <1>3 DEF ApprovedPlan

LEMMA PlansFrame ==
    ASSUME NEW c, NEW d, d.plans = c.plans
    PROVE  /\ ApprovedVersions(d) = ApprovedVersions(c)
           /\ ApprovedPlan(d) = ApprovedPlan(c)
           /\ CurrentVersion(d) = CurrentVersion(c)
BY DEF ApprovedVersions, ApprovedPlan, CurrentVersion

LEMMA ConditionFrame ==
    ASSUME NEW c, NEW d, validateConditionSnapshot(c), c.state # "draft",
           d.required = c.required, d.conditions = c.conditions
    PROVE  validateConditionSnapshot(d)
BY DEF validateConditionSnapshot, Recorded

LEMMA PlanFrame ==
    ASSUME NEW c, NEW d, validatePlanSnapshot(c), d.plans = c.plans,
           c.state \notin {"draft", "baseline_locked"} \/ d.state = c.state
             \/ d.state = "baseline_locked",
           d.state \in stateNeedsApproval => c.state \in stateNeedsApproval
    PROVE  validatePlanSnapshot(d)
BY PlansFrame DEF validatePlanSnapshot

LEMMA TrialFrame ==
    ASSUME NEW c, NEW d, validateTrialSnapshot(c), d.trials = c.trials,
           DOMAIN d.plans = DOMAIN c.plans, CurrentVersion(d) = CurrentVersion(c),
           d.state \in stateNeedsTrial => c.state \in stateNeedsTrial
    PROVE  validateTrialSnapshot(d)
BY DEF validateTrialSnapshot

LEMMA CheckpointFrame ==
    ASSUME NEW c, NEW d, validateCheckpointSnapshot(c), OneOpenDeviation(c),
           d.plans = c.plans, d.checkpoints = c.checkpoints,
           d.release = c.release \/ d.release \notin Operators(c),
           d.state = "paused" <=> c.state = "paused",
           d.state \in isTreatmentComplete => c.state \in isTreatmentComplete
    PROVE  validateCheckpointSnapshot(d) /\ OneOpenDeviation(d)
<1>1. Operators(d) = Operators(c)
    BY DEF Operators
<1>2. /\ ApprovedVersions(d) = ApprovedVersions(c)
      /\ ApprovedPlan(d) = ApprovedPlan(c)
    BY PlansFrame
<1>3. validateCheckpointSnapshot(d)
    BY <1>1, <1>2 DEF validateCheckpointSnapshot
<1>4. OneOpenDeviation(d)
    BY <1>2 DEF OneOpenDeviation
<1> QED
    BY <1>3, <1>4

LEMMA NoCheckpoints ==
    ASSUME NEW c \in Case, OneOpenDeviation(c), ApprovedIsCurrent(c),
           c.state \notin stateNeedsApproval
    PROVE  c.checkpoints = <<>>
<1>1. \A i \in DOMAIN c.checkpoints : FALSE
    BY DEF OneOpenDeviation, ApprovedIsCurrent
<1>2. c.checkpoints \in Seq(Checkpoint)
    BY CaseFields
<1>3. Len(c.checkpoints) \in Nat /\ DOMAIN c.checkpoints = 1..Len(c.checkpoints)
    BY <1>2, LenProperties
<1>4. Len(c.checkpoints) = 0
    <2> SUFFICES ASSUME Len(c.checkpoints) # 0 PROVE FALSE
        OBVIOUS
    <2>1. 1 \in DOMAIN c.checkpoints
        BY <1>3
    <2> QED
        BY <1>1, <2>1
<1>5. \A cps \in Seq(Checkpoint) : cps # <<>> => Len(cps) \in Nat \ {0}
    BY EmptySeq
<1> QED
    BY <1>2, <1>4, <1>5

LEMMA EmptyCheckpoints ==
    ASSUME NEW d, d.checkpoints = <<>>, d.state \notin isTreatmentComplete,
           d.state # "paused"
    PROVE  validateCheckpointSnapshot(d) /\ OneOpenDeviation(d)
BY DEF validateCheckpointSnapshot, OneOpenDeviation, Operators

LEMMA StabilityFrame ==
    ASSUME NEW c, NEW d, validateStabilitySnapshot(c), d.stability = c.stability,
           d.state \in {"stable", "released", "archived"} =>
               c.state \in {"stable", "released", "archived"}
    PROVE  validateStabilitySnapshot(d)
BY DEF validateStabilitySnapshot

-----------------------------------------------------------------------------
(* Every operation preserves Sound.                                        *)

LEMMA CreateSound ==
    ASSUME NEW required \in SUBSET Regions, NEW custodian \in Actors,
           CanCreateCase(required)
    PROVE  Sound(CreateCase(required, custodian))
<1> DEFINE d == CreateCase(required, custodian)
<1>1. /\ d.state = "draft" /\ d.required = required /\ d.conditions = <<>>
      /\ d.plans = <<>> /\ d.trials = <<>> /\ d.checkpoints = <<>>
      /\ d.stability = <<>> /\ d.release = NoOne /\ d.archive = NoManifest
    BY DEF CreateCase
<1> HIDE DEF d
<1>2. ApprovedVersions(d) = {}
    BY <1>1 DEF ApprovedVersions
<1>3. validateConditionSnapshot(d)
    BY <1>1 DEF validateConditionSnapshot, Recorded
<1>4. validatePlanSnapshot(d)
    BY <1>1, <1>2 DEF validatePlanSnapshot, stateNeedsApproval
<1>5. validateTrialSnapshot(d)
    BY <1>1 DEF validateTrialSnapshot, stateNeedsApproval, stateNeedsTrial
<1>6. validateCheckpointSnapshot(d)
    BY <1>1 DEF validateCheckpointSnapshot, isTreatmentComplete
<1>7. validateStabilitySnapshot(d)
    BY <1>1 DEF validateStabilitySnapshot
<1>8. validateTerminalSnapshot(d)
    BY <1>1 DEF validateTerminalSnapshot
<1>9. OneOpenDeviation(d)
    BY <1>1 DEF OneOpenDeviation
<1>10. ApprovedIsCurrent(d) /\ SignedIsReleased(d) /\ d.required # {}
    BY <1>1, <1>2 DEF ApprovedIsCurrent, SignedIsReleased, CanCreateCase, stateNeedsApproval
<1> QED
    BY <1>3, <1>4, <1>5, <1>6, <1>7, <1>8, <1>9, <1>10 DEF d, ValidateSnapshot, Sound

LEMMA AddConditionSound ==
    ASSUME NEW c \in Case, Sound(c), NEW region \in Regions, CanAddCondition(c, region)
    PROVE  Sound(AddCondition(c, region))
<1> DEFINE d == AddCondition(c, region)
<1>1. c.conditions \in Seq(Regions) /\ d.conditions = Append(c.conditions, region)
    BY CaseFields DEF AddCondition, Case
<1>2. /\ d.state = c.state /\ d.required = c.required /\ d.plans = c.plans
      /\ d.trials = c.trials /\ d.checkpoints = c.checkpoints
      /\ d.stability = c.stability /\ d.release = c.release /\ d.archive = c.archive
    BY DEF AddCondition, Case
<1> HIDE DEF d
<1> USE DEF Sound, ValidateSnapshot
<1>3. validateConditionSnapshot(d)
    <2>1. Recorded(d) = Recorded(c) \cup {region}
        BY <1>1 DEF Recorded
    <2>2. \A i, j \in DOMAIN d.conditions : d.conditions[i] = d.conditions[j] => i = j
        BY <1>1 DEF validateConditionSnapshot, CanAddCondition, Recorded
    <2> QED
        BY <1>2, <2>1, <2>2 DEF CanAddCondition, validateConditionSnapshot
<1>4. validatePlanSnapshot(d)
    BY <1>2, PlanFrame
<1>5. validateTrialSnapshot(d)
    BY <1>2, TrialFrame, PlansFrame
<1>6. validateCheckpointSnapshot(d) /\ OneOpenDeviation(d)
    BY <1>2, CheckpointFrame
<1>7. validateStabilitySnapshot(d)
    BY <1>2, StabilityFrame
<1>8. validateTerminalSnapshot(d) /\ SignedIsReleased(d)
    BY <1>2 DEF validateTerminalSnapshot, SignedIsReleased
<1>9. ApprovedIsCurrent(d)
    BY <1>2, PlansFrame DEF ApprovedIsCurrent
<1> QED
    BY <1>2, <1>3, <1>4, <1>5, <1>6, <1>7, <1>8, <1>9 DEF d

LEMMA LockBaselineSound ==
    ASSUME NEW c \in Case, Sound(c), CanLockBaseline(c)
    PROVE  Sound(LockBaseline(c))
<1> DEFINE d == LockBaseline(c)
<1>1. /\ d.state = "baseline_locked" /\ d.required = c.required
      /\ d.conditions = c.conditions /\ d.plans = c.plans
      /\ d.trials = c.trials /\ d.checkpoints = c.checkpoints
      /\ d.stability = c.stability /\ d.release = c.release /\ d.archive = c.archive
    BY DEF LockBaseline, Case
<1>2. c.state = "draft"
    BY DEF CanLockBaseline
<1> HIDE DEF d
<1> USE DEF Sound, ValidateSnapshot
<1>3. validateConditionSnapshot(d)
    BY <1>1 DEF validateConditionSnapshot, Recorded, CanLockBaseline, BaselineCovered
<1>4. validatePlanSnapshot(d)
    BY <1>1, PlanFrame DEF stateNeedsApproval
<1>5. validateTrialSnapshot(d)
    BY <1>1, TrialFrame, PlansFrame DEF stateNeedsTrial, stateNeedsApproval
<1>6. validateCheckpointSnapshot(d) /\ OneOpenDeviation(d)
    BY <1>1, <1>2, CheckpointFrame DEF isTreatmentComplete
<1>7. validateStabilitySnapshot(d)
    BY <1>1, StabilityFrame
<1>8. validateTerminalSnapshot(d) /\ SignedIsReleased(d)
    BY <1>1, <1>2 DEF validateTerminalSnapshot, SignedIsReleased
<1>9. ApprovedIsCurrent(d)
    BY <1>1, <1>2, PlansFrame DEF ApprovedIsCurrent, stateNeedsApproval
<1> QED
    BY <1>1, <1>3, <1>4, <1>5, <1>6, <1>7, <1>8, <1>9 DEF d

LEMMA SavePlanSound ==
    ASSUME NEW c \in Case, Sound(c), NEW body \in PlanBody, CanSavePlan(c)
    PROVE  Sound(SavePlan(c, body))
<1> DEFINE d == SavePlan(c, body)
           plan == [steps |-> body.steps, complete |-> body.complete,
                    status |-> "draft", decision |-> "none", reviewer |-> NoOne]
<1>1. /\ d.state = "plan_draft" /\ d.required = c.required
      /\ d.conditions = c.conditions /\ d.plans = Append(c.plans, plan)
      /\ d.trials = c.trials /\ d.checkpoints = c.checkpoints
      /\ d.stability = c.stability /\ d.release = c.release /\ d.archive = c.archive
    BY DEF SavePlan, Case
<1>2. c.state \in {"baseline_locked", "plan_draft"}
    BY DEF CanSavePlan
<1>3. plan.status = "draft"
    OBVIOUS
<1> HIDE DEF d, plan
<1> USE DEF Sound, ValidateSnapshot
<1>4. c.plans \in Seq(Plan) /\ Len(c.plans) \in Nat /\ DOMAIN c.plans = 1..Len(c.plans)
    BY CaseFields, LenProperties
<1>5. /\ DOMAIN d.plans = 1..(Len(c.plans) + 1)
      /\ \A v \in 1..Len(c.plans) : d.plans[v] = c.plans[v]
      /\ d.plans[Len(c.plans) + 1].status = "draft"
    BY <1>1, <1>3, <1>4
<1>6. ApprovedVersions(d) = {} /\ ApprovedVersions(c) = {}
    <2>1. ApprovedVersions(c) = {}
        BY <1>2 DEF ApprovedIsCurrent, stateNeedsApproval
    <2> QED
        BY <2>1, <1>4, <1>5 DEF ApprovedVersions
<1>7. c.checkpoints = <<>>
    BY <1>2, NoCheckpoints DEF stateNeedsApproval
<1>8. validateConditionSnapshot(d)
    BY <1>1, <1>2, ConditionFrame
<1>9. validatePlanSnapshot(d)
    <2>1. \A v \in DOMAIN d.plans :
             /\ d.plans[v].status # "draft" => ValidatePlan(d.plans[v])
             /\ d.plans[v].status \in {"approved", "returned"} => d.plans[v].reviewer # NoOne
        BY <1>4, <1>5 DEF validatePlanSnapshot
    <2>2. d.plans # <<>>
        BY <1>1, <1>4
    <2> QED
        BY <1>1, <1>6, <2>1, <2>2 DEF validatePlanSnapshot, stateNeedsApproval
<1>10. validateTrialSnapshot(d)
    BY <1>1, <1>4, <1>5 DEF validateTrialSnapshot, stateNeedsTrial, stateNeedsApproval
<1>11. validateCheckpointSnapshot(d) /\ OneOpenDeviation(d)
    BY <1>1, <1>7, EmptyCheckpoints DEF isTreatmentComplete
<1>12. validateStabilitySnapshot(d)
    BY <1>1, StabilityFrame
<1>13. validateTerminalSnapshot(d) /\ SignedIsReleased(d)
    BY <1>1, <1>2 DEF validateTerminalSnapshot, SignedIsReleased
<1>14. ApprovedIsCurrent(d)
    BY <1>1, <1>6 DEF ApprovedIsCurrent, stateNeedsApproval
<1> QED
    BY <1>1, <1>8, <1>9, <1>10, <1>11, <1>12, <1>13, <1>14 DEF d

LEMMA SubmitPlanSound ==
    ASSUME NEW c \in Case, Sound(c), CanSubmitPlan(c)
    PROVE  Sound(SubmitPlan(c))
<1> DEFINE d == SubmitPlan(c)
           n == CurrentVersion(c)
           plan == [c.plans[n] EXCEPT !.status = "submitted"]
<1>1. c.plans \in Seq(Plan) /\ n \in DOMAIN c.plans /\ DOMAIN c.plans = 1..Len(c.plans)
    BY CaseFields DEF CanSubmitPlan, HasStatus, CurrentVersion
<1>2. /\ d.state = "plan_draft" /\ c.state = "plan_draft" /\ d.required = c.required
      /\ d.conditions = c.conditions
      /\ d.plans = [c.plans EXCEPT ![n] = plan]
      /\ d.trials = c.trials /\ d.checkpoints = c.checkpoints
      /\ d.stability = c.stability /\ d.release = c.release /\ d.archive = c.archive
    BY DEF SubmitPlan, CanSubmitPlan, Case
<1>3. c.plans[n] \in Plan
    <2> HIDE DEF n
    <2> QED BY <1>1
<1>4. plan.status = "submitted" /\ ValidatePlan(plan)
    BY <1>3 DEF CanSubmitPlan, ValidatePlan, Plan
<1> HIDE DEF d, n, plan
<1> USE DEF Sound, ValidateSnapshot
<1>5. /\ DOMAIN d.plans = DOMAIN c.plans /\ CurrentVersion(d) = CurrentVersion(c)
      /\ \A v \in DOMAIN c.plans : d.plans[v] = IF v = n THEN plan ELSE c.plans[v]
    BY <1>1, <1>2 DEF CurrentVersion
<1>6. ApprovedVersions(d) = {} /\ ApprovedVersions(c) = {}
    <2>1. ApprovedVersions(c) = {}
        BY <1>2 DEF ApprovedIsCurrent, stateNeedsApproval
    <2> QED
        BY <2>1, <1>4, <1>5 DEF ApprovedVersions
<1>7. c.checkpoints = <<>>
    BY <1>2, NoCheckpoints DEF stateNeedsApproval
<1>8. validateConditionSnapshot(d)
    BY <1>2, ConditionFrame
<1>9. validatePlanSnapshot(d)
    <2>1. \A v \in DOMAIN d.plans :
             /\ d.plans[v].status # "draft" => ValidatePlan(d.plans[v])
             /\ d.plans[v].status \in {"approved", "returned"} => d.plans[v].reviewer # NoOne
        BY <1>4, <1>5 DEF validatePlanSnapshot
    <2>2. d.plans # <<>>
        BY <1>1, <1>5
    <2> QED
        BY <1>2, <1>6, <2>1, <2>2 DEF validatePlanSnapshot, stateNeedsApproval
<1>10. validateTrialSnapshot(d)
    BY <1>2, <1>5, TrialFrame
<1>11. validateCheckpointSnapshot(d) /\ OneOpenDeviation(d)
    BY <1>2, <1>7, EmptyCheckpoints DEF isTreatmentComplete
<1>12. validateStabilitySnapshot(d)
    BY <1>2, StabilityFrame
<1>13. validateTerminalSnapshot(d) /\ SignedIsReleased(d)
    BY <1>2 DEF validateTerminalSnapshot, SignedIsReleased
<1>14. ApprovedIsCurrent(d)
    BY <1>2, <1>6 DEF ApprovedIsCurrent, stateNeedsApproval
<1> QED
    BY <1>2, <1>8, <1>9, <1>10, <1>11, <1>12, <1>13, <1>14 DEF d

LEMMA AddTrialSound ==
    ASSUME NEW c \in Case, Sound(c), NEW version \in Nat, NEW outcome \in Outcomes,
           CanAddTrial(c, version)
    PROVE  Sound(AddTrial(c, version, outcome))
<1> DEFINE d == AddTrial(c, version, outcome)
           trial == [version |-> version, outcome |-> outcome]
<1>1. /\ d.state = IF outcome = "passed" THEN "trial_passed" ELSE "plan_draft"
      /\ c.state = "plan_draft" /\ d.required = c.required
      /\ d.conditions = c.conditions /\ d.plans = c.plans
      /\ d.trials = Append(c.trials, trial) /\ d.checkpoints = c.checkpoints
      /\ d.stability = c.stability /\ d.release = c.release /\ d.archive = c.archive
    BY DEF AddTrial, CanAddTrial, Case
<1>2. /\ trial.version = CurrentVersion(c) /\ trial.version \in DOMAIN c.plans
      /\ outcome = "passed" =>
            trial = [version |-> CurrentVersion(c), outcome |-> "passed"]
    <2>1. c.plans \in Seq(Plan)
        BY CaseFields
    <2> QED
        BY <2>1 DEF CanAddTrial, HasStatus, CurrentVersion
<1> HIDE DEF d, trial
<1> USE DEF Sound, ValidateSnapshot
<1>3. /\ DOMAIN d.trials = 1..(Len(c.trials) + 1)
      /\ Len(c.trials) \in Nat /\ DOMAIN c.trials = 1..Len(c.trials)
      /\ \A i \in 1..Len(c.trials) : d.trials[i] = c.trials[i]
      /\ d.trials[Len(c.trials) + 1] = trial
    <2>1. c.trials \in Seq(Trial)
        BY CaseFields
    <2> QED
        BY <1>1, <2>1
<1>4. ApprovedVersions(d) = {} /\ ApprovedVersions(c) = {} /\ CurrentVersion(d) = CurrentVersion(c)
    BY <1>1, PlansFrame DEF ApprovedIsCurrent, stateNeedsApproval
<1>5. c.checkpoints = <<>>
    BY <1>1, NoCheckpoints DEF stateNeedsApproval
<1>6. validateConditionSnapshot(d)
    BY <1>1, ConditionFrame
<1>7. validatePlanSnapshot(d)
    BY <1>1, PlanFrame DEF stateNeedsApproval
<1>8. validateTrialSnapshot(d)
    <2>1. \A i \in DOMAIN d.trials : d.trials[i].version \in DOMAIN d.plans
        BY <1>1, <1>2, <1>3 DEF validateTrialSnapshot
    <2>2. d.state \in stateNeedsTrial => outcome = "passed"
        BY <1>1 DEF stateNeedsTrial, stateNeedsApproval
    <2>3. outcome = "passed" => \E i \in DOMAIN d.trials :
             d.trials[i] = [version |-> CurrentVersion(d), outcome |-> "passed"]
        BY <1>2, <1>3, <1>4
    <2> QED
        BY <2>1, <2>2, <2>3 DEF validateTrialSnapshot
<1>9. validateCheckpointSnapshot(d) /\ OneOpenDeviation(d)
    BY <1>1, <1>5, EmptyCheckpoints DEF isTreatmentComplete
<1>10. validateStabilitySnapshot(d)
    BY <1>1, StabilityFrame
<1>11. validateTerminalSnapshot(d) /\ SignedIsReleased(d)
    BY <1>1 DEF validateTerminalSnapshot, SignedIsReleased
<1>12. ApprovedIsCurrent(d)
    BY <1>1, <1>4 DEF ApprovedIsCurrent, stateNeedsApproval
<1> QED
    BY <1>1, <1>6, <1>7, <1>8, <1>9, <1>10, <1>11, <1>12 DEF d

LEMMA ReviewEthicsSound ==
    ASSUME NEW c \in Case, Sound(c), NEW reviewer \in Actors, NEW approve \in BOOLEAN,
           CanReviewEthics(c, reviewer)
    PROVE  Sound(ReviewEthics(c, reviewer, approve))
<1> DEFINE d == ReviewEthics(c, reviewer, approve)
           n == CurrentVersion(c)
           status == IF approve THEN "approved" ELSE "returned"
           decision == IF approve THEN "approve" ELSE "return"
           plan == [c.plans[n] EXCEPT !.reviewer = reviewer, !.decision = decision,
                                      !.status = status]
<1>1. c.plans \in Seq(Plan) /\ n \in DOMAIN c.plans /\ DOMAIN c.plans = 1..Len(c.plans)
    BY CaseFields DEF CanReviewEthics, HasStatus, CurrentVersion
<1>2. /\ d.state = (IF approve THEN "approved" ELSE "plan_draft")
      /\ c.state = "trial_passed" /\ d.required = c.required
      /\ d.conditions = c.conditions
      /\ d.plans = [c.plans EXCEPT ![n] = plan]
      /\ d.trials = c.trials /\ d.checkpoints = c.checkpoints
      /\ d.stability = c.stability /\ d.release = c.release /\ d.archive = c.archive
    BY DEF ReviewEthics, CanReviewEthics, Case
<1>3. c.plans[n] \in Plan
    <2> HIDE DEF n
    <2> QED BY <1>1
<1>4. ValidatePlan(c.plans[n])
    BY <1>1 DEF CanReviewEthics, HasStatus, Sound, ValidateSnapshot, validatePlanSnapshot
<1>5. plan.status = status /\ plan.reviewer # NoOne /\ ValidatePlan(plan)
    BY <1>3, <1>4, NoOneAssumption DEF ValidatePlan, Plan
<1> HIDE DEF d, n, plan
<1> USE DEF Sound, ValidateSnapshot
<1>6. /\ DOMAIN d.plans = DOMAIN c.plans /\ CurrentVersion(d) = CurrentVersion(c)
      /\ \A v \in DOMAIN c.plans : d.plans[v] = IF v = n THEN plan ELSE c.plans[v]
    BY <1>1, <1>2 DEF CurrentVersion
<1>7. ApprovedVersions(d) = IF approve THEN {n} ELSE {}
    <2>1. ApprovedVersions(c) = {}
        BY <1>2 DEF ApprovedIsCurrent, stateNeedsApproval
    <2> QED
        BY <2>1, <1>1, <1>5, <1>6 DEF ApprovedVersions
<1>8. c.checkpoints = <<>>
    BY <1>2, NoCheckpoints DEF stateNeedsApproval
<1>9. validateConditionSnapshot(d)
    BY <1>2, ConditionFrame
<1>10. validatePlanSnapshot(d)
    <2>1. \A v \in DOMAIN d.plans :
             /\ d.plans[v].status # "draft" => ValidatePlan(d.plans[v])
             /\ d.plans[v].status \in {"approved", "returned"} => d.plans[v].reviewer # NoOne
        BY <1>5, <1>6 DEF validatePlanSnapshot
    <2>2. d.plans # <<>>
        BY <1>1, <1>6
    <2> QED
        BY <1>2, <1>7, <2>1, <2>2 DEF validatePlanSnapshot, stateNeedsApproval
<1>11. validateTrialSnapshot(d)
    BY <1>2, <1>6, TrialFrame DEF stateNeedsTrial
<1>12. validateCheckpointSnapshot(d) /\ OneOpenDeviation(d)
    BY <1>2, <1>8, EmptyCheckpoints DEF isTreatmentComplete
<1>13. validateStabilitySnapshot(d)
    BY <1>2, StabilityFrame
<1>14. validateTerminalSnapshot(d) /\ SignedIsReleased(d)
    BY <1>2 DEF validateTerminalSnapshot, SignedIsReleased
<1>15. ApprovedIsCurrent(d)
    BY <1>2, <1>6, <1>7 DEF n, ApprovedIsCurrent, stateNeedsApproval
<1> QED
    BY <1>2, <1>9, <1>10, <1>11, <1>12, <1>13, <1>14, <1>15 DEF d

LEMMA CompleteCheckpointSound ==
    ASSUME NEW c \in Case, Sound(c), NEW step \in Nat, NEW operator \in Actors,
           NEW readings, CanCompleteCheckpoint(c, step, readings)
    PROVE  Sound(CompleteCheckpoint(c, step, operator, readings))
<1> DEFINE d == CompleteCheckpoint(c, step, operator, readings)
           off == Deviated(c, step, readings)
           cp == [step |-> step, operator |-> operator,
                  outcome |-> IF off THEN "deviation" ELSE "completed",
                  verifiedBy |-> NoOne]
           n == Len(c.checkpoints)
<1>1. /\ d.state = (IF off THEN "paused" ELSE AfterStep(c, step))
      /\ c.state \in {"approved", "treating"} /\ d.required = c.required
      /\ d.conditions = c.conditions /\ d.plans = c.plans /\ d.trials = c.trials
      /\ d.checkpoints = Append(c.checkpoints, cp)
      /\ d.stability = c.stability /\ d.release = c.release /\ d.archive = c.archive
    BY DEF CompleteCheckpoint, CanCompleteCheckpoint, Case
<1>2. /\ cp.step = step /\ cp.outcome = (IF off THEN "deviation" ELSE "completed")
      /\ step = n + 1 /\ step <= Len(ApprovedPlan(c).steps)
    BY DEF CanCompleteCheckpoint
<1> HIDE DEF d, off, cp
<1> USE DEF Sound, ValidateSnapshot
<1>3. /\ n \in Nat /\ DOMAIN c.checkpoints = 1..n /\ DOMAIN d.checkpoints = 1..(n + 1)
      /\ Len(d.checkpoints) = n + 1
      /\ \A i \in 1..n : d.checkpoints[i] = c.checkpoints[i]
      /\ d.checkpoints[n + 1] = cp
    <2>1. c.checkpoints \in Seq(Checkpoint)
        BY CaseFields
    <2> QED
        BY <1>1, <2>1
<1> HIDE DEF n
<1>4. /\ ApprovedVersions(d) = ApprovedVersions(c) /\ ApprovedVersions(c) # {}
      /\ ApprovedPlan(d) = ApprovedPlan(c) /\ CurrentVersion(d) = CurrentVersion(c)
    BY <1>1, PlansFrame DEF CanCompleteCheckpoint
<1>5. DOMAIN ApprovedPlan(c).steps = 1..Len(ApprovedPlan(c).steps)
      /\ Len(ApprovedPlan(c).steps) \in Nat
    <2>1. ApprovedPlan(c) \in Plan
        BY <1>1, ApprovedPlanIsLast DEF stateNeedsApproval
    <2>2. ApprovedPlan(c).steps \in Seq(SUBSET Params)
        BY <2>1 DEF Plan
    <2> QED
        BY <2>2
<1>6. \A i \in 1..n : c.checkpoints[i].outcome # "deviation"
    BY <1>1, <1>3 DEF OneOpenDeviation
<1>7. d.state \in {"paused", "treated", "treating"} /\ (d.state = "paused" <=> off)
      /\ (d.state = "treated" => step = Len(ApprovedPlan(c).steps))
    BY <1>1 DEF AfterStep
<1>8. c.release = NoOne
    BY <1>1 DEF SignedIsReleased
<1>9. validateConditionSnapshot(d)
    BY <1>1, ConditionFrame
<1>10. validatePlanSnapshot(d)
    BY <1>1, PlanFrame DEF stateNeedsApproval
<1>11. validateTrialSnapshot(d)
    BY <1>1, <1>4, TrialFrame DEF stateNeedsTrial, stateNeedsApproval
<1>12. validateCheckpointSnapshot(d)
    <2>1. \A i \in DOMAIN d.checkpoints :
             /\ d.checkpoints[i].step = i
             /\ i <= Len(ApprovedPlan(c).steps)
             /\ d.checkpoints[i].outcome = "deviation" =>
                   i = Len(d.checkpoints) /\ d.state = "paused"
             /\ d.checkpoints[i].outcome = "remediated" =>
                   d.checkpoints[i].verifiedBy \notin {NoOne, d.checkpoints[i].operator}
        <3> SUFFICES ASSUME NEW i \in 1..(n + 1)
                     PROVE  /\ d.checkpoints[i].step = i
                            /\ i <= Len(ApprovedPlan(c).steps)
                            /\ d.checkpoints[i].outcome = "deviation" =>
                                  i = Len(d.checkpoints) /\ d.state = "paused"
                            /\ d.checkpoints[i].outcome = "remediated" =>
                                  d.checkpoints[i].verifiedBy \notin {NoOne, d.checkpoints[i].operator}
            BY <1>3
        <3>1. CASE i = n + 1
            BY <3>1, <1>2, <1>3, <1>7
        <3>2. CASE i \in 1..n
            BY <3>2, <1>3, <1>6 DEF validateCheckpointSnapshot
        <3> QED
            BY <1>3, <3>1, <3>2
    <2>2. d.state \in isTreatmentComplete => Len(d.checkpoints) = Len(ApprovedPlan(c).steps)
        BY <1>2, <1>3, <1>7 DEF isTreatmentComplete
    <2> QED
        BY <1>1, <1>4, <1>8, <2>1, <2>2 DEF validateCheckpointSnapshot
<1>13. OneOpenDeviation(d)
    <2>1. d.state = "paused" <=>
             \E i \in DOMAIN d.checkpoints : d.checkpoints[i].outcome = "deviation"
        BY <1>2, <1>3, <1>6, <1>7
    <2>2. \A i \in DOMAIN d.checkpoints :
             /\ d.checkpoints[i].outcome = "deviation" => i = Len(d.checkpoints)
             /\ d.checkpoints[i].step \in DOMAIN ApprovedPlan(c).steps
        BY <1>2, <1>3, <1>5, <1>6 DEF OneOpenDeviation
    <2> QED
        BY <1>4, <2>1, <2>2 DEF OneOpenDeviation
<1>14. validateStabilitySnapshot(d)
    BY <1>7 DEF validateStabilitySnapshot
<1>15. validateTerminalSnapshot(d) /\ SignedIsReleased(d)
    BY <1>1, <1>7 DEF validateTerminalSnapshot, SignedIsReleased
<1>16. ApprovedIsCurrent(d)
    BY <1>1, <1>4, <1>7 DEF ApprovedIsCurrent, stateNeedsApproval
<1> QED
    BY <1>1, <1>9, <1>10, <1>11, <1>12, <1>13, <1>14, <1>15, <1>16 DEF d

LEMMA PausedHasCheckpoint ==
    ASSUME NEW c \in Case, OneOpenDeviation(c), c.state = "paused"
    PROVE  Len(c.checkpoints) \in DOMAIN c.checkpoints
BY DEF OneOpenDeviation

LEMMA ResolveDeviationSound ==
    ASSUME NEW c \in Case, Sound(c), NEW verifier \in Actors, CanResolveDeviation(c, verifier)
    PROVE  Sound(ResolveDeviation(c, verifier))
<1> DEFINE d == ResolveDeviation(c, verifier)
           n == Len(c.checkpoints)
           cp == [c.checkpoints[n] EXCEPT !.verifiedBy = verifier, !.outcome = "remediated"]
<1> USE DEF Sound, ValidateSnapshot
<1>1. c.checkpoints \in Seq(Checkpoint) /\ n \in DOMAIN c.checkpoints
      /\ n \in Nat /\ DOMAIN c.checkpoints = 1..n
    BY CaseFields, PausedHasCheckpoint DEF CanResolveDeviation
<1>2. /\ d.state = AfterStep(c, c.checkpoints[n].step)
      /\ c.state = "paused" /\ d.required = c.required
      /\ d.conditions = c.conditions /\ d.plans = c.plans /\ d.trials = c.trials
      /\ d.checkpoints = [c.checkpoints EXCEPT ![n] = cp]
      /\ d.stability = c.stability /\ d.release = c.release /\ d.archive = c.archive
    BY DEF ResolveDeviation, CanResolveDeviation, Case
<1>3. c.checkpoints[n] \in Checkpoint
    <2> HIDE DEF n
    <2> QED BY <1>1
<1>4. /\ cp.step = c.checkpoints[n].step /\ cp.outcome = "remediated"
      /\ cp.operator = c.checkpoints[n].operator
      /\ cp.verifiedBy \notin {NoOne, cp.operator}
    BY <1>3, NoOneAssumption DEF Checkpoint, CanResolveDeviation
<1>5. c.checkpoints[n].step = n
    BY <1>1 DEF validateCheckpointSnapshot
<1> HIDE DEF d, cp
<1>6. /\ DOMAIN d.checkpoints = 1..n /\ Len(d.checkpoints) = n
      /\ \A i \in 1..n : d.checkpoints[i] = IF i = n THEN cp ELSE c.checkpoints[i]
    BY <1>1, <1>2
<1> HIDE DEF n
<1>7. /\ ApprovedVersions(d) = ApprovedVersions(c)
      /\ ApprovedPlan(d) = ApprovedPlan(c) /\ CurrentVersion(d) = CurrentVersion(c)
    BY <1>2, PlansFrame
<1>8. \A i \in 1..n : i # n => c.checkpoints[i].outcome # "deviation"
    BY <1>1 DEF n, OneOpenDeviation
<1>9. d.state \in {"treated", "treating"}
      /\ (d.state = "treated" => n = Len(ApprovedPlan(c).steps))
    BY <1>2, <1>5 DEF AfterStep
<1>10. c.release = NoOne
    BY <1>2 DEF SignedIsReleased
<1>11. validateConditionSnapshot(d)
    BY <1>2, ConditionFrame
<1>12. validatePlanSnapshot(d)
    BY <1>2, PlanFrame DEF stateNeedsApproval
<1>13. validateTrialSnapshot(d)
    BY <1>2, <1>7, TrialFrame DEF stateNeedsTrial, stateNeedsApproval
<1>14. validateCheckpointSnapshot(d)
    <2>1. \A i \in DOMAIN d.checkpoints :
             /\ d.checkpoints[i].step = i
             /\ ApprovedVersions(c) # {}
             /\ i <= Len(ApprovedPlan(c).steps)
             /\ d.checkpoints[i].outcome # "deviation"
             /\ d.checkpoints[i].outcome = "remediated" =>
                   d.checkpoints[i].verifiedBy \notin {NoOne, d.checkpoints[i].operator}
        BY <1>1, <1>4, <1>5, <1>6, <1>8 DEF validateCheckpointSnapshot
    <2>2. d.state \in isTreatmentComplete =>
             ApprovedVersions(c) # {} /\ Len(d.checkpoints) = Len(ApprovedPlan(c).steps)
        BY <1>1, <1>6, <1>9 DEF isTreatmentComplete, validateCheckpointSnapshot
    <2> QED
        BY <1>2, <1>7, <1>10, <2>1, <2>2 DEF validateCheckpointSnapshot
<1>15. OneOpenDeviation(d)
    BY <1>1, <1>4, <1>6, <1>7, <1>8, <1>9 DEF n, OneOpenDeviation
<1>16. validateStabilitySnapshot(d)
    BY <1>9 DEF validateStabilitySnapshot
<1>17. validateTerminalSnapshot(d) /\ SignedIsReleased(d)
    BY <1>2, <1>9 DEF validateTerminalSnapshot, SignedIsReleased
<1>18. ApprovedIsCurrent(d)
    BY <1>2, <1>7, <1>9 DEF ApprovedIsCurrent, stateNeedsApproval
<1> QED
    BY <1>2, <1>11, <1>12, <1>13, <1>14, <1>15, <1>16, <1>17, <1>18 DEF d

LEMMA AddStabilitySound ==
    ASSUME NEW c \in Case, Sound(c), NEW hours \in 1..IntMax, NEW outcome \in Outcomes,
           CanAddStability(c)
    PROVE  Sound(AddStability(c, hours, outcome))
<1> DEFINE d == AddStability(c, hours, outcome)
           o == [hours |-> hours, outcome |-> outcome]
           observations == Append(c.stability, o)
           stable == outcome = "passed" /\ TotalHours(observations) >= 24
<1>1. /\ d.state = (IF stable THEN "stable" ELSE "treated")
      /\ c.state \in {"treated", "stable"} /\ d.required = c.required
      /\ d.conditions = c.conditions /\ d.plans = c.plans /\ d.trials = c.trials
      /\ d.checkpoints = c.checkpoints /\ d.stability = observations
      /\ d.release = c.release /\ d.archive = c.archive
    BY DEF AddStability, CanAddStability, Case
<1>2. observations # <<>> /\ observations[Len(observations)].outcome = outcome
    <2>1. c.stability \in Seq(Stability) /\ o.outcome = outcome
        BY CaseFields
    <2> HIDE DEF o
    <2>2. /\ Len(observations) = Len(c.stability) + 1 /\ Len(c.stability) \in Nat
          /\ observations[Len(c.stability) + 1] = o
        BY <2>1
    <2> QED
        BY <2>1, <2>2
<1> HIDE DEF d, o, observations
<1> USE DEF Sound, ValidateSnapshot
<1>3. d.state \in {"treated", "stable"} /\ (d.state = "stable" => stable)
    BY <1>1
<1> HIDE DEF stable
<1>4. validateConditionSnapshot(d)
    BY <1>1, ConditionFrame
<1>5. validatePlanSnapshot(d)
    BY <1>1, PlanFrame DEF stateNeedsApproval
<1>6. validateTrialSnapshot(d)
    BY <1>1, PlansFrame, TrialFrame DEF stateNeedsTrial, stateNeedsApproval
<1>7. validateCheckpointSnapshot(d) /\ OneOpenDeviation(d)
    BY <1>1, <1>3, CheckpointFrame DEF isTreatmentComplete
<1>8. validateStabilitySnapshot(d)
    BY <1>1, <1>2, <1>3 DEF stable, validateStabilitySnapshot
<1>9. validateTerminalSnapshot(d) /\ SignedIsReleased(d)
    BY <1>1, <1>3 DEF validateTerminalSnapshot, SignedIsReleased
<1>10. ApprovedIsCurrent(d)
    BY <1>1, <1>3, PlansFrame DEF ApprovedIsCurrent, stateNeedsApproval
<1> QED
    BY <1>1, <1>4, <1>5, <1>6, <1>7, <1>8, <1>9, <1>10 DEF d

LEMMA ReleaseCaseSound ==
    ASSUME NEW c \in Case, Sound(c), NEW reviewer, ReleaseEligible(c, reviewer)
    PROVE  Sound(ReleaseCase(c, reviewer))
<1> DEFINE d == ReleaseCase(c, reviewer)
<1>1. /\ d.state = "released" /\ c.state = "stable" /\ d.required = c.required
      /\ d.conditions = c.conditions /\ d.plans = c.plans /\ d.trials = c.trials
      /\ d.checkpoints = c.checkpoints /\ d.stability = c.stability
      /\ d.release = reviewer /\ d.archive = c.archive
      /\ reviewer # NoOne /\ reviewer \notin Operators(c)
    BY DEF ReleaseCase, ReleaseEligible, Case
<1> HIDE DEF d
<1> USE DEF Sound, ValidateSnapshot
<1>2. validateConditionSnapshot(d)
    BY <1>1, ConditionFrame
<1>3. validatePlanSnapshot(d)
    BY <1>1, PlanFrame DEF stateNeedsApproval
<1>4. validateTrialSnapshot(d)
    BY <1>1, PlansFrame, TrialFrame DEF stateNeedsTrial, stateNeedsApproval
<1>5. validateCheckpointSnapshot(d) /\ OneOpenDeviation(d)
    BY <1>1, CheckpointFrame DEF isTreatmentComplete
<1>6. validateStabilitySnapshot(d)
    BY <1>1, StabilityFrame
<1>7. validateTerminalSnapshot(d) /\ SignedIsReleased(d)
    BY <1>1 DEF validateTerminalSnapshot, SignedIsReleased
<1>8. ApprovedIsCurrent(d)
    BY <1>1, PlansFrame DEF ApprovedIsCurrent, stateNeedsApproval
<1> QED
    BY <1>1, <1>2, <1>3, <1>4, <1>5, <1>6, <1>7, <1>8 DEF d

LEMMA MarkArchivedSound ==
    ASSUME NEW c \in Case, Sound(c), NEW manifest \in Manifests, CanMarkArchived(c)
    PROVE  Sound(MarkArchived(c, manifest))
<1> DEFINE d == MarkArchived(c, manifest)
<1>1. /\ d.state = "archived" /\ c.state = "released" /\ d.required = c.required
      /\ d.conditions = c.conditions /\ d.plans = c.plans /\ d.trials = c.trials
      /\ d.checkpoints = c.checkpoints /\ d.stability = c.stability
      /\ d.release = c.release /\ d.archive = manifest
    BY DEF MarkArchived, CanMarkArchived, Case
<1> HIDE DEF d
<1> USE DEF Sound, ValidateSnapshot
<1>2. validateConditionSnapshot(d)
    BY <1>1, ConditionFrame
<1>3. validatePlanSnapshot(d)
    BY <1>1, PlanFrame DEF stateNeedsApproval
<1>4. validateTrialSnapshot(d)
    BY <1>1, PlansFrame, TrialFrame DEF stateNeedsTrial, stateNeedsApproval
<1>5. validateCheckpointSnapshot(d) /\ OneOpenDeviation(d)
    BY <1>1, CheckpointFrame DEF isTreatmentComplete
<1>6. validateStabilitySnapshot(d)
    BY <1>1, StabilityFrame
<1>7. validateTerminalSnapshot(d) /\ SignedIsReleased(d)
    BY <1>1, NoManifestAssumption DEF validateTerminalSnapshot, SignedIsReleased
<1>8. ApprovedIsCurrent(d)
    BY <1>1, PlansFrame DEF ApprovedIsCurrent, stateNeedsApproval
<1> QED
    BY <1>1, <1>2, <1>3, <1>4, <1>5, <1>6, <1>7, <1>8 DEF d

-----------------------------------------------------------------------------
(* Only ReviewEthics, which compares the reviewer with the custodian,      *)
(* gives a plan a verdict.                                                 *)

LEMMA SamePlansCustodian ==
    ASSUME NEW c, NEW d, CustodianDecides(c), d.plans = c.plans, d.custodian = c.custodian
    PROVE  CustodianDecides(d)
BY DEF CustodianDecides

LEMMA SavePlanCustodian ==
    ASSUME NEW c \in Case, CustodianDecides(c), NEW body \in PlanBody
    PROVE  CustodianDecides(SavePlan(c, body))
<1> DEFINE d == SavePlan(c, body)
           plan == [steps |-> body.steps, complete |-> body.complete,
                    status |-> "draft", decision |-> "none", reviewer |-> NoOne]
<1>1. d.plans = Append(c.plans, plan) /\ d.custodian = c.custodian /\ plan.status = "draft"
    BY DEF SavePlan, Case
<1> HIDE DEF d, plan
<1>2. c.plans \in Seq(Plan)
    BY CaseFields
<1>3. CustodianDecides(d)
    BY <1>1, <1>2 DEF CustodianDecides
<1> QED
    BY <1>3 DEF d

LEMMA SubmitPlanCustodian ==
    ASSUME NEW c \in Case, CustodianDecides(c), CanSubmitPlan(c)
    PROVE  CustodianDecides(SubmitPlan(c))
<1> DEFINE d == SubmitPlan(c)
           n == CurrentVersion(c)
           plan == [c.plans[n] EXCEPT !.status = "submitted"]
<1>1. c.plans \in Seq(Plan) /\ n \in 1..Len(c.plans)
    BY CaseFields DEF CanSubmitPlan, HasStatus, CurrentVersion
<1>2. d.plans = [c.plans EXCEPT ![n] = plan] /\ d.custodian = c.custodian
    BY DEF SubmitPlan, Case
<1>3. c.plans[n] \in Plan
    <2> HIDE DEF n
    <2> QED BY <1>1
<1>4. plan.status = "submitted"
    BY <1>3 DEF Plan
<1> HIDE DEF d, n, plan
<1>5. CustodianDecides(d)
    BY <1>1, <1>2, <1>4 DEF CustodianDecides
<1> QED
    BY <1>5 DEF d

LEMMA ReviewEthicsCustodian ==
    ASSUME NEW c \in Case, CustodianDecides(c), NEW reviewer \in Actors,
           NEW approve \in BOOLEAN, CanReviewEthics(c, reviewer)
    PROVE  CustodianDecides(ReviewEthics(c, reviewer, approve))
<1> DEFINE d == ReviewEthics(c, reviewer, approve)
           n == CurrentVersion(c)
           plan == [c.plans[n] EXCEPT !.reviewer = reviewer,
                                      !.decision = IF approve THEN "approve" ELSE "return",
                                      !.status = IF approve THEN "approved" ELSE "returned"]
<1>1. c.plans \in Seq(Plan) /\ n \in 1..Len(c.plans)
    BY CaseFields DEF CanReviewEthics, HasStatus, CurrentVersion
<1>2. d.plans = [c.plans EXCEPT ![n] = plan] /\ d.custodian = c.custodian
      /\ reviewer = c.custodian
    BY DEF ReviewEthics, CanReviewEthics, Case
<1>3. c.plans[n] \in Plan
    <2> HIDE DEF n
    <2> QED BY <1>1
<1>4. plan.reviewer = reviewer
    BY <1>3 DEF Plan
<1> HIDE DEF d, n, plan
<1>5. CustodianDecides(d)
    BY <1>1, <1>2, <1>4 DEF CustodianDecides
<1> QED
    BY <1>5 DEF d

-----------------------------------------------------------------------------
(* The remaining operations keep their types.                              *)

LEMMA LockBaselineType ==
    ASSUME NEW c \in Case PROVE LockBaseline(c) \in Case
BY DEF LockBaseline, Case, States

LEMMA AddTrialType ==
    ASSUME NEW c \in Case, NEW version \in Nat, NEW outcome \in Outcomes,
           CanAddTrial(c, version)
    PROVE  AddTrial(c, version, outcome) \in Case
<1> DEFINE trial == [version |-> version, outcome |-> outcome]
           state == IF outcome = "passed" THEN "trial_passed" ELSE c.state
<1>1. version \in Nat \ {0}
    BY DEF CanAddTrial, HasStatus, CurrentVersion
<1>2. trial \in Trial
    BY <1>1 DEF Trial
<1>3. Append(c.trials, trial) \in Seq(Trial)
    BY <1>2, CaseFields
<1>4. state \in States
    BY CaseFields DEF States
<1>5. AddTrial(c, version, outcome) = [c EXCEPT !.trials = Append(@, trial), !.state = state]
    BY DEF AddTrial
<1> HIDE DEF trial, state
<1> QED
    BY <1>3, <1>4, <1>5 DEF Case

LEMMA AddStabilityType ==
    ASSUME NEW c \in Case, NEW hours \in 1..IntMax, NEW outcome \in Outcomes
    PROVE  AddStability(c, hours, outcome) \in Case
<1> DEFINE o == [hours |-> hours, outcome |-> outcome]
           observations == Append(c.stability, o)
           state == IF outcome = "passed" /\ TotalHours(observations) >= 24
                    THEN "stable" ELSE "treated"
<1>1. o \in Stability
    BY DEF Stability
<1>2. observations \in Seq(Stability)
    BY <1>1, CaseFields
<1>3. state \in States
    BY DEF States
<1>4. AddStability(c, hours, outcome) =
        [c EXCEPT !.stability = observations, !.state = state]
    BY DEF AddStability
<1> HIDE DEF observations, state
<1> QED
    BY <1>2, <1>3, <1>4 DEF Case

LEMMA ReleaseCaseType ==
    ASSUME NEW c \in Case, NEW reviewer \in Actors PROVE ReleaseCase(c, reviewer) \in Case
BY DEF ReleaseCase, Case, States

LEMMA MarkArchivedType ==
    ASSUME NEW c \in Case, NEW manifest \in Manifests PROVE MarkArchived(c, manifest) \in Case
BY DEF MarkArchived, Case, States

-----------------------------------------------------------------------------
(* The inductive invariant.                                                *)

LEMMA InitInv == Init => IInv
<1> SUFFICES ASSUME NEW required \in SUBSET Regions, NEW custodian \in Actors,
                    CanCreateCase(required), case = CreateCase(required, custodian)
             PROVE  IInv
    BY DEF Init
<1>1. TypeOK
    BY DEF TypeOK, Case, CreateCase, States
<1>2. Sound(case)
    BY CreateSound
<1>3. CustodianDecides(case)
    BY DEF CreateCase, CustodianDecides
<1> QED
    BY <1>1, <1>2, <1>3 DEF IInv

LEMMA NextInv == IInv /\ [Next]_case => IInv'
<1> SUFFICES ASSUME case \in Case, Sound(case), CustodianDecides(case), [Next]_case
             PROVE  case' \in Case /\ Sound(case') /\ CustodianDecides(case')
    BY DEF IInv, TypeOK
<1>1. CASE Condition
    <2> PICK region \in Regions :
            CanAddCondition(case, region) /\ case' = AddCondition(case, region)
        BY <1>1 DEF Condition
    <2>1. case'.plans = case.plans /\ case'.custodian = case.custodian
        BY DEF AddCondition, Case
    <2> QED
        BY <2>1, AddConditionType, AddConditionSound, SamePlansCustodian
<1>2. CASE Lock
    <2>1. case'.plans = case.plans /\ case'.custodian = case.custodian
        BY <1>2 DEF Lock, LockBaseline, Case
    <2> QED
        BY <1>2, <2>1, LockBaselineType, LockBaselineSound, SamePlansCustodian DEF Lock
<1>3. CASE Save
    <2> PICK body \in PlanBodies : CanSavePlan(case) /\ case' = SavePlan(case, body)
        BY <1>3 DEF Save
    <2>1. body \in PlanBody
        BY PlanBodiesAssumption
    <2> QED
        BY <2>1, SavePlanType, SavePlanSound, SavePlanCustodian
<1>4. CASE Submit
    BY <1>4, SubmitPlanType, SubmitPlanSound, SubmitPlanCustodian DEF Submit
<1>5. CASE RecordTrial
    <2> PICK version \in 1..MaxPlans, outcome \in Outcomes :
            CanAddTrial(case, version) /\ case' = AddTrial(case, version, outcome)
        BY <1>5 DEF RecordTrial
    <2>1. version \in Nat
        BY CaseFields DEF CanAddTrial, CurrentVersion
    <2>2. case'.plans = case.plans /\ case'.custodian = case.custodian
        BY DEF AddTrial, Case
    <2> QED
        BY <2>1, <2>2, AddTrialType, AddTrialSound, SamePlansCustodian
<1>6. CASE Review
    <2> PICK reviewer \in Actors, approve \in BOOLEAN :
            CanReviewEthics(case, reviewer) /\ case' = ReviewEthics(case, reviewer, approve)
        BY <1>6 DEF Review
    <2> QED
        BY ReviewEthicsType, ReviewEthicsSound, ReviewEthicsCustodian
<1>7. CASE Complete
    <2> PICK step \in 1..(Len(case.checkpoints) + 1), operator \in Actors, readings \in Readings :
            /\ CanCompleteCheckpoint(case, step, readings)
            /\ case' = CompleteCheckpoint(case, step, operator, readings)
        BY <1>7 DEF Complete
    <2>1. step \in Nat \ {0}
        BY CaseFields
    <2>2. case'.plans = case.plans /\ case'.custodian = case.custodian
        BY DEF CompleteCheckpoint, Case
    <2> QED
        BY <2>1, <2>2, CompleteCheckpointType, CompleteCheckpointSound, SamePlansCustodian
<1>8. CASE Resolve
    <2> PICK verifier \in Actors :
            CanResolveDeviation(case, verifier) /\ case' = ResolveDeviation(case, verifier)
        BY <1>8 DEF Resolve
    <2>1. case.checkpoints # <<>>
        BY PausedHasCheckpoint DEF CanResolveDeviation, Sound
    <2>2. case'.plans = case.plans /\ case'.custodian = case.custodian
        BY DEF ResolveDeviation, Case
    <2> QED
        BY <2>1, <2>2, ResolveDeviationType, ResolveDeviationSound, SamePlansCustodian
<1>9. CASE RecordStability
    <2> PICK hours \in Hours, outcome \in Outcomes :
            CanAddStability(case) /\ case' = AddStability(case, hours, outcome)
        BY <1>9 DEF RecordStability
    <2>1. hours \in 1..IntMax
        BY HoursAssumption
    <2>2. case'.plans = case.plans /\ case'.custodian = case.custodian
        BY DEF AddStability, Case
    <2> QED
        BY <2>1, <2>2, AddStabilityType, AddStabilitySound, SamePlansCustodian
<1>10. CASE Release
    <2> PICK reviewer \in Actors \cup {NoOne} :
            ReleaseEligible(case, reviewer) /\ case' = ReleaseCase(case, reviewer)
        BY <1>10 DEF Release
    <2>1. reviewer \in Actors
        BY DEF ReleaseEligible
    <2>2. case'.plans = case.plans /\ case'.custodian = case.custodian
        BY DEF ReleaseCase, Case
    <2> QED
        BY <2>1, <2>2, ReleaseCaseType, ReleaseCaseSound, SamePlansCustodian
<1>11. CASE Archive
    <2> PICK manifest \in Manifests :
            CanMarkArchived(case) /\ case' = MarkArchived(case, manifest)
        BY <1>11 DEF Archive
    <2>1. case'.plans = case.plans /\ case'.custodian = case.custodian
        BY DEF MarkArchived, Case
    <2> QED
        BY <2>1, MarkArchivedType, MarkArchivedSound, SamePlansCustodian
<1>12. CASE UNCHANGED case
    BY <1>12
<1> QED
    BY <1>1, <1>2, <1>3, <1>4, <1>5, <1>6, <1>7, <1>8, <1>9, <1>10, <1>11, <1>12 DEF Next

THEOREM Inductive == Spec => []IInv
BY InitInv, NextInv, PTL DEF Spec

-----------------------------------------------------------------------------
(* The results.                                                            *)

(* The record keeps its shape, whatever commands are accepted.             *)
THEOREM TypeCorrect == Spec => []TypeOK
<1>1. IInv => TypeOK
    BY DEF IInv
<1> QED
    BY <1>1, Inductive, PTL

(* No sequence of accepted commands leaves a case ValidateSnapshot refuses:*)
(* Mutate's check of the result never fails, nor does the start-up check.  *)
THEOREM SnapshotsStayValid == Spec => []SnapshotValid
<1>1. IInv => SnapshotValid
    BY DEF IInv, Sound, SnapshotValid
<1> QED
    BY <1>1, Inductive, PTL

(* A case is paused exactly while its last checkpoint is an open deviation,*)
(* and the unchecked indexing of checkpoints and plan steps never panics.  *)
THEOREM DeviationsHold == Spec => []DeviationHolds
<1>1. IInv => DeviationHolds
    BY DEF IInv, Sound, DeviationHolds
<1> QED
    BY <1>1, Inductive, PTL

(* An approved plan is the newest one, and exactly the states from         *)
(* approved on have one.                                                   *)
THEOREM ApprovedStaysCurrent == Spec => []ApprovedPlanIsCurrent
<1>1. IInv => ApprovedPlanIsCurrent
    BY DEF IInv, Sound, ApprovedPlanIsCurrent
<1> QED
    BY <1>1, Inductive, PTL

LEMMA GateHolds == IInv => ReleaseGate
<1> SUFFICES ASSUME case \in Case, Sound(case), CustodianDecides(case), case.release # NoOne
             PROVE  ReleaseGate
    BY DEF IInv, TypeOK, ReleaseGate
<1> DEFINE version == CurrentVersion(case)
           plan == case.plans[version]
<1> USE DEF Sound, ValidateSnapshot
<1>1. case.state \in {"released", "archived"}
    BY DEF SignedIsReleased
<1>2. /\ ApprovedVersions(case) = {version} /\ ApprovedPlan(case) = plan
    BY <1>1, ApprovedPlanIsLast DEF stateNeedsApproval
<1>3. plan.status = "approved" /\ plan.reviewer = case.custodian
    BY <1>2 DEF ApprovedVersions, CustodianDecides
<1>4. PassedTrialOf(version)
    BY <1>1 DEF PassedTrialOf, validateTrialSnapshot, stateNeedsTrial, stateNeedsApproval
<1>5. Len(case.checkpoints) = Len(plan.steps) /\ case.release \notin Operators(case)
    BY <1>1, <1>2 DEF validateCheckpointSnapshot, isTreatmentComplete
<1>6. ASSUME NEW i \in DOMAIN case.checkpoints
      PROVE  /\ case.checkpoints[i].step = i
             /\ \/ case.checkpoints[i].outcome = "completed"
                \/ /\ case.checkpoints[i].outcome = "remediated"
                   /\ case.checkpoints[i].verifiedBy \in Actors \ {case.checkpoints[i].operator}
    <2>1. case.checkpoints[i] \in Checkpoint
        BY CaseFields
    <2> QED
        BY <1>1, <2>1 DEF Checkpoint, validateCheckpointSnapshot
<1>7. case.stability[Len(case.stability)].outcome = "passed"
    BY <1>1 DEF validateStabilitySnapshot
<1> QED
    BY <1>3, <1>4, <1>5, <1>6, <1>7 DEF ReleaseGate

(* What a release signature stands for: an approved current plan with a    *)
(* passed trial, every step done in order with every deviation remediated  *)
(* under someone else's eyes, a passing last observation, and a signer who *)
(* treated nothing.                                                        *)
THEOREM GateIsKept == Spec => []ReleaseGate
BY GateHolds, Inductive, PTL

-----------------------------------------------------------------------------
(* The sum of the durations.                                               *)

\* An int addition that wraps around is never more than the sum, as long
\* as the sum does not fall below the smallest int.
LEMMA WrapType ==
    ASSUME NEW x \in Int
    PROVE  /\ Wrap(x) \in Int /\ Wrap(x) >= -(IntMax + 1)
           /\ x >= -(IntMax + 1) => Wrap(x) <= x
<1> DEFINE m == x + IntMax + 1
           k == 2 * (IntMax + 1)
<1>1. m \in Int /\ k \in Int /\ k > 0
    BY IntMaxAssumption
<1>2. Wrap(x) = (m % k) - (IntMax + 1)
    BY DEF Wrap
<1>3. m = x + IntMax + 1 /\ IntMax \in Int
    BY IntMaxAssumption
<1> HIDE DEF m, k
<1>4. m % k \in 0..(k - 1) /\ (m >= 0 => m % k <= m)
    BY <1>1
<1> QED
    BY <1>2, <1>3, <1>4

\* What the recursive definitions of the two sums say of them.
LEMMA TrueSum ==
    ASSUME NEW observations \in Seq(Stability)
    PROVE  \E sum : /\ sum \in [0..Len(observations) -> Int] /\ sum[0] = 0
                    /\ TrueHours(observations) = sum[Len(observations)]
                    /\ \A i \in 1..Len(observations) :
                          sum[i] = sum[i - 1] + observations[i].hours
<1> DEFINE n == Len(observations)
           step == [i \in 1..n |-> [x \in Int |-> x + observations[i].hours]]
           Equation(g) == g = [i \in 0..n |-> IF i = 0 THEN 0
                                              ELSE g[i - 1] + observations[i].hours]
           sum == CHOOSE g : Equation(g)
<1>1. n \in Nat /\ 0 \in Int
    BY LenProperties
<1>2. \A i \in 1..n : observations[i].hours \in Nat
    <2>1. \A i \in 1..n : observations[i] \in Stability
        BY ElementOfSeq
    <2> QED
        BY <2>1, IntMaxAssumption DEF Stability
<1>3. \A i \in 1..n : \A x \in Int :
         step[i][x] = x + observations[i].hours /\ step[i][x] \in Int
    BY <1>2
<1>4. TrueHours(observations) = sum[n]
    BY DEF TrueHours
<1> HIDE DEF n, step
<1>5. PICK g : IsRun(g, n, Int, 0, step)
    BY <1>1, <1>3, RecursionExists
<1>6. /\ g \in [0..n -> Int] /\ g[0] = 0
      /\ \A i \in 1..n : g[i] = g[i - 1] + observations[i].hours
    <2>1. \A i \in 1..n : g[i - 1] \in Int
        BY <1>1, <1>5 DEF IsRun
    <2> QED
        BY <1>3, <1>5, <2>1 DEF IsRun
<1>7. Equation(g)
    <2>1. g = [i \in 0..n |-> g[i]]
        BY <1>6
    <2>2. \A i \in 0..n : g[i] = IF i = 0 THEN 0 ELSE g[i - 1] + observations[i].hours
        BY <1>1, <1>6
    <2> QED
        BY <2>1, <2>2
<1>8. Equation(sum)
    BY <1>7
<1> HIDE DEF sum
<1>9. /\ sum = [i \in 0..n |-> sum[i]] /\ sum[0] = 0
      /\ \A i \in 1..n : sum[i] = sum[i - 1] + observations[i].hours
    <2>1. sum = [i \in 0..n |-> sum[i]]
        BY <1>8
    <2>2. \A i \in 0..n : sum[i] = IF i = 0 THEN 0 ELSE sum[i - 1] + observations[i].hours
        BY <1>8
    <2> QED
        BY <1>1, <2>1, <2>2
<1> DEFINE T == {i \in 0..n : sum[i] \in Int}
<1>10. 0 \in T
    BY <1>1, <1>9
<1>11. ASSUME NEW i \in 0..(n - 1), i \in T PROVE i + 1 \in T
    <2>1. i + 1 \in 1..n /\ (i + 1) - 1 = i
        BY <1>1
    <2>2. sum[i + 1] = sum[i] + observations[i + 1].hours
        BY <1>9, <2>1
    <2> QED
        BY <1>1, <1>2, <1>11, <2>1, <2>2
<1>12. \A i \in 0..n : sum[i] \in Int
    <2> HIDE DEF T
    <2>1. 0..n \subseteq T
        BY <1>1, <1>10, <1>11, BoundedInduction
    <2> QED
        BY <2>1 DEF T
<1> QED
    BY <1>4, <1>9, <1>12 DEF n

LEMMA WrappedSum ==
    ASSUME NEW observations \in Seq(Stability)
    PROVE  \E sum : /\ sum \in [0..Len(observations) -> Int] /\ sum[0] = 0
                    /\ TotalHours(observations) = sum[Len(observations)]
                    /\ \A i \in 1..Len(observations) :
                          sum[i] = Wrap(sum[i - 1] + observations[i].hours)
<1> DEFINE n == Len(observations)
           step == [i \in 1..n |-> [x \in Int |-> Wrap(x + observations[i].hours)]]
           Equation(g) == g = [i \in 0..n |-> IF i = 0 THEN 0
                                              ELSE Wrap(g[i - 1] + observations[i].hours)]
           sum == CHOOSE g : Equation(g)
<1>1. n \in Nat /\ 0 \in Int
    BY LenProperties
<1>2. \A i \in 1..n : observations[i].hours \in Nat
    <2>1. \A i \in 1..n : observations[i] \in Stability
        BY ElementOfSeq
    <2> QED
        BY <2>1, IntMaxAssumption DEF Stability
<1>3. \A i \in 1..n : \A x \in Int :
         step[i][x] = Wrap(x + observations[i].hours) /\ step[i][x] \in Int
    BY <1>2, WrapType
<1>4. TotalHours(observations) = sum[n]
    BY DEF TotalHours
<1> HIDE DEF n, step
<1>5. PICK g : IsRun(g, n, Int, 0, step)
    BY <1>1, <1>3, RecursionExists
<1>6. /\ g \in [0..n -> Int] /\ g[0] = 0
      /\ \A i \in 1..n : g[i] = Wrap(g[i - 1] + observations[i].hours)
    <2>1. \A i \in 1..n : g[i - 1] \in Int
        BY <1>1, <1>5 DEF IsRun
    <2> QED
        BY <1>3, <1>5, <2>1 DEF IsRun
<1>7. Equation(g)
    <2>1. g = [i \in 0..n |-> g[i]]
        BY <1>6
    <2>2. \A i \in 0..n : g[i] = IF i = 0 THEN 0 ELSE Wrap(g[i - 1] + observations[i].hours)
        BY <1>1, <1>6
    <2> QED
        BY <2>1, <2>2
<1>8. Equation(sum)
    BY <1>7
<1> HIDE DEF sum
<1>9. /\ sum = [i \in 0..n |-> sum[i]] /\ sum[0] = 0
      /\ \A i \in 1..n : sum[i] = Wrap(sum[i - 1] + observations[i].hours)
    <2>1. sum = [i \in 0..n |-> sum[i]]
        BY <1>8
    <2>2. \A i \in 0..n : sum[i] = IF i = 0 THEN 0 ELSE Wrap(sum[i - 1] + observations[i].hours)
        BY <1>8
    <2> QED
        BY <1>1, <2>1, <2>2
<1> DEFINE T == {i \in 0..n : sum[i] \in Int}
<1>10. 0 \in T
    BY <1>1, <1>9
<1>11. ASSUME NEW i \in 0..(n - 1), i \in T PROVE i + 1 \in T
    <2>1. i + 1 \in 1..n /\ (i + 1) - 1 = i
        BY <1>1
    <2>2. sum[i + 1] = Wrap(sum[i] + observations[i + 1].hours)
        BY <1>9, <2>1
    <2>3. i + 1 \in 0..n
        BY <2>1
    <2>4. sum[i] + observations[i + 1].hours \in Int
        BY <1>2, <1>11, <2>1
    <2>5. sum[i + 1] \in Int
        BY <2>2, <2>4, WrapType
    <2> QED
        BY <2>3, <2>5
<1>12. \A i \in 0..n : sum[i] \in Int
    <2> HIDE DEF T
    <2>1. 0..n \subseteq T
        BY <1>1, <1>10, <1>11, BoundedInduction
    <2> QED
        BY <2>1 DEF T
<1> QED
    BY <1>4, <1>9, <1>12 DEF n

\* Wrapping around only loses hours, it never makes some up.
LEMMA TotalAtMostTrue ==
    ASSUME NEW observations \in Seq(Stability)
    PROVE  TotalHours(observations) \in Int /\ TrueHours(observations) \in Int
           /\ TotalHours(observations) <= TrueHours(observations)
<1> DEFINE n == Len(observations)
<1>1. PICK true : /\ true \in [0..n -> Int] /\ true[0] = 0
                  /\ TrueHours(observations) = true[n]
                  /\ \A i \in 1..n : true[i] = true[i - 1] + observations[i].hours
    BY TrueSum
<1>2. PICK total : /\ total \in [0..n -> Int] /\ total[0] = 0
                   /\ TotalHours(observations) = total[n]
                   /\ \A i \in 1..n : total[i] = Wrap(total[i - 1] + observations[i].hours)
    BY WrappedSum
<1>3. n \in Nat
    BY LenProperties
<1>4. \A i \in 1..n : observations[i].hours \in Nat
    <2>1. \A i \in 1..n : observations[i] \in Stability
        BY ElementOfSeq
    <2> QED
        BY <2>1, IntMaxAssumption DEF Stability
<1> HIDE DEF n
<1> DEFINE T == {i \in 0..n : total[i] >= -(IntMax + 1) /\ total[i] <= true[i]}
<1>5. 0 \in T
    BY <1>1, <1>2, <1>3, IntMaxAssumption
<1>6. \A i \in 0..(n - 1) : i \in T => i + 1 \in T
    <2> SUFFICES ASSUME NEW i \in 0..(n - 1), i \in T PROVE i + 1 \in T
        OBVIOUS
    <2>1. i \in 0..n /\ i + 1 \in 1..n /\ (i + 1) - 1 = i
        BY <1>3
    <2> DEFINE hours == observations[i + 1].hours
    <2>2. hours \in Nat /\ total[i] \in Int /\ true[i] \in Int /\ IntMax \in Int
        BY <1>1, <1>2, <1>4, <2>1, IntMaxAssumption
    <2>3. total[i + 1] = Wrap(total[i] + hours) /\ true[i + 1] = true[i] + hours
        BY <1>1, <1>2, <2>1
    <2> HIDE DEF hours
    <2>4. total[i] + hours \in Int /\ total[i] + hours >= -(IntMax + 1)
        BY <2>2
    <2>5. Wrap(total[i] + hours) \in Int /\ Wrap(total[i] + hours) >= -(IntMax + 1)
          /\ Wrap(total[i] + hours) <= total[i] + hours
        BY <2>4, WrapType
    <2> QED
        BY <2>1, <2>2, <2>3, <2>5
<1> HIDE DEF T
<1>7. 0..n \subseteq T
    BY <1>3, <1>5, <1>6, BoundedInduction
<1>8. n \in T
    BY <1>3, <1>7
<1> QED
    BY <1>1, <1>2, <1>3, <1>8 DEF T

(* A case counts as stable, and may be signed or archived, only after 24   *)
(* real hours of observation: the validation of the snapshot asks it of    *)
(* the sum in an int, which is at most the real one.                       *)
THEOREM StabilityIsReal == Spec => []StableIsLongEnough
<1>1. ASSUME IInv PROVE StableIsLongEnough
    <2> SUFFICES ASSUME case.state \in {"stable", "released", "archived"}
                 PROVE  TrueHours(case.stability) >= 24
        BY DEF StableIsLongEnough
    <2>1. case.stability \in Seq(Stability)
        BY <1>1, CaseFields DEF IInv, TypeOK
    <2>2. TotalHours(case.stability) >= 24
        BY <1>1 DEF IInv, Sound, ValidateSnapshot, validateStabilitySnapshot
    <2>3. /\ TotalHours(case.stability) \in Int /\ TrueHours(case.stability) \in Int
          /\ TotalHours(case.stability) <= TrueHours(case.stability)
        BY <2>1, TotalAtMostTrue
    <2> QED
        BY <2>2, <2>3
<1> QED
    BY <1>1, Inductive, PTL

-----------------------------------------------------------------------------
(* Phases.                                                                 *)

\* One accepted command, as GatesAreOneWay has it.
OneWay ==
    /\ case.state # "draft" => /\ case'.state # "draft"
                               /\ case'.conditions = case.conditions
    /\ case.state \in stateNeedsApproval =>
          case'.state \in stateNeedsApproval /\ case'.plans = case.plans
    /\ case.state \in isTreatmentComplete =>
          case'.state \in isTreatmentComplete /\ case'.checkpoints = case.checkpoints
    /\ case.release # NoOne =>
          case' = [case EXCEPT !.state = "archived", !.archive = case'.archive]
    /\ case.state # "archived"

LEMMA NextOneWay == IInv /\ Next => OneWay
<1> SUFFICES ASSUME case \in Case, Next,
                    case.release # NoOne => case.state \in {"released", "archived"}
             PROVE  OneWay
    BY DEF IInv, TypeOK, Sound, SignedIsReleased
<1> USE DEF OneWay, Case, stateNeedsApproval, isTreatmentComplete
<1>1. CASE Condition
    BY <1>1 DEF Condition, CanAddCondition, AddCondition
<1>2. CASE Lock
    BY <1>2 DEF Lock, CanLockBaseline, LockBaseline
<1>3. CASE Save
    BY <1>3 DEF Save, CanSavePlan, SavePlan
<1>4. CASE Submit
    BY <1>4 DEF Submit, CanSubmitPlan, SubmitPlan
<1>5. CASE RecordTrial
    BY <1>5 DEF RecordTrial, CanAddTrial, AddTrial
<1>6. CASE Review
    BY <1>6 DEF Review, CanReviewEthics, ReviewEthics
<1>7. CASE Complete
    BY <1>7 DEF Complete, CanCompleteCheckpoint, CompleteCheckpoint, AfterStep
<1>8. CASE Resolve
    BY <1>8 DEF Resolve, CanResolveDeviation, ResolveDeviation, AfterStep
<1>9. CASE RecordStability
    BY <1>9 DEF RecordStability, CanAddStability, AddStability
<1>10. CASE Release
    BY <1>10 DEF Release, ReleaseEligible, ReleaseCase
<1>11. CASE Archive
    BY <1>11 DEF Archive, CanMarkArchived, MarkArchived
<1> QED
    BY <1>1, <1>2, <1>3, <1>4, <1>5, <1>6, <1>7, <1>8, <1>9, <1>10, <1>11 DEF Next

(* The phases cannot be walked backwards past a gate: a locked baseline,   *)
(* an approved plan, a finished treatment, a signature and an archived     *)
(* case stay what they are, whatever command is accepted later.            *)
THEOREM GatesStayClosed == Spec => GatesAreOneWay
<1>1. IInv /\ [Next]_case => [OneWay]_case
    BY NextOneWay
<1> QED
    BY <1>1, Inductive, PTL DEF Spec, GatesAreOneWay, OneWay


-----------------------------------------------------------------------------
(* Evidence.                                                               *)

CheckpointsKept(c, d) ==
    /\ DOMAIN c.checkpoints \subseteq DOMAIN d.checkpoints
    /\ \A i \in DOMAIN c.checkpoints : SameCheckpoint(c.checkpoints[i], d.checkpoints[i])

PlansKept(c, d) ==
    /\ DOMAIN c.plans \subseteq DOMAIN d.plans
    /\ \A v \in DOMAIN c.plans :
          LET old == c.plans[v]
              new == d.plans[v]
          IN  /\ new.steps = old.steps /\ new.complete = old.complete
              /\ old.status \in {"approved", "returned"} => new = old

\* One accepted command, as EvidenceKept has it.
Kept(c, d) ==
    /\ IsPrefix(c.conditions, d.conditions)
    /\ IsPrefix(c.trials, d.trials)
    /\ IsPrefix(c.stability, d.stability)
    /\ CheckpointsKept(c, d)
    /\ PlansKept(c, d)

LEMMA SameIsKept ==
    ASSUME NEW c \in Case, NEW d
    PROVE  /\ d.conditions = c.conditions => IsPrefix(c.conditions, d.conditions)
           /\ d.trials = c.trials => IsPrefix(c.trials, d.trials)
           /\ d.stability = c.stability => IsPrefix(c.stability, d.stability)
           /\ d.checkpoints = c.checkpoints => CheckpointsKept(c, d)
           /\ d.plans = c.plans => PlansKept(c, d)
<1>1. /\ d.conditions = c.conditions => IsPrefix(c.conditions, d.conditions)
      /\ d.trials = c.trials => IsPrefix(c.trials, d.trials)
      /\ d.stability = c.stability => IsPrefix(c.stability, d.stability)
    BY CaseFields, PrefixOfItself
<1>2. d.checkpoints = c.checkpoints => CheckpointsKept(c, d)
    BY DEF CheckpointsKept, SameCheckpoint
<1>3. d.plans = c.plans => PlansKept(c, d)
    BY DEF PlansKept
<1> QED
    BY <1>1, <1>2, <1>3

\* A change of the current plan's status, decision and reviewer before any verdict.
LEMMA StatusIsKept ==
    ASSUME NEW c \in Case, NEW status, NEW decision, NEW reviewer,
           CurrentVersion(c) > 0,
           c.plans[CurrentVersion(c)].status \in {"draft", "submitted"}
    PROVE  PlansKept(c, [c EXCEPT !.plans[CurrentVersion(c)] =
                            [@ EXCEPT !.reviewer = reviewer, !.decision = decision,
                                      !.status = status]])
<1> DEFINE v == CurrentVersion(c)
           plan == [c.plans[v] EXCEPT !.reviewer = reviewer, !.decision = decision,
                                      !.status = status]
           plans == [c.plans EXCEPT ![v] = plan]
<1>1. /\ c.plans \in Seq(Plan) /\ v \in DOMAIN c.plans
    BY CaseFields DEF CurrentVersion
<1>2. /\ c.plans[v] \in Plan
      /\ plan.steps = c.plans[v].steps /\ plan.complete = c.plans[v].complete
    <2> HIDE DEF v
    <2>1. c.plans[v] \in Plan
        BY <1>1
    <2> QED
        BY <2>1 DEF Plan
<1>3. /\ DOMAIN plans = DOMAIN c.plans
      /\ \A w \in DOMAIN c.plans : plans[w] = IF w = v THEN plan ELSE c.plans[w]
    <2> HIDE DEF v, plan
    <2> QED BY <1>1
<1>4. [c EXCEPT !.plans = plans].plans = plans
    BY DEF Case
<1> QED
    <2> HIDE DEF plan, plans
    <2>1. PlansKept(c, [c EXCEPT !.plans = plans])
        BY <1>1, <1>2, <1>3, <1>4 DEF PlansKept
    <2> QED
        BY <2>1 DEF plan, plans

LEMMA NextKept == IInv /\ Next => Kept(case, case')
<1> SUFFICES ASSUME case \in Case, Sound(case), Next PROVE Kept(case, case')
    BY DEF IInv, TypeOK
<1> USE SameIsKept, CaseFields
<1>1. CASE Condition
    <2> PICK region \in Regions :
            CanAddCondition(case, region) /\ case' = AddCondition(case, region)
        BY <1>1 DEF Condition
    <2>1. IsPrefix(case.conditions, case'.conditions)
        BY PrefixOfLonger DEF AddCondition, Case
    <2> QED
        BY <2>1 DEF AddCondition, Case, Kept
<1>2. CASE Lock
    BY <1>2 DEF Lock, LockBaseline, Case, Kept
<1>3. CASE Save
    <2> PICK body \in PlanBodies : CanSavePlan(case) /\ case' = SavePlan(case, body)
        BY <1>3 DEF Save
    <2> DEFINE plan == [steps |-> body.steps, complete |-> body.complete,
                        status |-> "draft", decision |-> "none", reviewer |-> NoOne]
    <2>1. case'.plans = Append(case.plans, plan)
        BY DEF SavePlan, Case
    <2>2. plan \in Plan
        BY PlanBodiesAssumption DEF PlanBody, Plan
    <2>3. /\ DOMAIN case.plans \subseteq DOMAIN case'.plans
          /\ \A v \in DOMAIN case.plans : case'.plans[v] = case.plans[v]
        <3> HIDE DEF plan
        <3> QED BY <2>1, <2>2, AppendProperties, LenProperties
    <2>4. PlansKept(case, case')
        BY <2>3 DEF PlansKept
    <2>9. /\ case'.conditions = case.conditions
          /\ case'.trials = case.trials
          /\ case'.checkpoints = case.checkpoints
          /\ case'.stability = case.stability
        BY DEF SavePlan, Case
    <2> QED
        BY <2>4, <2>9 DEF Kept
<1>4. CASE Submit
    <2> DEFINE v == CurrentVersion(case)
    <2>1. /\ v > 0 /\ case.plans[v].status = "draft"
          /\ case' = [case EXCEPT !.plans[v].status = "submitted"]
        BY <1>4 DEF Submit, CanSubmitPlan, SubmitPlan, HasStatus
    <2>2. v \in DOMAIN case.plans /\ case.plans[v] \in Plan
        <3>1. v \in 1..Len(case.plans) /\ case.plans \in Seq(Plan)
            BY <2>1 DEF CurrentVersion
        <3> HIDE DEF v
        <3> QED BY <3>1
    <2>3. [case.plans[v] EXCEPT !.status = "submitted"] =
             [case.plans[v] EXCEPT !.reviewer = case.plans[v].reviewer,
                                   !.decision = case.plans[v].decision,
                                   !.status = "submitted"]
        <3> HIDE DEF v
        <3> QED BY <2>2 DEF Plan
    <2>4. PlansKept(case, case')
        BY <2>1, <2>3, StatusIsKept
    <2> QED
        BY <2>1, <2>4 DEF Case, Kept
<1>5. CASE RecordTrial
    <2> PICK version \in 1..MaxPlans, outcome \in Outcomes :
            CanAddTrial(case, version) /\ case' = AddTrial(case, version, outcome)
        BY <1>5 DEF RecordTrial
    <2>1. [version |-> version, outcome |-> outcome] \in Trial
        BY DEF CanAddTrial, HasStatus, CurrentVersion, Trial
    <2>2. IsPrefix(case.trials, case'.trials)
        BY <2>1, PrefixOfLonger DEF AddTrial, Case
    <2>9. /\ case'.conditions = case.conditions
          /\ case'.plans = case.plans
          /\ case'.checkpoints = case.checkpoints
          /\ case'.stability = case.stability
        BY DEF AddTrial, Case
    <2> QED
        BY <2>2, <2>9 DEF Kept
<1>6. CASE Review
    <2> PICK reviewer \in Actors, approve \in BOOLEAN :
            CanReviewEthics(case, reviewer) /\ case' = ReviewEthics(case, reviewer, approve)
        BY <1>6 DEF Review
    <2> DEFINE v == CurrentVersion(case)
               status == IF approve THEN "approved" ELSE "returned"
               decision == IF approve THEN "approve" ELSE "return"
               plans == [case.plans EXCEPT ![v] =
                            [@ EXCEPT !.reviewer = reviewer, !.decision = decision,
                                      !.status = status]]
    <2>1. PlansKept(case, [case EXCEPT !.plans = plans])
        BY StatusIsKept DEF CanReviewEthics, HasStatus
    <2>2. case' = [case EXCEPT !.plans = plans, !.state = case'.state]
        BY DEF ReviewEthics
    <2> HIDE DEF plans
    <2>3. PlansKept(case, case')
        BY <2>1, <2>2 DEF PlansKept, Case
    <2> QED
        BY <2>2, <2>3 DEF Case, Kept
<1>7. CASE Complete
    <2> PICK step \in 1..(Len(case.checkpoints) + 1), operator \in Actors, readings \in Readings :
            /\ CanCompleteCheckpoint(case, step, readings)
            /\ case' = CompleteCheckpoint(case, step, operator, readings)
        BY <1>7 DEF Complete
    <2> DEFINE checkpoint == [step |-> step, operator |-> operator,
                              outcome |-> IF Deviated(case, step, readings)
                                          THEN "deviation" ELSE "completed",
                              verifiedBy |-> NoOne]
    <2>1. case'.checkpoints = Append(case.checkpoints, checkpoint)
        BY DEF CompleteCheckpoint, Case
    <2>2. checkpoint \in Checkpoint
        BY LenProperties DEF Checkpoint
    <2>3. /\ DOMAIN case.checkpoints \subseteq DOMAIN case'.checkpoints
          /\ \A i \in DOMAIN case.checkpoints : case'.checkpoints[i] = case.checkpoints[i]
        <3> HIDE DEF checkpoint
        <3> QED BY <2>1, <2>2, AppendProperties, LenProperties
    <2>4. CheckpointsKept(case, case')
        BY <2>3 DEF CheckpointsKept, SameCheckpoint
    <2>9. /\ case'.conditions = case.conditions
          /\ case'.plans = case.plans
          /\ case'.trials = case.trials
          /\ case'.stability = case.stability
        BY DEF CompleteCheckpoint, Case
    <2> QED
        BY <2>4, <2>9 DEF Kept
<1>8. CASE Resolve
    <2> PICK verifier \in Actors :
            CanResolveDeviation(case, verifier) /\ case' = ResolveDeviation(case, verifier)
        BY <1>8 DEF Resolve
    <2> DEFINE n == Len(case.checkpoints)
               cp == [case.checkpoints[n] EXCEPT !.verifiedBy = verifier,
                                                 !.outcome = "remediated"]
    <2>1. /\ n \in DOMAIN case.checkpoints /\ case.checkpoints[n] \in Checkpoint
          /\ case.checkpoints[n].outcome = "deviation"
        BY DEF CanResolveDeviation, Sound, OneOpenDeviation
    <2>2. /\ cp.step = case.checkpoints[n].step
          /\ cp.operator = case.checkpoints[n].operator
          /\ cp.outcome = "remediated"
        <3> HIDE DEF n
        <3> QED BY <2>1 DEF Checkpoint
    <2>3. case'.checkpoints = [case.checkpoints EXCEPT ![n] = cp]
        BY DEF ResolveDeviation, Case
    <2>4. CheckpointsKept(case, case')
        <3> HIDE DEF n, cp
        <3> QED BY <2>1, <2>2, <2>3 DEF CheckpointsKept, SameCheckpoint
    <2>9. /\ case'.conditions = case.conditions
          /\ case'.plans = case.plans
          /\ case'.trials = case.trials
          /\ case'.stability = case.stability
        BY DEF ResolveDeviation, Case
    <2> QED
        BY <2>4, <2>9 DEF Kept
<1>9. CASE RecordStability
    <2> PICK hours \in Hours, outcome \in Outcomes :
            CanAddStability(case) /\ case' = AddStability(case, hours, outcome)
        BY <1>9 DEF RecordStability
    <2>1. [hours |-> hours, outcome |-> outcome] \in Stability
        BY HoursAssumption DEF Stability
    <2>2. IsPrefix(case.stability, case'.stability)
        BY <2>1, PrefixOfLonger DEF AddStability, Case
    <2>9. /\ case'.conditions = case.conditions
          /\ case'.plans = case.plans
          /\ case'.trials = case.trials
          /\ case'.checkpoints = case.checkpoints
        BY DEF AddStability, Case
    <2> QED
        BY <2>2, <2>9 DEF Kept
<1>10. CASE Release
    BY <1>10 DEF Release, ReleaseCase, Case, Kept
<1>11. CASE Archive
    BY <1>11 DEF Archive, MarkArchived, Case, Kept
<1> QED
    BY <1>1, <1>2, <1>3, <1>4, <1>5, <1>6, <1>7, <1>8, <1>9, <1>10, <1>11 DEF Next

(* What was recorded is never rewritten: nothing is dropped from the case, *)
(* a checkpoint only changes by the one remediation of its deviation, and  *)
(* neither the steps of a plan nor the verdict on it do.                   *)
THEOREM EvidenceStays == Spec => EvidenceKept
<1>1. IInv /\ [Next]_case => [Kept(case, case')]_case
    BY NextKept
<1> QED
    BY <1>1, Inductive, PTL DEF Spec, EvidenceKept, Kept, CheckpointsKept, PlansKept

=============================================================================
