------------------------------- MODULE Reports -------------------------------
(***************************************************************************)
(* The read-only views of a case: internal/domain/reports.go and its       *)
(* callers in internal/application/reports.go.  Each is a pure function of *)
(* the snapshot, and each repeats, in words of its own, rules that the     *)
(* commands decide by.  People plan their next command by them, and so the *)
(* properties below compare what a report says with what the commands do.  *)
(*                                                                         *)
(* Left out with the texts and numbers they show: severities, measurements *)
(* and their trends, evidence references, time stamps (and with them the   *)
(* order of the listed trials and observations), parameter differences and *)
(* materials, by which the summaries of a plan's trials are split.         *)
(* A definition said to be a mutant is one a mistake in the code could     *)
(* turn the next one into; it is there to test the properties with.        *)
(***************************************************************************)
EXTENDS CaseLifecycle

\* math.Round(part*1000/whole)/10, in tenths of a percent; 0 for whole = 0.
Percentage(part, whole) ==
    IF whole = 0 THEN 0 ELSE (2000 * part + whole) \div (2 * whole)

-----------------------------------------------------------------------------
(* The baseline.                                                           *)

Duplicated(c) ==
    {region \in c.required :
        \E i, j \in DOMAIN c.conditions :
            i # j /\ c.conditions[i] = region /\ c.conditions[j] = region}

\* Mutant: the number of conditions is taken for the number of regions.
CoverageReportLoose(c) ==
    [readOnly   |-> c.state # "draft",
     missing    |-> IF Len(c.conditions) > 0 THEN {} ELSE c.required,
     duplicates |-> Duplicated(c),
     percentage |-> Percentage(Len(c.conditions), Cardinality(c.required))]

CoverageReport(c) ==
    [readOnly   |-> c.state # "draft",
     missing    |-> c.required \ Recorded(c),
     duplicates |-> Duplicated(c),
     percentage |-> Percentage(Cardinality(c.required \cap Recorded(c)),
                               Cardinality(c.required))]

-----------------------------------------------------------------------------
(* Plans and trials.                                                       *)

\* The decision on record; plans of older files have none, and the status tells.
Decision(p) == CASE p.decision # "none"   -> p.decision
                 [] p.status = "approved" -> "approve"
                 [] p.status = "returned" -> "return"
                 [] OTHER                 -> "none"

\* 0 when no plan is approved.
ApprovedVersion(c) == IF ApprovedVersions(c) = {} THEN 0 ELSE Max(ApprovedVersions(c))

PlanHistory(c) ==
    [v \in DOMAIN c.plans |->
        [status   |-> c.plans[v].status,
         decision |-> Decision(c.plans[v]),
         current  |-> v = CurrentVersion(c),
         approved |-> v = ApprovedVersion(c)]]

\* Also of TrialDetail.
Expired(c, version) == version # CurrentVersion(c)

TrialsOf(c, version, outcomes) ==
    {i \in DOMAIN c.trials : /\ c.trials[i].version = version
                             /\ c.trials[i].outcome \in outcomes}

TrialSummary(c, version) ==
    [total   |-> Cardinality(TrialsOf(c, version, Outcomes)),
     passed  |-> Cardinality(TrialsOf(c, version, {"passed"})),
     failed  |-> Cardinality(TrialsOf(c, version, Outcomes \ {"passed"})),
     expired |-> Expired(c, version),
     gate    |-> IF TrialsOf(c, version, {"passed"}) # {} THEN "passed" ELSE "blocked"]

\* The plan versions with a trial, each summarised.
TrialSummaries(c) ==
    [version \in {c.trials[i].version : i \in DOMAIN c.trials} |-> TrialSummary(c, version)]

\* Mutant: a trial of any version opens the gate.
TrialGateAny(c) ==
    IF \E version \in DOMAIN TrialSummaries(c) :
          TrialSummaries(c)[version].gate = "passed"
    THEN "passed" ELSE "blocked"

\* current_gate_status: a passed trial of a version that has not expired.
TrialGate(c) ==
    IF \E version \in DOMAIN TrialSummaries(c) :
          LET summary == TrialSummaries(c)[version]
          IN  ~summary.expired /\ summary.gate = "passed"
    THEN "passed" ELSE "blocked"

-----------------------------------------------------------------------------
(* The treatment.                                                          *)

\* Mutant: a remediated step is not counted.
StepDoneStrict(cp) == cp.outcome = "completed"

StepDone(cp) == cp.outcome \in {"completed", "remediated"}

CompletedSteps(c) == {i \in DOMAIN c.checkpoints : StepDone(c.checkpoints[i])}

PendingDeviations(c) == {i \in DOMAIN c.checkpoints : c.checkpoints[i].outcome = "deviation"}

\* Mutant: a pause is not looked at.
NextStepPaused(c, total) == IF Len(c.checkpoints) < total THEN Len(c.checkpoints) + 1 ELSE 0

\* 0 stands for no next_step_index.
NextStep(c, total) ==
    IF c.state # "paused" /\ Len(c.checkpoints) < total
    THEN Len(c.checkpoints) + 1 ELSE 0

\* Without an approved plan the report stays as it was set up.
ExecutionStatus(c) ==
    IF ApprovedVersions(c) = {}
    THEN [readOnly |-> c.state = "archived",
          total |-> 0, completed |-> 0, next |-> 0, percentage |-> 0, pending |-> {}]
    ELSE LET total     == Len(ApprovedPlan(c).steps)
             completed == Cardinality(CompletedSteps(c))
         IN  [readOnly   |-> c.state = "archived",
              total      |-> total,
              completed  |-> completed,
              next       |-> NextStep(c, total),
              percentage |-> Percentage(completed, total),
              pending    |-> {c.checkpoints[i].step : i \in PendingDeviations(c)}]

-----------------------------------------------------------------------------
(* Stability and release.                                                  *)

\* Mutant: hours alone make a case eligible.
EligibleByHours(c) == TotalHours(c.stability) >= 24

Eligible(c) ==
    \/ c.state = "stable"
    \/ c.state \in {"released", "archived"} /\ c.release # NoOne

\* BuildStabilityReport.  The observations are added up in another order
\* than in AddStability, which makes no difference to a wrapping sum.
StabilityReport(c) ==
    [readOnly |-> c.state = "archived",
     hours    |-> TotalHours(c.stability),
     eligible |-> Eligible(c)]

\* The reasons of BuildReleasePrecheck; the statement is not blank.
PrecheckReasons(c, reviewer) ==
    {reason \in {"state_not_stable", "missing_reviewer", "duty_conflict"} :
        \/ reason = "state_not_stable" /\ c.state # "stable"
        \/ reason = "missing_reviewer" /\ reviewer = NoOne
        \/ reason = "duty_conflict"    /\ reviewer \in Operators(c)}

\* ReleasePrecheck.Error: the first reason decides the answer, whatever follows.
PrecheckError(c, reviewer) ==
    LET reasons == PrecheckReasons(c, reviewer)
    IN  CASE reasons = {}                     -> "none"
          [] "state_not_stable" \in reasons   -> "conflict"
          [] reasons = {"missing_reviewer"}   -> "invalid"
          [] reasons = {"duty_conflict"}      -> "forbidden"

-----------------------------------------------------------------------------
(* What the coverage report calls missing is what can still be recorded,   *)
(* and a report that calls itself read-only is complete, for good: there   *)
(* is no locked baseline with a hole, and no open one nobody can close.    *)
(* The percentage says the same (below 2000 regions; from there on it is   *)
(* rounded to 100.0 although one region is missing).                       *)
CoverageAgrees ==
    LET report == CoverageReport(case)
    IN  /\ {region \in Regions : CanAddCondition(case, region)} =
              IF report.readOnly THEN {} ELSE report.missing
        /\ report.readOnly => report.missing = {} /\ report.duplicates = {}
        /\ Cardinality(case.required) < 2000 =>
              (report.percentage = 1000 <=> report.missing = {})

(* The plan history takes the decision, the status, the approved version   *)
(* and the trials from four places that are written by different commands  *)
(* and that no validation compares.  They tell one story: a version is     *)
(* shown as approved if that is the decision on record, and as returned if *)
(* that is; and a version has a decision exactly if a trial of that very   *)
(* version has passed, but for the current one while its decision is due.  *)
HistoryAgrees ==
    LET history == PlanHistory(case)
    IN  \A v \in DOMAIN history :
            /\ history[v].decision = "approve" <=> history[v].approved
            /\ history[v].decision = "return" <=> history[v].status = "returned"
            /\ history[v].approved => ExecutionStatus(case).total = Len(case.plans[v].steps)
            /\ history[v].decision # "none" <=>
                  /\ TrialSummary(case, v).gate = "passed"
                  /\ history[v].current => case.state # "trial_passed"

(* The trial report shows an open gate exactly when the custodian may      *)
(* decide or has decided on the current version: no trial of an older      *)
(* version, and no failed one, opens it.                                   *)
TrialGateAgrees ==
    TrialGate(case) = "passed" <=>
        case.state \in stateNeedsTrial \/ HasStatus(case, "returned")

(* The next step the execution status announces is the one the command     *)
(* accepts, and when it announces none there is none.                      *)
NextStepAgrees ==
    \A step \in 1..(Len(case.checkpoints) + 1) :
        ExecutionStatus(case).next = step <=>
            \E readings \in Readings : CanCompleteCheckpoint(case, step, readings)

(* Progress reaches the total exactly when the treatment is over, a step   *)
(* is pending exactly while the case is paused, and every checkpoint is    *)
(* counted once, as done or as pending.                                    *)
ProgressAgrees ==
    LET report == ExecutionStatus(case)
    IN  /\ report.total > 0 /\ report.completed = report.total <=>
              case.state \in isTreatmentComplete
        /\ report.pending # {} <=> case.state = "paused"
        /\ report.completed + Cardinality(report.pending) = Len(case.checkpoints)

(* What the stability report says of eligibility is what the precheck of a *)
(* release finds: who did not treat may sign an unsigned eligible case, an *)
(* ineligible one is refused to everybody for its state, and a signed case *)
(* stays eligible although nobody can sign it again.                       *)
EligibilityAgrees ==
    LET eligible == StabilityReport(case).eligible
    IN  /\ eligible /\ case.release = NoOne =>
              \A reviewer \in Actors :
                  PrecheckError(case, reviewer) =
                      IF reviewer \in Operators(case) THEN "forbidden" ELSE "none"
        /\ ~eligible \/ case.release # NoOne =>
              \A reviewer \in Actors \cup {NoOne} : PrecheckError(case, reviewer) = "conflict"
        /\ case.release # NoOne => eligible
        /\ \A reviewer \in Actors \cup {NoOne} :
              ReleaseEligible(case, reviewer) <=> PrecheckError(case, reviewer) = "none"

=============================================================================
