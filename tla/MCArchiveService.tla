-------------------------- MODULE MCArchiveService --------------------------
(***************************************************************************)
(* A small instance of ArchiveService: one case with one region, one plan  *)
(* of one step and one observation of 24 hours, stable at revision 9.      *)
(***************************************************************************)
EXTENDS ArchiveService

MCStableCase ==
    LET created   == CreateCase({"leaf"}, "custodian")
        recorded  == AddCondition(created, "leaf")
        locked    == LockBaseline(recorded)
        saved     == SavePlan(locked, [steps |-> <<{"rh"}>>, complete |-> TRUE])
        submitted == SubmitPlan(saved)
        tried     == AddTrial(submitted, 1, "passed")
        approved  == ReviewEthics(tried, "custodian", TRUE)
        treated   == CompleteCheckpoint(approved, 1, "operator", [p \in {"rh"} |-> "within"])
    IN  AddStability(treated, 24, "passed")

MCStart == [case \in {"k1"} |-> [item |-> MCStableCase, revision |-> 9]]

Earlier(id, event) == [id |-> id, event |-> event]

MCPast == [case \in {"k1"} |->
    <<Earlier("p1", "case.created"),     Earlier("p2", "condition.recorded"),
      Earlier("p3", "baseline.locked"),  Earlier("p4", "plan.saved"),
      Earlier("p5", "plan.submitted"),   Earlier("p6", "trial.recorded"),
      Earlier("p7", "ethics.approved"),  Earlier("p8", "checkpoint.completed"),
      Earlier("p9", "stability.recorded")>>]

\* The reviewer signs the stable case; another one, or the same again, signs
\* the case that has been released: refused on record.
Signing(id, expected) ==
    [create |-> FALSE, id |-> id, case |-> "k1", expected |-> expected, body |-> id,
     event |-> "case.released", actor |-> "reviewer"]

MCSign == {Signing("s1", 9)}
MCSignTwice == {Signing("s1", 9), Signing("s2", 10)}

ArchiveCall(id, expected) ==
    [kind |-> "archive",
     request |-> [create |-> FALSE, id |-> id, case |-> "k1", expected |-> expected,
                  body |-> id, event |-> "case.archived"]]

ReadCalls(kinds) ==
    {[kind |-> kind, request |-> [id |-> "s1", case |-> "k1"]] : kind \in kinds}

\* One archiver, and one that reads.
MCAlone == [c \in {"c1", "c2"} |->
    IF c = "c1" THEN {ArchiveCall("a1", 10)}
                ELSE ReadCalls({"get", "timeline", "read", "verify"})]

\* Two archivers, one of them not put off by a case that is sealed already.
MCRace == [c \in {"c1", "c2"} |->
    IF c = "c1" THEN {ArchiveCall("a1", 10)}
                ELSE {ArchiveCall("a2", 10), ArchiveCall("a2", 11)}]

\* The second one comes too late.
MCTwice == [c \in {"c1", "c2"} |->
    IF c = "c1" THEN {ArchiveCall("a1", 10)} ELSE {ArchiveCall("a2", 11)}]

MCManifests == [revision : Nat, stamp : Nat, count : Nat,
                head : Seq(Nat \X Nat \X Cases \X STRING \X STRING)]

=============================================================================
