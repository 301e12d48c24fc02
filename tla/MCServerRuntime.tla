--------------------------- MODULE MCServerRuntime ---------------------------
(***************************************************************************)
(* A small instance of ServerRuntime on the domain of MCCaseStore: a case  *)
(* is created, two commands compete for its next revision and a third one  *)
(* waits for the one after that.                                           *)
(***************************************************************************)
EXTENDS ServerRuntime, TLC

CONSTANTS MaxRevision   \* the longest list of commands

MCItems == UNION {[1..n -> {"new", "note"}] : n \in 1..MaxRevision}

MCNew(r) == <<r.body>>
MCAccepts(item, r) == Len(item) < MaxRevision
MCResult(item, r) == Append(item, r.body)
MCValid(item) == item # <<>>

Note(id, expected) ==
    [create |-> FALSE, id |-> id, case |-> "k1", expected |-> expected,
     body |-> "note", event |-> "condition.recorded"]

MCRequests ==
    {[create |-> TRUE, id |-> "q1", expected |-> 0, body |-> "new", event |-> "case.created"],
     Note("q2", 1), Note("q3", 1), Note("q4", 2)}

=============================================================================
