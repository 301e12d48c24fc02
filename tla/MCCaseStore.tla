---------------------------- MODULE MCCaseStore ----------------------------
(***************************************************************************)
(* A small instance of CaseStore.  A snapshot is the list of the commands  *)
(* applied to the case.  "sign" needs an earlier "treat" (its refusal is   *)
(* on record), "note" is refused once "treat" is there, and "odd" leaves a *)
(* snapshot ValidateSnapshot refuses.                                      *)
(***************************************************************************)
EXTENDS CaseStore, TLC

CONSTANTS MaxRevision   \* the longest list of commands

Bodies == {"new", "treat", "note", "sign", "odd"}

MCItems == UNION {[1..n -> Bodies] : n \in 1..MaxRevision}

MCNew(r) == <<r.body>>

Has(item, body) == \E i \in DOMAIN item : item[i] = body

MCAccepts(item, r) ==
    /\ Len(item) < MaxRevision
    /\ r.body = "sign" => Has(item, "treat")
    /\ r.body = "note" => ~Has(item, "treat")

MCResult(item, r) == Append(item, r.body)

MCValid(item) == ~Has(item, "odd")

Opening(id) ==
    [create |-> TRUE, id |-> id, expected |-> 0, body |-> "new", event |-> "case.created"]

Command(id, case, expected, body, event) ==
    [create |-> FALSE, id |-> id, case |-> case, expected |-> expected,
     body |-> body, event |-> event]

\* Two commands race for revision 2 of the same case; the id of the first is
\* also sent to the other case, and with another content; one command is
\* refused on record, silently, or for its result, one comes too early.
MCRequests ==
    {Opening("q1"), Opening("q2"),
     Command("q3", "k1", 1, "treat", "plan.saved"),
     Command("q3", "k2", 1, "treat", "plan.saved"),
     Command("q4", "k1", 1, "note", "plan.saved"),
     Command("q4", "k1", 2, "note", "plan.saved"),
     Command("q5", "k1", 2, "sign", "case.released"),
     Command("q6", "k1", 2, "odd", "plan.saved")}
=============================================================================
