------------------------------ MODULE OnceOnly ------------------------------
(***************************************************************************)
(* What clients of the store rely on, without its tables.  Every case is a *)
(* journal: the requests that had an effect on it, one per revision.       *)
(*   - a request has its effect at most once, on the revision it expects;  *)
(*   - a client told of success is told the place in the journal where the *)
(*     effect of its request is.                                           *)
(* CaseStore implements it.                                                *)
(***************************************************************************)
EXTENDS Integers, Sequences

CONSTANTS
    Cases,     \* case identifiers
    Requests   \* records with id, create and, unless create, case and expected

VARIABLES
    journal,   \* journal[case][n]: the id of the request that made revision n
    told       \* the successes clients have heard of

vars == <<journal, told>>

RequestIds == {r.id : r \in Requests}

At(id, case, revision) ==
    revision \in DOMAIN journal[case] /\ journal[case][revision] = id

Used(id) == \E case \in Cases : \E n \in DOMAIN journal[case] : At(id, case, n)

Success(id, case, revision) == [id |-> id, case |-> case, revision |-> revision]

Init == journal = [case \in Cases |-> <<>>] /\ told = {}

\* The effect of a request; the answer may get lost.
Take(r, case) ==
    LET revision == Len(journal[case]) + 1
    IN  /\ ~Used(r.id)
        /\ IF r.create THEN revision = 1
                       ELSE revision > 1 /\ case = r.case /\ revision = r.expected + 1
        /\ journal' = [journal EXCEPT ![case] = Append(@, r.id)]
        /\ told' \in {told, told \cup {Success(r.id, case, revision)}}

\* The answer again.
Tell(r, case) ==
    \E revision \in DOMAIN journal[case] :
        /\ At(r.id, case, revision)
        /\ told' = told \cup {Success(r.id, case, revision)}
        /\ UNCHANGED journal

Next == \E r \in Requests, case \in Cases : Take(r, case) \/ Tell(r, case)

Spec == Init /\ [][Next]_vars

=============================================================================
