----------------------------- MODULE CaseStore -----------------------------
(***************************************************************************)
(* The SQLite store of internal/sqlstore as its clients see it.  The store *)
(* has one connection (SetMaxOpenConns(1)), so that every Create and every *)
(* Mutate is one transaction that runs alone: one step here.  A step that  *)
(* fails before its commit (an SQL error, a cancelled request, a crash)    *)
(* leaves no trace and is a stutter.  Any request may be processed at any  *)
(* time, again and again, in any order, and the answer to it may get lost: *)
(* clients time out, retry and race each other.                            *)
(*                                                                         *)
(* The aggregate is abstract here: Items are the snapshots, and New,       *)
(* Accepts, Result and Valid stand for the domain.  ArchiveService         *)
(* instantiates them with ConservationCase.                                *)
(*                                                                         *)
(* SHA-256 is taken to be collision free: the hash of an event is the list *)
(* of everything hashed into the chain so far.                             *)
(*                                                                         *)
(* A definition said to be a mutant is one a mistake in the code could     *)
(* turn the next one into; it is there to test the properties with.        *)
(***************************************************************************)
EXTENDS Integers, Sequences, FiniteSets

CONSTANTS
    Cases,        \* case identifiers
    Requests,     \* the requests clients may send, see RequestsAssumption
    Items,        \* snapshots of a case
    New(_),       \* New(r): the snapshot a create request asks for
    Accepts(_,_), \* Accepts(item, r): the command of r returns nil on item
    Result(_,_),  \* Result(item, r): the snapshot it then leaves behind
    Valid(_),     \* Valid(item): ValidateSnapshot returns nil
    NoRow,        \* a case id without a row
    NoEntry,      \* a request id without an idempotency row
    NoResponse,   \* the response of a request that is refused
    MaxEvents,    \* bound of the model: audited refusals stop at this length
    Remembered    \* bound of the model: the kinds of answers the history keeps

\* The event types whose refusal Mutate records, and what it records.
RefusalEvents == {"case.released", "ethics.approved", "ethics.returned"}
RefusalOf(event) == IF event = "case.released" THEN "release.precheck_rejected"
                                               ELSE "ethics.gate_blocked"
Refusals == {RefusalOf(event) : event \in RefusalEvents}

ASSUME RequestsAssumption ==
    \A r \in Requests : /\ r.create \in BOOLEAN /\ r.expected \in Nat
                        /\ r.create => New(r) \in Items /\ Valid(New(r))
                        /\ ~r.create => r.case \in Cases
                        /\ r.event \notin Refusals
ASSUME DomainAssumption ==
    \A item \in Items, r \in Requests : Accepts(item, r) => Result(item, r) \in Items
VARIABLES
    rows,         \* conservation_cases: snapshot and revision of each case
    projections,  \* the seven projection tables: the snapshot they spell out
    audit,        \* audit_events of each case, by sequence
    idempotency,  \* request id -> fingerprint and response
    answers       \* what clients have been told so far (history)

vars == <<rows, projections, audit, idempotency, answers>>

RequestIds == {r.id : r \in Requests}

\* fingerprint(v) hashes the request BODY: the identifier, the actor and the
\* expected revision are part of it; the case id and the endpoint are not.
Fingerprint(r) == <<r.id, r.expected, r.body>>

Exists(case) == rows[case] # NoRow

Row == [item : Items, revision : Nat \ {0}]
Responses == [case : Cases, item : Items, revision : Nat \ {0}]
Entry == [fingerprint : {Fingerprint(r) : r \in Requests}, response : Responses]

ASSUME NullAssumption ==
    /\ NoRow \notin Row /\ NoRow \notin Items
    /\ NoEntry \notin Entry

\* Mutant: the response is the revision the command found.
ResponseBefore(case, row) ==
    [case |-> case, item |-> row.item, revision |-> row.revision - 1]

Response(case, row) == [case |-> case, item |-> row.item, revision |-> row.revision]

-----------------------------------------------------------------------------
(* audit.go                                                                *)

EventTypes == {r.event : r \in Requests} \cup Refusals

\* A hash is all that went into the chain up to here.
Hash == Seq((Nat \ {0}) \X (Nat \ {0}) \X Cases \X EventTypes \X RequestIds)

Event == [sequence : Nat \ {0}, revision : Nat \ {0}, case : Cases,
          type : EventTypes, request : RequestIds, previous : Hash, hash : Hash]

ChainHead(events) == IF events = <<>> THEN <<>> ELSE events[Len(events)].hash

HashEvent(previous, sequence, revision, case, type, request) ==
    Append(previous, <<sequence, revision, case, type, request>>)

\* appendAuditWithReasonTx: the next event of the chain.
NextEvent(events, case, revision, type, request) ==
    LET previous == ChainHead(events)
        sequence == IF events = <<>> THEN 1 ELSE events[Len(events)].sequence + 1
    IN  [sequence |-> sequence, revision |-> revision, case |-> case,
         type |-> type, request |-> request, previous |-> previous,
         hash |-> HashEvent(previous, sequence, revision, case, type, request)]

AppendAudit(case, revision, type, request) ==
    audit' = [audit EXCEPT ![case] =
                 Append(@, NextEvent(@, case, revision, type, request))]

RevisionBefore(events, i) == IF i = 1 THEN 0 ELSE events[i - 1].revision
HashBefore(events, i) == IF i = 1 THEN <<>> ELSE events[i - 1].hash

\* verifyEvents returns no error.
verifyEvents(events) ==
    \A i \in DOMAIN events :
        LET e == events[i]
        IN  /\ e.sequence = i
            /\ e.revision \in {RevisionBefore(events, i), RevisionBefore(events, i) + 1}
            /\ e.previous = HashBefore(events, i)
            /\ e.hash = HashEvent(e.previous, i, e.revision, e.case, e.type, e.request)

\* The check of VerifyAudit on events and a revision read one after the other.
AuditMatches(events, revision) ==
    /\ verifyEvents(events)
    /\ events # <<>>
    /\ events[Len(events)].revision = revision

-----------------------------------------------------------------------------
(* commands.go and idempotency.go                                          *)

Kinds == {"ok", "replayed", "idempotency_conflict", "not_found",
          "revision_conflict", "rejected", "invalid"}

\* The answer reaches the client or is lost on the way.
Reply(r, kind, response) ==
    LET answer == [request |-> r, kind |-> kind, response |-> response]
    IN  \/ UNCHANGED answers
        \/ kind \in Remembered /\ answers' = answers \cup {answer}

Refuse(r, kind) ==
    /\ Reply(r, kind, NoResponse)
    /\ UNCHANGED <<rows, projections, audit, idempotency>>

\* Mutant: the idempotency table is not consulted.
FreshAlways(r) == TRUE

Fresh(r) == idempotency[r.id] = NoEntry

\* replay: the request id is known.
Replay(r) ==
    /\ ~Fresh(r)
    /\ idempotency[r.id].fingerprint = Fingerprint(r)
    /\ Reply(r, "replayed", idempotency[r.id].response)
    /\ UNCHANGED <<rows, projections, audit, idempotency>>

Reused(r) ==
    /\ ~Fresh(r)
    /\ idempotency[r.id].fingerprint # Fingerprint(r)
    /\ Refuse(r, "idempotency_conflict")

\* The writes of a successful transaction.
Commit(r, case, row) ==
    /\ rows' = [rows EXCEPT ![case] = row]
    /\ projections' = [projections EXCEPT ![case] = row.item]
    /\ AppendAudit(case, row.revision, r.event, r.id)
    /\ idempotency' = [idempotency EXCEPT ![r.id] =
          [fingerprint |-> Fingerprint(r), response |-> Response(case, row)]]
    /\ Reply(r, "ok", Response(case, row))

\* Create: the service draws a fresh case id for each attempt.
Insert(r) ==
    /\ Fresh(r)
    /\ Valid(New(r))
    /\ \E case \in Cases :
          ~Exists(case) /\ Commit(r, case, [item |-> New(r), revision |-> 1])

UnknownCase(r) ==
    /\ Fresh(r)
    /\ ~Exists(r.case)
    /\ Refuse(r, "not_found")

StaleRevision(r) ==
    /\ Fresh(r)
    /\ Exists(r.case) /\ r.expected # rows[r.case].revision
    /\ Refuse(r, "revision_conflict")

\* Mutant: the revision is not compared.
CurrentUnchecked(r) == Fresh(r) /\ Exists(r.case)

\* The command may run on the row it was meant for.
Current(r) ==
    /\ Fresh(r)
    /\ Exists(r.case) /\ r.expected = rows[r.case].revision

RefuseSilently(r) ==
    /\ Current(r)
    /\ ~Accepts(rows[r.case].item, r)
    /\ r.event \notin RefusalEvents
    /\ Refuse(r, "rejected")

\* Mutant: the refusal is recorded as a revision of its own.
RefuseAuditedAsRevision(r) ==
    /\ Current(r)
    /\ ~Accepts(rows[r.case].item, r)
    /\ r.event \in RefusalEvents
    /\ Len(audit[r.case]) < MaxEvents
    /\ AppendAudit(r.case, rows[r.case].revision + 1, RefusalOf(r.event), r.id)
    /\ Reply(r, "rejected", NoResponse)
    /\ UNCHANGED <<rows, projections, idempotency>>

\* The refusal is put on record, with neither a new revision nor an
\* idempotency row.
RefuseAudited(r) ==
    /\ Current(r)
    /\ ~Accepts(rows[r.case].item, r)
    /\ r.event \in RefusalEvents
    /\ Len(audit[r.case]) < MaxEvents
    /\ AppendAudit(r.case, rows[r.case].revision, RefusalOf(r.event), r.id)
    /\ Reply(r, "rejected", NoResponse)
    /\ UNCHANGED <<rows, projections, idempotency>>

\* The command ran, but ValidateSnapshot refuses what it left behind.
RefuseUnsound(r) ==
    /\ Current(r)
    /\ Accepts(rows[r.case].item, r)
    /\ ~Valid(Result(rows[r.case].item, r))
    /\ Refuse(r, "invalid")

\* Mutant: the revision is not counted up.
ApplyInPlace(r) ==
    /\ Current(r)
    /\ Accepts(rows[r.case].item, r)
    /\ Valid(Result(rows[r.case].item, r))
    /\ Commit(r, r.case, [item |-> Result(rows[r.case].item, r),
                          revision |-> rows[r.case].revision])

Apply(r) ==
    /\ Current(r)
    /\ Accepts(rows[r.case].item, r)
    /\ Valid(Result(rows[r.case].item, r))
    /\ Commit(r, r.case, [item |-> Result(rows[r.case].item, r),
                          revision |-> rows[r.case].revision + 1])

Mutate(r) ==
    /\ ~r.create
    /\ \/ Replay(r) \/ Reused(r)
       \/ UnknownCase(r) \/ StaleRevision(r)
       \/ RefuseSilently(r) \/ RefuseAudited(r) \/ RefuseUnsound(r)
       \/ Apply(r)

Create(r) ==
    /\ r.create
    /\ Replay(r) \/ Reused(r) \/ Insert(r)

Init ==
    /\ rows = [case \in Cases |-> NoRow]
    /\ projections = [case \in Cases |-> NoRow]
    /\ audit = [case \in Cases |-> <<>>]
    /\ idempotency = [id \in RequestIds |-> NoEntry]
    /\ answers = {}

Next == \E r \in Requests : Create(r) \/ Mutate(r)

Spec == Init /\ [][Next]_vars

-----------------------------------------------------------------------------
(* The tables and the history hold what they are declared to hold.         *)
TypeOK ==
    /\ rows \in [Cases -> Row \cup {NoRow}]
    /\ projections \in [Cases -> Items \cup {NoRow}]
    /\ audit \in [Cases -> Seq(Event)]
    /\ idempotency \in [RequestIds -> Entry \cup {NoEntry}]
    /\ answers \subseteq [request : Requests, kind : Kinds,
                          response : Responses \cup {NoResponse}]

\* What verifyAll checks of a case: VerifyAudit, Get and verifyProjections.
CaseVerified(case) ==
    /\ AuditMatches(audit[case], rows[case].revision)
    /\ Valid(rows[case].item)
    /\ projections[case] = rows[case].item

(* The server comes up again whenever it stops: verifyAll (the hash chain, *)
(* its last revision, ValidateSnapshot and the seven projections) accepts  *)
(* what any history of commands, retries and crashes left in the tables.   *)
BootAccepts == \A case \in Cases : Exists(case) => CaseVerified(case)

Applied(case) == {i \in DOMAIN audit[case] : audit[case][i].type \notin Refusals}

(* No update is lost and none is counted twice: the accepted commands of a *)
(* case are its revisions 1 to n, one each and in this order, with every   *)
(* refusal on record between them at the revision it was refused at.       *)
OneEventPerRevision ==
    \A case \in Cases :
        /\ \A i, j \in Applied(case) :
              i < j => audit[case][i].revision < audit[case][j].revision
        /\ {audit[case][i].revision : i \in Applied(case)} =
              IF Exists(case) THEN 1..rows[case].revision ELSE {}

(* However often a request is sent, and to whatever cases, its effect      *)
(* happens once, and exactly the requests that had an effect replay.       *)
AppliedOnce ==
    /\ \A c1, c2 \in Cases : \A i \in Applied(c1), j \in Applied(c2) :
          audit[c1][i].request = audit[c2][j].request => c1 = c2 /\ i = j
    /\ \A id \in RequestIds : idempotency[id] # NoEntry <=>
          \E case \in Cases : \E i \in Applied(case) : audit[case][i].request = id

Successes == {a \in answers : a.kind \in {"ok", "replayed"}}

(* A client that is told of success is told the truth, for good: the       *)
(* revision it got is on record as the effect of its own request, and      *)
(* every later copy of the request is told the same.                       *)
AnswersHold ==
    \A a \in Successes :
        /\ \E i \in Applied(a.response.case) :
              LET e == audit[a.response.case][i]
              IN  e.request = a.request.id /\ e.revision = a.response.revision
        /\ \A b \in Successes :
              b.request.id = a.request.id => b.response = a.response

\* The abstract view: which request made which revision of a case, ...
Journal(case) ==
    [n \in 1..(IF Exists(case) THEN rows[case].revision ELSE 0) |->
        audit[case][CHOOSE i \in Applied(case) : audit[case][i].revision = n].request]

\* The requests that may have made revision n of a case, by what the tables
\* remember of them.
Makers(case, n) ==
    {r \in Requests : /\ r.id = Journal(case)[n]
                      /\ idempotency[r.id].fingerprint = Fingerprint(r)
                      /\ r.expected = n - 1 \/ r.create
                      /\ r.create <=> n = 1
                      /\ r.create \/ r.case = case}

\* What they make of the snapshot before it.
Outcomes(case, n, item) ==
    {new \in {IF r.create THEN New(r) ELSE Result(item, r) :
                 r \in {q \in Makers(case, n) : q.create \/ Accepts(item, q)}} : Valid(new)}

\* The snapshots the case may have by its first n revisions.
Replayed(case) ==
    LET after[n \in 0..rows[case].revision] ==
            IF n = 0 THEN {NoRow}
                     ELSE UNION {Outcomes(case, n, item) : item \in after[n - 1]}
    IN  after

(* The snapshot is what the accepted commands on record add up to: each    *)
(* was decided on exactly what the one before it left behind, so that      *)
(* optimistic locking loses no update and reorders none.                   *)
SnapshotIsHistory ==
    \A case \in Cases :
        Exists(case) => rows[case].item \in Replayed(case)[rows[case].revision]

\* ... and what clients know of it.
Told == {[id |-> a.request.id, case |-> a.response.case, revision |-> a.response.revision] :
            a \in Successes}

Promise == INSTANCE OnceOnly WITH journal <- [case \in Cases |-> Journal(case)],
                                  told <- Told

(* The store implements OnceOnly: every transaction of it, the replays,    *)
(* conflicts and recorded refusals included, is the one effect of a        *)
(* request on the revision it expects, news of such an effect, or nothing. *)
KeepsPromise == Promise!Spec

(* A success is about the case the request named: the README has a request *)
(* id sent again with another content answered with idempotency_conflict.  *)
AnswerIsForTheRequestedCase ==
    \A a \in Successes : ~a.request.create => a.response.case = a.request.case

(* Nothing is ever rewritten: the audit chain and the idempotency table    *)
(* only grow, a row only moves to its next revision, and every change of a *)
(* row or a table of projections is on record.                             *)
History ==
    [][\A case \in Cases :
          /\ Len(audit'[case]) \in {Len(audit[case]), Len(audit[case]) + 1}
          /\ SubSeq(audit'[case], 1, Len(audit[case])) = audit[case]
          /\ rows'[case] # rows[case] =>
                /\ rows'[case].revision = IF Exists(case) THEN rows[case].revision + 1 ELSE 1
                /\ audit'[case] # audit[case]
          /\ projections'[case] # projections[case] => audit'[case] # audit[case]
          /\ \A id \in RequestIds :
                idempotency[id] # NoEntry => idempotency'[id] = idempotency[id]
      ]_vars

=============================================================================
