-------------------------- MODULE CaseStoreProofs --------------------------
(* Proofs about CaseStore.                                                 *)
EXTENDS CaseStore, SequenceTheorems, TLAPS

(* What the proofs need to know of every state: a case without a row has   *)
(* no history, one with a row is what verifyAll expects of it.             *)
Intact(case) ==
    IF Exists(case)
    THEN /\ AuditMatches(audit[case], rows[case].revision)
         /\ Valid(rows[case].item)
         /\ projections[case] = rows[case].item
    ELSE audit[case] = <<>>

IInv == /\ TypeOK
        /\ \A case \in Cases : Intact(case)
        /\ OneEventPerRevision
        /\ AppliedOnce

tables == <<rows, projections, audit, idempotency>>

(* A commit as Insert and Apply do it: an unused request writes the next   *)
(* revision of a case, or the first.                                       *)
Effect(r, case, row) ==
    /\ Commit(r, case, row)
    /\ Fresh(r)
    /\ Valid(row.item)
    /\ row.revision = IF Exists(case) THEN rows[case].revision + 1 ELSE 1
    /\ IF r.create THEN ~Exists(case) /\ row.item = New(r)
                   ELSE /\ Current(r) /\ case = r.case
                        /\ Accepts(rows[case].item, r)
                        /\ row.item = Result(rows[case].item, r)

Refusal(r) == Current(r) /\ r.event \in RefusalEvents /\ RefuseAudited(r)

(* An answer without an effect: if it tells of success, it is the one kept *)
(* for the request.                                                        *)
Answer(r, kind, response) ==
    /\ Reply(r, kind, response)
    /\ kind \in {"ok", "replayed"} =>
          ~Fresh(r) /\ response = idempotency[r.id].response

-----------------------------------------------------------------------------
(* Lemmas about the hash chain.                                            *)

LEMMA ChainHeadType ==
    ASSUME NEW events \in Seq(Event) PROVE ChainHead(events) \in Hash
<1>1. CASE events = <<>>
    BY <1>1 DEF ChainHead, Hash
<1>2. CASE events # <<>>
    <2>1. Len(events) \in 1..Len(events)
        BY <1>2, EmptySeq
    <2>2. events[Len(events)] \in Event
        BY <2>1, ElementOfSeq
    <2> QED
        BY <1>2, <2>2 DEF ChainHead, Event
<1> QED
    BY <1>1, <1>2

LEMMA NextEventType ==
    ASSUME NEW events \in Seq(Event), NEW case \in Cases, NEW revision \in Nat \ {0},
           NEW type \in EventTypes, NEW request \in RequestIds
    PROVE  NextEvent(events, case, revision, type, request) \in Event
<1> DEFINE previous == ChainHead(events)
           sequence == IF events = <<>> THEN 1 ELSE events[Len(events)].sequence + 1
           link == <<sequence, revision, case, type, request>>
<1>1. previous \in Hash
    BY ChainHeadType
<1>2. sequence \in Nat \ {0}
    <2>1. CASE events # <<>>
        <3>1. Len(events) \in 1..Len(events)
            BY <2>1, EmptySeq
        <3>2. events[Len(events)] \in Event
            BY <3>1, ElementOfSeq
        <3> QED
            BY <2>1, <3>2 DEF Event
    <2> QED
        BY <2>1
<1> HIDE DEF previous, sequence
<1>3. link \in (Nat \ {0}) \X (Nat \ {0}) \X Cases \X EventTypes \X RequestIds
    BY <1>2
<1>4. Append(previous, link) \in Hash
    <2> HIDE DEF link
    <2> QED BY <1>1, <1>3, AppendProperties DEF Hash
<1> QED
    BY <1>1, <1>2, <1>4 DEF NextEvent, HashEvent, previous, sequence, Event

(* The chain stays verifiable when the next event carries the revision of  *)
(* the last one or the one after it.                                       *)
LEMMA ChainGrows ==
    ASSUME NEW events \in Seq(Event), verifyEvents(events),
           NEW case \in Cases, NEW revision \in Nat \ {0},
           NEW type \in EventTypes, NEW request \in RequestIds,
           IF events = <<>> THEN revision = 1
           ELSE revision \in {events[Len(events)].revision, events[Len(events)].revision + 1}
    PROVE  LET grown == Append(events, NextEvent(events, case, revision, type, request))
           IN  grown \in Seq(Event) /\ AuditMatches(grown, revision)
<1> DEFINE e == NextEvent(events, case, revision, type, request)
           grown == Append(events, e)
           n == Len(events)
<1>1. e \in Event
    BY NextEventType
<1>2. n \in Nat /\ DOMAIN events = 1..n
    BY LenProperties
<1>3. /\ e.revision = revision /\ e.previous = ChainHead(events)
      /\ e.case = case /\ e.type = type /\ e.request = request
      /\ e.hash = HashEvent(e.previous, e.sequence, revision, case, type, request)
      /\ e.sequence = IF events = <<>> THEN 1 ELSE events[n].sequence + 1
    BY DEF NextEvent
<1>4. e.sequence = n + 1
    <2>1. CASE events = <<>>
        BY <2>1, <1>3
    <2>2. CASE events # <<>>
        <3>1. n \in DOMAIN events
            BY <2>2, <1>2, EmptySeq
        <3>2. events[n].sequence = n
            BY <3>1 DEF verifyEvents
        <3> QED
            BY <2>2, <3>2, <1>3
    <2> QED
        BY <2>1, <2>2
<1> HIDE DEF e
<1>5. /\ grown \in Seq(Event) /\ Len(grown) = n + 1 /\ DOMAIN grown = 1..(n + 1)
      /\ \A i \in 1..n : grown[i] = events[i]
      /\ grown[n + 1] = e
    BY <1>1, <1>2, AppendProperties
<1> HIDE DEF grown
<1>6. ASSUME NEW i \in 1..(n + 1)
      PROVE  /\ grown[i].sequence = i
             /\ grown[i].revision \in {RevisionBefore(grown, i), RevisionBefore(grown, i) + 1}
             /\ grown[i].previous = HashBefore(grown, i)
             /\ grown[i].hash = HashEvent(grown[i].previous, i, grown[i].revision,
                                          grown[i].case, grown[i].type, grown[i].request)
    <2>1. CASE i \in 1..n
        <3>1. RevisionBefore(grown, i) = RevisionBefore(events, i)
              /\ HashBefore(grown, i) = HashBefore(events, i)
            BY <2>1, <1>2, <1>5 DEF RevisionBefore, HashBefore
        <3> QED
            BY <2>1, <3>1, <1>2, <1>5 DEF verifyEvents
    <2>2. CASE i = n + 1
        <3>1. CASE events = <<>>
            BY <3>1, <2>2, <1>3, <1>4, <1>5 DEF RevisionBefore, HashBefore, ChainHead
        <3>2. CASE events # <<>>
            <4>1. n >= 1 /\ i # 1 /\ i - 1 = n
                BY <3>2, <2>2, <1>2, EmptySeq
            <4>2. RevisionBefore(grown, i) = events[n].revision
                  /\ HashBefore(grown, i) = events[n].hash
                BY <4>1, <1>2, <1>5 DEF RevisionBefore, HashBefore
            <4> QED
                BY <4>2, <3>2, <2>2, <1>3, <1>4, <1>5 DEF ChainHead
        <3> QED
            BY <3>1, <3>2
    <2> QED
        BY <2>1, <2>2, <1>2
<1>7. verifyEvents(grown)
    BY <1>5, <1>6 DEF verifyEvents
<1>8. grown # <<>> /\ grown[Len(grown)].revision = revision
    BY <1>3, <1>5, <1>2, EmptySeq
<1> QED
    BY <1>5, <1>7, <1>8 DEF AuditMatches, grown, e

-----------------------------------------------------------------------------
(* What a step can do to the tables.                                       *)

LEMMA RequestTypes ==
    ASSUME NEW r \in Requests
    PROVE  /\ r.id \in RequestIds /\ r.event \in EventTypes /\ r.event \notin Refusals
           /\ ~r.create => r.case \in Cases
           /\ r.event \in RefusalEvents => RefusalOf(r.event) \in Refusals
           /\ Refusals \subseteq EventTypes
BY RequestsAssumption DEF RequestIds, EventTypes, Refusals

LEMMA Steps ==
    ASSUME TypeOK, Next
    PROVE  \E r \in Requests :
              \/ UNCHANGED tables /\ \E kind \in Kinds :
                    \E response \in Responses \cup {NoResponse} : Answer(r, kind, response)
              \/ r.case \in Cases /\ Refusal(r)
              \/ \E case \in Cases, row \in Row : Effect(r, case, row)
<1> PICK r \in Requests : Create(r) \/ Mutate(r)
    BY DEF Next
<1> USE DEF tables, Answer
<1>1. CASE Replay(r)
    <2>1. idempotency[r.id] \in Entry
        BY <1>1, RequestTypes DEF TypeOK, Replay, Fresh
    <2> QED
        BY <1>1, <2>1 DEF Replay, Entry, Kinds
<1>2. CASE Reused(r)
    BY <1>2 DEF Reused, Refuse, Kinds
<1>3. CASE r.create /\ Insert(r)
    <2> PICK case \in Cases :
            ~Exists(case) /\ Commit(r, case, [item |-> New(r), revision |-> 1])
        BY <1>3 DEF Insert
    <2>1. [item |-> New(r), revision |-> 1] \in Row
        BY <1>3, RequestsAssumption DEF Row
    <2>2. Effect(r, case, [item |-> New(r), revision |-> 1])
        BY <1>3 DEF Insert, Effect
    <2> QED
        BY <2>1, <2>2
<1>4. CASE UnknownCase(r)
    BY <1>4 DEF UnknownCase, Refuse, Kinds
<1>5. CASE StaleRevision(r)
    BY <1>5 DEF StaleRevision, Refuse, Kinds
<1>6. CASE RefuseSilently(r)
    BY <1>6 DEF RefuseSilently, Refuse, Kinds
<1>7. CASE ~r.create /\ RefuseAudited(r)
    BY <1>7, RequestTypes DEF RefuseAudited, Refusal
<1>8. CASE RefuseUnsound(r)
    BY <1>8 DEF RefuseUnsound, Refuse, Kinds
<1>9. CASE ~r.create /\ Apply(r)
    <2> DEFINE row == [item |-> Result(rows[r.case].item, r),
                       revision |-> rows[r.case].revision + 1]
    <2>1. r.case \in Cases
        BY <1>9, RequestTypes
    <2>2. rows[r.case] \in Row
        BY <1>9, <2>1 DEF Apply, Current, Exists, TypeOK
    <2>3. row \in Row
        BY <1>9, <2>2, DomainAssumption DEF Apply, Row
    <2>4. Effect(r, r.case, row)
        BY <1>9 DEF Apply, Current, Effect
    <2> QED
        BY <2>1, <2>3, <2>4
<1> QED
    BY <1>1, <1>2, <1>3, <1>4, <1>5, <1>6, <1>7, <1>8, <1>9 DEF Create, Mutate

(* The chain of the case a step writes to, before and after.               *)
LEMMA EffectChain ==
    ASSUME TypeOK, NEW r \in Requests, NEW case \in Cases, NEW row \in Row,
           Intact(case), Effect(r, case, row)
    PROVE  /\ audit'[case] = Append(audit[case],
                 NextEvent(audit[case], case, row.revision, r.event, r.id))
           /\ audit' = [audit EXCEPT ![case] = audit'[case]]
           /\ audit'[case] \in Seq(Event)
           /\ AuditMatches(audit'[case], row.revision)
<1>1. /\ audit \in [Cases -> Seq(Event)] /\ audit[case] \in Seq(Event)
      /\ row.revision \in Nat \ {0}
    BY DEF TypeOK, Row
<1>2. audit' = [audit EXCEPT ![case] = Append(audit[case],
                 NextEvent(audit[case], case, row.revision, r.event, r.id))]
    BY DEF Effect, Commit, AppendAudit
<1>3. /\ verifyEvents(audit[case])
      /\ IF audit[case] = <<>> THEN row.revision = 1
         ELSE row.revision = audit[case][Len(audit[case])].revision + 1
    BY DEF Effect, Intact, AuditMatches, verifyEvents
<1>4. r.event \in EventTypes /\ r.id \in RequestIds
    BY RequestTypes
<1>5. LET grown == Append(audit[case],
                 NextEvent(audit[case], case, row.revision, r.event, r.id))
      IN  grown \in Seq(Event) /\ AuditMatches(grown, row.revision)
    BY <1>1, <1>3, <1>4, ChainGrows
<1> QED
    BY <1>1, <1>2, <1>5

LEMMA RefusalChain ==
    ASSUME TypeOK, NEW r \in Requests, r.case \in Cases, Intact(r.case), Refusal(r)
    PROVE  /\ audit'[r.case] = Append(audit[r.case],
                 NextEvent(audit[r.case], r.case, rows[r.case].revision,
                           RefusalOf(r.event), r.id))
           /\ audit' = [audit EXCEPT ![r.case] = audit'[r.case]]
           /\ audit'[r.case] \in Seq(Event)
           /\ AuditMatches(audit'[r.case], rows[r.case].revision)
<1> DEFINE case == r.case
           revision == rows[case].revision
<1>1. rows[case] \in Row
    BY DEF TypeOK, Refusal, Current, Exists
<1>2. /\ audit \in [Cases -> Seq(Event)] /\ audit[case] \in Seq(Event)
      /\ revision \in Nat \ {0}
    BY <1>1 DEF TypeOK, Row
<1>3. audit' = [audit EXCEPT ![case] = Append(audit[case],
                 NextEvent(audit[case], case, revision, RefusalOf(r.event), r.id))]
    BY DEF Refusal, RefuseAudited, AppendAudit
<1>4. /\ verifyEvents(audit[case]) /\ audit[case] # <<>>
      /\ revision = audit[case][Len(audit[case])].revision
    BY DEF Refusal, Current, Intact, AuditMatches
<1>5. RefusalOf(r.event) \in EventTypes /\ r.id \in RequestIds
    BY RequestTypes DEF Refusal
<1>6. LET grown == Append(audit[case],
                 NextEvent(audit[case], case, revision, RefusalOf(r.event), r.id))
      IN  grown \in Seq(Event) /\ AuditMatches(grown, revision)
    BY <1>2, <1>4, <1>5, ChainGrows
<1> QED
    BY <1>2, <1>3, <1>6

-----------------------------------------------------------------------------
(* IInv is inductive.                                                      *)

LEMMA ReplyType ==
    ASSUME TypeOK, NEW r \in Requests, NEW kind \in Kinds,
           NEW response \in Responses \cup {NoResponse}, Reply(r, kind, response)
    PROVE  answers' \subseteq [request : Requests, kind : Kinds,
                               response : Responses \cup {NoResponse}]
BY DEF Reply, TypeOK

LEMMA EffectType ==
    ASSUME TypeOK, NEW r \in Requests, NEW case \in Cases, NEW row \in Row,
           Intact(case), Effect(r, case, row)
    PROVE  TypeOK'
<1>1. /\ r.id \in RequestIds /\ row.item \in Items /\ row.revision \in Nat \ {0}
    BY RequestTypes DEF Row
<1>2. Response(case, row) \in Responses
    BY <1>1 DEF Response, Responses
<1>3. [fingerprint |-> Fingerprint(r), response |-> Response(case, row)] \in Entry
    BY <1>2 DEF Entry
<1>4. rows' \in [Cases -> Row \cup {NoRow}]
    BY DEF Effect, Commit, TypeOK
<1>5. projections' \in [Cases -> Items \cup {NoRow}]
    BY <1>1 DEF Effect, Commit, TypeOK
<1>6. audit' \in [Cases -> Seq(Event)]
    <2>1. audit' = [audit EXCEPT ![case] = audit'[case]] /\ audit'[case] \in Seq(Event)
        BY EffectChain
    <2>2. audit \in [Cases -> Seq(Event)]
        BY DEF TypeOK
    <2> QED
        BY <2>1, <2>2
<1>7. idempotency' \in [RequestIds -> Entry \cup {NoEntry}]
    BY <1>1, <1>3 DEF Effect, Commit, TypeOK
<1>8. answers' \subseteq [request : Requests, kind : Kinds,
                          response : Responses \cup {NoResponse}]
    BY <1>2, ReplyType DEF Effect, Commit, Kinds
<1> QED
    BY <1>4, <1>5, <1>6, <1>7, <1>8 DEF TypeOK

LEMMA RefusalType ==
    ASSUME TypeOK, NEW r \in Requests, r.case \in Cases, Intact(r.case), Refusal(r)
    PROVE  TypeOK'
<1>1. audit' \in [Cases -> Seq(Event)]
    <2>1. audit' = [audit EXCEPT ![r.case] = audit'[r.case]] /\ audit'[r.case] \in Seq(Event)
        BY RefusalChain
    <2>2. audit \in [Cases -> Seq(Event)]
        BY DEF TypeOK
    <2> QED
        BY <2>1, <2>2
<1>2. UNCHANGED <<rows, projections, idempotency>> /\ Reply(r, "rejected", NoResponse)
    BY DEF Refusal, RefuseAudited
<1>3. answers' \subseteq [request : Requests, kind : Kinds,
                          response : Responses \cup {NoResponse}]
    BY <1>2, ReplyType DEF Kinds
<1> QED
    BY <1>1, <1>2, <1>3 DEF TypeOK

LEMMA EffectIntact ==
    ASSUME TypeOK, NEW r \in Requests, NEW case \in Cases, NEW row \in Row,
           \A c \in Cases : Intact(c), Effect(r, case, row)
    PROVE  \A c \in Cases : Intact(c)'
<1>1. /\ rows' = [rows EXCEPT ![case] = row]
      /\ projections' = [projections EXCEPT ![case] = row.item]
      /\ audit' = [audit EXCEPT ![case] = audit'[case]]
      /\ AuditMatches(audit'[case], row.revision)
      /\ Valid(row.item)
    BY EffectChain DEF Effect, Commit
<1>2. /\ rows \in [Cases -> Row \cup {NoRow}]
      /\ projections \in [Cases -> Items \cup {NoRow}]
      /\ audit \in [Cases -> Seq(Event)]
    BY DEF TypeOK
<1>3. Intact(case)'
    <2>1. rows'[case] = row /\ projections'[case] = row.item /\ row # NoRow
        BY <1>1, <1>2, NullAssumption
    <2> QED
        BY <2>1, <1>1 DEF Intact, Exists
<1>4. ASSUME NEW c \in Cases, c # case PROVE Intact(c)'
    <2>1. rows'[c] = rows[c] /\ projections'[c] = projections[c] /\ audit'[c] = audit[c]
        BY <1>1, <1>2, <1>4
    <2>2. Intact(c)
        OBVIOUS
    <2> QED
        BY <2>1, <2>2 DEF Intact, Exists
<1> QED
    BY <1>3, <1>4

LEMMA RefusalIntact ==
    ASSUME TypeOK, NEW r \in Requests, r.case \in Cases,
           \A c \in Cases : Intact(c), Refusal(r)
    PROVE  \A c \in Cases : Intact(c)'
<1> DEFINE case == r.case
<1>1. /\ rows' = rows /\ projections' = projections
      /\ audit' = [audit EXCEPT ![case] = audit'[case]]
      /\ AuditMatches(audit'[case], rows[case].revision)
      /\ Exists(case)
    BY RefusalChain DEF Refusal, RefuseAudited, Current
<1>2. audit \in [Cases -> Seq(Event)]
    BY DEF TypeOK
<1>3. Intact(case)'
    BY <1>1 DEF Intact, Exists
<1>4. ASSUME NEW c \in Cases, c # case PROVE Intact(c)'
    <2>1. audit'[c] = audit[c]
        BY <1>1, <1>2, <1>4
    <2>2. Intact(c)
        OBVIOUS
    <2> QED
        BY <2>1, <2>2, <1>1 DEF Intact, Exists
<1> QED
    BY <1>3, <1>4

(* What a step adds to the accepted commands of a case.                    *)
LEMMA EffectApplied ==
    ASSUME TypeOK, NEW r \in Requests, NEW case \in Cases, NEW row \in Row,
           Intact(case), Effect(r, case, row)
    PROVE  LET n == Len(audit[case])
           IN  /\ n \in Nat /\ Applied(case) \subseteq 1..n
               /\ Applied(case)' = Applied(case) \cup {n + 1}
               /\ \A i \in 1..n : audit'[case][i] = audit[case][i]
               /\ audit'[case][n + 1].revision = row.revision
               /\ audit'[case][n + 1].request = r.id
               /\ \A c \in Cases : c # case => audit'[c] = audit[c] /\ Applied(c)' = Applied(c)
<1> DEFINE n == Len(audit[case])
           e == NextEvent(audit[case], case, row.revision, r.event, r.id)
<1>1. /\ audit \in [Cases -> Seq(Event)] /\ audit[case] \in Seq(Event)
      /\ row.revision \in Nat \ {0}
    BY DEF TypeOK, Row
<1>2. /\ audit'[case] = Append(audit[case], e)
      /\ audit' = [audit EXCEPT ![case] = audit'[case]]
    BY EffectChain
<1>3. e \in Event /\ e.type = r.event /\ e.revision = row.revision /\ e.request = r.id
    BY <1>1, RequestTypes, NextEventType DEF NextEvent
<1> HIDE DEF e
<1>4. /\ n \in Nat /\ DOMAIN audit[case] = 1..n
      /\ DOMAIN audit'[case] = 1..(n + 1)
      /\ \A i \in 1..n : audit'[case][i] = audit[case][i]
      /\ audit'[case][n + 1] = e
    BY <1>1, <1>2, <1>3, AppendProperties, LenProperties
<1>5. r.event \notin Refusals
    BY RequestTypes
<1>6. Applied(case) \subseteq 1..n
    BY <1>4 DEF Applied
<1>7. Applied(case)' = Applied(case) \cup {n + 1}
    BY <1>3, <1>4, <1>5 DEF Applied
<1>8. ASSUME NEW c \in Cases, c # case
      PROVE  audit'[c] = audit[c] /\ Applied(c)' = Applied(c)
    BY <1>1, <1>2, <1>8 DEF Applied
<1> QED
    BY <1>3, <1>4, <1>6, <1>7, <1>8

LEMMA RefusalApplied ==
    ASSUME TypeOK, NEW r \in Requests, r.case \in Cases, Intact(r.case), Refusal(r)
    PROVE  /\ \A c \in Cases : Applied(c)' = Applied(c)
           /\ \A c \in Cases : \A i \in Applied(c) : audit'[c][i] = audit[c][i]
<1> DEFINE case == r.case
           n == Len(audit[case])
           e == NextEvent(audit[case], case, rows[case].revision, RefusalOf(r.event), r.id)
<1>1. /\ audit \in [Cases -> Seq(Event)] /\ audit[case] \in Seq(Event)
      /\ rows[case].revision \in Nat \ {0}
    BY DEF TypeOK, Row, Refusal, Current, Exists
<1>2. /\ audit'[case] = Append(audit[case], e)
      /\ audit' = [audit EXCEPT ![case] = audit'[case]]
    BY RefusalChain
<1>3. RefusalOf(r.event) \in EventTypes /\ RefusalOf(r.event) \in Refusals
    BY RequestTypes DEF Refusal
<1>4. e \in Event /\ e.type = RefusalOf(r.event)
    BY <1>1, <1>3, RequestTypes, NextEventType DEF NextEvent
<1> HIDE DEF e
<1>5. /\ n \in Nat /\ DOMAIN audit[case] = 1..n
      /\ DOMAIN audit'[case] = 1..(n + 1)
      /\ \A i \in 1..n : audit'[case][i] = audit[case][i]
      /\ audit'[case][n + 1] = e
    BY <1>1, <1>2, <1>4, AppendProperties, LenProperties
<1>6. Applied(case)' = Applied(case)
    BY <1>3, <1>4, <1>5 DEF Applied
<1>7. \A i \in Applied(case) : audit'[case][i] = audit[case][i]
    BY <1>5 DEF Applied
<1>8. ASSUME NEW c \in Cases, c # case
      PROVE  audit'[c] = audit[c] /\ Applied(c)' = Applied(c)
    BY <1>1, <1>2, <1>8 DEF Applied
<1> QED
    BY <1>6, <1>7, <1>8

(* OneEventPerRevision for one case.                                       *)
Numbered(case) ==
    /\ \A i, j \in Applied(case) :
          i < j => audit[case][i].revision < audit[case][j].revision
    /\ {audit[case][i].revision : i \in Applied(case)} =
          IF Exists(case) THEN 1..rows[case].revision ELSE {}

LEMMA EffectNumbered ==
    ASSUME TypeOK, NEW r \in Requests, NEW case \in Cases, NEW row \in Row,
           Intact(case), Numbered(case), Effect(r, case, row)
    PROVE  Numbered(case)'
<1> DEFINE n == Len(audit[case])
           last == IF Exists(case) THEN rows[case].revision ELSE 0
<1>1. /\ n \in Nat /\ Applied(case) \subseteq 1..n
      /\ Applied(case)' = Applied(case) \cup {n + 1}
      /\ \A i \in 1..n : audit'[case][i] = audit[case][i]
      /\ audit'[case][n + 1].revision = row.revision
    BY EffectApplied
<1>2. last \in Nat /\ row.revision = last + 1
    BY DEF TypeOK, Exists, Row, Effect
<1>3. rows'[case] = row /\ Exists(case)'
    BY NullAssumption DEF Effect, Commit, TypeOK, Exists
<1>4. {audit[case][i].revision : i \in Applied(case)} = 1..last
    BY DEF Numbered
<1> HIDE DEF n, last
<1>5. \A i \in Applied(case) : audit'[case][i] = audit[case][i]
                               /\ audit[case][i].revision \in 1..last
    BY <1>1, <1>4
<1>6. ASSUME NEW i \in Applied(case)', NEW j \in Applied(case)', i < j
      PROVE  audit'[case][i].revision < audit'[case][j].revision
    <2>1. i \in Applied(case)
        BY <1>1, <1>6
    <2>2. CASE j \in Applied(case)
        BY <1>5, <1>6, <2>1, <2>2 DEF Numbered
    <2>3. CASE j = n + 1
        BY <1>1, <1>2, <1>5, <2>1, <2>3
    <2> QED
        BY <1>1, <2>2, <2>3
<1>7. {audit'[case][i].revision : i \in Applied(case)'} = 1..row.revision
    <2>1. {audit'[case][i].revision : i \in Applied(case)'} =
             {audit[case][i].revision : i \in Applied(case)} \cup {row.revision}
        BY <1>1, <1>5
    <2>2. 1..row.revision = (1..last) \cup {row.revision}
        BY <1>2
    <2> QED
        BY <1>4, <2>1, <2>2
<1> QED
    BY <1>3, <1>6, <1>7 DEF Numbered

LEMMA Renumbering ==
    ASSUME TypeOK, \A c \in Cases : Intact(c), OneEventPerRevision, Next
    PROVE  OneEventPerRevision'
<1>1. \A c \in Cases : Numbered(c)
    BY DEF OneEventPerRevision, Numbered
<1>2. ASSUME NEW c \in Cases PROVE Numbered(c)'
    <2> PICK r \in Requests :
              \/ UNCHANGED tables
              \/ r.case \in Cases /\ Refusal(r)
              \/ \E case \in Cases, row \in Row : Effect(r, case, row)
        BY Steps
    <2>1. CASE UNCHANGED tables
        BY <2>1, <1>1 DEF tables, Numbered, Applied, Exists
    <2>2. CASE r.case \in Cases /\ Refusal(r)
        <3>1. Applied(c)' = Applied(c) /\ \A i \in Applied(c) : audit'[c][i] = audit[c][i]
            BY <2>2, RefusalApplied
        <3>2. rows' = rows
            BY <2>2 DEF Refusal, RefuseAudited
        <3>3. Numbered(c)
            BY <1>1
        <3> QED
            BY <3>1, <3>2, <3>3 DEF Numbered, Exists
    <2>3. CASE \E case \in Cases, row \in Row : Effect(r, case, row)
        <3> PICK case \in Cases, row \in Row : Effect(r, case, row)
            BY <2>3
        <3>1. CASE c = case
            BY <3>1, <1>1, EffectNumbered
        <3>2. CASE c # case
            <4>1. audit'[c] = audit[c] /\ Applied(c)' = Applied(c)
                BY <3>2, EffectApplied
            <4>2. rows'[c] = rows[c]
                BY <3>2 DEF Effect, Commit, TypeOK
            <4>3. Numbered(c)
                BY <1>1
            <4> QED
                BY <4>1, <4>2, <4>3 DEF Numbered, Exists
        <3> QED
            BY <3>1, <3>2
    <2> QED
        BY <2>1, <2>2, <2>3
<1> QED
    BY <1>2 DEF OneEventPerRevision, Numbered

(* The request of an effect was unused, so that no event before it carries *)
(* its identifier.                                                         *)
LEMMA EffectOnce ==
    ASSUME TypeOK, AppliedOnce, NEW r \in Requests, NEW case \in Cases, NEW row \in Row,
           Intact(case), Effect(r, case, row)
    PROVE  AppliedOnce'
<1> DEFINE n == Len(audit[case])
<1>1. /\ n \in Nat /\ Applied(case) \subseteq 1..n
      /\ Applied(case)' = Applied(case) \cup {n + 1}
      /\ \A i \in 1..n : audit'[case][i] = audit[case][i]
      /\ audit'[case][n + 1].request = r.id
      /\ \A c \in Cases : c # case => audit'[c] = audit[c] /\ Applied(c)' = Applied(c)
    BY EffectApplied
<1>2. /\ r.id \in RequestIds /\ idempotency[r.id] = NoEntry
      /\ idempotency' = [idempotency EXCEPT ![r.id] =
            [fingerprint |-> Fingerprint(r), response |-> Response(case, row)]]
    BY RequestTypes DEF Effect, Commit, Fresh
<1>3. \A c \in Cases : \A i \in Applied(c) : audit[c][i].request # r.id
    BY <1>2 DEF AppliedOnce
<1> HIDE DEF n
<1>4. ASSUME NEW c \in Cases, NEW i
      PROVE  i \in Applied(c)' <=> i \in Applied(c) \/ (c = case /\ i = n + 1)
    BY <1>1
<1>5. \A c \in Cases : \A i \in Applied(c) : audit'[c][i] = audit[c][i]
    BY <1>1
<1>6. ASSUME NEW c1 \in Cases, NEW c2 \in Cases,
             NEW i \in Applied(c1)', NEW j \in Applied(c2)',
             audit'[c1][i].request = audit'[c2][j].request
      PROVE  c1 = c2 /\ i = j
    <2>1. CASE i \in Applied(c1) /\ j \in Applied(c2)
        BY <1>5, <1>6, <2>1 DEF AppliedOnce
    <2>2. CASE i \in Applied(c1) /\ j \notin Applied(c2)
        BY <1>1, <1>3, <1>4, <1>5, <1>6, <2>2
    <2>3. CASE i \notin Applied(c1) /\ j \in Applied(c2)
        BY <1>1, <1>3, <1>4, <1>5, <1>6, <2>3
    <2>4. CASE i \notin Applied(c1) /\ j \notin Applied(c2)
        BY <1>4, <2>4
    <2> QED
        BY <2>1, <2>2, <2>3, <2>4
<1>7. ASSUME NEW id \in RequestIds
      PROVE  idempotency'[id] # NoEntry <=>
                \E c \in Cases : \E i \in Applied(c)' : audit'[c][i].request = id
    <2>1. CASE id = r.id
        <3>1. [fingerprint |-> Fingerprint(r), response |-> Response(case, row)] \in Entry
            BY <1>2, EffectType DEF TypeOK, Entry, Response, Responses, Row
        <3>2. idempotency'[id] # NoEntry
            BY <2>1, <1>2, <3>1, NullAssumption DEF TypeOK
        <3>3. n + 1 \in Applied(case)'
            BY <1>1
        <3> QED
            BY <2>1, <3>2, <3>3, <1>1
    <2>2. CASE id # r.id
        <3>1. idempotency'[id] = idempotency[id]
            BY <1>2, <2>2 DEF TypeOK
        <3>2. idempotency[id] # NoEntry <=>
                 \E c \in Cases : \E i \in Applied(c) : audit[c][i].request = id
            BY DEF AppliedOnce
        <3>3. ASSUME NEW c \in Cases, NEW i \in Applied(c)', audit'[c][i].request = id
              PROVE  i \in Applied(c) /\ audit[c][i].request = id
            BY <1>1, <1>4, <1>5, <2>2, <3>3
        <3>4. ASSUME NEW c \in Cases, NEW i \in Applied(c), audit[c][i].request = id
              PROVE  i \in Applied(c)' /\ audit'[c][i].request = id
            BY <1>4, <1>5, <3>4
        <3> QED
            BY <3>1, <3>2, <3>3, <3>4
    <2> QED
        BY <2>1, <2>2
<1> QED
    BY <1>6, <1>7 DEF AppliedOnce

LEMMA Step ==
    ASSUME IInv, [Next]_vars
    PROVE  IInv'
<1>1. CASE UNCHANGED vars
    BY <1>1 DEF IInv, vars, TypeOK, Intact, Exists, OneEventPerRevision, AppliedOnce, Applied
<1>2. CASE Next
    <2>1. TypeOK /\ (\A c \in Cases : Intact(c)) /\ OneEventPerRevision /\ AppliedOnce
        BY DEF IInv
    <2>2. OneEventPerRevision'
        BY <1>2, <2>1, Renumbering
    <2> PICK r \in Requests :
              \/ UNCHANGED tables /\ \E kind \in Kinds :
                    \E response \in Responses \cup {NoResponse} : Answer(r, kind, response)
              \/ r.case \in Cases /\ Refusal(r)
              \/ \E case \in Cases, row \in Row : Effect(r, case, row)
        BY <1>2, <2>1, Steps
    <2>3. CASE UNCHANGED tables /\ \E kind \in Kinds :
                 \E response \in Responses \cup {NoResponse} : Answer(r, kind, response)
        <3>1. TypeOK'
            BY <2>1, <2>3, ReplyType DEF tables, TypeOK, Answer
        <3>2. (\A c \in Cases : Intact(c)') /\ AppliedOnce'
            BY <2>1, <2>3 DEF tables, Intact, Exists, AppliedOnce, Applied
        <3> QED
            BY <2>2, <3>1, <3>2 DEF IInv
    <2>4. CASE r.case \in Cases /\ Refusal(r)
        <3>1. TypeOK' /\ \A c \in Cases : Intact(c)'
            BY <2>1, <2>4, RefusalType, RefusalIntact
        <3>2. /\ \A c \in Cases : Applied(c)' = Applied(c)
              /\ \A c \in Cases : \A i \in Applied(c) : audit'[c][i] = audit[c][i]
              /\ idempotency' = idempotency
            BY <2>1, <2>4, RefusalApplied DEF Refusal, RefuseAudited
        <3>3. AppliedOnce'
            BY <2>1, <3>2 DEF AppliedOnce
        <3> QED
            BY <2>2, <3>1, <3>3 DEF IInv
    <2>5. CASE \E case \in Cases, row \in Row : Effect(r, case, row)
        <3> PICK case \in Cases, row \in Row : Effect(r, case, row)
            BY <2>5
        <3>1. TypeOK' /\ (\A c \in Cases : Intact(c)') /\ AppliedOnce'
            BY <2>1, EffectType, EffectIntact, EffectOnce
        <3> QED
            BY <2>2, <3>1 DEF IInv
    <2> QED
        BY <2>3, <2>4, <2>5
<1> QED
    BY <1>1, <1>2

LEMMA Initially == Init => IInv
<1> SUFFICES ASSUME Init PROVE IInv
    OBVIOUS
<1>1. /\ \A case \in Cases : rows[case] = NoRow /\ audit[case] = <<>> /\ ~Exists(case)
      /\ \A case \in Cases : Applied(case) = {}
      /\ \A id \in RequestIds : idempotency[id] = NoEntry
    BY DEF Init, Exists, Applied
<1>2. TypeOK
    BY DEF Init, TypeOK
<1>3. \A case \in Cases : Intact(case)
    BY <1>1 DEF Intact
<1>4. OneEventPerRevision /\ AppliedOnce
    BY <1>1 DEF OneEventPerRevision, AppliedOnce
<1> QED
    BY <1>2, <1>3, <1>4 DEF IInv

-----------------------------------------------------------------------------
(* The theorems.                                                           *)

(* Whatever requests arrive in whatever order, however often, IInv holds.  *)
THEOREM Inductive == Spec => []IInv
<1>1. Init => IInv
    BY Initially
<1>2. IInv /\ [Next]_vars => IInv'
    BY Step
<1> QED
    BY <1>1, <1>2, PTL DEF Spec

(* The tables and the history are well typed (store.go, protocol.go).      *)
THEOREM TypeCorrect == Spec => []TypeOK
<1>1. IInv => TypeOK
    BY DEF IInv
<1> QED
    BY <1>1, Inductive, PTL

(* verifyAll accepts the database in every reachable state, for every set  *)
(* of cases, requests and commands: the server can always be restarted.    *)
THEOREM BootAlwaysAccepts == Spec => []BootAccepts
<1>1. IInv => BootAccepts
    BY DEF IInv, Intact, BootAccepts, CaseVerified
<1> QED
    BY <1>1, Inductive, PTL

(* The revisions of a case are its accepted commands, numbered from 1      *)
(* without a gap or a repetition (Mutate's optimistic lock).               *)
THEOREM RevisionsAreCounted == Spec => []OneEventPerRevision
<1>1. IInv => OneEventPerRevision
    BY DEF IInv
<1> QED
    BY <1>1, Inductive, PTL

(* No request has two effects, and the idempotency table knows exactly the *)
(* requests that had one (replay and saveReplay).                          *)
THEOREM EffectsHappenOnce == Spec => []AppliedOnce
<1>1. IInv => AppliedOnce
    BY DEF IInv
<1> QED
    BY <1>1, Inductive, PTL

-----------------------------------------------------------------------------
(* Nothing is rewritten.                                                   *)

LEMMA AppendKeeps ==
    ASSUME NEW S, NEW s \in Seq(S), NEW e \in S
    PROVE  /\ Len(Append(s, e)) = Len(s) + 1
           /\ SubSeq(Append(s, e), 1, Len(s)) = s
           /\ Append(s, e) # s
<1> DEFINE t == Append(s, e)
           n == Len(s)
<1>1. /\ t \in Seq(S) /\ n \in Nat /\ Len(t) = n + 1
      /\ \A i \in 1..n : t[i] = s[i] /\ t[i] \in S
    BY AppendProperties, LenProperties, ElementOfSeq
<1> HIDE DEF t
<1>2. /\ SubSeq(t, 1, n) \in Seq(S) /\ Len(SubSeq(t, 1, n)) = n
      /\ \A i \in 1..n : SubSeq(t, 1, n)[i] = t[i]
    <2> HIDE DEF n
    <2> QED BY <1>1, SubSeqProperties
<1>3. SubSeq(t, 1, n) = s
    BY <1>1, <1>2, SeqEqual
<1>4. t # s /\ Len(t) = Len(s) + 1
    BY <1>1
<1> QED
    BY <1>3, <1>4 DEF t

\* One step, as History has it.
Recorded ==
    \A case \in Cases :
        /\ Len(audit'[case]) \in {Len(audit[case]), Len(audit[case]) + 1}
        /\ SubSeq(audit'[case], 1, Len(audit[case])) = audit[case]
        /\ rows'[case] # rows[case] =>
              /\ rows'[case].revision = IF Exists(case) THEN rows[case].revision + 1 ELSE 1
              /\ audit'[case] # audit[case]
        /\ projections'[case] # projections[case] => audit'[case] # audit[case]
        /\ \A id \in RequestIds :
              idempotency[id] # NoEntry => idempotency'[id] = idempotency[id]

LEMMA UnchangedChain ==
    ASSUME TypeOK, NEW case \in Cases, audit'[case] = audit[case]
    PROVE  /\ Len(audit'[case]) = Len(audit[case])
           /\ SubSeq(audit'[case], 1, Len(audit[case])) = audit[case]
<1>1. audit[case] \in Seq(Event)
    BY DEF TypeOK
<1> QED
    BY <1>1, SubSeqFull

LEMMA GrownChain ==
    ASSUME TypeOK, NEW case \in Cases, NEW e \in Event,
           audit'[case] = Append(audit[case], e)
    PROVE  /\ Len(audit'[case]) = Len(audit[case]) + 1
           /\ SubSeq(audit'[case], 1, Len(audit[case])) = audit[case]
           /\ audit'[case] # audit[case]
<1>1. audit[case] \in Seq(Event)
    BY DEF TypeOK
<1> QED
    BY <1>1, AppendKeeps

LEMMA EntriesStay ==
    ASSUME TypeOK, Next
    PROVE  \A id \in RequestIds : idempotency[id] # NoEntry => idempotency'[id] = idempotency[id]
<1> PICK r \in Requests :
          \/ UNCHANGED tables
          \/ r.case \in Cases /\ Refusal(r)
          \/ \E c \in Cases, row \in Row : Effect(r, c, row)
    BY Steps
<1>1. CASE UNCHANGED tables
    BY <1>1 DEF tables
<1>2. CASE Refusal(r)
    BY <1>2 DEF Refusal, RefuseAudited
<1>3. CASE \E c \in Cases, row \in Row : Effect(r, c, row)
    BY <1>3 DEF Effect, Commit, Fresh, TypeOK
<1> QED
    BY <1>1, <1>2, <1>3

LEMMA NextRecorded == IInv /\ Next => Recorded
<1> SUFFICES ASSUME IInv, Next, NEW case \in Cases
             PROVE  /\ Len(audit'[case]) \in {Len(audit[case]), Len(audit[case]) + 1}
                    /\ SubSeq(audit'[case], 1, Len(audit[case])) = audit[case]
                    /\ rows'[case] # rows[case] =>
                          /\ rows'[case].revision =
                                IF Exists(case) THEN rows[case].revision + 1 ELSE 1
                          /\ audit'[case] # audit[case]
                    /\ projections'[case] # projections[case] => audit'[case] # audit[case]
                    /\ \A id \in RequestIds :
                          idempotency[id] # NoEntry => idempotency'[id] = idempotency[id]
    BY DEF Recorded
<1>1. TypeOK /\ \A c \in Cases : Intact(c)
    BY DEF IInv
<1> PICK r \in Requests :
          \/ UNCHANGED tables
          \/ r.case \in Cases /\ Refusal(r)
          \/ \E c \in Cases, row \in Row : Effect(r, c, row)
    BY <1>1, Steps
<1>2. CASE UNCHANGED tables
    BY <1>1, <1>2, UnchangedChain DEF tables
<1>3. CASE r.case \in Cases /\ Refusal(r)
    <2>1. UNCHANGED <<rows, projections, idempotency>>
        BY <1>3 DEF Refusal, RefuseAudited
    <2>2. CASE case = r.case
        <3>1. rows[case].revision \in Nat \ {0}
            BY <1>1, <1>3, <2>2 DEF TypeOK, Row, Refusal, Current, Exists
        <3>2. audit[case] \in Seq(Event)
            BY <1>1 DEF TypeOK
        <3>3. NextEvent(audit[case], case, rows[case].revision,
                        RefusalOf(r.event), r.id) \in Event
            BY <1>3, <3>1, <3>2, RequestTypes, NextEventType DEF Refusal
        <3>4. audit'[case] = Append(audit[case], NextEvent(audit[case], case,
                 rows[case].revision, RefusalOf(r.event), r.id))
            BY <1>1, <1>3, <2>2, RefusalChain
        <3> QED
            BY <1>1, <2>1, <3>3, <3>4, GrownChain
    <2>3. CASE case # r.case
        <3>1. audit' = [audit EXCEPT ![r.case] = audit'[r.case]]
            BY <1>1, <1>3, RefusalChain
        <3>2. audit'[case] = audit[case]
            BY <1>1, <2>3, <3>1 DEF TypeOK
        <3> QED
            BY <1>1, <2>1, <3>2, UnchangedChain
    <2> QED
        BY <2>2, <2>3
<1>4. CASE \E c \in Cases, row \in Row : Effect(r, c, row)
    <2> PICK c \in Cases, row \in Row : Effect(r, c, row)
        BY <1>4
    <2>1. \A id \in RequestIds : idempotency[id] # NoEntry => idempotency'[id] = idempotency[id]
        BY <1>1, EntriesStay
    <2>2. CASE case = c
        <3>1. rows'[case] = row
            BY <1>1, <2>2 DEF Effect, Commit, TypeOK
        <3>2. audit[case] \in Seq(Event) /\ row.revision \in Nat \ {0}
            BY <1>1 DEF TypeOK, Row
        <3>3. NextEvent(audit[case], case, row.revision, r.event, r.id) \in Event
            BY <3>2, RequestTypes, NextEventType
        <3>4. audit'[case] = Append(audit[case],
                 NextEvent(audit[case], case, row.revision, r.event, r.id))
            BY <1>1, <2>2, EffectChain
        <3>5. row.revision = IF Exists(case) THEN rows[case].revision + 1 ELSE 1
            BY <2>2 DEF Effect
        <3> QED
            BY <1>1, <2>1, <3>1, <3>3, <3>4, <3>5, GrownChain
    <2>3. CASE case # c
        <3>1. audit'[case] = audit[case]
            BY <1>1, <2>3, EffectApplied
        <3>2. rows'[case] = rows[case] /\ projections'[case] = projections[case]
            BY <1>1, <2>3 DEF Effect, Commit, TypeOK
        <3> QED
            BY <1>1, <2>1, <3>1, <3>2, UnchangedChain
    <2> QED
        BY <2>2, <2>3
<1> QED
    BY <1>2, <1>3, <1>4

(* The audit chain and the idempotency table only grow, a row only moves   *)
(* to its next revision, and no row or projection changes off the record.  *)
THEOREM HistoryIsKept == Spec => History
<1>1. IInv /\ [Next]_vars => [Recorded]_vars
    BY NextRecorded
<1> QED
    BY <1>1, Inductive, PTL DEF Spec, History, Recorded


-----------------------------------------------------------------------------
(* Clients are told the truth.                                             *)

\* The event of a request the idempotency table knows.
OnRecord(id) ==
    LET response == idempotency[id].response
    IN  \E i \in Applied(response.case) :
           /\ audit[response.case][i].request = id
           /\ audit[response.case][i].revision = response.revision

(* Every success a client has been told of is the one the idempotency      *)
(* table keeps, and what it keeps is on record.  The answers alone are not *)
(* enough: a replay answers from the table.                                *)
Remembering ==
    /\ \A a \in Successes : /\ idempotency[a.request.id] # NoEntry
                            /\ a.response = idempotency[a.request.id].response
    /\ \A id \in RequestIds : idempotency[id] # NoEntry => OnRecord(id)

LEMMA AnswersGrow ==
    ASSUME TypeOK, Remembering, NEW r \in Requests, NEW kind, NEW response,
           Reply(r, kind, response),
           \A id \in RequestIds : idempotency[id] # NoEntry => idempotency'[id] = idempotency[id],
           kind \in {"ok", "replayed"} =>
               idempotency'[r.id] # NoEntry /\ response = idempotency'[r.id].response
    PROVE  \A a \in Successes' : /\ idempotency'[a.request.id] # NoEntry
                                 /\ a.response = idempotency'[a.request.id].response
<1> SUFFICES ASSUME NEW a \in Successes'
             PROVE  /\ idempotency'[a.request.id] # NoEntry
                    /\ a.response = idempotency'[a.request.id].response
    OBVIOUS
<1> DEFINE answer == [request |-> r, kind |-> kind, response |-> response]
<1>1. a \in answers' /\ a.kind \in {"ok", "replayed"}
    BY DEF Successes
<1>2. a \in answers \/ a = answer
    BY <1>1 DEF Reply
<1>3. CASE a \in answers
    <2>1. a \in Successes
        BY <1>1, <1>3 DEF Successes
    <2>2. a.request.id \in RequestIds
        BY <1>3 DEF TypeOK, RequestIds
    <2> QED
        BY <2>1, <2>2 DEF Remembering
<1>4. CASE a = answer
    BY <1>1, <1>4
<1> QED
    BY <1>2, <1>3, <1>4

LEMMA RecordsStay ==
    ASSUME Remembering, NEW id \in RequestIds, idempotency[id] # NoEntry,
           idempotency[id].response \in Responses,
           idempotency'[id] = idempotency[id],
           \A c \in Cases : Applied(c) \subseteq Applied(c)',
           \A c \in Cases : \A i \in Applied(c) : audit'[c][i] = audit[c][i]
    PROVE  OnRecord(id)'
<1> DEFINE response == idempotency[id].response
<1>1. PICK i \in Applied(response.case) :
          /\ audit[response.case][i].request = id
          /\ audit[response.case][i].revision = response.revision
    BY DEF Remembering, OnRecord
<1>2. response.case \in Cases
    BY DEF Responses
<1> QED
    BY <1>1, <1>2 DEF OnRecord

LEMMA NextRemembers ==
    ASSUME IInv, Remembering, [Next]_vars
    PROVE  Remembering'
<1>1. TypeOK /\ (\A c \in Cases : Intact(c)) /\ TypeOK'
    BY Step DEF IInv
<1>2. \A id \in RequestIds : idempotency[id] # NoEntry => idempotency[id].response \in Responses
    BY <1>1 DEF TypeOK, Entry
<1>3. SUFFICES ASSUME Next PROVE Remembering'
    BY DEF vars, Remembering, OnRecord, Successes, Applied
<1>4. \A id \in RequestIds : idempotency[id] # NoEntry => idempotency'[id] = idempotency[id]
    BY <1>1, <1>3, EntriesStay
<1> PICK r \in Requests :
          \/ UNCHANGED tables /\ \E kind \in Kinds :
                \E response \in Responses \cup {NoResponse} : Answer(r, kind, response)
          \/ r.case \in Cases /\ Refusal(r)
          \/ \E c \in Cases, row \in Row : Effect(r, c, row)
    BY <1>1, <1>3, Steps
<1>5. SUFFICES /\ \A a \in Successes' : /\ idempotency'[a.request.id] # NoEntry
                                        /\ a.response = idempotency'[a.request.id].response
               /\ \A id \in RequestIds : idempotency'[id] # NoEntry =>
                     OnRecord(id)'
    BY DEF Remembering
<1>6. CASE UNCHANGED tables /\ \E kind \in Kinds :
             \E response \in Responses \cup {NoResponse} : Answer(r, kind, response)
    <2> PICK kind \in Kinds, response \in Responses \cup {NoResponse} :
            Answer(r, kind, response)
        BY <1>6
    <2>1. \A a \in Successes' : /\ idempotency'[a.request.id] # NoEntry
                                /\ a.response = idempotency'[a.request.id].response
        BY <1>1, <1>4, <1>6, AnswersGrow DEF Answer, Fresh, tables
    <2>2. \A c \in Cases : Applied(c)' = Applied(c)
        BY <1>6 DEF tables, Applied
    <2> QED
        BY <1>2, <1>6, <2>1, <2>2, RecordsStay DEF tables
<1>7. CASE r.case \in Cases /\ Refusal(r)
    <2>1. idempotency' = idempotency /\ Reply(r, "rejected", NoResponse)
        BY <1>7 DEF Refusal, RefuseAudited
    <2>2. \A a \in Successes' : /\ idempotency'[a.request.id] # NoEntry
                                /\ a.response = idempotency'[a.request.id].response
        BY <1>1, <1>4, <2>1, AnswersGrow
    <2>3. /\ \A c \in Cases : Applied(c)' = Applied(c)
          /\ \A c \in Cases : \A i \in Applied(c) : audit'[c][i] = audit[c][i]
        BY <1>1, <1>7, RefusalApplied
    <2> QED
        BY <1>2, <2>1, <2>2, <2>3, RecordsStay
<1>8. CASE \E c \in Cases, row \in Row : Effect(r, c, row)
    <2> PICK c \in Cases, row \in Row : Effect(r, c, row)
        BY <1>8
    <2> DEFINE entry == [fingerprint |-> Fingerprint(r), response |-> Response(c, row)]
               n == Len(audit[c])
    <2>1. /\ idempotency' = [idempotency EXCEPT ![r.id] = entry]
          /\ Reply(r, "ok", Response(c, row)) /\ idempotency[r.id] = NoEntry
        BY DEF Effect, Commit, Fresh
    <2>2. /\ r.id \in RequestIds /\ Response(c, row) \in Responses /\ entry \in Entry
          /\ Response(c, row).case = c /\ Response(c, row).revision = row.revision
        BY RequestTypes DEF Response, Responses, Row, Entry
    <2>3. idempotency'[r.id] = entry /\ entry # NoEntry
        BY <1>1, <2>1, <2>2, NullAssumption DEF TypeOK
    <2>4. \A a \in Successes' : /\ idempotency'[a.request.id] # NoEntry
                                /\ a.response = idempotency'[a.request.id].response
        BY <1>1, <1>4, <2>1, <2>3, AnswersGrow
    <2>5. /\ Applied(c)' = Applied(c) \cup {n + 1} /\ n \in Nat /\ Applied(c) \subseteq 1..n
          /\ \A i \in 1..n : audit'[c][i] = audit[c][i]
          /\ audit'[c][n + 1].revision = row.revision
          /\ audit'[c][n + 1].request = r.id
          /\ \A d \in Cases : d # c => audit'[d] = audit[d] /\ Applied(d)' = Applied(d)
        BY <1>1, EffectApplied
    <2>6. /\ \A d \in Cases : Applied(d) \subseteq Applied(d)'
          /\ \A d \in Cases : \A i \in Applied(d) : audit'[d][i] = audit[d][i]
        BY <2>5
    <2>7. OnRecord(r.id)'
        <3>1. /\ idempotency'[r.id].response.case = c
              /\ idempotency'[r.id].response.revision = row.revision
            BY <2>2, <2>3
        <3>2. n + 1 \in Applied(c)'
            BY <2>5
        <3> HIDE DEF n
        <3> QED
            BY <2>5, <3>1, <3>2 DEF OnRecord
    <2>8. ASSUME NEW id \in RequestIds, id # r.id, idempotency'[id] # NoEntry
          PROVE  OnRecord(id)'
        <3>1. idempotency'[id] = idempotency[id] /\ idempotency[id] # NoEntry
            BY <1>1, <2>1, <2>8 DEF TypeOK
        <3> QED
            BY <1>2, <2>6, <3>1, RecordsStay
    <2> QED
        BY <2>4, <2>7, <2>8
<1> QED
    BY <1>6, <1>7, <1>8

LEMMA TruthFromMemory == TypeOK /\ Remembering => AnswersHold
<1> SUFFICES ASSUME TypeOK, Remembering, NEW a \in Successes
             PROVE  /\ \E i \in Applied(a.response.case) :
                          LET e == audit[a.response.case][i]
                          IN  e.request = a.request.id /\ e.revision = a.response.revision
                    /\ \A b \in Successes :
                          b.request.id = a.request.id => b.response = a.response
    BY DEF AnswersHold
<1>1. a.request.id \in RequestIds
    BY DEF TypeOK, RequestIds, Successes
<1> QED
    BY <1>1 DEF Remembering, OnRecord

LEMMA NothingToRemember == Init => Remembering
BY DEF Init, Remembering, Successes

(* Every success a client has heard of is in the idempotency table, and     *)
(* every entry of the table tells of an event that is on record.            *)
THEOREM Memory == Spec => []Remembering
<1>1. Init => Remembering
    BY NothingToRemember
<1>2. IInv /\ Remembering /\ [Next]_vars => Remembering'
    BY NextRemembers
<1> QED
    BY <1>1, <1>2, Inductive, PTL DEF Spec

(* A client that is told of success is told the revision its own request   *)
(* made, and every later copy of the request is told the same, whatever    *)
(* has been lost, repeated or reordered on the way.                        *)
THEOREM ClientsKnow == Spec => []AnswersHold
<1>1. TypeOK /\ Remembering => AnswersHold
    BY TruthFromMemory
<1> QED
    BY <1>1, TypeCorrect, Memory, PTL

=============================================================================
