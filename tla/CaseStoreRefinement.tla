------------------------ MODULE CaseStoreRefinement ------------------------
(* What the audit chain says of a case is true: the snapshot is what the   *)
(* commands on record add up to, and the store implements OnceOnly.        *)
EXTENDS CaseStoreProofs, SequenceLemmas

-----------------------------------------------------------------------------
(* The journal in an audit chain: which request made which revision.       *)

Slots(events) == {i \in DOMAIN events : events[i].type \notin Refusals}

JournalOf(events, k) ==
    [n \in 1..k |->
        events[CHOOSE i \in Slots(events) : events[i].revision = n].request]

\* The accepted commands of a chain are numbered from 1 to k.
Counted(events, k) ==
    /\ k \in Nat
    /\ Slots(events) \subseteq Nat
    /\ \A i, j \in Slots(events) : i < j => events[i].revision < events[j].revision
    /\ {events[i].revision : i \in Slots(events)} = 1..k
    /\ \A i \in Slots(events) : events[i].request \in RequestIds

LEMMA JournalEntries ==
    ASSUME NEW events, NEW k, Counted(events, k)
    PROVE  /\ \A i \in Slots(events) :
                 /\ events[i].revision \in 1..k
                 /\ JournalOf(events, k)[events[i].revision] = events[i].request
           /\ \A n \in 1..k : \E i \in Slots(events) : events[i].revision = n
           /\ JournalOf(events, k) \in Seq(RequestIds)
           /\ Len(JournalOf(events, k)) = k
<1>1. \A n \in 1..k : \E i \in Slots(events) : events[i].revision = n
    BY DEF Counted
<1>2. \A i, j \in Slots(events) : events[i].revision = events[j].revision => i = j
    <2> SUFFICES ASSUME NEW i \in Slots(events), NEW j \in Slots(events),
                        events[i].revision = events[j].revision, i # j
                 PROVE  FALSE
        OBVIOUS
    <2>1. events[i].revision \in Nat /\ events[j].revision \in Nat /\ i \in Nat /\ j \in Nat
        BY DEF Counted
    <2>2. i < j \/ j < i
        BY <2>1
    <2> QED
        BY <2>1, <2>2 DEF Counted
<1>3. ASSUME NEW i \in Slots(events)
      PROVE  /\ events[i].revision \in 1..k
             /\ JournalOf(events, k)[events[i].revision] = events[i].request
    <2>1. events[i].revision \in 1..k
        BY DEF Counted
    <2>2. (CHOOSE j \in Slots(events) : events[j].revision = events[i].revision) = i
        BY <1>2
    <2> QED
        BY <2>1, <2>2 DEF JournalOf
<1>4. JournalOf(events, k) \in [1..k -> RequestIds]
    <2>1. \A n \in 1..k : (CHOOSE i \in Slots(events) : events[i].revision = n) \in Slots(events)
        BY <1>1
    <2> QED
        BY <2>1 DEF JournalOf, Counted
<1>5. JournalOf(events, k) \in Seq(RequestIds)
    BY <1>4, SeqDef DEF Counted
<1>6. Len(JournalOf(events, k)) = k
    <2>1. /\ Len(JournalOf(events, k)) \in Nat /\ k \in Nat
          /\ 1..Len(JournalOf(events, k)) = 1..k
        BY <1>4, <1>5, LenProperties DEF Counted
    <2> QED
        BY <2>1
<1> QED
    BY <1>1, <1>3, <1>5, <1>6

(* Events that are no commands leave the journal alone.                    *)
LEMMA JournalStays ==
    ASSUME NEW events, NEW grown, NEW k, Slots(grown) = Slots(events),
           \A i \in Slots(events) : grown[i] = events[i],
           Counted(events, k), Counted(grown, k)
    PROVE  JournalOf(grown, k) = JournalOf(events, k)
<1> DEFINE old == JournalOf(events, k)
           new == JournalOf(grown, k)
<1>1. /\ old \in Seq(RequestIds) /\ new \in Seq(RequestIds)
      /\ Len(old) = k /\ Len(new) = k
    BY JournalEntries
<1>2. ASSUME NEW n \in 1..k PROVE new[n] = old[n]
    <2> PICK i \in Slots(events) : events[i].revision = n
        BY JournalEntries
    <2>1. old[n] = events[i].request
        BY JournalEntries
    <2>2. new[n] = grown[i].request
        BY JournalEntries
    <2> QED
        BY <2>1, <2>2
<1> HIDE DEF old, new
<1> QED
    <2>1. new = old
        BY <1>1, <1>2, SeqEqual
    <2> QED
        BY <2>1 DEF old, new

\* One chain is the other and a further command, at slot m, of request id.
OneMore(events, grown, k, m, id) ==
    /\ Slots(grown) = Slots(events) \cup {m}
    /\ \A i \in Slots(events) : grown[i] = events[i]
    /\ grown[m].revision = k + 1 /\ grown[m].request = id
    /\ id \in RequestIds
    /\ Counted(events, k) /\ Counted(grown, k + 1)

(* One more command is one more entry.                                     *)
LEMMA JournalGrows ==
    ASSUME NEW events, NEW grown, NEW k, NEW m, NEW id,
           OneMore(events, grown, k, m, id)
    PROVE  JournalOf(grown, k + 1) = Append(JournalOf(events, k), id)
<1> DEFINE old == JournalOf(events, k)
           new == JournalOf(grown, k + 1)
<1> USE DEF OneMore
<1>1. /\ old \in Seq(RequestIds) /\ new \in Seq(RequestIds) /\ k \in Nat
      /\ Len(old) = k /\ Len(new) = k + 1
    BY JournalEntries DEF Counted
<1>2. ASSUME NEW n \in 1..k PROVE new[n] = old[n]
    <2> PICK i \in Slots(events) : events[i].revision = n
        BY JournalEntries
    <2>1. old[n] = events[i].request
        BY JournalEntries
    <2>2. new[n] = grown[i].request
        BY JournalEntries
    <2> QED
        BY <2>1, <2>2
<1>3. new[k + 1] = id
    BY JournalEntries
<1> HIDE DEF old, new
<1>4. /\ Append(old, id) \in Seq(RequestIds) /\ Len(Append(old, id)) = k + 1
      /\ \A n \in 1..k : Append(old, id)[n] = old[n]
      /\ Append(old, id)[k + 1] = id
    BY <1>1, AppendProperties
<1>5. \A n \in 1..(k + 1) : new[n] = Append(old, id)[n]
    <2> SUFFICES ASSUME NEW n \in 1..(k + 1) PROVE new[n] = Append(old, id)[n]
        OBVIOUS
    <2>1. n \in 1..k \/ n = k + 1
        BY <1>1
    <2> QED
        BY <1>2, <1>3, <1>4, <2>1
<1> QED
    <2>1. new = Append(old, id)
        BY <1>1, <1>4, <1>5, SeqEqual
    <2> QED
        BY <2>1 DEF old, new


-----------------------------------------------------------------------------
(* The journals of a state, before and after a step.                       *)

Revision(case) == IF Exists(case) THEN rows[case].revision ELSE 0

Journals == [case \in Cases |-> Journal(case)]

\* What the lemmas above need to know of a case.
Journalled(case) ==
    /\ Counted(audit[case], Revision(case))
    /\ Journals[case] = JournalOf(audit[case], Revision(case))
    /\ Slots(audit[case]) = Applied(case)

AllJournalled == \A case \in Cases : Journalled(case)

LEMMA JournalsCounted == IInv => AllJournalled
<1> SUFFICES ASSUME TypeOK, OneEventPerRevision, NEW case \in Cases
             PROVE  Journalled(case)
    BY DEF IInv, AllJournalled
<1>1. audit[case] \in Seq(Event)
    BY DEF TypeOK
<1>2. DOMAIN audit[case] \subseteq Nat /\ \A i \in DOMAIN audit[case] : audit[case][i] \in Event
    BY <1>1, LenProperties, ElementOfSeq
<1>3. Slots(audit[case]) = Applied(case)
    BY DEF Slots, Applied
<1>4. Revision(case) \in Nat
    BY DEF Revision, TypeOK, Exists, Row
<1>5. {audit[case][i].revision : i \in Applied(case)} = 1..Revision(case)
    BY DEF OneEventPerRevision, Revision
<1>6. \A i \in Applied(case) : i \in Nat /\ audit[case][i].request \in RequestIds
    BY <1>2 DEF Applied, Event
<1>7. Counted(audit[case], Revision(case))
    BY <1>3, <1>4, <1>5, <1>6 DEF Counted, OneEventPerRevision
<1>8. Journals[case] = JournalOf(audit[case], Revision(case))
    BY <1>3 DEF Journals, Journal, JournalOf, Revision
<1> QED
    BY <1>3, <1>7, <1>8 DEF Journalled

LEMMA JournalsCountedNext == IInv' => AllJournalled'
BY JournalsCounted, PTL

LEMMA SameJournals ==
    ASSUME IInv, IInv', rows' = rows,
           \A c \in Cases : Applied(c)' = Applied(c),
           \A c \in Cases : \A i \in Applied(c) : audit'[c][i] = audit[c][i]
    PROVE  Journals' = Journals
<1>1. ASSUME NEW c \in Cases PROVE Journals'[c] = Journals[c]
    <2>1. Revision(c)' = Revision(c)
        BY DEF Revision, Exists
    <2>2. /\ Counted(audit[c], Revision(c)) /\ Slots(audit[c]) = Applied(c)
          /\ Journals[c] = JournalOf(audit[c], Revision(c))
        BY JournalsCounted DEF AllJournalled, Journalled
    <2>3. /\ Counted(audit'[c], Revision(c)) /\ Slots(audit'[c]) = Applied(c)'
          /\ Journals'[c] = JournalOf(audit'[c], Revision(c))
        BY <2>1, JournalsCountedNext DEF AllJournalled, Journalled
    <2> QED
        BY <2>2, <2>3, JournalStays
<1> QED
    BY <1>1 DEF Journals

LEMMA LongerJournal ==
    ASSUME IInv, IInv', NEW r \in Requests, NEW case \in Cases, NEW row \in Row,
           Effect(r, case, row)
    PROVE  /\ Journals' = [Journals EXCEPT ![case] = Append(Journals[case], r.id)]
           /\ Len(Journals[case]) = Revision(case)
           /\ row.revision = Revision(case) + 1
<1>1. TypeOK /\ TypeOK' /\ (\A c \in Cases : Intact(c))
    BY DEF IInv
<1>2. /\ rows' = [rows EXCEPT ![case] = row] /\ rows'[case] = row /\ Exists(case)'
      /\ row.revision = Revision(case) + 1
    BY <1>1, NullAssumption DEF Effect, Commit, TypeOK, Exists, Revision
<1> DEFINE m == Len(audit[case]) + 1
<1>3. /\ Applied(case)' = Applied(case) \cup {m}
      /\ \A i \in Applied(case) : audit'[case][i] = audit[case][i]
      /\ audit'[case][m].revision = row.revision
      /\ audit'[case][m].request = r.id
      /\ \A c \in Cases : c # case => audit'[c] = audit[c] /\ Applied(c)' = Applied(c)
    BY <1>1, EffectApplied
<1> HIDE DEF m
<1>4. /\ Counted(audit[case], Revision(case)) /\ Slots(audit[case]) = Applied(case)
      /\ Journals[case] = JournalOf(audit[case], Revision(case))
    BY JournalsCounted DEF AllJournalled, Journalled
<1>5. /\ Counted(audit'[case], Revision(case) + 1) /\ Slots(audit'[case]) = Applied(case)'
      /\ Journals'[case] = JournalOf(audit'[case], Revision(case) + 1)
    <2>1. Revision(case)' = Revision(case) + 1
        BY <1>2 DEF Revision
    <2> QED
        BY <2>1, JournalsCountedNext DEF AllJournalled, Journalled
<1>6. r.id \in RequestIds
    BY RequestTypes
<1>7. Journals'[case] = Append(Journals[case], r.id)
    <2>1. OneMore(audit[case], audit'[case], Revision(case), m, r.id)
        BY <1>2, <1>3, <1>4, <1>5, <1>6 DEF OneMore
    <2>2. JournalOf(audit'[case], Revision(case) + 1) =
             Append(JournalOf(audit[case], Revision(case)), r.id)
        BY <2>1, JournalGrows
    <2> QED
        BY <1>4, <1>5, <2>2
<1>8. Len(Journals[case]) = Revision(case)
    BY <1>4, JournalEntries
<1>9. ASSUME NEW c \in Cases, c # case PROVE Journals'[c] = Journals[c]
    <2>1. audit'[c] = audit[c] /\ Applied(c)' = Applied(c)
        BY <1>3, <1>9
    <2>2. Revision(c)' = Revision(c)
        BY <1>1, <1>2, <1>9 DEF TypeOK, Revision, Exists
    <2>3. Journals[c] = JournalOf(audit[c], Revision(c))
        BY JournalsCounted DEF AllJournalled, Journalled
    <2>4. Journals'[c] = JournalOf(audit'[c], Revision(c)')
        BY JournalsCountedNext DEF AllJournalled, Journalled
    <2> QED
        BY <2>1, <2>2, <2>3, <2>4
<1> QED
    BY <1>2, <1>7, <1>8, <1>9 DEF Journals


-----------------------------------------------------------------------------
(* Every step of the store is one of the promise, or none.                 *)

\* What is told is told for good, and a reply adds at most its own success.
LEMMA ReplyTold ==
    ASSUME NEW r \in Requests, NEW kind, NEW response, Reply(r, kind, response)
    PROVE  \/ Told' = Told
           \/ /\ kind \in {"ok", "replayed"}
              /\ Told' = Told \cup {[id |-> r.id, case |-> response.case,
                                     revision |-> response.revision]}
<1> DEFINE answer == [request |-> r, kind |-> kind, response |-> response]
           news == [id |-> r.id, case |-> response.case, revision |-> response.revision]
<1>1. CASE UNCHANGED answers
    BY <1>1 DEF Told, Successes
<1>2. CASE answers' = answers \cup {answer} /\ kind \notin {"ok", "replayed"}
    <2>1. Successes' = Successes
        BY <1>2 DEF Successes
    <2> QED
        BY <2>1 DEF Told
<1>3. CASE answers' = answers \cup {answer} /\ kind \in {"ok", "replayed"}
    <2>1. Successes' = Successes \cup {answer}
        BY <1>3 DEF Successes
    <2>2. /\ answer.request.id = r.id
          /\ answer.response = response
        OBVIOUS
    <2> HIDE DEF answer
    <2>3. Told' = Told \cup {[id |-> answer.request.id, case |-> answer.response.case,
                              revision |-> answer.response.revision]}
        BY <2>1, Zenon DEF Told
    <2> QED
        BY <1>3, <2>2, <2>3
<1> QED
    BY <1>1, <1>2, <1>3 DEF Reply

\* The request of an effect is in no journal yet.
LEMMA EffectUnused ==
    ASSUME IInv, NEW r \in Requests, NEW c \in Cases, NEW row \in Row, Effect(r, c, row)
    PROVE  \A case \in Cases : \A n \in DOMAIN Journals[case] : Journals[case][n] # r.id
<1> SUFFICES ASSUME NEW case \in Cases, NEW n \in DOMAIN Journals[case],
                    Journals[case][n] = r.id
             PROVE  FALSE
    OBVIOUS
<1>1. Journalled(case)
    BY JournalsCounted DEF AllJournalled
<1>2. DOMAIN Journals[case] = 1..Revision(case)
    BY <1>1 DEF Journalled, JournalOf
<1>3. PICK i \in Applied(case) : audit[case][i].revision = n
    BY <1>1, <1>2, JournalEntries DEF Journalled
<1>4. audit[case][i].request = r.id
    BY <1>1, <1>3, JournalEntries DEF Journalled
<1> QED
    BY <1>4, RequestTypes DEF IInv, AppliedOnce, Effect, Fresh

\* An event on record is an entry of the journal.
LEMMA RecordedEntry ==
    ASSUME IInv, NEW case \in Cases, NEW i \in Applied(case)
    PROVE  /\ audit[case][i].revision \in DOMAIN Journals[case]
           /\ Journals[case][audit[case][i].revision] = audit[case][i].request
<1>1. Journalled(case)
    BY JournalsCounted DEF AllJournalled
<1>2. DOMAIN Journals[case] = 1..Revision(case)
    BY <1>1 DEF Journalled, JournalOf
<1> QED
    BY <1>1, <1>2, JournalEntries DEF Journalled

LEMMA EffectTakes ==
    ASSUME IInv, IInv', NEW r \in Requests, NEW case \in Cases, NEW row \in Row,
           Effect(r, case, row)
    PROVE  Promise!Take(r, case)
<1>1. /\ Journals' = [Journals EXCEPT ![case] = Append(Journals[case], r.id)]
      /\ Len(Journals[case]) = Revision(case)
      /\ row.revision = Revision(case) + 1
    BY LongerJournal
<1>2. \A c \in Cases : \A n \in DOMAIN Journals[c] : Journals[c][n] # r.id
    BY EffectUnused
<1>3. \/ Told' = Told
      \/ Told' = Told \cup {[id |-> r.id, case |-> case, revision |-> row.revision]}
    <2>1. Reply(r, "ok", Response(case, row))
        BY DEF Effect, Commit
    <2> QED
        BY <2>1, ReplyTold DEF Response
<1>4. Revision(case) \in Nat /\ (Exists(case) => Revision(case) > 0)
    BY DEF IInv, TypeOK, Exists, Row, Revision
<1>5. IF r.create THEN Revision(case) + 1 = 1
      ELSE Revision(case) + 1 > 1 /\ case = r.case /\ Revision(case) + 1 = r.expected + 1
    BY <1>4 DEF Effect, Current, Revision
<1>6. ~Promise!Used(r.id)
    BY <1>2 DEF Promise!Used, Promise!At, Journals
<1> HIDE DEF Revision
<1> QED
    BY <1>1, <1>3, <1>5, <1>6 DEF Promise!Take, Promise!Success, Journals

LEMMA AnswerTells ==
    ASSUME IInv, Remembering, NEW r \in Requests, NEW kind,
           NEW response \in Responses \cup {NoResponse},
           Answer(r, kind, response), UNCHANGED tables
    PROVE  UNCHANGED Promise!vars \/ \E case \in Cases : Promise!Tell(r, case)
<1>1. Journals' = Journals
    BY DEF tables, Journals, Journal, Exists, Applied
<1>2. CASE Told' = Told
    BY <1>1, <1>2 DEF Promise!vars, Journals
<1>3. CASE /\ kind \in {"ok", "replayed"}
           /\ Told' = Told \cup {[id |-> r.id, case |-> response.case,
                                  revision |-> response.revision]}
    <2>1. /\ r.id \in RequestIds /\ idempotency[r.id] # NoEntry
          /\ response = idempotency[r.id].response
        BY <1>3, RequestTypes DEF Answer, Fresh
    <2>2. idempotency[r.id] \in Entry
        BY <2>1 DEF IInv, TypeOK
    <2>3. response.case \in Cases
        BY <2>1, <2>2 DEF Entry, Responses
    <2>4. PICK i \in Applied(response.case) :
              /\ audit[response.case][i].request = r.id
              /\ audit[response.case][i].revision = response.revision
        BY <2>1 DEF Remembering, OnRecord
    <2>5. /\ response.revision \in DOMAIN Journals[response.case]
          /\ Journals[response.case][response.revision] = r.id
        BY <2>3, <2>4, RecordedEntry
    <2>6. Promise!Tell(r, response.case)
        BY <1>1, <1>3, <2>5 DEF Promise!Tell, Promise!At, Promise!Success, Journals
    <2> QED
        BY <2>3, <2>6
<1> QED
    BY <1>2, <1>3, ReplyTold DEF Answer

LEMMA StepRefines ==
    ASSUME IInv, IInv', Remembering, [Next]_vars
    PROVE  [Promise!Next]_(Promise!vars)
<1>1. CASE UNCHANGED vars
    BY <1>1 DEF vars, Promise!vars, Journal, Exists, Applied, Told, Successes
<1>2. CASE Next
    <2>1. TypeOK /\ \A c \in Cases : Intact(c)
        BY DEF IInv
    <2> PICK r \in Requests :
              \/ UNCHANGED tables /\ \E kind \in Kinds :
                    \E response \in Responses \cup {NoResponse} : Answer(r, kind, response)
              \/ r.case \in Cases /\ Refusal(r)
              \/ \E case \in Cases, row \in Row : Effect(r, case, row)
        BY <1>2, <2>1, Steps
    <2>2. CASE UNCHANGED tables /\ \E kind \in Kinds :
                 \E response \in Responses \cup {NoResponse} : Answer(r, kind, response)
        BY <2>2, AnswerTells DEF Promise!Next
    <2>3. CASE r.case \in Cases /\ Refusal(r)
        <3>1. rows' = rows /\ Reply(r, "rejected", NoResponse)
            BY <2>3 DEF Refusal, RefuseAudited
        <3>2. /\ \A c \in Cases : Applied(c)' = Applied(c)
              /\ \A c \in Cases : \A i \in Applied(c) : audit'[c][i] = audit[c][i]
            BY <2>1, <2>3, RefusalApplied
        <3>3. Journals' = Journals
            BY <3>1, <3>2, SameJournals
        <3>4. Told' = Told
            BY <3>1, ReplyTold
        <3> QED
            BY <3>3, <3>4 DEF Promise!vars, Journals
    <2>4. CASE \E case \in Cases, row \in Row : Effect(r, case, row)
        BY <2>4, EffectTakes DEF Promise!Next
    <2> QED
        BY <2>2, <2>3, <2>4
<1> QED
    BY <1>1, <1>2

LEMMA StartRefines == Init => Promise!Init
<1> SUFFICES ASSUME Init PROVE Promise!Init
    OBVIOUS
<1>1. Told = {}
    BY DEF Init, Told, Successes
<1>2. ASSUME NEW case \in Cases PROVE Journal(case) = <<>>
    <2>1. ~Exists(case)
        BY DEF Init, Exists
    <2>2. Journals[case] \in Seq(RequestIds) /\ Len(Journals[case]) = 0
        <3>1. Journalled(case) /\ Revision(case) = 0
            BY <2>1, Initially, JournalsCounted DEF AllJournalled, Revision
        <3> QED
            BY <3>1, JournalEntries DEF Journalled
    <2> QED
        BY <2>2, EmptySeq DEF Journals
<1> QED
    BY <1>1, <1>2 DEF Promise!Init

(* The store keeps its promise for all cases, requests and commands: what  *)
(* its clients see of it is OnceOnly, in which a request takes effect once *)
(* on the revision it expects and nobody is told of anything else.         *)
THEOREM StoreKeepsPromise == Spec => KeepsPromise
<1>1. Init => Promise!Init
    BY StartRefines
<1>2. IInv /\ IInv' /\ Remembering /\ [Next]_vars => [Promise!Next]_(Promise!vars)
    BY StepRefines
<1> QED
    BY <1>1, <1>2, Inductive, Memory, PTL DEF Spec, KeepsPromise, Promise!Spec

-----------------------------------------------------------------------------
(* The snapshot is what the commands on record add up to.                  *)

Snapshot(case) == IF Exists(case) THEN rows[case].item ELSE NoRow

\* The snapshots a case has had, by revision; NoRow before the first.
IsPast(past, case) ==
    /\ past[0] = NoRow
    /\ \A n \in 1..Revision(case) : past[n] \in Outcomes(case, n, past[n - 1])
    /\ past[Revision(case)] = Snapshot(case)

PastInv == \A case \in Cases : \E past : IsPast(past, case)

\* An older entry of a journal keeps its makers in every step.
LEMMA SameMakers ==
    ASSUME NEW case \in Cases, NEW n,
           Journal(case)'[n] = Journal(case)[n],
           \A r \in Requests : r.id = Journal(case)[n] =>
              idempotency'[r.id] = idempotency[r.id]
    PROVE  Makers(case, n)' = Makers(case, n)
BY DEF Makers

LEMMA PastStays ==
    ASSUME NEW case \in Cases, NEW past, IsPast(past, case),
           rows'[case] = rows[case],
           \A n \in 1..Revision(case) : Makers(case, n)' = Makers(case, n)
    PROVE  IsPast(past, case)'
<1>1. Revision(case)' = Revision(case) /\ Snapshot(case)' = Snapshot(case)
    BY DEF Revision, Snapshot, Exists
<1>2. ASSUME NEW n \in 1..Revision(case), NEW item
      PROVE  Outcomes(case, n, item)' = Outcomes(case, n, item)
    BY DEF Outcomes
<1> QED
    BY <1>1, <1>2 DEF IsPast

\* An effect adds its snapshot to the past of its case.
LEMMA PastGrows ==
    ASSUME IInv, IInv', NEW r \in Requests, NEW case \in Cases, NEW row \in Row,
           Effect(r, case, row), NEW past, IsPast(past, case),
           \A n \in 1..Revision(case) : Makers(case, n)' = Makers(case, n)
    PROVE  \E longer : IsPast(longer, case)'
<1> PICK k : k = Revision(case)
    OBVIOUS
<1> PICK longer : longer = [n \in 0..(k + 1) |-> IF n = k + 1 THEN row.item ELSE past[n]]
    OBVIOUS
<1>1. /\ k \in Nat /\ (k = 0 <=> ~Exists(case)) /\ (Exists(case) => rows[case].revision = k)
    BY DEF IInv, TypeOK, Revision, Exists, Row
<1>2. /\ rows' = [rows EXCEPT ![case] = row] /\ rows'[case] = row
      /\ Exists(case)' /\ row.revision = k + 1
    BY <1>1, NullAssumption DEF IInv, Effect, Commit, TypeOK, Exists, Revision
<1>3. Revision(case)' = k + 1 /\ Snapshot(case)' = row.item
    BY <1>2 DEF Revision, Snapshot
<1>4. /\ longer[k + 1] = row.item
      /\ \A n \in 0..k : longer[n] = past[n]
    BY <1>1
<1>5. past[0] = NoRow /\ past[k] = Snapshot(case)
      /\ \A n \in 1..k : past[n] \in Outcomes(case, n, past[n - 1])
    BY DEF IsPast
<1>6. r \in Makers(case, k + 1)'
    <2>1. /\ Journals' = [Journals EXCEPT ![case] = Append(Journals[case], r.id)]
          /\ Len(Journals[case]) = k
        BY LongerJournal
    <2>2. Journals[case] \in Seq(RequestIds) /\ r.id \in RequestIds
        BY JournalsCounted, JournalEntries, RequestTypes DEF AllJournalled, Journalled
    <2>3. Journal(case)'[k + 1] = r.id
        <3>1. Append(Journals[case], r.id)[k + 1] = r.id
            BY <2>1, <2>2, AppendProperties
        <3>2. Journals'[case] = Append(Journals[case], r.id)
            BY <2>1 DEF Journals
        <3> QED
            BY <3>1, <3>2 DEF Journals
    <2>4. idempotency'[r.id].fingerprint = Fingerprint(r)
        BY <2>2 DEF Effect, Commit, IInv, TypeOK
    <2>5. /\ r.create <=> k + 1 = 1
          /\ r.create \/ (r.case = case /\ r.expected = k)
        BY <1>1 DEF Effect, Current
    <2> QED
        BY <1>1, <2>3, <2>4, <2>5 DEF Makers, Fingerprint
<1>7. row.item \in Outcomes(case, k + 1, past[k])'
    <2>1. Valid(row.item)
        BY DEF Effect
    <2>2. CASE r.create
        BY <1>6, <2>1, <2>2 DEF Effect, Outcomes
    <2>3. CASE ~r.create
        <3>1. past[k] = rows[case].item
            BY <1>5, <2>3 DEF Effect, Current, Snapshot
        <3>2. Accepts(past[k], r) /\ row.item = Result(past[k], r)
            BY <2>3, <3>1 DEF Effect
        <3> QED
            BY <1>6, <2>1, <2>3, <3>2 DEF Outcomes
    <2> QED
        BY <2>2, <2>3
<1>8. ASSUME NEW n \in 1..(k + 1) PROVE longer[n] \in Outcomes(case, n, longer[n - 1])'
    <2>1. CASE n = k + 1
        <3>1. longer[n] = row.item /\ longer[n - 1] = past[k]
            BY <1>1, <1>4, <2>1
        <3> QED
            BY <1>7, <2>1, <3>1
    <2>2. CASE n # k + 1
        <3>1. n \in 1..k /\ n - 1 \in 0..k /\ n \in 0..k
            BY <1>1, <2>2
        <3>2. longer[n] = past[n] /\ longer[n - 1] = past[n - 1]
            BY <1>4, <3>1
        <3>3. Makers(case, n)' = Makers(case, n)
            BY <3>1
        <3>4. past[n] \in Outcomes(case, n, past[n - 1])
            BY <1>5, <3>1
        <3> PICK old : old = past[n - 1]
            OBVIOUS
        <3>5. Outcomes(case, n, old)' = Outcomes(case, n, old)
            BY <3>3 DEF Outcomes
        <3>6. past[n] \in Outcomes(case, n, old)'
            BY <3>4, <3>5
        <3> QED
            BY <3>2, <3>6
    <2> QED
        BY <2>1, <2>2
<1>9. longer[0] = NoRow
    BY <1>1, <1>4, <1>5
<1>10. IsPast(longer, case)'
    BY <1>3, <1>4, <1>8, <1>9 DEF IsPast
<1> QED
    BY <1>10

LEMMA PastStep ==
    ASSUME IInv, IInv', PastInv, [Next]_vars
    PROVE  PastInv'
<1> SUFFICES ASSUME NEW case \in Cases PROVE \E past : IsPast(past, case)'
    BY DEF PastInv
<1> PICK past : IsPast(past, case)
    BY DEF PastInv
<1>0. Journalled(case) /\ DOMAIN Journals[case] = 1..Revision(case)
      /\ \A c \in Cases : Journals[c] = Journal(c)
    <2>1. Journalled(case)
        BY JournalsCounted DEF AllJournalled
    <2> QED
        BY <2>1 DEF Journalled, JournalOf, Journals
<1>1. CASE UNCHANGED <<rows, idempotency>> /\ Journals' = Journals
    <2>1. Journal(case)' = Journal(case)
        BY <1>1 DEF Journals
    <2>2. \A n \in 1..Revision(case) : Makers(case, n)' = Makers(case, n)
        BY <1>1, <2>1, SameMakers
    <2> QED
        BY <1>1, <2>2, PastStays
<1>2. CASE UNCHANGED tables
    <2>1. Journals' = Journals
        BY <1>2 DEF tables, Journals, Journal, Exists, Applied
    <2> QED
        BY <1>1, <1>2, <2>1 DEF tables
<1>3. ASSUME NEW r \in Requests, r.case \in Cases, Refusal(r)
      PROVE  \E longer : IsPast(longer, case)'
    <2>1. UNCHANGED <<rows, idempotency>>
        BY <1>3 DEF Refusal, RefuseAudited
    <2>2. /\ \A c \in Cases : Applied(c)' = Applied(c)
          /\ \A c \in Cases : \A i \in Applied(c) : audit'[c][i] = audit[c][i]
        BY <1>3, RefusalApplied DEF IInv
    <2>3. Journals' = Journals
        BY <2>1, <2>2, SameJournals
    <2> QED
        BY <1>1, <2>1, <2>3
<1>4. ASSUME NEW r \in Requests, NEW c \in Cases, NEW row \in Row, Effect(r, c, row)
      PROVE  \E longer : IsPast(longer, case)'
    <2>1. /\ Journals' = [Journals EXCEPT ![c] = Append(Journals[c], r.id)]
          /\ Journals[case] \in Seq(RequestIds) /\ r.id \in RequestIds
        BY <1>0, <1>4, LongerJournal, JournalEntries, RequestTypes DEF Journalled
    <2>2. ASSUME NEW n \in 1..Revision(case) PROVE Makers(case, n)' = Makers(case, n)
        <3>1. n \in DOMAIN Journals[case] /\ n \in 1..Len(Journals[case])
            BY <1>0, <2>1, LenProperties
        <3>2. Journals[case][n] # r.id
            BY <1>4, <3>1, EffectUnused
        <3>3. Append(Journals[case], r.id)[n] = Journals[case][n]
            BY <2>1, <3>1, AppendProperties
        <3>4. Journals'[case][n] = Journals[case][n]
            BY <2>1, <3>3 DEF Journals
        <3>5. Journal(case)'[n] = Journal(case)[n]
            BY <3>4 DEF Journals
        <3>6. \A q \in Requests : q.id = Journal(case)[n] =>
                 idempotency'[q.id] = idempotency[q.id]
            BY <1>0, <1>4, <3>2 DEF Effect, Commit, IInv, TypeOK
        <3> QED
            BY <3>5, <3>6, SameMakers
    <2>3. CASE c = case
        BY <1>4, <2>2, <2>3, PastGrows
    <2>4. CASE c # case
        <3>1. rows'[case] = rows[case]
            BY <1>4, <2>4 DEF Effect, Commit, IInv, TypeOK
        <3> QED
            BY <2>2, <3>1, PastStays
    <2> QED
        BY <2>3, <2>4
<1>5. CASE Next
    <2>1. TypeOK
        BY DEF IInv
    <2> QED
        BY <1>2, <1>3, <1>4, <1>5, <2>1, Steps
<1> QED
    BY <1>2, <1>5 DEF vars, tables

LEMMA NoPast == Init => PastInv
<1> SUFFICES ASSUME Init, NEW case \in Cases PROVE \E past : IsPast(past, case)
    BY DEF PastInv
<1> DEFINE past == [n \in 0..0 |-> NoRow]
<1>1. Revision(case) = 0 /\ Snapshot(case) = NoRow
    BY DEF Init, Revision, Snapshot, Exists
<1>2. past[0] = NoRow
    OBVIOUS
<1> HIDE DEF past
<1> QED
    BY <1>1, <1>2 DEF IsPast

\* A past ends in a snapshot that Replayed has found.
LEMMA PastIsReplayed ==
    ASSUME IInv, NEW case \in Cases, Exists(case), NEW past, IsPast(past, case)
    PROVE  rows[case].item \in Replayed(case)[rows[case].revision]
<1> DEFINE k == rows[case].revision
           Next1(set, n) == UNION {Outcomes(case, n, item) : item \in set}
           Equation(f) == f = [n \in 0..k |-> IF n = 0 THEN {NoRow} ELSE Next1(f[n - 1], n)]
           after == CHOOSE f : Equation(f)
           S == SUBSET (Items \cup {NoRow})
           step == [n \in 1..k |-> [set \in S |-> Next1(set, n) \cap Items]]
<1>1. k \in Nat \ {0} /\ k = Revision(case) /\ Snapshot(case) = rows[case].item
    BY DEF IInv, TypeOK, Row, Exists, Revision, Snapshot
<1>2. Replayed(case) = after
    BY DEF Replayed
<1>3. PICK g : IsRun(g, k, S, {NoRow}, step)
    <2>1. {NoRow} \in S
        OBVIOUS
    <2>2. \A n \in 1..k : \A set \in S : step[n][set] \in S
        <3> HIDE DEF Next1
        <3> QED
            OBVIOUS
    <2>3. k \in Nat
        BY <1>1
    <2> HIDE DEF k, S, step
    <2> QED
        BY <2>1, <2>2, <2>3, RecursionExists
<1>4. /\ g = [n \in 0..k |-> g[n]] /\ g[0] = {NoRow}
      /\ \A n \in 1..k : g[n - 1] \in S /\ g[n] = Next1(g[n - 1], n) \cap Items
    <2>1. g \in [0..k -> S] /\ g[0] = {NoRow}
          /\ \A n \in 1..k : g[n] = step[n][g[n - 1]]
        BY <1>3 DEF IsRun
    <2>2. \A n \in 1..k : n - 1 \in 0..k
        BY <1>1
    <2> HIDE DEF Next1, k, S
    <2> QED
        BY <2>1, <2>2
<1>5. ASSUME NEW n \in 1..k PROVE Next1(g[n - 1], n) \subseteq Items
    <2>1. ASSUME NEW item \in g[n - 1], NEW r \in Makers(case, n), r.create \/ Accepts(item, r)
          PROVE  (IF r.create THEN New(r) ELSE Result(item, r)) \in Items
        <3>1. r \in Requests /\ (r.create <=> n = 1)
            BY DEF Makers
        <3>2. CASE r.create
            BY <3>1, <3>2, RequestsAssumption
        <3>3. CASE ~r.create
            <4>1. n - 1 \in 1..k
                BY <1>1, <3>1, <3>3
            <4>2. item \in Items
                BY <1>4, <4>1
            <4> QED
                BY <2>1, <3>1, <3>3, <4>2, DomainAssumption
        <3> QED
            BY <3>2, <3>3
    <2>2. ASSUME NEW item \in g[n - 1] PROVE Outcomes(case, n, item) \subseteq Items
        BY <2>1 DEF Outcomes
    <2> QED
        BY <2>2
<1>6. Equation(g)
    <2>1. \A n \in 0..k : g[n] = IF n = 0 THEN {NoRow} ELSE Next1(g[n - 1], n)
        <3>1. \A n \in 0..k : n = 0 \/ n \in 1..k
            BY <1>1
        <3> HIDE DEF Next1, k, S
        <3> QED
            BY <1>4, <1>5, <3>1
    <2> HIDE DEF Next1, k
    <2> QED
        BY <1>4, <2>1
<1>7. Equation(after)
    <2> HIDE DEF Equation
    <2> QED
        BY <1>6
<1> HIDE DEF after
<1>8. after[0] = {NoRow} /\ \A n \in 1..k : after[n] = Next1(after[n - 1], n)
    <2>1. \A n \in 0..k : after[n] = IF n = 0 THEN {NoRow} ELSE Next1(after[n - 1], n)
        <3> HIDE DEF Next1
        <3> QED
            BY <1>7
    <2>2. 0 \in 0..k /\ \A n \in 1..k : n \in 0..k /\ n # 0
        BY <1>1
    <2> HIDE DEF Next1, k
    <2> QED
        BY <2>1, <2>2
<1>9. /\ past[0] = NoRow /\ past[k] = rows[case].item
      /\ \A n \in 1..k : past[n] \in Outcomes(case, n, past[n - 1])
    BY <1>1 DEF IsPast
<1> DEFINE T == {n \in 0..k : past[n] \in after[n]}
<1>10. 0 \in T
    BY <1>1, <1>8, <1>9
<1>11. ASSUME NEW n \in 0..(k - 1), n \in T PROVE n + 1 \in T
    <2>1. n + 1 \in 1..k /\ n + 1 \in 0..k /\ (n + 1) - 1 = n
        BY <1>1
    <2>2. past[n + 1] \in Outcomes(case, n + 1, past[n])
        BY <1>9, <2>1
    <2>3. after[n + 1] = Next1(after[n], n + 1)
        <3> HIDE DEF Next1, k
        <3> QED
            BY <1>8, <2>1
    <2>4. past[n] \in after[n]
        BY <1>11
    <2>5. past[n + 1] \in after[n + 1]
        <3> DEFINE new == past[n + 1]
        <3>1. new \in Outcomes(case, n + 1, past[n])
            BY <2>2
        <3> HIDE DEF new
        <3>2. new \in after[n + 1]
            BY <2>3, <2>4, <3>1
        <3> QED
            BY <3>2 DEF new
    <2> QED
        BY <2>1, <2>5
<1>12. k \in T
    <2>1. k \in Nat /\ k \in 0..k
        BY <1>1
    <2> HIDE DEF T, k
    <2>2. 0..k \subseteq T
        BY <1>10, <1>11, <2>1, BoundedInduction
    <2> QED
        BY <2>1, <2>2
<1> QED
    BY <1>2, <1>9, <1>12

(* The snapshot of a case is what the commands on record add up to, each   *)
(* decided on exactly what the one before it left behind: optimistic       *)
(* locking (Mutate) loses no update, whatever requests race or come back.  *)
THEOREM SnapshotsAreHistory == Spec => []SnapshotIsHistory
<1>1. Init => PastInv
    BY NoPast
<1>2. IInv /\ IInv' /\ PastInv /\ [Next]_vars => PastInv'
    BY PastStep
<1>3. IInv /\ PastInv => SnapshotIsHistory
    BY PastIsReplayed DEF PastInv, SnapshotIsHistory
<1> QED
    BY <1>1, <1>2, <1>3, Inductive, PTL DEF Spec

=============================================================================
