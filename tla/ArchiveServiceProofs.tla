------------------------ MODULE ArchiveServiceProofs ------------------------
(* Proofs about ArchiveService: a sealed case is the one that was bundled  *)
(* and stays as it is, the database can always be opened again, files tell *)
(* the timeline of their case, and evidence verifies that nobody disturbs. *)
EXTENDS ArchiveService, SequenceLemmas, FiniteSetTheorems

-----------------------------------------------------------------------------
(* What transactions do to the rows.                                       *)

\* The command of r takes effect on the revision it expects.
Effect(r) ==
    /\ r.expected = rows[r.case].revision
    /\ Accepts(rows[r.case].item, r)
    /\ rows' = [rows EXCEPT ![r.case] = [item |-> Result(rows[r.case].item, r),
                                         revision |-> rows[r.case].revision + 1]]
    /\ projections' = [projections EXCEPT ![r.case] = Result(rows[r.case].item, r)]

LEMMA MutateRows ==
    ASSUME NEW r, Store!Mutate(r)
    PROVE  Effect(r) \/ UNCHANGED <<rows, projections>>
<1>1. CASE Store!Apply(r)
    BY <1>1 DEF Store!Apply, Store!Current, Store!Commit, Effect
<1>2. CASE Store!Replay(r) \/ Store!Reused(r) \/ Store!UnknownCase(r)
    BY <1>2 DEF Store!Replay, Store!Reused, Store!UnknownCase, Store!Refuse
<1>3. CASE Store!StaleRevision(r) \/ Store!RefuseSilently(r) \/ Store!RefuseUnsound(r)
    BY <1>3 DEF Store!StaleRevision, Store!RefuseSilently, Store!RefuseUnsound, Store!Refuse
<1>4. CASE Store!RefuseAudited(r)
    BY <1>4 DEF Store!RefuseAudited
<1> QED
    BY <1>1, <1>2, <1>3, <1>4 DEF Store!Mutate

-----------------------------------------------------------------------------
(* The inductive invariant.                                                *)

Archiving(c) == pc[c] # "idle" /\ Call(c).kind = "archive"
CaseOf(c) == Call(c).request.case

RowsInv ==
    /\ DOMAIN rows = Cases /\ DOMAIN projections = Cases
    /\ \A case \in Cases :
          /\ {"state", "archive"} \subseteq DOMAIN rows[case].item
          /\ rows[case].revision \in Nat

ClientsInv ==
    /\ DOMAIN pc = Clients /\ DOMAIN local = Clients
    /\ \A c \in Clients :
          /\ pc[c] # "idle" => Call(c) \in Calls[c]
          /\ DOMAIN local[c] = {"call", "row", "events", "head", "manifest"}
          /\ pc[c] \in {"head", "headRevision", "generate", "seal"} => Call(c).kind = "archive"

\* What Archive read is the row as it is or as it was at an earlier revision,
\* and past the comparison it is the revision the request expects.
ReadInv(c) ==
    /\ Archiving(c) =>
          /\ local[c].row.revision \in Nat
          /\ local[c].row.revision <= rows[CaseOf(c)].revision
          /\ local[c].row.revision = rows[CaseOf(c)].revision => local[c].row = rows[CaseOf(c)]
    /\ Archiving(c) /\ pc[c] # "projections" => IsExpected(c)

\* The manifest Archive hands over is that of a bundle of what it read.
BundledInv(c) ==
    pc[c] = "seal" =>
        \E b \in made : /\ ManifestOf(b) = local[c].manifest
                        /\ b.item = local[c].row.item
                        /\ b.revision = local[c].row.revision

AInv == /\ RowsInv /\ ClientsInv
        /\ \A c \in Clients : ReadInv(c) /\ BundledInv(c)
        /\ SealedIsBundled

\* A row stays or moves to its next revision.
RowsMove ==
    \A case \in Cases :
        \/ rows'[case] = rows[case]
        \/ rows'[case].revision = rows[case].revision + 1

\* A client that does nothing keeps what it knows, whatever others do.
LEMMA OthersKeep ==
    ASSUME RowsInv, RowsMove, ClientsInv, made \subseteq made', NEW c \in Clients,
           ReadInv(c), BundledInv(c), pc'[c] = pc[c], local'[c] = local[c]
    PROVE  ReadInv(c)' /\ BundledInv(c)'
<1>1. Archiving(c)' <=> Archiving(c)
    BY DEF Archiving, Call
<1>2. CaseOf(c)' = CaseOf(c) /\ (Archiving(c) => CaseOf(c) \in Cases)
    BY CallsAssumption DEF CaseOf, Call, Archiving, ClientsInv
<1>3. IsExpected(c)' <=> IsExpected(c)
    BY DEF IsExpected, Call
<1>4. ReadInv(c)'
    <2>1. ASSUME Archiving(c)
          PROVE  /\ local[c].row.revision <= rows'[CaseOf(c)].revision
                 /\ local[c].row.revision = rows'[CaseOf(c)].revision =>
                       local[c].row = rows'[CaseOf(c)]
        <3> DEFINE k == CaseOf(c)
        <3>1. k \in Cases /\ rows[k].revision \in Nat /\ local[c].row.revision \in Nat
              /\ local[c].row.revision <= rows[k].revision
            BY <1>2, <2>1 DEF RowsInv, ReadInv
        <3>2. CASE rows'[k] = rows[k]
            BY <2>1, <3>1, <3>2 DEF ReadInv
        <3>3. CASE rows'[k].revision = rows[k].revision + 1
            BY <3>1, <3>3
        <3> QED
            BY <3>1, <3>2, <3>3 DEF RowsMove
    <2> QED
        BY <1>1, <1>2, <1>3, <2>1 DEF ReadInv
<1>5. BundledInv(c)'
    BY DEF BundledInv
<1> QED
    BY <1>4, <1>5

LEMMA InitArchive == Init => AInv
<1> SUFFICES ASSUME Init PROVE AInv
    OBVIOUS
<1>1. rows \in [Cases -> Store!Row] /\ \A case \in Cases : rows[case].item.state # "archived"
    BY StartAssumption DEF Init
<1>2. RowsInv
    BY <1>1 DEF RowsInv, Store!Row, Case, Init
<1>3. SealedIsBundled
    BY <1>1 DEF SealedIsBundled, Archived
<1>4. ClientsInv
    BY DEF Init, ClientsInv, Blank
<1>5. ASSUME NEW c \in Clients PROVE ReadInv(c) /\ BundledInv(c)
    BY DEF Init, ReadInv, BundledInv, Archiving
<1> QED
    BY <1>2, <1>3, <1>4, <1>5 DEF AInv

-----------------------------------------------------------------------------
(* Steps of one client that leave the rows alone.                          *)

LEMMA SealedKept ==
    ASSUME SealedIsBundled, UNCHANGED <<rows, projections>>, made \subseteq made'
    PROVE  SealedIsBundled'
BY DEF SealedIsBundled, Archived

LEMMA ClientStep ==
    ASSUME AInv, NEW c \in Clients, NEW place, NEW now, Goto(c, place, now),
           UNCHANGED <<rows, projections>>, made \subseteq made',
           place # "idle" => now.call \in Calls[c],
           place \in {"head", "headRevision", "generate", "seal"} => now.call.kind = "archive",
           DOMAIN now = {"call", "row", "events", "head", "manifest"},
           ReadInv(c)', BundledInv(c)'
    PROVE  AInv'
<1>1. /\ pc'[c] = place /\ local'[c] = now
      /\ DOMAIN pc' = Clients /\ DOMAIN local' = Clients
      /\ \A d \in Clients \ {c} : pc'[d] = pc[d] /\ local'[d] = local[d]
    BY DEF Goto, AInv, ClientsInv
<1>2. RowsInv' /\ RowsMove
    BY DEF AInv, RowsInv, RowsMove
<1>3. ClientsInv'
    BY <1>1 DEF AInv, ClientsInv, Call
<1>4. ASSUME NEW d \in Clients PROVE ReadInv(d)' /\ BundledInv(d)'
    <2>1. CASE d = c
        BY <2>1
    <2>2. CASE d # c
        BY <2>2, <1>1, <1>2, OthersKeep DEF AInv
    <2> QED
        BY <2>1, <2>2
<1>5. SealedIsBundled'
    BY SealedKept DEF AInv
<1> QED
    BY <1>2, <1>3, <1>4, <1>5 DEF AInv

LEMMA EndStep ==
    ASSUME AInv, NEW c \in Clients, Goto(c, "idle", Blank),
           UNCHANGED <<rows, projections>>, made \subseteq made'
    PROVE  AInv'
<1>1. pc'[c] = "idle"
    BY DEF Goto, AInv, ClientsInv
<1>2. ReadInv(c)' /\ BundledInv(c)'
    BY <1>1 DEF ReadInv, BundledInv, Archiving
<1>3. DOMAIN Blank = {"call", "row", "events", "head", "manifest"}
    BY DEF Blank
<1> HIDE DEF Blank
<1> QED
    BY <1>2, <1>3, ClientStep

LEMMA AdvanceStep ==
    ASSUME AInv, NEW c \in Clients, NEW place, NEW now, Advance(c, place, now),
           pc[c] # "idle", place \notin {"idle", "seal"},
           place \in {"head", "headRevision", "generate"} => Call(c).kind = "archive",
           now.call = local[c].call, now.row = local[c].row, DOMAIN now = DOMAIN local[c],
           Archiving(c) => IsExpected(c)
    PROVE  AInv'
<1>1. Goto(c, place, now) /\ UNCHANGED <<rows, projections>> /\ UNCHANGED made
    BY DEF Advance, store
<1>2. pc'[c] = place /\ local'[c] = now
    BY <1>1 DEF Goto, AInv, ClientsInv
<1>3. Call(c)' = Call(c) /\ CaseOf(c)' = CaseOf(c) /\ (Archiving(c)' <=> Archiving(c))
      /\ (IsExpected(c)' <=> IsExpected(c))
    BY <1>2 DEF Call, CaseOf, Archiving, IsExpected
<1>4. ReadInv(c)'
    BY <1>1, <1>2, <1>3 DEF AInv, ReadInv
<1>5. BundledInv(c)'
    BY <1>2 DEF BundledInv
<1>6. now.call \in Calls[c] /\ DOMAIN now = {"call", "row", "events", "head", "manifest"}
    BY DEF AInv, ClientsInv, Call
<1> QED
    BY <1>1, <1>4, <1>5, <1>6, ClientStep DEF Call

\* Finish is an end, Advance with what was read an advance.
LEMMA FinishStep ==
    ASSUME AInv, NEW c \in Clients, NEW kind, Finish(c, kind)
    PROVE  AInv'
BY EndStep DEF Finish

LEMMA ReadSnapshotStep ==
    ASSUME AInv, NEW c \in Clients, ReadSnapshot(c) PROVE AInv'
<1> PICK call \in Calls[c] :
        Advance(c, "projections",
                [Blank EXCEPT !.call = call, !.row = rows[call.request.case]])
    BY DEF ReadSnapshot
<1> DEFINE now == [Blank EXCEPT !.call = call, !.row = rows[call.request.case]]
<1>1. /\ now.call = call /\ now.row = rows[call.request.case]
      /\ DOMAIN now = {"call", "row", "events", "head", "manifest"}
    BY DEF Blank
<1>2. Goto(c, "projections", now) /\ UNCHANGED <<rows, projections>> /\ UNCHANGED made
    BY DEF Advance, store
<1> HIDE DEF now
<1>3. pc'[c] = "projections" /\ local'[c] = now
    BY <1>2 DEF Goto, AInv, ClientsInv
<1>4. call.request.case \in Cases
    BY CallsAssumption
<1>5. ReadInv(c)' /\ BundledInv(c)'
    BY <1>1, <1>2, <1>3, <1>4
    DEF AInv, RowsInv, ReadInv, BundledInv, Archiving, Call, CaseOf
<1> QED
    BY <1>1, <1>2, <1>5, ClientStep

LEMMA ReadProjectionsStep ==
    ASSUME AInv, NEW c \in Clients, ReadProjections(c) PROVE AInv'
<1>1. ASSUME NEW place \in {"file", "events"}, Advance(c, place, local[c]),
             Call(c).kind # "archive" \/ IsExpected(c)
      PROVE  AInv'
    BY <1>1, AdvanceStep DEF ReadProjections, Archiving
<1> QED
    BY <1>1, FinishStep DEF ReadProjections

LEMMA StartTimelineStep ==
    ASSUME AInv, NEW c \in Clients, StartTimeline(c) PROVE AInv'
<1> PICK call \in Calls[c] :
        /\ call.kind = "timeline"
        /\ Advance(c, "chain", [Blank EXCEPT !.call = call,
                                             !.events = Events(call.request.case)])
    BY DEF StartTimeline
<1> DEFINE now == [Blank EXCEPT !.call = call, !.events = Events(call.request.case)]
<1>1. now.call = call /\ DOMAIN now = {"call", "row", "events", "head", "manifest"}
    BY DEF Blank
<1>2. Goto(c, "chain", now) /\ UNCHANGED <<rows, projections>> /\ UNCHANGED made
    BY DEF Advance, store
<1> HIDE DEF now
<1>3. pc'[c] = "chain" /\ local'[c] = now
    BY <1>2 DEF Goto, AInv, ClientsInv
<1>4. ReadInv(c)' /\ BundledInv(c)'
    BY <1>1, <1>3 DEF ReadInv, BundledInv, Archiving, Call
<1> QED
    BY <1>1, <1>2, <1>4, ClientStep

LEMMA ReadChainStep ==
    ASSUME AInv, NEW c \in Clients, LoadEvents(c) \/ LoadChain(c) PROVE AInv'
<1>1. pc[c] \notin {"idle", "projections"} /\ (Archiving(c) => IsExpected(c))
    BY DEF LoadEvents, LoadChain, AInv, ReadInv
<1>2. DOMAIN local[c] = {"call", "row", "events", "head", "manifest"}
    BY DEF AInv, ClientsInv
<1>3. CASE LoadEvents(c)
    <2> DEFINE now == [local[c] EXCEPT !.events = Events(CaseOf(c))]
    <2>1. now.call = local[c].call /\ now.row = local[c].row /\ DOMAIN now = DOMAIN local[c]
        BY <1>2
    <2>2. Advance(c, "chain", now)
        BY <1>3 DEF LoadEvents, CaseOf
    <2> HIDE DEF now
    <2> QED
        BY <1>1, <2>1, <2>2, AdvanceStep
<1>4. CASE LoadChain(c)
    <2> DEFINE now == [local[c] EXCEPT !.head = Events(CaseOf(c))]
               place == IF pc[c] = "chain" THEN "chainRevision" ELSE "headRevision"
    <2>1. now.call = local[c].call /\ now.row = local[c].row /\ DOMAIN now = DOMAIN local[c]
        BY <1>2
    <2>2. Advance(c, place, now)
        BY <1>4 DEF LoadChain, CaseOf
    <2>3. place = "headRevision" => Call(c).kind = "archive"
        BY <1>4 DEF LoadChain, AInv, ClientsInv
    <2> HIDE DEF now
    <2> QED
        BY <1>1, <2>1, <2>2, <2>3, AdvanceStep
<1> QED
    BY <1>3, <1>4

LEMMA ReadRevisionStep ==
    ASSUME AInv, NEW c \in Clients, ReadRevision(c) PROVE AInv'
<1>1. pc[c] \notin {"idle", "projections"} /\ (Archiving(c) => IsExpected(c))
    BY DEF ReadRevision, AInv, ReadInv
<1>2. pc[c] = "headRevision" => Call(c).kind = "archive"
    BY DEF AInv, ClientsInv
<1>3. ASSUME NEW place \in {"generate", "file", "head"}, Advance(c, place, local[c]),
             place \in {"generate", "head"} => Call(c).kind = "archive"
      PROVE  AInv'
    BY <1>1, <1>3, AdvanceStep
<1> QED
    BY <1>2, <1>3, FinishStep DEF ReadRevision

LEMMA GenerateStep ==
    ASSUME AInv, NEW c \in Clients, Generate(c) PROVE AInv'
<1> DEFINE bundle == MakeBundle(CaseOf(c), local[c])
           now == [local[c] EXCEPT !.manifest = ManifestOf(bundle)]
<1>1. /\ pc[c] = "generate" /\ made' = made \cup {bundle} /\ UNCHANGED <<rows, projections>>
      /\ Goto(c, "seal", now)
    BY DEF Generate, Write, store, CaseOf
<1>2. bundle.item = local[c].row.item /\ bundle.revision = local[c].row.revision
    BY DEF MakeBundle
<1>3. DOMAIN local[c] = {"call", "row", "events", "head", "manifest"}
    BY DEF AInv, ClientsInv
<1>4. /\ now.call = local[c].call /\ now.row = local[c].row
      /\ now.manifest = ManifestOf(bundle) /\ DOMAIN now = DOMAIN local[c]
    BY <1>3
<1> HIDE DEF bundle, now
<1>5. pc'[c] = "seal" /\ local'[c] = now
    BY <1>1 DEF Goto, AInv, ClientsInv
<1>6. Call(c)' = Call(c) /\ CaseOf(c)' = CaseOf(c) /\ (Archiving(c)' <=> Archiving(c))
      /\ (IsExpected(c)' <=> IsExpected(c))
    BY <1>1, <1>4, <1>5 DEF Call, CaseOf, Archiving, IsExpected
<1>7. ReadInv(c)'
    BY <1>1, <1>4, <1>5, <1>6 DEF AInv, ReadInv
<1>8. BundledInv(c)'
    BY <1>1, <1>2, <1>4, <1>5 DEF BundledInv
<1>9. now.call \in Calls[c] /\ now.call.kind = "archive"
    BY <1>1, <1>4 DEF AInv, ClientsInv, Call
<1> QED
    BY <1>1, <1>3, <1>4, <1>7, <1>8, <1>9, ClientStep

-----------------------------------------------------------------------------
(* Transactions.                                                           *)

LEMMA EffectMoves ==
    ASSUME RowsInv, NEW r, r.case \in Cases, Effect(r)
    PROVE  RowsMove /\ RowsInv'
<1> DEFINE row == [item |-> Result(rows[r.case].item, r),
                   revision |-> rows[r.case].revision + 1]
<1>1. rows' = [rows EXCEPT ![r.case] = row]
    BY DEF Effect
<1>2. {"state", "archive"} \subseteq DOMAIN row.item /\ row.revision \in Nat
    BY DEF RowsInv, Result, ReleaseCase, MarkArchived
<1>3. row.revision = rows[r.case].revision + 1 /\ DOMAIN projections' = DOMAIN projections
    BY DEF Effect
<1> HIDE DEF row
<1> QED
    BY <1>1, <1>2, <1>3 DEF RowsInv, RowsMove

LEMMA TransactionStep ==
    ASSUME AInv, NEW r \in Commands, Transaction(r) PROVE AInv'
<1>1. UNCHANGED <<made, pc, local>> /\ (Effect(r) \/ UNCHANGED <<rows, projections>>)
    BY MutateRows DEF Transaction
<1>2. r.case \in Cases /\ r.event = "case.released"
    BY CommandsAssumption
<1>3. RowsMove /\ RowsInv'
    BY <1>1, <1>2, EffectMoves DEF AInv, RowsMove, RowsInv
<1>4. ClientsInv'
    BY <1>1 DEF AInv, ClientsInv, Call
<1>5. \A c \in Clients : ReadInv(c)' /\ BundledInv(c)'
    BY <1>1, <1>3, OthersKeep DEF AInv
<1>6. SealedIsBundled'
    <2>1. CASE UNCHANGED <<rows, projections>>
        BY <2>1, <1>1, SealedKept DEF AInv
    <2>2. CASE Effect(r)
        <3>1. rows'[r.case].item = ReleaseCase(rows[r.case].item, r.actor)
              /\ \A case \in Cases \ {r.case} : rows'[case] = rows[case]
            BY <1>2, <2>2 DEF Effect, Result, AInv, RowsInv
        <3>2. ~Archived(r.case)'
            BY <1>2, <3>1 DEF Archived, ReleaseCase, AInv, RowsInv
        <3> QED
            BY <1>1, <3>1, <3>2 DEF SealedIsBundled, Archived, AInv
    <2> QED
        BY <1>1, <2>1, <2>2
<1> QED
    BY <1>3, <1>4, <1>5, <1>6 DEF AInv

LEMMA SealStep ==
    ASSUME AInv, NEW c \in Clients, Seal(c) PROVE AInv'
<1> DEFINE r == SealRequest(c)
           k == CaseOf(c)
<1>1. /\ pc[c] = "seal" /\ UNCHANGED made /\ Goto(c, "idle", Blank)
      /\ Effect(r) \/ UNCHANGED <<rows, projections>>
    BY MutateRows DEF Seal
<1>2. Call(c) \in Calls[c] /\ Call(c).kind = "archive" /\ k \in Cases
    BY <1>1, CallsAssumption DEF AInv, ClientsInv, CaseOf
<1>3. /\ r.manifest = local[c].manifest /\ r.case = k
      /\ r.expected = Call(c).request.expected /\ r.event = "case.archived"
    BY <1>2, CallsAssumption DEF SealRequest, CaseOf
<1> HIDE DEF r
<1>4. CASE UNCHANGED <<rows, projections>>
    BY <1>1, <1>4, EndStep
<1>5. CASE Effect(r)
    <2>1. RowsMove /\ RowsInv'
        BY <1>2, <1>3, <1>5, EffectMoves DEF AInv
    <2>2. /\ DOMAIN pc' = Clients /\ DOMAIN local' = Clients
          /\ pc'[c] = "idle" /\ local'[c] = Blank
          /\ \A d \in Clients \ {c} : pc'[d] = pc[d] /\ local'[d] = local[d]
        BY <1>1 DEF Goto, AInv, ClientsInv
    <2>3. ClientsInv'
        <3>1. DOMAIN Blank = {"call", "row", "events", "head", "manifest"}
            BY DEF Blank
        <3> QED
            BY <2>2, <3>1 DEF AInv, ClientsInv, Call
    <2>4. ASSUME NEW d \in Clients PROVE ReadInv(d)' /\ BundledInv(d)'
        <3>1. CASE d = c
            BY <2>2, <3>1 DEF ReadInv, BundledInv, Archiving
        <3>2. CASE d # c
            BY <1>1, <2>1, <2>2, <3>2, OthersKeep DEF AInv
        <3> QED
            BY <3>1, <3>2
    <2>5. SealedIsBundled'
        <3>1. Archiving(c) /\ IsExpected(c)
            BY <1>1, <1>2 DEF Archiving, AInv, ReadInv
        <3>2. local[c].row = rows[k]
            BY <1>3, <1>5, <3>1 DEF Effect, IsExpected, AInv, ReadInv
        <3>3. PICK b \in made : /\ ManifestOf(b) = local[c].manifest
                                /\ b.item = rows[k].item
                                /\ b.revision = rows[k].revision
            BY <1>1, <3>2 DEF AInv, BundledInv
        <3>4. /\ rows'[k].item = MarkArchived(b.item, ManifestOf(b))
              /\ rows'[k].revision = b.revision + 1
              /\ \A case \in Cases \ {k} : rows'[case] = rows[case]
            BY <1>2, <1>3, <1>5, <3>3 DEF Effect, Result, AInv, RowsInv
        <3>5. rows'[k].item.archive = ManifestOf(b)
            <4>1. "archive" \in DOMAIN b.item
                BY <1>2, <3>3 DEF AInv, RowsInv
            <4> QED
                BY <3>4, <4>1 DEF MarkArchived
        <3>6. \A case \in Cases \ {k} : Archived(case)' =>
                 \E d \in made : /\ ManifestOf(d) = rows'[case].item.archive
                                 /\ MarkArchived(d.item, ManifestOf(d)) = rows'[case].item
                                 /\ d.revision + 1 = rows'[case].revision
            BY <3>4 DEF AInv, SealedIsBundled, Archived
        <3> QED
            BY <1>1, <3>3, <3>4, <3>5, <3>6 DEF SealedIsBundled
    <2> QED
        BY <2>1, <2>3, <2>4, <2>5 DEF AInv
<1> QED
    BY <1>1, <1>4, <1>5

-----------------------------------------------------------------------------
LEMMA NextArchive == AInv /\ [Next]_vars => AInv'
<1> SUFFICES ASSUME AInv, [Next]_vars PROVE AInv'
    OBVIOUS
<1>1. CASE UNCHANGED vars
    BY <1>1 DEF vars, AInv, RowsInv, ClientsInv, ReadInv, BundledInv, SealedIsBundled,
                Archived, Archiving, IsExpected, Call, CaseOf
<1>2. ASSUME NEW r \in Commands, Transaction(r) PROVE AInv'
    BY <1>2, TransactionStep
<1>3. ASSUME NEW c \in Clients, Work(c) PROVE AInv'
    <2>1. CASE ReadFile(c)
        BY <2>1, FinishStep DEF ReadFile
    <2> QED
        BY <1>3, <2>1, ReadSnapshotStep, ReadProjectionsStep, StartTimelineStep,
           ReadChainStep, ReadRevisionStep, GenerateStep, SealStep
        DEF Work
<1>4. ASSUME NEW c \in Clients, GenerateFails(c) PROVE AInv'
    BY <1>4, EndStep DEF GenerateFails, Write, store
<1>5. ASSUME NEW c \in Clients, Abandon(c) PROVE AInv'
    BY <1>5, EndStep DEF Abandon, store
<1> QED
    BY <1>1, <1>2, <1>3, <1>4, <1>5 DEF Next

THEOREM ArchiveInductive == Spec => []AInv
BY NextArchive, InitArchive, PTL DEF Spec

(* The snapshot in the bundle is the one that was sealed: for any number   *)
(* of cases, clients and competing requests no commit between Get and      *)
(* Mutate goes unnoticed.                                                  *)
THEOREM BundleIsSealed == Spec => []SealedIsBundled
<1>1. AInv => SealedIsBundled
    BY DEF AInv
<1> QED
    BY <1>1, ArchiveInductive, PTL

LEMMA ArchivedStays ==
    ASSUME RowsInv, NEW r, r.case \in Cases, Effect(r),
           r.event \in {"case.released", "case.archived"},
           NEW case \in Cases, Archived(case)
    PROVE  rows'[case] = rows[case] /\ projections'[case] = projections[case]
<1>1. case # r.case
    BY DEF Effect, Accepts, ReleaseEligible, CanMarkArchived, Archived
<1> QED
    BY <1>1 DEF Effect, RowsInv

LEMMA NextSealed ==
    ASSUME AInv, Next, NEW case \in Cases, Archived(case)
    PROVE  rows'[case] = rows[case] /\ projections'[case] = projections[case]
<1>1. ASSUME NEW r \in Commands, Transaction(r)
      PROVE  rows'[case] = rows[case] /\ projections'[case] = projections[case]
    BY <1>1, MutateRows, ArchivedStays, CommandsAssumption DEF Transaction, AInv
<1>2. ASSUME NEW c \in Clients, Seal(c)
      PROVE  rows'[case] = rows[case] /\ projections'[case] = projections[case]
    <2> DEFINE r == SealRequest(c)
    <2>1. Call(c) \in Calls[c] /\ Call(c).kind = "archive"
        BY <1>2 DEF Seal, AInv, ClientsInv
    <2>2. r.case \in Cases /\ r.event = "case.archived"
        BY <2>1, CallsAssumption DEF SealRequest
    <2> HIDE DEF r
    <2>3. Effect(r) \/ UNCHANGED <<rows, projections>>
        BY <1>2, MutateRows DEF Seal, r
    <2> QED
        BY <2>2, <2>3, ArchivedStays DEF AInv
<1>3. ASSUME NEW c \in Clients, Work(c), ~Seal(c) PROVE UNCHANGED <<rows, projections>>
    BY <1>3 DEF Work, ReadSnapshot, ReadProjections, StartTimeline, LoadEvents, LoadChain,
                ReadRevision, Generate, ReadFile, Advance, Finish, store
<1>4. ASSUME NEW c \in Clients, GenerateFails(c) \/ Abandon(c)
      PROVE  UNCHANGED <<rows, projections>>
    BY <1>4 DEF GenerateFails, Abandon, store
<1> QED
    BY <1>1, <1>2, <1>3, <1>4 DEF Next

(* An archived case never changes again, whoever sends what to it.         *)
THEOREM SealingIsFinal == Spec => SealedForGood
<1>1. AInv /\ [Next]_vars =>
         [\A case \in Cases : Archived(case) =>
             rows'[case] = rows[case] /\ projections'[case] = projections[case]]_vars
    BY NextSealed
<1> QED
    BY <1>1, ArchiveInductive, PTL DEF Spec, SealedForGood

-----------------------------------------------------------------------------
(* The audit chain.                                                        *)

ChainEvent == [sequence : Nat, revision : Nat, case : Cases, type : Types,
               request : Ids, previous : Hash, hash : Hash]

\* What a case is to verifyAll, with the types of the chain.
Ledger(case) ==
    /\ audit[case] \in Seq(ChainEvent)
    /\ Store!AuditMatches(audit[case], rows[case].revision)
    /\ ValidateSnapshot(rows[case].item)
    /\ projections[case] = rows[case].item

LedgerInv ==
    /\ DOMAIN audit = Cases
    /\ \A case \in Cases : Ledger(case)

LEMMA ChainHeadType ==
    ASSUME NEW events \in Seq(ChainEvent) PROVE Store!ChainHead(events) \in Hash
<1>1. CASE events = <<>>
    BY <1>1 DEF Store!ChainHead, Hash
<1>2. CASE events # <<>>
    <2>1. Len(events) \in 1..Len(events)
        BY <1>2, EmptySeq
    <2>2. events[Len(events)] \in ChainEvent
        BY <2>1, ElementOfSeq
    <2> QED
        BY <1>2, <2>2 DEF Store!ChainHead, ChainEvent
<1> QED
    BY <1>1, <1>2

LEMMA LedgerEventType ==
    ASSUME NEW events \in Seq(ChainEvent), NEW case \in Cases, NEW revision \in Nat,
           NEW type \in Types, NEW request \in Ids
    PROVE  /\ Store!NextEvent(events, case, revision, type, request) \in ChainEvent
           /\ \E link \in Nat \X Nat \X Cases \X Types \X Ids :
                 Store!NextEvent(events, case, revision, type, request).hash =
                     Append(Store!ChainHead(events), link)
<1> DEFINE previous == Store!ChainHead(events)
           sequence == IF events = <<>> THEN 1 ELSE events[Len(events)].sequence + 1
           link == <<sequence, revision, case, type, request>>
<1>1. previous \in Hash
    BY ChainHeadType
<1>2. sequence \in Nat
    <2>1. CASE events # <<>>
        <3>1. Len(events) \in 1..Len(events)
            BY <2>1, EmptySeq
        <3>2. events[Len(events)] \in ChainEvent
            BY <3>1, ElementOfSeq
        <3> QED
            BY <2>1, <3>2 DEF ChainEvent
    <2> QED
        BY <2>1
<1> HIDE DEF previous, sequence
<1>3. link \in Nat \X Nat \X Cases \X Types \X Ids
    BY <1>2
<1>4. Append(previous, link) \in Hash
    <2> HIDE DEF link
    <2> QED BY <1>1, <1>3, AppendProperties DEF Hash
<1>5. Store!NextEvent(events, case, revision, type, request)
      = [sequence |-> sequence, revision |-> revision, case |-> case, type |-> type,
         request |-> request, previous |-> previous, hash |-> Append(previous, link)]
    BY DEF Store!NextEvent, Store!HashEvent, previous, sequence
<1> HIDE DEF link
<1>6. Store!NextEvent(events, case, revision, type, request) \in ChainEvent
    BY <1>1, <1>2, <1>4, <1>5 DEF ChainEvent
<1>7. Store!NextEvent(events, case, revision, type, request).hash = Append(previous, link)
    BY <1>5
<1> QED
    BY <1>3, <1>6, <1>7 DEF previous

(* The chain stays verifiable when the next event carries the revision of  *)
(* the last one or the one after it.                                       *)
LEMMA LedgerGrows ==
    ASSUME NEW events \in Seq(ChainEvent), Store!verifyEvents(events),
           NEW case \in Cases, NEW revision \in Nat, NEW type \in Types, NEW request \in Ids,
           IF events = <<>> THEN revision = 1
           ELSE revision \in {events[Len(events)].revision, events[Len(events)].revision + 1}
    PROVE  LET grown == Append(events, Store!NextEvent(events, case, revision, type, request))
           IN  /\ grown \in Seq(ChainEvent) /\ Store!AuditMatches(grown, revision)
               /\ Len(grown) = Len(events) + 1
               /\ \E link \in Nat \X Nat \X Cases \X Types \X Ids :
                     Store!ChainHead(grown) = Append(Store!ChainHead(events), link)
<1> DEFINE e == Store!NextEvent(events, case, revision, type, request)
           grown == Append(events, e)
           n == Len(events)
<1>1. e \in ChainEvent /\ \E link \in Nat \X Nat \X Cases \X Types \X Ids :
                             e.hash = Append(Store!ChainHead(events), link)
    BY LedgerEventType
<1>2. n \in Nat /\ DOMAIN events = 1..n
    BY LenProperties
<1>3. /\ e.revision = revision /\ e.previous = Store!ChainHead(events)
      /\ e.case = case /\ e.type = type /\ e.request = request
      /\ e.hash = Store!HashEvent(e.previous, e.sequence, revision, case, type, request)
      /\ e.sequence = IF events = <<>> THEN 1 ELSE events[n].sequence + 1
    BY DEF Store!NextEvent
<1>4. e.sequence = n + 1
    <2>1. CASE events = <<>>
        BY <2>1, <1>3
    <2>2. CASE events # <<>>
        <3>1. n \in DOMAIN events
            BY <2>2, <1>2, EmptySeq
        <3>2. events[n].sequence = n
            BY <3>1 DEF Store!verifyEvents
        <3> QED
            BY <2>2, <3>2, <1>3
    <2> QED
        BY <2>1, <2>2
<1> HIDE DEF e
<1>5. /\ grown \in Seq(ChainEvent) /\ Len(grown) = n + 1 /\ DOMAIN grown = 1..(n + 1)
      /\ \A i \in 1..n : grown[i] = events[i]
      /\ grown[n + 1] = e
    BY <1>1, <1>2, AppendProperties
<1> HIDE DEF grown
<1>6. ASSUME NEW i \in 1..(n + 1)
      PROVE  /\ grown[i].sequence = i
             /\ grown[i].revision \in {Store!RevisionBefore(grown, i),
                                       Store!RevisionBefore(grown, i) + 1}
             /\ grown[i].previous = Store!HashBefore(grown, i)
             /\ grown[i].hash = Store!HashEvent(grown[i].previous, i, grown[i].revision,
                                                grown[i].case, grown[i].type, grown[i].request)
    <2>1. CASE i \in 1..n
        <3>1. Store!RevisionBefore(grown, i) = Store!RevisionBefore(events, i)
              /\ Store!HashBefore(grown, i) = Store!HashBefore(events, i)
            BY <2>1, <1>2, <1>5 DEF Store!RevisionBefore, Store!HashBefore
        <3> QED
            BY <2>1, <3>1, <1>2, <1>5 DEF Store!verifyEvents
    <2>2. CASE i = n + 1
        <3>1. CASE events = <<>>
            BY <3>1, <2>2, <1>3, <1>4, <1>5
            DEF Store!RevisionBefore, Store!HashBefore, Store!ChainHead
        <3>2. CASE events # <<>>
            <4>1. n >= 1 /\ i # 1 /\ i - 1 = n
                BY <3>2, <2>2, <1>2, EmptySeq
            <4>2. Store!RevisionBefore(grown, i) = events[n].revision
                  /\ Store!HashBefore(grown, i) = events[n].hash
                BY <4>1, <1>2, <1>5 DEF Store!RevisionBefore, Store!HashBefore
            <4> QED
                BY <4>2, <3>2, <2>2, <1>3, <1>4, <1>5 DEF Store!ChainHead
        <3> QED
            BY <3>1, <3>2
    <2> QED
        BY <2>1, <2>2, <1>2
<1>7. Store!verifyEvents(grown)
    BY <1>5, <1>6 DEF Store!verifyEvents
<1>8. grown # <<>> /\ grown[Len(grown)].revision = revision
      /\ Store!ChainHead(grown) = e.hash
    BY <1>3, <1>5, <1>2, EmptySeq DEF Store!ChainHead
<1> QED
    BY <1>1, <1>5, <1>7, <1>8 DEF Store!AuditMatches, grown, e

\* The requests of the past leave a chain that matches the revision.
LEMMA PastChain ==
    ASSUME NEW case \in Cases
    PROVE  /\ PastEvents(case) \in Seq(ChainEvent)
           /\ Store!AuditMatches(PastEvents(case), Start[case].revision)
<1> DEFINE past == Past[case]
           n == Len(past)
           Next1(x, i) == Append(x, Store!NextEvent(x, case, i, past[i].event, past[i].id))
           step == [i \in 1..n |-> [x \in Seq(ChainEvent) |-> Next1(x, i)]]
           Equation(g) == g = [i \in 0..n |-> IF i = 0 THEN <<>> ELSE Next1(g[i - 1], i)]
           chain == CHOOSE g : Equation(g)
<1>1. n \in Nat \ {0} /\ n = Start[case].revision
    <2>1. Start[case].revision \in Nat \ {0}
        BY StartAssumption DEF Store!Row
    <2> QED
        BY <2>1, StartAssumption
<1>2. \A i \in 1..n : past[i].event \in Types /\ past[i].id \in Ids
    <2>1. ASSUME NEW i \in 1..n PROVE past[i] \in PastRequests
        <3>1. past \in Seq(Range(past)) /\ i \in 1..Len(past)
            BY StartAssumption
        <3>2. past[i] \in Range(past)
            BY <3>1, ElementOfSeq
        <3> QED
            BY <3>2 DEF PastRequests
    <2> QED
        BY <2>1 DEF Types, Ids
<1>3. PastEvents(case) = chain[n]
    BY DEF PastEvents
<1> HIDE DEF n, past
<1>4. ASSUME NEW i \in 1..n, NEW x \in Seq(ChainEvent)
      PROVE  Next1(x, i) \in Seq(ChainEvent)
    <2>1. i \in Nat
        BY <1>1
    <2>2. Store!NextEvent(x, case, i, past[i].event, past[i].id) \in ChainEvent
        BY <1>2, <2>1, LedgerEventType
    <2> QED
        BY <2>2, AppendProperties
<1>5. \A i \in 1..n : \A x \in Seq(ChainEvent) :
         step[i][x] = Next1(x, i) /\ step[i][x] \in Seq(ChainEvent)
    <2> HIDE DEF Next1
    <2> QED
        BY <1>4
<1>6. n \in Nat /\ <<>> \in Seq(ChainEvent)
    BY <1>1
<1> HIDE DEF step, Next1
<1>7. PICK g : IsRun(g, n, Seq(ChainEvent), <<>>, step)
    BY <1>5, <1>6, RecursionExists
<1>8. /\ g = [i \in 0..n |-> g[i]] /\ g[0] = <<>>
      /\ \A i \in 0..n : g[i] \in Seq(ChainEvent)
    BY <1>7 DEF IsRun
<1>9. \A i \in 1..n : g[i] = Next1(g[i - 1], i)
    <2>1. \A i \in 1..n : g[i] = step[i][g[i - 1]]
        BY <1>7 DEF IsRun
    <2>2. \A i \in 1..n : g[i - 1] \in Seq(ChainEvent)
        BY <1>1, <1>8
    <2> QED
        BY <1>5, <2>1, <2>2
<1>10. Equation(g)
    <2>1. \A i \in 0..n : g[i] = IF i = 0 THEN <<>> ELSE Next1(g[i - 1], i)
        BY <1>1, <1>8, <1>9
    <2> QED
        BY <1>8, <2>1
<1>11. Equation(chain)
    BY <1>10
<1> HIDE DEF chain
<1>12. chain[0] = <<>> /\ \A i \in 1..n : chain[i] = Next1(chain[i - 1], i)
    <2>1. \A i \in 0..n : chain[i] = IF i = 0 THEN <<>> ELSE Next1(chain[i - 1], i)
        BY <1>11
    <2> QED
        BY <1>1, <2>1
<1> DEFINE Good(s, i) == /\ s \in Seq(ChainEvent)
                         /\ IF i = 0 THEN s = <<>> ELSE Store!AuditMatches(s, i)
           T == {i \in 0..n : Good(chain[i], i)}
<1>13. 0 \in T
    <2>1. 0 \in 0..n
        BY <1>6
    <2>2. Good(chain[0], 0)
        BY <1>6, <1>12
    <2> QED
        BY <2>1, <2>2
<1>14. \A i \in 0..(n - 1) : i \in T => i + 1 \in T
    <2> SUFFICES ASSUME NEW i \in 0..(n - 1), i \in T PROVE i + 1 \in T
        OBVIOUS
    <2> DEFINE s == chain[i]
    <2>1. i + 1 \in 1..n /\ (i + 1) - 1 = i /\ i + 1 \in Nat /\ i + 1 \in 0..n /\ i + 1 # 0
        BY <1>1
    <2>2. chain[i + 1] = Next1(s, i + 1)
        BY <1>12, <2>1
    <2>3. Good(s, i)
        OBVIOUS
    <2>4. past[i + 1].event \in Types /\ past[i + 1].id \in Ids
        BY <1>2, <2>1
    <2> HIDE DEF s
    <2>5. s \in Seq(ChainEvent) /\ Store!verifyEvents(s)
        BY <2>3 DEF Store!AuditMatches, Store!verifyEvents
    <2>6. IF s = <<>> THEN i + 1 = 1
          ELSE i + 1 \in {s[Len(s)].revision, s[Len(s)].revision + 1}
        BY <2>3 DEF Store!AuditMatches
    <2>7. Good(Next1(s, i + 1), i + 1)
        BY <2>1, <2>4, <2>5, <2>6, LedgerGrows DEF Next1
    <2> QED
        BY <2>1, <2>2, <2>7
<1> HIDE DEF T
<1>15. 0..n \subseteq T
    BY <1>6, <1>13, <1>14, BoundedInduction
<1>16. n \in T
    BY <1>6, <1>15
<1> QED
    BY <1>1, <1>3, <1>16 DEF T

LEMMA InitLedger == Init => LedgerInv
<1> SUFFICES ASSUME Init PROVE LedgerInv
    OBVIOUS
<1>1. DOMAIN audit = Cases
    BY DEF Init
<1>2. ASSUME NEW case \in Cases PROVE Ledger(case)
    <2>1. audit[case] = PastEvents(case) /\ rows[case] = Start[case]
          /\ projections[case] = Start[case].item
        BY DEF Init
    <2> QED
        BY <2>1, PastChain, StartAssumption DEF Ledger
<1> QED
    BY <1>1, <1>2 DEF LedgerInv

-----------------------------------------------------------------------------
(* What transactions do to the tables.                                     *)

\* A request the components of which the chain has types for.
Proper(r) ==
    /\ r.case \in Cases /\ r.id \in Ids /\ r.event \in Types
    /\ r.event \in {"case.released", "case.archived"}
    /\ r.event \in Store!RefusalEvents => Store!RefusalOf(r.event) \in Types

\* The command of r takes effect and is put on record.
Writes(r) ==
    /\ Effect(r)
    /\ ValidateSnapshot(Result(rows[r.case].item, r))
    /\ Store!AppendAudit(r.case, rows[r.case].revision + 1, r.event, r.id)

\* The refusal of r is put on record.
Refuses(r) ==
    /\ UNCHANGED <<rows, projections>>
    /\ r.expected = rows[r.case].revision /\ r.event \in Store!RefusalEvents
    /\ Store!AppendAudit(r.case, rows[r.case].revision, Store!RefusalOf(r.event), r.id)

LEMMA MutateTables ==
    ASSUME NEW r, Store!Mutate(r)
    PROVE  Writes(r) \/ Refuses(r) \/ UNCHANGED <<rows, projections, audit>>
<1>1. CASE Store!Apply(r)
    BY <1>1 DEF Store!Apply, Store!Current, Store!Commit, Effect, Writes
<1>2. CASE Store!Replay(r) \/ Store!Reused(r) \/ Store!UnknownCase(r)
    BY <1>2 DEF Store!Replay, Store!Reused, Store!UnknownCase, Store!Refuse
<1>3. CASE Store!StaleRevision(r) \/ Store!RefuseSilently(r) \/ Store!RefuseUnsound(r)
    BY <1>3 DEF Store!StaleRevision, Store!RefuseSilently, Store!RefuseUnsound, Store!Refuse
<1>4. CASE Store!RefuseAudited(r)
    BY <1>4 DEF Store!RefuseAudited, Store!Current, Refuses
<1> QED
    BY <1>1, <1>2, <1>3, <1>4 DEF Store!Mutate

LEMMA RequestIsProper ==
    ASSUME NEW r \in Requests, r.case \in Cases, r.event \in {"case.released", "case.archived"}
    PROVE  Proper(r)
<1>1. r.id \in Ids /\ r.event \in Types
    BY DEF Ids, Types, Store!RequestIds, Store!EventTypes
<1>2. r.event \in Store!RefusalEvents => Store!RefusalOf(r.event) \in Types
    BY DEF Types, Store!EventTypes, Store!Refusals
<1> QED
    BY <1>1, <1>2 DEF Proper

LEMMA CommandIsProper ==
    ASSUME NEW r \in Commands PROVE Proper(r)
BY CommandsAssumption, RequestIsProper DEF Requests

\* The request of a sealing is the call's with a manifest.
LEMMA SealIsProper ==
    ASSUME AInv, NEW c \in Clients, Seal(c)
    PROVE  /\ Proper(SealRequest(c)) /\ CaseOf(c) \in Cases
           /\ Call(c) \in Calls[c] /\ Call(c).kind = "archive"
           /\ SealRequest(c).event = "case.archived"
           /\ SealRequest(c).case = CaseOf(c)
           /\ SealRequest(c).expected = Call(c).request.expected
           /\ SealRequest(c).manifest = local[c].manifest
<1> DEFINE q == Call(c).request
<1>1. Call(c) \in Calls[c] /\ Call(c).kind = "archive"
    BY DEF Seal, AInv, ClientsInv
<1>2. /\ q.case \in Cases /\ q.event = "case.archived"
      /\ {"id", "case", "event", "expected"} \subseteq DOMAIN q
    BY <1>1, CallsAssumption
<1>3. q \in Requests
    BY <1>1 DEF Requests, Sealing
<1>4. Proper(q)
    BY <1>2, <1>3, RequestIsProper
<1>5. /\ SealRequest(c).event = q.event /\ SealRequest(c).case = q.case
      /\ SealRequest(c).id = q.id /\ SealRequest(c).expected = q.expected
      /\ SealRequest(c).manifest = local[c].manifest
    BY <1>2 DEF SealRequest
<1>6. Proper(SealRequest(c))
    BY <1>4, <1>5 DEF Proper
<1> QED
    BY <1>1, <1>2, <1>5, <1>6 DEF CaseOf

\* Every step leaves the tables alone or is a transaction of a request.
LEMMA TablesStep ==
    ASSUME AInv, [Next]_vars
    PROVE  \/ UNCHANGED <<rows, projections, audit>>
           \/ \E r : Proper(r) /\ (Writes(r) \/ Refuses(r))
<1>1. CASE UNCHANGED vars
    BY <1>1 DEF vars
<1>2. ASSUME NEW r \in Commands, Transaction(r)
      PROVE  \/ UNCHANGED <<rows, projections, audit>>
             \/ Proper(r) /\ (Writes(r) \/ Refuses(r))
    BY <1>2, MutateTables, CommandIsProper DEF Transaction
<1>3. ASSUME NEW c \in Clients, Seal(c)
      PROVE  \/ UNCHANGED <<rows, projections, audit>>
             \/ Proper(SealRequest(c)) /\ (Writes(SealRequest(c)) \/ Refuses(SealRequest(c)))
    <2>1. Store!Mutate(SealRequest(c))
        BY <1>3 DEF Seal
    <2> QED
        BY <1>3, <2>1, MutateTables, SealIsProper
<1>4. ASSUME NEW c \in Clients, Work(c), ~Seal(c)
      PROVE  UNCHANGED <<rows, projections, audit>>
    BY <1>4 DEF Work, ReadSnapshot, ReadProjections, StartTimeline, LoadEvents, LoadChain,
                ReadRevision, Generate, ReadFile, Advance, Finish, store
<1>5. ASSUME NEW c \in Clients, GenerateFails(c) \/ Abandon(c)
      PROVE  UNCHANGED <<rows, projections, audit>>
    BY <1>5 DEF GenerateFails, Abandon, store
<1> QED
    BY <1>1, <1>2, <1>3, <1>4, <1>5 DEF Next

\* The timeline of a case stays or gets one more event.
TimelineMoves(case) ==
    /\ Events(case) \in Hash
    /\ \/ audit'[case] = audit[case]
       \/ \E link \in Nat \X Nat \X Cases \X Types \X Ids :
             Events(case)' = Append(Events(case), link)

LEMMA LedgerStep ==
    ASSUME AInv, LedgerInv, [Next]_vars
    PROVE  LedgerInv' /\ \A case \in Cases : TimelineMoves(case)
<1>1. \A case \in Cases : Events(case) \in Hash
    BY ChainHeadType DEF LedgerInv, Ledger, Events
<1>2. CASE UNCHANGED <<rows, projections, audit>>
    BY <1>1, <1>2 DEF LedgerInv, Ledger, TimelineMoves
<1>3. ASSUME NEW r, Proper(r), Writes(r) \/ Refuses(r)
      PROVE  LedgerInv' /\ \A case \in Cases : TimelineMoves(case)
    <2> DEFINE k == r.case
               revision == IF Writes(r) THEN rows[k].revision + 1 ELSE rows[k].revision
               type == IF Writes(r) THEN r.event ELSE Store!RefusalOf(r.event)
               grown == Append(audit[k], Store!NextEvent(audit[k], k, revision, type, r.id))
    <2>1. /\ k \in Cases /\ r.id \in Ids /\ type \in Types
          /\ rows[k].revision \in Nat /\ revision \in Nat
        BY <1>3 DEF Proper, Refuses, AInv, RowsInv
    <2>2. Ledger(k) /\ DOMAIN audit = Cases
        BY <2>1 DEF LedgerInv
    <2>3. audit' = [audit EXCEPT ![k] = grown]
        BY <1>3 DEF Writes, Refuses, Store!AppendAudit
    <2>4. /\ audit[k] \in Seq(ChainEvent) /\ Store!verifyEvents(audit[k])
          /\ audit[k] # <<>> /\ audit[k][Len(audit[k])].revision = rows[k].revision
        BY <2>2 DEF Ledger, Store!AuditMatches
    <2>5. revision \in {rows[k].revision, rows[k].revision + 1}
        OBVIOUS
    <2>6. rows'[k].revision = revision
        BY <1>3, <2>1 DEF Writes, Refuses, Effect, AInv, RowsInv
    <2>7. /\ ValidateSnapshot(rows'[k].item) /\ projections'[k] = rows'[k].item
        BY <1>3, <2>1, <2>2 DEF Writes, Refuses, Effect, AInv, RowsInv, Ledger
    <2>8. \A case \in Cases \ {k} : /\ rows'[case] = rows[case]
                                    /\ projections'[case] = projections[case]
        BY <1>3 DEF Writes, Refuses, Effect, AInv, RowsInv
    <2> HIDE DEF revision, type
    <2>9. /\ grown \in Seq(ChainEvent) /\ Store!AuditMatches(grown, revision)
          /\ \E link \in Nat \X Nat \X Cases \X Types \X Ids :
                Store!ChainHead(grown) = Append(Store!ChainHead(audit[k]), link)
        BY <2>1, <2>4, <2>5, LedgerGrows
    <2> HIDE DEF grown
    <2>10. /\ audit'[k] = grown /\ DOMAIN audit' = Cases
           /\ \A case \in Cases \ {k} : audit'[case] = audit[case]
        BY <2>1, <2>2, <2>3
    <2>11. Ledger(k)'
        BY <2>6, <2>7, <2>9, <2>10 DEF Ledger
    <2>12. \A case \in Cases \ {k} : Ledger(case)'
        BY <2>8, <2>10 DEF Ledger, LedgerInv
    <2>13. \A case \in Cases : TimelineMoves(case)
        BY <1>1, <2>9, <2>10 DEF TimelineMoves, Events
    <2> QED
        BY <2>10, <2>11, <2>12, <2>13 DEF LedgerInv
<1> QED
    BY <1>2, <1>3, TablesStep

THEOREM LedgerIsSound == Spec => []LedgerInv
<1>1. AInv /\ LedgerInv /\ [Next]_vars => LedgerInv'
    BY LedgerStep
<1> QED
    BY <1>1, InitLedger, ArchiveInductive, PTL DEF Spec

(* The database can be opened again after any interleaving of reads,       *)
(* signatures, sealings and breakdowns: verifyAll accepts every case.      *)
THEOREM DatabaseStaysSound == Spec => []DatabaseSound
<1>1. LedgerInv => DatabaseSound
    BY DEF LedgerInv, Ledger, DatabaseSound, Store!BootAccepts, Store!CaseVerified
<1> QED
    BY <1>1, LedgerIsSound, PTL

-----------------------------------------------------------------------------
(* Types.                                                                  *)

\* The constant Manifests has the manifest of every bundle.
ManifestsFit == \A b \in Bundle : ManifestOf(b) \in Manifests

ClientTyped(c) ==
    /\ local[c].events \in Hash /\ local[c].head \in Hash
    /\ Archiving(c) => local[c].row \in Store!Row
    /\ pc[c] = "seal" => local[c].manifest \in Manifests

TypeInv == /\ TypeOK /\ IsFiniteSet(made)
           /\ \A c \in Clients : ClientTyped(c)

\* The client that moves keeps its types when what it has now is typed.
LEMMA ClientsTyped ==
    ASSUME AInv, TypeInv, NEW c \in Clients, NEW place \in Places, NEW now,
           Goto(c, place, now), now.events \in Hash, now.head \in Hash,
           place # "idle" /\ now.call.kind = "archive" => now.row \in Store!Row,
           place = "seal" => now.manifest \in Manifests
    PROVE  pc' \in [Clients -> Places] /\ \A d \in Clients : ClientTyped(d)'
<1>1. /\ pc'[c] = place /\ local'[c] = now
      /\ \A d \in Clients \ {c} : pc'[d] = pc[d] /\ local'[d] = local[d]
    BY DEF Goto, AInv, ClientsInv
<1>2. pc' \in [Clients -> Places]
    BY DEF Goto, TypeInv, TypeOK
<1>3. ClientTyped(c)'
    BY <1>1 DEF ClientTyped, Archiving, Call
<1>4. \A d \in Clients \ {c} : ClientTyped(d)'
    BY <1>1 DEF TypeInv, ClientTyped, Archiving, Call
<1> QED
    BY <1>2, <1>3, <1>4

LEMMA BlankTyped ==
    Blank.events \in Hash /\ Blank.head \in Hash
BY DEF Blank, Hash

\* A step of a client that leaves the tables and the files alone.
LEMMA QuietTypes ==
    ASSUME AInv, AInv', TypeInv, NEW c \in Clients, NEW place \in Places, NEW now,
           Goto(c, place, now), now.events \in Hash, now.head \in Hash,
           place # "idle" /\ now.call.kind = "archive" => now.row \in Store!Row,
           place = "seal" => now.manifest \in Manifests,
           UNCHANGED <<rows, projections, files, made>>, faults' \in 0..MaxFaults
    PROVE  TypeInv'
<1>1. pc' \in [Clients -> Places] /\ \A d \in Clients : ClientTyped(d)'
    BY ClientsTyped
<1>2. \A d \in Clients : pc'[d] # "idle" => Call(d)' \in Calls[d]
    BY DEF AInv, ClientsInv
<1> QED
    BY <1>1, <1>2 DEF TypeInv, TypeOK

LEMMA FinishTypes ==
    ASSUME AInv, AInv', TypeInv, NEW c \in Clients, NEW kind, Finish(c, kind)
    PROVE  TypeInv'
<1>1. /\ Goto(c, "idle", Blank) /\ UNCHANGED <<rows, projections, files, made>>
      /\ faults' \in 0..MaxFaults
    BY DEF Finish, TypeInv, TypeOK
<1>2. "idle" \in Places
    BY DEF Places
<1> HIDE DEF Blank
<1> QED
    BY <1>1, <1>2, BlankTyped, QuietTypes

\* Going on with what was read before.
LEMMA AdvanceTypes ==
    ASSUME AInv, AInv', TypeInv, NEW c \in Clients, NEW place \in Places \ {"idle", "seal"},
           NEW now, Advance(c, place, now), pc[c] # "idle",
           now.events \in Hash, now.head \in Hash,
           now.call = local[c].call, now.row = local[c].row
    PROVE  TypeInv'
<1>1. /\ Goto(c, place, now) /\ UNCHANGED <<rows, projections, files, made>>
      /\ faults' \in 0..MaxFaults
    BY DEF Advance, TypeInv, TypeOK, store
<1>2. now.call.kind = "archive" => now.row \in Store!Row
    BY DEF TypeInv, ClientTyped, Archiving, Call
<1> QED
    BY <1>1, <1>2, QuietTypes

LEMMA ReadTypes ==
    ASSUME AInv, AInv', TypeInv, LedgerInv, NEW c \in Clients,
           \/ ReadSnapshot(c) \/ ReadProjections(c) \/ StartTimeline(c)
           \/ LoadEvents(c) \/ LoadChain(c) \/ ReadRevision(c)
    PROVE  TypeInv'
<1>1. \A case \in Cases : Events(case) \in Hash
    BY ChainHeadType DEF LedgerInv, Ledger, Events
<1>2. DOMAIN local[c] = {"call", "row", "events", "head", "manifest"}
      /\ local[c].events \in Hash /\ local[c].head \in Hash
    BY DEF AInv, ClientsInv, TypeInv, ClientTyped
<1>3. pc[c] # "idle" => CaseOf(c) \in Cases
    BY CallsAssumption DEF AInv, ClientsInv, CaseOf
<1>4. CASE ReadSnapshot(c)
    <2> PICK call \in Calls[c] :
            Advance(c, "projections",
                    [Blank EXCEPT !.call = call, !.row = rows[call.request.case]])
        BY <1>4 DEF ReadSnapshot
    <2> DEFINE now == [Blank EXCEPT !.call = call, !.row = rows[call.request.case]]
    <2>1. /\ now.events = Blank.events /\ now.head = Blank.head
          /\ now.row = rows[call.request.case]
        BY DEF Blank
    <2>2. now.row \in Store!Row
        BY <2>1, CallsAssumption DEF TypeInv, TypeOK
    <2> HIDE DEF now
    <2>3. /\ Goto(c, "projections", now) /\ UNCHANGED <<rows, projections, files, made>>
          /\ faults' \in 0..MaxFaults
        BY DEF Advance, TypeInv, TypeOK, store, now
    <2>4. "projections" \in Places
        BY DEF Places
    <2> QED
        BY <2>1, <2>2, <2>3, <2>4, BlankTyped, QuietTypes
<1>5. CASE StartTimeline(c)
    <2> PICK call \in Calls[c] :
            /\ call.kind = "timeline"
            /\ Advance(c, "chain", [Blank EXCEPT !.call = call,
                                                 !.events = Events(call.request.case)])
        BY <1>5 DEF StartTimeline
    <2> DEFINE now == [Blank EXCEPT !.call = call, !.events = Events(call.request.case)]
    <2>1. /\ now.events = Events(call.request.case) /\ now.head = Blank.head
          /\ now.call = call
        BY DEF Blank
    <2>2. now.events \in Hash /\ now.call.kind # "archive"
        BY <1>1, <2>1, CallsAssumption
    <2> HIDE DEF now
    <2>3. /\ Goto(c, "chain", now) /\ UNCHANGED <<rows, projections, files, made>>
          /\ faults' \in 0..MaxFaults
        BY DEF Advance, TypeInv, TypeOK, store, now
    <2>4. "chain" \in Places
        BY DEF Places
    <2> QED
        BY <2>1, <2>2, <2>3, <2>4, BlankTyped, QuietTypes
<1>6. CASE LoadEvents(c)
    <2> DEFINE now == [local[c] EXCEPT !.events = Events(CaseOf(c))]
    <2>1. /\ now.call = local[c].call /\ now.row = local[c].row
          /\ now.events = Events(CaseOf(c)) /\ now.head = local[c].head
        BY <1>2
    <2>2. Advance(c, "chain", now) /\ pc[c] # "idle"
        BY <1>6 DEF LoadEvents, CaseOf
    <2>3. "chain" \in Places \ {"idle", "seal"}
        BY DEF Places
    <2> HIDE DEF now
    <2> QED
        BY <1>1, <1>2, <1>3, <2>1, <2>2, <2>3, AdvanceTypes
<1>7. CASE LoadChain(c)
    <2> DEFINE now == [local[c] EXCEPT !.head = Events(CaseOf(c))]
               place == IF pc[c] = "chain" THEN "chainRevision" ELSE "headRevision"
    <2>1. /\ now.call = local[c].call /\ now.row = local[c].row
          /\ now.events = local[c].events /\ now.head = Events(CaseOf(c))
        BY <1>2
    <2>2. Advance(c, place, now) /\ pc[c] # "idle"
        BY <1>7 DEF LoadChain, CaseOf
    <2>3. place \in Places \ {"idle", "seal"}
        BY DEF Places
    <2> HIDE DEF now, place
    <2> QED
        BY <1>1, <1>2, <1>3, <2>1, <2>2, <2>3, AdvanceTypes
<1>8. CASE ReadProjections(c) \/ ReadRevision(c)
    <2>1. pc[c] # "idle" /\ {"file", "events", "generate", "head"} \subseteq Places
        BY <1>8 DEF ReadProjections, ReadRevision, Places
    <2>2. ASSUME NEW place \in {"file", "events", "generate", "head"},
                 Advance(c, place, local[c])
          PROVE  TypeInv'
        BY <1>2, <2>1, <2>2, AdvanceTypes
    <2> QED
        BY <1>8, <2>2, FinishTypes DEF ReadProjections, ReadRevision
<1> QED
    BY <1>4, <1>5, <1>6, <1>7, <1>8

\* What Generate writes.
LEMMA BundleType ==
    ASSUME AInv, TypeInv, NEW c \in Clients, pc[c] = "generate"
    PROVE  MakeBundle(CaseOf(c), local[c]) \in Bundle
<1>1. local[c].row \in Store!Row /\ CaseOf(c) \in Cases
    BY CallsAssumption DEF AInv, ClientsInv, TypeInv, ClientTyped, Archiving, CaseOf
<1>2. local[c].events \in Hash /\ local[c].head \in Hash
    BY DEF TypeInv, ClientTyped
<1>3. Cardinality(made) + 1 \in Nat
    BY FS_CardinalityType DEF TypeInv
<1>4. local[c].row.item \in Case /\ local[c].row.revision \in Nat
    BY <1>1 DEF Store!Row
<1> HIDE DEF Case, Hash
<1> QED
    BY <1>1, <1>2, <1>3, <1>4 DEF MakeBundle, Bundle

LEMMA GenerateTypes ==
    ASSUME ManifestsFit, AInv, AInv', TypeInv, NEW c \in Clients,
           Generate(c) \/ GenerateFails(c)
    PROVE  TypeInv'
<1> DEFINE bundle == MakeBundle(CaseOf(c), local[c])
<1>1. pc[c] = "generate" /\ Write(CaseOf(c), bundle) /\ UNCHANGED <<rows, projections>>
    BY DEF Generate, GenerateFails, store, CaseOf
<1>2. bundle \in Bundle /\ ManifestOf(bundle) \in Manifests
    BY <1>1, BundleType DEF ManifestsFit
<1>3. faults' \in 0..MaxFaults
    BY FaultsAssumption DEF Generate, GenerateFails, TypeInv, TypeOK
<1>4. pc' \in [Clients -> Places] /\ \A d \in Clients : ClientTyped(d)'
    <2>1. CASE Generate(c)
        <3> DEFINE now == [local[c] EXCEPT !.manifest = ManifestOf(bundle)]
        <3>1. Goto(c, "seal", now)
            BY <2>1 DEF Generate, CaseOf
        <3>2. DOMAIN local[c] = {"call", "row", "events", "head", "manifest"}
              /\ local[c].events \in Hash /\ local[c].head \in Hash
            BY DEF AInv, ClientsInv, TypeInv, ClientTyped
        <3>3. /\ now.call = local[c].call /\ now.row = local[c].row
              /\ now.events = local[c].events /\ now.head = local[c].head
              /\ now.manifest = ManifestOf(bundle)
            BY <3>2
        <3>4. now.call.kind = "archive" => now.row \in Store!Row
            BY <1>1, <3>3 DEF TypeInv, ClientTyped, Archiving, Call
        <3>5. "seal" \in Places
            BY DEF Places
        <3> HIDE DEF now, bundle
        <3> QED
            BY <1>2, <3>1, <3>2, <3>3, <3>4, <3>5, ClientsTyped
    <2>2. CASE GenerateFails(c)
        <3>1. Goto(c, "idle", Blank) /\ "idle" \in Places
            BY <2>2 DEF GenerateFails, Places
        <3> HIDE DEF Blank
        <3> QED
            BY <3>1, BlankTyped, ClientsTyped
    <2> QED
        BY <2>1, <2>2
<1> HIDE DEF bundle
<1>5. files' \in [Cases -> Bundle \cup {NoFile}] /\ made' \subseteq Bundle /\ IsFiniteSet(made')
    BY <1>1, <1>2, FS_AddElement DEF Write, TypeInv, TypeOK
<1>6. \A d \in Clients : pc'[d] # "idle" => Call(d)' \in Calls[d]
    BY DEF AInv, ClientsInv
<1> QED
    BY <1>1, <1>3, <1>4, <1>5, <1>6 DEF TypeInv, TypeOK

\* A command on a typed case, with a typed signer or manifest.
LEMMA WriteTypes ==
    ASSUME rows \in [Cases -> Store!Row], projections \in [Cases -> Case],
           NEW r, r.case \in Cases, Effect(r),
           \/ r.event = "case.released" /\ r.actor \in Actors
           \/ r.event = "case.archived" /\ r.manifest \in Manifests
    PROVE  rows' \in [Cases -> Store!Row] /\ projections' \in [Cases -> Case]
<1> DEFINE item == rows[r.case].item
<1>1. rows[r.case] \in Store!Row
    OBVIOUS
<1>2. item \in Case /\ rows[r.case].revision \in Nat \ {0}
    BY <1>1 DEF Store!Row
<1>3. Result(item, r) \in Case
    <2> HIDE DEF item
    <2>1. CASE r.event = "case.released"
        BY <1>2, <2>1 DEF Result, ReleaseCase, Case, States
    <2>2. CASE r.event = "case.archived"
        BY <1>2, <2>2 DEF Result, MarkArchived, Case, States
    <2> QED
        BY <2>1, <2>2
<1>4. [item |-> Result(item, r), revision |-> rows[r.case].revision + 1] \in Store!Row
    BY <1>2, <1>3 DEF Store!Row
<1> QED
    BY <1>3, <1>4 DEF Effect

LEMMA TransactionTypes ==
    ASSUME AInv, AInv', TypeInv, NEW r \in Commands, Transaction(r)
    PROVE  TypeInv'
<1>1. UNCHANGED <<files, made, pc, local, faults>>
      /\ (Effect(r) \/ UNCHANGED <<rows, projections>>)
    BY MutateRows DEF Transaction
<1>2. rows' \in [Cases -> Store!Row] /\ projections' \in [Cases -> Case]
    BY <1>1, WriteTypes, CommandsAssumption DEF TypeInv, TypeOK
<1> QED
    BY <1>1, <1>2 DEF TypeInv, TypeOK, ClientTyped, Archiving, Call

LEMMA SealTypes ==
    ASSUME AInv, AInv', TypeInv, NEW c \in Clients, Seal(c)
    PROVE  TypeInv'
<1> DEFINE r == SealRequest(c)
<1>1. /\ UNCHANGED <<files, made, faults>> /\ Goto(c, "idle", Blank)
      /\ Effect(r) \/ UNCHANGED <<rows, projections>>
    BY MutateRows DEF Seal
<1>2. r.case \in Cases /\ r.event = "case.archived" /\ r.manifest = local[c].manifest
    BY SealIsProper DEF Proper
<1>3. r.manifest \in Manifests
    BY <1>2 DEF Seal, TypeInv, ClientTyped
<1> HIDE DEF r
<1>4. rows' \in [Cases -> Store!Row] /\ projections' \in [Cases -> Case]
    BY <1>1, <1>2, <1>3, WriteTypes DEF TypeInv, TypeOK
<1>5. "idle" \in Places
    BY DEF Places
<1> HIDE DEF Blank
<1>6. pc' \in [Clients -> Places] /\ \A d \in Clients : ClientTyped(d)'
    BY <1>1, <1>5, BlankTyped, ClientsTyped
<1>7. \A d \in Clients : pc'[d] # "idle" => Call(d)' \in Calls[d]
    BY DEF AInv, ClientsInv
<1> QED
    BY <1>1, <1>4, <1>6, <1>7 DEF TypeInv, TypeOK

LEMMA NextTypes ==
    ASSUME ManifestsFit, AInv, AInv', LedgerInv, TypeInv, [Next]_vars
    PROVE  TypeInv'
<1>1. CASE UNCHANGED vars
    BY <1>1 DEF vars, TypeInv, TypeOK, ClientTyped, Archiving, Call
<1>2. ASSUME NEW c \in Clients, ReadFile(c) PROVE TypeInv'
    BY <1>2, FinishTypes DEF ReadFile
<1>3. ASSUME NEW c \in Clients, Abandon(c) PROVE TypeInv'
    <2>1. /\ Goto(c, "idle", Blank) /\ UNCHANGED <<rows, projections, files, made>>
          /\ "idle" \in Places
        BY <1>3 DEF Abandon, store, Places
    <2>2. faults' \in 0..MaxFaults
        BY <1>3, FaultsAssumption DEF Abandon, TypeInv, TypeOK
    <2> HIDE DEF Blank
    <2> QED
        BY <2>1, <2>2, BlankTyped, QuietTypes
<1> QED
    BY <1>1, <1>2, <1>3, TransactionTypes, ReadTypes, GenerateTypes, SealTypes DEF Next, Work

LEMMA InitTypes == Init => TypeInv
<1> SUFFICES ASSUME Init PROVE TypeInv
    OBVIOUS
<1>1. \A case \in Cases : Start[case] \in Store!Row /\ Start[case].item \in Case
    BY StartAssumption DEF Store!Row
<1>2. rows \in [Cases -> Store!Row] /\ projections \in [Cases -> Case]
    BY <1>1, StartAssumption DEF Init
<1>3. files \in [Cases -> Bundle \cup {NoFile}] /\ made \subseteq Bundle /\ IsFiniteSet(made)
    BY FS_EmptySet DEF Init
<1>4. pc \in [Clients -> Places] /\ faults \in 0..MaxFaults /\ \A c \in Clients : pc[c] = "idle"
    BY FaultsAssumption DEF Init, Places
<1>5. \A c \in Clients : ClientTyped(c)
    <2>1. \A c \in Clients : local[c] = Blank
        BY DEF Init
    <2> HIDE DEF Blank
    <2> QED
        BY <1>4, <2>1, BlankTyped DEF ClientTyped, Archiving
<1> QED
    BY <1>2, <1>3, <1>4, <1>5 DEF TypeInv, TypeOK

LEMMA TypesInductive == ASSUME ManifestsFit PROVE Spec => []TypeInv
<1>1. AInv /\ AInv' /\ LedgerInv /\ TypeInv /\ [Next]_vars => TypeInv'
    BY NextTypes
<1> QED
    BY <1>1, InitTypes, ArchiveInductive, LedgerIsSound, PTL DEF Spec

(* The tables, the files and what every goroutine has read so far hold     *)
(* what they are declared to hold.                                         *)
THEOREM ArchiveTypes == ASSUME ManifestsFit PROVE Spec => []TypeOK
<1>1. TypeInv => TypeOK
    BY DEF TypeInv
<1> QED
    BY <1>1, TypesInductive, PTL

-----------------------------------------------------------------------------
(* The evidence files and the timelines.                                   *)

FileInv(case) ==
    /\ files[case] # NoFile =>
          files[case].case = case /\ IsPrefix(files[case].events, Events(case))
    /\ Archived(case) => files[case] # NoFile

\* The events Archive has read are on the timeline, and once it has bundled
\* them there is a file.
ReaderInv(c) ==
    /\ pc[c] # "idle" => IsPrefix(local[c].events, Events(CaseOf(c)))
    /\ pc[c] = "seal" => files[CaseOf(c)] # NoFile

FilesInv == /\ \A case \in Cases : FileInv(case)
            /\ \A c \in Clients : ReaderInv(c)

LEMMA PrefixStays ==
    ASSUME NEW case \in Cases, TimelineMoves(case), NEW s \in Hash, IsPrefix(s, Events(case))
    PROVE  IsPrefix(s, Store!ChainHead(audit'[case]))
<1>1. CASE audit'[case] = audit[case]
    BY <1>1 DEF Events
<1>2. ASSUME NEW link \in Nat \X Nat \X Cases \X Types \X Ids,
             Events(case)' = Append(Events(case), link)
      PROVE  IsPrefix(s, Store!ChainHead(audit'[case]))
    <2> DEFINE L == Nat \X Nat \X Cases \X Types \X Ids
               t == Events(case)
    <2>1. s \in Seq(L) /\ t \in Seq(L) /\ link \in L /\ IsPrefix(s, t)
        BY DEF Hash, TimelineMoves
    <2>2. Store!ChainHead(audit'[case]) = Append(t, link)
        BY <1>2 DEF Events
    <2> HIDE DEF L, t
    <2> QED
        BY <2>1, <2>2, PrefixOfGrown
<1> QED
    BY <1>1, <1>2 DEF TimelineMoves

LEMMA FileType ==
    ASSUME TypeInv, NEW case \in Cases, files[case] # NoFile
    PROVE  files[case] \in Bundle /\ files[case].events \in Hash
<1>1. files[case] \in Bundle
    BY DEF TypeInv, TypeOK
<1> QED
    BY <1>1 DEF Bundle

LEMMA CallOnCase ==
    ASSUME AInv, NEW c \in Clients, pc[c] # "idle"
    PROVE  Call(c) \in Calls[c] /\ CaseOf(c) \in Cases
BY CallsAssumption DEF AInv, ClientsInv, CaseOf

\* The file of a case nobody writes stays what it was.
LEMMA FileStays ==
    ASSUME TypeInv, FilesInv, NEW case \in Cases, TimelineMoves(case),
           files'[case] = files[case], Archived(case)' => files[case] # NoFile
    PROVE  FileInv(case)'
<1>1. ASSUME files[case] # NoFile
      PROVE  IsPrefix(files[case].events, Store!ChainHead(audit'[case]))
    BY <1>1, FileType, PrefixStays DEF FilesInv, FileInv
<1> QED
    BY <1>1 DEF FilesInv, FileInv, Events

\* A client that does nothing keeps what it has read.
LEMMA ReaderStays ==
    ASSUME AInv, TypeInv, FilesInv, NEW c \in Clients,
           \A case \in Cases : TimelineMoves(case),
           \A case \in Cases : files[case] # NoFile => files'[case] # NoFile,
           pc'[c] = pc[c], local'[c] = local[c]
    PROVE  ReaderInv(c)'
<1>1. CaseOf(c)' = CaseOf(c)
    BY DEF CaseOf, Call
<1>2. ASSUME pc[c] # "idle"
      PROVE  /\ IsPrefix(local[c].events, Store!ChainHead(audit'[CaseOf(c)]))
             /\ pc[c] = "seal" => files'[CaseOf(c)] # NoFile
    <2>1. CaseOf(c) \in Cases
        BY <1>2, CallOnCase
    <2>2. local[c].events \in Hash
        BY DEF TypeInv, ClientTyped
    <2> QED
        BY <1>2, <2>1, <2>2, PrefixStays DEF FilesInv, ReaderInv
<1> QED
    BY <1>1, <1>2 DEF ReaderInv, Events

\* A client goes on with events that are on the timeline.
LEMMA ReaderMoves ==
    ASSUME AInv, TypeInv, FilesInv, \A case \in Cases : TimelineMoves(case),
           NEW c \in Clients, NEW place, NEW now, Goto(c, place, now),
           UNCHANGED <<rows, audit, files>>,
           place # "idle" => IsPrefix(now.events, Events(now.call.request.case)),
           place # "seal"
    PROVE  FilesInv'
<1>1. /\ pc'[c] = place /\ local'[c] = now
      /\ \A d \in Clients \ {c} : pc'[d] = pc[d] /\ local'[d] = local[d]
    BY DEF Goto, AInv, ClientsInv
<1>2. ReaderInv(c)'
    BY <1>1 DEF ReaderInv, CaseOf, Call, Events
<1>3. \A d \in Clients \ {c} : ReaderInv(d)'
    BY <1>1, ReaderStays
<1>4. \A case \in Cases : FileInv(case)'
    BY DEF FilesInv, FileInv, Archived, Events
<1> QED
    BY <1>2, <1>3, <1>4 DEF FilesInv

\* The same for a client that goes on with what it has.
LEMMA ReaderAdvances ==
    ASSUME AInv, TypeInv, FilesInv, \A case \in Cases : TimelineMoves(case),
           NEW c \in Clients, NEW place, NEW now, Advance(c, place, now), pc[c] # "idle",
           now.events = local[c].events, now.call = local[c].call, place # "seal"
    PROVE  FilesInv'
<1>1. Goto(c, place, now) /\ UNCHANGED <<rows, audit, files>>
    BY DEF Advance, store
<1>2. IsPrefix(now.events, Events(now.call.request.case))
    BY DEF FilesInv, ReaderInv, CaseOf, Call
<1> QED
    BY <1>1, <1>2, ReaderMoves

LEMMA ReaderEnds ==
    ASSUME AInv, TypeInv, FilesInv, \A case \in Cases : TimelineMoves(case),
           NEW c \in Clients, Goto(c, "idle", Blank), UNCHANGED <<rows, audit, files>>
    PROVE  FilesInv'
<1> HIDE DEF Blank
<1> QED
    BY ReaderMoves

LEMMA ReadFiles ==
    ASSUME AInv, TypeInv, FilesInv, \A case \in Cases : TimelineMoves(case),
           NEW c \in Clients,
           \/ ReadSnapshot(c) \/ ReadProjections(c) \/ StartTimeline(c)
           \/ LoadEvents(c) \/ LoadChain(c) \/ ReadRevision(c) \/ ReadFile(c)
    PROVE  FilesInv'
<1>1. \A case \in Cases : IsPrefix(<<>>, Events(case)) /\ IsPrefix(Events(case), Events(case))
    BY EmptyPrefix, PrefixOfItself DEF TimelineMoves, Hash
<1>2. DOMAIN local[c] = {"call", "row", "events", "head", "manifest"}
    BY DEF AInv, ClientsInv
<1>3. ASSUME NEW kind, Finish(c, kind) PROVE FilesInv'
    BY <1>3, ReaderEnds DEF Finish
<1>4. CASE ReadSnapshot(c)
    <2> PICK call \in Calls[c] :
            Advance(c, "projections",
                    [Blank EXCEPT !.call = call, !.row = rows[call.request.case]])
        BY <1>4 DEF ReadSnapshot
    <2> DEFINE now == [Blank EXCEPT !.call = call, !.row = rows[call.request.case]]
    <2>1. now.events = <<>> /\ now.call = call
        BY DEF Blank
    <2>2. Goto(c, "projections", now) /\ UNCHANGED <<rows, audit, files>>
        BY DEF Advance, store
    <2> HIDE DEF now
    <2>3. call.request.case \in Cases
        BY CallsAssumption
    <2> QED
        BY <1>1, <2>1, <2>2, <2>3, ReaderMoves
<1>5. CASE StartTimeline(c)
    <2> PICK call \in Calls[c] :
            /\ call.kind = "timeline"
            /\ Advance(c, "chain", [Blank EXCEPT !.call = call,
                                                 !.events = Events(call.request.case)])
        BY <1>5 DEF StartTimeline
    <2> DEFINE now == [Blank EXCEPT !.call = call, !.events = Events(call.request.case)]
    <2>1. now.events = Events(call.request.case) /\ now.call = call
        BY DEF Blank
    <2>2. Goto(c, "chain", now) /\ UNCHANGED <<rows, audit, files>>
        BY DEF Advance, store
    <2> HIDE DEF now
    <2>3. call.request.case \in Cases
        BY CallsAssumption
    <2> QED
        BY <1>1, <2>1, <2>2, <2>3, ReaderMoves
<1>6. CASE LoadEvents(c)
    <2> DEFINE now == [local[c] EXCEPT !.events = Events(CaseOf(c))]
    <2>1. now.events = Events(CaseOf(c)) /\ now.call.request.case = CaseOf(c)
        BY <1>2 DEF CaseOf, Call
    <2>2. Goto(c, "chain", now) /\ UNCHANGED <<rows, audit, files>> /\ pc[c] # "idle"
        BY <1>6 DEF LoadEvents, Advance, store, CaseOf
    <2> HIDE DEF now
    <2>3. CaseOf(c) \in Cases
        BY <2>2, CallOnCase
    <2> QED
        BY <1>1, <2>1, <2>2, <2>3, ReaderMoves
<1>7. CASE LoadChain(c)
    <2> DEFINE now == [local[c] EXCEPT !.head = Events(CaseOf(c))]
               place == IF pc[c] = "chain" THEN "chainRevision" ELSE "headRevision"
    <2>1. now.events = local[c].events /\ now.call = local[c].call
        BY <1>2
    <2>2. Advance(c, place, now) /\ pc[c] # "idle" /\ place # "seal"
        BY <1>7 DEF LoadChain, CaseOf
    <2> HIDE DEF now, place
    <2> QED
        BY <2>1, <2>2, ReaderAdvances
<1>8. CASE ReadProjections(c) \/ ReadRevision(c)
    <2>1. pc[c] # "idle"
        BY <1>8 DEF ReadProjections, ReadRevision
    <2>2. ASSUME NEW place \in {"file", "events", "generate", "head"},
                 Advance(c, place, local[c])
          PROVE  FilesInv'
        BY <2>1, <2>2, ReaderAdvances
    <2> QED
        BY <1>3, <1>8, <2>2 DEF ReadProjections, ReadRevision
<1>9. CASE ReadFile(c)
    BY <1>3, <1>9 DEF ReadFile
<1> QED
    BY <1>4, <1>5, <1>6, <1>7, <1>8, <1>9

\* The file Generate writes holds the events read before.
LEMMA GenerateFiles ==
    ASSUME AInv, TypeInv, FilesInv, \A case \in Cases : TimelineMoves(case),
           NEW c \in Clients, Generate(c) \/ GenerateFails(c)
    PROVE  FilesInv'
<1>0. pc[c] = "generate"
    BY DEF Generate, GenerateFails
<1> PICK k \in Cases : k = CaseOf(c)
    BY <1>0, CallOnCase
<1> DEFINE bundle == MakeBundle(k, local[c])
<1>1. /\ pc[c] = "generate" /\ UNCHANGED <<rows, audit>>
      /\ files' = [files EXCEPT ![k] = bundle]
    BY DEF Generate, GenerateFails, Write, store, CaseOf
<1>2. bundle \in Bundle
    BY <1>1, BundleType
<1>3. bundle # NoFile
    BY <1>2, NoFileAssumption
<1>4. bundle.case = k /\ bundle.events = local[c].events
    BY DEF MakeBundle
<1> HIDE DEF bundle
<1>5. files'[k] = bundle /\ \A case \in Cases \ {k} : files'[case] = files[case]
    BY <1>1, <1>2 DEF TypeInv, TypeOK
<1>6. IsPrefix(local[c].events, Events(k)')
    BY <1>1 DEF FilesInv, ReaderInv, Events
<1>7. FileInv(k)'
    BY <1>3, <1>4, <1>5, <1>6 DEF FileInv
<1>8. \A case \in Cases \ {k} : FileInv(case)'
    BY <1>1, <1>5, FileStays DEF Archived, FilesInv, FileInv
<1>9. \A case \in Cases : files[case] # NoFile => files'[case] # NoFile
    BY <1>3, <1>5
<1>10. \A d \in Clients \ {c} : pc'[d] = pc[d] /\ local'[d] = local[d]
    BY DEF Generate, GenerateFails, Goto, AInv, ClientsInv
<1>11. \A d \in Clients \ {c} : ReaderInv(d)'
    BY <1>9, <1>10, ReaderStays
<1>12. ReaderInv(c)'
    <2>1. CASE Generate(c)
        <3> DEFINE now == [local[c] EXCEPT !.manifest =
                              ManifestOf(MakeBundle(Call(c).request.case, local[c]))]
        <3>1. pc'[c] = "seal" /\ local'[c] = now
            BY <2>1 DEF Generate, Goto, AInv, ClientsInv
        <3>2. now.call = local[c].call /\ now.events = local[c].events
            BY DEF AInv, ClientsInv
        <3> HIDE DEF now
        <3>3. CaseOf(c)' = k
            BY <3>1, <3>2 DEF CaseOf, Call
        <3> QED
            BY <1>3, <1>5, <1>6, <3>1, <3>2, <3>3 DEF ReaderInv, Events
    <2>2. CASE GenerateFails(c)
        <3>1. pc'[c] = "idle"
            BY <2>2 DEF GenerateFails, Goto, AInv, ClientsInv
        <3> QED
            BY <3>1 DEF ReaderInv
    <2> QED
        BY <2>1, <2>2
<1> QED
    BY <1>7, <1>8, <1>11, <1>12 DEF FilesInv

LEMMA TransactionFiles ==
    ASSUME AInv, TypeInv, FilesInv, \A case \in Cases : TimelineMoves(case),
           NEW r \in Commands, Transaction(r)
    PROVE  FilesInv'
<1>1. UNCHANGED <<files, pc, local>> /\ (Effect(r) \/ UNCHANGED <<rows, projections>>)
    BY MutateRows DEF Transaction
<1>2. r.case \in Cases /\ r.event = "case.released"
    BY CommandsAssumption
<1>3. \A case \in Cases : Archived(case)' => Archived(case)
    <2>1. CASE Effect(r)
        <3>1. rows'[r.case].item = ReleaseCase(rows[r.case].item, r.actor)
              /\ \A case \in Cases \ {r.case} : rows'[case] = rows[case]
            BY <1>2, <2>1 DEF Effect, Result, AInv, RowsInv
        <3>2. ~Archived(r.case)'
            BY <1>2, <3>1 DEF Archived, ReleaseCase, AInv, RowsInv
        <3> QED
            BY <3>1, <3>2 DEF Archived
    <2>2. CASE UNCHANGED <<rows, projections>>
        BY <2>2 DEF Archived
    <2> QED
        BY <1>1, <2>1, <2>2
<1>4. \A case \in Cases : FileInv(case)'
    BY <1>1, <1>3, FileStays DEF FilesInv, FileInv
<1>5. \A c \in Clients : ReaderInv(c)'
    BY <1>1, ReaderStays
<1> QED
    BY <1>4, <1>5 DEF FilesInv

LEMMA SealFiles ==
    ASSUME AInv, TypeInv, FilesInv, \A case \in Cases : TimelineMoves(case),
           NEW c \in Clients, Seal(c)
    PROVE  FilesInv'
<1> DEFINE r == SealRequest(c)
           k == CaseOf(c)
<1>1. /\ pc[c] = "seal" /\ UNCHANGED files /\ Goto(c, "idle", Blank)
      /\ Effect(r) \/ UNCHANGED <<rows, projections>>
    BY MutateRows DEF Seal
<1>2. r.case = k /\ k \in Cases
    BY SealIsProper
<1> HIDE DEF r
<1>3. files[k] # NoFile
    BY <1>1 DEF FilesInv, ReaderInv
<1>4. \A case \in Cases \ {k} : Archived(case)' => Archived(case)
    BY <1>1, <1>2 DEF Effect, Archived, AInv, RowsInv
<1>5. \A case \in Cases : FileInv(case)'
    BY <1>1, <1>3, <1>4, FileStays DEF FilesInv, FileInv
<1>6. /\ pc'[c] = "idle" /\ local'[c] = Blank
      /\ \A d \in Clients \ {c} : pc'[d] = pc[d] /\ local'[d] = local[d]
    BY <1>1 DEF Goto, AInv, ClientsInv
<1>7. \A d \in Clients \ {c} : ReaderInv(d)'
    BY <1>1, <1>6, ReaderStays
<1>8. ReaderInv(c)'
    BY <1>6 DEF ReaderInv
<1> QED
    BY <1>5, <1>7, <1>8 DEF FilesInv

LEMMA NextFiles ==
    ASSUME AInv, LedgerInv, TypeInv, FilesInv, [Next]_vars
    PROVE  FilesInv'
<1>1. \A case \in Cases : TimelineMoves(case)
    BY LedgerStep
<1>2. CASE UNCHANGED vars
    BY <1>2 DEF vars, FilesInv, FileInv, ReaderInv, Archived, CaseOf, Call, Events
<1>3. ASSUME NEW c \in Clients, Abandon(c) PROVE FilesInv'
    BY <1>1, <1>3, ReaderEnds DEF Abandon, store
<1> QED
    BY <1>1, <1>2, <1>3, TransactionFiles, ReadFiles, GenerateFiles, SealFiles DEF Next, Work

LEMMA InitFiles == Init => FilesInv
BY StartAssumption DEF Init, FilesInv, FileInv, ReaderInv, Archived

LEMMA FilesInductive == ASSUME ManifestsFit PROVE Spec => []FilesInv
<1>1. AInv /\ LedgerInv /\ TypeInv /\ FilesInv /\ [Next]_vars => FilesInv'
    BY NextFiles
<1> QED
    BY <1>1, InitFiles, ArchiveInductive, LedgerIsSound, TypesInductive, PTL DEF Spec

(* Whoever races whom: a sealed case has its file, and every event in the  *)
(* file of a case is on the timeline of that case.                         *)
THEOREM FilesTellTheTimeline == ASSUME ManifestsFit PROVE Spec => []FileIsOnTimeline
<1>1. FilesInv => FileIsOnTimeline
    BY DEF FilesInv, FileInv, FileIsOnTimeline
<1> QED
    BY <1>1, FilesInductive, PTL

-----------------------------------------------------------------------------
(* Evidence that verifies.                                                 *)

\* Nobody gets in the way of a sealing: a case is sealed by one client, for
\* one revision, and nobody else wants to sign at that revision.
Undisturbed ==
    /\ \A c, d \in Clients : \A p \in Calls[c], q \in Calls[d] :
          p.kind = "archive" /\ q.kind = "archive" /\ p.request.case = q.request.case =>
              c = d /\ p.request.expected = q.request.expected
    /\ \A c \in Clients : \A p \in Calls[c] : \A r \in Commands :
          p.kind = "archive" /\ r.case = p.request.case =>
              r.expected # p.request.expected

\* As long as the case is at the revision Archive expects, both lists of
\* events it loads are the timeline as it is.
StillFresh(c) ==
    rows[CaseOf(c)].revision = Call(c).request.expected =>
        /\ pc[c] \in {"chain", "chainRevision", "head", "headRevision", "generate", "seal"} =>
              local[c].events = Events(CaseOf(c))
        /\ pc[c] \in {"chainRevision", "head", "headRevision", "generate", "seal"} =>
              local[c].head = Events(CaseOf(c))

\* The file is the one the manifest is about.
FileIsMine(c) ==
    pc[c] = "seal" =>
        /\ ManifestOf(files[CaseOf(c)]) = local[c].manifest
        /\ files[CaseOf(c)].events = local[c].events
        /\ files[CaseOf(c)].head = local[c].head

FreshInv(c) ==
    Archiving(c) /\ IsExpected(c) =>
        ~Archived(CaseOf(c)) /\ StillFresh(c) /\ FileIsMine(c)

\* A sealed case is past the revision anybody wants to seal.
SealedInv(case) ==
    Archived(case) =>
        \A c \in Clients : \A call \in Calls[c] :
            call.kind = "archive" /\ call.request.case = case =>
                rows[case].revision # call.request.expected

MatchInv(case) ==
    Archived(case) =>
        /\ files[case].stamp = rows[case].item.archive.stamp
        /\ files[case].revision = rows[case].item.archive.revision
        /\ files[case].events = files[case].head

EvidenceInv == /\ \A c \in Clients : FreshInv(c)
               /\ \A case \in Cases : SealedInv(case) /\ MatchInv(case)

\* What others do to a case leaves what a client knows of it true, or makes it
\* pointless to go on.
LEMMA FreshStays ==
    ASSUME AInv, NEW c \in Clients, FreshInv(c), pc'[c] = pc[c], local'[c] = local[c],
           NEW k \in Cases, Archiving(c) => k = CaseOf(c),
           Archiving(c) =>
              /\ files'[k] = files[k]
              /\ \/ rows'[k] = rows[k] /\ audit'[k] = audit[k]
                 \/ rows'[k] = rows[k] /\ rows[k].revision # Call(c).request.expected
                 \/ /\ rows'[k].revision = rows[k].revision + 1
                    /\ rows'[k].item.state # "archived"
    PROVE  FreshInv(c)'
<1>1. /\ Call(c)' = Call(c) /\ CaseOf(c)' = CaseOf(c)
      /\ (Archiving(c)' <=> Archiving(c)) /\ (IsExpected(c)' <=> IsExpected(c))
    BY DEF Call, CaseOf, Archiving, IsExpected
<1>2. ASSUME Archiving(c), IsExpected(c)
      PROVE  /\ rows'[k].item.state # "archived"
             /\ StillFresh(c)' /\ FileIsMine(c)'
    <2>1. k = CaseOf(c) /\ CaseOf(c)' = k /\ Call(c)' = Call(c)
        BY <1>1, <1>2
    <2>2. FileIsMine(c)'
        BY <1>2, <2>1 DEF FreshInv, FileIsMine
    <2>3. /\ rows[k].item.state # "archived"
          /\ rows[k].revision = Call(c).request.expected =>
                /\ pc[c] \in {"chain", "chainRevision", "head", "headRevision",
                              "generate", "seal"} => local[c].events = Events(k)
                /\ pc[c] \in {"chainRevision", "head", "headRevision",
                              "generate", "seal"} => local[c].head = Events(k)
        BY <1>2, <2>1 DEF FreshInv, StillFresh, Archived
    <2>4. CASE rows'[k] = rows[k] /\ audit'[k] = audit[k]
        BY <2>1, <2>2, <2>3, <2>4 DEF StillFresh, Events
    <2>5. CASE rows'[k] = rows[k] /\ rows[k].revision # Call(c).request.expected
        BY <2>1, <2>2, <2>3, <2>5 DEF StillFresh
    <2>6. CASE rows'[k].revision = rows[k].revision + 1 /\ rows'[k].item.state # "archived"
        <3>1. /\ local[c].row.revision = Call(c).request.expected
              /\ local[c].row.revision \in Nat /\ rows[k].revision \in Nat
              /\ local[c].row.revision <= rows[k].revision
            BY <1>2, <2>1 DEF IsExpected, AInv, RowsInv, ReadInv
        <3>2. rows'[k].revision # Call(c).request.expected
            BY <2>6, <3>1
        <3> QED
            BY <2>1, <2>2, <2>6, <3>2 DEF StillFresh
    <2> QED
        BY <1>2, <2>4, <2>5, <2>6
<1> QED
    BY <1>1, <1>2 DEF FreshInv, Archived

\* A step of a client that leaves the tables and the files alone.
LEMMA QuietEvidence ==
    ASSUME AInv, EvidenceInv, NEW c \in Clients, NEW place, NEW now, Goto(c, place, now),
           UNCHANGED <<rows, audit, files>>, FreshInv(c)'
    PROVE  EvidenceInv'
<1>1. \A d \in Clients \ {c} : pc'[d] = pc[d] /\ local'[d] = local[d]
    BY DEF Goto, AInv, ClientsInv
<1>2. ASSUME NEW d \in Clients \ {c} PROVE FreshInv(d)'
    <2>1. CASE Archiving(d)
        <3>1. PICK k \in Cases : k = CaseOf(d)
            BY <2>1, CallOnCase DEF Archiving
        <3> QED
            BY <1>1, <3>1, FreshStays DEF EvidenceInv
    <2>2. CASE ~Archiving(d)
        BY <1>1, <2>2 DEF FreshInv, Archiving, Call
    <2> QED
        BY <2>1, <2>2
<1>3. \A case \in Cases : SealedInv(case)' /\ MatchInv(case)'
    BY DEF EvidenceInv, SealedInv, MatchInv, Archived
<1> QED
    BY <1>2, <1>3 DEF EvidenceInv

LEMMA EndEvidence ==
    ASSUME AInv, EvidenceInv, NEW c \in Clients, Goto(c, "idle", Blank),
           UNCHANGED <<rows, audit, files>>
    PROVE  EvidenceInv'
<1>1. pc'[c] = "idle"
    BY DEF Goto, AInv, ClientsInv
<1>2. FreshInv(c)'
    BY <1>1 DEF FreshInv, Archiving
<1> HIDE DEF Blank
<1> QED
    BY <1>2, QuietEvidence

\* What is known after a step that keeps the call and the row.
LEMMA AdvanceEvidence ==
    ASSUME AInv, EvidenceInv, NEW c \in Clients, NEW place, NEW now, Advance(c, place, now),
           pc[c] # "idle", place \notin {"idle", "seal"},
           now.call = local[c].call, now.row = local[c].row,
           Archiving(c) /\ IsExpected(c) /\ rows[CaseOf(c)].revision = Call(c).request.expected =>
              /\ place \in {"chain", "chainRevision", "head", "headRevision", "generate"} =>
                    now.events = Events(CaseOf(c))
              /\ place \in {"chainRevision", "head", "headRevision", "generate"} =>
                    now.head = Events(CaseOf(c))
    PROVE  EvidenceInv'
<1>1. Goto(c, place, now) /\ UNCHANGED <<rows, audit, files>>
    BY DEF Advance, store
<1>2. pc'[c] = place /\ local'[c] = now
    BY <1>1 DEF Goto, AInv, ClientsInv
<1>3. /\ Call(c)' = Call(c) /\ CaseOf(c)' = CaseOf(c)
      /\ (Archiving(c)' <=> Archiving(c)) /\ (IsExpected(c)' <=> IsExpected(c))
    BY <1>2 DEF Call, CaseOf, Archiving, IsExpected
<1>4. FileIsMine(c)'
    BY <1>2 DEF FileIsMine
<1>5. ASSUME Archiving(c), IsExpected(c) PROVE ~Archived(CaseOf(c))' /\ StillFresh(c)'
    <2>1. ~Archived(CaseOf(c))'
        BY <1>1, <1>3, <1>5 DEF EvidenceInv, FreshInv, Archived
    <2>2. StillFresh(c)'
        BY <1>1, <1>2, <1>3, <1>5 DEF StillFresh, Events
    <2> QED
        BY <2>1, <2>2
<1>6. FreshInv(c)'
    BY <1>3, <1>4, <1>5 DEF FreshInv
<1> QED
    BY <1>1, <1>6, QuietEvidence

LEMMA ReadEvidence ==
    ASSUME AInv, EvidenceInv, NEW c \in Clients,
           \/ ReadSnapshot(c) \/ ReadProjections(c) \/ StartTimeline(c)
           \/ LoadEvents(c) \/ LoadChain(c) \/ ReadRevision(c) \/ ReadFile(c)
    PROVE  EvidenceInv'
<1>1. DOMAIN local[c] = {"call", "row", "events", "head", "manifest"}
    BY DEF AInv, ClientsInv
<1>2. ASSUME NEW kind, Finish(c, kind) PROVE EvidenceInv'
    BY <1>2, EndEvidence DEF Finish
<1>3. Archiving(c) /\ IsExpected(c) => StillFresh(c)
    BY DEF EvidenceInv, FreshInv
<1>4. CASE ReadSnapshot(c)
    <2> PICK call \in Calls[c] :
            Advance(c, "projections",
                    [Blank EXCEPT !.call = call, !.row = rows[call.request.case]])
        BY <1>4 DEF ReadSnapshot
    <2> DEFINE now == [Blank EXCEPT !.call = call, !.row = rows[call.request.case]]
    <2>1. now.call = call /\ now.row = rows[call.request.case]
        BY DEF Blank
    <2>2. Goto(c, "projections", now) /\ UNCHANGED <<rows, audit, files>>
        BY DEF Advance, store
    <2> HIDE DEF now
    <2>3. call.request.case \in Cases
        BY CallsAssumption
    <2>4. pc'[c] = "projections" /\ local'[c] = now
        BY <2>2 DEF Goto, AInv, ClientsInv
    <2>5. StillFresh(c)' /\ FileIsMine(c)'
        BY <2>4 DEF StillFresh, FileIsMine
    <2>6. ASSUME call.kind = "archive", rows[call.request.case].revision = call.request.expected
          PROVE  ~Archived(call.request.case)
        BY <2>3, <2>6 DEF EvidenceInv, SealedInv
    <2>7. FreshInv(c)'
        BY <2>1, <2>2, <2>4, <2>5, <2>6
        DEF FreshInv, Archiving, IsExpected, CaseOf, Call, Archived
    <2> QED
        BY <2>2, <2>7, QuietEvidence
<1>5. CASE StartTimeline(c)
    <2> PICK call \in Calls[c] :
            /\ call.kind = "timeline"
            /\ Advance(c, "chain", [Blank EXCEPT !.call = call,
                                                 !.events = Events(call.request.case)])
        BY <1>5 DEF StartTimeline
    <2> DEFINE now == [Blank EXCEPT !.call = call, !.events = Events(call.request.case)]
    <2>1. now.call = call
        BY DEF Blank
    <2>2. Goto(c, "chain", now) /\ UNCHANGED <<rows, audit, files>>
        BY DEF Advance, store
    <2> HIDE DEF now
    <2>3. local'[c] = now
        BY <2>2 DEF Goto, AInv, ClientsInv
    <2>4. FreshInv(c)'
        BY <2>1, <2>3 DEF FreshInv, Archiving, Call
    <2> QED
        BY <2>2, <2>4, QuietEvidence
<1>6. CASE LoadEvents(c)
    <2> DEFINE now == [local[c] EXCEPT !.events = Events(CaseOf(c))]
    <2>1. /\ now.events = Events(CaseOf(c)) /\ now.call = local[c].call
          /\ now.row = local[c].row
        BY <1>1
    <2>2. Advance(c, "chain", now) /\ pc[c] # "idle"
        BY <1>6 DEF LoadEvents, CaseOf
    <2> HIDE DEF now
    <2> QED
        BY <2>1, <2>2, AdvanceEvidence
<1>7. CASE LoadChain(c)
    <2> DEFINE now == [local[c] EXCEPT !.head = Events(CaseOf(c))]
               place == IF pc[c] = "chain" THEN "chainRevision" ELSE "headRevision"
    <2>1. /\ now.events = local[c].events /\ now.call = local[c].call
          /\ now.row = local[c].row /\ now.head = Events(CaseOf(c))
        BY <1>1
    <2>2. Advance(c, place, now) /\ pc[c] \in {"chain", "head"} /\ place \notin {"idle", "seal"}
        BY <1>7 DEF LoadChain, CaseOf
    <2> HIDE DEF now, place
    <2>3. Archiving(c) /\ IsExpected(c) /\ rows[CaseOf(c)].revision = Call(c).request.expected
             => now.events = Events(CaseOf(c))
        BY <1>3, <2>1, <2>2 DEF StillFresh
    <2> QED
        BY <2>1, <2>2, <2>3, AdvanceEvidence
<1>8. CASE ReadProjections(c)
    <2>1. pc[c] # "idle"
        BY <1>8 DEF ReadProjections
    <2>2. ASSUME NEW place \in {"file", "events"}, Advance(c, place, local[c])
          PROVE  EvidenceInv'
        BY <2>1, <2>2, AdvanceEvidence
    <2> QED
        BY <1>2, <1>8, <2>2 DEF ReadProjections
<1>9. CASE ReadRevision(c)
    <2>1. pc[c] \in {"chainRevision", "headRevision"}
        BY <1>9 DEF ReadRevision
    <2>2. Archiving(c) /\ IsExpected(c) /\ rows[CaseOf(c)].revision = Call(c).request.expected
             => local[c].events = Events(CaseOf(c)) /\ local[c].head = Events(CaseOf(c))
        BY <1>3, <2>1 DEF StillFresh
    <2>3. ASSUME NEW place \in {"file", "generate", "head"}, Advance(c, place, local[c])
          PROVE  EvidenceInv'
        BY <2>1, <2>2, <2>3, AdvanceEvidence
    <2> QED
        BY <1>2, <1>9, <2>3 DEF ReadRevision
<1>10. CASE ReadFile(c)
    BY <1>2, <1>10 DEF ReadFile
<1> QED
    BY <1>4, <1>5, <1>6, <1>7, <1>8, <1>9, <1>10

\* Two clients that seal the same case are the same.
LEMMA OneSealer ==
    ASSUME Undisturbed, AInv, NEW c \in Clients, NEW d \in Clients,
           Archiving(c), Archiving(d), CaseOf(c) = CaseOf(d)
    PROVE  c = d
<1>1. Call(c) \in Calls[c] /\ Call(d) \in Calls[d]
    BY CallOnCase DEF Archiving
<1> QED
    BY <1>1 DEF Undisturbed, Archiving, CaseOf

LEMMA GenerateEvidence ==
    ASSUME Undisturbed, AInv, TypeInv, EvidenceInv, NEW c \in Clients,
           Generate(c) \/ GenerateFails(c)
    PROVE  EvidenceInv'
<1>1. pc[c] = "generate" /\ Archiving(c) /\ IsExpected(c)
    BY DEF Generate, GenerateFails, AInv, ClientsInv, Archiving, ReadInv
<1> PICK k \in Cases : k = CaseOf(c)
    BY <1>1, CallOnCase
<1> DEFINE bundle == MakeBundle(k, local[c])
<1>2. UNCHANGED <<rows, audit>> /\ files' = [files EXCEPT ![k] = bundle]
    BY DEF Generate, GenerateFails, Write, store, CaseOf
<1>3. bundle.events = local[c].events /\ bundle.head = local[c].head
    BY DEF MakeBundle
<1>4. ~Archived(k) /\ StillFresh(c)
    BY <1>1 DEF EvidenceInv, FreshInv
<1> HIDE DEF bundle
<1>5. files'[k] = bundle /\ \A case \in Cases \ {k} : files'[case] = files[case]
    BY <1>2 DEF TypeInv, TypeOK
<1>6. \A case \in Cases : SealedInv(case)' /\ MatchInv(case)'
    BY <1>2, <1>4, <1>5 DEF EvidenceInv, SealedInv, MatchInv, Archived
<1>7. \A d \in Clients \ {c} : pc'[d] = pc[d] /\ local'[d] = local[d]
    BY DEF Generate, GenerateFails, Goto, AInv, ClientsInv
<1>8. ASSUME NEW d \in Clients \ {c} PROVE FreshInv(d)'
    <2>1. CASE Archiving(d)
        <3>1. PICK other \in Cases : other = CaseOf(d)
            BY <2>1, CallOnCase DEF Archiving
        <3>2. other # k
            BY <1>1, <2>1, <3>1, OneSealer
        <3> QED
            BY <1>2, <1>5, <1>7, <3>1, <3>2, FreshStays DEF EvidenceInv
    <2>2. CASE ~Archiving(d)
        BY <1>7, <2>2 DEF FreshInv, Archiving, Call
    <2> QED
        BY <2>1, <2>2
<1>9. FreshInv(c)'
    <2>1. CASE Generate(c)
        <3> DEFINE now == [local[c] EXCEPT !.manifest = ManifestOf(bundle)]
        <3>1. pc'[c] = "seal" /\ local'[c] = now
            BY <2>1 DEF Generate, Goto, AInv, ClientsInv, bundle, CaseOf
        <3>2. /\ now.call = local[c].call /\ now.events = local[c].events
              /\ now.head = local[c].head /\ now.manifest = ManifestOf(bundle)
            BY DEF AInv, ClientsInv
        <3> HIDE DEF now
        <3>3. CaseOf(c)' = k /\ Call(c)' = Call(c)
            BY <3>1, <3>2 DEF CaseOf, Call
        <3>4. FileIsMine(c)'
            BY <1>3, <1>5, <3>1, <3>2, <3>3 DEF FileIsMine
        <3>5. StillFresh(c)'
            BY <1>1, <1>2, <1>4, <3>1, <3>2, <3>3 DEF StillFresh, Events
        <3>6. ~Archived(CaseOf(c))'
            BY <1>2, <1>4, <3>3 DEF Archived
        <3> QED
            BY <3>4, <3>5, <3>6 DEF FreshInv
    <2>2. CASE GenerateFails(c)
        <3>1. pc'[c] = "idle"
            BY <2>2 DEF GenerateFails, Goto, AInv, ClientsInv
        <3> QED
            BY <3>1 DEF FreshInv, Archiving
    <2> QED
        BY <2>1, <2>2
<1> QED
    BY <1>6, <1>8, <1>9 DEF EvidenceInv

\* Signing moves the case on, and a signature that is refused on record is
\* not one for the revision that is being sealed.
LEMMA TransactionEvidence ==
    ASSUME Undisturbed, AInv, EvidenceInv, NEW r \in Commands, Transaction(r)
    PROVE  EvidenceInv'
<1> DEFINE k == r.case
<1>1. /\ UNCHANGED <<files, pc, local>>
      /\ Writes(r) \/ Refuses(r) \/ UNCHANGED <<rows, projections, audit>>
    BY MutateTables DEF Transaction
<1>2. k \in Cases /\ r.event = "case.released"
    BY CommandsAssumption
<1>3. ASSUME Writes(r)
      PROVE  /\ rows'[k].revision = rows[k].revision + 1
             /\ rows'[k].item.state = "released"
             /\ \A case \in Cases \ {k} : rows'[case] = rows[case] /\ audit'[case] = audit[case]
    <2>1. Effect(r) /\ Store!AppendAudit(k, rows[k].revision + 1, r.event, r.id)
        BY <1>3 DEF Writes
    <2>2. /\ rows'[k] = [item |-> ReleaseCase(rows[k].item, r.actor),
                         revision |-> rows[k].revision + 1]
          /\ \A case \in Cases \ {k} : rows'[case] = rows[case]
        BY <1>2, <2>1 DEF Effect, Result, AInv, RowsInv
    <2>3. ReleaseCase(rows[k].item, r.actor).state = "released"
        BY <1>2 DEF ReleaseCase, AInv, RowsInv
    <2>4. \A case \in Cases \ {k} : audit'[case] = audit[case]
        BY <2>1 DEF Store!AppendAudit
    <2> QED
        BY <2>2, <2>3, <2>4
<1>4. ASSUME Refuses(r)
      PROVE  /\ rows' = rows /\ r.expected = rows[k].revision
             /\ \A case \in Cases \ {k} : audit'[case] = audit[case]
    BY <1>4 DEF Refuses, Store!AppendAudit
<1>5. ASSUME NEW c \in Clients PROVE FreshInv(c)'
    <2>1. CASE Archiving(c)
        <3>1. PICK own \in Cases : own = CaseOf(c)
            BY <2>1, CallOnCase DEF Archiving
        <3>2. Call(c) \in Calls[c] /\ Call(c).kind = "archive"
            BY <2>1, CallOnCase DEF Archiving
        <3>3. own = k => r.expected # Call(c).request.expected
            BY <3>1, <3>2 DEF Undisturbed, CaseOf
        <3>4. \/ rows'[own] = rows[own] /\ audit'[own] = audit[own]
              \/ rows'[own] = rows[own] /\ rows[own].revision # Call(c).request.expected
              \/ /\ rows'[own].revision = rows[own].revision + 1
                 /\ rows'[own].item.state # "archived"
            <4>1. CASE Writes(r)
                BY <1>3, <4>1
            <4>2. CASE Refuses(r)
                BY <1>4, <3>3, <4>2
            <4> QED
                BY <1>1, <4>1, <4>2
        <3> QED
            BY <1>1, <3>1, <3>4, FreshStays DEF EvidenceInv
    <2>2. CASE ~Archiving(c)
        BY <1>1, <2>2 DEF FreshInv, Archiving, Call
    <2> QED
        BY <2>1, <2>2
<1>6. ASSUME NEW case \in Cases, rows'[case] = rows[case]
      PROVE  SealedInv(case)' /\ MatchInv(case)'
    BY <1>1, <1>6 DEF EvidenceInv, SealedInv, MatchInv, Archived
<1>7. Writes(r) => ~Archived(k)'
    BY <1>3 DEF Archived
<1>8. \A case \in Cases : SealedInv(case)' /\ MatchInv(case)'
    <2>1. CASE Writes(r)
        BY <1>3, <1>6, <1>7, <2>1 DEF SealedInv, MatchInv
    <2>2. CASE ~Writes(r)
        BY <1>1, <1>4, <1>6, <2>2
    <2> QED
        BY <2>1, <2>2
<1> QED
    BY <1>5, <1>8 DEF EvidenceInv

LEMMA SealEvidence ==
    ASSUME Undisturbed, AInv, EvidenceInv, NEW c \in Clients, Seal(c)
    PROVE  EvidenceInv'
<1> DEFINE r == SealRequest(c)
<1>1. /\ pc[c] = "seal" /\ UNCHANGED files /\ Goto(c, "idle", Blank)
      /\ Writes(r) \/ Refuses(r) \/ UNCHANGED <<rows, projections, audit>>
    BY MutateTables DEF Seal
<1>2. /\ Call(c) \in Calls[c] /\ Call(c).kind = "archive" /\ CaseOf(c) \in Cases
      /\ r.event = "case.archived" /\ r.case = CaseOf(c)
      /\ r.expected = Call(c).request.expected /\ r.manifest = local[c].manifest
    BY SealIsProper
<1> HIDE DEF r
<1> PICK k \in Cases : k = CaseOf(c)
    BY <1>2
<1>3. /\ pc'[c] = "idle"
      /\ \A d \in Clients \ {c} : pc'[d] = pc[d] /\ local'[d] = local[d]
    BY <1>1 DEF Goto, AInv, ClientsInv
<1>4. CASE UNCHANGED <<rows, projections, audit>>
    BY <1>1, <1>4, EndEvidence
<1>5. CASE Refuses(r)
    BY <1>2, <1>5 DEF Refuses, Store!RefusalEvents
<1>6. CASE Writes(r)
    <2>1. Effect(r) /\ Store!AppendAudit(k, rows[k].revision + 1, r.event, r.id)
        BY <1>2, <1>6 DEF Writes
    <2>2. /\ rows[k].revision = Call(c).request.expected
          /\ rows'[k] = [item |-> MarkArchived(rows[k].item, local[c].manifest),
                         revision |-> rows[k].revision + 1]
          /\ \A case \in Cases \ {k} : rows'[case] = rows[case]
        BY <1>2, <2>1 DEF Effect, Result, AInv, RowsInv
    <2>3. \A case \in Cases \ {k} : audit'[case] = audit[case]
        BY <2>1 DEF Store!AppendAudit
    <2>4. Archiving(c) /\ IsExpected(c)
        BY <1>1, <1>2 DEF Archiving, AInv, ReadInv
    <2>5. /\ local[c].events = Events(k) /\ local[c].head = Events(k)
          /\ ManifestOf(files[k]) = local[c].manifest
          /\ files[k].events = local[c].events /\ files[k].head = local[c].head
        BY <1>1, <2>2, <2>4 DEF EvidenceInv, FreshInv, StillFresh, FileIsMine
    <2>6. ASSUME NEW d \in Clients PROVE FreshInv(d)'
        <3>1. CASE d = c
            BY <1>3, <3>1 DEF FreshInv, Archiving
        <3>2. CASE d # c /\ Archiving(d)
            <4>1. PICK other \in Cases : other = CaseOf(d)
                BY <3>2, CallOnCase DEF Archiving
            <4>2. other # k
                BY <2>4, <3>2, <4>1, OneSealer
            <4> QED
                BY <1>1, <1>3, <2>2, <2>3, <3>2, <4>1, <4>2, FreshStays DEF EvidenceInv
        <3>3. CASE d # c /\ ~Archiving(d)
            BY <1>3, <3>3 DEF FreshInv, Archiving, Call
        <3> QED
            BY <3>1, <3>2, <3>3
    <2>7. \A case \in Cases \ {k} : SealedInv(case)' /\ MatchInv(case)'
        BY <1>1, <2>2 DEF EvidenceInv, SealedInv, MatchInv, Archived
    <2>8. SealedInv(k)'
        <3>1. rows[k].revision \in Nat /\ rows'[k].revision # rows[k].revision
            BY <2>2 DEF AInv, RowsInv
        <3>2. \A d \in Clients : \A call \in Calls[d] :
                 call.kind = "archive" /\ call.request.case = k =>
                     call.request.expected = Call(c).request.expected
            BY <1>2 DEF Undisturbed, CaseOf
        <3> QED
            BY <2>2, <3>1, <3>2 DEF SealedInv
    <2>9. MatchInv(k)'
        <3>1. rows'[k].item.archive = local[c].manifest
            <4>1. "archive" \in DOMAIN rows[k].item
                BY DEF AInv, RowsInv
            <4>2. rows'[k].item = MarkArchived(rows[k].item, local[c].manifest)
                BY <2>2
            <4> QED
                BY <4>1, <4>2 DEF MarkArchived
        <3>2. /\ local[c].manifest.stamp = files[k].stamp
              /\ local[c].manifest.revision = files[k].revision
            BY <2>5 DEF ManifestOf
        <3> QED
            BY <1>1, <2>5, <3>1, <3>2 DEF MatchInv
    <2> QED
        BY <2>6, <2>7, <2>8, <2>9 DEF EvidenceInv
<1> QED
    BY <1>1, <1>4, <1>5, <1>6

LEMMA NextEvidence ==
    ASSUME Undisturbed, AInv, TypeInv, EvidenceInv, [Next]_vars
    PROVE  EvidenceInv'
<1>1. CASE UNCHANGED vars
    BY <1>1 DEF vars, EvidenceInv, FreshInv, StillFresh, FileIsMine, SealedInv, MatchInv,
                Archiving, IsExpected, Archived, CaseOf, Call, Events
<1>2. ASSUME NEW c \in Clients, Abandon(c) PROVE EvidenceInv'
    BY <1>2, EndEvidence DEF Abandon, store
<1> QED
    BY <1>1, <1>2, TransactionEvidence, ReadEvidence, GenerateEvidence, SealEvidence
    DEF Next, Work

LEMMA InitEvidence == Init => EvidenceInv
BY StartAssumption DEF Init, EvidenceInv, FreshInv, SealedInv, MatchInv, Archiving, Archived

(* A sealed case comes with evidence that verifies, as long as it is       *)
(* sealed by one client for one revision and nobody is refused a signature *)
(* at that revision: over every interleaving with readers, other cases,    *)
(* breakdowns and retries.  ArchiveTwice and ArchiveHead show that neither *)
(* condition can be dropped.                                               *)
THEOREM UndisturbedEvidence ==
    ASSUME ManifestsFit, Undisturbed PROVE Spec => []EvidenceVerifies
<1>1. AInv /\ TypeInv /\ EvidenceInv /\ [Next]_vars => EvidenceInv'
    BY NextEvidence
<1>2. FilesInv /\ EvidenceInv => EvidenceVerifies
    BY DEF FilesInv, FileInv, EvidenceInv, MatchInv, EvidenceVerifies, Verifies
<1> QED
    BY <1>1, <1>2, InitEvidence, ArchiveInductive, TypesInductive, FilesInductive, PTL DEF Spec

=============================================================================
