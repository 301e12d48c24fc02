--------------------------- MODULE ArchiveService ---------------------------
(***************************************************************************)
(* Sealing a case and reading it back: internal/application/archive.go     *)
(* with Get, Events and VerifyAudit of internal/sqlstore and the evidence  *)
(* files of internal/evidence.                                             *)
(*                                                                         *)
(* Only Create and Mutate are transactions.  Get, Events and VerifyAudit   *)
(* issue one query after the other outside of any transaction, and Archive *)
(* strings them together with a file write and a transaction.  Every query *)
(* is a step here, and commits of other clients fall in between.           *)
(*                                                                         *)
(* The store is CaseStore, its domain that of ConservationCase.  Data:     *)
(*   - a list of audit events is its last hash: a hash holds everything    *)
(*     hashed before it, so that its length is the length of the list;     *)
(*   - a bundle's stamp is its GeneratedAt.  No two bundles are made at    *)
(*     the same nanosecond, so that a stamp stands for manifest_digest;    *)
(*   - the seven queries of verifyProjections are one step: a commit after *)
(*     the approval changes one of the tables.                             *)
(* A client is a goroutine of the server with the request it works on and  *)
(* the patience to send it again.  Abandon is its end at any point: the    *)
(* client hung up, the query or the write failed, or the server crashed.   *)
(*                                                                         *)
(* A definition said to be a mutant is one a mistake in the code could     *)
(* turn the next one into; it is there to test the properties with.        *)
(***************************************************************************)
EXTENDS ConservationCase

CONSTANTS
    Cases,       \* the cases, all of them opened already
    Start,       \* Start[case]: the row (item, revision) the case has at first
    Past,        \* Past[case]: the requests that led there, in order
    Commands,    \* requests with one transaction: releases
    Clients,     \* clients of the compound operations
    Calls,       \* Calls[client]: the calls it makes
    MaxEvents,   \* bound of the model, see CaseStore
    MaxBundles,  \* bound of the model: how many bundles are generated
    MaxFaults,   \* bound of the model: how often an operation breaks off
    Remembered,  \* kinds of answers the history keeps, see CaseStore
    NoRow, NoEntry, NoResponse, NoFile, NoCall

VARIABLES
    rows, projections, audit, idempotency, answers,   \* see CaseStore
    files,    \* evidence/<case_id>.evidence.json of each case
    made,     \* the bundles generated so far (history)
    pc,       \* where each client is in its call
    local,    \* what it has read and made there
    faults    \* broken off operations so far

store == <<rows, projections, audit, idempotency, answers>>
vars == <<rows, projections, audit, idempotency, answers, files, made, pc, local, faults>>

-----------------------------------------------------------------------------
(* The store over the domain.                                              *)

\* The command of a request, as service.go and archive.go pass it to Mutate.
Accepts(item, r) == \/ r.event = "case.released" /\ ReleaseEligible(item, r.actor)
                    \/ r.event = "case.archived" /\ CanMarkArchived(item)

Result(item, r) == IF r.event = "case.released" THEN ReleaseCase(item, r.actor)
                                                ELSE MarkArchived(item, r.manifest)

New(r) == CreateCase(r.required, r.custodian)

Sealing(client) == {call.request : call \in {k \in Calls[client] : k.kind = "archive"}}

Requests == Commands \cup UNION {Sealing(client) : client \in Clients}

Store == INSTANCE CaseStore WITH Items <- Case, Valid <- ValidateSnapshot

ASSUME StartAssumption ==
    /\ Start \in [Cases -> Store!Row]
    /\ \A case \in Cases : /\ Start[case].item.state # "archived"
                           /\ ValidateSnapshot(Start[case].item)
                           /\ Past[case] \in Seq(Range(Past[case]))
                           /\ Start[case].revision = Len(Past[case])
ASSUME CommandsAssumption ==
    \A r \in Commands : /\ r.event = "case.released" /\ r.case \in Cases
                        /\ r.actor \in Actors
ASSUME CallsAssumption ==
    \A client \in Clients : \A call \in Calls[client] :
        /\ call.kind \in {"get", "timeline", "read", "verify", "archive"}
        /\ call.request.case \in Cases
        /\ call.kind = "archive" =>
              /\ {"id", "case", "event", "expected"} \subseteq DOMAIN call.request
              /\ call.request.event = "case.archived"
ASSUME FaultsAssumption == MaxFaults \in Nat

\* What the projection tables hold of a snapshot.
Projected(item) == <<item.conditions, item.plans, item.trials, item.checkpoints,
                     item.stability, item.release, item.archive>>

\* loadEvents: the list of events of a case, by its last hash.
Events(case) == Store!ChainHead(audit[case])

LastRevision(hash) == hash[Len(hash)][2]

-----------------------------------------------------------------------------
(* bundle.go and verify.go                                                 *)

\* The hashes of this chain, the past included.
PastRequests == UNION {Range(Past[case]) : case \in Cases}
Types == Store!EventTypes \cup {r.event : r \in PastRequests}
Ids == Store!RequestIds \cup {r.id : r \in PastRequests}
Hash == Seq(Nat \X Nat \X Cases \X Types \X Ids)

Bundle == [case : Cases, item : Case, revision : Nat, stamp : Nat,
           events : Hash, head : Hash]

ASSUME NoFileAssumption == NoFile \notin Bundle

ManifestOf(b) == [revision |-> b.revision, stamp |-> b.stamp,
                  count |-> Len(b.events), head |-> b.head]

MakeBundle(case, read) ==
    [case |-> case, item |-> read.row.item, revision |-> read.row.revision,
     stamp |-> Cardinality(made) + 1, events |-> read.events, head |-> read.head]

\* Verify finds no problem with a file, a case and the events of its timeline.
Verifies(file, item, events) ==
    /\ file.stamp = item.archive.stamp
    /\ file.revision = item.archive.revision
    /\ file.events = file.head
    /\ IsPrefix(file.events, events)

-----------------------------------------------------------------------------
Blank == [call |-> NoCall, row |-> NoRow, events |-> <<>>, head |-> <<>>,
          manifest |-> NoManifest]

Call(c) == local[c].call

Goto(c, place, now) ==
    /\ pc' = [pc EXCEPT ![c] = place]
    /\ local' = [local EXCEPT ![c] = now]

\* The client is answered and may start over.
Finish(c, kind) ==
    /\ Store!Reply(Call(c).request, kind, NoResponse)
    /\ Goto(c, "idle", Blank)
    /\ UNCHANGED <<rows, projections, audit, idempotency, files, made, faults>>

\* The client goes on without touching anything shared.
Advance(c, place, now) ==
    /\ Goto(c, place, now)
    /\ UNCHANGED <<store, files, made, faults>>

-----------------------------------------------------------------------------
(* Get of queries.go and what its callers do next.                         *)

\* The first query of Get: the snapshot alone.
ReadSnapshot(c) ==
    /\ pc[c] = "idle"
    /\ \E call \in Calls[c] :
          /\ call.kind # "timeline"
          /\ Advance(c, "projections",
                     [Blank EXCEPT !.call = call, !.row = rows[call.request.case]])

\* Mutants: the revision of the snapshot is not compared, or to a wrong one.
IsExpectedAlways(c) == TRUE
IsExpectedNext(c) == local[c].row.revision = Call(c).request.expected + 1

\* Archive compares the revision itself before it writes a file.
IsExpected(c) == local[c].row.revision = Call(c).request.expected

\* Its later queries: the tables have to spell out the same snapshot.
ReadProjections(c) ==
    LET row == local[c].row
        case == Call(c).request.case
        same == Projected(projections[case]) = Projected(row.item)
        kind == Call(c).kind
        sealed == row.item.state = "archived"
    IN  /\ pc[c] = "projections"
        /\ \/ ~same /\ Finish(c, "projection_corrupt")
           \/ same /\ kind = "get" /\ Finish(c, "ok")
           \/ same /\ kind \in {"read", "verify"} /\ ~sealed /\ Finish(c, "conflict")
           \/ same /\ kind = "read" /\ sealed /\ Advance(c, "file", local[c])
           \/ same /\ kind = "verify" /\ sealed /\ Advance(c, "events", local[c])
           \/ same /\ kind = "archive" /\ ~IsExpected(c) /\ Finish(c, "revision_conflict")
           \/ same /\ kind = "archive" /\ IsExpected(c) /\ Advance(c, "events", local[c])

-----------------------------------------------------------------------------
(* Events and VerifyAudit of audit.go.                                     *)

\* Timeline starts with the events.
StartTimeline(c) ==
    /\ pc[c] = "idle"
    /\ \E call \in Calls[c] :
          /\ call.kind = "timeline"
          /\ Advance(c, "chain", [Blank EXCEPT !.call = call,
                                               !.events = Events(call.request.case)])

LoadEvents(c) ==
    /\ pc[c] = "events"
    /\ Advance(c, "chain", [local[c] EXCEPT !.events = Events(Call(c).request.case)])

\* VerifyAudit loads the events again, at "chain" as the end of Events and at
\* "head" for Archive, which keeps the last hash.
LoadChain(c) ==
    /\ pc[c] \in {"chain", "head"}
    /\ Advance(c, IF pc[c] = "chain" THEN "chainRevision" ELSE "headRevision",
               [local[c] EXCEPT !.head = Events(Call(c).request.case)])

\* VerifyAudit compares their last revision with that of the row.
ReadRevision(c) ==
    LET same == LastRevision(local[c].head) = rows[Call(c).request.case].revision
        kind == Call(c).kind
    IN  /\ pc[c] \in {"chainRevision", "headRevision"}
        /\ \/ ~same /\ Finish(c, "audit_corrupt")
           \/ same /\ pc[c] = "headRevision" /\ Advance(c, "generate", local[c])
           \/ /\ same /\ pc[c] = "chainRevision"
              /\ \/ kind = "timeline" /\ Finish(c, "ok")
                 \/ kind = "verify" /\ Advance(c, "file", local[c])
                 \/ kind = "archive" /\ Advance(c, "head", local[c])

-----------------------------------------------------------------------------
(* The evidence file: Generate, Read and Verify.                           *)

\* Mutants: the file is written in place and may be torn, or not at all.
WriteInPlace(case, bundle) ==
    /\ \E content \in {bundle, <<>>} : files' = [files EXCEPT ![case] = content]
    /\ made' = made \cup {bundle}
WriteNothing(case, bundle) == UNCHANGED files /\ made' = made \cup {bundle}

\* atomicWrite replaces the file in one rename.
Write(case, bundle) ==
    /\ files' = [files EXCEPT ![case] = bundle]
    /\ made' = made \cup {bundle}

Generate(c) ==
    LET case == Call(c).request.case
        bundle == MakeBundle(case, local[c])
    IN  /\ pc[c] = "generate"
        /\ Cardinality(made) < MaxBundles
        /\ Write(case, bundle)
        /\ Goto(c, "seal", [local[c] EXCEPT !.manifest = ManifestOf(bundle)])
        /\ UNCHANGED <<store, faults>>

\* The rename is done, but the directory cannot be synchronised: an error.
\* An error before the rename changes nothing and is Abandon.
GenerateFails(c) ==
    LET case == Call(c).request.case
    IN  /\ pc[c] = "generate"
        /\ Cardinality(made) < MaxBundles
        /\ faults < MaxFaults /\ faults' = faults + 1
        /\ Write(case, MakeBundle(case, local[c]))
        /\ Goto(c, "idle", Blank)
        /\ UNCHANGED store

\* The request of Archive, for its command with the manifest.
SealRequest(c) ==
    LET request == Call(c).request
    IN  [field \in DOMAIN request \cup {"manifest"} |->
            IF field = "manifest" THEN local[c].manifest ELSE request[field]]

\* The transaction that ends Archive.
Seal(c) ==
    /\ pc[c] = "seal"
    /\ Store!Mutate(SealRequest(c))
    /\ Goto(c, "idle", Blank)
    /\ UNCHANGED <<files, made, faults>>

\* The end of ReadArchive and VerifyArchive.
ReadFile(c) ==
    LET file == files[Call(c).request.case]
    IN  /\ pc[c] = "file"
        /\ \/ Call(c).kind = "read" /\ Finish(c, "ok")
           \/ /\ Call(c).kind = "verify"
              /\ Finish(c, IF Verifies(file, local[c].row.item, local[c].events)
                           THEN "valid" ELSE "invalid")

Abandon(c) ==
    /\ pc[c] # "idle"
    /\ faults < MaxFaults /\ faults' = faults + 1
    /\ Goto(c, "idle", Blank)
    /\ UNCHANGED <<store, files, made>>

-----------------------------------------------------------------------------
Transaction(r) ==
    /\ Store!Mutate(r)
    /\ UNCHANGED <<files, made, pc, local, faults>>

Work(c) ==
    \/ ReadSnapshot(c) \/ ReadProjections(c) \/ StartTimeline(c) \/ LoadEvents(c)
    \/ LoadChain(c) \/ ReadRevision(c) \/ Generate(c) \/ Seal(c) \/ ReadFile(c)

\* The audit chain the requests of the past left behind.
PastEvents(case) ==
    LET chain[n \in 0..Len(Past[case])] ==
            IF n = 0 THEN <<>>
            ELSE Append(chain[n - 1],
                        Store!NextEvent(chain[n - 1], case, n,
                                        Past[case][n].event, Past[case][n].id))
    IN  chain[Len(Past[case])]

Init ==
    /\ rows = Start
    /\ projections = [case \in Cases |-> Start[case].item]
    /\ audit = [case \in Cases |-> PastEvents(case)]
    /\ idempotency = [id \in Store!RequestIds |-> NoEntry]
    /\ answers = {}
    /\ files = [case \in Cases |-> NoFile]
    /\ made = {}
    /\ pc = [c \in Clients |-> "idle"]
    /\ local = [c \in Clients |-> Blank]
    /\ faults = 0

Next == \/ \E r \in Commands : Transaction(r)
        \/ \E c \in Clients : Work(c) \/ GenerateFails(c) \/ Abandon(c)

Spec == Init /\ [][Next]_vars

\* Handlers run to their end unless they break off, and clients try again.
FairSpec == Spec /\ \A c \in Clients : WF_vars(Work(c))

-----------------------------------------------------------------------------
Places == {"idle", "projections", "events", "chain", "chainRevision", "head",
           "headRevision", "generate", "seal", "file"}

(* What the tables, the files and the goroutines hold.  (Of the audit      *)
(* chain DatabaseSound says more than a type.)                             *)
TypeOK ==
    /\ rows \in [Cases -> Store!Row]
    /\ projections \in [Cases -> Case]
    /\ files \in [Cases -> Bundle \cup {NoFile}]
    /\ made \subseteq Bundle
    /\ pc \in [Clients -> Places]
    /\ \A c \in Clients : pc[c] # "idle" => Call(c) \in Calls[c]
    /\ faults \in 0..MaxFaults

Archived(case) == rows[case].item.state = "archived"

(* What was sealed is what was bundled: the snapshot in the bundle the     *)
(* manifest belongs to is the archived case before it was sealed, and its  *)
(* revision the one before.  Nothing slipped in between Get and Mutate.    *)
SealedIsBundled ==
    \A case \in Cases : Archived(case) =>
        \E b \in made :
            /\ ManifestOf(b) = rows[case].item.archive
            /\ MarkArchived(b.item, ManifestOf(b)) = rows[case].item
            /\ b.revision + 1 = rows[case].revision

(* A sealed case has its file, and the file is about this very case: every *)
(* event in it is on the timeline.                                         *)
FileIsOnTimeline ==
    \A case \in Cases :
        /\ Archived(case) => files[case] # NoFile
        /\ files[case] # NoFile =>
              files[case].case = case /\ IsPrefix(files[case].events, Events(case))

(* The database can be opened again whatever happened (verifyAll).         *)
DatabaseSound == Store!BootAccepts

(* Sealed for good: an archived case never changes again.                  *)
SealedForGood ==
    [][\A case \in Cases : Archived(case) =>
          rows'[case] = rows[case] /\ projections'[case] = projections[case]]_vars

(* The sealed case comes with evidence that verifies (BENZHI_README).      *)
EvidenceVerifies ==
    \A case \in Cases : Archived(case) =>
        /\ files[case] # NoFile
        /\ Verifies(files[case], rows[case].item, Events(case))

(* A released case is sealed in the end when somebody keeps asking for it, *)
(* over crashes, failed writes and commits that get in the way.            *)
EventuallySealed ==
    \A case \in Cases : rows[case].item.state = "released" ~> Archived(case)

(* A request that is sent again after its success is replayed (README).    *)
RetryIsReplayed ==
    [][\A a \in answers' \ answers :
          LET entry == idempotency[a.request.id]
          IN  entry # NoEntry /\ entry.fingerprint = Store!Fingerprint(a.request) =>
                  a.kind = "replayed"]_vars

(* A reader is told of corrupt projections or a broken audit chain only    *)
(* when the tables are: a false alarm of this kind sends an operator to    *)
(* the backups.                                                            *)
AlarmIsReal ==
    \A a \in answers :
        a.kind \in {"projection_corrupt", "audit_corrupt"} => ~DatabaseSound

=============================================================================
