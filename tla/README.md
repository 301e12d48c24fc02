# Verification of the manuscript conservation gate

The program under `src/` is an HTTP service that takes one manuscript conservation
case at a time through a fixed workflow: record the condition of every required
region, lock that baseline, draft and submit a treatment plan, pass a compatibility
trial, have the custodian approve the plan, carry it out step by step, observe the
result for 24 hours, let an independent reviewer release the case, and seal it with an
evidence file. Cases live in SQLite as snapshots, next to a hash-chained audit log,
seven tables of projections and a table of idempotency rows.

This directory holds TLA+ models of that service, TLC configurations that check them on
small instances, and TLAPS proofs of the properties that carry the most weight.

## 1. The system

### Components, state and operations

| component | source | state | operations that change it | modelled in |
| --- | --- | --- | --- | --- |
| domain rules | `internal/domain` | one `ConservationCase`: state, required regions, conditions, plan versions, trials, checkpoints, stability observations, signature, manifest | `CreateCase`, `AddCondition`, `LockBaseline`, `SavePlan`, `SubmitPlan`, `AddTrial`, `ReviewEthics`, `CompleteCheckpoint`, `ResolveDeviation`, `AddStability`, `ReleaseCase`, `MarkArchived` | `ConservationCase`, `CaseLifecycle` |
| input validation | `internal/domain/input.go` | none | none; refuses malformed requests | the rule on parameter names only |
| reports | `internal/domain/reports.go`, `internal/application/reports.go` | none | none; read-only views of a snapshot | `Reports` |
| store | `internal/sqlstore/commands.go`, `idempotency.go` | `conservation_cases`, `idempotency` | `Create`, `Mutate` | `CaseStore` |
| audit chain | `internal/sqlstore/audit.go` | `audit_events` | append, inside `Create` and `Mutate` | `CaseStore`, `ArchiveService` |
| projections | `internal/sqlstore/projections.go`, `integrity.go` | seven tables | rewritten inside `Create` and `Mutate` | `Projections`; one table in `CaseStore` |
| queries | `internal/sqlstore/queries.go` | none | none; several queries, no transaction | `ArchiveService` |
| opening the database | `internal/sqlstore/store.go` | schema | `migrate`, `verifyAll` | `ServerRuntime`; what `verifyAll` accepts in `CaseStore` |
| evidence files | `internal/evidence` | one file per case | `Generate` (atomic replacement) | `ArchiveService` |
| application service | `internal/application` | none | one method per command, `Archive` | `CaseLifecycle`, `CaseStore`, `ArchiveService` |
| HTTP API | `internal/httpapi` | none | decodes, dispatches, answers | which answer is given, and that it may be lost |
| server process | `cmd/server` | listener, store handle | start, graceful shutdown | `ServerRuntime` |
| self check | `cmd/server/selfcheck.go` | none | a scripted client | no: it is a test |

### How they interact

A handler decodes a request and calls the application service, which checks the role and
builds a `CommandMeta` (request id, expected revision, fingerprint of the body, event
type) and a closure that calls one domain method. `Store.Mutate` opens a transaction,
looks the request id up, loads the row, compares the revision, runs the closure on a
copy, validates the snapshot, and writes the row, the projections, one audit event and
the idempotency row. All of that is one transaction on the only connection the pool has
(`SetMaxOpenConns(1)`), so that transactions never overlap.

The process opens the database before it listens: `Open` migrates the schema and verifies
every case over the same single connection, within ten seconds. A signal makes `Shutdown`
refuse new requests and wait ten seconds for those under way; then the store is closed,
whether they are done or not, and the exit status tells the difference.

Everything else that touches the store does so query by query, with no transaction
around it: `Get` reads the snapshot and then the seven projection tables, `VerifyAudit`
reads the events and then the revision, `Events` does so after reading the events once
itself, and `Archive` strings `Get`, `Events`, `VerifyAudit`, the write of the evidence
file and finally `Mutate` together. Between any two of these, another client's
transaction may commit.

### What is hard about it

* The workflow loops: a plan may be returned, a trial may fail, a checkpoint may
  deviate, an observation may fail and throw a stable case back. No gate may be passed
  twice or skipped on a detour, and no detour may end in a state no command leaves.
* Four people's duties are kept apart (custodian, operator, verifier, releasing
  reviewer); with few people this can exclude everybody.
* Clients lose answers, send requests again, race for a revision and use request ids
  again for other contents or cases.
* A refused release or ethics review fails, and yet commits an audit event. The chain
  therefore has several events per revision, and everything that walks it has to know.
* `Archive` decides in a transaction what it has already written into a file.
* One connection serves the boot, all transactions and all queries. Whoever asks for it
  while holding it waits for itself, and whoever loses it stops the service.
* The process may end at any point, in the middle of a migration or of a transaction, and
  the next one has to go on from what it left.
* The reports repeat the rules of the commands in words of their own, and the projection
  tables repeat them as keys.
* At start-up every stored case is verified, and one that does not pass keeps the whole
  server down. Whatever can be committed has to be acceptable.

`PROJECT.json` lists these as hazards, each with the line where it bites and the
properties that watch it.

### What makes each component correct

* Domain: every accepted sequence of commands leaves a snapshot `ValidateSnapshot`
  accepts (`SnapshotValid`), a signature stands on all gates (`ReleaseGate`,
  `StableIsLongEnough`), plans and approvals match (`ApprovedPlanIsCurrent`), so do
  pauses and open deviations (`DeviationHolds`), evidence is only added to
  (`EvidenceKept`), phases are not walked back (`GatesAreOneWay`), and from
  everywhere the release stays within reach of whoever has not treated the case
  (`ReleaseInReach`).
* Store: `verifyAll` accepts whatever was committed (`BootAccepts`), no update is lost or
  counted twice (`OneEventPerRevision`, `SnapshotIsHistory`), a request has one effect
  (`AppliedOnce`), a client told of success is told the truth (`AnswersHold`), nothing is
  rewritten (`History`), and all in all the store implements `OnceOnly` (`KeepsPromise`).
* Reports: what a report says is what the commands do: regions still to be recorded
  (`CoverageAgrees`), the decision on each version (`HistoryAgrees`), the trial gate
  (`TrialGateAgrees`), the next step and the progress (`NextStepAgrees`,
  `ProgressAgrees`), who may sign (`EligibilityAgrees`).
* Projections: no accepted command meets a key of the tables (`SyncFits`), and what was
  written is read back in the order of each query (`SyncReadsBack`).
* Process: nobody is served from a database that is not ready (`ServesOpenedStore`), the
  connection is never lost (`NoConnectionLeak`), exit status 0 means nobody was left
  (`GracefulShutdown`), the tables change as the store has them change (`RefinesStore`),
  the service comes back (`ComesUp`) and who keeps asking gets there (`RequestsSettle`).
* Archive: a sealed case comes with evidence that verifies (`EvidenceVerifies`), what was
  sealed is what was bundled (`SealedIsBundled`), the file is about this case
  (`FileIsOnTimeline`), sealing is final (`SealedForGood`) and does happen
  (`EventuallySealed`).

## 2. The modules

```
ConservationCase ──── CaseLifecycle ──┬── Reports ─────┬── MCCaseLifecycle
   (operations)        (the workflow) └── Projections ─┘
        │
        └──── ArchiveService ──── MCArchiveService
                    │ INSTANCE
OnceOnly ◁─── CaseStore ──── MCCaseStore
 refinement        △
                   └ refinement ── ServerRuntime ──── MCServerRuntime

proofs:  CaseLifecycleProofs ──┬── ReportsProofs      ArchiveServiceProofs
                               └── ProjectionsProofs
         CaseStoreProofs ── CaseStoreRefinement ── ServerRuntimeProofs
lemmas:  SequenceLemmas, under CaseLifecycleProofs, CaseStoreRefinement, ArchiveServiceProofs
```

**ConservationCase** is a translation of `internal/domain` into pure operators on a
record. A method of `*ConservationCase` becomes a pair: `CanX` says when it returns nil,
`X` gives the case it leaves. A method that returns an error needs no operator because
`Mutate` drops the copy it worked on. Texts are left out; a blank text can reach the
stored case only in a draft plan, for which a plan has the flag `complete`. A plan keeps
the stored decision (`ReviewDecision`) next to its status, as the code does; the empty
text it starts with is `"none"`. Thresholds
and measurements are the outcome `EvaluateMetrics` computes from them. A plan step is the
set of its parameter names and a reading is `"within"` or `"off"` its tolerance, `Params`
are the names a plan may carry, `UsableParams` those `ValidateParameters` accepts in a
checkpoint. `IntMax` is the width of Go's `int` for the sum of hours, which wraps around
(`Wrap`). `ValidateSnapshot` is the function of that name, part by part.

**CaseLifecycle** has one variable, the case, and one action per write operation with
every input. A refused command is a stuttering step.

**Reports** adds the read-only views to it, each as a function of the case that returns
the record the report shows, as far as the model has what it shows. It has no action: the
properties compare, in every state, what a report says with what the commands decide.

**Projections** adds the seven tables of one case and of another whose rows lie between
its own. A row has its case, its row number, its identifier (the position in its list),
the column its table keeps unique, and the entry as one value. `syncProjections` deletes
and inserts as the code does, `verifyProjections` reads the tables back in the order of
each query. The tables are a function of the case before and after a command, so that
this module has no variable either.

**CaseStore** models `internal/sqlstore` over an abstract aggregate (`Items`, `New`,
`Accepts`, `Result`, `Valid`). One action per outcome of `Mutate` and `Create`, in the
order the code tries them: `Replay`, `Reused` (conflict), `UnknownCase`,
`StaleRevision`, `RefuseSilently`, `RefuseAudited`, `RefuseUnsound`, `Apply`; and
`Insert`. Their guards exclude each other, as the early returns do. `Reply` gives the
answer to the client or loses it. A transaction that fails before its commit is a
stutter. SHA-256 is taken to be free of collisions: a hash is the list of what was hashed
into the chain so far.

**OnceOnly** is what a client of the store relies on, in two actions: a request takes
effect once, on the revision it expects (`Take`), and its answer tells where that effect
is in the journal of the case (`Tell`). `CaseStore!KeepsPromise` is the refinement: the
journal of a case is the list of request ids its accepted events carry, by revision.

**ArchiveService** models the compound operations, query by query, on the tables of
`CaseStore` with the domain of `ConservationCase`. `pc` and `local` are the program
counter and the local variables of each goroutine.

| place | the goroutine is about to | code |
| --- | --- | --- |
| `idle` | start a call | |
| `projections` | run the other queries of `Get` | `queries.go`, then `archive.go` compares the revision |
| `events`, `chain`, `chainRevision` | run the queries of `Events` | `audit.go` |
| `head`, `headRevision` | run the queries of `VerifyAudit` | `audit.go` |
| `generate` | write the evidence file | `bundle.go` |
| `seal` | run `Mutate` | `commands.go` |
| `file` | read the evidence file | `bundle.go`, `verify.go` |

`Abandon` ends a goroutine anywhere: its client has hung up, a query or a write has
failed, or the server has crashed and restarted (nothing of it is kept but tables and
files). `GenerateFails` is the one failure that is not like that: the directory cannot be
synchronised after the file has been replaced. A list of audit events is represented by
its last hash, which contains them all, and `manifest_digest` by the moment a bundle was
generated (`GeneratedAt`, part of the digest).

**ServerRuntime** extends `CaseStore` with the process around it. The tables are the
database file and survive; everything else ends with the process.

| `phase` | the process | left by |
| --- | --- | --- |
| `down` | does not run; `exit` tells how the last one ended | `Start` |
| `migrating` | makes the statements of `migrate` one by one, then lists the cases | `Migrate`, `ListCases` |
| `verifying` | verifies one case after the other | `VerifyCase`, `Listen` |
| `serving` | accepts requests | `Signal` |
| `draining` | waits in `Shutdown` | `Shutdown` |
| `closed`, `overdue` | has closed the store, with no handler left or at the deadline | `Exit` |

`BootFails` and `Crash` end it from anywhere else. `schema` is what the file has of tables
and columns; it starts empty or as an older version left it, without the two columns of
`ensureProjectionColumns`. In the latter case that version may have served any commands
from the file before (`OlderServes`). `stamped` are the cases whose snapshots have
something to say in the two columns, `filled` those whose rows do: `verifyPlanRows`
compares the two (`ColumnsVerified`). It is assumed that the older version, which had no
column for them, kept neither the time of submission nor the decision in its snapshots. `spent` counts the steps of `Open` against `Budget`, which
stands for its ten seconds; `Stall` lets all of them pass at once. `conn` is the holder of
the connection. A handler (`jobs`) waits for it (`Send`, `Ask`), gets it (`Begin`), and
gives it back after its transaction (`Execute`) or after each of its queries (`Query`).
`Execute` is an action of `CaseStore`: what a transaction does takes effect at its commit,
and as long as it holds the only connection nobody can see it half done. `Cancel` is the
end of the request context at any moment: the client has hung up, a statement has failed,
or the handler has panicked. A read never changes a table, so that what it finds is the
subject of `ArchiveService` and only its use of the connection is modelled here.

Definitions whose comment calls them a mutant are plausible mistakes, each in front of
the definition it would replace. They are not used by any specification; `PROJECT.json`
lists which property each of them has to break, so that no property holds whatever the
code does.

## 3. The runs

| run | module, configuration | what it shows |
| --- | --- | --- |
| `case_lifecycle` | `MCCaseLifecycle`, `CaseLifecycle.cfg` | the domain's nine properties hold, six of the reports and two of the projections (72 071 states) |
| `unusable_name` | `CaseUnusableName.cfg` | finding 1 |
| `hour_overflow` | `CaseHourOverflow.cfg` | finding 2 |
| `case_store` | `MCCaseStore`, `CaseStore.cfg` | the store's eight properties hold, the refinement among them (6 705 states) |
| `other_case` | `CaseStoreOtherCase.cfg` | finding 3 |
| `archive_alone` | `MCArchiveService`, `ArchiveAlone.cfg` | one archiver with crashes, failed writes and a reader: evidence verifies and the case is sealed (1 008 states) |
| `archive_race` | `ArchiveRace.cfg` | two archivers and recorded refusals: what still holds (30 865 states) |
| `archive_retry` | `ArchiveRetry.cfg` | finding 4 |
| `archive_twice` | `ArchiveTwice.cfg` | finding 5 |
| `archive_head` | `ArchiveHead.cfg` | finding 6 |
| `false_alarm` | `ArchiveFalseAlarm.cfg` | finding 7 |
| `server` | `MCServerRuntime`, `ServerRuntime.cfg` | the process's seven properties hold, over crashes, failed and slow boots, shutdowns and cancelled requests (22 726 states) |

### Bounds

* `case_lifecycle`: two regions make a baseline that is incomplete, partly covered and
  covered. Two actors are the fewest with which the separation of duties can be kept at
  all, and thus the hardest case for `ReleaseInReach`. `MaxPlans` 2 and `MaxTrials` 2 give a
  returned plan with its successor, a trial of the old version, a failed trial and its
  repetition. Of the five drafts three may not be submitted, one has a step of two
  parameters (one within, one off) and one has two steps (a deviation in the first and
  another in the second). `MaxStability` 3 with 12 and 24 hours: the required time is
  reached at once, in two parts, missed, lost after a failure. `IntMax` 31 lets the sum
  wrap around. Regions and actors are interchangeable (`SYMMETRY`); the run has no
  liveness property, for which symmetry would not be sound. An archived case accepts no
  command, hence `CHECK_DEADLOCK FALSE`; that nothing else is stuck, but a case treated by
  everybody, is `ReleaseInReach`.
* `case_store`: two cases and eight requests. Two of them race for the same revision,
  one id is used for two cases and another for two contents, one command is refused on
  record, one silently and one for the snapshot it would leave, one comes too early.
  Snapshots grow to `MaxRevision` 3 commands. `MaxEvents` 5 lets refusals be recorded
  repeatedly at every revision; it stops only the recording, never an accepted command.
* `archive_alone`, `archive_race`: the case starts where sealing is near, stable at
  revision 9 with the nine events that led there; the release and what follows are in the
  run. `MaxFaults` bounds broken-off operations and `MaxBundles` the files written. In
  `archive_alone` `MaxBundles` 5 is more than two faults and one commit in the way can
  use up, so that it does not stop the archiver that `EventuallySealed` is about.
* `false_alarm`: no fault and no archiver is needed, only a reader and the one commit it
  reads across.
* `server`: one case, created by one request; two commands race for its next revision and
  a third waits for the one after. Two clients are enough for one to hold the connection
  while another waits or is turned away, and a read of two queries gives it back in
  between. `Budget` 16 is exactly the fourteen statements of `migrate`, the list and one
  case, so that one step more is one too many. `MaxTrouble` 2 allows any two crashes,
  signals, failures, slow boots or cancelled requests: a second one while the process
  recovers from the first. The old file may already hold what any of these requests left,
  but the plan of a case made by the older version says nothing in the two columns.
* The reports and projections share the bounds of `case_lifecycle`. A trial of an old
  version, a version saved after a return, a remediated step and a failed observation are
  what they could get wrong, and all of them occur.
* `Remembered` names the kinds of answers the history variable keeps: those the run's
  properties speak of.

### Fairness

`archive_alone`: `FairSpec` adds weak fairness for the steps of each client's own work
(`WF_vars(Work(c))`): a goroutine that can go on does, because the Go scheduler starves
nobody, the pool hands its single connection to one of those that wait as soon as it is
returned, and no request holds it for ever; and a client that has been refused or broken
off asks again. No fairness is put on the commands of others, on failures, or on crashes;
failures are limited in number, because an archiver whose every attempt fails can never
seal anything. `EventuallySealed` is conditional on the release that the model does not
force either.

`server`: in `FairServerSpec`

* `WF(Coming)`: the operator (or a supervisor) starts a process that is down, and a boot
  that can go on does;
* `WF(Shutdown \/ Exit)`: `Shutdown` returns at its deadline at the latest, and `run`
  returns after it;
* `SF(Begin(c))`: a waiting handler is handed the connection in the end. Strong, because
  the connection is free and taken again in turns; `database/sql` picks among the waiters,
  and nobody is passed over for ever;
* `WF(Handle(c))`: a query or transaction under way comes to its end;
* `SF(\E c : Send(c, r))`: a client that wants something sends it again whenever the
  server is there. `RequestsSettle` speaks of exactly those clients.

No fairness is put on signals, crashes, failures, slow boots or cancellations, and they
are limited in number (`MaxTrouble`): a server that is killed in every boot never serves.
`ComesUp` and `RequestsSettle` are conditional on `EnoughTime`, a boot whose steps fit
into its ten seconds: nothing in the code makes them fit when the number of cases grows.

### Findings

Every violation run has one property that restates a sentence of the repository and that
the model of the code breaks.

1. `unusable_name`: `ValidatePlan` only counts the parameters of a step, whereas
   `ValidateParameters` refuses some names in a checkpoint. A plan with such a name is
   approved and can then not be carried out; plans are final once approved, so that the
   case is stuck. `ReleaseInReach` therefore holds in `case_lifecycle` only because all
   parameters are usable there.
2. `hour_overflow`: durations are only checked to be positive and their sum is an `int`.
   Huge durations wrap around and the case stays unstable although the stability report
   promises otherwise. The unsafe direction (stable too early) does not occur:
   `StableIsLongEnough` holds with wrap-around.
3. `other_case`: the fingerprint covers the body, not the case or the endpoint. The same
   body sent to another case is answered with the first case's response.
4. `archive_retry`: `Archive` compares the revision before the request id is looked up. A
   retry of an archive request that succeeded gets `revision_conflict`, not its replay.
5. `archive_twice`: `Generate` has replaced the file when `Mutate` refuses a case that is
   archived already. From then on the archived case's evidence does not verify.
6. `archive_head`: `Archive` reads the events and the chain head in different queries. A
   refused release recorded in between ends up in the head only, and the sealed bundle
   never verifies.
7. `false_alarm`: `Get` reads the snapshot and the projections, and `VerifyAudit` the events
   and the revision, in separate queries without a transaction. A commit in between makes
   a reader of an intact database be told of corrupt projections or a broken chain.
   (`writeError` knows only the second of the two errors; a client sees the first one as
   `internal_error`.)

Because of 5 and 6, `EvidenceVerifies` is checked as an invariant only where one client
archives and no refusal is recorded (`archive_alone`), and `archive_race` checks what is
left of it when others interfere.

Some things that follow from the store's design and contradict no line of the repository
beyond wording are not counted as findings: a refusal is not kept for replay, so that a
request refused first may be accepted when it is sent again; and a replayed success
carries the revision of its own effect, which may not be the newest any more. A case that
everybody has treated can never be released, because no operator may sign; nothing warns
the last one, and `ReleaseInReach` speaks of the others only. Nor are
these of the reports: the trial gate is still shown as passed after the plan it belongs to
was returned (it is a gate of that version, `TrialGateAgrees` says so); and the coverage
of 2000 regions of which one is missing is rounded to 100.0, which `CoverageAgrees` leaves
out (the list of missing regions is right at any size).

## 4. The proofs

The theorems hold for every value of the constants that meets the named assumptions:
`ParamsAssumption`, `NoOneAssumption`, `NoManifestAssumption`, `IntMaxAssumption`
(`ConservationCase`), `PlanBodiesAssumption`, `HoursAssumption` (`CaseLifecycle`),
`RequestsAssumption`, `DomainAssumption`, `NullAssumption` (`CaseStore`),
`QueriesAssumption`, `BudgetAssumption`, `TroubleAssumption`, `HolderAssumption`,
`JobAssumption` (`ServerRuntime`), `StartAssumption`, `CommandsAssumption`,
`CallsAssumption`, `FaultsAssumption`, `NoFileAssumption` (`ArchiveService`). TLC evaluates
them on the runs of the modules they are in. A theorem that needs more says so in its
`ASSUME`.

**SequenceLemmas** is what several proofs need of prefixes and of functions defined by
recursion. The induction theorems of the library take a property as an operator, which the
provers cannot instantiate. `SetInduction` takes the set of the numbers that have the
property, and is proved from the well-foundedness of `Nat`. `RecursionExists` says that
what a recursive function is defined by has a solution: `CHOOSE`, which is what a recursive
function stands for, then finds one, and what holds of its values follows by
`BoundedInduction`. This is why the sums, replays and chains of the models are recursive
functions.

**CaseLifecycleProofs** proves `TypeOK`, `SnapshotValid`, `DeviationHolds`,
`ApprovedPlanIsCurrent`, `ReleaseGate`, `StableIsLongEnough`, `GatesAreOneWay` and
`EvidenceKept`, for any number of regions, actors, plans, trials and observations. None of the invariants is
inductive by itself. `ValidateSnapshot` would let a
signed case return to treatment, or a second plan follow an approved one; `ReleaseGate`
says nothing of a case that has not been signed yet. The inductive invariant `IInv` is

* `TypeOK`, and `Sound`: `ValidateSnapshot`, a pause exactly while the last checkpoint is
  an open deviation, an approved plan that is the newest and only one exactly in the states
  from approval on, a signature exactly in the states from release on;
* `CustodianDecides`: whoever asked, the verdict on a plan carries the registered
  custodian's name.

The proof has a lemma per operation and part: `...Type` (the operation stays in `Case`),
`...Sound` (it preserves `Sound`), `...Custodian`, and the `...Frame` lemmas, which say
that the parts of `ValidateSnapshot` depend only on some fields. `NextInv` puts them
together with one step per action. `GateHolds` derives the gate from `IInv`. The two
action properties are proved from `IInv` operation by operation: a command keeps the
evidence because it only appends (or rewrites the one checkpoint that is an open
deviation), and it walks no gate back because the state it asks for excludes it.
`StabilityIsReal` compares the sum in an `int` that wraps around, which the code takes,
with the real one: `Wrap` never makes a number of at least the smallest `int` larger, so
that by induction along the list the wrapped sum is at most the real one
(`TotalAtMostTrue`), and 24 wrapped hours are 24 hours, at any width.

**CaseStoreProofs** proves `TypeOK`, `BootAccepts`, `OneEventPerRevision` and
`AppliedOnce`, for any cases, requests and domain. The inductive invariant is their
conjunction, with the audit chain of a case (`Intact`) spelt out for cases without a row
too. `Steps` first reduces the nine outcomes of a request to three: the tables stay, a
refusal is recorded, or a commit (`Effect`). `ChainGrows` is the lemma about
`verifyEvents`: an event appended to an intact chain at its last revision or the next one
leaves it intact. `Renumbering` says which events of a grown chain are accepted commands.

It also proves `History` from the same three outcomes, and `AnswersHold`.
The latter speaks of answers only; what makes it inductive is `Remembering`: whatever
success a client was told is in the idempotency table word for word, and every entry of
the table tells of an event that is on record. As the table and the chain only grow, an
answer stays true.

**CaseStoreRefinement** proves that `CaseStore` implements `OnceOnly` (`KeepsPromise`).
The journal of a case is a choice of events by revision; `Counted` states when that
choice is unique (the accepted events are numbered 1 to k without a gap), and
`JournalGrows` that one more accepted command appends to the journal while a recorded
refusal leaves it. A commit then is `Take` (the idempotency table has no entry for the
request, hence by `AppliedOnce` no journal has it), a replay is `Tell` by
`Remembering`, and everything else stutters.

It also proves `SnapshotIsHistory`. `Replayed` computes from the requests that fit the
record (`Makers`: identifier, fingerprint, case and expected revision) all snapshots a case
may have at each revision. The inductive invariant is that there is a past (`IsPast`), a
list of snapshots each of which is an outcome of the one before, that ends in the row. A
commit makes it longer by one (`PastGrows`), and no step changes the makers of an older
revision: its entry in the idempotency table stays, and the request of a new effect is in
no journal yet. `PastIsReplayed` finds the past in `Replayed` by induction on the revision.

**ReportsProofs** proves the six properties of the reports, and `ReleaseInReach`. They need
more than `IInv` says: that the report shows an open gate only for a version on which a
decision is due or made, that each version has the decision its status and its trials
call for, and that there is a next step while treatment goes on, are facts about how the
case got there. `RInv` adds them as `Ready` (`TrialDecides`, `Verdicts`, `StepsLeft`),
with a `...Ready` lemma per operation. `NextStepIsTrue` assumes that every parameter name
is usable (finding 1 is what happens otherwise), `CoverageIsTrue` that the regions are
finitely many.

`ReleaseStaysInReach` is about getting to the end rather than about having a next command.
The distance of a case from its release is a pair: `GatesLeft`, and `WorkLeft` before the
next gate (regions, or steps and their verification). The theorem says that for everyone
who has not treated the case there is a command that makes the pair smaller, without that
person treating it; pairs of numbers do not fall for ever, and so following these commands
leads to the release (the induction along the path is the reader's, as such an induction is
beyond the provers). A lemma per state (`Reach...`) gives the command. Four assumptions are
in the theorem, and none can be dropped: names are usable, the regions are finitely many,
some plan passes `ValidatePlan`, and an int holds 26 hours. The last is arithmetic: the
code adds the hours up with wrap-around, after which one more observation has to
make up for any sum; two always can, if the `int` is not too narrow (`HoursSuffice`).

**ProjectionsProofs** proves `SyncFits` and `SyncReadsBack` from `IInv`. A `Block` is what
one command inserts for a case: rows numbered from some a + 1 on. `AfterBlocks` finds that
after a command each table is one block of either case, `EntriesShape` that the entries of
a valid snapshot have no unique column twice (this is where `ValidateSnapshot` is needed),
`BlockByRowid` and `BlockByUnique` that a block is read back as its list, by counting the
rows that come before each. With these proofs the single table of `CaseStore` stands for
the seven.

**ServerRuntimeProofs** proves the four invariants of `ServerRuntime` and that it
implements `CaseStore` (`ProcessIsStore`): a step of the process leaves the tables alone or
is a transaction of the store. All that is proved of the store therefore holds across
crashes and restarts (`AnswersOutliveProcess`: effects once, answers, history, `OnceOnly`). The inductive invariant `RuntimeInv` adds to
the types: the holder of the connection is the handler that runs, and nobody has a job
unless the process is up (`PoolInv`); every statement before the current one has had its
effect, whoever made it (`SchemaInv`); whoever was turned away is remembered until the exit
(`ServedInv`); and the added columns tell what the snapshots tell (`ColumnsInv`). `ServesReadyStore` then only needs `BootAlwaysAccepts`.

**ArchiveServiceProofs** proves all invariants of `ArchiveService` and `SealedForGood`, for
any cases, clients and calls, over crashes and failed writes, in layers:

* `AInv`, for `SealedIsBundled` and `SealedForGood`: for each client, what it has read is
  the row as it is or as it was at an earlier revision (`ReadInv`), and the manifest it is
  about to hand over belongs to a bundle of just that (`BundledInv`). `Mutate` accepts the
  seal at the revision that was read, and at the same revision it is the same row.
* `LedgerInv`, for `DatabaseSound`: each case has the chain, snapshot and projections
  `verifyAll` accepts. Its first state is a chain the past has left (`PastChain`, an
  induction over `Past`); `TablesStep` says what a transaction does to it. `StartAssumption`
  asks of the start what `CaseLifecycleProofs` and `CaseStoreProofs` show of every case:
  a valid snapshot, and a revision that is the number of accepted commands.
* `TypeInv`, for `TypeOK`, with the types of what a client holds. It assumes `ManifestsFit`:
  the domain's constant `Manifests` has the manifest of every bundle. (`MCManifests` does.)
* `FilesInv`, for `FileIsOnTimeline`: whatever a client has read of the events is a prefix
  of the timeline, and stays one because the timeline only grows.
* `EvidenceInv`, for `EvidenceVerifies`. Findings 5 and 6 are how it fails, and `Undisturbed`
  excludes just these two: a case is sealed by one client and for one revision, and nobody
  else sends a signature for that revision (which would be refused on record). Any readers,
  other cases, failures and retries are allowed. The invariant then is that as long as the
  case is at the expected revision, what the client has read of the row and the chain is
  the newest there is, the list it bundles and the head it signs are the same, and the
  file is the one it wrote (`FreshInv`); that a sealed case is past every revision somebody
  wants to seal (`SealedInv`); and that its file matches its manifest (`MatchInv`). The
  constants of `archive_alone` meet `Undisturbed`, those of `archive_twice` and
  `archive_head` each break one part of it, and the invariant with it.

Model-checked only: the liveness properties `EventuallySealed`, `ComesUp` and
`RequestsSettle`. Fairness and `ENABLED` are out of the prover's reach. The runs that expect
a violation show their findings on an instance, which is all a counterexample needs.

## 5. What is not modelled

* Of the reports `BuildPlanDiff`, the severities of conditions and the trends of
  measurements: they lay out texts and numbers the models do not have. So are formatting
  and dates.
* JSON, routing, headers, limits on bodies, the roles' names: they refuse a request
  before anything changes.
* The columns of a projection row one by one: `Projections` takes them for one value.
  Columns that `verifyProjections` does not compare (times of recording) are left out.
* Corruption of the database or the files from outside: the code's checks against it are
  modelled, but nothing in the models tampers. What is checked is that they never refuse
  what the service itself wrote.
* Indexes and pragmas of `migrate`, which change no answer; configuration, which is read
  before there is any state.
* Two processes on one data directory. The service is meant to be the only one, and
  `ServerRuntime` has one at a time.
* How long a statement takes: `Budget` counts steps, and `Stall` lets the time pass.
* The self check: it plays one path through the API of a server of its own and compares
  the answers. Each of its steps is a behaviour of the modules above.

## 6. The plan

The order is that of importance; 1 to 10 are done.

1. `ConservationCase`, `CaseLifecycle`: the workflow, its gates and its findings.
2. `CaseLifecycleProofs`: `TypeOK` and the safety invariants.
3. `CaseStore`, `OnceOnly`: transactions, optimistic locking, idempotency, audit, and the
   refinement.
4. `CaseStoreProofs`: what `verifyAll` accepts, and that effects happen once.
5. `ArchiveService`: the compound operations with interleaving, crashes and liveness.
6. `Reports`, `Projections`: the read-only views and the tables against the commands, with
   their proofs.
7. `ServerRuntime`: start, the single connection, graceful shutdown, crash and restart; its
   invariants, the refinement of `CaseStore`, liveness.
8. `CaseStoreProofs`, `CaseStoreRefinement`: answers, history, the refinement of `OnceOnly`.
9. `ArchiveServiceProofs`: `SealedIsBundled`, `SealedForGood`.
10. `SequenceLemmas`, and with them `StableIsLongEnough`, `SnapshotIsHistory`, `DatabaseSound`,
    `FileIsOnTimeline`, the type invariant of `ArchiveService`, and `EvidenceVerifies` for an
    archiver nobody disturbs.
11. To come: an abstract specification of sealing, implemented by `ArchiveService`, and the
    store's promise for its transactions.
