---------------------------- MODULE ServerRuntime ----------------------------
(***************************************************************************)
(* The server process around the store: cmd/server, the opening of the     *)
(* database in internal/sqlstore/store.go, and the one connection of its   *)
(* pool (SetMaxOpenConns(1)) that boot, transactions and queries share.    *)
(*                                                                         *)
(* The process comes up in steps (migrate, list the cases, verify each,    *)
(* listen), serves clients until a signal or a crash, and is started again *)
(* by its operator.  The tables of CaseStore survive all of it; jobs and   *)
(* the connection do not.  A transaction of CaseStore is the step Execute, *)
(* which takes effect at its commit: until then it holds the connection,   *)
(* so that nobody else reads or writes, and broken off it leaves no trace. *)
(*                                                                         *)
(* external: of database/sql that a waiting caller is handed the           *)
(* connection when it is free, that Close refuses whoever waits but leaves *)
(* a transaction under way alone, and that a transaction is rolled back    *)
(* when its context ends; of net/http that Shutdown accepts nothing new    *)
(* and waits for the handlers.  One process has the database at a time.    *)
(*                                                                         *)
(* A definition said to be a mutant is one a mistake in the code could     *)
(* turn the next one into; it is there to test the properties with.        *)
(***************************************************************************)
EXTENDS CaseStore

CONSTANTS
    Clients,      \* connections of HTTP clients
    Queries,      \* how many queries a read issues, one after the other
    Budget,       \* how many steps of Open fit into its ten seconds
    MaxTrouble,   \* bound of the model: crashes, signals, failures, delays
    Nobody,       \* the connection is free
    Boot,         \* the connection is held by Open
    NoJob,        \* a client without a request under way
    ReadOnly      \* the request of a read

ASSUME QueriesAssumption == Queries \in Nat \ {0}
ASSUME BudgetAssumption == Budget \in Nat
ASSUME TroubleAssumption == MaxTrouble \in Nat
ASSUME HolderAssumption == Nobody \notin Clients /\ Boot \notin Clients /\ Nobody # Boot

VARIABLES
    phase,        \* how far the process is
    schema,       \* what the database file has of Objects
    stamped,      \* cases with a plan submitted or decided on, by the snapshot
    filled,       \* ... by submitted_at and review_decision of treatment_plans
    statement,    \* the next statement of migrate
    unchecked,    \* cases verifyAll has still to verify
    spent,        \* steps Open has made
    conn,         \* who holds the connection
    jobs,         \* the request each client waits for
    unserved,     \* clients this process has turned away or left (history)
    exit,         \* how the last process ended (history)
    trouble       \* how often something went wrong (bound)

database == <<vars, stamped, filled>>
process == <<phase, statement, unchecked, spent, exit>>
work == <<conn, jobs, unserved>>
serverVars == <<database, process, work, schema, trouble>>

\* Something the code does not control happens.
Trouble == trouble < MaxTrouble /\ trouble' = trouble + 1

-----------------------------------------------------------------------------
(* Open of store.go.  Indexes and pragmas are left out.                    *)

\* The tables, the version row and the two columns migrate takes care of, in
\* its order.
Objects == <<"schema_migrations", "version", "conservation_cases", "idempotency",
             "audit_events", "condition_observations", "treatment_plans",
             "compatibility_trials", "treatment_checkpoints", "stability_observations",
             "release_signatures", "archive_manifests",
             "submitted_at", "review_decision">>

Columns == {"submitted_at", "review_decision"}

Complete == {Objects[i] : i \in DOMAIN Objects}

\* treatment_plans is created with the columns.
Makes(object) == {object} \cup (IF object = "treatment_plans" THEN Columns ELSE {})

\* Mutant: a database that has its version row is not migrated any more.
MigratedVersion(object) ==
    IF {object, "version"} \cap schema # {} THEN schema ELSE schema \cup Makes(object)

\* CREATE IF NOT EXISTS, INSERT OR IGNORE, and ALTER for a missing column.
Migrated(object) == IF object \in schema THEN schema ELSE schema \cup Makes(object)

\* Mutant: the deadline is not passed on.
InTimeAlways == TRUE

InTime == spent < Budget

Start ==
    /\ phase = "down"
    /\ phase' = "migrating" /\ statement' = 1 /\ unchecked' = {} /\ spent' = 0
    /\ exit' = "none"
    /\ unserved' = {}
    /\ UNCHANGED <<database, schema, conn, jobs, trouble>>

\* A step of Open that gets the connection before the deadline.
OpenStep == conn = Nobody /\ InTime /\ spent' = spent + 1

\* Mutant: a column that is added is filled in for the plans that are there.
MigrateFilling ==
    /\ phase = "migrating" /\ statement \in DOMAIN Objects
    /\ OpenStep
    /\ schema' = Migrated(Objects[statement])
    /\ filled' = IF schema' \cap Columns = schema \cap Columns THEN filled
                 ELSE {case \in Cases : Exists(case)}
    /\ statement' = statement + 1
    /\ UNCHANGED <<vars, stamped, phase, unchecked, exit, work, trouble>>

\* ALTER leaves NULL or '' in the rows it finds.
Migrate ==
    /\ phase = "migrating" /\ statement \in DOMAIN Objects
    /\ OpenStep
    /\ schema' = Migrated(Objects[statement])
    /\ statement' = statement + 1
    /\ UNCHANGED <<database, phase, unchecked, exit, work, trouble>>

\* Mutant: the result set stays open while the cases are verified.
ListCasesOpen ==
    /\ phase = "migrating" /\ statement \notin DOMAIN Objects
    /\ OpenStep
    /\ phase' = "verifying"
    /\ unchecked' = {case \in Cases : Exists(case)}
    /\ conn' = IF unchecked' = {} THEN Nobody ELSE Boot
    /\ UNCHANGED <<database, statement, exit, jobs, unserved, schema, trouble>>

\* verifyAll lists the cases and closes the result set.
ListCases ==
    /\ phase = "migrating" /\ statement \notin DOMAIN Objects
    /\ OpenStep
    /\ phase' = "verifying"
    /\ unchecked' = {case \in Cases : Exists(case)}
    /\ UNCHANGED <<database, statement, exit, work, schema, trouble>>

\* Of verifyAll: verifyPlanRows finds the plans of the snapshot in the columns.
ColumnsVerified(case) == case \in stamped <=> case \in filled

VerifyCase ==
    /\ phase = "verifying"
    /\ OpenStep
    /\ \E case \in unchecked :
          /\ CaseVerified(case) /\ ColumnsVerified(case)
          /\ unchecked' = unchecked \ {case}
    /\ UNCHANGED <<database, phase, statement, exit, work, schema, trouble>>

\* The listener is opened and Serve runs.
Listen ==
    /\ phase = "verifying" /\ unchecked = {}
    /\ phase' = "serving"
    /\ UNCHANGED <<database, statement, unchecked, spent, exit, work, schema, trouble>>

\* The machine is slow, and the ten seconds pass.
Stall ==
    /\ phase \in {"migrating", "verifying"}
    /\ InTime /\ Trouble
    /\ spent' = Budget
    /\ UNCHANGED <<database, phase, statement, unchecked, exit, work, schema>>

\* Open cannot go on: time is up, or nobody will give the connection back
\* before it is, or a case is refused.
Stuck ==
    /\ phase = "migrating" \/ unchecked # {}
    /\ \/ ~InTime \/ conn # Nobody
       \/ \E case \in unchecked : ~CaseVerified(case) \/ ~ColumnsVerified(case)

\* An error closes the store; so does a listener that cannot be opened.
BootFails ==
    /\ phase \in {"migrating", "verifying"}
    /\ \/ Stuck /\ UNCHANGED trouble
       \/ Trouble
    /\ phase' = "down" /\ exit' = "failed" /\ conn' = Nobody
    /\ UNCHANGED <<database, statement, unchecked, spent, jobs, unserved, schema>>

-----------------------------------------------------------------------------
(* Handlers and the connection.                                            *)

Job == [request : Requests \cup {ReadOnly}, queries : 0..Queries, at : {"waiting", "running"}]
ASSUME JobAssumption == NoJob \notin Job /\ ReadOnly \notin Requests

Busy(c) == jobs[c] # NoJob
Waiting(c) == Busy(c) /\ jobs[c].at = "waiting"
Running(c) == Busy(c) /\ jobs[c].at = "running"

\* The handler of a write: one transaction.
Send(c, r) ==
    /\ phase = "serving" /\ ~Busy(c)
    /\ jobs' = [jobs EXCEPT ![c] = [request |-> r, queries |-> 0, at |-> "waiting"]]
    /\ UNCHANGED <<database, process, conn, unserved, schema, trouble>>

\* The handler of a read: queries without a transaction.
Ask(c) ==
    /\ phase = "serving" /\ ~Busy(c)
    /\ jobs' = [jobs EXCEPT ![c] = [request |-> ReadOnly, queries |-> Queries, at |-> "waiting"]]
    /\ UNCHANGED <<database, process, conn, unserved, schema, trouble>>

\* BeginTx or QueryContext gets the connection.
Begin(c) ==
    /\ phase \in {"serving", "draining"}
    /\ Waiting(c) /\ conn = Nobody
    /\ conn' = c
    /\ jobs' = [jobs EXCEPT ![c].at = "running"]
    /\ UNCHANGED <<database, process, unserved, schema, trouble>>

\* A command, but for the one that creates the case, may submit or decide on a
\* plan; syncProjections writes the rows of a changed case anew.
Stamp ==
    LET changed == {case \in Cases : rows'[case] # rows[case]}
    IN  /\ \E some \in SUBSET {case \in changed : Exists(case)} : stamped' = stamped \cup some
        /\ filled' = (filled \ changed) \cup (stamped' \cap changed)

\* The transaction runs to its end and is answered.
Execute(c) ==
    /\ Running(c) /\ jobs[c].request # ReadOnly
    /\ Create(jobs[c].request) \/ Mutate(jobs[c].request)
    /\ Stamp
    /\ conn' = Nobody
    /\ jobs' = [jobs EXCEPT ![c] = NoJob]
    /\ UNCHANGED <<process, unserved, schema, trouble>>

\* The job of a read after one of its queries.
AfterQuery(job) ==
    IF job.queries = 1 THEN NoJob
    ELSE [job EXCEPT !.queries = @ - 1, !.at = "waiting"]

\* Mutant: the next query is issued before the last result set is closed.
QueryHolding(c) ==
    /\ Running(c) /\ jobs[c].request = ReadOnly
    /\ conn' = IF jobs[c].queries = 1 THEN Nobody ELSE c
    /\ jobs' = [jobs EXCEPT ![c] = AfterQuery(jobs[c])]
    /\ UNCHANGED <<database, process, unserved, schema, trouble>>

\* One query is done and its result set closed.
Query(c) ==
    /\ Running(c) /\ jobs[c].request = ReadOnly
    /\ conn' = Nobody
    /\ jobs' = [jobs EXCEPT ![c] = AfterQuery(jobs[c])]
    /\ UNCHANGED <<database, process, unserved, schema, trouble>>

\* Mutants: the connection is not given back, or a row is kept of a
\* transaction that is broken off.
CancelHolding(c) ==
    /\ Busy(c) /\ Trouble
    /\ jobs' = [jobs EXCEPT ![c] = NoJob]
    /\ UNCHANGED <<database, process, conn, unserved, schema>>
CancelTorn(c) ==
    /\ Running(c) /\ jobs[c].request # ReadOnly /\ jobs[c].request.create
    /\ Trouble
    /\ \E case \in Cases :
          rows' = [rows EXCEPT ![case] = [item |-> New(jobs[c].request), revision |-> 1]]
    /\ conn' = Nobody
    /\ jobs' = [jobs EXCEPT ![c] = NoJob]
    /\ UNCHANGED <<projections, audit, idempotency, answers, stamped, filled,
                   process, unserved, schema>>

\* The client hangs up, a statement fails or the handler panics: the request
\* context ends, and with it the wait or the transaction.
Cancel(c) ==
    /\ Busy(c) /\ Trouble
    /\ conn' = IF conn = c THEN Nobody ELSE conn
    /\ jobs' = [jobs EXCEPT ![c] = NoJob]
    /\ UNCHANGED <<database, process, unserved, schema>>

-----------------------------------------------------------------------------
(* The end of the process: main.go and close of runtime.go.                *)

\* Mutant: the store is closed without waiting.
SignalClosing ==
    /\ phase = "serving" /\ Trouble
    /\ phase' = "closed"
    /\ UNCHANGED <<database, statement, unchecked, spent, exit, work, schema>>

\* SIGINT or SIGTERM: Shutdown closes the listener and waits.
Signal ==
    /\ phase = "serving" /\ Trouble
    /\ phase' = "draining"
    /\ UNCHANGED <<database, statement, unchecked, spent, exit, work, schema>>

\* Shutdown returns, nil when the last handler is done and an error when ten
\* seconds are up; either way the store is closed next.
Shutdown ==
    /\ phase = "draining"
    /\ phase' = IF \E c \in Clients : Busy(c) THEN "overdue" ELSE "closed"
    /\ UNCHANGED <<database, statement, unchecked, spent, exit, work, schema, trouble>>

\* The closed store refuses a handler that still waits for the connection.
Refused(c) ==
    /\ phase \in {"closed", "overdue"}
    /\ Waiting(c)
    /\ jobs' = [jobs EXCEPT ![c] = NoJob]
    /\ unserved' = unserved \cup {c}
    /\ UNCHANGED <<database, process, conn, schema, trouble>>

\* The process is gone, and with it what was under way.
Gone(how) ==
    /\ phase' = "down" /\ exit' = how
    /\ conn' = Nobody
    /\ jobs' = [c \in Clients |-> NoJob]
    /\ unserved' = unserved \cup {c \in Clients : Busy(c)}
    /\ UNCHANGED <<database, statement, unchecked, spent, schema>>

\* run returns what Shutdown returned, or else what closing the store did:
\* nil is exit status 0.
Exit ==
    /\ phase \in {"closed", "overdue"}
    /\ \/ Gone(IF phase = "closed" THEN "clean" ELSE "failed") /\ UNCHANGED trouble
       \/ Gone("failed") /\ Trouble

\* A crash; or Serve fails and main returns its error, closing nothing.
Crash == phase # "down" /\ Trouble /\ Gone("crashed")

-----------------------------------------------------------------------------
\* external: the version without the two columns has served its clients from
\* the file; it recorded neither when a plan was submitted nor the decision.
OlderServes ==
    /\ phase = "down" /\ schema = Complete \ Columns
    /\ \E r \in Requests : Create(r) \/ Mutate(r)
    /\ UNCHANGED <<stamped, filled, process, work, schema, trouble>>

\* An empty file, or the database of the version without the two columns.
ServerInit ==
    /\ Init
    /\ phase = "down"
    /\ schema \in {{}, Complete \ Columns}
    /\ stamped = {} /\ filled = {}
    /\ statement = 1 /\ unchecked = {} /\ spent = 0
    /\ conn = Nobody
    /\ jobs = [c \in Clients |-> NoJob]
    /\ unserved = {}
    /\ exit = "none"
    /\ trouble = 0

Coming == Start \/ Migrate \/ ListCases \/ VerifyCase \/ Listen \/ BootFails

Going == Signal \/ Shutdown \/ Exit \/ Crash

Handle(c) == Execute(c) \/ Query(c)

ServerNext ==
    \/ Coming \/ Stall \/ Going \/ OlderServes
    \/ \E c \in Clients :
          \/ Ask(c) \/ \E r \in Requests : Send(c, r)
          \/ Begin(c) \/ Handle(c) \/ Cancel(c) \/ Refused(c)

ServerSpec == ServerInit /\ [][ServerNext]_serverVars

\* The operator starts what is down, the process goes on, the pool hands the
\* connection to every waiter in turn, and clients send what matters to them
\* again and again.
FairServerSpec ==
    /\ ServerSpec
    /\ WF_serverVars(Coming) /\ WF_serverVars(Shutdown \/ Exit)
    /\ \A c \in Clients : SF_serverVars(Begin(c)) /\ WF_serverVars(Handle(c))
    /\ \A r \in Requests : SF_serverVars(\E c \in Clients : Send(c, r))

-----------------------------------------------------------------------------
Phases == {"down", "migrating", "verifying", "serving", "draining", "closed", "overdue"}

(* The process and its pool hold what they are declared to hold; Open      *)
(* makes no step after its deadline.                                       *)
RuntimeTypeOK ==
    /\ phase \in Phases
    /\ schema \subseteq Complete
    /\ stamped \subseteq Cases /\ filled \subseteq Cases
    /\ statement \in 1..(Len(Objects) + 1)
    /\ unchecked \subseteq Cases
    /\ spent \in 0..Budget
    /\ conn \in Clients \cup {Nobody, Boot}
    /\ jobs \in [Clients -> Job \cup {NoJob}]
    /\ unserved \subseteq Clients
    /\ exit \in {"none", "clean", "failed", "crashed"}
    /\ trouble \in 0..MaxTrouble

(* Nobody is served from a database that is not ready: while handlers run, *)
(* every table and column is there, wherever earlier attempts to migrate   *)
(* an empty file or one with cases in it broke off, and every case passes  *)
(* verifyAll, the two columns that were added included.                    *)
ServesOpenedStore ==
    phase \in {"serving", "draining"} \/ (\E c \in Clients : Busy(c)) =>
        /\ schema = Complete /\ BootAccepts
        /\ \A case \in Cases : ColumnsVerified(case)

(* The only connection is never lost: whoever holds it is a handler in the *)
(* middle of a query or transaction, so that it comes back, and nobody     *)
(* works without it or waits for itself.                                   *)
NoConnectionLeak ==
    /\ \A c \in Clients : conn = c <=> Running(c)
    /\ phase \in {"serving", "draining"} => conn # Boot

(* Exit status 0 after a signal means that every request the process took  *)
(* in was carried through (README: it shuts down gracefully).              *)
GracefulShutdown == exit = "clean" => unserved = {}

(* Whatever the process goes through, the tables only change as CaseStore  *)
(* has them change: what is proved of CaseStore holds across restarts.     *)
RefinesStore == Spec

\* Open has time for its statements, the list and every case.
EnoughTime == Budget >= Len(Objects) + 1 + Cardinality(Cases)

(* The service comes back after every end, if Open has time for all cases: *)
(* nothing a process leaves behind, in the middle of a migration or of a   *)
(* transaction, keeps the next one from serving.                           *)
ComesUp == EnoughTime => (phase = "down" ~> phase = "serving")

\* A command is settled when it took effect or its revision is over.
Settled(r) ==
    \/ ~Fresh(r)
    \/ ~r.create /\ Exists(r.case) /\ rows[r.case].revision > r.expected

(* Who keeps asking gets there: every request is settled in the end, over  *)
(* competing handlers, lost answers, restarts and shutdowns.               *)
RequestsSettle == EnoughTime => \A r \in Requests : <>Settled(r)

=============================================================================
