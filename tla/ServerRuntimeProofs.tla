------------------------ MODULE ServerRuntimeProofs ------------------------
(* Proofs about ServerRuntime: what was proved of the store holds across   *)
(* restarts, and the process neither loses its connection nor serves from  *)
(* a database that is not ready.                                           *)
EXTENDS ServerRuntime, CaseStoreRefinement

-----------------------------------------------------------------------------
(* The inductive invariant.                                                *)

Up == {"serving", "draining", "closed", "overdue"}

\* A read has a query left; only a process that is up has jobs, and the
\* connection is with the job that runs.
PoolInv ==
    /\ \A c \in Clients : Busy(c) /\ jobs[c].request = ReadOnly => jobs[c].queries > 0
    /\ \A c \in Clients : conn = c <=> Running(c)
    /\ conn # Boot
    /\ phase \notin Up => \A c \in Clients : ~Busy(c)

\* The statements made so far have had their effect, whoever made it.
SchemaInv ==
    /\ phase = "migrating" => \A i \in 1..(statement - 1) : Objects[i] \in schema
    /\ phase \in Up \cup {"verifying"} => schema = Complete

\* The columns always tell what the snapshots tell.
ColumnsInv == filled = stamped

\* Whom the process has turned away is known, and it exits accordingly.
ServedInv ==
    /\ phase \notin {"down", "overdue"} => unserved = {}
    /\ phase = "closed" => \A c \in Clients : ~Busy(c)
    /\ exit = "clean" => phase = "down" /\ unserved = {}

RuntimeInv == RuntimeTypeOK /\ PoolInv /\ SchemaInv /\ ServedInv /\ ColumnsInv

LEMMA ObjectFacts ==
    /\ Len(Objects) = 14 /\ DOMAIN Objects = 1..14
    /\ \A i \in 1..14 : Objects[i] \in Complete /\ Makes(Objects[i]) \subseteq Complete
                        /\ Objects[i] \in Makes(Objects[i])
    /\ \A object \in Complete : \E i \in 1..14 : object = Objects[i]
<1>1. Len(Objects) = 14 /\ DOMAIN Objects = 1..14
    BY DEF Objects
<1>2. Objects[13] = "submitted_at" /\ Objects[14] = "review_decision"
    BY DEF Objects
<1> HIDE DEF Objects
<1>3. Columns \subseteq Complete
    BY <1>1, <1>2 DEF Columns, Complete
<1> QED
    BY <1>1, <1>3 DEF Complete, Makes

LEMMA JobFields ==
    ASSUME NEW job \in Job
    PROVE  /\ job.request \in Requests \cup {ReadOnly}
           /\ job.queries \in 0..Queries /\ job.at \in {"waiting", "running"}
           /\ job # NoJob
BY JobAssumption DEF Job

LEMMA InitRuntime == ServerInit => RuntimeInv
<1> SUFFICES ASSUME ServerInit PROVE RuntimeInv
    OBVIOUS
<1>1. RuntimeTypeOK
    BY ObjectFacts, BudgetAssumption, TroubleAssumption
    DEF ServerInit, RuntimeTypeOK, Phases
<1>2. PoolInv
    BY HolderAssumption DEF ServerInit, PoolInv, Busy, Running, Up
<1>3. SchemaInv /\ ServedInv /\ ColumnsInv
    BY DEF ServerInit, SchemaInv, ServedInv, ColumnsInv, Up
<1> QED
    BY <1>1, <1>2, <1>3 DEF RuntimeInv

-----------------------------------------------------------------------------
(* The steps that bring the process up.                                    *)

LEMMA ComingStep ==
    ASSUME RuntimeInv, Coming \/ Stall
    PROVE  RuntimeInv'
<1> USE DEF RuntimeInv, RuntimeTypeOK, ColumnsInv, database, work, Busy, Running
<1>0. ColumnsInv'
    BY DEF Coming, Start, Migrate, ListCases, VerifyCase, Listen, BootFails, Stall
<1>1. CASE Start
    <2>1. RuntimeTypeOK'
        BY <1>1, ObjectFacts, BudgetAssumption DEF Start, Phases
    <2>2. PoolInv'
        BY <1>1 DEF Start, PoolInv, Up
    <2>3. SchemaInv' /\ ServedInv'
        BY <1>1 DEF Start, SchemaInv, ServedInv, Up
    <2> QED
        BY <2>1, <2>2, <2>3, <1>0
<1>2. CASE Migrate
    <2>1. /\ statement \in 1..14
          /\ schema' = IF Objects[statement] \in schema THEN schema
                       ELSE schema \cup Makes(Objects[statement])
        BY <1>2, ObjectFacts DEF Migrate, Migrated
    <2>2. RuntimeTypeOK'
        BY <1>2, <2>1, ObjectFacts, BudgetAssumption DEF Migrate, OpenStep, InTime
    <2>3. PoolInv'
        BY <1>2 DEF Migrate, PoolInv, Up
    <2>4. SchemaInv'
        <3>1. schema \subseteq schema' /\ Objects[statement] \in schema'
            BY <2>1, ObjectFacts
        <3>2. phase = "migrating" /\ phase' = phase /\ statement' = statement + 1
            BY <1>2 DEF Migrate
        <3> QED
            BY <2>1, <3>1, <3>2 DEF SchemaInv, Up
    <2>5. ServedInv'
        BY <1>2 DEF Migrate, ServedInv
    <2> QED
        BY <2>2, <2>3, <2>4, <2>5, <1>0
<1>3. CASE ListCases
    <2>1. RuntimeTypeOK'
        BY <1>3, BudgetAssumption DEF ListCases, OpenStep, InTime, Phases
    <2>2. PoolInv'
        BY <1>3 DEF ListCases, PoolInv, Up
    <2>3. SchemaInv'
        <3>1. statement = 15 /\ phase = "migrating" /\ schema' = schema
            BY <1>3, ObjectFacts DEF ListCases
        <3>2. \A i \in 1..14 : Objects[i] \in schema
            <4>1. \A i \in 1..(statement - 1) : Objects[i] \in schema
                BY <3>1 DEF SchemaInv
            <4>2. statement - 1 = 14
                BY <3>1
            <4> QED
                BY <4>1, <4>2
        <3>3. schema = Complete
            BY <3>2, ObjectFacts
        <3> QED
            BY <1>3, <3>1, <3>3 DEF SchemaInv, ListCases
    <2>4. ServedInv'
        BY <1>3 DEF ListCases, ServedInv
    <2> QED
        BY <2>1, <2>2, <2>3, <2>4, <1>0
<1>4. CASE VerifyCase
    <2>1. RuntimeTypeOK'
        BY <1>4, BudgetAssumption DEF VerifyCase, OpenStep, InTime
    <2>2. PoolInv' /\ SchemaInv' /\ ServedInv'
        BY <1>4 DEF VerifyCase, PoolInv, SchemaInv, ServedInv, Up
    <2> QED
        BY <2>1, <2>2, <1>0
<1>5. CASE Listen
    BY <1>5 DEF Listen, Phases, PoolInv, SchemaInv, ServedInv, Up
<1>6. CASE BootFails
    <2>1. conn = Nobody
        BY <1>6 DEF BootFails, PoolInv, Up
    <2>2. RuntimeTypeOK'
        BY <1>6, TroubleAssumption DEF BootFails, Trouble, Phases
    <2>3. PoolInv'
        BY <1>6, <2>1 DEF BootFails, PoolInv, Up
    <2>4. SchemaInv' /\ ServedInv'
        BY <1>6 DEF BootFails, SchemaInv, ServedInv, Up
    <2> QED
        BY <2>2, <2>3, <2>4, <1>0
<1>7. CASE Stall
    <2>1. RuntimeTypeOK'
        BY <1>7, BudgetAssumption, TroubleAssumption DEF Stall, Trouble
    <2>2. PoolInv' /\ SchemaInv' /\ ServedInv'
        BY <1>7 DEF Stall, PoolInv, SchemaInv, ServedInv, Up
    <2> QED
        BY <2>1, <2>2, <1>0
<1> QED
    BY <1>1, <1>2, <1>3, <1>4, <1>5, <1>6, <1>7 DEF Coming

-----------------------------------------------------------------------------
(* The steps that take it down.                                            *)

LEMMA GoingStep ==
    ASSUME RuntimeInv, Going
    PROVE  RuntimeInv'
<1> USE DEF RuntimeInv, RuntimeTypeOK, ColumnsInv, database, work, Busy, Running
<1>0. ColumnsInv'
    BY DEF Going, Signal, Shutdown, Exit, Crash, Gone
<1>1. CASE Signal
    <2>1. RuntimeTypeOK'
        BY <1>1, TroubleAssumption DEF Signal, Trouble, Phases
    <2>2. PoolInv' /\ SchemaInv' /\ ServedInv'
        BY <1>1 DEF Signal, PoolInv, SchemaInv, ServedInv, Up
    <2> QED
        BY <2>1, <2>2, <1>0
<1>2. CASE Shutdown
    <2>1. phase' \in {"closed", "overdue"}
          /\ (phase' = "closed" => \A c \in Clients : ~Busy(c))
        BY <1>2 DEF Shutdown
    <2>2. RuntimeTypeOK'
        BY <1>2, <2>1 DEF Shutdown, Phases
    <2>3. PoolInv' /\ SchemaInv' /\ ServedInv'
        BY <1>2, <2>1 DEF Shutdown, PoolInv, SchemaInv, ServedInv, Up
    <2> QED
        BY <2>2, <2>3, <1>0
<1>3. ASSUME NEW how \in {"clean", "failed", "crashed"}, Gone(how),
             trouble' \in 0..MaxTrouble, how = "clean" => phase = "closed"
      PROVE  RuntimeInv'
    <2>1. RuntimeTypeOK'
        BY <1>3 DEF Gone, Phases
    <2>2. PoolInv'
        BY <1>3, HolderAssumption DEF Gone, PoolInv, Up
    <2>3. SchemaInv'
        BY <1>3 DEF Gone, SchemaInv, Up
    <2>4. ServedInv'
        BY <1>3 DEF Gone, ServedInv
    <2> QED
        BY <2>1, <2>2, <2>3, <2>4, <1>0
<1>4. CASE Exit
    <2>1. (Gone("clean") /\ phase = "closed") \/ Gone("failed")
        BY <1>4 DEF Exit
    <2>2. trouble' \in 0..MaxTrouble
        BY <1>4, TroubleAssumption DEF Exit, Trouble, RuntimeInv, RuntimeTypeOK
    <2> QED
        BY <1>3, <2>1, <2>2
<1>5. CASE Crash
    <2>1. Gone("crashed") /\ trouble' \in 0..MaxTrouble
        BY <1>5, TroubleAssumption DEF Crash, Trouble
    <2> QED
        BY <1>3, <2>1
<1> QED
    BY <1>1, <1>2, <1>4, <1>5 DEF Going

-----------------------------------------------------------------------------
(* The steps of handlers.                                                  *)

\* A handler ends, with or without the connection.
LEMMA JobEnds ==
    ASSUME RuntimeInv, NEW c \in Clients, Busy(c),
           jobs' = [jobs EXCEPT ![c] = NoJob],
           conn' = IF conn = c THEN Nobody ELSE conn,
           phase' = phase
    PROVE  PoolInv' /\ jobs' \in [Clients -> Job \cup {NoJob}]
           /\ conn' \in Clients \cup {Nobody, Boot}
           /\ (phase = "closed" => FALSE)
BY HolderAssumption DEF RuntimeInv, RuntimeTypeOK, PoolInv, ServedInv, Busy, Running, Up

\* A handler waits for the connection.
LEMMA JobWaits ==
    ASSUME RuntimeInv, NEW c \in Clients, NEW job \in Job, phase \in Up,
           job.at = "waiting", job.request = ReadOnly => job.queries > 0,
           jobs' = [jobs EXCEPT ![c] = job],
           conn' = IF conn = c THEN Nobody ELSE conn,
           phase' = phase
    PROVE  PoolInv' /\ jobs' \in [Clients -> Job \cup {NoJob}]
           /\ conn' \in Clients \cup {Nobody, Boot}
<1>1. job # NoJob
    BY JobFields
<1> QED
    BY <1>1, HolderAssumption DEF RuntimeInv, RuntimeTypeOK, PoolInv, Busy, Running, Up

\* The rows of a changed case are written from its snapshot.
LEMMA StampStep ==
    ASSUME stamped \subseteq Cases, ColumnsInv, Stamp
    PROVE  stamped' \subseteq Cases /\ filled' \subseteq Cases /\ ColumnsInv'
BY DEF ColumnsInv, Stamp

LEMMA HandlerStep ==
    ASSUME RuntimeInv, NEW c \in Clients,
           \/ Ask(c) \/ \E r \in Requests : Send(c, r)
           \/ Begin(c) \/ Handle(c) \/ Cancel(c) \/ Refused(c)
    PROVE  RuntimeInv'
<1>1. CASE Ask(c)
    <2> DEFINE job == [request |-> ReadOnly, queries |-> Queries, at |-> "waiting"]
    <2>1. job \in Job /\ job.queries > 0
        BY QueriesAssumption DEF Job
    <2>2. conn # c
        BY <1>1 DEF Ask, RuntimeInv, PoolInv, Running
    <2>3. PoolInv' /\ jobs' \in [Clients -> Job \cup {NoJob}]
        BY <1>1, <2>1, <2>2, JobWaits DEF Ask, process, Up
    <2> QED
        BY <1>1, <2>3 DEF Ask, process, database, RuntimeInv, RuntimeTypeOK, SchemaInv,
           ServedInv, ColumnsInv, Busy
<1>2. ASSUME NEW r \in Requests, Send(c, r) PROVE RuntimeInv'
    <2> DEFINE job == [request |-> r, queries |-> 0, at |-> "waiting"]
    <2>1. job \in Job /\ r # ReadOnly
        BY QueriesAssumption, JobAssumption DEF Job
    <2>2. conn # c
        BY <1>2 DEF Send, RuntimeInv, PoolInv, Running
    <2>3. PoolInv' /\ jobs' \in [Clients -> Job \cup {NoJob}]
        BY <1>2, <2>1, <2>2, JobWaits DEF Send, process, Up
    <2> QED
        BY <1>2, <2>3 DEF Send, process, database, RuntimeInv, RuntimeTypeOK, SchemaInv,
           ServedInv, ColumnsInv, Busy
<1>3. CASE Begin(c)
    <2> DEFINE job == [jobs[c] EXCEPT !.at = "running"]
    <2>1. jobs[c] \in Job /\ jobs[c] # NoJob
        BY <1>3 DEF Begin, Waiting, Busy, RuntimeInv, RuntimeTypeOK
    <2>2. /\ job \in Job /\ job # NoJob /\ job.at = "running"
          /\ job.request = jobs[c].request /\ job.queries = jobs[c].queries
        BY <2>1, JobAssumption DEF Job
    <2>3. jobs' = [jobs EXCEPT ![c] = job] /\ conn = Nobody /\ conn' = c /\ phase' = phase
        BY <1>3 DEF Begin, process
    <2> HIDE DEF job
    <2>4. PoolInv'
        BY <1>3, <2>1, <2>2, <2>3, HolderAssumption
        DEF Begin, RuntimeInv, RuntimeTypeOK, PoolInv, Busy, Running, Up
    <2>5. jobs' \in [Clients -> Job \cup {NoJob}]
        BY <2>2, <2>3 DEF RuntimeInv, RuntimeTypeOK
    <2> QED
        BY <1>3, <2>3, <2>4, <2>5
        DEF Begin, process, database, RuntimeInv, RuntimeTypeOK, SchemaInv,
           ServedInv, ColumnsInv, Busy
<1>4. CASE Execute(c)
    <2>1. conn = c
        BY <1>4 DEF Execute, RuntimeInv, PoolInv
    <2>2. PoolInv' /\ jobs' \in [Clients -> Job \cup {NoJob}] /\ phase # "closed"
        BY <1>4, <2>1, JobEnds DEF Execute, process, Running
    <2>3. stamped' \subseteq Cases /\ filled' \subseteq Cases /\ ColumnsInv'
        BY <1>4, StampStep DEF Execute, RuntimeInv, RuntimeTypeOK
    <2> QED
        BY <1>4, <2>2, <2>3 DEF Execute, process, database, RuntimeInv, RuntimeTypeOK, SchemaInv,
           ServedInv, ColumnsInv, Busy
<1>5. CASE Query(c)
    <2>1. conn = c /\ Busy(c) /\ jobs[c] \in Job /\ phase \in Up
        BY <1>5 DEF Query, RuntimeInv, RuntimeTypeOK, PoolInv, Running, Busy
    <2>2. PoolInv' /\ jobs' \in [Clients -> Job \cup {NoJob}] /\ phase # "closed"
        <3>0. phase # "closed"
            BY <2>1 DEF RuntimeInv, ServedInv
        <3>1. CASE jobs[c].queries = 1
            BY <1>5, <2>1, <3>0, <3>1, JobEnds DEF Query, AfterQuery, process
        <3>2. CASE jobs[c].queries # 1
            <4> DEFINE job == [jobs[c] EXCEPT !.queries = @ - 1, !.at = "waiting"]
            <4>1. jobs[c].queries > 0
                BY <1>5, <2>1 DEF Query, RuntimeInv, PoolInv
            <4>2. job \in Job /\ job.at = "waiting" /\ job.queries > 0
                <5>1. jobs[c].queries \in 2..Queries
                    BY <2>1, <3>2, <4>1, JobFields, QueriesAssumption
                <5>2. jobs[c].queries - 1 \in 0..Queries /\ jobs[c].queries - 1 > 0
                    BY <5>1, QueriesAssumption
                <5> QED
                    BY <2>1, <5>2 DEF Job
            <4>3. jobs' = [jobs EXCEPT ![c] = job] /\ conn' = Nobody /\ phase' = phase
                BY <1>5, <3>2 DEF Query, AfterQuery, process
            <4> HIDE DEF job
            <4> QED
                BY <2>1, <3>0, <4>2, <4>3, JobWaits
        <3> QED
            BY <3>1, <3>2
    <2> QED
        BY <1>5, <2>2 DEF Query, process, database, RuntimeInv, RuntimeTypeOK, SchemaInv,
           ServedInv, ColumnsInv, Busy
<1>6. CASE Cancel(c)
    <2>1. PoolInv' /\ jobs' \in [Clients -> Job \cup {NoJob}] /\ phase # "closed"
          /\ conn' \in Clients \cup {Nobody, Boot}
        BY <1>6, JobEnds DEF Cancel, process
    <2>2. trouble' \in 0..MaxTrouble
        BY <1>6, TroubleAssumption DEF Cancel, Trouble, RuntimeInv, RuntimeTypeOK
    <2> QED
        BY <1>6, <2>1, <2>2
        DEF Cancel, process, database, RuntimeInv, RuntimeTypeOK, SchemaInv,
           ServedInv, ColumnsInv, Busy
<1>7. CASE Refused(c)
    <2>1. Busy(c) /\ conn # c
        BY <1>7 DEF Refused, Waiting, RuntimeInv, PoolInv, Running
    <2>2. PoolInv' /\ jobs' \in [Clients -> Job \cup {NoJob}] /\ phase = "overdue"
        BY <1>7, <2>1, JobEnds DEF Refused, process
    <2> QED
        BY <1>7, <2>2 DEF Refused, process, database, RuntimeInv, RuntimeTypeOK, SchemaInv,
           ServedInv, ColumnsInv, Busy
<1> QED
    BY <1>1, <1>2, <1>3, <1>4, <1>5, <1>6, <1>7 DEF Handle

\* The older version knows nothing of the columns.
LEMMA OlderStep ==
    ASSUME RuntimeInv, OlderServes
    PROVE  RuntimeInv'
BY DEF OlderServes, process, work, RuntimeInv, RuntimeTypeOK, PoolInv, SchemaInv, ServedInv,
       ColumnsInv, Busy, Running

THEOREM RuntimeInductive == ServerSpec => []RuntimeInv
<1>1. RuntimeInv /\ [ServerNext]_serverVars => RuntimeInv'
    <2> SUFFICES ASSUME RuntimeInv, [ServerNext]_serverVars PROVE RuntimeInv'
        OBVIOUS
    <2>1. CASE UNCHANGED serverVars
        BY <2>1 DEF serverVars, database, process, work, RuntimeInv, RuntimeTypeOK, PoolInv,
                    SchemaInv, ServedInv, ColumnsInv, Busy, Running
    <2> QED
        BY <2>1, ComingStep, GoingStep, OlderStep, HandlerStep DEF ServerNext
<1> QED
    BY <1>1, InitRuntime, PTL DEF ServerSpec

-----------------------------------------------------------------------------
(* The results.                                                            *)

(* The process keeps its state in shape, and Open makes no step after its  *)
(* deadline, however slow, however often it is started again.              *)
THEOREM RuntimeTypeCorrect == ServerSpec => []RuntimeTypeOK
<1>1. RuntimeInv => RuntimeTypeOK
    BY DEF RuntimeInv
<1> QED
    BY <1>1, RuntimeInductive, PTL

(* The connection is always free or with a running handler: boot, requests *)
(* that fail or are given up, shutdown and crashes never lose it.          *)
THEOREM ConnectionComesBack == ServerSpec => []NoConnectionLeak
<1>1. RuntimeInv => NoConnectionLeak
    BY DEF RuntimeInv, PoolInv, NoConnectionLeak
<1> QED
    BY <1>1, RuntimeInductive, PTL

(* A process that exits with status 0 has turned nobody away.              *)
THEOREM ShutdownIsGraceful == ServerSpec => []GracefulShutdown
<1>1. RuntimeInv => GracefulShutdown
    BY DEF RuntimeInv, ServedInv, GracefulShutdown
<1> QED
    BY <1>1, RuntimeInductive, PTL

\* Every step of the process but Execute leaves the tables alone.
LEMMA StepOfStore == RuntimeInv /\ [ServerNext]_serverVars => [Next]_vars
<1> SUFFICES ASSUME RuntimeInv, [ServerNext]_serverVars PROVE [Next]_vars
    OBVIOUS
<1>1. CASE Coming \/ Stall
    BY <1>1 DEF Coming, Start, Migrate, ListCases, VerifyCase, Listen, BootFails, Stall, database
<1>2. CASE Going
    BY <1>2 DEF Going, Signal, Shutdown, Exit, Crash, Gone, database
<1>3. ASSUME NEW c \in Clients, Execute(c) PROVE [Next]_vars
    <2>1. jobs[c] \in Job /\ jobs[c].request # ReadOnly
        BY <1>3 DEF Execute, Running, Busy, RuntimeInv, RuntimeTypeOK
    <2>2. jobs[c].request \in Requests
        BY <2>1, JobFields
    <2> QED
        BY <1>3, <2>2 DEF Execute, Next
<1>4. ASSUME NEW c \in Clients,
             \/ Ask(c) \/ \E r \in Requests : Send(c, r)
             \/ Begin(c) \/ Query(c) \/ Cancel(c) \/ Refused(c)
      PROVE  [Next]_vars
    BY <1>4 DEF Ask, Send, Begin, Query, Cancel, Refused, database
<1>5. CASE OlderServes
    BY <1>5 DEF OlderServes, Next
<1>6. CASE UNCHANGED serverVars
    BY <1>6 DEF serverVars, database
<1> QED
    BY <1>1, <1>2, <1>3, <1>4, <1>5, <1>6 DEF ServerNext, Handle

(* The process implements the store: in a run of it with any crashes,      *)
(* failed starts, signals and broken-off requests, the tables go through a *)
(* run of CaseStore.                                                       *)
THEOREM ProcessIsStore == ServerSpec => RefinesStore
<1>1. ServerInit => Init
    BY DEF ServerInit
<1> QED
    BY <1>1, RuntimeInductive, StepOfStore, PTL DEF ServerSpec, RefinesStore, Spec

(* Requests are served from a complete schema and from cases verifyAll     *)
(* accepts, whatever attempts to migrate or to start broke off before.     *)
THEOREM ServesReadyStore == ServerSpec => []ServesOpenedStore
<1>1. RuntimeInv /\ BootAccepts => ServesOpenedStore
    BY DEF RuntimeInv, PoolInv, SchemaInv, ColumnsInv, ColumnsVerified, ServesOpenedStore, Up
<1> QED
    BY <1>1, RuntimeInductive, ProcessIsStore, BootAlwaysAccepts, PTL DEF RefinesStore

(* What clients are told stays true across every restart of the process,   *)
(* a request sent again to the next process still has one effect, and the  *)
(* snapshots it finds are what the commands on record add up to.           *)
THEOREM AnswersOutliveProcess ==
    ServerSpec => /\ [](AppliedOnce /\ AnswersHold /\ SnapshotIsHistory)
                  /\ History /\ KeepsPromise
BY ProcessIsStore, EffectsHappenOnce, ClientsKnow, SnapshotsAreHistory, HistoryIsKept,
   StoreKeepsPromise, PTL DEF RefinesStore

=============================================================================
