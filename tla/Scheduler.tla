------------------------------ MODULE Scheduler ------------------------------
(***************************************************************************)
(* The collector scheduler of pkg/scheduler/scheduler.go: one main loop    *)
(* that keeps a table of workers in step with the instances the broker     *)
(* lists, and one goroutine per worker that creates a collector, collects, *)
(* emits, retries, and reports its own end on a channel of capacity one.   *)
(*                                                                         *)
(* Every goroutine started for a worker id occupies a slot, so that two    *)
(* goroutines running for the same id are two different elements of        *)
(* Goroutine and nothing in the state forbids them.                        *)
(***************************************************************************)
EXTENDS Integers, FiniteSets

CONSTANTS
    GUID,            \* service instance GUIDs the broker may list
    Driver,          \* names of the registered collector drivers
    TypeOf,          \* TypeOf[guid]: engine of the instance
    SupportedTypes,  \* SupportedTypes[driver]: engines the driver accepts
    maxRetries,      \* scheduler.collectorMaxRetries
    Requests,        \* ways to shut down that are used: "signal", "stop"
    Slot, NoSlot,    \* goroutine slots of one worker id, and none of them
    NoID             \* no worker id

\* workerID
WorkerID == [Driver : Driver, InstanceGUID : GUID]

Goroutine == WorkerID \X Slot

ASSUME ConstantsAssumption ==
    /\ maxRetries \in Nat
    /\ Requests \subseteq {"signal", "stop"}
    /\ Slot # {} /\ NoSlot \notin Slot
    /\ NoID \notin WorkerID

VARIABLES
    \* Scheduler.mainLoop
    loop,              \* where the main loop is
    ctxDone,           \* the scheduler's context is cancelled
    refreshDue,        \* timer.C holds a tick
    drainTimer,        \* workersStoptimeout of the deferred function
    signalled,         \* a signal waits in the signals channel
    desiredWorkerIDs,  \* local of the refresh case
    deleting,          \* argument of the deleteWorker call in progress
    \* Scheduler fields
    workers,           \* worker table: the slot registered for an id
    workersRunning,    \* counter of the WaitGroup
    stoppedWorker,     \* the channel of capacity one
    \* one collectorWorker.run per goroutine
    pc,                \* where the goroutine is
    errorCount,        \* consecutive failed collections
    timerDue,          \* its timer.C holds a tick
    cancelled,         \* its own cancel function was called
    collectorOpen,     \* its collector was created and is not closed
    \* callers and environment
    stopPc,            \* a caller of Scheduler.Stop
    instances          \* instances that exist in RDS

loopVars   == <<loop, refreshDue, drainTimer, desiredWorkerIDs, deleting>>
tableVars  == <<workers, workersRunning>>
workerVars == <<pc, errorCount, timerDue, cancelled, collectorOpen>>
envVars    == <<stopPc, instances>>
vars == <<loopVars, tableVars, workerVars, envVars,
          ctxDone, signalled, stoppedWorker>>

InLoop == loop \in {"select", "list", "start", "delete"}

Registered == {id \in WorkerID : workers[id] # NoSlot}

\* Scheduler.ListIntanceGUIDs
ListIntanceGUIDs == {id.InstanceGUID : id \in Registered}

\* The ids the refresh wants a worker for, given the listed instances.
DesiredWorkerIDs(listed) ==
    {id \in WorkerID :
        /\ id.InstanceGUID \in listed
        /\ TypeOf[id.InstanceGUID] \in SupportedTypes[id.Driver]}

\* Mutant of WorkerCtxDone: run is given the scheduler's context.
WorkerCtxDone_Parent(g) == g \in Goroutine /\ ctxDone

\* The context of a worker is a child of the scheduler's.
WorkerCtxDone(g) == ctxDone \/ cancelled[g]

Live(g) == pc[g] # "idle"

LiveSet == {g \in Goroutine : Live(g)}

FlagTypes == ctxDone \in BOOLEAN /\ refreshDue \in BOOLEAN /\ signalled \in BOOLEAN

\* The types of the variables; in particular a worker that gave up counted no
\* more than maxRetries + 1 errors.
TypeOK ==
    /\ FlagTypes
    /\ loop \in {"off", "select", "list", "start", "delete",
                 "drain", "drainDelete", "returned"}
    /\ drainTimer \in {"unset", "armed", "fired", "logged"}
    /\ desiredWorkerIDs \in SUBSET WorkerID
    /\ deleting \in WorkerID \cup {NoID}
    /\ workers \in [WorkerID -> Slot \cup {NoSlot}]
    /\ workersRunning \in Int
    /\ stoppedWorker \in WorkerID \cup {NoID}
    /\ pc \in [Goroutine -> {"idle", "new", "select", "collect", "emit",
                             "closing", "stopping"}]
    /\ errorCount \in [Goroutine -> 0..(maxRetries + 1)]
    /\ timerDue \in [Goroutine -> BOOLEAN]
    /\ cancelled \in [Goroutine -> BOOLEAN]
    /\ collectorOpen \in [Goroutine -> BOOLEAN]
    /\ stopPc \in {"idle", "waiting", "returned"}
    /\ instances \in SUBSET GUID

Init ==
    /\ loop = "off" /\ ctxDone = FALSE /\ refreshDue = FALSE
    /\ drainTimer = "unset" /\ signalled = FALSE
    /\ desiredWorkerIDs = {} /\ deleting = NoID
    /\ workers = [id \in WorkerID |-> NoSlot]
    /\ workersRunning = 0 /\ stoppedWorker = NoID
    /\ pc = [g \in Goroutine |-> "idle"]
    /\ errorCount = [g \in Goroutine |-> 0]
    /\ timerDue = [g \in Goroutine |-> FALSE]
    /\ cancelled = [g \in Goroutine |-> FALSE]
    /\ collectorOpen = [g \in Goroutine |-> FALSE]
    /\ stopPc = "idle" /\ instances \in SUBSET GUID

-----------------------------------------------------------------------------
(* The main loop *)

Run ==
    /\ loop = "off"
    /\ loop' = "select"
    /\ UNCHANGED <<refreshDue, drainTimer, desiredWorkerIDs, deleting, ctxDone,
                   signalled, stoppedWorker, tableVars, workerVars, envVars>>

\* The refresh timer fires; a tick stays in timer.C until it is received.
RefreshTick ==
    /\ InLoop /\ ~refreshDue
    /\ refreshDue' = TRUE
    /\ UNCHANGED <<loop, drainTimer, desiredWorkerIDs, deleting, ctxDone,
                   signalled, stoppedWorker, tableVars, workerVars, envVars>>

SelectRefresh ==
    /\ loop = "select" /\ refreshDue
    /\ refreshDue' = FALSE
    /\ loop' = "list"
    /\ UNCHANGED <<drainTimer, desiredWorkerIDs, deleting, ctxDone, signalled,
                   stoppedWorker, tableVars, workerVars, envVars>>

\* Mutant of ListInstancesFails: the refresh goes on with an empty listing.
ListInstancesFails_Empty ==
    /\ loop = "list"
    /\ loop' = "start"
    /\ UNCHANGED <<refreshDue, drainTimer, desiredWorkerIDs, deleting, ctxDone,
                   signalled, stoppedWorker, tableVars, workerVars, envVars>>

ListInstancesFails ==
    /\ loop = "list"
    /\ loop' = "select"
    /\ UNCHANGED <<refreshDue, drainTimer, desiredWorkerIDs, deleting, ctxDone,
                   signalled, stoppedWorker, tableVars, workerVars, envVars>>

ListInstancesReturns ==
    /\ loop = "list"
    /\ desiredWorkerIDs' = DesiredWorkerIDs(instances)
    /\ loop' = "start"
    /\ UNCHANGED <<refreshDue, drainTimer, deleting, ctxDone, signalled,
                   stoppedWorker, tableVars, workerVars, envVars>>

\* startWorker for one desired id that has no entry in the table.
StartWorker(id) ==
    LET n == CHOOSE m \in Slot : pc[<<id, m>>] = "idle"
        g == <<id, n>>
    IN  /\ loop = "start"
        /\ id \in desiredWorkerIDs \ Registered
        /\ workers' = [workers EXCEPT ![id] = n]
        /\ workersRunning' = workersRunning + 1
        /\ pc' = [pc EXCEPT ![g] = "new"]
        /\ UNCHANGED <<errorCount, timerDue, cancelled, collectorOpen, loopVars,
                       ctxDone, signalled, stoppedWorker, envVars>>

\* Mutant of CancelUnlisted: the cancelled workers are deleted at once.
CancelUnlisted_Deletes ==
    /\ loop = "start" /\ desiredWorkerIDs \subseteq Registered
    /\ cancelled' = [g \in Goroutine |->
                        \/ cancelled[g]
                        \/ workers[g[1]] = g[2] /\ Live(g)
                              /\ g[1] \notin desiredWorkerIDs]
    /\ workers' = [id \in WorkerID |->
                      IF id \in desiredWorkerIDs THEN workers[id] ELSE NoSlot]
    /\ loop' = "select" /\ desiredWorkerIDs' = {}
    /\ UNCHANGED <<refreshDue, drainTimer, deleting, pc, errorCount, timerDue,
                   collectorOpen, ctxDone, signalled, stoppedWorker,
                   workersRunning, envVars>>

\* The last loop of the refresh: cancel what is registered and not desired.
CancelUnlisted ==
    /\ loop = "start" /\ desiredWorkerIDs \subseteq Registered
    /\ cancelled' = [g \in Goroutine |->
                        \/ cancelled[g]
                        \/ workers[g[1]] = g[2] /\ Live(g)
                              /\ g[1] \notin desiredWorkerIDs]
    /\ loop' = "select" /\ desiredWorkerIDs' = {}
    /\ UNCHANGED <<refreshDue, drainTimer, deleting, pc, errorCount, timerDue,
                   collectorOpen, ctxDone, signalled, stoppedWorker, tableVars,
                   envVars>>

\* Receive from stoppedWorker, in the loop or while draining, and the first
\* half of deleteWorker: Done wakes up a Stop before the entry is deleted.
ReceiveStopped ==
    /\ \/ loop = "select" /\ loop' = "delete"
       \/ loop = "drain" /\ Registered # {} /\ loop' = "drainDelete"
    /\ stoppedWorker # NoID
    /\ deleting' = stoppedWorker
    /\ stoppedWorker' = NoID
    /\ workersRunning' = workersRunning - 1
    /\ UNCHANGED <<refreshDue, drainTimer, desiredWorkerIDs, ctxDone, signalled,
                   workers, workerVars, envVars>>

\* Mutant of DeleteEntry: the entry stays in the table.
DeleteEntry_Keeps ==
    /\ \/ loop = "delete" /\ loop' = "select"
       \/ loop = "drainDelete" /\ loop' = "drain"
    /\ deleting' = NoID
    /\ UNCHANGED <<refreshDue, drainTimer, desiredWorkerIDs, ctxDone, signalled,
                   tableVars, stoppedWorker, workerVars, envVars>>

\* The second half of deleteWorker.
DeleteEntry ==
    /\ \/ loop = "delete" /\ loop' = "select"
       \/ loop = "drainDelete" /\ loop' = "drain"
    /\ workers' = [workers EXCEPT ![deleting] = NoSlot]
    /\ deleting' = NoID
    /\ UNCHANGED <<refreshDue, drainTimer, desiredWorkerIDs, ctxDone, signalled,
                   workersRunning, stoppedWorker, workerVars, envVars>>

\* The loop returns and its deferred function starts with a fresh timer.
BeginDrain ==
    /\ loop' = "drain"
    /\ drainTimer' = "armed"
    /\ UNCHANGED <<refreshDue, desiredWorkerIDs, deleting, stoppedWorker,
                   tableVars, workerVars, envVars>>

SelectSignal ==
    /\ loop = "select" /\ signalled
    /\ signalled' = FALSE
    /\ ctxDone' = TRUE
    /\ BeginDrain

SelectCtxDone ==
    /\ loop = "select" /\ ctxDone
    /\ BeginDrain
    /\ UNCHANGED <<ctxDone, signalled>>

DrainTimerFires ==
    /\ loop \in {"drain", "drainDelete"} /\ drainTimer = "armed"
    /\ drainTimer' = "fired"
    /\ UNCHANGED <<loop, refreshDue, desiredWorkerIDs, deleting, ctxDone,
                   signalled, stoppedWorker, tableVars, workerVars, envVars>>

\* Mutant of DrainTimeout: the timeout makes the main loop return.
DrainTimeout_Returns ==
    /\ loop = "drain" /\ Registered # {} /\ drainTimer = "fired"
    /\ drainTimer' = "logged"
    /\ loop' = "returned"
    /\ UNCHANGED <<refreshDue, desiredWorkerIDs, deleting, ctxDone, signalled,
                   stoppedWorker, tableVars, workerVars, envVars>>

\* The timeout branch only logs: the loop goes on waiting for the workers.
DrainTimeout ==
    /\ loop = "drain" /\ Registered # {} /\ drainTimer = "fired"
    /\ drainTimer' = "logged"
    /\ UNCHANGED <<loop, refreshDue, desiredWorkerIDs, deleting, ctxDone,
                   signalled, stoppedWorker, tableVars, workerVars, envVars>>

RunReturns ==
    /\ loop = "drain" /\ Registered = {}
    /\ loop' = "returned"
    /\ UNCHANGED <<refreshDue, drainTimer, desiredWorkerIDs, deleting, ctxDone,
                   signalled, stoppedWorker, tableVars, workerVars, envVars>>

-----------------------------------------------------------------------------
(* collectorWorker.run, in goroutine g *)

\* Mutant of NewCollectorFails: the report is deferred after NewCollector.
NewCollectorFails_Silent(g) ==
    /\ pc[g] = "new"
    /\ pc' = [pc EXCEPT ![g] = "idle"]
    /\ UNCHANGED <<errorCount, timerDue, cancelled, collectorOpen, loopVars,
                   ctxDone, signalled, stoppedWorker, tableVars, envVars>>

NewCollectorFails(g) ==
    /\ pc[g] = "new"
    /\ pc' = [pc EXCEPT ![g] = "stopping"]
    /\ UNCHANGED <<errorCount, timerDue, cancelled, collectorOpen, loopVars,
                   ctxDone, signalled, stoppedWorker, tableVars, envVars>>

NewCollectorReturns(g) ==
    /\ pc[g] = "new"
    /\ pc' = [pc EXCEPT ![g] = "select"]
    /\ collectorOpen' = [collectorOpen EXCEPT ![g] = TRUE]
    /\ UNCHANGED <<errorCount, timerDue, cancelled, loopVars, ctxDone,
                   signalled, stoppedWorker, tableVars, envVars>>

WorkerTick(g) ==
    /\ pc[g] = "select" /\ ~timerDue[g]
    /\ timerDue' = [timerDue EXCEPT ![g] = TRUE]
    /\ UNCHANGED <<pc, errorCount, cancelled, collectorOpen, loopVars, ctxDone,
                   signalled, stoppedWorker, tableVars, envVars>>

\* select may take the tick even when the context is done as well.
SelectCollect(g) ==
    /\ pc[g] = "select" /\ timerDue[g]
    /\ timerDue' = [timerDue EXCEPT ![g] = FALSE]
    /\ pc' = [pc EXCEPT ![g] = "collect"]
    /\ UNCHANGED <<errorCount, cancelled, collectorOpen, loopVars, ctxDone,
                   signalled, stoppedWorker, tableVars, envVars>>

SelectDone(g) ==
    /\ pc[g] = "select" /\ WorkerCtxDone(g)
    /\ pc' = [pc EXCEPT ![g] = "closing"]
    /\ UNCHANGED <<errorCount, timerDue, cancelled, collectorOpen, loopVars,
                   ctxDone, signalled, stoppedWorker, tableVars, envVars>>

CollectReturns(g) ==
    /\ pc[g] = "collect"
    /\ pc' = [pc EXCEPT ![g] = "emit"]
    /\ UNCHANGED <<errorCount, timerDue, cancelled, collectorOpen, loopVars,
                   ctxDone, signalled, stoppedWorker, tableVars, envVars>>

\* Mutant of CollectFails: the errors are compared before they are counted.
CollectFails_OffByOne(g) ==
    /\ pc[g] = "collect"
    /\ errorCount' = [errorCount EXCEPT ![g] = @ + 1]
    /\ pc' = [pc EXCEPT ![g] = IF errorCount[g] <= maxRetries
                               THEN "select" ELSE "closing"]
    /\ UNCHANGED <<timerDue, cancelled, collectorOpen, loopVars, ctxDone,
                   signalled, stoppedWorker, tableVars, envVars>>

\* Mutant of CollectFails: giving up skips the deferred Close.
CollectFails_NoClose(g) ==
    /\ pc[g] = "collect"
    /\ errorCount' = [errorCount EXCEPT ![g] = @ + 1]
    /\ pc' = [pc EXCEPT ![g] = IF errorCount[g] + 1 <= maxRetries
                               THEN "select" ELSE "stopping"]
    /\ UNCHANGED <<timerDue, cancelled, collectorOpen, loopVars, ctxDone,
                   signalled, stoppedWorker, tableVars, envVars>>

\* Mutant of CollectFails: the errors are not counted.
CollectFails_Uncounted(g) ==
    /\ pc[g] = "collect"
    /\ pc' = [pc EXCEPT ![g] = "select"]
    /\ UNCHANGED <<errorCount, timerDue, cancelled, collectorOpen, loopVars,
                   ctxDone, signalled, stoppedWorker, tableVars, envVars>>

\* An error, a collection timeout included: retry or give up.
CollectFails(g) ==
    /\ pc[g] = "collect"
    /\ errorCount' = [errorCount EXCEPT ![g] = @ + 1]
    /\ pc' = [pc EXCEPT ![g] = IF errorCount[g] + 1 <= maxRetries
                               THEN "select" ELSE "closing"]
    /\ UNCHANGED <<timerDue, cancelled, collectorOpen, loopVars, ctxDone,
                   signalled, stoppedWorker, tableVars, envVars>>

\* Emit every collected metric, forget the errors and reset the timer.
EmitMetrics(g) ==
    /\ pc[g] = "emit"
    /\ errorCount' = [errorCount EXCEPT ![g] = 0]
    /\ pc' = [pc EXCEPT ![g] = "select"]
    /\ UNCHANGED <<timerDue, cancelled, collectorOpen, loopVars, ctxDone,
                   signalled, stoppedWorker, tableVars, envVars>>

\* Deferred collector.Close().
CloseCollector(g) ==
    /\ pc[g] = "closing"
    /\ collectorOpen' = [collectorOpen EXCEPT ![g] = FALSE]
    /\ pc' = [pc EXCEPT ![g] = "stopping"]
    /\ UNCHANGED <<errorCount, timerDue, cancelled, loopVars, ctxDone,
                   signalled, stoppedWorker, tableVars, envVars>>

\* Deferred send on the stopped channel, which blocks while it is full; the
\* goroutine then ends and its locals are gone.
SendStopped(g) ==
    /\ pc[g] = "stopping" /\ stoppedWorker = NoID
    /\ stoppedWorker' = g[1]
    /\ pc' = [pc EXCEPT ![g] = "idle"]
    /\ errorCount' = [errorCount EXCEPT ![g] = 0]
    /\ timerDue' = [timerDue EXCEPT ![g] = FALSE]
    /\ cancelled' = [cancelled EXCEPT ![g] = FALSE]
    /\ UNCHANGED <<collectorOpen, loopVars, ctxDone, signalled, tableVars,
                   envVars>>

-----------------------------------------------------------------------------
(* Callers and environment *)

\* The process runner delivers a signal.
SendSignal ==
    /\ "signal" \in Requests /\ InLoop /\ ~signalled
    /\ signalled' = TRUE
    /\ UNCHANGED <<loopVars, ctxDone, stoppedWorker, tableVars, workerVars,
                   envVars>>

\* Stop calls cancel, which Run has set, and then waits for the workers.
StopCancels ==
    /\ "stop" \in Requests /\ stopPc = "idle" /\ loop # "off"
    /\ ctxDone' = TRUE
    /\ stopPc' = "waiting"
    /\ UNCHANGED <<loopVars, signalled, stoppedWorker, tableVars, workerVars,
                   instances>>

StopReturns ==
    /\ stopPc = "waiting" /\ workersRunning = 0
    /\ stopPc' = "returned"
    /\ UNCHANGED <<loopVars, ctxDone, signalled, stoppedWorker, tableVars,
                   workerVars, instances>>

\* An instance appears in, or disappears from, RDS.
InstancesChange(guid) ==
    /\ \/ guid \notin instances /\ instances' = instances \cup {guid}
       \/ guid \in instances /\ instances' = instances \ {guid}
    /\ UNCHANGED <<loopVars, ctxDone, signalled, stoppedWorker, tableVars,
                   workerVars, stopPc>>

MainLoop ==
    \/ Run \/ RefreshTick \/ SelectRefresh
    \/ ListInstancesFails \/ ListInstancesReturns
    \/ \E id \in WorkerID : StartWorker(id)
    \/ CancelUnlisted \/ ReceiveStopped \/ DeleteEntry
    \/ SelectSignal \/ SelectCtxDone
    \/ DrainTimerFires \/ DrainTimeout \/ RunReturns

Worker(g) ==
    \/ NewCollectorFails(g) \/ NewCollectorReturns(g)
    \/ WorkerTick(g) \/ SelectCollect(g) \/ SelectDone(g)
    \/ CollectReturns(g) \/ CollectFails(g) \/ EmitMetrics(g)
    \/ CloseCollector(g) \/ SendStopped(g)

Environment ==
    \/ SendSignal \/ StopCancels \/ StopReturns
    \/ \E guid \in GUID : InstancesChange(guid)

Next ==
    \/ MainLoop
    \/ \E g \in Goroutine : Worker(g)
    \/ Environment

Spec == Init /\ [][Next]_vars

-----------------------------------------------------------------------------
(* Fairness *)

\* The steps the main loop takes by itself, timers included.
LoopStep ==
    \/ Run \/ RefreshTick \/ SelectRefresh
    \/ ListInstancesFails \/ ListInstancesReturns
    \/ \E id \in WorkerID : StartWorker(id)
    \/ CancelUnlisted \/ DeleteEntry \/ DrainTimerFires \/ RunReturns

WorkerStep(g) ==
    \/ WorkerTick(g) \/ SelectCollect(g) \/ CollectReturns(g) \/ CollectFails(g)
    \/ EmitMetrics(g) \/ CloseCollector(g)

\* Go runs every runnable goroutine, and timers fire. A select chooses among
\* its ready cases at random and senders blocked on a channel are served in
\* order, hence strong fairness on those steps. Steps a goroutine takes at
\* different places share one condition.
LoopFairness ==
    /\ WF_vars(LoopStep) /\ WF_vars(StopReturns)
    /\ SF_vars(ReceiveStopped \/ DrainTimeout)
    /\ SF_vars(SelectSignal \/ SelectCtxDone)

SelectFairness(g) == SF_vars(SelectDone(g) \/ SendStopped(g))

\* NewCollector answers, with a collector or with an error.
FairSpec ==
    /\ Spec /\ LoopFairness
    /\ \A g \in Goroutine :
          /\ WF_vars(WorkerStep(g) \/ NewCollectorFails(g) \/ NewCollectorReturns(g))
          /\ SelectFairness(g)

\* RDS does not fail every listing for ever.
ListingFairSpec == FairSpec /\ SF_vars(ListInstancesReturns)

\* NewCollector has no context and no deadline: it may never answer.
HangingSpec ==
    /\ Spec /\ LoopFairness
    /\ \A g \in Goroutine : WF_vars(WorkerStep(g)) /\ SelectFairness(g)

-----------------------------------------------------------------------------
(* Safety *)

\* The main loop never has two goroutines running for one worker id: an id is
\* started again only after the goroutine before it reported its end.
OneWorkerPerID ==
    \A id \in WorkerID : \A m, n \in Slot :
        Live(<<id, m>>) /\ Live(<<id, n>>) => m = n

\* workersRunning, which Stop waits on, counts the running goroutines and the
\* one whose end is reported in the channel but not yet received.
WorkersRunningExact ==
    workersRunning = Cardinality(LiveSet) + (IF stoppedWorker = NoID THEN 0 ELSE 1)

\* A report of a stopped worker, unread or being handled, is never about an id
\* that has a running goroutine: deleteWorker cannot remove a newer worker.
ReportIsNotStale ==
    \A g \in Goroutine :
        g[1] \in {stoppedWorker, deleting} => ~Live(g) /\ workers[g[1]] # NoSlot

\* On every path out of run, giving up on errors included, the collector is
\* closed before the goroutine ends.
CollectorsClosed == \A g \in Goroutine : collectorOpen[g] => Live(g)

\* When Run has returned, no worker runs, none is left blocked on its report
\* and no collector is open: the deferred loop waited for all of them.
RunReturnsClean ==
    loop = "returned" =>
        /\ \A g \in Goroutine : ~Live(g) /\ ~collectorOpen[g]
        /\ stoppedWorker = NoID /\ Registered = {} /\ workersRunning = 0

\* A worker whose instance has existed all along is never cancelled while the
\* scheduler runs, whatever listings fail and other instances come and go.
StableInstanceNotCancelled ==
    \A id \in DesiredWorkerIDs(GUID) :
        [](id.InstanceGUID \in instances)
            => [](\A n \in Slot : ~cancelled[<<id, n>>])

\* What a caller of Stop is told to expect once it has returned: no instance
\* has a worker in the table.
NoWorkersAfterStop == stopPc = "returned" => ListIntanceGUIDs = {}

-----------------------------------------------------------------------------
(* What the scheduler promises its caller *)

\* The main loop as the caller of Run sees it.
Phase ==
    CASE loop = "off" -> "off"
      [] InLoop -> "running"
      [] loop \in {"drain", "drainDelete"} -> "draining"
      [] OTHER -> "returned"

OpenSet == {g \in Goroutine : collectorOpen[g]}

Service == INSTANCE CollectionService
               WITH phase <- Phase, active <- LiveSet, open <- OpenSet

\* The scheduler implements CollectionService: behind the table, the channel
\* and the counter, a worker starts only while the loop runs and only when its
\* id has none, collectors are closed before a goroutine ends, and Run returns
\* only when every goroutine has ended.
ImplementsService == Service!Spec

-----------------------------------------------------------------------------
(* The inductive invariant behind the safety properties *)

\* The table names the goroutine of every id that has one, and an entry
\* without a goroutine waits for its report to be received or handled.
TableInv ==
    /\ \A g \in LiveSet : workers[g[1]] = g[2]
    /\ \A id \in Registered :
          \/ <<id, workers[id]>> \in LiveSet
          \/ id \in {stoppedWorker, deleting}
    /\ \A id \in WorkerID \cap {stoppedWorker, deleting} :
          /\ id \in Registered
          /\ \A n \in Slot : <<id, n>> \notin LiveSet
    /\ stoppedWorker = deleting => stoppedWorker = NoID
    /\ deleting # NoID <=> loop \in {"delete", "drainDelete"}
    /\ loop = "returned" => Registered = {}

CountInv == IsFiniteSet(LiveSet) /\ WorkersRunningExact

\* What holds of the locals of a goroutine wherever it is.
GoroutineInv ==
    \A g \in Goroutine :
        /\ collectorOpen[g] <=> pc[g] \in {"select", "collect", "emit", "closing"}
        /\ pc[g] \notin {"closing", "stopping"} => errorCount[g] <= maxRetries

IndInv == TypeOK /\ TableInv /\ CountInv /\ GoroutineInv

-----------------------------------------------------------------------------
(* Liveness *)

\* A signal or a Stop makes Run return, although workers may be creating a
\* collector, collecting, retrying or blocked on the channel of capacity one.
ShutdownCompletes == (signalled \/ ctxDone) ~> (loop = "returned")

\* A Stop that is waiting for the workers returns.
StopTerminates == (stopPc = "waiting") ~> (stopPc = "returned")

\* An instance that keeps existing always gets a worker again that is not
\* cancelled: after a failure of its worker, and after a time in which it was
\* not listed and its cancelled worker was still in the table.
ListedInstanceHasWorker ==
    \A id \in DesiredWorkerIDs(GUID) :
        <>[](id.InstanceGUID \in instances /\ ~signalled /\ ~ctxDone)
            => []<>(\E n \in Slot : Live(<<id, n>>) /\ ~cancelled[<<id, n>>])

\* An instance that is gone for good ends without a worker.
UnlistedInstanceLosesWorker ==
    \A id \in WorkerID :
        <>[](id.InstanceGUID \notin instances)
            => <>[](\A n \in Slot : ~Live(<<id, n>>))

\* A worker whose collections keep failing stops retrying and ends.
FailingWorkerGivesUp ==
    \A g \in Goroutine :
        []((Live(g) /\ [](pc[g] # "emit")) => <>(~Live(g)))

\* The 30 seconds timer of the deferred function ends the wait for workers.
DrainTimeoutEndsRun == (drainTimer = "fired") ~> (loop = "returned")
=============================================================================
