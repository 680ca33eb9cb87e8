--------------------------- MODULE SchedulerProofs ---------------------------
(***************************************************************************)
(* Proofs about Scheduler for any instances, drivers, engines, number of   *)
(* retries and number of goroutine slots.                                  *)
(***************************************************************************)
EXTENDS Scheduler, FiniteSetTheorems, TLAPS

\* A slot is free for an id that no goroutine runs for, and startWorker takes
\* one.
LEMMA FreeSlot ==
    ASSUME TypeOK, TableInv, NEW id \in WorkerID, id \notin Registered
    PROVE  LET n == CHOOSE m \in Slot : pc[<<id, m>>] = "idle"
           IN  n \in Slot /\ pc[<<id, n>>] = "idle"
<1>1. \A m \in Slot : <<id, m>> \in Goroutine
  BY DEF Goroutine
<1>2. \A m \in Slot : pc[<<id, m>>] = "idle"
  BY <1>1, ConstantsAssumption DEF TableInv, LiveSet, Live, Registered
<1> QED
  BY <1>2, ConstantsAssumption

\* What startWorker does, with the slot it takes named.
LEMMA StartWorkerEffect ==
    ASSUME TypeOK, TableInv, NEW id \in WorkerID, StartWorker(id)
    PROVE  \E n \in Slot :
             /\ <<id, n>> \in Goroutine /\ pc[<<id, n>>] = "idle"
             /\ loop = "start" /\ workers[id] = NoSlot
             /\ workers' = [workers EXCEPT ![id] = n]
             /\ pc' = [pc EXCEPT ![<<id, n>>] = "new"]
             /\ workersRunning' = workersRunning + 1
             /\ UNCHANGED <<errorCount, timerDue, cancelled, collectorOpen,
                            loopVars, stoppedWorker, envVars>>
<1> DEFINE n == CHOOSE m \in Slot : pc[<<id, m>>] = "idle"
<1>1. id \notin Registered
  BY DEF StartWorker
<1>2. n \in Slot /\ pc[<<id, n>>] = "idle"
  BY <1>1, FreeSlot, Zenon
<1>3. /\ loop = "start"
      /\ workers' = [workers EXCEPT ![id] = n]
      /\ pc' = [pc EXCEPT ![<<id, n>>] = "new"]
      /\ workersRunning' = workersRunning + 1
      /\ UNCHANGED <<errorCount, timerDue, cancelled, collectorOpen,
                     loopVars, stoppedWorker, envVars>>
  BY DEF StartWorker
<1>4. workers[id] = NoSlot
  BY <1>1 DEF Registered
<1> HIDE DEF n
<1>5. <<id, n>> \in Goroutine
  BY <1>2 DEF Goroutine
<1> QED
  BY <1>2, <1>3, <1>4, <1>5, Zenon

\* The scheduler that NewScheduler builds, with no worker, satisfies IndInv.
LEMMA InitIndInv == Init => IndInv
<1> SUFFICES ASSUME Init PROVE IndInv
  OBVIOUS
<1>1. TypeOK
  <2>1. FlagTypes
    BY Zenon DEF Init, FlagTypes
  <2> QED
    BY <2>1, ConstantsAssumption DEF Init, TypeOK
<1>2. LiveSet = {}
  BY DEF Init, LiveSet, Live
<1>3. TableInv
  BY <1>2, ConstantsAssumption DEF Init, TableInv, Registered
<1>4. CountInv
  BY <1>2, FS_EmptySet DEF Init, CountInv, WorkersRunningExact
<1>5. GoroutineInv
  BY ConstantsAssumption DEF Init, GoroutineInv
<1> QED
  BY <1>1, <1>3, <1>4, <1>5 DEF IndInv

\* Every step keeps the flags of the main loop and its callers Boolean.
LEMMA FlagStep == FlagTypes /\ [Next]_vars => FlagTypes'
<1> SUFFICES ASSUME FlagTypes, [Next]_vars PROVE FlagTypes'
  OBVIOUS
<1> USE Zenon DEF FlagTypes, vars, loopVars, tableVars, workerVars, envVars
<1>1. CASE MainLoop
  BY <1>1, Zenon DEF MainLoop, Run, RefreshTick, SelectRefresh, ListInstancesFails,
    ListInstancesReturns, StartWorker, CancelUnlisted, ReceiveStopped,
    DeleteEntry, SelectSignal, SelectCtxDone, BeginDrain, DrainTimerFires,
    DrainTimeout, RunReturns
<1>2. CASE \E g \in Goroutine : Worker(g)
  BY <1>2, Zenon DEF Worker, NewCollectorFails, NewCollectorReturns, WorkerTick,
    SelectCollect, SelectDone, CollectReturns, CollectFails, EmitMetrics,
    CloseCollector, SendStopped
<1>3. CASE Environment
  BY <1>3, Zenon DEF Environment, SendSignal, StopCancels, StopReturns, InstancesChange
<1>4. CASE UNCHANGED vars
  BY <1>4, Zenon
<1> QED
  BY <1>1, <1>2, <1>3, <1>4, Zenon DEF Next

\* Every step keeps the types; CollectFails needs that a worker that collects
\* has counted at most maxRetries errors.
LEMMA TypeStep == IndInv /\ [Next]_vars => TypeOK'
<1> SUFFICES ASSUME IndInv, [Next]_vars PROVE TypeOK'
  OBVIOUS
<1>0. FlagTypes'
  BY FlagStep DEF IndInv, TypeOK
<1> USE <1>0 DEF IndInv, TypeOK, vars, loopVars, tableVars, workerVars, envVars
<1>1. CASE MainLoop
  <2>1. CASE \E id \in WorkerID : StartWorker(id)
    <3> PICK id \in WorkerID : StartWorker(id)
      BY <2>1
    <3> PICK n \in Slot :
           /\ workers' = [workers EXCEPT ![id] = n]
           /\ pc' = [pc EXCEPT ![<<id, n>>] = "new"]
           /\ workersRunning' = workersRunning + 1
           /\ UNCHANGED <<errorCount, timerDue, cancelled, collectorOpen,
                          loopVars, stoppedWorker, envVars>>
      BY StartWorkerEffect, Zenon
    <3>1. workers' \in [WorkerID -> Slot \cup {NoSlot}]
      OBVIOUS
    <3>2. pc' \in [Goroutine -> {"idle", "new", "select", "collect", "emit",
                                 "closing", "stopping"}]
      BY Zenon
    <3> QED
      BY <3>1, <3>2
  <2>2. CASE CancelUnlisted
    BY <2>2 DEF CancelUnlisted
  <2>3. CASE ReceiveStopped \/ DeleteEntry
    BY <2>3 DEF ReceiveStopped, DeleteEntry
  <2>4. CASE Run \/ RefreshTick \/ SelectRefresh \/ ListInstancesFails
             \/ ListInstancesReturns
    BY <2>4 DEF Run, RefreshTick, SelectRefresh, ListInstancesFails,
                ListInstancesReturns, DesiredWorkerIDs
  <2>5. CASE SelectSignal \/ SelectCtxDone \/ DrainTimerFires \/ DrainTimeout
             \/ RunReturns
    BY <2>5 DEF SelectSignal, SelectCtxDone, BeginDrain, DrainTimerFires,
                DrainTimeout, RunReturns
  <2> QED
    BY <1>1, <2>1, <2>2, <2>3, <2>4, <2>5 DEF MainLoop
<1>2. CASE \E g \in Goroutine : Worker(g)
  <2> PICK g \in Goroutine : Worker(g)
    BY <1>2
  <2>1. g[1] \in WorkerID
    BY DEF Goroutine
  <2>2. CASE CollectFails(g)
    <3>1. errorCount[g] + 1 \in 0..(maxRetries + 1)
      BY <2>2, ConstantsAssumption DEF CollectFails, GoroutineInv
    <3>2. errorCount' \in [Goroutine -> 0..(maxRetries + 1)]
      BY <2>2, <3>1 DEF CollectFails
    <3> QED
      BY <2>2, <3>2 DEF CollectFails
  <2>3. CASE EmitMetrics(g) \/ SendStopped(g)
    <3>1. 0 \in 0..(maxRetries + 1)
      BY ConstantsAssumption
    <3>2. errorCount' \in [Goroutine -> 0..(maxRetries + 1)]
      BY <2>3, <3>1 DEF EmitMetrics, SendStopped
    <3>3. pc' \in [Goroutine -> {"idle", "new", "select", "collect", "emit",
                                 "closing", "stopping"}]
      BY <2>3 DEF EmitMetrics, SendStopped
    <3>4. timerDue' \in [Goroutine -> BOOLEAN] /\ cancelled' \in [Goroutine -> BOOLEAN]
      BY <2>3, Zenon DEF EmitMetrics, SendStopped
    <3>5. stoppedWorker' \in WorkerID \cup {NoID}
      BY <2>1, <2>3 DEF EmitMetrics, SendStopped
    <3>6. UNCHANGED <<collectorOpen, loopVars, tableVars, envVars>>
      BY <2>3 DEF EmitMetrics, SendStopped
    <3> QED
      BY <3>2, <3>3, <3>4, <3>5, <3>6
  <2>4. CASE NewCollectorFails(g) \/ SelectDone(g) \/ CollectReturns(g)
    BY <2>4 DEF NewCollectorFails, SelectDone, CollectReturns
  <2>5. CASE WorkerTick(g) \/ SelectCollect(g)
    <3>1. timerDue' \in [Goroutine -> BOOLEAN]
      BY <2>5, Zenon DEF WorkerTick, SelectCollect
    <3>2. pc' \in [Goroutine -> {"idle", "new", "select", "collect", "emit",
                                 "closing", "stopping"}]
      BY <2>5 DEF WorkerTick, SelectCollect
    <3>3. UNCHANGED <<errorCount, cancelled, collectorOpen, loopVars,
                      stoppedWorker, tableVars, envVars>>
      BY <2>5 DEF WorkerTick, SelectCollect
    <3> QED
      BY <3>1, <3>2, <3>3
  <2>6. CASE NewCollectorReturns(g) \/ CloseCollector(g)
    <3>1. collectorOpen' \in [Goroutine -> BOOLEAN]
      BY <2>6, Zenon DEF NewCollectorReturns, CloseCollector
    <3>2. pc' \in [Goroutine -> {"idle", "new", "select", "collect", "emit",
                                 "closing", "stopping"}]
      BY <2>6 DEF NewCollectorReturns, CloseCollector
    <3>3. UNCHANGED <<errorCount, timerDue, cancelled, loopVars, stoppedWorker,
                      tableVars, envVars>>
      BY <2>6 DEF NewCollectorReturns, CloseCollector
    <3> QED
      BY <3>1, <3>2, <3>3
  <2> QED
    BY <2>2, <2>3, <2>4, <2>5, <2>6 DEF Worker
<1>3. CASE Environment
  BY <1>3 DEF Environment, SendSignal, StopCancels, StopReturns, InstancesChange
<1>4. CASE UNCHANGED vars
  BY <1>4
<1> QED
  BY <1>1, <1>2, <1>3, <1>4 DEF Next

\* The goroutines of a worker keep their locals consistent: the collector is
\* open exactly between NewCollector and Close, and a worker that goes on has
\* counted at most maxRetries errors.
LEMMA GoroutineStep == IndInv /\ [Next]_vars => GoroutineInv'
<1> SUFFICES ASSUME IndInv, [Next]_vars, NEW h \in Goroutine
             PROVE  /\ collectorOpen'[h] <=> pc'[h] \in {"select", "collect", "emit", "closing"}
                    /\ pc'[h] \notin {"closing", "stopping"} => errorCount'[h] <= maxRetries
  BY DEF GoroutineInv
<1>0. /\ pc \in [Goroutine -> {"idle", "new", "select", "collect", "emit",
                               "closing", "stopping"}]
      /\ errorCount \in [Goroutine -> 0..(maxRetries + 1)]
      /\ collectorOpen \in [Goroutine -> BOOLEAN]
      /\ maxRetries \in Nat
  BY ConstantsAssumption DEF IndInv, TypeOK
<1>1. /\ collectorOpen[h] <=> pc[h] \in {"select", "collect", "emit", "closing"}
      /\ pc[h] \notin {"closing", "stopping"} => errorCount[h] <= maxRetries
  BY DEF IndInv, GoroutineInv
<1>2. CASE UNCHANGED <<pc, errorCount, collectorOpen>>
  BY <1>1, <1>2
<1>3. CASE \E id \in WorkerID : StartWorker(id)
  <2> PICK id \in WorkerID : StartWorker(id)
    BY <1>3
  <2> PICK n \in Slot :
         /\ <<id, n>> \in Goroutine /\ pc[<<id, n>>] = "idle"
         /\ pc' = [pc EXCEPT ![<<id, n>>] = "new"]
         /\ UNCHANGED <<errorCount, collectorOpen>>
    BY StartWorkerEffect DEF IndInv
  <2>1. CASE h = <<id, n>>
    BY <1>0, <1>1, <2>1
  <2>2. CASE h # <<id, n>>
    BY <1>0, <1>1, <2>2
  <2> QED
    BY <2>1, <2>2
<1>4. CASE \E g \in Goroutine : Worker(g)
  <2> PICK g \in Goroutine : Worker(g)
    BY <1>4
  <2> USE <1>0, <1>1
  <2>1. CASE NewCollectorFails(g) \/ SelectDone(g) \/ CollectReturns(g)
    BY <2>1 DEF NewCollectorFails, SelectDone, CollectReturns
  <2>2. CASE WorkerTick(g) \/ SelectCollect(g)
    BY <2>2 DEF WorkerTick, SelectCollect
  <2>3. CASE NewCollectorReturns(g) \/ CloseCollector(g)
    BY <2>3 DEF NewCollectorReturns, CloseCollector
  <2>4. CASE CollectFails(g)
    BY <2>4 DEF CollectFails
  <2>5. CASE EmitMetrics(g) \/ SendStopped(g)
    BY <2>5 DEF EmitMetrics, SendStopped
  <2> QED
    BY <2>1, <2>2, <2>3, <2>4, <2>5 DEF Worker
<1> QED
  BY <1>2, <1>3, <1>4 DEF Next, MainLoop, Run, RefreshTick, SelectRefresh,
    ListInstancesFails, ListInstancesReturns, CancelUnlisted, ReceiveStopped,
    DeleteEntry, SelectSignal, SelectCtxDone, BeginDrain, DrainTimerFires,
    DrainTimeout, RunReturns, Environment, SendSignal, StopCancels,
    StopReturns, InstancesChange, vars, workerVars

\* A step that leaves the table, the counter, the channel and the set of
\* running goroutines alone preserves what relates them.
LEMMA QuietStep ==
    ASSUME TableInv, CountInv, LiveSet' = LiveSet,
           UNCHANGED <<workers, workersRunning, stoppedWorker, deleting>>,
           loop' \in {"delete", "drainDelete"} <=> loop \in {"delete", "drainDelete"},
           loop' = "returned" => Registered = {}
    PROVE  TableInv' /\ CountInv'
<1>1. Registered' = Registered
  BY DEF Registered
<1>2. TableInv'
  BY <1>1 DEF TableInv
<1>3. CountInv'
  BY DEF CountInv, WorkersRunningExact
<1> QED
  BY <1>2, <1>3

\* startWorker registers and counts the goroutine it starts.
LEMMA StartStep ==
    ASSUME IndInv, NEW id \in WorkerID, StartWorker(id)
    PROVE  TableInv' /\ CountInv'
<1> PICK n \in Slot :
       /\ <<id, n>> \in Goroutine /\ pc[<<id, n>>] = "idle"
       /\ loop = "start" /\ workers[id] = NoSlot
       /\ workers' = [workers EXCEPT ![id] = n]
       /\ pc' = [pc EXCEPT ![<<id, n>>] = "new"]
       /\ workersRunning' = workersRunning + 1
       /\ UNCHANGED <<loopVars, stoppedWorker>>
  BY StartWorkerEffect DEF IndInv
<1>0. /\ workers \in [WorkerID -> Slot \cup {NoSlot}]
      /\ pc \in [Goroutine -> {"idle", "new", "select", "collect", "emit",
                               "closing", "stopping"}]
      /\ workersRunning \in Int
      /\ TableInv /\ CountInv
  BY DEF IndInv, TypeOK
<1>1. LiveSet' = LiveSet \cup {<<id, n>>} /\ <<id, n>> \notin LiveSet
  BY <1>0 DEF LiveSet, Live
<1>2. Registered' = Registered \cup {id} /\ id \notin Registered
  BY <1>0, ConstantsAssumption DEF Registered
<1>3. TableInv'
  <2>1. \A g \in LiveSet' : workers'[g[1]] = g[2]
    <3> SUFFICES ASSUME NEW g \in LiveSet' PROVE workers'[g[1]] = g[2]
      OBVIOUS
    <3>1. CASE g = <<id, n>>
      BY <1>0, <3>1
    <3>2. CASE g \in LiveSet
      <4>1. g[1] \in WorkerID /\ g[2] \in Slot
        BY <3>2 DEF LiveSet, Goroutine
      <4>2. workers[g[1]] = g[2]
        BY <1>0, <3>2 DEF TableInv
      <4> QED
        BY <1>0, <4>1, <4>2, ConstantsAssumption
    <3> QED
      BY <1>1, <3>1, <3>2
  <2>2. \A i \in Registered' : \/ <<i, workers'[i]>> \in LiveSet'
                               \/ i \in {stoppedWorker', deleting'}
    BY <1>0, <1>1, <1>2 DEF TableInv, loopVars, Registered
  <2>3. \A i \in WorkerID \cap {stoppedWorker', deleting'} :
           /\ i \in Registered'
           /\ \A m \in Slot : <<i, m>> \notin LiveSet'
    BY <1>0, <1>1, <1>2 DEF TableInv, loopVars
  <2> QED
    BY <2>1, <2>2, <2>3, <1>0 DEF TableInv, loopVars
<1>4. CountInv'
  <2>1. IsFiniteSet(LiveSet') /\ Cardinality(LiveSet') = Cardinality(LiveSet) + 1
    BY <1>0, <1>1, FS_AddElement DEF CountInv
  <2> QED
    BY <1>0, <2>1, FS_CardinalityType DEF CountInv, WorkersRunningExact
<1> QED
  BY <1>3, <1>4

\* A goroutine that ends leaves its report in the empty channel.
LEMMA SendStep ==
    ASSUME IndInv, NEW g \in Goroutine, SendStopped(g)
    PROVE  TableInv' /\ CountInv'
<1>0. /\ workers \in [WorkerID -> Slot \cup {NoSlot}]
      /\ pc \in [Goroutine -> {"idle", "new", "select", "collect", "emit",
                               "closing", "stopping"}]
      /\ workersRunning \in Int
      /\ TableInv /\ CountInv
      /\ g[1] \in WorkerID /\ g[2] \in Slot /\ g = <<g[1], g[2]>>
  BY DEF IndInv, TypeOK, Goroutine
<1>1. /\ stoppedWorker = NoID /\ stoppedWorker' = g[1]
      /\ UNCHANGED <<loop, deleting, workers, workersRunning>>
  BY DEF SendStopped, loopVars, tableVars
<1>2. LiveSet' = LiveSet \ {g} /\ g \in LiveSet
  BY <1>0 DEF SendStopped, LiveSet, Live
<1>3. Registered' = Registered /\ g[1] \in Registered
  BY <1>0, <1>1, <1>2, ConstantsAssumption DEF Registered, TableInv
<1>4. \A m \in Slot : <<g[1], m>> \in LiveSet => m = g[2]
  BY <1>0, <1>2 DEF TableInv
<1>5. TableInv'
  <2>1. \A h \in LiveSet' : workers'[h[1]] = h[2]
    BY <1>0, <1>1, <1>2 DEF TableInv
  <2>2. \A i \in Registered' : \/ <<i, workers'[i]>> \in LiveSet'
                               \/ i \in {stoppedWorker', deleting'}
    BY <1>0, <1>1, <1>2, <1>3, ConstantsAssumption DEF TableInv, Registered
  <2>3. \A i \in WorkerID \cap {stoppedWorker', deleting'} :
           /\ i \in Registered'
           /\ \A m \in Slot : <<i, m>> \notin LiveSet'
    BY <1>0, <1>1, <1>2, <1>3, <1>4 DEF TableInv
  <2>4. g[1] # deleting
    BY <1>0, <1>2 DEF TableInv
  <2> QED
    BY <2>1, <2>2, <2>3, <2>4, <1>0, <1>1, <1>3 DEF TableInv
<1>6. CountInv'
  <2>1. IsFiniteSet(LiveSet') /\ Cardinality(LiveSet') = Cardinality(LiveSet) - 1
    BY <1>0, <1>2, FS_RemoveElement DEF CountInv
  <2>2. g[1] # NoID
    BY <1>0, ConstantsAssumption
  <2> QED
    BY <1>0, <1>1, <2>1, <2>2, FS_CardinalityType
    DEF CountInv, WorkersRunningExact
<1> QED
  BY <1>5, <1>6

\* Receiving a report uncounts the goroutine that ended.
LEMMA ReceiveStep ==
    ASSUME IndInv, ReceiveStopped
    PROVE  TableInv' /\ CountInv'
<1>0. workersRunning \in Int /\ stoppedWorker \in WorkerID /\ TableInv /\ CountInv
  BY DEF IndInv, TypeOK, ReceiveStopped
<1>1. /\ deleting' = stoppedWorker /\ stoppedWorker' = NoID
      /\ workersRunning' = workersRunning - 1
      /\ UNCHANGED <<workers, pc>>
      /\ loop \in {"select", "drain"} /\ loop' \in {"delete", "drainDelete"}
  BY DEF ReceiveStopped, workerVars
<1>2. LiveSet' = LiveSet /\ Registered' = Registered
  BY <1>1 DEF LiveSet, Live, Registered
<1>3. deleting = NoID
  BY <1>0, <1>1 DEF TableInv
<1>4. TableInv'
  BY <1>0, <1>1, <1>2, <1>3, ConstantsAssumption DEF TableInv, Registered
<1>5. CountInv'
  BY <1>0, <1>1, <1>2, ConstantsAssumption, FS_CardinalityType
  DEF CountInv, WorkersRunningExact
<1> QED
  BY <1>4, <1>5

\* The deleted entry is the one of a goroutine that ended.
LEMMA DeleteStep ==
    ASSUME IndInv, DeleteEntry
    PROVE  TableInv' /\ CountInv'
<1>0. /\ workers \in [WorkerID -> Slot \cup {NoSlot}]
      /\ deleting \in WorkerID \cup {NoID} /\ TableInv /\ CountInv
  BY DEF IndInv, TypeOK
<1>1. /\ deleting' = NoID /\ UNCHANGED <<stoppedWorker, workersRunning, pc>>
      /\ workers' = [workers EXCEPT ![deleting] = NoSlot]
      /\ loop \in {"delete", "drainDelete"} /\ loop' \in {"select", "drain"}
  BY DEF DeleteEntry, workerVars
<1>2. deleting \in WorkerID /\ stoppedWorker # deleting
  BY <1>0, <1>1 DEF TableInv
<1>3. LiveSet' = LiveSet
  BY <1>1 DEF LiveSet, Live
<1>4. Registered' = Registered \ {deleting}
  BY <1>0, <1>1, <1>2 DEF Registered
<1>5. TableInv'
  <2>1. \A g \in LiveSet' : workers'[g[1]] = g[2]
    <3> SUFFICES ASSUME NEW g \in LiveSet PROVE workers'[g[1]] = g[2]
      BY <1>3
    <3>1. g[1] \in WorkerID /\ g[2] \in Slot /\ g = <<g[1], g[2]>>
      BY DEF LiveSet, Goroutine
    <3>2. g[1] # deleting
      BY <1>0, <1>2, <3>1 DEF TableInv
    <3> QED
      BY <1>0, <1>1, <3>1, <3>2 DEF TableInv
  <2>2. \A i \in Registered' : \/ <<i, workers'[i]>> \in LiveSet'
                               \/ i \in {stoppedWorker', deleting'}
    BY <1>0, <1>1, <1>2, <1>3, <1>4 DEF TableInv, Registered
  <2>3. \A i \in WorkerID \cap {stoppedWorker', deleting'} :
           /\ i \in Registered'
           /\ \A m \in Slot : <<i, m>> \notin LiveSet'
    BY <1>0, <1>1, <1>2, <1>3, <1>4, ConstantsAssumption DEF TableInv
  <2> QED
    BY <2>1, <2>2, <2>3, <1>1 DEF TableInv
<1>6. CountInv'
  BY <1>0, <1>1, <1>3 DEF CountInv, WorkersRunningExact
<1> QED
  BY <1>5, <1>6

\* Every step of the scheduler, its workers and its callers preserves the
\* relation between table, counter, channel and goroutines.
LEMMA TableStep == IndInv /\ [Next]_vars => TableInv' /\ CountInv'
<1> SUFFICES ASSUME IndInv, [Next]_vars PROVE TableInv' /\ CountInv'
  OBVIOUS
<1>0. /\ TableInv /\ CountInv
      /\ pc \in [Goroutine -> {"idle", "new", "select", "collect", "emit",
                               "closing", "stopping"}]
  BY DEF IndInv, TypeOK
<1>1. CASE \E id \in WorkerID : StartWorker(id)
  BY <1>1, StartStep
<1>2. CASE ReceiveStopped
  BY <1>2, ReceiveStep
<1>3. CASE DeleteEntry
  BY <1>3, DeleteStep
<1>4. CASE \/ Run \/ RefreshTick \/ SelectRefresh \/ ListInstancesFails
           \/ ListInstancesReturns \/ CancelUnlisted \/ SelectSignal
           \/ SelectCtxDone \/ DrainTimerFires \/ DrainTimeout \/ RunReturns
           \/ Environment \/ UNCHANGED vars
  <2>1. UNCHANGED <<workers, workersRunning, stoppedWorker, deleting, pc>>
    BY <1>4 DEF Run, RefreshTick, SelectRefresh, ListInstancesFails,
      ListInstancesReturns, CancelUnlisted, SelectSignal, SelectCtxDone,
      BeginDrain, DrainTimerFires, DrainTimeout, RunReturns, Environment,
      SendSignal, StopCancels, StopReturns, InstancesChange,
      vars, loopVars, tableVars, workerVars
  <2>2. /\ loop' \in {"delete", "drainDelete"} <=> loop \in {"delete", "drainDelete"}
        /\ loop' = "returned" => loop = "returned" \/ Registered = {}
    BY <1>4, Zenon DEF Run, RefreshTick, SelectRefresh, ListInstancesFails,
      ListInstancesReturns, CancelUnlisted, SelectSignal, SelectCtxDone,
      BeginDrain, DrainTimerFires, DrainTimeout, RunReturns, Environment,
      SendSignal, StopCancels, StopReturns, InstancesChange, vars, loopVars
  <2>3. LiveSet' = LiveSet
    BY <2>1 DEF LiveSet, Live
  <2>4. loop' = "returned" => Registered = {}
    BY <1>0, <2>2 DEF TableInv
  <2> QED
    BY <1>0, <2>1, <2>2, <2>3, <2>4, QuietStep
<1>5. CASE \E g \in Goroutine : Worker(g)
  <2> PICK g \in Goroutine : Worker(g)
    BY <1>5
  <2>1. CASE SendStopped(g)
    BY <2>1, SendStep
  <2>2. CASE ~SendStopped(g)
    <3>1. /\ UNCHANGED <<workers, workersRunning, stoppedWorker, loopVars>>
          /\ \/ UNCHANGED pc
             \/ \E v \in {"select", "collect", "emit", "closing", "stopping"} :
                  pc[g] # "idle" /\ pc' = [pc EXCEPT ![g] = v]
      BY <2>2 DEF Worker, NewCollectorFails, NewCollectorReturns, WorkerTick,
        SelectCollect, SelectDone, CollectReturns, CollectFails, EmitMetrics,
        CloseCollector, tableVars
    <3>2. LiveSet' = LiveSet
      BY <1>0, <3>1 DEF LiveSet, Live
    <3>3. loop' = loop /\ deleting' = deleting
      BY <3>1 DEF loopVars
    <3> QED
      BY <1>0, <3>1, <3>2, <3>3, QuietStep DEF TableInv
  <2> QED
    BY <2>1, <2>2
<1> QED
  BY <1>1, <1>2, <1>3, <1>4, <1>5 DEF Next, MainLoop

\* IndInv holds in every reachable state of the scheduler.
THEOREM Invariance == Spec => []IndInv
<1>1. IndInv /\ [Next]_vars => IndInv'
  BY TypeStep, TableStep, GoroutineStep DEF IndInv
<1> QED
  BY <1>1, InitIndInv, PTL DEF Spec

\* TypeOK is an invariant: in particular no worker counts more than
\* maxRetries + 1 errors.
THEOREM TypeCorrect == Spec => []TypeOK
  BY Invariance, PTL DEF IndInv

\* The main loop never runs two goroutines for one driver and instance.
THEOREM OneWorkerPerIDHolds == Spec => []OneWorkerPerID
<1>1. IndInv => OneWorkerPerID
  <2> SUFFICES ASSUME IndInv, NEW id \in WorkerID, NEW m \in Slot, NEW n \in Slot,
                      Live(<<id, m>>), Live(<<id, n>>)
               PROVE  m = n
    BY DEF OneWorkerPerID
  <2>1. <<id, m>> \in LiveSet /\ <<id, n>> \in LiveSet
    BY DEF LiveSet, Goroutine
  <2> QED
    BY <2>1 DEF IndInv, TableInv
<1> QED
  BY <1>1, Invariance, PTL

\* The WaitGroup counts exactly the goroutines that run and the report that is
\* not received, so its counter never becomes negative.
THEOREM WorkersRunningExactHolds == Spec => []WorkersRunningExact
  BY Invariance, PTL DEF IndInv, CountInv

\* A report is never about a worker that runs: deleteWorker cannot remove the
\* entry of a newer goroutine.
THEOREM ReportIsNotStaleHolds == Spec => []ReportIsNotStale
<1>1. IndInv => ReportIsNotStale
  <2> SUFFICES ASSUME IndInv, NEW g \in Goroutine,
                      g[1] \in {stoppedWorker, deleting}
               PROVE  ~Live(g) /\ workers[g[1]] # NoSlot
    BY DEF ReportIsNotStale
  <2>1. g[1] \in WorkerID /\ g[2] \in Slot /\ g = <<g[1], g[2]>>
    BY DEF Goroutine
  <2>2. g[1] \in Registered /\ <<g[1], g[2]>> \notin LiveSet
    BY <2>1 DEF IndInv, TableInv
  <2> QED
    BY <2>1, <2>2 DEF LiveSet, Registered
<1> QED
  BY <1>1, Invariance, PTL

\* Every collector is closed before its goroutine ends.
THEOREM CollectorsClosedHolds == Spec => []CollectorsClosed
<1>1. IndInv => CollectorsClosed
  BY DEF IndInv, GoroutineInv, CollectorsClosed, Live
<1> QED
  BY <1>1, Invariance, PTL

\* Run returns only when no worker runs, no report is unread and no collector
\* is open.
THEOREM RunReturnsCleanHolds == Spec => []RunReturnsClean
<1>1. IndInv => RunReturnsClean
  <2> SUFFICES ASSUME IndInv, loop = "returned"
               PROVE  /\ \A g \in Goroutine : ~Live(g) /\ ~collectorOpen[g]
                      /\ stoppedWorker = NoID /\ Registered = {}
                      /\ workersRunning = 0
    BY DEF RunReturnsClean
  <2>1. Registered = {}
    BY DEF IndInv, TableInv
  <2>2. stoppedWorker = NoID
    BY <2>1 DEF IndInv, TableInv, TypeOK
  <2>3. LiveSet = {}
    <3> SUFFICES ASSUME NEW g \in LiveSet PROVE FALSE
      OBVIOUS
    <3>1. g[1] \in WorkerID /\ g[2] \in Slot
      BY DEF LiveSet, Goroutine
    <3>2. g[1] \in Registered
      BY <3>1, ConstantsAssumption DEF IndInv, TableInv, Registered
    <3> QED
      BY <2>1, <3>2
  <2>4. \A g \in Goroutine : ~Live(g) /\ ~collectorOpen[g]
    BY <2>3 DEF LiveSet, Live, IndInv, GoroutineInv
  <2>5. workersRunning = 0
    BY <2>2, <2>3, FS_EmptySet DEF IndInv, CountInv, WorkersRunningExact
  <2> QED
    BY <2>1, <2>2, <2>4, <2>5
<1> QED
  BY <1>1, Invariance, PTL

\* Whoever waits for the workers, the deferred loop of mainLoop or a caller of
\* Stop, waits for a report in the channel or for a goroutine that still runs,
\* whose context is done; and a Stop waits while the main loop is there to
\* receive. What is left of ShutdownCompletes and StopTerminates is that the
\* goroutines get on.
NobodyWaitsInVain ==
    /\ loop = "drain" /\ Registered # {} =>
          ctxDone /\ (stoppedWorker # NoID \/ LiveSet # {})
    /\ stopPc = "waiting" /\ workersRunning # 0 =>
          /\ ctxDone /\ (stoppedWorker # NoID \/ LiveSet # {})
          /\ loop \notin {"off", "returned"}

\* The context is done before anyone waits, and Stop is not called before Run.
ShutdownInv ==
    /\ loop \in {"drain", "drainDelete", "returned"} => ctxDone
    /\ stopPc # "idle" => ctxDone /\ loop # "off"

\* Nothing revives a context that is done, and nothing returns to the start.
LEMMA ShutdownStep == ShutdownInv /\ [Next]_vars => ShutdownInv'
<1> SUFFICES ASSUME ShutdownInv, [Next]_vars PROVE ShutdownInv'
  OBVIOUS
<1> USE DEF ShutdownInv
<1>1. CASE \/ Run \/ RefreshTick \/ SelectRefresh \/ ListInstancesFails
           \/ ListInstancesReturns \/ CancelUnlisted \/ ReceiveStopped
           \/ DeleteEntry \/ DrainTimerFires \/ DrainTimeout \/ RunReturns
  BY <1>1 DEF Run, RefreshTick, SelectRefresh, ListInstancesFails,
    ListInstancesReturns, CancelUnlisted, ReceiveStopped, DeleteEntry,
    DrainTimerFires, DrainTimeout, RunReturns, envVars
<1>2. CASE SelectSignal \/ SelectCtxDone
  BY <1>2 DEF SelectSignal, SelectCtxDone, BeginDrain, envVars
<1>3. CASE \E id \in WorkerID : StartWorker(id)
  BY <1>3 DEF StartWorker, loopVars, envVars
<1>4. CASE \E g \in Goroutine : Worker(g)
  <2>1. PICK g \in Goroutine : Worker(g)
    BY <1>4
  <2>2. UNCHANGED <<loopVars, envVars, ctxDone>>
    BY <2>1, Zenon DEF Worker, NewCollectorFails, NewCollectorReturns, WorkerTick,
      SelectCollect, SelectDone, CollectReturns, CollectFails, EmitMetrics,
      CloseCollector, SendStopped
  <2> QED
    BY <2>2 DEF loopVars, envVars
<1>5. CASE Environment \/ UNCHANGED vars
  BY <1>5 DEF Environment, SendSignal, StopCancels, StopReturns,
    InstancesChange, vars, loopVars, envVars
<1> QED
  BY <1>1, <1>2, <1>3, <1>4, <1>5 DEF Next, MainLoop

\* Neither the draining main loop nor a Stop ever waits for a worker that has
\* ended and reported it.
THEOREM NobodyWaitsInVainHolds == Spec => []NobodyWaitsInVain
<1>1. Init => ShutdownInv
  BY DEF Init, ShutdownInv
<1>2. IndInv /\ ShutdownInv /\ RunReturnsClean => NobodyWaitsInVain
  <2> SUFFICES ASSUME IndInv, ShutdownInv, RunReturnsClean PROVE NobodyWaitsInVain
    OBVIOUS
  <2>1. ASSUME loop = "drain", Registered # {}
        PROVE  stoppedWorker # NoID \/ LiveSet # {}
    <3>1. deleting = NoID
      BY <2>1 DEF IndInv, TableInv
    <3>2. PICK id \in Registered : TRUE
      BY <2>1
    <3>3. id # NoID
      BY <3>2, ConstantsAssumption DEF Registered
    <3> QED
      BY <3>1, <3>2, <3>3, Zenon DEF IndInv, TableInv
  <2>2. ASSUME workersRunning # 0
        PROVE  stoppedWorker # NoID \/ LiveSet # {}
    BY <2>2, FS_EmptySet DEF IndInv, CountInv, WorkersRunningExact
  <2>3. ASSUME workersRunning # 0 PROVE loop # "returned"
    BY <2>3 DEF RunReturnsClean
  <2> QED
    BY <2>1, <2>2, <2>3 DEF ShutdownInv, NobodyWaitsInVain
<1> QED
  BY <1>1, <1>2, ShutdownStep, Invariance, RunReturnsCleanHolds, PTL DEF Spec

\* While an instance exists, a refresh that reached its start and cancel loops
\* has it among the desired ids, and its worker is not cancelled.
LEMMA StableStep ==
    ASSUME NEW id \in DesiredWorkerIDs(GUID), TypeOK, [Next]_vars,
           id.InstanceGUID \in instances,
           loop = "start" => id \in desiredWorkerIDs,
           \A n \in Slot : ~cancelled[<<id, n>>]
    PROVE  /\ loop' = "start" => id \in desiredWorkerIDs'
           /\ \A n \in Slot : ~cancelled'[<<id, n>>]
<1>0. id \in WorkerID /\ TypeOf[id.InstanceGUID] \in SupportedTypes[id.Driver]
  BY DEF DesiredWorkerIDs
<1>1. \A n \in Slot : <<id, n>> \in Goroutine
  BY <1>0 DEF Goroutine
<1>2. CASE CancelUnlisted
  <2>1. \A n \in Slot : ~cancelled'[<<id, n>>]
    BY <1>1, <1>2 DEF CancelUnlisted
  <2>2. loop' = "select"
    BY <1>2 DEF CancelUnlisted
  <2> QED
    BY <2>1, <2>2
<1>3. CASE ListInstancesReturns
  BY <1>0, <1>3 DEF ListInstancesReturns, DesiredWorkerIDs, workerVars
<1>4. CASE \E g \in Goroutine : Worker(g)
  <2> PICK g \in Goroutine : Worker(g)
    BY <1>4
  <2>1. UNCHANGED <<loop, desiredWorkerIDs>>
        /\ (UNCHANGED cancelled \/ cancelled' = [cancelled EXCEPT ![g] = FALSE])
    BY Zenon DEF Worker, NewCollectorFails, NewCollectorReturns, WorkerTick,
      SelectCollect, SelectDone, CollectReturns, CollectFails, EmitMetrics,
      CloseCollector, SendStopped, loopVars
  <2> QED
    BY <1>1, <2>1 DEF TypeOK
<1>5. CASE \/ Run \/ RefreshTick \/ SelectRefresh \/ ListInstancesFails
           \/ (\E i \in WorkerID : StartWorker(i)) \/ ReceiveStopped
           \/ DeleteEntry \/ SelectSignal \/ SelectCtxDone \/ DrainTimerFires
           \/ DrainTimeout \/ RunReturns \/ Environment \/ UNCHANGED vars
  <2>1. UNCHANGED cancelled /\ (loop' = "start" => UNCHANGED <<loop, desiredWorkerIDs>>)
    BY <1>5, Zenon DEF Run, RefreshTick, SelectRefresh, ListInstancesFails, StartWorker,
      ReceiveStopped, DeleteEntry, SelectSignal, SelectCtxDone, BeginDrain,
      DrainTimerFires, DrainTimeout, RunReturns, Environment, SendSignal,
      StopCancels, StopReturns, InstancesChange, vars, loopVars, workerVars
  <2> QED
    BY <2>1, Zenon
<1> QED
  BY <1>2, <1>3, <1>4, <1>5, Zenon DEF Next, MainLoop

\* A worker whose instance never disappears is never cancelled: neither a
\* failed listing nor the listing of other instances cancels it.
THEOREM StableInstanceNotCancelledHolds == Spec => StableInstanceNotCancelled
<1> SUFFICES ASSUME NEW id \in DesiredWorkerIDs(GUID)
             PROVE  Spec => ([](id.InstanceGUID \in instances)
                               => [](\A n \in Slot : ~cancelled[<<id, n>>]))
  BY DEF StableInstanceNotCancelled
<1> DEFINE P == id.InstanceGUID \in instances
           C == \A n \in Slot : ~cancelled[<<id, n>>]
           D == loop = "start" => id \in desiredWorkerIDs
<1>1. Init => C /\ D
  <2> SUFFICES ASSUME Init PROVE C /\ D
    OBVIOUS
  <2>1. \A n \in Slot : <<id, n>> \in Goroutine
    BY DEF Goroutine, DesiredWorkerIDs
  <2> QED
    BY <2>1 DEF Init
<1>2. TypeOK /\ P /\ C /\ D /\ [Next]_vars => C' /\ D'
  BY StableStep
<1> HIDE DEF P, C, D
<1>3. Spec => ([]P => []C)
  BY <1>1, <1>2, TypeCorrect, PTL DEF Spec
<1> QED
  BY <1>3 DEF P, C

\* A step that changes neither the goroutines nor their collectors is, for the
\* caller, a change of phase that CollectionService allows, or nothing.
LEMMA PhaseStep ==
    ASSUME IndInv, UNCHANGED <<pc, collectorOpen>>,
           \/ loop' = loop
           \/ loop = "off" /\ loop' = "select"
           \/ InLoop /\ loop' \in {"select", "list", "start", "delete", "drain"}
           \/ loop = "drain" /\ loop' = "drainDelete"
           \/ loop = "drainDelete" /\ loop' = "drain"
           \/ loop = "drain" /\ Registered = {} /\ loop' = "returned"
    PROVE  [Service!Next]_(Service!vars)
<1>1. LiveSet' = LiveSet /\ OpenSet' = OpenSet
  BY DEF LiveSet, Live, OpenSet
<1>2. CASE Phase' = Phase
  BY <1>1, <1>2 DEF Service!vars
<1>3. CASE loop = "off" /\ loop' = "select"
  <2>1. Service!Begin
    BY <1>1, <1>3 DEF Service!Begin, Phase, InLoop
  <2> QED
    BY <2>1 DEF Service!Next
<1>4. CASE InLoop /\ loop' = "drain"
  <2>1. Service!Shutdown
    BY <1>1, <1>4 DEF Service!Shutdown, Phase, InLoop
  <2> QED
    BY <2>1 DEF Service!Next
<1>5. CASE loop = "drain" /\ Registered = {} /\ loop' = "returned"
  <2>1. LiveSet = {}
    <3> SUFFICES ASSUME NEW g \in LiveSet PROVE FALSE
      OBVIOUS
    <3>1. g[1] \in WorkerID /\ g[2] \in Slot
      BY DEF LiveSet, Goroutine
    <3> QED
      BY <1>5, <3>1, ConstantsAssumption DEF IndInv, TableInv, Registered
  <2>2. Service!Finish
    BY <1>1, <1>5, <2>1 DEF Service!Finish, Phase, InLoop
  <2> QED
    BY <2>2 DEF Service!Next
<1>6. \/ Phase' = Phase
      \/ loop = "off" /\ loop' = "select"
      \/ InLoop /\ loop' = "drain"
      \/ loop = "drain" /\ Registered = {} /\ loop' = "returned"
  BY DEF Phase, InLoop
<1> QED
  BY <1>2, <1>3, <1>4, <1>5, <1>6

\* startWorker is the start of a goroutine whose id has no other one.
LEMMA StartImplements ==
    ASSUME IndInv, NEW id \in WorkerID, StartWorker(id)
    PROVE  Service!Next
<1> PICK n \in Slot :
       /\ <<id, n>> \in Goroutine /\ pc[<<id, n>>] = "idle"
       /\ loop = "start" /\ workers[id] = NoSlot
       /\ pc' = [pc EXCEPT ![<<id, n>>] = "new"]
       /\ UNCHANGED <<collectorOpen, loopVars>>
  BY StartWorkerEffect DEF IndInv
<1>1. LiveSet' = LiveSet \cup {<<id, n>>}
  BY DEF LiveSet, Live, IndInv, TypeOK
<1>2. OpenSet' = OpenSet
  BY DEF OpenSet
<1>3. Phase = "running" /\ Phase' = "running"
  BY DEF Phase, InLoop, loopVars
<1>4. \A h \in LiveSet : h[1] # id
  <2> SUFFICES ASSUME NEW h \in LiveSet, h[1] = id PROVE FALSE
    OBVIOUS
  <2>1. h[2] \in Slot
    BY DEF LiveSet, Goroutine
  <2> QED
    BY <2>1, ConstantsAssumption DEF IndInv, TableInv
<1>5. Service!Start(<<id, n>>)
  BY <1>1, <1>2, <1>3, <1>4 DEF Service!Start
<1> QED
  BY <1>5 DEF Service!Next

\* Every step of a worker opens or closes its collector, ends it, or is hidden
\* from the caller.
LEMMA WorkerImplements ==
    ASSUME IndInv, NEW g \in Goroutine, Worker(g)
    PROVE  [Service!Next]_(Service!vars)
<1> USE DEF IndInv, TypeOK, loopVars
<1>1. Phase' = Phase
  BY DEF Worker, NewCollectorFails, NewCollectorReturns, WorkerTick,
    SelectCollect, SelectDone, CollectReturns, CollectFails, EmitMetrics,
    CloseCollector, SendStopped, Phase, InLoop
<1>2. CASE NewCollectorReturns(g)
  <2>1. LiveSet' = LiveSet /\ OpenSet' = OpenSet \cup {g} /\ g \in LiveSet \ OpenSet
    BY <1>2 DEF NewCollectorReturns, LiveSet, Live, OpenSet, GoroutineInv
  <2>2. Service!Open(g)
    BY <1>1, <2>1 DEF Service!Open
  <2> QED
    BY <2>2 DEF Service!Next
<1>3. CASE CloseCollector(g)
  <2>1. LiveSet' = LiveSet /\ OpenSet' = OpenSet \ {g} /\ g \in OpenSet
    BY <1>3 DEF CloseCollector, LiveSet, Live, OpenSet, GoroutineInv
  <2>2. Service!Close(g)
    BY <1>1, <2>1 DEF Service!Close
  <2> QED
    BY <2>2 DEF Service!Next
<1>4. CASE SendStopped(g)
  <2>1. LiveSet' = LiveSet \ {g} /\ OpenSet' = OpenSet /\ g \in LiveSet \ OpenSet
    BY <1>4 DEF SendStopped, LiveSet, Live, OpenSet, GoroutineInv
  <2>2. Service!End(g)
    BY <1>1, <2>1 DEF Service!End
  <2> QED
    BY <2>2 DEF Service!Next
<1>5. CASE \/ NewCollectorFails(g) \/ WorkerTick(g) \/ SelectCollect(g)
           \/ SelectDone(g) \/ CollectReturns(g) \/ CollectFails(g)
           \/ EmitMetrics(g)
  <2>1. LiveSet' = LiveSet
    BY <1>5 DEF NewCollectorFails, WorkerTick, SelectCollect, SelectDone,
      CollectReturns, CollectFails, EmitMetrics, LiveSet, Live
  <2>2. OpenSet' = OpenSet
    BY <1>5 DEF NewCollectorFails, WorkerTick, SelectCollect, SelectDone,
      CollectReturns, CollectFails, EmitMetrics, OpenSet
  <2> QED
    BY <1>1, <2>1, <2>2 DEF Service!vars
<1> QED
  BY <1>2, <1>3, <1>4, <1>5 DEF Worker

\* The scheduler implements what CollectionService promises its caller.
THEOREM ImplementsServiceHolds == Spec => ImplementsService
<1>1. Init => Service!Init
  <2> SUFFICES ASSUME Init PROVE Service!Init
    OBVIOUS
  <2>1. LiveSet = {} /\ OpenSet = {}
    BY DEF Init, LiveSet, Live, OpenSet
  <2>2. Phase = "off"
    BY DEF Init, Phase, InLoop
  <2> QED
    BY <2>1, <2>2 DEF Service!Init
<1>2. IndInv /\ [Next]_vars => [Service!Next]_(Service!vars)
  <2> SUFFICES ASSUME IndInv, [Next]_vars PROVE [Service!Next]_(Service!vars)
    OBVIOUS
  <2>1. CASE \E id \in WorkerID : StartWorker(id)
    BY <2>1, StartImplements
  <2>2. CASE \E g \in Goroutine : Worker(g)
    BY <2>2, WorkerImplements
  <2>3. CASE \/ Run \/ RefreshTick \/ SelectRefresh \/ ListInstancesFails
             \/ ListInstancesReturns \/ CancelUnlisted \/ ReceiveStopped
             \/ DeleteEntry \/ SelectSignal \/ SelectCtxDone \/ DrainTimerFires
             \/ DrainTimeout \/ RunReturns
    <3>1. UNCHANGED <<pc, collectorOpen>>
      BY <2>3 DEF Run, RefreshTick, SelectRefresh, ListInstancesFails,
        ListInstancesReturns, CancelUnlisted, ReceiveStopped, DeleteEntry,
        SelectSignal, SelectCtxDone, BeginDrain, DrainTimerFires, DrainTimeout,
        RunReturns, workerVars
    <3>2. \/ loop' = loop
          \/ loop = "off" /\ loop' = "select"
          \/ InLoop /\ loop' \in {"select", "list", "start", "delete", "drain"}
          \/ loop = "drain" /\ loop' = "drainDelete"
          \/ loop = "drainDelete" /\ loop' = "drain"
          \/ loop = "drain" /\ Registered = {} /\ loop' = "returned"
      BY <2>3, Zenon DEF Run, RefreshTick, SelectRefresh, ListInstancesFails,
        ListInstancesReturns, CancelUnlisted, ReceiveStopped, DeleteEntry,
        SelectSignal, SelectCtxDone, BeginDrain, DrainTimerFires, DrainTimeout,
        RunReturns, InLoop
    <3> QED
      BY <3>1, <3>2, PhaseStep
  <2>4. CASE Environment \/ UNCHANGED vars
    <3>1. UNCHANGED <<loop, pc, collectorOpen>>
      BY <2>4 DEF Environment, SendSignal, StopCancels, StopReturns,
        InstancesChange, vars, loopVars, workerVars
    <3> QED
      BY <3>1, PhaseStep
  <2> QED
    BY <2>1, <2>2, <2>3, <2>4 DEF Next, MainLoop
<1> QED
  BY <1>1, <1>2, Invariance, PTL DEF Spec, ImplementsService, Service!Spec

=============================================================================
