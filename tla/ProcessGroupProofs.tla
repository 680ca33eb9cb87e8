------------------------- MODULE ProcessGroupProofs -------------------------
(***************************************************************************)
(* Proofs about ProcessGroup for any set of processes and of goroutines.   *)
(***************************************************************************)
EXTENDS ProcessGroup, TLAPS

\* The end of a process, by a failed startup, an exit or a crash, takes the
\* lock from no other process.
LEMMA EndsKeeps ==
    ASSUME LockInv, NEW p \in Process, NEW how, Ends(p, how),
           how \in {"ok", "error", "crashed"}
    PROVE  LockInv'
<1> USE ProcessAssumption DEF LockInv, TypeOK, Ends, Collecting
<1>1. TypeOK'
  BY DEF Stages
<1>2. ASSUME NEW r \in Process
      PROVE  /\ lockRunner'[r] \in {"held", "failed"} => holder' = r \/ lapsed'[r]
             /\ Collecting(r)' => /\ lockRunner'[r] \in {"held", "failed"}
                                  /\ main'[r] \in {"waiting", "stopScheduler"}
             /\ main'[r] \in {"down", "config", "emitter", "locket", "startLock"}
                   => phase'[r] = "off"
  <2>1. CASE r = p
    BY <2>1
  <2>2. CASE r # p
    BY <2>2
  <2> QED
    BY <2>1, <2>2
<1> QED
  BY <1>1, <1>2

\* A free lock is granted to one process, and the processes that lost it to
\* expiry keep their mark.
LEMMA GrantKeeps ==
    ASSUME LockInv, NEW p \in Process, LockAttempt(p) \/ Renew(p)
    PROVE  LockInv'
<1> USE ProcessAssumption DEF LockInv, TypeOK, LockAttempt, Renew, Collecting, scheduler
<1>1. TypeOK'
  <2>1. lockRunner' \in [Process -> {"off", "acquiring", "held", "failed", "released"}]
    OBVIOUS
  <2>2. lapsed' \in [Process -> BOOLEAN] /\ holder' \in Process \cup {NoProcess, Gone}
    BY Zenon
  <2>3. \A r \in Process : lockRunner'[r] = "off" <=> lockRunner[r] = "off"
    OBVIOUS
  <2>4. UNCHANGED <<main, status, signal, scheduler>>
    OBVIOUS
  <2> HIDE DEF LockAttempt, Renew
  <2> QED
    BY <2>1, <2>2, <2>3, <2>4
<1>2. ASSUME NEW r \in Process
      PROVE  /\ lockRunner'[r] \in {"held", "failed"} => holder' = r \/ lapsed'[r]
             /\ Collecting(r)' => /\ lockRunner'[r] \in {"held", "failed"}
                                  /\ main'[r] \in {"waiting", "stopScheduler"}
             /\ main'[r] \in {"down", "config", "emitter", "locket", "startLock"}
                   => phase'[r] = "off"
  <2>1. CASE r = p
    BY <2>1
  <2>2. CASE r # p
    BY <2>2
  <2> QED
    BY <2>1, <2>2
<1> QED
  BY <1>1, <1>2

\* Every step of a process that neither ends it nor asks for the lock.
LEMMA StepKeeps ==
    ASSUME LockInv, NEW p \in Process,
           \/ Launch(p) \/ RenewFails(p) \/ Release(p) \/ StartScheduler(p)
           \/ Interrupted(p) \/ SchedulerDrains(p) \/ SchedulerReturns(p)
           \/ SendSignal(p)
    PROVE  LockInv'
<1> USE ProcessAssumption DEF LockInv, TypeOK, Launch, RenewFails, Release,
      StartScheduler, Interrupted, SchedulerDrains, SchedulerReturns, SendSignal,
      Collecting, scheduler
<1>1. TypeOK'
  <2>1. CASE Launch(p)
    BY <2>1 DEF Stages
  <2>2. CASE RenewFails(p)
    BY <2>2
  <2>3. CASE Release(p)
    BY <2>3
  <2>4. CASE StartScheduler(p) \/ SchedulerDrains(p) \/ SchedulerReturns(p)
    BY <2>4 DEF Stages
  <2>5. CASE Interrupted(p)
    BY <2>5, Zenon DEF Stages
  <2>6. CASE SendSignal(p)
    <3>1. /\ signal' \in [Process -> BOOLEAN]
          /\ UNCHANGED <<main, status, lockRunner, scheduler, holder, lapsed>>
      BY <2>6
    <3> QED
      BY <3>1
  <2> QED
    BY <2>1, <2>2, <2>3, <2>4, <2>5, <2>6
<1>2. ASSUME NEW r \in Process
      PROVE  /\ lockRunner'[r] \in {"held", "failed"} => holder' = r \/ lapsed'[r]
             /\ Collecting(r)' => /\ lockRunner'[r] \in {"held", "failed"}
                                  /\ main'[r] \in {"waiting", "stopScheduler"}
             /\ main'[r] \in {"down", "config", "emitter", "locket", "startLock"}
                   => phase'[r] = "off"
  <2>1. CASE r = p
    BY <2>1
  <2>2. CASE r # p
    BY <2>2
  <2> QED
    BY <2>1, <2>2
<1> QED
  BY <1>1, <1>2

\* A lock that expires marks the process that had it.
LEMMA ExpireKeeps == ASSUME LockInv, Expire PROVE LockInv'
  BY ProcessAssumption, Zenon DEF LockInv, TypeOK, Expire, Collecting, scheduler

\* A step of startup that does not end the process leaves it without a lock.
LEMMA StartupKeeps ==
    ASSUME LockInv, NEW p \in Process, Startup(p)
    PROVE  LockInv'
<1>1. CASE Ends(p, "error")
  BY <1>1, EndsKeeps
<1>2. CASE ~Ends(p, "error")
  <2>1. \/ /\ main[p] \in {"config", "emitter"}
           /\ main' \in {[main EXCEPT ![p] = "emitter"], [main EXCEPT ![p] = "locket"]}
           /\ UNCHANGED <<status, signal, lockRunner, scheduler, holder, lapsed>>
        \/ /\ main[p] = "locket"
           /\ main' = [main EXCEPT ![p] = "startLock"]
           /\ lockRunner' = [lockRunner EXCEPT ![p] = "acquiring"]
           /\ UNCHANGED <<status, signal, scheduler, holder, lapsed>>
    BY <1>2 DEF Startup, LoadConfig, NewLoggregatorEmitter, CreateLocketRunner
  <2>2. TypeOK'
    BY <2>1 DEF LockInv, TypeOK, Stages, scheduler
  <2>3. ASSUME NEW r \in Process
        PROVE  /\ lockRunner'[r] \in {"held", "failed"} => holder' = r \/ lapsed'[r]
               /\ Collecting(r)' => /\ lockRunner'[r] \in {"held", "failed"}
                                    /\ main'[r] \in {"waiting", "stopScheduler"}
               /\ main'[r] \in {"down", "config", "emitter", "locket", "startLock"}
                     => phase'[r] = "off"
    BY <2>1 DEF LockInv, TypeOK, Collecting, scheduler
  <2> QED
    BY <2>2, <2>3 DEF LockInv
<1> QED
  BY <1>1, <1>2

\* What the workers of a process do concerns neither its lock nor its group.
LEMMA WorkerStepKeeps ==
    ASSUME LockInv, NEW p \in Process, NEW g \in Goroutine,
           \/ WorkerStarts(p, g) \/ CollectorOpens(p, g)
           \/ CollectorCloses(p, g) \/ WorkerEnds(p, g)
    PROVE  LockInv'
<1>1. UNCHANGED <<main, status, signal, lockRunner, phase, holder, lapsed>>
  BY DEF WorkerStarts, CollectorOpens, CollectorCloses, WorkerEnds
<1>2. /\ active' \in [Process -> SUBSET Goroutine]
      /\ open' \in [Process -> SUBSET Goroutine]
  BY DEF LockInv, TypeOK, WorkerStarts, CollectorOpens, CollectorCloses, WorkerEnds
<1> QED
  BY <1>1, <1>2 DEF LockInv, TypeOK, Collecting

\* LockInv holds from the start and every step of every process keeps it.
THEOREM LockInvariance == Spec => []LockInv
<1>1. Init => LockInv
  BY ProcessAssumption DEF Init, LockInv, TypeOK, Stages, Collecting
<1>2. LockInv /\ [Next]_vars => LockInv'
  <2> SUFFICES ASSUME LockInv, [Next]_vars PROVE LockInv'
    OBVIOUS
  <2>1. CASE UNCHANGED vars
    BY <2>1 DEF vars, LockInv, TypeOK, Collecting
  <2>2. CASE Expire
    BY <2>2, ExpireKeeps
  <2>3. ASSUME NEW p \in Process, Startup(p) PROVE LockInv'
    BY <2>3, StartupKeeps
  <2>4. ASSUME NEW p \in Process, LockAttempt(p) \/ Renew(p) PROVE LockInv'
    BY <2>4, GrantKeeps
  <2>5. ASSUME NEW p \in Process, Exit(p) \/ Crash(p) PROVE LockInv'
    <3>1. CASE Exit(p)
      <4>1. CASE lockRunner[p] = "failed"
        BY <3>1, <4>1, EndsKeeps DEF Exit
      <4>2. CASE lockRunner[p] # "failed"
        BY <3>1, <4>2, EndsKeeps DEF Exit
      <4> QED
        BY <4>1, <4>2
    <3>2. CASE Crash(p)
      BY <3>2, EndsKeeps DEF Crash
    <3> QED
      BY <2>5, <3>1, <3>2
  <2>6. ASSUME NEW p \in Process,
               \/ Launch(p) \/ RenewFails(p) \/ Release(p) \/ StartScheduler(p)
               \/ Interrupted(p) \/ SchedulerDrains(p) \/ SchedulerReturns(p)
               \/ SendSignal(p)
        PROVE  LockInv'
    BY <2>6, StepKeeps
  <2>7. ASSUME NEW p \in Process, NEW g \in Goroutine,
               \/ WorkerStarts(p, g) \/ CollectorOpens(p, g)
               \/ CollectorCloses(p, g) \/ WorkerEnds(p, g)
        PROVE  LockInv'
    BY <2>7, WorkerStepKeeps
  <2> QED
    BY <2>1, <2>2, <2>3, <2>4, <2>5, <2>6, <2>7 DEF Next, Group
<1> QED
  BY <1>1, <1>2, PTL DEF Spec

\* A step leaves the schedulers alone, or ends one process, or is a step of one
\* scheduler or of one of its workers.
SchedulerStep(p) ==
    \/ \E how \in {"ok", "error", "crashed"} : Ends(p, how)
    \/ StartScheduler(p) \/ SchedulerDrains(p) \/ SchedulerReturns(p)
    \/ \E g \in Goroutine :
          \/ WorkerStarts(p, g) \/ CollectorOpens(p, g)
          \/ CollectorCloses(p, g) \/ WorkerEnds(p, g)

\* Only the end of a process, the group and the workers touch a scheduler.
LEMMA StepsOfSchedulers ==
    ASSUME [Next]_vars
    PROVE  UNCHANGED scheduler \/ \E p \in Process : SchedulerStep(p)
<1>1. CASE UNCHANGED vars \/ Expire
  BY <1>1 DEF vars, scheduler, Expire
<1>2. ASSUME NEW p \in Process,
             \/ Launch(p) \/ LockAttempt(p) \/ Renew(p) \/ RenewFails(p)
             \/ Release(p) \/ Interrupted(p) \/ SendSignal(p)
      PROVE  UNCHANGED scheduler
  BY <1>2 DEF Launch, LockAttempt, Renew, RenewFails, Release, Interrupted, SendSignal
<1>3. ASSUME NEW p \in Process, Startup(p)
      PROVE  UNCHANGED scheduler \/ SchedulerStep(p)
  BY <1>3 DEF Startup, LoadConfig, NewLoggregatorEmitter, CreateLocketRunner, SchedulerStep
<1>4. ASSUME NEW p \in Process, Exit(p) \/ Crash(p)
      PROVE  SchedulerStep(p)
  BY <1>4 DEF Exit, Crash, SchedulerStep
<1>5. ASSUME NEW p \in Process,
             \/ StartScheduler(p) \/ SchedulerDrains(p) \/ SchedulerReturns(p)
             \/ \E g \in Goroutine :
                   \/ WorkerStarts(p, g) \/ CollectorOpens(p, g)
                   \/ CollectorCloses(p, g) \/ WorkerEnds(p, g)
      PROVE  SchedulerStep(p)
  BY <1>5 DEF SchedulerStep
<1> QED
  BY <1>1, <1>2, <1>3, <1>4, <1>5 DEF Next, Group

\* WorkerInv for one process, which is the shape the proofs use it in.
LEMMA WorkerInvStep ==
    ASSUME LockInv, WorkerInv, NEW p \in Process, SchedulerStep(p), NEW r \in Process
    PROVE  /\ open'[r] \subseteq active'[r]
           /\ active'[r] # {} => Collecting(r)'
           /\ \A g, h \in active'[r] : g[1] = h[1] => g = h
<1> USE DEF LockInv, TypeOK, WorkerInv
<1>1. CASE r # p
  <2>1. active'[r] = active[r] /\ open'[r] = open[r] /\ phase'[r] = phase[r]
    BY <1>1 DEF SchedulerStep, Ends, StartScheduler, SchedulerDrains, SchedulerReturns,
          WorkerStarts, CollectorOpens, CollectorCloses, WorkerEnds
  <2> QED
    BY <2>1 DEF Collecting
<1>2. CASE r = p
  <2>1. ASSUME NEW how, Ends(p, how)
        PROVE  active'[p] = {} /\ open'[p] = {}
    BY <2>1 DEF Ends
  <2>2. CASE StartScheduler(p) \/ SchedulerDrains(p)
    BY <1>2, <2>2 DEF StartScheduler, SchedulerDrains, Collecting
  <2>3. CASE SchedulerReturns(p)
    BY <1>2, <2>3 DEF SchedulerReturns, Collecting
  <2>4. ASSUME NEW g \in Goroutine, WorkerStarts(p, g)
        PROVE  active'[p] = active[p] \cup {g} /\ open'[p] = open[p]
               /\ phase'[p] = "running" /\ \A h \in active[p] : h[1] # g[1]
    BY <2>4 DEF WorkerStarts
  <2>5. ASSUME NEW g \in Goroutine,
               CollectorOpens(p, g) \/ CollectorCloses(p, g) \/ WorkerEnds(p, g)
        PROVE  /\ active'[p] \subseteq active[p]
               /\ open'[p] \subseteq active'[p]
               /\ phase'[p] = phase[p]
    BY <2>5 DEF CollectorOpens, CollectorCloses, WorkerEnds
  <2> HIDE DEF LockInv, TypeOK
  <2>6. ASSUME NEW g \in Goroutine, WorkerStarts(p, g)
        PROVE  /\ open'[p] \subseteq active'[p]
               /\ Collecting(p)'
               /\ \A k, h \in active'[p] : k[1] = h[1] => k = h
    BY <2>4, <2>6 DEF Collecting
  <2>7. ASSUME NEW g \in Goroutine,
               CollectorOpens(p, g) \/ CollectorCloses(p, g) \/ WorkerEnds(p, g)
        PROVE  /\ open'[p] \subseteq active'[p]
               /\ active'[p] # {} => Collecting(p)'
               /\ \A k, h \in active'[p] : k[1] = h[1] => k = h
    BY <2>5, <2>7 DEF Collecting
  <2> QED
    BY <1>2, <2>1, <2>2, <2>3, <2>6, <2>7 DEF SchedulerStep
<1> QED
  BY <1>1, <1>2

\* The goroutines of a process run only while its scheduler does, one for each
\* worker id, and every open collector belongs to one of them.
THEOREM WorkerInvariance == Spec => []WorkerInv
<1>1. Init => WorkerInv
  BY Zenon DEF Init, WorkerInv
<1>2. LockInv /\ WorkerInv /\ [Next]_vars => WorkerInv'
  <2> SUFFICES ASSUME LockInv, WorkerInv, [Next]_vars PROVE WorkerInv'
    OBVIOUS
  <2>1. CASE UNCHANGED scheduler
    BY <2>1 DEF scheduler, WorkerInv, Collecting
  <2>2. ASSUME NEW p \in Process, SchedulerStep(p) PROVE WorkerInv'
    BY <2>2, WorkerInvStep DEF WorkerInv
  <2> QED
    BY <2>1, <2>2, StepsOfSchedulers
<1> QED
  BY <1>1, <1>2, LockInvariance, PTL DEF Spec

\* A process whose scheduler may be running workers holds the lock, or lost it
\* to expiry.
THEOREM CollectsUnderLockHolds == Spec => []CollectsUnderLock
<1>1. LockInv => CollectsUnderLock
  BY DEF LockInv, CollectsUnderLock
<1> QED
  BY <1>1, LockInvariance, PTL

\* Two processes run their schedulers at the same time only while one of them
\* has lost the lock to expiry.
THEOREM NoOverlapHolds == Spec => []NoOverlap
<1>1. LockInv => NoOverlap
  BY DEF LockInv, NoOverlap
<1> QED
  BY <1>1, LockInvariance, PTL

\* A worker id has one open collector among all processes: within a process
\* because the scheduler never runs two goroutines for it, between processes
\* because they collect at the same time only after an expiry.
THEOREM OneCollectorPerIDHolds == Spec => []OneCollectorPerID
<1>1. LockInv /\ WorkerInv => OneCollectorPerID
  <2> SUFFICES ASSUME LockInv, WorkerInv, NEW p \in Process, NEW r \in Process,
                      NEW g \in open[p], NEW h \in open[r], g[1] = h[1]
               PROVE  IF p = r THEN g = h ELSE lapsed[p] \/ lapsed[r]
    BY DEF OneCollectorPerID
  <2>1. g \in active[p] /\ h \in active[r]
    BY DEF WorkerInv
  <2>2. Collecting(p) /\ Collecting(r)
    BY <2>1 DEF WorkerInv
  <2>3. CASE p = r
    BY <2>1, <2>3 DEF WorkerInv
  <2>4. CASE p # r
    BY <2>2, <2>4 DEF LockInv
  <2> QED
    BY <2>3, <2>4
<1> QED
  BY <1>1, LockInvariance, WorkerInvariance, PTL

\* A process that ends with goroutines running has crashed: a failed startup
\* comes before the scheduler starts, and the exit of the group after it has
\* returned.
THEOREM CleanExitHolds == Spec => CleanExit
<1> DEFINE Clean == \A p \in Process :
                       main[p] # "down" /\ main'[p] = "down" /\ active[p] # {}
                           => status'[p] = "crashed"
<1>1. LockInv /\ WorkerInv /\ [Next]_vars => [Clean]_vars
  <2> SUFFICES ASSUME LockInv, WorkerInv, Next,
                      NEW p \in Process, main[p] # "down", main'[p] = "down",
                      active[p] # {}
               PROVE  status'[p] = "crashed"
    OBVIOUS
  <2>1. main[p] \in {"waiting", "stopScheduler"}
    BY DEF WorkerInv, LockInv
  <2>2. ASSUME NEW r \in Process, Crash(r)
        PROVE  status'[p] = "crashed"
    BY <2>2 DEF Crash, Ends, LockInv, TypeOK
  <2>3. ASSUME NEW r \in Process, Startup(r) \/ Exit(r)
        PROVE  FALSE
    <3>1. main[r] \in {"config", "emitter", "locket", "stopLock"}
      BY <2>3 DEF Startup, LoadConfig, NewLoggregatorEmitter, CreateLocketRunner, Exit
    <3>2. main'[p] = main[p]
      BY <2>1, <2>3, <3>1 DEF Startup, LoadConfig, NewLoggregatorEmitter,
            CreateLocketRunner, Exit, Ends, LockInv, TypeOK
    <3> QED
      BY <3>2
  <2>4. ASSUME NEW r \in Process,
               \/ Launch(r) \/ StartScheduler(r) \/ Interrupted(r) \/ SchedulerReturns(r)
        PROVE  FALSE
    BY <2>4 DEF Launch, StartScheduler, Interrupted, SchedulerReturns, LockInv, TypeOK
  <2>5. ASSUME \/ Expire
               \/ \E r \in Process :
                     \/ LockAttempt(r) \/ Renew(r) \/ RenewFails(r) \/ Release(r)
                     \/ SchedulerDrains(r) \/ SendSignal(r)
                     \/ \E g \in Goroutine :
                           \/ WorkerStarts(r, g) \/ CollectorOpens(r, g)
                           \/ CollectorCloses(r, g) \/ WorkerEnds(r, g)
        PROVE  FALSE
    <3>1. main' = main
      BY <2>5 DEF Expire, LockAttempt, Renew, RenewFails, Release, SchedulerDrains,
            SendSignal, WorkerStarts, CollectorOpens, CollectorCloses, WorkerEnds
    <3> QED
      BY <3>1
  <2> QED
    BY <2>2, <2>3, <2>4, <2>5 DEF Next, Group
<1> QED
  BY <1>1, LockInvariance, WorkerInvariance, PTL DEF Spec, CleanExit

\* Every step of the group is, for the scheduler of each process, a step of
\* CollectionService, a stutter, or the end of the process.
THEOREM SchedulersServeHolds == Spec => SchedulersServe
<1> DEFINE ServiceStep(p) ==
        [Service(p)!Next \/ main'[p] = "down"]_<<phase[p], active[p], open[p]>>
<1>1. ASSUME LockInv, NEW p \in Process, SchedulerStep(p), NEW r \in Process
      PROVE  ServiceStep(r)
  <2> USE <1>1 DEF LockInv, TypeOK
  <2>1. CASE r # p
    BY <2>1 DEF SchedulerStep, Ends, StartScheduler, SchedulerDrains,
          SchedulerReturns, WorkerStarts, CollectorOpens, CollectorCloses, WorkerEnds
  <2>2. ASSUME NEW how, Ends(p, how)
        PROVE  main'[p] = "down"
    BY <2>2 DEF Ends
  <2>3. CASE StartScheduler(p)
    BY <2>3 DEF StartScheduler, Service!Begin, Service!Next
  <2>4. CASE SchedulerDrains(p)
    BY <2>4 DEF SchedulerDrains, Service!Shutdown, Service!Next
  <2>5. CASE SchedulerReturns(p)
    BY <2>5 DEF SchedulerReturns, Service!Finish, Service!Next
  <2>6. ASSUME NEW g \in Goroutine,
               \/ WorkerStarts(p, g) \/ CollectorOpens(p, g)
               \/ CollectorCloses(p, g) \/ WorkerEnds(p, g)
        PROVE  Service(p)!Next
    <3>1. ASSUME WorkerStarts(p, g) PROVE Service(p)!Start(g)
      BY <3>1 DEF WorkerStarts, Service!Start
    <3>2. ASSUME CollectorOpens(p, g) PROVE Service(p)!Open(g)
      BY <3>2 DEF CollectorOpens, Service!Open
    <3>3. ASSUME CollectorCloses(p, g) PROVE Service(p)!Close(g)
      BY <3>3 DEF CollectorCloses, Service!Close
    <3>4. ASSUME WorkerEnds(p, g) PROVE Service(p)!End(g)
      BY <3>4 DEF WorkerEnds, Service!End
    <3> QED
      BY <2>6, <3>1, <3>2, <3>3, <3>4 DEF Service!Next
  <2> HIDE <1>1 DEF LockInv, TypeOK
  <2>7. CASE r = p
    BY <1>1, <2>2, <2>3, <2>4, <2>5, <2>6, <2>7 DEF SchedulerStep
  <2> QED
    BY <2>1, <2>7
<1>2. LockInv /\ [Next]_vars => [\A p \in Process : ServiceStep(p)]_vars
  <2> SUFFICES ASSUME LockInv, [Next]_vars, NEW r \in Process PROVE ServiceStep(r)
    OBVIOUS
  <2>1. CASE UNCHANGED scheduler
    BY <2>1 DEF scheduler
  <2>2. ASSUME NEW p \in Process, SchedulerStep(p) PROVE ServiceStep(r)
    BY <1>1, <2>2
  <2> QED
    BY <2>1, <2>2, StepsOfSchedulers
<1> QED
  BY <1>2, LockInvariance, PTL DEF Spec, SchedulersServe

\* The stages of main and of the lock runner fit: a process has a lock runner
\* exactly when its startup is over, through exits, crashes and restarts.
THEOREM GroupTypes == Spec => []TypeOK
<1>1. LockInv => TypeOK
  BY DEF LockInv
<1> QED
  BY <1>1, LockInvariance, PTL
=============================================================================
