---------------------------- MODULE ProcessGroup ----------------------------
(***************************************************************************)
(* The processes of main.go. Each one starts up, then runs an ordered      *)
(* group of two members, the runner of the lock it shares with the other   *)
(* processes and the scheduler, until it is signalled, loses the lock or   *)
(* crashes; whatever supervises it may start it again.                     *)
(*                                                                         *)
(* The scheduler of each process is seen as CollectionService, which       *)
(* Scheduler implements, shows it: its phase, its goroutines and their     *)
(* open collectors. The lock service, the lock runner and the group are    *)
(* libraries, modelled from how main.go and locking/locking_test.go use    *)
(* them.                                                                   *)
(***************************************************************************)
CONSTANTS
    Process,
    NoProcess,      \* nobody holds the lock
    Gone,           \* an owner that does not run any more holds the lock
    Goroutine       \* pairs whose first component is a worker id

ASSUME ProcessAssumption == NoProcess # Gone /\ {NoProcess, Gone} \cap Process = {}

VARIABLES
    main,           \* where main is, or the group it waits for
    status,         \* how the process ended last
    signal,         \* an OS signal waits in sigmon's channel
    lockRunner,     \* the locketRunner member
    phase,          \* the scheduleRunner member
    active,         \* its goroutines that have started and not ended
    open,           \* those of them that hold an open collector
    holder,         \* owner of the lock in the lock service
    lapsed          \* history: the lock expired while the process held it,
                    \* and it has not got it back since

scheduler == <<phase, active, open>>
vars == <<main, status, signal, lockRunner, phase, active, open, holder, lapsed>>

Stages == {"down", "config", "emitter", "locket", "startLock", "waiting",
           "stopScheduler", "stopLock"}

\* The scheduler of p may have workers running.
Collecting(p) == phase[p] \in {"running", "draining"}

Init ==
    /\ main = [p \in Process |-> "down"]
    /\ status = [p \in Process |-> "none"]
    /\ signal = [p \in Process |-> FALSE]
    /\ lockRunner = [p \in Process |-> "off"]
    /\ phase = [p \in Process |-> "off"]
    /\ active = [p \in Process |-> {}]
    /\ open = [p \in Process |-> {}]
    /\ holder = NoProcess
    /\ lapsed = [p \in Process |-> FALSE]

\* The process is gone, and so are its goroutines and the owner it made up for
\* its lock.
Ends(p, how) ==
    /\ main' = [main EXCEPT ![p] = "down"]
    /\ status' = [status EXCEPT ![p] = how]
    /\ signal' = [signal EXCEPT ![p] = FALSE]
    /\ lockRunner' = [lockRunner EXCEPT ![p] = "off"]
    /\ phase' = [phase EXCEPT ![p] = "off"]
    /\ active' = [active EXCEPT ![p] = {}]
    /\ open' = [open EXCEPT ![p] = {}]
    /\ holder' = IF holder = p THEN Gone ELSE holder
    /\ lapsed' = [lapsed EXCEPT ![p] = FALSE]

-----------------------------------------------------------------------------
(* Startup: every failure ends the process before it asks for the lock *)

Launch(p) ==
    /\ main[p] = "down"
    /\ main' = [main EXCEPT ![p] = "config"]
    /\ status' = [status EXCEPT ![p] = "none"]
    /\ UNCHANGED <<signal, lockRunner, scheduler, holder, lapsed>>

\* An invalid log level, which initLogger finds, ends the process here as well.
LoadConfig(p) ==
    /\ main[p] = "config"
    /\ \/ Ends(p, "error")
       \/ /\ main' = [main EXCEPT ![p] = "emitter"]
          /\ UNCHANGED <<status, signal, lockRunner, scheduler, holder, lapsed>>

NewLoggregatorEmitter(p) ==
    /\ main[p] = "emitter"
    /\ \/ Ends(p, "error")
       \/ /\ main' = [main EXCEPT ![p] = "locket"]
          /\ UNCHANGED <<status, signal, lockRunner, scheduler, holder, lapsed>>

\* Mutant of CreateLocketRunner: the error of the client is only logged, and
\* the group runs without a lock runner.
CreateLocketRunner_Logs(p) ==
    /\ main[p] = "locket"
    /\ main' = [main EXCEPT ![p] = "startLock"]
    /\ lockRunner' \in {lockRunner, [lockRunner EXCEPT ![p] = "acquiring"]}
    /\ UNCHANGED <<status, signal, scheduler, holder, lapsed>>

\* Create the lock runner, and invoke the group, which starts it.
CreateLocketRunner(p) ==
    /\ main[p] = "locket"
    /\ \/ Ends(p, "error")
       \/ /\ main' = [main EXCEPT ![p] = "startLock"]
          /\ lockRunner' = [lockRunner EXCEPT ![p] = "acquiring"]
          /\ UNCHANGED <<status, signal, scheduler, holder, lapsed>>

-----------------------------------------------------------------------------
(* The lock runner *)

\* An attempt the service grants: the runner gets the lock, and is ready, or
\* the answer is lost and it tries again later. A denied attempt changes
\* nothing.
LockAttempt(p) ==
    /\ lockRunner[p] = "acquiring" /\ holder \in {NoProcess, p}
    /\ holder' = p
    /\ lockRunner' \in {lockRunner, [lockRunner EXCEPT ![p] = "held"]}
    /\ lapsed' = [lapsed EXCEPT ![p] = FALSE]
    /\ UNCHANGED <<main, status, signal, scheduler>>

\* A periodic attempt that is granted keeps the lock, or takes it again.
Renew(p) ==
    /\ lockRunner[p] = "held" /\ holder \in {NoProcess, p}
    /\ holder' = p
    /\ lapsed' = [lapsed EXCEPT ![p] = FALSE]
    /\ UNCHANGED <<main, status, signal, lockRunner, scheduler>>

\* A periodic attempt that fails, because another owner has the lock or the
\* service does not answer, ends the runner with an error.
RenewFails(p) ==
    /\ lockRunner[p] = "held"
    /\ lockRunner' = [lockRunner EXCEPT ![p] = "failed"]
    /\ UNCHANGED <<main, status, signal, scheduler, holder, lapsed>>

\* The runner is signalled: it releases the lock and ends. The request may
\* get lost.
Release(p) ==
    /\ main[p] = "stopLock" /\ lockRunner[p] \in {"acquiring", "held"}
    /\ lockRunner' = [lockRunner EXCEPT ![p] = "released"]
    /\ holder' \in {holder, IF holder = p THEN NoProcess ELSE holder}
    /\ UNCHANGED <<main, status, signal, scheduler, lapsed>>

\* The service forgets an owner that it has not heard of for the time to live.
Expire ==
    /\ holder # NoProcess
    /\ holder' = NoProcess
    /\ lapsed' = [p \in Process |-> lapsed[p] \/ holder = p]
    /\ UNCHANGED <<main, status, signal, lockRunner, scheduler>>

-----------------------------------------------------------------------------
(* The group: lock runner first, scheduler second, stopped in reverse order *)

\* Mutant of StartScheduler: the group does not wait for the lock.
StartScheduler_Parallel(p) ==
    /\ main[p] = "startLock" /\ lockRunner[p] \in {"acquiring", "held", "failed"}
    /\ main' = [main EXCEPT ![p] = "waiting"]
    /\ phase' = [phase EXCEPT ![p] = "running"]
    /\ UNCHANGED <<status, signal, lockRunner, active, open, holder, lapsed>>

\* Mutant of StartScheduler: the scheduler is no member of the group.
StartScheduler_NoMember(p) ==
    /\ main[p] = "startLock" /\ lockRunner[p] \in {"held", "failed"}
    /\ main' = [main EXCEPT ![p] = "waiting"]
    /\ UNCHANGED <<status, signal, lockRunner, scheduler, holder, lapsed>>

\* The lock runner is ready; it may have failed since, and select still takes
\* the ready case.
StartScheduler(p) ==
    /\ main[p] = "startLock" /\ lockRunner[p] \in {"held", "failed"}
    /\ main' = [main EXCEPT ![p] = "waiting"]
    /\ phase' = [phase EXCEPT ![p] = "running"]
    /\ UNCHANGED <<status, signal, lockRunner, active, open, holder, lapsed>>

\* Mutant of Interrupted: the group takes signals once it has started.
Interrupted_Started(p) ==
    /\ main[p] = "waiting"
    /\ \/ signal[p] /\ signal' = [signal EXCEPT ![p] = FALSE]
       \/ lockRunner[p] = "failed" /\ UNCHANGED signal
    /\ main' = [main EXCEPT ![p] = "stopScheduler"]
    /\ UNCHANGED <<status, lockRunner, scheduler, holder, lapsed>>

\* Mutant of Interrupted: the group does not watch the lock runner.
Interrupted_SignalOnly(p) ==
    /\ main[p] \in {"startLock", "waiting"}
    /\ signal[p] /\ signal' = [signal EXCEPT ![p] = FALSE]
    /\ main' = [main EXCEPT ![p] = IF main[p] = "startLock" THEN "stopLock"
                                   ELSE "stopScheduler"]
    /\ UNCHANGED <<status, lockRunner, scheduler, holder, lapsed>>

\* Mutant of Interrupted: the members are stopped in the order they started.
Interrupted_LockFirst(p) ==
    /\ main[p] \in {"startLock", "waiting"}
    /\ \/ signal[p] /\ signal' = [signal EXCEPT ![p] = FALSE]
       \/ lockRunner[p] = "failed" /\ UNCHANGED signal
    /\ main' = [main EXCEPT ![p] = "stopLock"]
    /\ UNCHANGED <<status, lockRunner, scheduler, holder, lapsed>>

\* A signal, or the exit of the lock runner: the members that were started
\* are stopped.
Interrupted(p) ==
    /\ main[p] \in {"startLock", "waiting"}
    /\ \/ signal[p] /\ signal' = [signal EXCEPT ![p] = FALSE]
       \/ lockRunner[p] = "failed" /\ UNCHANGED signal
    /\ main' = [main EXCEPT ![p] = IF main[p] = "startLock" THEN "stopLock"
                                   ELSE "stopScheduler"]
    /\ UNCHANGED <<status, lockRunner, scheduler, holder, lapsed>>

\* The scheduler receives the signal of the group.
SchedulerDrains(p) ==
    /\ main[p] = "stopScheduler" /\ phase[p] = "running"
    /\ phase' = [phase EXCEPT ![p] = "draining"]
    /\ UNCHANGED <<main, status, signal, lockRunner, active, open, holder, lapsed>>

\* Mutant of SchedulerReturns: Run returns when the time to wait is over.
SchedulerReturns_Timeout(p) ==
    /\ phase[p] = "draining"
    /\ phase' = [phase EXCEPT ![p] = "returned"]
    /\ main' = [main EXCEPT ![p] = "stopLock"]
    /\ UNCHANGED <<status, signal, lockRunner, active, open, holder, lapsed>>

\* The last worker ended and Run returns: the lock runner is next.
SchedulerReturns(p) ==
    /\ phase[p] = "draining" /\ active[p] = {}
    /\ phase' = [phase EXCEPT ![p] = "returned"]
    /\ main' = [main EXCEPT ![p] = "stopLock"]
    /\ UNCHANGED <<status, signal, lockRunner, active, open, holder, lapsed>>

\* Both members have ended, and with them the process.
Exit(p) ==
    /\ main[p] = "stopLock" /\ lockRunner[p] \in {"released", "failed"}
    /\ Ends(p, IF lockRunner[p] = "failed" THEN "error" ELSE "ok")

-----------------------------------------------------------------------------
(* The workers of the scheduler, in the steps of CollectionService *)

\* A refresh of the main loop finds an instance that has no worker.
WorkerStarts(p, g) ==
    /\ phase[p] = "running"
    /\ \A h \in active[p] : h[1] # g[1]
    /\ active' = [active EXCEPT ![p] = @ \cup {g}]
    /\ UNCHANGED <<main, status, signal, lockRunner, phase, open, holder, lapsed>>

CollectorOpens(p, g) ==
    /\ g \in active[p] \ open[p]
    /\ open' = [open EXCEPT ![p] = @ \cup {g}]
    /\ UNCHANGED <<main, status, signal, lockRunner, phase, active, holder, lapsed>>

CollectorCloses(p, g) ==
    /\ g \in open[p]
    /\ open' = [open EXCEPT ![p] = @ \ {g}]
    /\ UNCHANGED <<main, status, signal, lockRunner, phase, active, holder, lapsed>>

WorkerEnds(p, g) ==
    /\ g \in active[p] \ open[p]
    /\ active' = [active EXCEPT ![p] = @ \ {g}]
    /\ UNCHANGED <<main, status, signal, lockRunner, phase, open, holder, lapsed>>

-----------------------------------------------------------------------------
(* Environment *)

SendSignal(p) ==
    /\ main[p] \in {"startLock", "waiting"} /\ ~signal[p]
    /\ signal' = [signal EXCEPT ![p] = TRUE]
    /\ UNCHANGED <<main, status, lockRunner, scheduler, holder, lapsed>>

Crash(p) == main[p] # "down" /\ Ends(p, "crashed")

Startup(p) ==
    LoadConfig(p) \/ NewLoggregatorEmitter(p) \/ CreateLocketRunner(p)

Group(p) ==
    \/ StartScheduler(p) \/ Interrupted(p)
    \/ SchedulerDrains(p) \/ SchedulerReturns(p) \/ Exit(p)

Next ==
    \/ \E p \in Process :
          \/ Launch(p) \/ Startup(p) \/ Group(p)
          \/ LockAttempt(p) \/ Renew(p) \/ RenewFails(p) \/ Release(p)
          \/ SendSignal(p) \/ Crash(p)
          \/ \E g \in Goroutine :
                \/ WorkerStarts(p, g) \/ CollectorOpens(p, g)
                \/ CollectorCloses(p, g) \/ WorkerEnds(p, g)
    \/ Expire

Spec == Init /\ [][Next]_vars

-----------------------------------------------------------------------------
(* Fairness *)

\* A process that runs goes on: main and its group take their steps, and a
\* runner that is signalled ends. A scheduler that drains gets rid of its
\* workers, which Scheduler's ShutdownCompletes is about. The runner tries for
\* the lock again and again, so a lock that is free infinitely often is granted
\* to it. The lock of an owner that is gone expires.
FairSpec ==
    /\ Spec
    /\ \A p \in Process :
          /\ WF_vars(Startup(p) \/ Group(p) \/ Release(p))
          /\ WF_vars(phase[p] = "draining" /\ \E g \in Goroutine : CollectorCloses(p, g))
          /\ SF_vars(phase[p] = "draining" /\ \E g \in Goroutine : WorkerEnds(p, g))
          /\ SF_vars(LockAttempt(p) /\ lockRunner'[p] = "held")
    /\ WF_vars(holder = Gone /\ Expire)

-----------------------------------------------------------------------------
(* Properties *)

\* The types of the variables, and that a process has a lock runner exactly
\* when its startup is over.
TypeOK ==
    /\ main \in [Process -> Stages]
    /\ status \in [Process -> {"none", "ok", "error", "crashed"}]
    /\ signal \in [Process -> BOOLEAN]
    /\ lockRunner \in [Process -> {"off", "acquiring", "held", "failed", "released"}]
    /\ phase \in [Process -> {"off", "running", "draining", "returned"}]
    /\ active \in [Process -> SUBSET Goroutine]
    /\ open \in [Process -> SUBSET Goroutine]
    /\ holder \in Process \cup {NoProcess, Gone}
    /\ lapsed \in [Process -> BOOLEAN]
    /\ \A p \in Process :
          lockRunner[p] = "off" <=> main[p] \in {"down", "config", "emitter", "locket"}

\* A process whose workers may be running holds the lock, unless the service
\* let the lock expire under it: the scheduler starts after the lock is
\* granted and has returned before the lock is released, through crashes,
\* restarts, lost answers and signals at any moment.
CollectsUnderLock == \A p \in Process : Collecting(p) => holder = p \/ lapsed[p]

\* Two processes collect at the same time only while one of them has lost its
\* lock to expiry: a handover by signal or by crash never overlaps.
NoOverlap ==
    \A p, r \in Process :
        Collecting(p) /\ Collecting(r) /\ p # r => lapsed[p] \/ lapsed[r]

\* Every collector of a worker id, a driver and an instance, is the only one
\* open for it among all processes, whatever crashes, restarts and handovers
\* there were: nothing is collected twice at a time. Two processes have one open
\* for the same id only while one of them has lost its lock to expiry.
OneCollectorPerID ==
    \A p, r \in Process : \A g \in open[p], h \in open[r] :
        g[1] = h[1] => IF p = r THEN g = h ELSE lapsed[p] \/ lapsed[r]

\* A process that ends by itself, on a signal or with an error, leaves no
\* goroutine and no open collector behind: only a crash cuts them off.
CleanExit ==
    [][\A p \in Process :
          main[p] # "down" /\ main'[p] = "down" /\ active[p] # {}
              => status'[p] = "crashed"]_vars

\* The scheduler of a process as CollectionService, its abstract
\* specification.
Service(p) == INSTANCE CollectionService
                WITH phase <- phase[p], active <- active[p], open <- open[p]

\* The group asks of the scheduler of each process only what CollectionService
\* promises, from the start of the process to its end.
SchedulersServe ==
    [][\A p \in Process :
          [Service(p)!Next \/ main'[p] = "down"]_<<phase[p], active[p], open[p]>>]_vars

\* What makes CollectsUnderLock inductive: a runner that got the lock and was
\* not told to release it has the lock or lost it to expiry, and the scheduler
\* of a process runs only next to such a runner, between its start and the end
\* of its stop, and has not run before.
LockInv ==
    /\ TypeOK
    /\ \A p \in Process :
          /\ lockRunner[p] \in {"held", "failed"} => holder = p \/ lapsed[p]
          /\ Collecting(p) => /\ lockRunner[p] \in {"held", "failed"}
                              /\ main[p] \in {"waiting", "stopScheduler"}
          /\ main[p] \in {"down", "config", "emitter", "locket", "startLock"}
                => phase[p] = "off"

\* What makes OneCollectorPerID and CleanExit inductive, next to LockInv: the
\* goroutines of a process run only while its scheduler does, one for each
\* worker id, and the open collectors are theirs.
WorkerInv ==
    \A p \in Process :
        /\ open[p] \subseteq active[p]
        /\ active[p] # {} => Collecting(p)
        /\ \A g, h \in active[p] : g[1] = h[1] => g = h

\* A process that loses its lock stops collecting and ends with an error.
LostLockEndsProcess ==
    \A p \in Process :
        (lockRunner[p] = "failed") ~> (main[p] = "down" /\ status[p] \in {"error", "crashed"})

\* A signal ends a process, also one that is still waiting for the lock.
SignalEndsProcess == \A p \in Process : signal[p] ~> (main[p] = "down")

\* As long as some process stays up and is not signalled, there is always a
\* process that collects again: after the holder crashed without a release,
\* after a release that got lost, after every lost answer of the service.
SomeoneCollects ==
    (\E p \in Process : <>[](main[p] # "down" /\ ~signal[p]))
        => []<>(\E p \in Process : phase[p] = "running")
=============================================================================
