--------------------------- MODULE CollectorWorker ---------------------------
(***************************************************************************)
(* One worker over time: the life of pkg/scheduler/scheduler.go's          *)
(* collectorWorker for one service instance, with the timers of the retry  *)
(* and of the refresh that starts it again, on top of BrokerInfo and       *)
(* databases that get their endpoint late, change it, or are deleted.      *)
(*                                                                         *)
(* Scheduler has all workers and every interleaving with the main loop,    *)
(* but no time and no connection details; here there is one worker, its    *)
(* report to the main loop is immediate, and time is in milliseconds.      *)
(***************************************************************************)
EXTENDS BrokerInfo, FiniteSets

CONSTANTS
    Databases,        \* the databases at the start
    Hosts,            \* the hosts a database can move to
    RetryInterval, CollectorTimeout,          \* in milliseconds
    CollectInterval, InstanceRefreshInterval, \* in seconds
    MaxRetries,
    Overrun,          \* how long a driver may connect past the deadline of the
                      \* collection, which does not reach it
    Step              \* of the clock

ASSUME WorkerAssumption ==
    /\ {RetryInterval, CollectorTimeout, CollectInterval,
        InstanceRefreshInterval, MaxRetries, Overrun} \subseteq Nat
    /\ Step \in Nat \ {0}

\* The endpoint of a database on a host names the database.
Endpoint(id, host) == <<id, host>>

\* The broker gave the databases their identifiers, which have its prefix and,
\* as RDS allows none, no underscore. RDS has no two with the same.
ASSUME DatabaseAssumption ==
    /\ "-" \in Char /\ DBPrefix \in Seq(Char)
    /\ \A db \in Databases :
          /\ db = [DBInstanceIdentifier |-> db.DBInstanceIdentifier,
                   Engine |-> db.Engine, Endpoint |-> db.Endpoint]
          /\ db.Engine \in {"postgres", "mysql", "other"}
          /\ db.DBInstanceIdentifier \in Seq(Char)
          /\ HasPrefix(db.DBInstanceIdentifier, Dashed(DBPrefix) \o <<"-">>)
          /\ \A i \in 1..Len(db.DBInstanceIdentifier) : db.DBInstanceIdentifier[i] # "_"
          /\ db.Endpoint = Nil \/ \E h \in Hosts :
                db.Endpoint = Endpoint(db.DBInstanceIdentifier, h)
          /\ \A other \in Databases :
                other.DBInstanceIdentifier = db.DBInstanceIdentifier => other = db

VARIABLES
    dbs,          \* the databases with the tag of the broker
    own,          \* identifier of the database this worker is for
    info,         \* instanceInfo of the worker
    pc,           \* "none", "starting", "waiting", "collecting"
    details,      \* connection details of its collector, or none
    errorCount,
    timer,        \* time until the next collection, or left for this one
    refresh,      \* time until the timer of the refresh fires
    cancelled,    \* the worker's context is done
    failing,      \* history: the last collection failed
    spent         \* history: how long the worker fails, the collection in
                  \* progress included

vars == <<dbs, own, info, pc, details, errorCount, timer, refresh, cancelled, failing,
          spent>>

\* math.Pow(4, n)
Power4[n \in Nat] == IF n = 0 THEN 1 ELSE 4 * Power4[n - 1]

\* All waits between the retries: 4 + 16 + ... in closed form.
RetryTime == ((Power4[MaxRetries + 1] - 4) \div 3) * RetryInterval

\* All retries, and a whole timeout for each attempt.
GiveUpTime == RetryTime + (MaxRetries + 1) * (CollectorTimeout + Overrun)

-----------------------------------------------------------------------------
(* RDS *)

Own == CHOOSE db \in dbs : db.DBInstanceIdentifier = own

Exists == Describe(dbs, own) # {}

\* A created database gets its endpoint, or an existing one another.
EndpointChanges ==
    /\ Exists
    /\ \E host \in Hosts :
          /\ Own.Endpoint # Endpoint(own, host)
          /\ dbs' = (dbs \ {Own}) \cup {[Own EXCEPT !.Endpoint = Endpoint(own, host)]}
    /\ UNCHANGED <<own, info, pc, details, errorCount, timer, refresh, cancelled,
                   failing, spent>>

Deleted ==
    /\ Exists
    /\ dbs' = dbs \ {Own}
    /\ UNCHANGED <<own, info, pc, details, errorCount, timer, refresh, cancelled,
                   failing, spent>>

-----------------------------------------------------------------------------
(* The worker *)

Init ==
    /\ dbs = Databases
    /\ \E db \in Databases :
          /\ own = db.DBInstanceIdentifier
          /\ info \in ListInstances({db})
    /\ pc = "none" /\ details = {} /\ errorCount = 0 /\ timer = 0 /\ refresh = 0
    /\ cancelled = FALSE /\ failing = FALSE /\ spent = 0

\* A refresh whose listing fails changes nothing but its timer.
RefreshFails ==
    /\ refresh = 0
    /\ refresh' = InstanceRefreshInterval * 1000
    /\ UNCHANGED <<dbs, own, info, pc, details, errorCount, timer, cancelled,
                   failing, spent>>

\* Mutant of Refresh: instances listed once stay desired.
Refresh_Sticky ==
    /\ refresh = 0
    /\ refresh' = InstanceRefreshInterval * 1000
    /\ pc' = IF pc = "none" THEN "starting" ELSE pc
    /\ UNCHANGED <<dbs, own, info, details, errorCount, timer, cancelled,
                   failing, spent>>

\* A refresh starts the worker of a listed instance if it has none, and cancels
\* the one of an instance that is not listed.
Refresh ==
    /\ refresh = 0
    /\ refresh' = InstanceRefreshInterval * 1000
    /\ LET listed == info \in ListInstances(dbs) IN
          /\ pc' = IF listed /\ pc = "none" THEN "starting" ELSE pc
          /\ cancelled' = (pc # "none" /\ (cancelled \/ ~listed))
    /\ UNCHANGED <<dbs, own, info, details, errorCount, timer, failing, spent>>

\* run returns, and its collector is closed.
Ends ==
    /\ pc' = "none" /\ details' = {} /\ errorCount' = 0 /\ timer' = 0
    /\ cancelled' = FALSE /\ failing' = FALSE /\ spent' = 0
    /\ UNCHANGED <<dbs, own, info, refresh>>

\* NewCollector, which asks RDS for the details and opens no connection yet.
NewCollectorReturns ==
    /\ pc = "starting"
    /\ GetInstanceConnectionDetails(dbs, info) # {}
    /\ details' = GetInstanceConnectionDetails(dbs, info)
    /\ pc' = "waiting" /\ timer' = 0 /\ errorCount' = 0
    /\ UNCHANGED <<dbs, own, info, refresh, cancelled, failing, spent>>

\* RDS does not know the database, or the request fails.
NewCollectorFails == pc = "starting" /\ Ends

SelectCollect ==
    /\ pc = "waiting" /\ timer = 0
    /\ pc' = "collecting" /\ timer' = CollectorTimeout + Overrun
    /\ UNCHANGED <<dbs, own, info, details, errorCount, refresh, cancelled,
                   failing, spent>>

SelectDone == pc = "waiting" /\ cancelled /\ Ends

\* The database the details lead to is the one that is there.
Reachable == \E d \in details, db \in dbs : d.DBAddress # Nil /\ db.Endpoint = d.DBAddress

\* Mutant of CollectReturns: a success does not set the errors back.
CollectReturns_KeepsErrors ==
    /\ pc = "collecting" /\ timer >= Overrun /\ Reachable
    /\ pc' = "waiting" /\ failing' = FALSE /\ spent' = 0
    /\ timer' = CollectInterval * 1000
    /\ UNCHANGED <<dbs, own, info, details, errorCount, refresh, cancelled>>

\* Before the deadline, and only from a database that is where the details say.
CollectReturns ==
    /\ pc = "collecting" /\ timer >= Overrun /\ Reachable
    /\ pc' = "waiting" /\ errorCount' = 0 /\ failing' = FALSE /\ spent' = 0
    /\ timer' = CollectInterval * 1000
    /\ UNCHANGED <<dbs, own, info, details, refresh, cancelled>>

\* Mutant of Retry: one retry too many.
Retry_OffByOne ==
    /\ errorCount <= MaxRetries
    /\ pc' = "waiting" /\ errorCount' = errorCount + 1 /\ failing' = TRUE
    /\ timer' = Power4[errorCount'] * RetryInterval
    /\ UNCHANGED <<dbs, own, info, details, refresh, cancelled, spent>>

\* Mutant of Retry: the time to wait is in seconds.
Retry_Seconds ==
    /\ errorCount + 1 <= MaxRetries
    /\ pc' = "waiting" /\ errorCount' = errorCount + 1 /\ failing' = TRUE
    /\ timer' = Power4[errorCount'] * RetryInterval * 1000
    /\ UNCHANGED <<dbs, own, info, details, refresh, cancelled, spent>>

\* After an error, wait four times as long as after the one before.
Retry ==
    /\ errorCount + 1 <= MaxRetries
    /\ pc' = "waiting" /\ errorCount' = errorCount + 1 /\ failing' = TRUE
    /\ timer' = Power4[errorCount'] * RetryInterval
    /\ UNCHANGED <<dbs, own, info, details, refresh, cancelled, spent>>

\* Mutant of GiveUp: the worker starts over with the collector it has.
GiveUp_StartsOver ==
    /\ errorCount + 1 > MaxRetries
    /\ pc' = "waiting" /\ errorCount' = 0 /\ failing' = TRUE /\ spent' = 0
    /\ timer' = 4 * RetryInterval
    /\ UNCHANGED <<dbs, own, info, details, refresh, cancelled>>

GiveUp == errorCount + 1 > MaxRetries /\ Ends

\* Collect returns an error, at the latest when its time is over.
CollectFails == pc = "collecting" /\ (Retry \/ GiveUp)

\* Time passes, except over a timer of the worker or a context that is done.
\* The main loop may be late.
Tick ==
    /\ pc \in {"waiting", "collecting"} => Step <= timer
    /\ ~(pc = "waiting" /\ cancelled)
    /\ timer' = IF pc \in {"waiting", "collecting"} THEN timer - Step ELSE timer
    /\ refresh' = IF Step <= refresh THEN refresh - Step ELSE 0
    /\ spent' = IF (pc = "collecting" \/ failing) /\ spent <= GiveUpTime
                THEN spent + Step ELSE spent
    /\ UNCHANGED <<dbs, own, info, pc, details, errorCount, cancelled, failing>>

Next ==
    \/ EndpointChanges \/ Deleted
    \/ RefreshFails \/ Refresh
    \/ NewCollectorReturns \/ NewCollectorFails
    \/ SelectCollect \/ SelectDone \/ CollectReturns \/ CollectFails
    \/ Tick

Spec == Init /\ [][Next]_vars

\* Timers fire, a collection and a description end, and now and then RDS gives
\* an answer: a listing, and the description of a database that is there.
FairSpec ==
    /\ Spec
    /\ WF_vars(Tick) /\ WF_vars(SelectCollect) /\ WF_vars(SelectDone)
    /\ WF_vars(CollectReturns \/ CollectFails)
    /\ WF_vars(NewCollectorReturns \/ NewCollectorFails)
    /\ SF_vars(Refresh) /\ SF_vars(NewCollectorReturns)

-----------------------------------------------------------------------------
(* Properties *)

\* The types of the variables. A worker waits with at most MaxRetries errors,
\* and has details exactly while it has a collector.
TypeOK ==
    /\ \A db \in dbs : db.Engine \in {"postgres", "mysql", "other"}
    /\ pc \in {"none", "starting", "waiting", "collecting"}
    /\ Cardinality(details) = IF pc \in {"waiting", "collecting"} THEN 1 ELSE 0
    /\ errorCount \in 0..MaxRetries
    /\ timer \in Nat /\ refresh \in 0..(InstanceRefreshInterval * 1000)
    /\ cancelled \in BOOLEAN /\ failing \in BOOLEAN

\* A worker connects to the database it was listed for, through a GUID made from
\* the identifier and an identifier made from the GUID, and never to another one
\* of the broker.
DetailsAreOwn ==
    \A d \in details : d.DBAddress # Nil => \E h \in Hosts : d.DBAddress = Endpoint(own, h)

\* A worker that only fails ends after the time of its retries and timeouts.
GivesUpInTime == pc # "none" => spent <= GiveUpTime

\* A worker gives up only when it has failed for all the time of its waits, with
\* no success in between: a shorter outage ends no worker, and outages with a
\* success between them do not add up.
NoEarlyGiveUp == [][pc = "collecting" /\ pc' = "none" => spent >= RetryTime]_vars

\* The worker uses the endpoint that the database has, if it runs at all.
Current == \A d \in details : d.DBAddress = Own.Endpoint

\* When a database has got its last endpoint, a worker that still has older
\* details, or the ones of a database without endpoint, is replaced by one that
\* has the new ones, and stays.
StaleDetailsReplaced ==
    \A db \in Databases : \A host \in Hosts :
        LET settled == Exists /\ own = db.DBInstanceIdentifier
                       /\ Own.Endpoint = Endpoint(own, host)
        IN  <>[]settled => <>[](Exists /\ Current) /\ []<>(details # {})

\* The worker of a deleted database ends and stays away, whatever it did when
\* the database was deleted.
DeletedLosesWorker == [](~Exists => <>[](pc = "none"))
=============================================================================
