# Verification of the RDS metric collector

TLA+ specifications of the collector process of this repository, the TLC runs
that check them on small instances, and TLAPS proofs of safety properties for
every instance. Paths are relative to `src/`.

## The system

The process lists the RDS instances of a broker, keeps one *worker* per
instance and collector driver, and emits what the workers collect. Several
processes run; a lock lets one of them collect.

| Part | Source | State | Module |
|---|---|---|---|
| Scheduler | `pkg/scheduler/scheduler.go` | worker table, WaitGroup, stopped channel of capacity one, context | CollectionService, Scheduler |
| Worker | `pkg/scheduler/scheduler.go` | error count, timer, own context, collector | Scheduler, CollectorWorker |
| SQL collector | `pkg/collector/sql_collector.go` | connection, queries | SqlCollector |
| PostgreSQL, MySQL drivers | `pkg/collector/{postgres,mysql}_collector.go` | query tables, timeouts | SqlDrivers, PqTimeouts |
| CloudWatch collector | `pkg/collector/cloudwatch_collector.go` | client, instance | CloudWatchCollector |
| Broker information | `pkg/brokerinfo/rdsbrokerinfo.go` | none | BrokerInfo, CollectorWorker |
| Process group and lock | `main.go` | lock runner, scheduler | ProcessGroup |
| pq-timeouts | `fork/pq-timeouts` | wrapped connection, deadlines | PqTimeouts |
| Emitters, configuration | `pkg/emitter`, `pkg/config` | none that lasts | steps of ProcessGroup |

Workers end at any time, by cancellation, by too many errors or because their
collector cannot be created, and report it on a channel that holds one report,
while the main loop may be inside a listing, handling another report or
draining. An instance may vanish and return before its cancelled worker is gone.
A database may move under a worker that keeps its old address. A collection can
be interrupted between any two rows. A process can crash with the lock, or lose
it while it drains. `PROJECT.json` lists these hazards, with the line where each
one bites.

## Modules

How they fit together: ProcessGroup composes several processes, each with a
scheduler that takes the steps of CollectionService (`SchedulersServe`); Scheduler
implements CollectionService; CollectorWorker takes one worker of Scheduler, adds
time, and composes it with BrokerInfo; SqlCollector and CloudWatchCollector are
what happens inside one Collect; PqTimeouts is the connection below a PostgreSQL
collection.

**CollectionService** is abstract: phases of the service, the goroutines that run
and the collectors they hold open. **Scheduler** implements it (`Service`,
`ImplementsService`): the phase is read off the main loop's position, the active
goroutines are those not yet ended, the open collectors those not yet closed.

**Scheduler** has the main loop, the goroutines of the workers, a caller of Stop
and the environment (RDS instances, signals).
- `loop` is the main loop's position; every case of its `select` is an action.
  The refresh is several steps (`SelectRefresh`, `ListInstances*`, `StartWorker`,
  `CancelUnlisted`), so workers and callers run in between. `deleteWorker` is two
  steps, because `Done` can wake a Stop before the entry is deleted.
- A goroutine is a worker id and a *slot*. Two goroutines for one id are
  therefore possible states, and `OneWorkerPerID` is a result. With one slot it
  would hold by the shape of the state; the safety run has two.
- `stoppedWorker` is the channel: an id or `NoID`. A sender waits until it is
  empty.
- Times are abstract: a timer may fire whenever it is armed, so every interval
  and every retry wait is covered, and nothing is said about durations.
- ListInstances, NewCollector, Collect and Emit are calls whose outcome is a
  free choice. Stop is called by one caller, after Run has set `cancel`.

**BrokerInfo** has the listing, the connection details, and the conversion between
the GUID of an instance and the identifier of its database, on sequences of
characters. **CollectorWorker** runs one worker over databases that get an endpoint
late, move, or are deleted: refresh, NewCollector, Collect, the retry with its
wait of 4^n intervals, and giving up, with timers in milliseconds. The worker's
report reaches the main loop at once here; what happens in between is Scheduler's
subject. A collection ends at its deadline or, because `database/sql` does not
hand the context to a driver that is connecting, up to `Overrun` later.

**ProcessGroup** has several processes: startup with its fatal errors, the lock
runner, the scheduler with its goroutines and their open collectors, and the order
in which the group starts and stops them. A process that ends takes its goroutines
with it. The lock service, the lock runner and the group are libraries; they are modelled
from how `main.go` and `locking/locking_test.go` use them. Answers and releases
may get lost, locks expire, processes crash and are launched again. The owner of
a lock is a fresh UUID per process, so the lock of a crashed process belongs to
`Gone` and its own restart cannot take it. `lapsed` is a history variable: the
lock expired under its holder.

**PqTimeouts** follows the timeouts of a PostgreSQL connection from the builder
(seconds) through the URL (milliseconds) and the driver to the read and write
deadlines of the connection, with lib/pq as the external caller that dials, sets
a deadline for the whole handshake, clears it, and later runs queries. Time
passes in network calls and in the pool, never over a deadline being waited for.

**SqlCollector** has one collector: Collect is called, pings, runs its queries in
order and reads rows one at a time, while the context may expire and the
connection may break. `served` and `truncated` are history variables for the
properties: the rows the server handed out, without those a break cut off, and
whether it cut any. Units and query texts are left out. The behaviour of `database/sql`
(Next answers false on an error, calls fail once the context is done) is
external and taken from its documented contract.

**SqlDrivers** extends SqlCollector with the query tables of both engines. For each
query it has what the text selects and, separately, the keys looked up in the
answer, and it describes complete, incomplete and unscannable answers. The metrics
that the repository's README lists for each engine are here as well
(`MysqlListed`, `PostgresListed`).

**CloudWatchCollector** has one collector: requests in the arbitrary order of a Go
map, each failing or answered with datapoints, and a deadline. An answer is sorted
and its last datapoint reported; `sort.Slice` is not stable, so among datapoints of
one time any may be last.

The **Proofs** modules have the theorems. The **MC** modules give the constants
values. Operators named `X_Y` placed before `X` are variants of `X` with a
plausible defect; they show that each property can fail.

## Runs

| Config | Checks | Result |
|---|---|---|
| MCScheduler | TypeOK, OneWorkerPerID, WorkersRunningExact, CollectorsClosed, ReportIsNotStale, RunReturnsClean, ImplementsService | hold |
| MCSchedulerShutdown | ShutdownCompletes, StopTerminates | hold |
| MCSchedulerReconcile | ListedInstanceHasWorker, UnlistedInstanceLosesWorker, FailingWorkerGivesUp, StableInstanceNotCancelled | hold |
| MCCollectorWorker | TypeOK, DetailsAreOwn, GivesUpInTime, NoEarlyGiveUp, StaleDetailsReplaced, DeletedLosesWorker | hold |
| MCProcessGroup | TypeOK, CollectsUnderLock, OneCollectorPerID, CleanExit, LostLockEndsProcess, SignalEndsProcess, SomeoneCollects | hold |
| MCPqTimeouts | CallsBounded, PoolHasNoDeadline, StandardConnectBounded, NoEarlyTimeout | hold |
| MCSqlCollector | TypeOK, SuccessMatchesRows, RowKeysNeverMissing, ExportsListed, OnlyIncompleteAnswersFail, CollectTerminates | hold |
| MCCloudWatchCollector | TypeOK, ReportsNewest, FailuresStayIsolated, CollectTerminates | hold |
| MCSchedulerStopRace | NoWorkersAfterStop | **violated** |
| MCSchedulerHang | DrainTimeoutEndsRun | **violated** |
| MCSqlCollectorDeadline | DeadlineIsAnError | **violated** |
| MCPqTimeoutsConnect | ConnectBounded | **violated** |

What the less obvious ones show:
- *OneCollectorPerID* is not mutual exclusion: a lock that expires under its holder
  lets a second process collect until the first one notices and has drained. The
  property says that this is the only way in which an instance is collected twice.
- *CleanExit*: the lock is released after the workers are gone. That holds because
  the drain timeout of the scheduler does not make it return, which is the subject
  of the violated DrainTimeoutEndsRun: a return would trade a hang for an overlap.
- *SuccessMatchesRows* holds of result sets that break off too: the metrics are then
  those of the rows before the break.
- *ExportsListed*: a successful collection reports the listed metrics, each once,
  when every column query was answered with one row. With fewer or more rows a
  column query reports its metrics fewer or more times.
- *StaleDetailsReplaced*: nothing tells a worker that its database moved, or got
  its first endpoint. It is replaced only because it fails, gives up, and the next
  refresh starts another; the property says that this always works out.
- *GivesUpInTime* bounds how long that takes, in the units of the code.
- *NoEarlyGiveUp* is its counterpart: a worker outlasts every outage that is shorter
  than its waits together, and failures before a success do not count after it.
  The time is kept in `spent` and `failing`, which no guard reads and which do not
  depend on the code's own `errorCount`.

The four violations are disagreements between the code and its tests or docs:
- *Stop.* The trace has Stop return with the counter at zero while a refresh is
  listing; the refresh then registers a worker. The test of Stop arranges a Stop
  after the first collection only. `Done` before `delete` (line 188) is a second
  way to violate the property; it is not the trace of the run.
- *Drain timeout.* The branch only logs. With a NewCollector call that never
  answers, Run never returns. This rests on the assumption that the RDS request
  in it, which has no context, may never be answered.
- *Deadline.* `rows.Err()` is not read, so a column query cut short by the
  deadline is a success.
- *Connect.* `main.go` sets read and write timeouts, and each Read and Write
  replaces and clears the deadline that lib/pq set for the whole handshake. A
  server that is slow to accept, or slow in every answer, holds a connection
  attempt for longer than `connect_timeout`, by up to one timeout per call. Each call is still bounded
  (`CallsBounded`), and without these timeouts connecting is
  (`StandardConnectBounded`), which is the case the repository tests.

### Bounds

- MCScheduler: one instance with two drivers, two slots, one retry. Two ids are
  enough for one worker to wait for the channel while the other's report is in
  it; one retry gives a worker that goes on and one that gives up. Three ids, one
  report handled, one in the channel and one waiting, are covered by the proofs.
- The liveness runs of the scheduler have two ids, one slot (justified by
  OneWorkerPerID) and no symmetry. The shutdown run has no retries, the reconcile
  run one retry and no shutdown. The violation runs have one id, which suffices.
- MCCollectorWorker: a prefix with an underscore, a database being created, one
  whose GUID looks like the identifier of the other, and one of an engine without
  metrics; two hosts, so that a database can move and move back; two retries, so
  that the wait grows once; times are small multiples of `Step`.
- MCProcessGroup: two processes, any number of crashes and launches, one worker id
  with two goroutines, so that a second one for the id is possible within a process
  and in the other one. No symmetry, as the run has liveness properties.
- MCPqTimeouts: the builder of `main.go` scaled down, one with three different
  timeouts and one with the connection timeout only; handshakes of two exchanges,
  `MaxTime` of 8 s, long enough for a connection attempt, a close and a second
  one; steps of a second. Every deadline is a whole number of seconds.
- MCSqlCollector: the real tables, with for each query the complete answer in two
  orders, every answer without one row and every answer with one NULL; and a
  small table of a row and a column query with result sets of up to `MaxRows` = 3
  rows (2 in the deadline run), with wrong column counts, wrong names, unscannable
  values and keys that repeat in another case. (The repository's README describes `seq_scan` as index scans and
  `idx_scan` as sequential scans, which is swapped.)
- MCCloudWatchCollector: three of the eight metrics, enough for a request before
  and one after a failed one; up to three datapoints, unordered and tied.

### Fairness

Weak fairness where Go guarantees progress: a runnable goroutine runs, a timer
fires, a call that answers returns. Strong fairness for the cases of a `select`,
which Go chooses at random among those ready, and for `SendStopped`, as blocked
senders are served in order. `FairSpec` of Scheduler adds that NewCollector
answers; `HangingSpec` does not. `ListingFairSpec` adds that not every listing
fails. Collections may fail for ever in all of them. In the collectors no answer
of the server is assumed, only that the deadline passes and calls then fail.

CollectorWorker assumes that timers fire and calls end, and that RDS does not
fail every listing or every description of a database that is there.
ProcessGroup assumes that a running process takes its steps, that a draining
scheduler closes its collectors and ends its goroutines, which is what
ShutdownCompletes says of Scheduler if NewCollector answers (strong fairness for
the end, as CollectionService lets a goroutine open a collector again), that a
runner which keeps asking for a lock that is free again and again gets an answer
in the end, and that the lock of an owner that is gone expires. Nothing is assumed
of crashes, signals or
launches. PqTimeouts has safety properties only.

## Proofs

Each `Proofs` module proves, under the named assumptions of the module it
extends, that the property holds in every behaviour of its `Spec`.

| Module | Theorems | For all |
|---|---|---|
| SchedulerProofs | TypeOK, OneWorkerPerID, WorkersRunningExact, ReportIsNotStale, CollectorsClosed, RunReturnsClean, NobodyWaitsInVain, StableInstanceNotCancelled, ImplementsService | instances, drivers, retry limits, slots |
| ProcessGroupProofs | TypeOK, CollectsUnderLock, NoOverlap, OneCollectorPerID, CleanExit, SchedulersServe | sets of processes and goroutines |
| PqTimeoutsProofs | CallsBounded, PoolHasNoDeadline, StandardConnectBounded, NoEarlyTimeout | builders, handshakes, steps of the clock |
| CollectorWorkerProofs | TypeOK, GUIDRoundTrip, IdentifierRoundTrip, DetailsAreOwn, ListedWhileItExists, DeletedStaysAway, GivesUpInTime, NoEarlyGiveUp | prefixes, databases, hosts, times, retry limits |
| CloudWatchCollectorProofs | TypeOK, ReportsNewest, FailuresStayIsolated | metrics and answers |
| SqlCollectorProofs | TypeOK, RowKeysNeverMissing, SuccessMatchesRows | query tables and result sets |
| SqlDriversProofs | OnlyIncompleteAnswersFail, TableKeysReported, ExportsListed | result sets; the first for tables that select their keys, as both engines' do |

**SetInduction** has what these modules share: induction over the natural numbers,
and that a function defined by recursion exists. The library's induction theorems
take a formula as a parameter, which the installed provers cannot instantiate, so
both are stated here for sets and functions and derived from the least element of
a set of naturals.

*Scheduler.* None of the central properties is inductive alone. That an id is
started only once depends on the table naming the goroutine that runs; that the
table does so depends on a report never being about a running worker; that
depends on the entry staying in the table from the start of a goroutine until its
report has been handled. `IndInv` states these together:
- `TableInv`: a running goroutine is the registered one; an entry without one
  has its report in the channel or being handled, and never both.
- `CountInv`: the counter is the running goroutines plus the unread report.
- `GoroutineInv`: the collector is open exactly between creation and Close, and
  a worker that goes on has counted at most `maxRetries` errors.

`StartStep`, `SendStep`, `ReceiveStep` and `DeleteStep` treat the four actions
that change these relations; `QuietStep` treats all others. For the refinement,
`PhaseStep`, `StartImplements` and `WorkerImplements` map the steps of the main
loop, of a start and of a worker; `IndInv` supplies that a started id has no
running goroutine and that the service returns without any.

`NobodyWaitsInVain` is the part of ShutdownCompletes and StopTerminates that needs no
fairness: a draining main loop and a Stop wait only for a report that is in the
channel or for a goroutine that runs and whose context is done, never for one that
has ended.

*ProcessGroup.* `LockInv` adds what ties the scheduler to the lock: it runs only
next to a runner that got the lock and was not yet told to release it, and such
a runner has the lock or lost it to expiry. `WorkerInv` adds what ties the workers
to the scheduler: goroutines run only while it does, one for a worker id, and the
open collectors are theirs. Together they give OneCollectorPerID, within a process
from WorkerInv and between processes from LockInv, and CleanExit.

`SchedulersServe` closes the argument between the modules: every step of a process
is for its scheduler a step of CollectionService, a stutter or the end of the
process, and Scheduler implements CollectionService. Both halves are proved; that
the safety properties of ProcessGroup therefore hold with Scheduler in the place of
its abstraction is their conclusion, and not a theorem of its own.

*PqTimeouts.* `DeadlineInv` says whose deadline is on the connection: the one of
the call in progress if the connection handles that call, otherwise none or, in
a handshake, the one of lib/pq. It contains the module's TypeOK.

*CollectorWorker.* The conversion loses underscores and trims a prefix that may
also start a GUID, so it is not obviously reversible. `IdentifierRoundTrip` needs
that identifiers have the broker's prefix and no underscores
(`DatabaseAssumption`), which RDS and the broker that named them guarantee. The
assumption also says that no two databases share an identifier, which TypeOK needs.

The bound of GivesUpInTime is a sum over the retries with waits that grow by
`math.Pow(4, n)` (`Power4`). `BudgetInv` bounds the time spent by the waits and
attempts up to the current error (`Budget`), the rest of the running timer
included; `SumOfPowers` and `BudgetMonotone` compare that with the whole bound.
NoEarlyGiveUp needs a bound from below, `PatienceInv`: what is spent and what is left
on the timer are at least the waits so far (`Waits`). That no time gets lost between
the two rests on the history `failing` being true exactly while `errorCount` is
positive, which is where a success has to set the count back.
TypeOK rests on `DatabasesInv`, `DetailsInv` and `RefreshInv`.

`ListedWhileItExists` says that a refresh finds the instance of a worker exactly
while its database exists: by `GUIDsDiffer` no other database has its GUID, and by
`NamesInv` a database keeps the identifier and the engine it was created with.
`DeletedStaysAway`, that no worker is started for a deleted database, is the part of
DeletedLosesWorker that needs no fairness.

*CloudWatchCollector.* `LastIsNewest` is what the sort is for: as its order reaches
every datapoint, none is newer than the last. `IsolatedInv` says at which positions a metric is reported:
at exactly one if its request was answered with datapoints, at none otherwise.
That different metrics do not count for each other needs that no two have the same
label.

*SqlCollector.* `ControlInv` says which query Collect is at and how many answers it
has got; `DataInv` that it holds rows and metrics. `KeysInv` says that the row
queries behind it have their keys among the metrics. `MatchInv` says that the
metrics are those of the answers behind it and that the current query has made its
part from a first part of its answer, with the rest still to read. A break of the
result set cuts the rest off the answer (`RowsBreakMatches`), so the invariant needs
no exception for it. The reference
is a `FlattenSeq` over the queries, an iterated definition; `FlattenSteps` gives
its value and how one element more extends it. `TablesAssumption` says that a
table has a query, that each is a column or a row query, and that answers are
sequences of rows.

*SqlDrivers.* OnlyIncompleteAnswersFail is an action property; by `MatchInv` the row
that is read is one of the answer, and at the end all of its rows were read.
The proof needs that every query selects the keys looked for (`SelectsKeys`), a
column query before its tags. `MysqlSelectsKeys` and `PostgresSelectsKeys` show
this of the tables of the code, so that `DriversFailForAReason` has no hypothesis
but that these are the tables.

ExportsListed rests on `TableKeysReported`: whatever the table and the answers, a
Collect that succeeds with one row for each column query reports the keys of its
table, in order and each once. `MysqlKeys` and `PostgresKeys` evaluate the keys of
the tables of the code, and `MysqlListedCount` and `PostgresListedCount` count the
metrics that are listed. That a column query is answered with one row is a
hypothesis because the code does not enforce it.

Only model-checked: the liveness properties (the prover has neither fairness nor
ENABLED). They are ShutdownCompletes, StopTerminates, ListedInstanceHasWorker,
UnlistedInstanceLosesWorker, FailingWorkerGivesUp, StaleDetailsReplaced,
DeletedLosesWorker, LostLockEndsProcess, SignalEndsProcess, SomeoneCollects and the
two CollectTerminates. Every safety property of a passing run is proved.

## Not modelled

- The connection string of MySQL: it hands its timeouts to a driver outside the
  repository. Of the PostgreSQL one, everything but the timeouts is formatting.
- Emit: it hands an envelope to a client library and keeps no state. Which
  configurations the validation library accepts.
- The password in the connection details: a hash.
- A datapoint without a unit, on which the CloudWatch collector would panic.
- Use of a closed `timeoutConn`: lib/pq drops a connection that it closes.
- Stop before Run, and the contexts that ended workers leave behind.
- `utils.WithTimeout`, which only its own test calls; mocks and the mock lock
  server, which are test code.
