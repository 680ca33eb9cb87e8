------------------------ MODULE CloudWatchCollector ------------------------
(***************************************************************************)
(* The CloudWatch collector of pkg/collector/cloudwatch_collector.go: one  *)
(* Collect asks for the datapoints of each metric in turn, in the          *)
(* arbitrary order of a Go map, skips requests that fail and reports the   *)
(* newest datapoint of the others. It never returns an error.              *)
(***************************************************************************)
EXTENDS Integers, Sequences, FiniteSets, Functions

CONSTANTS
    MetricNames,  \* the metrics asked for, keys of metricNamesToLabels
    Answers       \* sequences of datapoints CloudWatch may answer with

metricNamesToLabels ==
    [CPUUtilization   |-> "cpu",
     CPUCreditUsage   |-> "cpu_credit_usage",
     CPUCreditBalance |-> "cpu_credit_balance",
     FreeableMemory   |-> "freeable_memory",
     FreeStorageSpace |-> "free_storage_space",
     SwapUsage        |-> "swap_usage",
     ReadIOPS         |-> "read_iops",
     WriteIOPS        |-> "write_iops"]

ASSUME MetricNamesAssumption == MetricNames \subseteq DOMAIN metricNamesToLabels

ASSUME AnswersAssumption ==
    \A answer \in Answers : answer \in Seq([Timestamp : Int, Average : Int])

VARIABLES
    pc,       \* "idle" or "loop"
    todo,     \* metrics the range loop has not visited
    m,        \* metrics collected, and returned once pc is idle again
    ctxDone,  \* the deadline of the collection has passed
    answers   \* history: the datapoints each request was answered with,
              \* none when it failed

vars == <<pc, todo, m, ctxDone, answers>>

\* Mutant of Sorted: the comparison is the wrong way round.
Sorted_NewestFirst(datapoints) ==
    LET D == DOMAIN datapoints
    IN  {[i \in D |-> datapoints[order[i]]] : order \in {order \in Bijection(D, D) :
            \A i, j \in D : i < j =>
                datapoints[order[j]].Timestamp <= datapoints[order[i]].Timestamp}}

\* What sort.Slice may make of the datapoints: it is not stable, so datapoints
\* of the same time come in any order.
Sorted(datapoints) ==
    LET D == DOMAIN datapoints
    IN  {[i \in D |-> datapoints[order[i]]] : order \in {order \in Bijection(D, D) :
            \A i, j \in D : i < j =>
                datapoints[order[i]].Timestamp <= datapoints[order[j]].Timestamp}}

\* The last one, which the sort has put there.
Newest(datapoints) == {sorted[Len(sorted)] : sorted \in Sorted(datapoints)}

MetricOf(name, d) ==
    [Key |-> metricNamesToLabels[name],
     Timestamp |-> d.Timestamp, Value |-> d.Average]

Init ==
    /\ pc = "idle" /\ todo = {} /\ m = <<>> /\ ctxDone = FALSE
    /\ answers = [name \in MetricNames |-> <<>>]

CollectStarts ==
    /\ pc = "idle"
    /\ pc' = "loop" /\ todo' = MetricNames /\ m' = <<>> /\ ctxDone' = FALSE
    /\ answers' = [name \in MetricNames |-> <<>>]

\* Mutant of RequestFails: break instead of continue.
RequestFails_Breaks(name) ==
    /\ pc = "loop" /\ name \in todo
    /\ pc' = "idle"
    /\ UNCHANGED <<todo, m, ctxDone, answers>>

\* Mutant of RequestFails: the same request is sent again.
RequestFails_Retries(name) == pc = "loop" /\ name \in todo /\ UNCHANGED vars

\* The request fails, because of the deadline or otherwise: log and continue.
RequestFails(name) ==
    /\ pc = "loop" /\ name \in todo
    /\ todo' = todo \ {name}
    /\ UNCHANGED <<pc, m, ctxDone, answers>>

\* Mutant of RequestReturns: every datapoint is reported.
RequestReturns_All(name, datapoints) ==
    /\ pc = "loop" /\ name \in todo /\ ~ctxDone
    /\ todo' = todo \ {name}
    /\ answers' = [answers EXCEPT ![name] = datapoints]
    /\ m' = m \o [i \in DOMAIN datapoints |-> MetricOf(name, datapoints[i])]
    /\ UNCHANGED <<pc, ctxDone>>

\* The request is answered: report the newest datapoint if there is one.
RequestReturns(name, datapoints) ==
    /\ pc = "loop" /\ name \in todo /\ ~ctxDone
    /\ todo' = todo \ {name}
    /\ answers' = [answers EXCEPT ![name] = datapoints]
    /\ \/ datapoints = <<>> /\ UNCHANGED m
       \/ /\ datapoints # <<>>
          /\ \E d \in Newest(datapoints) : m' = Append(m, MetricOf(name, d))
    /\ UNCHANGED <<pc, ctxDone>>

CollectReturns ==
    /\ pc = "loop" /\ todo = {}
    /\ pc' = "idle"
    /\ UNCHANGED <<todo, m, ctxDone, answers>>

\* The context of the collection ends: its timeout, or the worker's cancel.
CtxExpires ==
    /\ pc = "loop" /\ ~ctxDone
    /\ ctxDone' = TRUE
    /\ UNCHANGED <<pc, todo, m, answers>>

Next ==
    \/ CollectStarts \/ CollectReturns \/ CtxExpires
    \/ \E name \in MetricNames :
          \/ RequestFails(name)
          \/ \E datapoints \in Answers : RequestReturns(name, datapoints)

Spec == Init /\ [][Next]_vars

\* CloudWatch may never answer: the deadline passes, a request fails once it
\* has, and the collector takes its own steps.
FairSpec ==
    /\ Spec
    /\ WF_vars(CtxExpires) /\ WF_vars(CollectReturns)
    /\ WF_vars(ctxDone /\ \E name \in MetricNames : RequestFails(name))

-----------------------------------------------------------------------------
(* Properties *)

\* The variables have their types, and the loop has collected at most one
\* metric for each request it has made.
TypeOK ==
    /\ pc \in {"idle", "loop"} /\ ctxDone \in BOOLEAN
    /\ todo \subseteq MetricNames
    /\ answers \in [MetricNames -> Answers \cup {<<>>}]
    /\ Len(m) <= Cardinality(MetricNames \ todo)

\* Whatever the order of the datapoints in an answer, the metric reported for
\* it has the time of the newest one and a value measured at that time.
ReportsNewest ==
    \A i \in DOMAIN m : \E name \in MetricNames :
        /\ m[i].Key = metricNamesToLabels[name]
        /\ \E j \in DOMAIN answers[name] : m[i] = MetricOf(name, answers[name][j])
        /\ \A j \in DOMAIN answers[name] :
              answers[name][j].Timestamp <= m[i].Timestamp

\* When Collect has returned, every metric was asked for, and each of those
\* that were answered with datapoints is reported exactly once, whichever
\* other requests failed before it.
FailuresStayIsolated ==
    pc = "idle" =>
        /\ todo = {}
        /\ \A name \in MetricNames :
              Cardinality({i \in DOMAIN m : m[i].Key = metricNamesToLabels[name]})
                  = (IF answers[name] = <<>> THEN 0 ELSE 1)

\* Collect returns once its deadline has passed, although no request is ever
\* answered.
CollectTerminates == (pc = "loop") ~> (pc = "idle")
=============================================================================
