---------------------- MODULE CloudWatchCollectorProofs ----------------------
(***************************************************************************)
(* Proofs that CloudWatchCollector reports the newest datapoints, and each *)
(* answered metric once, for every set of metrics and of answers.          *)
(***************************************************************************)
EXTENDS CloudWatchCollector, SequenceTheorems, FiniteSetTheorems, TLAPS

Label == {metricNamesToLabels[name] : name \in MetricNames}

Metric == [Key : Label, Timestamp : Int, Value : Int]

\* A metric that the newest datapoint of an answer gave.
IsNewest(metric) ==
    \E name \in MetricNames :
        /\ metric.Key = metricNamesToLabels[name]
        /\ \E j \in DOMAIN answers[name] : metric = MetricOf(name, answers[name][j])
        /\ \A j \in DOMAIN answers[name] : answers[name][j].Timestamp <= metric.Timestamp

\* The inductive invariant: a metric not asked for yet has no answer, so an
\* answer is never replaced once a metric was made of it.
NewestInv ==
    /\ todo \subseteq MetricNames
    /\ m \in Seq(Metric)
    /\ answers \in [MetricNames -> Answers \cup {<<>>}]
    /\ \A name \in todo : answers[name] = <<>>
    /\ \A i \in 1..Len(m) : IsNewest(m[i])

\* The last datapoint of a sorted answer is one of the answer, and none of them
\* is newer.
LEMMA LastIsNewest ==
    ASSUME NEW datapoints \in Answers, datapoints # <<>>, NEW d \in Newest(datapoints)
    PROVE  /\ d \in [Timestamp : Int, Average : Int]
           /\ \E j \in DOMAIN datapoints : d = datapoints[j]
           /\ \A j \in DOMAIN datapoints : datapoints[j].Timestamp <= d.Timestamp
<1> DEFINE n == Len(datapoints)
<1>1. /\ datapoints \in Seq([Timestamp : Int, Average : Int])
      /\ n \in Nat \ {0} /\ DOMAIN datapoints = 1..n
  BY AnswersAssumption, EmptySeq, LenProperties
<1>2. \A i \in 1..n : datapoints[i] \in [Timestamp : Int, Average : Int]
  BY <1>1, ElementOfSeq
<1> HIDE DEF n
<1>3. PICK sorted \in Sorted(datapoints) : d = sorted[Len(sorted)]
  BY DEF Newest
<1>4. PICK order \in Bijection(1..n, 1..n) :
         /\ sorted = [i \in 1..n |-> datapoints[order[i]]]
         /\ \A i, j \in 1..n : i < j =>
               datapoints[order[i]].Timestamp <= datapoints[order[j]].Timestamp
  BY <1>1, <1>3 DEF Sorted
<1>5. /\ order \in [1..n -> 1..n]
      /\ \A j \in 1..n : \E i \in 1..n : order[i] = j
  BY <1>4 DEF Bijection, Injection, Surjection
<1>6. Len(sorted) = n /\ n \in 1..n
  BY <1>1, <1>4
<1>7. d = datapoints[order[n]] /\ order[n] \in 1..n
  BY <1>3, <1>4, <1>5, <1>6
<1>8. ASSUME NEW j \in 1..n PROVE datapoints[j].Timestamp <= d.Timestamp
  <2>1. PICK i \in 1..n : order[i] = j
    BY <1>5
  <2>2. CASE i = n
    BY <1>2, <1>7, <2>1, <2>2
  <2>3. CASE i < n
    BY <1>4, <1>6, <1>7, <2>1, <2>3
  <2> QED
    BY <1>1, <2>2, <2>3
<1> QED
  BY <1>1, <1>2, <1>7, <1>8

\* What CloudWatchCollector.Collect makes of a datapoint is a metric.
LEMMA MetricType ==
    ASSUME NEW name \in MetricNames, NEW datapoints \in Answers, datapoints # <<>>,
           NEW d \in Newest(datapoints)
    PROVE  MetricOf(name, d) \in Metric
<1>1. metricNamesToLabels[name] \in Label
  BY DEF Label
<1>2. d \in [Timestamp : Int, Average : Int]
  BY LastIsNewest
<1> QED
  BY <1>1, <1>2 DEF MetricOf, Metric

\* An answer that comes in keeps the invariant: the metric made of it is the
\* newest, and the answers behind the other metrics are not touched.
LEMMA AnswerKeeps ==
    ASSUME NewestInv, NEW name \in MetricNames, NEW datapoints \in Answers,
           RequestReturns(name, datapoints)
    PROVE  NewestInv'
<1>1. /\ name \in todo /\ todo' = todo \ {name}
      /\ answers' = [answers EXCEPT ![name] = datapoints]
      /\ answers'[name] = datapoints
      /\ \A n \in MetricNames : n # name => answers'[n] = answers[n]
  BY DEF NewestInv, RequestReturns
<1>2. answers' \in [MetricNames -> Answers \cup {<<>>}]
  BY <1>1 DEF NewestInv
<1>3. \A n \in todo' : answers'[n] = <<>>
  BY <1>1 DEF NewestInv
<1>4. \A metric : IsNewest(metric) => IsNewest(metric)'
  <2> SUFFICES ASSUME NEW metric, IsNewest(metric) PROVE IsNewest(metric)'
    OBVIOUS
  <2>1. PICK n \in MetricNames :
          /\ metric.Key = metricNamesToLabels[n]
          /\ \E j \in DOMAIN answers[n] : metric = MetricOf(n, answers[n][j])
          /\ \A j \in DOMAIN answers[n] : answers[n][j].Timestamp <= metric.Timestamp
    BY DEF IsNewest
  <2>2. DOMAIN answers[n] # {}
    BY <2>1
  <2>3. n # name
    BY <1>1, <2>2 DEF NewestInv
  <2> QED
    BY <1>1, <2>1, <2>3 DEF IsNewest, MetricOf
<1>5. CASE UNCHANGED m
  BY <1>1, <1>2, <1>3, <1>4, <1>5 DEF NewestInv
<1>6. CASE datapoints # <<>> /\ \E d \in Newest(datapoints) : m' = Append(m, MetricOf(name, d))
  <2>1. PICK d \in Newest(datapoints) : m' = Append(m, MetricOf(name, d))
    BY <1>6
  <2> DEFINE new == MetricOf(name, d)
  <2>2. new \in Metric
    BY <1>6, MetricType
  <2>3. IsNewest(new)'
    <3>1. new.Key = metricNamesToLabels[name] /\ new.Timestamp = d.Timestamp
      BY DEF MetricOf
    <3>2. /\ \E j \in DOMAIN datapoints : d = datapoints[j]
          /\ \A j \in DOMAIN datapoints : datapoints[j].Timestamp <= d.Timestamp
      BY <1>6, LastIsNewest
    <3> QED
      BY <1>1, <3>1, <3>2 DEF IsNewest
  <2> HIDE DEF new
  <2>4. /\ m' \in Seq(Metric) /\ Len(m') = Len(m) + 1
        /\ \A i \in 1..Len(m) : m'[i] = m[i]
        /\ m'[Len(m) + 1] = new
    BY <2>1, <2>2, AppendProperties DEF NewestInv, new
  <2>5. \A i \in 1..Len(m') : i \in 1..Len(m) \/ i = Len(m) + 1
    BY <2>4, LenProperties DEF NewestInv
  <2>6. \A i \in 1..Len(m') : IsNewest(m[i])'
    BY <1>4, <2>3, <2>4, <2>5 DEF NewestInv
  <2> QED
    BY <1>1, <1>2, <1>3, <2>4, <2>6 DEF NewestInv
<1> QED
  BY <1>5, <1>6 DEF RequestReturns

\* NewestInv holds from the start and every step keeps it.
LEMMA NewestInvariance == (Init => NewestInv) /\ (NewestInv /\ [Next]_vars => NewestInv')
<1>1. Init => NewestInv
  BY EmptySeq DEF Init, NewestInv
<1>2. NewestInv /\ [Next]_vars => NewestInv'
  <2> SUFFICES ASSUME NewestInv, [Next]_vars PROVE NewestInv'
    OBVIOUS
  <2>1. CASE CollectStarts
    BY <2>1, EmptySeq DEF CollectStarts, NewestInv
  <2>2. CASE todo' \subseteq todo /\ UNCHANGED <<m, answers>>
    <3>1. \A metric : IsNewest(metric) => IsNewest(metric)'
      BY <2>2 DEF IsNewest, MetricOf
    <3> QED
      BY <2>2, <3>1 DEF NewestInv
  <2>3. CASE \E name \in MetricNames : \E datapoints \in Answers :
                RequestReturns(name, datapoints)
    BY <2>3, AnswerKeeps
  <2>4. \/ CollectStarts
        \/ todo' \subseteq todo /\ UNCHANGED <<m, answers>>
        \/ \E name \in MetricNames : \E datapoints \in Answers :
              RequestReturns(name, datapoints)
    BY DEF Next, vars, CollectReturns, CtxExpires, RequestFails
  <2> QED
    BY <2>1, <2>2, <2>3, <2>4
<1> QED
  BY <1>1, <1>2

\* Whatever the order in which metrics are asked for, requests fail and
\* datapoints arrive, a reported metric is the newest of its answer.
THEOREM ReportsNewestHolds == Spec => []ReportsNewest
<1>1. NewestInv => ReportsNewest
  BY LenProperties, Zenon DEF NewestInv, ReportsNewest, IsNewest
<1> QED
  BY <1>1, NewestInvariance, PTL DEF Spec

-----------------------------------------------------------------------------

\* No two metrics have the same label.
LEMMA LabelsDistinct ==
    \A a, b \in MetricNames : metricNamesToLabels[a] = metricNamesToLabels[b] => a = b
<1>1. \A a, b \in DOMAIN metricNamesToLabels :
          metricNamesToLabels[a] = metricNamesToLabels[b] => a = b
  BY DEF metricNamesToLabels
<1> QED
  BY <1>1, MetricNamesAssumption

\* There are finitely many metrics.
LEMMA MetricNamesFinite == IsFiniteSet(MetricNames)
<1> DEFINE A == {"CPUUtilization"}
           B == A \cup {"CPUCreditUsage"} \cup {"CPUCreditBalance"} \cup {"FreeableMemory"}
           C == B \cup {"FreeStorageSpace"} \cup {"SwapUsage"}
           D == C \cup {"ReadIOPS"} \cup {"WriteIOPS"}
<1>1. IsFiniteSet(A)
  BY FS_Singleton, Zenon
<1> HIDE DEF A
<1>2. IsFiniteSet(B)
  BY <1>1, FS_AddElement, Zenon
<1> HIDE DEF B
<1>3. IsFiniteSet(C)
  BY <1>2, FS_AddElement, Zenon
<1> HIDE DEF C
<1>4. IsFiniteSet(D)
  BY <1>3, FS_AddElement, Zenon
<1>5. DOMAIN metricNamesToLabels \subseteq D
  BY DEF metricNamesToLabels, A, B, C
<1> QED
  BY <1>4, <1>5, MetricNamesAssumption, FS_Subset

\* Where a metric is reported.
Reported(name) == {i \in 1..Len(m) : m[i].Key = metricNamesToLabels[name]}

\* Each metric is reported where its answer put it, and nowhere else; the loop
\* ends with nothing left to do, and reports at most one metric a request.
IsolatedInv ==
    /\ pc \in {"idle", "loop"} /\ ctxDone \in BOOLEAN
    /\ pc = "idle" => todo = {}
    /\ Len(m) <= Cardinality(MetricNames \ todo)
    /\ \A name \in MetricNames :
          IF answers[name] = <<>> THEN Reported(name) = {} ELSE \E i : Reported(name) = {i}

\* One request more was made.
LEMMA OneRequestMore ==
    ASSUME NewestInv, NEW name \in todo, todo' = todo \ {name}
    PROVE  /\ Cardinality(MetricNames \ todo) \in Nat
           /\ Cardinality(MetricNames \ todo') = Cardinality(MetricNames \ todo) + 1
<1>1. MetricNames \ todo' = (MetricNames \ todo) \cup {name} /\ name \notin MetricNames \ todo
  BY DEF NewestInv
<1>2. IsFiniteSet(MetricNames \ todo)
  BY MetricNamesFinite, FS_Subset
<1> QED
  BY <1>1, <1>2, FS_AddElement, FS_CardinalityType, Zenon

\* An answer is reported in its own place.
LEMMA AnswerIsolated ==
    ASSUME NewestInv, IsolatedInv, NEW name \in MetricNames, NEW datapoints \in Answers,
           RequestReturns(name, datapoints)
    PROVE  IsolatedInv'
<1>1. /\ name \in todo /\ todo' = todo \ {name} /\ pc = "loop" /\ pc' = pc
      /\ ctxDone' = ctxDone /\ answers[name] = <<>> /\ answers'[name] = datapoints
      /\ \A n \in MetricNames : n # name => answers'[n] = answers[n]
  BY DEF NewestInv, RequestReturns
<1>2. Reported(name) = {}
  BY <1>1 DEF IsolatedInv
<1>3. /\ Cardinality(MetricNames \ todo) \in Nat
      /\ Cardinality(MetricNames \ todo') = Cardinality(MetricNames \ todo) + 1
  BY <1>1, OneRequestMore, Zenon
<1>4. m \in Seq(Metric) /\ Len(m) \in Nat /\ Len(m) <= Cardinality(MetricNames \ todo)
  BY LenProperties DEF NewestInv, IsolatedInv
<1>5. CASE datapoints = <<>> /\ UNCHANGED m
  <2>1. Len(m') <= Cardinality(MetricNames \ todo')
    BY <1>3, <1>4, <1>5
  <2>2. \A n \in MetricNames : Reported(n)' = Reported(n)
    BY <1>5 DEF Reported
  <2>3. \A n \in MetricNames : IF answers'[n] = <<>> THEN Reported(n)' = {}
                                                       ELSE \E i : Reported(n)' = {i}
    BY <1>1, <1>2, <1>5, <2>2, Zenon DEF IsolatedInv
  <2> QED
    BY <1>1, <2>1, <2>3, Zenon DEF IsolatedInv
<1>6. CASE datapoints # <<>> /\ \E d \in Newest(datapoints) : m' = Append(m, MetricOf(name, d))
  <2>1. PICK d \in Newest(datapoints) : m' = Append(m, MetricOf(name, d))
    BY <1>6
  <2> DEFINE new == MetricOf(name, d)
  <2>2. new \in Metric /\ new.Key = metricNamesToLabels[name]
    BY <1>6, MetricType DEF MetricOf
  <2> HIDE DEF new
  <2>3. /\ m' \in Seq(Metric) /\ Len(m') = Len(m) + 1
        /\ \A i \in 1..Len(m) : m'[i] = m[i]
        /\ m'[Len(m) + 1] = new
    BY <1>4, <2>1, <2>2, AppendProperties DEF new
  <2>4. 1..Len(m') = (1..Len(m)) \cup {Len(m) + 1}
    BY <1>4, <2>3
  <2>5. Len(m') <= Cardinality(MetricNames \ todo')
    BY <1>3, <1>4, <2>3
  <2>6. Reported(name)' = {Len(m) + 1}
    BY <1>2, <2>2, <2>3, <2>4 DEF Reported
  <2>7. ASSUME NEW n \in MetricNames, n # name PROVE Reported(n)' = Reported(n)
    <3>1. new.Key # metricNamesToLabels[n]
      BY <2>2, <2>7, LabelsDistinct
    <3> QED
      BY <2>3, <2>4, <3>1 DEF Reported
  <2>8. \A n \in MetricNames : IF answers'[n] = <<>> THEN Reported(n)' = {}
                                                       ELSE \E i : Reported(n)' = {i}
    BY <1>1, <1>6, <2>6, <2>7, Zenon DEF IsolatedInv
  <2> QED
    BY <1>1, <2>5, <2>8, Zenon DEF IsolatedInv
<1> QED
  BY <1>5, <1>6 DEF RequestReturns

\* IsolatedInv holds from the start and every step keeps it.
LEMMA IsolatedInvariance == Spec => [](NewestInv /\ IsolatedInv)
<1>1. ASSUME m = <<>>, answers = [name \in MetricNames |-> <<>>]
      PROVE  /\ Len(m) <= Cardinality(MetricNames \ todo)
             /\ \A name \in MetricNames : answers[name] = <<>> /\ Reported(name) = {}
  <2>1. Cardinality(MetricNames \ todo) \in Nat /\ Len(m) = 0
    BY <1>1, MetricNamesFinite, FS_Subset, FS_CardinalityType
  <2> QED
    BY <1>1, <2>1 DEF Reported
<1>2. Init => IsolatedInv
  BY <1>1, Zenon DEF Init, IsolatedInv
<1>3. ASSUME m' = <<>>, answers' = [name \in MetricNames |-> <<>>]
      PROVE  /\ Len(m') <= Cardinality(MetricNames \ todo')
             /\ \A name \in MetricNames : answers'[name] = <<>> /\ Reported(name)' = {}
  <2>1. Cardinality(MetricNames \ todo') \in Nat /\ Len(m') = 0
    BY <1>3, MetricNamesFinite, FS_Subset, FS_CardinalityType
  <2> QED
    BY <1>3, <2>1 DEF Reported
<1>4. NewestInv /\ IsolatedInv /\ [Next]_vars => IsolatedInv'
  <2> SUFFICES ASSUME NewestInv, IsolatedInv, [Next]_vars PROVE IsolatedInv'
    OBVIOUS
  <2>1. CASE CollectStarts
    BY <1>3, <2>1, Zenon DEF CollectStarts, IsolatedInv
  <2>2. ASSUME UNCHANGED <<m, answers>>
        PROVE  \A name \in MetricNames : answers'[name] = answers[name]
                                           /\ Reported(name)' = Reported(name)
    BY <2>2 DEF Reported
  <2>3. CASE CollectReturns \/ CtxExpires \/ UNCHANGED vars
    BY <2>2, <2>3, Zenon DEF CollectReturns, CtxExpires, vars, IsolatedInv
  <2>4. ASSUME NEW name \in MetricNames, RequestFails(name) PROVE IsolatedInv'
    <3>1. /\ name \in todo /\ todo' = todo \ {name} /\ pc = "loop"
          /\ UNCHANGED <<pc, m, ctxDone, answers>>
      BY <2>4 DEF RequestFails
    <3>2. Len(m') <= Cardinality(MetricNames \ todo')
      <4>1. /\ Cardinality(MetricNames \ todo) \in Nat
            /\ Cardinality(MetricNames \ todo') = Cardinality(MetricNames \ todo) + 1
        BY <3>1, OneRequestMore
      <4>2. Len(m) \in Nat /\ Len(m) <= Cardinality(MetricNames \ todo)
        BY LenProperties DEF NewestInv, IsolatedInv
      <4>3. Len(m') = Len(m)
        BY <3>1
      <4> QED
        BY <4>1, <4>2, <4>3
    <3> QED
      BY <2>2, <3>1, <3>2, Zenon DEF IsolatedInv
  <2>5. ASSUME NEW name \in MetricNames, NEW datapoints \in Answers,
               RequestReturns(name, datapoints)
        PROVE  IsolatedInv'
    BY <2>5, AnswerIsolated
  <2> QED
    BY <2>1, <2>3, <2>4, <2>5 DEF Next
<1> QED
  BY <1>2, <1>4, NewestInvariance, PTL DEF Spec

\* A failed request costs its own metric and no other: a Collect that returned
\* has reported every metric that was answered exactly once.
THEOREM FailuresStayIsolatedHolds == Spec => []FailuresStayIsolated
<1>1. NewestInv /\ IsolatedInv => FailuresStayIsolated
  <2> SUFFICES ASSUME NewestInv, IsolatedInv, pc = "idle" PROVE
          /\ todo = {}
          /\ \A name \in MetricNames :
                Cardinality({i \in DOMAIN m : m[i].Key = metricNamesToLabels[name]})
                    = (IF answers[name] = <<>> THEN 0 ELSE 1)
    BY DEF FailuresStayIsolated
  <2>1. \A name \in MetricNames :
            {i \in DOMAIN m : m[i].Key = metricNamesToLabels[name]} = Reported(name)
    BY LenProperties DEF NewestInv, Reported
  <2>2. \A name \in MetricNames :
            Cardinality(Reported(name)) = (IF answers[name] = <<>> THEN 0 ELSE 1)
    <3>1. ASSUME NEW name \in MetricNames, answers[name] = <<>>
          PROVE  Cardinality(Reported(name)) = 0
      BY <3>1, FS_EmptySet, Zenon DEF IsolatedInv
    <3>2. ASSUME NEW name \in MetricNames, answers[name] # <<>>
          PROVE  Cardinality(Reported(name)) = 1
      <4>1. PICK i : Reported(name) = {i}
        BY <3>2, Zenon DEF IsolatedInv
      <4> QED
        BY <4>1, FS_Singleton
    <3> QED
      BY <3>1, <3>2
  <2> QED
    BY <2>1, <2>2, Zenon DEF IsolatedInv
<1> QED
  BY <1>1, IsolatedInvariance, PTL

\* The types hold, and with them that Collect reports at most one metric for
\* each request it made.
THEOREM CloudWatchTypes == Spec => []TypeOK
<1>1. NewestInv /\ IsolatedInv => TypeOK
  BY DEF NewestInv, IsolatedInv, TypeOK
<1> QED
  BY <1>1, IsolatedInvariance, PTL
=============================================================================
