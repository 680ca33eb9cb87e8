------------------------- MODULE SqlCollectorProofs -------------------------
(***************************************************************************)
(* Proofs that a successful Collect of SqlCollector returns what the rows  *)
(* say and every key of every row query, for every table of queries and    *)
(* every answer of the server.                                             *)
(***************************************************************************)
EXTENDS SqlCollector, SequenceTheorems, SetInduction, TLAPS

-----------------------------------------------------------------------------
(* Sequences put together *)

\* The function that FlattenSeq takes its value from, for a sequence of
\* sequences that is not empty.
Flattening(f, seqs) ==
    f = [i \in 1..Len(seqs) |-> IF i = 1 THEN seqs[i] ELSE f[i - 1] \o seqs[i]]

\* There is one, and its values are sequences.
LEMMA FlatteningExists ==
    ASSUME NEW M, NEW seqs \in Seq(Seq(M)), seqs # <<>>
    PROVE  \E f : Flattening(f, seqs)
<1> DEFINE S == Seq(M)
           g == [p \in Nat \X S |-> IF p[1] + 1 \in 1..Len(seqs) THEN p[2] \o seqs[p[1] + 1]
                                                                 ELSE p[2]]
<1>1. Len(seqs) \in Nat \ {0} /\ \A i \in 1..Len(seqs) : seqs[i] \in S
  BY EmptySeq, LenProperties, ElementOfSeq
<1>2. \A s, t \in S : s \o t \in S
  BY ConcatProperties
<1> HIDE DEF S
<1>3. g \in [Nat \X S -> S]
  BY <1>1, <1>2
<1>4. \A n \in Nat, s \in S : n + 1 \in 1..Len(seqs) => g[<<n, s>>] = s \o seqs[n + 1]
  BY Zenon
<1>5. seqs[1] \in S
  BY <1>1
<1> HIDE DEF g
<1>6. PICK r : Recursion(r, S, seqs[1], g)
  BY <1>3, <1>5, NatSetRecursion, Zenon
<1>7. /\ r \in [Nat -> S] /\ r[0] = seqs[1]
      /\ \A n \in Nat : r[n + 1] = g[<<n + 1, r[n]>>]
  BY <1>6 DEF Recursion
<1> DEFINE f == [i \in 1..Len(seqs) |-> r[i - 1]]
<1>8. ASSUME NEW i \in 1..Len(seqs)
      PROVE  f[i] = IF i = 1 THEN seqs[i] ELSE f[i - 1] \o seqs[i]
  <2>1. CASE i = 1
    BY <1>7, <2>1
  <2>2. CASE i # 1
    <3>1. i - 2 \in Nat /\ (i - 2) + 1 = i - 1 /\ (i - 1) + 1 = i /\ i - 1 \in Nat
          /\ i - 1 \in 1..Len(seqs) /\ (i - 1) - 1 = i - 2
      BY <1>1, <2>2
    <3>2. r[i - 1] = g[<<i - 1, r[i - 2]>>] /\ r[i - 2] \in S
      BY <1>7, <3>1
    <3>3. r[i - 1] = r[i - 2] \o seqs[i]
      BY <1>4, <3>1, <3>2, Zenon
    <3>4. f[i] = r[i - 1] /\ f[i - 1] = r[i - 2]
      BY <3>1
    <3> QED
      BY <2>2, <3>3, <3>4, Zenon
  <2> QED
    BY <2>1, <2>2
<1>9. f = [i \in 1..Len(seqs) |-> IF i = 1 THEN seqs[i] ELSE f[i - 1] \o seqs[i]]
  BY <1>8
<1> QED
  BY <1>9, Zenon DEF Flattening

\* What FlattenSeq computes, step by step.
LEMMA FlattenValue ==
    ASSUME NEW M, NEW seqs \in Seq(Seq(M)), seqs # <<>>
    PROVE  \E f : /\ Flattening(f, seqs)
                  /\ FlattenSeq(seqs) = f[Len(seqs)]
<1> DEFINE F == CHOOSE f : Flattening(f, seqs)
<1>1. Flattening(F, seqs)
  BY FlatteningExists
<1>2. Len(seqs) # 0
  BY EmptySeq, LenProperties
<1>3. FlattenSeq(seqs) = F[Len(seqs)]
  BY <1>2, Zenon DEF FlattenSeq, Flattening
<1> QED
  BY <1>1, <1>3, Zenon

\* Nothing is put together to nothing, and each further sequence comes last.
LEMMA FlattenSteps ==
    ASSUME NEW M
    PROVE  /\ FlattenSeq(<<>>) = <<>>
           /\ \A seqs \in Seq(Seq(M)), s \in Seq(M) :
                 /\ FlattenSeq(seqs) \in Seq(M)
                 /\ FlattenSeq(Append(seqs, s)) = FlattenSeq(seqs) \o s
<1>1. FlattenSeq(<<>>) = <<>>
  BY DEF FlattenSeq
<1>2. ASSUME NEW seqs \in Seq(Seq(M)), NEW s \in Seq(M), seqs = <<>>
      PROVE  /\ FlattenSeq(seqs) \in Seq(M)
             /\ FlattenSeq(Append(seqs, s)) = FlattenSeq(seqs) \o s
  <2> DEFINE one == Append(seqs, s)
  <2>1. one \in Seq(Seq(M)) /\ Len(one) = 1 /\ one[1] = s
    BY <1>2, AppendProperties, EmptySeq
  <2> HIDE DEF one
  <2>2. one # <<>>
    <3>1. Len(one) # Len(<<>>)
      BY <2>1
    <3> QED
      BY <3>1, Zenon
  <2>3. PICK f : Flattening(f, one) /\ FlattenSeq(one) = f[Len(one)]
    BY <2>1, <2>2, FlattenValue, Zenon
  <2>4. FlattenSeq(one) = s
    BY <2>1, <2>3 DEF Flattening
  <2>5. <<>> \in Seq(M) /\ <<>> \o s = s
    BY EmptySeq, ConcatEmptySeq
  <2> QED
    BY <1>1, <1>2, <2>4, <2>5, Zenon DEF one
<1>3. ASSUME NEW seqs \in Seq(Seq(M)), NEW s \in Seq(M), seqs # <<>>
      PROVE  /\ FlattenSeq(seqs) \in Seq(M)
             /\ FlattenSeq(Append(seqs, s)) = FlattenSeq(seqs) \o s
  <2> DEFINE S == Seq(M)
             n == Len(seqs)
             more == Append(seqs, s)
  <2>1. n \in Nat \ {0} /\ \A i \in 1..n : seqs[i] \in S
    BY <1>3, EmptySeq, LenProperties, ElementOfSeq
  <2>2. /\ more \in Seq(S) /\ Len(more) = n + 1 /\ more[n + 1] = s
        /\ \A i \in 1..n : more[i] = seqs[i]
    BY AppendProperties
  <2> HIDE DEF more, n
  <2>3. more # <<>>
    <3>1. Len(more) # Len(<<>>)
      BY <2>1, <2>2
    <3> QED
      BY <3>1, Zenon
  <2>4. PICK f : Flattening(f, seqs) /\ FlattenSeq(seqs) = f[Len(seqs)]
    BY <1>3, FlattenValue
  <2>5. PICK h : Flattening(h, more) /\ FlattenSeq(more) = h[Len(more)]
    BY <2>2, <2>3, FlattenValue
  <2>6. \A i \in 1..n : f[i] = IF i = 1 THEN seqs[i] ELSE f[i - 1] \o seqs[i]
    BY <2>4, Zenon DEF Flattening, n
  <2>7. \A i \in 1..(n + 1) : h[i] = IF i = 1 THEN more[i] ELSE h[i - 1] \o more[i]
    BY <2>2, <2>5, Zenon DEF Flattening
  <2> DEFINE T == {k \in Nat : k + 1 <= n => f[k + 1] = h[k + 1] /\ f[k + 1] \in S}
  <2>8. 0 \in T
    BY <2>1, <2>2, <2>6, <2>7
  <2>9. ASSUME NEW k \in Nat, k \in T PROVE k + 1 \in T
    <3> SUFFICES ASSUME (k + 1) + 1 <= n
                 PROVE  f[(k + 1) + 1] = h[(k + 1) + 1] /\ f[(k + 1) + 1] \in S
      OBVIOUS
    <3> DEFINE j == (k + 1) + 1
    <3>1. j \in 1..n /\ j \in 1..(n + 1) /\ j # 1 /\ j - 1 = k + 1
      BY <2>1
    <3>2. f[k + 1] = h[k + 1] /\ f[k + 1] \in S
      BY <2>1, <2>9
    <3> HIDE DEF j
    <3>3. f[j] = f[k + 1] \o seqs[j] /\ h[j] = h[k + 1] \o more[j] /\ more[j] = seqs[j]
      BY <2>2, <2>6, <2>7, <3>1, Zenon
    <3>4. f[k + 1] \o seqs[j] \in S
      BY <2>1, <3>1, <3>2, ConcatProperties
    <3> QED
      BY <3>2, <3>3, <3>4 DEF j
  <2> HIDE DEF T
  <2>10. Nat \subseteq T
    BY <2>8, <2>9, NatSetInduction
  <2>11. n - 1 \in Nat /\ (n - 1) + 1 = n /\ n + 1 \in 1..(n + 1) /\ n + 1 # 1
         /\ (n + 1) - 1 = n
    BY <2>1
  <2>12. f[n] = h[n] /\ f[n] \in S
    BY <2>10, <2>11 DEF T
  <2>13. h[n + 1] = h[n] \o s
    BY <2>2, <2>7, <2>11, Zenon
  <2> QED
    BY <2>2, <2>4, <2>5, <2>12, <2>13 DEF n, more
<1> QED
  BY <1>1, <1>2, <1>3

-----------------------------------------------------------------------------
(* Control *)

Queries == UNION {Range(table) : table \in QueryTables}

\* What the server may answer any of the queries with.
AllResults == UNION {ResultSets(query) : query \in Queries}

\* The rows of these answers.
AllRows == UNION {Range(rows) : rows \in AllResults}

\* Where Collect is: at one of its queries, with rows for each query before it and
\* rows to read, and past the last query only when it has returned.
ControlInv ==
    /\ queries \in QueryTables
    /\ pc \in {"idle", "ping", "query", "rows"}
    /\ q \in 1..(Len(queries) + 1)
    /\ outcome \in {"none", "ok", "error"}
    /\ ctxDone \in BOOLEAN /\ closed \in BOOLEAN
    /\ truncated \in {"no", "deadline", "connection"}
    /\ served \in Seq(Seq(AllRows)) /\ pending \in Seq(AllRows)
    /\ pc # "idle" => q <= Len(queries) /\ outcome = "none"
    /\ pc = "ping" => q = 1
    /\ pc \in {"ping", "query"} => Len(served) = q - 1
    /\ pc = "rows" => Len(served) = q
    /\ outcome = "ok" => q = Len(queries) + 1 /\ Len(served) = Len(queries)

\* The tables.
LEMMA TableProperties ==
    ASSUME NEW table \in QueryTables
    PROVE  /\ Len(table) \in Nat \ {0} /\ DOMAIN table = 1..Len(table)
           /\ \A i \in 1..Len(table) :
                 /\ table[i] \in Queries
                 /\ table[i].kind \in {"column", "row"}
                 /\ table[i].Metrics \in Seq(STRING)
                 /\ \A rows \in ResultSets(table[i]) :
                       rows \in AllResults /\ rows \in Seq(Range(rows))
<1>1. table # <<>> /\ table \in Seq(Range(table))
  BY TablesAssumption
<1>2. Len(table) \in Nat \ {0} /\ DOMAIN table = 1..Len(table)
  BY <1>1, EmptySeq, LenProperties
<1>3. \A i \in 1..Len(table) : table[i] \in Range(table)
  BY <1>2 DEF Range
<1>4. \A i \in 1..Len(table) : table[i] \in Queries
  BY <1>3 DEF Queries
<1> QED
  BY <1>2, <1>3, <1>4, TablesAssumption DEF AllResults

\* A result set is a list of rows.
LEMMA ResultType == \A rows \in AllResults : rows \in Seq(AllRows)
<1> SUFFICES ASSUME NEW rows \in AllResults PROVE rows \in Seq(AllRows)
  OBVIOUS
<1>1. PICK query \in Queries : rows \in ResultSets(query)
  BY DEF AllResults
<1>2. PICK table \in QueryTables : query \in Range(table)
  BY DEF Queries
<1>3. rows \in Seq(Range(rows))
  BY <1>1, <1>2, TablesAssumption
<1>4. Range(rows) \subseteq AllRows
  BY DEF AllRows
<1> QED
  BY <1>3, <1>4, SeqMonotonic

\* A step that ends the collection with an error leaves it where it was.
LEMMA FailKeepsControl ==
    ASSUME ControlInv, Fail, UNCHANGED queries
    PROVE  ControlInv'
<1>1. <<>> \in Seq(AllRows)
  BY EmptySeq
<1> QED
  BY <1>1 DEF ControlInv, Fail

\* A query that ends well leads to the one after it, or to the return of Collect.
LEMMA NextQueryKeepsControl ==
    ASSUME ControlInv, pc = "rows", NEW new, NextQuery(new), UNCHANGED queries
    PROVE  ControlInv'
<1>1. Len(queries) \in Nat \ {0}
  BY TableProperties DEF ControlInv
<1>2. /\ q \in 1..Len(queries) /\ Len(served) = q /\ outcome = "none"
  BY <1>1 DEF ControlInv
<1>3. /\ q' = q + 1 /\ UNCHANGED <<pending, ctxDone, closed, served, truncated>>
      /\ \/ q < Len(queries) /\ pc' = "query" /\ outcome' = outcome
         \/ q = Len(queries) /\ pc' = "idle" /\ outcome' = "ok"
  BY DEF NextQuery
<1>4. q' \in 1..(Len(queries) + 1) /\ q = q' - 1
  BY <1>1, <1>2, <1>3
<1>5. CASE q < Len(queries) /\ pc' = "query" /\ outcome' = outcome
  <2>1. q' <= Len(queries) /\ Len(served') = q' - 1
    BY <1>1, <1>2, <1>3, <1>4, <1>5
  <2> QED
    BY <1>2, <1>3, <1>4, <1>5, <2>1 DEF ControlInv
<1>6. CASE q = Len(queries) /\ pc' = "idle" /\ outcome' = "ok"
  <2>1. q' = Len(queries) + 1 /\ Len(served') = Len(queries)
    BY <1>2, <1>3, <1>6
  <2> QED
    BY <1>3, <1>4, <1>6, <2>1 DEF ControlInv
<1> QED
  BY <1>3, <1>5, <1>6

\* The answer to a query is one that the server may give.
LEMMA QueryReturnsKeepsControl ==
    ASSUME ControlInv, QueryReturns, UNCHANGED queries
    PROVE  ControlInv'
<1>1. PICK rows \in ResultSets(queries[q]) : pending' = rows /\ served' = Append(served, rows)
  BY DEF QueryReturns
<1>2. Len(queries) \in Nat \ {0} /\ q \in 1..Len(queries)
  BY TableProperties DEF ControlInv, QueryReturns
<1>3. rows \in Seq(AllRows)
  BY <1>2, TableProperties, ResultType DEF ControlInv
<1>4. served' \in Seq(Seq(AllRows)) /\ Len(served') = Len(served) + 1
  BY <1>1, <1>3, AppendProperties DEF ControlInv
<1>5. Len(served') = q
  BY <1>2, <1>4 DEF ControlInv, QueryReturns
<1>6. /\ pc = "query" /\ pc' = "rows"
      /\ UNCHANGED <<q, outcome, ctxDone, closed, truncated>>
  BY DEF QueryReturns
<1> QED
  BY <1>1, <1>2, <1>3, <1>4, <1>5, <1>6 DEF ControlInv

\* The current query, and a row of its answer.
LEMMA CurrentQuery ==
    ASSUME ControlInv, pc \in {"query", "rows"}
    PROVE  /\ q \in 1..Len(queries) /\ Len(queries) \in Nat /\ queries[q] \in Queries
           /\ queries[q].kind \in {"column", "row"} /\ queries[q].Metrics \in Seq(STRING)
<1>1. Len(queries) \in Nat \ {0} /\ q \in 1..Len(queries)
  BY TableProperties DEF ControlInv
<1> QED
  BY <1>1, TableProperties DEF ControlInv

\* A break takes from the answer of the current query the rows not read yet.
LEMMA BreakCutsAnswer ==
    ASSUME ControlInv, RowsBreak
    PROVE  LET k == Len(served[q]) - Len(pending)
           IN  /\ served' \in Seq(Seq(AllRows)) /\ Len(served') = Len(served)
               /\ served'[q] = SubSeq(served[q], 1, k)
               /\ \A i \in 1..(q - 1) : served'[i] = served[i]
<1> DEFINE k == Len(served[q]) - Len(pending)
           S == Seq(AllRows)
           cut == SubSeq(served[q], 1, k)
<1>1. q \in 1..Len(served) /\ Len(served) = q /\ q \in Nat
  BY CurrentQuery DEF ControlInv, RowsBreak
<1>2. served[q] \in S
  BY <1>1, ElementOfSeq DEF ControlInv
<1>3. k \in Int /\ k <= Len(served[q]) /\ Len(served[q]) \in Nat
  BY <1>2, LenProperties DEF ControlInv
<1>4. \A i \in 1..k : served[q][i] \in AllRows
  BY <1>2, <1>3, ElementOfSeq
<1> HIDE DEF k
<1>5. cut \in S
  BY <1>2, <1>3, <1>4, SubSeqProperties
<1>6. served' = [served EXCEPT ![q] = cut]
  BY DEF RowsBreak, k
<1> HIDE DEF cut, S
<1>7. served \in Seq(S) /\ DOMAIN served = 1..Len(served)
  BY LenProperties DEF ControlInv, S
<1>8. served' \in Seq(S) /\ Len(served') = Len(served) /\ served'[q] = cut
      /\ \A i \in 1..Len(served) : i # q => served'[i] = served[i]
  BY <1>1, <1>5, <1>6, <1>7, ExceptSeq
<1>9. \A i \in 1..(q - 1) : i \in 1..Len(served) /\ i # q
  BY <1>1
<1> QED
  BY <1>8, <1>9 DEF cut, S, k

\* ControlInv holds from the start and every step keeps it.
LEMMA ControlInvariance == (Init => ControlInv) /\ (ControlInv /\ [Next]_vars => ControlInv')
<1>1. Init => ControlInv
  <2> SUFFICES ASSUME Init PROVE ControlInv
    OBVIOUS
  <2>1. Len(queries) \in Nat \ {0}
    BY TableProperties DEF Init
  <2>2. <<>> \in Seq(Seq(AllRows)) /\ <<>> \in Seq(AllRows)
    BY EmptySeq
  <2>3. /\ pending = <<>> /\ queries \in QueryTables /\ pc = "idle" /\ q = 1 /\ outcome = "none"
        /\ ctxDone = FALSE /\ closed = FALSE /\ served = <<>> /\ truncated = "no"
    BY DEF Init
  <2>4. q \in 1..(Len(queries) + 1)
    BY <2>1, <2>3
  <2> QED
    BY <2>2, <2>3, <2>4, Zenon DEF ControlInv
<1>2. ControlInv /\ [Next]_vars => ControlInv'
  <2> SUFFICES ASSUME ControlInv, [Next]_vars PROVE ControlInv'
    OBVIOUS
  <2>1. Len(queries) \in Nat \ {0}
    BY TableProperties DEF ControlInv
  <2>2. CASE UNCHANGED vars
    BY <2>2 DEF vars, collectVars, ControlInv
  <2> SUFFICES ASSUME Next PROVE ControlInv'
    BY <2>2
  <2>3. UNCHANGED queries
    BY DEF Next
  <2>4. CASE CollectStarts
    <3>1. <<>> \in Seq(Seq(AllRows)) /\ <<>> \in Seq(AllRows) /\ Len(<<>>) = 0
      BY EmptySeq
    <3>2. /\ pc' = "ping" /\ q' = 1 /\ outcome' = "none" /\ ctxDone' = FALSE
          /\ served' = <<>> /\ truncated' = "no" /\ closed' = closed /\ pending' = <<>>
      BY <2>4 DEF CollectStarts
    <3>3. q' \in 1..(Len(queries) + 1) /\ q' <= Len(queries) /\ Len(served') = q' - 1
      BY <2>1, <3>1, <3>2
    <3> QED
      BY <2>3, <3>1, <3>2, <3>3, Zenon DEF ControlInv
  <2>5. CASE PingReturns
    BY <2>3, <2>5 DEF PingReturns, ControlInv
  <2>6. CASE PingFails \/ QueryFails \/ ScanFails
    BY <2>3, <2>6, FailKeepsControl DEF PingFails, QueryFails, ScanFails
  <2>7. CASE QueryReturns
    BY <2>3, <2>7, QueryReturnsKeepsControl
  <2>8. CASE RowsBreak
    <3>1. served' \in Seq(Seq(AllRows)) /\ Len(served') = Len(served)
      BY <2>8, BreakCutsAnswer
    <3>2. /\ pc = "rows" /\ pending' = <<>> /\ truncated' \in {"deadline", "connection"}
          /\ UNCHANGED <<pc, q, outcome, ctxDone, closed>>
      BY <2>8 DEF RowsBreak
    <3>3. <<>> \in Seq(AllRows)
      BY EmptySeq
    <3> QED
      BY <2>3, <3>1, <3>2, <3>3 DEF ControlInv
  <2>9. ASSUME UNCHANGED <<pc, q, outcome, ctxDone, closed, served, truncated>>,
               pending # <<>>, pending' = Tail(pending)
        PROVE  ControlInv'
    <3>1. pending' \in Seq(AllRows)
      BY <2>9, HeadTailProperties DEF ControlInv
    <3> QED
      BY <2>3, <2>9, <3>1 DEF ControlInv
  <2>10. CASE ColumnRow \/ RowRow
    BY <2>3, <2>9, <2>10, FailKeepsControl DEF ColumnRow, RowRow
  <2>11. CASE ColumnRowsEnd \/ RowRowsEnd
    BY <2>3, <2>11, NextQueryKeepsControl, FailKeepsControl DEF ColumnRowsEnd, RowRowsEnd
  <2>12. CASE CtxExpires \/ Close
    BY <2>3, <2>12, Zenon DEF CtxExpires, Close, ControlInv
  <2> QED
    BY <2>4, <2>5, <2>6, <2>7, <2>8, <2>10, <2>11, <2>12 DEF Next
<1> QED
  BY <1>1, <1>2

\* The types hold: Collect is always at one of its queries, and has an answer
\* for exactly the queries that it has asked.
THEOREM CollectTypes == Spec => []TypeOK
<1>1. ControlInv => TypeOK
  BY DEF ControlInv, TypeOK
<1> QED
  BY <1>1, ControlInvariance, PTL DEF Spec

-----------------------------------------------------------------------------
(* Data *)

\* What the queries make of them.
ColumnMetric(query) == UNION {Range(ColumnRowMetrics(query, row)) : row \in AllRows}
ColumnMetrics == UNION {ColumnMetric(query) : query \in Queries}
RowMetrics == {RowRowEntry(row) : row \in AllRows}
Metric == ColumnMetrics \cup RowMetrics

\* What was made of the rows are metrics.
DataInv == acum \in Seq(Metric) /\ metrics \in Seq(Metric)

\* The entry of a key is the last one that has the key.
LEMMA LastEntryProperties ==
    ASSUME NEW entries \in Seq(Metric), NEW key \in KeysOf(entries)
    PROVE  \E i \in 1..Len(entries) :
              /\ LastEntry(entries, key) = entries[i] /\ entries[i].Key = key
              /\ \A j \in 1..Len(entries) : entries[j].Key = key => j <= i
<1> DEFINE S == {i \in DOMAIN entries : entries[i].Key = key}
<1>1. Len(entries) \in Nat /\ DOMAIN entries = 1..Len(entries)
  BY LenProperties
<1>2. S \subseteq 0..Len(entries) /\ S # {}
  BY <1>1 DEF KeysOf
<1>3. \E x \in S : \A y \in S : x >= y
  BY <1>1, <1>2, GreatestNatural, Zenon
<1>4. Max(S) \in S /\ \A y \in S : Max(S) >= y
  BY <1>3 DEF Max
<1>5. LastEntry(entries, key) = entries[Max(S)]
  BY DEF LastEntry
<1>6. Max(S) \in 1..Len(entries) /\ entries[Max(S)].Key = key
  BY <1>1, <1>4
<1>7. \A j \in 1..Len(entries) : entries[j].Key = key => j <= Max(S)
  BY <1>1, <1>4, <1>6
<1> QED
  BY <1>5, <1>6, <1>7, Zenon

\* The keys of what was put together.
LEMMA ConcatKeys ==
    ASSUME NEW s \in Seq(Metric), NEW t \in Seq(Metric)
    PROVE  KeysOf(s) \subseteq KeysOf(s \o t) /\ KeysOf(t) \subseteq KeysOf(s \o t)
<1>1. /\ Len(s) \in Nat /\ Len(t) \in Nat
      /\ DOMAIN s = 1..Len(s) /\ DOMAIN t = 1..Len(t)
      /\ DOMAIN (s \o t) = 1..(Len(s) + Len(t))
      /\ \A i \in 1..(Len(s) + Len(t)) :
            (s \o t)[i] = IF i <= Len(s) THEN s[i] ELSE t[i - Len(s)]
  BY LenProperties, ConcatProperties
<1>2. ASSUME NEW i \in DOMAIN s PROVE i \in DOMAIN (s \o t) /\ (s \o t)[i] = s[i]
  BY <1>1
<1>3. ASSUME NEW i \in DOMAIN t
      PROVE  Len(s) + i \in DOMAIN (s \o t) /\ (s \o t)[Len(s) + i] = t[i]
  <2>1. Len(s) + i \in 1..(Len(s) + Len(t)) /\ ~(Len(s) + i <= Len(s))
        /\ (Len(s) + i) - Len(s) = i
    BY <1>1
  <2> QED
    BY <1>1, <2>1
<1> QED
  BY <1>2, <1>3, Zenon DEF KeysOf

\* The keys of metrics, in their order.
KeyList(entries) == [i \in DOMAIN entries |-> entries[i].Key]

\* The metrics of a query that found its keys are metrics with those keys.
LEMMA RowQueryMetricsProperties ==
    ASSUME NEW query, query.Metrics \in Seq(STRING), NEW entries \in Seq(Metric),
           Range(query.Metrics) \subseteq KeysOf(entries)
    PROVE  /\ RowQueryMetrics(query, entries) \in Seq(Metric)
           /\ Range(query.Metrics) \subseteq KeysOf(RowQueryMetrics(query, entries))
           /\ KeyList(RowQueryMetrics(query, entries)) = query.Metrics
<1> DEFINE n == Len(query.Metrics)
           new == RowQueryMetrics(query, entries)
<1>1. n \in Nat /\ DOMAIN query.Metrics = 1..n
  BY LenProperties
<1>2. ASSUME NEW i \in 1..n
      PROVE  /\ LastEntry(entries, query.Metrics[i]) \in Metric
             /\ LastEntry(entries, query.Metrics[i]).Key = query.Metrics[i]
  <2>1. query.Metrics[i] \in KeysOf(entries)
    BY <1>1 DEF Range
  <2>2. PICK k \in 1..Len(entries) :
           /\ LastEntry(entries, query.Metrics[i]) = entries[k]
           /\ entries[k].Key = query.Metrics[i]
    BY <2>1, LastEntryProperties
  <2> QED
    BY <2>2, ElementOfSeq
<1>3. new = [i \in 1..n |-> LastEntry(entries, query.Metrics[i])]
  BY <1>1 DEF RowQueryMetrics
<1> HIDE DEF n, new
<1>4. new \in [1..n -> Metric] /\ DOMAIN new = 1..n
  BY <1>2, <1>3
<1>5. new \in Seq(Metric)
  BY <1>1, <1>4, SeqDef
<1>6. \A i \in 1..n : new[i].Key = query.Metrics[i]
  BY <1>2, <1>3
<1>7. Range(query.Metrics) \subseteq KeysOf(new)
  BY <1>1, <1>4, <1>6 DEF Range, KeysOf
<1>8. KeyList(new) = query.Metrics
  <2>1. query.Metrics = [i \in 1..n |-> query.Metrics[i]]
    BY <1>1
  <2> QED
    BY <1>4, <1>6, <2>1 DEF KeyList
<1> QED
  BY <1>5, <1>7, <1>8 DEF new

\* What a column query makes of a row are metrics.
LEMMA ColumnRowMetricsType ==
    ASSUME NEW query \in Queries, query.Metrics \in Seq(STRING), NEW row \in AllRows
    PROVE  ColumnRowMetrics(query, row) \in Seq(Metric)
<1> DEFINE n == Len(query.Metrics)
           new == ColumnRowMetrics(query, row)
<1>1. n \in Nat
  BY LenProperties
<1>2. DOMAIN new = 1..n /\ new = [i \in 1..n |-> new[i]]
  BY DEF ColumnRowMetrics
<1> HIDE DEF n
<1>3. \A i \in 1..n : new[i] \in Metric
  <2>1. \A i \in 1..n : new[i] \in Range(new)
    BY <1>2 DEF Range
  <2>2. Range(ColumnRowMetrics(query, row)) \subseteq Metric
    <3>1. Range(ColumnRowMetrics(query, row)) \subseteq ColumnMetric(query)
      BY Zenon DEF ColumnMetric
    <3>2. ColumnMetric(query) \subseteq ColumnMetrics
      BY Zenon DEF ColumnMetrics
    <3> QED
      BY <3>1, <3>2 DEF Metric
  <2> QED
    BY <2>1, <2>2
<1> HIDE DEF new
<1>4. new \in [1..n -> Metric]
  BY <1>2, <1>3
<1> QED
  BY <1>1, <1>4, SeqDef DEF new

\* A step reads rows and makes metrics of them.
LEMMA StepKeepsData == ControlInv /\ DataInv /\ [Next]_vars => DataInv'
<1> SUFFICES ASSUME ControlInv, DataInv, [Next]_vars PROVE DataInv'
  OBVIOUS
<1>1. <<>> \in Seq(Metric)
  BY EmptySeq
<1>2. ASSUME Fail PROVE DataInv'
  BY <1>1, <1>2 DEF Fail, DataInv
<1>3. ASSUME UNCHANGED <<acum, metrics>> PROVE DataInv'
  BY <1>3 DEF DataInv
<1>4. ASSUME NEW new \in Seq(Metric), NextQuery(new) PROVE DataInv'
  <2>1. metrics \o new \in Seq(Metric)
    BY ConcatProperties DEF DataInv
  <2> QED
    BY <1>1, <1>4, <2>1 DEF NextQuery, DataInv
<1>5. CASE CollectStarts
  BY <1>1, <1>5 DEF CollectStarts, DataInv
<1>6. CASE PingReturns \/ CtxExpires \/ Close \/ UNCHANGED vars
  BY <1>3, <1>6 DEF PingReturns, CtxExpires, Close, vars, collectVars
<1>7. CASE PingFails \/ QueryFails \/ ScanFails
  BY <1>2, <1>7 DEF PingFails, QueryFails, ScanFails
<1>8. CASE QueryReturns
  BY <1>8 DEF QueryReturns, DataInv
<1>9. CASE RowsBreak
  BY <1>1, <1>9 DEF RowsBreak, DataInv
<1>10. ASSUME pending # <<>> PROVE Head(pending) \in AllRows
  BY <1>10, HeadTailProperties DEF ControlInv
<1>11. CASE ColumnRow
  <2>1. CASE Fail
    BY <1>2, <2>1
  <2>2. CASE /\ acum' = acum \o ColumnRowMetrics(queries[q], Head(pending))
             /\ UNCHANGED metrics
    <3>1. pending # <<>> /\ pc = "rows"
      BY <1>11 DEF ColumnRow
    <3>2. ColumnRowMetrics(queries[q], Head(pending)) \in Seq(Metric)
      BY <1>10, <3>1, CurrentQuery, ColumnRowMetricsType
    <3>3. acum' \in Seq(Metric)
      BY <2>2, <3>2, ConcatProperties DEF DataInv
    <3> QED
      BY <2>2, <3>3 DEF DataInv
  <2> QED
    BY <1>11, <2>1, <2>2 DEF ColumnRow
<1>12. CASE RowRow
  <2>1. CASE Fail
    BY <1>2, <2>1
  <2>2. CASE /\ acum' = Append(acum, RowRowEntry(Head(pending)))
             /\ UNCHANGED metrics
    <3>1. pending # <<>>
      BY <1>12 DEF RowRow
    <3>2. RowRowEntry(Head(pending)) \in Metric
      <4>1. \A row \in AllRows : RowRowEntry(row) \in RowMetrics
        BY DEF RowMetrics
      <4>2. RowMetrics \subseteq Metric
        BY DEF Metric
      <4> QED
        BY <1>10, <3>1, <4>1, <4>2
    <3>3. acum' \in Seq(Metric)
      BY <2>2, <3>2, AppendProperties DEF DataInv
    <3> QED
      BY <2>2, <3>3 DEF DataInv
  <2> QED
    BY <1>12, <2>1, <2>2 DEF RowRow
<1>13. CASE ColumnRowsEnd
  BY <1>4, <1>13 DEF ColumnRowsEnd, DataInv
<1>14. CASE RowRowsEnd
  <2>1. CASE Fail
    BY <1>2, <2>1
  <2>2. CASE /\ Range(queries[q].Metrics) \subseteq KeysOf(acum)
             /\ NextQuery(RowQueryMetrics(queries[q], acum))
    <3>1. pc = "rows"
      BY <1>14 DEF RowRowsEnd
    <3>2. RowQueryMetrics(queries[q], acum) \in Seq(Metric)
      BY <2>2, <3>1, CurrentQuery, RowQueryMetricsProperties DEF DataInv
    <3> QED
      BY <1>4, <2>2, <3>2
  <2> QED
    BY <1>14, <2>1, <2>2 DEF RowRowsEnd
<1> QED
  BY <1>5, <1>6, <1>7, <1>8, <1>9, <1>11, <1>12, <1>13, <1>14 DEF Next

-----------------------------------------------------------------------------
(* The keys of row queries *)

\* While Collect goes on, and when it has succeeded, the keys of the row queries
\* behind it are among its metrics.
KeysInv ==
    pc # "idle" \/ outcome = "ok" =>
        \A i \in 1..(q - 1) :
            queries[i].kind = "row" => Range(queries[i].Metrics) \subseteq KeysOf(metrics)

\* A query that ends well adds its keys, and loses none.
LEMMA NextQueryKeepsKeys ==
    ASSUME ControlInv, DataInv, KeysInv, pc = "rows", UNCHANGED queries,
           NEW new \in Seq(Metric), NextQuery(new),
           queries[q].kind = "row" => Range(queries[q].Metrics) \subseteq KeysOf(new)
    PROVE  KeysInv'
<1>1. metrics' = metrics \o new /\ q' = q + 1
  BY DEF NextQuery
<1>2. KeysOf(metrics) \subseteq KeysOf(metrics') /\ KeysOf(new) \subseteq KeysOf(metrics')
  BY <1>1, ConcatKeys DEF DataInv
<1>3. q \in Nat /\ \A i \in 1..(q' - 1) : i \in 1..(q - 1) \/ i = q
  BY <1>1, CurrentQuery
<1> QED
  BY <1>2, <1>3 DEF KeysInv

\* No step of a Collect that goes on loses a key.
LEMMA StepKeepsKeys == ControlInv /\ DataInv /\ KeysInv /\ [Next]_vars => KeysInv'
<1> SUFFICES ASSUME ControlInv, DataInv, KeysInv, [Next]_vars PROVE KeysInv'
  OBVIOUS
<1>1. ASSUME Fail PROVE KeysInv'
  BY <1>1 DEF Fail, KeysInv
<1>2. ASSUME UNCHANGED <<queries, q, metrics, outcome>>, pc = "idle" <=> pc' = "idle"
      PROVE  KeysInv'
  BY <1>2 DEF KeysInv
<1>3. CASE CollectStarts
  <2>1. q' = 1
    BY <1>3 DEF CollectStarts
  <2>2. \A i \in 1..(q' - 1) : FALSE
    BY <2>1
  <2> QED
    BY <2>2 DEF KeysInv
<1>4. CASE UNCHANGED vars
  BY <1>2, <1>4 DEF vars, collectVars
<1> SUFFICES ASSUME Next PROVE KeysInv'
  BY <1>4
<1>5. UNCHANGED queries
  BY DEF Next
<1>6. CASE PingReturns \/ CtxExpires \/ Close \/ QueryReturns \/ RowsBreak
  BY <1>2, <1>5, <1>6 DEF PingReturns, CtxExpires, Close, QueryReturns, RowsBreak
<1>7. CASE PingFails \/ QueryFails \/ ScanFails
  BY <1>1, <1>7 DEF PingFails, QueryFails, ScanFails
<1>8. CASE ColumnRow \/ RowRow
  BY <1>1, <1>2, <1>5, <1>8 DEF ColumnRow, RowRow
<1>9. CASE ColumnRowsEnd
  BY <1>5, <1>9, NextQueryKeepsKeys DEF ColumnRowsEnd, DataInv
<1>10. CASE RowRowsEnd
  <2>1. CASE Fail
    BY <1>1, <2>1
  <2>2. CASE /\ Range(queries[q].Metrics) \subseteq KeysOf(acum)
             /\ NextQuery(RowQueryMetrics(queries[q], acum))
    <3>1. pc = "rows"
      BY <1>10 DEF RowRowsEnd
    <3>2. /\ RowQueryMetrics(queries[q], acum) \in Seq(Metric)
          /\ Range(queries[q].Metrics) \subseteq KeysOf(RowQueryMetrics(queries[q], acum))
      BY <2>2, <3>1, CurrentQuery, RowQueryMetricsProperties, Zenon DEF DataInv
    <3> QED
      BY <1>5, <2>2, <3>1, <3>2, NextQueryKeepsKeys
  <2> QED
    BY <1>10, <2>1, <2>2 DEF RowRowsEnd
<1> QED
  BY <1>3, <1>6, <1>7, <1>8, <1>9, <1>10 DEF Next

\* A Collect that succeeds has every key of every row query, for every table
\* and every answer, broken result sets included.
THEOREM RowKeysNeverMissingHolds == Spec => []RowKeysNeverMissing
<1>1. Init => DataInv /\ KeysInv
  BY EmptySeq DEF Init, DataInv, KeysInv
<1>2. ControlInv /\ KeysInv => RowKeysNeverMissing
  <2> SUFFICES ASSUME ControlInv, KeysInv, outcome = "ok"
               PROVE  \A i \in DOMAIN queries : queries[i].kind = "row" =>
                          Range(queries[i].Metrics) \subseteq KeysOf(metrics)
    BY DEF RowKeysNeverMissing
  <2>1. /\ DOMAIN queries = 1..Len(queries) /\ q = Len(queries) + 1
        /\ Len(queries) \in Nat
    BY TableProperties DEF ControlInv
  <2>2. \A i \in DOMAIN queries : i \in 1..(q - 1)
    BY <2>1
  <2> QED
    BY <2>2 DEF KeysInv
<1> QED
  BY <1>1, <1>2, ControlInvariance, StepKeepsData, StepKeepsKeys, PTL DEF Spec

-----------------------------------------------------------------------------
(* Metrics and rows *)

\* What the first n queries report for the answers they had.
ReferenceUpTo(n) == [i \in 1..n |-> QueryReference(queries[i], served[i])]

\* What a query has after k rows of an answer.
ReadUpTo(query, rows, k) ==
    IF query.kind = "column"
    THEN FlattenSeq([i \in 1..k |-> ColumnRowMetrics(query, rows[i])])
    ELSE [i \in 1..k |-> RowRowEntry(rows[i])]

\* What a query reports are metrics, with its keys when it is a row query.
GoodReference(query, rows) ==
    /\ QueryReference(query, rows) \in Seq(Metric)
    /\ query.kind = "row" => KeyList(QueryReference(query, rows)) = query.Metrics

\* The metrics are those of the queries behind, and what the current query has is
\* made of the rows it has read.
MatchInv ==
    /\ pc \in {"ping", "query"} => acum = <<>>
    /\ pc # "idle" \/ outcome = "ok" =>
          /\ \A i \in 1..(q - 1) : GoodReference(queries[i], served[i])
          /\ metrics = FlattenSeq(ReferenceUpTo(q - 1))
    /\ pc = "rows" =>
          \E k \in 0..Len(served[q]) :
             /\ pending = SubSeq(served[q], k + 1, Len(served[q]))
             /\ acum = ReadUpTo(queries[q], served[q], k)

\* A list of k + 1 elements is one of k elements with an element appended.
LEMMA LastAppended ==
    ASSUME NEW S, NEW k \in Nat, NEW f \in [1..(k + 1) -> S], NEW g \in [1..k -> S],
           \A i \in 1..k : g[i] = f[i]
    PROVE  g \in Seq(S) /\ f = Append(g, f[k + 1])
<1>1. k + 1 \in Nat /\ f[k + 1] \in S
  OBVIOUS
<1>2. g \in Seq(S) /\ Len(g) = k
  OBVIOUS
<1>3. f \in Seq(S) /\ Len(f) = k + 1
  BY <1>1
<1> DEFINE h == Append(g, f[k + 1])
<1>4. /\ h \in Seq(S) /\ Len(h) = k + 1 /\ h[k + 1] = f[k + 1]
      /\ \A i \in 1..k : h[i] = g[i]
  BY <1>1, <1>2, AppendProperties
<1> HIDE DEF h
<1>5. ASSUME NEW i \in 1..(k + 1) PROVE f[i] = h[i]
  <2>1. CASE i = k + 1
    BY <1>4, <2>1
  <2>2. CASE i # k + 1
    <3>1. i \in 1..k
      BY <2>2
    <3> QED
      BY <1>4, <3>1
  <2> QED
    BY <2>1, <2>2
<1>6. f = h
  BY <1>3, <1>4, <1>5, SeqEqual
<1> QED
  BY <1>2, <1>6 DEF h

\* A row of the answer adds what is made of it.
LEMMA OneRowMore ==
    ASSUME NEW query \in Queries, query.Metrics \in Seq(STRING),
           NEW rows \in Seq(AllRows), NEW k \in Nat, k + 1 <= Len(rows)
    PROVE  ReadUpTo(query, rows, k + 1) =
              IF query.kind = "column"
              THEN ReadUpTo(query, rows, k) \o ColumnRowMetrics(query, rows[k + 1])
              ELSE Append(ReadUpTo(query, rows, k), RowRowEntry(rows[k + 1]))
<1>1. Len(rows) \in Nat /\ \A i \in 1..(k + 1) : rows[i] \in AllRows
  <2>1. Len(rows) \in Nat /\ \A i \in 1..Len(rows) : rows[i] \in AllRows
    BY LenProperties, ElementOfSeq
  <2> QED
    BY <2>1
<1>2. CASE query.kind = "column"
  <2> DEFINE f == [i \in 1..(k + 1) |-> ColumnRowMetrics(query, rows[i])]
             g == [i \in 1..k |-> ColumnRowMetrics(query, rows[i])]
             S == Seq(Metric)
  <2>1. \A i \in 1..(k + 1) : ColumnRowMetrics(query, rows[i]) \in S
    BY <1>1, ColumnRowMetricsType
  <2>2. /\ f \in [1..(k + 1) -> S] /\ g \in [1..k -> S] /\ \A i \in 1..k : g[i] = f[i]
        /\ f[k + 1] = ColumnRowMetrics(query, rows[k + 1])
    BY <2>1
  <2>3. ReadUpTo(query, rows, k + 1) = FlattenSeq(f) /\ ReadUpTo(query, rows, k) = FlattenSeq(g)
    BY <1>2 DEF ReadUpTo
  <2>4. f[k + 1] \in S
    BY <2>2
  <2> HIDE DEF f, g, S
  <2>5. g \in Seq(S) /\ f = Append(g, f[k + 1])
    BY <2>2, LastAppended
  <2>6. FlattenSeq(f) = FlattenSeq(g) \o f[k + 1]
    BY <2>4, <2>5, FlattenSteps, Zenon DEF S
  <2> QED
    BY <1>2, <2>2, <2>3, <2>6
<1>3. CASE query.kind # "column"
  <2> DEFINE f == [i \in 1..(k + 1) |-> RowRowEntry(rows[i])]
             g == [i \in 1..k |-> RowRowEntry(rows[i])]
  <2>1. \A i \in 1..(k + 1) : RowRowEntry(rows[i]) \in RowMetrics
    BY <1>1 DEF RowMetrics
  <2>2. /\ f \in [1..(k + 1) -> RowMetrics] /\ g \in [1..k -> RowMetrics]
        /\ \A i \in 1..k : g[i] = f[i]
        /\ f[k + 1] = RowRowEntry(rows[k + 1])
    BY <2>1
  <2>3. ReadUpTo(query, rows, k + 1) = f /\ ReadUpTo(query, rows, k) = g
    BY <1>3 DEF ReadUpTo
  <2> HIDE DEF f, g
  <2>4. f = Append(g, f[k + 1])
    BY <2>2, LastAppended
  <2> QED
    BY <1>3, <2>2, <2>3, <2>4
<1> QED
  BY <1>2, <1>3

\* The entry of a key that a row query reports is made of the last row that has
\* the key.
LEMMA LastRowReported ==
    ASSUME NEW rows \in Seq(AllRows), NEW entries \in Seq(Metric),
           entries = [i \in 1..Len(rows) |-> RowRowEntry(rows[i])],
           NEW key \in KeysOf(entries)
    PROVE  LastEntry(entries, key) =
              LET i == CHOOSE i \in DOMAIN rows :
                          /\ Lower(rows[i].vals[1]) = key
                          /\ \A j \in (i + 1)..Len(rows) : Lower(rows[j].vals[1]) # key
              IN  RowRowEntry(rows[i])
<1> DEFINE P(i) == /\ Lower(rows[i].vals[1]) = key
                   /\ \A j \in (i + 1)..Len(rows) : Lower(rows[j].vals[1]) # key
           c == CHOOSE i \in DOMAIN rows : P(i)
<1>1. /\ Len(rows) \in Nat /\ DOMAIN rows = 1..Len(rows) /\ Len(entries) = Len(rows)
      /\ \A i \in 1..Len(rows) : entries[i] = RowRowEntry(rows[i])
  BY LenProperties
<1>2. \A i \in 1..Len(rows) : entries[i].Key = Lower(rows[i].vals[1])
  <2>1. \A row : RowRowEntry(row).Key = Lower(row.vals[1])
    BY DEF RowRowEntry
  <2> QED
    BY <1>1, <2>1
<1>3. PICK x \in 1..Len(rows) :
         /\ LastEntry(entries, key) = entries[x] /\ entries[x].Key = key
         /\ \A j \in 1..Len(rows) : entries[j].Key = key => j <= x
  <2>1. \E x \in 1..Len(entries) :
           /\ LastEntry(entries, key) = entries[x] /\ entries[x].Key = key
           /\ \A j \in 1..Len(entries) : entries[j].Key = key => j <= x
    BY LastEntryProperties, Zenon
  <2>2. Len(entries) = Len(rows)
    BY <1>1
  <2> QED
    BY <2>1, <2>2, Zenon
<1>4. P(x)
  <2>1. ASSUME NEW j \in (x + 1)..Len(rows) PROVE Lower(rows[j].vals[1]) # key
    <3>1. j \in 1..Len(rows) /\ ~(j <= x)
      BY <1>1
    <3> QED
      BY <1>2, <1>3, <3>1
  <2> QED
    BY <1>2, <1>3, <2>1
<1>5. ASSUME NEW i \in DOMAIN rows, P(i) PROVE i = x
  <2>1. i <= x
    BY <1>1, <1>2, <1>3, <1>5
  <2>2. ~(x \in (i + 1)..Len(rows))
    BY <1>4, <1>5
  <2> QED
    BY <1>1, <2>1, <2>2
<1> HIDE DEF P
<1>6. c = x
  BY <1>1, <1>4, <1>5
<1>7. LastEntry(entries, key) = RowRowEntry(rows[c])
  BY <1>1, <1>3, <1>6, Zenon
<1> QED
  BY <1>7, Zenon DEF P

\* A query that has read all rows has what it reports for them.
LEMMA ColumnReference ==
    ASSUME NEW query, query.kind = "column", NEW rows \in Seq(AllRows)
    PROVE  ReadUpTo(query, rows, Len(rows)) = QueryReference(query, rows)
<1>1. DOMAIN rows = 1..Len(rows)
  BY LenProperties
<1> QED
  BY <1>1 DEF ReadUpTo, QueryReference

\* The same for a row query, which reports its keys.
LEMMA RowReference ==
    ASSUME NEW query, query.kind = "row", query.Metrics \in Seq(STRING),
           NEW rows \in Seq(AllRows), NEW entries \in Seq(Metric),
           entries = ReadUpTo(query, rows, Len(rows)),
           Range(query.Metrics) \subseteq KeysOf(entries)
    PROVE  RowQueryMetrics(query, entries) = QueryReference(query, rows)
<1> DEFINE R(k) == LET i == CHOOSE i \in DOMAIN rows :
                               /\ Lower(rows[i].vals[1]) = query.Metrics[k]
                               /\ \A j \in (i + 1)..Len(rows) :
                                     Lower(rows[j].vals[1]) # query.Metrics[k]
                   IN  RowRowEntry(rows[i])
<1>1. entries = [i \in 1..Len(rows) |-> RowRowEntry(rows[i])]
  BY DEF ReadUpTo
<1>2. ASSUME NEW k \in DOMAIN query.Metrics
      PROVE  LastEntry(entries, query.Metrics[k]) = R(k)
  <2>1. query.Metrics[k] \in KeysOf(entries)
    BY DEF Range
  <2> QED
    BY <1>1, <2>1, LastRowReported, Zenon
<1> HIDE DEF R
<1>3. RowQueryMetrics(query, entries) = [k \in DOMAIN query.Metrics |-> R(k)]
  BY <1>2 DEF RowQueryMetrics
<1>4. QueryReference(query, rows) = [k \in DOMAIN query.Metrics |-> R(k)]
  BY DEF QueryReference, R
<1> QED
  BY <1>3, <1>4

\* At the end of the rows, the current query has read all of them.
LEMMA AllRowsRead ==
    ASSUME ControlInv, MatchInv, pc = "rows", pending = <<>>
    PROVE  /\ served[q] \in Seq(AllRows)
           /\ acum = ReadUpTo(queries[q], served[q], Len(served[q]))
<1>1. q \in 1..Len(served)
  BY CurrentQuery DEF ControlInv
<1>3. served[q] \in Seq(AllRows)
  BY <1>1, ElementOfSeq DEF ControlInv
<1> DEFINE n == Len(served[q])
<1>4. n \in Nat /\ \A i \in 1..n : served[q][i] \in AllRows
  BY <1>3, LenProperties, ElementOfSeq
<1>5. PICK k \in 0..n : /\ pending = SubSeq(served[q], k + 1, n)
                        /\ acum = ReadUpTo(queries[q], served[q], k)
  BY DEF MatchInv
<1> HIDE DEF n
<1>6. k = n
  <2>1. SUFFICES ASSUME k + 1 <= n PROVE FALSE
    BY <1>4
  <2>2. \A i \in (k + 1)..n : served[q][i] \in AllRows
    BY <1>4
  <2>3. Len(SubSeq(served[q], k + 1, n)) = n - (k + 1) + 1
    BY <1>4, <2>1, <2>2, SubSeqProperties
  <2>4. Len(pending) = 0
    OBVIOUS
  <2>5. n - (k + 1) + 1 = 0
    BY <1>5, <2>3, <2>4, Zenon
  <2>6. n \in Nat /\ k \in Nat
    BY <1>4
  <2> QED
    BY <2>1, <2>5, <2>6
<1> QED
  BY <1>3, <1>5, <1>6 DEF n

\* A query that ends well adds what it reports to the metrics.
LEMMA NextQueryMatches ==
    ASSUME ControlInv, DataInv, MatchInv, pc = "rows", UNCHANGED queries,
           NEW new, NextQuery(new), GoodReference(queries[q], served[q]),
           new = QueryReference(queries[q], served[q])
    PROVE  MatchInv'
<1>1. /\ metrics' = metrics \o new /\ q' = q + 1 /\ acum' = <<>>
      /\ served' = served /\ pc' \in {"query", "idle"}
  BY DEF NextQuery
<1>2. q \in Nat \ {0} /\ q' - 1 = q
  BY <1>1, CurrentQuery
<1> SUFFICES /\ \A i \in 1..q : GoodReference(queries[i], served[i])
             /\ metrics' = FlattenSeq(ReferenceUpTo(q))
  <2>1. queries' = queries /\ served' = served
    BY <1>1
  <2>2. /\ \A i \in 1..q : queries'[i] = queries[i] /\ served'[i] = served[i]
        /\ [i \in 1..q |-> QueryReference(queries'[i], served'[i])] = ReferenceUpTo(q)
    BY <2>1 DEF ReferenceUpTo
  <2>3. pc' # "rows" /\ acum' = <<>>
    BY <1>1
  <2> QED
    BY <1>1, <1>2, <2>2, <2>3 DEF MatchInv, ReferenceUpTo
<1> DEFINE S == Seq(Metric)
           f == ReferenceUpTo(q)
           g == ReferenceUpTo(q - 1)
<1>3. \A i \in 1..(q - 1) : GoodReference(queries[i], served[i])
  BY DEF MatchInv
<1>4. ASSUME NEW i \in 1..q PROVE GoodReference(queries[i], served[i])
  <2>1. CASE i = q
    BY <2>1
  <2>2. CASE i # q
    <3>1. i \in 1..(q - 1)
      BY <1>2, <2>2
    <3> QED
      BY <1>3, <3>1
  <2> QED
    BY <2>1, <2>2
<1>5. /\ q - 1 \in Nat /\ (q - 1) + 1 = q /\ 1..(q - 1) \subseteq 1..q
  BY <1>2
<1>6. /\ f \in [1..((q - 1) + 1) -> S] /\ g \in [1..(q - 1) -> S]
      /\ \A i \in 1..(q - 1) : g[i] = f[i]
      /\ f[q] = new
  BY <1>2, <1>3, <1>4, <1>5 DEF ReferenceUpTo, GoodReference
<1>7. new \in S
  BY DEF GoodReference
<1> HIDE DEF f, g, S
<1>8. g \in Seq(S) /\ f = Append(g, new)
  <2>1. PICK p \in Nat : p = q - 1
    BY <1>5
  <2>2. /\ f \in [1..(p + 1) -> S] /\ g \in [1..p -> S] /\ \A i \in 1..p : g[i] = f[i]
        /\ f[p + 1] = new
    BY <1>5, <1>6, <2>1
  <2> QED
    BY <2>2, LastAppended
<1>9. FlattenSeq(f) = FlattenSeq(g) \o new
  BY <1>7, <1>8, FlattenSteps, Zenon DEF S
<1>10. metrics = FlattenSeq(g)
  BY DEF MatchInv, g
<1> QED
  BY <1>1, <1>4, <1>9, <1>10 DEF f

\* An answer comes in, of which no row is read yet.
LEMMA QueryReturnsMatches ==
    ASSUME ControlInv, MatchInv, QueryReturns, UNCHANGED queries
    PROVE  MatchInv'
<1>1. PICK rows \in ResultSets(queries[q]) : pending' = rows /\ served' = Append(served, rows)
  BY DEF QueryReturns
<1>2. /\ pc = "query" /\ pc' = "rows" /\ UNCHANGED <<q, acum, metrics, outcome>>
  BY DEF QueryReturns
<1>3. q \in Nat \ {0} /\ q \in 1..Len(queries) /\ Len(served) = q - 1
  BY <1>2, CurrentQuery DEF ControlInv
<1>4. rows \in AllResults /\ rows \in Seq(AllRows)
  BY <1>3, TableProperties, ResultType DEF ControlInv
<1>5. served'[q] = rows /\ \A i \in 1..(q - 1) : served'[i] = served[i]
  BY <1>1, <1>3, <1>4, AppendProperties DEF ControlInv
<1>6. \A i \in 1..(q - 1) : queries'[i] = queries[i] /\ served'[i] = served[i]
  BY <1>5
<1>7. ReferenceUpTo(q - 1)' = ReferenceUpTo(q - 1)
  BY <1>2, <1>6 DEF ReferenceUpTo
<1>8. /\ \A i \in 1..(q' - 1) : GoodReference(queries'[i], served'[i])
      /\ metrics' = FlattenSeq(ReferenceUpTo(q - 1)')
  BY <1>2, <1>6, <1>7 DEF MatchInv
<1>9. /\ 0 \in 0..Len(rows) /\ rows = SubSeq(rows, 0 + 1, Len(rows))
  BY <1>4, LenProperties, SubSeqFull
<1>10. acum' = ReadUpTo(queries[q], rows, 0)
  <2>1. acum' = <<>>
    BY <1>2 DEF MatchInv
  <2>2. [i \in 1..0 |-> ColumnRowMetrics(queries[q], rows[i])] = <<>>
        /\ [i \in 1..0 |-> RowRowEntry(rows[i])] = <<>>
    OBVIOUS
  <2> QED
    BY <2>1, <2>2, FlattenSteps DEF ReadUpTo
<1>11. \E k \in 0..Len(served'[q']) :
          /\ pending' = SubSeq(served'[q'], k + 1, Len(served'[q']))
          /\ acum' = ReadUpTo(queries'[q'], served'[q'], k)
  BY <1>1, <1>2, <1>5, <1>9, <1>10
<1> QED
  BY <1>2, <1>8, <1>11 DEF MatchInv

\* A row is read: what is left begins with the next one.
LEMMA RowMatches ==
    ASSUME ControlInv, MatchInv, pc = "rows", pending # <<>>,
           UNCHANGED <<queries, pc, q, metrics, outcome, served>>,
           pending' = Tail(pending),
           acum' = IF queries[q].kind = "column"
                   THEN acum \o ColumnRowMetrics(queries[q], Head(pending))
                   ELSE Append(acum, RowRowEntry(Head(pending)))
    PROVE  MatchInv'
<1> DEFINE R == served[q]
           n == Len(R)
<1>1. /\ R \in Seq(AllRows) /\ queries[q] \in Queries /\ queries[q].Metrics \in Seq(STRING)
  <2>1. q \in 1..Len(served)
    BY CurrentQuery DEF ControlInv
  <2>2. R \in Seq(AllRows)
    BY <2>1, ElementOfSeq DEF ControlInv
  <2> QED
    BY <2>2, CurrentQuery
<1>2. n \in Nat
  BY <1>1, LenProperties
<1>3. \E k \in 0..n : pending' = SubSeq(R, k + 1, n) /\ acum' = ReadUpTo(queries[q], R, k)
  <2>1. PICK k \in 0..n : pending = SubSeq(R, k + 1, n) /\ acum = ReadUpTo(queries[q], R, k)
    BY DEF MatchInv
  <2> HIDE DEF R, n
  <2>2. k + 1 \in 1..n
    <3> SUFFICES ASSUME n < k + 1 PROVE FALSE
      BY <1>2
    <3>1. SubSeq(R, k + 1, n) = <<>>
      BY <1>2, SubSeqEmpty
    <3> QED
      BY <2>1, <3>1
  <2>3. n \in (k + 1)..n /\ n = Len(R)
    BY <1>2, <2>2 DEF n
  <2>4. Head(pending) = R[k + 1] /\ Tail(pending) = SubSeq(R, (k + 1) + 1, n)
    BY <1>1, <2>1, <2>2, <2>3, HeadTailOfSubSeq
  <2>5. k \in Nat /\ k + 1 <= Len(R)
    BY <1>2, <2>2, <2>3
  <2>6. acum' = ReadUpTo(queries[q], R, k + 1)
    BY <1>1, <2>1, <2>4, <2>5, OneRowMore, Zenon
  <2>7. k + 1 \in 0..n
    BY <2>2
  <2> QED
    BY <2>4, <2>6, <2>7, Zenon
<1>4. ReferenceUpTo(q - 1)' = ReferenceUpTo(q - 1)
  BY DEF ReferenceUpTo
<1>5. /\ \A i \in 1..(q' - 1) : queries'[i] = queries[i] /\ served'[i] = served[i]
      /\ served'[q'] = R /\ queries'[q'] = queries[q]
  OBVIOUS
<1> HIDE DEF R
<1>6. /\ \A i \in 1..(q' - 1) : GoodReference(queries'[i], served'[i])
      /\ metrics' = FlattenSeq(ReferenceUpTo(q - 1)')
  BY <1>4, <1>5 DEF MatchInv
<1>7. \E k \in 0..Len(served'[q']) :
          /\ pending' = SubSeq(served'[q'], k + 1, Len(served'[q']))
          /\ acum' = ReadUpTo(queries'[q'], served'[q'], k)
  BY <1>3, <1>5, Zenon
<1> QED
  BY <1>6, <1>7, Zenon DEF MatchInv

\* A break: what was read are the rows of the answer that is left.
LEMMA RowsBreakMatches ==
    ASSUME ControlInv, MatchInv, RowsBreak, UNCHANGED queries
    PROVE  MatchInv'
<1> DEFINE R == served[q]
           n == Len(R)
           cut == served'[q]
<1>1. /\ pc = "rows" /\ pending # <<>> /\ pending' = <<>>
      /\ UNCHANGED <<pc, q, acum, metrics, outcome>>
  BY DEF RowsBreak
<1>2. R \in Seq(AllRows) /\ n \in Nat /\ \A i \in 1..n : R[i] \in AllRows
  <2>1. q \in 1..Len(served)
    BY <1>1, CurrentQuery DEF ControlInv
  <2>2. R \in Seq(AllRows)
    BY <2>1, ElementOfSeq DEF ControlInv
  <2> QED
    BY <2>2, LenProperties, ElementOfSeq
<1>3. PICK k \in 0..n : pending = SubSeq(R, k + 1, n) /\ acum = ReadUpTo(queries[q], R, k)
  BY <1>1 DEF MatchInv
<1>4. /\ cut = SubSeq(R, 1, n - Len(pending))
      /\ \A i \in 1..(q - 1) : served'[i] = served[i]
  BY BreakCutsAnswer
<1> HIDE DEF R, n, cut
<1>5. k + 1 <= n
  <2> SUFFICES ASSUME n < k + 1 PROVE FALSE
    BY <1>2
  <2> QED
    BY <1>1, <1>2, <1>3, SubSeqEmpty
<1>6. n - Len(pending) = k
  <2>1. \A i \in (k + 1)..n : R[i] \in AllRows
    BY <1>2
  <2>2. Len(SubSeq(R, k + 1, n)) = n - (k + 1) + 1
    BY <1>2, <1>5, <2>1, SubSeqProperties
  <2> QED
    BY <1>2, <1>3, <2>2
<1>7. Len(cut) = k /\ \A i \in 1..k : cut[i] = R[i]
  <2>1. \A i \in 1..k : R[i] \in AllRows
    BY <1>2
  <2>2. cut = SubSeq(R, 1, k)
    BY <1>4, <1>6
  <2>3. k \in Int /\ k - 1 + 1 = k /\ (1 <= k \/ k = 0)
    BY <1>2
  <2>4. /\ Len(SubSeq(R, 1, k)) = IF 1 <= k THEN k - 1 + 1 ELSE 0
        /\ \A i \in 1..(k - 1 + 1) : SubSeq(R, 1, k)[i] = R[1 + i - 1]
    BY <2>1, <2>3, SubSeqProperties
  <2> QED
    BY <2>2, <2>3, <2>4
<1>8. acum' = ReadUpTo(queries[q], cut, k)
  <2>1. [i \in 1..k |-> ColumnRowMetrics(queries[q], cut[i])]
          = [i \in 1..k |-> ColumnRowMetrics(queries[q], R[i])]
    BY <1>7
  <2>2. [i \in 1..k |-> RowRowEntry(cut[i])] = [i \in 1..k |-> RowRowEntry(R[i])]
    BY <1>7
  <2> QED
    BY <1>1, <1>3, <2>1, <2>2, Zenon DEF ReadUpTo
<1>9. pending' = SubSeq(cut, k + 1, k)
  BY <1>1, <1>2, SubSeqEmpty
<1>10. \E j \in 0..Len(served'[q']) :
          /\ pending' = SubSeq(served'[q'], j + 1, Len(served'[q']))
          /\ acum' = ReadUpTo(queries'[q'], served'[q'], j)
  <2>1. served'[q'] = cut /\ queries'[q'] = queries[q]
    BY <1>1 DEF cut
  <2>2. k \in 0..Len(cut)
    BY <1>2, <1>7
  <2> QED
    BY <1>7, <1>8, <1>9, <2>1, <2>2
<1>11. \A i \in 1..(q - 1) : queries'[i] = queries[i] /\ served'[i] = served[i]
  BY <1>4
<1>12. ReferenceUpTo(q - 1)' = ReferenceUpTo(q - 1)
  BY <1>1, <1>11 DEF ReferenceUpTo
<1>13. /\ \A i \in 1..(q' - 1) : GoodReference(queries'[i], served'[i])
       /\ metrics' = FlattenSeq(ReferenceUpTo(q - 1)')
  BY <1>1, <1>11, <1>12 DEF MatchInv
<1> QED
  BY <1>1, <1>10, <1>13 DEF MatchInv

\* Every step keeps MatchInv.
LEMMA StepMatches == ControlInv /\ DataInv /\ MatchInv /\ [Next]_vars => MatchInv'
<1> SUFFICES ASSUME ControlInv, DataInv, MatchInv, [Next]_vars PROVE MatchInv'
  OBVIOUS
<1>1. ASSUME Fail PROVE MatchInv'
  BY <1>1 DEF Fail, MatchInv
<1>2. ASSUME UNCHANGED <<queries, pc, q, pending, acum, metrics, outcome, served>>
      PROVE  MatchInv'
  <2>1. ReferenceUpTo(q - 1)' = ReferenceUpTo(q - 1)
    BY <1>2 DEF ReferenceUpTo
  <2> QED
    BY <1>2, <2>1 DEF MatchInv
<1>3. CASE UNCHANGED vars
  BY <1>2, <1>3 DEF vars, collectVars
<1> SUFFICES ASSUME Next PROVE MatchInv'
  BY <1>3
<1>4. UNCHANGED queries
  BY DEF Next
<1>5. CASE CollectStarts
  <2>1. /\ pc' = "ping" /\ q' = 1 /\ acum' = <<>> /\ metrics' = <<>>
    BY <1>5 DEF CollectStarts
  <2>2. \A i \in 1..(q' - 1) : FALSE
    BY <2>1
  <2>3. ReferenceUpTo(q - 1)' = <<>>
    <3>1. q' - 1 = 0
      BY <2>1
    <3> QED
      BY <3>1 DEF ReferenceUpTo
  <2>4. metrics' = FlattenSeq(ReferenceUpTo(q - 1)')
    BY <2>1, <2>3, FlattenSteps
  <2> QED
    BY <2>1, <2>2, <2>4 DEF MatchInv
<1>6. CASE PingReturns
  <2>1. /\ UNCHANGED <<q, acum, metrics, served>> /\ pc = "ping" /\ pc' = "query"
    BY <1>6 DEF PingReturns
  <2>2. ReferenceUpTo(q - 1)' = ReferenceUpTo(q - 1)
    BY <1>4, <2>1 DEF ReferenceUpTo
  <2> QED
    BY <1>4, <2>1, <2>2 DEF MatchInv
<1>7. CASE CtxExpires \/ Close
  BY <1>2, <1>4, <1>7 DEF CtxExpires, Close
<1>8. CASE PingFails \/ QueryFails \/ ScanFails
  BY <1>1, <1>8 DEF PingFails, QueryFails, ScanFails
<1>9. CASE QueryReturns
  BY <1>4, <1>9, QueryReturnsMatches
<1>10. CASE RowsBreak
  BY <1>4, <1>10, RowsBreakMatches
<1>11. CASE ColumnRow
  <2>1. CASE Fail
    BY <1>1, <2>1
  <2>2. CASE /\ acum' = acum \o ColumnRowMetrics(queries[q], Head(pending))
             /\ pending' = Tail(pending)
             /\ UNCHANGED <<pc, q, metrics, outcome, ctxDone, closed, served, truncated>>
    BY <1>4, <1>11, <2>2, RowMatches DEF ColumnRow
  <2> QED
    BY <1>11, <2>1, <2>2 DEF ColumnRow
<1>12. CASE RowRow
  <2>1. CASE Fail
    BY <1>1, <2>1
  <2>2. CASE /\ acum' = Append(acum, RowRowEntry(Head(pending)))
             /\ pending' = Tail(pending)
             /\ UNCHANGED <<pc, q, metrics, outcome, ctxDone, closed, served, truncated>>
    BY <1>4, <1>12, <2>2, RowMatches DEF RowRow
  <2> QED
    BY <1>12, <2>1, <2>2 DEF RowRow
<1>13. CASE ColumnRowsEnd
  <2>1. pc = "rows" /\ queries[q].kind = "column" /\ pending = <<>> /\ NextQuery(acum)
    BY <1>13 DEF ColumnRowsEnd
  <2>2. acum = QueryReference(queries[q], served[q])
    BY <2>1, AllRowsRead, ColumnReference
  <2>3. GoodReference(queries[q], served[q])
    BY <2>1, <2>2 DEF DataInv, GoodReference
  <2> QED
    BY <1>4, <2>1, <2>2, <2>3, NextQueryMatches
<1>14. CASE RowRowsEnd
  <2>1. CASE Fail
    BY <1>1, <2>1
  <2>2. CASE /\ Range(queries[q].Metrics) \subseteq KeysOf(acum)
             /\ NextQuery(RowQueryMetrics(queries[q], acum))
    <3>1. pc = "rows" /\ queries[q].kind = "row" /\ pending = <<>>
      BY <1>14 DEF RowRowsEnd
    <3>2. queries[q].Metrics \in Seq(STRING) /\ acum \in Seq(Metric)
      BY <3>1, CurrentQuery DEF DataInv
    <3>3. /\ RowQueryMetrics(queries[q], acum) \in Seq(Metric)
          /\ KeyList(RowQueryMetrics(queries[q], acum)) = queries[q].Metrics
      BY <2>2, <3>2, RowQueryMetricsProperties
    <3>4. RowQueryMetrics(queries[q], acum) = QueryReference(queries[q], served[q])
      BY <2>2, <3>1, <3>2, AllRowsRead, RowReference
    <3>5. GoodReference(queries[q], served[q])
      BY <3>3, <3>4, Zenon DEF GoodReference
    <3> QED
      BY <1>4, <2>2, <3>1, <3>4, <3>5, NextQueryMatches
  <2> QED
    BY <1>14, <2>1, <2>2 DEF RowRowsEnd
<1> QED
  BY <1>5, <1>6, <1>7, <1>8, <1>9, <1>10, <1>11, <1>12, <1>13, <1>14 DEF Next

\* MatchInv and what it rests on hold in every state.
LEMMA MatchInvariance == Spec => [](ControlInv /\ DataInv /\ MatchInv)
<1>1. Init => DataInv /\ MatchInv
  BY EmptySeq DEF Init, DataInv, MatchInv
<1> QED
  BY <1>1, ControlInvariance, StepKeepsData, StepMatches, PTL DEF Spec

\* A Collect that succeeds returns what the rows of the server say, and after a
\* break what the rows before it say: for every table of queries and every answer.
THEOREM SuccessMatchesRowsHolds == Spec => []SuccessMatchesRows
<1>1. ControlInv /\ MatchInv => SuccessMatchesRows
  <2> SUFFICES ASSUME ControlInv, MatchInv, outcome = "ok"
               PROVE  metrics = FlattenSeq([i \in DOMAIN queries |->
                                             QueryReference(queries[i], served[i])])
    BY DEF SuccessMatchesRows
  <2>1. DOMAIN queries = 1..Len(queries) /\ Len(queries) \in Nat /\ q = Len(queries) + 1
    BY TableProperties DEF ControlInv
  <2>2. q - 1 = Len(queries)
    BY <2>1
  <2>3. metrics = FlattenSeq(ReferenceUpTo(q - 1))
    BY DEF MatchInv
  <2> QED
    BY <2>1, <2>2, <2>3 DEF ReferenceUpTo
<1> QED
  BY <1>1, MatchInvariance, PTL
=============================================================================
