-------------------------- MODULE SqlDriversProofs --------------------------
(***************************************************************************)
(* Proofs about the collections of SqlDrivers. They fail for a reason:     *)
(* with tables whose queries select the keys that are looked for, as the   *)
(* tables of MySQL and PostgreSQL do, a complete answer is never an error. *)
(* And they report what they should: with one row for each column query,   *)
(* the keys of the table in order, which are the ones the README lists.    *)
(***************************************************************************)
EXTENDS SqlDrivers, SqlCollectorProofs, FiniteSetTheorems

\* The text of a query asks for the keys that are then looked for: a column
\* query in its first columns, a row query in its rows.
SelectsKeys(query) ==
    /\ query.Selects \in Seq(Range(query.Selects))
    /\ IF query.kind = "column"
       THEN /\ Len(query.Metrics) <= Len(query.Selects)
            /\ Range(query.Metrics)
                  \subseteq {query.Selects[i] : i \in 1..Len(query.Metrics)}
       ELSE Range(query.Metrics) \subseteq Range(query.Selects)

\* A row of a complete answer to a column query can be read.
LEMMA CompleteColumnRow ==
    ASSUME NEW query, query.kind = "column", query.Metrics \in Seq(STRING),
           SelectsKeys(query), NEW row \in ToSet(CompleteAnswer(query))
    PROVE  ColumnRowGood(query, row)
<1>1. row.names = query.Selects /\ row.scans = TRUE
  <2> DEFINE full == [names |-> query.Selects, vals |-> [i \in DOMAIN query.Selects |-> i],
                      scans |-> TRUE]
  <2>1. CompleteAnswer(query) = <<full>>
    BY DEF CompleteAnswer
  <2>2. full.names = query.Selects /\ full.scans = TRUE
    OBVIOUS
  <2> HIDE DEF full
  <2>3. ToSet(<<full>>) = {full}
    BY DEF ToSet
  <2>4. row = full
    BY <2>1, <2>3
  <2> QED
    BY <2>2, <2>4
<1>2. DOMAIN ValuesMap(row, Len(query.Metrics))
         = {query.Selects[i] : i \in 1..Len(query.Metrics)}
  BY <1>1 DEF ValuesMap
<1> QED
  BY <1>1, <1>2, LenProperties DEF ColumnRowGood, SelectsKeys

\* A row of a complete answer to a row query can be read, and has a key that
\* the query selects.
LEMMA CompleteRowRow ==
    ASSUME NEW query, query.kind = "row", SelectsKeys(query)
    PROVE  /\ \A row \in ToSet(CompleteAnswer(query)) : RowRowGood(row)
           /\ \A key \in Range(query.Selects) :
                 \E row \in ToSet(CompleteAnswer(query)) : Lower(row.vals[1]) = key
<1> DEFINE R(i) == [names |-> <<"VARIABLE_NAME", "VARIABLE_VALUE">>,
                    vals |-> <<Capital(query.Selects[i]), i>>, scans |-> TRUE]
<1>1. CompleteAnswer(query) = [i \in DOMAIN query.Selects |-> R(i)]
  BY DEF CompleteAnswer
<1>2. ASSUME NEW i PROVE Lower(R(i).vals[1]) = query.Selects[i] /\ RowRowGood(R(i))
  <2>1. R(i).vals[1] = Capital(query.Selects[i])
    OBVIOUS
  <2>2. Lower(R(i).vals[1]) = query.Selects[i]
    BY <2>1 DEF Lower, Capital
  <2>3. Len(R(i).names) = 2 /\ R(i).scans = TRUE
    OBVIOUS
  <2> QED
    BY <2>2, <2>3 DEF RowRowGood
<1> HIDE DEF R
<1>3. ToSet(CompleteAnswer(query)) = {R(i) : i \in DOMAIN query.Selects}
  BY <1>1 DEF ToSet
<1> QED
  BY <1>2, <1>3 DEF Range

\* The next row to be read is one of the answer.
LEMMA HeadIsServed ==
    ASSUME ControlInv, MatchInv, pc = "rows", pending # <<>>
    PROVE  Head(pending) \in ToSet(served[q])
<1> DEFINE R == served[q]
           n == Len(R)
<1>1. R \in Seq(AllRows)
  <2>1. q \in 1..Len(served)
    BY CurrentQuery DEF ControlInv
  <2> QED
    BY <2>1, ElementOfSeq DEF ControlInv
<1>2. n \in Nat /\ DOMAIN R = 1..n
  BY <1>1, LenProperties
<1>3. PICK k \in 0..n : pending = SubSeq(R, k + 1, n)
  BY DEF MatchInv
<1> HIDE DEF R, n
<1>4. k + 1 \in 1..n
  <2> SUFFICES ASSUME n < k + 1 PROVE FALSE
    BY <1>2
  <2>1. SubSeq(R, k + 1, n) = <<>>
    BY <1>2, SubSeqEmpty
  <2> QED
    BY <1>3, <2>1
<1>5. n \in (k + 1)..n /\ n = Len(R)
  BY <1>2, <1>4 DEF n
<1>6. Head(pending) = R[k + 1]
  BY <1>1, <1>3, <1>4, <1>5, HeadTailOfSubSeq
<1>7. R[k + 1] \in ToSet(R)
  BY <1>2, <1>4 DEF ToSet
<1> QED
  BY <1>6, <1>7 DEF R

\* A row query that has read a complete answer has the keys that it selects.
LEMMA CompleteKeysFound ==
    ASSUME ControlInv, MatchInv, pc = "rows", pending = <<>>,
           queries[q].kind = "row", SelectsKeys(queries[q]),
           IsComplete(queries[q], served[q])
    PROVE  Range(queries[q].Metrics) \subseteq KeysOf(acum)
<1> DEFINE R == served[q]
<1>1. R \in Seq(AllRows) /\ acum = ReadUpTo(queries[q], R, Len(R))
  BY AllRowsRead
<1>2. DOMAIN R = 1..Len(R)
  BY <1>1, LenProperties
<1>3. acum = [i \in 1..Len(R) |-> RowRowEntry(R[i])]
  BY <1>1 DEF ReadUpTo
<1>4. \A i \in 1..Len(R) : acum[i].Key = Lower(R[i].vals[1])
  BY <1>3 DEF RowRowEntry
<1>5. \A row \in ToSet(R) : Lower(row.vals[1]) \in KeysOf(acum)
  BY <1>2, <1>3, <1>4, Zenon DEF ToSet, KeysOf
<1>6. \A key \in Range(queries[q].Selects) : \E row \in ToSet(R) : Lower(row.vals[1]) = key
  BY CompleteRowRow DEF IsComplete
<1>7. Range(queries[q].Selects) \subseteq KeysOf(acum)
  BY <1>5, <1>6
<1> QED
  BY <1>7 DEF SelectsKeys

\* Reading a complete answer with time left is never an error.
LEMMA CompleteAnswerRead ==
    ASSUME ControlInv, MatchInv, Next, pc = "rows", SelectsKeys(queries[q]),
           ~ctxDone, IsComplete(queries[q], served[q])
    PROVE  outcome' # "error"
<1>1. outcome = "none" /\ queries[q].Metrics \in Seq(STRING)
  BY CurrentQuery DEF ControlInv
<1>2. CASE UNCHANGED outcome
  BY <1>1, <1>2
<1>3. CASE ColumnRow
  <2>1. ColumnRowGood(queries[q], Head(pending))
    BY <1>1, <1>3, HeadIsServed, CompleteColumnRow DEF ColumnRow, IsComplete
  <2> QED
    BY <1>2, <1>3, <2>1 DEF ColumnRow
<1>4. CASE RowRow
  <2>1. RowRowGood(Head(pending))
    BY <1>4, HeadIsServed, CompleteRowRow DEF RowRow, IsComplete
  <2> QED
    BY <1>2, <1>4, <2>1 DEF RowRow
<1>5. ASSUME NEW new, NextQuery(new) PROVE outcome' # "error"
  BY <1>1, <1>5 DEF NextQuery
<1>6. CASE ColumnRowsEnd
  BY <1>5, <1>6 DEF ColumnRowsEnd
<1>7. CASE RowRowsEnd
  <2>1. Range(queries[q].Metrics) \subseteq KeysOf(acum)
    BY <1>7, CompleteKeysFound DEF RowRowsEnd
  <2> QED
    BY <1>5, <1>7, <2>1 DEF RowRowsEnd
<1>8. UNCHANGED outcome \/ ColumnRow \/ RowRow \/ ColumnRowsEnd \/ RowRowsEnd
  BY DEF Next, CollectStarts, PingFails, PingReturns, QueryFails, QueryReturns, RowsBreak,
         ScanFails, CtxExpires, Close
<1> QED
  BY <1>2, <1>3, <1>4, <1>6, <1>7, <1>8

\* All tables have queries that select their keys.
TablesSelectKeys == \A table \in QueryTables : \A query \in Range(table) : SelectsKeys(query)

\* A collection fails while it reads rows only for a reason, for every table
\* whose queries select their keys and every answer of the server.
THEOREM OnlyIncompleteAnswersFailHolds ==
    ASSUME TablesSelectKeys
    PROVE  Spec => OnlyIncompleteAnswersFail
<1>1. ControlInv /\ DataInv /\ MatchInv /\ [Next]_vars =>
        [pc = "rows" /\ outcome' = "error" =>
            ctxDone \/ ~IsComplete(queries[q], served[q])]_vars
  <2> SUFFICES ASSUME ControlInv, MatchInv, Next, pc = "rows", outcome' = "error",
                      ~ctxDone, IsComplete(queries[q], served[q])
               PROVE  FALSE
    OBVIOUS
  <2>1. queries \in QueryTables /\ q \in DOMAIN queries
    BY CurrentQuery, TableProperties DEF ControlInv
  <2>2. SelectsKeys(queries[q])
    BY <2>1 DEF TablesSelectKeys, Range
  <2> QED
    BY <2>2, CompleteAnswerRead
<1> QED
  BY <1>1, MatchInvariance, PTL DEF Spec, OnlyIncompleteAnswersFail

-----------------------------------------------------------------------------
(* The tables of mysql_collector.go and postgres_collector.go *)

\* A sequence is one of its own elements.
LEMMA OwnElements ==
    ASSUME NEW S, NEW keys \in Seq(S)
    PROVE  keys \in Seq(Range(keys))
<1>1. Len(keys) \in Nat /\ DOMAIN keys = 1..Len(keys) /\ keys = [i \in 1..Len(keys) |-> keys[i]]
  BY LenProperties
<1>2. \A i \in 1..Len(keys) : keys[i] \in Range(keys)
  BY <1>1 DEF Range
<1>3. keys \in [1..Len(keys) -> Range(keys)]
  BY <1>1, <1>2
<1> QED
  BY <1>1, <1>3, SeqDef

\* A query that selects exactly its keys selects its keys.
LEMMA SameKeysSelected ==
    ASSUME NEW S, NEW keys \in Seq(S)
    PROVE  SelectsKeys(ColumnQuery(keys, keys)) /\ SelectsKeys(RowQuery(keys, keys))
<1>1. DOMAIN keys = 1..Len(keys) /\ Len(keys) \in Nat
  BY LenProperties
<1>2. Range(keys) = {keys[i] : i \in 1..Len(keys)}
  BY <1>1 DEF Range
<1>3. keys \in Seq(Range(keys))
  BY OwnElements
<1> QED
  BY <1>1, <1>2, <1>3 DEF SelectsKeys, ColumnQuery, RowQuery

\* A column query may select one more column, the tag, after its keys.
LEMMA TagAfterKeys ==
    ASSUME NEW S, NEW keys \in Seq(S), NEW tag \in S
    PROVE  SelectsKeys(ColumnQuery(Append(keys, tag), keys))
<1> DEFINE all == Append(keys, tag)
<1>1. DOMAIN keys = 1..Len(keys) /\ Len(keys) \in Nat
  BY LenProperties
<1>2. all \in Seq(S) /\ Len(all) = Len(keys) + 1 /\ \A i \in 1..Len(keys) : all[i] = keys[i]
  BY <1>1, AppendProperties
<1> HIDE DEF all
<1>3. Range(keys) \subseteq {all[i] : i \in 1..Len(keys)}
  BY <1>1, <1>2 DEF Range
<1>4. Len(keys) <= Len(all) /\ all \in Seq(Range(all))
  BY <1>1, <1>2, OwnElements
<1>5. SelectsKeys(ColumnQuery(all, keys))
  BY <1>3, <1>4 DEF SelectsKeys, ColumnQuery
<1> QED
  BY <1>5 DEF all

\* A query for one column selects its key.
LEMMA OneColumn ==
    ASSUME NEW a
    PROVE  SelectsKeys(ColumnQuery(<<a>>, <<a>>))
<1>1. <<a>> \in Seq({a})
  OBVIOUS
<1> QED
  BY <1>1, SameKeysSelected, Zenon

\* So do the queries for one, two and eight columns and a tag, as
\* postgres_collector.go has them.
LEMMA ColumnsAndTag ==
    ASSUME NEW a, NEW b, NEW c, NEW d, NEW e, NEW f, NEW g, NEW h, NEW tag
    PROVE  /\ SelectsKeys(ColumnQuery(<<a, tag>>, <<a>>))
           /\ SelectsKeys(ColumnQuery(<<a, b, tag>>, <<a, b>>))
           /\ SelectsKeys(ColumnQuery(<<a, b, c, d, e, f, g, h, tag>>,
                                      <<a, b, c, d, e, f, g, h>>))
<1> DEFINE S == {a, b, c, d, e, f, g, h, tag}
           eight == <<a, b, c, d, e, f, g, h>>
<1>1. tag \in S /\ <<a>> \in Seq(S) /\ <<a, b>> \in Seq(S)
  OBVIOUS
<1>2. eight \in Seq(S)
  OBVIOUS
<1>3. <<a, tag>> = Append(<<a>>, tag) /\ <<a, b, tag>> = Append(<<a, b>>, tag)
  OBVIOUS
<1>4. <<a, b, c, d, e, f, g, h, tag>> = Append(eight, tag)
  OBVIOUS
<1> HIDE DEF S, eight
<1>5. SelectsKeys(ColumnQuery(Append(<<a>>, tag), <<a>>))
  BY <1>1, TagAfterKeys, Zenon
<1>6. SelectsKeys(ColumnQuery(Append(<<a, b>>, tag), <<a, b>>))
  BY <1>1, TagAfterKeys, Zenon
<1>7. SelectsKeys(ColumnQuery(Append(eight, tag), eight))
  BY <1>1, <1>2, TagAfterKeys
<1> QED
  BY <1>3, <1>4, <1>5, <1>6, <1>7, Zenon DEF eight

\* The queries of postgres_collector.go select their keys.
LEMMA PostgresSelectsKeys ==
    \A query \in Range(postgresMetricQueries) : SelectsKeys(query)
<1>1. SelectsKeys(postgresConnections) /\ SelectsKeys(postgresMaxConnections)
  BY OneColumn, Zenon DEF postgresConnections, postgresMaxConnections
<1>2. SelectsKeys(postgresBlocked) /\ SelectsKeys(postgresTxAge)
         /\ SelectsKeys(postgresSystemTxAge)
  BY OneColumn, Zenon DEF postgresBlocked, postgresTxAge, postgresSystemTxAge
<1>3. SelectsKeys(postgresDbsize)
  BY ColumnsAndTag, Zenon DEF postgresDbsize
<1>4. SelectsKeys(postgresDatabase)
  BY ColumnsAndTag, Zenon DEF postgresDatabase
<1>5. SelectsKeys(postgresScans)
  BY ColumnsAndTag, Zenon DEF postgresScans
<1> QED
  BY <1>1, <1>2, <1>3, <1>4, <1>5 DEF postgresMetricQueries, Range

\* A query for nineteen status variables selects its keys, as the InnoDB query
\* of mysql_collector.go is one.
LEMMA NineteenVariables ==
    ASSUME NEW k1, NEW k2, NEW k3, NEW k4, NEW k5, NEW k6, NEW k7,
           NEW k8, NEW k9, NEW k10, NEW k11, NEW k12, NEW k13, NEW k14,
           NEW k15, NEW k16, NEW k17, NEW k18, NEW k19
    PROVE  LET keys == <<k1, k2, k3, k4, k5, k6, k7, k8, k9, k10,
             k11, k12, k13, k14, k15, k16, k17, k18, k19>>
           IN  SelectsKeys(RowQuery(keys, keys))
<1> DEFINE keys == <<k1, k2, k3, k4, k5, k6, k7, k8, k9, k10,
             k11, k12, k13, k14, k15, k16, k17, k18, k19>>
           S == {k1, k2, k3, k4, k5, k6, k7, k8, k9, k10,
              k11, k12, k13, k14, k15, k16, k17, k18, k19}
<1>1. keys \in Seq(S)
  OBVIOUS
<1> HIDE DEF keys, S
<1>2. SelectsKeys(RowQuery(keys, keys))
  BY <1>1, SameKeysSelected
<1> QED
  BY <1>2, Zenon DEF keys

\* So does one for eight of which seven are reported: mysql_collector.go asks
\* for "connections" with the threads and does not report it.
LEMMA SevenOfEightVariables ==
    ASSUME NEW a, NEW b, NEW c, NEW d, NEW e, NEW f, NEW g, NEW h
    PROVE  SelectsKeys(RowQuery(<<a, b, c, d, e, f, g, h>>, <<a, b, c, e, f, g, h>>))
<1> DEFINE all == <<a, b, c, d, e, f, g, h>>
           keys == <<a, b, c, e, f, g, h>>
<1>1. Range(all) = {a, b, c, d, e, f, g, h}
  BY DEF Range
<1>2. Range(keys) = {a, b, c, e, f, g, h}
  BY DEF Range
<1>3. all \in Seq({a, b, c, d, e, f, g, h})
  OBVIOUS
<1> HIDE DEF all, keys
<1>4. all \in Seq(Range(all))
  BY <1>1, <1>3
<1>5. Range(keys) \subseteq Range(all)
  BY <1>1, <1>2
<1>6. SelectsKeys(RowQuery(all, keys))
  BY <1>4, <1>5 DEF SelectsKeys, RowQuery
<1> QED
  BY <1>6, Zenon DEF all, keys

\* The queries of mysql_collector.go select their keys.
LEMMA MysqlSelectsKeys ==
    \A query \in Range(mysqlMetricQueries) : SelectsKeys(query)
<1>1. SelectsKeys(mysqlThreads)
  BY SevenOfEightVariables, Zenon DEF mysqlThreads
<1>2. SelectsKeys(mysqlInnodb)
  BY NineteenVariables, Zenon DEF mysqlInnodb
<1>3. SelectsKeys(mysqlMaxConnections) /\ SelectsKeys(mysqlConnectionErrors)
  BY OneColumn, Zenon DEF mysqlMaxConnections, mysqlConnectionErrors
<1> QED
  BY <1>1, <1>2, <1>3 DEF mysqlMetricQueries, Range

\* The collectors of the two engines fail while they read rows only when the
\* deadline passed or the rows that came lack something: no hypothesis is left
\* but which tables are collected.
THEOREM DriversFailForAReason ==
    ASSUME QueryTables \subseteq {mysqlMetricQueries, postgresMetricQueries}
    PROVE  Spec => OnlyIncompleteAnswersFail
<1>1. TablesSelectKeys
  BY MysqlSelectsKeys, PostgresSelectsKeys DEF TablesSelectKeys
<1> QED
  BY <1>1, OnlyIncompleteAnswersFailHolds

-----------------------------------------------------------------------------
(* The metrics that the tables report *)

\* The keys of two lists of metrics, one after the other.
LEMMA KeyListOfConcat ==
    ASSUME NEW S, NEW s \in Seq(S), NEW t \in Seq(S)
    PROVE  LET K == {m.Key : m \in S}
           IN  /\ KeyList(s) \in Seq(K) /\ KeyList(t) \in Seq(K)
               /\ KeyList(s \o t) = KeyList(s) \o KeyList(t)
<1> DEFINE K == {m.Key : m \in S}
<1>1. ASSUME NEW u \in Seq(S)
      PROVE  /\ KeyList(u) \in Seq(K) /\ Len(KeyList(u)) = Len(u)
             /\ DOMAIN u = 1..Len(u) /\ Len(u) \in Nat
             /\ \A i \in 1..Len(u) : KeyList(u)[i] = u[i].Key
  <2>1. DOMAIN u = 1..Len(u) /\ Len(u) \in Nat
    BY LenProperties
  <2>2. \A i \in 1..Len(u) : u[i] \in S
    BY ElementOfSeq
  <2>3. \A i \in 1..Len(u) : u[i].Key \in K
    BY <2>2
  <2> HIDE DEF K
  <2>4. KeyList(u) \in [1..Len(u) -> K]
    BY <2>1, <2>3 DEF KeyList
  <2>5. KeyList(u) \in Seq(K)
    BY <2>1, <2>4, SeqDef
  <2>6. DOMAIN KeyList(u) = 1..Len(u) /\ DOMAIN KeyList(u) = 1..Len(KeyList(u))
        /\ Len(KeyList(u)) \in Nat
    BY <2>4, <2>5, LenProperties
  <2>7. Len(KeyList(u)) = Len(u)
    BY <2>1, <2>6
  <2> QED
    BY <2>1, <2>5, <2>7 DEF KeyList
<1> HIDE DEF K
<1>2. s \o t \in Seq(S) /\ Len(s \o t) = Len(s) + Len(t)
  BY ConcatProperties
<1>3. \A i \in 1..(Len(s) + Len(t)) :
          (s \o t)[i] = IF i <= Len(s) THEN s[i] ELSE t[i - Len(s)]
  BY ConcatProperties
<1>4. /\ KeyList(s) \o KeyList(t) \in Seq(K)
      /\ Len(KeyList(s) \o KeyList(t)) = Len(s) + Len(t)
      /\ \A i \in 1..(Len(s) + Len(t)) : (KeyList(s) \o KeyList(t))[i]
            = IF i <= Len(s) THEN KeyList(s)[i] ELSE KeyList(t)[i - Len(s)]
  <2>1. PICK ks \in Seq(K) : ks = KeyList(s) /\ Len(ks) = Len(s)
    BY <1>1
  <2>2. PICK kt \in Seq(K) : kt = KeyList(t) /\ Len(kt) = Len(t)
    BY <1>1
  <2>3. /\ ks \o kt \in Seq(K) /\ Len(ks \o kt) = Len(ks) + Len(kt)
        /\ \A i \in 1..(Len(ks) + Len(kt)) :
              (ks \o kt)[i] = IF i <= Len(ks) THEN ks[i] ELSE kt[i - Len(ks)]
    BY ConcatProperties
  <2> QED
    BY <2>1, <2>2, <2>3, Zenon
<1>5. ASSUME NEW i \in 1..(Len(s) + Len(t))
      PROVE  KeyList(s \o t)[i] = (KeyList(s) \o KeyList(t))[i]
  <2>1. KeyList(s \o t)[i] = (s \o t)[i].Key
    BY <1>1, <1>2, Zenon
  <2>2. CASE i <= Len(s)
    <3>1. i \in 1..Len(s)
      BY <1>1, <2>2
    <3> QED
      BY <1>1, <1>3, <1>4, <2>1, <2>2, <3>1
  <2>3. CASE ~(i <= Len(s))
    <3>1. i - Len(s) \in 1..Len(t)
      BY <1>1, <2>3
    <3> QED
      BY <1>1, <1>3, <1>4, <2>1, <2>3, <3>1
  <2> QED
    BY <2>2, <2>3, Zenon
<1>6. KeyList(s \o t) \in Seq(K) /\ Len(KeyList(s \o t)) = Len(s) + Len(t)
  BY <1>1, <1>2, Zenon
<1>7. KeyList(s \o t) = KeyList(s) \o KeyList(t)
  BY <1>4, <1>5, <1>6, SeqEqual
<1> QED
  BY <1>1, <1>7 DEF K

\* The keys of lists of metrics put together are those of the lists.
LEMMA KeyListOfFlatten ==
    ASSUME NEW S
    PROVE  \A n \in Nat : \A f \in [1..n -> Seq(S)] :
              KeyList(FlattenSeq(f)) = FlattenSeq([i \in 1..n |-> KeyList(f[i])])
<1> DEFINE K == {m.Key : m \in S}
           Keys(n, f) == [i \in 1..n |-> KeyList(f[i])]
           T == {n \in Nat : \A f \in [1..n -> Seq(S)] :
                                 KeyList(FlattenSeq(f)) = FlattenSeq(Keys(n, f))}
<1>1. 0 \in T
  <2> SUFFICES ASSUME NEW f \in [1..0 -> Seq(S)]
               PROVE  KeyList(FlattenSeq(f)) = FlattenSeq(Keys(0, f))
    OBVIOUS
  <2>1. f = <<>> /\ Keys(0, f) = <<>>
    OBVIOUS
  <2>2. KeyList(<<>>) = <<>>
    BY DEF KeyList
  <2> QED
    BY <2>1, <2>2, FlattenSteps
<1>2. ASSUME NEW n \in Nat, n \in T PROVE n + 1 \in T
  <2> SUFFICES ASSUME NEW f \in [1..(n + 1) -> Seq(S)]
               PROVE  KeyList(FlattenSeq(f)) = FlattenSeq(Keys(n + 1, f))
    OBVIOUS
  <2> DEFINE g == [i \in 1..n |-> f[i]]
             last == f[n + 1]
  <2>1. g \in [1..n -> Seq(S)] /\ last \in Seq(S) /\ \A i \in 1..n : g[i] = f[i]
    OBVIOUS
  <2>2. g \in Seq(Seq(S)) /\ f = Append(g, last)
    BY <2>1, LastAppended
  <2>3. FlattenSeq(f) = FlattenSeq(g) \o last /\ FlattenSeq(g) \in Seq(S)
    BY <2>1, <2>2, FlattenSteps, Zenon
  <2>4. /\ KeyList(FlattenSeq(f)) = KeyList(FlattenSeq(g)) \o KeyList(last)
        /\ KeyList(last) \in Seq(K)
    BY <2>1, <2>3, KeyListOfConcat, Zenon
  <2>5. KeyList(FlattenSeq(g)) = FlattenSeq(Keys(n, g))
    BY <1>2, <2>1, Zenon
  <2>6. \A i \in 1..(n + 1) : KeyList(f[i]) \in Seq(K)
    <3> SUFFICES ASSUME NEW i \in 1..(n + 1) PROVE KeyList(f[i]) \in Seq(K)
      OBVIOUS
    <3>1. f[i] \in Seq(S)
      OBVIOUS
    <3> QED
      BY <3>1, KeyListOfConcat
  <2> HIDE DEF K
  <2>7. /\ Keys(n + 1, f) \in [1..(n + 1) -> Seq(K)] /\ Keys(n, g) \in [1..n -> Seq(K)]
        /\ \A i \in 1..n : Keys(n, g)[i] = Keys(n + 1, f)[i]
        /\ Keys(n + 1, f)[n + 1] = KeyList(last)
    BY <2>1, <2>6
  <2> HIDE DEF Keys, g, last
  <2>8. Keys(n, g) \in Seq(Seq(K)) /\ Keys(n + 1, f) = Append(Keys(n, g), KeyList(last))
    BY <2>7, LastAppended
  <2>9. FlattenSeq(Keys(n + 1, f)) = FlattenSeq(Keys(n, g)) \o KeyList(last)
    BY <2>4, <2>8, FlattenSteps, Zenon
  <2> QED
    BY <2>4, <2>5, <2>9
<1> HIDE DEF T
<1>3. Nat \subseteq T
  BY <1>1, <1>2, NatSetInduction
<1> QED
  BY <1>3 DEF T

\* The keys of a table, query by query.
TableKeys(table) == FlattenSeq([i \in DOMAIN table |-> table[i].Metrics])

\* A column query reports its keys once for an answer of one row.
LEMMA OneRowReference ==
    ASSUME NEW query \in Queries, query.kind = "column", query.Metrics \in Seq(STRING),
           NEW rows \in Seq(AllRows), Len(rows) = 1
    PROVE  KeyList(QueryReference(query, rows)) = query.Metrics
<1> DEFINE row == rows[1]
           new == ColumnRowMetrics(query, row)
           n == Len(query.Metrics)
<1>1. DOMAIN rows = 1..1 /\ row \in AllRows
  <2>1. DOMAIN rows = 1..Len(rows) /\ 1 \in 1..Len(rows)
    BY LenProperties
  <2>2. \A i \in 1..Len(rows) : rows[i] \in AllRows
    BY ElementOfSeq, Zenon
  <2> QED
    BY <2>1, <2>2
<1>2. new \in Seq(Metric)
  BY <1>1, ColumnRowMetricsType
<1>3. [i \in DOMAIN rows |-> ColumnRowMetrics(query, rows[i])] = Append(<<>>, new)
  BY <1>1
<1>4. QueryReference(query, rows) = FlattenSeq(Append(<<>>, new))
  BY <1>3 DEF QueryReference
<1> HIDE DEF new
<1>5. FlattenSeq(Append(<<>>, new)) = <<>> \o new
  <2>1. <<>> \in Seq(Seq(Metric))
    BY EmptySeq
  <2> QED
    BY <1>2, <2>1, FlattenSteps, Zenon
<1>6. <<>> \o new = new
  BY <1>2, ConcatEmptySeq
<1>7. n \in Nat /\ query.Metrics = [i \in 1..n |-> query.Metrics[i]]
  BY LenProperties
<1>8. KeyList(new) = [i \in 1..n |-> query.Metrics[i]]
  BY DEF KeyList, new, ColumnRowMetrics
<1> QED
  BY <1>4, <1>5, <1>6, <1>7, <1>8, Zenon

\* Whatever the table and the answers: a Collect that succeeds with one row for
\* each column query reports the keys of its table, in order and each once.
THEOREM TableKeysReported ==
    Spec => [](outcome = "ok" /\ OneRowEach => KeyList(metrics) = TableKeys(queries))
<1>1. ControlInv /\ MatchInv =>
         (outcome = "ok" /\ OneRowEach => KeyList(metrics) = TableKeys(queries))
  <2> SUFFICES ASSUME ControlInv, MatchInv, outcome = "ok", OneRowEach
               PROVE  KeyList(metrics) = TableKeys(queries)
    OBVIOUS
  <2> DEFINE n == Len(queries)
             f == ReferenceUpTo(n)
  <2>1. DOMAIN queries = 1..n /\ n \in Nat /\ q = n + 1 /\ q - 1 = n
    BY TableProperties DEF ControlInv
  <2>2. \A i \in 1..n : GoodReference(queries[i], served[i])
    BY <2>1 DEF MatchInv
  <2>3. metrics = FlattenSeq(f)
    BY <2>1 DEF MatchInv
  <2>4. f \in [1..n -> Seq(Metric)]
    BY <2>2 DEF ReferenceUpTo, GoodReference
  <2>5. KeyList(metrics) = FlattenSeq([i \in 1..n |-> KeyList(f[i])])
    BY <2>1, <2>3, <2>4, KeyListOfFlatten, Zenon
  <2>6. ASSUME NEW i \in 1..n PROVE KeyList(f[i]) = queries[i].Metrics
    <3>1. f[i] = QueryReference(queries[i], served[i])
      BY DEF ReferenceUpTo
    <3>2. /\ queries[i] \in Queries /\ queries[i].kind \in {"column", "row"}
          /\ queries[i].Metrics \in Seq(STRING)
      BY <2>1, TableProperties DEF ControlInv
    <3>3. CASE queries[i].kind = "row"
      BY <2>2, <3>1, <3>3 DEF GoodReference
    <3>4. CASE queries[i].kind = "column"
      <4>1. served[i] \in Seq(AllRows)
        <5>1. i \in 1..Len(served)
          BY <2>1 DEF ControlInv
        <5> QED
          BY <5>1, ElementOfSeq DEF ControlInv
      <4>2. Len(served[i]) = 1
        BY <2>1, <3>4 DEF OneRowEach
      <4> QED
        BY <3>1, <3>2, <3>4, <4>1, <4>2, OneRowReference
    <3> QED
      BY <3>2, <3>3, <3>4
  <2> HIDE DEF f
  <2>7. [i \in 1..n |-> KeyList(f[i])] = [i \in DOMAIN queries |-> queries[i].Metrics]
    BY <2>1, <2>6
  <2> QED
    BY <2>5, <2>7 DEF TableKeys
<1> QED
  BY <1>1, MatchInvariance, PTL

-----------------------------------------------------------------------------
(* The metrics that the README lists *)

\* Two lists, one after the other, have the elements of both.
LEMMA ConcatElements ==
    ASSUME NEW M, NEW s \in Seq(M), NEW t \in Seq(M)
    PROVE  /\ s \o t \in Seq(M) /\ Len(s \o t) = Len(s) + Len(t)
           /\ Range(s \o t) = Range(s) \cup Range(t)
<1>1. /\ DOMAIN s = 1..Len(s) /\ DOMAIN t = 1..Len(t)
      /\ Len(s) \in Nat /\ Len(t) \in Nat
  BY LenProperties
<1>2. s \o t \in Seq(M) /\ Len(s \o t) = Len(s) + Len(t)
  BY ConcatProperties
<1>3. DOMAIN (s \o t) = 1..(Len(s) + Len(t))
  BY <1>2, LenProperties
<1>4. \A i \in 1..(Len(s) + Len(t)) :
          (s \o t)[i] = IF i <= Len(s) THEN s[i] ELSE t[i - Len(s)]
  BY ConcatProperties
<1>5. ASSUME NEW i \in 1..(Len(s) + Len(t)) PROVE (s \o t)[i] \in Range(s) \cup Range(t)
  <2>1. CASE i <= Len(s)
    BY <1>1, <1>4, <2>1 DEF Range
  <2>2. CASE ~(i <= Len(s))
    <3>1. i - Len(s) \in 1..Len(t)
      BY <1>1, <2>2
    <3> QED
      BY <1>1, <1>4, <2>2, <3>1 DEF Range
  <2> QED
    BY <2>1, <2>2
<1>6. ASSUME NEW i \in 1..Len(s) PROVE s[i] \in Range(s \o t)
  <2>1. i \in 1..(Len(s) + Len(t)) /\ i <= Len(s)
    BY <1>1
  <2> QED
    BY <1>3, <1>4, <2>1 DEF Range
<1>7. ASSUME NEW i \in 1..Len(t) PROVE t[i] \in Range(s \o t)
  <2>1. PICK j \in 1..(Len(s) + Len(t)) : ~(j <= Len(s)) /\ j - Len(s) = i
    <3>1. /\ Len(s) + i \in 1..(Len(s) + Len(t)) /\ ~(Len(s) + i <= Len(s))
          /\ (Len(s) + i) - Len(s) = i
      BY <1>1
    <3> QED
      BY <3>1
  <2>2. (s \o t)[j] = t[i]
    BY <1>4, <2>1
  <2> QED
    BY <1>3, <2>1, <2>2 DEF Range
<1> QED
  BY <1>1, <1>2, <1>3, <1>5, <1>6, <1>7, Zenon DEF Range

\* One list more.
AddsOne(M, seqs, s) ==
    /\ Append(seqs, s) \in Seq(Seq(M))
    /\ Len(FlattenSeq(Append(seqs, s))) = Len(FlattenSeq(seqs)) + Len(s)
    /\ Range(FlattenSeq(Append(seqs, s))) = Range(FlattenSeq(seqs)) \cup Range(s)

\* A list more adds its elements to lists put together.
LEMMA FlattenOneMore ==
    ASSUME NEW M, NEW seqs \in Seq(Seq(M)), NEW s \in Seq(M)
    PROVE  AddsOne(M, seqs, s)
<1>1. PICK all \in Seq(M) : all = FlattenSeq(seqs)
  BY FlattenSteps
<1>2. FlattenSeq(Append(seqs, s)) = all \o s
  BY <1>1, FlattenSteps, Zenon
<1>3. Len(all \o s) = Len(all) + Len(s) /\ Range(all \o s) = Range(all) \cup Range(s)
  BY ConcatElements
<1>4. Append(seqs, s) \in Seq(Seq(M))
  BY AppendProperties
<1> QED
  BY <1>1, <1>2, <1>3, <1>4, Zenon DEF AddsOne

\* Four lists more.
FourMore(seqs, a, b, c, d) == Append(Append(Append(Append(seqs, a), b), c), d)

AddsFour(M, seqs, a, b, c, d) ==
    LET all == FourMore(seqs, a, b, c, d)
    IN  /\ all \in Seq(Seq(M))
        /\ Len(FlattenSeq(all))
              = Len(FlattenSeq(seqs)) + Len(a) + Len(b) + Len(c) + Len(d)
        /\ Range(FlattenSeq(all)) = Range(FlattenSeq(seqs))
              \cup Range(a) \cup Range(b) \cup Range(c) \cup Range(d)

\* They add their elements too.
LEMMA FlattenFourMore ==
    ASSUME NEW M, NEW seqs \in Seq(Seq(M)),
           NEW a \in Seq(M), NEW b \in Seq(M), NEW c \in Seq(M), NEW d \in Seq(M)
    PROVE  AddsFour(M, seqs, a, b, c, d)
<1>1. PICK one \in Seq(Seq(M)) :
         /\ one = Append(seqs, a)
         /\ Len(FlattenSeq(one)) = Len(FlattenSeq(seqs)) + Len(a)
         /\ Range(FlattenSeq(one)) = Range(FlattenSeq(seqs)) \cup Range(a)
  <2>1. AddsOne(M, seqs, a)
    BY FlattenOneMore, Zenon
  <2> QED
    BY <2>1, Zenon DEF AddsOne
<1>2. PICK two \in Seq(Seq(M)) :
         /\ two = Append(one, b)
         /\ Len(FlattenSeq(two)) = Len(FlattenSeq(one)) + Len(b)
         /\ Range(FlattenSeq(two)) = Range(FlattenSeq(one)) \cup Range(b)
  <2>1. AddsOne(M, one, b)
    BY FlattenOneMore, Zenon
  <2> QED
    BY <2>1, Zenon DEF AddsOne
<1>3. PICK three \in Seq(Seq(M)) :
         /\ three = Append(two, c)
         /\ Len(FlattenSeq(three)) = Len(FlattenSeq(two)) + Len(c)
         /\ Range(FlattenSeq(three)) = Range(FlattenSeq(two)) \cup Range(c)
  <2>1. AddsOne(M, two, c)
    BY FlattenOneMore, Zenon
  <2> QED
    BY <2>1, Zenon DEF AddsOne
<1>4. PICK four \in Seq(Seq(M)) :
         /\ four = Append(three, d)
         /\ Len(FlattenSeq(four)) = Len(FlattenSeq(three)) + Len(d)
         /\ Range(FlattenSeq(four)) = Range(FlattenSeq(three)) \cup Range(d)
  <2>1. AddsOne(M, three, d)
    BY FlattenOneMore, Zenon
  <2> QED
    BY <2>1, Zenon DEF AddsOne
<1> QED
  BY <1>1, <1>2, <1>3, <1>4, Zenon DEF AddsFour, FourMore

\* The keys of a table are those of its queries.
KeysOfFour(q1, q2, q3, q4) ==
    LET keys == TableKeys(<<q1, q2, q3, q4>>)
    IN  /\ Len(keys) = Len(q1.Metrics) + Len(q2.Metrics) + Len(q3.Metrics)
                       + Len(q4.Metrics)
        /\ Range(keys) = Range(q1.Metrics) \cup Range(q2.Metrics)
                         \cup Range(q3.Metrics) \cup Range(q4.Metrics)

\* What the queries of a table have as keys, when there are four of them, as in
\* mysql_collector.go.
LEMMA FourQueries ==
    ASSUME NEW q1, NEW q2, NEW q3, NEW q4,
           q1.Metrics \in Seq(Range(q1.Metrics)), q2.Metrics \in Seq(Range(q2.Metrics)),
           q3.Metrics \in Seq(Range(q3.Metrics)), q4.Metrics \in Seq(Range(q4.Metrics))
    PROVE  KeysOfFour(q1, q2, q3, q4)
<1> DEFINE M == Range(q1.Metrics) \cup Range(q2.Metrics) \cup Range(q3.Metrics)
                  \cup Range(q4.Metrics)
<1>1. PICK a \in Seq(M), b \in Seq(M), c \in Seq(M), d \in Seq(M) :
         a = q1.Metrics /\ b = q2.Metrics /\ c = q3.Metrics /\ d = q4.Metrics
  BY SeqMonotonic
<1> HIDE DEF M
<1>2. PICK none \in Seq(Seq(M)) : none = <<>>
  BY EmptySeq, Zenon
<1> DEFINE all == FourMore(none, a, b, c, d)
           table == <<q1, q2, q3, q4>>
<1>3. [i \in DOMAIN table |-> table[i].Metrics] = all
  BY <1>1, <1>2 DEF FourMore
<1>4. Len(FlattenSeq(none)) = 0 /\ Range(FlattenSeq(none)) = {}
  BY <1>2, FlattenSteps DEF Range
<1>5. AddsFour(M, none, a, b, c, d)
  BY FlattenFourMore, Zenon
<1>6. /\ Len(FlattenSeq(all)) = Len(FlattenSeq(none)) + Len(a) + Len(b) + Len(c) + Len(d)
      /\ Range(FlattenSeq(all)) = Range(FlattenSeq(none))
            \cup Range(a) \cup Range(b) \cup Range(c) \cup Range(d)
  BY <1>5 DEF AddsFour
<1>7. TableKeys(table) = FlattenSeq(all)
  BY <1>3, Zenon DEF TableKeys
<1> HIDE DEF all, table
<1>8. Len(a) \in Nat /\ Len(b) \in Nat /\ Len(c) \in Nat /\ Len(d) \in Nat
  BY LenProperties
<1>9. /\ Len(TableKeys(table)) = Len(a) + Len(b) + Len(c) + Len(d)
      /\ Range(TableKeys(table)) = Range(a) \cup Range(b) \cup Range(c) \cup Range(d)
  BY <1>4, <1>6, <1>7, <1>8
<1> QED
  BY <1>1, <1>9, Zenon DEF KeysOfFour, table

KeysOfEight(q1, q2, q3, q4, q5, q6, q7, q8) ==
    LET keys == TableKeys(<<q1, q2, q3, q4, q5, q6, q7, q8>>)
    IN  /\ Len(keys) = Len(q1.Metrics) + Len(q2.Metrics) + Len(q3.Metrics)
                       + Len(q4.Metrics) + Len(q5.Metrics) + Len(q6.Metrics)
                       + Len(q7.Metrics) + Len(q8.Metrics)
        /\ Range(keys) = Range(q1.Metrics) \cup Range(q2.Metrics)
                         \cup Range(q3.Metrics) \cup Range(q4.Metrics)
                         \cup Range(q5.Metrics) \cup Range(q6.Metrics)
                         \cup Range(q7.Metrics) \cup Range(q8.Metrics)

\* And when there are eight, as in postgres_collector.go.
LEMMA EightQueries ==
    ASSUME NEW q1, NEW q2, NEW q3, NEW q4, NEW q5, NEW q6, NEW q7, NEW q8,
           q1.Metrics \in Seq(Range(q1.Metrics)), q2.Metrics \in Seq(Range(q2.Metrics)),
           q3.Metrics \in Seq(Range(q3.Metrics)), q4.Metrics \in Seq(Range(q4.Metrics)),
           q5.Metrics \in Seq(Range(q5.Metrics)), q6.Metrics \in Seq(Range(q6.Metrics)),
           q7.Metrics \in Seq(Range(q7.Metrics)), q8.Metrics \in Seq(Range(q8.Metrics))
    PROVE  KeysOfEight(q1, q2, q3, q4, q5, q6, q7, q8)
<1> DEFINE M == Range(q1.Metrics) \cup Range(q2.Metrics) \cup Range(q3.Metrics)
                  \cup Range(q4.Metrics) \cup Range(q5.Metrics) \cup Range(q6.Metrics)
                  \cup Range(q7.Metrics) \cup Range(q8.Metrics)
<1>1. PICK a \in Seq(M), b \in Seq(M), c \in Seq(M), d \in Seq(M) :
         a = q1.Metrics /\ b = q2.Metrics /\ c = q3.Metrics /\ d = q4.Metrics
  BY SeqMonotonic
<1>2. PICK e \in Seq(M), f \in Seq(M), g \in Seq(M), h \in Seq(M) :
         e = q5.Metrics /\ f = q6.Metrics /\ g = q7.Metrics /\ h = q8.Metrics
  BY SeqMonotonic
<1> HIDE DEF M
<1>3. PICK none \in Seq(Seq(M)) : none = <<>>
  BY EmptySeq, Zenon
<1> DEFINE half == FourMore(none, a, b, c, d)
           all == FourMore(half, e, f, g, h)
           table == <<q1, q2, q3, q4, q5, q6, q7, q8>>
<1>4. [i \in DOMAIN table |-> table[i].Metrics] = all
  BY <1>1, <1>2, <1>3, SMTT(60) DEF FourMore
<1>5. TableKeys(table) = FlattenSeq(all)
  BY <1>4, Zenon DEF TableKeys
<1>6. AddsFour(M, none, a, b, c, d)
  BY FlattenFourMore, Zenon
<1>7. half \in Seq(Seq(M))
  BY <1>6 DEF AddsFour
<1> HIDE DEF half
<1>8. AddsFour(M, half, e, f, g, h)
  BY <1>7, FlattenFourMore, Zenon
<1> HIDE DEF all, table
<1>9. Len(FlattenSeq(none)) = 0 /\ Range(FlattenSeq(none)) = {}
  BY <1>3, FlattenSteps DEF Range
<1>10. Len(a) \in Nat /\ Len(b) \in Nat /\ Len(c) \in Nat /\ Len(d) \in Nat
  BY LenProperties
<1>11. /\ Len(FlattenSeq(half)) = Len(a) + Len(b) + Len(c) + Len(d)
       /\ Range(FlattenSeq(half)) = Range(a) \cup Range(b) \cup Range(c) \cup Range(d)
  BY <1>6, <1>9, <1>10 DEF AddsFour, half
<1> QED
  BY <1>1, <1>2, <1>5, <1>8, <1>11, Zenon DEF KeysOfEight, AddsFour, table, all

\* n keys, with these names.
AreKeys(keys, n, names) == keys \in Seq(names) /\ Len(keys) = n /\ Range(keys) = names

\* A list of one key.
LEMMA OneKey ==
    ASSUME NEW a
    PROVE  AreKeys(<<a>>, 1, {a})
<1> DEFINE keys == <<a>>
<1>1. keys \in Seq({a}) /\ Len(keys) = 1
  OBVIOUS
<1>2. Range(keys) = {a}
  BY DEF Range
<1> HIDE DEF keys
<1>3. AreKeys(keys, 1, {a})
  BY <1>1, <1>2 DEF AreKeys
<1> QED
  BY <1>3, Zenon DEF keys

\* Of two.
LEMMA TwoKeys ==
    ASSUME NEW a, NEW b
    PROVE  AreKeys(<<a, b>>, 2, {a, b})
<1> DEFINE keys == <<a, b>>
<1>1. keys \in Seq({a, b}) /\ Len(keys) = 2
  OBVIOUS
<1>2. Range(keys) = {a, b}
  BY DEF Range
<1> HIDE DEF keys
<1>3. AreKeys(keys, 2, {a, b})
  BY <1>1, <1>2 DEF AreKeys
<1> QED
  BY <1>3, Zenon DEF keys

\* Of seven.
LEMMA SevenKeys ==
    ASSUME NEW a, NEW b, NEW c, NEW d,
           NEW e, NEW f, NEW g
    PROVE  AreKeys(<<a, b, c, d, e, f, g>>, 7, {a, b, c, d, e, f, g})
<1> DEFINE keys == <<a, b, c, d, e, f, g>>
<1>1. keys \in Seq({a, b, c, d, e, f, g}) /\ Len(keys) = 7
  OBVIOUS
<1>2. Range(keys) = {a, b, c, d, e, f, g}
  BY DEF Range
<1> HIDE DEF keys
<1>3. AreKeys(keys, 7, {a, b, c, d, e, f, g})
  BY <1>1, <1>2 DEF AreKeys
<1> QED
  BY <1>3, Zenon DEF keys

\* Of eight.
LEMMA EightKeys ==
    ASSUME NEW a, NEW b, NEW c, NEW d,
           NEW e, NEW f, NEW g, NEW h
    PROVE  AreKeys(<<a, b, c, d, e, f, g, h>>, 8, {a, b, c, d, e, f, g, h})
<1> DEFINE keys == <<a, b, c, d, e, f, g, h>>
<1>1. keys \in Seq({a, b, c, d, e, f, g, h}) /\ Len(keys) = 8
  OBVIOUS
<1>2. Range(keys) = {a, b, c, d, e, f, g, h}
  BY DEF Range
<1> HIDE DEF keys
<1>3. AreKeys(keys, 8, {a, b, c, d, e, f, g, h})
  BY <1>1, <1>2 DEF AreKeys
<1> QED
  BY <1>3, Zenon DEF keys

\* And of nineteen.
LEMMA NineteenKeys ==
    ASSUME NEW k1, NEW k2, NEW k3, NEW k4,
           NEW k5, NEW k6, NEW k7, NEW k8,
           NEW k9, NEW k10, NEW k11, NEW k12,
           NEW k13, NEW k14, NEW k15, NEW k16,
           NEW k17, NEW k18, NEW k19
    PROVE  AreKeys(<<k1, k2, k3, k4, k5, k6, k7, k8, k9, k10,
             k11, k12, k13, k14, k15, k16, k17, k18, k19>>,
             19, {k1, k2, k3, k4, k5, k6, k7, k8, k9, k10,
             k11, k12, k13, k14, k15, k16, k17, k18, k19})
<1> DEFINE keys == <<k1, k2, k3, k4, k5, k6, k7, k8, k9, k10,
             k11, k12, k13, k14, k15, k16, k17, k18, k19>>
<1>1. keys \in Seq({k1, k2, k3, k4, k5, k6, k7, k8, k9, k10,
             k11, k12, k13, k14, k15, k16, k17, k18, k19}) /\ Len(keys) = 19
  OBVIOUS
<1>2. Range(keys) = {k1, k2, k3, k4, k5, k6, k7, k8, k9, k10,
             k11, k12, k13, k14, k15, k16, k17, k18, k19}
  BY DEF Range
<1> HIDE DEF keys
<1>3. AreKeys(keys, 19, {k1, k2, k3, k4, k5, k6, k7, k8, k9, k10,
             k11, k12, k13, k14, k15, k16, k17, k18, k19})
  BY <1>1, <1>2 DEF AreKeys
<1> QED
  BY <1>3, Zenon DEF keys

\* Four elements that are new to a set make it larger by four.
LEMMA FourNew ==
    ASSUME NEW S, IsFiniteSet(S), NEW a, NEW b, NEW c, NEW d,
           a \notin S, b \notin S, c \notin S, d \notin S,
           a # b, a # c, a # d, b # c, b # d, c # d
    PROVE  /\ IsFiniteSet(S \cup {a, b, c, d})
           /\ Cardinality(S \cup {a, b, c, d}) = Cardinality(S) + 4
<1>1. PICK s1 : s1 = S \cup {a}
  BY Zenon
<1>2. PICK s2 : s2 = s1 \cup {b}
  BY Zenon
<1>3. PICK s3 : s3 = s2 \cup {c}
  BY Zenon
<1>4. PICK s4 : s4 = s3 \cup {d}
  BY Zenon
<1>5. b \notin s1 /\ c \notin s2 /\ d \notin s3 /\ s4 = S \cup {a, b, c, d}
  BY <1>1, <1>2, <1>3, <1>4
<1>6. IsFiniteSet(s1) /\ Cardinality(s1) = Cardinality(S) + 1
  BY <1>1, FS_AddElement
<1>7. IsFiniteSet(s2) /\ Cardinality(s2) = Cardinality(s1) + 1
  BY <1>2, <1>5, <1>6, FS_AddElement
<1>8. IsFiniteSet(s3) /\ Cardinality(s3) = Cardinality(s2) + 1
  BY <1>3, <1>5, <1>7, FS_AddElement
<1>9. IsFiniteSet(s4) /\ Cardinality(s4) = Cardinality(s3) + 1
  BY <1>4, <1>5, <1>8, FS_AddElement
<1>10. Cardinality(S) \in Nat
  BY FS_CardinalityType
<1> QED
  BY <1>5, <1>6, <1>7, <1>8, <1>9, <1>10

\* The README lists 28 metrics for MySQL.
LEMMA MysqlListedCount == IsFiniteSet(MysqlListed) /\ Cardinality(MysqlListed) = 28
<1> DEFINE s0 == {}
           s1 == s0 \cup {"threads_connected", "threads_running",
                          "threads_created", "queries"}
           s2 == s1 \cup {"questions", "aborted_clients",
                          "aborted_connects", "innodb_row_lock_waits"}
           s3 == s2 \cup {"innodb_row_lock_time", "innodb_num_open_files",
                          "innodb_log_waits", "innodb_buffer_pool_bytes_data"}
           s4 == s3 \cup {"innodb_buffer_pool_bytes_dirty", "innodb_buffer_pool_pages_data",
                          "innodb_buffer_pool_pages_dirty", "innodb_buffer_pool_pages_flushed"}
           s5 == s4 \cup {"innodb_buffer_pool_pages_free", "innodb_buffer_pool_pages_misc",
                          "innodb_buffer_pool_pages_total", "innodb_buffer_pool_read_ahead"}
           s6 == s5 \cup {"innodb_buffer_pool_read_ahead_evicted",
                          "innodb_buffer_pool_read_ahead_rnd",
                          "innodb_buffer_pool_read_requests", "innodb_buffer_pool_reads"}
           s7 == s6 \cup {"innodb_buffer_pool_wait_free", "innodb_buffer_pool_write_requests",
                          "max_connections", "connection_errors"}
<1>1. IsFiniteSet(s0) /\ Cardinality(s0) = 0
  BY FS_EmptySet
<1>2. IsFiniteSet(s1) /\ Cardinality(s1) = 4
  <2>1. /\ "threads_connected" \notin s0 /\ "threads_running" \notin s0
        /\ "threads_created" \notin s0 /\ "queries" \notin s0
    OBVIOUS
  <2> HIDE DEF s0
  <2>2. Cardinality(s1) = Cardinality(s0) + 4 /\ IsFiniteSet(s1)
    BY <1>1, <2>1, FourNew
  <2> QED
    BY <1>1, <2>2
<1>3. IsFiniteSet(s2) /\ Cardinality(s2) = 8
  <2>1. /\ "questions" \notin s1 /\ "aborted_clients" \notin s1
        /\ "aborted_connects" \notin s1 /\ "innodb_row_lock_waits" \notin s1
    OBVIOUS
  <2> HIDE DEF s1
  <2>2. Cardinality(s2) = Cardinality(s1) + 4 /\ IsFiniteSet(s2)
    BY <1>2, <2>1, FourNew
  <2> QED
    BY <1>2, <2>2
<1>4. IsFiniteSet(s3) /\ Cardinality(s3) = 12
  <2>1. /\ "innodb_row_lock_time" \notin s2 /\ "innodb_num_open_files" \notin s2
        /\ "innodb_log_waits" \notin s2 /\ "innodb_buffer_pool_bytes_data" \notin s2
    OBVIOUS
  <2> HIDE DEF s2
  <2>2. Cardinality(s3) = Cardinality(s2) + 4 /\ IsFiniteSet(s3)
    BY <1>3, <2>1, FourNew
  <2> QED
    BY <1>3, <2>2
<1>5. IsFiniteSet(s4) /\ Cardinality(s4) = 16
  <2>1. /\ "innodb_buffer_pool_bytes_dirty" \notin s3
        /\ "innodb_buffer_pool_pages_data" \notin s3
        /\ "innodb_buffer_pool_pages_dirty" \notin s3
        /\ "innodb_buffer_pool_pages_flushed" \notin s3
    OBVIOUS
  <2> HIDE DEF s3
  <2>2. Cardinality(s4) = Cardinality(s3) + 4 /\ IsFiniteSet(s4)
    BY <1>4, <2>1, FourNew
  <2> QED
    BY <1>4, <2>2
<1>6. IsFiniteSet(s5) /\ Cardinality(s5) = 20
  <2>1. /\ "innodb_buffer_pool_pages_free" \notin s4
        /\ "innodb_buffer_pool_pages_misc" \notin s4
        /\ "innodb_buffer_pool_pages_total" \notin s4
        /\ "innodb_buffer_pool_read_ahead" \notin s4
    OBVIOUS
  <2> HIDE DEF s4
  <2>2. Cardinality(s5) = Cardinality(s4) + 4 /\ IsFiniteSet(s5)
    BY <1>5, <2>1, FourNew
  <2> QED
    BY <1>5, <2>2
<1>7. IsFiniteSet(s6) /\ Cardinality(s6) = 24
  <2>1. /\ "innodb_buffer_pool_read_ahead_evicted" \notin s5
        /\ "innodb_buffer_pool_read_ahead_rnd" \notin s5
        /\ "innodb_buffer_pool_read_requests" \notin s5
        /\ "innodb_buffer_pool_reads" \notin s5
    OBVIOUS
  <2> HIDE DEF s5
  <2>2. Cardinality(s6) = Cardinality(s5) + 4 /\ IsFiniteSet(s6)
    BY <1>6, <2>1, FourNew
  <2> QED
    BY <1>6, <2>2
<1>8. IsFiniteSet(s7) /\ Cardinality(s7) = 28
  <2>1. /\ "innodb_buffer_pool_wait_free" \notin s6
        /\ "innodb_buffer_pool_write_requests" \notin s6
        /\ "max_connections" \notin s6
        /\ "connection_errors" \notin s6
    OBVIOUS
  <2> HIDE DEF s6
  <2>2. Cardinality(s7) = Cardinality(s6) + 4 /\ IsFiniteSet(s7)
    BY <1>7, <2>1, FourNew
  <2> QED
    BY <1>7, <2>2
<1>9. s7 = MysqlListed
  BY DEF MysqlListed
<1> QED
  BY <1>8, <1>9, Zenon

\* And 16 for PostgreSQL.
LEMMA PostgresListedCount == IsFiniteSet(PostgresListed) /\ Cardinality(PostgresListed) = 16
<1> DEFINE s0 == {}
           s1 == s0 \cup {"connections", "max_connections",
                          "dbsize", "deadlocks"}
           s2 == s1 \cup {"commits", "rollbacks",
                          "blocks_read", "blocks_hit"}
           s3 == s2 \cup {"read_time", "write_time",
                          "temp_bytes", "seq_scan"}
           s4 == s3 \cup {"idx_scan", "blocked_connections",
                          "max_tx_age", "max_system_tx_age"}
<1>1. IsFiniteSet(s0) /\ Cardinality(s0) = 0
  BY FS_EmptySet
<1>2. IsFiniteSet(s1) /\ Cardinality(s1) = 4
  <2>1. /\ "connections" \notin s0 /\ "max_connections" \notin s0
        /\ "dbsize" \notin s0 /\ "deadlocks" \notin s0
    OBVIOUS
  <2> HIDE DEF s0
  <2>2. Cardinality(s1) = Cardinality(s0) + 4 /\ IsFiniteSet(s1)
    BY <1>1, <2>1, FourNew
  <2> QED
    BY <1>1, <2>2
<1>3. IsFiniteSet(s2) /\ Cardinality(s2) = 8
  <2>1. /\ "commits" \notin s1 /\ "rollbacks" \notin s1
        /\ "blocks_read" \notin s1 /\ "blocks_hit" \notin s1
    OBVIOUS
  <2> HIDE DEF s1
  <2>2. Cardinality(s2) = Cardinality(s1) + 4 /\ IsFiniteSet(s2)
    BY <1>2, <2>1, FourNew
  <2> QED
    BY <1>2, <2>2
<1>4. IsFiniteSet(s3) /\ Cardinality(s3) = 12
  <2>1. /\ "read_time" \notin s2 /\ "write_time" \notin s2
        /\ "temp_bytes" \notin s2 /\ "seq_scan" \notin s2
    OBVIOUS
  <2> HIDE DEF s2
  <2>2. Cardinality(s3) = Cardinality(s2) + 4 /\ IsFiniteSet(s3)
    BY <1>3, <2>1, FourNew
  <2> QED
    BY <1>3, <2>2
<1>5. IsFiniteSet(s4) /\ Cardinality(s4) = 16
  <2>1. /\ "idx_scan" \notin s3 /\ "blocked_connections" \notin s3
        /\ "max_tx_age" \notin s3 /\ "max_system_tx_age" \notin s3
    OBVIOUS
  <2> HIDE DEF s3
  <2>2. Cardinality(s4) = Cardinality(s3) + 4 /\ IsFiniteSet(s4)
    BY <1>4, <2>1, FourNew
  <2> QED
    BY <1>4, <2>2
<1>6. s4 = PostgresListed
  BY DEF PostgresListed
<1> QED
  BY <1>5, <1>6, Zenon

\* The queries of mysql_collector.go report what the README lists.
LEMMA MysqlKeys ==
    /\ Len(TableKeys(mysqlMetricQueries)) = 28
    /\ Range(TableKeys(mysqlMetricQueries)) = MysqlListed
<1> DEFINE threads == mysqlThreads.Metrics
           innodb == mysqlInnodb.Metrics
           most == mysqlMaxConnections.Metrics
           errors == mysqlConnectionErrors.Metrics
<1>1. AreKeys(threads, 7, {"threads_connected", "threads_running", "threads_created",
            "queries", "questions", "aborted_clients", "aborted_connects"})
  BY SevenKeys, Zenon DEF mysqlThreads, RowQuery
<1>2. AreKeys(innodb, 19, {"innodb_row_lock_waits", "innodb_row_lock_time",
            "innodb_num_open_files", "innodb_log_waits",
            "innodb_buffer_pool_bytes_data", "innodb_buffer_pool_bytes_dirty",
            "innodb_buffer_pool_pages_data", "innodb_buffer_pool_pages_dirty",
            "innodb_buffer_pool_pages_flushed", "innodb_buffer_pool_pages_free",
            "innodb_buffer_pool_pages_misc", "innodb_buffer_pool_pages_total",
            "innodb_buffer_pool_read_ahead", "innodb_buffer_pool_read_ahead_evicted",
            "innodb_buffer_pool_read_ahead_rnd", "innodb_buffer_pool_read_requests",
            "innodb_buffer_pool_reads", "innodb_buffer_pool_wait_free",
            "innodb_buffer_pool_write_requests"})
  BY NineteenKeys, Zenon DEF mysqlInnodb, RowQuery
<1>3. AreKeys(most, 1, {"max_connections"})
  BY OneKey, Zenon DEF mysqlMaxConnections, ColumnQuery
<1>4. AreKeys(errors, 1, {"connection_errors"})
  BY OneKey, Zenon DEF mysqlConnectionErrors, ColumnQuery
<1>5. ASSUME NEW keys, NEW n, NEW names, AreKeys(keys, n, names) PROVE keys \in Seq(Range(keys))
  BY <1>5, Zenon DEF AreKeys
<1>6. /\ threads \in Seq(Range(threads)) /\ innodb \in Seq(Range(innodb))
      /\ most \in Seq(Range(most)) /\ errors \in Seq(Range(errors))
  BY <1>1, <1>2, <1>3, <1>4, <1>5, Zenon
<1>7. LET keys == TableKeys(mysqlMetricQueries)
      IN  /\ Len(keys) = Len(threads) + Len(innodb) + Len(most) + Len(errors)
          /\ Range(keys) = Range(threads) \cup Range(innodb) \cup Range(most)
                           \cup Range(errors)
  <2>1. KeysOfFour(mysqlThreads, mysqlInnodb, mysqlMaxConnections, mysqlConnectionErrors)
    BY <1>6, FourQueries, Zenon
  <2> QED
    BY <2>1, Zenon DEF KeysOfFour, mysqlMetricQueries
<1> HIDE DEF threads, innodb, most, errors
<1>8. Len(TableKeys(mysqlMetricQueries)) = 28
  BY <1>1, <1>2, <1>3, <1>4, <1>7 DEF AreKeys
<1> QED
  BY <1>1, <1>2, <1>3, <1>4, <1>7, <1>8 DEF AreKeys, MysqlListed

\* The queries of postgres_collector.go report what the README lists.
LEMMA PostgresKeys ==
    /\ Len(TableKeys(postgresMetricQueries)) = 16
    /\ Range(TableKeys(postgresMetricQueries)) = PostgresListed
<1> DEFINE k1 == postgresConnections.Metrics
           k2 == postgresMaxConnections.Metrics
           k3 == postgresDbsize.Metrics
           k4 == postgresDatabase.Metrics
           k5 == postgresScans.Metrics
           k6 == postgresBlocked.Metrics
           k7 == postgresTxAge.Metrics
           k8 == postgresSystemTxAge.Metrics
<1>1. AreKeys(k1, 1, {"connections"})
  BY OneKey, Zenon DEF postgresConnections, ColumnQuery
<1>2. AreKeys(k2, 1, {"max_connections"})
  BY OneKey, Zenon DEF postgresMaxConnections, ColumnQuery
<1>3. AreKeys(k3, 1, {"dbsize"})
  BY OneKey, Zenon DEF postgresDbsize, ColumnQuery
<1>4. AreKeys(k4, 8, {"deadlocks", "commits", "rollbacks", "blocks_read",
                      "blocks_hit", "read_time", "write_time", "temp_bytes"})
  BY EightKeys, Zenon DEF postgresDatabase, ColumnQuery
<1>5. AreKeys(k5, 2, {"seq_scan", "idx_scan"})
  BY TwoKeys, Zenon DEF postgresScans, ColumnQuery
<1>6. AreKeys(k6, 1, {"blocked_connections"})
  BY OneKey, Zenon DEF postgresBlocked, ColumnQuery
<1>7. AreKeys(k7, 1, {"max_tx_age"})
  BY OneKey, Zenon DEF postgresTxAge, ColumnQuery
<1>8. AreKeys(k8, 1, {"max_system_tx_age"})
  BY OneKey, Zenon DEF postgresSystemTxAge, ColumnQuery
<1>9. ASSUME NEW keys, NEW n, NEW names, AreKeys(keys, n, names) PROVE keys \in Seq(Range(keys))
  BY <1>9, Zenon DEF AreKeys
<1>10. /\ k1 \in Seq(Range(k1)) /\ k2 \in Seq(Range(k2)) /\ k3 \in Seq(Range(k3))
       /\ k4 \in Seq(Range(k4)) /\ k5 \in Seq(Range(k5)) /\ k6 \in Seq(Range(k6))
       /\ k7 \in Seq(Range(k7)) /\ k8 \in Seq(Range(k8))
  BY <1>1, <1>2, <1>3, <1>4, <1>5, <1>6, <1>7, <1>8, <1>9, Zenon
<1>11. LET keys == TableKeys(postgresMetricQueries)
       IN  /\ Len(keys) = Len(k1) + Len(k2) + Len(k3) + Len(k4)
                          + Len(k5) + Len(k6) + Len(k7) + Len(k8)
           /\ Range(keys) = Range(k1) \cup Range(k2) \cup Range(k3) \cup Range(k4)
                            \cup Range(k5) \cup Range(k6) \cup Range(k7) \cup Range(k8)
  <2>1. KeysOfEight(postgresConnections, postgresMaxConnections, postgresDbsize,
                    postgresDatabase, postgresScans, postgresBlocked, postgresTxAge,
                    postgresSystemTxAge)
    BY <1>10, EightQueries, Zenon
  <2> QED
    BY <2>1, Zenon DEF KeysOfEight, postgresMetricQueries
<1> HIDE DEF k1, k2, k3, k4, k5, k6, k7, k8
<1>12. Len(TableKeys(postgresMetricQueries)) = 16
  BY <1>1, <1>2, <1>3, <1>4, <1>5, <1>6, <1>7, <1>8, <1>11 DEF AreKeys
<1> QED
  BY <1>1, <1>2, <1>3, <1>4, <1>5, <1>6, <1>7, <1>8, <1>11, <1>12 DEF AreKeys, PostgresListed

\* A collection that succeeds, with one row for each column query, reports each
\* metric that the README lists for the engine, once, and no other: for every
\* answer of the server, and whatever other tables there are.
THEOREM ExportsListedHolds == Spec => []ExportsListed
<1>1. ControlInv /\ DataInv
         /\ (outcome = "ok" /\ OneRowEach => KeyList(metrics) = TableKeys(queries))
         => ExportsListed
  <2> SUFFICES ASSUME DataInv, outcome = "ok", OneRowEach, KeyList(metrics) = TableKeys(queries)
               PROVE  /\ queries = mysqlMetricQueries => Reports(MysqlListed)
                      /\ queries = postgresMetricQueries => Reports(PostgresListed)
    BY DEF ExportsListed
  <2>1. DOMAIN metrics = 1..Len(metrics) /\ Len(metrics) \in Nat
    BY LenProperties DEF DataInv
  <2>2. KeysOf(metrics) = Range(TableKeys(queries))
    BY <2>1 DEF KeysOf, KeyList, Range
  <2>3. Len(metrics) = Len(TableKeys(queries))
    <3>1. DOMAIN KeyList(metrics) = 1..Len(metrics)
      BY <2>1 DEF KeyList
    <3> QED
      BY <2>1, <3>1
  <2> QED
    BY <2>2, <2>3, MysqlKeys, PostgresKeys, MysqlListedCount, PostgresListedCount, Zenon DEF Reports
<1> QED
  BY <1>1, TableKeysReported, MatchInvariance, PTL
=============================================================================
