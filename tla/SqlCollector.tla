---------------------------- MODULE SqlCollector ----------------------------
(***************************************************************************)
(* The SQL collector of pkg/collector/sql_collector.go: Collect pings the  *)
(* database, runs its queries in order, reads their rows one by one and    *)
(* turns them into metrics, while the collection deadline may pass and the *)
(* connection may break at any point.                                      *)
(*                                                                         *)
(* A row is [names, vals, scans]: its column names, its values, and        *)
(* whether rows.Scan can convert the values to the types asked for. The    *)
(* key in a row of a row query is a pair, how its letters are written and  *)
(* the name they spell.                                                    *)
(***************************************************************************)
EXTENDS Integers, SequencesExt, FiniteSetsExt

CONSTANTS
    QueryTables,    \* the query tables of the drivers
    ResultSets(_)   \* result sets the server may answer a query with

\* A table is a list of queries, of either kind, and not empty; a result set is
\* a list of rows.
ASSUME TablesAssumption ==
    \A table \in QueryTables :
        /\ table # <<>> /\ table \in Seq(Range(table))
        /\ \A query \in Range(table) :
              /\ query.kind \in {"column", "row"}
              /\ query.Metrics \in Seq(STRING)
              /\ \A rows \in ResultSets(query) : rows \in Seq(Range(rows))

VARIABLES
    queries,    \* the collector's queries: sequence of [kind, Metrics, Selects]
    pc,         \* "idle", "ping", "query", "rows"
    q,          \* index of the current query
    pending,    \* rows of the current result set that are not read yet
    acum,       \* rowMetrics, or acumMetrics as a sequence of entries
    metrics,    \* metrics collected, and returned once pc is idle again
    outcome,    \* "none", "ok" or "error": what the last Collect returned
    ctxDone,    \* the deadline of the collection has passed
    closed,     \* Close was called
    served,     \* history: for each query answered so far, the rows of its
                \* result set, without those that a break kept from Collect
    truncated   \* history: "no", or why some rows.Next answered false with
                \* rows unread: "deadline" or "connection"

collectVars == <<pc, q, pending, acum, metrics, outcome, ctxDone, closed,
                 served, truncated>>
vars == <<queries, collectVars>>

-----------------------------------------------------------------------------
(* From rows to metrics *)

\* The last of the columns lo..hi that has this name.
ColumnOf(row, name, lo, hi) == Max({i \in lo..hi : row.names[i] = name})

\* getRowDataAsMaps: values from the first n columns, tags from the others.
ValuesMap(row, n) ==
    [name \in {row.names[i] : i \in 1..n} |->
        row.vals[ColumnOf(row, name, 1, n)]]

TagsMap(row, n) ==
    LET m == Len(row.names)
    IN  [name \in {row.names[i] : i \in (n + 1)..m} \cup {"source"} |->
            IF name = "source" THEN "sql"
            ELSE row.vals[ColumnOf(row, name, n + 1, m)]]

\* columnMetricQuery.getMetrics fails on any other row.
ColumnRowGood(query, row) ==
    /\ Len(row.names) >= Len(query.Metrics)
    /\ row.scans
    /\ Range(query.Metrics) \subseteq DOMAIN ValuesMap(row, Len(query.Metrics))

ColumnRowMetrics(query, row) ==
    LET n == Len(query.Metrics)
    IN  [i \in 1..n |-> [Key |-> query.Metrics[i],
                         Value |-> ValuesMap(row, n)[query.Metrics[i]],
                         Tags |-> TagsMap(row, n)]]

\* strings.ToLower on a key.
Lower(s) == s[2]

\* rowMetricQuery.getMetrics fails on any other row.
RowRowGood(row) == Len(row.names) >= 2 /\ row.scans

\* The entry a row adds to acumMetrics, under its key in lower case.
RowRowEntry(row) ==
    [Key |-> Lower(row.vals[1]), Value |-> row.vals[2], Tags |-> TagsMap(row, 2)]

KeysOf(entries) == {entries[i].Key : i \in DOMAIN entries}

\* acumMetrics[key]: a later entry replaced an earlier one.
LastEntry(entries, key) ==
    entries[Max({i \in DOMAIN entries : entries[i].Key = key})]

RowQueryMetrics(query, entries) ==
    [i \in DOMAIN query.Metrics |-> LastEntry(entries, query.Metrics[i])]

-----------------------------------------------------------------------------
(* Collect *)

\* NewCollector gives the collector the queries of its driver.
Init ==
    /\ queries \in QueryTables
    /\ pc = "idle" /\ q = 1 /\ pending = <<>> /\ acum = <<>> /\ metrics = <<>>
    /\ outcome = "none" /\ ctxDone = FALSE /\ closed = FALSE
    /\ served = <<>> /\ truncated = "no"

CollectStarts ==
    /\ pc = "idle"
    /\ pc' = "ping" /\ q' = 1 /\ pending' = <<>> /\ acum' = <<>>
    /\ metrics' = <<>> /\ outcome' = "none" /\ ctxDone' = FALSE
    /\ served' = <<>> /\ truncated' = "no"
    /\ UNCHANGED closed

\* Collect returns an error and no metrics.
Fail ==
    /\ pc' = "idle" /\ outcome' = "error" /\ metrics' = <<>>
    /\ pending' = <<>> /\ acum' = <<>>
    /\ UNCHANGED <<q, ctxDone, closed, served, truncated>>

\* Mutant of NextQuery: the same query is run again.
NextQuery_Repeats(newMetrics) ==
    /\ metrics' = metrics \o newMetrics
    /\ acum' = <<>>
    /\ \/ q < Len(queries) /\ pc' = "query" /\ UNCHANGED outcome
       \/ q = Len(queries) /\ pc' = "idle" /\ outcome' = "ok"
    /\ UNCHANGED <<q, pending, ctxDone, closed, served, truncated>>

\* Go on with the query after the current one, or return.
NextQuery(newMetrics) ==
    /\ metrics' = metrics \o newMetrics
    /\ acum' = <<>> /\ q' = q + 1
    /\ \/ q < Len(queries) /\ pc' = "query" /\ UNCHANGED outcome
       \/ q = Len(queries) /\ pc' = "idle" /\ outcome' = "ok"
    /\ UNCHANGED <<pending, ctxDone, closed, served, truncated>>

PingFails == pc = "ping" /\ Fail

PingReturns ==
    /\ pc = "ping" /\ ~ctxDone /\ ~closed
    /\ pc' = "query"
    /\ UNCHANGED <<q, pending, acum, metrics, outcome, ctxDone, closed, served,
                   truncated>>

\* Mutant of QueryFails: a failed query is run again without a look at the
\* context.
QueryFails_Retries == pc = "query" /\ UNCHANGED collectVars

QueryFails == pc = "query" /\ Fail

QueryReturns ==
    /\ pc = "query" /\ ~ctxDone
    /\ \E rows \in ResultSets(queries[q]) :
          pending' = rows /\ served' = Append(served, rows)
    /\ pc' = "rows"
    /\ UNCHANGED <<q, acum, metrics, outcome, ctxDone, closed, truncated>>

\* rows.Next answers false before the last row: the deadline passed, or the
\* connection broke. The reason is in rows.Err(), which nobody reads.
RowsBreak ==
    /\ pc = "rows" /\ pending # <<>>
    /\ pending' = <<>>
    /\ served' = [served EXCEPT ![q] = SubSeq(@, 1, Len(@) - Len(pending))]
    /\ \/ ctxDone /\ truncated' = "deadline"
       \/ truncated' = "connection"
    /\ UNCHANGED <<pc, q, acum, metrics, outcome, ctxDone, closed>>

\* The deadline closes the rows between Next and Scan.
ScanFails == pc = "rows" /\ pending # <<>> /\ ctxDone /\ Fail

ColumnRow ==
    /\ pc = "rows" /\ queries[q].kind = "column" /\ pending # <<>>
    /\ \/ ~ColumnRowGood(queries[q], Head(pending)) /\ Fail
       \/ /\ ColumnRowGood(queries[q], Head(pending))
          /\ acum' = acum \o ColumnRowMetrics(queries[q], Head(pending))
          /\ pending' = Tail(pending)
          /\ UNCHANGED <<pc, q, metrics, outcome, ctxDone, closed, served,
                         truncated>>

\* Mutant of RowRow: the first entry of a key is kept.
RowRow_FirstWins ==
    /\ pc = "rows" /\ queries[q].kind = "row" /\ pending # <<>>
    /\ \/ ~RowRowGood(Head(pending)) /\ Fail
       \/ /\ RowRowGood(Head(pending))
          /\ acum' = <<RowRowEntry(Head(pending))>> \o acum
          /\ pending' = Tail(pending)
          /\ UNCHANGED <<pc, q, metrics, outcome, ctxDone, closed, served,
                         truncated>>

RowRow ==
    /\ pc = "rows" /\ queries[q].kind = "row" /\ pending # <<>>
    /\ \/ ~RowRowGood(Head(pending)) /\ Fail
       \/ /\ RowRowGood(Head(pending))
          /\ acum' = Append(acum, RowRowEntry(Head(pending)))
          /\ pending' = Tail(pending)
          /\ UNCHANGED <<pc, q, metrics, outcome, ctxDone, closed, served,
                         truncated>>

ColumnRowsEnd ==
    /\ pc = "rows" /\ queries[q].kind = "column" /\ pending = <<>>
    /\ NextQuery(acum)

\* Mutant of RowRowsEnd: a missing key is skipped.
RowRowsEnd_SkipsMissing ==
    /\ pc = "rows" /\ queries[q].kind = "row" /\ pending = <<>>
    /\ LET found == SelectSeq(queries[q].Metrics, LAMBDA k : k \in KeysOf(acum))
       IN  NextQuery(RowQueryMetrics([Metrics |-> found], acum))

RowRowsEnd ==
    /\ pc = "rows" /\ queries[q].kind = "row" /\ pending = <<>>
    /\ \/ Range(queries[q].Metrics) \subseteq KeysOf(acum)
          /\ NextQuery(RowQueryMetrics(queries[q], acum))
       \/ ~(Range(queries[q].Metrics) \subseteq KeysOf(acum)) /\ Fail

\* The context of the collection ends: its timeout, or the worker's cancel.
CtxExpires ==
    /\ pc # "idle" /\ ~ctxDone
    /\ ctxDone' = TRUE
    /\ UNCHANGED <<pc, q, pending, acum, metrics, outcome, closed, served,
                   truncated>>

Close ==
    /\ pc = "idle" /\ ~closed
    /\ closed' = TRUE
    /\ UNCHANGED <<pc, q, pending, acum, metrics, outcome, ctxDone, served,
                   truncated>>

Next ==
    /\ \/ CollectStarts \/ PingFails \/ PingReturns
       \/ QueryFails \/ QueryReturns
       \/ RowsBreak \/ ScanFails
       \/ ColumnRow \/ RowRow \/ ColumnRowsEnd \/ RowRowsEnd
       \/ CtxExpires \/ Close
    /\ UNCHANGED queries

Spec == Init /\ [][Next]_vars

\* The server may never answer: only the steps of the collector itself are
\* taken for granted, that the deadline passes, and that a database call
\* returns an error once it has.
FairSpec ==
    /\ Spec
    /\ WF_collectVars(CtxExpires)
    /\ WF_collectVars(ctxDone /\ (PingFails \/ QueryFails))
    /\ WF_collectVars(ColumnRow \/ RowRow \/ ScanFails \/ RowsBreak)
    /\ WF_collectVars(ColumnRowsEnd \/ RowRowsEnd)

-----------------------------------------------------------------------------
(* Properties *)

\* The control state, the current query and the outcome have their types, and
\* a result set is being read for exactly the queries answered so far.
TypeOK ==
    /\ pc \in {"idle", "ping", "query", "rows"}
    /\ q \in 1..(Len(queries) + 1)
    /\ outcome \in {"none", "ok", "error"}
    /\ ctxDone \in BOOLEAN /\ closed \in BOOLEAN
    /\ truncated \in {"no", "deadline", "connection"}
    /\ pc # "idle" => Len(served) = q - (IF pc = "rows" THEN 0 ELSE 1)

\* What a query reports for a result set that is read to its end.
QueryReference(query, rows) ==
    IF query.kind = "column"
    THEN FlattenSeq([i \in DOMAIN rows |-> ColumnRowMetrics(query, rows[i])])
    ELSE [k \in DOMAIN query.Metrics |->
            LET i == CHOOSE i \in DOMAIN rows :
                        /\ Lower(rows[i].vals[1]) = query.Metrics[k]
                        /\ \A j \in (i + 1)..Len(rows) :
                              Lower(rows[j].vals[1]) # query.Metrics[k]
            IN  RowRowEntry(rows[i])]

\* A Collect that succeeds returns what the rows say that it was given, query
\* by query, a later row of a key replacing an earlier one. After a break these
\* are the rows before it: no metric is made up, mixed up or reported twice.
SuccessMatchesRows ==
    outcome = "ok" =>
        metrics = FlattenSeq([i \in DOMAIN queries |->
                                QueryReference(queries[i], served[i])])

\* A Collect that succeeds, broken result sets included, has every key of
\* every row query: a row query cut short before a key is an error.
RowKeysNeverMissing ==
    outcome = "ok" =>
        \A i \in DOMAIN queries :
            queries[i].kind = "row" => Range(queries[i].Metrics) \subseteq KeysOf(metrics)

\* Collect returns once its deadline has passed, whatever the server does.
CollectTerminates == (pc # "idle") ~> (pc = "idle")

\* A query that the deadline of the collection interrupts is an error.
DeadlineIsAnError == truncated = "deadline" => outcome # "ok"
=============================================================================
