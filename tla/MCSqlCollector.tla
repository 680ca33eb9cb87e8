--------------------------- MODULE MCSqlCollector ---------------------------
(***************************************************************************)
(* SqlCollector with three tables: the ones of MySQL and PostgreSQL, and a *)
(* small one whose result sets contain good rows, rows with a missing or   *)
(* misplaced column, rows that cannot be scanned and repeated keys in      *)
(* either case.                                                            *)
(***************************************************************************)
EXTENDS SqlDrivers

CONSTANT MaxRows    \* longest result set of the small table

\* A row query before a column query, as in the MySQL collector.
SmallRowQuery == RowQuery(<<"k", "l">>, <<"k", "l">>)

SmallColumnQuery == ColumnQuery(<<"a", "b", "tag">>, <<"a", "b">>)

SmallTable == <<SmallRowQuery, SmallColumnQuery>>

Tables == {SmallTable, mysqlMetricQueries, postgresMetricQueries}

Row(names, vals) == [names |-> names, vals |-> vals, scans |-> TRUE]

Unscannable(row) == [row EXCEPT !.scans = FALSE]

ColumnRows ==
    LET good == Row(<<"a", "b", "tag">>, <<1, 2, 7>>)
    IN  {good, Unscannable(good),
         Row(<<"b", "a", "source">>, <<3, 4, 8>>),
         Row(<<"a">>, <<1>>),
         Row(<<"a", "tag", "b">>, <<1, 2, 7>>)}

RowRows ==
    LET good == Row(<<"name", "value">>, <<<<"small", "k">>, 1>>)
    IN  {good, Unscannable(good),
         Row(<<"name", "value", "tag">>, <<Capital("k"), 2, 7>>),
         Row(<<"name", "value">>, <<<<"small", "l">>, 3>>),
         Row(<<"name">>, <<<<"small", "l">>>>)}

MCResultSets(query) ==
    CASE query = SmallRowQuery -> UNION {[1..n -> RowRows] : n \in 0..MaxRows}
      [] query = SmallColumnQuery -> UNION {[1..n -> ColumnRows] : n \in 0..MaxRows}
      [] OTHER -> ServerAnswers(query)
=============================================================================
