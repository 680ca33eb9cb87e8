----------------------------- MODULE SqlDrivers -----------------------------
(***************************************************************************)
(* The query tables of pkg/collector/mysql_collector.go and                *)
(* postgres_collector.go, run through SqlCollector.                        *)
(*                                                                         *)
(* Selects is what the text of a query asks the server for: the columns of *)
(* a column query, the variable names of a row query. Metrics has the keys *)
(* the collector then looks for in the answer. Units are left out.         *)
(***************************************************************************)
EXTENDS SqlCollector

ColumnQuery(selects, keys) ==
    [kind |-> "column", Selects |-> selects, Metrics |-> keys]

RowQuery(selects, keys) ==
    [kind |-> "row", Selects |-> selects, Metrics |-> keys]

-----------------------------------------------------------------------------
(* MySQL *)

mysqlThreads ==
    RowQuery(<<"threads_connected", "threads_running", "threads_created",
               "connections", "queries", "questions", "aborted_clients",
               "aborted_connects">>,
             <<"threads_connected", "threads_running", "threads_created",
               "queries", "questions", "aborted_clients", "aborted_connects">>)

\* Mutant of mysqlInnodb: a key that the text of the query does not select.
mysqlInnodb_Unselected ==
    RowQuery(<<"innodb_row_lock_waits", "innodb_row_lock_time">>,
             <<"innodb_row_lock_waits", "innodb_row_lock_time",
               "innodb_log_waits">>)

mysqlInnodb ==
    RowQuery(<<"innodb_row_lock_waits", "innodb_row_lock_time",
               "innodb_num_open_files", "innodb_log_waits",
               "innodb_buffer_pool_bytes_data", "innodb_buffer_pool_bytes_dirty",
               "innodb_buffer_pool_pages_data", "innodb_buffer_pool_pages_dirty",
               "innodb_buffer_pool_pages_flushed",
               "innodb_buffer_pool_pages_free", "innodb_buffer_pool_pages_misc",
               "innodb_buffer_pool_pages_total", "innodb_buffer_pool_read_ahead",
               "innodb_buffer_pool_read_ahead_evicted",
               "innodb_buffer_pool_read_ahead_rnd",
               "innodb_buffer_pool_read_requests", "innodb_buffer_pool_reads",
               "innodb_buffer_pool_wait_free",
               "innodb_buffer_pool_write_requests">>,
             <<"innodb_row_lock_waits", "innodb_row_lock_time",
               "innodb_num_open_files", "innodb_log_waits",
               "innodb_buffer_pool_bytes_data", "innodb_buffer_pool_bytes_dirty",
               "innodb_buffer_pool_pages_data", "innodb_buffer_pool_pages_dirty",
               "innodb_buffer_pool_pages_flushed",
               "innodb_buffer_pool_pages_free", "innodb_buffer_pool_pages_misc",
               "innodb_buffer_pool_pages_total", "innodb_buffer_pool_read_ahead",
               "innodb_buffer_pool_read_ahead_evicted",
               "innodb_buffer_pool_read_ahead_rnd",
               "innodb_buffer_pool_read_requests", "innodb_buffer_pool_reads",
               "innodb_buffer_pool_wait_free",
               "innodb_buffer_pool_write_requests">>)

mysqlMaxConnections == ColumnQuery(<<"max_connections">>, <<"max_connections">>)

\* Mutant of mysqlConnectionErrors: the query before it, pasted.
mysqlConnectionErrors_Pasted ==
    ColumnQuery(<<"max_connections">>, <<"max_connections">>)

mysqlConnectionErrors ==
    ColumnQuery(<<"connection_errors">>, <<"connection_errors">>)

mysqlMetricQueries ==
    <<mysqlThreads, mysqlInnodb, mysqlMaxConnections, mysqlConnectionErrors>>

-----------------------------------------------------------------------------
(* PostgreSQL *)

postgresConnections == ColumnQuery(<<"connections">>, <<"connections">>)

postgresMaxConnections ==
    ColumnQuery(<<"max_connections">>, <<"max_connections">>)

postgresDbsize == ColumnQuery(<<"dbsize", "dbname">>, <<"dbsize">>)

postgresDatabase ==
    ColumnQuery(<<"deadlocks", "commits", "rollbacks", "blocks_read",
                  "blocks_hit", "read_time", "write_time", "temp_bytes",
                  "dbname">>,
                <<"deadlocks", "commits", "rollbacks", "blocks_read",
                  "blocks_hit", "read_time", "write_time", "temp_bytes">>)

postgresScans ==
    ColumnQuery(<<"seq_scan", "idx_scan", "dbname">>, <<"seq_scan", "idx_scan">>)

postgresBlocked ==
    ColumnQuery(<<"blocked_connections">>, <<"blocked_connections">>)

postgresTxAge == ColumnQuery(<<"max_tx_age">>, <<"max_tx_age">>)

postgresSystemTxAge ==
    ColumnQuery(<<"max_system_tx_age">>, <<"max_system_tx_age">>)

postgresMetricQueries ==
    <<postgresConnections, postgresMaxConnections, postgresDbsize,
      postgresDatabase, postgresScans, postgresBlocked, postgresTxAge,
      postgresSystemTxAge>>

-----------------------------------------------------------------------------
(* What a server answers *)

\* The server writes the name of a status variable with a capital.
Capital(name) == <<"capital", name>>

\* The answer to a query that has all it selects.
CompleteAnswer(query) ==
    IF query.kind = "column"
    THEN <<[names |-> query.Selects, vals |-> [i \in DOMAIN query.Selects |-> i],
           scans |-> TRUE]>>
    ELSE [i \in DOMAIN query.Selects |->
            [names |-> <<"VARIABLE_NAME", "VARIABLE_VALUE">>,
             vals |-> <<Capital(query.Selects[i]), i>>, scans |-> TRUE]]

IsComplete(query, rows) == ToSet(rows) = ToSet(CompleteAnswer(query))

\* Complete answers in two orders, answers without one row, and answers with
\* one value that is NULL and cannot be scanned.
ServerAnswers(query) ==
    LET full == CompleteAnswer(query)
    IN  {full, Reverse(full)}
           \cup {RemoveAt(full, k) : k \in DOMAIN full}
           \cup {[full EXCEPT ![k].scans = FALSE] : k \in DOMAIN full}

-----------------------------------------------------------------------------
(* Properties *)

\* Reading rows makes a collection fail only when the deadline passed, or when
\* the rows that came, all or those before a break, lack something the query
\* selects: no key of the tables is missing from what their queries ask for.
OnlyIncompleteAnswersFail ==
    [][pc = "rows" /\ outcome' = "error" =>
          ctxDone \/ ~IsComplete(queries[q], served[q])]_vars

\* The README's "MySQL-specific metrics" and "PostgreSQL-specific metrics".
MysqlListed ==
    {"threads_connected", "threads_running", "threads_created", "queries",
     "questions", "aborted_clients", "aborted_connects",
     "innodb_row_lock_waits", "innodb_row_lock_time",
     "innodb_num_open_files", "innodb_log_waits",
     "innodb_buffer_pool_bytes_data", "innodb_buffer_pool_bytes_dirty",
     "innodb_buffer_pool_pages_data", "innodb_buffer_pool_pages_dirty",
     "innodb_buffer_pool_pages_flushed", "innodb_buffer_pool_pages_free",
     "innodb_buffer_pool_pages_misc", "innodb_buffer_pool_pages_total",
     "innodb_buffer_pool_read_ahead",
     "innodb_buffer_pool_read_ahead_evicted",
     "innodb_buffer_pool_read_ahead_rnd", "innodb_buffer_pool_read_requests",
     "innodb_buffer_pool_reads", "innodb_buffer_pool_wait_free",
     "innodb_buffer_pool_write_requests", "max_connections",
     "connection_errors"}

PostgresListed ==
    {"connections", "max_connections", "dbsize", "deadlocks", "commits",
     "rollbacks", "blocks_read", "blocks_hit", "read_time", "write_time",
     "temp_bytes", "seq_scan", "idx_scan", "blocked_connections",
     "max_tx_age", "max_system_tx_age"}

\* Every column query was answered with one row.
OneRowEach ==
    \A i \in DOMAIN queries : queries[i].kind = "column" => Len(served[i]) = 1

Reports(listed) == KeysOf(metrics) = listed /\ Len(metrics) = Cardinality(listed)

\* A collection that succeeds, with one row for each column query, reports each
\* metric that the README lists for the engine, once, and no other.
ExportsListed ==
    outcome = "ok" /\ OneRowEach =>
        /\ queries = mysqlMetricQueries => Reports(MysqlListed)
        /\ queries = postgresMetricQueries => Reports(PostgresListed)
=============================================================================
