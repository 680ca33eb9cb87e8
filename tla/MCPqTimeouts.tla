---------------------------- MODULE MCPqTimeouts ----------------------------
(***************************************************************************)
(* PqTimeouts with the builder of main.go, where all timeouts are equal,   *)
(* and the ones of postgres_collector_test.go, where they all differ and   *)
(* where only the connection timeout is set, scaled down.                  *)
(***************************************************************************)
EXTENDS PqTimeouts

Builder(connection, read, write) ==
    [ConnectionTimeout |-> connection, ReadTimeout |-> read, WriteTimeout |-> write]

MainBuilder == {Builder(2, 2, 2)}

AllBuilders == {Builder(2, 2, 2), Builder(1, 2, 3), Builder(1, 0, 0)}
=============================================================================
