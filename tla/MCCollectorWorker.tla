-------------------------- MODULE MCCollectorWorker --------------------------
(***************************************************************************)
(* CollectorWorker with a prefix that has to be converted, a database that *)
(* is being created, one whose GUID looks like an identifier of the other, *)
(* and one of an engine without metrics.                                   *)
(***************************************************************************)
EXTENDS CollectorWorker

MCPrefix == <<"p", "_">>

Database(guid, engine, endpoint) ==
    [DBInstanceIdentifier |-> DbInstanceIdentifier(guid), Engine |-> engine,
     Endpoint |-> endpoint]

MCDatabases ==
    {Database(<<"a">>, "postgres", Nil),
     Database(<<"p", "-", "-", "a">>, "mysql",
              Endpoint(DbInstanceIdentifier(<<"p", "-", "-", "a">>), 1)),
     Database(<<"b">>, "other", Nil)}
=============================================================================
