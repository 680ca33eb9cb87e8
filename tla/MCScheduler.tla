---------------------------- MODULE MCScheduler ----------------------------
(***************************************************************************)
(* Instances of Scheduler for TLC: two engines, the CloudWatch driver that *)
(* accepts both of them and the SQL driver of one of them.                 *)
(***************************************************************************)
EXTENDS Scheduler

CONSTANTS pg, my,          \* a PostgreSQL and a MySQL instance
          postgres, cloudwatch

MCTypeOf == [g \in GUID |-> IF g = pg THEN "postgres" ELSE "mysql"]

MCSupportedTypes ==
    [d \in Driver |-> IF d = cloudwatch THEN {"postgres", "mysql"}
                      ELSE {"postgres"}]
=============================================================================
