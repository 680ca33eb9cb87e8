----------------------- MODULE MCCloudWatchCollector -----------------------
(***************************************************************************)
(* CloudWatchCollector with three metrics and answers that are empty,      *)
(* unordered, or have two datapoints of the same time.                     *)
(***************************************************************************)
EXTENDS CloudWatchCollector

Datapoint(t, v) == [Timestamp |-> t, Average |-> v]

MCAnswers ==
    {<<>>, <<Datapoint(1, 5)>>,
     <<Datapoint(2, 7), Datapoint(1, 5)>>,
     <<Datapoint(1, 5), Datapoint(3, 8), Datapoint(2, 7)>>,
     <<Datapoint(2, 7), Datapoint(2, 6)>>}
=============================================================================
