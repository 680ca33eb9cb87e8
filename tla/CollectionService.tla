-------------------------- MODULE CollectionService --------------------------
(***************************************************************************)
(* What the scheduler promises the process that runs it, with nothing said *)
(* about how: goroutines are started only while the service runs, never    *)
(* two for one worker id; a goroutine opens and closes one collector and   *)
(* does not end with it open; and the service returns when none is left.   *)
(***************************************************************************)
CONSTANT Goroutine    \* pairs whose first component is a worker id

VARIABLES
    phase,            \* what the caller of Run sees of the service
    active,           \* the goroutines that have started and not ended
    open              \* those of them that hold an open collector

vars == <<phase, active, open>>

Init == phase = "off" /\ active = {} /\ open = {}

Begin ==
    /\ phase = "off"
    /\ phase' = "running" /\ UNCHANGED <<active, open>>

Start(g) ==
    /\ phase = "running"
    /\ \A h \in active : h[1] # g[1]
    /\ active' = active \cup {g} /\ UNCHANGED <<phase, open>>

Open(g) ==
    /\ g \in active \ open
    /\ open' = open \cup {g} /\ UNCHANGED <<phase, active>>

Close(g) ==
    /\ g \in open
    /\ open' = open \ {g} /\ UNCHANGED <<phase, active>>

End(g) ==
    /\ g \in active \ open
    /\ active' = active \ {g} /\ UNCHANGED <<phase, open>>

Shutdown ==
    /\ phase = "running"
    /\ phase' = "draining" /\ UNCHANGED <<active, open>>

Finish ==
    /\ phase = "draining" /\ active = {}
    /\ phase' = "returned" /\ UNCHANGED <<active, open>>

Next ==
    \/ Begin \/ Shutdown \/ Finish
    \/ \E g \in Goroutine : Start(g) \/ Open(g) \/ Close(g) \/ End(g)

Spec == Init /\ [][Next]_vars
=============================================================================
