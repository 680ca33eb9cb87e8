--------------------------- MODULE MCProcessGroup ---------------------------
(***************************************************************************)
(* ProcessGroup for TLC: one worker id, with goroutines enough for it to   *)
(* end and to be started again before and after a handover.                *)
(***************************************************************************)
EXTENDS ProcessGroup, Naturals

MCGoroutine == {"w"} \X (1..2)
=============================================================================
