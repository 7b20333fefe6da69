------------------------------- MODULE MCSched -------------------------------
(* Instances of Sched for TLC. *)
EXTENDS Sched, TLC

CONSTANTS t1, t2, t3

(* Two tasks of one priority level (priority 7 is masked to 3) and one of  *)
(* a lower level.                                                          *)
MCPrio == (t1 :> 7 @@ t2 :> 3 @@ t3 :> 1)
MCPrioPair == (t1 :> 3 @@ t2 :> 1)
=============================================================================
