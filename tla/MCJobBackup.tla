----------------------------- MODULE MCJobBackup -----------------------------
(***************************************************************************)
(* Two payloads and two jobs, in queues of different priorities: either    *)
(* both payloads wait side by side, or one of them is recovered and built  *)
(* into the second job.                                                    *)
(***************************************************************************)
EXTENDS JobBackup, TLC

CONSTANTS high, low, p1, p2

MCPriorities == {high, low}
MCPriorityOf == (1 :> high) @@ (2 :> low)
=============================================================================
