------------------------------- MODULE MCLogger -------------------------------
(***************************************************************************)
(* A small logger for TLC, with the modes of the samples: the file takes   *)
(* Information (3) and above, the console Error (2), nobody takes Packet.  *)
(***************************************************************************)
EXTENDS Logger, TLC

CONSTANTS m1, m2, m3

MCMessages == {m1, m2, m3}
MCLevelOf == (m1 :> 2) @@ (m2 :> 3) @@ (m3 :> 7)
=============================================================================
