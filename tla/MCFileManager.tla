----------------------------- MODULE MCFileManager -----------------------------
(***************************************************************************)
(* Two transfers, of three files and of one, and three workers: the default  *)
(* pool of a session has a worker each for High, Normal and Low, and all   *)
(* three take the High jobs that carry received data.                      *)
(***************************************************************************)
EXTENDS FileManager, TLC

CONSTANTS g1, g2, f1, f2, f3, f4, w1, w2, w3

MCGuids == {g1, g2}
MCFiles == {f1, f2, f3, f4}
MCWorkers == {w1, w2, w3}
MCBroken == {f2}
TwoTransfers == (f1 :> g1) @@ (f2 :> g1) @@ (f3 :> g1) @@ (f4 :> g2)
=============================================================================
