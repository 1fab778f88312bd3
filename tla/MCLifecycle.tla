----------------------------- MODULE MCLifecycle -----------------------------
(***************************************************************************)
(* A main thread that starts, waits and stops, a second thread that stops, *)
(* and a connection to the server.  For a client the second thread is the  *)
(* worker that runs its callbacks.                                         *)
(***************************************************************************)
EXTENDS Lifecycle, TLC

CONSTANTS main, other, session1

MCMaxCalls == (main :> 4) @@ (other :> 1)
=============================================================================
