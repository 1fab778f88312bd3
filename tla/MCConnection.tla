----------------------------- MODULE MCConnection -----------------------------
(***************************************************************************)
(* A client that sends a file, with the message that announces it, and a   *)
(* session that sends a message.  InOrderWorkers is the pool of a          *)
(* DataHandler made with the counts (0, 0, 1), OnePerKind the pool of the  *)
(* counts (1, 1, 1); both with the one Top worker of every pool.           *)
(***************************************************************************)
EXTENDS Connection, TLC

CONSTANTS t1, f1, s1, top, low, normal, high

InOrderWorkers == {top, low}
OnePerKind == {top, high, normal, low}
ByPriority == (top :> <<"Top">>) @@ (high :> <<"High">>)
              @@ (normal :> <<"Normal", "High">>)
              @@ (low :> <<"Low", "High", "Normal">>)
InOrderServes == [w \in InOrderWorkers |-> ByPriority[w]]

MCMessages == [e \in Ends |-> IF e = "client" THEN {t1} ELSE {s1}]
MCFileOf == t1 :> f1
=============================================================================
