----------------------------- MODULE Lifecycle -----------------------------
(***************************************************************************)
(* The life cycles of a NetworkServer and of a NetworkClient under one     *)
(* StopProtocol: a behaviour is one of the server or one of the client.    *)
(***************************************************************************)
EXTENDS StopProtocol, Sequences, FiniteSets

CONSTANTS Sessions, CallbacksSend, Worker, None

ASSUME LifecycleAssumption ==
  /\ Worker \in Stoppers \ Starters
  /\ MaxCalls \in [Starters \cup Stoppers -> Nat]
  /\ CallbacksSend \in BOOLEAN
  /\ None \notin Starters \cup Stoppers \cup Sessions
  /\ "handler" \notin Starters \cup Stoppers \cup {None}

VARIABLES kind,
          mutex, sessions, condition, dropping, joining, notes, worker, acceptor,
          jobs, handler, stranded, late, informed,
          socket, pool, selfJoin

serverOnly == <<sessions, condition, dropping, joining, notes, worker, acceptor,
                jobs, handler, stranded, late, informed>>
clientOnly == <<socket, pool, selfJoin>>
vars == <<protocol, kind, mutex, serverOnly, clientOnly>>

S == INSTANCE Server
C == INSTANCE Client

\* The variables of the other kind stay as they are.
Init == kind \in {"server", "client"} /\ S!Init /\ C!Init

ServerNext == kind = "server" /\ S!Next /\ UNCHANGED <<kind, clientOnly>>
ClientNext == kind = "client" /\ C!Next /\ UNCHANGED <<kind, serverOnly>>

Spec == Init /\ [][ServerNext \/ ClientNext]_vars
FairSpec == Spec /\ (kind = "server" => S!Fairness)
                 /\ (kind = "client" => C!Fairness)

-----------------------------------------------------------------------------
(* What is promised of both, and of each.                                  *)

TypeOK == S!TypeOK /\ (kind = "client" => C!TypeOK)

\* start(), stop() and a signalled wait_stop() return, unless the holder of a
\* mutex joins a thread that waits for it.
CallsReturn == /\ kind = "server" => S!CallsReturn
               /\ kind = "client" => C!CallsReturn

\* When a call has taken the server or the client down, no session, socket or
\* thread is left running, but for sessions accepted meanwhile and for a client
\* that has stopped itself.
NothingIsLeft == /\ kind = "server" => S!NoneLeftRunning
                 /\ kind = "client" => C!NothingLeft

LifecycleInv == TypeOK /\ NothingIsLeft

\* A session whose connection is lost is erased while the server runs.
LostIsErased == kind = "server" => S!LostIsErased
=============================================================================
