------------------------------- MODULE Client -------------------------------
(***************************************************************************)
(* The life cycle of a NetworkClient (NetworkClient.cpp 42-149, 216-319):  *)
(* start(), wait_stop() and stop(), the last also from a callback on a     *)
(* worker of its own pool, where the io_context runs as a LongTerm job.    *)
(***************************************************************************)
EXTENDS StopProtocol

CONSTANTS Worker, \* the worker that runs callbacks, one of Stoppers
          None

VARIABLES
  socket,   \* socket_: TRUE when there is one
  pool,     \* thread_pool_: "null", "open" or "locked"
  mutex,    \* who holds mutex_ of the DataHandler
  selfJoin  \* history: the worker has tried to join itself

client == <<socket, pool, mutex, selfJoin>>
vars == <<protocol, client>>

Init ==
  /\ ProtocolInit
  /\ socket = FALSE /\ pool = "null" /\ mutex = None /\ selfJoin = FALSE

\* start() takes down what is left of an earlier start.
CallStart(c) == Call(c, "drop", "create") /\ UNCHANGED client

\* A callback that calls stop() runs on a worker of the pool.
CallStopHere(c) ==
  /\ c = Worker => pool # "null"
  /\ CallStop(c)
  /\ UNCHANGED client

\* create_io_context() and create_socket(), which may fail to connect.
Create(c) ==
  /\ At(c, "create")
  /\ context' = TRUE /\ pool' = "open"
  /\ \/ socket' = TRUE /\ Finish(c)
     \/ /\ socket' = FALSE
        /\ thread' = [thread EXCEPT ![c] = [step |-> "lock", then |-> "idle"]]
  /\ UNCHANGED <<promise, future, calls, leftOver, mutex, selfJoin>>

\* destroy_socket()
Drop(c) ==
  /\ At(c, "drop")
  /\ socket' = FALSE
  /\ Goes(c, "lock")
  /\ UNCHANGED <<context, promise, future, calls, leftOver, pool, mutex, selfJoin>>

\* destroy_io_context(): the pool is locked and the io_context reset, ...
LockPool(c) ==
  /\ At(c, "lock")
  /\ pool' = IF pool = "null" THEN pool ELSE "locked"
  /\ context' = FALSE
  /\ Goes(c, "enter")
  /\ UNCHANGED <<promise, future, calls, leftOver, socket, mutex, selfJoin>>

\* ... and destroy_thread_pool() joins the workers under mutex_.
EnterDestroy(c) ==
  /\ At(c, "enter") /\ mutex = None
  /\ IF pool = "null" THEN Finish(c) /\ UNCHANGED mutex
     ELSE mutex' = c /\ Goes(c, "join")
  /\ UNCHANGED <<context, promise, future, calls, leftOver, socket, pool, selfJoin>>

\* Mutant: thread_pool_ is not reset.
JoinedOnly(c) ==
  /\ At(c, "join") /\ c # Worker /\ At(Worker, "idle")
  /\ mutex' = None
  /\ Finish(c)
  /\ UNCHANGED <<context, promise, future, calls, leftOver, socket, pool, selfJoin>>

Joined(c) ==
  /\ At(c, "join") /\ c # Worker /\ At(Worker, "idle")
  /\ pool' = "null" /\ mutex' = None
  /\ Finish(c)
  /\ UNCHANGED <<context, promise, future, calls, leftOver, socket, selfJoin>>

\* A thread that joins itself throws; the pool stays, locked.
JoinsItself ==
  /\ At(Worker, "join")
  /\ mutex' = None /\ selfJoin' = TRUE
  /\ Finish(Worker)
  /\ UNCHANGED <<context, promise, future, calls, leftOver, socket, pool>>

TakesDown(c) ==
  \/ ProtocolStep(c) /\ UNCHANGED client
  \/ Create(c) \/ Drop(c) \/ LockPool(c) \/ EnterDestroy(c) \/ Joined(c)
  \/ c = Worker /\ JoinsItself

Next ==
  \/ \E c \in Starters : CallStart(c) \/ (CallWaitStop(c) /\ UNCHANGED client)
  \/ \E c \in Stoppers : CallStopHere(c)
  \/ \E c \in Callers : TakesDown(c) \/ (TimeOut(c) /\ UNCHANGED client)

Spec == Init /\ [][Next]_vars

\* A thread in a call goes on.
Fairness == \A c \in Callers : WF_vars(TakesDown(c))

-----------------------------------------------------------------------------
(* Properties.                                                             *)

TypeOK ==
  /\ ProtocolTypeOK
  /\ socket \in BOOLEAN /\ pool \in {"null", "open", "locked"}
  /\ mutex \in Callers \cup {None}

\* A thread joins the worker under mutex_ while the worker, in a stop() of its
\* own, waits for mutex_ (DataHandler.cpp:242).
Stuck == mutex \in Callers /\ At(mutex, "join") /\ ~At(Worker, "idle")

InCall(c) == ~At(c, "idle") /\ ~(Waits(c) /\ future # "ready")
CallsReturn == \A c \in Callers : InCall(c) ~> ~InCall(c) \/ Stuck

\* When the client has been taken down neither socket nor pool is left, unless
\* the worker took it down, which cannot join itself.
NothingLeft ==
  ~context /\ (\A c \in Callers : At(c, "idle"))
     => ~socket /\ (pool = "null" \/ selfJoin)
=============================================================================
