------------------------------- MODULE Server -------------------------------
(***************************************************************************)
(* A NetworkServer: its threads, its own pool, its sessions and mutex_.    *)
(* mutex_ is held while the workers of a session, and those of the server, *)
(* are joined.  A session is what the server sees of it: its condition,    *)
(* the notifications in the queue of its pool, and one worker.             *)
(***************************************************************************)
EXTENDS StopProtocol, Sequences, FiniteSets

CONSTANTS Sessions, None,
          CallbacksSend  \* the callbacks of the application send to sessions

VARIABLES
  mutex,      \* who holds mutex_ of the server: a thread, "handler" or None
  sessions,   \* sessions_
  condition,  \* per session, its condition, "new" or "gone"
  dropping,   \* the sessions that the holder of mutex_ has to stop
  joining,    \* the session whose workers it joins, or None
  notes,      \* per session, the notifications in the queue of its pool
  worker,     \* per session, its worker: "idle" or "sends"
  acceptor,   \* acceptor_ waits for a connection
  jobs,       \* the received_connection_jobs of the pool of the server
  handler,    \* the worker of that pool: the job's step
  stranded,   \* the sessions whose io_context is gone
  late,       \* history: sessions that drop_sessions() has missed: accepted
              \* while it was at work, or running when start() destroyed
  informed    \* history: sessions whose end the application was told of

server == <<mutex, sessions, condition, dropping, joining, notes, worker,
            acceptor, jobs, handler, stranded, late, informed>>
vars == <<protocol, server>>
live == <<notes, worker, jobs, handler, stranded, informed>>

Running(s) == condition[s] \in {"waiting", "confirmed", "expired"}

Init ==
  /\ ProtocolInit
  /\ mutex = None
  /\ sessions = {} /\ dropping = {} /\ joining = None
  /\ condition = [s \in Sessions |-> "new"]
  /\ notes = [s \in Sessions |-> <<>>]
  /\ worker = [s \in Sessions |-> "idle"]
  /\ acceptor = FALSE /\ jobs = <<>> /\ handler = "idle"
  /\ stranded = {} /\ late = {} /\ informed = {}

-----------------------------------------------------------------------------
(* start(), and the two parts of taking the server down.                   *)

\* start() calls stop() first, and create_io_context() destroys once more.
CallStart(c) == Call(c, "stop", "renew") /\ UNCHANGED server

Renew(c) ==
  /\ At(c, "renew")
  /\ thread' = [thread EXCEPT ![c] = [step |-> "destroy", then |-> "create"]]
  /\ UNCHANGED <<context, promise, future, calls, leftOver, server>>

\* create_io_context() may fail: the port is taken.
Create(c) ==
  /\ At(c, "create") /\ mutex = None
  /\ context' \in BOOLEAN
  /\ acceptor' = context'
  /\ Finish(c)
  /\ UNCHANGED <<promise, future, calls, leftOver, mutex, sessions, condition,
                 dropping, joining, live, late>>

\* drop_sessions(): takes all of them, under the lock.
Drop(c) ==
  /\ At(c, "drop") /\ mutex = None
  /\ mutex' = c
  /\ dropping' = sessions /\ sessions' = {}
  /\ Goes(c, "stop_sessions")
  /\ UNCHANGED <<context, promise, future, calls, leftOver, condition, joining,
                 acceptor, live, late>>

\* NetworkSession::stop() by the holder of mutex_: the session expires, its pool
\* is locked and emptied, and its workers are joined.  drop_sessions() has
\* removed the callbacks before, so that nobody is told.
StopSession(s) ==
  /\ joining = None /\ s \in dropping
  /\ joining' = s
  /\ condition' = [condition EXCEPT ![s] = "expired"]
  /\ notes' = [notes EXCEPT ![s] = <<>>]
  /\ UNCHANGED <<protocol, mutex, sessions, dropping, worker, acceptor, jobs,
                 handler, stranded, late, informed>>

SessionJoined(s) ==
  /\ joining = s /\ worker[s] = "idle"
  /\ joining' = None
  /\ dropping' = dropping \ {s}
  /\ condition' = [condition EXCEPT ![s] = "gone"]
  /\ UNCHANGED <<protocol, mutex, sessions, acceptor, live, late>>

\* Mutant: mutex_ is never released.
DroppedLocked(c) ==
  /\ At(c, "stop_sessions") /\ dropping = {}
  /\ Goes(c, "destroy")
  /\ UNCHANGED <<context, promise, future, calls, leftOver, mutex, sessions,
                 condition, dropping, joining, acceptor, live, late>>

Dropped(c) ==
  /\ At(c, "stop_sessions") /\ dropping = {}
  /\ mutex' = None
  /\ Goes(c, "destroy")
  /\ UNCHANGED <<context, promise, future, calls, leftOver, sessions, condition,
                 dropping, joining, acceptor, live, late>>

\* destroy_io_context(): locks the pool, closes the acceptor, stops the
\* io_context, ...
Destroy(c) ==
  /\ At(c, "destroy") /\ mutex = None
  /\ mutex' = c
  /\ acceptor' = FALSE /\ context' = FALSE /\ jobs' = <<>>
  /\ stranded' = stranded \cup sessions
  /\ late' = IF thread[c].then = "create" THEN late \cup sessions ELSE late
  /\ Goes(c, "join")
  /\ UNCHANGED <<promise, future, calls, leftOver, sessions, condition, dropping,
                 joining, notes, worker, handler, informed>>

\* ... and joins the workers.
Joined(c) ==
  /\ At(c, "join") /\ handler = "idle"
  /\ mutex' = None
  /\ Finish(c)
  /\ UNCHANGED <<context, promise, future, calls, leftOver, sessions, condition,
                 dropping, joining, acceptor, live, late>>

-----------------------------------------------------------------------------
(* The io thread and the sessions.                                         *)

Dropper == \E c \in Callers : At(c, "stop_sessions") \/ At(c, "destroy")

\* The handler of wait_connection(): sessions_ is written without mutex_.
AcceptConnection(s) ==
  /\ context /\ acceptor /\ condition[s] = "new"
  /\ condition' = [condition EXCEPT ![s] = "waiting"]
  /\ sessions' = sessions \cup {s}
  /\ late' = IF Dropper THEN late \cup {s} ELSE late
  /\ UNCHANGED <<protocol, mutex, dropping, joining, acceptor, live>>

\* received_connection(): confirmed, or refused, and a notification; in either
\* case its worker; the same assignment when the io thread loses the socket.
Becomes(s, new, told) ==
  /\ condition' = [condition EXCEPT ![s] = new]
  /\ notes' = IF joining = s THEN notes
              ELSE [notes EXCEPT ![s] = Append(@, told)]
  /\ UNCHANGED <<protocol, mutex, sessions, dropping, joining, worker, acceptor,
                 jobs, handler, stranded, late, informed>>

Confirmed(s) == condition[s] = "waiting" /\ Becomes(s, "confirmed", TRUE)
Lost(s) == /\ context /\ s \notin stranded
           /\ condition[s] \in {"waiting", "confirmed"}
           /\ Becomes(s, "expired", FALSE)

\* The job of the session's pool calls received_connection() of the server,
\* whose pool refuses jobs when it is locked.
NotifyServer(s) ==
  /\ worker[s] = "idle" /\ Running(s) /\ notes[s] # <<>>
  /\ notes' = [notes EXCEPT ![s] = Tail(@)]
  /\ jobs' = IF context THEN Append(jobs, [about |-> s, told |-> Head(notes[s])])
             ELSE jobs
  /\ UNCHANGED <<protocol, mutex, sessions, condition, dropping, joining, worker,
                 acceptor, handler, stranded, late, informed>>

\* A message has arrived: its callback may call send_message(), which takes
\* mutex_ for a moment.
CallApplication(s) ==
  /\ worker[s] = "idle" /\ condition[s] = "confirmed" /\ joining # s
  /\ CallbacksSend
  /\ worker' = [worker EXCEPT ![s] = "sends"]
  /\ UNCHANGED <<protocol, mutex, sessions, condition, dropping, joining, notes,
                 acceptor, jobs, handler, stranded, late, informed>>

SendToSessions(s) ==
  /\ worker[s] = "sends" /\ mutex = None
  /\ worker' = [worker EXCEPT ![s] = "idle"]
  /\ UNCHANGED <<protocol, mutex, sessions, condition, dropping, joining, notes,
                 acceptor, jobs, handler, stranded, late, informed>>

-----------------------------------------------------------------------------
(* received_connection_handler(), on a worker of the server.               *)

TakeJob ==
  /\ handler = "idle" /\ jobs # <<>>
  /\ handler' = IF Head(jobs).told THEN "callback" ELSE "lock"
  /\ informed' = IF Head(jobs).told THEN informed ELSE informed \cup {Head(jobs).about}
  /\ jobs' = Tail(jobs)
  /\ UNCHANGED <<protocol, mutex, sessions, condition, dropping, joining, notes,
                 worker, acceptor, stranded, late>>

\* Mutant: the sessions that have not expired are erased.
EraseConfirmed ==
  /\ handler = "lock" /\ mutex = None
  /\ mutex' = "handler" /\ handler' = "erase"
  /\ dropping' = {s \in sessions : condition[s] = "confirmed"}
  /\ sessions' = sessions \ dropping'
  /\ UNCHANGED <<protocol, condition, joining, notes, worker, acceptor, jobs,
                 stranded, late, informed>>

\* Every session that has expired is erased; its destructor stops it.
EraseExpired ==
  /\ handler = "lock" /\ mutex = None
  /\ mutex' = "handler" /\ handler' = "erase"
  /\ dropping' = {s \in sessions : condition[s] = "expired"}
  /\ sessions' = sessions \ dropping'
  /\ UNCHANGED <<protocol, condition, joining, notes, worker, acceptor, jobs,
                 stranded, late, informed>>

Erased ==
  /\ handler = "erase" /\ dropping = {}
  /\ mutex' = None /\ handler' = "callback"
  /\ UNCHANGED <<protocol, sessions, condition, dropping, joining, notes, worker,
                 acceptor, jobs, stranded, late, informed>>

Tell ==
  /\ handler = "callback"
  /\ CallbacksSend => mutex = None
  /\ handler' = "idle"
  /\ UNCHANGED <<protocol, mutex, sessions, condition, dropping, joining, notes,
                 worker, acceptor, jobs, stranded, late, informed>>

Handler == TakeJob \/ EraseExpired \/ Erased \/ Tell
Next ==
  \/ \E c \in Starters : CallStart(c) \/ (CallWaitStop(c) /\ UNCHANGED server)
  \/ \E c \in Stoppers : CallStop(c) /\ UNCHANGED server
  \/ \E c \in Callers :
       \/ (ProtocolStep(c) \/ TimeOut(c)) /\ UNCHANGED server
       \/ Renew(c) \/ Create(c) \/ Drop(c) \/ Dropped(c) \/ Destroy(c)
       \/ Joined(c)
  \/ \E s \in Sessions :
       \/ AcceptConnection(s) \/ Confirmed(s) \/ Lost(s) \/ NotifyServer(s)
       \/ CallApplication(s) \/ SendToSessions(s)
       \/ StopSession(s) \/ SessionJoined(s)
  \/ Handler

Spec == Init /\ [][Next]_vars

\* Threads in a call, workers and the holder of mutex_ go on; nobody has to
\* call anything, and no connection has to come or to be lost.
Fairness ==
  /\ \A c \in Callers :
       WF_vars(\/ ProtocolStep(c) /\ UNCHANGED server
               \/ Renew(c) \/ Create(c) \/ Drop(c) \/ Dropped(c) \/ Destroy(c)
               \/ Joined(c))
  /\ \A s \in Sessions :
       /\ WF_vars(NotifyServer(s)) /\ WF_vars(SendToSessions(s))
       /\ WF_vars(StopSession(s)) /\ WF_vars(SessionJoined(s))
  /\ WF_vars(Handler)

-----------------------------------------------------------------------------
(* Properties.                                                             *)

TypeOK ==
  /\ ProtocolTypeOK
  /\ mutex \in Callers \cup {"handler", None}
  /\ condition \in [Sessions -> {"new", "waiting", "confirmed", "expired", "gone"}]
  /\ worker \in [Sessions -> {"idle", "sends"}]
  /\ handler \in {"idle", "lock", "erase", "callback"}
  /\ joining \in Sessions \cup {None}
  /\ dropping # {} => mutex # None

\* The holder of mutex_ joins a worker that waits for mutex_: a session's
\* worker in a callback that sends, or the server's worker that handles the
\* end of a session (NetworkServer.cpp:619).
Stuck ==
  \/ joining # None /\ worker[joining] = "sends"
  \/ /\ \E c \in Callers : At(c, "join")
     /\ handler = "lock" \/ (handler = "callback" /\ CallbacksSend)

\* start(), stop() and a wait_stop() that has been signalled return, unless the
\* server is Stuck.
InCall(c) == ~At(c, "idle") /\ ~(Waits(c) /\ future # "ready")
CallsReturn == \A c \in Callers : InCall(c) ~> ~InCall(c) \/ Stuck

\* A session whose connection is lost is erased, and the application is told,
\* while the server runs.
LostIsErased ==
  \A s \in Sessions :
     condition[s] = "expired" /\ s \notin late
        ~> (s \notin sessions /\ s \in informed) \/ ~context \/ Stuck

\* When the server has been taken down no session is left running, but for
\* those accepted while drop_sessions() was at work, and those of a server that
\* start() found running and whose stop() only signalled a promise: they stay in
\* sessions_, with their threads, on an io_context that is gone
\* (NetworkServer.cpp:603 and 59).
NoneLeftRunning ==
  ~context /\ (\A c \in Callers : At(c, "idle"))
     => \A s \in Sessions : Running(s) => s \in late
=============================================================================
