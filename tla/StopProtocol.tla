---------------------------- MODULE StopProtocol ----------------------------
(***************************************************************************)
(* wait_stop() and stop() of a NetworkServer (NetworkServer.cpp 214-277)   *)
(* and of a NetworkClient (NetworkClient.cpp 85-149): a promise that one   *)
(* thread waits for and another fulfils.  The module that uses it says     *)
(* what start() creates and what taking down does: a thread in step "drop" *)
(* is handed over to it and comes back through Finish.                     *)
(***************************************************************************)
EXTENDS Naturals

CONSTANTS Starters,  \* the threads that may call start() and wait_stop()
          Stoppers,  \* the threads that may call stop()
          MaxCalls   \* per thread, a bound on its calls

VARIABLES
  context,   \* io_context_: TRUE when there is one
  promise,   \* promise_status_: "null", "made", or "taken" by get_future()
  future,    \* future_status_: "invalid", "waiting" or "ready"
  thread,    \* per thread, the step it is in and the one that follows
  calls,     \* per thread, the calls it has made
  leftOver   \* history: a wait has ended; its future_status_ stays valid, and
             \* when it has timed out promise_status_ stays as well

Callers == Starters \cup Stoppers
protocol == <<context, promise, future, thread, calls, leftOver>>
Idle == [step |-> "idle", then |-> "idle"]
At(c, step) == thread[c].step = step
Goes(c, step) == thread' = [thread EXCEPT ![c].step = step]
Waits(c) == At(c, "wait") \/ At(c, "wait_for")

ProtocolInit ==
  /\ context = FALSE /\ promise = "null" /\ future = "invalid"
  /\ thread = [c \in Callers |-> Idle]
  /\ calls = [c \in Callers |-> 0]
  /\ leftOver = FALSE

Call(c, step, then) ==
  /\ At(c, "idle")
  /\ calls[c] < MaxCalls[c]
  /\ calls' = [calls EXCEPT ![c] = @ + 1]
  /\ thread' = [thread EXCEPT ![c] = [step |-> step, then |-> then]]
  /\ UNCHANGED <<context, promise, future, leftOver>>

CallStop(c) == Call(c, "stop", "idle")
CallWaitStop(c) == context /\ Call(c, "make", "idle")

\* The call goes on with what follows stop(), or returns.
Finish(c) ==
  thread' = [thread EXCEPT ![c] = [step |-> @.then, then |-> "idle"]]

MakePromise(c) ==
  /\ At(c, "make")
  /\ promise' = IF promise = "null" THEN "made" ELSE promise
  /\ Goes(c, "take")
  /\ UNCHANGED <<context, future, calls, leftOver>>

\* get_future(): throws when the future was taken before.  A promise that a
\* stop() has fulfilled since it was made is null: what happens is undefined,
\* here the call ends.
TakeFuture(c) ==
  /\ At(c, "take")
  /\ \/ /\ promise = "made"
        /\ promise' = "taken" /\ future' = "waiting"
        /\ \E step \in {"wait", "wait_for"} : Goes(c, step)
     \/ /\ promise # "made"
        /\ Goes(c, "idle")
        /\ UNCHANGED <<promise, future>>
  /\ UNCHANGED <<context, calls, leftOver>>

EndWait(c) ==
  /\ Waits(c) /\ future = "ready"
  /\ Goes(c, "drop")
  /\ leftOver' = TRUE
  /\ UNCHANGED <<context, promise, future, calls>>

\* wait_for() returns without a stop().
TimeOut(c) ==
  /\ At(c, "wait_for") /\ future = "waiting"
  /\ Goes(c, "drop")
  /\ leftOver' = TRUE
  /\ UNCHANGED <<context, promise, future, calls>>

StopsNothing(c) ==
  /\ At(c, "stop") /\ ~context
  /\ Finish(c)
  /\ UNCHANGED <<context, promise, future, calls, leftOver>>

\* Mutant: future_status_ is not looked at.
StopSignalsAny(c) ==
  /\ At(c, "stop") /\ context
  /\ promise # "null"
  /\ promise' = "null"
  /\ future' = IF promise = "taken" THEN "ready" ELSE future
  /\ Finish(c)
  /\ UNCHANGED <<context, calls, leftOver>>

\* stop() leaves the rest to the thread that waits.  future_status_ may be one
\* of an earlier wait: the value then goes to a promise nobody has taken.
StopSignals(c) ==
  /\ At(c, "stop") /\ context
  /\ promise # "null" /\ future # "invalid"
  /\ promise' = "null"
  /\ future' = IF promise = "taken" THEN "ready" ELSE future
  /\ Finish(c)
  /\ UNCHANGED <<context, calls, leftOver>>

StopDrops(c) ==
  /\ At(c, "stop") /\ context
  /\ promise = "null" \/ future = "invalid"
  /\ Goes(c, "drop")
  /\ UNCHANGED <<context, promise, future, calls, leftOver>>

\* What a thread in a call does next, whatever the module that uses it adds.
ProtocolStep(c) ==
  \/ MakePromise(c) \/ TakeFuture(c) \/ EndWait(c)
  \/ StopsNothing(c) \/ StopSignals(c) \/ StopDrops(c)

ProtocolTypeOK ==
  /\ context \in BOOLEAN /\ leftOver \in BOOLEAN
  /\ promise \in {"null", "made", "taken"}
  /\ future \in {"invalid", "waiting", "ready"}
  /\ \A c \in Callers : calls[c] \in 0..MaxCalls[c]

\* Until a first wait has ended, a stop() that only signals finds a thread that
\* waits and will take the rest down.  Afterwards it may find what that wait has
\* left: then nobody is told (NetworkServer.cpp:265, NetworkClient.cpp:137).
SignalIsHeard ==
  [][\A c \in Callers :
       At(c, "stop") /\ context /\ promise # "null" /\ promise' = "null"
         => leftOver \/ \E d \in Callers : Waits(d)]_protocol
=============================================================================
