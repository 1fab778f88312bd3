---------------------------- MODULE LifecycleProofs ----------------------------
(***************************************************************************)
(* What holds of a server and of a client whatever their threads call: the *)
(* types, that a first signal is heard, and that nothing is left running   *)
(* when they have been taken down.                                         *)
(***************************************************************************)
EXTENDS Lifecycle, SequenceTheorems, TLAPS

Labels == {"idle", "stop", "make", "take", "wait", "wait_for", "drop", "renew",
           "destroy", "create", "stop_sessions", "join", "lock", "enter"}

Threads == [step : Labels, then : Labels]
NoteT == [about : Sessions, told : BOOLEAN]

ProtocolInv ==
  /\ context \in BOOLEAN /\ leftOver \in BOOLEAN
  /\ promise \in {"null", "made", "taken"}
  /\ future \in {"invalid", "waiting", "ready"}
  /\ thread \in [Callers -> Threads]
  /\ calls \in [Callers -> Nat]
  /\ \A c \in Callers : calls[c] <= MaxCalls[c]

\* What a thread does after it has taken down is part of a start().
StepsInv ==
  \A c \in Callers :
    /\ thread[c].then \in {"idle", "renew", "create"}
    /\ At(c, "stop") => thread[c].then # "create"
    /\ At(c, "create") => thread[c].then = "idle"
    /\ thread[c].then # "idle" \/ At(c, "renew") \/ At(c, "create") => c \in Starters

ServerTypes ==
  /\ sessions \in SUBSET Sessions /\ dropping \in SUBSET Sessions
  /\ condition \in [Sessions -> {"new", "waiting", "confirmed", "expired", "gone"}]
  /\ joining \in Sessions \cup {None}
  /\ notes \in [Sessions -> Seq(BOOLEAN)]
  /\ worker \in [Sessions -> {"idle", "sends"}]
  /\ jobs \in Seq(NoteT)
  /\ handler \in {"idle", "lock", "erase", "callback"}
  /\ mutex \in Callers \cup {"handler", None}

\* The holder of mutex_ is where its scope is, and only he stops sessions.
HolderInv ==
  /\ \A c \in Callers : At(c, "stop_sessions") \/ At(c, "join") => mutex = c
  /\ handler = "erase" => mutex = "handler"
  /\ dropping # {} =>
       handler = "erase" \/ \E c \in Callers : At(c, "stop_sessions")

\* A client uses mutex_ alone of the variables of a server.
ClientTypes ==
  /\ socket \in BOOLEAN /\ pool \in {"null", "open", "locked"}
  /\ kind = "client" =>
       /\ mutex # "handler"
       /\ handler = "idle" /\ dropping = {}
       /\ \A c \in Callers : ~At(c, "stop_sessions")

LifecycleTypes ==
  /\ kind \in {"server", "client"}
  /\ ProtocolInv /\ StepsInv
  /\ ServerTypes /\ HolderInv
  /\ ClientTypes

\* A future_status_ that is valid is that of a thread that waits, until a wait
\* has ended.
HeardInv ==
  future # "invalid" => leftOver \/ \E d \in Callers : Waits(d)

\* One thread starts the server.
OneStarter == \A c, d \in Starters : c = d

\* Sessions are left alone only by those who say so, and only while the server
\* is up, or somebody takes it down, are there any.
RunningInv ==
  /\ \A s \in Sessions : S!Running(s) => s \in sessions \cup dropping \cup late
  /\ \A c \in Callers : At(c, "stop_sessions") => sessions \subseteq late
  /\ \A c \in Callers : At(c, "destroy") /\ thread[c].then # "create"
                            => sessions \subseteq late
  /\ ~context => sessions \subseteq late
  /\ \A c \in Callers : At(c, "create") => ~context
  /\ \A c \in Callers : At(c, "join") /\ thread[c].then = "create" => ~context
  /\ ~context => /\ jobs = <<>>
                 /\ handler = "idle" \/ \E c \in Callers : At(c, "join")

ServerLife == kind = "server" => RunningInv

\* One thread starts, waits for and stops the client, besides its worker.
OneUser == \A c, d \in Callers \ {Worker} : c = d

TakenDownInv ==
  /\ socket => context
  /\ ~At(Worker, "idle") => pool # "null"
  /\ \A c \in Callers : At(c, "create") => pool = "null" /\ At(Worker, "idle")
  /\ \A c \in Callers : At(c, "lock") => ~socket
  /\ pool # "null" /\ ~context =>
       selfJoin \/ \E c \in Callers : At(c, "enter") \/ At(c, "join")

ClientLife == kind = "client" => TakenDownInv

-----------------------------------------------------------------------------
(* The step of a thread *)

\* Only the thread c moves.
Moves(c, step, then) ==
  /\ thread' \in [Callers -> Threads]
  /\ thread'[c] = [step |-> step, then |-> then]
  /\ \A d \in Callers \ {c} : thread'[d] = thread[d]

LEMMA ThreadGoes ==
  ASSUME thread \in [Callers -> Threads], NEW c \in Callers, NEW step \in Labels,
         thread' = [thread EXCEPT ![c].step = step]
  PROVE  Moves(c, step, thread[c].then)
  <1> DEFINE next == [thread[c] EXCEPT !.step = step]
  <1>1. next = [step |-> step, then |-> thread[c].then] /\ next \in Threads
    BY DEF Threads
  <1>2. thread' = [thread EXCEPT ![c] = next]
    OBVIOUS
  <1> QED
    BY <1>1, <1>2 DEF Moves

LEMMA ThreadFinishes ==
  ASSUME thread \in [Callers -> Threads], NEW c \in Callers,
         thread' = [thread EXCEPT ![c] = [step |-> @.then, then |-> "idle"]]
  PROVE  Moves(c, thread[c].then, "idle")
  <1>1. [step |-> thread[c].then, then |-> "idle"] \in Threads
    BY DEF Threads, Labels
  <1> QED
    BY <1>1 DEF Moves

LEMMA ThreadCalls ==
  ASSUME thread \in [Callers -> Threads], NEW c \in Callers,
         NEW step \in Labels, NEW then \in Labels,
         thread' = [thread EXCEPT ![c] = [step |-> step, then |-> then]]
  PROVE  Moves(c, step, then)
  BY DEF Moves, Threads

-----------------------------------------------------------------------------
(* The steps of the protocol, which a server and a client share *)

\* The steps in which a thread holds nothing and changes nothing but the
\* protocol's variables.
Quiet == {"idle", "stop", "make", "take", "wait", "wait_for", "drop", "renew"}

QuietMove(c) ==
  /\ context' = context
  /\ thread[c].step \in Quiet /\ thread'[c].step \in Quiet
  /\ \A d \in Callers \ {c} : thread'[d] = thread[d]

TypedMove(c) == ProtocolInv' /\ StepsInv' /\ QuietMove(c)

LEMMA MoveKeepsSteps ==
  ASSUME ProtocolInv, StepsInv, NEW c \in Callers, NEW step, NEW then,
         Moves(c, step, then), then \in {"idle", "renew", "create"},
         step = "stop" => then # "create", step = "create" => then = "idle",
         then # "idle" \/ step = "renew" \/ step = "create" => c \in Starters
  PROVE  StepsInv'
  <1> SUFFICES ASSUME NEW d \in Callers
               PROVE  /\ thread'[d].then \in {"idle", "renew", "create"}
                      /\ thread'[d].step = "stop" => thread'[d].then # "create"
                      /\ thread'[d].step = "create" => thread'[d].then = "idle"
                      /\ thread'[d].then # "idle" \/ thread'[d].step = "renew"
                           \/ thread'[d].step = "create" => d \in Starters
    BY Zenon DEF StepsInv, At, Callers
  <1>1. CASE d = c
    BY <1>1 DEF Moves
  <1>2. CASE d # c
    BY <1>2 DEF Moves, StepsInv, At
  <1> QED
    BY <1>1, <1>2

LEMMA CallMoves ==
  ASSUME LifecycleAssumption, ProtocolInv, StepsInv, NEW c \in Callers,
         NEW step \in {"stop", "make", "drop"}, NEW then \in {"idle", "renew", "create"},
         Call(c, step, then), step = "stop" => then # "create",
         then # "idle" => c \in Starters
  PROVE  TypedMove(c)
  <1>0. step \in Labels /\ then \in Labels /\ thread \in [Callers -> Threads]
    BY DEF ProtocolInv, Labels
  <1>1. Moves(c, step, then)
    BY <1>0, ThreadCalls DEF Call
  <1>2. StepsInv'
    BY <1>1, MoveKeepsSteps
  <1>3. calls' \in [Callers -> Nat] /\ \A d \in Callers : calls'[d] <= MaxCalls[d]
    BY DEF Call, ProtocolInv, LifecycleAssumption, Callers
  <1>4. QuietMove(c)
    BY <1>1 DEF Moves, QuietMove, Call, At, Quiet
  <1>5. ProtocolInv'
    BY <1>1, <1>3 DEF Call, Moves, ProtocolInv
  <1> QED
    BY <1>2, <1>4, <1>5 DEF TypedMove

LEMMA GoesQuietly ==
  ASSUME ProtocolInv, StepsInv, NEW c \in Callers, NEW step, NEW then,
         Moves(c, step, then), then \in {"idle", "renew", "create"},
         step \in Quiet \ {"stop"}, thread[c].step \in Quiet,
         then # "idle" \/ step = "renew" => c \in Starters,
         context' = context, calls' = calls, leftOver' \in BOOLEAN,
         promise' \in {"null", "made", "taken"},
         future' \in {"invalid", "waiting", "ready"}
  PROVE  TypedMove(c)
  <1>1. StepsInv'
    BY MoveKeepsSteps DEF Quiet
  <1>2. QuietMove(c)
    BY DEF QuietMove, Moves, Quiet
  <1>3. ProtocolInv'
    BY DEF ProtocolInv, Moves
  <1> QED
    BY <1>1, <1>2, <1>3 DEF TypedMove

LEMMA StepMoves ==
  ASSUME ProtocolInv, StepsInv, NEW c \in Callers, ProtocolStep(c) \/ TimeOut(c)
  PROVE  TypedMove(c)
  <1> USE DEF ProtocolInv
  <1>0. /\ thread[c].then \in {"idle", "renew", "create"}
        /\ thread[c].then # "idle" => c \in Starters
        /\ At(c, "stop") => thread[c].then # "create"
    BY DEF StepsInv
  <1>1. CASE MakePromise(c)
    <2>1. Moves(c, "take", thread[c].then)
      BY <1>1, ThreadGoes DEF MakePromise, Goes, Labels
    <2> QED
      BY <1>0, <1>1, <2>1, GoesQuietly DEF MakePromise, At, Quiet
  <1>2. CASE TakeFuture(c)
    <2>1. PICK step \in {"wait", "wait_for", "idle"} : Goes(c, step)
      BY <1>2 DEF TakeFuture
    <2>2. Moves(c, step, thread[c].then)
      BY <2>1, ThreadGoes DEF Goes, Labels
    <2> QED
      BY <1>0, <1>2, <2>2, GoesQuietly DEF TakeFuture, At, Quiet
  <1>3. CASE EndWait(c) \/ TimeOut(c)
    <2>1. Moves(c, "drop", thread[c].then)
      BY <1>3, ThreadGoes DEF EndWait, TimeOut, Goes, Labels
    <2> QED
      BY <1>0, <1>3, <2>1, GoesQuietly DEF EndWait, TimeOut, Waits, At, Quiet
  <1>4. CASE StopsNothing(c) \/ StopSignals(c)
    <2>1. Moves(c, thread[c].then, "idle")
      BY <1>4, ThreadFinishes DEF StopsNothing, StopSignals, Finish
    <2>2. thread[c].then \in {"idle", "renew"}
      BY <1>0, <1>4 DEF StopsNothing, StopSignals
    <2>3. /\ context' = context /\ calls' = calls /\ leftOver' = leftOver
          /\ promise' \in {"null", "made", "taken"}
          /\ future' \in {"invalid", "waiting", "ready"}
      BY <1>4 DEF StopsNothing, StopSignals
    <2>4. thread[c].step \in Quiet
      BY <1>4 DEF StopsNothing, StopSignals, At, Quiet
    <2> QED
      BY <1>0, <2>1, <2>2, <2>3, <2>4, GoesQuietly DEF Quiet
  <1>5. CASE StopDrops(c)
    <2>1. Moves(c, "drop", thread[c].then)
      BY <1>5, ThreadGoes DEF StopDrops, Goes, Labels
    <2> QED
      BY <1>0, <1>5, <2>1, GoesQuietly DEF StopDrops, At, Quiet
  <1> QED
    BY <1>1, <1>2, <1>3, <1>4, <1>5 DEF ProtocolStep

\* The steps of a server and of a client are those of the protocol.
LEMMA SameSteps ==
  ASSUME NEW c
  PROVE  /\ S!ProtocolStep(c) <=> ProtocolStep(c)
         /\ C!ProtocolStep(c) <=> ProtocolStep(c)
         /\ S!TimeOut(c) <=> TimeOut(c)
         /\ C!TimeOut(c) <=> TimeOut(c)
  BY DEF S!ProtocolStep, C!ProtocolStep, ProtocolStep, S!TimeOut, C!TimeOut, TimeOut,
         S!MakePromise, C!MakePromise, MakePromise, S!TakeFuture, C!TakeFuture,
         TakeFuture, S!EndWait, C!EndWait, EndWait, S!StopsNothing, C!StopsNothing,
         StopsNothing, S!StopSignals, C!StopSignals, StopSignals, S!StopDrops,
         C!StopDrops, StopDrops, S!At, C!At, At, S!Goes, C!Goes, Goes, S!Finish,
         C!Finish, Finish, S!Waits, C!Waits, Waits

LEMMA SameCalls ==
  ASSUME NEW c, NEW step, NEW then
  PROVE  /\ S!Call(c, step, then) <=> Call(c, step, then)
         /\ C!Call(c, step, then) <=> Call(c, step, then)
  BY DEF S!Call, C!Call, Call, S!At, C!At, At

\* What the threads of a server do of the protocol.
ServerTalks(c) ==
  \/ c \in Starters /\ (S!Call(c, "stop", "renew") \/ S!CallWaitStop(c))
  \/ c \in Stoppers /\ S!CallStop(c)
  \/ S!ProtocolStep(c) \/ S!TimeOut(c)

LEMMA ServerTalksMoves ==
  ASSUME LifecycleAssumption, ProtocolInv, StepsInv, NEW c \in Callers, ServerTalks(c)
  PROVE  TypedMove(c)
  <1>1. CASE S!ProtocolStep(c) \/ S!TimeOut(c)
    BY <1>1, SameSteps, StepMoves
  <1>2. CASE c \in Starters /\ S!Call(c, "stop", "renew")
    BY <1>2, SameCalls, CallMoves
  <1>3. CASE S!CallWaitStop(c)
    BY <1>3, SameCalls, CallMoves DEF S!CallWaitStop
  <1>4. CASE S!CallStop(c)
    BY <1>4, SameCalls, CallMoves DEF S!CallStop
  <1> QED
    BY <1>1, <1>2, <1>3, <1>4 DEF ServerTalks

\* What the threads of a client do of the protocol.
ClientTalks(c) ==
  \/ c \in Starters /\ (C!Call(c, "drop", "create") \/ C!CallWaitStop(c))
  \/ c \in Stoppers /\ (c = Worker => pool # "null") /\ C!CallStop(c)
  \/ C!ProtocolStep(c) \/ C!TimeOut(c)

LEMMA ClientTalksMoves ==
  ASSUME LifecycleAssumption, ProtocolInv, StepsInv, NEW c \in Callers, ClientTalks(c)
  PROVE  TypedMove(c)
  <1>1. CASE C!ProtocolStep(c) \/ C!TimeOut(c)
    BY <1>1, SameSteps, StepMoves
  <1>2. CASE c \in Starters /\ C!Call(c, "drop", "create")
    BY <1>2, SameCalls, CallMoves
  <1>3. CASE C!CallWaitStop(c)
    BY <1>3, SameCalls, CallMoves DEF C!CallWaitStop
  <1>4. CASE C!CallStop(c)
    BY <1>4, SameCalls, CallMoves DEF C!CallStop
  <1> QED
    BY <1>1, <1>2, <1>3, <1>4 DEF ClientTalks

-----------------------------------------------------------------------------
(* The types, and who holds mutex_ *)

LEMMA ServerNextCases ==
  ASSUME S!Next
  PROVE  \/ \E c \in Callers : ServerTalks(c) /\ UNCHANGED S!server
         \/ \E c \in Callers :
              \/ S!Renew(c) \/ S!Create(c) \/ S!Drop(c) \/ S!Dropped(c)
              \/ S!Destroy(c) \/ S!Joined(c)
         \/ \E s \in Sessions :
              \/ S!AcceptConnection(s) \/ S!Confirmed(s) \/ S!Lost(s)
              \/ S!NotifyServer(s) \/ S!CallApplication(s) \/ S!SendToSessions(s)
              \/ S!StopSession(s) \/ S!SessionJoined(s)
         \/ S!TakeJob \/ S!EraseExpired \/ S!Erased \/ S!Tell
  BY DEF S!Next, S!CallStart, S!Handler, ServerTalks, Callers, S!Callers

LEMMA ClientNextCases ==
  ASSUME C!Next
  PROVE  \/ \E c \in Callers : ClientTalks(c) /\ UNCHANGED C!client
         \/ \E c \in Callers :
              \/ C!Create(c) \/ C!Drop(c) \/ C!LockPool(c) \/ C!EnterDestroy(c)
              \/ C!Joined(c) \/ (c = Worker /\ C!JoinsItself)
  BY DEF C!Next, C!CallStart, C!CallStopHere, C!TakesDown, ClientTalks, Callers,
         C!Callers

\* A thread of a call takes the server or the client down, or brings it up.
LEMMA WorksTyped ==
  ASSUME ProtocolInv, StepsInv, NEW c \in Callers, NEW step \in Labels \ {"stop"},
         NEW then, Moves(c, step, then), then \in {"idle", "renew", "create"},
         step = "create" => then = "idle",
         then # "idle" \/ step = "renew" \/ step = "create" => c \in Starters,
         context' \in BOOLEAN,
         UNCHANGED <<promise, future, calls, leftOver>>
  PROVE  ProtocolInv' /\ StepsInv'
  <1>1. StepsInv'
    BY MoveKeepsSteps
  <1>2. ProtocolInv'
    BY DEF ProtocolInv, Moves
  <1> QED
    BY <1>1, <1>2

\* Where a thread that takes the server down goes.
LEMMA ServerWorksMoves ==
  ASSUME ProtocolInv, StepsInv, NEW c \in Callers
  PROVE  /\ S!Renew(c) => Moves(c, "destroy", "create")
         /\ S!Create(c) => Moves(c, thread[c].then, "idle")
         /\ S!Drop(c) => Moves(c, "stop_sessions", thread[c].then)
         /\ S!Dropped(c) => Moves(c, "destroy", thread[c].then)
         /\ S!Destroy(c) => Moves(c, "join", thread[c].then)
         /\ S!Joined(c) => Moves(c, thread[c].then, "idle")
  <1> USE DEF ProtocolInv, Labels
  <1>1. S!Renew(c) => Moves(c, "destroy", "create")
    BY ThreadCalls DEF S!Renew
  <1>2. S!Create(c) => Moves(c, thread[c].then, "idle")
    BY ThreadFinishes DEF S!Create, S!Finish
  <1>3. S!Drop(c) => Moves(c, "stop_sessions", thread[c].then)
    BY ThreadGoes DEF S!Drop, S!Goes
  <1>4. S!Dropped(c) => Moves(c, "destroy", thread[c].then)
    BY ThreadGoes DEF S!Dropped, S!Goes
  <1>5. S!Destroy(c) => Moves(c, "join", thread[c].then)
    BY ThreadGoes DEF S!Destroy, S!Goes
  <1>6. S!Joined(c) => Moves(c, thread[c].then, "idle")
    BY ThreadFinishes DEF S!Joined, S!Finish
  <1> QED
    BY <1>1, <1>2, <1>3, <1>4, <1>5, <1>6

LEMMA ServerWorksTyped ==
  ASSUME ProtocolInv, StepsInv, NEW c \in Callers,
         \/ S!Renew(c) \/ S!Create(c) \/ S!Drop(c) \/ S!Dropped(c)
         \/ S!Destroy(c) \/ S!Joined(c)
  PROVE  ProtocolInv' /\ StepsInv'
  <1>0. /\ thread[c].then \in {"idle", "renew", "create"}
        /\ thread[c].then # "idle" \/ At(c, "renew") \/ At(c, "create") => c \in Starters
        /\ context \in BOOLEAN
    BY DEF StepsInv, ProtocolInv
  <1>1. CASE S!Renew(c)
    BY <1>0, <1>1, WorksTyped, ServerWorksMoves DEF S!Renew, S!At, At, Labels
  <1>2. CASE S!Create(c) \/ S!Joined(c)
    BY <1>0, <1>2, WorksTyped, ServerWorksMoves DEF S!Create, S!Joined, Labels
  <1>3. CASE S!Drop(c) \/ S!Dropped(c) \/ S!Destroy(c)
    BY <1>0, <1>3, WorksTyped, ServerWorksMoves DEF S!Drop, S!Dropped, S!Destroy, Labels
  <1> QED
    BY <1>1, <1>2, <1>3

LEMMA OthersTyped ==
  ASSUME ProtocolInv, StepsInv, UNCHANGED protocol
  PROVE  ProtocolInv' /\ StepsInv' /\ \A c \in Callers : thread'[c] = thread[c]
  BY DEF ProtocolInv, StepsInv, protocol, At

\* The types of what a server changes.
LEMMA ServerTypesStep ==
  ASSUME LifecycleAssumption, LifecycleTypes, S!Next
  PROVE  ServerTypes'
  <1> USE DEF ServerTypes
  <1>0. ServerTypes
    BY DEF LifecycleTypes
  <1>1. CASE UNCHANGED S!server
    BY <1>0, <1>1 DEF S!server
  <1>2. ASSUME NEW c \in Callers, S!Renew(c) \/ S!Create(c)
        PROVE  ServerTypes'
    BY <1>0, <1>2 DEF S!Renew, S!Create, S!server, S!live
  <1>3. ASSUME NEW c \in Callers, S!Drop(c) \/ S!Dropped(c)
        PROVE  ServerTypes'
    BY <1>0, <1>3 DEF S!Drop, S!Dropped, S!live
  <1>4. ASSUME NEW c \in Callers, S!Destroy(c) \/ S!Joined(c)
        PROVE  ServerTypes'
    <2>1. <<>> \in Seq(NoteT)
      BY EmptySeq
    <2> QED
      BY <1>0, <1>4, <2>1 DEF S!Destroy, S!Joined, S!live
  <1>5. ASSUME NEW s \in Sessions, S!AcceptConnection(s)
        PROVE  ServerTypes'
    BY <1>0, <1>5 DEF S!AcceptConnection, S!live
  <1>6. ASSUME NEW s \in Sessions, NEW new \in {"confirmed", "expired"},
               NEW told \in BOOLEAN, S!Becomes(s, new, told)
        PROVE  ServerTypes'
    <2>1. notes[s] \in Seq(BOOLEAN)
      BY <1>0
    <2>2. Append(notes[s], told) \in Seq(BOOLEAN)
      BY <2>1, AppendProperties
    <2>3. notes' \in [Sessions -> Seq(BOOLEAN)]
      BY <1>0, <1>6, <2>2 DEF S!Becomes
    <2> QED
      BY <1>0, <1>6, <2>3 DEF S!Becomes
  <1>7. ASSUME NEW s \in Sessions, S!NotifyServer(s)
        PROVE  ServerTypes'
    <2>1. notes[s] \in Seq(BOOLEAN) /\ notes[s] # <<>>
      BY <1>0, <1>7 DEF S!NotifyServer
    <2>2. Tail(notes[s]) \in Seq(BOOLEAN) /\ Head(notes[s]) \in BOOLEAN
      BY <2>1, HeadTailProperties
    <2>3. notes' \in [Sessions -> Seq(BOOLEAN)]
      BY <1>0, <1>7, <2>2 DEF S!NotifyServer
    <2>4. jobs' \in Seq(NoteT)
      <3>1. [about |-> s, told |-> Head(notes[s])] \in NoteT
        BY <2>2 DEF NoteT
      <3> QED
        BY <1>0, <1>7, <3>1, AppendProperties DEF S!NotifyServer
    <2> QED
      BY <1>0, <1>7, <2>3, <2>4 DEF S!NotifyServer
  <1>8. ASSUME NEW s \in Sessions, S!CallApplication(s) \/ S!SendToSessions(s)
        PROVE  ServerTypes'
    BY <1>0, <1>8 DEF S!CallApplication, S!SendToSessions
  <1>9. ASSUME NEW s \in Sessions, S!StopSession(s)
        PROVE  ServerTypes'
    <2>1. <<>> \in Seq(BOOLEAN)
      BY EmptySeq
    <2> QED
      BY <1>0, <1>9, <2>1 DEF S!StopSession
  <1>10. ASSUME NEW s \in Sessions, S!SessionJoined(s)
         PROVE  ServerTypes'
    BY <1>0, <1>10 DEF S!SessionJoined, S!live
  <1>11. CASE S!TakeJob
    <2>1. Tail(jobs) \in Seq(NoteT)
      BY <1>0, <1>11, HeadTailProperties DEF S!TakeJob
    <2> QED
      BY <1>0, <1>11, <2>1 DEF S!TakeJob
  <1>12. CASE S!EraseExpired
    BY <1>0, <1>12 DEF S!EraseExpired
  <1>13. CASE S!Erased \/ S!Tell
    BY <1>0, <1>13 DEF S!Erased, S!Tell
  <1> QED
    <2>1. \A s \in Sessions : S!Confirmed(s) => S!Becomes(s, "confirmed", TRUE)
      BY DEF S!Confirmed
    <2>2. \A s \in Sessions : S!Lost(s) => S!Becomes(s, "expired", FALSE)
      BY DEF S!Lost
    <2> QED
      BY <1>1, <1>2, <1>3, <1>4, <1>5, <1>6, <1>7, <1>8, <1>9, <1>10, <1>11,
         <1>12, <1>13, <2>1, <2>2, ServerNextCases

\* The thread that holds mutex_ goes on with it, takes it or releases it.
LEMMA HolderGoes ==
  ASSUME HolderInv, NEW c \in Callers, NEW step, NEW then, Moves(c, step, then),
         UNCHANGED <<handler, dropping>>,
         \/ /\ mutex' = mutex
            /\ step \notin {"stop_sessions", "join"}
            /\ ~At(c, "stop_sessions") \/ dropping = {}
         \/ mutex = None /\ mutex' = c /\ dropping = {} /\ ~At(c, "stop_sessions")
         \/ /\ mutex = c /\ mutex' = None
            /\ dropping = {}
            /\ step \notin {"stop_sessions", "join"},
         LifecycleAssumption
  PROVE  HolderInv'
  <1>1. ASSUME NEW d \in Callers, thread'[d].step \in {"stop_sessions", "join"}
        PROVE  mutex' = d
    <2>1. CASE d = c
      BY <1>1, <2>1 DEF Moves
    <2>2. CASE d # c
      BY <1>1, <2>2 DEF Moves, HolderInv, At, LifecycleAssumption, Callers
    <2> QED
      BY <2>1, <2>2
  <1>2. handler' = "erase" => mutex' = "handler"
    BY DEF HolderInv, LifecycleAssumption, Callers
  <1>3. dropping' # {} =>
          handler' = "erase" \/ \E d \in Callers : thread'[d].step = "stop_sessions"
    BY DEF HolderInv, Moves, At
  <1> QED
    BY <1>1, <1>2, <1>3 DEF HolderInv, At

LEMMA ServerHolderStep ==
  ASSUME LifecycleAssumption, LifecycleTypes, S!Next
  PROVE  HolderInv'
  <1>0. /\ HolderInv /\ ProtocolInv /\ StepsInv /\ ServerTypes
        /\ "handler" \notin Callers \cup {None} /\ None \notin Callers
    BY DEF LifecycleTypes, LifecycleAssumption, Callers
  <1>1. ASSUME NEW c \in Callers, ServerTalks(c), UNCHANGED S!server
        PROVE  HolderInv'
    <2>1. QuietMove(c)
      BY <1>0, <1>1, ServerTalksMoves DEF TypedMove
    <2>2. \A d \in Callers : thread'[d].step = "stop_sessions"
                               <=> thread[d].step = "stop_sessions"
      BY <2>1 DEF QuietMove, Quiet
    <2>3. \A d \in Callers : thread'[d].step = "join" <=> thread[d].step = "join"
      BY <2>1 DEF QuietMove, Quiet
    <2> QED
      BY <1>0, <1>1, <2>2, <2>3 DEF HolderInv, At, S!server
  <1>2. ASSUME NEW c \in Callers, S!Renew(c)
        PROVE  HolderInv'
    BY <1>0, <1>2, ServerWorksMoves, HolderGoes DEF S!Renew, S!server, S!At, At
  <1>3. ASSUME NEW c \in Callers, S!Create(c)
        PROVE  HolderInv'
    BY <1>0, <1>3, ServerWorksMoves, HolderGoes DEF S!Create, S!live, S!At, At, StepsInv
  <1>4. ASSUME NEW c \in Callers, S!Drop(c)
        PROVE  HolderInv'
    <2>1. Moves(c, "stop_sessions", thread[c].then)
      BY <1>0, <1>4, ServerWorksMoves
    <2>2. \A d \in Callers : ~At(d, "stop_sessions") /\ ~At(d, "join")
      BY <1>0, <1>4 DEF S!Drop, HolderInv
    <2>3. \A d \in Callers \ {c} : ~(At(d, "stop_sessions"))' /\ ~(At(d, "join"))'
      BY <2>1, <2>2 DEF Moves, At
    <2>4. (At(c, "stop_sessions"))'
      BY <2>1 DEF Moves, At
    <2> QED
      BY <1>0, <1>4, <2>3, <2>4 DEF S!Drop, S!live, HolderInv
  <1>5. ASSUME NEW c \in Callers, S!Dropped(c)
        PROVE  HolderInv'
    <2>1. mutex = c /\ dropping = {}
      BY <1>0, <1>5 DEF S!Dropped, S!At, HolderInv, At
    <2> QED
      BY <1>0, <1>5, <2>1, ServerWorksMoves, HolderGoes DEF S!Dropped, S!live
  <1>6. ASSUME NEW c \in Callers, S!Destroy(c)
        PROVE  HolderInv'
    <2>1. dropping = {} /\ ~At(c, "stop_sessions")
      BY <1>0, <1>6 DEF S!Destroy, S!At, HolderInv, At
    <2> QED
      BY <1>0, <1>6, <2>1, ServerWorksMoves, HolderGoes DEF S!Destroy
  <1>7. ASSUME NEW c \in Callers, S!Joined(c)
        PROVE  HolderInv'
    <2>1. mutex = c /\ dropping = {}
      BY <1>0, <1>7 DEF S!Joined, S!At, HolderInv, At
    <2> QED
      BY <1>0, <1>7, <2>1, ServerWorksMoves, HolderGoes DEF S!Joined, S!live, StepsInv
  <1>8. ASSUME UNCHANGED <<protocol, mutex, handler>>, dropping' \subseteq dropping
        PROVE  HolderInv'
    BY <1>0, <1>8 DEF HolderInv, protocol, At
  <1>9. ASSUME NEW s \in Sessions,
               \/ S!AcceptConnection(s) \/ S!Confirmed(s) \/ S!Lost(s)
               \/ S!NotifyServer(s) \/ S!CallApplication(s) \/ S!SendToSessions(s)
               \/ S!StopSession(s) \/ S!SessionJoined(s)
        PROVE  HolderInv'
    <2>1. UNCHANGED <<protocol, mutex, handler>>
      BY <1>9 DEF S!AcceptConnection, S!Confirmed, S!Lost, S!Becomes, S!NotifyServer,
         S!CallApplication, S!SendToSessions, S!StopSession, S!SessionJoined,
         S!protocol, protocol, S!live
    <2>2. dropping' \subseteq dropping
      BY <1>9 DEF S!AcceptConnection, S!Confirmed, S!Lost, S!Becomes, S!NotifyServer,
         S!CallApplication, S!SendToSessions, S!StopSession, S!SessionJoined
    <2> QED
      BY <1>8, <2>1, <2>2
  <1>10. CASE S!TakeJob \/ S!Tell
    <2>1. UNCHANGED <<protocol, mutex, dropping>> /\ handler' # "erase" /\ handler # "erase"
      BY <1>10 DEF S!TakeJob, S!Tell, S!protocol, protocol
    <2> QED
      BY <1>0, <2>1 DEF HolderInv, protocol, At
  <1>11. CASE S!EraseExpired
    BY <1>0, <1>11 DEF S!EraseExpired, S!protocol, HolderInv, At
  <1>12. CASE S!Erased
    BY <1>0, <1>12 DEF S!Erased, S!protocol, HolderInv, At
  <1> QED
    BY <1>1, <1>2, <1>3, <1>4, <1>5, <1>6, <1>7, <1>9, <1>10, <1>11, <1>12,
       ServerNextCases

\* Where a thread that takes the client down goes.
LEMMA ClientWorksMoves ==
  ASSUME ProtocolInv, StepsInv, NEW c \in Callers
  PROVE  /\ C!Create(c) => \/ socket' /\ Moves(c, thread[c].then, "idle")
                           \/ ~socket' /\ Moves(c, "lock", "idle")
         /\ C!Drop(c) => Moves(c, "lock", thread[c].then)
         /\ C!LockPool(c) => Moves(c, "enter", thread[c].then)
         /\ C!EnterDestroy(c) => IF pool = "null" THEN Moves(c, thread[c].then, "idle")
                                 ELSE Moves(c, "join", thread[c].then)
         /\ C!Joined(c) => Moves(c, thread[c].then, "idle")
         /\ c = Worker /\ C!JoinsItself => Moves(c, thread[c].then, "idle")
  <1> USE DEF ProtocolInv, Labels
  <1>1. C!Create(c) => \/ socket' /\ Moves(c, thread[c].then, "idle")
                       \/ ~socket' /\ Moves(c, "lock", "idle")
    <2>1. SUFFICES ASSUME C!Create(c)
                   PROVE  \/ socket' /\ Moves(c, thread[c].then, "idle")
                          \/ ~socket' /\ Moves(c, "lock", "idle")
      OBVIOUS
    <2>2. CASE socket' = TRUE /\ C!Finish(c)
      BY <2>2, ThreadFinishes DEF C!Finish
    <2>3. CASE /\ socket' = FALSE
               /\ thread' = [thread EXCEPT ![c] = [step |-> "lock", then |-> "idle"]]
      BY <2>3, ThreadCalls
    <2> QED
      BY <2>1, <2>2, <2>3 DEF C!Create
  <1>2. C!Drop(c) => Moves(c, "lock", thread[c].then)
    BY ThreadGoes DEF C!Drop, C!Goes
  <1>3. C!LockPool(c) => Moves(c, "enter", thread[c].then)
    BY ThreadGoes DEF C!LockPool, C!Goes
  <1>4. C!EnterDestroy(c) => IF pool = "null" THEN Moves(c, thread[c].then, "idle")
                             ELSE Moves(c, "join", thread[c].then)
    BY ThreadGoes, ThreadFinishes DEF C!EnterDestroy, C!Goes, C!Finish
  <1>5. C!Joined(c) => Moves(c, thread[c].then, "idle")
    BY ThreadFinishes DEF C!Joined, C!Finish
  <1>6. c = Worker /\ C!JoinsItself => Moves(c, thread[c].then, "idle")
    BY ThreadFinishes DEF C!JoinsItself, C!Finish
  <1> QED
    BY <1>1, <1>2, <1>3, <1>4, <1>5, <1>6

LEMMA ClientWorksTyped ==
  ASSUME ProtocolInv, StepsInv, NEW c \in Callers,
         \/ C!Create(c) \/ C!Drop(c) \/ C!LockPool(c) \/ C!EnterDestroy(c)
         \/ C!Joined(c) \/ (c = Worker /\ C!JoinsItself)
  PROVE  ProtocolInv' /\ StepsInv'
  <1>0. /\ thread[c].then \in {"idle", "renew", "create"}
        /\ thread[c].then # "idle" => c \in Starters
        /\ context \in BOOLEAN
    BY DEF StepsInv, ProtocolInv
  <1>1. CASE C!Create(c)
    <2>1. UNCHANGED <<promise, future, calls, leftOver>> /\ context' \in BOOLEAN
      BY <1>1 DEF C!Create
    <2>2. CASE Moves(c, thread[c].then, "idle")
      BY <1>0, <2>1, <2>2, WorksTyped DEF Labels
    <2>3. CASE Moves(c, "lock", "idle")
      BY <1>0, <2>1, <2>3, WorksTyped DEF Labels
    <2> QED
      BY <1>1, <2>2, <2>3, ClientWorksMoves
  <1>2. CASE C!Drop(c) \/ C!LockPool(c)
    BY <1>0, <1>2, WorksTyped, ClientWorksMoves DEF C!Drop, C!LockPool, Labels
  <1>3. CASE C!EnterDestroy(c)
    <2>1. UNCHANGED <<promise, future, calls, leftOver, context>>
      BY <1>3 DEF C!EnterDestroy
    <2>2. CASE pool = "null"
      BY <1>0, <1>3, <2>1, <2>2, WorksTyped, ClientWorksMoves DEF Labels
    <2>3. CASE pool # "null"
      BY <1>0, <1>3, <2>1, <2>3, WorksTyped, ClientWorksMoves DEF Labels
    <2> QED
      BY <2>2, <2>3
  <1>4. CASE C!Joined(c) \/ (c = Worker /\ C!JoinsItself)
    BY <1>0, <1>4, WorksTyped, ClientWorksMoves DEF C!Joined, C!JoinsItself, Labels
  <1> QED
    BY <1>1, <1>2, <1>3, <1>4

LEMMA ClientTypesStep ==
  ASSUME LifecycleAssumption, LifecycleTypes, ClientNext
  PROVE  ServerTypes' /\ HolderInv' /\ ClientTypes'
  <1>0. /\ HolderInv /\ ProtocolInv /\ StepsInv /\ ServerTypes /\ ClientTypes
        /\ "handler" \notin Callers \cup {None} /\ None \notin Callers
        /\ kind = "client" /\ kind' = "client" /\ UNCHANGED serverOnly /\ C!Next
    BY DEF LifecycleTypes, LifecycleAssumption, Callers, ClientNext
  <1>1. dropping = {} /\ handler = "idle" /\ \A c \in Callers : ~At(c, "stop_sessions")
    BY <1>0 DEF ClientTypes
  <1>2. ServerTypes' <=> mutex' \in Callers \cup {"handler", None}
    BY <1>0 DEF ServerTypes, serverOnly
  <1> DEFINE Done == ServerTypes' /\ HolderInv' /\ ClientTypes'
  <1>3. ASSUME NEW c \in Callers, ClientTalks(c), UNCHANGED C!client
        PROVE  Done
    <2>1. QuietMove(c)
      BY <1>0, <1>3, ClientTalksMoves DEF TypedMove
    <2>2. \A d \in Callers : thread'[d].step # "stop_sessions"
      BY <1>1, <2>1 DEF QuietMove, Quiet, At
    <2>3. \A d \in Callers : thread'[d].step = "join" <=> thread[d].step = "join"
      BY <2>1 DEF QuietMove, Quiet
    <2>4. UNCHANGED <<mutex, socket, pool, handler, dropping>>
      BY <1>0, <1>3 DEF C!client, serverOnly
    <2>5. ServerTypes'
      BY <1>0, <1>2, <2>4 DEF ServerTypes
    <2>6. HolderInv'
      BY <1>0, <1>1, <2>2, <2>3, <2>4 DEF HolderInv, At
    <2>7. ClientTypes'
      BY <1>0, <2>2, <2>4 DEF ClientTypes, At
    <2> QED
      BY <2>5, <2>6, <2>7
  <1>4. ASSUME NEW c \in Callers, NEW step \in Labels \ {"stop_sessions"}, NEW then,
               Moves(c, step, then), socket' \in BOOLEAN,
               pool' \in {"null", "open", "locked"},
               \/ mutex' = mutex /\ step # "join"
               \/ mutex = None /\ mutex' = c
               \/ mutex = c /\ mutex' = None /\ step # "join"
        PROVE  Done
    <2>1. UNCHANGED <<handler, dropping>>
      BY <1>0 DEF serverOnly
    <2>2. mutex' \in Callers \cup {None}
      BY <1>0, <1>4 DEF ClientTypes, ServerTypes
    <2>3. ServerTypes'
      BY <1>2, <2>2
    <2>4. ~At(c, "stop_sessions")
      BY <1>1
    <2>5. HolderInv'
      BY <1>0, <1>1, <1>4, <2>1, <2>4, HolderGoes
    <2>6. \A d \in Callers : thread'[d].step # "stop_sessions"
      BY <1>1, <1>4 DEF Moves, At
    <2>7. ClientTypes'
      BY <1>0, <1>1, <1>4, <2>1, <2>2, <2>6 DEF ClientTypes, At
    <2> QED
      BY <2>3, <2>5, <2>7
  <1>5. ASSUME NEW c \in Callers
        PROVE  /\ thread[c].then \in Labels \ {"stop_sessions", "join"}
               /\ socket \in BOOLEAN /\ pool \in {"null", "open", "locked"}
    BY <1>0 DEF StepsInv, ClientTypes, Labels
  <1>6. ASSUME NEW c \in Callers, C!Create(c)
        PROVE  Done
    <2>1. mutex' = mutex /\ pool' = "open" /\ socket' \in BOOLEAN
      BY <1>6 DEF C!Create
    <2>2. PICK step \in {thread[c].then, "lock"} : Moves(c, step, "idle")
      BY <1>0, <1>6, ClientWorksMoves
    <2>3. step \in Labels \ {"stop_sessions", "join"}
      BY <1>5 DEF Labels
    <2> QED
      BY <1>4, <2>1, <2>2, <2>3
  <1>7. ASSUME NEW c \in Callers, C!Drop(c)
        PROVE  Done
    <2>1. mutex' = mutex /\ pool' = pool /\ socket' = FALSE
      BY <1>7 DEF C!Drop
    <2> QED
      BY <1>0, <1>4, <1>5, <1>7, <2>1, ClientWorksMoves DEF Labels
  <1>8. ASSUME NEW c \in Callers, C!LockPool(c)
        PROVE  Done
    <2>1. mutex' = mutex /\ pool' \in {"null", "locked"} /\ socket' = socket
      BY <1>8 DEF C!LockPool
    <2> QED
      BY <1>0, <1>4, <1>5, <1>8, <2>1, ClientWorksMoves DEF Labels
  <1>9. ASSUME NEW c \in Callers, C!EnterDestroy(c)
        PROVE  Done
    <2>1. mutex = None /\ UNCHANGED <<pool, socket>>
      BY <1>9 DEF C!EnterDestroy
    <2>2. CASE pool = "null"
      <3>1. mutex' = mutex
        BY <1>9, <2>2 DEF C!EnterDestroy
      <3> QED
        BY <1>0, <1>4, <1>5, <1>9, <2>1, <2>2, <3>1, ClientWorksMoves
    <2>3. CASE pool # "null"
      <3>1. mutex' = c
        BY <1>9, <2>3 DEF C!EnterDestroy
      <3> QED
        BY <1>0, <1>4, <1>5, <1>9, <2>1, <2>3, <3>1, ClientWorksMoves DEF Labels
    <2> QED
      BY <2>2, <2>3
  <1>10. ASSUME NEW c \in Callers, C!Joined(c) \/ (c = Worker /\ C!JoinsItself)
         PROVE  Done
    <2>1. mutex = c
      BY <1>0, <1>10 DEF C!Joined, C!JoinsItself, C!At, HolderInv, At
    <2>2. mutex' = None /\ pool' \in {pool, "null"} /\ socket' = socket
      BY <1>10 DEF C!Joined, C!JoinsItself
    <2> QED
      BY <1>0, <1>4, <1>5, <1>10, <2>1, <2>2, ClientWorksMoves
  <1> QED
    BY <1>0, <1>3, <1>6, <1>7, <1>8, <1>9, <1>10, ClientNextCases

LEMMA TypesStep ==
  ASSUME LifecycleAssumption, LifecycleTypes, [ServerNext \/ ClientNext]_vars
  PROVE  LifecycleTypes'
  <1>0. ProtocolInv /\ StepsInv
    BY DEF LifecycleTypes
  <1>1. CASE ServerNext
    <2>1. S!Next /\ UNCHANGED <<kind, socket, pool>> /\ kind = "server"
      BY <1>1 DEF ServerNext, clientOnly
    <2>2. ServerTypes' /\ HolderInv'
      BY <2>1, ServerTypesStep, ServerHolderStep
    <2>3. ClientTypes'
      BY <2>1 DEF LifecycleTypes, ClientTypes
    <2>4. ProtocolInv' /\ StepsInv'
      <3>1. ASSUME NEW s \in Sessions,
                   \/ S!AcceptConnection(s) \/ S!Confirmed(s) \/ S!Lost(s)
                   \/ S!NotifyServer(s) \/ S!CallApplication(s) \/ S!SendToSessions(s)
                   \/ S!StopSession(s) \/ S!SessionJoined(s)
            PROVE  UNCHANGED protocol
        BY <3>1 DEF S!AcceptConnection, S!Confirmed, S!Lost, S!Becomes, S!NotifyServer,
           S!CallApplication, S!SendToSessions, S!StopSession, S!SessionJoined,
           S!protocol, protocol
      <3>2. CASE S!TakeJob \/ S!EraseExpired \/ S!Erased \/ S!Tell
        BY <1>0, <3>2, OthersTyped DEF S!TakeJob, S!EraseExpired, S!Erased, S!Tell,
           S!protocol, protocol
      <3> QED
        BY <1>0, <2>1, <3>1, <3>2, OthersTyped, ServerNextCases, ServerWorksTyped,
           ServerTalksMoves DEF TypedMove
    <2> QED
      BY <2>1, <2>2, <2>3, <2>4 DEF LifecycleTypes
  <1>2. CASE ClientNext
    <2>1. C!Next /\ kind' = "client"
      BY <1>2 DEF ClientNext
    <2>2. ProtocolInv' /\ StepsInv'
      BY <1>0, <2>1, ClientNextCases, ClientWorksTyped, ClientTalksMoves DEF TypedMove
    <2> QED
      BY <1>2, <2>1, <2>2, ClientTypesStep DEF LifecycleTypes
  <1>3. CASE UNCHANGED vars
    <2>1. UNCHANGED <<protocol, kind, mutex, serverOnly, clientOnly>>
      BY <1>3 DEF vars
    <2>2. ProtocolInv' /\ StepsInv' /\ \A c \in Callers : thread'[c] = thread[c]
      BY <1>0, <2>1, OthersTyped
    <2>3. ServerTypes' /\ HolderInv' /\ ClientTypes'
      BY <2>1, <2>2 DEF LifecycleTypes, ServerTypes, HolderInv, ClientTypes, At,
         serverOnly, clientOnly
    <2> QED
      BY <2>1, <2>2, <2>3 DEF LifecycleTypes
  <1> QED
    BY <1>1, <1>2, <1>3

LEMMA InitTypes ==
  ASSUME LifecycleAssumption, Init
  PROVE  LifecycleTypes
  <1>1. <<>> \in Seq(BOOLEAN) /\ <<>> \in Seq(NoteT)
    BY EmptySeq
  <1>2. ProtocolInit /\ mutex = None
    BY DEF Init, S!Init, S!ProtocolInit, ProtocolInit, S!Callers, Callers, S!Idle, Idle
  <1>3. ProtocolInv /\ \A c \in Callers : thread[c] = Idle
    <2>1. Idle \in Threads /\ thread = [c \in Callers |-> Idle]
      BY <1>2 DEF ProtocolInit, Idle, Threads, Labels
    <2>2. \A c \in Callers : MaxCalls[c] \in Nat /\ calls[c] = 0
      BY <1>2 DEF ProtocolInit, LifecycleAssumption, Callers
    <2>3. calls \in [Callers -> Nat] /\ \A c \in Callers : calls[c] <= MaxCalls[c]
      BY <1>2, <2>2 DEF ProtocolInit
    <2> QED
      BY <1>2, <2>1, <2>3 DEF ProtocolInit, ProtocolInv
  <1>4. StepsInv
    BY <1>3 DEF StepsInv, Idle, At
  <1>5. ServerTypes
    BY <1>1 DEF Init, S!Init, ServerTypes
  <1>6. HolderInv
    BY <1>3 DEF HolderInv, Init, S!Init, At, Idle
  <1>7. ClientTypes /\ kind \in {"server", "client"}
    <2>1. mutex # "handler"
      BY <1>2 DEF LifecycleAssumption
    <2>2. \A c \in Callers : ~At(c, "stop_sessions")
      BY <1>3 DEF At, Idle
    <2>3. handler = "idle" /\ dropping = {} /\ socket = FALSE /\ pool = "null"
      BY DEF Init, S!Init, C!Init
    <2> QED
      BY <2>1, <2>2, <2>3 DEF Init, ClientTypes
  <1> QED
    BY <1>3, <1>4, <1>5, <1>6, <1>7 DEF LifecycleTypes

LEMMA TypesHold == Spec => []LifecycleTypes
  <1>1. Init => LifecycleTypes
    BY InitTypes, LifecycleAssumption
  <1>2. LifecycleTypes /\ [ServerNext \/ ClientNext]_vars => LifecycleTypes'
    BY TypesStep, LifecycleAssumption
  <1> QED
    BY <1>1, <1>2, PTL DEF Spec

\* TypeOK of a server and of a client (NetworkServer.cpp, NetworkClient.cpp):
\* their threads, their mutex and their sessions are in no state the code does
\* not have, and sessions are stopped only under mutex_, whoever calls what.
THEOREM TypesAreKept == Spec => []TypeOK
  <1>1. LifecycleAssumption /\ LifecycleTypes => TypeOK
    <2>1. SUFFICES ASSUME LifecycleAssumption, LifecycleTypes
                   PROVE  TypeOK
      OBVIOUS
    <2> USE DEF LifecycleTypes
    <2>2. ASSUME NEW c \in Callers
          PROVE  calls[c] \in 0..MaxCalls[c]
      <3>1. calls[c] \in Nat /\ calls[c] <= MaxCalls[c] /\ MaxCalls[c] \in Nat
        BY <2>1 DEF ProtocolInv, LifecycleAssumption, Callers
      <3> QED
        BY <3>1
    <2>3. ProtocolTypeOK
      BY <2>1, <2>2 DEF ProtocolTypeOK, ProtocolInv
    <2>4. S!ProtocolTypeOK /\ C!ProtocolTypeOK
      BY <2>3 DEF ProtocolTypeOK, S!ProtocolTypeOK, C!ProtocolTypeOK, Callers,
         S!Callers, C!Callers
    <2>5. dropping # {} => mutex # None
      BY <2>1 DEF HolderInv, LifecycleAssumption, Callers
    <2>6. S!TypeOK
      BY <2>1, <2>4, <2>5 DEF S!TypeOK, ServerTypes, S!Callers, Callers
    <2>7. kind = "client" => C!TypeOK
      BY <2>1, <2>4 DEF C!TypeOK, ClientTypes, ServerTypes, C!Callers, Callers
    <2> QED
      BY <2>6, <2>7 DEF TypeOK
  <1> QED
    BY <1>1, TypesHold, LifecycleAssumption, PTL

-----------------------------------------------------------------------------
(* A first signal is heard *)

LEMMA WaitersStay ==
  ASSUME HeardInv, UNCHANGED leftOver, future' # "invalid" => future # "invalid",
         \A d \in Callers : Waits(d) => thread'[d] = thread[d]
  PROVE  HeardInv'
  BY DEF HeardInv, Waits, At

LEMMA ProtocolHeard ==
  ASSUME ProtocolInv, HeardInv, NEW c \in Callers, ProtocolStep(c) \/ TimeOut(c)
  PROVE  HeardInv' /\ (promise # "null" /\ promise' = "null" => future # "invalid")
  <1>0. thread \in [Callers -> Threads]
    BY DEF ProtocolInv
  <1>1. CASE MakePromise(c) \/ StopDrops(c) \/ StopsNothing(c)
    <2>1. \A d \in Callers : Waits(d) => thread'[d] = thread[d]
      BY <1>0, <1>1 DEF MakePromise, StopDrops, StopsNothing, Finish, Goes, Waits, At
    <2>2. UNCHANGED <<leftOver, future>> /\ promise' \in {promise, "made"}
      BY <1>1 DEF MakePromise, StopDrops, StopsNothing
    <2> QED
      BY <2>1, <2>2, WaitersStay
  <1>2. CASE TakeFuture(c)
    <2>1. CASE promise # "made"
      <3>1. UNCHANGED <<leftOver, future, promise>> /\ Goes(c, "idle") /\ At(c, "take")
        BY <1>2, <2>1 DEF TakeFuture
      <3>2. \A d \in Callers : Waits(d) => thread'[d] = thread[d]
        BY <1>0, <3>1 DEF Goes, Waits, At
      <3> QED
        BY <3>1, <3>2, WaitersStay
    <2>2. CASE promise = "made"
      <3>1. promise' = "taken" /\ \E step \in {"wait", "wait_for"} : Goes(c, step)
        BY <1>2, <2>2 DEF TakeFuture
      <3>2. PICK step \in {"wait", "wait_for"} : Goes(c, step)
        BY <3>1
      <3>3. Moves(c, step, thread[c].then)
        BY <1>0, <3>2, ThreadGoes DEF Goes, Labels
      <3>4. (Waits(c))'
        BY <3>2, <3>3 DEF Moves, Waits, At
      <3> QED
        BY <3>1, <3>4 DEF HeardInv
    <2> QED
      BY <2>1, <2>2
  <1>3. CASE EndWait(c) \/ TimeOut(c)
    BY <1>3 DEF EndWait, TimeOut, HeardInv
  <1>4. CASE StopSignals(c)
    <2>1. \A d \in Callers : Waits(d) => thread'[d] = thread[d]
      BY <1>0, <1>4 DEF StopSignals, Finish, Waits, At
    <2>2. UNCHANGED leftOver /\ future # "invalid"
      BY <1>4 DEF StopSignals
    <2> QED
      BY <2>1, <2>2, WaitersStay
  <1> QED
    BY <1>1, <1>2, <1>3, <1>4 DEF ProtocolStep

\* Other steps leave the promise and the threads that wait alone.
LEMMA OthersHeard ==
  ASSUME HeardInv, UNCHANGED <<promise, future, leftOver>>,
         \A d \in Callers : Waits(d) => thread'[d] = thread[d]
  PROVE  HeardInv' /\ (promise # "null" /\ promise' = "null" => future # "invalid")
  BY WaitersStay

LEMMA CallHeard ==
  ASSUME ProtocolInv, HeardInv, NEW c \in Callers, NEW step, NEW then,
         Call(c, step, then)
  PROVE  HeardInv' /\ (promise # "null" /\ promise' = "null" => future # "invalid")
  <1>1. \A d \in Callers : Waits(d) => thread'[d] = thread[d]
    BY DEF Call, ProtocolInv, Waits, At
  <1> QED
    BY <1>1, OthersHeard DEF Call

LEMMA HeardStep ==
  ASSUME LifecycleTypes, HeardInv, [ServerNext \/ ClientNext]_vars
  PROVE  HeardInv' /\ (promise # "null" /\ promise' = "null" => future # "invalid")
  <1> DEFINE Heard == HeardInv' /\ (promise # "null" /\ promise' = "null"
                                      => future # "invalid")
  <1>0. ProtocolInv /\ StepsInv /\ thread \in [Callers -> Threads]
    BY DEF LifecycleTypes, ProtocolInv
  <1>1. CASE ServerNext
    <2>1. S!Next
      BY <1>1 DEF ServerNext
    <2>2. ASSUME NEW c \in Callers, ServerTalks(c)
          PROVE  Heard
      BY <1>0, <2>2, SameSteps, SameCalls, ProtocolHeard, CallHeard
         DEF ServerTalks, S!CallStop, S!CallWaitStop
    <2>3. ASSUME NEW c \in Callers,
                 \/ S!Renew(c) \/ S!Create(c) \/ S!Drop(c) \/ S!Dropped(c)
                 \/ S!Destroy(c) \/ S!Joined(c)
          PROVE  Heard
      <3>1. UNCHANGED <<promise, future, leftOver>> /\ ~Waits(c)
        BY <2>3 DEF S!Renew, S!Create, S!Drop, S!Dropped, S!Destroy, S!Joined, S!At,
           Waits, At
      <3>2. \A d \in Callers : d # c => thread'[d] = thread[d]
        BY <1>0, <2>3, ServerWorksMoves DEF Moves
      <3> QED
        BY <3>1, <3>2, OthersHeard
    <2>4. ASSUME NEW s \in Sessions,
                 \/ S!AcceptConnection(s) \/ S!Confirmed(s) \/ S!Lost(s)
                 \/ S!NotifyServer(s) \/ S!CallApplication(s) \/ S!SendToSessions(s)
                 \/ S!StopSession(s) \/ S!SessionJoined(s)
          PROVE  Heard
      <3>1. UNCHANGED <<promise, future, leftOver, thread>>
        BY <2>4 DEF S!AcceptConnection, S!Confirmed, S!Lost, S!Becomes, S!NotifyServer,
           S!CallApplication, S!SendToSessions, S!StopSession, S!SessionJoined,
           S!protocol
      <3> QED
        BY <3>1, OthersHeard
    <2>5. CASE S!TakeJob \/ S!EraseExpired \/ S!Erased \/ S!Tell
      <3>1. UNCHANGED <<promise, future, leftOver, thread>>
        BY <2>5 DEF S!TakeJob, S!EraseExpired, S!Erased, S!Tell, S!protocol
      <3> QED
        BY <3>1, OthersHeard
    <2> QED
      BY <2>1, <2>2, <2>3, <2>4, <2>5, ServerNextCases
  <1>2. CASE ClientNext
    <2>1. C!Next
      BY <1>2 DEF ClientNext
    <2>2. ASSUME NEW c \in Callers, ClientTalks(c)
          PROVE  Heard
      BY <1>0, <2>2, SameSteps, SameCalls, ProtocolHeard, CallHeard
         DEF ClientTalks, C!CallStop, C!CallWaitStop
    <2>3. ASSUME NEW c \in Callers,
                 \/ C!Create(c) \/ C!Drop(c) \/ C!LockPool(c) \/ C!EnterDestroy(c)
                 \/ C!Joined(c) \/ (c = Worker /\ C!JoinsItself)
          PROVE  Heard
      <3>1. UNCHANGED <<promise, future, leftOver>> /\ ~Waits(c)
        BY <2>3 DEF C!Create, C!Drop, C!LockPool, C!EnterDestroy, C!Joined,
           C!JoinsItself, C!At, Waits, At
      <3>2. \A d \in Callers : d # c => thread'[d] = thread[d]
        BY <1>0, <2>3, ClientWorksMoves DEF Moves
      <3> QED
        BY <3>1, <3>2, OthersHeard
    <2> QED
      BY <2>1, <2>2, <2>3, ClientNextCases
  <1>3. CASE UNCHANGED vars
    BY <1>3, OthersHeard DEF vars, protocol
  <1> QED
    BY <1>1, <1>2, <1>3

\* A stop() of a server or of a client that only signals (NetworkServer.cpp:265,
\* NetworkClient.cpp:137) finds a thread that waits and will take the rest down,
\* unless a wait has ended before: for any number of threads that start, wait
\* and stop.
THEOREM FirstSignalIsHeard == Spec => SignalIsHeard
  <1>1. Init => HeardInv
    BY DEF Init, S!Init, S!ProtocolInit, HeardInv
  <1>2. LifecycleTypes /\ HeardInv /\ [ServerNext \/ ClientNext]_vars => HeardInv'
    BY HeardStep
  <1> DEFINE Heard == \A c \in Callers :
                        At(c, "stop") /\ context /\ promise # "null" /\ promise' = "null"
                          => leftOver \/ \E d \in Callers : Waits(d)
  <1>3. LifecycleTypes /\ HeardInv /\ [ServerNext \/ ClientNext]_vars => [Heard]_protocol
    BY HeardStep DEF HeardInv
  <1>4. SignalIsHeard <=> [][Heard]_protocol
    BY DEF SignalIsHeard
  <1> HIDE DEF Heard
  <1> QED
    BY <1>1, <1>2, <1>3, <1>4, TypesHold, PTL DEF Spec

-----------------------------------------------------------------------------
(* Nothing is left of a server                                             *)

\* A step of a thread that keeps out of the four steps RunningInv is about.
LEMMA RunningQuiet ==
  ASSUME RunningInv, NEW c \in Callers, QuietMove(c), UNCHANGED S!server
  PROVE  RunningInv'
  <1>1. \A d \in Callers, step \in {"stop_sessions", "destroy", "create", "join"} :
          \/ thread'[d] = thread[d]
          \/ thread'[d].step # step /\ thread[d].step # step
    BY DEF QuietMove, Quiet
  <1>2. UNCHANGED <<context, sessions, dropping, late, condition, jobs, handler>>
    BY DEF QuietMove, S!server
  <1>3. \A s \in Sessions : S!Running(s)' <=> S!Running(s)
    BY <1>2 DEF S!Running
  <1> QED
    BY <1>1, <1>2, <1>3 DEF RunningInv, At

\* A step of a session or of the handler.
LEMMA RunningOthers ==
  ASSUME RunningInv, UNCHANGED protocol,
         \A s \in Sessions : S!Running(s)' => S!Running(s),
         sessions \cup dropping \subseteq sessions' \cup dropping' \cup late',
         sessions' \subseteq sessions, late' = late,
         ~context => jobs' = jobs /\ handler' = handler
  PROVE  RunningInv'
  <1>1. \A c \in Callers : thread'[c] = thread[c]
    BY DEF protocol
  <1>2. context' = context
    BY DEF protocol
  <1> QED
    BY <1>1, <1>2 DEF RunningInv, At

LEMMA RunningWorks ==
  ASSUME LifecycleAssumption, LifecycleTypes, OneStarter, RunningInv,
         NEW c \in Callers,
         \/ S!Renew(c) \/ S!Create(c) \/ S!Drop(c) \/ S!Dropped(c)
         \/ S!Destroy(c) \/ S!Joined(c)
  PROVE  RunningInv'
  <1>0. /\ ProtocolInv /\ StepsInv /\ HolderInv /\ ServerTypes
        /\ None \notin Callers /\ "handler" \notin Callers \cup {None}
    BY DEF LifecycleTypes, LifecycleAssumption, Callers
  <1>1. CASE S!Renew(c)
    <2>1. Moves(c, "destroy", "create")
      BY <1>0, <1>1, ServerWorksMoves
    <2>2. UNCHANGED <<context, sessions, dropping, late, condition, jobs, handler>>
      BY <1>1 DEF S!Renew, S!server
    <2>3. ~At(c, "join")
      BY <1>1 DEF S!Renew, S!At, At
    <2> QED
      BY <2>1, <2>2, <2>3 DEF RunningInv, Moves, At, S!Running
  <1>2. CASE S!Create(c)
    <2>1. Moves(c, thread[c].then, "idle")
      BY <1>0, <1>2, ServerWorksMoves
    <2>2. UNCHANGED <<sessions, dropping, late, condition, jobs, handler>>
      BY <1>2 DEF S!Create, S!live
    <2>3. thread[c].step = "create" /\ c \in Starters /\ ~context
      BY <1>0, <1>2 DEF S!Create, S!At, At, StepsInv, RunningInv
    <2>4. thread[c].then = "idle"
      BY <1>0, <2>3 DEF StepsInv, At
    <2>5. ASSUME NEW d \in Callers \ {c}
          PROVE  thread[d].step # "create" /\ thread[d].then # "create"
      BY <1>0, <2>3, <2>5 DEF StepsInv, At, OneStarter
    <2>6. ASSUME NEW d \in Callers
          PROVE  /\ thread'[d].step # "create"
                 /\ thread'[d].then # "create"
                 /\ thread'[d].step \in {"stop_sessions", "destroy", "join"}
                      => thread'[d] = thread[d]
      BY <2>1, <2>4, <2>5 DEF Moves
    <2>7. ASSUME ~context'
          PROVE  /\ jobs' = <<>>
                 /\ handler' = "idle" \/ \E d \in Callers : thread'[d].step = "join"
      <3>1. \A d \in Callers : thread[d].step = "join" => thread'[d] = thread[d]
        BY <2>1, <2>3 DEF Moves
      <3> QED
        BY <2>2, <2>3, <3>1 DEF RunningInv, At
    <2>8. \A s \in Sessions : S!Running(s)' <=> S!Running(s)
      BY <2>2 DEF S!Running
    <2> QED
      BY <2>2, <2>3, <2>6, <2>7, <2>8 DEF RunningInv, At
  <1>3. CASE S!Drop(c)
    <2>1. Moves(c, "stop_sessions", thread[c].then)
      BY <1>0, <1>3, ServerWorksMoves
    <2>2. /\ dropping' = sessions /\ sessions' = {}
          /\ UNCHANGED <<context, late, condition, jobs, handler>>
          /\ ~At(c, "join") /\ mutex = None
      BY <1>3 DEF S!Drop, S!live, S!At, At
    <2>3. dropping = {}
      BY <1>0, <2>2 DEF HolderInv
    <2> QED
      BY <2>1, <2>2, <2>3 DEF RunningInv, Moves, At, S!Running
  <1>4. CASE S!Dropped(c)
    <2>1. Moves(c, "destroy", thread[c].then)
      BY <1>0, <1>4, ServerWorksMoves
    <2>2. /\ UNCHANGED <<context, sessions, dropping, late, condition, jobs, handler>>
          /\ At(c, "stop_sessions") /\ ~At(c, "join")
      BY <1>4 DEF S!Dropped, S!live, S!At, At
    <2> QED
      BY <2>1, <2>2 DEF RunningInv, Moves, At, S!Running
  <1>5. CASE S!Destroy(c)
    <2>1. Moves(c, "join", thread[c].then)
      BY <1>0, <1>5, ServerWorksMoves
    <2>2. /\ UNCHANGED <<sessions, dropping, condition, handler>>
          /\ context' = FALSE /\ jobs' = <<>>
          /\ At(c, "destroy") /\ mutex = None
      BY <1>5 DEF S!Destroy, S!At, At
    <2>3. late \subseteq late' /\ sessions \subseteq late'
      <3>1. CASE thread[c].then = "create"
        BY <1>5, <3>1 DEF S!Destroy
      <3>2. CASE thread[c].then # "create"
        BY <1>5, <2>2, <3>2 DEF S!Destroy, RunningInv
      <3> QED
        BY <3>1, <3>2
    <2>4. \A s \in Sessions : S!Running(s)' => s \in sessions' \cup dropping' \cup late'
      BY <2>2, <2>3 DEF RunningInv, S!Running
    <2>5. \E d \in Callers : (At(d, "join"))'
      BY <2>1 DEF Moves, At
    <2> QED
      BY <2>2, <2>3, <2>4, <2>5 DEF RunningInv
  <1>6. CASE S!Joined(c)
    <2>1. Moves(c, thread[c].then, "idle")
      BY <1>0, <1>6, ServerWorksMoves
    <2>2. /\ UNCHANGED <<context, sessions, dropping, late, condition, jobs, handler>>
          /\ At(c, "join") /\ handler = "idle"
      BY <1>6 DEF S!Joined, S!live, S!At, At
    <2>3. thread[c].then \in {"idle", "renew", "create"}
          /\ (thread[c].then = "create" => ~context)
      BY <1>0, <2>2 DEF StepsInv, RunningInv
    <2> QED
      BY <2>1, <2>2, <2>3 DEF RunningInv, Moves, At, S!Running
  <1> QED
    BY <1>1, <1>2, <1>3, <1>4, <1>5, <1>6

LEMMA RunningSessions ==
  ASSUME LifecycleTypes, RunningInv, NEW s \in Sessions,
         \/ S!AcceptConnection(s) \/ S!Confirmed(s) \/ S!Lost(s)
         \/ S!NotifyServer(s) \/ S!CallApplication(s) \/ S!SendToSessions(s)
         \/ S!StopSession(s) \/ S!SessionJoined(s)
  PROVE  RunningInv'
  <1> USE DEF LifecycleTypes, ServerTypes
  <1>1. CASE S!AcceptConnection(s)
    <2>1. /\ UNCHANGED <<protocol, dropping, jobs, handler>>
          /\ context /\ sessions' = sessions \cup {s}
          /\ \A r \in Sessions \ {s} : condition'[r] = condition[r]
          /\ late' = IF S!Dropper THEN late \cup {s} ELSE late
      BY <1>1 DEF S!AcceptConnection, S!protocol, protocol, S!live
    <2>2. context' = context /\ \A c \in Callers : thread'[c] = thread[c]
      BY <2>1 DEF protocol
    <2>3. \A r \in Sessions : S!Running(r)' => S!Running(r) \/ r = s
      BY <2>1 DEF S!Running
    <2>4. \A c \in Callers : At(c, "stop_sessions") \/ At(c, "destroy") => s \in late'
      BY <2>1 DEF S!Dropper, S!At, At, S!Callers, Callers
    <2> QED
      BY <2>1, <2>2, <2>3, <2>4 DEF RunningInv, At
  <1>2. CASE S!Confirmed(s) \/ S!Lost(s)
    <2>1. /\ UNCHANGED <<protocol, sessions, dropping, late, jobs, handler>>
          /\ S!Running(s)
          /\ \A r \in Sessions \ {s} : condition'[r] = condition[r]
      BY <1>2 DEF S!Confirmed, S!Lost, S!Becomes, S!protocol, protocol, S!Running
    <2>2. \A r \in Sessions : S!Running(r)' => S!Running(r)
      BY <2>1 DEF S!Running
    <2> QED
      BY <2>1, <2>2, RunningOthers
  <1>3. CASE S!NotifyServer(s)
    <2>1. /\ UNCHANGED <<protocol, sessions, dropping, late, condition, handler>>
          /\ ~context => jobs' = jobs
      BY <1>3 DEF S!NotifyServer, S!protocol, protocol
    <2> QED
      BY <2>1, RunningOthers DEF S!Running
  <1>4. CASE S!CallApplication(s) \/ S!SendToSessions(s)
    BY <1>4, RunningOthers DEF S!CallApplication, S!SendToSessions, S!protocol,
       protocol, S!Running
  <1>5. CASE S!StopSession(s)
    <2>1. /\ UNCHANGED <<protocol, sessions, dropping, late, jobs, handler>>
          /\ s \in dropping
          /\ \A r \in Sessions \ {s} : condition'[r] = condition[r]
      BY <1>5 DEF S!StopSession, S!protocol, protocol
    <2>2. \A r \in Sessions : S!Running(r)' => S!Running(r) \/ r \in dropping
      BY <2>1 DEF S!Running
    <2>3. context' = context /\ \A c \in Callers : thread'[c] = thread[c]
      BY <2>1 DEF protocol
    <2> QED
      BY <2>1, <2>2, <2>3 DEF RunningInv, At
  <1>6. CASE S!SessionJoined(s)
    <2>1. /\ UNCHANGED <<protocol, sessions, late, jobs, handler>>
          /\ dropping' = dropping \ {s}
          /\ condition'[s] = "gone"
          /\ \A r \in Sessions \ {s} : condition'[r] = condition[r]
      BY <1>6 DEF S!SessionJoined, S!protocol, protocol, S!live
    <2>2. \A r \in Sessions : S!Running(r)' => S!Running(r) /\ r # s
      BY <2>1 DEF S!Running
    <2>3. context' = context /\ \A c \in Callers : thread'[c] = thread[c]
      BY <2>1 DEF protocol
    <2> QED
      BY <2>1, <2>2, <2>3 DEF RunningInv, At
  <1> QED
    BY <1>1, <1>2, <1>3, <1>4, <1>5, <1>6

LEMMA RunningHandler ==
  ASSUME LifecycleAssumption, LifecycleTypes, RunningInv,
         S!TakeJob \/ S!EraseExpired \/ S!Erased \/ S!Tell
  PROVE  RunningInv'
  <1> DEFINE Joining == \E c \in Callers : At(c, "join")
  <1>0. UNCHANGED <<protocol, condition, late>>
    BY DEF S!TakeJob, S!EraseExpired, S!Erased, S!Tell, S!protocol, protocol
  <1>1. /\ \A c \in Callers : thread'[c] = thread[c]
        /\ context' = context
        /\ \A s \in Sessions : S!Running(s)' <=> S!Running(s)
    BY <1>0 DEF protocol, S!Running
  <1>2. CASE S!TakeJob
    <2>1. UNCHANGED <<sessions, dropping>> /\ jobs # <<>>
      BY <1>2 DEF S!TakeJob
    <2> QED
      BY <1>0, <1>1, <2>1 DEF RunningInv, At
  <1>3. CASE S!EraseExpired
    <2>1. /\ sessions' = sessions \ dropping' /\ dropping' \subseteq sessions
          /\ jobs' = jobs /\ handler = "lock" /\ mutex = None
      BY <1>3 DEF S!EraseExpired
    <2>2. dropping = {}
      BY <2>1 DEF LifecycleTypes, HolderInv, LifecycleAssumption, Callers
    <2>3. ~context => Joining
      BY <2>1 DEF RunningInv
    <2> QED
      BY <1>0, <1>1, <2>1, <2>2, <2>3 DEF RunningInv, At
  <1>4. CASE S!Erased \/ S!Tell
    <2>1. UNCHANGED <<sessions, dropping, jobs>> /\ handler # "idle"
      BY <1>4 DEF S!Erased, S!Tell
    <2>2. ~context => Joining
      BY <2>1 DEF RunningInv
    <2> QED
      BY <1>0, <1>1, <2>1, <2>2 DEF RunningInv, At
  <1> QED
    BY <1>2, <1>3, <1>4

LEMMA ServerLifeStep ==
  ASSUME LifecycleAssumption, LifecycleTypes, OneStarter, ServerLife,
         [ServerNext \/ ClientNext]_vars
  PROVE  ServerLife'
  <1>1. CASE ServerNext
    <2>1. S!Next /\ RunningInv
      BY <1>1 DEF ServerNext, ServerLife
    <2>2. ASSUME NEW c \in Callers, ServerTalks(c), UNCHANGED S!server
          PROVE  RunningInv'
      <3>1. QuietMove(c)
        BY <2>2, ServerTalksMoves DEF LifecycleTypes, TypedMove
      <3> QED
        BY <2>1, <2>2, <3>1, RunningQuiet
    <2>3. RunningInv'
      BY <2>1, <2>2, RunningWorks, RunningSessions, RunningHandler, ServerNextCases
    <2> QED
      BY <2>3 DEF ServerLife
  <1>2. CASE ClientNext
    BY <1>2 DEF ClientNext, ServerLife
  <1>3. CASE UNCHANGED vars
    <2>1. /\ kind' = kind
          /\ UNCHANGED <<protocol, sessions, dropping, late, condition, jobs, handler>>
      BY <1>3 DEF vars, serverOnly
    <2>2. \A s \in Sessions : S!Running(s)' <=> S!Running(s)
      BY <2>1 DEF S!Running
    <2> QED
      BY <2>1, <2>2, RunningOthers DEF ServerLife
  <1> QED
    BY <1>1, <1>2, <1>3

LEMMA ServerIsDown ==
  ASSUME LifecycleTypes, ServerLife
  PROVE  kind = "server" => S!NoneLeftRunning
  <1>1. SUFFICES ASSUME RunningInv, ~context, \A c \in Callers : At(c, "idle"),
                        NEW s \in Sessions, S!Running(s)
                 PROVE  s \in late
    BY DEF ServerLife, S!NoneLeftRunning, S!At, At, S!Callers, Callers
  <1>2. \A c \in Callers : ~At(c, "stop_sessions") /\ ~At(c, "join")
    BY <1>1 DEF At
  <1>3. handler = "idle"
    BY <1>1, <1>2 DEF RunningInv
  <1>4. dropping = {}
    BY <1>2, <1>3 DEF LifecycleTypes, HolderInv
  <1>5. sessions \subseteq late
    BY <1>1 DEF RunningInv
  <1> QED
    BY <1>1, <1>4, <1>5 DEF RunningInv

LEMMA ServerLifeHolds ==
  ASSUME OneStarter
  PROVE  Spec => []ServerLife
  <1>1. Init => ServerLife
    <2>1. SUFFICES ASSUME Init
                   PROVE  RunningInv
      BY DEF ServerLife
    <2>2. \A c \in Callers : thread[c].step = "idle"
      BY <2>1 DEF Init, S!Init, S!ProtocolInit, S!Callers, Callers, S!Idle
    <2>3. \A s \in Sessions : ~S!Running(s)
      BY <2>1 DEF Init, S!Init, S!Running
    <2>4. sessions = {} /\ jobs = <<>> /\ handler = "idle"
      BY <2>1 DEF Init, S!Init
    <2> QED
      BY <2>2, <2>3, <2>4 DEF RunningInv, At
  <1>2. LifecycleTypes /\ ServerLife /\ [ServerNext \/ ClientNext]_vars => ServerLife'
    BY ServerLifeStep, LifecycleAssumption
  <1> QED
    BY <1>1, <1>2, TypesHold, PTL DEF Spec

\* When a server that one thread starts has been taken down, by any of any number
\* of threads that stop it, no session is left running but those that were
\* accepted while drop_sessions() was at work and those that start() abandoned
\* (NetworkServer.cpp:603 and 59).
THEOREM NoSessionIsLeft ==
  ASSUME OneStarter
  PROVE  Spec => [](kind = "server" => S!NoneLeftRunning)
  BY ServerIsDown, ServerLifeHolds, TypesHold, PTL

-----------------------------------------------------------------------------
(* Nothing is left of a client                                             *)

LEMMA TakenDownTalks ==
  ASSUME LifecycleAssumption, StepsInv, TakenDownInv, NEW c \in Callers,
         ClientTalks(c), QuietMove(c), UNCHANGED C!client
  PROVE  TakenDownInv'
  <1>1. \A d \in Callers, step \in {"create", "lock", "enter", "join"} :
          \/ thread'[d] = thread[d]
          \/ thread'[d].step # step /\ thread[d].step # step
    BY DEF QuietMove, Quiet
  <1>2. UNCHANGED <<context, socket, pool, selfJoin>> /\ Worker \in Callers
    BY DEF QuietMove, C!client, LifecycleAssumption, Callers
  <1>3. CASE c # Worker
    <2>1. thread'[Worker] = thread[Worker]
      BY <1>2, <1>3 DEF QuietMove
    <2> QED
      BY <1>1, <1>2, <2>1 DEF TakenDownInv, At
  <1>4. CASE c = Worker
    <2>1. pool # "null"
      <3>1. CASE At(Worker, "idle")
        <4>1. c \notin Starters
          BY <1>4 DEF LifecycleAssumption
        <4>2. ~C!ProtocolStep(c) /\ ~C!TimeOut(c)
          BY <1>4, <3>1 DEF C!ProtocolStep, C!TimeOut, C!MakePromise, C!TakeFuture,
             C!EndWait, C!StopsNothing, C!StopSignals, C!StopDrops, C!Waits, C!At, At
        <4> QED
          BY <1>4, <4>1, <4>2 DEF ClientTalks
      <3>2. CASE ~At(Worker, "idle")
        BY <3>2 DEF TakenDownInv
      <3> QED
        BY <3>1, <3>2
    <2>2. \A d \in Callers : thread[d].step # "create"
      BY <2>1 DEF TakenDownInv, At
    <2>3. \A d \in Callers : thread'[d].step # "create"
      BY <1>1, <2>2
    <2> QED
      BY <1>1, <1>2, <2>1, <2>3 DEF TakenDownInv, At
  <1> QED
    BY <1>3, <1>4

LEMMA TakenDownWorks ==
  ASSUME LifecycleAssumption, LifecycleTypes, OneUser, TakenDownInv,
         NEW c \in Callers,
         \/ C!Create(c) \/ C!Drop(c) \/ C!LockPool(c) \/ C!EnterDestroy(c)
         \/ C!Joined(c) \/ (c = Worker /\ C!JoinsItself)
  PROVE  TakenDownInv'
  <1>0. /\ ProtocolInv /\ StepsInv
        /\ Worker \in Callers /\ Worker \notin Starters
        /\ \A d \in Callers \ {c} : c # Worker => d = Worker
    BY DEF LifecycleTypes, LifecycleAssumption, Callers, OneUser
  <1>1. CASE C!Create(c)
    <2>1. /\ context' = TRUE /\ pool' = "open"
          /\ thread[c].step = "create"
      BY <1>1 DEF C!Create, C!At
    <2>2. c # Worker /\ thread[Worker].step = "idle" /\ thread[c].then = "idle"
      BY <1>0, <2>1 DEF StepsInv, At, TakenDownInv
    <2>3. \A d \in Callers \ {c} : thread'[d].step = "idle"
      BY <1>0, <1>1, <2>2, ClientWorksMoves DEF Moves
    <2>4. CASE socket' /\ Moves(c, thread[c].then, "idle")
      <3>1. thread'[c].step = "idle"
        BY <2>2, <2>4 DEF Moves
      <3> QED
        BY <2>1, <2>3, <3>1, <1>0 DEF TakenDownInv, At
    <2>5. CASE ~socket' /\ Moves(c, "lock", "idle")
      <3>1. thread'[c].step = "lock"
        BY <2>5 DEF Moves
      <3> QED
        BY <2>1, <2>3, <2>5, <3>1, <1>0, <2>2 DEF TakenDownInv, At
    <2> QED
      BY <1>0, <1>1, <2>4, <2>5, ClientWorksMoves
  <1>2. CASE C!Drop(c)
    <2>1. Moves(c, "lock", thread[c].then)
      BY <1>0, <1>2, ClientWorksMoves
    <2>2. /\ UNCHANGED <<context, pool, selfJoin>> /\ socket' = FALSE
          /\ thread[c].step = "drop"
      BY <1>2 DEF C!Drop, C!At
    <2>3. \A d \in Callers, step \in {"create", "enter", "join", "idle"} :
            thread'[d].step = step <=> thread[d].step = step
      BY <2>1, <2>2 DEF Moves
    <2> QED
      BY <1>0, <2>2, <2>3 DEF TakenDownInv, At
  <1>3. CASE C!LockPool(c)
    <2>1. Moves(c, "enter", thread[c].then)
      BY <1>0, <1>3, ClientWorksMoves
    <2>2. /\ UNCHANGED <<socket, selfJoin>> /\ context' = FALSE
          /\ pool' = "null" <=> pool = "null"
          /\ thread[c].step = "lock"
      BY <1>3 DEF C!LockPool, C!At
    <2>3. \A d \in Callers, step \in {"create", "idle"} :
            thread'[d].step = step <=> thread[d].step = step
      BY <2>1, <2>2 DEF Moves
    <2>4. thread'[c].step = "enter" /\ ~socket
      BY <2>1, <2>2 DEF Moves, TakenDownInv, At
    <2> QED
      BY <1>0, <2>2, <2>3, <2>4 DEF TakenDownInv, At
  <1>4. CASE C!EnterDestroy(c)
    <2>1. UNCHANGED <<context, socket, pool, selfJoin>> /\ thread[c].step = "enter"
      BY <1>4 DEF C!EnterDestroy, C!At
    <2>2. CASE pool = "null"
      <3>1. Moves(c, thread[c].then, "idle")
        BY <1>0, <1>4, <2>2, ClientWorksMoves
      <3>2. thread[Worker].step = "idle" /\ c # Worker
        BY <2>1, <2>2 DEF TakenDownInv, At
      <3>3. thread'[Worker].step = "idle"
        BY <1>0, <3>1, <3>2 DEF Moves
      <3>4. \A d \in Callers : thread'[d].step # "lock"
        BY <1>0, <3>1, <3>2, <3>3 DEF Moves, StepsInv
      <3> QED
        BY <2>1, <2>2, <3>3, <3>4 DEF TakenDownInv, At
    <2>3. CASE pool # "null"
      <3>1. Moves(c, "join", thread[c].then)
        BY <1>0, <1>4, <2>3, ClientWorksMoves
      <3>2. \A d \in Callers, step \in {"create", "lock", "idle"} :
              thread'[d].step = step <=> thread[d].step = step
        BY <2>1, <3>1 DEF Moves
      <3>3. thread'[c].step = "join"
        BY <3>1 DEF Moves
      <3> QED
        BY <1>0, <2>1, <2>3, <3>2, <3>3 DEF TakenDownInv, At
    <2> QED
      BY <2>2, <2>3
  <1>5. CASE C!Joined(c)
    <2>1. Moves(c, thread[c].then, "idle")
      BY <1>0, <1>5, ClientWorksMoves
    <2>2. /\ UNCHANGED <<context, socket, selfJoin>> /\ pool' = "null"
          /\ c # Worker /\ thread[Worker].step = "idle"
      BY <1>5 DEF C!Joined, C!At
    <2>3. thread'[Worker].step = "idle"
      BY <1>0, <2>1, <2>2 DEF Moves
    <2>4. \A d \in Callers : thread'[d].step # "lock"
      BY <1>0, <2>1, <2>2, <2>3 DEF Moves, StepsInv
    <2> QED
      BY <2>2, <2>3, <2>4 DEF TakenDownInv, At
  <1>6. CASE c = Worker /\ C!JoinsItself
    <2>1. Moves(c, thread[c].then, "idle")
      BY <1>0, <1>6, ClientWorksMoves
    <2>2. /\ UNCHANGED <<context, socket, pool>> /\ selfJoin' = TRUE
          /\ thread[c].step = "join"
      BY <1>6 DEF C!JoinsItself, C!At
    <2>3. thread[c].then = "idle" /\ pool # "null"
      BY <1>0, <1>6, <2>2 DEF StepsInv, TakenDownInv, At
    <2>4. thread'[c].step = "idle"
      BY <2>1, <2>3 DEF Moves
    <2>5. \A d \in Callers, step \in {"create", "lock"} :
            thread'[d].step = step <=> thread[d].step = step
      BY <2>1, <2>2, <2>4 DEF Moves
    <2> QED
      BY <1>0, <1>6, <2>2, <2>3, <2>4, <2>5 DEF TakenDownInv, At
  <1> QED
    BY <1>1, <1>2, <1>3, <1>4, <1>5, <1>6

LEMMA ClientLifeStep ==
  ASSUME LifecycleAssumption, LifecycleTypes, OneUser, ClientLife,
         [ServerNext \/ ClientNext]_vars
  PROVE  ClientLife'
  <1>1. CASE ClientNext
    <2>1. C!Next /\ TakenDownInv
      BY <1>1 DEF ClientNext, ClientLife
    <2>2. ASSUME NEW c \in Callers, ClientTalks(c), UNCHANGED C!client
          PROVE  TakenDownInv'
      <3>1. QuietMove(c) /\ StepsInv
        BY <2>2, ClientTalksMoves DEF LifecycleTypes, TypedMove
      <3> QED
        BY <2>1, <2>2, <3>1, TakenDownTalks
    <2>3. TakenDownInv'
      BY <2>1, <2>2, TakenDownWorks, ClientNextCases
    <2> QED
      BY <2>3 DEF ClientLife
  <1>2. CASE ServerNext
    BY <1>2 DEF ServerNext, ClientLife
  <1>3. CASE UNCHANGED vars
    BY <1>3 DEF vars, protocol, clientOnly, ClientLife, TakenDownInv, At
  <1> QED
    BY <1>1, <1>2, <1>3

\* When one thread starts, waits for and stops a client, and callbacks on its
\* worker stop it as well, nothing is left of it when it has been taken down, nor
\* is anything of a server but the sessions of NoSessionIsLeft
\* (NetworkClient.cpp 105-149, NetworkServer.cpp 229-277).
THEOREM NothingIsLeftOver ==
  ASSUME OneUser
  PROVE  Spec => []LifecycleInv
  <1>1. OneStarter
    BY LifecycleAssumption DEF OneUser, OneStarter, Callers
  <1>2. Init => ClientLife
    <2>1. SUFFICES ASSUME Init
                   PROVE  TakenDownInv
      BY DEF ClientLife
    <2>2. \A c \in Callers : thread[c].step = "idle"
      BY <2>1 DEF Init, S!Init, S!ProtocolInit, S!Callers, Callers, S!Idle
    <2>3. socket = FALSE /\ pool = "null" /\ Worker \in Callers
      BY <2>1, LifecycleAssumption DEF Init, C!Init, Callers
    <2> QED
      BY <2>2, <2>3 DEF TakenDownInv, At
  <1>3. LifecycleTypes /\ ClientLife /\ [ServerNext \/ ClientNext]_vars => ClientLife'
    BY ClientLifeStep, LifecycleAssumption
  <1>4. ClientLife => (kind = "client" => C!NothingLeft)
    BY DEF ClientLife, TakenDownInv, C!NothingLeft, C!At, At, C!Callers, Callers
  <1>5. TypeOK /\ (kind = "server" => S!NoneLeftRunning) /\ ClientLife => LifecycleInv
    BY <1>4 DEF LifecycleInv, NothingIsLeft
  <1>6. Spec => [](kind = "server" => S!NoneLeftRunning)
    BY <1>1, NoSessionIsLeft
  <1> QED
    BY <1>2, <1>3, <1>5, <1>6, TypesHold, TypesAreKept, PTL DEF Spec

=============================================================================
