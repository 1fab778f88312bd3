------------------------------ MODULE ThreadPool ------------------------------
(***************************************************************************)
(* ThreadPool/ThreadPool.cpp: the pool composes a JobPool and its workers. *)
(* Callers are the threads of the program that use the pool; a running job *)
(* may push one further job, as the pipeline jobs of Network/DataHandler   *)
(* do.  ThreadPool::mutex_ is held across whole calls, so it is a variable *)
(* that names its owner.                                                   *)
(***************************************************************************)
EXTENDS ThreadWorker

CONSTANTS InitialWorkers,  \* workers pushed before the behaviour starts
          ChildOf,         \* the job that work() of a job pushes, or None
          Allowed,         \* the commands each caller may issue
          MaxCalls         \* bound: commands other than push, per caller

Commands == {"push", "start", "stop", "stopNow", "pause", "resume", "lock",
             "unlock", "remove", "add"}

ASSUME PoolAssumption ==
  /\ InitialWorkers \subseteq Workers
  /\ ChildOf \in [Jobs -> Jobs \cup {None}]
  /\ Allowed \in [Callers -> SUBSET Commands]
  /\ MaxCalls \in Nat

VARIABLES members,    \* thread_workers_, in the order of the numbers
          working,    \* working_
          paused,     \* ThreadPool::pause_
          poolMutex,  \* the thread that holds ThreadPool::mutex_
          pushing,    \* the job a thread is inside JobPool::push() with
          target,     \* the priority a caller is removing
          calls,      \* commands issued so far
          late        \* history: jobs enqueued while a stop() was under way

poolVars == <<members, working, paused, poolMutex, pushing, target, calls, late>>
vars == <<jobPoolVars, workerVars, poolVars>>

PushLabels == {"enqueue", "notifyEnter", "notify"}
StopLabels == {"clearing", "stopping", "joining", "stopTail"}
CallLabels == PushLabels \cup StopLabels \cup
              {"starting", "startJoin", "pausing", "removeEnter", "removing",
               "removeStop", "removeJoin"}

Roots == Jobs \ Range(ChildOf)
StopUnderWay == \E c \in Callers : pc[c] \in StopLabels

Init ==
  /\ JobPoolInit
  /\ WorkerInit
  /\ members = InitialWorkers
  /\ working = FALSE
  /\ paused = FALSE
  /\ poolMutex = None
  /\ pushing = [t \in Threads |-> None]
  /\ target = [c \in Callers |-> None]
  /\ calls = [c \in Callers |-> 0]
  /\ late = {}

-----------------------------------------------------------------------------
\* The loops over thread_workers_: at[t] is the worker visited last.
Visits(t, w) ==
  /\ w \in members
  /\ w > at[t]
  /\ \A v \in members : v <= at[t] \/ v >= w

AllVisited(t) == \A v \in members : v <= at[t]

Advance(t, n) == at' = [at EXCEPT ![t] = n]

\* A caller outside the library issues a command.
Issues(c, cmd) ==
  /\ pc[c] = "idle"
  /\ cmd \in Allowed[c]
  /\ calls[c] < MaxCalls
  /\ calls' = [calls EXCEPT ![c] = @ + 1]

\* Taking mutex_ at the head of a call and entering its loop.
Enters(t, label) ==
  /\ poolMutex = None
  /\ poolMutex' = t
  /\ pc' = [pc EXCEPT ![t] = label]
  /\ Advance(t, 0)

\* Leaving the scope of the scoped_lock.
Leaves(t, label) ==
  /\ poolMutex' = None
  /\ pc' = [pc EXCEPT ![t] = label]

workerData == <<serves, hasThread, promised, stopFlag, pauseFlag, current,
                executed, spurious>>

-----------------------------------------------------------------------------
(* push(job): by a caller, or by the job a worker is running *)

Pushable(t, j) ==
  \/ /\ t \in Callers
     /\ pc[t] = "idle"
     /\ "push" \in Allowed[t]
     /\ j \in Roots
  \/ /\ t \in Workers
     /\ pc[t] = "run"
     /\ j = ChildOf[current[t]]

PushCheck(t, j) ==
  /\ j \in fresh
  /\ Pushable(t, j)
  /\ \/ /\ PushRefused(j)
        /\ UNCHANGED <<pushing, pc>>
     \/ /\ PushAdmitted(j)
        /\ pushing' = [pushing EXCEPT ![t] = j]
        /\ pc' = [pc EXCEPT ![t] = "enqueue"]
  /\ UNCHANGED <<workerData, at, members, working, paused, poolMutex, target,
                 calls, late>>

Enqueue(t) ==
  /\ pc[t] = "enqueue"
  /\ PushBack(pushing[t])
  /\ late' = IF StopUnderWay THEN late \cup {pushing[t]} ELSE late
  /\ pc' = [pc EXCEPT ![t] = "notifyEnter"]
  /\ UNCHANGED <<workerData, at, members, working, paused, poolMutex, pushing,
                 target, calls>>

\* notify_callback()
NotifyEnter(t) ==
  /\ pc[t] = "notifyEnter"
  /\ Enters(t, "notify")
  /\ UNCHANGED <<jobPoolVars, workerData, members, working, paused, pushing,
                 target, calls, late>>

NotifyWorker(t) ==
  /\ pc[t] = "notify"
  /\ \E w \in Workers :
       /\ Visits(t, w)
       /\ NotifyOne(t, w, PriorityOf[pushing[t]], "notify")
       /\ Advance(t, w)
  /\ UNCHANGED <<jobPoolVars, poolVars>>

NotifyDone(t) ==
  /\ pc[t] = "notify"
  /\ AllVisited(t)
  /\ Leaves(t, IF t \in Workers THEN "run" ELSE "idle")
  /\ pushing' = [pushing EXCEPT ![t] = None]
  /\ UNCHANGED <<jobPoolVars, workerData, at, members, working, paused, target,
                 calls, late>>

Push(t) ==
  \/ \E j \in Jobs : PushCheck(t, j)
  \/ Enqueue(t)
  \/ NotifyEnter(t)
  \/ NotifyWorker(t)
  \/ NotifyDone(t)

-----------------------------------------------------------------------------
(* push(worker): of a worker that still has its priorities, which one that *)
(* remove_workers() took out has not.                                       *)

\* Mutant: a working pool does not start the worker it is given.
AddWithoutStart(c, w) ==
  /\ Issues(c, "add")
  /\ poolMutex = None
  /\ serves[w] # {}
  /\ \A v \in members : v < w
  /\ members' = members \cup {w}
  /\ pauseFlag' = [pauseFlag EXCEPT ![w] = paused]
  /\ UNCHANGED <<jobPoolVars, serves, hasThread, promised, stopFlag, current, pc,
                 at, executed, spurious, working, paused, poolMutex, pushing,
                 target, late>>

AddWorker(c, w) ==
  /\ Issues(c, "add")
  /\ poolMutex = None
  /\ serves[w] # {}
  /\ \A v \in members : v < w
  /\ members' = members \cup {w}
  /\ pauseFlag' = [pauseFlag EXCEPT ![w] = paused]
  /\ IF working /\ Startable(w)
     THEN /\ stopFlag' = [stopFlag EXCEPT ![w] = FALSE]
          /\ promised' = [promised EXCEPT ![w] = TRUE]
          /\ hasThread' = [hasThread EXCEPT ![w] = TRUE]
          /\ pc' = [pc EXCEPT ![w] = "lock"]
     ELSE UNCHANGED <<stopFlag, promised, hasThread, pc>>
  /\ UNCHANGED <<jobPoolVars, serves, current, at, executed, spurious, working,
                 paused, poolMutex, pushing, target, late>>

-----------------------------------------------------------------------------
(* start() *)

StartEnter(c) ==
  /\ Issues(c, "start")
  /\ IF working
     THEN poolMutex = None /\ UNCHANGED <<poolMutex, pc, at>>
     ELSE Enters(c, "starting")
  /\ UNCHANGED <<jobPoolVars, workerData, members, working, paused, pushing,
                 target, late>>

\* worker->start() stops a thread the worker still has, then starts one; the
\* first failure ends the call and leaves the workers before it running.
StartWorker(c) ==
  /\ pc[c] = "starting"
  /\ \E w \in Workers :
       /\ Visits(c, w)
       /\ \/ SignalStop(c, w, "startJoin") /\ UNCHANGED <<at, poolMutex>>
          \/ StartThread(c, w, "starting") /\ Advance(c, w) /\ UNCHANGED poolMutex
          \/ StartFails(c, w, "idle") /\ poolMutex' = None /\ UNCHANGED at
  /\ UNCHANGED <<jobPoolVars, members, working, paused, pushing, target, calls,
                 late>>

StartJoin(c) ==
  /\ pc[c] = "startJoin"
  /\ \E w \in Workers : Visits(c, w) /\ Join(c, w, "starting")
  /\ UNCHANGED <<jobPoolVars, at, poolVars>>

StartDone(c) ==
  /\ pc[c] = "starting"
  /\ AllVisited(c)
  /\ working' = TRUE
  /\ Leaves(c, "idle")
  /\ UNCHANGED <<jobPoolVars, workerData, at, members, paused, pushing, target,
                 calls, late>>

-----------------------------------------------------------------------------
(* pause(condition) *)

PauseEnter(c, b) ==
  /\ Issues(c, IF b THEN "pause" ELSE "resume")
  /\ Enters(c, "pausing")
  /\ paused' = b
  /\ UNCHANGED <<jobPoolVars, workerData, members, working, pushing, target, late>>

PauseWorker(c) ==
  /\ pc[c] = "pausing"
  /\ \E w \in Workers :
       Visits(c, w) /\ SetPause(c, w, paused, "pausing") /\ Advance(c, w)
  /\ UNCHANGED <<jobPoolVars, poolVars>>

PauseDone(c) ==
  /\ pc[c] = "pausing"
  /\ AllVisited(c)
  /\ Leaves(c, "idle")
  /\ UNCHANGED <<jobPoolVars, workerData, at, members, working, paused, pushing,
                 target, calls, late>>

-----------------------------------------------------------------------------
(* stop(stop_immediately) *)

StopEnter(c, immediately) ==
  /\ Issues(c, IF immediately THEN "stopNow" ELSE "stop")
  /\ IF working
     THEN /\ Enters(c, IF immediately THEN "clearing" ELSE "stopping")
          /\ SetLocked(TRUE)
     ELSE /\ poolMutex = None
          /\ UNCHANGED <<poolMutex, pc, at, jobPoolVars>>
  /\ UNCHANGED <<workerData, members, working, paused, pushing, target, late>>

StopClear(c) ==
  /\ pc[c] = "clearing"
  /\ ClearQueues(Priorities)
  /\ pc' = [pc EXCEPT ![c] = "stopping"]
  /\ UNCHANGED <<workerData, at, poolVars>>

\* worker->stop() fails when the worker has no thread, and so does the call:
\* the JobPool stays locked and the workers after it keep running.
StopWorker(c) ==
  /\ pc[c] = "stopping"
  /\ \E w \in Workers :
       /\ Visits(c, w)
       /\ \/ SignalStop(c, w, "joining") /\ UNCHANGED poolMutex
          \/ ~hasThread[w] /\ Leaves(c, "idle") /\ UNCHANGED workerData
  /\ UNCHANGED <<jobPoolVars, at, members, working, paused, pushing, target,
                 calls, late>>

StopJoin(c) ==
  /\ pc[c] = "joining"
  /\ \E w \in Workers :
       Visits(c, w) /\ Join(c, w, "stopping") /\ Advance(c, w)
  /\ UNCHANGED <<jobPoolVars, poolVars>>

\* Mutant: stop() forgets to unlock the JobPool.
StopWithoutUnlock(c) ==
  /\ pc[c] = "stopping"
  /\ AllVisited(c)
  /\ Leaves(c, "stopTail")
  /\ UNCHANGED <<jobPoolVars, workerData, at, members, working, paused, pushing,
                 target, calls, late>>

StopUnlock(c) ==
  /\ pc[c] = "stopping"
  /\ AllVisited(c)
  /\ SetLocked(FALSE)
  /\ Leaves(c, "stopTail")
  /\ UNCHANGED <<workerData, at, members, working, paused, pushing, target,
                 calls, late>>

\* working_ is reset after mutex_ was released.
StopTail(c) ==
  /\ pc[c] = "stopTail"
  /\ working' = FALSE
  /\ pc' = [pc EXCEPT ![c] = "idle"]
  /\ UNCHANGED <<jobPoolVars, workerData, at, members, paused, poolMutex,
                 pushing, target, calls, late>>

-----------------------------------------------------------------------------
(* lock(condition) *)

LockPool(c, b) ==
  /\ Issues(c, IF b THEN "lock" ELSE "unlock")
  /\ SetLocked(b)
  /\ UNCHANGED <<workerData, pc, at, members, working, paused, poolMutex,
                 pushing, target, late>>

-----------------------------------------------------------------------------
(* remove_workers(priority) *)

\* The queue is cleared before mutex_ is taken.
RemoveClear(c, p) ==
  /\ Issues(c, "remove")
  /\ ClearQueues({p})
  /\ target' = [target EXCEPT ![c] = p]
  /\ pc' = [pc EXCEPT ![c] = "removeEnter"]
  /\ UNCHANGED <<workerData, at, members, working, paused, poolMutex, pushing,
                 late>>

RemoveEnter(c) ==
  /\ pc[c] = "removeEnter"
  /\ Enters(c, "removing")
  /\ UNCHANGED <<jobPoolVars, workerData, members, working, paused, pushing,
                 target, calls, late>>

RemovePriority(c) ==
  /\ pc[c] = "removing"
  /\ \E w \in Workers :
       /\ Visits(c, w)
       /\ \/ /\ serves[w] \subseteq {target[c]}
             /\ DropPriority(c, w, target[c], "removeStop")
             /\ UNCHANGED at
          \/ /\ ~(serves[w] \subseteq {target[c]})
             /\ DropPriority(c, w, target[c], "removing")
             /\ Advance(c, w)
  /\ UNCHANGED <<jobPoolVars, poolVars>>

\* Mutant: the thread is told to stop and not joined.
RemoveWithoutJoin(c) ==
  /\ pc[c] = "removeStop"
  /\ \E w \in Workers :
       /\ Visits(c, w)
       /\ SignalStop(c, w, "removing") \/ (~hasThread[w] /\ UNCHANGED workerData
                                          /\ pc' = [pc EXCEPT ![c] = "removing"])
       /\ Advance(c, w)
  /\ UNCHANGED <<jobPoolVars, poolVars>>

\* worker->stop() of a worker with no priority left; its result is ignored.
RemoveStop(c) ==
  /\ pc[c] = "removeStop"
  /\ \E w \in Workers :
       /\ Visits(c, w)
       /\ \/ SignalStop(c, w, "removeJoin") /\ UNCHANGED at
          \/ /\ ~hasThread[w]
             /\ pc' = [pc EXCEPT ![c] = "removing"]
             /\ Advance(c, w)
             /\ UNCHANGED workerData
  /\ UNCHANGED <<jobPoolVars, poolVars>>

RemoveJoin(c) ==
  /\ pc[c] = "removeJoin"
  /\ \E w \in Workers :
       Visits(c, w) /\ Join(c, w, "removing") /\ Advance(c, w)
  /\ UNCHANGED <<jobPoolVars, poolVars>>

RemoveDone(c) ==
  /\ pc[c] = "removing"
  /\ AllVisited(c)
  /\ members' = {w \in members : serves[w] # {}}
  /\ Leaves(c, "idle")
  /\ UNCHANGED <<jobPoolVars, workerData, at, working, paused, pushing, target,
                 calls, late>>

-----------------------------------------------------------------------------
Start(c) == StartEnter(c) \/ StartWorker(c) \/ StartJoin(c) \/ StartDone(c)

Pause(c) ==
  (\E b \in BOOLEAN : PauseEnter(c, b)) \/ PauseWorker(c) \/ PauseDone(c)

Stop(c) ==
  \/ \E b \in BOOLEAN : StopEnter(c, b)
  \/ StopClear(c)
  \/ StopWorker(c)
  \/ StopJoin(c)
  \/ StopUnlock(c)
  \/ StopTail(c)

Remove(c) ==
  \/ \E p \in Priorities : RemoveClear(c, p)
  \/ RemoveEnter(c)
  \/ RemovePriority(c)
  \/ RemoveStop(c)
  \/ RemoveJoin(c)
  \/ RemoveDone(c)

WorkerStep(w) == RunLoop(w) /\ UNCHANGED poolVars
WorkerWakes(w) == SpuriousWake(w) /\ UNCHANGED poolVars

Command(c) ==
  \/ Start(c)
  \/ Pause(c)
  \/ Stop(c)
  \/ Remove(c)
  \/ \E b \in BOOLEAN : LockPool(c, b)
  \/ \E w \in Workers : AddWorker(c, w)

Next ==
  \/ \E t \in Threads : Push(t)
  \/ \E w \in Workers : WorkerStep(w) \/ WorkerWakes(w)
  \/ \E c \in Callers : Command(c)

Spec == Init /\ [][Next]_vars

\* The scheduler runs every thread that can go on with a call it is inside;
\* nothing makes a caller issue a command, a job push another, or a condition
\* variable wake spuriously.
Fairness ==
  /\ \A t \in Threads : WF_vars(pc[t] \in PushLabels /\ Push(t))
  /\ \A w \in Workers : WF_vars(WorkerStep(w))
  /\ \A c \in Callers : WF_vars(pc[c] # "idle" /\ Command(c))

FairSpec == Spec /\ Fairness

-----------------------------------------------------------------------------
(* Invariants *)

PoolTypeOK ==
  /\ pc \in [Threads -> WorkerLabels \cup CallLabels]
  /\ at \in [Threads -> Nat]
  /\ members \subseteq Workers
  /\ working \in BOOLEAN
  /\ paused \in BOOLEAN
  /\ poolMutex \in Threads \cup {None}
  /\ pushing \in [Threads -> Jobs \cup {None}]
  /\ target \in [Callers -> Priorities \cup {None}]
  /\ calls \in [Callers -> 0 .. MaxCalls]
  /\ late \subseteq Jobs

\* Every variable holds a value of its type.
TypeOK ==
  /\ JobPoolTypeOK
  /\ WorkerTypeOK
  /\ PoolTypeOK

InFlight == {pushing[t] : t \in {u \in Threads : pc[u] = "enqueue"}}
Running == {current[w] : w \in {v \in Workers : current[v] # None}}

\* Where a job can be, one set per place.
Places == <<fresh, refused, InFlight, AllQueued, Running, executed, discarded>>

\* A job handed to push() is never lost and never runs twice: at any time it
\* is in exactly one place (JobPool::push, pop and clear, ThreadWorker::run),
\* once, and in a queue only in that of its own priority.
JobsAccounted ==
  /\ \A j \in Jobs : \E i \in DOMAIN Places :
       /\ j \in Places[i]
       /\ \A k \in DOMAIN Places : j \in Places[k] => k = i
  /\ \A p \in Priorities : IsInjective(queue[p])
  /\ \A p \in Priorities : \A j \in Queued(p) : PriorityOf[j] = p
  /\ \A v, w \in Workers : current[v] = current[w] /\ current[v] # None => v = w
  /\ \A t, u \in Threads :
       pushing[t] = pushing[u] /\ pushing[t] # None => t = u

\* The push of j has yet to notify worker w.
WillNotify(j, w) ==
  \E t \in Threads :
    /\ pushing[t] = j
    /\ \/ pc[t] = "notifyEnter"
       \/ pc[t] = "notify" /\ at[t] < w

\* No wake-up is lost: a worker asleep in condition_.wait() has not been told
\* to stop, and unless it is paused every job it could take is one whose
\* push() is still on its way to notify it (JobPool::push enqueues without
\* the worker's mutex_, ThreadWorker::notify_one notifies under it).
NoLostWakeup ==
  \A w \in Workers : pc[w] = "wait" =>
    /\ ~stopFlag[w]
    /\ ~pauseFlag[w] =>
         \A p \in serves[w] : \A j \in Queued(p) : WillNotify(j, w)

\* A paused worker takes no job unless it is stopping: pause() returns only
\* after a pop that had passed the check is over (ThreadWorker::pause, run).
PausedWorkerTakesNothing ==
  \A w \in Workers : pc[w] \in {"scan", "take"} /\ pauseFlag[w] => stopFlag[w]

\* When stop() has joined its workers, no thread of the pool runs any more and
\* the queues a worker serves hold only jobs that were enqueued during the
\* stop: what was accepted before it has run, or was cleared on request.
StopDrains ==
  \A c \in Callers : pc[c] = "stopping" /\ AllVisited(c) =>
    /\ \A w \in Workers : pc[w] = "idle" /\ ~hasThread[w]
    /\ \A w \in members : \A p \in serves[w] : Queued(p) \subseteq late

\* The lock stop() puts on the JobPool does not outlive the call, on any of
\* its exits (ThreadPool::stop; the pool is not locked by hand here).
LockEndsWithStop ==
  locked => \E c \in Callers : pc[c] \in {"clearing", "stopping", "joining"}

\* While the pool works and no call is rearranging it, each of its workers has
\* a live thread that was not told to stop.
WorkersAlive ==
  working /\ poolMutex = None /\ ~StopUnderWay =>
    \A w \in members : hasThread[w] /\ pc[w] # "idle" /\ ~stopFlag[w]

\* A worker outside the pool has no thread: remove_workers() joins the thread
\* of a worker before it drops it from the vector (ThreadPool::remove_workers).
NoThreadOutsidePool ==
  \A w \in Workers \ members : ~hasThread[w] /\ pc[w] = "idle"

-----------------------------------------------------------------------------
(* Liveness *)

Active(j) ==
  /\ working
  /\ ~paused
  /\ \E w \in members : PriorityOf[j] \in serves[w]

\* A queued job is taken as long as the pool works, is not paused and has a
\* worker for it: no wake-up that would be needed is missed.
QueuedJobIsTaken ==
  \A j \in Jobs : (j \in AllQueued /\ Active(j)) ~> (j \notin AllQueued \/ ~Active(j))

\* Every call of the pool returns: the joins in stop() and remove_workers()
\* end, and so does every notification round of push().
CallsReturn == \A c \in Callers : (pc[c] # "idle") ~> (pc[c] = "idle")

-----------------------------------------------------------------------------
\* What the pool promises its users, see JobService.
Service == INSTANCE JobService WITH
  pending <- queue,
  running <- Running,
  finished <- executed,
  dropped <- refused \cup discarded

\* Exactly once and first in, first out per priority.
ImplementsJobService == Service!Spec
=============================================================================
