----------------------------- MODULE ThreadWorker -----------------------------
(***************************************************************************)
(* ThreadPool/ThreadWorker.cpp: the thread a worker runs, its condition    *)
(* variable and its two flags.  A worker holds its mutex_ from the moment  *)
(* it starts to evaluate the predicate of condition_.wait() until it is    *)
(* blocked in the wait or has popped a job; every other user of the mutex  *)
(* holds it for a single step, so WorkerMutexFree says when they may go.   *)
(***************************************************************************)
EXTENDS JobPool

CONSTANTS NumWorkers,        \* the workers are 1 .. NumWorkers, in vector order
          Callers,           \* the other threads of the program
          None,              \* nobody, nothing
          WorkerPriorities,  \* the priorities each worker was built with
          MaxSpurious        \* bound: spurious wake-ups of all workers together

Workers == 1 .. NumWorkers
Threads == Workers \cup Callers

ASSUME WorkerAssumption ==
  /\ NumWorkers \in Nat
  /\ Workers \cap Callers = {}
  /\ None \notin Jobs
  /\ None \notin Threads
  /\ WorkerPriorities \in [Workers -> Seq(Priorities)]
  /\ MaxSpurious \in Nat

VARIABLES serves,     \* priorities_: what is left of WorkerPriorities[w]
          hasThread,  \* thread_ is not null
          promised,   \* promise_ has given its future away
          stopFlag,   \* thread_stop_
          pauseFlag,  \* ThreadWorker::pause_
          current,    \* the job do_run() is working on
          pc,         \* where every thread is; "idle" is outside the library
          at,         \* how far the loop a thread is in has come
          executed,   \* history: jobs whose work() returned
          spurious    \* spurious wake-ups so far

workerVars == <<serves, hasThread, promised, stopFlag, pauseFlag, current,
                pc, at, executed, spurious>>

Served(w) == WorkerPriorities[w]

WorkerLabels == {"idle", "lock", "scan", "block", "wait", "take", "recheck",
                 "run", "exiting"}

WorkerTypeOK ==
  /\ serves \in [Workers -> SUBSET Priorities]
  /\ hasThread \in [Workers -> BOOLEAN]
  /\ promised \in [Workers -> BOOLEAN]
  /\ stopFlag \in [Workers -> BOOLEAN]
  /\ pauseFlag \in [Workers -> BOOLEAN]
  /\ current \in [Workers -> Jobs \cup {None}]
  /\ executed \subseteq Jobs
  /\ spurious \in 0 .. MaxSpurious

WorkerMutexFree(w) == pc[w] \notin {"scan", "block", "take"}

WorkerInit ==
  /\ serves = [w \in Workers |-> Range(Served(w))]
  /\ hasThread = [w \in Workers |-> FALSE]
  /\ promised = [w \in Workers |-> FALSE]
  /\ stopFlag = [w \in Workers |-> FALSE]
  /\ pauseFlag = [w \in Workers |-> FALSE]
  /\ current = [w \in Workers |-> None]
  /\ pc = [t \in Threads |-> "idle"]
  /\ at = [t \in Threads |-> 0]
  /\ executed = {}
  /\ spurious = 0

-----------------------------------------------------------------------------
(* run() *)

\* Mutant: a worker told to stop leaves without looking for jobs.
LockAndLeave(w) ==
  /\ pc[w] = "lock"
  /\ pc' = [pc EXCEPT ![w] = IF stopFlag[w] THEN "exiting"
                            ELSE IF pauseFlag[w] THEN "block" ELSE "scan"]
  /\ at' = [at EXCEPT ![w] = 1]
  /\ UNCHANGED jobPoolVars
  /\ UNCHANGED <<serves, hasThread, promised, stopFlag, pauseFlag, current,
                 executed, spurious>>

\* run() takes mutex_ and evaluates the flags of check_condition().  Both
\* flags are written under mutex_, so they keep these values until it is
\* released, and the test of thread_stop_ && pause_ after the wait is covered.
LockAndCheck(w) ==
  /\ pc[w] = "lock"
  /\ pc' = [pc EXCEPT ![w] = IF pauseFlag[w] /\ ~stopFlag[w] THEN "block"
                                                             ELSE "scan"]
  /\ at' = [at EXCEPT ![w] = 1]
  /\ UNCHANGED jobPoolVars
  /\ UNCHANGED <<serves, hasThread, promised, stopFlag, pauseFlag, current,
                 executed, spurious>>

\* One round of has_job(): job_count() looks at one queue at a time, and at
\* every queue of the pool when the worker has no priority left.
CountedNow(w) ==
  IF serves[w] = {} THEN AllQueued # {}
  ELSE Served(w)[at[w]] \in serves[w] /\ queue[Served(w)[at[w]]] # <<>>

LastCounted(w) == serves[w] = {} \/ at[w] >= Len(Served(w))

ScanQueue(w) ==
  /\ pc[w] = "scan"
  /\ \/ /\ CountedNow(w)
        /\ pc' = [pc EXCEPT ![w] = "take"]
        /\ UNCHANGED at
     \/ /\ ~CountedNow(w)
        /\ ~LastCounted(w)
        /\ at' = [at EXCEPT ![w] = @ + 1]
        /\ UNCHANGED pc
     \/ /\ ~CountedNow(w)
        /\ LastCounted(w)
        /\ pc' = [pc EXCEPT ![w] = IF stopFlag[w] THEN "exiting" ELSE "block"]
        /\ UNCHANGED at
  /\ UNCHANGED jobPoolVars
  /\ UNCHANGED <<serves, hasThread, promised, stopFlag, pauseFlag, current,
                 executed, spurious>>

\* condition_.wait() releases mutex_ and blocks in one step.
BlockInWait(w) ==
  /\ pc[w] = "block"
  /\ pc' = [pc EXCEPT ![w] = "wait"]
  /\ UNCHANGED jobPoolVars
  /\ UNCHANGED <<serves, hasThread, promised, stopFlag, pauseFlag, current, at,
                 executed, spurious>>

\* What condition_.notify_one() makes of a worker: its condition variable has
\* no other waiter.
Woken(w) == IF pc[w] = "wait" THEN "lock" ELSE pc[w]

SpuriousWake(w) ==
  /\ pc[w] = "wait"
  /\ spurious < MaxSpurious
  /\ spurious' = spurious + 1
  /\ pc' = [pc EXCEPT ![w] = "lock"]
  /\ UNCHANGED jobPoolVars
  /\ UNCHANGED <<serves, hasThread, promised, stopFlag, pauseFlag, current, at,
                 executed>>

\* pop() and the release of mutex_: a job, or nothing when other threads
\* emptied the queues since the scan or the worker has no priority left.
Take(w) ==
  /\ pc[w] = "take"
  /\ \/ \E i \in 1 .. Len(Served(w)) :
          /\ Poppable(Served(w), serves[w], i)
          /\ current' = [current EXCEPT ![w] = Head(queue[Served(w)[i]])]
          /\ PopFront(Served(w)[i])
          /\ pc' = [pc EXCEPT ![w] = "run"]
     \/ /\ \A p \in serves[w] : queue[p] = <<>>
        /\ pc' = [pc EXCEPT ![w] = "recheck"]
        /\ UNCHANGED current
        /\ UNCHANGED jobPoolVars
  /\ UNCHANGED <<serves, hasThread, promised, stopFlag, pauseFlag, at,
                 executed, spurious>>

\* pop() gave nothing: thread_stop_ is read after mutex_ was released.
RecheckStop(w) ==
  /\ pc[w] = "recheck"
  /\ pc' = [pc EXCEPT ![w] = IF stopFlag[w] THEN "exiting" ELSE "lock"]
  /\ UNCHANGED jobPoolVars
  /\ UNCHANGED <<serves, hasThread, promised, stopFlag, pauseFlag, current, at,
                 executed, spurious>>

\* Mutant: the job is let go before it is recorded.
ResetThenFinish(w) ==
  /\ pc[w] = "run"
  /\ current' = [current EXCEPT ![w] = None]
  /\ executed' = executed \cup {current'[w]}
  /\ pc' = [pc EXCEPT ![w] = "lock"]
  /\ UNCHANGED jobPoolVars
  /\ UNCHANGED <<serves, hasThread, promised, stopFlag, pauseFlag, at, spurious>>

\* do_run(): work() returned, or threw and the exception was swallowed.
FinishJob(w) ==
  /\ pc[w] = "run"
  /\ executed' = executed \cup {current[w]}
  /\ current' = [current EXCEPT ![w] = None]
  /\ pc' = [pc EXCEPT ![w] = "lock"]
  /\ UNCHANGED jobPoolVars
  /\ UNCHANGED <<serves, hasThread, promised, stopFlag, pauseFlag, at, spurious>>

\* The end of run(): thread_stop_ is reset without the mutex.
ExitThread(w) ==
  /\ pc[w] = "exiting"
  /\ stopFlag' = [stopFlag EXCEPT ![w] = FALSE]
  /\ pc' = [pc EXCEPT ![w] = "idle"]
  /\ UNCHANGED jobPoolVars
  /\ UNCHANGED <<serves, hasThread, promised, pauseFlag, current, at, executed,
                 spurious>>

RunLoop(w) ==
  \/ LockAndCheck(w)
  \/ ScanQueue(w)
  \/ BlockInWait(w)
  \/ Take(w)
  \/ RecheckStop(w)
  \/ FinishJob(w)
  \/ ExitThread(w)

-----------------------------------------------------------------------------
(* The calls of ThreadPool on a worker: what they do to the worker, and the *)
(* label the calling thread t goes to.                                      *)

\* Mutant: notify_one() does not take mutex_.
NotifyUnlocked(t, w, p, label) ==
  /\ pc' = [pc EXCEPT ![w] = IF hasThread[w] /\ p \in serves[w]
                            THEN Woken(w) ELSE pc[w],
                     ![t] = label]
  /\ UNCHANGED <<serves, hasThread, promised, stopFlag, pauseFlag, current,
                 executed, spurious>>

\* notify_one(priority).
NotifyOne(t, w, p, label) ==
  /\ IF hasThread[w] /\ p \in serves[w]
     THEN WorkerMutexFree(w) /\ pc' = [pc EXCEPT ![w] = Woken(w), ![t] = label]
     ELSE pc' = [pc EXCEPT ![t] = label]
  /\ UNCHANGED <<serves, hasThread, promised, stopFlag, pauseFlag, current,
                 executed, spurious>>

\* Mutant: stop() sets the flag and notifies without mutex_.
SignalUnlocked(t, w, label) ==
  /\ hasThread[w]
  /\ stopFlag' = [stopFlag EXCEPT ![w] = TRUE]
  /\ pc' = [pc EXCEPT ![w] = Woken(w), ![t] = label]
  /\ UNCHANGED <<serves, hasThread, promised, pauseFlag, current, executed,
                 spurious>>

\* stop() of a worker that has a thread, up to join().
SignalStop(t, w, label) ==
  /\ hasThread[w]
  /\ WorkerMutexFree(w)
  /\ stopFlag' = [stopFlag EXCEPT ![w] = TRUE]
  /\ pc' = [pc EXCEPT ![w] = Woken(w), ![t] = label]
  /\ UNCHANGED <<serves, hasThread, promised, pauseFlag, current, executed,
                 spurious>>

\* The rest of stop(): join() returns once the thread has ended.
Join(t, w, label) ==
  /\ pc[w] = "idle"
  /\ hasThread' = [hasThread EXCEPT ![w] = FALSE]
  /\ pc' = [pc EXCEPT ![t] = label]
  /\ UNCHANGED <<serves, promised, stopFlag, pauseFlag, current, executed,
                 spurious>>

\* start() of a worker that has no thread can succeed once: promise_ is never
\* renewed, so a later get_future() throws.
Startable(w) == ~hasThread[w] /\ serves[w] # {} /\ ~promised[w]

\* start() up to future.wait(): the new thread is at the head of run()'s loop.
StartThread(t, w, label) ==
  /\ Startable(w)
  /\ stopFlag' = [stopFlag EXCEPT ![w] = FALSE]
  /\ promised' = [promised EXCEPT ![w] = TRUE]
  /\ hasThread' = [hasThread EXCEPT ![w] = TRUE]
  /\ pc' = [pc EXCEPT ![w] = "lock", ![t] = label]
  /\ UNCHANGED <<serves, pauseFlag, current, executed, spurious>>

\* start() that fails: no priority, or std::future_error from get_future().
StartFails(t, w, label) ==
  /\ ~hasThread[w]
  /\ ~Startable(w)
  /\ stopFlag' = IF serves[w] = {} THEN stopFlag
                                   ELSE [stopFlag EXCEPT ![w] = FALSE]
  /\ pc' = [pc EXCEPT ![t] = label]
  /\ UNCHANGED <<serves, hasThread, promised, pauseFlag, current, executed,
                 spurious>>

\* Mutant: pause() does not take mutex_.
PauseUnlocked(t, w, b, label) ==
  /\ pauseFlag' = [pauseFlag EXCEPT ![w] = b]
  /\ pc' = [pc EXCEPT ![w] = Woken(w), ![t] = label]
  /\ UNCHANGED <<serves, hasThread, promised, stopFlag, current, executed,
                 spurious>>

\* Mutant: pause() does not notify.
PauseSilently(t, w, b, label) ==
  /\ WorkerMutexFree(w)
  /\ pauseFlag' = [pauseFlag EXCEPT ![w] = b]
  /\ pc' = [pc EXCEPT ![t] = label]
  /\ UNCHANGED <<serves, hasThread, promised, stopFlag, current, executed,
                 spurious>>

\* pause(condition).
SetPause(t, w, b, label) ==
  /\ WorkerMutexFree(w)
  /\ pauseFlag' = [pauseFlag EXCEPT ![w] = b]
  /\ pc' = [pc EXCEPT ![w] = Woken(w), ![t] = label]
  /\ UNCHANGED <<serves, hasThread, promised, stopFlag, current, executed,
                 spurious>>

\* priorities(list without p).
DropPriority(t, w, p, label) ==
  /\ WorkerMutexFree(w)
  /\ serves' = [serves EXCEPT ![w] = @ \ {p}]
  /\ pc' = [pc EXCEPT ![t] = label]
  /\ UNCHANGED <<hasThread, promised, stopFlag, pauseFlag, current, executed,
                 spurious>>
=============================================================================
