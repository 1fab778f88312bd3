----------------------------- MODULE MCThreadPool -----------------------------
(***************************************************************************)
(* Small thread pools for TLC.  The priorities are those of DataHandler's  *)
(* pools; the assignment of priorities to workers is the one of            *)
(* DataHandler::create_thread_pool() or a uniform one.                     *)
(***************************************************************************)
EXTENDS ThreadPool, TLC

CONSTANTS high, normal,    \* priorities
          j1, j2, j3,      \* jobs
          user, producer   \* threads of the program

MCPriorities == {high, normal}
MCJobs == {j1, j2, j3}
MCCallers == {user, producer}

\* Two jobs of one priority, so that order matters, and one of the other.
MCPriorityOf == (j1 :> normal) @@ (j2 :> normal) @@ (j3 :> high)

NoChildren == [j \in MCJobs |-> None]
\* j1 pushes j3 when it runs, as one stage of DataHandler::send() the next.
Pipeline == (j1 :> j3) @@ (j2 :> None) @@ (j3 :> None)

OneUniformWorker == <<  <<normal, high>> >>
TwoUniformWorkers == << <<normal, high>>, <<normal, high>> >>
\* {High} and {Normal, High}: the worker of one vector serves part of the other.
TwoMixedWorkers == << <<high>>, <<normal, high>> >>

AllInitial == Workers
NoneInitial == {}

Lifecycle == (user :> {"start", "stop", "stopNow"}) @@ (producer :> {"push"})
Pausable == (user :> {"start", "stop", "pause", "resume"}) @@ (producer :> {"push"})
\* Two threads that both start, stop and extend the pool.
TwoUsers == (user :> {"start", "stop", "remove", "lock", "unlock"})
            @@ (producer :> {"push", "start", "stop", "add"})
=============================================================================
