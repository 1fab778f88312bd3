------------------------------- MODULE JobPool -------------------------------
(***************************************************************************)
(* ThreadPool/JobPool.cpp: one FIFO queue per priority behind a mutex, and *)
(* an atomic flag that refuses new jobs.  Every critical section of        *)
(* JobPool::mutex_ takes no other lock, so it is one step here; the flag   *)
(* is read outside the mutex, so the two halves of push() are two          *)
(* operators.                                                              *)
(***************************************************************************)
EXTENDS Naturals, Sequences, Functions

CONSTANTS Jobs,        \* the jobs ever pushed
          Priorities,  \* JobPriorities
          PriorityOf   \* the priority each job was built with

ASSUME JobPoolAssumption == PriorityOf \in [Jobs -> Priorities]

VARIABLES queue,      \* job_queues_; an absent entry is the empty sequence
          locked,     \* lock_condition_
          fresh,      \* history: jobs never handed to push()
          refused,    \* history: jobs push() turned away
          discarded   \* history: jobs thrown away by clear()

jobPoolVars == <<queue, locked, fresh, refused, discarded>>

JobPoolTypeOK ==
  /\ queue \in [Priorities -> Seq(Jobs)]
  /\ locked \in BOOLEAN
  /\ fresh \subseteq Jobs
  /\ refused \subseteq Jobs
  /\ discarded \subseteq Jobs

JobPoolInit ==
  /\ queue = [p \in Priorities |-> <<>>]
  /\ locked = FALSE
  /\ fresh = Jobs
  /\ refused = {}
  /\ discarded = {}

Queued(p) == Range(queue[p])
AllQueued == UNION {Queued(p) : p \in Priorities}

-----------------------------------------------------------------------------
\* push() up to the test of lock_condition_, which holds no mutex.
PushRefused(j) ==
  /\ locked
  /\ fresh' = fresh \ {j}
  /\ refused' = refused \cup {j}
  /\ UNCHANGED <<queue, locked, discarded>>

PushAdmitted(j) ==
  /\ ~locked
  /\ fresh' = fresh \ {j}
  /\ UNCHANGED <<queue, locked, refused, discarded>>

\* Mutant: the job is queued at the front.
PushFront(j) ==
  /\ queue' = [queue EXCEPT ![PriorityOf[j]] = <<j>> \o @]
  /\ UNCHANGED <<locked, fresh, refused, discarded>>

\* The critical section of push(); the flag is not looked at again.
PushBack(j) ==
  /\ queue' = [queue EXCEPT ![PriorityOf[j]] = Append(@, j)]
  /\ UNCHANGED <<locked, fresh, refused, discarded>>

\* pop(): what it answers for the priorities ps[1], ps[2], ... of which only
\* those in S are still served.  There may be nothing to pop.
Poppable(ps, S, i) ==
  /\ ps[i] \in S
  /\ queue[ps[i]] # <<>>
  /\ \A k \in 1 .. i - 1 : ps[k] \in S => queue[ps[k]] = <<>>

\* Mutant: pop() forgets pop_front().
PeekFront(p) == UNCHANGED <<queue, locked, fresh, refused, discarded>>

PopFront(p) ==
  /\ queue' = [queue EXCEPT ![p] = Tail(@)]
  /\ UNCHANGED <<locked, fresh, refused, discarded>>

\* clear(priority) and clear().
ClearQueues(S) ==
  /\ queue' = [p \in Priorities |-> IF p \in S THEN <<>> ELSE queue[p]]
  /\ discarded' = discarded \cup UNION {Queued(p) : p \in S}
  /\ UNCHANGED <<locked, fresh, refused>>

\* lock(condition), an atomic store.
SetLocked(b) ==
  /\ locked' = b
  /\ UNCHANGED <<queue, fresh, refused, discarded>>
=============================================================================
