------------------------------ MODULE JobService ------------------------------
(***************************************************************************)
(* What a thread pool promises about jobs, with no thread and no lock in   *)
(* it: a job is submitted at most once, waits in the queue of its          *)
(* priority, is taken in the order of submission, and finishes; or it is   *)
(* dropped before it was taken, and then it never runs.                    *)
(***************************************************************************)
EXTENDS Naturals, Sequences, Functions

CONSTANTS Jobs, Priorities, PriorityOf

VARIABLES pending,   \* per priority, the jobs accepted and not taken
          running,   \* the jobs being worked on
          finished,  \* the jobs worked on
          dropped    \* the jobs refused, or thrown away while pending

serviceVars == <<pending, running, finished, dropped>>

Waiting == UNION {Range(pending[p]) : p \in Priorities}
Known == Waiting \cup running \cup finished \cup dropped

Init ==
  /\ pending = [p \in Priorities |-> <<>>]
  /\ running = {}
  /\ finished = {}
  /\ dropped = {}

Submit(j) ==
  /\ j \notin Known
  /\ pending' = [pending EXCEPT ![PriorityOf[j]] = Append(@, j)]
  /\ UNCHANGED <<running, finished, dropped>>

Refuse(j) ==
  /\ j \notin Known
  /\ dropped' = dropped \cup {j}
  /\ UNCHANGED <<pending, running, finished>>

Begin(p) ==
  /\ pending[p] # <<>>
  /\ running' = running \cup {Head(pending[p])}
  /\ pending' = [pending EXCEPT ![p] = Tail(@)]
  /\ UNCHANGED <<finished, dropped>>

End(j) ==
  /\ j \in running
  /\ running' = running \ {j}
  /\ finished' = finished \cup {j}
  /\ UNCHANGED <<pending, dropped>>

Discard(S) ==
  /\ pending' = [p \in Priorities |-> IF p \in S THEN <<>> ELSE pending[p]]
  /\ dropped' = dropped \cup UNION {Range(pending[p]) : p \in S}
  /\ UNCHANGED <<running, finished>>

Next ==
  \/ \E j \in Jobs : Submit(j) \/ Refuse(j) \/ End(j)
  \/ \E p \in Priorities : Begin(p)
  \/ \E S \in SUBSET Priorities : Discard(S)

Spec == Init /\ [][Next]_serviceVars
=============================================================================
