--------------------------- MODULE ThreadPoolProofs ---------------------------
(***************************************************************************)
(* Proofs about ThreadPool.  Every proof of an invariant has a lemma per   *)
(* action; the lemmas rest on what a call does to the worker it is made    *)
(* on (CallOnWorker...) and on how it moves the program counters (Moves).  *)
(* First the types; then that no wake-up is lost, that workers outside the *)
(* pool have no thread, and that a paused worker takes no job; then where  *)
(* the jobs are, that the pool implements JobService, and what a stop()    *)
(* leaves behind.                                                          *)
(***************************************************************************)
EXTENDS ThreadPool, SequenceLemmas

\* Where a thread can be, and what it carries there.
WorkerControl ==
  \A w \in Workers :
    /\ pc[w] \in WorkerLabels \cup PushLabels
    /\ current[w] # None <=> pc[w] \in {"run"} \cup PushLabels
    /\ ~hasThread[w] => pc[w] = "idle"

CallerControl == \A c \in Callers : pc[c] \in {"idle"} \cup CallLabels

PushControl == \A t \in Threads : pushing[t] # None <=> pc[t] \in PushLabels

Control == WorkerControl /\ CallerControl /\ PushControl

TypedControl == TypeOK /\ Control

\* Thread t goes to label, and nobody else moves but a worker that is woken.
Moves(t, label) ==
  /\ pc' \in [Threads -> WorkerLabels \cup CallLabels]
  /\ pc'[t] = label
  /\ \A u \in Threads \ {t} :
       pc'[u] = pc[u] \/ (pc[u] = "wait" /\ pc'[u] = "lock")

LEMMA ThreadSets ==
  /\ Workers \subseteq Threads
  /\ Callers \subseteq Threads
  /\ Workers \cap Callers = {}
  /\ Workers \subseteq Nat
  /\ None \notin Threads
  /\ None \notin Jobs
  BY WorkerAssumption DEF Threads, Workers

LEMMA TypedControlInit == Init => TypedControl
  <1> SUFFICES ASSUME Init PROVE TypedControl
    OBVIOUS
  <1> USE DEF Init
  <1>1. \A w \in Workers : Range(Served(w)) \subseteq Priorities
    BY WorkerAssumption, ElementOfSeq DEF Range, Served
  <1>2. JobPoolTypeOK
    BY EmptySeq DEF JobPoolInit, JobPoolTypeOK
  <1>3. WorkerTypeOK
    BY <1>1, WorkerAssumption DEF WorkerInit, WorkerTypeOK
  <1>4. PoolTypeOK
    <2>1. /\ pc \in [Threads -> WorkerLabels \cup CallLabels]
          /\ at \in [Threads -> Nat]
      BY DEF WorkerInit, WorkerLabels
    <2>2. members \subseteq Workers /\ MaxCalls \in Nat
      BY PoolAssumption
    <2>3. /\ working \in BOOLEAN
          /\ paused \in BOOLEAN
          /\ poolMutex \in Threads \cup {None}
          /\ pushing \in [Threads -> Jobs \cup {None}]
          /\ target \in [Callers -> Priorities \cup {None}]
          /\ late \subseteq Jobs
      OBVIOUS
    <2>4. calls \in [Callers -> 0 .. MaxCalls]
      BY <2>2
    <2> QED
      BY <2>1, <2>2, <2>3, <2>4 DEF PoolTypeOK
  <1>5. Control
    <2>1. \A t \in Threads : pc[t] = "idle" /\ pushing[t] = None
      BY DEF WorkerInit
    <2>2. \A w \in Workers : current[w] = None
      BY DEF WorkerInit
    <2> QED
      BY <2>1, <2>2, ThreadSets DEF Control, WorkerControl, CallerControl,
         PushControl, WorkerLabels, PushLabels
  <1> QED
    BY <1>2, <1>3, <1>4, <1>5 DEF TypedControl, TypeOK

-----------------------------------------------------------------------------
(* Calls on a worker *)

LEMMA MovesAlone ==
  ASSUME PoolTypeOK, NEW t \in Threads, NEW label \in WorkerLabels \cup CallLabels,
         pc' = [pc EXCEPT ![t] = label]
  PROVE  Moves(t, label)
  BY DEF PoolTypeOK, Moves

LEMMA MovesWaking ==
  ASSUME PoolTypeOK, NEW c \in Callers, NEW w \in Workers,
         NEW label \in WorkerLabels \cup CallLabels,
         pc' = [pc EXCEPT ![w] = Woken(w), ![c] = label]
  PROVE  Moves(c, label)
  <1>1. "lock" \in WorkerLabels
    BY DEF WorkerLabels
  <1> QED
    BY <1>1, ThreadSets DEF PoolTypeOK, Moves, Woken

LEMMA QueuedTyped ==
  ASSUME JobPoolTypeOK, NEW p \in Priorities
  PROVE  Queued(p) \subseteq Jobs
  BY ElementOfSeq DEF JobPoolTypeOK, Queued, Range

LEMMA CallTyped ==
  ASSUME WorkerTypeOK, NEW t \in Threads, NEW w \in Workers, NEW label,
         NEW p, NEW b \in BOOLEAN,
         \/ SignalStop(t, w, label)
         \/ Join(t, w, label)
         \/ StartThread(t, w, label)
         \/ StartFails(t, w, label)
         \/ SetPause(t, w, b, label)
         \/ DropPriority(t, w, p, label)
         \/ NotifyOne(t, w, p, label)
  PROVE  WorkerTypeOK'
  <1>1. CASE SignalStop(t, w, label)
    BY <1>1 DEF WorkerTypeOK, SignalStop
  <1>2. CASE Join(t, w, label)
    BY <1>2 DEF WorkerTypeOK, Join
  <1>3. CASE StartThread(t, w, label)
    BY <1>3 DEF WorkerTypeOK, StartThread
  <1>4. CASE StartFails(t, w, label)
    BY <1>4 DEF WorkerTypeOK, StartFails
  <1>5. CASE SetPause(t, w, b, label)
    BY <1>5 DEF WorkerTypeOK, SetPause
  <1>6. CASE DropPriority(t, w, p, label)
    BY <1>6 DEF WorkerTypeOK, DropPriority
  <1>7. CASE NotifyOne(t, w, p, label)
    BY <1>7 DEF WorkerTypeOK, NotifyOne
  <1> QED
    BY <1>1, <1>2, <1>3, <1>4, <1>5, <1>6, <1>7

LEMMA CallerKeepsControl ==
  ASSUME Control, NEW c \in Callers, NEW label \in {"idle"} \cup CallLabels,
         Moves(c, label),
         current' = current,
         \A t \in Threads \ {c} : pushing'[t] = pushing[t],
         pushing'[c] # None <=> label \in PushLabels,
         \A w \in Workers : ~hasThread'[w] => ~hasThread[w] \/ pc[w] = "idle"
  PROVE  Control'
  <1>1. \A w \in Workers : w \in Threads /\ w # c
    BY ThreadSets
  <1>2. WorkerControl'
    BY <1>1 DEF Control, WorkerControl, Moves, WorkerLabels, PushLabels
  <1>3. CallerControl'
    BY ThreadSets DEF Control, CallerControl, Moves, CallLabels, PushLabels, StopLabels
  <1>4. PushControl'
    BY ThreadSets DEF Control, PushControl, Moves, PushLabels
  <1> QED
    BY <1>2, <1>3, <1>4 DEF Control

LEMMA WorkerKeepsControl ==
  ASSUME Control, NEW w \in Workers,
         pc[w] \notin {"idle"} \cup PushLabels,
         pc'[w] \in WorkerLabels,
         \A u \in Threads \ {w} : pc'[u] = pc[u],
         \A v \in Workers \ {w} : current'[v] = current[v],
         current'[w] # None <=> pc'[w] = "run",
         UNCHANGED <<hasThread, pushing>>
  PROVE  Control'
  BY ThreadSets DEF Control, WorkerControl, CallerControl, PushControl,
     WorkerLabels, PushLabels

-----------------------------------------------------------------------------
(* run() *)

LEMMA LockAndCheckTyped ==
  ASSUME TypedControl, NEW w \in Workers, LockAndCheck(w), UNCHANGED poolVars
  PROVE  TypedControl'
  <1>1. TypeOK'
    BY WorkerAssumption DEF TypedControl, TypeOK, JobPoolTypeOK, WorkerTypeOK,
       PoolTypeOK, LockAndCheck, poolVars, jobPoolVars,
       WorkerLabels, Threads
  <1>2. Control'
    <2>1. /\ pc[w] \notin {"idle"} \cup PushLabels
          /\ pc'[w] \in WorkerLabels
          /\ \A u \in Threads \ {w} : pc'[u] = pc[u]
          /\ current'[w] # None <=> pc'[w] = "run"
          /\ \A v \in Workers \ {w} : current'[v] = current[v]
      BY ThreadSets DEF TypedControl, TypeOK, PoolTypeOK, WorkerTypeOK, Control,
         WorkerControl, LockAndCheck, WorkerLabels, PushLabels
    <2>2. UNCHANGED <<hasThread, pushing>>
      BY DEF LockAndCheck, poolVars
    <2> QED
      BY <2>1, <2>2, WorkerKeepsControl DEF TypedControl
  <1> QED
    BY <1>1, <1>2 DEF TypedControl

LEMMA ScanQueueTyped ==
  ASSUME TypedControl, NEW w \in Workers, ScanQueue(w), UNCHANGED poolVars
  PROVE  TypedControl'
  <1> USE DEF TypedControl
  <1>1. TypeOK'
    <2>1. JobPoolTypeOK' /\ WorkerTypeOK'
      BY DEF TypeOK, JobPoolTypeOK, WorkerTypeOK, ScanQueue, jobPoolVars
    <2>2. w \in Threads
      BY ThreadSets
    <2>3. pc' \in [Threads -> WorkerLabels \cup CallLabels]
      BY <2>2 DEF TypeOK, PoolTypeOK, ScanQueue, WorkerLabels
    <2>4. at' \in [Threads -> Nat]
      BY <2>2 DEF TypeOK, PoolTypeOK, ScanQueue
    <2> QED
      BY <2>1, <2>3, <2>4 DEF TypeOK, PoolTypeOK, poolVars
  <1>2. Control'
    <2>1. /\ pc[w] = "scan"
          /\ pc'[w] \in {"scan", "take", "exiting", "block"}
          /\ \A u \in Threads \ {w} : pc'[u] = pc[u]
      BY ThreadSets DEF TypeOK, PoolTypeOK, ScanQueue
    <2>2. UNCHANGED <<current, hasThread, pushing>>
      BY DEF ScanQueue, poolVars
    <2> QED
      BY <2>1, <2>2, ThreadSets DEF Control, WorkerControl, CallerControl,
         PushControl, WorkerLabels, PushLabels
  <1> QED
    BY <1>1, <1>2

LEMMA BlockInWaitTyped ==
  ASSUME TypedControl, NEW w \in Workers, BlockInWait(w), UNCHANGED poolVars
  PROVE  TypedControl'
  <1>1. TypeOK'
    BY WorkerAssumption DEF TypedControl, TypeOK, JobPoolTypeOK, WorkerTypeOK,
       PoolTypeOK, BlockInWait, poolVars, jobPoolVars,
       WorkerLabels, Threads
  <1>2. Control'
    <2>1. /\ pc[w] \notin {"idle"} \cup PushLabels
          /\ pc'[w] \in WorkerLabels
          /\ \A u \in Threads \ {w} : pc'[u] = pc[u]
          /\ current'[w] # None <=> pc'[w] = "run"
          /\ \A v \in Workers \ {w} : current'[v] = current[v]
      BY ThreadSets DEF TypedControl, TypeOK, PoolTypeOK, WorkerTypeOK, Control,
         WorkerControl, BlockInWait, WorkerLabels, PushLabels
    <2>2. UNCHANGED <<hasThread, pushing>>
      BY DEF BlockInWait, poolVars
    <2> QED
      BY <2>1, <2>2, WorkerKeepsControl DEF TypedControl
  <1> QED
    BY <1>1, <1>2 DEF TypedControl

LEMMA SpuriousWakeTyped ==
  ASSUME TypedControl, NEW w \in Workers, SpuriousWake(w), UNCHANGED poolVars
  PROVE  TypedControl'
  <1>1. TypeOK'
    BY WorkerAssumption DEF TypedControl, TypeOK, JobPoolTypeOK, WorkerTypeOK,
       PoolTypeOK, SpuriousWake, poolVars, jobPoolVars,
       WorkerLabels, Threads
  <1>2. Control'
    <2>1. /\ pc[w] \notin {"idle"} \cup PushLabels
          /\ pc'[w] \in WorkerLabels
          /\ \A u \in Threads \ {w} : pc'[u] = pc[u]
          /\ current'[w] # None <=> pc'[w] = "run"
          /\ \A v \in Workers \ {w} : current'[v] = current[v]
      BY ThreadSets DEF TypedControl, TypeOK, PoolTypeOK, WorkerTypeOK, Control,
         WorkerControl, SpuriousWake, WorkerLabels, PushLabels
    <2>2. UNCHANGED <<hasThread, pushing>>
      BY DEF SpuriousWake, poolVars
    <2> QED
      BY <2>1, <2>2, WorkerKeepsControl DEF TypedControl
  <1> QED
    BY <1>1, <1>2 DEF TypedControl

LEMMA RecheckStopTyped ==
  ASSUME TypedControl, NEW w \in Workers, RecheckStop(w), UNCHANGED poolVars
  PROVE  TypedControl'
  <1>1. TypeOK'
    BY WorkerAssumption DEF TypedControl, TypeOK, JobPoolTypeOK, WorkerTypeOK,
       PoolTypeOK, RecheckStop, poolVars, jobPoolVars,
       WorkerLabels, Threads
  <1>2. Control'
    <2>1. /\ pc[w] \notin {"idle"} \cup PushLabels
          /\ pc'[w] \in WorkerLabels
          /\ \A u \in Threads \ {w} : pc'[u] = pc[u]
          /\ current'[w] # None <=> pc'[w] = "run"
          /\ \A v \in Workers \ {w} : current'[v] = current[v]
      BY ThreadSets DEF TypedControl, TypeOK, PoolTypeOK, WorkerTypeOK, Control,
         WorkerControl, RecheckStop, WorkerLabels, PushLabels
    <2>2. UNCHANGED <<hasThread, pushing>>
      BY DEF RecheckStop, poolVars
    <2> QED
      BY <2>1, <2>2, WorkerKeepsControl DEF TypedControl
  <1> QED
    BY <1>1, <1>2 DEF TypedControl

LEMMA FinishJobTyped ==
  ASSUME TypedControl, NEW w \in Workers, FinishJob(w), UNCHANGED poolVars
  PROVE  TypedControl'
  <1>1. TypeOK'
    BY WorkerAssumption DEF TypedControl, TypeOK, JobPoolTypeOK, WorkerTypeOK,
       PoolTypeOK, Control, WorkerControl, FinishJob, poolVars, jobPoolVars,
       WorkerLabels, Threads
  <1>2. Control'
    <2>1. /\ pc[w] \notin {"idle"} \cup PushLabels
          /\ pc'[w] \in WorkerLabels
          /\ \A u \in Threads \ {w} : pc'[u] = pc[u]
          /\ current'[w] # None <=> pc'[w] = "run"
          /\ \A v \in Workers \ {w} : current'[v] = current[v]
      BY ThreadSets DEF TypedControl, TypeOK, PoolTypeOK, WorkerTypeOK, Control,
         WorkerControl, FinishJob, WorkerLabels, PushLabels
    <2>2. UNCHANGED <<hasThread, pushing>>
      BY DEF FinishJob, poolVars
    <2> QED
      BY <2>1, <2>2, WorkerKeepsControl DEF TypedControl
  <1> QED
    BY <1>1, <1>2 DEF TypedControl

LEMMA ExitThreadTyped ==
  ASSUME TypedControl, NEW w \in Workers, ExitThread(w), UNCHANGED poolVars
  PROVE  TypedControl'
  <1>1. TypeOK'
    BY WorkerAssumption DEF TypedControl, TypeOK, JobPoolTypeOK, WorkerTypeOK,
       PoolTypeOK, ExitThread, poolVars, jobPoolVars,
       WorkerLabels, Threads
  <1>2. Control'
    <2>1. /\ pc[w] \notin {"idle"} \cup PushLabels
          /\ pc'[w] \in WorkerLabels
          /\ \A u \in Threads \ {w} : pc'[u] = pc[u]
          /\ current'[w] # None <=> pc'[w] = "run"
          /\ \A v \in Workers \ {w} : current'[v] = current[v]
      BY ThreadSets DEF TypedControl, TypeOK, PoolTypeOK, WorkerTypeOK, Control,
         WorkerControl, ExitThread, WorkerLabels, PushLabels
    <2>2. UNCHANGED <<hasThread, pushing>>
      BY DEF ExitThread, poolVars
    <2> QED
      BY <2>1, <2>2, WorkerKeepsControl DEF TypedControl
  <1> QED
    BY <1>1, <1>2 DEF TypedControl

LEMMA TakeTyped ==
  ASSUME TypedControl, NEW w \in Workers, Take(w), UNCHANGED poolVars
  PROVE  TypedControl'
  <1> USE DEF TypedControl
  <1>1. w \in Threads
    BY ThreadSets
  <1>2. CASE /\ current' = current
             /\ pc' = [pc EXCEPT ![w] = "recheck"]
             /\ UNCHANGED jobPoolVars
    <2>1. TypeOK'
      BY <1>1, <1>2 DEF TypeOK, JobPoolTypeOK, WorkerTypeOK, PoolTypeOK, Take,
         poolVars, jobPoolVars, WorkerLabels
    <2>2. Control'
      BY <1>2, ThreadSets DEF TypeOK, PoolTypeOK, Control, WorkerControl,
         CallerControl, PushControl, Take, poolVars, WorkerLabels, PushLabels
    <2> QED
      BY <2>1, <2>2
  <1>3. ASSUME NEW i \in 1 .. Len(Served(w)),
               Poppable(Served(w), serves[w], i),
               current' = [current EXCEPT ![w] = Head(queue[Served(w)[i]])],
               PopFront(Served(w)[i]),
               pc' = [pc EXCEPT ![w] = "run"]
        PROVE  TypedControl'
    <2> DEFINE p == Served(w)[i]
    <2>1. p \in Priorities
      BY <1>3, WorkerAssumption, ElementOfSeq DEF Served
    <2>2. queue[p] \in Seq(Jobs) /\ queue[p] # <<>>
      BY <1>3, <2>1 DEF TypeOK, JobPoolTypeOK, Poppable
    <2>3. Head(queue[p]) \in Jobs /\ Tail(queue[p]) \in Seq(Jobs)
      BY <2>2, HeadTailProperties
    <2>4. JobPoolTypeOK'
      BY <1>3, <2>1, <2>3 DEF TypeOK, JobPoolTypeOK, PopFront
    <2>5. WorkerTypeOK'
      BY <1>3, <2>3 DEF TypeOK, WorkerTypeOK, Take
    <2>6. PoolTypeOK'
      BY <1>1, <1>3 DEF TypeOK, PoolTypeOK, Take, poolVars, WorkerLabels
    <2>7. Control'
      BY <1>3, <2>3, ThreadSets DEF TypeOK, PoolTypeOK, WorkerTypeOK, Control,
         WorkerControl, CallerControl, PushControl, Take, poolVars,
         WorkerLabels, PushLabels
    <2> QED
      BY <2>4, <2>5, <2>6, <2>7 DEF TypeOK
  <1> QED
    BY <1>2, <1>3 DEF Take

-----------------------------------------------------------------------------
(* push(job) *)

LEMMA PushCheckTyped ==
  ASSUME TypedControl, NEW t \in Threads, NEW j \in Jobs, PushCheck(t, j)
  PROVE  TypedControl'
  <1> USE DEF TypedControl
  <1>1. TypeOK'
    BY DEF TypeOK, JobPoolTypeOK, WorkerTypeOK, PoolTypeOK, PushCheck, PushRefused,
       PushAdmitted, workerData, CallLabels, PushLabels
  <1>2. CASE PushRefused(j) /\ UNCHANGED <<pushing, pc>>
    BY <1>1, <1>2 DEF Control, WorkerControl, CallerControl, PushControl, PushCheck,
       workerData
  <1>3. CASE pushing' = [pushing EXCEPT ![t] = j] /\ pc' = [pc EXCEPT ![t] = "enqueue"]
    <2>1. t \in Workers => pc[t] = "run"
      BY ThreadSets DEF PushCheck, Pushable
    <2>2. UNCHANGED <<current, hasThread>>
      BY DEF PushCheck, workerData
    <2>3. Control'
      BY <1>3, <2>1, <2>2, ThreadSets DEF TypeOK, PoolTypeOK, WorkerTypeOK, Control,
         WorkerControl, CallerControl, PushControl, CallLabels, PushLabels
    <2> QED
      BY <1>1, <2>3
  <1> QED
    BY <1>2, <1>3 DEF PushCheck

LEMMA EnqueueTyped ==
  ASSUME TypedControl, NEW t \in Threads, Enqueue(t)
  PROVE  TypedControl'
  <1> USE DEF TypedControl
  <1>1. pushing[t] \in Jobs
    BY DEF TypeOK, PoolTypeOK, Control, PushControl, Enqueue, PushLabels
  <1>2. JobPoolTypeOK'
    BY <1>1, JobPoolAssumption DEF TypeOK, JobPoolTypeOK, Enqueue, PushBack
  <1>3. WorkerTypeOK' /\ PoolTypeOK'
    BY <1>1 DEF TypeOK, WorkerTypeOK, PoolTypeOK, Enqueue, workerData, CallLabels,
       PushLabels
  <1>4. Control'
    BY ThreadSets DEF TypeOK, PoolTypeOK, Control, WorkerControl, CallerControl,
       PushControl, Enqueue, workerData, CallLabels, PushLabels, WorkerLabels
  <1> QED
    BY <1>2, <1>3, <1>4 DEF TypeOK

LEMMA NotifyEnterTyped ==
  ASSUME TypedControl, NEW t \in Threads, NotifyEnter(t)
  PROVE  TypedControl'
  <1> USE DEF TypedControl
  <1>1. TypeOK'
    BY DEF TypeOK, JobPoolTypeOK, WorkerTypeOK, PoolTypeOK, NotifyEnter, Enters,
       Advance, jobPoolVars, workerData, CallLabels, PushLabels
  <1>2. Control'
    BY ThreadSets DEF TypeOK, PoolTypeOK, Control, WorkerControl, CallerControl,
       PushControl, NotifyEnter, Enters, workerData, CallLabels, PushLabels,
       WorkerLabels
  <1> QED
    BY <1>1, <1>2

LEMMA NotifyWorkerTyped ==
  ASSUME TypedControl, NEW t \in Threads, NotifyWorker(t)
  PROVE  TypedControl'
  <1> USE DEF TypedControl
  <1>1. PICK w \in Workers :
          /\ NotifyOne(t, w, PriorityOf[pushing[t]], "notify")
          /\ Advance(t, w)
    BY DEF NotifyWorker
  <1>2. JobPoolTypeOK'
    BY DEF TypeOK, JobPoolTypeOK, NotifyWorker, jobPoolVars
  <1>3. WorkerTypeOK'
    BY <1>1 DEF TypeOK, WorkerTypeOK, NotifyOne
  <1>4. Moves(t, "notify") /\ pc[t] = "notify"
    <2>1. pc[t] = "notify" /\ "notify" \in CallLabels /\ "lock" \in WorkerLabels
      BY DEF NotifyWorker, CallLabels, PushLabels, WorkerLabels
    <2>2. CASE pc' = [pc EXCEPT ![t] = "notify"]
      BY <2>1, <2>2, MovesAlone DEF TypeOK
    <2>3. CASE pc' = [pc EXCEPT ![w] = Woken(w), ![t] = "notify"]
      BY <2>1, <2>3, ThreadSets DEF TypeOK, PoolTypeOK, Moves, Woken
    <2> QED
      BY <1>1, <2>1, <2>2, <2>3 DEF NotifyOne
  <1>5. PoolTypeOK'
    BY <1>1, <1>4, ThreadSets DEF TypeOK, PoolTypeOK, Moves, NotifyWorker, Advance,
       poolVars
  <1>6. Control'
    <2>1. UNCHANGED <<current, hasThread, pushing>>
      BY <1>1 DEF NotifyOne, NotifyWorker, poolVars
    <2> QED
      BY <1>4, <2>1, ThreadSets DEF Moves, Control, WorkerControl, CallerControl,
         PushControl, CallLabels, PushLabels, WorkerLabels, StopLabels
  <1> QED
    BY <1>2, <1>3, <1>5, <1>6 DEF TypeOK

LEMMA NotifyDoneTyped ==
  ASSUME TypedControl, NEW t \in Threads, NotifyDone(t)
  PROVE  TypedControl'
  <1> USE DEF TypedControl
  <1>1. TypeOK'
    BY DEF TypeOK, JobPoolTypeOK, WorkerTypeOK, PoolTypeOK, NotifyDone, Leaves,
       jobPoolVars, workerData, WorkerLabels
  <1>2. Control'
    BY ThreadSets DEF TypeOK, PoolTypeOK, Control, WorkerControl, CallerControl,
       PushControl, NotifyDone, Leaves, workerData, CallLabels, PushLabels,
       WorkerLabels
  <1> QED
    BY <1>1, <1>2

-----------------------------------------------------------------------------
(* The commands of a caller *)

LEMMA StartDoneTyped ==
  ASSUME TypedControl, NEW c \in Callers, StartDone(c)
  PROVE  TypedControl'
  <1> USE DEF TypedControl
  <1>1. JobPoolTypeOK'
    BY DEF TypeOK, JobPoolTypeOK, StartDone, Leaves, jobPoolVars
  <1>2. WorkerTypeOK' /\ PoolTypeOK'
    BY PoolAssumption, ThreadSets DEF TypeOK, WorkerTypeOK, PoolTypeOK, StartDone,
       Leaves, workerData, CallLabels, StopLabels, WorkerLabels
  <1>3. Moves(c, "idle")
    BY ThreadSets, MovesAlone DEF TypeOK, StartDone, Leaves, CallLabels, StopLabels, WorkerLabels
  <1>4. UNCHANGED <<current, hasThread, pushing>>
    BY DEF StartDone, workerData, poolVars
  <1>5. pushing[c] = None
    BY ThreadSets DEF Control, PushControl, StartDone, Leaves, PushLabels
  <1>6. Control'
    BY <1>3, <1>4, <1>5, CallerKeepsControl DEF CallLabels, StopLabels, PushLabels
  <1> QED
    BY <1>1, <1>2, <1>6 DEF TypeOK

LEMMA PauseDoneTyped ==
  ASSUME TypedControl, NEW c \in Callers, PauseDone(c)
  PROVE  TypedControl'
  <1> USE DEF TypedControl
  <1>1. JobPoolTypeOK'
    BY DEF TypeOK, JobPoolTypeOK, PauseDone, Leaves, jobPoolVars
  <1>2. WorkerTypeOK' /\ PoolTypeOK'
    BY PoolAssumption, ThreadSets DEF TypeOK, WorkerTypeOK, PoolTypeOK, PauseDone,
       Leaves, workerData, CallLabels, StopLabels, WorkerLabels
  <1>3. Moves(c, "idle")
    BY ThreadSets, MovesAlone DEF TypeOK, PauseDone, Leaves, CallLabels, StopLabels, WorkerLabels
  <1>4. UNCHANGED <<current, hasThread, pushing>>
    BY DEF PauseDone, workerData, poolVars
  <1>5. pushing[c] = None
    BY ThreadSets DEF Control, PushControl, PauseDone, Leaves, PushLabels
  <1>6. Control'
    BY <1>3, <1>4, <1>5, CallerKeepsControl DEF CallLabels, StopLabels, PushLabels
  <1> QED
    BY <1>1, <1>2, <1>6 DEF TypeOK

LEMMA StopUnlockTyped ==
  ASSUME TypedControl, NEW c \in Callers, StopUnlock(c)
  PROVE  TypedControl'
  <1> USE DEF TypedControl
  <1>1. JobPoolTypeOK'
    BY DEF TypeOK, JobPoolTypeOK, StopUnlock, SetLocked, Leaves, jobPoolVars
  <1>2. WorkerTypeOK' /\ PoolTypeOK'
    BY PoolAssumption, ThreadSets DEF TypeOK, WorkerTypeOK, PoolTypeOK, StopUnlock,
       SetLocked, Leaves, workerData, CallLabels, StopLabels, WorkerLabels
  <1>3. Moves(c, "stopTail")
    BY ThreadSets, MovesAlone DEF TypeOK, StopUnlock, SetLocked, Leaves, CallLabels, StopLabels, WorkerLabels
  <1>4. UNCHANGED <<current, hasThread, pushing>>
    BY DEF StopUnlock, workerData, poolVars
  <1>5. pushing[c] = None
    BY ThreadSets DEF Control, PushControl, StopUnlock, SetLocked, Leaves, PushLabels
  <1>6. Control'
    BY <1>3, <1>4, <1>5, CallerKeepsControl DEF CallLabels, StopLabels, PushLabels
  <1> QED
    BY <1>1, <1>2, <1>6 DEF TypeOK

LEMMA StopTailTyped ==
  ASSUME TypedControl, NEW c \in Callers, StopTail(c)
  PROVE  TypedControl'
  <1> USE DEF TypedControl
  <1>1. JobPoolTypeOK'
    BY DEF TypeOK, JobPoolTypeOK, StopTail, jobPoolVars
  <1>2. WorkerTypeOK' /\ PoolTypeOK'
    BY PoolAssumption, ThreadSets DEF TypeOK, WorkerTypeOK, PoolTypeOK, StopTail,
       workerData, CallLabels, StopLabels, WorkerLabels
  <1>3. Moves(c, "idle")
    BY ThreadSets, MovesAlone DEF TypeOK, StopTail, CallLabels, StopLabels, WorkerLabels
  <1>4. UNCHANGED <<current, hasThread, pushing>>
    BY DEF StopTail, workerData, poolVars
  <1>5. pushing[c] = None
    BY ThreadSets DEF Control, PushControl, StopTail, PushLabels
  <1>6. Control'
    BY <1>3, <1>4, <1>5, CallerKeepsControl DEF CallLabels, StopLabels, PushLabels
  <1> QED
    BY <1>1, <1>2, <1>6 DEF TypeOK

LEMMA RemoveEnterTyped ==
  ASSUME TypedControl, NEW c \in Callers, RemoveEnter(c)
  PROVE  TypedControl'
  <1> USE DEF TypedControl
  <1>1. JobPoolTypeOK'
    BY DEF TypeOK, JobPoolTypeOK, RemoveEnter, Enters, Advance, jobPoolVars
  <1>2. WorkerTypeOK' /\ PoolTypeOK'
    BY PoolAssumption, ThreadSets DEF TypeOK, WorkerTypeOK, PoolTypeOK, RemoveEnter,
       Enters, Advance, workerData, CallLabels, StopLabels, WorkerLabels
  <1>3. Moves(c, "removing")
    BY ThreadSets, MovesAlone DEF TypeOK, RemoveEnter, Enters, Advance, CallLabels, StopLabels, WorkerLabels
  <1>4. UNCHANGED <<current, hasThread, pushing>>
    BY DEF RemoveEnter, workerData, poolVars
  <1>5. pushing[c] = None
    BY ThreadSets DEF Control, PushControl, RemoveEnter, Enters, Advance, PushLabels
  <1>6. Control'
    BY <1>3, <1>4, <1>5, CallerKeepsControl DEF CallLabels, StopLabels, PushLabels
  <1> QED
    BY <1>1, <1>2, <1>6 DEF TypeOK

LEMMA RemoveDoneTyped ==
  ASSUME TypedControl, NEW c \in Callers, RemoveDone(c)
  PROVE  TypedControl'
  <1> USE DEF TypedControl
  <1>1. JobPoolTypeOK'
    BY DEF TypeOK, JobPoolTypeOK, RemoveDone, Leaves, jobPoolVars
  <1>2. WorkerTypeOK' /\ PoolTypeOK'
    BY PoolAssumption, ThreadSets DEF TypeOK, WorkerTypeOK, PoolTypeOK, RemoveDone,
       Leaves, workerData, CallLabels, StopLabels, WorkerLabels
  <1>3. Moves(c, "idle")
    BY ThreadSets, MovesAlone DEF TypeOK, RemoveDone, Leaves, CallLabels, StopLabels, WorkerLabels
  <1>4. UNCHANGED <<current, hasThread, pushing>>
    BY DEF RemoveDone, workerData, poolVars
  <1>5. pushing[c] = None
    BY ThreadSets DEF Control, PushControl, RemoveDone, Leaves, PushLabels
  <1>6. Control'
    BY <1>3, <1>4, <1>5, CallerKeepsControl DEF CallLabels, StopLabels, PushLabels
  <1> QED
    BY <1>1, <1>2, <1>6 DEF TypeOK

LEMMA StopClearTyped ==
  ASSUME TypedControl, NEW c \in Callers, StopClear(c)
  PROVE  TypedControl'
  <1> USE DEF TypedControl
  <1>1. JobPoolTypeOK'
    <2>1. \A q \in Priorities : Queued(q) \subseteq Jobs
      BY QueuedTyped DEF TypeOK
    <2> QED
      BY <2>1, EmptySeq DEF TypeOK, JobPoolTypeOK, StopClear, ClearQueues
  <1>2. WorkerTypeOK' /\ PoolTypeOK'
    BY PoolAssumption, ThreadSets DEF TypeOK, WorkerTypeOK, PoolTypeOK, StopClear, Issues, workerData,
       poolVars, CallLabels, StopLabels
  <1>3. Moves(c, "stopping")
    BY ThreadSets, MovesAlone DEF TypeOK, StopClear, ClearQueues, Queued, CallLabels, StopLabels, WorkerLabels
  <1>4. UNCHANGED <<current, hasThread, pushing>>
    BY DEF StopClear, workerData, poolVars
  <1>5. pushing[c] = None
    BY ThreadSets DEF Control, PushControl, StopClear, ClearQueues, Queued, PushLabels
  <1>6. Control'
    BY <1>3, <1>4, <1>5, CallerKeepsControl DEF CallLabels, StopLabels, PushLabels
  <1> QED
    BY <1>1, <1>2, <1>6 DEF TypeOK

LEMMA RemoveClearTyped ==
  ASSUME TypedControl, NEW c \in Callers, NEW p \in Priorities, RemoveClear(c, p)
  PROVE  TypedControl'
  <1> USE DEF TypedControl
  <1>1. JobPoolTypeOK'
    <2>1. \A q \in Priorities : Queued(q) \subseteq Jobs
      BY QueuedTyped DEF TypeOK
    <2> QED
      BY <2>1, EmptySeq DEF TypeOK, JobPoolTypeOK, RemoveClear, ClearQueues
  <1>2. WorkerTypeOK' /\ PoolTypeOK'
    BY PoolAssumption, ThreadSets DEF TypeOK, WorkerTypeOK, PoolTypeOK, RemoveClear, Issues, workerData,
       poolVars, CallLabels, StopLabels
  <1>3. Moves(c, "removeEnter")
    BY ThreadSets, MovesAlone DEF TypeOK, RemoveClear, Issues, ClearQueues, Queued, CallLabels, StopLabels, WorkerLabels
  <1>4. UNCHANGED <<current, hasThread, pushing>>
    BY DEF RemoveClear, workerData, poolVars
  <1>5. pushing[c] = None
    BY ThreadSets DEF Control, PushControl, RemoveClear, Issues, ClearQueues, Queued, PushLabels
  <1>6. Control'
    BY <1>3, <1>4, <1>5, CallerKeepsControl DEF CallLabels, StopLabels, PushLabels
  <1> QED
    BY <1>1, <1>2, <1>6 DEF TypeOK

LEMMA PauseEnterTyped ==
  ASSUME TypedControl, NEW c \in Callers, NEW b \in BOOLEAN, PauseEnter(c, b)
  PROVE  TypedControl'
  <1> USE DEF TypedControl
  <1>1. JobPoolTypeOK'
    BY DEF TypeOK, JobPoolTypeOK, PauseEnter, Issues, Enters, Advance, jobPoolVars
  <1>2. WorkerTypeOK' /\ PoolTypeOK'
    BY PoolAssumption, ThreadSets DEF TypeOK, WorkerTypeOK, PoolTypeOK, PauseEnter,
       Issues, Enters, Advance, workerData, CallLabels, StopLabels, WorkerLabels
  <1>3. Moves(c, "pausing")
    BY ThreadSets, MovesAlone DEF TypeOK, PauseEnter, Issues, Enters, Advance, CallLabels, StopLabels, WorkerLabels
  <1>4. UNCHANGED <<current, hasThread, pushing>>
    BY DEF PauseEnter, workerData, poolVars
  <1>5. pushing[c] = None
    BY ThreadSets DEF Control, PushControl, PauseEnter, Issues, Enters, Advance, PushLabels
  <1>6. Control'
    BY <1>3, <1>4, <1>5, CallerKeepsControl DEF CallLabels, StopLabels, PushLabels
  <1> QED
    BY <1>1, <1>2, <1>6 DEF TypeOK

LEMMA CallMoves ==
  ASSUME PoolTypeOK, WorkerTypeOK, NEW c \in Callers, NEW w \in Workers,
         NEW label \in WorkerLabels \cup CallLabels, NEW p, NEW b \in BOOLEAN,
         \/ SignalStop(c, w, label)
         \/ Join(c, w, label)
         \/ StartFails(c, w, label)
         \/ SetPause(c, w, b, label)
         \/ DropPriority(c, w, p, label)
  PROVE  /\ Moves(c, label)
         /\ current' = current
         /\ \A v \in Workers : ~hasThread'[v] => ~hasThread[v] \/ pc[v] = "idle"
  <1>1. \/ pc' = [pc EXCEPT ![w] = Woken(w), ![c] = label]
        \/ pc' = [pc EXCEPT ![c] = label]
    BY DEF SignalStop, Join, StartFails, SetPause, DropPriority
  <1>2. Moves(c, label)
    BY <1>1, MovesAlone, MovesWaking, ThreadSets
  <1>3. \/ hasThread' = hasThread
        \/ pc[w] = "idle" /\ hasThread' = [hasThread EXCEPT ![w] = FALSE]
    BY DEF SignalStop, Join, StartFails, SetPause, DropPriority
  <1>4. \A v \in Workers : ~hasThread'[v] => ~hasThread[v] \/ pc[v] = "idle"
    BY <1>3 DEF WorkerTypeOK
  <1>5. current' = current
    BY DEF SignalStop, Join, StartFails, SetPause, DropPriority
  <1> QED
    BY <1>2, <1>4, <1>5

LEMMA StartThreadControl ==
  ASSUME TypeOK, Control, NEW w \in Workers, ~hasThread[w],
         hasThread' = [hasThread EXCEPT ![w] = TRUE],
         pc'[w] = "lock",
         \A u \in Threads \ {w} :
           \/ pc'[u] = pc[u]
           \/ u \in Callers /\ pc[u] = "starting" /\ pc'[u] = "starting",
         UNCHANGED <<current, pushing>>
  PROVE  Control'
  BY ThreadSets DEF TypeOK, WorkerTypeOK, Control, WorkerControl, CallerControl,
     PushControl, WorkerLabels, PushLabels

LEMMA StartJoinTyped ==
  ASSUME TypedControl, NEW c \in Callers, StartJoin(c)
  PROVE  TypedControl'
  <1> USE DEF TypedControl
  <1>1. PICK w \in Workers :
          Join(c, w, "starting") /\ UNCHANGED at
    BY DEF StartJoin
  <1>2. JobPoolTypeOK'
    BY DEF TypeOK, JobPoolTypeOK, StartJoin, jobPoolVars
  <1>3. pushing' = pushing /\ pushing[c] = None
    BY ThreadSets DEF Control, PushControl, StartJoin, poolVars, PushLabels
  <1>4. CASE Join(c, w, "starting") /\ UNCHANGED at
    <2>1. WorkerTypeOK'
      BY <1>4, CallTyped, ThreadSets DEF TypeOK
    <2>2. /\ Moves(c, "starting")
          /\ current' = current
          /\ \A v \in Workers : ~hasThread'[v] => ~hasThread[v] \/ pc[v] = "idle"
      BY <1>4, CallMoves DEF TypeOK, CallLabels, StopLabels, PushLabels, WorkerLabels
    <2>3. PoolTypeOK'
      BY <1>4, <2>2, ThreadSets DEF TypeOK, PoolTypeOK, Moves, StartJoin, Advance,
         poolVars
    <2>4. Control'
      BY <1>3, <2>2, CallerKeepsControl DEF CallLabels, StopLabels, PushLabels, WorkerLabels
    <2> QED
      BY <1>2, <2>1, <2>3, <2>4 DEF TypeOK
  <1> QED
    BY <1>1, <1>4

LEMMA PauseWorkerTyped ==
  ASSUME TypedControl, NEW c \in Callers, PauseWorker(c)
  PROVE  TypedControl'
  <1> USE DEF TypedControl
  <1>1. PICK w \in Workers :
          SetPause(c, w, paused, "pausing") /\ Advance(c, w)
    BY DEF PauseWorker
  <1>2. JobPoolTypeOK'
    BY DEF TypeOK, JobPoolTypeOK, PauseWorker, jobPoolVars
  <1>3. pushing' = pushing /\ pushing[c] = None
    BY ThreadSets DEF Control, PushControl, PauseWorker, poolVars, PushLabels
  <1>5. paused \in BOOLEAN
    BY DEF TypeOK, PoolTypeOK
  <1>4. CASE SetPause(c, w, paused, "pausing") /\ Advance(c, w)
    <2>1. WorkerTypeOK'
      BY <1>4, <1>5, CallTyped, ThreadSets DEF TypeOK
    <2>2. /\ Moves(c, "pausing")
          /\ current' = current
          /\ \A v \in Workers : ~hasThread'[v] => ~hasThread[v] \/ pc[v] = "idle"
      BY <1>4, <1>5, CallMoves DEF TypeOK, CallLabels, StopLabels, PushLabels, WorkerLabels
    <2>3. PoolTypeOK'
      BY <1>4, <2>2, ThreadSets DEF TypeOK, PoolTypeOK, Moves, PauseWorker, Advance,
         poolVars
    <2>4. Control'
      BY <1>3, <2>2, CallerKeepsControl DEF CallLabels, StopLabels, PushLabels, WorkerLabels
    <2> QED
      BY <1>2, <2>1, <2>3, <2>4 DEF TypeOK
  <1> QED
    BY <1>1, <1>4

LEMMA StopJoinTyped ==
  ASSUME TypedControl, NEW c \in Callers, StopJoin(c)
  PROVE  TypedControl'
  <1> USE DEF TypedControl
  <1>1. PICK w \in Workers :
          Join(c, w, "stopping") /\ Advance(c, w)
    BY DEF StopJoin
  <1>2. JobPoolTypeOK'
    BY DEF TypeOK, JobPoolTypeOK, StopJoin, jobPoolVars
  <1>3. pushing' = pushing /\ pushing[c] = None
    BY ThreadSets DEF Control, PushControl, StopJoin, poolVars, PushLabels
  <1>4. CASE Join(c, w, "stopping") /\ Advance(c, w)
    <2>1. WorkerTypeOK'
      BY <1>4, CallTyped, ThreadSets DEF TypeOK
    <2>2. /\ Moves(c, "stopping")
          /\ current' = current
          /\ \A v \in Workers : ~hasThread'[v] => ~hasThread[v] \/ pc[v] = "idle"
      BY <1>4, CallMoves DEF TypeOK, CallLabels, StopLabels, PushLabels, WorkerLabels
    <2>3. PoolTypeOK'
      BY <1>4, <2>2, ThreadSets DEF TypeOK, PoolTypeOK, Moves, StopJoin, Advance,
         poolVars
    <2>4. Control'
      BY <1>3, <2>2, CallerKeepsControl DEF CallLabels, StopLabels, PushLabels, WorkerLabels
    <2> QED
      BY <1>2, <2>1, <2>3, <2>4 DEF TypeOK
  <1> QED
    BY <1>1, <1>4

LEMMA RemoveJoinTyped ==
  ASSUME TypedControl, NEW c \in Callers, RemoveJoin(c)
  PROVE  TypedControl'
  <1> USE DEF TypedControl
  <1>1. PICK w \in Workers :
          Join(c, w, "removing") /\ Advance(c, w)
    BY DEF RemoveJoin
  <1>2. JobPoolTypeOK'
    BY DEF TypeOK, JobPoolTypeOK, RemoveJoin, jobPoolVars
  <1>3. pushing' = pushing /\ pushing[c] = None
    BY ThreadSets DEF Control, PushControl, RemoveJoin, poolVars, PushLabels
  <1>4. CASE Join(c, w, "removing") /\ Advance(c, w)
    <2>1. WorkerTypeOK'
      BY <1>4, CallTyped, ThreadSets DEF TypeOK
    <2>2. /\ Moves(c, "removing")
          /\ current' = current
          /\ \A v \in Workers : ~hasThread'[v] => ~hasThread[v] \/ pc[v] = "idle"
      BY <1>4, CallMoves DEF TypeOK, CallLabels, StopLabels, PushLabels, WorkerLabels
    <2>3. PoolTypeOK'
      BY <1>4, <2>2, ThreadSets DEF TypeOK, PoolTypeOK, Moves, RemoveJoin, Advance,
         poolVars
    <2>4. Control'
      BY <1>3, <2>2, CallerKeepsControl DEF CallLabels, StopLabels, PushLabels, WorkerLabels
    <2> QED
      BY <1>2, <2>1, <2>3, <2>4 DEF TypeOK
  <1> QED
    BY <1>1, <1>4

LEMMA StopWorkerTyped ==
  ASSUME TypedControl, NEW c \in Callers, StopWorker(c)
  PROVE  TypedControl'
  <1> USE DEF TypedControl
  <1>1. PICK w \in Workers :
          \/ SignalStop(c, w, "joining") /\ UNCHANGED poolMutex
          \/ Leaves(c, "idle") /\ UNCHANGED workerData
    BY DEF StopWorker
  <1>2. JobPoolTypeOK'
    BY DEF TypeOK, JobPoolTypeOK, StopWorker, jobPoolVars
  <1>3. pushing' = pushing /\ pushing[c] = None
    BY ThreadSets DEF Control, PushControl, StopWorker, poolVars, PushLabels
  <1>4. CASE SignalStop(c, w, "joining") /\ UNCHANGED poolMutex
    <2>1. WorkerTypeOK'
      BY <1>4, CallTyped, ThreadSets DEF TypeOK
    <2>2. /\ Moves(c, "joining")
          /\ current' = current
          /\ \A v \in Workers : ~hasThread'[v] => ~hasThread[v] \/ pc[v] = "idle"
      BY <1>4, CallMoves DEF TypeOK, CallLabels, StopLabels, PushLabels, WorkerLabels
    <2>3. PoolTypeOK'
      BY <1>4, <2>2, ThreadSets DEF TypeOK, PoolTypeOK, Moves, StopWorker, Advance,
         poolVars
    <2>4. Control'
      BY <1>3, <2>2, CallerKeepsControl DEF CallLabels, StopLabels, PushLabels, WorkerLabels
    <2> QED
      BY <1>2, <2>1, <2>3, <2>4 DEF TypeOK
  <1>5. CASE Leaves(c, "idle") /\ UNCHANGED workerData
    <2>1. WorkerTypeOK'
      BY <1>5 DEF TypeOK, WorkerTypeOK, workerData
    <2>2. /\ Moves(c, "idle")
          /\ current' = current
          /\ \A v \in Workers : ~hasThread'[v] => ~hasThread[v] \/ pc[v] = "idle"
      BY <1>5, MovesAlone, ThreadSets DEF TypeOK, Leaves, workerData, CallLabels, StopLabels, PushLabels, WorkerLabels
    <2>3. PoolTypeOK'
      BY <1>5, <2>2, ThreadSets DEF TypeOK, PoolTypeOK, Moves, StopWorker, Advance,
         Leaves, poolVars
    <2>4. Control'
      BY <1>3, <2>2, CallerKeepsControl DEF CallLabels, StopLabels, PushLabels, WorkerLabels
    <2> QED
      BY <1>2, <2>1, <2>3, <2>4 DEF TypeOK
  <1> QED
    BY <1>1, <1>4, <1>5

LEMMA RemovePriorityTyped ==
  ASSUME TypedControl, NEW c \in Callers, RemovePriority(c)
  PROVE  TypedControl'
  <1> USE DEF TypedControl
  <1>1. PICK w \in Workers :
          \/ DropPriority(c, w, target[c], "removeStop") /\ UNCHANGED at
          \/ DropPriority(c, w, target[c], "removing") /\ Advance(c, w)
    BY DEF RemovePriority
  <1>2. JobPoolTypeOK'
    BY DEF TypeOK, JobPoolTypeOK, RemovePriority, jobPoolVars
  <1>3. pushing' = pushing /\ pushing[c] = None
    BY ThreadSets DEF Control, PushControl, RemovePriority, poolVars, PushLabels
  <1>4. CASE DropPriority(c, w, target[c], "removeStop") /\ UNCHANGED at
    <2>1. WorkerTypeOK'
      BY <1>4, CallTyped, ThreadSets DEF TypeOK
    <2>2. /\ Moves(c, "removeStop")
          /\ current' = current
          /\ \A v \in Workers : ~hasThread'[v] => ~hasThread[v] \/ pc[v] = "idle"
      BY <1>4, CallMoves DEF TypeOK, CallLabels, StopLabels, PushLabels, WorkerLabels
    <2>3. PoolTypeOK'
      BY <1>4, <2>2, ThreadSets DEF TypeOK, PoolTypeOK, Moves, RemovePriority, Advance,
         poolVars
    <2>4. Control'
      BY <1>3, <2>2, CallerKeepsControl DEF CallLabels, StopLabels, PushLabels, WorkerLabels
    <2> QED
      BY <1>2, <2>1, <2>3, <2>4 DEF TypeOK
  <1>5. CASE DropPriority(c, w, target[c], "removing") /\ Advance(c, w)
    <2>1. WorkerTypeOK'
      BY <1>5, CallTyped, ThreadSets DEF TypeOK
    <2>2. /\ Moves(c, "removing")
          /\ current' = current
          /\ \A v \in Workers : ~hasThread'[v] => ~hasThread[v] \/ pc[v] = "idle"
      BY <1>5, CallMoves DEF TypeOK, CallLabels, StopLabels, PushLabels, WorkerLabels
    <2>3. PoolTypeOK'
      BY <1>5, <2>2, ThreadSets DEF TypeOK, PoolTypeOK, Moves, RemovePriority, Advance,
         poolVars
    <2>4. Control'
      BY <1>3, <2>2, CallerKeepsControl DEF CallLabels, StopLabels, PushLabels, WorkerLabels
    <2> QED
      BY <1>2, <2>1, <2>3, <2>4 DEF TypeOK
  <1> QED
    BY <1>1, <1>4, <1>5

LEMMA RemoveStopTyped ==
  ASSUME TypedControl, NEW c \in Callers, RemoveStop(c)
  PROVE  TypedControl'
  <1> USE DEF TypedControl
  <1>1. PICK w \in Workers :
          \/ SignalStop(c, w, "removeJoin") /\ UNCHANGED at
          \/ pc' = [pc EXCEPT ![c] = "removing"] /\ Advance(c, w) /\ UNCHANGED workerData
    BY DEF RemoveStop
  <1>2. JobPoolTypeOK'
    BY DEF TypeOK, JobPoolTypeOK, RemoveStop, jobPoolVars
  <1>3. pushing' = pushing /\ pushing[c] = None
    BY ThreadSets DEF Control, PushControl, RemoveStop, poolVars, PushLabels
  <1>4. CASE SignalStop(c, w, "removeJoin") /\ UNCHANGED at
    <2>1. WorkerTypeOK'
      BY <1>4, CallTyped, ThreadSets DEF TypeOK
    <2>2. /\ Moves(c, "removeJoin")
          /\ current' = current
          /\ \A v \in Workers : ~hasThread'[v] => ~hasThread[v] \/ pc[v] = "idle"
      BY <1>4, CallMoves DEF TypeOK, CallLabels, StopLabels, PushLabels, WorkerLabels
    <2>3. PoolTypeOK'
      BY <1>4, <2>2, ThreadSets DEF TypeOK, PoolTypeOK, Moves, RemoveStop, Advance,
         poolVars
    <2>4. Control'
      BY <1>3, <2>2, CallerKeepsControl DEF CallLabels, StopLabels, PushLabels, WorkerLabels
    <2> QED
      BY <1>2, <2>1, <2>3, <2>4 DEF TypeOK
  <1>5. CASE pc' = [pc EXCEPT ![c] = "removing"] /\ Advance(c, w) /\ UNCHANGED workerData
    <2>1. WorkerTypeOK'
      BY <1>5 DEF TypeOK, WorkerTypeOK, workerData
    <2>2. /\ Moves(c, "removing")
          /\ current' = current
          /\ \A v \in Workers : ~hasThread'[v] => ~hasThread[v] \/ pc[v] = "idle"
      BY <1>5, MovesAlone, ThreadSets DEF TypeOK, Leaves, workerData, CallLabels, StopLabels, PushLabels, WorkerLabels
    <2>3. PoolTypeOK'
      BY <1>5, <2>2, ThreadSets DEF TypeOK, PoolTypeOK, Moves, RemoveStop, Advance,
         poolVars
    <2>4. Control'
      BY <1>3, <2>2, CallerKeepsControl DEF CallLabels, StopLabels, PushLabels, WorkerLabels
    <2> QED
      BY <1>2, <2>1, <2>3, <2>4 DEF TypeOK
  <1> QED
    BY <1>1, <1>4, <1>5

LEMMA StartWorkerTyped ==
  ASSUME TypedControl, NEW c \in Callers, StartWorker(c)
  PROVE  TypedControl'
  <1> USE DEF TypedControl
  <1>1. PICK w \in Workers :
          \/ SignalStop(c, w, "startJoin") /\ UNCHANGED <<at, poolMutex>>
          \/ StartThread(c, w, "starting") /\ Advance(c, w) /\ UNCHANGED poolMutex
          \/ StartFails(c, w, "idle") /\ poolMutex' = None /\ UNCHANGED at
    BY DEF StartWorker
  <1>2. JobPoolTypeOK'
    BY DEF TypeOK, JobPoolTypeOK, StartWorker, jobPoolVars
  <1>3. pushing' = pushing /\ pushing[c] = None
    BY ThreadSets DEF Control, PushControl, StartWorker, poolVars, PushLabels
  <1>4. CASE SignalStop(c, w, "startJoin") /\ UNCHANGED <<at, poolMutex>>
    <2>1. WorkerTypeOK'
      BY <1>4, CallTyped, ThreadSets DEF TypeOK
    <2>2. /\ Moves(c, "startJoin")
          /\ current' = current
          /\ \A v \in Workers : ~hasThread'[v] => ~hasThread[v] \/ pc[v] = "idle"
      BY <1>4, CallMoves DEF TypeOK, CallLabels, StopLabels, PushLabels, WorkerLabels
    <2>3. PoolTypeOK'
      BY <1>4, <2>2, ThreadSets DEF TypeOK, PoolTypeOK, Moves, StartWorker, Advance,
         poolVars
    <2>4. Control'
      BY <1>3, <2>2, CallerKeepsControl DEF CallLabels, StopLabels, PushLabels, WorkerLabels
    <2> QED
      BY <1>2, <2>1, <2>3, <2>4 DEF TypeOK
  <1>5. CASE StartThread(c, w, "starting") /\ Advance(c, w) /\ UNCHANGED poolMutex
    <2>1. WorkerTypeOK'
      BY <1>5, CallTyped, ThreadSets DEF TypeOK
    <2>2. PoolTypeOK'
      BY <1>5, ThreadSets DEF TypeOK, PoolTypeOK, StartWorker, StartThread, Advance,
         poolVars, CallLabels, WorkerLabels
    <2>3. /\ pc'[w] = "lock"
          /\ \A u \in Threads \ {w} : pc'[u] = pc[u]
      BY <1>5, ThreadSets DEF TypeOK, PoolTypeOK, StartWorker, StartThread
    <2>4. Control'
      BY <1>3, <1>5, <2>3, StartThreadControl DEF StartThread, Startable
    <2> QED
      BY <1>2, <2>1, <2>2, <2>4 DEF TypeOK
  <1>6. CASE StartFails(c, w, "idle") /\ poolMutex' = None /\ UNCHANGED at
    <2>1. WorkerTypeOK'
      BY <1>6, CallTyped, ThreadSets DEF TypeOK
    <2>2. /\ Moves(c, "idle")
          /\ current' = current
          /\ \A v \in Workers : ~hasThread'[v] => ~hasThread[v] \/ pc[v] = "idle"
      BY <1>6, CallMoves DEF TypeOK, CallLabels, StopLabels, PushLabels, WorkerLabels
    <2>3. PoolTypeOK'
      BY <1>6, <2>2, ThreadSets DEF TypeOK, PoolTypeOK, Moves, StartWorker, Advance,
         poolVars
    <2>4. Control'
      BY <1>3, <2>2, CallerKeepsControl DEF CallLabels, StopLabels, PushLabels, WorkerLabels
    <2> QED
      BY <1>2, <2>1, <2>3, <2>4 DEF TypeOK
  <1> QED
    BY <1>1, <1>4, <1>5, <1>6

LEMMA AddWorkerTyped ==
  ASSUME TypedControl, NEW c \in Callers, NEW w \in Workers, AddWorker(c, w)
  PROVE  TypedControl'
  <1> USE DEF TypedControl
  <1>1. JobPoolTypeOK'
    BY DEF TypeOK, JobPoolTypeOK, AddWorker, jobPoolVars
  <1>2. WorkerTypeOK'
    BY DEF TypeOK, WorkerTypeOK, PoolTypeOK, AddWorker
  <1>3. calls' \in [Callers -> 0 .. MaxCalls]
    BY PoolAssumption DEF TypeOK, PoolTypeOK, AddWorker, Issues
  <1>4. /\ pc' \in [Threads -> WorkerLabels \cup CallLabels]
        /\ members' \subseteq Workers
    BY ThreadSets DEF TypeOK, PoolTypeOK, AddWorker, WorkerLabels
  <1>5. PoolTypeOK'
    BY <1>3, <1>4 DEF TypeOK, PoolTypeOK, AddWorker
  <1>6. CASE working /\ Startable(w)
    <2>1. /\ pc'[w] = "lock"
          /\ \A u \in Threads \ {w} : pc'[u] = pc[u]
      BY <1>6, ThreadSets DEF TypeOK, PoolTypeOK, AddWorker
    <2>2. Control'
      BY <1>6, <2>1, StartThreadControl DEF AddWorker, Startable
    <2> QED
      BY <1>1, <1>2, <1>5, <2>2 DEF TypeOK
  <1>7. CASE ~(working /\ Startable(w))
    <2>1. UNCHANGED <<pc, current, hasThread, pushing>>
      BY <1>7 DEF AddWorker
    <2> QED
      BY <1>1, <1>2, <1>5, <2>1 DEF TypeOK, Control, WorkerControl, CallerControl,
         PushControl
  <1> QED
    BY <1>6, <1>7

LEMMA LockPoolTyped ==
  ASSUME TypedControl, NEW c \in Callers, NEW b \in BOOLEAN, LockPool(c, b)
  PROVE  TypedControl'
  <1> USE DEF TypedControl
  <1>1. TypeOK'
    BY PoolAssumption DEF TypeOK, JobPoolTypeOK, WorkerTypeOK, PoolTypeOK, LockPool,
       Issues, SetLocked, workerData
  <1>2. Control'
    BY DEF Control, WorkerControl, CallerControl, PushControl, LockPool, workerData
  <1> QED
    BY <1>1, <1>2

LEMMA StartEnterTyped ==
  ASSUME TypedControl, NEW c \in Callers, StartEnter(c)
  PROVE  TypedControl'
  <1> USE DEF TypedControl
  <1>1. JobPoolTypeOK' /\ WorkerTypeOK'
    BY DEF TypeOK, JobPoolTypeOK, WorkerTypeOK, StartEnter, jobPoolVars, workerData
  <1>2. calls' \in [Callers -> 0 .. MaxCalls]
    BY PoolAssumption DEF TypeOK, PoolTypeOK, StartEnter, Issues
  <1>3. UNCHANGED <<current, hasThread, pushing>> /\ pushing[c] = None
    BY ThreadSets DEF StartEnter, Issues, workerData, Control, PushControl, PushLabels
  <1>4. CASE UNCHANGED <<poolMutex, pc, at>>
    BY <1>1, <1>2, <1>3, <1>4 DEF TypeOK, PoolTypeOK, Control, WorkerControl,
       CallerControl, PushControl, StartEnter
  <1>5. CASE Enters(c, "starting")
    <2>1. Moves(c, "starting")
      BY <1>5, MovesAlone, ThreadSets DEF TypeOK, Enters, CallLabels
    <2>2. PoolTypeOK'
      BY <1>2, <1>5, <2>1, ThreadSets DEF TypeOK, PoolTypeOK, StartEnter, Enters,
         Advance, Moves
    <2>3. Control'
      BY <1>3, <2>1, CallerKeepsControl DEF CallLabels, StopLabels, PushLabels
    <2> QED
      BY <1>1, <2>2, <2>3 DEF TypeOK
  <1> QED
    BY <1>4, <1>5 DEF StartEnter

LEMMA StopEnterTyped ==
  ASSUME TypedControl, NEW c \in Callers, NEW b \in BOOLEAN, StopEnter(c, b)
  PROVE  TypedControl'
  <1> USE DEF TypedControl
  <1> DEFINE label == IF b THEN "clearing" ELSE "stopping"
  <1>1. JobPoolTypeOK' /\ WorkerTypeOK'
    BY DEF TypeOK, JobPoolTypeOK, WorkerTypeOK, StopEnter, SetLocked, jobPoolVars,
       workerData
  <1>2. calls' \in [Callers -> 0 .. MaxCalls]
    BY PoolAssumption DEF TypeOK, PoolTypeOK, StopEnter, Issues
  <1>3. UNCHANGED <<current, hasThread, pushing>> /\ pushing[c] = None
    BY ThreadSets DEF StopEnter, Issues, workerData, Control, PushControl, PushLabels
  <1>4. CASE UNCHANGED <<poolMutex, pc, at>>
    BY <1>1, <1>2, <1>3, <1>4 DEF TypeOK, PoolTypeOK, Control, WorkerControl,
       CallerControl, PushControl, StopEnter
  <1>5. CASE Enters(c, label)
    <2>1. label \in CallLabels /\ label \notin PushLabels
      BY DEF CallLabels, StopLabels, PushLabels
    <2> HIDE DEF label
    <2>2. Moves(c, label)
      BY <1>5, <2>1, MovesAlone, ThreadSets DEF TypeOK, Enters
    <2>3. PoolTypeOK'
      BY <1>2, <1>5, <2>2, ThreadSets DEF TypeOK, PoolTypeOK, StopEnter, Enters,
         Advance, Moves
    <2>4. Control'
      BY <1>3, <2>1, <2>2, CallerKeepsControl
    <2> QED
      BY <1>1, <2>3, <2>4 DEF TypeOK
  <1> QED
    BY <1>4, <1>5 DEF StopEnter

-----------------------------------------------------------------------------
LEMMA TypedControlStep == TypedControl /\ [Next]_vars => TypedControl'
  <1> SUFFICES ASSUME TypedControl, [Next]_vars PROVE TypedControl'
    OBVIOUS
  <1>1. CASE UNCHANGED vars
    BY <1>1 DEF TypedControl, TypeOK, JobPoolTypeOK, WorkerTypeOK, PoolTypeOK,
       Control, WorkerControl, CallerControl, PushControl, vars, jobPoolVars,
       workerVars, poolVars
  <1>2. ASSUME NEW t \in Threads, Push(t) PROVE TypedControl'
    BY <1>2, PushCheckTyped, EnqueueTyped, NotifyEnterTyped, NotifyWorkerTyped,
       NotifyDoneTyped DEF Push
  <1>3. ASSUME NEW w \in Workers, WorkerStep(w) \/ WorkerWakes(w)
        PROVE  TypedControl'
    BY <1>3, LockAndCheckTyped, ScanQueueTyped, BlockInWaitTyped, TakeTyped,
       RecheckStopTyped, FinishJobTyped, ExitThreadTyped, SpuriousWakeTyped
       DEF WorkerStep, WorkerWakes, RunLoop
  <1>4. ASSUME NEW c \in Callers, Command(c) PROVE TypedControl'
    <2>1. CASE Start(c)
      BY <2>1, StartEnterTyped, StartWorkerTyped, StartJoinTyped, StartDoneTyped
         DEF Start
    <2>2. CASE Pause(c)
      BY <2>2, PauseEnterTyped, PauseWorkerTyped, PauseDoneTyped DEF Pause
    <2>3. CASE Stop(c)
      BY <2>3, StopEnterTyped, StopClearTyped, StopWorkerTyped, StopJoinTyped,
         StopUnlockTyped, StopTailTyped DEF Stop
    <2>4. CASE Remove(c)
      BY <2>4, RemoveClearTyped, RemoveEnterTyped, RemovePriorityTyped,
         RemoveStopTyped, RemoveJoinTyped, RemoveDoneTyped DEF Remove
    <2> QED
      BY <1>4, <2>1, <2>2, <2>3, <2>4, LockPoolTyped, AddWorkerTyped DEF Command
  <1> QED
    BY <1>1, <1>2, <1>3, <1>4 DEF Next

\* Type correctness, and with it what a thread carries at each place: a job is
\* at hand wherever the code dereferences one (ThreadWorker::run, JobPool::push).
THEOREM TypeCorrect == Spec => []TypeOK
  <1>1. TypedControl => TypeOK
    BY DEF TypedControl
  <1> QED
    BY <1>1, TypedControlInit, TypedControlStep, PTL DEF Spec

-----------------------------------------------------------------------------
(***************************************************************************)
(* No wake-up is lost.  A worker that has begun to evaluate the predicate  *)
(* of its wait carries, for each queue it has looked at, the promise that  *)
(* whoever pushed a job there since will notify it; the notifier cannot    *)
(* pass it before it is blocked, since it needs mutex_.                    *)
(***************************************************************************)

\* Inside the scope of the scoped_lock on ThreadPool::mutex_.
HoldLabels == {"notify", "starting", "startJoin", "pausing", "clearing",
               "stopping", "joining", "removing", "removeStop", "removeJoin"}

MutexInv == \A t \in Threads : pc[t] \in HoldLabels => poolMutex = t

MemberInv == \A w \in Workers : hasThread[w] => w \in members

ServeInv == \A w \in Workers : serves[w] \subseteq Range(Served(w))

\* A thread with no priority left is one remove_workers() is about to join.
EmptiedInv ==
  \A w \in Workers : hasThread[w] /\ serves[w] = {} =>
    \E c \in Callers : pc[c] \in {"removeStop", "removeJoin"} /\ Visits(c, w)

QueueInv == \A p \in Priorities : \A j \in Queued(p) : PriorityOf[j] = p

Structure == MutexInv /\ MemberInv /\ ServeInv /\ EmptiedInv /\ QueueInv

\* Every job in the queue of p is one whose push will notify w.
Covered(p, w) == \A j \in Queued(p) : WillNotify(j, w)

\* Worker w has looked only at queues whose later jobs come with a
\* notification, and sleeps under flags that let it.
SleepSafe(w) ==
  /\ pc[w] = "scan" =>
       \A k \in 1 .. Len(Served(w)) :
         k < at[w] /\ Served(w)[k] \in serves[w] => Covered(Served(w)[k], w)
  /\ pc[w] \in {"block", "wait"} =>
       /\ ~stopFlag[w]
       /\ ~pauseFlag[w] => \A p \in serves[w] : Covered(p, w)

WakeInv == \A w \in Workers : SleepSafe(w)

IInv == TypedControl /\ Structure /\ WakeInv

-----------------------------------------------------------------------------
(* Commands: what all of them leave alone *)

\* Nothing is queued, no push moves, and a worker on its way to sleep, or
\* asleep, stays where it is under the flags it saw.
Quiet(c) ==
  /\ \A p \in Priorities : Queued(p)' \subseteq Queued(p)
  /\ pushing' = pushing
  /\ pc[c] \notin PushLabels
  /\ \A u \in Threads \ {c} :
       /\ at'[u] = at[u]
       /\ pc'[u] = pc[u] \/ (pc[u] \in {"wait", "idle"} /\ pc'[u] = "lock")
  /\ \A w \in Workers :
       /\ serves'[w] \subseteq serves[w]
       /\ pc'[w] \in {"scan", "block", "wait"} =>
            pauseFlag'[w] = pauseFlag[w] /\ (stopFlag'[w] => stopFlag[w])

LEMMA StartEnterQuiet ==
  ASSUME TypedControl, NEW c \in Callers, StartEnter(c)
  PROVE  Quiet(c)
  <1>1. pc[c] \notin PushLabels
    BY DEF StartEnter, Issues, Enters, Advance, PushLabels
  <1>2. \A q \in Priorities : Queued(q)' \subseteq Queued(q)
    BY RangeOfEmpty DEF StartEnter, Issues, Enters, Advance, Queued, Range, jobPoolVars
  <1>3. \A u \in Threads \ {c} : at'[u] = at[u] /\ pc'[u] = pc[u]
    BY DEF TypedControl, TypeOK, PoolTypeOK, StartEnter, Issues, Enters, Advance, poolVars
  <1>4. UNCHANGED <<pushing, serves, pauseFlag, stopFlag>>
    BY DEF StartEnter, workerData, poolVars
  <1> QED
    BY <1>1, <1>2, <1>3, <1>4 DEF Quiet

LEMMA StartDoneQuiet ==
  ASSUME TypedControl, NEW c \in Callers, StartDone(c)
  PROVE  Quiet(c)
  <1>1. pc[c] \notin PushLabels
    BY DEF StartDone, Leaves, PushLabels
  <1>2. \A q \in Priorities : Queued(q)' \subseteq Queued(q)
    BY RangeOfEmpty DEF StartDone, Leaves, Queued, Range, jobPoolVars
  <1>3. \A u \in Threads \ {c} : at'[u] = at[u] /\ pc'[u] = pc[u]
    BY DEF TypedControl, TypeOK, PoolTypeOK, StartDone, Leaves, poolVars
  <1>4. UNCHANGED <<pushing, serves, pauseFlag, stopFlag>>
    BY DEF StartDone, workerData, poolVars
  <1> QED
    BY <1>1, <1>2, <1>3, <1>4 DEF Quiet

LEMMA PauseEnterQuiet ==
  ASSUME TypedControl, NEW c \in Callers, NEW b \in BOOLEAN, PauseEnter(c, b)
  PROVE  Quiet(c)
  <1>1. pc[c] \notin PushLabels
    BY DEF PauseEnter, Issues, Enters, Advance, PushLabels
  <1>2. \A q \in Priorities : Queued(q)' \subseteq Queued(q)
    BY RangeOfEmpty DEF PauseEnter, Issues, Enters, Advance, Queued, Range, jobPoolVars
  <1>3. \A u \in Threads \ {c} : at'[u] = at[u] /\ pc'[u] = pc[u]
    BY DEF TypedControl, TypeOK, PoolTypeOK, PauseEnter, Issues, Enters, Advance, poolVars
  <1>4. UNCHANGED <<pushing, serves, pauseFlag, stopFlag>>
    BY DEF PauseEnter, workerData, poolVars
  <1> QED
    BY <1>1, <1>2, <1>3, <1>4 DEF Quiet

LEMMA PauseDoneQuiet ==
  ASSUME TypedControl, NEW c \in Callers, PauseDone(c)
  PROVE  Quiet(c)
  <1>1. pc[c] \notin PushLabels
    BY DEF PauseDone, Leaves, PushLabels
  <1>2. \A q \in Priorities : Queued(q)' \subseteq Queued(q)
    BY RangeOfEmpty DEF PauseDone, Leaves, Queued, Range, jobPoolVars
  <1>3. \A u \in Threads \ {c} : at'[u] = at[u] /\ pc'[u] = pc[u]
    BY DEF TypedControl, TypeOK, PoolTypeOK, PauseDone, Leaves, poolVars
  <1>4. UNCHANGED <<pushing, serves, pauseFlag, stopFlag>>
    BY DEF PauseDone, workerData, poolVars
  <1> QED
    BY <1>1, <1>2, <1>3, <1>4 DEF Quiet

LEMMA StopEnterQuiet ==
  ASSUME TypedControl, NEW c \in Callers, NEW b \in BOOLEAN, StopEnter(c, b)
  PROVE  Quiet(c)
  <1>1. pc[c] \notin PushLabels
    BY DEF StopEnter, Issues, Enters, Advance, SetLocked, PushLabels
  <1>2. \A q \in Priorities : Queued(q)' \subseteq Queued(q)
    BY RangeOfEmpty DEF StopEnter, Issues, Enters, Advance, SetLocked, Queued, Range, jobPoolVars
  <1>3. \A u \in Threads \ {c} : at'[u] = at[u] /\ pc'[u] = pc[u]
    BY DEF TypedControl, TypeOK, PoolTypeOK, StopEnter, Issues, Enters, Advance, SetLocked, poolVars
  <1>4. UNCHANGED <<pushing, serves, pauseFlag, stopFlag>>
    BY DEF StopEnter, workerData, poolVars
  <1> QED
    BY <1>1, <1>2, <1>3, <1>4 DEF Quiet

LEMMA StopUnlockQuiet ==
  ASSUME TypedControl, NEW c \in Callers, StopUnlock(c)
  PROVE  Quiet(c)
  <1>1. pc[c] \notin PushLabels
    BY DEF StopUnlock, Leaves, SetLocked, PushLabels
  <1>2. \A q \in Priorities : Queued(q)' \subseteq Queued(q)
    BY RangeOfEmpty DEF StopUnlock, Leaves, SetLocked, Queued, Range, jobPoolVars
  <1>3. \A u \in Threads \ {c} : at'[u] = at[u] /\ pc'[u] = pc[u]
    BY DEF TypedControl, TypeOK, PoolTypeOK, StopUnlock, Leaves, SetLocked, poolVars
  <1>4. UNCHANGED <<pushing, serves, pauseFlag, stopFlag>>
    BY DEF StopUnlock, workerData, poolVars
  <1> QED
    BY <1>1, <1>2, <1>3, <1>4 DEF Quiet

LEMMA StopTailQuiet ==
  ASSUME TypedControl, NEW c \in Callers, StopTail(c)
  PROVE  Quiet(c)
  <1>1. pc[c] \notin PushLabels
    BY DEF StopTail, PushLabels
  <1>2. \A q \in Priorities : Queued(q)' \subseteq Queued(q)
    BY RangeOfEmpty DEF StopTail, Queued, Range, jobPoolVars
  <1>3. \A u \in Threads \ {c} : at'[u] = at[u] /\ pc'[u] = pc[u]
    BY DEF TypedControl, TypeOK, PoolTypeOK, StopTail, poolVars
  <1>4. UNCHANGED <<pushing, serves, pauseFlag, stopFlag>>
    BY DEF StopTail, workerData, poolVars
  <1> QED
    BY <1>1, <1>2, <1>3, <1>4 DEF Quiet

LEMMA LockPoolQuiet ==
  ASSUME TypedControl, NEW c \in Callers, NEW b \in BOOLEAN, LockPool(c, b)
  PROVE  Quiet(c)
  <1>1. pc[c] \notin PushLabels
    BY DEF LockPool, Issues, SetLocked, PushLabels
  <1>2. \A q \in Priorities : Queued(q)' \subseteq Queued(q)
    BY RangeOfEmpty DEF LockPool, Issues, SetLocked, Queued, Range, jobPoolVars
  <1>3. \A u \in Threads \ {c} : at'[u] = at[u] /\ pc'[u] = pc[u]
    BY DEF TypedControl, TypeOK, PoolTypeOK, LockPool, Issues, SetLocked, poolVars
  <1>4. UNCHANGED <<pushing, serves, pauseFlag, stopFlag>>
    BY DEF LockPool, workerData, poolVars
  <1> QED
    BY <1>1, <1>2, <1>3, <1>4 DEF Quiet

LEMMA RemoveEnterQuiet ==
  ASSUME TypedControl, NEW c \in Callers, RemoveEnter(c)
  PROVE  Quiet(c)
  <1>1. pc[c] \notin PushLabels
    BY DEF RemoveEnter, Enters, Advance, PushLabels
  <1>2. \A q \in Priorities : Queued(q)' \subseteq Queued(q)
    BY RangeOfEmpty DEF RemoveEnter, Enters, Advance, Queued, Range, jobPoolVars
  <1>3. \A u \in Threads \ {c} : at'[u] = at[u] /\ pc'[u] = pc[u]
    BY DEF TypedControl, TypeOK, PoolTypeOK, RemoveEnter, Enters, Advance, poolVars
  <1>4. UNCHANGED <<pushing, serves, pauseFlag, stopFlag>>
    BY DEF RemoveEnter, workerData, poolVars
  <1> QED
    BY <1>1, <1>2, <1>3, <1>4 DEF Quiet

LEMMA RemoveDoneQuiet ==
  ASSUME TypedControl, NEW c \in Callers, RemoveDone(c)
  PROVE  Quiet(c)
  <1>1. pc[c] \notin PushLabels
    BY DEF RemoveDone, Leaves, PushLabels
  <1>2. \A q \in Priorities : Queued(q)' \subseteq Queued(q)
    BY RangeOfEmpty DEF RemoveDone, Leaves, Queued, Range, jobPoolVars
  <1>3. \A u \in Threads \ {c} : at'[u] = at[u] /\ pc'[u] = pc[u]
    BY DEF TypedControl, TypeOK, PoolTypeOK, RemoveDone, Leaves, poolVars
  <1>4. UNCHANGED <<pushing, serves, pauseFlag, stopFlag>>
    BY DEF RemoveDone, workerData, poolVars
  <1> QED
    BY <1>1, <1>2, <1>3, <1>4 DEF Quiet

LEMMA StopClearQuiet ==
  ASSUME TypedControl, NEW c \in Callers, StopClear(c)
  PROVE  Quiet(c)
  <1>1. pc[c] \notin PushLabels
    BY DEF StopClear, ClearQueues, PushLabels
  <1>2. \A q \in Priorities : Queued(q)' \subseteq Queued(q)
    BY RangeOfEmpty DEF StopClear, ClearQueues, Queued, Range, jobPoolVars
  <1>3. \A u \in Threads \ {c} : at'[u] = at[u] /\ pc'[u] = pc[u]
    BY DEF TypedControl, TypeOK, PoolTypeOK, StopClear, ClearQueues, poolVars
  <1>4. UNCHANGED <<pushing, serves, pauseFlag, stopFlag>>
    BY DEF StopClear, workerData, poolVars
  <1> QED
    BY <1>1, <1>2, <1>3, <1>4 DEF Quiet

LEMMA RemoveClearQuiet ==
  ASSUME TypedControl, NEW c \in Callers, NEW p \in Priorities, RemoveClear(c, p)
  PROVE  Quiet(c)
  <1>1. pc[c] \notin PushLabels
    BY DEF RemoveClear, Issues, ClearQueues, PushLabels
  <1>2. \A q \in Priorities : Queued(q)' \subseteq Queued(q)
    BY RangeOfEmpty DEF RemoveClear, Issues, ClearQueues, Queued, Range, jobPoolVars
  <1>3. \A u \in Threads \ {c} : at'[u] = at[u] /\ pc'[u] = pc[u]
    BY DEF TypedControl, TypeOK, PoolTypeOK, RemoveClear, Issues, ClearQueues, poolVars
  <1>4. UNCHANGED <<pushing, serves, pauseFlag, stopFlag>>
    BY DEF RemoveClear, workerData, poolVars
  <1> QED
    BY <1>1, <1>2, <1>3, <1>4 DEF Quiet

\* A call on worker w by caller c.
LEMMA CallQuiet ==
  ASSUME TypedControl, NEW c \in Callers, NEW w \in Workers, NEW label, NEW p,
         NEW b \in BOOLEAN,
         \/ SignalStop(c, w, label)
         \/ Join(c, w, label)
         \/ StartThread(c, w, label)
         \/ StartFails(c, w, label)
         \/ SetPause(c, w, b, label)
         \/ DropPriority(c, w, p, label)
  PROVE  /\ \A u \in Threads \ {c} :
              pc'[u] = pc[u] \/ (pc[u] \in {"wait", "idle"} /\ pc'[u] = "lock")
         /\ \A v \in Workers :
              /\ serves'[v] \subseteq serves[v]
              /\ pc'[v] \in {"scan", "block", "wait"} =>
                   pauseFlag'[v] = pauseFlag[v] /\ (stopFlag'[v] => stopFlag[v])
  <1> USE ThreadSets DEF TypedControl, TypeOK, WorkerTypeOK, PoolTypeOK
  <1>1. CASE SignalStop(c, w, label)
    BY <1>1 DEF SignalStop, Woken, WorkerMutexFree
  <1>2. CASE Join(c, w, label)
    BY <1>2 DEF Join
  <1>3. CASE StartThread(c, w, label)
    BY <1>3 DEF StartThread, Startable, Control, WorkerControl
  <1>4. CASE StartFails(c, w, label)
    BY <1>4 DEF StartFails
  <1>5. CASE SetPause(c, w, b, label)
    BY <1>5 DEF SetPause, Woken, WorkerMutexFree
  <1>6. CASE DropPriority(c, w, p, label)
    BY <1>6 DEF DropPriority
  <1> QED
    BY <1>1, <1>2, <1>3, <1>4, <1>5, <1>6

LEMMA StartWorkerQuiet ==
  ASSUME TypedControl, NEW c \in Callers, StartWorker(c)
  PROVE  Quiet(c)
  <1>1. PICK w \in Workers :
          \/ SignalStop(c, w, "startJoin") /\ UNCHANGED at
          \/ StartThread(c, w, "starting") /\ Advance(c, w)
          \/ StartFails(c, w, "idle") /\ UNCHANGED at
    BY DEF StartWorker
  <1>2. /\ pc[c] \notin PushLabels
        /\ UNCHANGED pushing
        /\ \A q \in Priorities : Queued(q)' = Queued(q)
    BY DEF StartWorker, PushLabels, poolVars, jobPoolVars, Queued
  <1>3. \A u \in Threads \ {c} : at'[u] = at[u]
    BY <1>1 DEF TypedControl, TypeOK, PoolTypeOK, Advance
  <1>5. CASE SignalStop(c, w, "startJoin") /\ UNCHANGED at
    BY <1>5, <1>2, <1>3, CallQuiet DEF Quiet
  <1>6. CASE StartThread(c, w, "starting") /\ Advance(c, w)
    BY <1>6, <1>2, <1>3, CallQuiet DEF Quiet
  <1>7. CASE StartFails(c, w, "idle") /\ UNCHANGED at
    BY <1>7, <1>2, <1>3, CallQuiet DEF Quiet
  <1> QED
    BY <1>1, <1>5, <1>6, <1>7

LEMMA StartJoinQuiet ==
  ASSUME TypedControl, NEW c \in Callers, StartJoin(c)
  PROVE  Quiet(c)
  <1>1. PICK w \in Workers :
          Join(c, w, "starting") /\ UNCHANGED at
    BY DEF StartJoin
  <1>2. /\ pc[c] \notin PushLabels
        /\ UNCHANGED pushing
        /\ \A q \in Priorities : Queued(q)' = Queued(q)
    BY DEF StartJoin, PushLabels, poolVars, jobPoolVars, Queued
  <1>3. \A u \in Threads \ {c} : at'[u] = at[u]
    BY <1>1 DEF TypedControl, TypeOK, PoolTypeOK, Advance
  <1>5. CASE Join(c, w, "starting") /\ UNCHANGED at
    BY <1>5, <1>2, <1>3, CallQuiet DEF Quiet
  <1> QED
    BY <1>1, <1>5

LEMMA PauseWorkerQuiet ==
  ASSUME TypedControl, NEW c \in Callers, PauseWorker(c)
  PROVE  Quiet(c)
  <1>1. PICK w \in Workers :
          SetPause(c, w, paused, "pausing") /\ Advance(c, w)
    BY DEF PauseWorker
  <1>2. /\ pc[c] \notin PushLabels
        /\ UNCHANGED pushing
        /\ \A q \in Priorities : Queued(q)' = Queued(q)
    BY DEF PauseWorker, PushLabels, poolVars, jobPoolVars, Queued
  <1>3. \A u \in Threads \ {c} : at'[u] = at[u]
    BY <1>1 DEF TypedControl, TypeOK, PoolTypeOK, Advance
  <1>4. paused \in BOOLEAN
    BY DEF TypedControl, TypeOK, PoolTypeOK
  <1>5. CASE SetPause(c, w, paused, "pausing") /\ Advance(c, w)
    BY <1>5, <1>2, <1>3, <1>4, CallQuiet DEF Quiet
  <1> QED
    BY <1>1, <1>5

LEMMA StopJoinQuiet ==
  ASSUME TypedControl, NEW c \in Callers, StopJoin(c)
  PROVE  Quiet(c)
  <1>1. PICK w \in Workers :
          Join(c, w, "stopping") /\ Advance(c, w)
    BY DEF StopJoin
  <1>2. /\ pc[c] \notin PushLabels
        /\ UNCHANGED pushing
        /\ \A q \in Priorities : Queued(q)' = Queued(q)
    BY DEF StopJoin, PushLabels, poolVars, jobPoolVars, Queued
  <1>3. \A u \in Threads \ {c} : at'[u] = at[u]
    BY <1>1 DEF TypedControl, TypeOK, PoolTypeOK, Advance
  <1>5. CASE Join(c, w, "stopping") /\ Advance(c, w)
    BY <1>5, <1>2, <1>3, CallQuiet DEF Quiet
  <1> QED
    BY <1>1, <1>5

LEMMA RemoveJoinQuiet ==
  ASSUME TypedControl, NEW c \in Callers, RemoveJoin(c)
  PROVE  Quiet(c)
  <1>1. PICK w \in Workers :
          Join(c, w, "removing") /\ Advance(c, w)
    BY DEF RemoveJoin
  <1>2. /\ pc[c] \notin PushLabels
        /\ UNCHANGED pushing
        /\ \A q \in Priorities : Queued(q)' = Queued(q)
    BY DEF RemoveJoin, PushLabels, poolVars, jobPoolVars, Queued
  <1>3. \A u \in Threads \ {c} : at'[u] = at[u]
    BY <1>1 DEF TypedControl, TypeOK, PoolTypeOK, Advance
  <1>5. CASE Join(c, w, "removing") /\ Advance(c, w)
    BY <1>5, <1>2, <1>3, CallQuiet DEF Quiet
  <1> QED
    BY <1>1, <1>5

LEMMA StopWorkerQuiet ==
  ASSUME TypedControl, NEW c \in Callers, StopWorker(c)
  PROVE  Quiet(c)
  <1>1. PICK w \in Workers :
          \/ SignalStop(c, w, "joining") /\ UNCHANGED at
          \/ Leaves(c, "idle") /\ UNCHANGED workerData /\ UNCHANGED at
    BY DEF StopWorker
  <1>2. /\ pc[c] \notin PushLabels
        /\ UNCHANGED pushing
        /\ \A q \in Priorities : Queued(q)' = Queued(q)
    BY DEF StopWorker, PushLabels, poolVars, jobPoolVars, Queued
  <1>3. \A u \in Threads \ {c} : at'[u] = at[u]
    BY <1>1 DEF TypedControl, TypeOK, PoolTypeOK, Advance
  <1>5. CASE SignalStop(c, w, "joining") /\ UNCHANGED at
    BY <1>5, <1>2, <1>3, CallQuiet DEF Quiet
  <1>6. CASE Leaves(c, "idle") /\ UNCHANGED workerData /\ UNCHANGED at
    BY <1>6, <1>2, <1>3 DEF Quiet, TypedControl, TypeOK, PoolTypeOK, Leaves, workerData
  <1> QED
    BY <1>1, <1>5, <1>6

LEMMA RemovePriorityQuiet ==
  ASSUME TypedControl, NEW c \in Callers, RemovePriority(c)
  PROVE  Quiet(c)
  <1>1. PICK w \in Workers :
          \/ DropPriority(c, w, target[c], "removeStop") /\ UNCHANGED at
          \/ DropPriority(c, w, target[c], "removing") /\ Advance(c, w)
    BY DEF RemovePriority
  <1>2. /\ pc[c] \notin PushLabels
        /\ UNCHANGED pushing
        /\ \A q \in Priorities : Queued(q)' = Queued(q)
    BY DEF RemovePriority, PushLabels, poolVars, jobPoolVars, Queued
  <1>3. \A u \in Threads \ {c} : at'[u] = at[u]
    BY <1>1 DEF TypedControl, TypeOK, PoolTypeOK, Advance
  <1>5. CASE DropPriority(c, w, target[c], "removeStop") /\ UNCHANGED at
    BY <1>5, <1>2, <1>3, CallQuiet DEF Quiet
  <1>6. CASE DropPriority(c, w, target[c], "removing") /\ Advance(c, w)
    BY <1>6, <1>2, <1>3, CallQuiet DEF Quiet
  <1> QED
    BY <1>1, <1>5, <1>6

LEMMA RemoveStopQuiet ==
  ASSUME TypedControl, NEW c \in Callers, RemoveStop(c)
  PROVE  Quiet(c)
  <1>1. PICK w \in Workers :
          \/ SignalStop(c, w, "removeJoin") /\ UNCHANGED at
          \/ pc' = [pc EXCEPT ![c] = "removing"] /\ Advance(c, w) /\ UNCHANGED workerData
    BY DEF RemoveStop
  <1>2. /\ pc[c] \notin PushLabels
        /\ UNCHANGED pushing
        /\ \A q \in Priorities : Queued(q)' = Queued(q)
    BY DEF RemoveStop, PushLabels, poolVars, jobPoolVars, Queued
  <1>3. \A u \in Threads \ {c} : at'[u] = at[u]
    BY <1>1 DEF TypedControl, TypeOK, PoolTypeOK, Advance
  <1>5. CASE SignalStop(c, w, "removeJoin") /\ UNCHANGED at
    BY <1>5, <1>2, <1>3, CallQuiet DEF Quiet
  <1>6. CASE pc' = [pc EXCEPT ![c] = "removing"] /\ Advance(c, w) /\ UNCHANGED workerData
    BY <1>6, <1>2, <1>3 DEF Quiet, TypedControl, TypeOK, PoolTypeOK, Leaves, workerData
  <1> QED
    BY <1>1, <1>5, <1>6

LEMMA AddWorkerQuiet ==
  ASSUME TypedControl, NEW c \in Callers, NEW w \in Workers, AddWorker(c, w),
         w \notin members => ~hasThread[w] /\ pc[w] = "idle"
  PROVE  Quiet(c)
  <1>1. /\ pc[c] = "idle"
        /\ w \notin members
        /\ UNCHANGED <<pushing, at, serves>>
        /\ \A q \in Priorities : Queued(q)' = Queued(q)
    BY DEF AddWorker, Issues, jobPoolVars, Queued, TypedControl, TypeOK, PoolTypeOK, Workers
  <1>2. \A u \in Threads : pc'[u] = pc[u] \/ (pc[u] = "idle" /\ pc'[u] = "lock")
    BY <1>1, ThreadSets DEF AddWorker, TypedControl, TypeOK, PoolTypeOK
  <1>3. \A v \in Workers : pc'[v] \in {"scan", "block", "wait"} =>
          pauseFlag'[v] = pauseFlag[v] /\ (stopFlag'[v] => stopFlag[v])
    BY <1>1, <1>2, ThreadSets DEF AddWorker, TypedControl, TypeOK, PoolTypeOK, WorkerTypeOK
  <1> QED
    BY <1>1, <1>2, <1>3 DEF Quiet, PushLabels

\* What a quiet command leaves true of the workers on their way to sleep.
LEMMA QuietWake ==
  ASSUME IInv, NEW c \in Callers, Quiet(c)
  PROVE  WakeInv'
  <1>1. \A w \in Workers : pc'[w] \in {"scan", "block", "wait"} =>
          /\ pc'[w] = pc[w]
          /\ at'[w] = at[w]
    BY ThreadSets DEF Quiet
  <1>2. \A w \in Workers : \A j : WillNotify(j, w) => WillNotify(j, w)'
    <2>1. SUFFICES ASSUME NEW w \in Workers, NEW j, NEW t \in Threads,
                          pushing[t] = j,
                          pc[t] = "notifyEnter" \/ (pc[t] = "notify" /\ at[t] < w)
                   PROVE  WillNotify(j, w)'
      BY DEF WillNotify
    <2>2. t # c /\ pc'[t] = pc[t] /\ at'[t] = at[t] /\ pushing'[t] = j
      BY <2>1 DEF Quiet, PushLabels
    <2> QED
      BY <2>1, <2>2 DEF WillNotify
  <1>3. \A w \in Workers : \A p \in Priorities : Covered(p, w) => Covered(p, w)'
    BY <1>2 DEF Covered, Quiet
  <1>4. \A w \in Workers : \A k \in 1 .. Len(Served(w)) : Served(w)[k] \in Priorities
    BY WorkerAssumption, ElementOfSeq DEF Served
  <1>5. \A w \in Workers : serves'[w] \subseteq serves[w] /\ serves[w] \subseteq Priorities
    BY DEF Quiet, IInv, TypedControl, TypeOK, WorkerTypeOK
  <1>6. \A w \in Workers : Served(w)' = Served(w)
    BY DEF Served
  <1>7. ASSUME NEW w \in Workers, pc'[w] = "scan", NEW k \in 1 .. Len(Served(w)),
               k < at'[w], Served(w)[k] \in serves'[w]
        PROVE  Covered(Served(w)[k], w)'
    BY <1>1, <1>3, <1>4, <1>5, <1>7 DEF IInv, WakeInv, SleepSafe
  <1>8. ASSUME NEW w \in Workers, pc'[w] \in {"block", "wait"}
        PROVE  /\ ~stopFlag'[w]
               /\ ~pauseFlag'[w] => \A p \in serves'[w] : Covered(p, w)'
    <2>1. /\ ~stopFlag[w]
          /\ ~pauseFlag[w] => \A p \in serves[w] : Covered(p, w)
      BY <1>1, <1>8 DEF IInv, WakeInv, SleepSafe
    <2> QED
      BY <1>3, <1>5, <1>8, <2>1 DEF Quiet
  <1> QED
    BY <1>6, <1>7, <1>8 DEF WakeInv, SleepSafe

LEMMA ServedOfPriorities ==
  ASSUME NEW w \in Workers
  PROVE  /\ Served(w) \in Seq(Priorities)
         /\ \A k \in 1 .. Len(Served(w)) : Served(w)[k] \in Priorities
         /\ Range(Served(w)) = {Served(w)[k] : k \in 1 .. Len(Served(w))}
         /\ Served(w)' = Served(w)
  BY WorkerAssumption, ElementOfSeq DEF Served, Range

-----------------------------------------------------------------------------
(* Steps of a worker *)

\* Worker v moves, and nobody else: at most it takes a job out of a queue.
Local(v) ==
  /\ \A p \in Priorities : Queued(p)' \subseteq Queued(p)
  /\ UNCHANGED <<pushing, serves, pauseFlag>>
  /\ pc[v] \notin PushLabels
  /\ \A u \in Threads \ {v} : at'[u] = at[u] /\ pc'[u] = pc[u]
  /\ \A w \in Workers \ {v} : stopFlag'[w] = stopFlag[w]

LEMMA LocalCovered ==
  ASSUME NEW v \in Workers, Local(v), NEW w \in Workers, NEW p \in Priorities,
         Covered(p, w)
  PROVE  Covered(p, w)'
  <1>1. ASSUME NEW j, WillNotify(j, w)
        PROVE  WillNotify(j, w)'
    <2>1. PICK t \in Threads :
            pushing[t] = j /\ (pc[t] = "notifyEnter" \/ (pc[t] = "notify" /\ at[t] < w))
      BY <1>1 DEF WillNotify
    <2>2. t # v /\ pc'[t] = pc[t] /\ at'[t] = at[t] /\ pushing'[t] = j
      BY <2>1 DEF Local, PushLabels
    <2> QED
      BY <2>1, <2>2 DEF WillNotify
  <1> QED
    BY <1>1 DEF Covered, Local

LEMMA LocalWake ==
  ASSUME IInv, NEW v \in Workers, Local(v), SleepSafe(v)'
  PROVE  WakeInv'
  <1> SUFFICES ASSUME NEW w \in Workers, w # v PROVE SleepSafe(w)'
    BY DEF WakeInv
  <1>1. pc'[w] = pc[w] /\ at'[w] = at[w] /\ stopFlag'[w] = stopFlag[w]
        /\ serves' = serves /\ pauseFlag' = pauseFlag
    BY ThreadSets DEF Local
  <1>2. SleepSafe(w) /\ serves[w] \subseteq Priorities
    BY DEF IInv, WakeInv, TypedControl, TypeOK, WorkerTypeOK
  <1>3. \A p \in Priorities : Covered(p, w) => Covered(p, w)'
    BY LocalCovered
  <1> QED
    BY <1>1, <1>2, <1>3, ServedOfPriorities DEF SleepSafe

LEMMA EmptyCovered ==
  ASSUME NEW p, NEW w, queue[p] = << >>
  PROVE  Covered(p, w)
  BY RangeOfEmpty DEF Covered, Queued

LEMMA LockAndCheckWake ==
  ASSUME IInv, NEW v \in Workers, LockAndCheck(v), UNCHANGED poolVars
  PROVE  WakeInv'
  <1> USE ThreadSets DEF IInv, TypedControl, TypeOK, WorkerTypeOK, PoolTypeOK
  <1>1. Local(v)
    BY DEF LockAndCheck, Local, jobPoolVars, poolVars, Queued, PushLabels
  <1>2. SleepSafe(v)'
    BY ServedOfPriorities DEF LockAndCheck, SleepSafe
  <1> QED
    BY <1>1, <1>2, LocalWake

LEMMA ScanQueueWake ==
  ASSUME IInv, NEW v \in Workers, ScanQueue(v), UNCHANGED poolVars
  PROVE  WakeInv'
  <1>1. Local(v)
    BY ThreadSets DEF ScanQueue, Local, jobPoolVars, poolVars, Queued, PushLabels,
       IInv, TypedControl, TypeOK, WorkerTypeOK, PoolTypeOK
  <1>2. /\ pc[v] = "scan"
        /\ SleepSafe(v)
        /\ UNCHANGED <<serves, stopFlag, pauseFlag>>
    BY DEF ScanQueue, IInv, WakeInv
  <1>3. /\ pc \in [Threads -> WorkerLabels \cup CallLabels]
        /\ at \in [Threads -> Nat]
        /\ v \in Threads
        /\ serves[v] \subseteq Priorities
        /\ serves[v] \subseteq Range(Served(v))
    BY ThreadSets DEF IInv, TypedControl, TypeOK, WorkerTypeOK, PoolTypeOK,
       Structure, ServeInv
  <1>4. ASSUME NEW k \in 1 .. Len(Served(v)), k < at[v], Served(v)[k] \in serves[v]
        PROVE  Covered(Served(v)[k], v)'
    BY <1>1, <1>2, <1>4, LocalCovered, ServedOfPriorities DEF SleepSafe
  <1>5. ASSUME NEW k \in 1 .. Len(Served(v)), k = at[v], Served(v)[k] \in serves[v],
               ~CountedNow(v)
        PROVE  Covered(Served(v)[k], v)'
    <2>1. queue[Served(v)[k]] = << >>
      BY <1>5 DEF CountedNow
    <2>2. Covered(Served(v)[k], v)
      BY <2>1, EmptyCovered
    <2> QED
      BY <2>2, <1>1, LocalCovered, ServedOfPriorities
  <1>6. ASSUME pc' = [pc EXCEPT ![v] = "take"]
        PROVE  SleepSafe(v)'
    <2>1. pc'[v] = "take"
      BY <1>3, <1>6
    <2> QED
      BY <2>1 DEF SleepSafe
  <1>7. ASSUME ~CountedNow(v), ~LastCounted(v), at' = [at EXCEPT ![v] = @ + 1],
               UNCHANGED pc
        PROVE  SleepSafe(v)'
    <2>1. pc'[v] = "scan" /\ at'[v] = at[v] + 1
      BY <1>2, <1>3, <1>7
    <2>2. ASSUME NEW k \in 1 .. Len(Served(v)), k < at[v] + 1, Served(v)[k] \in serves[v]
          PROVE  Covered(Served(v)[k], v)'
      <3>1. k < at[v] \/ k = at[v]
        BY <1>3, <2>2
      <3> QED
        BY <3>1, <2>2, <1>4, <1>5, <1>7
    <2> QED
      BY <2>1, <2>2, <1>2, ServedOfPriorities DEF SleepSafe
  <1>8. ASSUME ~CountedNow(v), LastCounted(v),
               pc' = [pc EXCEPT ![v] = IF stopFlag[v] THEN "exiting" ELSE "block"]
        PROVE  SleepSafe(v)'
    <2>1. pc'[v] = IF stopFlag[v] THEN "exiting" ELSE "block"
      BY <1>3, <1>8
    <2>2. ASSUME NEW p \in serves[v]
          PROVE  Covered(p, v)'
      <3>1. PICK k \in 1 .. Len(Served(v)) : Served(v)[k] = p
        BY <1>3, ServedOfPriorities
      <3>2. at[v] >= Len(Served(v)) /\ Len(Served(v)) \in Nat
        BY <1>8, ServedOfPriorities, LenProperties DEF LastCounted
      <3>3. k < at[v] \/ k = at[v]
        BY <1>3, <3>2
      <3> QED
        BY <3>1, <3>3, <1>4, <1>5, <1>8
    <2> QED
      BY <2>1, <2>2, <1>2 DEF SleepSafe
  <1>9. SleepSafe(v)'
    BY <1>6, <1>7, <1>8 DEF ScanQueue
  <1> QED
    BY <1>1, <1>9, LocalWake

LEMMA BlockInWaitWake ==
  ASSUME IInv, NEW v \in Workers, BlockInWait(v), UNCHANGED poolVars
  PROVE  WakeInv'
  <1> USE ThreadSets DEF IInv, TypedControl, TypeOK, WorkerTypeOK, PoolTypeOK
  <1>1. Local(v)
    BY DEF BlockInWait, Local, jobPoolVars, poolVars, Queued, PushLabels
  <1>2. ~stopFlag[v] /\ (~pauseFlag[v] => \A p \in serves[v] : Covered(p, v))
    BY DEF BlockInWait, WakeInv, SleepSafe
  <1>3. \A p \in serves[v] : Covered(p, v) => Covered(p, v)'
    BY <1>1, LocalCovered
  <1>4. SleepSafe(v)'
    BY <1>2, <1>3 DEF BlockInWait, SleepSafe
  <1> QED
    BY <1>1, <1>4, LocalWake

\* The worker is awake after the step.
LEMMA AwakeWake ==
  ASSUME IInv, NEW v \in Workers, Local(v),
         pc'[v] \notin {"scan", "block", "wait"}
  PROVE  WakeInv'
  BY LocalWake DEF SleepSafe

LEMMA SpuriousWakeWake ==
  ASSUME IInv, NEW v \in Workers, SpuriousWake(v), UNCHANGED poolVars
  PROVE  WakeInv'
  <1> USE ThreadSets DEF IInv, TypedControl, TypeOK, WorkerTypeOK, PoolTypeOK
  <1>1. Local(v) /\ pc'[v] = "lock"
    BY DEF SpuriousWake, Local, jobPoolVars, poolVars, Queued, PushLabels
  <1> QED
    BY <1>1, AwakeWake

LEMMA TakeShrinks ==
  ASSUME IInv, NEW v \in Workers, Take(v)
  PROVE  \A p \in Priorities : Queued(p)' \subseteq Queued(p)
  <1>1. CASE UNCHANGED jobPoolVars
    BY <1>1 DEF jobPoolVars, Queued
  <1>2. ASSUME NEW i \in 1 .. Len(Served(v)), Poppable(Served(v), serves[v], i),
               PopFront(Served(v)[i]), NEW p \in Priorities
        PROVE  Queued(p)' \subseteq Queued(p)
    <2>1. queue \in [Priorities -> Seq(Jobs)]
      BY DEF IInv, TypedControl, TypeOK, JobPoolTypeOK
    <2>2. CASE p # Served(v)[i]
      BY <2>1, <2>2, <1>2 DEF PopFront, Queued
    <2>3. CASE p = Served(v)[i]
      <3>1. queue[p] \in Seq(Jobs) /\ queue[p] # << >> /\ queue'[p] = Tail(queue[p])
        BY <2>1, <2>3, <1>2 DEF Poppable, PopFront
      <3>2. /\ Len(Tail(queue[p])) = Len(queue[p]) - 1
            /\ \A n \in 1 .. Len(queue[p]) - 1 : Tail(queue[p])[n] = queue[p][n + 1]
        BY <3>1, HeadTailProperties
      <3>3. /\ Tail(queue[p]) \in Seq(Jobs)
            /\ Len(queue[p]) \in Nat
        BY <3>1, HeadTailProperties, LenProperties
      <3>4. Range(Tail(queue[p])) \subseteq Range(queue[p])
        BY <3>1, <3>2, <3>3 DEF Range
      <3> QED
        BY <3>1, <3>4 DEF Queued
    <2> QED
      BY <2>2, <2>3
  <1> QED
    BY <1>1, <1>2 DEF Take

LEMMA TakeWake ==
  ASSUME IInv, NEW v \in Workers, Take(v), UNCHANGED poolVars
  PROVE  WakeInv'
  <1> USE ThreadSets DEF IInv, TypedControl, TypeOK, WorkerTypeOK, PoolTypeOK
  <1>1. pc[v] = "take" /\ pc'[v] \in {"run", "recheck"}
    BY DEF Take
  <1>2. /\ UNCHANGED <<pushing, serves, pauseFlag, stopFlag, at>>
        /\ \A u \in Threads \ {v} : pc'[u] = pc[u]
    BY DEF Take, poolVars
  <1> QED
    BY <1>1, <1>2, TakeShrinks, AwakeWake DEF Local, PushLabels

LEMMA RecheckStopWake ==
  ASSUME IInv, NEW v \in Workers, RecheckStop(v), UNCHANGED poolVars
  PROVE  WakeInv'
  <1> USE ThreadSets DEF IInv, TypedControl, TypeOK, WorkerTypeOK, PoolTypeOK
  <1>1. Local(v) /\ pc'[v] \in {"exiting", "lock"}
    BY DEF RecheckStop, Local, jobPoolVars, poolVars, Queued, PushLabels
  <1> QED
    BY <1>1, AwakeWake

LEMMA FinishJobWake ==
  ASSUME IInv, NEW v \in Workers, FinishJob(v), UNCHANGED poolVars
  PROVE  WakeInv'
  <1> USE ThreadSets DEF IInv, TypedControl, TypeOK, WorkerTypeOK, PoolTypeOK
  <1>1. Local(v) /\ pc'[v] = "lock"
    BY DEF FinishJob, Local, jobPoolVars, poolVars, Queued, PushLabels
  <1> QED
    BY <1>1, AwakeWake

LEMMA ExitThreadWake ==
  ASSUME IInv, NEW v \in Workers, ExitThread(v), UNCHANGED poolVars
  PROVE  WakeInv'
  <1> USE ThreadSets DEF IInv, TypedControl, TypeOK, WorkerTypeOK, PoolTypeOK
  <1>1. Local(v) /\ pc'[v] = "idle"
    BY DEF ExitThread, Local, jobPoolVars, poolVars, Queued, PushLabels
  <1> QED
    BY <1>1, AwakeWake

-----------------------------------------------------------------------------
(* Steps of a push *)

\* A push by t leaves every worker but the woken ones as it was.
Pushes(t) ==
  /\ UNCHANGED <<serves, pauseFlag, stopFlag>>
  /\ pc[t] \in {"idle", "run"} \cup PushLabels
  /\ pc'[t] \in {"idle", "run"} \cup PushLabels
  /\ \A u \in Threads \ {t} :
       /\ at'[u] = at[u]
       /\ pushing'[u] = pushing[u]
       /\ pc'[u] = pc[u] \/ (pc[u] = "wait" /\ pc'[u] = "lock")

\* The job and the worker keep their notifier.
LEMMA OthersNotify ==
  ASSUME NEW t \in Threads, Pushes(t), NEW j, NEW w \in Workers,
         NEW u \in Threads, u # t, pushing[u] = j,
         pc[u] = "notifyEnter" \/ (pc[u] = "notify" /\ at[u] < w)
  PROVE  WillNotify(j, w)'
  <1>1. pc'[u] = pc[u] /\ at'[u] = at[u] /\ pushing'[u] = j
    BY DEF Pushes
  <1> QED
    BY <1>1 DEF WillNotify

LEMMA PushesWake ==
  ASSUME IInv, NEW t \in Threads, Pushes(t),
         \A w \in Workers : \A p \in Priorities :
           /\ pc'[w] \in {"scan", "block", "wait"}
           /\ p \in serves[w]
           /\ Covered(p, w)
           => Covered(p, w)'
  PROVE  WakeInv'
  <1> SUFFICES ASSUME NEW w \in Workers, pc'[w] \in {"scan", "block", "wait"}
               PROVE  SleepSafe(w)'
    BY DEF WakeInv, SleepSafe
  <1>1. w # t
    BY DEF Pushes, PushLabels
  <1>2. pc'[w] = pc[w] /\ at'[w] = at[w] /\ UNCHANGED <<serves, pauseFlag, stopFlag>>
    BY <1>1, ThreadSets DEF Pushes
  <1>3. SleepSafe(w) /\ serves[w] \subseteq Priorities
    BY DEF IInv, WakeInv, TypedControl, TypeOK, WorkerTypeOK
  <1> QED
    BY <1>2, <1>3, ServedOfPriorities DEF SleepSafe

LEMMA PushCheckWake ==
  ASSUME IInv, NEW t \in Threads, NEW j \in Jobs, PushCheck(t, j)
  PROVE  WakeInv'
  <1> USE ThreadSets DEF TypedControl, TypeOK, PoolTypeOK
  <1>1. Pushes(t)
    BY DEF IInv, PushCheck, Pushable, Pushes, PushRefused, PushAdmitted, workerData,
       PushLabels
  <1>2. \A p \in Priorities : Queued(p)' = Queued(p)
    BY DEF PushCheck, PushRefused, PushAdmitted, Queued
  <1>3. pc[t] \notin PushLabels
    BY DEF PushCheck, Pushable, PushLabels
  <1>4. ASSUME NEW w \in Workers, NEW p \in Priorities, Covered(p, w)
        PROVE  Covered(p, w)'
    <2> SUFFICES ASSUME NEW i \in Queued(p) PROVE WillNotify(i, w)'
      BY <1>2 DEF Covered
    <2>1. PICK u \in Threads : /\ pushing[u] = i
                               /\ \/ pc[u] = "notifyEnter"
                                  \/ pc[u] = "notify" /\ at[u] < w
      BY <1>4 DEF Covered, WillNotify
    <2>2. u # t
      BY <1>3, <2>1 DEF PushLabels
    <2> QED
      BY <1>1, <2>1, <2>2, OthersNotify
  <1> QED
    BY <1>1, <1>4, PushesWake

LEMMA EnqueueWake ==
  ASSUME IInv, NEW t \in Threads, Enqueue(t)
  PROVE  WakeInv'
  <1> USE ThreadSets DEF TypedControl, TypeOK, PoolTypeOK
  <1>1. Pushes(t)
    BY DEF IInv, Enqueue, Pushes, PushBack, workerData, PushLabels
  <1>2. pushing[t] \in Jobs
    BY DEF IInv, Enqueue, Control, PushControl, PushLabels
  <1>3. /\ pc[t] = "enqueue"
        /\ pc'[t] = "notifyEnter"
        /\ pushing' = pushing
    BY DEF IInv, Enqueue
  <1>4. \A p \in Priorities : Queued(p)' \subseteq Queued(p) \cup {pushing[t]}
    <2> SUFFICES ASSUME NEW p \in Priorities
                 PROVE  Queued(p)' \subseteq Queued(p) \cup {pushing[t]}
      OBVIOUS
    <2>1. queue[p] \in Seq(Jobs)
      BY DEF IInv, JobPoolTypeOK
    <2>2. queue'[p] = queue[p] \/ queue'[p] = Append(queue[p], pushing[t])
      BY DEF IInv, Enqueue, PushBack, JobPoolTypeOK
    <2>3. Range(Append(queue[p], pushing[t])) = Range(queue[p]) \cup {pushing[t]}
      BY <1>2, <2>1, RangeOfAppend
    <2> QED
      BY <2>2, <2>3 DEF Queued
  <1>5. ASSUME NEW w \in Workers, NEW p \in Priorities, Covered(p, w)
        PROVE  Covered(p, w)'
    <2> SUFFICES ASSUME NEW i \in Queued(p)' PROVE WillNotify(i, w)'
      BY DEF Covered
    <2>1. CASE i = pushing[t]
      BY <1>3, <2>1 DEF WillNotify
    <2>2. CASE i \in Queued(p)
      <3>1. PICK u \in Threads : /\ pushing[u] = i
                                 /\ \/ pc[u] = "notifyEnter"
                                    \/ pc[u] = "notify" /\ at[u] < w
        BY <1>5, <2>2 DEF Covered, WillNotify
      <3>2. u # t
        BY <1>3, <3>1
      <3> QED
        BY <1>1, <3>1, <3>2, OthersNotify
    <2> QED
      BY <1>4, <2>1, <2>2
  <1> QED
    BY <1>1, <1>5, PushesWake

LEMMA NotifyEnterWake ==
  ASSUME IInv, NEW t \in Threads, NotifyEnter(t)
  PROVE  WakeInv'
  <1> USE ThreadSets DEF TypedControl, TypeOK, PoolTypeOK
  <1>1. Pushes(t)
    BY DEF IInv, NotifyEnter, Pushes, Enters, Advance, workerData, PushLabels
  <1>2. /\ pc'[t] = "notify"
        /\ at'[t] = 0
        /\ pushing' = pushing
        /\ \A p \in Priorities : Queued(p)' = Queued(p)
    BY DEF IInv, NotifyEnter, Enters, Advance, jobPoolVars, Queued
  <1>3. ASSUME NEW w \in Workers, NEW p \in Priorities, Covered(p, w)
        PROVE  Covered(p, w)'
    <2> SUFFICES ASSUME NEW i \in Queued(p) PROVE WillNotify(i, w)'
      BY <1>2 DEF Covered
    <2>1. PICK u \in Threads : /\ pushing[u] = i
                               /\ \/ pc[u] = "notifyEnter"
                                  \/ pc[u] = "notify" /\ at[u] < w
      BY <1>3 DEF Covered, WillNotify
    <2>2. CASE u = t
      BY <1>2, <2>1, <2>2, WorkerAssumption DEF WillNotify, Workers
    <2>3. CASE u # t
      BY <1>1, <2>1, <2>3, OthersNotify
    <2> QED
      BY <2>2, <2>3
  <1> QED
    BY <1>1, <1>3, PushesWake

\* A worker that evaluates its predicate or sleeps is in the vector.
LEMMA SleepersAreMembers ==
  ASSUME IInv, NEW w \in Workers, pc[w] # "idle"
  PROVE  w \in members
  BY DEF IInv, TypedControl, Control, WorkerControl, Structure, MemberInv

LEMMA NotifyWorkerWake ==
  ASSUME IInv, NEW t \in Threads, NotifyWorker(t)
  PROVE  WakeInv'
  <1> USE ThreadSets DEF TypedControl, TypeOK, PoolTypeOK
  <1> DEFINE j == pushing[t]
  <1>1. PICK v \in Workers : /\ Visits(t, v)
                             /\ NotifyOne(t, v, PriorityOf[j], "notify")
                             /\ at' = [at EXCEPT ![t] = v]
    BY DEF NotifyWorker, Advance
  <1>2. /\ pc[t] = "notify"
        /\ pushing' = pushing
        /\ \A p \in Priorities : Queued(p)' = Queued(p)
    BY DEF NotifyWorker, poolVars, jobPoolVars, Queued
  <1>3. pc' = [pc EXCEPT ![t] = "notify"]
        \/ pc' = [pc EXCEPT ![v] = Woken(v), ![t] = "notify"]
    BY <1>1 DEF NotifyOne
  <1>4. Pushes(t)
    <2>1. \A u \in Threads \ {t} : pc'[u] = pc[u] \/ (pc[u] = "wait" /\ pc'[u] = "lock")
      BY <1>3 DEF IInv, Woken
    <2>2. pc'[t] = "notify"
      BY <1>3 DEF IInv
    <2>3. UNCHANGED <<serves, pauseFlag, stopFlag>>
      BY <1>1 DEF NotifyOne
    <2> QED
      BY <1>1, <1>2, <2>1, <2>2, <2>3 DEF IInv, Pushes, PushLabels
  <1>5. ASSUME NEW w \in Workers, NEW p \in Priorities, Covered(p, w),
               p \in serves[w], pc'[w] \in {"scan", "block", "wait"}
        PROVE  Covered(p, w)'
    <2> SUFFICES ASSUME NEW i \in Queued(p) PROVE WillNotify(i, w)'
      BY <1>2 DEF Covered
    <2>1. PICK u \in Threads : /\ pushing[u] = i
                               /\ \/ pc[u] = "notifyEnter"
                                  \/ pc[u] = "notify" /\ at[u] < w
      BY <1>5 DEF Covered, WillNotify
    <2>2. CASE u # t
      BY <1>4, <2>1, <2>2, OthersNotify
    <2>3. CASE u = t
      <3>1. i = j /\ at[t] < w
        BY <1>2, <2>1, <2>3
      <3>2. PriorityOf[j] = p
        BY <3>1 DEF IInv, Structure, QueueInv
      <3>3. w # t /\ pc[w] = pc'[w]
        BY <1>4, <1>5 DEF Pushes, PushLabels
      <3>4. w \in members
        BY <1>5, <3>3, SleepersAreMembers
      <3>5. w # v
        <4> SUFFICES ASSUME w = v PROVE FALSE
          OBVIOUS
        <4>1. hasThread[w]
          BY <1>5, <3>3 DEF IInv, Control, WorkerControl
        <4>2. WorkerMutexFree(w) /\ pc' = [pc EXCEPT ![w] = Woken(w), ![t] = "notify"]
          BY <1>1, <1>5, <3>2, <4>1 DEF NotifyOne
        <4>3. pc'[w] = Woken(w)
          BY <3>3, <4>2 DEF IInv
        <4> QED
          BY <1>5, <3>3, <4>2, <4>3 DEF WorkerMutexFree, Woken
      <3>6. v < w
        BY <3>1, <3>4, <3>5, <1>1 DEF IInv, Visits, Workers
      <3> QED
        BY <1>1, <1>2, <1>3, <3>1, <3>6 DEF IInv, WillNotify
    <2> QED
      BY <2>2, <2>3
  <1> QED
    BY <1>4, <1>5, PushesWake

LEMMA NotifyDoneWake ==
  ASSUME IInv, NEW t \in Threads, NotifyDone(t)
  PROVE  WakeInv'
  <1> USE ThreadSets DEF TypedControl, TypeOK, PoolTypeOK
  <1>1. Pushes(t)
    BY DEF IInv, NotifyDone, Pushes, Leaves, workerData, PushLabels
  <1>2. /\ pc[t] = "notify"
        /\ \A p \in Priorities : Queued(p)' = Queued(p)
    BY DEF NotifyDone, jobPoolVars, Queued
  <1>3. ASSUME NEW w \in Workers, NEW p \in Priorities, Covered(p, w),
               pc'[w] \in {"scan", "block", "wait"}
        PROVE  Covered(p, w)'
    <2> SUFFICES ASSUME NEW i \in Queued(p) PROVE WillNotify(i, w)'
      BY <1>2 DEF Covered
    <2>1. PICK u \in Threads : /\ pushing[u] = i
                               /\ \/ pc[u] = "notifyEnter"
                                  \/ pc[u] = "notify" /\ at[u] < w
      BY <1>3 DEF Covered, WillNotify
    <2>2. w \in members
      <3>1. w # t /\ pc[w] = pc'[w]
        BY <1>1, <1>3 DEF Pushes, PushLabels
      <3> QED
        BY <1>3, <3>1, SleepersAreMembers
    <2>3. w <= at[t]
      BY <2>2 DEF NotifyDone, AllVisited
    <2>4. u # t
      BY <1>2, <2>1, <2>3 DEF IInv, Workers
    <2> QED
      BY <1>1, <2>1, <2>4, OthersNotify
  <1> QED
    BY <1>1, <1>3, PushesWake

-----------------------------------------------------------------------------
(* The mutex of the pool, its members and their priorities *)

\* Besides t, only a worker that is woken or started moves.
Others(t) ==
  \A u \in Threads \ {t} :
    /\ at'[u] = at[u]
    /\ pc'[u] = pc[u] \/ (pc[u] \in {"wait", "idle"} /\ pc'[u] = "lock")

\* What a step of t may do with ThreadPool::mutex_.
HandsOver(t) ==
  \/ poolMutex' = poolMutex /\ (pc'[t] \in HoldLabels => pc[t] \in HoldLabels)
  \/ poolMutex = None /\ poolMutex' = t
  \/ pc[t] \in HoldLabels /\ poolMutex' = None /\ pc'[t] \notin HoldLabels

\* A step that neither takes a worker out nor empties one, and that starts
\* only threads of members that have priorities.
Plain(t) ==
  /\ Others(t)
  /\ HandsOver(t)
  /\ UNCHANGED <<members, serves>>
  /\ pc[t] \notin {"removeStop", "removeJoin"}
  /\ \A w \in Workers : hasThread'[w] =>
       hasThread[w] \/ (w \in members /\ serves[w] # {})

LEMMA MutexStep ==
  ASSUME MutexInv, NEW t \in Threads, Others(t), HandsOver(t)
  PROVE  MutexInv'
  <1> SUFFICES ASSUME NEW u \in Threads, pc'[u] \in HoldLabels
               PROVE  poolMutex' = u
    BY DEF MutexInv
  <1>1. u # t => pc[u] \in HoldLabels
    BY DEF Others, HoldLabels
  <1> QED
    BY <1>1, ThreadSets DEF MutexInv, HandsOver

LEMMA PlainStructure ==
  ASSUME IInv, NEW t \in Threads, Plain(t)
  PROVE  MutexInv' /\ MemberInv' /\ ServeInv' /\ EmptiedInv'
  <1> USE DEF IInv, Structure, Plain
  <1>1. MutexInv'
    BY MutexStep
  <1>2. MemberInv'
    BY DEF MemberInv
  <1>3. ServeInv'
    BY ServedOfPriorities DEF ServeInv
  <1>4. EmptiedInv'
    <2> SUFFICES ASSUME NEW w \in Workers, hasThread[w], serves[w] = {}
                 PROVE  \E c \in Callers :
                          pc'[c] \in {"removeStop", "removeJoin"} /\ Visits(c, w)'
      BY DEF EmptiedInv
    <2>1. PICK c \in Callers :
            pc[c] \in {"removeStop", "removeJoin"} /\ Visits(c, w)
      BY DEF EmptiedInv
    <2>2. pc'[c] = pc[c] /\ at'[c] = at[c]
      BY <2>1, ThreadSets DEF Others
    <2> QED
      BY <2>1, <2>2 DEF Visits
  <1> QED
    BY <1>1, <1>2, <1>3, <1>4

LEMMA QueueShrinks ==
  ASSUME QueueInv, \A p \in Priorities : Queued(p)' \subseteq Queued(p)
  PROVE  QueueInv'
  BY DEF QueueInv

LEMMA StartEnterPlain ==
  ASSUME TypedControl, NEW c \in Callers, StartEnter(c)
  PROVE  Plain(c)
  <1>1. Others(c)
    BY StartEnterQuiet DEF Quiet, Others
  <1>2. HandsOver(c)
    BY ThreadSets DEF TypedControl, TypeOK, PoolTypeOK, StartEnter, Issues, Enters, Advance,
       poolVars, HandsOver, HoldLabels
  <1>3. /\ UNCHANGED <<members, serves, hasThread>>
        /\ pc[c] \notin {"removeStop", "removeJoin"}
    BY DEF StartEnter, Issues, Enters, Advance, workerData, poolVars
  <1> QED
    BY <1>1, <1>2, <1>3 DEF Plain

LEMMA StartDonePlain ==
  ASSUME TypedControl, NEW c \in Callers, StartDone(c)
  PROVE  Plain(c)
  <1>1. Others(c)
    BY StartDoneQuiet DEF Quiet, Others
  <1>2. HandsOver(c)
    BY ThreadSets DEF TypedControl, TypeOK, PoolTypeOK, StartDone, Leaves,
       poolVars, HandsOver, HoldLabels
  <1>3. /\ UNCHANGED <<members, serves, hasThread>>
        /\ pc[c] \notin {"removeStop", "removeJoin"}
    BY DEF StartDone, Leaves, workerData, poolVars
  <1> QED
    BY <1>1, <1>2, <1>3 DEF Plain

LEMMA PauseEnterPlain ==
  ASSUME TypedControl, NEW c \in Callers, NEW b \in BOOLEAN, PauseEnter(c, b)
  PROVE  Plain(c)
  <1>1. Others(c)
    BY PauseEnterQuiet DEF Quiet, Others
  <1>2. HandsOver(c)
    BY ThreadSets DEF TypedControl, TypeOK, PoolTypeOK, PauseEnter, Issues, Enters, Advance,
       poolVars, HandsOver, HoldLabels
  <1>3. /\ UNCHANGED <<members, serves, hasThread>>
        /\ pc[c] \notin {"removeStop", "removeJoin"}
    BY DEF PauseEnter, Issues, Enters, Advance, workerData, poolVars
  <1> QED
    BY <1>1, <1>2, <1>3 DEF Plain

LEMMA PauseDonePlain ==
  ASSUME TypedControl, NEW c \in Callers, PauseDone(c)
  PROVE  Plain(c)
  <1>1. Others(c)
    BY PauseDoneQuiet DEF Quiet, Others
  <1>2. HandsOver(c)
    BY ThreadSets DEF TypedControl, TypeOK, PoolTypeOK, PauseDone, Leaves,
       poolVars, HandsOver, HoldLabels
  <1>3. /\ UNCHANGED <<members, serves, hasThread>>
        /\ pc[c] \notin {"removeStop", "removeJoin"}
    BY DEF PauseDone, Leaves, workerData, poolVars
  <1> QED
    BY <1>1, <1>2, <1>3 DEF Plain

LEMMA StopEnterPlain ==
  ASSUME TypedControl, NEW c \in Callers, NEW b \in BOOLEAN, StopEnter(c, b)
  PROVE  Plain(c)
  <1>1. Others(c)
    BY StopEnterQuiet DEF Quiet, Others
  <1>2. HandsOver(c)
    BY ThreadSets DEF TypedControl, TypeOK, PoolTypeOK, StopEnter, Issues, Enters, Advance, SetLocked,
       poolVars, HandsOver, HoldLabels
  <1>3. /\ UNCHANGED <<members, serves, hasThread>>
        /\ pc[c] \notin {"removeStop", "removeJoin"}
    BY DEF StopEnter, Issues, Enters, Advance, SetLocked, workerData, poolVars
  <1> QED
    BY <1>1, <1>2, <1>3 DEF Plain

LEMMA StopClearPlain ==
  ASSUME TypedControl, NEW c \in Callers, StopClear(c)
  PROVE  Plain(c)
  <1>1. Others(c)
    BY StopClearQuiet DEF Quiet, Others
  <1>2. HandsOver(c)
    BY ThreadSets DEF TypedControl, TypeOK, PoolTypeOK, StopClear, ClearQueues,
       poolVars, HandsOver, HoldLabels
  <1>3. /\ UNCHANGED <<members, serves, hasThread>>
        /\ pc[c] \notin {"removeStop", "removeJoin"}
    BY DEF StopClear, ClearQueues, workerData, poolVars
  <1> QED
    BY <1>1, <1>2, <1>3 DEF Plain

LEMMA StopUnlockPlain ==
  ASSUME TypedControl, NEW c \in Callers, StopUnlock(c)
  PROVE  Plain(c)
  <1>1. Others(c)
    BY StopUnlockQuiet DEF Quiet, Others
  <1>2. HandsOver(c)
    BY ThreadSets DEF TypedControl, TypeOK, PoolTypeOK, StopUnlock, Leaves, SetLocked,
       poolVars, HandsOver, HoldLabels
  <1>3. /\ UNCHANGED <<members, serves, hasThread>>
        /\ pc[c] \notin {"removeStop", "removeJoin"}
    BY DEF StopUnlock, Leaves, SetLocked, workerData, poolVars
  <1> QED
    BY <1>1, <1>2, <1>3 DEF Plain

LEMMA StopTailPlain ==
  ASSUME TypedControl, NEW c \in Callers, StopTail(c)
  PROVE  Plain(c)
  <1>1. Others(c)
    BY StopTailQuiet DEF Quiet, Others
  <1>2. HandsOver(c)
    BY ThreadSets DEF TypedControl, TypeOK, PoolTypeOK, StopTail,
       poolVars, HandsOver, HoldLabels
  <1>3. /\ UNCHANGED <<members, serves, hasThread>>
        /\ pc[c] \notin {"removeStop", "removeJoin"}
    BY DEF StopTail, workerData, poolVars
  <1> QED
    BY <1>1, <1>2, <1>3 DEF Plain

LEMMA LockPoolPlain ==
  ASSUME TypedControl, NEW c \in Callers, NEW b \in BOOLEAN, LockPool(c, b)
  PROVE  Plain(c)
  <1>1. Others(c)
    BY LockPoolQuiet DEF Quiet, Others
  <1>2. HandsOver(c)
    BY ThreadSets DEF TypedControl, TypeOK, PoolTypeOK, LockPool, Issues, SetLocked,
       poolVars, HandsOver, HoldLabels
  <1>3. /\ UNCHANGED <<members, serves, hasThread>>
        /\ pc[c] \notin {"removeStop", "removeJoin"}
    BY DEF LockPool, Issues, SetLocked, workerData, poolVars
  <1> QED
    BY <1>1, <1>2, <1>3 DEF Plain

LEMMA RemoveClearPlain ==
  ASSUME TypedControl, NEW c \in Callers, NEW p \in Priorities, RemoveClear(c, p)
  PROVE  Plain(c)
  <1>1. Others(c)
    BY RemoveClearQuiet DEF Quiet, Others
  <1>2. HandsOver(c)
    BY ThreadSets DEF TypedControl, TypeOK, PoolTypeOK, RemoveClear, Issues, ClearQueues,
       poolVars, HandsOver, HoldLabels
  <1>3. /\ UNCHANGED <<members, serves, hasThread>>
        /\ pc[c] \notin {"removeStop", "removeJoin"}
    BY DEF RemoveClear, Issues, ClearQueues, workerData, poolVars
  <1> QED
    BY <1>1, <1>2, <1>3 DEF Plain

LEMMA RemoveEnterPlain ==
  ASSUME TypedControl, NEW c \in Callers, RemoveEnter(c)
  PROVE  Plain(c)
  <1>1. Others(c)
    BY RemoveEnterQuiet DEF Quiet, Others
  <1>2. HandsOver(c)
    BY ThreadSets DEF TypedControl, TypeOK, PoolTypeOK, RemoveEnter, Enters, Advance,
       poolVars, HandsOver, HoldLabels
  <1>3. /\ UNCHANGED <<members, serves, hasThread>>
        /\ pc[c] \notin {"removeStop", "removeJoin"}
    BY DEF RemoveEnter, Enters, Advance, workerData, poolVars
  <1> QED
    BY <1>1, <1>2, <1>3 DEF Plain

LEMMA StartJoinPlain ==
  ASSUME TypedControl, NEW c \in Callers, StartJoin(c)
  PROVE  Plain(c)
  <1>1. Others(c)
    BY StartJoinQuiet DEF Quiet, Others
  <1>2. PICK w \in Workers : Join(c, w, "starting")
    BY DEF StartJoin
  <1>3. pc'[c] = "starting"
    BY <1>2, ThreadSets DEF TypedControl, TypeOK, PoolTypeOK, Join
  <1>4. HandsOver(c)
    BY <1>3 DEF StartJoin, poolVars, HandsOver, HoldLabels
  <1>5. /\ UNCHANGED <<members, serves>>
        /\ \A v \in Workers : hasThread'[v] => hasThread[v]
        /\ pc[c] \notin {"removeStop", "removeJoin"}
    BY <1>2 DEF StartJoin, Join, poolVars, TypedControl, TypeOK, WorkerTypeOK
  <1> QED
    BY <1>1, <1>4, <1>5 DEF Plain

LEMMA PauseWorkerPlain ==
  ASSUME TypedControl, NEW c \in Callers, PauseWorker(c)
  PROVE  Plain(c)
  <1>1. Others(c)
    BY PauseWorkerQuiet DEF Quiet, Others
  <1>2. PICK w \in Workers : SetPause(c, w, paused, "pausing")
    BY DEF PauseWorker
  <1>3. pc'[c] = "pausing"
    BY <1>2, ThreadSets DEF TypedControl, TypeOK, PoolTypeOK, SetPause
  <1>4. HandsOver(c)
    BY <1>3 DEF PauseWorker, poolVars, HandsOver, HoldLabels
  <1>5. /\ UNCHANGED <<members, serves>>
        /\ \A v \in Workers : hasThread'[v] => hasThread[v]
        /\ pc[c] \notin {"removeStop", "removeJoin"}
    BY <1>2 DEF PauseWorker, SetPause, poolVars, TypedControl, TypeOK, WorkerTypeOK
  <1> QED
    BY <1>1, <1>4, <1>5 DEF Plain

LEMMA StopJoinPlain ==
  ASSUME TypedControl, NEW c \in Callers, StopJoin(c)
  PROVE  Plain(c)
  <1>1. Others(c)
    BY StopJoinQuiet DEF Quiet, Others
  <1>2. PICK w \in Workers : Join(c, w, "stopping")
    BY DEF StopJoin
  <1>3. pc'[c] = "stopping"
    BY <1>2, ThreadSets DEF TypedControl, TypeOK, PoolTypeOK, Join
  <1>4. HandsOver(c)
    BY <1>3 DEF StopJoin, poolVars, HandsOver, HoldLabels
  <1>5. /\ UNCHANGED <<members, serves>>
        /\ \A v \in Workers : hasThread'[v] => hasThread[v]
        /\ pc[c] \notin {"removeStop", "removeJoin"}
    BY <1>2 DEF StopJoin, Join, poolVars, TypedControl, TypeOK, WorkerTypeOK
  <1> QED
    BY <1>1, <1>4, <1>5 DEF Plain

LEMMA StopWorkerPlain ==
  ASSUME TypedControl, NEW c \in Callers, StopWorker(c)
  PROVE  Plain(c)
  <1>1. Others(c)
    BY StopWorkerQuiet DEF Quiet, Others
  <1>2. PICK w \in Workers :
          \/ SignalStop(c, w, "joining") /\ UNCHANGED poolMutex
          \/ Leaves(c, "idle") /\ UNCHANGED workerData
    BY DEF StopWorker
  <1>3. HandsOver(c)
    BY <1>2, ThreadSets DEF TypedControl, TypeOK, PoolTypeOK, StopWorker, SignalStop,
       Leaves, HandsOver, HoldLabels
  <1>4. /\ UNCHANGED <<members, serves, hasThread>>
        /\ pc[c] \notin {"removeStop", "removeJoin"}
    BY <1>2 DEF StopWorker, SignalStop, workerData
  <1> QED
    BY <1>1, <1>3, <1>4 DEF Plain

LEMMA StartWorkerPlain ==
  ASSUME TypedControl, NEW c \in Callers, StartWorker(c)
  PROVE  Plain(c)
  <1>1. Others(c)
    BY StartWorkerQuiet DEF Quiet, Others
  <1>2. PICK w \in Workers :
          /\ Visits(c, w)
          /\ \/ SignalStop(c, w, "startJoin") /\ UNCHANGED poolMutex
             \/ StartThread(c, w, "starting") /\ UNCHANGED poolMutex
             \/ StartFails(c, w, "idle") /\ poolMutex' = None
    BY DEF StartWorker
  <1>3. HandsOver(c)
    BY <1>2, ThreadSets DEF TypedControl, TypeOK, PoolTypeOK, StartWorker, SignalStop,
       StartThread, StartFails, HandsOver, HoldLabels
  <1>4. /\ UNCHANGED <<members, serves>>
        /\ pc[c] \notin {"removeStop", "removeJoin"}
    BY <1>2 DEF StartWorker, SignalStop, StartThread, StartFails
  <1>5. \A v \in Workers : hasThread'[v] =>
          hasThread[v] \/ (v \in members /\ serves[v] # {})
    BY <1>2 DEF TypedControl, TypeOK, WorkerTypeOK, SignalStop, StartThread,
       StartFails, Startable, Visits
  <1> QED
    BY <1>1, <1>3, <1>4, <1>5 DEF Plain

LEMMA PushPlain ==
  ASSUME TypedControl, NEW t \in Threads, Push(t)
  PROVE  Plain(t)
  <1> USE ThreadSets DEF TypedControl, TypeOK, PoolTypeOK, WorkerTypeOK, HandsOver,
          HoldLabels, Others, Plain
  <1>1. CASE \E j \in Jobs : PushCheck(t, j)
    BY <1>1 DEF PushCheck, PushRefused, PushAdmitted, Pushable, workerData
  <1>2. CASE Enqueue(t)
    BY <1>2 DEF Enqueue, PushBack, workerData
  <1>3. CASE NotifyEnter(t)
    BY <1>3 DEF NotifyEnter, Enters, Advance, workerData
  <1>4. CASE NotifyWorker(t)
    <2>1. PICK w \in Workers : /\ NotifyOne(t, w, PriorityOf[pushing[t]], "notify")
                               /\ Advance(t, w)
      BY <1>4 DEF NotifyWorker
    <2>2. /\ pc[t] = "notify"
          /\ UNCHANGED <<members, poolMutex>>
      BY <1>4 DEF NotifyWorker, poolVars
    <2>3. UNCHANGED <<serves, hasThread>>
      BY <2>1 DEF NotifyOne
    <2>4. Others(t)
      BY <2>1 DEF NotifyOne, Woken, Advance
    <2> QED
      BY <2>2, <2>3, <2>4
  <1>5. CASE NotifyDone(t)
    BY <1>5 DEF NotifyDone, Leaves, workerData
  <1> QED
    BY <1>1, <1>2, <1>3, <1>4, <1>5 DEF Push

-----------------------------------------------------------------------------
(* Steps that rearrange the pool *)

\* Inside "removing" nobody else is about to join a worker.
LEMMA NobodyElseRemoves ==
  ASSUME IInv, NEW c \in Callers,
         pc[c] \in {"removing", "removeStop", "removeJoin"} \/ poolMutex = None,
         NEW w \in Workers, hasThread[w], serves[w] = {}
  PROVE  pc[c] \in {"removeStop", "removeJoin"} /\ Visits(c, w)
  <1>1. PICK d \in Callers : pc[d] \in {"removeStop", "removeJoin"} /\ Visits(d, w)
    BY DEF IInv, Structure, EmptiedInv
  <1>2. poolMutex = d
    BY <1>1, ThreadSets DEF IInv, Structure, MutexInv, HoldLabels
  <1>3. poolMutex = c
    BY <1>2, ThreadSets DEF IInv, Structure, MutexInv, HoldLabels
  <1> QED
    BY <1>1, <1>2, <1>3

LEMMA VisitsOne ==
  ASSUME NEW c, NEW v \in Workers, NEW w \in Workers, at[c] \in Nat,
         Visits(c, v), Visits(c, w)
  PROVE  v = w
  BY DEF Visits, Workers

LEMMA AddWorkerStructure ==
  ASSUME IInv, NEW c \in Callers, NEW w \in Workers, AddWorker(c, w)
  PROVE  MutexInv' /\ MemberInv' /\ ServeInv' /\ EmptiedInv'
  <1> USE ThreadSets DEF IInv, TypedControl, TypeOK, WorkerTypeOK, PoolTypeOK, Structure
  <1>1. w \notin members => ~hasThread[w] /\ pc[w] = "idle"
    BY DEF MemberInv, Control, WorkerControl
  <1>2. Others(c)
    BY <1>1, AddWorkerQuiet DEF Quiet, Others
  <1>3. HandsOver(c)
    BY DEF AddWorker, HandsOver, HoldLabels
  <1>4. MutexInv'
    BY <1>2, <1>3, MutexStep
  <1>5. /\ poolMutex = None
        /\ serves[w] # {}
        /\ UNCHANGED serves
        /\ members' = members \cup {w}
        /\ \A v \in Workers : hasThread'[v] => hasThread[v] \/ v = w
    BY DEF AddWorker
  <1>6. MemberInv'
    BY <1>5 DEF MemberInv
  <1>7. ServeInv'
    BY <1>5, ServedOfPriorities DEF ServeInv
  <1>8. \A v \in Workers : ~(hasThread[v] /\ serves[v] = {})
    BY <1>5, NobodyElseRemoves DEF AddWorker, Issues
  <1>9. EmptiedInv'
    BY <1>5, <1>8 DEF EmptiedInv
  <1> QED
    BY <1>4, <1>6, <1>7, <1>9

LEMMA RemoveDoneStructure ==
  ASSUME IInv, NEW c \in Callers, RemoveDone(c)
  PROVE  MutexInv' /\ MemberInv' /\ ServeInv' /\ EmptiedInv'
  <1> USE ThreadSets DEF IInv, TypedControl, TypeOK, WorkerTypeOK, PoolTypeOK, Structure
  <1>1. Others(c)
    BY RemoveDoneQuiet DEF Quiet, Others
  <1>2. HandsOver(c)
    BY DEF RemoveDone, Leaves, HandsOver, HoldLabels
  <1>3. MutexInv'
    BY <1>1, <1>2, MutexStep
  <1>4. /\ pc[c] = "removing"
        /\ UNCHANGED <<serves, hasThread>>
        /\ members' = {w \in members : serves[w] # {}}
    BY DEF RemoveDone, workerData
  <1>5. \A v \in Workers : ~(hasThread[v] /\ serves[v] = {})
    BY <1>4, NobodyElseRemoves
  <1>6. MemberInv'
    BY <1>4, <1>5 DEF MemberInv
  <1>7. ServeInv'
    BY <1>4, ServedOfPriorities DEF ServeInv
  <1>8. EmptiedInv'
    BY <1>4, <1>5 DEF EmptiedInv
  <1> QED
    BY <1>3, <1>6, <1>7, <1>8

LEMMA RemovePriorityStructure ==
  ASSUME IInv, NEW c \in Callers, RemovePriority(c)
  PROVE  MutexInv' /\ MemberInv' /\ ServeInv' /\ EmptiedInv'
  <1> USE ThreadSets DEF IInv, TypedControl, TypeOK, WorkerTypeOK, PoolTypeOK, Structure
  <1>1. Others(c)
    BY RemovePriorityQuiet DEF Quiet, Others
  <1>2. PICK w \in Workers :
          /\ Visits(c, w)
          /\ \/ /\ serves[w] \subseteq {target[c]}
                /\ DropPriority(c, w, target[c], "removeStop")
                /\ UNCHANGED at
             \/ /\ ~(serves[w] \subseteq {target[c]})
                /\ DropPriority(c, w, target[c], "removing")
    BY DEF RemovePriority
  <1>3. HandsOver(c)
    BY <1>2 DEF RemovePriority, DropPriority, poolVars, HandsOver, HoldLabels
  <1>4. MutexInv'
    BY <1>1, <1>3, MutexStep
  <1>5. /\ pc[c] = "removing"
        /\ UNCHANGED <<members, hasThread>>
        /\ serves' = [serves EXCEPT ![w] = @ \ {target[c]}]
    BY <1>2 DEF RemovePriority, DropPriority, poolVars
  <1>6. MemberInv'
    BY <1>5 DEF MemberInv
  <1>7. ServeInv'
    BY <1>5, ServedOfPriorities DEF ServeInv
  <1>8. \A v \in Workers : ~(hasThread[v] /\ serves[v] = {})
    BY <1>5, NobodyElseRemoves
  <1>9. EmptiedInv'
    <2> SUFFICES ASSUME NEW v \in Workers, hasThread[v], serves'[v] = {}
                 PROVE  pc'[c] = "removeStop" /\ Visits(c, v)'
      BY <1>5 DEF EmptiedInv
    <2>1. v = w
      BY <1>5, <1>8
    <2>2. serves[w] \subseteq {target[c]}
      BY <1>5, <2>1
    <2>3. UNCHANGED at /\ pc'[c] = "removeStop"
      BY <1>2, <2>2 DEF DropPriority
    <2> QED
      BY <1>2, <1>5, <2>1, <2>3 DEF Visits
  <1> QED
    BY <1>4, <1>6, <1>7, <1>9

LEMMA RemoveStopStructure ==
  ASSUME IInv, NEW c \in Callers, RemoveStop(c)
  PROVE  MutexInv' /\ MemberInv' /\ ServeInv' /\ EmptiedInv'
  <1> USE ThreadSets DEF IInv, TypedControl, TypeOK, WorkerTypeOK, PoolTypeOK, Structure
  <1>1. Others(c)
    BY RemoveStopQuiet DEF Quiet, Others
  <1>2. PICK w \in Workers :
          /\ Visits(c, w)
          /\ \/ SignalStop(c, w, "removeJoin") /\ UNCHANGED at
             \/ ~hasThread[w] /\ pc' = [pc EXCEPT ![c] = "removing"] /\ UNCHANGED workerData
    BY DEF RemoveStop
  <1>3. HandsOver(c)
    BY <1>2 DEF RemoveStop, SignalStop, poolVars, HandsOver, HoldLabels
  <1>4. MutexInv'
    BY <1>1, <1>3, MutexStep
  <1>5. /\ pc[c] = "removeStop"
        /\ UNCHANGED <<members, hasThread, serves>>
    BY <1>2 DEF RemoveStop, SignalStop, poolVars, workerData
  <1>6. MemberInv'
    BY <1>5 DEF MemberInv
  <1>7. ServeInv'
    BY <1>5, ServedOfPriorities DEF ServeInv
  <1>8. EmptiedInv'
    <2> SUFFICES ASSUME NEW v \in Workers, hasThread[v], serves[v] = {}
                 PROVE  pc'[c] = "removeJoin" /\ Visits(c, v)'
      BY <1>5 DEF EmptiedInv
    <2>1. Visits(c, v)
      BY <1>5, NobodyElseRemoves
    <2>2. v = w
      BY <1>2, <2>1, VisitsOne
    <2>3. UNCHANGED at /\ pc'[c] = "removeJoin"
      BY <1>2, <2>2 DEF SignalStop
    <2> QED
      BY <1>5, <2>1, <2>3 DEF Visits
  <1> QED
    BY <1>4, <1>6, <1>7, <1>8

LEMMA RemoveJoinStructure ==
  ASSUME IInv, NEW c \in Callers, RemoveJoin(c)
  PROVE  MutexInv' /\ MemberInv' /\ ServeInv' /\ EmptiedInv'
  <1> USE ThreadSets DEF IInv, TypedControl, TypeOK, WorkerTypeOK, PoolTypeOK, Structure
  <1>1. Others(c)
    BY RemoveJoinQuiet DEF Quiet, Others
  <1>2. PICK w \in Workers : Visits(c, w) /\ Join(c, w, "removing")
    BY DEF RemoveJoin
  <1>3. HandsOver(c)
    BY <1>2 DEF RemoveJoin, Join, poolVars, HandsOver, HoldLabels
  <1>4. MutexInv'
    BY <1>1, <1>3, MutexStep
  <1>5. /\ pc[c] = "removeJoin"
        /\ UNCHANGED <<members, serves>>
        /\ hasThread' = [hasThread EXCEPT ![w] = FALSE]
    BY <1>2 DEF RemoveJoin, Join, poolVars
  <1>6. MemberInv'
    BY <1>5 DEF MemberInv
  <1>7. ServeInv'
    BY <1>5, ServedOfPriorities DEF ServeInv
  <1>8. \A v \in Workers : ~(hasThread'[v] /\ serves[v] = {})
    <2> SUFFICES ASSUME NEW v \in Workers, v # w, hasThread[v], serves[v] = {}
                 PROVE  FALSE
      BY <1>5
    <2>1. Visits(c, v)
      BY <1>5, NobodyElseRemoves
    <2> QED
      BY <1>2, <2>1, VisitsOne
  <1>9. EmptiedInv'
    BY <1>5, <1>8 DEF EmptiedInv
  <1> QED
    BY <1>4, <1>6, <1>7, <1>9

LEMMA EnqueueOrder ==
  ASSUME IInv, NEW t \in Threads, Push(t)
  PROVE  QueueInv'
  <1> USE DEF IInv, TypedControl, TypeOK, PoolTypeOK
  <1>1. CASE UNCHANGED queue
    BY <1>1, QueueShrinks DEF Structure, Queued
  <1>2. CASE Enqueue(t)
    <2>1. pushing[t] \in Jobs
      BY <1>2 DEF Enqueue, Control, PushControl, PushLabels
    <2> SUFFICES ASSUME NEW p \in Priorities, NEW j \in Queued(p)'
                 PROVE  PriorityOf[j] = p
      BY DEF QueueInv
    <2>2. queue[p] \in Seq(Jobs)
      BY DEF JobPoolTypeOK
    <2>3. queue'[p] = IF p = PriorityOf[pushing[t]] THEN Append(queue[p], pushing[t])
                                                    ELSE queue[p]
      BY <1>2 DEF Enqueue, PushBack, JobPoolTypeOK
    <2>4. j \in Queued(p) \/ (p = PriorityOf[pushing[t]] /\ j = pushing[t])
      BY <2>1, <2>2, <2>3, RangeOfAppend DEF Queued
    <2> QED
      BY <2>4 DEF Structure, QueueInv
  <1> QED
    BY <1>1, <1>2 DEF Push, PushCheck, PushRefused, PushAdmitted, NotifyEnter,
       NotifyWorker, NotifyDone, jobPoolVars

-----------------------------------------------------------------------------
(* The invariant *)

LEMMA CommandShape ==
  ASSUME IInv, NEW c \in Callers, Command(c)
  PROVE  /\ Quiet(c)
         /\ MutexInv' /\ MemberInv' /\ ServeInv' /\ EmptiedInv'
  <1> USE ThreadSets
  <1>1. TypedControl
    BY DEF IInv
  <1>2. CASE Start(c)
    <2>1. Quiet(c) /\ Plain(c)
      BY <1>1, <1>2, StartEnterQuiet, StartEnterPlain, StartWorkerQuiet,
         StartWorkerPlain, StartJoinQuiet, StartJoinPlain, StartDoneQuiet,
         StartDonePlain DEF Start
    <2> QED
      BY <2>1, PlainStructure
  <1>3. CASE Pause(c)
    <2>1. Quiet(c) /\ Plain(c)
      BY <1>1, <1>3, PauseEnterQuiet, PauseEnterPlain, PauseWorkerQuiet,
         PauseWorkerPlain, PauseDoneQuiet, PauseDonePlain DEF Pause
    <2> QED
      BY <2>1, PlainStructure
  <1>4. CASE Stop(c)
    <2>1. Quiet(c) /\ Plain(c)
      BY <1>1, <1>4, StopEnterQuiet, StopEnterPlain, StopClearQuiet, StopClearPlain,
         StopWorkerQuiet, StopWorkerPlain, StopJoinQuiet, StopJoinPlain,
         StopUnlockQuiet, StopUnlockPlain, StopTailQuiet, StopTailPlain DEF Stop
    <2> QED
      BY <2>1, PlainStructure
  <1>5. CASE \E b \in BOOLEAN : LockPool(c, b)
    <2>1. Quiet(c) /\ Plain(c)
      BY <1>1, <1>5, LockPoolQuiet, LockPoolPlain
    <2> QED
      BY <2>1, PlainStructure
  <1>6. CASE (\E p \in Priorities : RemoveClear(c, p)) \/ RemoveEnter(c)
    <2>1. Quiet(c) /\ Plain(c)
      BY <1>1, <1>6, RemoveClearQuiet, RemoveClearPlain, RemoveEnterQuiet,
         RemoveEnterPlain
    <2> QED
      BY <2>1, PlainStructure
  <1>7. CASE RemovePriority(c)
    BY <1>1, <1>7, RemovePriorityQuiet, RemovePriorityStructure
  <1>8. CASE RemoveStop(c)
    BY <1>1, <1>8, RemoveStopQuiet, RemoveStopStructure
  <1>9. CASE RemoveJoin(c)
    BY <1>1, <1>9, RemoveJoinQuiet, RemoveJoinStructure
  <1>10. CASE RemoveDone(c)
    BY <1>1, <1>10, RemoveDoneQuiet, RemoveDoneStructure
  <1>11. ASSUME NEW w \in Workers, AddWorker(c, w)
         PROVE  /\ Quiet(c)
                /\ MutexInv' /\ MemberInv' /\ ServeInv' /\ EmptiedInv'
    <2>1. w \notin members => ~hasThread[w] /\ pc[w] = "idle"
      BY DEF IInv, Structure, MemberInv, TypedControl, Control, WorkerControl
    <2> QED
      BY <1>1, <1>11, <2>1, AddWorkerQuiet, AddWorkerStructure
  <1> QED
    BY <1>2, <1>3, <1>4, <1>5, <1>6, <1>7, <1>8, <1>9, <1>10, <1>11
       DEF Command, Remove

LEMMA WorkerShape ==
  ASSUME IInv, NEW v \in Workers, WorkerStep(v) \/ WorkerWakes(v)
  PROVE  Structure' /\ WakeInv'
  <1>1. /\ UNCHANGED poolVars
        /\ RunLoop(v) \/ SpuriousWake(v)
    BY DEF WorkerStep, WorkerWakes
  <1>2. WakeInv'
    BY <1>1, LockAndCheckWake, ScanQueueWake, BlockInWaitWake, TakeWake,
       RecheckStopWake, FinishJobWake, ExitThreadWake, SpuriousWakeWake DEF RunLoop
  <1>3. pc[v] \in WorkerLabels /\ pc'[v] \in WorkerLabels
    BY <1>1, ThreadSets DEF IInv, TypedControl, TypeOK, PoolTypeOK, RunLoop,
       SpuriousWake, LockAndCheck, ScanQueue, BlockInWait, Take, RecheckStop,
       FinishJob, ExitThread, WorkerLabels
  <1>4. UNCHANGED <<poolMutex, members, hasThread, serves>>
    BY <1>1 DEF poolVars, RunLoop, SpuriousWake, LockAndCheck, ScanQueue,
       BlockInWait, Take, RecheckStop, FinishJob, ExitThread
  <1>5. Others(v)
    BY <1>1, ThreadSets DEF IInv, TypedControl, TypeOK, PoolTypeOK, Others, RunLoop,
       SpuriousWake, LockAndCheck, ScanQueue, BlockInWait, Take, RecheckStop,
       FinishJob, ExitThread
  <1>6. Plain(v)
    BY <1>3, <1>4, <1>5 DEF Plain, HandsOver, HoldLabels, WorkerLabels
  <1>7. QueueInv'
    <2>1. CASE UNCHANGED queue
      BY <2>1, QueueShrinks DEF IInv, Structure, Queued
    <2>2. CASE Take(v)
      BY <2>2, TakeShrinks, QueueShrinks DEF IInv, Structure
    <2> QED
      BY <1>1, <2>1, <2>2 DEF RunLoop, SpuriousWake, LockAndCheck, ScanQueue,
         BlockInWait, RecheckStop, FinishJob, ExitThread, jobPoolVars
  <1> QED
    BY <1>2, <1>6, <1>7, PlainStructure, ThreadSets DEF Structure

LEMMA PushShape ==
  ASSUME IInv, NEW t \in Threads, Push(t)
  PROVE  Structure' /\ WakeInv'
  <1>1. Plain(t)
    BY PushPlain DEF IInv
  <1>2. WakeInv'
    BY PushCheckWake, EnqueueWake, NotifyEnterWake, NotifyWorkerWake,
       NotifyDoneWake DEF Push
  <1> QED
    BY <1>1, <1>2, EnqueueOrder, PlainStructure DEF Structure

LEMMA IInvInit == Init => IInv
  <1> SUFFICES ASSUME Init PROVE IInv
    OBVIOUS
  <1>1. \A t \in Threads : pc[t] = "idle"
    BY DEF Init, WorkerInit
  <1>2. \A w \in Workers : ~hasThread[w] /\ serves[w] = Range(Served(w))
    BY DEF Init, WorkerInit
  <1>3. \A p \in Priorities : Queued(p) = {}
    BY RangeOfEmpty DEF Init, JobPoolInit, Queued
  <1>4. Structure
    BY <1>1, <1>2, <1>3 DEF Structure, MutexInv, MemberInv, ServeInv, EmptiedInv,
       QueueInv, HoldLabels
  <1>5. WakeInv
    BY <1>1, ThreadSets DEF WakeInv, SleepSafe
  <1> QED
    BY <1>4, <1>5, TypedControlInit DEF IInv

LEMMA IInvStep == IInv /\ [Next]_vars => IInv'
  <1> SUFFICES ASSUME IInv, [Next]_vars PROVE IInv'
    OBVIOUS
  <1>1. TypedControl'
    BY TypedControlStep DEF IInv
  <1>2. ASSUME NEW c \in Callers, Command(c)
        PROVE  Structure' /\ WakeInv'
    <2>1. /\ Quiet(c)
          /\ MutexInv' /\ MemberInv' /\ ServeInv' /\ EmptiedInv'
      BY <1>2, CommandShape
    <2>2. QueueInv'
      BY <2>1, QueueShrinks DEF Quiet, IInv, Structure
    <2> QED
      BY <2>1, <2>2, QuietWake DEF Structure
  <1>3. CASE UNCHANGED vars
    <2>1. UNCHANGED <<queue, serves, hasThread, stopFlag, pauseFlag, pc, at, members,
                      poolMutex, pushing>>
      BY <1>3 DEF vars, jobPoolVars, workerVars, poolVars
    <2>2. Structure'
      BY <2>1, ServedOfPriorities DEF IInv, Structure, MutexInv, MemberInv, ServeInv,
         EmptiedInv, QueueInv, Visits, Queued
    <2>3. \A w \in Workers : \A p : Covered(p, w) => Covered(p, w)'
      BY <2>1 DEF Covered, WillNotify, Queued
    <2>4. WakeInv'
      BY <2>1, <2>3, ServedOfPriorities DEF IInv, WakeInv, SleepSafe
    <2> QED
      BY <1>1, <2>2, <2>4 DEF IInv
  <1> QED
    BY <1>1, <1>2, <1>3, PushShape, WorkerShape DEF Next, IInv

\* A sleeping worker misses no job and no stop, in a pool with any number of
\* workers, callers, jobs and priorities (ThreadWorker::run and notify_one,
\* JobPool::push, ThreadPool::notify_callback and remove_workers).
THEOREM NoWakeupLost == Spec => []NoLostWakeup
  <1>1. IInv => NoLostWakeup
    <2> SUFFICES ASSUME IInv, NEW w \in Workers, pc[w] = "wait"
                 PROVE  /\ ~stopFlag[w]
                        /\ ~pauseFlag[w] =>
                             \A p \in serves[w] : \A j \in Queued(p) : WillNotify(j, w)
      BY DEF NoLostWakeup
    <2>1. SleepSafe(w)
      BY DEF IInv, WakeInv
    <2> QED
      BY <2>1 DEF SleepSafe, Covered
  <1> QED
    BY <1>1, IInvInit, IInvStep, PTL DEF Spec

\* A worker that is not in the vector has no thread, in a pool of any size: the
\* thread was joined before the worker was dropped (ThreadPool::remove_workers).
THEOREM ThreadsAreMembers == Spec => []NoThreadOutsidePool
  <1>1. IInv => NoThreadOutsidePool
    BY DEF IInv, TypedControl, Control, WorkerControl, Structure, MemberInv,
       NoThreadOutsidePool
  <1> QED
    BY <1>1, IInvInit, IInvStep, PTL DEF Spec

-----------------------------------------------------------------------------
(* A paused worker takes no job *)

\* A call on worker w leaves the flags of a worker that holds its mutex, but
\* for a thread_stop_ that it raises.
LEMMA CallKeepsFlags ==
  ASSUME TypedControl, NEW c \in Callers, NEW w \in Workers, NEW label, NEW p,
         NEW b \in BOOLEAN,
         \/ SignalStop(c, w, label)
         \/ Join(c, w, label)
         \/ StartThread(c, w, label)
         \/ StartFails(c, w, label)
         \/ SetPause(c, w, b, label)
         \/ DropPriority(c, w, p, label)
  PROVE  \A v \in Workers : pc[v] \in {"scan", "take"} =>
           pauseFlag'[v] = pauseFlag[v] /\ (stopFlag[v] => stopFlag'[v])
  <1> USE DEF TypedControl, TypeOK, WorkerTypeOK, Control, WorkerControl
  <1>1. CASE SignalStop(c, w, label)
    BY <1>1 DEF SignalStop
  <1>2. CASE Join(c, w, label) \/ DropPriority(c, w, p, label)
    BY <1>2 DEF Join, DropPriority
  <1>3. CASE StartThread(c, w, label)
    BY <1>3 DEF StartThread, Startable
  <1>4. CASE StartFails(c, w, label)
    BY <1>4 DEF StartFails
  <1>5. CASE SetPause(c, w, b, label)
    BY <1>5 DEF SetPause, WorkerMutexFree
  <1> QED
    BY <1>1, <1>2, <1>3, <1>4, <1>5

LEMMA CommandKeepsFlags ==
  ASSUME IInv, NEW c \in Callers, Command(c)
  PROVE  \A v \in Workers : pc[v] \in {"scan", "take"} =>
           pauseFlag'[v] = pauseFlag[v] /\ (stopFlag[v] => stopFlag'[v])
  <1> USE DEF IInv
  <1>1. CASE UNCHANGED <<pauseFlag, stopFlag>>
    BY <1>1
  <1>2. CASE StartWorker(c)
    BY <1>2, CallKeepsFlags DEF StartWorker
  <1>3. CASE PauseWorker(c)
    BY <1>3, CallKeepsFlags DEF PauseWorker, TypedControl, TypeOK, PoolTypeOK
  <1>4. CASE StopWorker(c)
    BY <1>1, <1>4, CallKeepsFlags DEF StopWorker, workerData
  <1>5. CASE RemoveStop(c)
    BY <1>1, <1>5, CallKeepsFlags DEF RemoveStop, workerData
  <1>6. ASSUME NEW w \in Workers, AddWorker(c, w)
        PROVE  \A v \in Workers : pc[v] \in {"scan", "take"} =>
                 pauseFlag'[v] = pauseFlag[v] /\ (stopFlag[v] => stopFlag'[v])
    <2>1. w \notin members
      BY <1>6 DEF AddWorker, Workers
    <2>2. pc[w] = "idle"
      BY <2>1 DEF Structure, MemberInv, TypedControl, Control, WorkerControl
    <2> QED
      BY <1>6, <2>2 DEF AddWorker, TypedControl, TypeOK, WorkerTypeOK
  <1>7. CASE StartJoin(c) \/ StopJoin(c) \/ RemoveJoin(c) \/ RemovePriority(c)
    BY <1>1, <1>7 DEF StartJoin, StopJoin, RemoveJoin, RemovePriority, Join, DropPriority
  <1> QED
    BY <1>1, <1>2, <1>3, <1>4, <1>5, <1>6, <1>7
    DEF Command, Start, Pause, Stop, Remove, StartEnter, StartDone, PauseEnter, PauseDone,
        StopEnter, StopClear, StopUnlock, StopTail, LockPool, RemoveClear, RemoveEnter,
        RemoveDone, workerData

LEMMA PausedStep ==
  ASSUME IInv, PausedWorkerTakesNothing, [Next]_vars
  PROVE  PausedWorkerTakesNothing'
  <1> USE ThreadSets DEF PausedWorkerTakesNothing
  <1>1. CASE UNCHANGED vars
    BY <1>1 DEF vars, workerVars
  <1>2. ASSUME NEW t \in Threads, Push(t) PROVE PausedWorkerTakesNothing'
    <2>1. UNCHANGED <<pauseFlag, stopFlag>>
      BY <1>2 DEF Push, PushCheck, Enqueue, NotifyEnter, NotifyWorker, NotifyDone,
         NotifyOne, workerData
    <2>2. Others(t) /\ pc'[t] \notin {"scan", "take"}
      <3>1. Others(t)
        BY <1>2, PushPlain DEF IInv, Plain
      <3>2. pc[t] \notin {"scan", "take"}
        BY <1>2 DEF Push, PushCheck, Pushable, Enqueue, NotifyEnter, NotifyWorker,
           NotifyDone
      <3>3. pc'[t] \notin {"scan", "take"}
        BY <1>2, <3>2 DEF IInv, TypedControl, TypeOK, PoolTypeOK, Push, PushCheck,
           Enqueue, NotifyEnter, NotifyWorker, NotifyDone, NotifyOne, Enters, Leaves,
           Woken
      <3> QED
        BY <3>1, <3>3
    <2> QED
      BY <2>1, <2>2 DEF Others
  <1>3. ASSUME NEW w \in Workers, WorkerStep(w) \/ WorkerWakes(w)
        PROVE  PausedWorkerTakesNothing'
    <2>1. pauseFlag' = pauseFlag /\ \A v \in Workers \ {w} : stopFlag'[v] = stopFlag[v]
      BY <1>3 DEF IInv, TypedControl, TypeOK, WorkerTypeOK, WorkerStep, WorkerWakes,
         RunLoop, SpuriousWake, LockAndCheck, ScanQueue, BlockInWait, Take, RecheckStop,
         FinishJob, ExitThread
    <2>2. \A v \in Workers \ {w} : pc'[v] = pc[v]
      BY <1>3 DEF IInv, TypedControl, TypeOK, PoolTypeOK, WorkerStep, WorkerWakes,
         RunLoop, SpuriousWake, LockAndCheck, ScanQueue, BlockInWait, Take, RecheckStop,
         FinishJob, ExitThread
    <2>3. pc'[w] \in {"scan", "take"} /\ pauseFlag[w] => stopFlag'[w]
      BY <1>3 DEF IInv, TypedControl, TypeOK, PoolTypeOK, WorkerTypeOK, WorkerStep,
         WorkerWakes, RunLoop, SpuriousWake, LockAndCheck, ScanQueue, BlockInWait, Take,
         RecheckStop, FinishJob, ExitThread
    <2> QED
      BY <2>1, <2>2, <2>3
  <1>4. ASSUME NEW c \in Callers, Command(c) PROVE PausedWorkerTakesNothing'
    <2>1. \A w \in Workers : pc'[w] \in {"scan", "take"} => pc[w] = pc'[w]
      BY <1>4, CommandShape DEF Quiet
    <2> QED
      BY <1>4, <2>1, CommandKeepsFlags
  <1> QED
    BY <1>1, <1>2, <1>3, <1>4 DEF Next

\* A worker that is paused and not told to stop takes no job, in a pool of any
\* size: pause() gets mutex_ only when no pop that passed the check is under
\* way (ThreadWorker::pause, run).
THEOREM PausedWorkerIdles == Spec => []PausedWorkerTakesNothing
  <1>1. Init => PausedWorkerTakesNothing
    BY ThreadSets DEF Init, WorkerInit, PausedWorkerTakesNothing
  <1>2. IInv /\ PausedWorkerTakesNothing /\ [Next]_vars => PausedWorkerTakesNothing'
    BY PausedStep
  <1> QED
    BY <1>1, <1>2, IInvInit, IInvStep, PTL DEF Spec

-----------------------------------------------------------------------------
(***************************************************************************)
(* Where the jobs are: the proof that a job handed to push() is in exactly *)
(* one place, and that the pool implements JobService.  A step moves jobs  *)
(* from one place to another, or none; the lemmas say which for each       *)
(* operation, and what that does to the places.  Then what a stop() leaves *)
(* behind: its workers, its lock and the jobs it drains.                   *)
(***************************************************************************)

EachOnce(P) ==
  \A j \in Jobs : \E i \in DOMAIN P :
    j \in P[i] /\ \A k \in DOMAIN P : j \in P[k] => k = i

\* No two threads work on the same job, or push it.
OneWorkerEach ==
  \A v, w \in Workers : current[v] = current[w] /\ current[v] # None => v = w

OnePusherEach ==
  \A t, u \in Threads : pushing[t] = pushing[u] /\ pushing[t] # None => t = u

QueuesInjective == \A p \in Priorities : IsInjective(queue[p])

\* A job that is being pushed has been handed to push(), and stays so when it
\* has left its pusher's hands.
PushedIsKnown == \A t \in Threads : pushing[t] \notin fresh

JobInv ==
  /\ EachOnce(Places)
  /\ QueuesInjective
  /\ OneWorkerEach
  /\ OnePusherEach
  /\ PushedIsKnown

-----------------------------------------------------------------------------
(* Moving jobs between places *)

LEMMA MoveJobs ==
  ASSUME NEW P, NEW Q, DOMAIN Q = DOMAIN P, EachOnce(P),
         NEW a \in DOMAIN P, NEW b \in DOMAIN P, a # b,
         NEW J, J \subseteq P[a],
         Q[a] = P[a] \ J,
         Q[b] = P[b] \cup J,
         \A k \in DOMAIN P : k = a \/ k = b \/ Q[k] = P[k]
  PROVE  EachOnce(Q)
  <1> SUFFICES ASSUME NEW j \in Jobs
               PROVE  \E i \in DOMAIN Q :
                        j \in Q[i] /\ \A k \in DOMAIN Q : j \in Q[k] => k = i
    BY DEF EachOnce
  <1>1. PICK i \in DOMAIN P : j \in P[i] /\ \A k \in DOMAIN P : j \in P[k] => k = i
    BY DEF EachOnce
  <1>2. CASE j \in J
    BY <1>1, <1>2
  <1>3. CASE j \notin J
    BY <1>1, <1>3
  <1> QED
    BY <1>2, <1>3

LEMMA PlaceNames ==
  /\ DOMAIN Places = 1 .. 7
  /\ Places[1] = fresh
  /\ Places[2] = refused
  /\ Places[3] = InFlight
  /\ Places[4] = AllQueued
  /\ Places[5] = Running
  /\ Places[6] = executed
  /\ Places[7] = discarded
  BY DEF Places

LEMMA PlaceNamesNext ==
  /\ DOMAIN Places' = 1 .. 7
  /\ Places'[1] = fresh'
  /\ Places'[2] = refused'
  /\ Places'[3] = InFlight'
  /\ Places'[4] = AllQueued'
  /\ Places'[5] = Running'
  /\ Places'[6] = executed'
  /\ Places'[7] = discarded'
  BY DEF Places

\* A job is in no two places.
LEMMA Apart ==
  ASSUME EachOnce(Places), NEW j \in Jobs, NEW i \in 1 .. 7, NEW k \in 1 .. 7,
         j \in Places[i], j \in Places[k]
  PROVE  i = k
  BY PlaceNames DEF EachOnce

\* Places as they are after a step that moves the jobs J from a to b.
Shift(a, b, J) ==
  /\ J \subseteq Places[a]
  /\ \A k \in 1 .. 7 :
       Places'[k] = IF k = a THEN Places[k] \ J
                    ELSE IF k = b THEN Places[k] \cup J ELSE Places[k]

LEMMA ShiftKeeps ==
  ASSUME EachOnce(Places), NEW a \in 1 .. 7, NEW b \in 1 .. 7, a # b, NEW J,
         Shift(a, b, J)
  PROVE  EachOnce(Places)'
  <1>1. EachOnce(Places')
    <2> DEFINE P == Places
               Q == Places'
    <2>1. /\ DOMAIN P = 1 .. 7 /\ DOMAIN Q = 1 .. 7
          /\ EachOnce(P)
          /\ J \subseteq P[a]
          /\ Q[a] = P[a] \ J
          /\ Q[b] = P[b] \cup J
          /\ \A k \in DOMAIN P : k = a \/ k = b \/ Q[k] = P[k]
      BY PlaceNames, PlaceNamesNext DEF Shift
    <2> HIDE DEF P, Q
    <2>2. EachOnce(Q)
      BY <2>1, MoveJobs
    <2> QED
      BY <2>2 DEF Q
  <1> QED
    BY <1>1 DEF EachOnce

\* The places that the step of an operation leaves as they are.
LEMMA SamePlaces ==
  ASSUME UNCHANGED <<fresh, refused, executed, discarded, current, queue>>,
         InFlight' = InFlight
  PROVE  Places' = Places
  BY DEF Places, AllQueued, Queued, Running

-----------------------------------------------------------------------------
(* push(job) *)

LEMMA RefuseJob ==
  ASSUME JobInv, NEW t \in Threads, NEW j \in Jobs, PushCheck(t, j),
         PushRefused(j), UNCHANGED <<pushing, pc>>
  PROVE  JobInv'
  <1>1. /\ j \in fresh
        /\ fresh' = fresh \ {j}
        /\ refused' = refused \cup {j}
        /\ UNCHANGED <<queue, discarded, current, executed>>
    BY DEF PushCheck, PushRefused, workerData
  <1>2. /\ InFlight' = InFlight
        /\ AllQueued' = AllQueued
        /\ Running' = Running
    BY <1>1 DEF InFlight, AllQueued, Queued, Running
  <1>3. Shift(1, 2, {j})
    BY <1>1, <1>2, PlaceNames, PlaceNamesNext DEF Shift
  <1>4. EachOnce(Places)'
    BY <1>3, ShiftKeeps DEF JobInv
  <1> QED
    BY <1>1, <1>4 DEF JobInv, QueuesInjective, OneWorkerEach, OnePusherEach,
       PushedIsKnown

LEMMA AdmitJob ==
  ASSUME TypedControl, JobInv, NEW t \in Threads, NEW j \in Jobs, PushCheck(t, j),
         PushAdmitted(j),
         pushing' = [pushing EXCEPT ![t] = j],
         pc' = [pc EXCEPT ![t] = "enqueue"]
  PROVE  JobInv'
  <1>1. /\ j \in fresh
        /\ fresh' = fresh \ {j}
        /\ UNCHANGED <<queue, refused, discarded, current, executed>>
    BY DEF PushCheck, PushAdmitted, workerData
  <1>2. pc[t] \notin PushLabels
    BY DEF PushCheck, Pushable, PushLabels
  <1>3. /\ pushing'[t] = j /\ pc'[t] = "enqueue" /\ pc[t] # "enqueue"
        /\ \A u \in Threads \ {t} : pushing'[u] = pushing[u] /\ pc'[u] = pc[u]
    BY <1>2 DEF TypedControl, TypeOK, PoolTypeOK, PushLabels
  <1>4. /\ InFlight' = InFlight \cup {j}
        /\ AllQueued' = AllQueued
        /\ Running' = Running
    BY <1>1, <1>3 DEF InFlight, AllQueued, Queued, Running
  <1>5. Shift(1, 3, {j})
    BY <1>1, <1>4, PlaceNames, PlaceNamesNext DEF Shift
  <1>6. EachOnce(Places)'
    BY <1>5, ShiftKeeps DEF JobInv
  <1>7. OnePusherEach'
    BY <1>1, <1>3 DEF JobInv, OnePusherEach, PushedIsKnown
  <1>8. PushedIsKnown'
    BY <1>1, <1>3 DEF JobInv, PushedIsKnown
  <1> QED
    BY <1>1, <1>6, <1>7, <1>8 DEF JobInv, QueuesInjective, OneWorkerEach

LEMMA EnqueueJob ==
  ASSUME TypedControl, JobInv, NEW t \in Threads, Enqueue(t)
  PROVE  JobInv'
  <1> DEFINE j == pushing[t]
             p == PriorityOf[j]
  <1> USE DEF TypedControl, TypeOK, PoolTypeOK
  <1>1. j \in Jobs /\ p \in Priorities
    BY JobPoolAssumption DEF Enqueue, Control, PushControl, PushLabels
  <1>2. /\ queue' = [queue EXCEPT ![p] = Append(@, j)]
        /\ UNCHANGED <<fresh, refused, discarded, current, executed, pushing>>
    BY DEF Enqueue, PushBack, workerData
  <1>3. /\ pc[t] = "enqueue" /\ pc'[t] # "enqueue"
        /\ \A u \in Threads \ {t} : pc'[u] = pc[u]
    BY DEF Enqueue
  <1>4. \A u \in Threads \ {t} : pushing[u] # j
    BY <1>1, WorkerAssumption DEF JobInv, OnePusherEach
  <1>5. InFlight' = InFlight \ {j} /\ j \in InFlight
    BY <1>2, <1>3, <1>4 DEF InFlight
  <1>6. \A q \in Priorities : queue[q] \in Seq(Jobs)
    BY DEF JobPoolTypeOK
  <1>7. \A q \in Priorities : queue'[q] = IF q = p THEN Append(queue[p], j) ELSE queue[q]
    BY <1>1, <1>2 DEF JobPoolTypeOK
  <1>8. \A q \in Priorities :
          Queued(q)' = IF q = p THEN Queued(p) \cup {j} ELSE Queued(q)
    <2>1. Range(Append(queue[p], j)) = Range(queue[p]) \cup {j}
      BY <1>1, <1>6, RangeOfAppend
    <2> QED
      BY <1>7, <2>1 DEF Queued
  <1>9. AllQueued' = AllQueued \cup {j}
    BY <1>1, <1>8 DEF AllQueued
  <1>10. j \notin AllQueued
    BY <1>1, <1>5, PlaceNames, Apart DEF JobInv
  <1>11. Running' = Running
    BY <1>2 DEF Running
  <1>12. Shift(3, 4, {j})
    BY <1>2, <1>5, <1>9, <1>11, PlaceNames, PlaceNamesNext DEF Shift
  <1>13. EachOnce(Places)'
    BY <1>12, ShiftKeeps DEF JobInv
  <1>14. QueuesInjective'
    <2>1. j \notin Range(queue[p])
      BY <1>1, <1>10 DEF AllQueued, Queued
    <2>2. IsInjective(Append(queue[p], j))
      BY <1>1, <1>6, <2>1, AppendStaysInjective DEF JobInv, QueuesInjective
    <2> QED
      BY <1>7, <2>2 DEF JobInv, QueuesInjective
  <1> QED
    BY <1>2, <1>13, <1>14 DEF JobInv, OneWorkerEach, OnePusherEach, PushedIsKnown

\* Notifying moves no job; at its end the pusher forgets the job.
LEMMA NotifyJob ==
  ASSUME TypedControl, JobInv, NEW t \in Threads,
         NotifyEnter(t) \/ NotifyWorker(t) \/ NotifyDone(t)
  PROVE  JobInv'
  <1> USE DEF TypedControl, TypeOK, PoolTypeOK
  <1>1. UNCHANGED <<queue, fresh, refused, discarded, current, executed>>
    BY DEF NotifyEnter, NotifyWorker, NotifyDone, NotifyOne, jobPoolVars, workerData,
       poolVars
  <1>2. /\ pc[t] # "enqueue" /\ pc'[t] # "enqueue"
        /\ \A u \in Threads \ {t} :
             pc'[u] = pc[u] \/ (pc[u] = "wait" /\ pc'[u] = "lock")
    BY ThreadSets DEF NotifyEnter, NotifyWorker, NotifyDone, NotifyOne, Woken, Enters, Leaves
  <1>3. \A u \in Threads : pushing'[u] = pushing[u] \/ (u = t /\ pushing'[u] = None)
    BY DEF NotifyEnter, NotifyWorker, NotifyDone, poolVars
  <1>4. InFlight' = InFlight
    BY <1>2, <1>3 DEF InFlight
  <1>5. EachOnce(Places)'
    BY <1>1, <1>4, SamePlaces DEF JobInv, EachOnce
  <1>6. None \notin fresh
    BY WorkerAssumption DEF JobPoolTypeOK
  <1> QED
    BY <1>1, <1>3, <1>5, <1>6 DEF JobInv, QueuesInjective, OneWorkerEach,
       OnePusherEach, PushedIsKnown

LEMMA PushJob ==
  ASSUME TypedControl, JobInv, NEW t \in Threads, Push(t)
  PROVE  JobInv'
  <1>1. ASSUME NEW j \in Jobs, PushCheck(t, j) PROVE JobInv'
    BY <1>1, RefuseJob, AdmitJob DEF PushCheck
  <1> QED
    BY <1>1, EnqueueJob, NotifyJob DEF Push

-----------------------------------------------------------------------------
(* run() *)

\* A step of a worker leaves the jobs that are being pushed where they are.
LEMMA WorkerPushesNothing ==
  ASSUME TypedControl, NEW w \in Workers, WorkerStep(w) \/ WorkerWakes(w)
  PROVE  InFlight' = InFlight /\ pushing' = pushing
  <1> USE ThreadSets DEF TypedControl, TypeOK, PoolTypeOK
  <1>1. /\ RunLoop(w) \/ SpuriousWake(w)
        /\ UNCHANGED poolVars
    BY DEF WorkerStep, WorkerWakes
  <1>2. /\ pc[w] # "enqueue" /\ pc'[w] # "enqueue"
        /\ \A u \in Threads \ {w} : pc'[u] = pc[u]
    BY <1>1 DEF RunLoop, SpuriousWake, LockAndCheck, ScanQueue, BlockInWait, Take,
       RecheckStop, FinishJob, ExitThread
  <1>3. pushing' = pushing
    BY <1>1 DEF poolVars
  <1>4. \A u \in Threads : pc'[u] = "enqueue" <=> pc[u] = "enqueue"
    BY <1>2
  <1> QED
    BY <1>3, <1>4 DEF InFlight

\* Take(w) when there is a job.
Takes(w) ==
  /\ pc[w] = "take"
  /\ executed' = executed
  /\ \E i \in 1 .. Len(Served(w)) :
       /\ Poppable(Served(w), serves[w], i)
       /\ current' = [current EXCEPT ![w] = Head(queue[Served(w)[i]])]
       /\ PopFront(Served(w)[i])

LEMMA TakeJob ==
  ASSUME TypedControl, QueueInv, JobInv, NEW w \in Workers, WorkerStep(w),
         NEW i \in 1 .. Len(Served(w)),
         Poppable(Served(w), serves[w], i),
         pc[w] = "take",
         executed' = executed,
         current' = [current EXCEPT ![w] = Head(queue[Served(w)[i]])],
         PopFront(Served(w)[i])
  PROVE  JobInv'
  <1> DEFINE p == Served(w)[i]
             j == Head(queue[p])
  <1> USE DEF TypedControl, TypeOK
  <1>1. p \in Priorities
    BY WorkerAssumption, ElementOfSeq DEF Served
  <1>2. \A q \in Priorities : queue[q] \in Seq(Jobs)
    BY DEF JobPoolTypeOK
  <1>3. queue[p] # <<>>
    BY DEF Poppable
  <1>4. j \in Jobs /\ j \in Queued(p)
    BY <1>1, <1>2, <1>3, RangeOfTail, RangeInSet DEF Queued
  <1>5. /\ queue' = [queue EXCEPT ![p] = Tail(@)]
        /\ UNCHANGED <<fresh, refused, discarded>>
    BY DEF PopFront
  <1>6. \A q \in Priorities : queue'[q] = IF q = p THEN Tail(queue[p]) ELSE queue[q]
    BY <1>1, <1>5 DEF JobPoolTypeOK
  <1>7. IsInjective(Tail(queue[p])) /\ Range(Tail(queue[p])) = Range(queue[p]) \ {j}
    BY <1>1, <1>2, <1>3, TailStaysInjective DEF JobInv, QueuesInjective
  <1>8. \A q \in Priorities :
          Queued(q)' = IF q = p THEN Queued(p) \ {j} ELSE Queued(q)
    BY <1>6, <1>7 DEF Queued
  <1>9. \A q \in Priorities : q # p => j \notin Queued(q)
    BY <1>1, <1>4 DEF QueueInv
  <1>10. AllQueued' = AllQueued \ {j} /\ j \in AllQueued
    BY <1>1, <1>4, <1>8, <1>9 DEF AllQueued
  <1>11. /\ current[w] = None
         /\ \A v \in Workers : current'[v] = IF v = w THEN j ELSE current[v]
    BY DEF WorkerTypeOK, Control, WorkerControl, PushLabels
  <1>12. Running' = Running \cup {j}
    BY <1>4, <1>11, WorkerAssumption DEF Running
  <1>13. InFlight' = InFlight /\ pushing' = pushing
    BY WorkerPushesNothing
  <1>14. Shift(4, 5, {j})
    BY <1>5, <1>10, <1>12, <1>13, PlaceNames, PlaceNamesNext DEF Shift
  <1>15. EachOnce(Places)'
    BY <1>14, ShiftKeeps DEF JobInv
  <1>16. \A v \in Workers : current[v] # j
    <2>1. j \notin Running
      BY <1>4, <1>10, PlaceNames, Apart DEF JobInv
    <2> QED
      BY <2>1, <1>4, WorkerAssumption DEF Running
  <1>17. OneWorkerEach'
    BY <1>11, <1>16 DEF JobInv, OneWorkerEach
  <1>18. QueuesInjective'
    BY <1>6, <1>7 DEF JobInv, QueuesInjective
  <1> QED
    BY <1>5, <1>13, <1>15, <1>17, <1>18 DEF JobInv, OnePusherEach, PushedIsKnown

LEMMA FinishedJob ==
  ASSUME TypedControl, JobInv, NEW w \in Workers, WorkerStep(w), FinishJob(w)
  PROVE  JobInv'
  <1> DEFINE j == current[w]
  <1> USE DEF TypedControl, TypeOK
  <1>1. j \in Jobs /\ j # None
    BY DEF FinishJob, WorkerTypeOK, Control, WorkerControl
  <1>2. /\ executed' = executed \cup {j}
        /\ UNCHANGED <<queue, fresh, refused, discarded>>
    BY DEF FinishJob, jobPoolVars
  <1>3. \A v \in Workers : current'[v] = IF v = w THEN None ELSE current[v]
    BY DEF FinishJob, WorkerTypeOK
  <1>4. Running' = Running \ {j} /\ j \in Running
    BY <1>1, <1>3 DEF Running, JobInv, OneWorkerEach
  <1>5. InFlight' = InFlight /\ pushing' = pushing
    BY WorkerPushesNothing
  <1>6. AllQueued' = AllQueued
    BY <1>2 DEF AllQueued, Queued
  <1>7. Shift(5, 6, {j})
    BY <1>2, <1>4, <1>5, <1>6, PlaceNames, PlaceNamesNext DEF Shift
  <1>8. EachOnce(Places)'
    BY <1>7, ShiftKeeps DEF JobInv
  <1>9. OneWorkerEach'
    BY <1>3 DEF JobInv, OneWorkerEach
  <1> QED
    BY <1>2, <1>5, <1>8, <1>9 DEF JobInv, QueuesInjective, OnePusherEach, PushedIsKnown

\* A step of a worker takes a job, finishes one, or moves none.
LEMMA WorkerOnJobs ==
  ASSUME NEW w \in Workers, WorkerStep(w) \/ WorkerWakes(w)
  PROVE  \/ FinishJob(w) /\ WorkerStep(w)
         \/ Takes(w) /\ WorkerStep(w)
         \/ UNCHANGED <<jobPoolVars, current, executed>>
  <1>1. CASE WorkerWakes(w)
    BY <1>1 DEF WorkerWakes, SpuriousWake
  <1>2. CASE WorkerStep(w) /\ Take(w)
    BY <1>2 DEF Take, Takes
  <1>3. CASE WorkerStep(w) /\ ~Take(w) /\ ~FinishJob(w)
    BY <1>3 DEF WorkerStep, RunLoop, LockAndCheck, ScanQueue, BlockInWait,
       RecheckStop, ExitThread
  <1> QED
    BY <1>1, <1>2, <1>3

LEMMA WorkerJob ==
  ASSUME TypedControl, QueueInv, JobInv, NEW w \in Workers,
         WorkerStep(w) \/ WorkerWakes(w)
  PROVE  JobInv'
  <1>1. CASE FinishJob(w) /\ WorkerStep(w)
    BY <1>1, FinishedJob
  <1>2. CASE Takes(w) /\ WorkerStep(w)
    BY <1>2, TakeJob DEF Takes
  <1>3. CASE UNCHANGED <<jobPoolVars, current, executed>>
    <2>1. InFlight' = InFlight /\ pushing' = pushing
      BY WorkerPushesNothing
    <2>2. EachOnce(Places)'
      BY <1>3, <2>1, SamePlaces DEF JobInv, EachOnce, jobPoolVars
    <2> QED
      BY <1>3, <2>1, <2>2 DEF JobInv, QueuesInjective, OneWorkerEach, OnePusherEach,
         PushedIsKnown, jobPoolVars
  <1> QED
    BY <1>1, <1>2, <1>3, WorkerOnJobs

-----------------------------------------------------------------------------
(* The commands of a caller *)

\* A command may clear queues, and moves no other job.
LEMMA CommandOnJobs ==
  ASSUME NEW c \in Callers, Command(c)
  PROVE  /\ UNCHANGED <<fresh, refused, current, executed>>
         /\ \/ UNCHANGED <<queue, discarded>>
            \/ \E S \in SUBSET Priorities : ClearQueues(S)
  <1>1. CASE Start(c) \/ Pause(c)
    BY <1>1 DEF Start, Pause, StartEnter, StartWorker, StartJoin, StartDone, PauseEnter,
       PauseWorker, PauseDone, SignalStop, StartThread, StartFails, Join, SetPause,
       jobPoolVars, workerData
  <1>2. CASE Stop(c)
    BY <1>2 DEF Stop, StopEnter, StopClear, StopWorker, StopJoin, StopUnlock, StopTail,
       SignalStop, Join, SetLocked, ClearQueues, jobPoolVars, workerData
  <1>3. CASE Remove(c)
    <2>1. CASE \E p \in Priorities : RemoveClear(c, p)
      <3>1. PICK p \in Priorities : RemoveClear(c, p)
        BY <2>1
      <3>2. ClearQueues({p}) /\ {p} \in SUBSET Priorities
        BY <3>1 DEF RemoveClear
      <3> QED
        BY <3>1, <3>2 DEF RemoveClear, ClearQueues, workerData
    <2>2. CASE RemoveEnter(c) \/ RemovePriority(c) \/ RemoveStop(c) \/ RemoveJoin(c)
               \/ RemoveDone(c)
      BY <2>2 DEF RemoveEnter, RemovePriority, RemoveStop, RemoveJoin, RemoveDone,
         DropPriority, SignalStop, Join, jobPoolVars, workerData
    <2> QED
      BY <1>3, <2>1, <2>2 DEF Remove
  <1>4. CASE \E b \in BOOLEAN : LockPool(c, b)
    BY <1>4 DEF LockPool, SetLocked, workerData
  <1>5. CASE \E w \in Workers : AddWorker(c, w)
    BY <1>5 DEF AddWorker, jobPoolVars
  <1> QED
    BY <1>1, <1>2, <1>3, <1>4, <1>5 DEF Command

LEMMA CommandPushesNothing ==
  ASSUME TypedControl, TypedControl', NEW c \in Callers, Quiet(c)
  PROVE  InFlight' = InFlight /\ pushing' = pushing
  <1>1. pushing' = pushing /\ pc[c] # "enqueue"
    BY DEF Quiet, PushLabels
  <1>2. pc'[c] # "enqueue"
    BY <1>1, ThreadSets DEF Quiet, TypedControl, Control, PushControl, PushLabels
  <1>3. \A u \in Threads \ {c} : pc'[u] = "enqueue" <=> pc[u] = "enqueue"
    BY DEF Quiet
  <1> QED
    BY <1>1, <1>2, <1>3 DEF InFlight

LEMMA ClearJobs ==
  ASSUME TypedControl, QueueInv, JobInv, NEW S \in SUBSET Priorities, ClearQueues(S),
         UNCHANGED <<current, executed, pushing>>, InFlight' = InFlight
  PROVE  JobInv'
  <1> DEFINE J == UNION {Queued(p) : p \in S}
  <1>1. /\ \A p \in Priorities : queue'[p] = IF p \in S THEN <<>> ELSE queue[p]
        /\ discarded' = discarded \cup J
        /\ UNCHANGED <<fresh, refused>>
    BY DEF ClearQueues
  <1>2. \A p \in Priorities : Queued(p)' = IF p \in S THEN {} ELSE Queued(p)
    BY <1>1, RangeOfEmpty DEF Queued
  <1>3. AllQueued' = AllQueued \ J /\ J \subseteq AllQueued
    BY <1>2 DEF AllQueued, QueueInv
  <1>4. Running' = Running
    BY DEF Running
  <1>5. Shift(4, 7, J)
    BY <1>1, <1>3, <1>4, PlaceNames, PlaceNamesNext DEF Shift
  <1>6. EachOnce(Places)'
    BY <1>5, ShiftKeeps DEF JobInv
  <1>7. QueuesInjective'
    BY <1>1, EmptyInjective DEF JobInv, QueuesInjective
  <1> QED
    BY <1>1, <1>6, <1>7 DEF JobInv, OneWorkerEach, OnePusherEach, PushedIsKnown

LEMMA CommandJob ==
  ASSUME IInv, IInv', JobInv, NEW c \in Callers, Command(c)
  PROVE  JobInv'
  <1>1. InFlight' = InFlight /\ pushing' = pushing
    BY CommandShape, CommandPushesNothing DEF IInv
  <1>2. UNCHANGED <<fresh, refused, current, executed>>
    BY CommandOnJobs
  <1>3. CASE UNCHANGED <<queue, discarded>>
    <2>1. EachOnce(Places)'
      BY <1>1, <1>2, <1>3, SamePlaces DEF JobInv, EachOnce
    <2> QED
      BY <1>1, <1>2, <1>3, <2>1 DEF JobInv, QueuesInjective, OneWorkerEach,
         OnePusherEach, PushedIsKnown
  <1>4. CASE \E S \in SUBSET Priorities : ClearQueues(S)
    BY <1>1, <1>2, <1>4, ClearJobs DEF IInv, Structure
  <1> QED
    BY <1>3, <1>4, CommandOnJobs

-----------------------------------------------------------------------------
(* The invariant *)

JobsInv == IInv /\ JobInv

LEMMA JobsInvInit == Init => JobsInv
  <1> SUFFICES ASSUME Init PROVE JobInv
    BY IInvInit DEF JobsInv
  <1> USE DEF Init, JobPoolInit, WorkerInit
  <1>1. InFlight = {} /\ Running = {}
    BY DEF InFlight, Running
  <1>2. AllQueued = {}
    BY RangeOfEmpty DEF AllQueued, Queued
  <1>3. EachOnce(Places)
    BY <1>1, <1>2, PlaceNames DEF EachOnce
  <1>4. QueuesInjective
    BY EmptyInjective DEF QueuesInjective
  <1>5. OneWorkerEach /\ OnePusherEach /\ PushedIsKnown
    BY WorkerAssumption DEF OneWorkerEach, OnePusherEach, PushedIsKnown
  <1> QED
    BY <1>3, <1>4, <1>5 DEF JobInv

LEMMA JobsInvStep == JobsInv /\ [Next]_vars => JobsInv'
  <1> SUFFICES ASSUME JobsInv, [Next]_vars PROVE JobInv'
    BY IInvStep DEF JobsInv
  <1>1. IInv /\ IInv' /\ JobInv /\ TypedControl /\ QueueInv
    BY IInvStep DEF JobsInv, IInv, Structure
  <1>2. CASE UNCHANGED vars
    <2>1. UNCHANGED <<queue, fresh, refused, discarded, current, executed, pushing, pc>>
      BY <1>2 DEF vars, jobPoolVars, workerVars, poolVars
    <2>2. EachOnce(Places)'
      BY <1>1, <2>1, SamePlaces DEF InFlight, JobInv, EachOnce
    <2> QED
      BY <1>1, <2>1, <2>2 DEF JobInv, QueuesInjective, OneWorkerEach, OnePusherEach,
         PushedIsKnown
  <1> QED
    BY <1>1, <1>2, PushJob, WorkerJob, CommandJob DEF Next

(***************************************************************************)
(* In a pool of any size a job handed to push() is in exactly one place    *)
(* and never runs twice: no interleaving of pushes, pops, clears and stops *)
(* loses or duplicates it (JobPool::push, pop, clear; ThreadWorker::run).  *)
(***************************************************************************)
THEOREM NoJobLost == Spec => []JobsAccounted
  <1>1. JobsInv => JobsAccounted
    BY DEF JobsInv, IInv, Structure, JobInv, QueueInv, JobsAccounted, EachOnce,
       QueuesInjective, OneWorkerEach, OnePusherEach
  <1> QED
    BY <1>1, JobsInvInit, JobsInvStep, PTL DEF Spec

-----------------------------------------------------------------------------
(* The pool implements JobService *)

\* A job in none of the places that JobService knows is unknown to it.
LEMMA UnknownJob ==
  ASSUME JobInv, NEW j \in Jobs, j \in fresh \cup InFlight
  PROVE  j \notin Service!Known
  <1>1. j \notin refused \cup AllQueued \cup Running \cup executed \cup discarded
    BY PlaceNames, Apart DEF JobInv
  <1>2. Service!Waiting = AllQueued
    BY DEF Service!Waiting, Service!Range, AllQueued, Queued, Range
  <1> QED
    BY <1>1, <1>2 DEF Service!Known

LEMMA PushServes ==
  ASSUME TypedControl, JobInv, NEW t \in Threads, Push(t)
  PROVE  \/ \E j \in Jobs : Service!Submit(j) \/ Service!Refuse(j)
         \/ UNCHANGED Service!serviceVars
  <1>1. ASSUME NEW j \in Jobs, PushCheck(t, j), PushRefused(j)
        PROVE  Service!Refuse(j)
    <2>1. j \notin Service!Known
      BY <1>1, UnknownJob DEF PushCheck
    <2>2. /\ refused' = refused \cup {j}
          /\ UNCHANGED <<queue, discarded, current, executed>>
      BY <1>1 DEF PushRefused, PushCheck, workerData
    <2> QED
      BY <2>1, <2>2 DEF Service!Refuse, Running
  <1>2. ASSUME NEW j \in Jobs, PushCheck(t, j), PushAdmitted(j)
        PROVE  UNCHANGED Service!serviceVars
    BY <1>2 DEF PushAdmitted, PushCheck, workerData, Service!serviceVars, Running
  <1>3. ASSUME Enqueue(t) PROVE Service!Submit(pushing[t])
    <2>1. pushing[t] \in Jobs /\ pushing[t] \in InFlight
      BY <1>3 DEF TypedControl, TypeOK, PoolTypeOK, Enqueue, Control, PushControl,
         PushLabels, InFlight
    <2>2. pushing[t] \notin Service!Known
      BY <2>1, UnknownJob
    <2> QED
      BY <1>3, <2>2 DEF Service!Submit, Enqueue, PushBack, workerData, Running
  <1>4. ASSUME NotifyEnter(t) \/ NotifyWorker(t) \/ NotifyDone(t)
        PROVE  UNCHANGED Service!serviceVars
    BY <1>4 DEF NotifyEnter, NotifyWorker, NotifyDone, NotifyOne, jobPoolVars, workerData,
       Service!serviceVars, Running
  <1>5. Enqueue(t) => pushing[t] \in Jobs
    BY DEF TypedControl, TypeOK, PoolTypeOK, Enqueue, Control, PushControl, PushLabels
  <1> QED
    BY <1>1, <1>2, <1>3, <1>4, <1>5 DEF Push, PushCheck

LEMMA WorkerServes ==
  ASSUME TypedControl, JobInv, NEW w \in Workers, WorkerStep(w) \/ WorkerWakes(w)
  PROVE  \/ \E p \in Priorities : Service!Begin(p)
         \/ \E j \in Jobs : Service!End(j)
         \/ UNCHANGED Service!serviceVars
  <1> USE DEF TypedControl, TypeOK
  <1>1. ASSUME Takes(w) PROVE \E p \in Priorities : Service!Begin(p)
    <2>1. PICK i \in 1 .. Len(Served(w)) :
            /\ Poppable(Served(w), serves[w], i)
            /\ current' = [current EXCEPT ![w] = Head(queue[Served(w)[i]])]
            /\ PopFront(Served(w)[i])
      BY <1>1 DEF Takes
    <2> DEFINE p == Served(w)[i]
    <2>2. p \in Priorities
      BY WorkerAssumption, ElementOfSeq DEF Served
    <2>3. queue[p] # <<>> /\ queue[p] \in Seq(Jobs)
      BY <2>1, <2>2 DEF Poppable, JobPoolTypeOK
    <2>4. Head(queue[p]) \in Jobs
      BY <2>3, HeadTailProperties
    <2>5. /\ current[w] = None
          /\ \A v \in Workers :
               current'[v] = IF v = w THEN Head(queue[p]) ELSE current[v]
      BY <1>1, <2>1 DEF Takes, WorkerTypeOK, Control, WorkerControl, PushLabels
    <2>6. Running' = Running \cup {Head(queue[p])}
      BY <2>4, <2>5, WorkerAssumption DEF Running
    <2>7. /\ queue' = [queue EXCEPT ![p] = Tail(@)]
          /\ UNCHANGED <<refused, discarded, executed>>
      BY <1>1, <2>1 DEF PopFront, Takes
    <2>8. Service!Begin(p)
      BY <2>3, <2>6, <2>7 DEF Service!Begin
    <2> QED
      BY <2>2, <2>8
  <1>2. ASSUME FinishJob(w) PROVE \E j \in Jobs : Service!End(j)
    <2> DEFINE j == current[w]
    <2>1. j \in Jobs /\ j # None
      BY <1>2 DEF FinishJob, WorkerTypeOK, Control, WorkerControl
    <2>2. \A v \in Workers : current'[v] = IF v = w THEN None ELSE current[v]
      BY <1>2 DEF FinishJob, WorkerTypeOK
    <2>3. Running' = Running \ {j} /\ j \in Running
      BY <2>1, <2>2 DEF Running, JobInv, OneWorkerEach
    <2>4. /\ executed' = executed \cup {j}
          /\ UNCHANGED <<queue, refused, discarded>>
      BY <1>2 DEF FinishJob, jobPoolVars
    <2>5. Service!End(j)
      BY <2>3, <2>4 DEF Service!End
    <2> QED
      BY <2>1, <2>5
  <1>3. ASSUME UNCHANGED <<jobPoolVars, current, executed>>
        PROVE  UNCHANGED Service!serviceVars
    BY <1>3 DEF jobPoolVars, Service!serviceVars, Running
  <1>4. \/ FinishJob(w)
        \/ Takes(w)
        \/ UNCHANGED <<jobPoolVars, current, executed>>
    BY WorkerOnJobs
  <1> QED
    BY <1>1, <1>2, <1>3, <1>4

LEMMA CommandServes ==
  ASSUME NEW c \in Callers, Command(c)
  PROVE  \/ \E S \in SUBSET Priorities : Service!Discard(S)
         \/ UNCHANGED Service!serviceVars
  <1>1. UNCHANGED <<refused, current, executed>>
    BY CommandOnJobs
  <1>2. ASSUME NEW S \in SUBSET Priorities, ClearQueues(S) PROVE Service!Discard(S)
    BY <1>1, <1>2 DEF ClearQueues, Service!Discard, Service!Range, Queued, Range, Running
  <1>3. ASSUME UNCHANGED <<queue, discarded>> PROVE UNCHANGED Service!serviceVars
    BY <1>1, <1>3 DEF Service!serviceVars, Running
  <1> QED
    BY <1>2, <1>3, CommandOnJobs

(***************************************************************************)
(* The pool implements the job service: for any workers, callers, jobs and *)
(* priorities, jobs of one priority are taken in the order in which they   *)
(* were queued, each at most once, and one that was refused or cleared     *)
(* never runs.                                                             *)
(***************************************************************************)
THEOREM PoolRefines == Spec => ImplementsJobService
  <1>1. Init => Service!Init
    BY DEF Init, JobPoolInit, WorkerInit, Service!Init, Running
  <1>2. JobsInv /\ [Next]_vars => [Service!Next]_(Service!serviceVars)
    <2> SUFFICES ASSUME JobsInv, [Next]_vars
                 PROVE  [Service!Next]_(Service!serviceVars)
      OBVIOUS
    <2>1. CASE UNCHANGED vars
      BY <2>1 DEF vars, jobPoolVars, workerVars, poolVars, Service!serviceVars, Running
    <2>2. CASE Next
      BY <2>2, PushServes, WorkerServes, CommandServes
         DEF Next, JobsInv, IInv, Service!Next
    <2> QED
      BY <2>1, <2>2
  <1> QED
    BY <1>1, <1>2, JobsInvInit, JobsInvStep, PTL
       DEF Spec, ImplementsJobService, Service!Spec

-----------------------------------------------------------------------------
(***************************************************************************)
(* The threads of a pool: which of its workers run between start() and     *)
(* stop(), and what has happened when stop() has joined them.              *)
(***************************************************************************)

\* A thread that is in its loop and was not told to leave it.
Alive(w) == hasThread[w] /\ pc[w] \notin {"idle", "exiting"} /\ ~stopFlag[w]

\* Worker w is not alive because of the call c is inside.
Down(c, w) ==
  \/ pc[c] = "stopping" /\ w <= at[c]
  \/ pc[c] = "joining" /\ (w <= at[c] \/ Visits(c, w))
  \/ pc[c] \in {"removing", "removeStop", "removeJoin"} /\ serves[w] = {}

NobodyInTail == \A c \in Callers : pc[c] # "stopTail"

MembersAlive ==
  working /\ NobodyInTail =>
    \A w \in members : Alive(w) \/ \E c \in Callers : Down(c, w)

\* A promise_ that was used is that of a member, or of a worker taken out.
PromiseInv ==
  \A w \in Workers :
    /\ promised[w] => w \in members \/ serves[w] = {}
    /\ hasThread[w] => promised[w]

\* What the call c is inside has done to the workers it has visited.
Progress(c) ==
  /\ pc[c] \in {"starting", "startJoin"} =>
       ~working /\ \A w \in members : w <= at[c] => Alive(w)
  /\ pc[c] = "clearing" => at[c] = 0
  /\ pc[c] \in {"stopping", "joining"} =>
       \A w \in members : w <= at[c] => ~hasThread[w]
  /\ pc[c] \in {"removeStop", "removeJoin"} =>
       \A w \in Workers : Visits(c, w) => serves[w] = {}

AliveInv == MembersAlive /\ PromiseInv /\ \A c \in Callers : Progress(c)

AliveIInv == IInv /\ AliveInv

\* The labels AliveInv speaks of.
Rearranging == {"starting", "startJoin", "clearing", "stopping", "joining",
                "stopTail", "removing", "removeStop", "removeJoin"}

-----------------------------------------------------------------------------
(* Steps that rearrange nothing *)

Gentle(t) ==
  /\ Others(t)
  /\ UNCHANGED <<members, serves, promised, hasThread, working>>
  /\ \A w \in Workers : Alive(w) => Alive(w)'
  /\ t \in Callers => {pc[t], pc'[t]} \cap Rearranging = {}

LEMMA OtherCallers ==
  ASSUME IInv, IInv', NEW t \in Threads, Others(t)
  PROVE  \A c \in Callers \ {t} : pc'[c] = pc[c] /\ at'[c] = at[c]
  BY ThreadSets DEF IInv, TypedControl, Control, CallerControl, Others, CallLabels,
     PushLabels, StopLabels

LEMMA GentleStep ==
  ASSUME AliveIInv, IInv', NEW t \in Threads, Gentle(t)
  PROVE  AliveInv'
  <1> USE DEF AliveIInv, AliveInv, Gentle, Rearranging
  <1>1. \A c \in Callers : c = t \/ (pc'[c] = pc[c] /\ at'[c] = at[c])
    BY OtherCallers
  <1>2. \A c \in Callers : \A w \in Workers : Down(c, w) => Down(c, w)'
    BY <1>1 DEF Down, Visits
  <1>3. NobodyInTail' => NobodyInTail
    BY <1>1 DEF NobodyInTail
  <1>4. members \subseteq Workers
    BY DEF IInv, TypedControl, TypeOK, PoolTypeOK
  <1>5. MembersAlive'
    BY <1>2, <1>3, <1>4 DEF MembersAlive
  <1>6. PromiseInv'
    BY DEF PromiseInv
  <1>7. \A c \in Callers : Progress(c)'
    BY <1>1, <1>4 DEF Progress, Visits
  <1> QED
    BY <1>5, <1>6, <1>7

\* Workers keep their thread and are told nothing; a worker may be woken.
LEMMA StaysAlive ==
  ASSUME IInv, UNCHANGED <<hasThread, stopFlag>>,
         \A w \in Workers : pc'[w] \in {"idle", "exiting"} => ~Alive(w)
  PROVE  \A w \in Workers : Alive(w) => Alive(w)'
  BY DEF Alive

\* Where a push takes its thread, and that it wakes nobody but a waiter.
LEMMA PushMoves ==
  ASSUME IInv, NEW t \in Threads, Push(t)
  PROVE  /\ pc[t] \in {"idle", "run"} \cup PushLabels
         /\ pc'[t] \in {"idle", "run"} \cup PushLabels
         /\ t \in Workers => pc[t] # "idle" /\ pc'[t] # "idle"
         /\ \A v \in Workers \ {t} : pc'[v] \in {pc[v], Woken(v)}
  <1> USE ThreadSets DEF IInv, TypedControl, TypeOK, PoolTypeOK
  <1>1. CASE NotifyWorker(t)
    BY <1>1 DEF NotifyWorker, NotifyOne, PushLabels
  <1>2. CASE \E j \in Jobs : PushCheck(t, j)
    BY <1>2 DEF PushCheck, Pushable, PushLabels
  <1>3. CASE Enqueue(t) \/ NotifyEnter(t) \/ NotifyDone(t)
    BY <1>3 DEF Enqueue, NotifyEnter, NotifyDone, Enters, Leaves, PushLabels
  <1> QED
    BY <1>1, <1>2, <1>3 DEF Push

LEMMA PushGentle ==
  ASSUME IInv, NEW t \in Threads, Push(t)
  PROVE  Gentle(t)
  <1> USE ThreadSets DEF IInv, TypedControl, TypeOK, PoolTypeOK
  <1>1. Others(t)
    BY PushPlain DEF Plain
  <1>2. UNCHANGED <<members, serves, promised, hasThread, stopFlag, working>>
    BY DEF Push, PushCheck, Enqueue, NotifyEnter, NotifyWorker, NotifyDone,
       NotifyOne, workerData, poolVars
  <1>3. /\ pc[t] \in {"idle", "run"} \cup PushLabels
        /\ pc'[t] \in {"idle", "run"} \cup PushLabels
        /\ t \in Workers => pc'[t] # "idle"
    BY PushMoves
  <1>4. \A w \in Workers : Alive(w) => Alive(w)'
    BY <1>1, <1>2, <1>3 DEF Alive, Others, PushLabels
  <1>5. {pc[t], pc'[t]} \cap Rearranging = {}
    BY <1>3 DEF Rearranging, PushLabels
  <1> QED
    BY <1>1, <1>2, <1>4, <1>5 DEF Gentle

LEMMA WorkerGentle ==
  ASSUME IInv, NEW w \in Workers, WorkerStep(w) \/ WorkerWakes(w)
  PROVE  Gentle(w)
  <1> USE ThreadSets DEF IInv, TypedControl, TypeOK, PoolTypeOK, WorkerTypeOK
  <1>1. /\ UNCHANGED poolVars
        /\ RunLoop(w) \/ SpuriousWake(w)
    BY DEF WorkerStep, WorkerWakes
  <1>2. Others(w) /\ \A v \in Workers \ {w} : pc'[v] = pc[v]
    BY <1>1 DEF Others, RunLoop, SpuriousWake, LockAndCheck, ScanQueue, BlockInWait,
       Take, RecheckStop, FinishJob, ExitThread
  <1>3. UNCHANGED <<members, serves, promised, hasThread, working>>
    BY <1>1 DEF poolVars, RunLoop, SpuriousWake, LockAndCheck, ScanQueue, BlockInWait,
       Take, RecheckStop, FinishJob, ExitThread
  <1>4. \A v \in Workers \ {w} : stopFlag'[v] = stopFlag[v]
    BY <1>1 DEF RunLoop, SpuriousWake, LockAndCheck, ScanQueue, BlockInWait, Take,
       RecheckStop, FinishJob, ExitThread
  <1>5. Alive(w) => Alive(w)'
    BY <1>1, <1>3 DEF Alive, RunLoop, SpuriousWake, LockAndCheck, ScanQueue,
       BlockInWait, Take, RecheckStop, FinishJob, ExitThread
  <1>6. \A v \in Workers : Alive(v) => Alive(v)'
    BY <1>2, <1>3, <1>4, <1>5 DEF Alive
  <1> QED
    BY <1>2, <1>3, <1>6 DEF Gentle

LEMMA CommandGentle ==
  ASSUME IInv, IInv', NEW c \in Callers,
         \/ Pause(c)
         \/ \E b \in BOOLEAN : LockPool(c, b)
         \/ \E p \in Priorities : RemoveClear(c, p)
         \/ StartEnter(c) /\ working
         \/ (\E b \in BOOLEAN : StopEnter(c, b)) /\ ~working
  PROVE  Gentle(c)
  <1> USE ThreadSets DEF IInv, TypedControl, TypeOK, PoolTypeOK
  <1>1. Others(c)
    BY CommandShape DEF Command, Start, Stop, Remove, Quiet, Others
  <1>2. UNCHANGED <<members, serves, promised, hasThread, stopFlag, working>>
    BY DEF Pause, PauseEnter, PauseWorker, PauseDone, SetPause, LockPool, RemoveClear,
       StartEnter, StopEnter, workerData, poolVars
  <1>3. {pc[c], pc'[c]} \subseteq {"idle", "pausing", "removeEnter"}
    <2>1. CASE PauseWorker(c)
      BY <2>1 DEF PauseWorker, SetPause
    <2>2. CASE ~PauseWorker(c)
      BY <2>2 DEF Pause, PauseEnter, PauseDone, LockPool, RemoveClear, StartEnter,
         StopEnter, Issues, Enters, Leaves
    <2> QED
      BY <2>1, <2>2
  <1>4. \A w \in Workers : pc'[w] \in {"idle", "exiting"} => pc'[w] = pc[w]
    BY <1>1 DEF Others
  <1>5. \A w \in Workers : Alive(w) => Alive(w)'
    BY <1>2, <1>4 DEF Alive
  <1>6. {pc[c], pc'[c]} \cap Rearranging = {}
    BY <1>3 DEF Rearranging
  <1> QED
    BY <1>1, <1>2, <1>5, <1>6 DEF Gentle

-----------------------------------------------------------------------------
(* Steps that rearrange the pool: their caller has, or takes, its mutex_ *)

Alone(c) == pc[c] \in HoldLabels \/ poolMutex = None

\* Nobody else is inside a call that holds the mutex.
LEMMA AloneInPool ==
  ASSUME IInv, IInv', NEW c \in Callers, Alone(c), Others(c)
  PROVE  \A d \in Callers \ {c} :
           /\ pc'[d] = pc[d] /\ at'[d] = at[d]
           /\ pc[d] \notin HoldLabels
           /\ \A w : ~Down(d, w)
  <1>1. \A d \in Callers \ {c} : pc[d] \notin HoldLabels
    BY ThreadSets DEF IInv, Structure, MutexInv, Alone
  <1> QED
    BY <1>1, OtherCallers, ThreadSets DEF Down, HoldLabels

LEMMA HolderStep ==
  ASSUME AliveIInv, IInv', NEW c \in Callers, Alone(c), Others(c),
         MembersAlive', PromiseInv', Progress(c)'
  PROVE  AliveInv'
  <1>1. \A d \in Callers \ {c} : Progress(d)'
    BY AloneInPool DEF AliveIInv, Progress, HoldLabels
  <1> QED
    BY <1>1 DEF AliveInv

\* MembersAlive, seen from the caller that has the mutex.
LEMMA HolderSees ==
  ASSUME AliveIInv, IInv', NEW c \in Callers, Alone(c), Others(c),
         working, NobodyInTail', pc[c] # "stopTail"
  PROVE  /\ \A w \in members : Alive(w) \/ Down(c, w)
         /\ poolMutex = None => \A w \in members : Alive(w)
  <1>1. NobodyInTail
    BY OtherCallers, ThreadSets DEF AliveIInv, NobodyInTail
  <1>2. \A w \in members : Alive(w) \/ \E d \in Callers : Down(d, w)
    BY <1>1 DEF AliveIInv, AliveInv, MembersAlive
  <1>3. \A w \in members : Alive(w) \/ Down(c, w)
    BY <1>2, AloneInPool DEF AliveIInv
  <1>4. poolMutex = None => \A w : ~Down(c, w)
    BY ThreadSets DEF AliveIInv, IInv, Structure, MutexInv, HoldLabels, Down
  <1> QED
    BY <1>3, <1>4

\* Where every other thread is after the step of a caller.
LEMMA WorkersStay ==
  ASSUME NEW c \in Callers, Others(c)
  PROVE  \A w \in Workers : pc'[w] \in {"idle", "exiting"} => pc'[w] = pc[w]
  BY ThreadSets DEF Others

LEMMA StartEnterAlive ==
  ASSUME AliveIInv, IInv', NEW c \in Callers, StartEnter(c), ~working
  PROVE  AliveInv'
  <1> USE ThreadSets DEF AliveIInv, IInv, TypedControl, TypeOK, PoolTypeOK
  <1>1. Others(c)
    BY StartEnterPlain DEF Plain
  <1>2. /\ poolMutex = None /\ pc'[c] = "starting" /\ at'[c] = 0
        /\ UNCHANGED <<members, serves, promised, hasThread, stopFlag, working>>
    BY DEF StartEnter, Enters, Advance, workerData
  <1>3. MembersAlive'
    BY <1>2 DEF MembersAlive
  <1>4. PromiseInv'
    BY <1>2 DEF AliveInv, PromiseInv
  <1>5. Progress(c)'
    BY <1>2 DEF Progress, Workers
  <1> QED
    BY <1>1, <1>2, <1>3, <1>4, <1>5, HolderStep DEF Alone

LEMMA StartWorkerAlive ==
  ASSUME AliveIInv, IInv', NEW c \in Callers, StartWorker(c)
  PROVE  AliveInv'
  <1> USE ThreadSets DEF AliveIInv, IInv, TypedControl, TypeOK, PoolTypeOK, WorkerTypeOK
  <1>1. Others(c)
    BY StartWorkerPlain DEF Plain
  <1>2. PICK w \in Workers :
          /\ Visits(c, w)
          /\ \/ SignalStop(c, w, "startJoin") /\ UNCHANGED at
             \/ StartThread(c, w, "starting") /\ Advance(c, w)
             \/ StartFails(c, w, "idle") /\ UNCHANGED at
    BY DEF StartWorker
  <1>3. /\ pc[c] = "starting"
        /\ UNCHANGED <<members, working>>
    BY DEF StartWorker
  <1>4. /\ ~working
        /\ \A v \in members : v <= at[c] => Alive(v)
    BY <1>3 DEF AliveInv, Progress
  <1>5. MembersAlive'
    BY <1>3, <1>4 DEF MembersAlive
  <1>6. PromiseInv'
    BY <1>2, <1>3 DEF AliveInv, PromiseInv, SignalStop, StartThread, StartFails, Visits
  <1>7. Progress(c)'
    <2>1. CASE SignalStop(c, w, "startJoin") /\ UNCHANGED at
      <3>1. pc'[c] = "startJoin"
        BY <2>1 DEF SignalStop
      <3>2. \A v \in members : v <= at[c] => Alive(v)'
        BY <1>1, <1>2, <1>4, <2>1, WorkersStay DEF SignalStop, Alive, Visits, Workers
      <3> QED
        BY <1>3, <1>4, <2>1, <3>1, <3>2 DEF Progress
    <2>2. CASE StartThread(c, w, "starting") /\ Advance(c, w)
      <3>1. pc'[c] = "starting" /\ at'[c] = w
        BY <2>2 DEF StartThread, Advance
      <3>2. \A v \in members : v <= w => v <= at[c] \/ v = w
        BY <1>2 DEF Visits, Workers
      <3>3. Alive(w)'
        BY <2>2 DEF StartThread, Alive
      <3>4. \A v \in members : v <= w => Alive(v)'
        BY <1>1, <1>4, <2>2, <3>2, <3>3, WorkersStay DEF StartThread, Alive
      <3> QED
        BY <1>3, <1>4, <3>1, <3>4 DEF Progress
    <2>3. CASE StartFails(c, w, "idle")
      BY <2>3 DEF StartFails, Progress
    <2> QED
      BY <1>2, <2>1, <2>2, <2>3
  <1> QED
    BY <1>1, <1>3, <1>5, <1>6, <1>7, HolderStep DEF Alone, HoldLabels

LEMMA StartJoinAlive ==
  ASSUME AliveIInv, IInv', NEW c \in Callers, StartJoin(c)
  PROVE  AliveInv'
  <1> USE ThreadSets DEF AliveIInv, IInv, TypedControl, TypeOK, PoolTypeOK, WorkerTypeOK
  <1>1. Others(c)
    BY StartJoinPlain DEF Plain
  <1>2. PICK w \in Workers : Visits(c, w) /\ Join(c, w, "starting")
    BY DEF StartJoin
  <1>3. /\ pc[c] = "startJoin" /\ pc'[c] = "starting"
        /\ UNCHANGED <<members, working, at, serves, promised, stopFlag>>
        /\ hasThread' = [hasThread EXCEPT ![w] = FALSE]
    BY <1>2 DEF StartJoin, Join, poolVars
  <1>4. /\ ~working
        /\ \A v \in members : v <= at[c] => Alive(v)
    BY <1>3 DEF AliveInv, Progress
  <1>5. MembersAlive'
    BY <1>3, <1>4 DEF MembersAlive
  <1>6. PromiseInv'
    BY <1>3 DEF AliveInv, PromiseInv
  <1>7. \A v \in members : v <= at[c] => Alive(v)'
    BY <1>1, <1>2, <1>3, <1>4, WorkersStay DEF Alive, Visits, Workers
  <1>8. Progress(c)'
    BY <1>3, <1>4, <1>7 DEF Progress
  <1> QED
    BY <1>1, <1>3, <1>5, <1>6, <1>8, HolderStep DEF Alone, HoldLabels

LEMMA StartDoneAlive ==
  ASSUME AliveIInv, IInv', NEW c \in Callers, StartDone(c)
  PROVE  AliveInv'
  <1> USE ThreadSets DEF AliveIInv, IInv, TypedControl, TypeOK, PoolTypeOK
  <1>1. Others(c)
    BY StartDonePlain DEF Plain
  <1>2. /\ pc[c] = "starting" /\ pc'[c] = "idle" /\ AllVisited(c)
        /\ UNCHANGED <<members, serves, promised, hasThread, stopFlag>>
    BY DEF StartDone, Leaves, workerData
  <1>3. \A w \in members : Alive(w)
    BY <1>2 DEF AliveInv, Progress, AllVisited
  <1>4. MembersAlive'
    BY <1>1, <1>2, <1>3, WorkersStay DEF MembersAlive, Alive
  <1>5. PromiseInv'
    BY <1>2 DEF AliveInv, PromiseInv
  <1>6. Progress(c)'
    BY <1>2 DEF Progress
  <1> QED
    BY <1>1, <1>2, <1>4, <1>5, <1>6, HolderStep DEF Alone, HoldLabels

LEMMA StopEnterAlive ==
  ASSUME AliveIInv, IInv', NEW c \in Callers, NEW b \in BOOLEAN, StopEnter(c, b),
         working
  PROVE  AliveInv'
  <1> USE ThreadSets DEF AliveIInv, IInv, TypedControl, TypeOK, PoolTypeOK
  <1>1. Others(c)
    BY StopEnterPlain DEF Plain
  <1>2. /\ poolMutex = None
        /\ pc[c] = "idle" /\ pc'[c] \in {"clearing", "stopping"} /\ at'[c] = 0
        /\ UNCHANGED <<members, serves, promised, hasThread, stopFlag, working>>
    BY DEF StopEnter, Issues, Enters, Advance, workerData
  <1>3. MembersAlive'
    <2> SUFFICES ASSUME NobodyInTail', NEW w \in members PROVE Alive(w)'
      BY <1>2 DEF MembersAlive
    <2>1. Alive(w)
      BY <1>1, <1>2, HolderSees DEF Alone
    <2> QED
      BY <1>1, <1>2, <2>1, WorkersStay DEF Alive
  <1>4. PromiseInv'
    BY <1>2 DEF AliveInv, PromiseInv
  <1>5. Progress(c)'
    BY <1>2 DEF Progress, Workers
  <1> QED
    BY <1>1, <1>2, <1>3, <1>4, <1>5, HolderStep DEF Alone

LEMMA StopClearAlive ==
  ASSUME AliveIInv, IInv', NEW c \in Callers, StopClear(c)
  PROVE  AliveInv'
  <1> USE ThreadSets DEF AliveIInv, IInv, TypedControl, TypeOK, PoolTypeOK
  <1>1. Others(c)
    BY StopClearPlain DEF Plain
  <1>2. /\ pc[c] = "clearing" /\ pc'[c] = "stopping" /\ at'[c] = 0
        /\ UNCHANGED <<members, serves, promised, hasThread, stopFlag, working>>
    BY DEF StopClear, workerData, poolVars, AliveInv, Progress
  <1>3. MembersAlive'
    <2> SUFFICES ASSUME working, NobodyInTail', NEW w \in members PROVE Alive(w)'
      BY <1>2 DEF MembersAlive
    <2>1. Alive(w)
      BY <1>1, <1>2, HolderSees DEF Alone, HoldLabels, Down
    <2> QED
      BY <1>1, <1>2, <2>1, WorkersStay DEF Alive
  <1>4. PromiseInv'
    BY <1>2 DEF AliveInv, PromiseInv
  <1>5. Progress(c)'
    BY <1>2 DEF Progress, Workers
  <1> QED
    BY <1>1, <1>2, <1>3, <1>4, <1>5, HolderStep DEF Alone, HoldLabels

LEMMA StopWorkerAlive ==
  ASSUME AliveIInv, IInv', NEW c \in Callers, StopWorker(c)
  PROVE  AliveInv'
  <1> USE ThreadSets DEF AliveIInv, IInv, TypedControl, TypeOK, PoolTypeOK, WorkerTypeOK
  <1>1. Others(c)
    BY StopWorkerPlain DEF Plain
  <1>2. PICK w \in Workers :
          /\ Visits(c, w)
          /\ \/ SignalStop(c, w, "joining")
             \/ ~hasThread[w] /\ Leaves(c, "idle") /\ UNCHANGED workerData
    BY DEF StopWorker
  <1>3. /\ pc[c] = "stopping"
        /\ UNCHANGED <<members, serves, promised, hasThread, working, at>>
        /\ \A v \in Workers \ {w} : stopFlag'[v] = stopFlag[v]
    BY <1>2 DEF StopWorker, SignalStop, workerData
  <1>4. PromiseInv'
    BY <1>3 DEF AliveInv, PromiseInv
  <1>5. \A v \in members : v <= at[c] => ~hasThread[v]
    BY <1>3 DEF AliveInv, Progress
  <1>6. CASE SignalStop(c, w, "joining")
    <2>1. pc'[c] = "joining"
      BY <1>6 DEF SignalStop
    <2>2. MembersAlive'
      <3> SUFFICES ASSUME working, NobodyInTail', NEW v \in members
                   PROVE  Alive(v)' \/ Down(c, v)'
        BY <1>3 DEF MembersAlive
      <3>1. Alive(v) \/ Down(c, v)
        BY <1>1, <1>3, HolderSees DEF Alone, HoldLabels
      <3>2. CASE v = w
        BY <1>2, <1>3, <2>1, <3>2 DEF Down, Visits
      <3>3. CASE v # w /\ Alive(v)
        BY <1>1, <1>3, <3>3, WorkersStay DEF Alive
      <3>4. CASE Down(c, v)
        BY <1>3, <2>1, <3>4 DEF Down
      <3> QED
        BY <3>1, <3>2, <3>3, <3>4
    <2>3. Progress(c)'
      BY <1>3, <1>5, <2>1 DEF Progress
    <2> QED
      BY <1>1, <1>3, <1>4, <2>2, <2>3, HolderStep DEF Alone, HoldLabels
  <1>7. CASE ~hasThread[w] /\ Leaves(c, "idle") /\ UNCHANGED workerData
    <2>1. pc'[c] = "idle"
      BY <1>7 DEF Leaves
    <2>2. MembersAlive'
      <3> SUFFICES ASSUME working, NobodyInTail' PROVE FALSE
        BY <1>3 DEF MembersAlive
      <3>1. Alive(w) \/ Down(c, w)
        BY <1>1, <1>2, <1>3, HolderSees DEF Alone, HoldLabels, Visits
      <3> QED
        BY <1>2, <1>3, <1>7, <3>1 DEF Alive, Down, Visits, Workers
    <2>3. Progress(c)'
      BY <2>1 DEF Progress
    <2> QED
      BY <1>1, <1>3, <1>4, <2>2, <2>3, HolderStep DEF Alone, HoldLabels
  <1> QED
    BY <1>2, <1>6, <1>7

LEMMA StopJoinAlive ==
  ASSUME AliveIInv, IInv', NEW c \in Callers, StopJoin(c)
  PROVE  AliveInv'
  <1> USE ThreadSets DEF AliveIInv, IInv, TypedControl, TypeOK, PoolTypeOK, WorkerTypeOK
  <1>1. Others(c)
    BY StopJoinPlain DEF Plain
  <1>2. PICK w \in Workers :
          Visits(c, w) /\ Join(c, w, "stopping") /\ Advance(c, w)
    BY DEF StopJoin
  <1>3. /\ pc[c] = "joining" /\ pc'[c] = "stopping" /\ at'[c] = w
        /\ UNCHANGED <<members, serves, promised, stopFlag, working>>
        /\ hasThread' = [hasThread EXCEPT ![w] = FALSE]
    BY <1>2 DEF StopJoin, Join, Advance, poolVars
  <1>4. \A v \in members : v <= w <=> v <= at[c] \/ v = w
    <2>1. /\ members \subseteq Nat /\ w \in Nat /\ at[c] \in Nat
          /\ w > at[c]
      BY <1>2 DEF Visits
    <2> QED
      BY <1>2, <2>1 DEF Visits
  <1>5. MembersAlive'
    <2> SUFFICES ASSUME working, NobodyInTail', NEW v \in members
                 PROVE  Alive(v)' \/ Down(c, v)'
      BY <1>3 DEF MembersAlive
    <2>1. Alive(v) \/ Down(c, v)
      BY <1>1, <1>3, HolderSees DEF Alone, HoldLabels
    <2>2. CASE v <= w
      BY <1>3, <2>2 DEF Down
    <2>3. CASE ~(v <= w)
      <3>1. Alive(v)
        BY <1>2, <1>3, <1>4, <2>1, <2>3, VisitsOne DEF Down
      <3> QED
        BY <1>1, <1>3, <1>4, <2>3, <3>1, WorkersStay DEF Alive
    <2> QED
      BY <2>2, <2>3
  <1>6. PromiseInv'
    BY <1>3 DEF AliveInv, PromiseInv
  <1>7. Progress(c)'
    BY <1>3, <1>4 DEF AliveInv, Progress
  <1> QED
    BY <1>1, <1>3, <1>5, <1>6, <1>7, HolderStep DEF Alone, HoldLabels

LEMMA StopUnlockAlive ==
  ASSUME AliveIInv, IInv', NEW c \in Callers, StopUnlock(c)
  PROVE  AliveInv'
  <1> USE ThreadSets DEF AliveIInv, IInv, TypedControl, TypeOK, PoolTypeOK
  <1>1. Others(c)
    BY StopUnlockPlain DEF Plain
  <1>2. /\ pc[c] = "stopping" /\ pc'[c] = "stopTail"
        /\ UNCHANGED <<members, serves, promised, hasThread>>
    BY DEF StopUnlock, Leaves, workerData
  <1>3. MembersAlive'
    BY <1>2 DEF MembersAlive, NobodyInTail
  <1>4. PromiseInv'
    BY <1>2 DEF AliveInv, PromiseInv
  <1>5. Progress(c)'
    BY <1>2 DEF Progress
  <1> QED
    BY <1>1, <1>2, <1>3, <1>4, <1>5, HolderStep DEF Alone, HoldLabels

\* The one step outside the mutex that matters: working_ is reset.
LEMMA StopTailAlive ==
  ASSUME AliveIInv, IInv', NEW c \in Callers, StopTail(c)
  PROVE  AliveInv'
  <1> USE ThreadSets DEF AliveIInv, IInv, TypedControl, TypeOK, PoolTypeOK
  <1>1. /\ ~working' /\ pc' = [pc EXCEPT ![c] = "idle"]
        /\ UNCHANGED <<members, serves, promised, hasThread, stopFlag, at>>
    BY DEF StopTail, workerData
  <1>2. MembersAlive' /\ PromiseInv'
    BY <1>1 DEF AliveInv, MembersAlive, PromiseInv
  <1>3. \A w \in Workers : Alive(w)' <=> Alive(w)
    BY <1>1 DEF Alive
  <1>4. \A d \in Callers : Progress(d)'
    BY <1>1, <1>3 DEF AliveInv, Progress, Visits
  <1> QED
    BY <1>2, <1>4 DEF AliveInv

LEMMA RemoveEnterAlive ==
  ASSUME AliveIInv, IInv', NEW c \in Callers, RemoveEnter(c)
  PROVE  AliveInv'
  <1> USE ThreadSets DEF AliveIInv, IInv, TypedControl, TypeOK, PoolTypeOK
  <1>1. Others(c)
    BY RemoveEnterPlain DEF Plain
  <1>2. /\ poolMutex = None /\ pc[c] = "removeEnter" /\ pc'[c] = "removing"
        /\ UNCHANGED <<members, serves, promised, hasThread, stopFlag, working>>
    BY DEF RemoveEnter, Enters, workerData
  <1>3. MembersAlive'
    <2> SUFFICES ASSUME working, NobodyInTail', NEW w \in members PROVE Alive(w)'
      BY <1>2 DEF MembersAlive
    <2>1. Alive(w)
      BY <1>1, <1>2, HolderSees DEF Alone
    <2> QED
      BY <1>1, <1>2, <2>1, WorkersStay DEF Alive
  <1>4. PromiseInv'
    BY <1>2 DEF AliveInv, PromiseInv
  <1>5. Progress(c)'
    BY <1>2 DEF Progress
  <1> QED
    BY <1>1, <1>2, <1>3, <1>4, <1>5, HolderStep DEF Alone

\* What the steps of remove_workers() inside its loop have in common.
LEMMA RemovingAlive ==
  ASSUME AliveIInv, IInv', NEW c \in Callers,
         pc[c] \in {"removing", "removeStop", "removeJoin"},
         pc'[c] \in {"removing", "removeStop", "removeJoin"},
         Others(c), NEW w \in Workers,
         \A v \in Workers \ {w} :
           /\ serves'[v] = serves[v]
           /\ hasThread'[v] = hasThread[v]
           /\ stopFlag'[v] = stopFlag[v],
         \/ serves'[w] = {}
         \/ hasThread'[w] = hasThread[w] /\ stopFlag'[w] = stopFlag[w],
         serves'[w] \subseteq serves[w],
         hasThread'[w] => hasThread[w],
         UNCHANGED <<members, promised, working>>,
         pc'[c] \in {"removeStop", "removeJoin"} =>
           \A v \in Workers : Visits(c, v)' => serves'[v] = {}
  PROVE  AliveInv'
  <1> USE DEF AliveIInv
  <1>1. MembersAlive'
    <2> SUFFICES ASSUME working, NobodyInTail', NEW v \in members
                 PROVE  Alive(v)' \/ Down(c, v)'
      BY DEF MembersAlive
    <2>1. v \in Workers
      BY DEF IInv, TypedControl, TypeOK, PoolTypeOK
    <2>2. Alive(v) \/ Down(c, v)
      BY HolderSees DEF Alone, HoldLabels
    <2>3. CASE serves'[v] = {}
      BY <2>3 DEF Down
    <2>4. CASE serves'[v] # {}
      <3>1. Alive(v)
        BY <2>1, <2>2, <2>4 DEF Down
      <3> QED
        BY <2>1, <2>4, <3>1, WorkersStay DEF Alive
    <2> QED
      BY <2>3, <2>4
  <1>2. PromiseInv'
    BY DEF AliveInv, PromiseInv
  <1>3. Progress(c)'
    BY DEF Progress
  <1> QED
    BY <1>1, <1>2, <1>3, HolderStep DEF Alone, HoldLabels

LEMMA RemovePriorityAlive ==
  ASSUME AliveIInv, IInv', NEW c \in Callers, RemovePriority(c)
  PROVE  AliveInv'
  <1> USE ThreadSets DEF AliveIInv, IInv, TypedControl, TypeOK, PoolTypeOK, WorkerTypeOK
  <1>1. Others(c)
    BY CommandShape DEF Command, Remove, Quiet, Others
  <1>2. PICK w \in Workers :
          /\ Visits(c, w)
          /\ \/ /\ serves[w] \subseteq {target[c]}
                /\ DropPriority(c, w, target[c], "removeStop")
                /\ UNCHANGED at
             \/ DropPriority(c, w, target[c], "removing")
    BY DEF RemovePriority
  <1>3. /\ pc[c] = "removing"
        /\ UNCHANGED <<members, working, promised, hasThread, stopFlag>>
        /\ serves' = [serves EXCEPT ![w] = @ \ {target[c]}]
    BY <1>2 DEF RemovePriority, DropPriority, poolVars
  <1>4. pc'[c] \in {"removing", "removeStop"}
    BY <1>2 DEF DropPriority
  <1>5. ASSUME pc'[c] = "removeStop", NEW v \in Workers, Visits(c, v)'
        PROVE  serves'[v] = {}
    <2>1. serves[w] \subseteq {target[c]} /\ UNCHANGED at
      BY <1>2, <1>5 DEF DropPriority
    <2>2. Visits(c, v)
      BY <1>3, <1>5, <2>1 DEF Visits
    <2>3. v = w
      BY <1>2, <2>2, VisitsOne
    <2> QED
      BY <1>3, <2>1, <2>3
  <1> QED
    BY <1>1, <1>3, <1>4, <1>5, RemovingAlive

LEMMA RemoveStopAlive ==
  ASSUME AliveIInv, IInv', NEW c \in Callers, RemoveStop(c)
  PROVE  AliveInv'
  <1> USE ThreadSets DEF AliveIInv, IInv, TypedControl, TypeOK, PoolTypeOK, WorkerTypeOK
  <1>1. Others(c)
    BY CommandShape DEF Command, Remove, Quiet, Others
  <1>2. PICK w \in Workers :
          /\ Visits(c, w)
          /\ \/ SignalStop(c, w, "removeJoin") /\ UNCHANGED at
             \/ pc' = [pc EXCEPT ![c] = "removing"] /\ UNCHANGED workerData
    BY DEF RemoveStop
  <1>3. /\ pc[c] = "removeStop"
        /\ UNCHANGED <<members, working, promised, hasThread, serves>>
        /\ \A v \in Workers \ {w} : stopFlag'[v] = stopFlag[v]
    BY <1>2 DEF RemoveStop, SignalStop, poolVars, workerData
  <1>4. \A v \in Workers : Visits(c, v) => serves[v] = {}
    BY <1>3 DEF AliveInv, Progress
  <1>5. pc'[c] \in {"removing", "removeJoin"}
    BY <1>2 DEF SignalStop
  <1>6. pc'[c] = "removeJoin" => UNCHANGED at
    BY <1>2 DEF SignalStop
  <1>7. pc'[c] = "removeJoin" => \A v \in Workers : Visits(c, v)' => serves'[v] = {}
    BY <1>3, <1>4, <1>6 DEF Visits
  <1>8. serves'[w] = {}
    BY <1>2, <1>3, <1>4
  <1> QED
    BY <1>1, <1>3, <1>5, <1>7, <1>8, RemovingAlive

LEMMA RemoveJoinAlive ==
  ASSUME AliveIInv, IInv', NEW c \in Callers, RemoveJoin(c)
  PROVE  AliveInv'
  <1> USE ThreadSets DEF AliveIInv, IInv, TypedControl, TypeOK, PoolTypeOK, WorkerTypeOK
  <1>1. Others(c)
    BY CommandShape DEF Command, Remove, Quiet, Others
  <1>2. PICK w \in Workers : Visits(c, w) /\ Join(c, w, "removing")
    BY DEF RemoveJoin
  <1>3. /\ pc[c] = "removeJoin" /\ pc'[c] = "removing"
        /\ UNCHANGED <<members, working, promised, serves, stopFlag>>
        /\ hasThread' = [hasThread EXCEPT ![w] = FALSE]
    BY <1>2 DEF RemoveJoin, Join, poolVars
  <1>4. serves'[w] = {}
    BY <1>2, <1>3 DEF AliveInv, Progress
  <1>5. /\ \A v \in Workers \ {w} : hasThread'[v] = hasThread[v]
        /\ ~hasThread'[w]
    BY <1>3
  <1> QED
    BY <1>1, <1>3, <1>4, <1>5, RemovingAlive

LEMMA RemoveDoneAlive ==
  ASSUME AliveIInv, IInv', NEW c \in Callers, RemoveDone(c)
  PROVE  AliveInv'
  <1> USE ThreadSets DEF AliveIInv, IInv, TypedControl, TypeOK, PoolTypeOK
  <1>1. Others(c)
    BY CommandShape DEF Command, Remove, Quiet, Others
  <1>2. /\ pc[c] = "removing" /\ pc'[c] = "idle"
        /\ members' = {w \in members : serves[w] # {}}
        /\ UNCHANGED <<working, promised, hasThread, serves, stopFlag>>
    BY DEF RemoveDone, Leaves, workerData
  <1>3. MembersAlive'
    <2> SUFFICES ASSUME working, NobodyInTail', NEW w \in members, serves[w] # {}
                 PROVE  Alive(w)'
      BY <1>2 DEF MembersAlive
    <2>1. Alive(w)
      BY <1>1, <1>2, HolderSees DEF Alone, HoldLabels, Down
    <2> QED
      BY <1>1, <1>2, <2>1, WorkersStay DEF Alive
  <1>4. PromiseInv'
    BY <1>2 DEF AliveInv, PromiseInv
  <1>5. Progress(c)'
    BY <1>2 DEF Progress
  <1> QED
    BY <1>1, <1>2, <1>3, <1>4, <1>5, HolderStep DEF Alone, HoldLabels

LEMMA AddWorkerAlive ==
  ASSUME AliveIInv, IInv', NEW c \in Callers, NEW w \in Workers, AddWorker(c, w)
  PROVE  AliveInv'
  <1> USE ThreadSets DEF AliveIInv, IInv, TypedControl, TypeOK, PoolTypeOK, WorkerTypeOK
  <1>1. Others(c)
    BY CommandShape DEF Command, Quiet, Others
  <1>2. /\ poolMutex = None /\ pc[c] = "idle" /\ pc'[c] = "idle"
        /\ serves[w] # {} /\ w \notin members
        /\ members' = members \cup {w}
        /\ UNCHANGED <<working, serves>>
    <2>1. w \notin members
      BY DEF AddWorker, Workers
    <2> QED
      BY <2>1 DEF AddWorker, Issues
  <1>3. Startable(w)
    BY <1>2 DEF AliveInv, PromiseInv, Startable
  <1>4. /\ working => Alive(w)'
        /\ \A v \in Workers \ {w} : /\ hasThread'[v] = hasThread[v]
                                    /\ promised'[v] = promised[v]
                                    /\ stopFlag'[v] = stopFlag[v]
        /\ hasThread'[w] => promised'[w]
    BY <1>3 DEF AddWorker, Alive, Startable
  <1>5. MembersAlive'
    <2> SUFFICES ASSUME working, NobodyInTail', NEW v \in members'
                 PROVE  Alive(v)'
      BY <1>2 DEF MembersAlive
    <2>1. v # w => v \in members /\ v \in Workers
      BY <1>2
    <2>2. v # w => Alive(v)
      BY <1>1, <1>2, <2>1, HolderSees DEF Alone
    <2> QED
      BY <1>1, <1>4, <2>1, <2>2, WorkersStay DEF Alive
  <1>6. PromiseInv'
    BY <1>2, <1>4 DEF AliveInv, PromiseInv
  <1>7. Progress(c)'
    BY <1>2 DEF Progress
  <1> QED
    BY <1>1, <1>2, <1>5, <1>6, <1>7, HolderStep DEF Alone

LEMMA AliveInit == Init => AliveIInv
  <1> SUFFICES ASSUME Init PROVE AliveIInv
    OBVIOUS
  <1>1. /\ ~working
        /\ \A w \in Workers : ~promised[w] /\ ~hasThread[w]
        /\ \A c \in Callers : pc[c] = "idle"
    BY ThreadSets DEF Init, WorkerInit
  <1>2. AliveInv
    BY <1>1 DEF AliveInv, MembersAlive, PromiseInv, Progress
  <1> QED
    BY <1>2, IInvInit DEF AliveIInv

LEMMA AliveStep == AliveIInv /\ [Next]_vars => AliveIInv'
  <1> SUFFICES ASSUME AliveIInv, [Next]_vars PROVE AliveIInv'
    OBVIOUS
  <1>1. IInv /\ IInv'
    BY IInvStep DEF AliveIInv
  <1>2. CASE UNCHANGED vars
    <2>1. UNCHANGED <<working, members, serves, promised, hasThread, stopFlag, pc, at>>
      BY <1>2 DEF vars, workerVars, poolVars
    <2>2. \A w : Alive(w)' <=> Alive(w)
      BY <2>1 DEF Alive
    <2>3. AliveInv'
      BY <2>1, <2>2 DEF AliveIInv, AliveInv, MembersAlive, NobodyInTail, Down,
         PromiseInv, Progress, Visits
    <2> QED
      BY <1>1, <2>3 DEF AliveIInv
  <1>3. ASSUME NEW t \in Threads, Push(t) PROVE AliveInv'
    BY <1>1, <1>3, PushGentle, GentleStep
  <1>4. ASSUME NEW w \in Workers, WorkerStep(w) \/ WorkerWakes(w) PROVE AliveInv'
    BY <1>1, <1>4, WorkerGentle, GentleStep, ThreadSets
  <1>5. ASSUME NEW c \in Callers, Command(c) PROVE AliveInv'
    <2>1. CASE Start(c)
      BY <1>1, <2>1, CommandGentle, GentleStep, StartEnterAlive, StartWorkerAlive,
         StartJoinAlive, StartDoneAlive, ThreadSets DEF Start
    <2>2. CASE Pause(c)
      BY <1>1, <2>2, CommandGentle, GentleStep, ThreadSets
    <2>3. CASE Stop(c)
      BY <1>1, <2>3, CommandGentle, GentleStep, StopEnterAlive, StopClearAlive,
         StopWorkerAlive, StopJoinAlive, StopUnlockAlive, StopTailAlive, ThreadSets
         DEF Stop
    <2>4. CASE Remove(c)
      BY <1>1, <2>4, CommandGentle, GentleStep, RemoveEnterAlive, RemovePriorityAlive,
         RemoveStopAlive, RemoveJoinAlive, RemoveDoneAlive, ThreadSets DEF Remove
    <2>5. CASE \E b \in BOOLEAN : LockPool(c, b)
      BY <1>1, <2>5, CommandGentle, GentleStep, ThreadSets
    <2>6. CASE \E w \in Workers : AddWorker(c, w)
      BY <1>1, <2>6, AddWorkerAlive
    <2> QED
      BY <1>5, <2>1, <2>2, <2>3, <2>4, <2>5, <2>6 DEF Command
  <1> QED
    BY <1>1, <1>2, <1>3, <1>4, <1>5 DEF Next, AliveIInv

\* A pool that works has a live thread for each of its workers, whatever any
\* number of threads of the program call: nothing between start() and the end
\* of stop() leaves a worker without one but the call that is taking it down
\* (ThreadPool::start, stop, push(worker), remove_workers; ThreadWorker::start).
THEOREM ThreadsStayAlive == Spec => []WorkersAlive
  <1>1. AliveIInv => WorkersAlive
    <2> SUFFICES ASSUME AliveIInv, working, poolMutex = None, ~StopUnderWay,
                        NEW w \in members
                 PROVE  hasThread[w] /\ pc[w] # "idle" /\ ~stopFlag[w]
      BY DEF WorkersAlive
    <2>1. \A c \in Callers : pc[c] \notin HoldLabels \cup {"stopTail"}
      BY ThreadSets DEF AliveIInv, IInv, Structure, MutexInv, StopUnderWay, StopLabels
    <2>2. Alive(w)
      BY <2>1 DEF AliveIInv, AliveInv, MembersAlive, NobodyInTail, Down, HoldLabels
    <2> QED
      BY <2>2 DEF Alive
  <1> QED
    BY <1>1, AliveInit, AliveStep, PTL DEF Spec

-----------------------------------------------------------------------------
(* What the program may call: the conditions of the theorems about stop() *)

Stops(c) == Allowed[c] \cap {"stop", "stopNow"} # {}

\* Only one thread of the program stops the pool.
OneStopper == \A c, d \in Callers : Stops(c) /\ Stops(d) => c = d

\* Nobody locks the JobPool by hand.
NoHandLock == \A c \in Callers : "lock" \notin Allowed[c]

-----------------------------------------------------------------------------
(* The lock of stop() *)

InStop(c) == pc[c] \in {"clearing", "stopping", "joining"}

Stopping == \E c \in Callers : InStop(c)

StopInv ==
  /\ \A c \in Callers : pc[c] \in StopLabels => Stops(c)
  /\ Stopping => working

StopIInv == AliveIInv /\ StopInv

\* No caller enters, leaves or goes on with stop().
KeepsStops ==
  \A c \in Callers : {pc[c], pc'[c]} \cap StopLabels # {} => pc'[c] = pc[c]

LEMMA PushKeepsStops ==
  ASSUME IInv, IInv', NEW t \in Threads, Push(t)
  PROVE  KeepsStops /\ UNCHANGED <<locked, working>>
  <1> USE ThreadSets DEF IInv, TypedControl, TypeOK, PoolTypeOK
  <1>1. \A c \in Callers \ {t} : pc'[c] = pc[c]
    BY PushPlain, OtherCallers DEF Plain
  <1>2. Gentle(t)
    BY PushGentle
  <1>3. KeepsStops
    BY <1>1, <1>2 DEF KeepsStops, Gentle, Rearranging, StopLabels
  <1>4. UNCHANGED <<locked, working>>
    BY DEF Push, PushCheck, PushRefused, PushAdmitted, Enqueue, PushBack, NotifyEnter,
       NotifyWorker, NotifyDone, jobPoolVars, poolVars
  <1> QED
    BY <1>3, <1>4

LEMMA WorkerKeepsStops ==
  ASSUME IInv, IInv', NEW w \in Workers, WorkerStep(w) \/ WorkerWakes(w)
  PROVE  KeepsStops /\ UNCHANGED <<locked, working>>
  <1>1. Others(w)
    BY WorkerGentle DEF Gentle
  <1>2. KeepsStops
    BY <1>1, OtherCallers, ThreadSets DEF KeepsStops
  <1>3. UNCHANGED <<locked, working>>
    BY DEF WorkerStep, WorkerWakes, RunLoop, SpuriousWake, LockAndCheck, ScanQueue,
       BlockInWait, Take, PopFront, RecheckStop, FinishJob, ExitThread, jobPoolVars,
       poolVars
  <1> QED
    BY <1>2, <1>3

LEMMA CommandKeepsStops ==
  ASSUME IInv, IInv', NEW c \in Callers, Command(c), ~Stop(c)
  PROVE  /\ KeepsStops
         /\ working => working'
         /\ NoHandLock => (locked' => locked)
  <1> USE ThreadSets DEF IInv, TypedControl, TypeOK, PoolTypeOK
  <1>1. \A d \in Callers \ {c} : pc'[d] = pc[d]
    BY CommandShape, OtherCallers DEF Quiet, Others
  <1>2. pc[c] \notin StopLabels /\ pc'[c] \notin StopLabels
    <2>1. CASE Start(c)
      BY <2>1 DEF Start, StartEnter, StartWorker, StartJoin, StartDone, Issues, Enters,
         Leaves, SignalStop, StartThread, StartFails, Join, StopLabels
    <2>2. CASE Pause(c)
      BY <2>2 DEF Pause, PauseEnter, PauseWorker, PauseDone, SetPause, Issues, Enters,
         Leaves, StopLabels
    <2>3. CASE Remove(c)
      BY <2>3 DEF Remove, RemoveClear, RemoveEnter, RemovePriority, RemoveStop,
         RemoveJoin, RemoveDone, DropPriority, SignalStop, Join, Enters, Leaves, Issues,
         StopLabels
    <2>4. CASE \E b \in BOOLEAN : LockPool(c, b)
      BY <2>4 DEF LockPool, Issues, StopLabels
    <2>5. CASE \E w \in Workers : AddWorker(c, w)
      BY <2>5 DEF AddWorker, Issues, StopLabels
    <2> QED
      BY <2>1, <2>2, <2>3, <2>4, <2>5 DEF Command
  <1>3. KeepsStops
    BY <1>1, <1>2 DEF KeepsStops
  <1>4. working => working'
    BY DEF Command, Start, StartEnter, StartWorker, StartJoin, StartDone, Pause,
       PauseEnter, PauseWorker, PauseDone, Remove, RemoveClear, RemoveEnter,
       RemovePriority, RemoveStop, RemoveJoin, RemoveDone, LockPool, AddWorker, poolVars
  <1>5. NoHandLock => (locked' => locked)
    BY DEF NoHandLock, Command, Start, StartEnter, StartWorker, StartJoin, StartDone,
       Pause, PauseEnter, PauseWorker, PauseDone, Remove, RemoveClear, RemoveEnter,
       RemovePriority, RemoveStop, RemoveJoin, RemoveDone, LockPool, AddWorker, Issues,
       ClearQueues, SetLocked, jobPoolVars
  <1> QED
    BY <1>3, <1>4, <1>5

\* The only stopper finds a thread in every worker it comes to.
LEMMA StopSignals ==
  ASSUME OneStopper, StopIInv, IInv', NEW c \in Callers, StopWorker(c)
  PROVE  pc'[c] = "joining"
  <1> USE ThreadSets DEF StopIInv, AliveIInv, IInv, TypedControl, TypeOK, PoolTypeOK
  <1>1. Others(c)
    BY StopWorkerPlain DEF Plain
  <1>2. PICK w \in Workers :
          /\ Visits(c, w)
          /\ SignalStop(c, w, "joining") \/ ~hasThread[w]
    BY DEF StopWorker
  <1>3. pc[c] = "stopping" /\ working
    BY DEF StopWorker, StopInv, Stopping, InStop
  <1>4. NobodyInTail
    BY <1>3 DEF NobodyInTail, OneStopper, StopInv, StopLabels
  <1>5. Alive(w) \/ \E d \in Callers : Down(d, w)
    BY <1>2, <1>3, <1>4 DEF AliveInv, MembersAlive, Visits
  <1>6. \A d \in Callers : ~Down(d, w)
    <2>1. \A d \in Callers \ {c} : ~Down(d, w)
      BY <1>1, <1>3, AloneInPool DEF Alone, HoldLabels
    <2>2. ~Down(c, w)
      BY <1>2, <1>3 DEF Down, Visits
    <2> QED
      BY <2>1, <2>2
  <1>7. hasThread[w]
    BY <1>5, <1>6 DEF Alive
  <1> QED
    BY <1>2, <1>7 DEF SignalStop

\* Where stop() goes, and what it does to the lock and to working_.
LEMMA StopMoves ==
  ASSUME OneStopper, StopIInv, IInv', NEW c \in Callers, Stop(c)
  PROVE  /\ \A d \in Callers \ {c} : pc'[d] = pc[d]
         /\ \/ /\ InStop(c)'
               /\ Stops(c) /\ working /\ working'
            \/ /\ pc[c] = "stopping" /\ pc'[c] = "stopTail"
               /\ ~locked'
            \/ /\ pc[c] \in {"idle", "stopTail"} /\ pc'[c] = "idle"
               /\ locked' = locked
               /\ pc[c] = "idle" => working' = working
  <1> USE ThreadSets DEF StopIInv, AliveIInv, IInv, TypedControl, TypeOK, PoolTypeOK
  <1>1. \A d \in Callers \ {c} : pc'[d] = pc[d]
    BY CommandShape, OtherCallers DEF Command, Quiet, Others
  <1>2. ASSUME NEW b \in BOOLEAN, StopEnter(c, b), working
        PROVE  InStop(c)' /\ Stops(c) /\ working'
    BY <1>2 DEF StopEnter, Issues, Enters, InStop, Stops
  <1>3. ASSUME NEW b \in BOOLEAN, StopEnter(c, b), ~working
        PROVE  /\ pc[c] = "idle" /\ pc'[c] = "idle"
               /\ UNCHANGED <<locked, working>>
    BY <1>3 DEF StopEnter, Issues, jobPoolVars
  <1>4. ASSUME InStop(c) PROVE Stops(c) /\ working
    BY <1>4 DEF StopInv, Stopping, InStop, StopLabels
  <1>5. CASE StopClear(c)
    BY <1>1, <1>4, <1>5 DEF StopClear, InStop, poolVars
  <1>6. CASE StopWorker(c)
    BY <1>1, <1>4, <1>6, StopSignals DEF StopWorker, InStop
  <1>7. CASE StopJoin(c)
    BY <1>1, <1>4, <1>7 DEF StopJoin, Join, InStop, poolVars
  <1>8. CASE StopUnlock(c)
    BY <1>1, <1>8 DEF StopUnlock, Leaves, SetLocked
  <1>9. CASE StopTail(c)
    BY <1>1, <1>9 DEF StopTail, jobPoolVars
  <1> QED
    BY <1>1, <1>2, <1>3, <1>5, <1>6, <1>7, <1>8, <1>9 DEF Stop

LEMMA StopInvInit == Init => StopIInv
  <1> SUFFICES ASSUME Init PROVE StopIInv
    OBVIOUS
  <1>1. \A c \in Callers : pc[c] = "idle"
    BY ThreadSets DEF Init, WorkerInit
  <1> QED
    BY <1>1, AliveInit DEF StopIInv, StopInv, Stopping, InStop, StopLabels

\* With one stopper, a step keeps StopInv, and the lock outlives no stop().
LEMMA StopInvStep ==
  ASSUME OneStopper
  PROVE  StopIInv /\ [Next]_vars =>
           /\ StopIInv'
           /\ NoHandLock /\ (locked => Stopping) => (locked' => Stopping')
  <1> SUFFICES ASSUME StopIInv, [Next]_vars
               PROVE  /\ StopIInv'
                      /\ NoHandLock /\ (locked => Stopping) => (locked' => Stopping')
    OBVIOUS
  <1>1. IInv /\ AliveIInv' /\ IInv'
    BY AliveStep DEF StopIInv, AliveIInv
  <1>2. ASSUME KeepsStops, working => working', NoHandLock => (locked' => locked)
        PROVE  /\ StopInv'
               /\ NoHandLock /\ (locked => Stopping) => (locked' => Stopping')
    BY <1>2 DEF KeepsStops, StopIInv, StopInv, Stopping, InStop, StopLabels
  <1>3. ASSUME NEW t \in Threads, Push(t)
        PROVE  KeepsStops /\ UNCHANGED <<locked, working>>
    BY <1>1, <1>3, PushKeepsStops
  <1>4. ASSUME NEW w \in Workers, WorkerStep(w) \/ WorkerWakes(w)
        PROVE  KeepsStops /\ UNCHANGED <<locked, working>>
    BY <1>1, <1>4, WorkerKeepsStops
  <1>5. ASSUME NEW c \in Callers, Command(c), ~Stop(c)
        PROVE  /\ KeepsStops
               /\ working => working'
               /\ NoHandLock => (locked' => locked)
    BY <1>1, <1>5, CommandKeepsStops
  <1>6. ASSUME UNCHANGED vars
        PROVE  KeepsStops /\ UNCHANGED <<locked, working>>
    BY <1>6 DEF vars, workerVars, poolVars, jobPoolVars, KeepsStops
  <1>7. ASSUME NEW c \in Callers, Stop(c)
        PROVE  /\ StopInv'
               /\ NoHandLock /\ (locked => Stopping) => (locked' => Stopping')
    <2>1. \A d \in Callers \ {c} : pc'[d] = pc[d]
      BY <1>1, <1>7, StopMoves
    <2>2. CASE InStop(c)' /\ Stops(c) /\ working'
      <3>1. StopInv'
        BY <2>1, <2>2 DEF StopIInv, StopInv, InStop, StopLabels
      <3> QED
        BY <2>2, <3>1 DEF Stopping
    <2>3. CASE pc[c] = "stopping" /\ pc'[c] = "stopTail" /\ ~locked'
      <3>1. \A d \in Callers : ~InStop(d)'
        BY <2>1, <2>3 DEF OneStopper, StopIInv, StopInv, InStop, StopLabels
      <3> QED
        BY <2>1, <2>3, <3>1 DEF StopIInv, StopInv, Stopping, StopLabels
    <2>4. CASE /\ pc[c] \in {"idle", "stopTail"} /\ pc'[c] = "idle"
               /\ locked' = locked
               /\ pc[c] = "idle" => working' = working
      <3>1. pc[c] = "stopTail" => \A d \in Callers : ~InStop(d)
        BY <2>4 DEF OneStopper, StopIInv, StopInv, InStop, StopLabels
      <3>2. \A d \in Callers : InStop(d)' <=> InStop(d)
        BY <2>1, <2>4 DEF InStop
      <3> QED
        BY <2>1, <2>4, <3>1, <3>2 DEF StopIInv, StopInv, Stopping, StopLabels
    <2> QED
      BY <1>1, <1>7, <2>2, <2>3, <2>4, StopMoves
  <1> QED
    BY <1>1, <1>2, <1>3, <1>4, <1>5, <1>6, <1>7 DEF Next, StopIInv

\* The lock of stop() is released on every exit of the call, in a pool of any
\* size that one thread stops and nobody locks by hand: under MembersAlive its
\* early return, at a worker without a thread, is never taken
\* (ThreadPool::stop, ThreadWorker::stop).
THEOREM LockIsReleased ==
  ASSUME OneStopper, NoHandLock
  PROVE  Spec => []LockEndsWithStop
  <1>1. Init => StopIInv /\ (locked => Stopping)
    BY StopInvInit DEF Init, JobPoolInit
  <1>2. StopIInv /\ (locked => Stopping) /\ [Next]_vars
          => StopIInv' /\ (locked => Stopping)'
    BY StopInvStep
  <1>3. (locked => Stopping) => LockEndsWithStop
    BY DEF Stopping, InStop, LockEndsWithStop
  <1> QED
    BY <1>1, <1>2, <1>3, PTL DEF Spec

-----------------------------------------------------------------------------
(* stop() drains the queues *)

\* Every worker serves the same priorities.
Uniform == \A v, w \in Workers : Range(Served(v)) = Range(Served(w))

\* Nobody takes workers out.
NoRemoval == \A c \in Callers : "remove" \notin Allowed[c]

RemoveLabels == {"removeEnter", "removing", "removeStop", "removeJoin"}

FixedInv ==
  /\ \A c \in Callers : pc[c] \notin RemoveLabels
  /\ \A w \in Workers : serves[w] = Range(Served(w))

\* The jobs some worker can take.
Backlog == UNION {Queued(p) : p \in UNION {Range(Served(w)) : w \in Workers}}

\* Worker w will look into the queues again before it leaves its loop.
Seeks(w) == hasThread[w] /\ pc[w] \notin {"idle", "exiting", "recheck"}

\* A worker whose promise_ is used and that is not alive never is again.
Fallen(w) == promised[w] /\ ~Alive(w)

\* The pool does not work, or is about to, and cannot be started again.
Broken ==
  /\ \E w \in members : Fallen(w)
  /\ ~working \/ \E c \in Callers : pc[c] = "stopTail"

\* As long as there are jobs somebody seeks them; and when there are none
\* somebody is there who has not just been promised one, so that of the
\* workers that run into an empty queue not all leave (run(): pop() failed,
\* thread_stop_ is read after mutex_ was released).
SeekerInv ==
  IF Stopping
  THEN members # {} => (\E w \in Workers : Seeks(w)) \/ Backlog \subseteq late
  ELSE (\E w \in Workers : hasThread[w]) /\ ~Broken =>
         \E w \in Workers : Seeks(w) /\ (Backlog = {} => pc[w] # "take")

\* What a worker that was told to stop has seen empty has stayed so, but for
\* what came during the stop.
ScanInv ==
  \A w \in Workers : pc[w] = "scan" /\ stopFlag[w] /\ Stopping =>
    \A k \in 1 .. Len(Served(w)) : k < at[w] => Queued(Served(w)[k]) \subseteq late

DrainInv == StopIInv /\ FixedInv /\ SeekerInv /\ ScanInv

-----------------------------------------------------------------------------
(* Nobody is taken out, and who has fallen stays so *)

LEMMA CommandFixed ==
  ASSUME NoRemoval, IInv, IInv', FixedInv, NEW c \in Callers, Command(c)
  PROVE  /\ ~Remove(c)
         /\ FixedInv'
         /\ members \subseteq members'
         /\ UNCHANGED <<serves, late>>
  <1> USE ThreadSets DEF IInv, TypedControl, TypeOK, PoolTypeOK
  <1>1. ~Remove(c)
    BY DEF NoRemoval, FixedInv, RemoveLabels, Remove, RemoveClear, RemoveEnter,
       RemovePriority, RemoveStop, RemoveJoin, RemoveDone, Issues
  <1>2. \A d \in Callers \ {c} : pc'[d] = pc[d]
    BY CommandShape, OtherCallers DEF Quiet, Others
  <1>3. pc'[c] \notin RemoveLabels
    <2>1. CASE Start(c)
      BY <2>1 DEF Start, StartEnter, StartWorker, StartJoin, StartDone, Issues, Enters,
         Leaves, SignalStop, StartThread, StartFails, Join, RemoveLabels
    <2>2. CASE Pause(c)
      BY <2>2 DEF Pause, PauseEnter, PauseWorker, PauseDone, SetPause, Issues, Enters,
         Leaves, RemoveLabels
    <2>3. CASE Stop(c)
      <3>1. CASE StopWorker(c) \/ StopJoin(c)
        BY <3>1 DEF StopWorker, StopJoin, SignalStop, Join, Leaves, RemoveLabels
      <3>2. ASSUME NEW b \in BOOLEAN, StopEnter(c, b) PROVE pc'[c] \notin RemoveLabels
        <4>1. CASE working
          BY <3>2, <4>1 DEF StopEnter, Enters, RemoveLabels
        <4>2. CASE ~working
          BY <3>2, <4>2 DEF StopEnter, Issues, RemoveLabels
        <4> QED
          BY <4>1, <4>2
      <3> QED
        BY <2>3, <3>1, <3>2 DEF Stop, StopClear, StopUnlock, StopTail, Leaves,
           RemoveLabels
    <2>4. CASE \E b \in BOOLEAN : LockPool(c, b)
      BY <2>4 DEF LockPool, Issues, RemoveLabels
    <2>5. CASE \E w \in Workers : AddWorker(c, w)
      BY <2>5 DEF AddWorker, Issues, RemoveLabels
    <2> QED
      BY <1>1, <2>1, <2>2, <2>3, <2>4, <2>5 DEF Command
  <1>4. UNCHANGED <<serves, late>> /\ members \subseteq members'
    BY <1>1 DEF Command, Start, StartEnter, StartWorker, StartJoin, StartDone, Pause,
       PauseEnter, PauseWorker, PauseDone, Stop, StopEnter, StopClear, StopWorker,
       StopJoin, StopUnlock, StopTail, LockPool, AddWorker, SignalStop, StartThread,
       StartFails, SetPause, Join, workerData, poolVars
  <1>5. \A w \in Workers : Served(w)' = Served(w)
    BY DEF Served
  <1>6. FixedInv'
    BY <1>2, <1>3, <1>4, <1>5 DEF FixedInv
  <1> QED
    BY <1>1, <1>4, <1>6

LEMMA GentleFixed ==
  ASSUME IInv, IInv', FixedInv, NEW t \in Threads, Gentle(t),
         t \in Callers => pc'[t] \notin RemoveLabels
  PROVE  FixedInv'
  <1>1. \A w \in Workers : Served(w)' = Served(w)
    BY DEF Served
  <1> QED
    BY <1>1, OtherCallers DEF FixedInv, Gentle

\* What a command does to the threads of the workers.
LEMMA CommandThreads ==
  ASSUME IInv, NEW c \in Callers, Command(c), NEW v \in Workers
  PROVE  /\ pc'[v] = pc[v] \/ (pc[v] \in {"wait", "idle"} /\ pc'[v] = "lock")
         /\ Seeks(v) => Seeks(v)'
         /\ hasThread'[v] /\ ~hasThread[v] => pc'[v] = "lock"
         /\ Fallen(v) => Fallen(v)'
  <1> USE ThreadSets DEF IInv, TypedControl, TypeOK, PoolTypeOK, WorkerTypeOK
  <1>1. pc'[v] = pc[v] \/ (pc[v] \in {"wait", "idle"} /\ pc'[v] = "lock")
    BY CommandShape DEF Quiet
  <1>2. ASSUME NEW w \in Workers, NEW label, NEW p, NEW b \in BOOLEAN,
               \/ SignalStop(c, w, label)
               \/ Join(c, w, label)
               \/ StartThread(c, w, label)
               \/ StartFails(c, w, label)
               \/ SetPause(c, w, b, label)
               \/ DropPriority(c, w, p, label)
        PROVE  /\ hasThread[v] /\ pc[v] # "idle" => hasThread'[v]
               /\ hasThread'[v] /\ ~hasThread[v] => pc'[v] = "lock"
               /\ promised[v] => /\ promised'[v]
                                 /\ hasThread'[v] => hasThread[v]
                                 /\ hasThread[v] /\ stopFlag[v] => stopFlag'[v]
                                 /\ pc[v] = "idle" => pc'[v] = "idle"
    <2>1. CASE SignalStop(c, w, label)
      BY <2>1 DEF SignalStop, Woken
    <2>2. CASE Join(c, w, label)
      BY <2>2 DEF Join
    <2>3. CASE StartThread(c, w, label)
      BY <2>3 DEF StartThread, Startable
    <2>4. CASE StartFails(c, w, label)
      BY <2>4 DEF StartFails
    <2>5. CASE SetPause(c, w, b, label) \/ DropPriority(c, w, p, label)
      BY <2>5 DEF SetPause, DropPriority, Woken
    <2> QED
      BY <1>2, <2>1, <2>2, <2>3, <2>4, <2>5
  <1>4. v # c
    OBVIOUS
  <1>3. /\ hasThread[v] /\ pc[v] # "idle" => hasThread'[v]
        /\ hasThread'[v] /\ ~hasThread[v] => pc'[v] = "lock"
        /\ promised[v] => /\ promised'[v]
                          /\ hasThread'[v] => hasThread[v]
                          /\ hasThread[v] /\ stopFlag[v] => stopFlag'[v]
                          /\ pc[v] = "idle" => pc'[v] = "idle"
    <2>1. CASE UNCHANGED <<hasThread, promised, stopFlag>> /\ pc'[v] = pc[v]
      BY <2>1
    <2>2. CASE StartWorker(c) \/ StartJoin(c)
      BY <1>2, <2>2 DEF StartWorker, StartJoin
    <2>3. CASE PauseWorker(c)
      BY <1>2, <2>3 DEF PauseWorker
    <2>4. CASE StopWorker(c) \/ StopJoin(c)
      BY <1>2, <2>1, <2>4 DEF StopWorker, StopJoin, Leaves, workerData
    <2>5. CASE RemovePriority(c) \/ RemoveStop(c) \/ RemoveJoin(c)
      BY <1>2, <2>1, <2>5 DEF RemovePriority, RemoveStop, RemoveJoin, workerData
    <2>6. CASE \E w \in Workers : AddWorker(c, w)
      BY <2>1, <2>6 DEF AddWorker, Startable
    <2>7. CASE StartEnter(c) \/ StartDone(c)
      BY <2>1, <2>7 DEF StartEnter, StartDone, Enters, Leaves, workerData
    <2>8. CASE (\E b \in BOOLEAN : PauseEnter(c, b)) \/ PauseDone(c)
      BY <2>1, <2>8 DEF PauseEnter, PauseDone, Enters, Leaves, workerData
    <2>9. CASE \E b \in BOOLEAN : StopEnter(c, b) \/ LockPool(c, b)
      <3>1. UNCHANGED <<hasThread, promised, stopFlag>>
        BY <2>9 DEF StopEnter, LockPool, workerData
      <3>2. pc'[v] = pc[v]
        BY <1>4, <2>9 DEF StopEnter, LockPool, Enters
      <3> QED
        BY <2>1, <3>1, <3>2
    <2>10. CASE StopClear(c) \/ StopUnlock(c) \/ StopTail(c)
      BY <2>1, <2>10 DEF StopClear, StopUnlock, StopTail, Leaves, workerData
    <2>11. CASE (\E p \in Priorities : RemoveClear(c, p)) \/ RemoveEnter(c) \/ RemoveDone(c)
      <3>1. UNCHANGED <<hasThread, promised, stopFlag>>
        BY <2>11 DEF RemoveClear, RemoveEnter, RemoveDone, workerData
      <3>2. pc'[v] = pc[v]
        BY <1>4, <2>11 DEF RemoveClear, RemoveEnter, RemoveDone, Enters, Leaves
      <3> QED
        BY <2>1, <3>1, <3>2
    <2> QED
      BY <2>2, <2>3, <2>4, <2>5, <2>6, <2>7, <2>8, <2>9, <2>10, <2>11
      DEF Command, Start, Pause, Stop, Remove
  <1> QED
    BY <1>1, <1>3 DEF Seeks, Fallen, Alive

LEMMA ServedPriorities ==
  \A w \in Workers : Range(Served(w)) \subseteq Priorities
  BY WorkerAssumption, ElementOfSeq DEF Range, Served

LEMMA BacklogShrinks ==
  ASSUME \A p \in Priorities : Queued(p)' \subseteq Queued(p)
  PROVE  Backlog' \subseteq Backlog
  <1>1. \A w \in Workers : Served(w)' = Served(w)
    BY DEF Served
  <1> QED
    BY <1>1, ServedPriorities DEF Backlog

\* A command leaves the queues alone, but for stop() when it clears them.
LEMMA CommandBacklog ==
  ASSUME NoRemoval, IInv, IInv', FixedInv, NEW c \in Callers, Command(c)
  PROVE  /\ \A p \in Priorities : Queued(p)' \subseteq Queued(p)
         /\ Backlog' \subseteq Backlog
         /\ Backlog' = Backlog \/ InStop(c)
  <1>1. \A p \in Priorities : Queued(p)' \subseteq Queued(p)
    BY CommandShape DEF Quiet
  <1>2. ~Remove(c)
    BY CommandFixed
  <1>3. UNCHANGED queue \/ StopClear(c)
    BY <1>2 DEF Command, Start, StartEnter, StartWorker, StartJoin, StartDone, Pause,
       PauseEnter, PauseWorker, PauseDone, Stop, StopEnter, StopWorker, StopJoin,
       StopUnlock, StopTail, LockPool, AddWorker, SetLocked, jobPoolVars
  <1>4. CASE UNCHANGED queue
    <2>1. \A w \in Workers : Served(w)' = Served(w)
      BY DEF Served
    <2>2. Backlog' = Backlog
      BY <1>4, <2>1 DEF Backlog, Queued
    <2> QED
      BY <1>1, <2>2
  <1>5. CASE StopClear(c)
    BY <1>1, <1>5, BacklogShrinks DEF StopClear, InStop
  <1> QED
    BY <1>3, <1>4, <1>5

\* What a push does to the queues.
LEMMA PushBacklog ==
  ASSUME IInv, NEW t \in Threads, Push(t), NEW p \in Priorities
  PROVE  /\ Queued(p) \subseteq Queued(p)'
         /\ late \subseteq late'
         /\ Stopping => Queued(p)' \subseteq Queued(p) \cup late'
  <1> USE DEF IInv, TypedControl, TypeOK, PoolTypeOK, JobPoolTypeOK
  <1>1. CASE UNCHANGED <<queue, late>>
    BY <1>1 DEF Queued
  <1>2. CASE Enqueue(t)
    <2>1. pushing[t] \in Jobs
      BY <1>2 DEF Enqueue, Control, PushControl, PushLabels
    <2>2. /\ late \subseteq late'
          /\ Stopping => pushing[t] \in late'
      BY <1>2 DEF Enqueue, StopUnderWay, Stopping, InStop, StopLabels
    <2>3. CASE p # PriorityOf[pushing[t]]
      <3>1. Queued(p)' = Queued(p)
        BY <1>2, <2>1, <2>3 DEF Enqueue, PushBack, Queued
      <3> QED
        BY <2>2, <3>1
    <2>4. CASE p = PriorityOf[pushing[t]]
      <3>1. queue'[p] = Append(queue[p], pushing[t]) /\ queue[p] \in Seq(Jobs)
        BY <1>2, <2>1, <2>4 DEF Enqueue, PushBack
      <3>2. Queued(p)' = Queued(p) \cup {pushing[t]}
        BY <2>1, <3>1, RangeOfAppend DEF Queued
      <3> QED
        BY <2>2, <3>2
    <2> QED
      BY <2>3, <2>4
  <1> QED
    BY <1>1, <1>2 DEF Push, PushCheck, PushRefused, PushAdmitted, NotifyEnter,
       NotifyWorker, NotifyDone, jobPoolVars, poolVars

\* A pool that is broken stays so.
LEMMA StaysBroken ==
  ASSUME OneStopper, StopIInv, members \subseteq members', Broken,
         \A w \in Workers : Fallen(w) => Fallen(w)',
         \A c \in Callers : pc'[c] = pc[c] \/ pc[c] # "stopTail" \/ ~working',
         working' => working \/ \A w \in members : Alive(w)
  PROVE  Broken'
  <1>1. \E w \in members' : Fallen(w)'
    BY DEF Broken, StopIInv, AliveIInv, IInv, TypedControl, TypeOK, PoolTypeOK
  <1>2. ~working' \/ \E c \in Callers : pc'[c] = "stopTail"
    <2>1. CASE working
      BY <2>1 DEF Broken
    <2>2. CASE ~working
      BY <2>2 DEF Broken, Fallen
    <2> QED
      BY <2>1, <2>2
  <1> QED
    BY <1>1, <1>2 DEF Broken

\* Steps that neither enter nor leave stop() and after which nobody who sought
\* jobs has gone.
LEMMA SeekersStay ==
  ASSUME SeekerInv, Stopping' <=> Stopping, Broken => Broken',
         Stopping => members' = members,
         \A v \in Workers :
           /\ Seeks(v) => Seeks(v)' /\ (pc'[v] = "take" => pc[v] = "take")
           /\ hasThread'[v] => hasThread[v] \/ pc'[v] = "lock",
         Backlog' = {} => Backlog = {} \/ Stopping,
         Stopping /\ Backlog \subseteq late => Backlog' \subseteq late'
  PROVE  SeekerInv'
  <1>1. CASE Stopping
    BY <1>1 DEF SeekerInv
  <1>2. CASE ~Stopping
    <2> SUFFICES ASSUME NEW u \in Workers, hasThread'[u], ~Broken'
                 PROVE  \E w \in Workers : Seeks(w)' /\ (Backlog' = {} => pc'[w] # "take")
      BY <1>2 DEF SeekerInv
    <2>1. CASE pc'[u] = "lock"
      BY <2>1 DEF Seeks
    <2>2. CASE pc'[u] # "lock"
      <3>1. PICK w \in Workers : Seeks(w) /\ (Backlog = {} => pc[w] # "take")
        BY <1>2, <2>2 DEF SeekerInv
      <3> QED
        BY <1>2, <3>1
    <2> QED
      BY <2>1, <2>2
  <1> QED
    BY <1>1, <1>2

-----------------------------------------------------------------------------
(* The steps of a worker *)

\* A thread in its loop is that of a member with priorities.
LEMMA InLoop ==
  ASSUME DrainInv, NEW w \in Workers, pc[w] # "idle"
  PROVE  /\ hasThread[w] /\ promised[w] /\ w \in members
         /\ serves[w] # {} /\ serves[w] = Range(Served(w))
  <1>1. hasThread[w]
    BY DEF DrainInv, StopIInv, AliveIInv, IInv, TypedControl, Control, WorkerControl
  <1>2. serves[w] # {}
    BY <1>1 DEF DrainInv, StopIInv, AliveIInv, IInv, Structure, EmptiedInv, FixedInv,
       RemoveLabels
  <1> QED
    BY <1>1, <1>2 DEF DrainInv, StopIInv, AliveIInv, IInv, Structure, MemberInv,
       FixedInv, AliveInv, PromiseInv

\* The queue a worker has looked at in vain is empty.
LEMMA NotCounted ==
  ASSUME DrainInv, NEW w \in Workers, pc[w] = "scan", ~CountedNow(w),
         NEW k \in 1 .. Len(Served(w)), k = at[w]
  PROVE  Queued(Served(w)[k]) = {}
  <1>1. serves[w] # {} /\ serves[w] = Range(Served(w))
    BY InLoop
  <1>2. Served(w)[k] \in Range(Served(w))
    BY WorkerAssumption DEF Range, Served
  <1>3. queue[Served(w)[k]] = <<>>
    BY <1>1, <1>2 DEF CountedNow
  <1> QED
    BY <1>3, RangeOfEmpty DEF Queued

\* A worker leaves its loop because it was told to, and leaves nothing behind.
LEMMA ScanEnds ==
  ASSUME Uniform, DrainInv, NEW w \in Workers, ScanQueue(w), pc'[w] = "exiting"
  PROVE  /\ Stopping => Backlog \subseteq late
         /\ ~Stopping => Broken
  <1> USE ThreadSets DEF DrainInv, StopIInv, AliveIInv, IInv, TypedControl, TypeOK,
          PoolTypeOK
  <1>1. /\ pc[w] = "scan" /\ stopFlag[w]
        /\ ~CountedNow(w) /\ LastCounted(w)
    BY DEF ScanQueue
  <1>2. /\ hasThread[w] /\ promised[w] /\ w \in members
        /\ serves[w] # {} /\ serves[w] = Range(Served(w))
    BY <1>1, InLoop
  <1>3. at[w] \in Nat /\ at[w] >= Len(Served(w))
    BY <1>1, <1>2 DEF LastCounted
  <1>4. ASSUME Stopping PROVE Backlog \subseteq late
    <2>1. ASSUME NEW k \in 1 .. Len(Served(w))
          PROVE  Queued(Served(w)[k]) \subseteq late
      <3>1. CASE k < at[w]
        BY <1>1, <1>4, <3>1 DEF ScanInv
      <3>2. CASE k = at[w]
        BY <1>1, <3>2, NotCounted
      <3>3. Len(Served(w)) \in Nat
        BY WorkerAssumption, LenProperties DEF Served
      <3> QED
        BY <1>3, <3>1, <3>2, <3>3
    <2>2. \A p \in Range(Served(w)) : Queued(p) \subseteq late
      BY <2>1, WorkerAssumption, LenProperties DEF Range, Served
    <2> QED
      BY <2>2 DEF Uniform, Backlog
  <1>5. ASSUME ~Stopping PROVE Broken
    <2>1. ~Alive(w)
      BY <1>1 DEF Alive
    <2>2. \A c \in Callers : ~Down(c, w)
      BY <1>5 DEF Down, Stopping, InStop, FixedInv, RemoveLabels
    <2>3. ~working \/ ~NobodyInTail
      BY <1>2, <2>1, <2>2 DEF AliveInv, MembersAlive
    <2> QED
      BY <1>2, <2>1, <2>3 DEF Broken, Fallen, NobodyInTail
  <1> QED
    BY <1>4, <1>5

LEMMA TakeFindsNothing ==
  ASSUME Uniform, DrainInv, NEW w \in Workers, Take(w), pc'[w] = "recheck"
  PROVE  Backlog = {}
  <1>1. pc[w] = "take" /\ \A p \in serves[w] : queue[p] = <<>>
    BY ThreadSets DEF Take, DrainInv, StopIInv, AliveIInv, IInv, TypedControl, TypeOK,
       PoolTypeOK
  <1>2. \A p \in Range(Served(w)) : Queued(p) = {}
    BY <1>1, InLoop, RangeOfEmpty DEF Queued
  <1> QED
    BY <1>2 DEF Uniform, Backlog

LEMMA ScanFindsSome ==
  ASSUME DrainInv, NEW w \in Workers, ScanQueue(w), pc'[w] = "take"
  PROVE  Backlog # {}
  <1> USE ThreadSets DEF DrainInv, StopIInv, AliveIInv, IInv, TypedControl, TypeOK,
          PoolTypeOK
  <1>1. pc[w] = "scan" /\ CountedNow(w)
    BY DEF ScanQueue
  <1>2. serves[w] # {} /\ serves[w] = Range(Served(w))
    BY <1>1, InLoop
  <1>3. PICK p \in Range(Served(w)) : queue[p] # <<>>
    BY <1>1, <1>2 DEF CountedNow
  <1>4. queue[p] \in Seq(Jobs)
    BY <1>3, ServedPriorities DEF JobPoolTypeOK
  <1>5. Head(queue[p]) \in Queued(p)
    BY <1>3, <1>4, LenProperties DEF Queued, Range
  <1> QED
    BY <1>3, <1>5 DEF Backlog

\* What a step of worker w leaves alone, and how w itself goes on.
LEMMA WorkerFrame ==
  ASSUME DrainInv, IInv', NEW w \in Workers, WorkerStep(w) \/ WorkerWakes(w)
  PROVE  /\ \A v \in Workers \ {w} :
              pc'[v] = pc[v] /\ at'[v] = at[v] /\ stopFlag'[v] = stopFlag[v]
         /\ UNCHANGED <<members, hasThread, promised, working, late>>
         /\ \A p \in Priorities : Queued(p)' \subseteq Queued(p)
         /\ queue' = queue \/ (pc[w] = "take" /\ pc'[w] = "run")
         /\ Stopping' <=> Stopping
         /\ Broken => Broken'
  <1> USE ThreadSets DEF DrainInv, StopIInv, AliveIInv, IInv, TypedControl, TypeOK,
          PoolTypeOK, WorkerTypeOK
  <1>1. /\ UNCHANGED poolVars
        /\ RunLoop(w) \/ SpuriousWake(w)
    BY DEF WorkerStep, WorkerWakes
  <1>2. \A v \in Workers \ {w} :
          pc'[v] = pc[v] /\ at'[v] = at[v] /\ stopFlag'[v] = stopFlag[v]
    BY <1>1 DEF RunLoop, SpuriousWake, LockAndCheck, ScanQueue, BlockInWait, Take,
       RecheckStop, FinishJob, ExitThread
  <1>3. Gentle(w)
    BY WorkerGentle
  <1>4. UNCHANGED <<members, hasThread, promised, working, late>>
    BY <1>1, <1>3 DEF Gentle, poolVars
  <1>5. \A c \in Callers : pc'[c] = pc[c]
    BY <1>3, OtherCallers DEF Gentle
  <1>6. Stopping' <=> Stopping
    BY <1>5 DEF Stopping, InStop
  <1>7. queue' = queue \/ Take(w)
    BY <1>1 DEF RunLoop, SpuriousWake, LockAndCheck, ScanQueue, BlockInWait,
       RecheckStop, FinishJob, ExitThread, jobPoolVars
  <1>8. \A p \in Priorities : Queued(p)' \subseteq Queued(p)
    BY <1>7, TakeShrinks DEF Queued
  <1>9. queue' = queue \/ (pc[w] = "take" /\ pc'[w] = "run")
    BY <1>7 DEF Take, jobPoolVars
  <1>10. Fallen(w) => Fallen(w)'
    BY <1>1, <1>4 DEF Fallen, Alive, RunLoop, SpuriousWake, LockAndCheck, ScanQueue,
       BlockInWait, Take, RecheckStop, FinishJob, ExitThread
  <1>11. \A v \in Workers : Fallen(v) => Fallen(v)'
    BY <1>2, <1>4, <1>10 DEF Fallen, Alive
  <1>12. Broken => Broken'
    BY <1>4, <1>5, <1>11 DEF Broken
  <1> QED
    BY <1>2, <1>4, <1>6, <1>8, <1>9, <1>12

\* Who has a thread and leaves the search was told to, or found nothing.
LEMMA WorkerGoes ==
  ASSUME Uniform, DrainInv, NEW w \in Workers, WorkerStep(w) \/ WorkerWakes(w),
         Seeks(w), UNCHANGED hasThread
  PROVE  /\ \/ Seeks(w)'
            \/ pc[w] = "take" /\ Backlog = {}
            \/ pc[w] = "scan" /\ (Stopping => Backlog \subseteq late)
                              /\ (~Stopping => Broken)
         /\ pc'[w] = "take" => pc[w] = "scan" /\ Backlog # {}
  <1> USE ThreadSets DEF DrainInv, StopIInv, AliveIInv, IInv, TypedControl, TypeOK,
          PoolTypeOK, WorkerStep, WorkerWakes, RunLoop
  <1>1. CASE ScanQueue(w)
    <2>1. /\ pc[w] = "scan"
          /\ pc'[w] \in {"take", "scan", "exiting", "block"}
      BY <1>1 DEF ScanQueue
    <2>2. CASE pc'[w] = "exiting"
      BY <1>1, <2>1, <2>2, ScanEnds
    <2>3. CASE pc'[w] = "take"
      BY <1>1, <2>1, <2>3, ScanFindsSome DEF Seeks
    <2>4. CASE pc'[w] \in {"scan", "block"}
      BY <2>4 DEF Seeks
    <2> QED
      BY <2>1, <2>2, <2>3, <2>4
  <1>2. CASE Take(w)
    <2>1. pc[w] = "take" /\ pc'[w] \in {"run", "recheck"}
      BY <1>2 DEF Take
    <2>2. CASE pc'[w] = "recheck"
      BY <1>2, <2>1, <2>2, TakeFindsNothing
    <2>3. CASE pc'[w] = "run"
      BY <2>3 DEF Seeks
    <2> QED
      BY <2>1, <2>2, <2>3
  <1>3. CASE LockAndCheck(w) \/ BlockInWait(w) \/ FinishJob(w) \/ SpuriousWake(w)
    <2>1. pc'[w] \in {"block", "scan", "wait", "lock"}
      BY <1>3 DEF LockAndCheck, BlockInWait, FinishJob, SpuriousWake
    <2> QED
      BY <2>1 DEF Seeks
  <1>4. CASE RecheckStop(w) \/ ExitThread(w)
    BY <1>4 DEF RecheckStop, ExitThread, Seeks
  <1> QED
    BY <1>1, <1>2, <1>3, <1>4

LEMMA WorkerSeekers ==
  ASSUME Uniform, DrainInv, IInv', NEW w \in Workers, WorkerStep(w) \/ WorkerWakes(w)
  PROVE  SeekerInv'
  <1>1. /\ \A v \in Workers \ {w} : pc'[v] = pc[v]
        /\ UNCHANGED <<members, hasThread, late>>
        /\ Backlog' \subseteq Backlog
        /\ Stopping' <=> Stopping
        /\ Broken => Broken'
    BY WorkerFrame, BacklogShrinks
  <1>2. \A v \in Workers \ {w} : Seeks(v) => Seeks(v)'
    BY <1>1 DEF Seeks
  <1>3. Backlog' = Backlog \/ (Seeks(w)' /\ pc'[w] = "run")
    <2>1. CASE queue' = queue
      <3>1. \A v \in Workers : Served(v)' = Served(v)
        BY DEF Served
      <3> QED
        BY <2>1, <3>1 DEF Backlog, Queued
    <2>2. CASE pc[w] = "take" /\ pc'[w] = "run"
      BY <1>1, <2>2, InLoop DEF Seeks
    <2> QED
      BY <2>1, <2>2, WorkerFrame
  <1>4. CASE Stopping
    <2>1. SUFFICES ASSUME members # {}, ~(Backlog' \subseteq late')
                   PROVE  \E v \in Workers : Seeks(v)'
      BY <1>1, <1>4 DEF SeekerInv
    <2>2. ~(Backlog \subseteq late)
      BY <1>1, <2>1
    <2>3. PICK v \in Workers : Seeks(v)
      BY <1>4, <2>1, <2>2 DEF DrainInv, SeekerInv
    <2> QED
      BY <1>1, <1>2, <1>4, <2>2, <2>3, WorkerGoes
  <1>5. CASE ~Stopping
    <2>1. SUFFICES ASSUME \E v \in Workers : hasThread[v], ~Broken
                   PROVE  \E v \in Workers : Seeks(v)' /\ (Backlog' = {} => pc'[v] # "take")
      BY <1>1, <1>5 DEF SeekerInv
    <2>2. CASE Backlog' # Backlog
      BY <1>3, <2>2
    <2>3. CASE Backlog' = Backlog
      <3>1. PICK v \in Workers : Seeks(v) /\ (Backlog = {} => pc[v] # "take")
        BY <1>5, <2>1 DEF DrainInv, SeekerInv
      <3>2. CASE v # w
        BY <1>1, <1>2, <2>3, <3>1, <3>2
      <3>3. CASE v = w
        BY <1>1, <1>5, <2>1, <2>3, <3>1, <3>3, WorkerGoes
      <3> QED
        BY <3>2, <3>3
    <2> QED
      BY <2>2, <2>3
  <1> QED
    BY <1>4, <1>5

LEMMA WorkerScans ==
  ASSUME DrainInv, IInv', NEW w \in Workers, WorkerStep(w) \/ WorkerWakes(w)
  PROVE  ScanInv'
  <1> USE ThreadSets DEF DrainInv, StopIInv, AliveIInv, IInv, TypedControl, TypeOK,
          PoolTypeOK
  <1> SUFFICES ASSUME NEW v \in Workers, pc'[v] = "scan", stopFlag'[v], Stopping',
                      NEW k \in 1 .. Len(Served(v)), k < at'[v]
               PROVE  Queued(Served(v)[k])' \subseteq late'
    BY DEF ScanInv, Served
  <1>1. Served(v)[k] \in Priorities
    BY WorkerAssumption, ElementOfSeq DEF Served
  <1>2. Queued(Served(v)[k])' \subseteq Queued(Served(v)[k]) /\ late' = late /\ Stopping
    BY <1>1, WorkerFrame
  <1>3. Queued(Served(v)[k]) \subseteq late
    <2>1. CASE v # w
      <3>1. pc[v] = "scan" /\ stopFlag[v] /\ k < at[v]
        BY <2>1, WorkerFrame
      <3>2. ScanInv
        OBVIOUS
      <3> QED
        BY <1>2, <3>1, <3>2 DEF ScanInv
    <2>2. CASE v = w /\ ScanQueue(w)
      <3>1. /\ pc[w] = "scan" /\ ~CountedNow(w) /\ at'[w] = at[w] + 1
            /\ stopFlag[w]
        BY <2>2 DEF ScanQueue
      <3>2. CASE k < at[w]
        BY <1>2, <2>2, <3>1, <3>2 DEF ScanInv
      <3>3. CASE k = at[w]
        BY <2>2, <3>1, <3>3, NotCounted
      <3> QED
        BY <2>2, <3>1, <3>2, <3>3
    <2>3. CASE v = w /\ LockAndCheck(w)
      <3>1. at'[w] = 1
        BY <2>3 DEF LockAndCheck
      <3> QED
        BY <2>3, <3>1
    <2> QED
      BY <2>1, <2>2, <2>3 DEF WorkerStep, WorkerWakes, RunLoop, SpuriousWake,
         BlockInWait, Take, RecheckStop, FinishJob, ExitThread
  <1> QED
    BY <1>2, <1>3

-----------------------------------------------------------------------------
(* The steps of a push and of the commands *)

LEMMA PushDrains ==
  ASSUME OneStopper, DrainInv, IInv', NEW t \in Threads, Push(t)
  PROVE  FixedInv' /\ SeekerInv' /\ ScanInv'
  <1>0. IInv /\ StopIInv /\ FixedInv /\ SeekerInv /\ ScanInv
    BY DEF DrainInv, StopIInv, AliveIInv
  <1>1. /\ Gentle(t) /\ Others(t)
        /\ UNCHANGED <<members, hasThread, promised, working>>
    BY <1>0, PushGentle DEF Gentle
  <1>2. UNCHANGED stopFlag
    BY DEF Push, PushCheck, Enqueue, NotifyEnter, NotifyWorker, NotifyDone, NotifyOne,
       workerData
  <1>3. FixedInv'
    BY <1>0, <1>1, GentleFixed, PushMoves DEF RemoveLabels, PushLabels
  <1>4. \A c \in Callers :
          /\ InStop(c)' <=> InStop(c)
          /\ pc[c] = "stopTail" <=> pc'[c] = "stopTail"
    BY <1>0, PushKeepsStops DEF KeepsStops, InStop, StopLabels
  <1>5. \A v \in Workers :
          /\ pc[v] \in {"idle", "exiting"} <=> pc'[v] \in {"idle", "exiting"}
          /\ pc[v] = "recheck" <=> pc'[v] = "recheck"
          /\ pc'[v] \in {"take", "scan"} => pc'[v] = pc[v] /\ v # t
    BY <1>0, PushMoves, ThreadSets DEF Woken, PushLabels
  <1>6. \A p \in Priorities :
          /\ Queued(p) \subseteq Queued(p)'
          /\ late \subseteq late'
          /\ Stopping => Queued(p)' \subseteq Queued(p) \cup late'
    BY <1>0, PushBacklog
  <1>7. \A w \in Workers : Served(w)' = Served(w)
    BY DEF Served
  <1>8. SeekerInv'
    <2>1. Stopping' <=> Stopping
      BY <1>4 DEF Stopping
    <2>2. Broken => Broken'
      BY <1>0, <1>1, <1>2, <1>4, <1>5 DEF Broken, Fallen, Alive, IInv, TypedControl, TypeOK,
         PoolTypeOK
    <2>3. \A v \in Workers :
            /\ Seeks(v) => Seeks(v)' /\ (pc'[v] = "take" => pc[v] = "take")
            /\ hasThread'[v] => hasThread[v] \/ pc'[v] = "lock"
      BY <1>1, <1>5 DEF Seeks
    <2>4. Backlog \subseteq Backlog'
      BY <1>6, <1>7, ServedPriorities DEF Backlog
    <2>5. Stopping /\ Backlog \subseteq late => Backlog' \subseteq late'
      <3> SUFFICES ASSUME Stopping, Backlog \subseteq late,
                          NEW w \in Workers, NEW p \in Range(Served(w))
                   PROVE  Queued(p)' \subseteq late'
        BY <1>7 DEF Backlog
      <3>1. p \in Priorities /\ Queued(p) \subseteq late
        BY ServedPriorities DEF Backlog
      <3> QED
        BY <1>6, <3>1
    <2> QED
      BY <1>0, <1>1, <2>1, <2>2, <2>3, <2>4, <2>5, SeekersStay
  <1>9. ScanInv'
    <2> SUFFICES ASSUME NEW v \in Workers, pc'[v] = "scan", stopFlag'[v], Stopping',
                        NEW k \in 1 .. Len(Served(v)), k < at'[v]
                 PROVE  Queued(Served(v)[k])' \subseteq late'
      BY <1>7 DEF ScanInv
    <2>1. pc[v] = "scan" /\ at'[v] = at[v] /\ stopFlag[v] /\ Stopping
      BY <1>1, <1>2, <1>4, <1>5, ThreadSets DEF Others, Stopping
    <2>2. Served(v)[k] \in Priorities
      BY WorkerAssumption, ElementOfSeq DEF Served
    <2>3. Queued(Served(v)[k]) \subseteq late
      BY <1>0, <2>1 DEF ScanInv
    <2> QED
      BY <1>6, <2>1, <2>2, <2>3
  <1> QED
    BY <1>3, <1>8, <1>9

\* stop() finds every worker alive.
LEMMA EntersStop ==
  ASSUME OneStopper, NoRemoval, DrainInv, IInv', NEW c \in Callers, Command(c),
         ~Stopping, Stopping'
  PROVE  ~Broken /\ \A w \in members : Alive(w)
  <1> USE ThreadSets DEF DrainInv, StopIInv, AliveIInv, IInv, TypedControl, TypeOK,
          PoolTypeOK
  <1>1. Stop(c)
    BY CommandKeepsStops DEF KeepsStops, Stopping, InStop, StopLabels
  <1>2. InStop(c)' /\ Stops(c) /\ working
    BY <1>1, StopMoves DEF Stopping, InStop
  <1>3. pc[c] # "stopTail"
    BY <1>1, <1>2 DEF Stop, StopEnter, StopClear, StopWorker, StopJoin, StopUnlock,
       StopTail, Issues, InStop
  <1>4. NobodyInTail
    BY <1>2, <1>3 DEF NobodyInTail, OneStopper, StopInv, StopLabels
  <1>5. \A d \in Callers : \A w : ~Down(d, w)
    BY DEF Down, Stopping, InStop, FixedInv, RemoveLabels
  <1>6. \A w \in members : Alive(w)
    BY <1>2, <1>4, <1>5 DEF AliveInv, MembersAlive
  <1> QED
    BY <1>2, <1>4, <1>6 DEF Broken, NobodyInTail

\* Nothing changes in the vector while stop() goes through it.
LEMMA StoppedMembers ==
  ASSUME NoRemoval, DrainInv, IInv', NEW c \in Callers, Command(c), Stopping
  PROVE  members' = members
  <1>1. ~Remove(c)
    BY CommandFixed DEF DrainInv, StopIInv, AliveIInv
  <1>2. poolMutex # None
    BY ThreadSets DEF Stopping, InStop, DrainInv, StopIInv, AliveIInv, IInv, Structure,
       MutexInv, HoldLabels
  <1> QED
    BY <1>1, <1>2 DEF Command, Start, StartEnter, StartWorker, StartJoin, StartDone,
       Pause, PauseEnter, PauseWorker, PauseDone, Stop, StopEnter, StopClear, StopWorker,
       StopJoin, StopUnlock, StopTail, LockPool, AddWorker, poolVars

LEMMA CommandKeepsBroken ==
  ASSUME OneStopper, NoRemoval, DrainInv, IInv', NEW c \in Callers, Command(c), Broken
  PROVE  Broken'
  <1>1. StopIInv /\ IInv /\ FixedInv
    BY DEF DrainInv, StopIInv, AliveIInv
  <1>2. members \subseteq members' /\ ~Remove(c)
    BY <1>1, CommandFixed
  <1>3. \A w \in Workers : Fallen(w) => Fallen(w)'
    BY <1>1, CommandThreads
  <1>4. ASSUME NEW d \in Callers, pc[d] = "stopTail", pc'[d] # pc[d]
        PROVE  ~working'
    <2>1. d = c
      BY <1>1, <1>4, CommandShape, OtherCallers, ThreadSets DEF Quiet, Others
    <2>2. Stop(c)
      BY <1>1, <1>4, CommandKeepsStops DEF KeepsStops, StopLabels
    <2>3. StopTail(c)
      BY <1>4, <2>1, <2>2 DEF Stop, StopEnter, StopClear, StopWorker, StopJoin,
         StopUnlock, Issues
    <2> QED
      BY <2>3 DEF StopTail
  <1>5. ASSUME working', ~working PROVE \A w \in members : Alive(w)
    <2>1. StartDone(c)
      BY <1>2, <1>5 DEF Command, Start, StartEnter, StartWorker, StartJoin, Pause,
         PauseEnter, PauseWorker, PauseDone, Stop, StopEnter, StopClear, StopWorker,
         StopJoin, StopUnlock, StopTail, LockPool, AddWorker, poolVars
    <2> QED
      BY <1>1, <2>1 DEF StartDone, AllVisited, StopIInv, AliveIInv, AliveInv, Progress
  <1> QED
    BY <1>1, <1>2, <1>3, <1>4, <1>5, StaysBroken

LEMMA CommandSeekers ==
  ASSUME OneStopper, NoRemoval, DrainInv, IInv', NEW c \in Callers, Command(c)
  PROVE  SeekerInv'
  <1>1. StopIInv /\ IInv /\ FixedInv /\ SeekerInv
    BY DEF DrainInv, StopIInv, AliveIInv
  <1>2. /\ late' = late
        /\ Backlog' \subseteq Backlog
        /\ Backlog' = Backlog \/ Stopping
    BY <1>1, CommandFixed, CommandBacklog DEF Stopping
  <1>3. \A v \in Workers :
          /\ Seeks(v) => Seeks(v)' /\ (pc'[v] = "take" => pc[v] = "take")
          /\ hasThread'[v] => hasThread[v] \/ pc'[v] = "lock"
    BY <1>1, CommandThreads
  <1>4. CASE Stopping' <=> Stopping
    BY <1>1, <1>2, <1>3, <1>4, CommandKeepsBroken, StoppedMembers, SeekersStay
  <1>5. CASE ~Stopping /\ Stopping'
    <2>1. ~Broken /\ \A w \in members : Alive(w)
      BY <1>5, EntersStop
    <2>2. members' = members
      <3>1. Stop(c)
        BY <1>1, <1>5, CommandKeepsStops DEF KeepsStops, Stopping, InStop, StopLabels
      <3> QED
        BY <3>1 DEF Stop, StopEnter, StopClear, StopWorker, StopJoin, StopUnlock,
           StopTail, poolVars
    <2>3. members \subseteq Workers
      BY <1>1 DEF IInv, TypedControl, TypeOK, PoolTypeOK
    <2>4. members # {} => \E v \in Workers : Seeks(v)
      BY <1>1, <1>5, <2>1, <2>3 DEF SeekerInv, Alive
    <2> QED
      BY <1>3, <1>5, <2>2, <2>4 DEF SeekerInv
  <1>6. CASE Stopping /\ ~Stopping'
    <2>1. Stop(c)
      BY <1>1, <1>6, CommandKeepsStops DEF KeepsStops, Stopping, InStop, StopLabels
    <2>2. pc[c] = "stopping" /\ pc'[c] = "stopTail"
      <3>1. PICK d \in Callers : InStop(d)
        BY <1>6 DEF Stopping
      <3>2. d = c
        BY <1>1, <1>6, <2>1, <3>1, StopMoves DEF Stopping, InStop
      <3> QED
        BY <1>1, <1>6, <2>1, <3>1, <3>2, StopMoves DEF Stopping, InStop
    <2>3. StopUnlock(c)
      BY <1>1, <2>1, <2>2, ThreadSets DEF Stop, StopEnter, StopClear, StopWorker,
         StopJoin, StopTail, SignalStop, Leaves, Issues, IInv, TypedControl, TypeOK,
         PoolTypeOK
    <2>4. \A w \in members : ~hasThread[w]
      BY <1>1, <2>3 DEF StopUnlock, AllVisited, StopIInv, AliveIInv, AliveInv, Progress
    <2>5. \A w \in Workers : ~hasThread'[w]
      BY <1>1, <2>3, <2>4 DEF StopUnlock, workerData, IInv, Structure, MemberInv
    <2> QED
      BY <1>6, <2>5 DEF SeekerInv
  <1> QED
    BY <1>4, <1>5, <1>6

LEMMA CommandScans ==
  ASSUME OneStopper, NoRemoval, DrainInv, IInv', NEW c \in Callers, Command(c)
  PROVE  ScanInv'
  <1>1. IInv /\ FixedInv /\ ScanInv
    BY DEF DrainInv, StopIInv, AliveIInv
  <1> SUFFICES ASSUME NEW v \in Workers, pc'[v] = "scan", stopFlag'[v], Stopping',
                      NEW k \in 1 .. Len(Served(v)), k < at'[v]
               PROVE  Queued(Served(v)[k])' \subseteq late'
    BY DEF ScanInv, Served
  <1>2. pc[v] = "scan" /\ at'[v] = at[v] /\ stopFlag[v]
    BY <1>1, CommandShape, ThreadSets DEF Quiet
  <1>3. CASE Stopping
    <2>1. Served(v)[k] \in Priorities
      BY WorkerAssumption, ElementOfSeq DEF Served
    <2>2. Queued(Served(v)[k])' \subseteq Queued(Served(v)[k]) /\ late' = late
      BY <1>1, <2>1, CommandFixed, CommandBacklog
    <2> QED
      BY <1>1, <1>2, <1>3, <2>2 DEF ScanInv
  <1>4. CASE ~Stopping
    BY <1>2, <1>4, EntersStop, InLoop DEF Alive
  <1> QED
    BY <1>3, <1>4

-----------------------------------------------------------------------------
(* The theorem *)

LEMMA DrainInit == Init => DrainInv
  <1> SUFFICES ASSUME Init PROVE DrainInv
    OBVIOUS
  <1>1. /\ \A t \in Threads : pc[t] = "idle"
        /\ \A w \in Workers : ~hasThread[w] /\ serves[w] = Range(Served(w))
    BY DEF Init, WorkerInit
  <1>2. ~Stopping
    BY <1>1, ThreadSets DEF Stopping, InStop
  <1> QED
    BY <1>1, <1>2, StopInvInit, ThreadSets DEF DrainInv, FixedInv, RemoveLabels, SeekerInv,
       ScanInv

LEMMA DrainStep ==
  ASSUME OneStopper, NoRemoval, Uniform
  PROVE  DrainInv /\ [Next]_vars => DrainInv'
  <1> SUFFICES ASSUME DrainInv, [Next]_vars PROVE DrainInv'
    OBVIOUS
  <1>1. StopIInv /\ IInv /\ FixedInv
    BY DEF DrainInv, StopIInv, AliveIInv
  <1>2. StopIInv' /\ IInv'
    BY <1>1, StopInvStep DEF StopIInv, AliveIInv
  <1>3. ASSUME NEW t \in Threads, Push(t)
        PROVE  FixedInv' /\ SeekerInv' /\ ScanInv'
    BY <1>2, <1>3, PushDrains
  <1>4. ASSUME NEW w \in Workers, WorkerStep(w) \/ WorkerWakes(w)
        PROVE  FixedInv' /\ SeekerInv' /\ ScanInv'
    <2>1. FixedInv'
      BY <1>1, <1>2, <1>4, WorkerGentle, GentleFixed, ThreadSets
    <2> QED
      BY <1>2, <1>4, <2>1, WorkerSeekers, WorkerScans
  <1>5. ASSUME NEW c \in Callers, Command(c)
        PROVE  FixedInv' /\ SeekerInv' /\ ScanInv'
    BY <1>1, <1>2, <1>5, CommandFixed, CommandSeekers, CommandScans
  <1>6. CASE UNCHANGED vars
    <2>1. UNCHANGED <<queue, serves, hasThread, promised, stopFlag, pc, at, members,
                      working, late>>
      BY <1>6 DEF vars, jobPoolVars, workerVars, poolVars
    <2>2. \A w \in Workers : Served(w)' = Served(w)
      BY DEF Served
    <2>3. /\ Stopping' <=> Stopping
          /\ Backlog' = Backlog
          /\ Broken' <=> Broken
          /\ \A w : Seeks(w)' <=> Seeks(w)
      BY <2>1, <2>2 DEF Stopping, InStop, Backlog, Queued, Broken, Fallen, Alive, Seeks
    <2>4. FixedInv' /\ SeekerInv'
      BY <2>1, <2>2, <2>3 DEF DrainInv, FixedInv, SeekerInv
    <2>5. ScanInv'
      BY <2>1, <2>2, <2>3 DEF DrainInv, ScanInv, Queued
    <2> QED
      BY <1>2, <2>4, <2>5 DEF DrainInv
  <1> QED
    BY <1>2, <1>3, <1>4, <1>5, <1>6 DEF Next, DrainInv

\* stop() leaves no thread and no job that was accepted before it, in a pool of
\* any size that one thread stops, from which nobody takes workers out, and
\* whose workers serve the same priorities: no worker leaves its loop for the
\* empty queue it ran into unless another seeks on (ThreadWorker::run, has_job
\* and check_condition; ThreadPool::stop).
THEOREM StopLeavesNothing ==
  ASSUME OneStopper, NoRemoval, Uniform
  PROVE  Spec => []StopDrains
  <1>1. DrainInv => StopDrains
    <2> SUFFICES ASSUME DrainInv, NEW c \in Callers, pc[c] = "stopping", AllVisited(c)
                 PROVE  /\ \A w \in Workers : pc[w] = "idle" /\ ~hasThread[w]
                        /\ \A w \in members : \A p \in serves[w] : Queued(p) \subseteq late
      BY DEF StopDrains
    <2> USE DEF DrainInv, StopIInv, AliveIInv
    <2>1. \A w \in members : ~hasThread[w]
      BY DEF AllVisited, AliveInv, Progress
    <2>2. \A w \in Workers : pc[w] = "idle" /\ ~hasThread[w]
      BY <2>1 DEF IInv, Structure, MemberInv, TypedControl, Control, WorkerControl
    <2>3. members # {} => Backlog \subseteq late
      BY <2>2 DEF SeekerInv, Stopping, InStop, Seeks
    <2>4. \A w \in members : w \in Workers /\ serves[w] = Range(Served(w))
      BY DEF FixedInv, IInv, TypedControl, TypeOK, PoolTypeOK
    <2>5. \A w \in members : \A p \in serves[w] : Queued(p) \subseteq late
      BY <2>3, <2>4 DEF Backlog
    <2> QED
      BY <2>2, <2>5
  <1>2. DrainInv /\ [Next]_vars => DrainInv'
    BY DrainStep
  <1> QED
    BY <1>1, <1>2, DrainInit, PTL DEF Spec
=============================================================================
