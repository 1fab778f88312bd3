--------------------------- MODULE ConnectionProofs ---------------------------
(***************************************************************************)
(* What holds of a connection whatever its ends send: the types, that a    *)
(* client with a wrong key stays out, and that data leaves encrypted.  The *)
(* last needs that one worker of a pool runs what precedes a write; with   *)
(* several an end that is confirmed sends before it has made its key.      *)
(*                                                                         *)
(* The second half is about the order of the messages.  Between send() of  *)
(* one end and the application of the other a message passes the queues    *)
(* and the workers of two pools and a socket, and each stage is a job of   *)
(* its own.  With the workers DataHandler creates (DataHandler.cpp:222)    *)
(* these places form one line of fourteen ranks, in which no message       *)
(* overtakes another, nor the reply of the handshake.  From this follow    *)
(* that an end expires for a cause only, and that each direction is an     *)
(* OrderedChannel.                                                         *)
(***************************************************************************)
EXTENDS Connection, SequenceLemmas

Dos == {"encrypt", "compress", "send", "decompress", "decrypt", "receive",
        "file", "notify"}

Content == Messages["client"] \cup Messages["session"] \cup Handshake
           \cup {FileOf[m] : m \in DOMAIN FileOf} \cup BOOLEAN

JobT == [do : Dos, what : Content, sealed : BOOLEAN]

Steps == {"idle", "work", "expire", "confirm", "refuse", "notify", "reply",
          "assign"}

Conditions == {"None", "Waiting", "Confirmed", "Expired"}

\* The queues of the two pools: a job is in the queue of its priority.
Sorted(q) ==
  /\ q \in [Ends -> [Priorities -> Seq(JobT)]]
  /\ \A e \in Ends, p \in Priorities : \A i \in 1..Len(q[e][p]) :
        PriorityOf(q[e][p][i].do) = p

\* A worker at work has a job of a priority it serves.
WorkInv ==
  /\ doing \in [Ends -> [Workers -> [job : JobT \cup {None}, step : Steps]]]
  /\ \A e \in Ends, w \in Workers : doing[e][w].step # "idle" =>
        /\ doing[e][w].job \in JobT
        /\ PriorityOf(doing[e][w].job.do) \in Range(Serves[w])
        /\ doing[e][w].step # "work" => doing[e][w].job.do = "receive"

HistoryInv ==
  /\ sent \in [Ends -> Seq(Content)]
  /\ received \in [Ends -> Seq(Content)]
  /\ told \in [Ends -> Seq(Content)]
  /\ troubled \in BOOLEAN
  /\ revived \in BOOLEAN

ConnectionInv ==
  /\ condition \in [Ends -> Conditions]
  /\ Sorted(queue)
  /\ closed \in [Ends -> BOOLEAN]
  /\ WorkInv
  /\ reader \in [Ends -> {"ready", "expiring", "done"}]
  /\ stream \in [Ends -> Seq(JobT)]
  /\ up \in BOOLEAN
  /\ sameKey \in BOOLEAN
  /\ cipher \in [Ends -> BOOLEAN]
  /\ HistoryInv

-----------------------------------------------------------------------------
(* Jobs and queues *)

LEMMA JobHasType ==
  ASSUME NEW do \in Dos, NEW what \in Content, NEW sealed \in BOOLEAN
  PROVE  Job(do, what, sealed) \in JobT
  BY DEF Job, JobT

LEMMA PriorityIsOne == \A do \in Dos : PriorityOf(do) \in Priorities
  BY DEF Dos, PriorityOf, Priorities

LEMMA PeerIsEnd == \A e \in Ends : Peer(e) \in Ends /\ Peer(e) # e
  BY DEF Ends, Peer

\* What is queued at an end.
JobsOf(q, e) == UNION {Range(q[e][p]) : p \in Priorities}

\* The jobs of an end, queued or with a worker.
InHand(e) == {doing[e][w].job : w \in {v \in Workers : doing[e][v].step # "idle"}}
JobsAt(e) == JobsOf(queue, e) \cup InHand(e)

\* Pushing keeps the queues sorted, and adds nothing but the job.
LEMMA QueuedIsSorted ==
  ASSUME ConnectionInv, NEW q, Sorted(q), NEW e \in Ends, NEW job \in JobT
  PROVE  /\ Sorted(Queued(q, e, job))
         /\ JobsOf(Queued(q, e, job), e) \subseteq JobsOf(q, e) \cup {job}
         /\ \A f \in Ends \ {e} : JobsOf(Queued(q, e, job), f) = JobsOf(q, f)
  <1> DEFINE p == PriorityOf(job.do)
             r == Queued(q, e, job)
  <1>1. p \in Priorities /\ job.do \in Dos
    BY PriorityIsOne DEF JobT
  <1>2. CASE closed[e]
    BY <1>2 DEF Queued
  <1>3. CASE ~closed[e]
    <2>1. r = [q EXCEPT ![e][p] = Append(@, job)]
      BY <1>3 DEF Queued
    <2>2. q[e][p] \in Seq(JobT)
      BY <1>1 DEF Sorted
    <2>3. /\ Append(q[e][p], job) \in Seq(JobT)
          /\ Len(Append(q[e][p], job)) = Len(q[e][p]) + 1
          /\ \A i \in 1..Len(q[e][p]) : Append(q[e][p], job)[i] = q[e][p][i]
          /\ Append(q[e][p], job)[Len(q[e][p]) + 1] = job
      BY <2>2, AppendProperties
    <2>4. /\ r \in [Ends -> [Priorities -> Seq(JobT)]]
          /\ r[e][p] = Append(q[e][p], job)
          /\ \A o \in Priorities \ {p} : r[e][o] = q[e][o]
          /\ \A f \in Ends \ {e} : r[f] = q[f]
      BY <2>1, <2>3, <1>1 DEF Sorted
    <2>5. Sorted(r)
      <3> SUFFICES ASSUME NEW f \in Ends, NEW o \in Priorities,
                          NEW i \in 1..Len(r[f][o])
                   PROVE  PriorityOf(r[f][o][i].do) = o
        BY <2>4 DEF Sorted
      <3>1. CASE f = e /\ o = p
        <4>1. Len(q[e][p]) \in Nat
          BY <2>2, LenProperties
        <4>2. i \in 1..Len(q[e][p]) \/ i = Len(q[e][p]) + 1
          BY <3>1, <2>3, <2>4, <4>1
        <4>3. r[f][o] = Append(q[e][p], job)
          BY <3>1, <2>4
        <4>4. CASE i \in 1..Len(q[e][p])
          <5>1. r[f][o][i] = q[e][p][i]
            BY <4>3, <4>4, <2>3
          <5> QED
            BY <5>1, <4>4, <3>1, <1>1 DEF Sorted
        <4>5. CASE i = Len(q[e][p]) + 1
          <5>1. r[f][o][i] = job
            BY <4>3, <4>5, <2>3
          <5> QED
            BY <5>1, <3>1
        <4> QED
          BY <4>2, <4>4, <4>5
      <3>2. CASE f # e \/ o # p
        BY <3>2, <2>4 DEF Sorted
      <3> QED
        BY <3>1, <3>2
    <2>6. Range(r[e][p]) = Range(q[e][p]) \cup {job}
      BY <2>2, <2>4, RangeOfAppend
    <2> QED
      BY <2>4, <2>5, <2>6 DEF JobsOf
  <1> QED
    BY <1>2, <1>3

\* send() queues one job.
SendJob(what) ==
  Job(IF what \in Handshake THEN "compress" ELSE "encrypt", what, FALSE)

LEMMA SendIsQueued ==
  ASSUME NEW q, NEW e \in Ends, NEW what \in Content
  PROVE  /\ Send(q, e, what) = Queued(q, e, SendJob(what))
         /\ SendJob(what) \in JobT
  <1>1. (IF what \in Handshake THEN "compress" ELSE "encrypt") \in Dos
    BY DEF Dos
  <1> QED
    BY <1>1, JobHasType DEF Send, SendJob

LEMMA ContentHas ==
  /\ \A e \in Ends : Messages[e] \subseteq Content
  /\ \A m \in DOMAIN FileOf : FileOf[m] \in Content
  /\ Handshake \subseteq Content
  /\ BOOLEAN \subseteq Content
  BY DEF Content, Ends

LEMMA JobsHaveType ==
  ASSUME ConnectionInv, NEW e \in Ends
  PROVE  JobsAt(e) \subseteq JobT
  <1>1. \A p \in Priorities : Range(queue[e][p]) \subseteq JobT
    BY RangeInSet DEF ConnectionInv, Sorted
  <1> QED
    BY <1>1 DEF JobsAt, JobsOf, InHand, ConnectionInv, WorkInv


\* A worker that has done its job, or goes on with it, has no other job.
LEMMA DoneHand ==
  ASSUME ConnectionInv, NEW e \in Ends, NEW w \in Workers, Done(e, w)
  PROVE  /\ WorkInv'
         /\ \A f \in Ends : InHand(f)' \subseteq InHand(f)
         /\ doing'[e][w].step = "idle"
         /\ \A f \in Ends, v \in Workers :
              f # e \/ v # w => doing'[f][v] = doing[f][v]
  <1>1. /\ doing' \in [Ends -> [Workers -> [job : JobT \cup {None}, step : Steps]]]
        /\ doing'[e][w] = Idle
        /\ \A f \in Ends, v \in Workers :
              f # e \/ v # w => doing'[f][v] = doing[f][v]
    BY DEF ConnectionInv, WorkInv, Done, Idle, Steps
  <1>2. Idle.step = "idle"
    BY DEF Idle
  <1>3. WorkInv'
    BY <1>1, <1>2 DEF ConnectionInv, WorkInv
  <1>4. \A f \in Ends : InHand(f)' \subseteq InHand(f)
    BY <1>1, <1>2 DEF InHand
  <1> QED
    BY <1>1, <1>2, <1>3, <1>4

LEMMA GoesHand ==
  ASSUME ConnectionInv, NEW e \in Ends, NEW w \in Workers,
         NEW step \in Steps \ {"idle", "work"},
         Goes(e, w, step), doing[e][w].step # "idle",
         doing[e][w].job.do = "receive"
  PROVE  /\ WorkInv'
         /\ \A f \in Ends : InHand(f)' \subseteq InHand(f)
         /\ doing'[e][w].step = step
         /\ doing'[e][w].job = doing[e][w].job
         /\ \A f \in Ends, v \in Workers :
              f # e \/ v # w => doing'[f][v] = doing[f][v]
  <1> DEFINE Hands == [job : JobT \cup {None}, step : Steps]
             next == [doing[e][w] EXCEPT !.step = step]
  <1>1. doing \in [Ends -> [Workers -> Hands]] /\ doing[e][w] \in Hands
    BY DEF ConnectionInv, WorkInv
  <1>2. next \in Hands /\ next.step = step /\ next.job = doing[e][w].job
    BY <1>1
  <1>3. doing' = [doing EXCEPT ![e][w] = next]
    BY <1>1 DEF Goes
  <1> HIDE DEF next
  <1>4. /\ doing' \in [Ends -> [Workers -> Hands]]
        /\ doing'[e][w] = next
        /\ \A f \in Ends, v \in Workers :
              f # e \/ v # w => doing'[f][v] = doing[f][v]
    BY <1>1, <1>2, <1>3
  <1>5. WorkInv'
    <2> SUFFICES ASSUME NEW f \in Ends, NEW v \in Workers,
                        doing'[f][v].step # "idle"
                 PROVE  /\ doing'[f][v].job \in JobT
                        /\ PriorityOf(doing'[f][v].job.do) \in Range(Serves[v])
                        /\ doing'[f][v].step # "work"
                             => doing'[f][v].job.do = "receive"
      BY <1>4 DEF WorkInv
    <2>1. CASE f = e /\ v = w
      BY <2>1, <1>2, <1>4 DEF ConnectionInv, WorkInv
    <2>2. CASE f # e \/ v # w
      BY <2>2, <1>4 DEF ConnectionInv, WorkInv
    <2> QED
      BY <2>1, <2>2
  <1>6. \A f \in Ends : InHand(f)' \subseteq InHand(f)
    BY <1>2, <1>4 DEF InHand
  <1> QED
    BY <1>2, <1>4, <1>5, <1>6

\* A worker takes a job out of a queue.
LEMMA TakeHand ==
  ASSUME ConnectionInv, NEW e \in Ends, NEW w \in Workers, Take(e, w)
  PROVE  /\ WorkInv' /\ Sorted(queue)'
         /\ \A f \in Ends : JobsAt(f)' \subseteq JobsAt(f)
         /\ doing[e][w] = Idle
         /\ doing'[e][w].step = "work"
         /\ \A f \in Ends, v \in Workers :
              f # e \/ v # w => doing'[f][v] = doing[f][v]
  <1>1. PICK i \in Waiting(e, w) :
          LET p == Serves[w][i] IN
            /\ doing' = [doing EXCEPT ![e][w] = [job |-> Head(queue[e][p]),
                                                step |-> "work"]]
            /\ queue' = [queue EXCEPT ![e][p] = Tail(@)]
    BY DEF Take
  <1> DEFINE p == Serves[w][i]
             job == Head(queue[e][p])
  <1>2. /\ Serves[w] \in Seq(Priorities) /\ i \in 1..Len(Serves[w])
        /\ queue[e][p] # <<>>
    BY ConnectionAssumption DEF Waiting
  <1>3. p \in Priorities /\ p \in Range(Serves[w])
    BY <1>2, ElementOfSeq, LenProperties DEF Range
  <1>4. /\ queue[e][p] \in Seq(JobT)
        /\ \A k \in 1..Len(queue[e][p]) : PriorityOf(queue[e][p][k].do) = p
    BY <1>3 DEF ConnectionInv, Sorted
  <1>5. /\ job = queue[e][p][1] /\ Len(queue[e][p]) \in Nat \ {0}
        /\ Tail(queue[e][p]) \in Seq(JobT)
        /\ Len(Tail(queue[e][p])) = Len(queue[e][p]) - 1
        /\ \A k \in 1..Len(Tail(queue[e][p])) :
              Tail(queue[e][p])[k] = queue[e][p][k + 1]
    BY <1>2, <1>4, HeadTailProperties, EmptySeq, LenProperties
  <1>6. job \in JobT /\ PriorityOf(job.do) = p
    BY <1>4, <1>5, ElementOfSeq
  <1>7. /\ queue' \in [Ends -> [Priorities -> Seq(JobT)]]
        /\ queue'[e][p] = Tail(queue[e][p])
        /\ \A o \in Priorities \ {p} : queue'[e][o] = queue[e][o]
        /\ \A f \in Ends \ {e} : queue'[f] = queue[f]
    BY <1>1, <1>3, <1>5 DEF ConnectionInv, Sorted
  <1>8. /\ doing' \in [Ends -> [Workers -> [job : JobT \cup {None}, step : Steps]]]
        /\ doing'[e][w] = [job |-> job, step |-> "work"]
        /\ \A f \in Ends, v \in Workers :
              f # e \/ v # w => doing'[f][v] = doing[f][v]
    BY <1>1, <1>6 DEF ConnectionInv, WorkInv, Steps
  <1>9. WorkInv'
    <2> SUFFICES ASSUME NEW f \in Ends, NEW v \in Workers,
                        doing'[f][v].step # "idle"
                 PROVE  /\ doing'[f][v].job \in JobT
                        /\ PriorityOf(doing'[f][v].job.do) \in Range(Serves[v])
                        /\ doing'[f][v].step # "work"
                             => doing'[f][v].job.do = "receive"
      BY <1>8 DEF WorkInv
    <2>1. CASE f = e /\ v = w
      BY <2>1, <1>3, <1>6, <1>8
    <2>2. CASE f # e \/ v # w
      BY <2>2, <1>8 DEF ConnectionInv, WorkInv
    <2> QED
      BY <2>1, <2>2
  <1>10. Sorted(queue)'
    <2> SUFFICES ASSUME NEW f \in Ends, NEW o \in Priorities,
                        NEW k \in 1..Len(queue'[f][o])
                 PROVE  PriorityOf(queue'[f][o][k].do) = o
      BY <1>7 DEF Sorted
    <2>1. CASE f = e /\ o = p
      <3>1. queue'[f][o] = Tail(queue[e][p])
        BY <1>7, <2>1
      <3>2. k \in 1..Len(Tail(queue[e][p]))
        BY <3>1
      <3>3. queue'[f][o][k] = queue[e][p][k + 1] /\ k + 1 \in 1..Len(queue[e][p])
        BY <1>5, <3>1, <3>2
      <3> QED
        BY <1>4, <2>1, <3>3
    <2>2. CASE f # e \/ o # p
      BY <2>2, <1>7 DEF ConnectionInv, Sorted
    <2> QED
      BY <2>1, <2>2
  <1>11. /\ Range(queue'[e][p]) \subseteq Range(queue[e][p])
         /\ job \in Range(queue[e][p])
    BY <1>2, <1>4, <1>7, RangeOfTail
  <1>12. \A f \in Ends : JobsOf(queue', f) \subseteq JobsOf(queue, f)
    <2> SUFFICES ASSUME NEW f \in Ends, NEW o \in Priorities
                 PROVE  Range(queue'[f][o]) \subseteq Range(queue[f][o])
      BY DEF JobsOf
    <2> QED
      BY <1>7, <1>11
  <1>13. job \in JobsOf(queue, e)
    BY <1>3, <1>11 DEF JobsOf
  <1>14. \A f \in Ends : InHand(f)' \subseteq InHand(f) \cup JobsOf(queue, f)
    BY <1>8, <1>13 DEF InHand
  <1>15. \A f \in Ends : JobsAt(f)' \subseteq JobsAt(f)
    BY <1>12, <1>14 DEF JobsAt
  <1> QED
    BY <1>8, <1>9, <1>10, <1>15 DEF Take

-----------------------------------------------------------------------------
(* What each step does to the jobs.  No step brings a job to an end it is  *)
(* not a step of.                                                          *)

OnlyNew(e, new) ==
  \A f \in Ends : JobsAt(f)' \subseteq JobsAt(f) \cup IF f = e THEN new ELSE {}

OthersGoOn(e, w) ==
  \A f \in Ends, v \in Workers : f # e \/ v # w => doing'[f][v] = doing[f][v]

LEMMA PushBrings ==
  ASSUME ConnectionInv, NEW e \in Ends, NEW job \in JobT,
         \A f \in Ends : InHand(f)' \subseteq InHand(f), Push(e, job)
  PROVE  Sorted(queue)' /\ OnlyNew(e, {job})
  <1>1. /\ Sorted(queue')
        /\ JobsOf(queue', e) \subseteq JobsOf(queue, e) \cup {job}
        /\ \A f \in Ends \ {e} : JobsOf(queue', f) = JobsOf(queue, f)
    BY QueuedIsSorted DEF Push, ConnectionInv
  <1> QED
    BY <1>1 DEF OnlyNew, JobsAt, Sorted

LEMMA PushTwoBrings ==
  ASSUME ConnectionInv, NEW e \in Ends, NEW a \in JobT, NEW b \in JobT,
         \A f \in Ends : InHand(f)' \subseteq InHand(f),
         queue' = Queued(Queued(queue, e, a), e, b)
  PROVE  Sorted(queue)' /\ OnlyNew(e, {a, b})
  <1> DEFINE q == Queued(queue, e, a)
  <1>1. /\ Sorted(q)
        /\ JobsOf(q, e) \subseteq JobsOf(queue, e) \cup {a}
        /\ \A f \in Ends \ {e} : JobsOf(q, f) = JobsOf(queue, f)
    BY QueuedIsSorted DEF ConnectionInv
  <1> HIDE DEF q
  <1>2. /\ Sorted(queue')
        /\ JobsOf(queue', e) \subseteq JobsOf(q, e) \cup {b}
        /\ \A f \in Ends \ {e} : JobsOf(queue', f) = JobsOf(q, f)
    BY <1>1, QueuedIsSorted DEF q
  <1> QED
    BY <1>1, <1>2 DEF OnlyNew, JobsAt, Sorted

LEMMA SameHands ==
  ASSUME UNCHANGED doing
  PROVE  /\ WorkInv => WorkInv'
         /\ \A f \in Ends : InHand(f)' \subseteq InHand(f)
  BY DEF WorkInv, InHand

LEMMA SameQueues ==
  ASSUME UNCHANGED queue, \A f \in Ends : InHand(f)' \subseteq InHand(f)
  PROVE  /\ Sorted(queue) => Sorted(queue)'
         /\ \A e \in Ends : OnlyNew(e, {})
  BY DEF Sorted, OnlyNew, JobsAt, JobsOf

\* The job of the next stage.
NextJob(e, job) ==
  Job(CASE job.do = "encrypt" -> "compress" [] job.do = "compress" -> "send"
        [] job.do = "decompress" -> "decrypt" [] job.do = "decrypt" -> "receive",
      job.what,
      CASE job.do = "encrypt" -> cipher[e]
        [] job.do = "decrypt" -> (job.sealed /\ ~cipher[e])
        [] OTHER -> job.sealed)

Staged == {"encrypt", "compress", "decompress", "decrypt"}

LEMMA StageStep ==
  ASSUME ConnectionInv, NEW e \in Ends, NEW w \in Workers, Stage(e, w)
  PROVE  /\ ConnectionInv'
         /\ doing[e][w].job \in JobsAt(e) /\ doing[e][w].job.do \in Staged
         /\ doing[e][w].step = "work" /\ Done(e, w)
         /\ OnlyNew(e, IF condition[e] = "Expired" THEN {}
                       ELSE {NextJob(e, doing[e][w].job)})
  <1> DEFINE job == doing[e][w].job
             next == NextJob(e, job)
  <1>1. /\ doing[e][w].step = "work" /\ Done(e, w) /\ job.do \in Staged
        /\ UNCHANGED <<condition, closed, reader, link, cipher, traffic, told,
                       marks>>
        /\ UNCHANGED queue \/ (condition[e] # "Expired" /\ Push(e, next))
    BY DEF Stage, Staged, NextJob
  <1>2. job \in JobT /\ job \in InHand(e)
    BY <1>1 DEF ConnectionInv, WorkInv, InHand
  <1>3. next \in JobT
    <2>1. job.what \in Content /\ job.sealed \in BOOLEAN /\ cipher[e] \in BOOLEAN
      BY <1>2 DEF JobT, ConnectionInv
    <2>2. /\ next.do \in Dos /\ next.what = job.what /\ next.sealed \in BOOLEAN
          /\ next = Job(next.do, next.what, next.sealed)
      BY <1>1, <2>1 DEF NextJob, Job, Staged, Dos
    <2> QED
      BY <2>1, <2>2, JobHasType
  <1> HIDE DEF next
  <1>4. WorkInv' /\ \A f \in Ends : InHand(f)' \subseteq InHand(f)
    BY <1>1, DoneHand
  <1>5. CASE UNCHANGED queue
    <2>1. Sorted(queue)' /\ OnlyNew(e, {})
      BY <1>4, <1>5, SameQueues DEF ConnectionInv
    <2> QED
      BY <2>1, <1>1, <1>2, <1>4
         DEF ConnectionInv, HistoryInv, link, traffic, marks, OnlyNew, JobsAt, next
  <1>6. CASE condition[e] # "Expired" /\ Push(e, next)
    <2>1. Sorted(queue)' /\ OnlyNew(e, {next})
      BY <1>3, <1>4, <1>6, PushBrings
    <2> QED
      BY <2>1, <1>1, <1>2, <1>4, <1>6
         DEF ConnectionInv, HistoryInv, link, traffic, marks, OnlyNew, JobsAt, next
  <1> QED
    BY <1>1, <1>5, <1>6

LEMMA SendFileStep ==
  ASSUME ConnectionInv, NEW e \in Ends, NEW w \in Workers, SendFile(e, w)
  PROVE  /\ ConnectionInv'
         /\ doing[e][w].job \in JobsAt(e)
         /\ OnlyNew(e, {SendJob(What(e, w))})
  <1>1. /\ doing[e][w].job \in JobT /\ doing[e][w].job \in InHand(e)
        /\ What(e, w) \in Content
    BY DEF SendFile, At, What, ConnectionInv, WorkInv, InHand, JobT
  <1>2. WorkInv' /\ \A f \in Ends : InHand(f)' \subseteq InHand(f)
    BY DoneHand DEF SendFile
  <1>3. SendJob(What(e, w)) \in JobT /\ Push(e, SendJob(What(e, w)))
    BY <1>1, SendIsQueued DEF SendFile, Push
  <1>4. Sorted(queue)' /\ OnlyNew(e, {SendJob(What(e, w))})
    BY <1>2, <1>3, PushBrings
  <1>5. HistoryInv'
    <2>1. Append(sent[e], What(e, w)) \in Seq(Content)
      BY <1>1, AppendProperties DEF ConnectionInv, HistoryInv
    <2> QED
      BY <2>1 DEF SendFile, ConnectionInv, HistoryInv, marks
  <1> QED
    BY <1>1, <1>2, <1>4, <1>5 DEF SendFile, ConnectionInv, link, marks, JobsAt

LEMMA WriteStep ==
  ASSUME ConnectionInv, NEW e \in Ends, NEW w \in Workers, WriteSocket(e, w)
  PROVE  /\ ConnectionInv'
         /\ doing[e][w].job \in JobsAt(e)
         /\ OnlyNew(e, {})
  <1>1. doing[e][w].job \in JobT /\ doing[e][w].job \in InHand(e)
    BY DEF WriteSocket, At, ConnectionInv, WorkInv, InHand
  <1>2. WorkInv' /\ \A f \in Ends : InHand(f)' \subseteq InHand(f)
    BY DoneHand DEF WriteSocket
  <1>3. Sorted(queue)' /\ OnlyNew(e, {})
    BY <1>2, SameQueues DEF WriteSocket, ConnectionInv
  <1>4. stream' \in [Ends -> Seq(JobT)]
    <2>1. Append(stream[Peer(e)], doing[e][w].job) \in Seq(JobT)
      BY <1>1, PeerIsEnd, AppendProperties DEF ConnectionInv
    <2> QED
      BY <2>1, PeerIsEnd DEF WriteSocket, ConnectionInv
  <1> QED
    BY <1>1, <1>2, <1>3, <1>4
       DEF WriteSocket, ConnectionInv, HistoryInv, traffic, JobsAt

\* The end expires: a session has a refusal and a job for the server to queue.
LEMMA ExpireStep ==
  ASSUME ConnectionInv, NEW e \in Ends, Expire(e),
         WorkInv', \A f \in Ends : InHand(f)' \subseteq InHand(f)
  PROVE  /\ condition' = [condition EXCEPT ![e] = "Expired"]
         /\ condition' \in [Ends -> Conditions]
         /\ cipher' = [cipher EXCEPT ![e] = IF e = "session" THEN EncryptMode ELSE FALSE]
         /\ cipher' \in [Ends -> BOOLEAN]
         /\ told' \in [Ends -> Seq(Content)]
         /\ Sorted(queue)'
         /\ OnlyNew(e, IF e = "client" THEN {}
                       ELSE {Job("notify", FALSE, FALSE),
                             Job("compress", "refused", FALSE)})
  <1>1. /\ condition' = [condition EXCEPT ![e] = "Expired"]
        /\ condition' \in [Ends -> Conditions]
    BY DEF Expire, ConnectionInv, Conditions
  <1>2. CASE e = "client"
    <2>1. Append(told[e], FALSE) \in Seq(Content)
      BY ContentHas, AppendProperties DEF ConnectionInv, HistoryInv
    <2>2. Sorted(queue)' /\ OnlyNew(e, {})
      BY <1>2, SameQueues DEF Expire, ConnectionInv
    <2>3. told' \in [Ends -> Seq(Content)]
      BY <1>2, <2>1 DEF Expire, ConnectionInv, HistoryInv
    <2>4. /\ cipher' = [cipher EXCEPT ![e] = IF e = "session" THEN EncryptMode ELSE FALSE]
          /\ cipher' \in [Ends -> BOOLEAN]
      BY <1>2 DEF Expire, ConnectionInv
    <2> QED
      BY <1>1, <1>2, <2>2, <2>3, <2>4
  <1>3. CASE e = "session"
    <2> DEFINE a == Job("notify", FALSE, FALSE)
               b == Job("compress", "refused", FALSE)
    <2>1. a \in JobT /\ b \in JobT /\ "refused" \in Content
      BY JobHasType, ContentHas DEF Dos, Handshake
    <2>2. b = SendJob("refused")
      BY DEF SendJob, Handshake
    <2>3. queue' = Queued(Queued(queue, e, a), e, b)
      BY <1>3, <2>1, <2>2, SendIsQueued DEF Expire, Refuse
    <2>4. Sorted(queue)' /\ OnlyNew(e, {a, b})
      BY <2>1, <2>3, PushTwoBrings
    <2>5. told' \in [Ends -> Seq(Content)]
      BY <1>3 DEF Expire, ConnectionInv, HistoryInv
    <2>6. /\ cipher' = [cipher EXCEPT ![e] = IF e = "session" THEN EncryptMode ELSE FALSE]
          /\ cipher' \in [Ends -> BOOLEAN]
      BY <1>3, ConnectionAssumption DEF Expire, Refuse, ConnectionInv
    <2> QED
      BY <1>1, <1>3, <2>4, <2>5, <2>6
  <1> QED
    BY <1>2, <1>3 DEF Ends

LEMMA RefuseStep ==
  ASSUME ConnectionInv, NEW w \in Workers, SessionRefuses(w)
  PROVE  /\ ConnectionInv'
         /\ OnlyNew("session", {Job("notify", FALSE, FALSE),
                                Job("compress", "refused", FALSE)})
  <1> DEFINE a == Job("notify", FALSE, FALSE)
             b == Job("compress", "refused", FALSE)
  <1>1. a \in JobT /\ b \in JobT /\ "refused" \in Content
    BY JobHasType, ContentHas DEF Dos, Handshake
  <1>2. b = SendJob("refused")
    BY DEF SendJob, Handshake
  <1>3. queue' = Queued(Queued(queue, "session", a), "session", b)
    BY <1>1, <1>2, SendIsQueued DEF SessionRefuses, Refuse, Ends
  <1>4. WorkInv' /\ \A f \in Ends : InHand(f)' \subseteq InHand(f)
    BY DoneHand DEF SessionRefuses, Ends
  <1>5. Sorted(queue)' /\ OnlyNew("session", {a, b})
    BY <1>1, <1>3, <1>4, PushTwoBrings DEF Ends
  <1> QED
    BY <1>4, <1>5, ConnectionAssumption
       DEF SessionRefuses, Refuse, ConnectionInv, HistoryInv, link, traffic, marks

LEMMA WorkerExpiresStep ==
  ASSUME ConnectionInv, NEW e \in Ends, NEW w \in Workers, WorkerExpires(e, w)
  PROVE  /\ ConnectionInv'
         /\ condition' = [condition EXCEPT ![e] = "Expired"]
         /\ cipher' = [cipher EXCEPT ![e] = IF e = "session" THEN EncryptMode ELSE FALSE]
         /\ OnlyNew(e, IF e = "client" THEN {}
                       ELSE {Job("notify", FALSE, FALSE),
                             Job("compress", "refused", FALSE)})
         /\ doing'[e][w].step \in {"idle", "refuse"}
         /\ OthersGoOn(e, w)
  <1>1. doing[e][w].step = "expire" /\ doing[e][w].job.do = "receive"
    BY DEF WorkerExpires, ConnectionInv, WorkInv
  <1>2. /\ WorkInv' /\ \A f \in Ends : InHand(f)' \subseteq InHand(f)
        /\ doing'[e][w].step \in {"idle", "refuse"} /\ OthersGoOn(e, w)
    <2>1. CASE Goes(e, w, "refuse")
      BY <1>1, <2>1, GoesHand DEF Steps, OthersGoOn
    <2>2. CASE Done(e, w)
      BY <2>2, DoneHand DEF OthersGoOn
    <2> QED
      BY <2>1, <2>2 DEF WorkerExpires
  <1> QED
    BY <1>2, ExpireStep
       DEF WorkerExpires, ConnectionInv, HistoryInv, link, traffic, marks

LEMMA ReaderExpiresStep ==
  ASSUME ConnectionInv, NEW e \in Ends, ReaderExpires(e)
  PROVE  /\ ConnectionInv'
         /\ condition' = [condition EXCEPT ![e] = "Expired"]
         /\ cipher' = [cipher EXCEPT ![e] = IF e = "session" THEN EncryptMode ELSE FALSE]
         /\ OnlyNew(e, IF e = "client" THEN {}
                       ELSE {Job("notify", FALSE, FALSE),
                             Job("compress", "refused", FALSE)})
  <1>1. WorkInv' /\ \A f \in Ends : InHand(f)' \subseteq InHand(f)
    BY SameHands DEF ReaderExpires, ConnectionInv
  <1> QED
    BY <1>1, ExpireStep
       DEF ReaderExpires, ConnectionInv, HistoryInv, link, traffic, marks

LEMMA ClientStopsStep ==
  ASSUME ConnectionInv, ClientStops
  PROVE  /\ ConnectionInv'
         /\ condition' = [condition EXCEPT !["client"] = "Expired"]
         /\ cipher' = [cipher EXCEPT !["client"] = FALSE]
         /\ OnlyNew("client", {})
  <1>1. WorkInv' /\ \A f \in Ends : InHand(f)' \subseteq InHand(f)
    BY SameHands DEF ClientStops, ConnectionInv
  <1>2. "client" \in Ends /\ "client" # "session"
    BY DEF Ends
  <1> QED
    BY <1>1, <1>2, ExpireStep
       DEF ClientStops, ConnectionInv, HistoryInv, link, traffic

LEMMA AcceptStep ==
  ASSUME ConnectionInv, NEW e \in Ends, NEW m \in Messages[e], Accept(e, m)
  PROVE  /\ ConnectionInv'
         /\ OnlyNew(e, {SendJob(m)} \cup {Job("file", FileOf[n], FALSE) :
                                          n \in {m} \cap DOMAIN FileOf})
  <1>1. m \in Content /\ SendJob(m) \in JobT
        /\ Send(queue, e, m) = Queued(queue, e, SendJob(m))
    BY ContentHas, SendIsQueued
  <1>2. WorkInv' /\ \A f \in Ends : InHand(f)' \subseteq InHand(f)
    BY SameHands DEF Accept, ConnectionInv
  <1>3. HistoryInv'
    <2>1. Append(sent[e], m) \in Seq(Content)
      BY <1>1, AppendProperties DEF ConnectionInv, HistoryInv
    <2> QED
      BY <2>1 DEF Accept, ConnectionInv, HistoryInv, marks
  <1>4. /\ Sorted(queue)'
        /\ OnlyNew(e, {SendJob(m)} \cup {Job("file", FileOf[n], FALSE) :
                                         n \in {m} \cap DOMAIN FileOf})
    <2>1. CASE m \in DOMAIN FileOf
      <3> DEFINE b == Job("file", FileOf[m], FALSE)
      <3>1. b \in JobT
        BY <2>1, ContentHas, JobHasType DEF Dos
      <3>2. queue' = Queued(Queued(queue, e, SendJob(m)), e, b)
        BY <1>1, <2>1 DEF Accept
      <3>3. Sorted(queue)' /\ OnlyNew(e, {SendJob(m), b})
        BY <1>1, <1>2, <3>1, <3>2, PushTwoBrings
      <3> QED
        BY <2>1, <3>3 DEF OnlyNew
    <2>2. CASE m \notin DOMAIN FileOf
      <3>1. Push(e, SendJob(m))
        BY <1>1, <2>2 DEF Accept, Push
      <3>2. Sorted(queue)' /\ OnlyNew(e, {SendJob(m)})
        BY <1>1, <1>2, <3>1, PushBrings
      <3> QED
        BY <3>2 DEF OnlyNew
    <2> QED
      BY <2>1, <2>2
  <1> QED
    BY <1>2, <1>3, <1>4 DEF Accept, ConnectionInv, link, marks

LEMMA ClientStartsStep ==
  ASSUME ConnectionInv, ClientStarts
  PROVE  /\ ConnectionInv'
         /\ OnlyNew("client", {Job("compress", "request", FALSE)})
  <1>1. /\ "client" \in Ends /\ "request" \in Content
        /\ SendJob("request") = Job("compress", "request", FALSE)
    BY ContentHas DEF Ends, Handshake, SendJob
  <1>2. SendJob("request") \in JobT /\ Push("client", SendJob("request"))
    BY <1>1, SendIsQueued DEF ClientStarts, Push
  <1>3. WorkInv' /\ \A f \in Ends : InHand(f)' \subseteq InHand(f)
    BY SameHands DEF ClientStarts, ConnectionInv
  <1>4. Sorted(queue)' /\ OnlyNew("client", {SendJob("request")})
    BY <1>1, <1>2, <1>3, PushBrings
  <1> QED
    BY <1>1, <1>3, <1>4
       DEF ClientStarts, ConnectionInv, Conditions, HistoryInv, link, traffic, marks

\* A step of a worker that queues nothing.
LEMMA QuietStep ==
  ASSUME ConnectionInv, NEW e \in Ends, NEW w \in Workers,
         \/ ReceiveData(e, w) \/ ReceiveHandshake(e, w) \/ Notify(e, w)
         \/ e = "session" /\ SessionConfirms(w)
         \/ e = "client" /\ ClientTakesKey(w)
  PROVE  /\ ConnectionInv'
         /\ OnlyNew(e, {})
         /\ OthersGoOn(e, w)
  <1>1. /\ doing[e][w].step # "idle"
        /\ doing[e][w].step # "work" \/ doing[e][w].job.do = "receive"
             \/ Notify(e, w)
    BY DEF ReceiveData, ReceiveHandshake, Notify, SessionConfirms,
       ClientTakesKey, At
  <1>2. doing[e][w].job \in JobT /\ What(e, w) \in Content
        /\ (doing[e][w].step # "work" => doing[e][w].job.do = "receive")
    BY <1>1 DEF ConnectionInv, WorkInv, What, JobT
  <1>3. /\ WorkInv' /\ \A f \in Ends : InHand(f)' \subseteq InHand(f)
        /\ OthersGoOn(e, w)
    <2>1. CASE Done(e, w)
      BY <2>1, DoneHand DEF OthersGoOn
    <2>2. CASE ~Notify(e, w) /\ \E step \in Steps \ {"idle", "work"} : Goes(e, w, step)
      BY <2>2, <1>1, <1>2, GoesHand DEF OthersGoOn
    <2>3. Notify(e, w) => Done(e, w)
      BY DEF Notify
    <2>4. Done(e, w) \/ \E step \in Steps \ {"idle", "work"} : Goes(e, w, step)
      BY DEF ReceiveData, ReceiveHandshake, Notify, SessionConfirms,
         ClientTakesKey, Steps
    <2> QED
      BY <2>1, <2>2, <2>3, <2>4
  <1>4. Sorted(queue)' /\ OnlyNew(e, {})
    BY <1>3, SameQueues DEF ReceiveData, ReceiveHandshake, Notify,
       SessionConfirms, ClientTakesKey, ConnectionInv
  <1>5. /\ Append(received[e], What(e, w)) \in Seq(Content)
        /\ Append(told[e], What(e, w)) \in Seq(Content)
    BY <1>2, AppendProperties DEF ConnectionInv, HistoryInv
  <1>6. CASE ReceiveData(e, w)
    BY <1>3, <1>4, <1>5, <1>6
       DEF ReceiveData, ConnectionInv, HistoryInv, link, marks
  <1>7. CASE ReceiveHandshake(e, w)
    BY <1>3, <1>4, <1>7
       DEF ReceiveHandshake, ConnectionInv, HistoryInv, link, traffic, marks
  <1>8. CASE Notify(e, w)
    BY <1>3, <1>4, <1>5, <1>8
       DEF Notify, ConnectionInv, HistoryInv, link, traffic, marks
  <1>9. CASE e = "session" /\ SessionConfirms(w)
    <2>1. /\ condition' \in [Ends -> Conditions]
          /\ revived' \in BOOLEAN
      BY <1>9 DEF SessionConfirms, Confirm, ConnectionInv, HistoryInv, Conditions
    <2> QED
      BY <1>3, <1>4, <1>9, <2>1
         DEF SessionConfirms, ConnectionInv, HistoryInv, link, traffic
  <1>10. CASE e = "client" /\ ClientTakesKey(w)
    BY <1>3, <1>4, <1>10, ConnectionAssumption
       DEF ClientTakesKey, ConnectionInv, HistoryInv, link, traffic, marks
  <1> QED
    BY <1>6, <1>7, <1>8, <1>9, <1>10

LEMMA NotifiesStep ==
  ASSUME ConnectionInv, NEW w \in Workers, SessionNotifies(w)
  PROVE  /\ ConnectionInv'
         /\ OnlyNew("session", {Job("notify", TRUE, FALSE)})
         /\ OthersGoOn("session", w)
         /\ doing'["session"][w].step = "reply"
  <1>1. /\ WorkInv' /\ \A f \in Ends : InHand(f)' \subseteq InHand(f)
        /\ OthersGoOn("session", w) /\ doing'["session"][w].step = "reply"
    BY GoesHand DEF SessionNotifies, At, Ends, Steps, OthersGoOn
  <1>2. Job("notify", TRUE, FALSE) \in JobT
    BY JobHasType, ContentHas DEF Dos
  <1>3. Sorted(queue)' /\ OnlyNew("session", {Job("notify", TRUE, FALSE)})
    BY <1>1, <1>2, PushBrings DEF SessionNotifies, Ends
  <1> QED
    BY <1>1, <1>3, ConnectionAssumption
       DEF SessionNotifies, ConnectionInv, HistoryInv, link, traffic, marks

LEMMA RepliesStep ==
  ASSUME ConnectionInv, NEW w \in Workers, SessionReplies(w)
  PROVE  /\ ConnectionInv'
         /\ OnlyNew("session", {Job("compress", "accepted", FALSE)})
         /\ OthersGoOn("session", w)
         /\ Done("session", w)
  <1>1. /\ "session" \in Ends /\ "accepted" \in Content
        /\ SendJob("accepted") = Job("compress", "accepted", FALSE)
    BY ContentHas DEF Ends, Handshake, SendJob
  <1>2. /\ WorkInv' /\ \A f \in Ends : InHand(f)' \subseteq InHand(f)
        /\ OthersGoOn("session", w) /\ Done("session", w)
    BY <1>1, DoneHand DEF SessionReplies, OthersGoOn
  <1>3. SendJob("accepted") \in JobT /\ Push("session", SendJob("accepted"))
    BY <1>1, SendIsQueued DEF SessionReplies, Push
  <1>4. Sorted(queue)' /\ OnlyNew("session", {SendJob("accepted")})
    BY <1>1, <1>2, <1>3, PushBrings
  <1> QED
    BY <1>1, <1>2, <1>4
       DEF SessionReplies, ConnectionInv, HistoryInv, link, traffic, marks

LEMMA ClientConfirmsStep ==
  ASSUME ConnectionInv, NEW w \in Workers, ClientConfirms(w)
  PROVE  /\ ConnectionInv'
         /\ OnlyNew("client", {Job("notify", TRUE, FALSE)})
         /\ OthersGoOn("client", w)
         /\ Done("client", w)
  <1>1. /\ WorkInv' /\ \A f \in Ends : InHand(f)' \subseteq InHand(f)
        /\ OthersGoOn("client", w) /\ Done("client", w)
    BY DoneHand DEF ClientConfirms, Ends, OthersGoOn
  <1>2. Job("notify", TRUE, FALSE) \in JobT
    BY JobHasType, ContentHas DEF Dos
  <1>3. Sorted(queue)' /\ OnlyNew("client", {Job("notify", TRUE, FALSE)})
    BY <1>1, <1>2, PushBrings DEF ClientConfirms, Ends
  <1>4. condition' \in [Ends -> Conditions] /\ revived' \in BOOLEAN
    BY DEF ClientConfirms, Confirm, ConnectionInv, HistoryInv, Conditions
  <1> QED
    BY <1>1, <1>3, <1>4 DEF ClientConfirms, ConnectionInv, HistoryInv, link, traffic

LEMMA ReadStep ==
  ASSUME ConnectionInv, NEW e \in Ends, ReadSocket(e)
  PROVE  /\ ConnectionInv'
         /\ Head(stream[e]) \in Range(stream[e])
         /\ OnlyNew(e, {[Head(stream[e]) EXCEPT !.do = "decompress"]})
         /\ Range(stream'[e]) \subseteq Range(stream[e])
         /\ \A f \in Ends \ {e} : stream'[f] = stream[f]
  <1> DEFINE job == [Head(stream[e]) EXCEPT !.do = "decompress"]
  <1>1. stream[e] \in Seq(JobT) /\ stream[e] # <<>>
    BY DEF ReadSocket, ConnectionInv
  <1>2. Head(stream[e]) \in JobT /\ Tail(stream[e]) \in Seq(JobT)
    BY <1>1, HeadTailProperties
  <1>3. job \in JobT
    BY <1>2 DEF JobT, Dos
  <1>4. WorkInv' /\ \A f \in Ends : InHand(f)' \subseteq InHand(f)
    BY SameHands DEF ReadSocket, ConnectionInv
  <1>5. Sorted(queue)' /\ OnlyNew(e, {job})
    BY <1>3, <1>4, PushBrings DEF ReadSocket
  <1>6. /\ stream' \in [Ends -> Seq(JobT)] /\ stream'[e] = Tail(stream[e])
        /\ \A f \in Ends \ {e} : stream'[f] = stream[f]
    BY <1>2 DEF ReadSocket, ConnectionInv
  <1>7. Head(stream[e]) \in Range(stream[e]) /\ Range(stream'[e]) \subseteq Range(stream[e])
    BY <1>1, <1>6, RangeOfTail
  <1> QED
    BY <1>4, <1>5, <1>6, <1>7
       DEF ReadSocket, ConnectionInv, HistoryInv, traffic, marks

\* The steps that queue nothing and concern no worker.
LEMMA OtherStep ==
  ASSUME ConnectionInv, NEW e \in Ends,
         SessionStarts \/ ReadFails(e) \/ Break
  PROVE  /\ ConnectionInv'
         /\ OnlyNew(e, {})
  <1>1. WorkInv' /\ \A f \in Ends : InHand(f)' \subseteq InHand(f)
    BY SameHands DEF SessionStarts, ReadFails, Break, ConnectionInv
  <1>2. Sorted(queue)' /\ OnlyNew(e, {})
    BY <1>1, SameQueues DEF SessionStarts, ReadFails, Break, ConnectionInv
  <1>3. CASE SessionStarts
    BY <1>1, <1>2, <1>3
       DEF SessionStarts, ConnectionInv, Conditions, HistoryInv, link, traffic, marks
  <1>4. CASE ReadFails(e)
    BY <1>1, <1>2, <1>4
       DEF ReadFails, ConnectionInv, HistoryInv, link, traffic, marks
  <1>5. CASE Break
    <2>1. [f \in Ends |-> <<>>] \in [Ends -> Seq(JobT)]
      BY EmptySeq
    <2>2. stream' \in [Ends -> Seq(JobT)]
      BY <1>5, <2>1 DEF Break, ConnectionInv
    <2> QED
      BY <1>1, <1>2, <1>5, <2>2 DEF Break, ConnectionInv, HistoryInv, traffic
  <1> QED
    BY <1>3, <1>4, <1>5

LEMMA CloseStep ==
  ASSUME ConnectionInv, NEW e \in Ends, Close(e)
  PROVE  /\ ConnectionInv'
         /\ OnlyNew(e, {})
         /\ \A f \in Ends : Range(stream'[f]) \subseteq Range(stream[f])
  <1>1. WorkInv' /\ \A f \in Ends : InHand(f)' \subseteq InHand(f)
    BY SameHands DEF Close, ConnectionInv
  <1>2. <<>> \in Seq(JobT) /\ Len(<<>>) = 0 /\ Range(<<>>) = {}
    BY EmptySeq, RangeOfEmpty
  <1>3. /\ queue' \in [Ends -> [Priorities -> Seq(JobT)]]
        /\ \A p \in Priorities : queue'[e][p] = <<>>
        /\ \A f \in Ends \ {e} : queue'[f] = queue[f]
    BY <1>2 DEF Close, ConnectionInv, Sorted
  <1>4. Sorted(queue)'
    <2> SUFFICES ASSUME NEW f \in Ends, NEW p \in Priorities,
                        NEW i \in 1 .. Len(queue'[f][p])
                 PROVE  PriorityOf(queue'[f][p][i].do) = p
      BY <1>3 DEF Sorted
    <2>1. f # e
      BY <1>2, <1>3
    <2> QED
      BY <1>3, <2>1 DEF ConnectionInv, Sorted
  <1>5. OnlyNew(e, {})
    BY <1>1, <1>2, <1>3 DEF OnlyNew, JobsAt, JobsOf
  <1>6. /\ stream' \in [Ends -> Seq(JobT)]
        /\ \A f \in Ends : Range(stream'[f]) \subseteq Range(stream[f])
    BY <1>2 DEF Close, ConnectionInv
  <1> QED
    BY <1>1, <1>4, <1>5, <1>6 DEF Close, ConnectionInv, HistoryInv, traffic

-----------------------------------------------------------------------------
(* The types *)

LEMMA ConnectionInvInit == Init => ConnectionInv
  <1> SUFFICES ASSUME Init PROVE ConnectionInv
    OBVIOUS
  <1>1. <<>> \in Seq(JobT) /\ <<>> \in Seq(Content) /\ Len(<<>>) = 0
    BY EmptySeq
  <1>2. Sorted(queue)
    BY <1>1 DEF Init, Sorted
  <1>3. WorkInv
    BY DEF Init, WorkInv, Idle, Steps
  <1>4. HistoryInv
    BY <1>1 DEF Init, HistoryInv
  <1> QED
    BY <1>1, <1>2, <1>3, <1>4 DEF Init, ConnectionInv, Conditions

LEMMA WorkTyped ==
  ASSUME ConnectionInv, NEW e \in Ends, NEW w \in Workers, Work(e, w)
  PROVE  ConnectionInv'
  <1>1. CASE Take(e, w)
    <2>1. WorkInv' /\ Sorted(queue)'
      BY <1>1, TakeHand
    <2>2. UNCHANGED <<condition, closed, reader, link, cipher, traffic, told, marks>>
      BY <1>1 DEF Take
    <2>3. HistoryInv'
      BY <2>2 DEF ConnectionInv, HistoryInv, traffic, marks
    <2> QED
      BY <2>1, <2>2, <2>3 DEF ConnectionInv, link
  <1>2. CASE Stage(e, w)
    BY <1>2, StageStep
  <1>3. CASE SendFile(e, w)
    BY <1>3, SendFileStep
  <1>4. CASE WriteSocket(e, w)
    BY <1>4, WriteStep
  <1>5. CASE WorkerExpires(e, w)
    BY <1>5, WorkerExpiresStep
  <1>6. CASE \/ ReceiveData(e, w) \/ ReceiveHandshake(e, w) \/ Notify(e, w)
             \/ e = "session" /\ SessionConfirms(w)
             \/ e = "client" /\ ClientTakesKey(w)
    BY <1>6, QuietStep
  <1>7. CASE e = "session" /\ SessionRefuses(w)
    BY <1>7, RefuseStep
  <1>8. CASE e = "session" /\ SessionNotifies(w)
    BY <1>8, NotifiesStep
  <1>9. CASE e = "session" /\ SessionReplies(w)
    BY <1>9, RepliesStep
  <1>10. CASE e = "client" /\ ClientConfirms(w)
    BY <1>10, ClientConfirmsStep
  <1> QED
    BY <1>1, <1>2, <1>3, <1>4, <1>5, <1>6, <1>7, <1>8, <1>9, <1>10 DEF Work

LEMMA ConnectionInvStep == ConnectionInv /\ [Next]_vars => ConnectionInv'
  <1> SUFFICES ASSUME ConnectionInv, [Next]_vars PROVE ConnectionInv'
    OBVIOUS
  <1>1. CASE UNCHANGED vars
    BY <1>1 DEF vars, link, traffic, marks, ConnectionInv, Sorted, WorkInv, HistoryInv
  <1>2. CASE ClientStarts
    BY <1>2, ClientStartsStep
  <1>3. CASE SessionStarts \/ Break
    BY <1>3, OtherStep DEF Ends
  <1>4. CASE ClientStops
    BY <1>4, ClientStopsStep
  <1>5. ASSUME NEW e \in Ends, NEW m \in Messages[e], Accept(e, m)
        PROVE  ConnectionInv'
    BY <1>5, AcceptStep
  <1>6. ASSUME NEW e \in Ends, NEW w \in Workers, Work(e, w)
        PROVE  ConnectionInv'
    BY <1>6, WorkTyped
  <1>7. ASSUME NEW e \in Ends, Io(e)
        PROVE  ConnectionInv'
    BY <1>7, ReadStep, OtherStep, ReaderExpiresStep DEF Io
  <1>8. ASSUME NEW e \in Ends, Close(e)
        PROVE  ConnectionInv'
    BY <1>8, CloseStep
  <1> QED
    BY <1>1, <1>2, <1>3, <1>4, <1>5, <1>6, <1>7, <1>8 DEF Next

-----------------------------------------------------------------------------
(* A wrong key *)

SessionSteps == {"idle", "work", "expire", "confirm", "refuse"}

\* Without the key nothing reaches a session but its connection request, and
\* the refusal waits for a compression that an expired session does not do.
StaysOut ==
  ~sameKey =>
    /\ \A e \in Ends : /\ condition[e] # "Confirmed"
                       /\ sent[e] = <<>> /\ received[e] = <<>>
    /\ stream["client"] = <<>>
    /\ \A job \in JobsAt("client") : job.do \in {"compress", "send", "notify"}
    /\ \A job \in JobsAt("session") :
         /\ job.do \in {"decompress", "decrypt", "receive", "notify", "compress"}
         /\ job.do = "compress" => condition["session"] = "Expired"
    /\ \A w \in Workers :
         /\ doing["session"][w].step \in SessionSteps
         /\ doing["session"][w].step = "refuse" => condition["session"] = "Expired"

\* What is to be shown of a step of end e.
LEMMA StaysOutKept ==
  ASSUME StaysOut, ~sameKey, NEW e \in Ends, NEW new, OnlyNew(e, new),
         \A f \in Ends : condition'[f] # "Confirmed",
         condition["session"] = "Expired" => condition'["session"] = "Expired",
         UNCHANGED <<sent, received>>, stream'["client"] = <<>>,
         e = "client" =>
           \A job \in new : job.do \in {"compress", "send", "notify"},
         e = "session" =>
           \A job \in new :
             /\ job.do \in {"decompress", "decrypt", "receive", "notify", "compress"}
             /\ job.do = "compress" => condition'["session"] = "Expired",
         \A w \in Workers :
           /\ doing'["session"][w].step \in SessionSteps
           /\ doing'["session"][w].step = "refuse"
                => condition'["session"] = "Expired"
  PROVE  StaysOut'
  <1>1. /\ JobsAt("client")' \subseteq JobsAt("client") \cup (IF e = "client" THEN new ELSE {})
        /\ JobsAt("session")' \subseteq JobsAt("session") \cup (IF e = "session" THEN new ELSE {})
    BY DEF OnlyNew, Ends
  <1>2. \A job \in JobsAt("client")' : job.do \in {"compress", "send", "notify"}
    BY <1>1 DEF StaysOut
  <1>3. \A job \in JobsAt("session")' :
          /\ job.do \in {"decompress", "decrypt", "receive", "notify", "compress"}
          /\ job.do = "compress" => condition'["session"] = "Expired"
    BY <1>1 DEF StaysOut
  <1> QED
    BY <1>2, <1>3 DEF StaysOut

LEMMA WorkStaysOut ==
  ASSUME ConnectionInv, StaysOut, ~sameKey, NEW e \in Ends, NEW w \in Workers,
         Work(e, w)
  PROVE  StaysOut'
  <1>1. doing[e][w].step # "idle" => doing[e][w].job \in JobsAt(e)
    BY DEF JobsAt, InHand
  <1>2. /\ e = "client" \/ e = "session"
        /\ e = "client" => doing[e][w].step \in {"idle", "work"}
    BY <1>1 DEF StaysOut, ConnectionInv, WorkInv, Ends
  <1>3. Done(e, w) => OthersGoOn(e, w) /\ doing'[e][w].step = "idle"
    BY DoneHand DEF OthersGoOn
  <1>4. OthersGoOn(e, w) =>
          \A v \in Workers : e = "client" \/ v # w =>
            doing'["session"][v] = doing["session"][v]
    BY DEF OthersGoOn, Ends
  <1> USE DEF StaysOut
  <1>5. CASE Take(e, w)
    <2>1. OnlyNew(e, {}) /\ OthersGoOn(e, w) /\ doing'[e][w].step = "work"
      BY <1>5, TakeHand DEF OnlyNew, OthersGoOn
    <2>2. UNCHANGED <<condition, sent, received, stream>>
      BY <1>5 DEF Take, traffic, link
    <2> QED
      BY <1>2, <1>4, <2>1, <2>2, StaysOutKept DEF SessionSteps
  <1>6. CASE Stage(e, w)
    <2> DEFINE job == doing[e][w].job
               new == IF condition[e] = "Expired" THEN {} ELSE {NextJob(e, job)}
    <2>1. /\ OnlyNew(e, new) /\ job \in JobsAt(e) /\ job.do \in Staged
          /\ OthersGoOn(e, w) /\ doing'[e][w].step = "idle"
      BY <1>3, <1>6, StageStep
    <2>2. UNCHANGED <<condition, sent, received, stream>>
      BY <1>6 DEF Stage, traffic, link
    <2>3. /\ e = "client" => NextJob(e, job).do = "send"
          /\ e = "session" /\ condition[e] # "Expired" =>
               NextJob(e, job).do \in {"decrypt", "receive"}
      BY <2>1 DEF NextJob, Job, Staged
    <2> QED
      BY <1>2, <1>4, <2>1, <2>2, <2>3, StaysOutKept DEF SessionSteps
  <1>7. CASE WriteSocket(e, w)
    <2>1. /\ OnlyNew(e, {}) /\ doing[e][w].job.do = "send"
          /\ OthersGoOn(e, w) /\ e = "client"
      BY <1>1, <1>2, <1>3, <1>7, WriteStep DEF WriteSocket, At
    <2>2. UNCHANGED <<condition, sent, received>> /\ stream'["client"] = stream["client"]
      BY <1>7, <2>1 DEF WriteSocket, traffic, Peer, ConnectionInv, Ends
    <2> QED
      BY <1>4, <2>1, <2>2, StaysOutKept DEF SessionSteps
  <1>8. CASE WorkerExpires(e, w)
    <2>1. e = "session"
      BY <1>2, <1>8 DEF WorkerExpires
    <2>2. /\ condition' = [condition EXCEPT !["session"] = "Expired"]
          /\ OnlyNew(e, {Job("notify", FALSE, FALSE), Job("compress", "refused", FALSE)})
          /\ doing'[e][w].step \in {"idle", "refuse"} /\ OthersGoOn(e, w)
      BY <1>8, <2>1, WorkerExpiresStep
    <2>3. UNCHANGED <<sent, received, stream>>
      BY <1>8 DEF WorkerExpires, traffic, link
    <2>4. /\ condition'["session"] = "Expired"
          /\ condition'["client"] = condition["client"]
      BY <2>2 DEF ConnectionInv, Ends
    <2> QED
      BY <1>4, <2>1, <2>2, <2>3, <2>4, StaysOutKept DEF SessionSteps, Job, Ends
  <1>9. CASE \/ ReceiveData(e, w) \/ ReceiveHandshake(e, w) \/ Notify(e, w)
             \/ e = "session" /\ SessionConfirms(w)
    <2>1. OnlyNew(e, {}) /\ OthersGoOn(e, w)
      BY <1>9, QuietStep
    <2>2. UNCHANGED <<condition, sent, received, stream>>
      <3>1. CASE ReceiveData(e, w)
        BY <3>1 DEF ReceiveData, link, ConnectionInv, HistoryInv
      <3>2. CASE ReceiveHandshake(e, w) \/ Notify(e, w)
        BY <3>2 DEF ReceiveHandshake, Notify, link, traffic
      <3>3. CASE SessionConfirms(w)
        BY <3>3 DEF SessionConfirms, link, traffic
      <3> QED
        BY <1>9, <3>1, <3>2, <3>3
    <2>3. e = "session" =>
            /\ doing'[e][w].step \in SessionSteps
            /\ doing'[e][w].step = "refuse" => condition[e] = "Expired"
      <3> SUFFICES ASSUME e = "session"
                   PROVE  /\ doing'[e][w].step \in SessionSteps
                          /\ doing'[e][w].step = "refuse" => condition[e] = "Expired"
        OBVIOUS
      <3>1. CASE Done(e, w)
        BY <1>3, <3>1 DEF SessionSteps
      <3>2. ASSUME NEW step \in Steps \ {"idle", "work"}, Goes(e, w, step)
            PROVE  doing'[e][w].step = step
        BY <3>2 DEF Goes, ConnectionInv, WorkInv
      <3>3. CASE Goes(e, w, "expire") \/ Goes(e, w, "confirm")
        BY <3>2, <3>3 DEF SessionSteps, Steps
      <3>4. CASE Goes(e, w, "refuse") /\ ~WillExpire(e)
        BY <3>2, <3>4 DEF SessionSteps, Steps, WillExpire
      <3> QED
        BY <1>9, <3>1, <3>3, <3>4
           DEF ReceiveData, ReceiveHandshake, Notify, SessionConfirms
    <2> QED
      BY <1>2, <1>4, <2>1, <2>2, <2>3, StaysOutKept
  <1>10. CASE e = "session" /\ SessionRefuses(w)
    <2>1. OnlyNew("session", {Job("notify", FALSE, FALSE), Job("compress", "refused", FALSE)})
      BY <1>10, RefuseStep
    <2>2. /\ condition["session"] = "Expired"
          /\ UNCHANGED <<condition, sent, received, stream>>
          /\ OthersGoOn(e, w) /\ doing'[e][w].step = "idle"
      BY <1>3, <1>10 DEF SessionRefuses, At, traffic, link
    <2> QED
      BY <1>4, <1>10, <2>1, <2>2, StaysOutKept DEF SessionSteps, Job
  <1>11. ~SendFile(e, w)
    BY <1>1, <1>2 DEF SendFile, At
  <1>12. e = "session" => ~SessionNotifies(w) /\ ~SessionReplies(w)
    BY DEF SessionNotifies, SessionReplies, At, SessionSteps
  <1>13. e = "client" => ~ClientTakesKey(w) /\ ~ClientConfirms(w)
    BY <1>2 DEF ClientTakesKey, ClientConfirms, At
  <1> QED
    BY <1>5, <1>6, <1>7, <1>8, <1>9, <1>10, <1>11, <1>12, <1>13 DEF Work

\* The client has the right key, or has not, from the beginning.
LEMMA KeyStays == [Next]_vars => sameKey' = sameKey
  <1> SUFFICES ASSUME [Next]_vars PROVE sameKey' = sameKey
    OBVIOUS
  <1> USE DEF link
  <1>1. ASSUME NEW e \in Ends, NEW w \in Workers, Work(e, w)
        PROVE  sameKey' = sameKey
    BY <1>1 DEF Work, Take, Stage, SendFile, WriteSocket, ReceiveData, WorkerExpires,
       ReceiveHandshake, Notify, SessionConfirms, SessionRefuses, SessionNotifies,
       SessionReplies, ClientTakesKey, ClientConfirms
  <1>2. ASSUME NEW e \in Ends, Io(e) \/ Close(e)
        PROVE  sameKey' = sameKey
    BY <1>2 DEF Io, ReadSocket, ReadFails, ReaderExpires, Close
  <1>3. ASSUME NEW e \in Ends, NEW m \in Messages[e], Accept(e, m)
        PROVE  sameKey' = sameKey
    BY <1>3 DEF Accept
  <1>4. CASE ClientStarts \/ SessionStarts \/ Break \/ ClientStops \/ UNCHANGED vars
    BY <1>4 DEF ClientStarts, SessionStarts, Break, ClientStops, vars
  <1> QED
    BY <1>1, <1>2, <1>3, <1>4 DEF Next

LEMMA StaysOutStep == ConnectionInv /\ StaysOut /\ [Next]_vars => StaysOut'
  <1> SUFFICES ASSUME ConnectionInv, StaysOut, [Next]_vars PROVE StaysOut'
    OBVIOUS
  <1>1. CASE UNCHANGED vars
    BY <1>1 DEF vars, link, traffic, StaysOut, JobsAt, JobsOf, InHand
  <1>2. sameKey' = sameKey
    BY KeyStays
  <1>3. CASE sameKey
    BY <1>2, <1>3 DEF StaysOut
  <1>4. CASE ~sameKey /\ Next
    <2> USE <1>4 DEF StaysOut
    <2>1. CASE ClientStarts
      <3>1. OnlyNew("client", {Job("compress", "request", FALSE)})
        BY <2>1, ClientStartsStep
      <3>2. /\ UNCHANGED <<sent, received, stream, doing>>
            /\ \A f \in Ends : condition'[f] \in {condition[f], "Waiting"}
            /\ condition'["session"] = condition["session"]
        BY <2>1 DEF ClientStarts, traffic, link, ConnectionInv, Ends
      <3> QED
        BY <3>1, <3>2, StaysOutKept DEF Job, Ends
    <2>2. CASE SessionStarts
      <3>1. OnlyNew("session", {})
        BY <2>2, OtherStep DEF Ends
      <3>2. /\ UNCHANGED <<sent, received, stream, doing>>
            /\ \A f \in Ends : condition'[f] \in {condition[f], "Waiting"}
            /\ condition["session"] = "None"
        BY <2>2 DEF SessionStarts, traffic, link, ConnectionInv
      <3> QED
        BY <3>1, <3>2, StaysOutKept DEF Ends
    <2>3. CASE Break
      <3>1. OnlyNew("client", {})
        BY <2>3, OtherStep DEF Ends
      <3>2. /\ UNCHANGED <<condition, sent, received, doing>>
            /\ stream'["client"] = <<>>
        BY <2>3 DEF Break, traffic, Ends
      <3> QED
        BY <3>1, <3>2, StaysOutKept DEF Ends
    <2>4. CASE ClientStops
      <3>1. /\ OnlyNew("client", {})
            /\ condition' = [condition EXCEPT !["client"] = "Expired"]
        BY <2>4, ClientStopsStep
      <3>2. /\ UNCHANGED <<sent, received, stream, doing>>
            /\ \A f \in Ends : condition'[f] \in {condition[f], "Expired"}
            /\ condition'["session"] = condition["session"]
        BY <2>4, <3>1 DEF ClientStops, traffic, link, ConnectionInv, Ends
      <3> QED
        BY <3>1, <3>2, StaysOutKept DEF Ends
    <2>5. ASSUME NEW e \in Ends, NEW m \in Messages[e], Accept(e, m)
          PROVE  StaysOut'
      BY <2>5 DEF Accept
    <2>6. ASSUME NEW e \in Ends, NEW w \in Workers, Work(e, w)
          PROVE  StaysOut'
      BY <2>6, WorkStaysOut
    <2>7. ASSUME NEW e \in Ends, ReadSocket(e)
          PROVE  StaysOut'
      <3>1. e = "session"
        BY <2>7 DEF ReadSocket, Ends
      <3>2. /\ OnlyNew(e, {[Head(stream[e]) EXCEPT !.do = "decompress"]})
            /\ Head(stream[e]) \in Range(stream[e])
            /\ stream'["client"] = stream["client"]
        BY <2>7, <3>1, ReadStep DEF Ends
      <3>3. Head(stream[e]) \in JobT
        BY <3>2, RangeInSet DEF ConnectionInv
      <3>4. [Head(stream[e]) EXCEPT !.do = "decompress"].do = "decompress"
        BY <3>3 DEF JobT
      <3>5. UNCHANGED <<condition, sent, received, doing>>
        BY <2>7 DEF ReadSocket, traffic
      <3> QED
        BY <3>1, <3>2, <3>4, <3>5, StaysOutKept
    <2>8. ASSUME NEW e \in Ends, ReadFails(e)
          PROVE  StaysOut'
      <3>1. OnlyNew(e, {}) /\ UNCHANGED <<condition, sent, received, doing, stream>>
        BY <2>8, OtherStep DEF ReadFails, traffic, link
      <3> QED
        BY <3>1, StaysOutKept
    <2>9. ASSUME NEW e \in Ends, ReaderExpires(e)
          PROVE  StaysOut'
      <3> DEFINE new == IF e = "client" THEN {}
                        ELSE {Job("notify", FALSE, FALSE),
                              Job("compress", "refused", FALSE)}
      <3>1. /\ OnlyNew(e, new)
            /\ condition' = [condition EXCEPT ![e] = "Expired"]
        BY <2>9, ReaderExpiresStep
      <3>2. UNCHANGED <<sent, received, doing, stream>>
        BY <2>9 DEF ReaderExpires, traffic, link
      <3>3. /\ \A f \in Ends : condition'[f] \in {condition[f], "Expired"}
            /\ condition'[e] = "Expired"
        BY <3>1 DEF ConnectionInv
      <3>4. \A job \in new : job.do \in {"notify", "compress"}
        BY DEF Job
      <3> QED
        BY <3>1, <3>2, <3>3, <3>4, StaysOutKept DEF Ends
    <2>10. ASSUME NEW e \in Ends, Close(e)
          PROVE  StaysOut'
      <3>1. /\ OnlyNew(e, {}) /\ UNCHANGED <<condition, sent, received, doing>>
            /\ stream'["client"] = <<>>
        BY <2>10, CloseStep DEF Close, traffic, ConnectionInv, Ends
      <3> QED
        BY <3>1, StaysOutKept
    <2> QED
      BY <1>4, <2>1, <2>2, <2>3, <2>4, <2>5, <2>6, <2>7, <2>8, <2>9, <2>10
         DEF Next, Io
  <1> QED
    BY <1>1, <1>3, <1>4

(***************************************************************************)
(* The types, and a client whose key is not the server's: it is never      *)
(* confirmed, and nothing that is sent reaches an application.  For any    *)
(* number of workers, whatever they serve, and any messages.               *)
(***************************************************************************)
THEOREM WrongKeyIsRefused == Spec => []HandshakeInv
  <1>1. Init => StaysOut
    <2> SUFFICES ASSUME Init PROVE StaysOut
      OBVIOUS
    <2>1. JobsAt("client") = {} /\ JobsAt("session") = {}
      BY RangeOfEmpty DEF Init, JobsAt, JobsOf, InHand, Idle, Ends
    <2> QED
      BY <2>1 DEF Init, StaysOut, Ends, SessionSteps, Idle
  <1>2. ConnectionInv /\ StaysOut => HandshakeInv
    BY DEF ConnectionInv, StaysOut, HandshakeInv, TypeOK, WrongKeyStaysOut, Sorted,
       Conditions
  <1> QED
    BY <1>1, <1>2, ConnectionInvInit, ConnectionInvStep, StaysOutStep, PTL DEF Spec

-----------------------------------------------------------------------------
(* Encryption *)

\* One worker of each pool does all the jobs of these priorities.
OneWorkerFor(ps) ==
  \A v, w \in Workers :
    Range(Serves[v]) \cap ps # {} /\ Range(Serves[w]) \cap ps # {} => v = w

Accepting(e) == condition[e] \in {"Confirmed", "Expired"}

\* A client has the key before it is confirmed, and a session soon after: its
\* worker is about to make one.
HasKey ==
  /\ condition["client"] = "Confirmed" => cipher["client"]
  /\ \A w \in Workers :
       doing["client"][w].step = "assign" /\ condition["client"] # "Expired"
         => cipher["client"]
  /\ condition["session"] = "Confirmed" =>
       cipher["session"] \/ \E w \in Workers : doing["session"][w].step = "notify"

\* There is data only behind a confirmation, and it is encrypted from then on.
DataSealed ==
  /\ \A e \in Ends : \A job \in JobsAt(e) :
       /\ job.do \in {"encrypt", "file"} => Accepting(e)
       /\ job.do \in {"compress", "send"} => job.what \in Handshake \/ job.sealed
  /\ clear = {}

SealInv == EncryptMode /\ ~revived => HasKey /\ DataSealed

\* No end returns to what it was before, unless it is revived.
LEMMA ConditionStep ==
  ASSUME ConnectionInv, Next
  PROVE  /\ revived => revived'
         /\ \A e \in Ends : Accepting(e) => Accepting(e)'
  <1> USE DEF Accepting, marks, ConnectionInv, HistoryInv
  <1>1. CASE UNCHANGED <<condition, revived>>
    BY <1>1
  <1>2. ASSUME NEW e \in Ends, condition' = [condition EXCEPT ![e] = "Expired"],
               UNCHANGED revived
        PROVE  /\ revived => revived'
               /\ \A f \in Ends : Accepting(f) => Accepting(f)'
    BY <1>2
  <1>3. ASSUME NEW e \in Ends, Confirm(e)
        PROVE  /\ revived => revived'
               /\ \A f \in Ends : Accepting(f) => Accepting(f)'
    BY <1>3 DEF Confirm
  <1>4. CASE ClientStarts \/ SessionStarts
    BY <1>4 DEF ClientStarts, SessionStarts
  <1>5. CASE Break \/ ClientStops
    BY <1>1, <1>2, <1>5, ClientStopsStep DEF Break, ClientStops, Ends
  <1>6. ASSUME NEW e \in Ends, NEW m \in Messages[e], Accept(e, m)
        PROVE  UNCHANGED <<condition, revived>>
    BY <1>6 DEF Accept
  <1>7. ASSUME NEW e \in Ends, Io(e) \/ Close(e)
        PROVE  \/ UNCHANGED <<condition, revived>>
               \/ condition' = [condition EXCEPT ![e] = "Expired"] /\ UNCHANGED revived
    BY <1>7 DEF Io, ReadSocket, ReadFails, ReaderExpires, Expire, Close
  <1>8. ASSUME NEW e \in Ends, NEW w \in Workers, Work(e, w)
        PROVE  \/ UNCHANGED <<condition, revived>>
               \/ condition' = [condition EXCEPT ![e] = "Expired"] /\ UNCHANGED revived
               \/ \E f \in Ends : Confirm(f)
    BY <1>8 DEF Work, Take, Stage, SendFile, WriteSocket, ReceiveData, WorkerExpires,
       Expire, ReceiveHandshake, Notify, SessionConfirms, SessionRefuses,
       SessionNotifies, SessionReplies, ClientTakesKey, ClientConfirms, Ends
  <1> QED
    BY <1>1, <1>2, <1>3, <1>4, <1>5, <1>6, <1>7, <1>8 DEF Next

\* What is to be shown of a step that confirms nobody and makes no first key.
LEMMA HasKeyKept ==
  ASSUME HasKey,
         condition'["client"] = "Confirmed" => condition["client"] = "Confirmed",
         condition'["session"] = "Confirmed" => condition["session"] = "Confirmed",
         condition["client"] = "Expired" => condition'["client"] = "Expired",
         cipher["client"] => cipher'["client"] \/ condition'["client"] = "Expired",
         cipher["session"] => cipher'["session"],
         \A w \in Workers :
           doing'["client"][w].step = "assign" => doing["client"][w].step = "assign",
         \A w \in Workers :
           doing["session"][w].step = "notify" => doing'["session"][w].step = "notify"
  PROVE  HasKey'
  <1>1. /\ condition'["client"] = "Confirmed" => cipher'["client"]
        /\ \A w \in Workers :
             doing'["client"][w].step = "assign" /\ condition'["client"] # "Expired"
               => cipher'["client"]
    BY DEF HasKey
  <1>2. condition'["session"] = "Confirmed" =>
          cipher'["session"] \/ \E w \in Workers : doing'["session"][w].step = "notify"
    BY DEF HasKey
  <1> QED
    BY <1>1, <1>2 DEF HasKey

LEMMA DataSealedKept ==
  ASSUME DataSealed, NEW e \in Ends, NEW new, OnlyNew(e, new),
         \A f \in Ends : Accepting(f) => Accepting(f)',
         clear' = {},
         \A job \in new :
           /\ job.do \in {"encrypt", "file"} => Accepting(e)'
           /\ job.do \in {"compress", "send"} => job.what \in Handshake \/ job.sealed
  PROVE  DataSealed'
  <1> SUFFICES ASSUME NEW f \in Ends, NEW job \in JobsAt(f)'
               PROVE  /\ job.do \in {"encrypt", "file"} => Accepting(f)'
                      /\ job.do \in {"compress", "send"} =>
                           job.what \in Handshake \/ job.sealed
    BY DEF DataSealed
  <1>1. CASE job \in JobsAt(f)
    BY <1>1 DEF DataSealed
  <1>2. CASE f = e /\ job \in new
    BY <1>2
  <1> QED
    BY <1>1, <1>2 DEF OnlyNew

\* The jobs that are queued with a step, other than data.
Harmless(job) ==
  \/ job.do \in {"notify", "decompress", "decrypt", "receive"}
  \/ job.do = "compress" /\ job.what \in Handshake

LEMMA HarmlessKept ==
  ASSUME DataSealed, NEW e \in Ends, NEW new, OnlyNew(e, new),
         \A f \in Ends : Accepting(f) => Accepting(f)',
         clear' = clear,
         \A job \in new : Harmless(job)
  PROVE  DataSealed'
  <1>1. clear' = {}
    BY DEF DataSealed
  <1>2. \A job \in new :
           /\ job.do \in {"encrypt", "file"} => Accepting(e)'
           /\ job.do \in {"compress", "send"} => job.what \in Handshake \/ job.sealed
    BY DEF Harmless
  <1> QED
    BY <1>1, <1>2, DataSealedKept

LEMMA HarmlessJobs ==
  /\ \A sealed \in BOOLEAN : Harmless(Job("notify", sealed, FALSE))
  /\ \A what \in Handshake : Harmless(Job("compress", what, FALSE))
  BY DEF Harmless, Job

LEMMA WorkSeals ==
  ASSUME OneWorkerFor({"High", "Normal"}), ConnectionInv, HasKey, DataSealed,
         EncryptMode, ~revived', NEW e \in Ends, NEW w \in Workers, Work(e, w), Next
  PROVE  HasKey' /\ DataSealed'
  <1>1. doing[e][w].step # "idle" => doing[e][w].job \in JobsAt(e)
    BY DEF JobsAt, InHand
  <1>2. \A f \in Ends : Accepting(f) => Accepting(f)'
    BY ConditionStep
  <1>3. /\ clear = {} /\ "client" \in Ends /\ "session" \in Ends
        /\ e \in {"client", "session"}
    BY DEF DataSealed, Ends
  \* Most steps leave the two conditions and keys alone.
  <1>4. ASSUME OthersGoOn(e, w), UNCHANGED <<condition, cipher>>,
               doing[e][w].step \notin {"assign", "notify"} \/ e = "client",
               doing'[e][w].step # "assign" \/ e = "session"
        PROVE  HasKey'
    <2>1. \A v \in Workers :
            /\ e = "session" \/ v # w => doing'["client"][v] = doing["client"][v]
            /\ e = "client" \/ v # w => doing'["session"][v] = doing["session"][v]
      BY <1>3, <1>4 DEF OthersGoOn
    <2> QED
      BY <1>3, <1>4, <2>1, HasKeyKept
  <1>h. ASSUME NEW new, OnlyNew(e, new), UNCHANGED clear,
               \A job \in new : Harmless(job)
        PROVE  DataSealed'
    BY <1>2, <1>h, HarmlessKept
  <1>5. Done(e, w) => OthersGoOn(e, w) /\ doing'[e][w].step = "idle"
    BY DoneHand DEF OthersGoOn
  <1>6. CASE Take(e, w)
    <2>1. OnlyNew(e, {}) /\ OthersGoOn(e, w) /\ doing[e][w] = Idle
          /\ doing'[e][w].step = "work"
      BY <1>6, TakeHand DEF OnlyNew, OthersGoOn
    <2>2. UNCHANGED <<condition, cipher, clear>>
      BY <1>6 DEF Take, marks
    <2>8. HasKey'
      BY <1>4, <2>1, <2>2 DEF Idle
    <2>9. DataSealed'
      BY <1>h, <2>1, <2>2
    <2> QED
      BY <2>8, <2>9
  <1>7. CASE Stage(e, w)
    <2> DEFINE job == doing[e][w].job
               new == IF condition[e] = "Expired" THEN {} ELSE {NextJob(e, job)}
    <2>1. /\ OnlyNew(e, new) /\ job \in JobsAt(e) /\ job.do \in Staged
          /\ OthersGoOn(e, w) /\ doing[e][w].step = "work"
          /\ doing'[e][w].step = "idle"
      BY <1>5, <1>7, StageStep
    <2>2. UNCHANGED <<condition, cipher, clear>>
      BY <1>7 DEF Stage, marks
    <2>3. HasKey'
      BY <1>4, <2>1, <2>2
    <2>4. job.do = "encrypt" /\ condition[e] # "Expired" => cipher[e]
      <3> SUFFICES ASSUME job.do = "encrypt", condition[e] = "Confirmed"
                   PROVE  cipher[e]
        BY <2>1 DEF DataSealed, Accepting
      <3>1. CASE e = "client"
        BY <3>1 DEF HasKey
      <3>2. CASE e = "session"
        <4>1. SUFFICES ASSUME NEW v \in Workers, doing[e][v].step = "notify"
                       PROVE  FALSE
          BY <3>2 DEF HasKey
        <4>2. doing[e][v].job.do = "receive"
          BY <4>1 DEF ConnectionInv, WorkInv
        <4>3. /\ "High" \in Range(Serves[v])
              /\ "Normal" \in Range(Serves[w])
          BY <2>1, <4>1, <4>2 DEF ConnectionInv, WorkInv, PriorityOf
        <4>4. v = w
          BY <4>3 DEF OneWorkerFor
        <4> QED
          BY <2>1, <4>1, <4>4
      <3> QED
        BY <1>3, <3>1, <3>2
    <2>5. /\ NextJob(e, job).do \notin {"encrypt", "file"}
          /\ NextJob(e, job).do \in {"compress", "send"} /\ condition[e] # "Expired" =>
               NextJob(e, job).what \in Handshake \/ NextJob(e, job).sealed
      <3>1. CASE job.do = "encrypt"
        BY <2>4, <3>1 DEF NextJob, Job
      <3>2. CASE job.do = "compress"
        BY <2>1, <3>2 DEF NextJob, Job, DataSealed
      <3>3. CASE job.do \in {"decompress", "decrypt"}
        BY <3>3 DEF NextJob, Job
      <3> QED
        BY <2>1, <3>1, <3>2, <3>3 DEF Staged
    <2>6. DataSealed'
      BY <1>2, <1>3, <2>1, <2>2, <2>5, DataSealedKept
    <2> QED
      BY <2>3, <2>6
  <1>8. CASE SendFile(e, w)
    <2>1. /\ OnlyNew(e, {SendJob(What(e, w))}) /\ OthersGoOn(e, w)
          /\ doing[e][w].step = "work" /\ doing'[e][w].step = "idle"
          /\ Accepting(e)
      BY <1>1, <1>5, <1>8, SendFileStep DEF SendFile, At, DataSealed
    <2>2. UNCHANGED <<condition, cipher, clear>>
      BY <1>8 DEF SendFile, marks
    <2>3. /\ SendJob(What(e, w)).do = "encrypt"
             \/ (SendJob(What(e, w)).do = "compress" /\ SendJob(What(e, w)).what \in Handshake)
      BY DEF SendJob, Job
    <2>8. HasKey'
      BY <1>4, <2>1, <2>2
    <2>4. \A f \in Ends : Accepting(f) => Accepting(f)'
      BY <2>2 DEF Accepting
    <2>5. \A job \in {SendJob(What(e, w))} :
            /\ job.do \in {"encrypt", "file"} => Accepting(e)'
            /\ job.do \in {"compress", "send"} => job.what \in Handshake \/ job.sealed
      BY <2>1, <2>3, <2>4
    <2>6. clear' = {} /\ DataSealed
      BY <1>2, <1>3, <2>2 DEF DataSealed
    <2>9. DataSealed'
      BY <1>3, <2>1, <2>4, <2>5, <2>6, DataSealedKept
    <2> QED
      BY <2>8, <2>9
  <1>9. CASE WriteSocket(e, w)
    <2>1. /\ OnlyNew(e, {}) /\ OthersGoOn(e, w)
          /\ doing[e][w].step = "work" /\ doing'[e][w].step = "idle"
          /\ doing[e][w].job \in JobsAt(e) /\ doing[e][w].job.do = "send"
      BY <1>5, <1>9, WriteStep DEF WriteSocket, At
    <2>2. UNCHANGED <<condition, cipher>> /\ clear' = clear
      BY <1>9, <2>1 DEF WriteSocket, DataSealed
    <2>8. HasKey'
      BY <1>4, <2>1, <2>2
    <2>9. DataSealed'
      BY <1>h, <2>1, <2>2
    <2> QED
      BY <2>8, <2>9
  <1>10. CASE WorkerExpires(e, w)
    <2> DEFINE new == IF e = "client" THEN {}
                      ELSE {Job("notify", FALSE, FALSE),
                            Job("compress", "refused", FALSE)}
    <2>1. /\ OnlyNew(e, new) /\ OthersGoOn(e, w)
          /\ doing[e][w].step = "expire" /\ doing'[e][w].step \in {"idle", "refuse"}
          /\ condition' = [condition EXCEPT ![e] = "Expired"]
          /\ cipher' = [cipher EXCEPT ![e] = IF e = "session" THEN EncryptMode ELSE FALSE]
          /\ UNCHANGED clear
      BY <1>3, <1>10, WorkerExpiresStep DEF WorkerExpires, marks
    <2>2. \A v \in Workers :
            /\ e = "session" \/ v # w => doing'["client"][v] = doing["client"][v]
            /\ e = "client" \/ v # w => doing'["session"][v] = doing["session"][v]
      BY <1>3, <2>1 DEF OthersGoOn
    <2>3. /\ \A f \in Ends : condition'[f] \in {condition[f], "Expired"}
          /\ condition'[e] = "Expired"
          /\ \A f \in Ends \ {e} : cipher'[f] = cipher[f]
          /\ e = "session" => cipher'[e]
      BY <2>1 DEF ConnectionInv
    <2>4. HasKey'
      BY <1>3, <2>1, <2>2, <2>3, HasKeyKept
    <2>5. \A job \in new : Harmless(job)
      BY HarmlessJobs DEF Handshake
    <2> HIDE DEF new
    <2>6. DataSealed'
      BY <1>h, <2>1, <2>5
    <2> QED
      BY <2>4, <2>6
  <1>11. CASE ReceiveData(e, w) \/ ReceiveHandshake(e, w) \/ Notify(e, w)
    <2>1. OnlyNew(e, {}) /\ OthersGoOn(e, w)
      BY <1>11, QuietStep
    <2>2. UNCHANGED <<condition, cipher, clear>> /\ doing[e][w].step = "work"
      BY <1>11 DEF ReceiveData, ReceiveHandshake, Notify, At, marks
    <2>3. doing'[e][w].step \in {"idle", "expire", "confirm"}
      BY <1>11, <1>5 DEF ReceiveData, ReceiveHandshake, Notify, Goes, ConnectionInv, WorkInv
    <2>8. HasKey'
      BY <1>4, <2>1, <2>2, <2>3
    <2>9. DataSealed'
      BY <1>h, <2>1, <2>2
    <2> QED
      BY <2>8, <2>9
  <1>12. CASE e = "session" /\ SessionConfirms(w)
    <2>1. OnlyNew(e, {}) /\ OthersGoOn(e, w)
      BY <1>12, QuietStep
    <2>2. UNCHANGED <<cipher, clear>> /\ doing[e][w].step = "confirm"
      BY <1>12 DEF SessionConfirms, At
    <2>3. DataSealed'
      BY <1>h, <2>1, <2>2
    <2>4. CASE Confirm("session") /\ Goes("session", w, "notify")
      <3>1. condition'["client"] = condition["client"]
        BY <1>3, <2>4 DEF Confirm, ConnectionInv
      <3>2. doing'["session"][w].step = "notify"
        BY <1>3, <2>4 DEF Goes, ConnectionInv, WorkInv
      <3>3. \A v \in Workers : doing'["client"][v] = doing["client"][v]
        BY <1>3, <1>12, <2>1 DEF OthersGoOn
      <3> QED
        BY <2>2, <2>3, <3>1, <3>2, <3>3 DEF HasKey
    <2>5. CASE UNCHANGED condition
      BY <1>4, <1>12, <2>1, <2>2, <2>3, <2>5
    <2> QED
      BY <1>12, <2>4, <2>5 DEF SessionConfirms
  <1>13. CASE e = "session" /\ SessionRefuses(w)
    <2> DEFINE new == {Job("notify", FALSE, FALSE), Job("compress", "refused", FALSE)}
    <2>1. /\ OnlyNew(e, new)
          /\ OthersGoOn(e, w) /\ doing'[e][w].step = "idle"
          /\ doing[e][w].step = "refuse" /\ UNCHANGED clear
      BY <1>3, <1>5, <1>13, RefuseStep DEF SessionRefuses, At, marks
    <2>2. /\ UNCHANGED condition /\ cipher'["session"]
          /\ cipher'["client"] = cipher["client"]
      BY <1>3, <1>13 DEF SessionRefuses, Refuse, ConnectionInv
    <2>3. \A v \in Workers : doing'["client"][v] = doing["client"][v]
      BY <1>3, <1>13, <2>1 DEF OthersGoOn
    <2>4. HasKey'
      BY <2>2, <2>3 DEF HasKey
    <2>5. DataSealed'
      <3>1. \A job \in new : Harmless(job)
        BY HarmlessJobs DEF Handshake
      <3> HIDE DEF new
      <3> QED
        BY <1>h, <2>1, <2>2, <3>1
    <2> QED
      BY <2>4, <2>5
  <1>14. CASE e = "session" /\ SessionNotifies(w)
    <2> DEFINE new == {Job("notify", TRUE, FALSE)}
    <2>1. /\ OnlyNew(e, new) /\ OthersGoOn(e, w)
          /\ UNCHANGED clear
      BY <1>3, <1>14, NotifiesStep DEF SessionNotifies, marks
    <2>2. /\ UNCHANGED condition /\ cipher'["session"]
          /\ cipher'["client"] = cipher["client"]
      BY <1>3, <1>14 DEF SessionNotifies, ConnectionInv
    <2>3. \A v \in Workers : doing'["client"][v] = doing["client"][v]
      BY <1>3, <1>14, <2>1 DEF OthersGoOn
    <2>4. HasKey'
      BY <2>2, <2>3 DEF HasKey
    <2>5. DataSealed'
      <3>1. \A job \in new : Harmless(job)
        BY HarmlessJobs
      <3> HIDE DEF new
      <3> QED
        BY <1>h, <2>1, <2>2, <3>1
    <2> QED
      BY <2>4, <2>5
  <1>15. CASE e = "session" /\ SessionReplies(w)
    <2> DEFINE new == {Job("compress", "accepted", FALSE)}
    <2>1. /\ OnlyNew(e, new) /\ OthersGoOn(e, w)
          /\ doing[e][w].step = "reply" /\ doing'[e][w].step = "idle"
          /\ UNCHANGED <<condition, cipher, clear>>
      BY <1>5, <1>15, RepliesStep DEF SessionReplies, At, marks
    <2>2. HasKey'
      BY <1>4, <2>1
    <2>3. DataSealed'
      <3>1. \A job \in new : Harmless(job)
        BY HarmlessJobs DEF Handshake
      <3> HIDE DEF new
      <3> QED
        BY <1>h, <2>1, <2>2, <3>1
    <2> QED
      BY <2>2, <2>3
  <1>16. CASE e = "client" /\ ClientTakesKey(w)
    <2>1. OnlyNew(e, {}) /\ OthersGoOn(e, w)
      BY <1>16, QuietStep
    <2>2. /\ UNCHANGED <<condition, clear>> /\ cipher'["client"]
          /\ cipher'["session"] = cipher["session"]
      BY <1>3, <1>16 DEF ClientTakesKey, ConnectionInv, marks
    <2>3. \A v \in Workers : doing'["session"][v] = doing["session"][v]
      BY <1>3, <1>16, <2>1 DEF OthersGoOn
    <2>4. HasKey'
      BY <2>2, <2>3 DEF HasKey
    <2>5. DataSealed'
      BY <1>h, <2>1, <2>2
    <2> QED
      BY <2>4, <2>5
  <1>17. CASE e = "client" /\ ClientConfirms(w)
    <2> DEFINE new == {Job("notify", TRUE, FALSE)}
    <2>1. /\ OnlyNew(e, new) /\ OthersGoOn(e, w)
          /\ doing'[e][w].step = "idle"
      BY <1>5, <1>17, ClientConfirmsStep
    <2>2. /\ UNCHANGED <<cipher, clear>> /\ cipher["client"]
          /\ condition'["session"] = condition["session"]
      <3>1. condition["client"] # "Expired" /\ doing["client"][w].step = "assign"
        BY <1>17 DEF ClientConfirms, Confirm, At
      <3> QED
        BY <1>3, <1>17, <3>1 DEF ClientConfirms, Confirm, ConnectionInv, HasKey
    <2>3. \A v \in Workers : doing'["session"][v] = doing["session"][v]
      BY <1>3, <1>17, <2>1 DEF OthersGoOn
    <2>4. HasKey'
      BY <2>2, <2>3 DEF HasKey
    <2>5. DataSealed'
      <3>1. \A job \in new : Harmless(job)
        BY HarmlessJobs
      <3> HIDE DEF new
      <3> QED
        BY <1>h, <2>1, <2>2, <3>1
    <2> QED
      BY <2>4, <2>5
  <1> QED
    BY <1>6, <1>7, <1>8, <1>9, <1>10, <1>11, <1>12, <1>13, <1>14, <1>15, <1>16,
       <1>17 DEF Work

LEMMA SealInvStep ==
  ASSUME OneWorkerFor({"High", "Normal"}), ConnectionInv, SealInv, [Next]_vars
  PROVE  SealInv'
  <1>1. CASE UNCHANGED vars
    BY <1>1 DEF vars, marks, SealInv, HasKey, DataSealed, Accepting, JobsAt, JobsOf,
       InHand
  <1>2. CASE revived'
    BY <1>2 DEF SealInv
  <1>3. CASE Next /\ EncryptMode /\ ~revived'
    <2>1. /\ HasKey /\ DataSealed
          /\ \A f \in Ends : Accepting(f) => Accepting(f)'
      BY <1>3, ConditionStep DEF SealInv
    <2>2. "client" \in Ends /\ "session" \in Ends
      BY DEF Ends
    <2>h. ASSUME NEW e \in Ends, NEW new, OnlyNew(e, new), UNCHANGED clear,
                 \A job \in new : Harmless(job)
          PROVE  DataSealed'
      BY <2>1, <2>h, HarmlessKept
    <2>k. ASSUME UNCHANGED doing,
                 \A f \in Ends :
                   /\ condition'[f] = "Confirmed" => condition[f] = "Confirmed"
                   /\ condition[f] = "Expired" => condition'[f] = "Expired",
                 cipher["client"] => cipher'["client"] \/ condition'["client"] = "Expired",
                 cipher["session"] => cipher'["session"]
          PROVE  HasKey'
      BY <2>1, <2>2, <2>k, HasKeyKept
    <2>3. CASE ClientStarts
      <3> DEFINE new == {Job("compress", "request", FALSE)}
      <3>1. OnlyNew("client", new) /\ UNCHANGED <<clear, cipher, doing>>
        BY <2>3, ClientStartsStep DEF ClientStarts, marks
      <3>2. \A job \in new : Harmless(job)
        BY HarmlessJobs DEF Handshake
      <3>3. \A f \in Ends : /\ condition'[f] = "Confirmed" => condition[f] = "Confirmed"
                            /\ condition[f] = "Expired" => condition'[f] = "Expired"
        BY <2>3 DEF ClientStarts, ConnectionInv
      <3> HIDE DEF new
      <3>4. HasKey' /\ DataSealed'
        BY <2>2, <2>h, <2>k, <3>1, <3>2, <3>3
      <3> QED
        BY <3>4 DEF SealInv
    <2>4. CASE SessionStarts \/ Break
      <3>1. OnlyNew("client", {}) /\ UNCHANGED <<clear, cipher, doing>>
        BY <2>2, <2>4, OtherStep DEF SessionStarts, Break, marks
      <3>2. \A f \in Ends : /\ condition'[f] = "Confirmed" => condition[f] = "Confirmed"
                            /\ condition[f] = "Expired" => condition'[f] = "Expired"
        BY <2>4 DEF SessionStarts, Break, ConnectionInv
      <3>3. HasKey' /\ DataSealed'
        BY <2>2, <2>h, <2>k, <3>1, <3>2
      <3> QED
        BY <3>3 DEF SealInv
    <2>5. CASE ClientStops
      <3>1. /\ OnlyNew("client", {})
            /\ condition' = [condition EXCEPT !["client"] = "Expired"]
            /\ cipher' = [cipher EXCEPT !["client"] = FALSE]
            /\ UNCHANGED <<clear, doing>>
        BY <2>5, ClientStopsStep DEF ClientStops
      <3>2. /\ condition'["client"] = "Expired"
            /\ condition'["session"] = condition["session"]
            /\ cipher'["session"] = cipher["session"]
        BY <2>2, <3>1 DEF ConnectionInv
      <3>3. HasKey' /\ DataSealed'
        BY <2>2, <2>h, <2>k, <3>1, <3>2 DEF Ends
      <3> QED
        BY <3>3 DEF SealInv
    <2>6. ASSUME NEW e \in Ends, NEW m \in Messages[e], Accept(e, m)
          PROVE  SealInv'
      <3> DEFINE new == {SendJob(m)} \cup {Job("file", FileOf[n], FALSE) :
                                           n \in {m} \cap DOMAIN FileOf}
      <3>1. /\ OnlyNew(e, new) /\ UNCHANGED <<condition, clear, cipher, doing>>
            /\ Accepting(e)'
        BY <2>6, AcceptStep DEF Accept, Accepting, marks
      <3>2. \A job \in new : job.do \in {"compress", "send"} => job.what \in Handshake
        BY DEF SendJob, Job
      <3> HIDE DEF new
      <3>3. DataSealed'
        BY <2>1, <3>1, <3>2, DataSealedKept DEF DataSealed
      <3>4. HasKey'
        BY <2>k, <3>1
      <3> QED
        BY <3>3, <3>4 DEF SealInv
    <2>7. ASSUME NEW e \in Ends, NEW w \in Workers, Work(e, w)
          PROVE  SealInv'
      BY <1>3, <2>1, <2>7, WorkSeals DEF SealInv
    <2>8. ASSUME NEW e \in Ends, ReadSocket(e)
          PROVE  SealInv'
      <3> DEFINE job == [Head(stream[e]) EXCEPT !.do = "decompress"]
      <3>1. /\ OnlyNew(e, {job}) /\ Head(stream[e]) \in JobT
            /\ UNCHANGED <<condition, clear, cipher, doing>>
        BY <2>8, ReadStep, RangeInSet DEF ReadSocket, ConnectionInv, marks
      <3>2. Harmless(job)
        BY <3>1 DEF Harmless, JobT
      <3> HIDE DEF job
      <3>3. HasKey' /\ DataSealed'
        BY <2>h, <2>k, <3>1, <3>2
      <3> QED
        BY <3>3 DEF SealInv
    <2>9. ASSUME NEW e \in Ends, ReadFails(e) \/ Close(e)
          PROVE  SealInv'
      <3>1. OnlyNew(e, {}) /\ UNCHANGED <<condition, clear, cipher, doing>>
        BY <2>9, OtherStep, CloseStep DEF ReadFails, Close, marks
      <3>2. HasKey' /\ DataSealed'
        BY <2>h, <2>k, <3>1
      <3> QED
        BY <3>2 DEF SealInv
    <2>10. ASSUME NEW e \in Ends, ReaderExpires(e)
           PROVE  SealInv'
      <3> DEFINE new == IF e = "client" THEN {}
                        ELSE {Job("notify", FALSE, FALSE),
                              Job("compress", "refused", FALSE)}
      <3>1. /\ OnlyNew(e, new)
            /\ condition' = [condition EXCEPT ![e] = "Expired"]
            /\ cipher' = [cipher EXCEPT ![e] = IF e = "session" THEN EncryptMode ELSE FALSE]
            /\ UNCHANGED <<clear, doing>>
        BY <2>10, ReaderExpiresStep DEF ReaderExpires, marks
      <3>2. \A job \in new : Harmless(job)
        BY HarmlessJobs DEF Handshake
      <3> HIDE DEF new
      <3>3. /\ \A f \in Ends : condition'[f] \in {condition[f], "Expired"}
            /\ condition'[e] = "Expired"
            /\ \A f \in Ends \ {e} : cipher'[f] = cipher[f]
            /\ e = "session" => cipher'[e]
        BY <1>3, <3>1 DEF ConnectionInv
      <3>4. DataSealed'
        BY <2>h, <3>1, <3>2
      <3>5. HasKey'
        BY <2>2, <2>k, <3>1, <3>3
      <3> QED
        BY <3>4, <3>5 DEF SealInv
    <2> QED
      BY <1>3, <2>3, <2>4, <2>5, <2>6, <2>7, <2>8, <2>9, <2>10 DEF Next, Io
  <1>4. CASE ~EncryptMode
    BY <1>4 DEF SealInv
  <1> QED
    BY <1>1, <1>2, <1>3, <1>4

(***************************************************************************)
(* In encrypt mode data leaves both ends encrypted, unless an end was      *)
(* confirmed after it had expired.  One worker of a pool has to do what is *)
(* queued as High and Normal: the session is confirmed before it has made  *)
(* its key, and only because the same worker makes it before it encrypts   *)
(* is nothing sent in the clear meanwhile.                                 *)
(***************************************************************************)
THEOREM DataLeavesEncrypted ==
  ASSUME OneWorkerFor({"High", "Normal"})
  PROVE  Spec => []DataIsEncrypted
  <1>1. Init => SealInv
    <2> SUFFICES ASSUME Init PROVE SealInv
      OBVIOUS
    <2>1. \A e \in Ends : JobsAt(e) = {}
      BY RangeOfEmpty DEF Init, JobsAt, JobsOf, InHand, Idle
    <2> QED
      BY <2>1 DEF Init, SealInv, HasKey, DataSealed, Ends, Idle
  <1>2. SealInv => DataIsEncrypted
    BY DEF SealInv, DataIsEncrypted, DataSealed
  <1>3. ConnectionInv /\ SealInv /\ [Next]_vars => SealInv'
    BY SealInvStep
  <1> QED
    BY <1>1, <1>2, <1>3, ConnectionInvInit, ConnectionInvStep, PTL DEF Spec


-----------------------------------------------------------------------------
(* Lines, apart from the connection.  The item i of rank q is what stands  *)
(* there; some jobs of a queue are of other lines, and do not count.       *)

\* Rank 1 is the application, rank 14 the queue behind send(); each rank holds
\* jobs of one kind.
Ranks == 1 .. 14
Kind == <<"got", "receive", "receive", "decrypt", "decrypt", "decompress",
          "decompress", "send", "send", "send", "compress", "compress",
          "encrypt", "encrypt">>

\* What counts of a line at a rank: the jobs of its kind.
Counted(L, q, i) == i \in DOMAIN L[q] /\ L[q][i].do = Kind[q]

\* The item i of rank q is nearer to the application than the item j of rank r.
Ahead(q, i, r, j) == q < r \/ (q = r /\ i < j)

\* The messages of L stand in the order in which they are in s.
Ordered(L, s) ==
  \A q, r \in Ranks : \A i \in DOMAIN L[q], j \in DOMAIN L[r] :
    Counted(L, q, i) /\ Counted(L, r, j) /\ Ahead(q, i, r, j) =>
      \A a, b \in DOMAIN s :
        s[a] = L[q][i].what /\ s[b] = L[r][j].what => a < b

\* Nothing of L is ahead of m, and m is in L once.
First(L, m) ==
  \A q, r \in Ranks : \A i \in DOMAIN L[q], j \in DOMAIN L[r] :
    /\ Counted(L, q, i) /\ Counted(L, r, j)
    /\ L[q][i].what = m
    /\ <<q, i>> # <<r, j>>
    => Ahead(q, i, r, j)

\* Whatever counts in L is in the sequence s or the set H.
Known(L, s, H) ==
  \A q \in Ranks : \A i \in DOMAIN L[q] :
    Counted(L, q, i) => L[q][i].what \in Range(s) \cup H

\* m counts somewhere in L.
InLine(L, m) ==
  \E q \in Ranks : \E i \in DOMAIN L[q] : Counted(L, q, i) /\ L[q][i].what = m

LineT == [do : Dos \cup {"got"}, what : Content, sealed : BOOLEAN]
Lines == [Ranks -> Seq(LineT)]

\* What counts in L2 counted in L, at the same place or, if it was at rank r,
\* one place nearer; or it is of H.
Comes(L, L2, r, x, H) ==
  \A q \in Ranks : \A j \in DOMAIN L2[q] : Counted(L2, q, j) =>
    \/ L2[q][j].what \in H
    \/ q # r /\ Counted(L, q, j) /\ L2[q][j] = L[q][j]
    \/ q = r /\ Counted(L, q, j + 1) /\ L2[q][j] = L[q][j + 1]
    \/ /\ q + 1 = r /\ j = Len(L[q]) + 1 /\ L2[q][j] = x
       /\ Counted(L, r, 1) /\ x.what = L[r][1].what

\* What is in L is in L2.
Keeps(L, L2) == \A m : InLine(L, m) => InLine(L2, m)

\* A rank is left alone, or has one more item, which does not count or is of H.
Stays(s, t, q, H) ==
  \/ t = s
  \/ \E x \in LineT : (x.do # Kind[q] \/ x.what \in H) /\ t = Append(s, x)

LEMMA StaysPlaces ==
  ASSUME NEW s \in Seq(LineT), NEW t, NEW q \in Ranks, NEW H, Stays(s, t, q, H)
  PROVE  /\ t \in Seq(LineT)
         /\ \A i \in DOMAIN s : i \in DOMAIN t /\ t[i] = s[i]
         /\ \A i \in DOMAIN t : \/ i \in DOMAIN s /\ t[i] = s[i]
                                \/ t[i].do # Kind[q] \/ t[i].what \in H
  <1>1. CASE t = s
    BY <1>1
  <1>2. CASE t # s
    <2>1. PICK x \in LineT : (x.do # Kind[q] \/ x.what \in H) /\ t = Append(s, x)
      BY <1>2 DEF Stays
    <2>2. /\ t \in Seq(LineT) /\ Len(t) = Len(s) + 1 /\ Len(s) \in Nat
          /\ \A i \in 1 .. Len(s) : t[i] = s[i]
          /\ t[Len(s) + 1] = x
      BY <2>1, AppendProperties, LenProperties
    <2>3. DOMAIN s = 1 .. Len(s) /\ DOMAIN t = 1 .. Len(s) + 1
      BY <2>2, LenProperties
    <2> QED
      BY <2>1, <2>2, <2>3
  <1> QED
    BY <1>1, <1>2

LEMMA StillMoves ==
  ASSUME NEW L \in Lines, NEW L2, NEW H, NEW x,
         \A q \in Ranks : Stays(L[q], L2[q], q, H)
  PROVE  /\ Comes(L, L2, 0, x, H)
         /\ Keeps(L, L2)
  <1>1. \A q \in Ranks : L[q] \in Seq(LineT)
    BY DEF Lines
  <1>2. \A q \in Ranks :
          /\ \A i \in DOMAIN L[q] : i \in DOMAIN L2[q] /\ L2[q][i] = L[q][i]
          /\ \A i \in DOMAIN L2[q] : \/ i \in DOMAIN L[q] /\ L2[q][i] = L[q][i]
                                     \/ L2[q][i].do # Kind[q] \/ L2[q][i].what \in H
    BY <1>1, StaysPlaces
  <1>3. Comes(L, L2, 0, x, H)
    <2>1. \A q \in Ranks : q # 0
      BY DEF Ranks
    <2> QED
      BY <1>2, <2>1 DEF Comes, Counted
  <1>4. Keeps(L, L2)
    BY <1>2 DEF Keeps, InLine, Counted
  <1> QED
    BY <1>3, <1>4

LEMMA EmptyMoves ==
  ASSUME NEW L \in Lines, NEW L2, NEW H, NEW x,
         \A q \in Ranks : L2[q] = L[q] \/ L2[q] = <<>>
  PROVE  Comes(L, L2, 0, x, H)
  BY DEF Comes, Counted, Ranks

\* The head of rank r leaves.
LEMMA LoseMoves ==
  ASSUME NEW L \in Lines, NEW L2, NEW H, NEW x, NEW r \in Ranks,
         L[r] # <<>>, L2[r] = Tail(L[r]),
         \A q \in Ranks \ {r} : Stays(L[q], L2[q], q, H)
  PROVE  /\ Comes(L, L2, r, x, H)
         /\ L[r][1] = Head(L[r]) /\ 1 \in DOMAIN L[r]
         /\ \A m : InLine(L, m) => \/ InLine(L2, m)
                                   \/ L[r][1].do = Kind[r] /\ L[r][1].what = m
  <1>1. \A q \in Ranks : L[q] \in Seq(LineT) /\ DOMAIN L[q] = 1 .. Len(L[q])
                         /\ Len(L[q]) \in Nat
    BY LenProperties DEF Lines
  <1>2. \A q \in Ranks \ {r} :
          /\ \A i \in DOMAIN L[q] : i \in DOMAIN L2[q] /\ L2[q][i] = L[q][i]
          /\ \A i \in DOMAIN L2[q] : \/ i \in DOMAIN L[q] /\ L2[q][i] = L[q][i]
                                     \/ L2[q][i].do # Kind[q] \/ L2[q][i].what \in H
    BY <1>1, StaysPlaces
  <1>3. /\ Head(L[r]) = L[r][1] /\ Len(L[r]) > 0
        /\ DOMAIN L2[r] = 1 .. Len(L[r]) - 1
        /\ \A i \in 1 .. Len(L[r]) - 1 : L2[r][i] = L[r][i + 1]
    BY <1>1, HeadTailProperties, LenProperties, EmptySeq
  <1>4. \A j \in DOMAIN L2[r] : j + 1 \in DOMAIN L[r] /\ L2[r][j] = L[r][j + 1]
    BY <1>1, <1>3
  <1>5. Comes(L, L2, r, x, H)
    BY <1>2, <1>4 DEF Comes, Counted
  <1>6. \A i \in DOMAIN L[r] : i # 1 =>
           i - 1 \in DOMAIN L2[r] /\ L2[r][i - 1] = L[r][i]
    BY <1>1, <1>3
  <1>7. 1 \in DOMAIN L[r]
    BY <1>1, <1>3
  <1>8. ASSUME NEW m, InLine(L, m)
        PROVE  InLine(L2, m) \/ (L[r][1].do = Kind[r] /\ L[r][1].what = m)
    <2>1. PICK q \in Ranks : \E i \in DOMAIN L[q] : Counted(L, q, i) /\ L[q][i].what = m
      BY <1>8 DEF InLine
    <2>0. PICK i \in DOMAIN L[q] : Counted(L, q, i) /\ L[q][i].what = m
      BY <2>1
    <2>2. CASE q # r
      BY <2>0, <2>2, <1>2 DEF InLine, Counted
    <2>3. CASE q = r /\ i # 1
      BY <2>0, <2>3, <1>6 DEF InLine, Counted
    <2>4. CASE q = r /\ i = 1
      BY <2>0, <2>4 DEF Counted
    <2> QED
      BY <2>2, <2>3, <2>4
  <1> QED
    BY <1>3, <1>5, <1>7, <1>8

\* The head of rank r goes on as x to the rank before.
LEMMA PassMoves ==
  ASSUME NEW L \in Lines, NEW L2, NEW H, NEW x \in LineT, NEW r \in Ranks \ {1},
         L[r] # <<>>, L2[r] = Tail(L[r]),
         L2[r - 1] = Append(L[r - 1], x),
         Head(L[r]).do = Kind[r], x.what = Head(L[r]).what, x.do = Kind[r - 1],
         \A q \in Ranks \ {r, r - 1} : Stays(L[q], L2[q], q, H)
  PROVE  /\ Comes(L, L2, r, x, H)
         /\ Keeps(L, L2)
         /\ L[r][1] = Head(L[r]) /\ 1 \in DOMAIN L[r]
  <1> DEFINE p == r - 1
  <1>0. p \in Ranks /\ p # r /\ p + 1 = r
    BY DEF Ranks
  <1>1. \A q \in Ranks : L[q] \in Seq(LineT) /\ DOMAIN L[q] = 1 .. Len(L[q])
                         /\ Len(L[q]) \in Nat
    BY LenProperties DEF Lines
  <1>2. \A q \in Ranks \ {r, p} :
          /\ \A i \in DOMAIN L[q] : i \in DOMAIN L2[q] /\ L2[q][i] = L[q][i]
          /\ \A i \in DOMAIN L2[q] : \/ i \in DOMAIN L[q] /\ L2[q][i] = L[q][i]
                                     \/ L2[q][i].do # Kind[q] \/ L2[q][i].what \in H
    BY <1>1, StaysPlaces
  <1>3. /\ Head(L[r]) = L[r][1] /\ Len(L[r]) > 0
        /\ DOMAIN L2[r] = 1 .. Len(L[r]) - 1
        /\ \A i \in 1 .. Len(L[r]) - 1 : L2[r][i] = L[r][i + 1]
    BY <1>1, HeadTailProperties, LenProperties, EmptySeq
  <1>4. \A j \in DOMAIN L2[r] : j + 1 \in DOMAIN L[r] /\ L2[r][j] = L[r][j + 1]
    BY <1>1, <1>3
  <1>5. /\ DOMAIN L2[p] = 1 .. Len(L[p]) + 1
        /\ \A i \in 1 .. Len(L[p]) : L2[p][i] = L[p][i]
        /\ L2[p][Len(L[p]) + 1] = x
    <2>1. L[p] \in Seq(LineT) /\ L2[p] = Append(L[p], x)
      BY <1>0, <1>1
    <2> QED
      BY <2>1, AppendProperties, LenProperties
  <1>6. 1 \in DOMAIN L[r] /\ Counted(L, r, 1) /\ x.what = L[r][1].what
    BY <1>1, <1>3 DEF Counted
  <1>7. \A j \in DOMAIN L2[p] : \/ j \in DOMAIN L[p] /\ L2[p][j] = L[p][j]
                                \/ j = Len(L[p]) + 1 /\ L2[p][j] = x
    BY <1>0, <1>1, <1>5
  <1>8. Comes(L, L2, r, x, H)
    <2> HIDE DEF p
    <2> SUFFICES ASSUME NEW q \in Ranks, NEW j \in DOMAIN L2[q], Counted(L2, q, j)
                 PROVE  \/ L2[q][j].what \in H
                        \/ q # r /\ Counted(L, q, j) /\ L2[q][j] = L[q][j]
                        \/ q = r /\ Counted(L, q, j + 1) /\ L2[q][j] = L[q][j + 1]
                        \/ /\ q + 1 = r /\ j = Len(L[q]) + 1 /\ L2[q][j] = x
                           /\ Counted(L, r, 1) /\ x.what = L[r][1].what
      BY DEF Comes
    <2>1. CASE q = r
      BY <2>1, <1>4 DEF Counted
    <2>2. CASE q = p
      BY <2>2, <1>0, <1>6, <1>7 DEF Counted
    <2>3. CASE q \in Ranks \ {r, p}
      BY <2>3, <1>2 DEF Counted
    <2> QED
      BY <2>1, <2>2, <2>3
  <1>9. \A i \in DOMAIN L[r] : i # 1 =>
           i - 1 \in DOMAIN L2[r] /\ L2[r][i - 1] = L[r][i]
    BY <1>1, <1>3
  <1>10. /\ \A i \in DOMAIN L[p] : i \in DOMAIN L2[p] /\ L2[p][i] = L[p][i]
         /\ Len(L[p]) + 1 \in DOMAIN L2[p] /\ Counted(L2, p, Len(L[p]) + 1)
    BY <1>0, <1>1, <1>5 DEF Counted
  <1>11. ASSUME NEW m, InLine(L, m) PROVE InLine(L2, m)
    <2>1. PICK q \in Ranks : \E i \in DOMAIN L[q] : Counted(L, q, i) /\ L[q][i].what = m
      BY <1>11 DEF InLine
    <2>0. PICK i \in DOMAIN L[q] : Counted(L, q, i) /\ L[q][i].what = m
      BY <2>1
    <2>2. CASE q \in Ranks \ {r, p}
      BY <2>0, <2>2, <1>2 DEF InLine, Counted
    <2>3. CASE q = r /\ i # 1
      BY <2>0, <2>3, <1>9 DEF InLine, Counted
    <2>4. CASE q = r /\ i = 1
      BY <2>0, <2>4, <1>0, <1>5, <1>6, <1>10 DEF InLine
    <2>5. CASE q = p
      BY <2>0, <2>5, <1>0, <1>10 DEF InLine, Counted
    <2> QED
      BY <2>2, <2>3, <2>4, <2>5
  <1> QED
    BY <1>3, <1>6, <1>8, <1>11 DEF Keeps

LEMMA PassMovesTo ==
  ASSUME NEW L \in Lines, NEW L2, NEW H, NEW x \in LineT, NEW r \in Ranks, NEW k \in Ranks,
         k + 1 = r, L[r] # <<>>, L2[r] = Tail(L[r]), L2[k] = Append(L[k], x),
         Head(L[r]).do = Kind[r], x.what = Head(L[r]).what, x.do = Kind[k],
         \A q \in Ranks : q = r \/ q = k \/ Stays(L[q], L2[q], q, H)
  PROVE  Comes(L, L2, r, x, H) /\ Keeps(L, L2)
  <1>1. r \in Ranks \ {1} /\ r - 1 = k
    BY DEF Ranks
  <1> QED
    BY <1>1, PassMoves

\* Where the item i of rank q of L2 was in L.
Was(L, r, q, i, q1, i1) ==
  \/ q1 = q /\ q # r /\ i1 = i
  \/ q1 = q /\ q = r /\ i1 = i + 1
  \/ q1 = q + 1 /\ q1 = r /\ i1 = 1 /\ i = Len(L[q]) + 1

CameFrom(L, L2, r, q, i) ==
  \E q1 \in Ranks : \E i1 \in DOMAIN L[q1] :
    /\ Counted(L, q1, i1)
    /\ L[q1][i1].what = L2[q][i].what
    /\ Was(L, r, q, i, q1, i1)

LEMMA ComesFrom ==
  ASSUME NEW L, NEW L2, NEW r \in Ranks \cup {0}, NEW x, NEW H,
         Comes(L, L2, r, x, H)
  PROVE  \A q \in Ranks : \A i \in DOMAIN L2[q] :
           Counted(L2, q, i) /\ L2[q][i].what \notin H => CameFrom(L, L2, r, q, i)
  <1> SUFFICES ASSUME NEW q \in Ranks, NEW i \in DOMAIN L2[q], Counted(L2, q, i),
                      L2[q][i].what \notin H
               PROVE  CameFrom(L, L2, r, q, i)
    OBVIOUS
  <1>1. \/ q # r /\ Counted(L, q, i) /\ L2[q][i] = L[q][i]
        \/ q = r /\ Counted(L, q, i + 1) /\ L2[q][i] = L[q][i + 1]
        \/ /\ q + 1 = r /\ i = Len(L[q]) + 1 /\ L2[q][i] = x
           /\ Counted(L, r, 1) /\ x.what = L[r][1].what
    BY DEF Comes
  <1>2. CASE q # r /\ Counted(L, q, i) /\ L2[q][i] = L[q][i]
    BY <1>2 DEF Counted, CameFrom, Was
  <1>3. CASE q = r /\ Counted(L, q, i + 1) /\ L2[q][i] = L[q][i + 1]
    BY <1>3 DEF Counted, CameFrom, Was
  <1>4. CASE /\ q + 1 = r /\ i = Len(L[q]) + 1 /\ L2[q][i] = x
             /\ Counted(L, r, 1) /\ x.what = L[r][1].what
    <2>1. r \in Ranks
      BY <1>4 DEF Ranks
    <2> QED
      BY <1>4, <2>1 DEF Counted, CameFrom, Was
  <1> QED
    BY <1>1, <1>2, <1>3, <1>4

\* The same of numbers only: m and n are the lengths of the ranks q and k.
LEMMA PlacesKept ==
  ASSUME NEW r, NEW q \in Nat, NEW k \in Nat, NEW q1 \in Nat, NEW k1 \in Nat,
         NEW i \in Nat \ {0}, NEW j \in Nat \ {0},
         NEW i1 \in Nat \ {0}, NEW j1 \in Nat \ {0}, NEW m \in Nat, NEW n \in Nat,
         q = k => m = n, q1 = q => i1 <= m, k1 = k => j1 <= n,
         \/ q1 = q /\ q # r /\ i1 = i
         \/ q1 = q /\ q = r /\ i1 = i + 1
         \/ q1 = q + 1 /\ q1 = r /\ i1 = 1 /\ i = m + 1,
         \/ k1 = k /\ k # r /\ j1 = j
         \/ k1 = k /\ k = r /\ j1 = j + 1
         \/ k1 = k + 1 /\ k1 = r /\ j1 = 1 /\ j = n + 1
  PROVE  (q1 < k1 \/ (q1 = k1 /\ i1 < j1)) <=> (q < k \/ (q = k /\ i < j))
  <1>1. CASE q1 = q /\ q # r /\ i1 = i
    BY <1>1
  <1>2. CASE q1 = q /\ q = r /\ i1 = i + 1
    BY <1>2
  <1>3. CASE q1 = q + 1 /\ q1 = r /\ i1 = 1 /\ i = m + 1
    BY <1>3
  <1> QED
    BY <1>1, <1>2, <1>3

\* A step leaves the places in their order.
LEMMA AheadKept ==
  ASSUME NEW L \in Lines, NEW L2, \A n \in Ranks : L2[n] \in Seq(LineT), NEW r,
         NEW q \in Ranks, NEW i \in DOMAIN L2[q],
         NEW k \in Ranks, NEW j \in DOMAIN L2[k],
         NEW q1 \in Ranks, NEW i1 \in DOMAIN L[q1], Was(L, r, q, i, q1, i1),
         NEW k1 \in Ranks, NEW j1 \in DOMAIN L[k1], Was(L, r, k, j, k1, j1)
  PROVE  Ahead(q1, i1, k1, j1) <=> Ahead(q, i, k, j)
  <1>1. /\ DOMAIN L[q1] = 1 .. Len(L[q1]) /\ Len(L[q1]) \in Nat
        /\ DOMAIN L[k1] = 1 .. Len(L[k1]) /\ Len(L[k1]) \in Nat
        /\ DOMAIN L[q] = 1 .. Len(L[q]) /\ Len(L[q]) \in Nat
        /\ DOMAIN L[k] = 1 .. Len(L[k]) /\ Len(L[k]) \in Nat
        /\ DOMAIN L2[q] = 1 .. Len(L2[q]) /\ Len(L2[q]) \in Nat
        /\ DOMAIN L2[k] = 1 .. Len(L2[k]) /\ Len(L2[k]) \in Nat
    BY LenProperties DEF Lines
  <1>2. q \in Nat /\ k \in Nat /\ q1 \in Nat /\ k1 \in Nat
    BY DEF Ranks
  <1>3. /\ i \in Nat \ {0} /\ j \in Nat \ {0} /\ i1 \in Nat \ {0} /\ j1 \in Nat \ {0}
        /\ i1 <= Len(L[q1]) /\ j1 <= Len(L[k1])
    BY <1>1
  <1>4. /\ q = k => Len(L[q]) = Len(L[k])
        /\ q1 = q => i1 <= Len(L[q])
        /\ k1 = k => j1 <= Len(L[k])
    BY <1>3
  <1>5. /\ (q1 = q /\ q # r /\ i1 = i) \/ (q1 = q /\ q = r /\ i1 = i + 1)
           \/ (q1 = q + 1 /\ q1 = r /\ i1 = 1 /\ i = Len(L[q]) + 1)
        /\ (k1 = k /\ k # r /\ j1 = j) \/ (k1 = k /\ k = r /\ j1 = j + 1)
           \/ (k1 = k + 1 /\ k1 = r /\ j1 = 1 /\ j = Len(L[k]) + 1)
    BY DEF Was
  <1>6. (q1 < k1 \/ (q1 = k1 /\ i1 < j1)) <=> (q < k \/ (q = k /\ i < j))
    BY <1>1, <1>2, <1>3, <1>4, <1>5, PlacesKept
  <1> QED
    BY <1>6 DEF Ahead

LEMMA AheadTotal ==
  ASSUME NEW L2, \A n \in Ranks : L2[n] \in Seq(LineT),
         NEW q \in Ranks, NEW i \in DOMAIN L2[q],
         NEW k \in Ranks, NEW j \in DOMAIN L2[k], <<q, i>> # <<k, j>>
  PROVE  Ahead(q, i, k, j) \/ Ahead(k, j, q, i)
  <1>1. /\ DOMAIN L2[q] = 1 .. Len(L2[q]) /\ Len(L2[q]) \in Nat
        /\ DOMAIN L2[k] = 1 .. Len(L2[k]) /\ Len(L2[k]) \in Nat
    BY LenProperties
  <1>2. q \in Nat /\ k \in Nat
    BY DEF Ranks
  <1> QED
    BY <1>1, <1>2 DEF Ahead

LEMMA AheadStrict ==
  ASSUME NEW L \in Lines,
         NEW q \in Ranks, NEW i \in DOMAIN L[q],
         NEW k \in Ranks, NEW j \in DOMAIN L[k]
  PROVE  ~Ahead(q, i, q, i) /\ ~(Ahead(q, i, k, j) /\ Ahead(k, j, q, i))
  <1>1. /\ DOMAIN L[q] = 1 .. Len(L[q]) /\ Len(L[q]) \in Nat
        /\ DOMAIN L[k] = 1 .. Len(L[k]) /\ Len(L[k]) \in Nat
    BY LenProperties DEF Lines
  <1>2. q \in Nat /\ k \in Nat
    BY DEF Ranks
  <1> QED
    BY <1>1, <1>2 DEF Ahead

LEMMA OrderKept ==
  ASSUME NEW L \in Lines, NEW L2, NEW r \in Ranks \cup {0}, NEW x, NEW H, NEW s,
         Comes(L, L2, r, x, H), Range(s) \cap H = {}, Ordered(L, s),
         \A q \in Ranks : L2[q] \in Seq(LineT)
  PROVE  Ordered(L2, s)
  <1> SUFFICES ASSUME NEW q \in Ranks, NEW k \in Ranks,
                      NEW i \in DOMAIN L2[q], NEW j \in DOMAIN L2[k],
                      Counted(L2, q, i), Counted(L2, k, j), Ahead(q, i, k, j),
                      NEW a \in DOMAIN s, NEW b \in DOMAIN s,
                      s[a] = L2[q][i].what, s[b] = L2[k][j].what
               PROVE  a < b
    BY DEF Ordered
  <1>1. /\ L2[q][i].what \notin H /\ L2[k][j].what \notin H
    BY DEF Range
  <1>2. CameFrom(L, L2, r, q, i) /\ CameFrom(L, L2, r, k, j)
    BY <1>1, ComesFrom
  <1>3. PICK q1 \in Ranks : \E i1 \in DOMAIN L[q1] :
           /\ Counted(L, q1, i1) /\ L[q1][i1].what = L2[q][i].what
           /\ Was(L, r, q, i, q1, i1)
    BY <1>2 DEF CameFrom
  <1>4. PICK i1 \in DOMAIN L[q1] :
           /\ Counted(L, q1, i1) /\ L[q1][i1].what = L2[q][i].what
           /\ Was(L, r, q, i, q1, i1)
    BY <1>3
  <1>5. PICK k1 \in Ranks : \E j1 \in DOMAIN L[k1] :
           /\ Counted(L, k1, j1) /\ L[k1][j1].what = L2[k][j].what
           /\ Was(L, r, k, j, k1, j1)
    BY <1>2 DEF CameFrom
  <1>6. PICK j1 \in DOMAIN L[k1] :
           /\ Counted(L, k1, j1) /\ L[k1][j1].what = L2[k][j].what
           /\ Was(L, r, k, j, k1, j1)
    BY <1>5
  <1>7. Ahead(q1, i1, k1, j1)
    BY <1>4, <1>6, AheadKept
  <1> QED
    BY <1>4, <1>6, <1>7 DEF Ordered
LEMMA KnownKept ==
  ASSUME NEW L, NEW L2, NEW r \in Ranks \cup {0}, NEW x, NEW H, NEW s, NEW G,
         Comes(L, L2, r, x, H), H \subseteq G, Known(L, s, G)
  PROVE  Known(L2, s, G)
  <1> SUFFICES ASSUME NEW q \in Ranks, NEW i \in DOMAIN L2[q],
                      Counted(L2, q, i), L2[q][i].what \notin G
               PROVE  L2[q][i].what \in Range(s)
    BY DEF Known
  <1>1. CameFrom(L, L2, r, q, i)
    BY ComesFrom
  <1> QED
    BY <1>1 DEF CameFrom, Known

LEMMA FirstKept ==
  ASSUME NEW L \in Lines, NEW L2, NEW r \in Ranks \cup {0}, NEW x, NEW m,
         Comes(L, L2, r, x, {}), First(L, m),
         \A q \in Ranks : L2[q] \in Seq(LineT)
  PROVE  First(L2, m)
  <1> SUFFICES ASSUME NEW q \in Ranks, NEW k \in Ranks,
                      NEW i \in DOMAIN L2[q], NEW j \in DOMAIN L2[k],
                      Counted(L2, q, i), Counted(L2, k, j),
                      L2[q][i].what = m, <<q, i>> # <<k, j>>
               PROVE  Ahead(q, i, k, j)
    BY DEF First
  <1>2. CameFrom(L, L2, r, q, i) /\ CameFrom(L, L2, r, k, j)
    BY ComesFrom
  <1>3. PICK q1 \in Ranks : \E i1 \in DOMAIN L[q1] :
           /\ Counted(L, q1, i1) /\ L[q1][i1].what = L2[q][i].what
           /\ Was(L, r, q, i, q1, i1)
    BY <1>2 DEF CameFrom
  <1>4. PICK i1 \in DOMAIN L[q1] :
           /\ Counted(L, q1, i1) /\ L[q1][i1].what = L2[q][i].what
           /\ Was(L, r, q, i, q1, i1)
    BY <1>3
  <1>5. PICK k1 \in Ranks : \E j1 \in DOMAIN L[k1] :
           /\ Counted(L, k1, j1) /\ L[k1][j1].what = L2[k][j].what
           /\ Was(L, r, k, j, k1, j1)
    BY <1>2 DEF CameFrom
  <1>6. PICK j1 \in DOMAIN L[k1] :
           /\ Counted(L, k1, j1) /\ L[k1][j1].what = L2[k][j].what
           /\ Was(L, r, k, j, k1, j1)
    BY <1>5
  <1>7. Ahead(q1, i1, k1, j1) <=> Ahead(q, i, k, j)
    BY <1>4, <1>6, AheadKept
  <1>8. Ahead(k1, j1, q1, i1) <=> Ahead(k, j, q, i)
    BY <1>4, <1>6, AheadKept
  <1>9. Ahead(q, i, k, j) \/ Ahead(k, j, q, i)
    BY AheadTotal
  <1>10. ~Ahead(q1, i1, q1, i1) /\ ~(Ahead(q1, i1, k1, j1) /\ Ahead(k1, j1, q1, i1))
    BY AheadStrict
  <1>11. <<q1, i1>> # <<k1, j1>>
    BY <1>7, <1>8, <1>9, <1>10
  <1>12. Ahead(q1, i1, k1, j1)
    BY <1>4, <1>6, <1>11 DEF First
  <1> QED
    BY <1>7, <1>12

-----------------------------------------------------------------------------
(* A message enters the line at its end. *)

\* What counts in L2 counted in L, or is of H, or is m at the end.
Enters(L, L2, m, H) ==
  \A q \in Ranks : \A j \in DOMAIN L2[q] : Counted(L2, q, j) =>
    \/ L2[q][j].what \in H
    \/ Counted(L, q, j) /\ L2[q][j] = L[q][j]
    \/ q = 14 /\ j = Len(L[14]) + 1 /\ L2[q][j].what = m

LEMMA EnterMoves ==
  ASSUME NEW L \in Lines, NEW L2, NEW H, NEW x \in LineT,
         L2[14] = Append(L[14], x), x.do = "encrypt",
         \A q \in Ranks \ {14} : Stays(L[q], L2[q], q, H)
  PROVE  /\ Enters(L, L2, x.what, H)
         /\ Keeps(L, L2)
         /\ InLine(L2, x.what)
  <1>0. 14 \in Ranks /\ Kind[14] = "encrypt"
    BY DEF Ranks, Kind
  <1>1. \A q \in Ranks : L[q] \in Seq(LineT) /\ DOMAIN L[q] = 1 .. Len(L[q])
                         /\ Len(L[q]) \in Nat
    BY LenProperties DEF Lines
  <1>2. \A q \in Ranks \ {14} :
          /\ \A i \in DOMAIN L[q] : i \in DOMAIN L2[q] /\ L2[q][i] = L[q][i]
          /\ \A i \in DOMAIN L2[q] : \/ i \in DOMAIN L[q] /\ L2[q][i] = L[q][i]
                                     \/ L2[q][i].do # Kind[q] \/ L2[q][i].what \in H
    BY <1>1, StaysPlaces
  <1>3. /\ DOMAIN L2[14] = 1 .. Len(L[14]) + 1
        /\ \A i \in 1 .. Len(L[14]) : L2[14][i] = L[14][i]
        /\ L2[14][Len(L[14]) + 1] = x
    BY <1>0, <1>1, AppendProperties, LenProperties
  <1>4. \A j \in DOMAIN L2[14] : \/ j \in DOMAIN L[14] /\ L2[14][j] = L[14][j]
                                 \/ j = Len(L[14]) + 1 /\ L2[14][j] = x
    BY <1>0, <1>1, <1>3
  <1>5. /\ \A i \in DOMAIN L[14] : i \in DOMAIN L2[14] /\ L2[14][i] = L[14][i]
        /\ Len(L[14]) + 1 \in DOMAIN L2[14]
    BY <1>0, <1>1, <1>3
  <1>6. Enters(L, L2, x.what, H)
    BY <1>0, <1>2, <1>4 DEF Enters, Counted
  <1>7. Keeps(L, L2)
    BY <1>2, <1>5 DEF Keeps, InLine, Counted
  <1>8. InLine(L2, x.what)
    BY <1>0, <1>3, <1>5 DEF InLine, Counted
  <1> QED
    BY <1>6, <1>7, <1>8

\* What is new to a history is behind everything of it.
LEMMA GrowKeeps ==
  ASSUME NEW S, NEW s \in Seq(S), NEW m \in S, NEW L, NEW G,
         Ordered(L, s), Known(L, s, G), m \notin Range(s) \cup G
  PROVE  Ordered(L, Append(s, m)) /\ Known(L, Append(s, m), G)
  <1> DEFINE u == Append(s, m)
  <1>1. /\ DOMAIN s = 1 .. Len(s) /\ Len(s) \in Nat
        /\ DOMAIN u = 1 .. Len(s) + 1
        /\ \A i \in 1 .. Len(s) : u[i] = s[i]
        /\ u[Len(s) + 1] = m
    BY AppendProperties, LenProperties
  <1>2. Range(u) = Range(s) \cup {m}
    BY RangeOfAppend
  <1> HIDE DEF u
  <1>3. \A q \in Ranks : \A i \in DOMAIN L[q] : Counted(L, q, i) => L[q][i].what # m
    BY DEF Known
  <1>4. \A a \in DOMAIN u : u[a] # m => a \in DOMAIN s /\ u[a] = s[a]
    BY <1>1
  <1>5. Ordered(L, u)
    BY <1>3, <1>4 DEF Ordered
  <1>6. Known(L, u, G)
    BY <1>2 DEF Known
  <1> QED
    BY <1>5, <1>6 DEF u

LEMMA EnterKeeps ==
  ASSUME NEW S, NEW s \in Seq(S), NEW m \in S, NEW L \in Lines, NEW L2, NEW G, NEW H,
         Ordered(L, s), Known(L, s, G), m \notin Range(s) \cup G,
         H \subseteq G, Range(s) \cap G = {},
         Enters(L, L2, m, H),
         \A q \in Ranks : L2[q] \in Seq(LineT)
  PROVE  Ordered(L2, Append(s, m)) /\ Known(L2, Append(s, m), G)
  <1> DEFINE u == Append(s, m)
  <1>0. 14 \in Ranks /\ \A n \in Ranks : n \in Nat /\ n \in 1 .. 14
    BY DEF Ranks
  <1>1. Ordered(L, u) /\ Known(L, u, G)
    BY GrowKeeps
  <1>2. /\ DOMAIN u = 1 .. Len(s) + 1 /\ Len(s) \in Nat
        /\ \A i \in 1 .. Len(s) : u[i] = s[i] /\ u[i] \in Range(s)
        /\ u[Len(s) + 1] = m
    <2>1. DOMAIN s = 1 .. Len(s)
      BY LenProperties
    <2> QED
      BY <2>1, AppendProperties, LenProperties DEF Range
  <1>3. Range(u) = Range(s) \cup {m}
    BY RangeOfAppend
  <1> HIDE DEF u
  <1>4. \A a \in DOMAIN u : u[a] = m => a = Len(s) + 1
    BY <1>2
  <1>5. \A q \in Ranks : \A i \in DOMAIN L[q] : Counted(L, q, i) => L[q][i].what # m
    BY DEF Known
  <1>6. Known(L2, u, G)
    BY <1>1, <1>3 DEF Known, Enters, Counted
  <1>7. Ordered(L2, u)
    <2> SUFFICES ASSUME NEW q \in Ranks, NEW k \in Ranks,
                        NEW i \in DOMAIN L2[q], NEW j \in DOMAIN L2[k],
                        Counted(L2, q, i), Counted(L2, k, j), Ahead(q, i, k, j),
                        NEW a \in DOMAIN u, NEW b \in DOMAIN u,
                        u[a] = L2[q][i].what, u[b] = L2[k][j].what
                 PROVE  a < b
      BY DEF Ordered
    <2>1. L2[q][i].what \notin H /\ L2[k][j].what \notin H
      BY <1>3 DEF Range
    <2>2. \/ Counted(L, q, i) /\ L2[q][i] = L[q][i]
          \/ q = 14 /\ i = Len(L[14]) + 1 /\ u[a] = m
      BY <2>1 DEF Enters
    <2>3. \/ Counted(L, k, j) /\ L2[k][j] = L[k][j]
          \/ k = 14 /\ j = Len(L[14]) + 1 /\ u[b] = m
      BY <2>1 DEF Enters
    <2>4. CASE Counted(L, q, i) /\ L2[q][i] = L[q][i] /\ Counted(L, k, j) /\ L2[k][j] = L[k][j]
      <3>1. i \in DOMAIN L[q] /\ j \in DOMAIN L[k]
        BY <2>4 DEF Counted
      <3> QED
        BY <1>1, <2>4, <3>1 DEF Ordered
    <2>5. CASE /\ Counted(L, q, i) /\ L2[q][i] = L[q][i]
               /\ k = 14 /\ j = Len(L[14]) + 1 /\ u[b] = m
      <3>1. u[a] # m
        BY <2>5, <1>5 DEF Counted
      <3> QED
        BY <1>2, <1>4, <2>5, <3>1
    <2>6. CASE q = 14 /\ i = Len(L[14]) + 1
      <3>1. q \in Nat /\ k \in 1 .. 14 /\ 14 \in Ranks
        BY <1>0
      <3>2. DOMAIN L[14] = 1 .. Len(L[14]) /\ Len(L[14]) \in Nat
        BY <3>1, LenProperties DEF Lines
      <3>3. k = 14 /\ i < j
        BY <2>6, <3>1 DEF Ahead
      <3>4. j \in DOMAIN L[14] \/ j = Len(L[14]) + 1
        BY <2>3, <3>3 DEF Counted
      <3> QED
        BY <2>6, <3>2, <3>3, <3>4
    <2> QED
      BY <2>2, <2>3, <2>4, <2>5, <2>6
  <1> QED
    BY <1>6, <1>7 DEF u

-----------------------------------------------------------------------------
(* The line of an end.                                                     *)

\* The workers of the pool of a DataHandler: the one that writes to the socket,
\* and the one that does everything else.
Sender == CHOOSE w \in Workers : Serves[w] = <<"Top">>
Handler == CHOOSE w \in Workers : Serves[w] = <<"Low", "High", "Normal">>

\* The pool that DataHandler::create_thread_pool() makes for the counts (0, 0, 1):
\* one worker for Top, and one for Low that serves High and Normal as well.
InOrderPool ==
  /\ Workers = {Sender, Handler}
  /\ Serves[Sender] = <<"Top">>
  /\ Serves[Handler] = <<"Low", "High", "Normal">>

\* The job of a worker that is still to do it.
Hand(x, w, do) == IF At(x, w, do, "work") THEN <<doing[x][w].job>> ELSE <<>>

\* What an application was given, as items of a line.
Given(r) == [n \in 1 .. Len(r) |-> Job("got", r[n], FALSE)]

\* What is between send() of e and the application of its peer, nearest first.
Line(e) ==
  LET p == Peer(e)
  IN <<Given(received[p]),
       Hand(p, Handler, "receive"), queue[p]["High"],
       Hand(p, Handler, "decrypt"), queue[p]["Normal"],
       Hand(p, Handler, "decompress"), queue[p]["Low"],
       stream[p],
       Hand(e, Sender, "send"), queue[e]["Top"],
       Hand(e, Handler, "compress"), queue[e]["High"],
       Hand(e, Handler, "encrypt"), queue[e]["Normal"]>>

-----------------------------------------------------------------------------
LEMMA PoolIs ==
  ASSUME InOrderPool
  PROVE  /\ Sender \in Workers /\ Handler \in Workers /\ Sender # Handler
         /\ \A w \in Workers : w = Sender \/ w = Handler
         /\ Range(Serves[Sender]) = {"Top"}
         /\ Range(Serves[Handler]) = {"Low", "High", "Normal"}
  <1>1. /\ Sender \in Workers /\ Handler \in Workers
        /\ \A w \in Workers : w = Sender \/ w = Handler
    BY DEF InOrderPool
  <1>2. Len(Serves[Sender]) = 1 /\ Len(Serves[Handler]) = 3
    BY DEF InOrderPool
  <1>3. Range(Serves[Sender]) = {"Top"}
    BY DEF InOrderPool, Range
  <1>4. Range(Serves[Handler]) = {"Low", "High", "Normal"}
    BY DEF InOrderPool, Range
  <1> QED
    BY <1>1, <1>2, <1>3, <1>4

LEMMA TopIsSend == \A do \in Dos : PriorityOf(do) = "Top" <=> do = "send"
  BY DEF Dos, PriorityOf

LEMMA HandlersJob ==
  ASSUME ConnectionInv, InOrderPool, NEW e \in Ends
  PROVE  /\ doing[e][Sender].step \in {"idle", "work"}
         /\ doing[e][Sender].step = "work" =>
              doing[e][Sender].job \in JobT /\ doing[e][Sender].job.do = "send"
         /\ doing[e][Handler].step \in Steps
         /\ doing[e][Handler].step # "idle" =>
              doing[e][Handler].job \in JobT /\ doing[e][Handler].job.do # "send"
  <1>1. \A w \in Workers : doing[e][w].step \in Steps
    BY DEF ConnectionInv, WorkInv
  <1>2. \A w \in Workers : doing[e][w].step # "idle" =>
          /\ doing[e][w].job \in JobT
          /\ doing[e][w].job.do \in Dos
          /\ PriorityOf(doing[e][w].job.do) \in Range(Serves[w])
          /\ doing[e][w].step # "work" => doing[e][w].job.do = "receive"
    BY DEF ConnectionInv, WorkInv, JobT
  <1>3. doing[e][Sender].step # "idle" => doing[e][Sender].job.do = "send"
    BY <1>2, PoolIs, TopIsSend
  <1>4. doing[e][Handler].step # "idle" => doing[e][Handler].job.do # "send"
    BY <1>2, PoolIs, TopIsSend
  <1> QED
    BY <1>1, <1>2, <1>3, <1>4, PoolIs

LEMMA GivenTyped ==
  ASSUME NEW r \in Seq(Content)
  PROVE  Given(r) \in Seq(LineT)
  <1>1. \A n \in 1 .. Len(r) : Job("got", r[n], FALSE) \in LineT
    BY ElementOfSeq DEF Job, LineT
  <1>2. Len(r) \in Nat
    BY LenProperties
  <1>3. Given(r) \in [1 .. Len(r) -> LineT]
    BY <1>1 DEF Given
  <1> QED
    BY <1>2, <1>3

LEMMA HandTyped ==
  ASSUME ConnectionInv, NEW e \in Ends, NEW w \in Workers, NEW do
  PROVE  Hand(e, w, do) \in Seq(LineT)
  <1>1. JobT \subseteq LineT
    BY DEF JobT, LineT
  <1>2. CASE At(e, w, do, "work")
    <2>1. doing[e][w].job \in LineT
      BY <1>1, <1>2 DEF At, ConnectionInv, WorkInv
    <2> QED
      BY <1>2, <2>1 DEF Hand
  <1>3. CASE ~At(e, w, do, "work")
    BY <1>3, EmptySeq DEF Hand
  <1> QED
    BY <1>2, <1>3

LEMMA JobsAreItems == Seq(JobT) \subseteq Seq(LineT)
  <1>1. JobT \subseteq LineT
    BY DEF JobT, LineT
  <1> QED
    BY <1>1, SeqMonotonic

LEMMA FourteenInSet ==
  ASSUME NEW S, NEW a \in S, NEW b \in S, NEW c \in S, NEW d \in S, NEW e \in S,
         NEW f \in S, NEW g \in S, NEW h \in S, NEW i \in S, NEW j \in S,
         NEW k \in S, NEW l \in S, NEW m \in S, NEW n \in S
  PROVE  <<a, b, c, d, e, f, g, h, i, j, k, l, m, n>> \in [1 .. 14 -> S]
  OBVIOUS

LEMMA LineTyped ==
  ASSUME ConnectionInv, InOrderPool, NEW e \in Ends
  PROVE  Line(e) \in Lines
  <1> DEFINE p == Peer(e)
  <1>1. p \in Ends /\ Sender \in Workers /\ Handler \in Workers
    BY PeerIsEnd, PoolIs
  <1>2. \A f \in Ends : /\ Given(received[f]) \in Seq(LineT)
                        /\ stream[f] \in Seq(LineT)
                        /\ \A o \in Priorities : queue[f][o] \in Seq(LineT)
                        /\ \A w \in Workers, do \in Dos : Hand(f, w, do) \in Seq(LineT)
    BY GivenTyped, HandTyped, JobsAreItems DEF ConnectionInv, HistoryInv, Sorted
  <1>3. {"Top", "High", "Normal", "Low"} \subseteq Priorities
    BY DEF Priorities
  <1>4. {"send", "compress", "encrypt", "receive", "decrypt", "decompress"} \subseteq Dos
    BY DEF Dos
  <1>5. /\ Given(received[p]) \in Seq(LineT) /\ stream[p] \in Seq(LineT)
        /\ Hand(p, Handler, "receive") \in Seq(LineT)
        /\ Hand(p, Handler, "decrypt") \in Seq(LineT)
        /\ Hand(p, Handler, "decompress") \in Seq(LineT)
        /\ Hand(e, Sender, "send") \in Seq(LineT)
        /\ Hand(e, Handler, "compress") \in Seq(LineT)
        /\ Hand(e, Handler, "encrypt") \in Seq(LineT)
        /\ queue[p]["High"] \in Seq(LineT) /\ queue[p]["Normal"] \in Seq(LineT)
        /\ queue[p]["Low"] \in Seq(LineT) /\ queue[e]["Top"] \in Seq(LineT)
        /\ queue[e]["High"] \in Seq(LineT) /\ queue[e]["Normal"] \in Seq(LineT)
    BY <1>1, <1>2, <1>3, <1>4
  <1> HIDE DEF p
  <1>6. <<Given(received[p]),
          Hand(p, Handler, "receive"), queue[p]["High"],
          Hand(p, Handler, "decrypt"), queue[p]["Normal"],
          Hand(p, Handler, "decompress"), queue[p]["Low"],
          stream[p],
          Hand(e, Sender, "send"), queue[e]["Top"],
          Hand(e, Handler, "compress"), queue[e]["High"],
          Hand(e, Handler, "encrypt"), queue[e]["Normal"]>> \in Lines
    BY <1>5, FourteenInSet DEF Lines, Ranks
  <1> QED
    BY <1>6 DEF Line, p

LEMMA LineIs ==
  ASSUME NEW e
  PROVE  /\ Line(e)[1] = Given(received[Peer(e)])
         /\ Line(e)[2] = Hand(Peer(e), Handler, "receive")
         /\ Line(e)[3] = queue[Peer(e)]["High"]
         /\ Line(e)[4] = Hand(Peer(e), Handler, "decrypt")
         /\ Line(e)[5] = queue[Peer(e)]["Normal"]
         /\ Line(e)[6] = Hand(Peer(e), Handler, "decompress")
         /\ Line(e)[7] = queue[Peer(e)]["Low"]
         /\ Line(e)[8] = stream[Peer(e)]
         /\ Line(e)[9] = Hand(e, Sender, "send")
         /\ Line(e)[10] = queue[e]["Top"]
         /\ Line(e)[11] = Hand(e, Handler, "compress")
         /\ Line(e)[12] = queue[e]["High"]
         /\ Line(e)[13] = Hand(e, Handler, "encrypt")
         /\ Line(e)[14] = queue[e]["Normal"]
  BY DEF Line

LEMMA LineIsNext ==
  ASSUME NEW e
  PROVE  /\ Line(e)'[1] = Given(received'[Peer(e)])
         /\ Line(e)'[2] = Hand(Peer(e), Handler, "receive")'
         /\ Line(e)'[3] = queue'[Peer(e)]["High"]
         /\ Line(e)'[4] = Hand(Peer(e), Handler, "decrypt")'
         /\ Line(e)'[5] = queue'[Peer(e)]["Normal"]
         /\ Line(e)'[6] = Hand(Peer(e), Handler, "decompress")'
         /\ Line(e)'[7] = queue'[Peer(e)]["Low"]
         /\ Line(e)'[8] = stream'[Peer(e)]
         /\ Line(e)'[9] = Hand(e, Sender, "send")'
         /\ Line(e)'[10] = queue'[e]["Top"]
         /\ Line(e)'[11] = Hand(e, Handler, "compress")'
         /\ Line(e)'[12] = queue'[e]["High"]
         /\ Line(e)'[13] = Hand(e, Handler, "encrypt")'
         /\ Line(e)'[14] = queue'[e]["Normal"]
  BY DEF Line

LEMMA KindIs ==
  /\ Kind[1] = "got" /\ Kind[2] = "receive" /\ Kind[3] = "receive"
  /\ Kind[4] = "decrypt" /\ Kind[5] = "decrypt"
  /\ Kind[6] = "decompress" /\ Kind[7] = "decompress"
  /\ Kind[8] = "send" /\ Kind[9] = "send" /\ Kind[10] = "send"
  /\ Kind[11] = "compress" /\ Kind[12] = "compress"
  /\ Kind[13] = "encrypt" /\ Kind[14] = "encrypt"
  BY DEF Kind

LEMMA RankIs ==
  \A q \in Ranks : \/ q = 1 \/ q = 2 \/ q = 3 \/ q = 4 \/ q = 5 \/ q = 6 \/ q = 7
                   \/ q = 8 \/ q = 9 \/ q = 10 \/ q = 11 \/ q = 12 \/ q = 13 \/ q = 14
  BY DEF Ranks
LEMMA LinesTyped == ConnectionInv /\ InOrderPool => \A e \in Ends : Line(e) \in Lines
  BY LineTyped

LEMMA LinesTypedNext ==
  ConnectionInv' /\ InOrderPool => \A e \in Ends : Line(e)' \in Lines
  <1>1. (ConnectionInv /\ InOrderPool)' => (\A e \in Ends : Line(e) \in Lines)'
    BY LinesTyped, PTL
  <1>2. InOrderPool => InOrderPool'
    BY DEF InOrderPool
  <1> QED
    BY <1>1, <1>2

-----------------------------------------------------------------------------
(* Steps that move no item.                                                *)

\* A queue of e is left alone, or has one more job that is no item of a line,
\* or is one of H.
QueueStays(e, o, H) ==
  \/ queue'[e][o] = queue[e][o]
  \/ \E x \in JobT : /\ queue'[e][o] = Append(queue[e][o], x)
                     /\ \/ x.do = "notify"
                        \/ x.do = "compress" /\ x.what \in H

\* What the peer of e has is left alone.
PeerStays(e) ==
  /\ queue'[Peer(e)] = queue[Peer(e)]
  /\ doing'[Peer(e)] = doing[Peer(e)]
  /\ received'[Peer(e)] = received[Peer(e)]

\* No worker of e takes up or leaves an item of a line.
HandsStay(e) ==
  \A w \in Workers : \A do \in Range(Kind) : Hand(e, w, do)' = Hand(e, w, do)

LEMMA PeerOfPeer == \A e \in Ends : Peer(Peer(e)) = e
  BY DEF Ends, Peer

\* A step of e leaves what belongs to its peer.
LEMMA PeerRanks ==
  ASSUME NEW e \in Ends, PeerStays(e)
  PROVE  /\ \A q \in 1 .. 7 : Line(e)'[q] = Line(e)[q]
         /\ \A q \in 9 .. 14 : Line(Peer(e))'[q] = Line(Peer(e))[q]
  <1> DEFINE p == Peer(e)
  <1>1. /\ queue'[p] = queue[p] /\ received'[p] = received[p]
        /\ \A w, do : Hand(p, w, do)' = Hand(p, w, do)
    BY DEF PeerStays, Hand, At
  <1> HIDE DEF p
  <1>2. \A q \in 1 .. 7 : Line(e)'[q] = Line(e)[q]
    <2>1. \A q \in 1 .. 7 : q = 1 \/ q = 2 \/ q = 3 \/ q = 4 \/ q = 5 \/ q = 6 \/ q = 7
      OBVIOUS
    <2> QED
      BY <1>1, <2>1, LineIs, LineIsNext DEF p
  <1>3. \A q \in 9 .. 14 : Line(p)'[q] = Line(p)[q]
    <2>1. \A q \in 9 .. 14 : q = 9 \/ q = 10 \/ q = 11 \/ q = 12 \/ q = 13 \/ q = 14
      OBVIOUS
    <2> QED
      BY <1>1, <2>1, LineIs, LineIsNext
  <1> QED
    BY <1>2, <1>3 DEF p

\* The items of both lines stay; some of H may be new to the line of e.
LinesStay(e, H) ==
  /\ \A q \in Ranks : Stays(Line(e)[q], Line(e)'[q], q, H)
  /\ \A q \in Ranks : Stays(Line(Peer(e))[q], Line(Peer(e))'[q], q, {})

\* A step that moves no item.
LEMMA QuietMoves ==
  ASSUME ConnectionInv, InOrderPool, NEW e \in Ends, NEW H,
         PeerStays(e), HandsStay(e), received'[e] = received[e], stream' = stream,
         \A o \in Priorities : QueueStays(e, o, H)
  PROVE  LinesStay(e, H)
  <1> DEFINE p == Peer(e)
  <1>1. /\ \A q \in 1 .. 7 : Line(e)'[q] = Line(e)[q]
        /\ \A q \in 9 .. 14 : Line(p)'[q] = Line(p)[q]
    BY PeerRanks
  <1>2. Peer(p) = e /\ p \in Ends /\ \A f \in Ends : f = e \/ f = p
    BY PeerOfPeer, PeerIsEnd DEF Ends, Peer
  <1>3. Handler \in Workers /\ Sender \in Workers
        /\ {"send", "compress", "encrypt", "receive", "decrypt", "decompress"} \subseteq Range(Kind)
    BY PoolIs, KindIs DEF Range, Kind
  <1>4. /\ Hand(e, Sender, "send")' = Hand(e, Sender, "send")
        /\ Hand(e, Handler, "compress")' = Hand(e, Handler, "compress")
        /\ Hand(e, Handler, "encrypt")' = Hand(e, Handler, "encrypt")
        /\ Hand(e, Handler, "receive")' = Hand(e, Handler, "receive")
        /\ Hand(e, Handler, "decrypt")' = Hand(e, Handler, "decrypt")
        /\ Hand(e, Handler, "decompress")' = Hand(e, Handler, "decompress")
    BY <1>3 DEF HandsStay
  <1> HIDE DEF p
  <1>5. /\ Line(e)'[8] = Line(e)[8] /\ Line(e)'[9] = Line(e)[9]
        /\ Line(e)'[11] = Line(e)[11] /\ Line(e)'[13] = Line(e)[13]
    BY <1>4, LineIs, LineIsNext
  <1>6. /\ Line(p)'[8] = Line(p)[8] /\ Line(p)'[1] = Line(p)[1]
        /\ Line(p)'[2] = Line(p)[2] /\ Line(p)'[4] = Line(p)[4]
        /\ Line(p)'[6] = Line(p)[6]
    BY <1>2, <1>4, LineIs, LineIsNext
  <1>7. ASSUME NEW o \in Priorities, NEW q \in Ranks, Kind[q] # "notify"
        PROVE  Stays(queue[e][o], queue'[e][o], q, H)
    <2>1. CASE queue'[e][o] = queue[e][o]
      BY <2>1 DEF Stays
    <2>2. CASE queue'[e][o] # queue[e][o]
      <3>1. PICK x \in JobT : /\ queue'[e][o] = Append(queue[e][o], x)
                              /\ \/ x.do = "notify"
                                 \/ x.do = "compress" /\ x.what \in H
        BY <2>2 DEF QueueStays
      <3>2. x \in LineT
        BY DEF JobT, LineT
      <3>3. x.do # Kind[q] \/ x.what \in H
        BY <1>7, <3>1
      <3> QED
        BY <3>1, <3>2, <3>3 DEF Stays
    <2> QED
      BY <2>1, <2>2
  <1>8. \A q \in Ranks : Kind[q] # "notify"
    BY RankIs, KindIs
  <1>9. \A o \in Priorities, q \in Ranks : Stays(queue[e][o], queue'[e][o], q, H)
    BY <1>7, <1>8
  <1>10. "Top" \in Priorities /\ "High" \in Priorities /\ "Normal" \in Priorities
         /\ "Low" \in Priorities
    BY DEF Priorities
  <1>11. \A q \in Ranks : Stays(Line(e)[q], Line(e)'[q], q, H)
    <2>1. \A q \in Ranks : q \in 1 .. 7 \/ q \in {8, 9, 11, 13} \/ q \in {10, 12, 14}
      BY DEF Ranks
    <2>2. \A q \in {10, 12, 14} : q \in Ranks
      BY DEF Ranks
    <2>3. \A q \in {10, 12, 14} : Stays(Line(e)[q], Line(e)'[q], q, H)
      BY <1>9, <1>10, <2>2, LineIs, LineIsNext
    <2> QED
      BY <1>1, <1>5, <2>1, <2>3 DEF Stays
  <1>13. ASSUME NEW o \in Priorities, NEW q \in Ranks, Kind[q] \notin {"notify", "compress"}
         PROVE  Stays(queue[e][o], queue'[e][o], q, {})
    <2>1. CASE queue'[e][o] = queue[e][o]
      BY <2>1 DEF Stays
    <2>2. CASE queue'[e][o] # queue[e][o]
      <3>1. PICK x \in JobT : /\ queue'[e][o] = Append(queue[e][o], x)
                              /\ x.do \in {"notify", "compress"}
        BY <2>2 DEF QueueStays
      <3>2. x \in LineT /\ x.do # Kind[q]
        BY <1>13, <3>1 DEF JobT, LineT
      <3> QED
        BY <3>1, <3>2 DEF Stays
    <2> QED
      BY <2>1, <2>2
  <1>12. \A q \in Ranks : Stays(Line(p)[q], Line(p)'[q], q, {})
    <2>1. \A q \in Ranks : q \in 9 .. 14 \/ q \in {8, 1, 2, 4, 6} \/ q \in {3, 5, 7}
      BY DEF Ranks
    <2>2. \A q \in {3, 5, 7} : q \in Ranks /\ Kind[q] \notin {"notify", "compress"}
      BY KindIs DEF Ranks
    <2>3. \A q \in {3, 5, 7} : Stays(Line(p)[q], Line(p)'[q], q, {})
      BY <1>2, <1>13, <1>10, <2>2, LineIs, LineIsNext
    <2> QED
      BY <1>1, <1>6, <2>1, <2>3 DEF Stays
  <1> QED
    BY <1>11, <1>12 DEF LinesStay, p

-----------------------------------------------------------------------------
(* Queues and hands *)

LEMMA QueuedIs ==
  ASSUME NEW q, Sorted(q), NEW e \in Ends, NEW job \in JobT
  PROVE  /\ \A f \in Ends \ {e} : Queued(q, e, job)[f] = q[f]
         /\ \A o \in Priorities \ {PriorityOf(job.do)} : Queued(q, e, job)[e][o] = q[e][o]
         /\ closed[e] => Queued(q, e, job) = q
         /\ ~closed[e] => Queued(q, e, job)[e][PriorityOf(job.do)]
                            = Append(q[e][PriorityOf(job.do)], job)
         /\ PriorityOf(job.do) \in Priorities
  <1>1. PriorityOf(job.do) \in Priorities
    BY PriorityIsOne DEF JobT
  <1>2. q \in [Ends -> [Priorities -> Seq(JobT)]]
    BY DEF Sorted
  <1> QED
    BY <1>1, <1>2 DEF Queued

LEMMA PrioritiesAre ==
  /\ PriorityOf("notify") = "Normal" /\ PriorityOf("encrypt") = "Normal"
  /\ PriorityOf("decrypt") = "Normal" /\ PriorityOf("compress") = "High"
  /\ PriorityOf("receive") = "High" /\ PriorityOf("send") = "Top"
  /\ PriorityOf("decompress") = "Low" /\ PriorityOf("file") = "Low"
  BY DEF PriorityOf

LEMMA QueueStaysIf ==
  ASSUME ConnectionInv, NEW e \in Ends, NEW H, NEW job \in JobT, Push(e, job),
         job.do = "notify" \/ (job.do = "compress" /\ job.what \in H)
  PROVE  /\ \A o \in Priorities : QueueStays(e, o, H)
         /\ queue'[Peer(e)] = queue[Peer(e)]
  <1>1. Peer(e) \in Ends \ {e} /\ Sorted(queue) /\ queue' = Queued(queue, e, job)
    BY PeerIsEnd DEF ConnectionInv, Push
  <1> QED
    BY <1>1, QueuedIs DEF QueueStays

LEMMA RefuseStays ==
  ASSUME ConnectionInv, Refuse
  PROVE  /\ \A o \in Priorities : QueueStays("session", o, {"refused"})
         /\ queue'["client"] = queue["client"]
  <1> DEFINE a == Job("notify", FALSE, FALSE)
             b == Job("compress", "refused", FALSE)
             r == Queued(queue, "session", a)
  <1>1. /\ a \in JobT /\ b \in JobT /\ "session" \in Ends /\ "client" \in Ends \ {"session"}
        /\ a.do = "notify" /\ b.do = "compress" /\ b.what = "refused"
    BY JobHasType, ContentHas DEF Dos, Handshake, Ends, Job
  <1>2. queue' = Queued(r, "session", b)
    BY DEF Refuse, Send, Handshake
  <1>3. Sorted(queue) /\ Sorted(r)
    BY <1>1, QueuedIsSorted DEF ConnectionInv
  <1> HIDE DEF a, b
  <1>4. /\ r["client"] = queue["client"]
        /\ \A o \in Priorities \ {"Normal"} : r["session"][o] = queue["session"][o]
        /\ \/ r["session"]["Normal"] = queue["session"]["Normal"]
           \/ r["session"]["Normal"] = Append(queue["session"]["Normal"], a)
    <2>1. PriorityOf(a.do) = "Normal"
      BY <1>1, PrioritiesAre
    <2>2. /\ \A f \in Ends \ {"session"} : r[f] = queue[f]
          /\ \A o \in Priorities \ {PriorityOf(a.do)} :
               r["session"][o] = queue["session"][o]
          /\ closed["session"] => r = queue
          /\ ~closed["session"] => r["session"][PriorityOf(a.do)]
                                     = Append(queue["session"][PriorityOf(a.do)], a)
      BY <1>1, <1>3, QueuedIs
    <2> HIDE DEF r
    <2> QED
      BY <1>1, <2>1, <2>2
  <1> HIDE DEF r
  <1>5. /\ queue'["client"] = r["client"]
        /\ \A o \in Priorities \ {"High"} : queue'["session"][o] = r["session"][o]
        /\ \/ queue'["session"]["High"] = r["session"]["High"]
           \/ queue'["session"]["High"] = Append(r["session"]["High"], b)
    <2> DEFINE u == Queued(r, "session", b)
    <2>1. /\ u["client"] = r["client"]
          /\ \A o \in Priorities \ {"High"} : u["session"][o] = r["session"][o]
          /\ closed["session"] => u = r
          /\ ~closed["session"] => u["session"]["High"] = Append(r["session"]["High"], b)
      <3>1. PriorityOf(b.do) = "High"
        BY <1>1, PrioritiesAre
      <3>2. /\ \A f \in Ends \ {"session"} : u[f] = r[f]
            /\ \A o \in Priorities \ {PriorityOf(b.do)} : u["session"][o] = r["session"][o]
            /\ closed["session"] => u = r
            /\ ~closed["session"] => u["session"][PriorityOf(b.do)]
                                       = Append(r["session"][PriorityOf(b.do)], b)
        BY <1>1, <1>3, QueuedIs
      <3> HIDE DEF u
      <3> QED
        BY <1>1, <3>1, <3>2
    <2> QED
      BY <1>2, <2>1
  <1>6. "High" \in Priorities /\ "Normal" \in Priorities /\ "High" # "Normal"
    BY DEF Priorities
  <1> QED
    BY <1>1, <1>4, <1>5, <1>6 DEF QueueStays

LEMMA HandIs ==
  ASSUME NEW e, NEW w, NEW do
  PROVE  /\ doing[e][w].step = "work" /\ doing[e][w].job.do = do
              => Hand(e, w, do) = <<doing[e][w].job>>
         /\ doing[e][w].step # "work" => Hand(e, w, do) = <<>>
         /\ doing[e][w].job.do # do => Hand(e, w, do) = <<>>
         /\ doing'[e][w].step = "work" /\ doing'[e][w].job.do = do
              => Hand(e, w, do)' = <<doing'[e][w].job>>
         /\ doing'[e][w].step # "work" => Hand(e, w, do)' = <<>>
         /\ doing'[e][w].job.do # do => Hand(e, w, do)' = <<>>
         /\ doing'[e][w] = doing[e][w] => Hand(e, w, do)' = Hand(e, w, do)
  BY DEF Hand, At

LEMMA HandsStayIf ==
  ASSUME NEW e \in Ends, NEW w \in Workers, OthersGoOn(e, w),
         doing[e][w].step # "work" \/ doing[e][w].job.do \in {"notify", "file"},
         doing'[e][w].step # "work"
  PROVE  HandsStay(e)
  <1>1. "notify" \notin Range(Kind) /\ "file" \notin Range(Kind)
    BY DEF Range, Kind
  <1>2. ASSUME NEW v \in Workers, NEW do \in Range(Kind)
        PROVE  Hand(e, v, do)' = Hand(e, v, do)
    <2>1. CASE v # w
      BY <2>1, HandIs DEF OthersGoOn
    <2>2. CASE v = w
      <3>1. Hand(e, w, do) = <<>> /\ Hand(e, w, do)' = <<>>
        BY <1>1, HandIs
      <3> QED
        BY <2>2, <3>1
    <2> QED
      BY <2>1, <2>2
  <1> QED
    BY <1>2 DEF HandsStay

LEMMA HandsStayUnchanged ==
  ASSUME UNCHANGED doing
  PROVE  \A e \in Ends : HandsStay(e)
  BY HandIs DEF HandsStay

LEMMA QueuesStayUnchanged ==
  ASSUME UNCHANGED queue, NEW H
  PROVE  \A e \in Ends : \A o \in Priorities : QueueStays(e, o, H)
  BY DEF QueueStays

\* The steps that move no item of either line and add none.
LEMMA QuietLines ==
  ASSUME ConnectionInv, InOrderPool,
         \/ SessionStarts \/ ClientStops \/ UNCHANGED vars
         \/ \E e \in Ends : ReadFails(e)
  PROVE  LinesStay("client", {})
  <1>1. UNCHANGED <<queue, doing, received, stream>>
    BY DEF SessionStarts, ClientStops, ReadFails, Expire, link, traffic, vars
  <1>2. "client" \in Ends /\ PeerStays("client")
    BY <1>1 DEF PeerStays, Ends
  <1> QED
    BY <1>1, <1>2, HandsStayUnchanged, QueuesStayUnchanged, QuietMoves

-----------------------------------------------------------------------------
(* The quiet steps: callbacks, refusals and the messages of the handshake. *)

LEMMA PeerStaysIf ==
  ASSUME ConnectionInv, NEW e \in Ends, NEW w \in Workers, OthersGoOn(e, w),
         queue'[Peer(e)] = queue[Peer(e)], received' = received,
         doing' \in [Ends -> [Workers -> [job : JobT \cup {None}, step : Steps]]]
  PROVE  PeerStays(e)
  <1> DEFINE p == Peer(e)
  <1>1. p \in Ends /\ p # e
    BY PeerIsEnd
  <1>2. \A v \in Workers : doing'[p][v] = doing[p][v]
    BY <1>1 DEF OthersGoOn
  <1>3. doing[p] \in [Workers -> [job : JobT \cup {None}, step : Steps]]
        /\ doing'[p] \in [Workers -> [job : JobT \cup {None}, step : Steps]]
    BY <1>1 DEF ConnectionInv, WorkInv
  <1>4. doing'[p] = doing[p]
    BY <1>2, <1>3
  <1> QED
    BY <1>4 DEF PeerStays

\* The steps of a worker that has a handshake to answer, or an application to
\* tell.
LEMMA WorkerQuiet ==
  ASSUME ConnectionInv, InOrderPool, NEW e \in Ends, NEW w \in Workers,
         \/ Notify(e, w)
         \/ e = "session" /\ (SessionConfirms(w) \/ SessionNotifies(w))
         \/ e = "client" /\ (ClientTakesKey(w) \/ ClientConfirms(w) \/ WorkerExpires(e, w))
  PROVE  LinesStay(e, {})
  <1>1. /\ doing[e][w].step # "work" \/ doing[e][w].job.do = "notify"
        /\ received' = received /\ stream' = stream
        /\ doing'[e][w].step # "work" /\ OthersGoOn(e, w) /\ ConnectionInv'
    <2>1. /\ doing[e][w].step # "work" \/ doing[e][w].job.do = "notify"
          /\ received' = received /\ stream' = stream
      BY DEF Notify, SessionConfirms, SessionNotifies, ClientTakesKey,
         ClientConfirms, WorkerExpires, At, link, traffic
    <2>2. CASE \/ Notify(e, w) \/ (e = "session" /\ SessionConfirms(w))
               \/ e = "client" /\ ClientTakesKey(w)
      <3>1. OthersGoOn(e, w) /\ ConnectionInv'
        BY <2>2, QuietStep
      <3>2. \/ Done(e, w)
            \/ \E step \in Steps \ {"idle", "work"} :
                  Goes(e, w, step) /\ doing[e][w].job.do = "receive" /\ doing[e][w].step # "idle"
        BY <2>2 DEF Notify, SessionConfirms, ClientTakesKey, At, Steps
      <3>3. doing'[e][w].step # "work"
        BY <3>2, DoneHand, GoesHand
      <3> QED
        BY <2>1, <3>1, <3>3
    <2>3. CASE e = "session" /\ SessionNotifies(w)
      BY <2>1, <2>3, NotifiesStep
    <2>4. CASE e = "client" /\ ClientConfirms(w)
      BY <2>1, <2>4, ClientConfirmsStep, DoneHand
    <2>5. CASE e = "client" /\ WorkerExpires(e, w)
      BY <2>1, <2>5, WorkerExpiresStep
    <2>6. \/ \/ Notify(e, w) \/ (e = "session" /\ SessionConfirms(w))
             \/ e = "client" /\ ClientTakesKey(w)
          \/ e = "session" /\ SessionNotifies(w)
          \/ e = "client" /\ ClientConfirms(w)
          \/ e = "client" /\ WorkerExpires(e, w)
      OBVIOUS
    <2> QED
      BY <2>2, <2>3, <2>4, <2>5, <2>6
  <1>2. HandsStay(e)
    BY <1>1, HandsStayIf
  <1>3. (\A o \in Priorities : QueueStays(e, o, {})) /\ queue'[Peer(e)] = queue[Peer(e)]
    <2>1. CASE UNCHANGED queue
      BY <2>1, QueuesStayUnchanged
    <2>2. CASE Push(e, Job("notify", TRUE, FALSE))
      <3>1. Job("notify", TRUE, FALSE) \in JobT /\ Job("notify", TRUE, FALSE).do = "notify"
        BY JobHasType, ContentHas DEF Dos, Job
      <3> QED
        BY <2>2, <3>1, QueueStaysIf
    <2> QED
      BY <2>1, <2>2 DEF Notify, SessionConfirms, SessionNotifies, ClientTakesKey,
         ClientConfirms, WorkerExpires, Expire
  <1>4. PeerStays(e)
    BY <1>1, <1>3, PeerStaysIf DEF ConnectionInv, WorkInv
  <1> QED
    BY <1>1, <1>2, <1>3, <1>4, QuietMoves

LEMMA ReaderExpiresQuiet ==
  ASSUME ConnectionInv, InOrderPool, NEW e \in Ends, ReaderExpires(e)
  PROVE  LinesStay(e, {"refused"})
  <1>1. UNCHANGED <<doing, received, stream>>
    BY DEF ReaderExpires, link, traffic
  <1>2. CASE e = "client"
    <2>1. UNCHANGED queue /\ PeerStays(e)
      BY <1>1, <1>2 DEF ReaderExpires, Expire, PeerStays
    <2> QED
      BY <1>1, <2>1, HandsStayUnchanged, QueuesStayUnchanged, QuietMoves
  <1>3. CASE e = "session"
    <2>1. Refuse /\ Peer(e) = "client"
      BY <1>3 DEF ReaderExpires, Expire, Peer
    <2>2. /\ \A o \in Priorities : QueueStays(e, o, {"refused"})
          /\ queue'[Peer(e)] = queue[Peer(e)]
      BY <1>3, <2>1, RefuseStays
    <2>3. PeerStays(e)
      BY <1>1, <2>2 DEF PeerStays
    <2> QED
      BY <1>1, <2>2, <2>3, HandsStayUnchanged, QuietMoves
  <1> QED
    BY <1>2, <1>3 DEF Ends

LEMMA RefusalQuiet ==
  ASSUME ConnectionInv, InOrderPool, NEW w \in Workers,
         WorkerExpires("session", w) \/ SessionRefuses(w)
  PROVE  LinesStay("session", {"refused"})
  <1> DEFINE e == "session"
  <1>0. e \in Ends /\ Peer(e) = "client"
    BY DEF Ends, Peer
  <1>1. /\ doing[e][w].step # "work"
        /\ received' = received /\ stream' = stream /\ Refuse
    BY DEF WorkerExpires, SessionRefuses, At, Expire, link, traffic
  <1>2. doing'[e][w].step # "work" /\ OthersGoOn(e, w) /\ ConnectionInv'
    <2>1. CASE WorkerExpires(e, w)
      BY <1>0, <2>1, WorkerExpiresStep
    <2>2. CASE SessionRefuses(w)
      BY <1>0, <2>2, RefuseStep, DoneHand DEF SessionRefuses, OthersGoOn
    <2> QED
      BY <2>1, <2>2
  <1>3. HandsStay(e)
    BY <1>0, <1>1, <1>2, HandsStayIf
  <1>4. (\A o \in Priorities : QueueStays(e, o, {"refused"})) /\ queue'[Peer(e)] = queue[Peer(e)]
    BY <1>0, <1>1, RefuseStays
  <1>5. PeerStays(e)
    BY <1>0, <1>1, <1>2, <1>4, PeerStaysIf DEF ConnectionInv, WorkInv
  <1> QED
    BY <1>0, <1>1, <1>3, <1>4, <1>5, QuietMoves

\* A handshake message is sent.
LEMMA HandshakeQuiet ==
  ASSUME ConnectionInv, InOrderPool, NEW e \in Ends, NEW m \in Handshake,
         \/ ClientStarts /\ e = "client" /\ m = "request"
         \/ e = "session" /\ m = "accepted" /\ \E w \in Workers : SessionReplies(w)
  PROVE  LinesStay(e, {m})
  <1>1. received' = received /\ stream' = stream /\ Push(e, SendJob(m)) /\ m \in Content
    BY SendIsQueued, ContentHas DEF ClientStarts, SessionReplies, link, traffic, Push
  <1>2. /\ SendJob(m) \in JobT /\ SendJob(m).do = "compress" /\ SendJob(m).what = m
    BY <1>1, SendIsQueued DEF SendJob, Job
  <1>3. (\A o \in Priorities : QueueStays(e, o, {m})) /\ queue'[Peer(e)] = queue[Peer(e)]
    BY <1>1, <1>2, QueueStaysIf
  <1>4. HandsStay(e) /\ PeerStays(e)
    <2>1. CASE ClientStarts
      BY <2>1, <1>1, <1>3, HandsStayUnchanged DEF ClientStarts, PeerStays
    <2>2. CASE \E w \in Workers : SessionReplies(w) /\ e = "session"
      <3>1. PICK w \in Workers : SessionReplies(w) /\ e = "session"
        BY <2>2
      <3>2. doing[e][w].step # "work"
        BY <3>1 DEF SessionReplies, At
      <3>3. doing'[e][w].step # "work" /\ OthersGoOn(e, w) /\ ConnectionInv'
        BY <3>1, RepliesStep, DoneHand
      <3>4. HandsStay(e)
        BY <3>2, <3>3, HandsStayIf
      <3> QED
        BY <1>1, <1>3, <3>3, <3>4, PeerStaysIf DEF ConnectionInv, WorkInv
    <2> QED
      BY <2>1, <2>2
  <1> QED
    BY <1>1, <1>3, <1>4, QuietMoves

-----------------------------------------------------------------------------
(* A worker takes a job.                                                   *)

\* The head of a queue goes to the hand before it, if it is of its kind.
LEMMA TakeRank ==
  ASSUME NEW L \in Lines, NEW L2, NEW r \in Ranks \ {1}, Kind[r - 1] = Kind[r],
         L[r] # <<>>, L2[r] = Tail(L[r]), L[r - 1] = <<>>,
         L2[r - 1] = IF Head(L[r]).do = Kind[r] THEN <<Head(L[r])>> ELSE <<>>,
         \A q \in Ranks \ {r, r - 1} : L2[q] = L[q]
  PROVE  /\ Comes(L, L2, r, Head(L[r]), {})
         /\ Keeps(L, L2)
  <1>1. \A q \in Ranks \ {r, r - 1} : Stays(L[q], L2[q], q, {})
    BY DEF Stays
  <1>2. Head(L[r]) \in LineT
    BY HeadTailProperties DEF Lines
  <1>3. CASE Head(L[r]).do = Kind[r]
    <2>1. L2[r - 1] = Append(L[r - 1], Head(L[r]))
      BY <1>3
    <2> QED
      BY <1>1, <1>2, <1>3, <2>1, PassMoves
  <1>4. CASE Head(L[r]).do # Kind[r]
    <2>1. \A q \in Ranks \ {r} : Stays(L[q], L2[q], q, {})
      BY <1>1, <1>4 DEF Stays
    <2>2. /\ Comes(L, L2, r, Head(L[r]), {})
          /\ \A m : InLine(L, m) => \/ InLine(L2, m)
                                    \/ L[r][1].do = Kind[r] /\ L[r][1].what = m
          /\ L[r][1] = Head(L[r])
      BY <2>1, LoseMoves
    <2> QED
      BY <1>4, <2>2 DEF Keeps
  <1> QED
    BY <1>3, <1>4

\* The first job of rank r of the line of f is taken by rank s, the next one.
TakesAt(f, r, s) ==
  /\ r \in Ranks \ {1} /\ r - 1 = s /\ Kind[s] = Kind[r]
  /\ Line(f)[r] # <<>> /\ Line(f)'[r] = Tail(Line(f)[r]) /\ Line(f)[s] = <<>>
  /\ Line(f)'[s] = IF Head(Line(f)[r]).do = Kind[r] THEN <<Head(Line(f)[r])>> ELSE <<>>
  /\ \A q \in Ranks \ {r, s} : Line(f)'[q] = Line(f)[q]

LEMMA TakeMovesLine ==
  ASSUME NEW f, NEW r, NEW s, Line(f) \in Lines, TakesAt(f, r, s)
  PROVE  Comes(Line(f), Line(f)', r, Head(Line(f)[r]), {}) /\ Keeps(Line(f), Line(f)')
  <1>1. r \in Ranks \ {1} /\ s = r - 1
    BY DEF TakesAt
  <1>2. /\ Kind[r - 1] = Kind[r] /\ Line(f)[r] # <<>> /\ Line(f)'[r] = Tail(Line(f)[r])
        /\ Line(f)[r - 1] = <<>>
        /\ Line(f)'[r - 1] = IF Head(Line(f)[r]).do = Kind[r]
                             THEN <<Head(Line(f)[r])>> ELSE <<>>
        /\ \A q \in Ranks \ {r, r - 1} : Line(f)'[q] = Line(f)[q]
    BY <1>1, Zenon DEF TakesAt
  <1> QED
    BY <1>1, <1>2, TakeRank

\* No rank of the line of f is changed.
SameLine(f) == \A q \in Ranks : Line(f)'[q] = Line(f)[q]

LEMMA SameLineMoves ==
  ASSUME NEW f, Line(f) \in Lines, SameLine(f), NEW x
  PROVE  Comes(Line(f), Line(f)', 0, x, {}) /\ Keeps(Line(f), Line(f)')
  <1>1. \A q \in Ranks : Stays(Line(f)[q], Line(f)'[q], q, {})
    BY DEF Stays, SameLine
  <1> QED
    BY <1>1, StillMoves

\* What the step of the worker w of e has left alone of the lines.
LEMMA TakeMoves ==
  ASSUME ConnectionInv, InOrderPool, NEW e \in Ends, NEW w \in Workers, Take(e, w)
  PROVE  /\ \E r \in {0, 10, 12, 14} :
              /\ Comes(Line(e), Line(e)', r, Head(Line(e)[r]), {})
              /\ Keeps(Line(e), Line(e)')
              /\ r = 14 => doing[e][Handler] = Idle
         /\ \E k \in {0, 3, 5, 7} :
              /\ Comes(Line(Peer(e)), Line(Peer(e))', k, Head(Line(Peer(e))[k]), {})
              /\ Keeps(Line(Peer(e)), Line(Peer(e))')
              /\ k = 5 => doing[e][Handler] = Idle /\ queue[e]["High"] = <<>>
  <1> DEFINE p == Peer(e)
  <1>1. PICK i \in Waiting(e, w) :
          /\ \A n \in Waiting(e, w) : i <= n
          /\ doing' = [doing EXCEPT ![e][w] = [job |-> Head(queue[e][Serves[w][i]]),
                                                step |-> "work"]]
          /\ queue' = [queue EXCEPT ![e][Serves[w][i]] = Tail(@)]
    BY DEF Take
  <1> DEFINE o == Serves[w][i]
             job == Head(queue[e][o])
  <1>2. /\ i \in 1 .. Len(Serves[w]) /\ queue[e][o] # <<>> /\ o \in Range(Serves[w])
        /\ o \in Priorities
    <2>1. Serves[w] \in Seq(Priorities) /\ i \in 1 .. Len(Serves[w]) /\ queue[e][o] # <<>>
      BY ConnectionAssumption DEF Waiting
    <2> QED
      BY <2>1, ElementOfSeq, LenProperties DEF Range
  <1>3. /\ doing[e][w] = Idle /\ OthersGoOn(e, w) /\ p \in Ends /\ p # e /\ Peer(p) = e
        /\ \A f \in Ends : f = e \/ f = p
    BY TakeHand, PeerIsEnd, PeerOfPeer DEF OthersGoOn, Take, Ends, Peer
  <1>4. /\ queue \in [Ends -> [Priorities -> Seq(JobT)]]
        /\ doing \in [Ends -> [Workers -> [job : JobT \cup {None}, step : Steps]]]
    BY DEF ConnectionInv, Sorted, WorkInv
  <1>5. /\ queue'[e][o] = Tail(queue[e][o])
        /\ \A n \in Priorities \ {o} : queue'[e][n] = queue[e][n]
        /\ queue'[p] = queue[p] /\ doing'[p] = doing[p]
        /\ doing'[e][w].job = job /\ doing'[e][w].step = "work"
    BY <1>1, <1>2, <1>3, <1>4
  <1>6. received' = received /\ stream' = stream
    BY DEF Take, traffic, link
  <1>7. PeerStays(e)
    BY <1>5, <1>6 DEF PeerStays
  <1>8. doing[e][w].step # "work"
    BY <1>3 DEF Idle
  <1>9. \A do : /\ Hand(e, w, do) = <<>>
                /\ Hand(e, w, do)' = IF job.do = do THEN <<job>> ELSE <<>>
    BY <1>5, <1>8, HandIs
  <1>10. \A v \in Workers \ {w} : \A do : Hand(e, v, do)' = Hand(e, v, do)
    BY <1>3, HandIs DEF OthersGoOn
  <1>11. Line(e) \in Lines /\ Line(p) \in Lines
    BY <1>3, LineTyped
  <1>12. /\ \A q \in 1 .. 8 : Line(e)'[q] = Line(e)[q]
         /\ \A q \in 8 .. 14 : Line(p)'[q] = Line(p)[q]
    <2>1. Line(e)'[8] = Line(e)[8] /\ Line(p)'[8] = Line(p)[8]
      BY <1>6, LineIs, LineIsNext
    <2>2. /\ \A q \in 1 .. 8 : q \in 1 .. 7 \/ q = 8
          /\ \A q \in 8 .. 14 : q \in 9 .. 14 \/ q = 8
      OBVIOUS
    <2> QED
      BY <1>7, <2>1, <2>2, PeerRanks
  <1>13. Line(p)'[1] = Line(p)[1]
    BY <1>6, <1>3, LineIs, LineIsNext
  <1>14. PriorityOf(job.do) = o /\ job.do \in Dos
    <2>1. queue[e][o] \in Seq(JobT) /\ job = queue[e][o][1] /\ Len(queue[e][o]) > 0
          /\ job \in JobT
      BY <1>2, <1>4, HeadTailProperties, EmptySeq
    <2>2. \A n \in 1 .. Len(queue[e][o]) : PriorityOf(queue[e][o][n].do) = o
      BY <1>2 DEF ConnectionInv, Sorted
    <2>3. 1 \in 1 .. Len(queue[e][o])
      BY <2>1
    <2>4. PriorityOf(job.do) = o
      BY <2>1, <2>2, <2>3
    <2>5. job.do \in Dos
      BY <2>1 DEF JobT
    <2> QED
      BY <2>4, <2>5
  <1> HIDE DEF p, o, job
  <1>15. Peer(p) = e /\ p = Peer(e)
    BY <1>3 DEF p
  <1>16. {"Top", "High", "Normal", "Low"} \subseteq Priorities
    BY DEF Priorities
  <1>17. CASE w = Sender
    <2>1. o = "Top" /\ job.do = "send" /\ Handler \in Workers \ {w} /\ w = Sender
      BY <1>2, <1>14, <1>17, PoolIs, TopIsSend
    <2>2. /\ queue'[e]["Top"] = Tail(queue[e]["Top"]) /\ queue[e]["Top"] # <<>>
          /\ queue'[e]["High"] = queue[e]["High"]
          /\ queue'[e]["Normal"] = queue[e]["Normal"]
          /\ queue'[e]["Low"] = queue[e]["Low"]
      BY <1>2, <1>5, <1>16, <2>1
    <2>3. /\ \A do : Hand(e, Handler, do)' = Hand(e, Handler, do)
          /\ Hand(e, Sender, "send") = <<>>
          /\ Hand(e, Sender, "send")' = <<Head(queue[e]["Top"])>>
          /\ Head(queue[e]["Top"]).do = "send"
      BY <1>9, <1>10, <2>1 DEF job
    <2>4. SameLine(p)
      <3>1. \A q \in 1 .. 7 : Line(p)'[q] = Line(p)[q]
        <4>1. \A q \in 1 .. 7 : q = 1 \/ q = 2 \/ q = 3 \/ q = 4 \/ q = 5 \/ q = 6 \/ q = 7
          OBVIOUS
        <4> QED
          BY <4>1, <2>2, <2>3, <1>13, <1>15, LineIs, LineIsNext
      <3>2. \A q \in Ranks : q \in 1 .. 7 \/ q \in 8 .. 14
        BY DEF Ranks
      <3> QED
        BY <3>1, <3>2, <1>12 DEF SameLine
    <2>5. /\ Line(e)[10] # <<>> /\ Line(e)'[10] = Tail(Line(e)[10]) /\ Line(e)[9] = <<>>
          /\ Line(e)'[9] = IF Head(Line(e)[10]).do = Kind[10] THEN <<Head(Line(e)[10])>> ELSE <<>>
      BY <2>2, <2>3, KindIs, LineIs, LineIsNext
    <2>6. \A q \in Ranks \ {10, 9} : Line(e)'[q] = Line(e)[q]
      <3>1. \A q \in Ranks \ {10, 9} : q \in 1 .. 8 \/ q = 11 \/ q = 12 \/ q = 13 \/ q = 14
        BY DEF Ranks
      <3> QED
        BY <3>1, <2>2, <2>3, <1>12, LineIs, LineIsNext
    <2>7. 10 \in Ranks \ {1} /\ 10 - 1 = 9 /\ Kind[9] = Kind[10]
      BY KindIs DEF Ranks
    <2>8. /\ Comes(Line(e), Line(e)', 10, Head(Line(e)[10]), {})
          /\ Keeps(Line(e), Line(e)')
      <3>1. TakesAt(e, 10, 9)
        BY <2>5, <2>6, <2>7 DEF TakesAt
      <3> QED
        BY <1>11, <3>1, TakeMovesLine
    <2>9. /\ Comes(Line(p), Line(p)', 0, Head(Line(p)[0]), {})
          /\ Keeps(Line(p), Line(p)')
      BY <1>11, <2>4, SameLineMoves
    <2> QED
      BY <2>8, <2>9, <1>15
  <1>18. CASE w = Handler
    <2>1. Sender \in Workers \ {w} /\ w = Handler /\ o \in {"Low", "High", "Normal"}
      BY <1>2, <1>18, PoolIs
    <2>2. Hand(e, Sender, "send")' = Hand(e, Sender, "send")
      BY <1>10, <2>1
    <2>3. \A do : /\ Hand(e, Handler, do) = <<>>
                  /\ Hand(e, Handler, do)' = IF job.do = do THEN <<job>> ELSE <<>>
      BY <1>9, <2>1
    <2>4. /\ PriorityOf("encrypt") = "Normal" /\ PriorityOf("compress") = "High"
          /\ PriorityOf("decrypt") = "Normal" /\ PriorityOf("receive") = "High"
          /\ PriorityOf("decompress") = "Low"
      BY PrioritiesAre
    <2>5. /\ o # "Normal" => job.do # "encrypt" /\ job.do # "decrypt"
          /\ o # "High" => job.do # "compress" /\ job.do # "receive"
          /\ o # "Low" => job.do # "decompress"
      BY <1>14, <2>4
    <2>6. queue'[e]["Top"] = queue[e]["Top"]
      BY <1>5, <1>16, <2>1
    <2>7. CASE o = "Low"
      <3>1. /\ queue'[e]["Low"] = Tail(queue[e]["Low"]) /\ queue[e]["Low"] # <<>>
            /\ queue'[e]["High"] = queue[e]["High"]
            /\ queue'[e]["Normal"] = queue[e]["Normal"]
        BY <1>2, <1>5, <1>16, <2>7
      <3>2. /\ \A do \in {"encrypt", "decrypt", "compress", "receive"} :
                 Hand(e, Handler, do)' = Hand(e, Handler, do)
            /\ Hand(e, Handler, "decompress") = <<>>
            /\ Hand(e, Handler, "decompress")' =
                 IF Head(queue[e]["Low"]).do = "decompress" THEN <<Head(queue[e]["Low"])>> ELSE <<>>
        BY <2>3, <2>5, <2>7 DEF job
      <3>3. SameLine(e)
        <4>1. \A q \in Ranks : q \in 1 .. 8 \/ q = 9 \/ q = 10 \/ q = 11 \/ q = 12 \/ q = 13 \/ q = 14
          BY DEF Ranks
        <4> QED
          BY <4>1, <1>12, <2>2, <2>6, <3>1, <3>2, LineIs, LineIsNext DEF SameLine
      <3>4. /\ Line(p)[7] # <<>> /\ Line(p)'[7] = Tail(Line(p)[7]) /\ Line(p)[6] = <<>>
            /\ Line(p)'[6] = IF Head(Line(p)[7]).do = Kind[7] THEN <<Head(Line(p)[7])>> ELSE <<>>
        BY <1>15, <3>1, <3>2, KindIs, LineIs, LineIsNext
      <3>5. \A q \in Ranks \ {7, 6} : Line(p)'[q] = Line(p)[q]
        <4>1. \A q \in Ranks \ {7, 6} : q \in 8 .. 14 \/ q = 1 \/ q = 2 \/ q = 3 \/ q = 4 \/ q = 5
          BY DEF Ranks
        <4> QED
          BY <4>1, <1>12, <1>13, <1>15, <3>1, <3>2, LineIs, LineIsNext
      <3>6. 7 \in Ranks \ {1} /\ 7 - 1 = 6 /\ Kind[6] = Kind[7]
        BY KindIs DEF Ranks
      <3>7. /\ Comes(Line(p), Line(p)', 7, Head(Line(p)[7]), {})
            /\ Keeps(Line(p), Line(p)')
        <4>1. TakesAt(p, 7, 6)
          BY <3>4, <3>5, <3>6 DEF TakesAt
        <4> QED
          BY <1>11, <4>1, TakeMovesLine
      <3>8. /\ Comes(Line(e), Line(e)', 0, Head(Line(e)[0]), {})
            /\ Keeps(Line(e), Line(e)')
        BY <1>11, <3>3, SameLineMoves
      <3> QED
        BY <3>7, <3>8, <1>15
    <2>8. CASE o = "High"
      <3>1. /\ queue'[e]["High"] = Tail(queue[e]["High"]) /\ queue[e]["High"] # <<>>
            /\ queue'[e]["Low"] = queue[e]["Low"]
            /\ queue'[e]["Normal"] = queue[e]["Normal"]
        BY <1>2, <1>5, <1>16, <2>8
      <3>2. /\ \A do \in {"encrypt", "decrypt", "decompress"} :
                 Hand(e, Handler, do)' = Hand(e, Handler, do)
            /\ \A do \in {"compress", "receive"} :
                 /\ Hand(e, Handler, do) = <<>>
                 /\ Hand(e, Handler, do)' =
                      IF Head(queue[e]["High"]).do = do THEN <<Head(queue[e]["High"])>> ELSE <<>>
        BY <2>3, <2>5, <2>8 DEF job
      <3>3. /\ Line(e)[12] # <<>> /\ Line(e)'[12] = Tail(Line(e)[12]) /\ Line(e)[11] = <<>>
            /\ Line(e)'[11] = IF Head(Line(e)[12]).do = Kind[12] THEN <<Head(Line(e)[12])>> ELSE <<>>
        BY <3>1, <3>2, KindIs, LineIs, LineIsNext
      <3>4. \A q \in Ranks \ {12, 11} : Line(e)'[q] = Line(e)[q]
        <4>1. \A q \in Ranks \ {12, 11} : q \in 1 .. 8 \/ q = 9 \/ q = 10 \/ q = 13 \/ q = 14
          BY DEF Ranks
        <4> QED
          BY <4>1, <1>12, <2>2, <2>6, <3>1, <3>2, LineIs, LineIsNext
      <3>5. /\ Line(p)[3] # <<>> /\ Line(p)'[3] = Tail(Line(p)[3]) /\ Line(p)[2] = <<>>
            /\ Line(p)'[2] = IF Head(Line(p)[3]).do = Kind[3] THEN <<Head(Line(p)[3])>> ELSE <<>>
        BY <1>15, <3>1, <3>2, KindIs, LineIs, LineIsNext
      <3>6. \A q \in Ranks \ {3, 2} : Line(p)'[q] = Line(p)[q]
        <4>1. \A q \in Ranks \ {3, 2} : q \in 8 .. 14 \/ q = 1 \/ q = 4 \/ q = 5 \/ q = 6 \/ q = 7
          BY DEF Ranks
        <4> QED
          BY <4>1, <1>12, <1>13, <1>15, <3>1, <3>2, LineIs, LineIsNext
      <3>7. /\ 12 \in Ranks \ {1} /\ 12 - 1 = 11 /\ Kind[11] = Kind[12]
            /\ 3 \in Ranks \ {1} /\ 3 - 1 = 2 /\ Kind[2] = Kind[3]
        BY KindIs DEF Ranks
      <3>8. /\ Comes(Line(e), Line(e)', 12, Head(Line(e)[12]), {})
            /\ Keeps(Line(e), Line(e)')
        <4>1. TakesAt(e, 12, 11)
          BY <3>3, <3>4, <3>7 DEF TakesAt
        <4> QED
          BY <1>11, <4>1, TakeMovesLine
      <3>9. /\ Comes(Line(p), Line(p)', 3, Head(Line(p)[3]), {})
            /\ Keeps(Line(p), Line(p)')
        <4>1. TakesAt(p, 3, 2)
          BY <3>5, <3>6, <3>7 DEF TakesAt
        <4> QED
          BY <1>11, <4>1, TakeMovesLine
      <3> QED
        BY <3>8, <3>9, <1>15
    <2>9. CASE o = "Normal"
      <3>1. /\ queue'[e]["Normal"] = Tail(queue[e]["Normal"]) /\ queue[e]["Normal"] # <<>>
            /\ queue'[e]["Low"] = queue[e]["Low"]
            /\ queue'[e]["High"] = queue[e]["High"]
        BY <1>2, <1>5, <1>16, <2>9
      <3>2. /\ \A do \in {"compress", "receive", "decompress"} :
                 Hand(e, Handler, do)' = Hand(e, Handler, do)
            /\ \A do \in {"encrypt", "decrypt"} :
                 /\ Hand(e, Handler, do) = <<>>
                 /\ Hand(e, Handler, do)' =
                      IF Head(queue[e]["Normal"]).do = do THEN <<Head(queue[e]["Normal"])>> ELSE <<>>
        BY <2>3, <2>5, <2>9 DEF job
      <3>3. /\ Line(e)[14] # <<>> /\ Line(e)'[14] = Tail(Line(e)[14]) /\ Line(e)[13] = <<>>
            /\ Line(e)'[13] = IF Head(Line(e)[14]).do = Kind[14] THEN <<Head(Line(e)[14])>> ELSE <<>>
        BY <3>1, <3>2, KindIs, LineIs, LineIsNext
      <3>4. \A q \in Ranks \ {14, 13} : Line(e)'[q] = Line(e)[q]
        <4>1. \A q \in Ranks \ {14, 13} : q \in 1 .. 8 \/ q = 9 \/ q = 10 \/ q = 11 \/ q = 12
          BY DEF Ranks
        <4> QED
          BY <4>1, <1>12, <2>2, <2>6, <3>1, <3>2, LineIs, LineIsNext
      <3>5. /\ Line(p)[5] # <<>> /\ Line(p)'[5] = Tail(Line(p)[5]) /\ Line(p)[4] = <<>>
            /\ Line(p)'[4] = IF Head(Line(p)[5]).do = Kind[5] THEN <<Head(Line(p)[5])>> ELSE <<>>
        BY <1>15, <3>1, <3>2, KindIs, LineIs, LineIsNext
      <3>6. \A q \in Ranks \ {5, 4} : Line(p)'[q] = Line(p)[q]
        <4>1. \A q \in Ranks \ {5, 4} : q \in 8 .. 14 \/ q = 1 \/ q = 2 \/ q = 3 \/ q = 6 \/ q = 7
          BY DEF Ranks
        <4> QED
          BY <4>1, <1>12, <1>13, <1>15, <3>1, <3>2, LineIs, LineIsNext
      <3>7. /\ 14 \in Ranks \ {1} /\ 14 - 1 = 13 /\ Kind[13] = Kind[14]
            /\ 5 \in Ranks \ {1} /\ 5 - 1 = 4 /\ Kind[4] = Kind[5]
        BY KindIs DEF Ranks
      <3>8. /\ Comes(Line(e), Line(e)', 14, Head(Line(e)[14]), {})
            /\ Keeps(Line(e), Line(e)')
        <4>1. TakesAt(e, 14, 13)
          BY <3>3, <3>4, <3>7 DEF TakesAt
        <4> QED
          BY <1>11, <4>1, TakeMovesLine
      <3>9. /\ Comes(Line(p), Line(p)', 5, Head(Line(p)[5]), {})
            /\ Keeps(Line(p), Line(p)')
        <4>1. TakesAt(p, 5, 4)
          BY <3>5, <3>6, <3>7 DEF TakesAt
        <4> QED
          BY <1>11, <4>1, TakeMovesLine
      <3>10. queue[e]["High"] = <<>>
        <4>1. Serves[w] = <<"Low", "High", "Normal">>
          BY <1>18 DEF InOrderPool
        <4>2. /\ Len(Serves[w]) = 3 /\ Serves[w][1] = "Low" /\ Serves[w][2] = "High"
              /\ Serves[w][3] = "Normal"
          BY <4>1
        <4>3. i = 3
          BY <1>2, <2>9, <4>2 DEF o
        <4>4. 2 \notin Waiting(e, w)
          BY <1>1, <4>3
        <4> QED
          BY <4>2, <4>4 DEF Waiting
      <3>11. doing[e][Handler] = Idle
        BY <1>3, <1>18
      <3> QED
        BY <3>8, <3>9, <3>10, <3>11, <1>15
    <2> QED
      BY <2>1, <2>7, <2>8, <2>9
  <1> QED
    BY <1>17, <1>18, PoolIs

-----------------------------------------------------------------------------
(* A worker hands a message to its next stage.                             *)

\* The ranks that are queues and the ranks that are hands, and the end each of
\* them belongs to.
QueueRanks == {3, 5, 7, 10, 12, 14}
HandRanks == {2, 4, 6, 9, 11, 13}
Holder(f, q) == IF q <= 8 THEN Peer(f) ELSE f
HolderOf(q) == IF q = 9 THEN Sender ELSE Handler

LEMMA QueueOfRank ==
  ASSUME NEW f, NEW q \in QueueRanks
  PROVE  /\ Line(f)[q] = queue[Holder(f, q)][PriorityOf(Kind[q])]
         /\ Line(f)'[q] = queue'[Holder(f, q)][PriorityOf(Kind[q])]
         /\ PriorityOf(Kind[q]) \in Priorities /\ q \in Ranks
  <1>1. \A n \in QueueRanks : n = 3 \/ n = 5 \/ n = 7 \/ n = 10 \/ n = 12 \/ n = 14
    BY DEF QueueRanks
  <1>2. /\ Line(f)[q] = queue[Holder(f, q)][PriorityOf(Kind[q])]
        /\ Line(f)'[q] = queue'[Holder(f, q)][PriorityOf(Kind[q])]
    BY <1>1, KindIs, PrioritiesAre, LineIs, LineIsNext DEF Holder
  <1>3. PriorityOf(Kind[q]) \in Priorities /\ q \in Ranks
    BY <1>1, KindIs, PrioritiesAre DEF Priorities, Ranks
  <1> QED
    BY <1>2, <1>3

LEMMA HandOfRank ==
  ASSUME NEW f, NEW q \in HandRanks
  PROVE  /\ Line(f)[q] = Hand(Holder(f, q), HolderOf(q), Kind[q])
         /\ Line(f)'[q] = Hand(Holder(f, q), HolderOf(q), Kind[q])'
         /\ q \in Ranks
  <1>1. \A n \in HandRanks : n = 2 \/ n = 4 \/ n = 6 \/ n = 9 \/ n = 11 \/ n = 13
    BY DEF HandRanks
  <1>2. Line(f)[q] = Hand(Holder(f, q), HolderOf(q), Kind[q])
    BY <1>1, KindIs, LineIs DEF Holder, HolderOf
  <1>3. Line(f)'[q] = Hand(Holder(f, q), HolderOf(q), Kind[q])'
    BY <1>1, KindIs, LineIsNext DEF Holder, HolderOf
  <1> QED
    BY <1>1, <1>2, <1>3 DEF Ranks

LEMMA HolderIs ==
  ASSUME NEW q \in Ranks
  PROVE  /\ \A f \in Ends : Holder(f, q) \in Ends
         /\ \A f, g \in Ends : Holder(f, q) = Holder(g, q) => f = g
         /\ q = 1 \/ q = 8 \/ q \in QueueRanks \/ q \in HandRanks
  <1>1. q = 1 \/ q = 8 \/ q \in QueueRanks \/ q \in HandRanks
    BY DEF Ranks, QueueRanks, HandRanks
  <1> QED
    BY <1>1 DEF Holder, Peer, Ends

\* The kinds of the queues differ, and those of the hands.
LEMMA KindsDiffer ==
  /\ \A q, r \in QueueRanks : Kind[q] = Kind[r] => q = r
  /\ \A q, r \in HandRanks : Kind[q] = Kind[r] => q = r
  BY DEF Kind, QueueRanks, HandRanks

\* The worker w of e goes on from its work: of the hands one is emptied.
LEMMA HandLeaves ==
  ASSUME ConnectionInv, InOrderPool, NEW e \in Ends, NEW w \in Workers,
         OthersGoOn(e, w), doing[e][w].step = "work", doing'[e][w].step # "work",
         NEW r \in HandRanks, doing[e][w].job.do = Kind[r],
         NEW f \in Ends, Holder(f, r) = e
  PROVE  /\ Line(f)[r] = <<doing[e][w].job>>
         /\ Line(f)'[r] = <<>>
         /\ \A g \in Ends, q \in HandRanks :
              g # f \/ q # r => Line(g)'[q] = Line(g)[q]
  <1>1. Sender \in Workers /\ Handler \in Workers /\ (w = Sender \/ w = Handler)
    BY PoolIs
  <1>2. w = HolderOf(r)
    <2>1. Kind[r] = "send" <=> r = 9
      BY KindsDiffer, KindIs DEF HandRanks
    <2> QED
      BY <1>1, <2>1, HandlersJob DEF HolderOf
  <1>3. Line(f)[r] = <<doing[e][w].job>> /\ Line(f)'[r] = <<>>
    BY <1>2, HandOfRank, HandIs
  <1>4. ASSUME NEW g \in Ends, NEW q \in HandRanks, g # f \/ q # r
        PROVE  Line(g)'[q] = Line(g)[q]
    <2>1. /\ Line(g)[q] = Hand(Holder(g, q), HolderOf(q), Kind[q])
          /\ Line(g)'[q] = Hand(Holder(g, q), HolderOf(q), Kind[q])'
          /\ q \in Ranks /\ HolderOf(q) \in Workers
      BY <1>1, HandOfRank DEF HolderOf
    <2>2. CASE Holder(g, q) # e \/ HolderOf(q) # w
      <3>1. doing'[Holder(g, q)][HolderOf(q)] = doing[Holder(g, q)][HolderOf(q)]
        BY <2>1, <2>2, HolderIs DEF OthersGoOn
      <3> QED
        BY <2>1, <3>1, HandIs
    <2>3. CASE Holder(g, q) = e /\ HolderOf(q) = w
      <3>1. q # r
        BY <1>4, <2>1, <2>3, HolderIs
      <3>2. doing[e][w].job.do # Kind[q]
        BY <3>1, KindsDiffer
      <3>3. Hand(e, w, Kind[q]) = <<>> /\ Hand(e, w, Kind[q])' = <<>>
        BY <3>2, HandIs
      <3> QED
        BY <2>1, <2>3, <3>3
    <2> QED
      BY <2>2, <2>3
  <1> QED
    BY <1>3, <1>4

\* Of the queues one has the new job as an item.
LEMMA QueueGrows ==
  ASSUME ConnectionInv, NEW e \in Ends, NEW x \in JobT, Push(e, x), ~closed[e]
  PROVE  \A g \in Ends, q \in QueueRanks :
           IF Holder(g, q) = e /\ Kind[q] = x.do
           THEN Line(g)'[q] = Append(Line(g)[q], x)
           ELSE Stays(Line(g)[q], Line(g)'[q], q, {})
  <1>1. /\ \A f \in Ends \ {e} : queue'[f] = queue[f]
        /\ \A o \in Priorities \ {PriorityOf(x.do)} : queue'[e][o] = queue[e][o]
        /\ queue'[e][PriorityOf(x.do)] = Append(queue[e][PriorityOf(x.do)], x)
    BY QueuedIs DEF ConnectionInv, Push
  <1>2. x \in LineT
    BY DEF JobT, LineT
  <1> SUFFICES ASSUME NEW g \in Ends, NEW q \in QueueRanks
               PROVE  IF Holder(g, q) = e /\ Kind[q] = x.do
                      THEN Line(g)'[q] = Append(Line(g)[q], x)
                      ELSE Stays(Line(g)[q], Line(g)'[q], q, {})
    OBVIOUS
  <1> DEFINE o == PriorityOf(Kind[q])
  <1>3. /\ Line(g)[q] = queue[Holder(g, q)][o] /\ Line(g)'[q] = queue'[Holder(g, q)][o]
        /\ o \in Priorities /\ Holder(g, q) \in Ends
    BY QueueOfRank, HolderIs
  <1>4. CASE Holder(g, q) # e \/ o # PriorityOf(x.do)
    <2>1. Line(g)'[q] = Line(g)[q]
      BY <1>1, <1>3, <1>4
    <2> QED
      BY <2>1, <1>4 DEF Stays
  <1>5. CASE Holder(g, q) = e /\ o = PriorityOf(x.do)
    <2>1. Line(g)'[q] = Append(Line(g)[q], x)
      BY <1>1, <1>3, <1>5
    <2> QED
      BY <1>2, <1>5, <2>1 DEF Stays
  <1> QED
    BY <1>4, <1>5

LEMMA QueuesStay ==
  ASSUME UNCHANGED queue
  PROVE  \A g \in Ends, q \in QueueRanks : Line(g)'[q] = Line(g)[q]
  BY QueueOfRank

LEMMA EndsOfStep ==
  ASSUME NEW f \in Ends
  PROVE  /\ UNCHANGED received => Line(f)'[1] = Line(f)[1]
         /\ UNCHANGED stream => Line(f)'[8] = Line(f)[8]
  BY LineIs, LineIsNext

-----------------------------------------------------------------------------
\* A stage passes the message on, or loses it: at an expired or closed end, or
\* when it should be encrypted and is not.
StagePasses(e, job) ==
  /\ condition[e] # "Expired" /\ ~closed[e]
  /\ job.do = "decrypt" /\ cipher[e] => job.sealed

LEMMA StageMoves ==
  ASSUME ConnectionInv, InOrderPool, NEW e \in Ends, NEW w \in Workers, Stage(e, w),
         NEW job, job = doing[e][w].job
  PROVE  \E r \in {4, 6, 11, 13} : \E f \in Ends :
           /\ Holder(f, r) = e /\ Line(f)[r] = <<job>> /\ job.do = Kind[r]
           /\ Comes(Line(f), Line(f)', r, NextJob(e, job), {})
           /\ StagePasses(e, job) => Keeps(Line(f), Line(f)')
           /\ \A m : InLine(Line(f), m) /\ m # job.what => InLine(Line(f)', m)
           /\ Comes(Line(Peer(f)), Line(Peer(f))', 0, NextJob(e, job), {})
           /\ Keeps(Line(Peer(f)), Line(Peer(f))')
  <1> DEFINE x == NextJob(e, job)
  <1>1. /\ doing[e][w].step = "work" /\ Done(e, w) /\ job.do \in Staged
        /\ UNCHANGED <<received, stream>>
        /\ \/ UNCHANGED queue /\ ~StagePasses(e, job)
           \/ Push(e, x)
    BY DEF Stage, Staged, NextJob, StagePasses, link, traffic
  <1>2. PICK r \in {4, 6, 11, 13} : job.do = Kind[r]
    BY <1>1, KindIs DEF Staged
  <1>3. r \in HandRanks /\ r - 1 \in QueueRanks /\ r \in Ranks \ {1}
    BY DEF HandRanks, QueueRanks, Ranks
  <1>4. PICK f \in Ends : Holder(f, r) = e
    BY PeerIsEnd, PeerOfPeer DEF Holder
  <1>5. Holder(f, r - 1) = e
    BY <1>4 DEF Holder
  <1>6. job \in JobT
    BY <1>1 DEF ConnectionInv, WorkInv
  <1>7. x.do = Kind[r - 1] /\ x.what = job.what /\ x \in JobT
    <2>1. job.what \in Content /\ job.sealed \in BOOLEAN /\ cipher[e] \in BOOLEAN
      BY <1>6 DEF JobT, ConnectionInv
    <2>2. /\ x.do \in Dos /\ x.what = job.what /\ x.sealed \in BOOLEAN
          /\ x = Job(x.do, x.what, x.sealed)
      BY <1>1, <2>1 DEF NextJob, Job, Staged, Dos
    <2>3. x.do = Kind[r - 1]
      <3>1. x.do = CASE job.do = "encrypt" -> "compress" [] job.do = "compress" -> "send"
                     [] job.do = "decompress" -> "decrypt" [] job.do = "decrypt" -> "receive"
        BY DEF NextJob, Job
      <3>2. /\ r = 4 => r - 1 = 3 /\ job.do = "decrypt"
            /\ r = 6 => r - 1 = 5 /\ job.do = "decompress"
            /\ r = 11 => r - 1 = 10 /\ job.do = "compress"
            /\ r = 13 => r - 1 = 12 /\ job.do = "encrypt"
        BY <1>2, KindIs
      <3> QED
        BY <3>1, <3>2, KindIs
    <2> QED
      BY <2>1, <2>2, <2>3, JobHasType
  <1> HIDE DEF x
  <1>8. OthersGoOn(e, w) /\ doing'[e][w].step # "work"
    BY <1>1, DoneHand DEF OthersGoOn
  <1>9. /\ Line(f)[r] = <<job>> /\ Line(f)'[r] = <<>>
        /\ \A g \in Ends, q \in HandRanks : g # f \/ q # r => Line(g)'[q] = Line(g)[q]
    BY <1>1, <1>2, <1>3, <1>4, <1>8, HandLeaves
  <1>10. \A g \in Ends : \A q \in {1, 8} : Line(g)'[q] = Line(g)[q]
    BY <1>1, EndsOfStep
  <1>11. /\ Line(f)[r] # <<>> /\ Line(f)'[r] = Tail(Line(f)[r]) /\ Head(Line(f)[r]) = job
         /\ Line(f) \in Lines /\ Line(Peer(f)) \in Lines /\ Peer(f) \in Ends /\ Peer(f) # f
    BY <1>9, LineTyped, PeerIsEnd
  <1>12. \A g \in Ends : \A q \in {1, 8} \cup HandRanks :
           g # f \/ q # r => Stays(Line(g)[q], Line(g)'[q], q, {})
    BY <1>9, <1>10 DEF Stays
  <1>13. /\ \A q \in Ranks : q \in {1, 8} \cup HandRanks \/ q \in QueueRanks
         /\ r \notin QueueRanks /\ r - 1 \notin HandRanks
    BY HolderIs DEF HandRanks, QueueRanks
  <1>14. CASE UNCHANGED queue /\ ~StagePasses(e, job)
    <2>1. \A g \in Ends : \A q \in QueueRanks : Stays(Line(g)[q], Line(g)'[q], q, {})
      BY <1>14, QueuesStay DEF Stays
    <2>2. \A q \in Ranks \ {r} : Stays(Line(f)[q], Line(f)'[q], q, {})
      BY <1>12, <1>13, <2>1
    <2>6. /\ Comes(Line(f), Line(f)', r, x, {})
          /\ Line(f)[r][1] = Head(Line(f)[r])
          /\ \A m : InLine(Line(f), m) =>
               \/ InLine(Line(f)', m)
               \/ Line(f)[r][1].do = Kind[r] /\ Line(f)[r][1].what = m
      <3> DEFINE L == Line(f)
                 L2 == Line(f)'
      <3>1. /\ L \in Lines /\ r \in Ranks /\ L[r] # <<>> /\ L2[r] = Tail(L[r])
            /\ \A q \in Ranks \ {r} : Stays(L[q], L2[q], q, {})
        BY <1>3, <1>11, <2>2
      <3> HIDE DEF L, L2
      <3>2. Comes(L, L2, r, x, {})
        BY <3>1, LoseMoves
      <3>3. L[r][1] = Head(L[r])
        BY <3>1, LoseMoves
      <3>4. \A m : InLine(L, m) => \/ InLine(L2, m)
                                   \/ L[r][1].do = Kind[r] /\ L[r][1].what = m
        BY <3>1, <3>2, LoseMoves
      <3> QED
        BY <3>2, <3>3, <3>4 DEF L, L2
    <2>3. /\ Comes(Line(f), Line(f)', r, x, {})
          /\ \A m : InLine(Line(f), m) /\ m # job.what => InLine(Line(f)', m)
      BY <1>11, <2>6
    <2>4. \A q \in Ranks : Stays(Line(Peer(f))[q], Line(Peer(f))'[q], q, {})
      BY <1>11, <1>12, <1>13, <2>1
    <2>5. /\ Comes(Line(Peer(f)), Line(Peer(f))', 0, x, {})
          /\ Keeps(Line(Peer(f)), Line(Peer(f))')
      BY <1>11, <2>4, StillMoves
    <2> QED
      BY <1>2, <1>4, <1>9, <1>14, <2>3, <2>5 DEF x
  <1>15. CASE Push(e, x) /\ ~closed[e]
    <2>1. \A g \in Ends, q \in QueueRanks :
            IF Holder(g, q) = e /\ Kind[q] = x.do
            THEN Line(g)'[q] = Append(Line(g)[q], x)
            ELSE Stays(Line(g)[q], Line(g)'[q], q, {})
      BY <1>7, <1>15, QueueGrows
    <2>2. Line(f)'[r - 1] = Append(Line(f)[r - 1], x)
      BY <1>3, <1>5, <1>7, <2>1
    <2>3. \A q \in QueueRanks \ {r - 1} : \A g \in Ends : Stays(Line(g)[q], Line(g)'[q], q, {})
      BY <1>3, <1>7, <2>1, KindsDiffer
    <2>4. Stays(Line(Peer(f))[r - 1], Line(Peer(f))'[r - 1], r - 1, {})
      <3>1. r - 1 \in Ranks
        BY DEF Ranks
      <3>2. Holder(Peer(f), r - 1) # e
        BY <1>5, <1>11, <3>1, HolderIs
      <3> QED
        BY <1>3, <1>11, <3>2, <2>1
    <2>5. \A q \in Ranks \ {r, r - 1} : Stays(Line(f)[q], Line(f)'[q], q, {})
      BY <1>12, <1>13, <2>3
    <2>6. x \in LineT
      BY <1>7 DEF JobT, LineT
    <2>7. Comes(Line(f), Line(f)', r, x, {}) /\ Keeps(Line(f), Line(f)')
      BY <1>2, <1>3, <1>7, <1>11, <2>2, <2>5, <2>6, PassMoves
    <2>10. \A m : InLine(Line(f), m) /\ m # job.what => InLine(Line(f)', m)
      BY <2>7 DEF Keeps
    <2>8. \A q \in Ranks : Stays(Line(Peer(f))[q], Line(Peer(f))'[q], q, {})
      BY <1>11, <1>12, <1>13, <2>3, <2>4
    <2>9. /\ Comes(Line(Peer(f)), Line(Peer(f))', 0, x, {})
          /\ Keeps(Line(Peer(f)), Line(Peer(f))')
      BY <1>11, <2>8, StillMoves
    <2> QED
      BY <1>2, <1>4, <1>9, <2>7, <2>9, <2>10 DEF x
  <1>16. Push(e, x) /\ closed[e] => UNCHANGED queue /\ ~StagePasses(e, job)
    <2>1. Sorted(queue)
      BY DEF ConnectionInv
    <2> QED
      BY <1>7, <2>1, QueuedIs DEF Push, StagePasses
  <1> QED
    BY <1>1, <1>14, <1>15, <1>16 DEF x

-----------------------------------------------------------------------------
(* A message enters the line, and leaves an end for the socket.            *)

\* What is on a socket was sent.
SocketInv == \A e \in Ends : \A i \in DOMAIN stream[e] : stream[e][i].do = "send"

LEMMA HandRanksStay ==
  ASSUME InOrderPool, \A e \in Ends : HandsStay(e)
  PROVE  \A g \in Ends, q \in HandRanks : Line(g)'[q] = Line(g)[q]
  <1> SUFFICES ASSUME NEW g \in Ends, NEW q \in HandRanks
               PROVE  Line(g)'[q] = Line(g)[q]
    OBVIOUS
  <1>1. Kind[q] \in Range(Kind) /\ HolderOf(q) \in Workers /\ Holder(g, q) \in Ends
    <2>1. q \in DOMAIN Kind
      BY DEF Kind, HandRanks
    <2> QED
      BY <2>1, PoolIs, HandOfRank, HolderIs DEF Range, HolderOf
  <1>2. Hand(Holder(g, q), HolderOf(q), Kind[q])' = Hand(Holder(g, q), HolderOf(q), Kind[q])
    BY <1>1 DEF HandsStay
  <1> QED
    BY <1>2, HandOfRank

\* A message is sent: it is last in the line of its end.
LEMMA SendMoves ==
  ASSUME ConnectionInv, InOrderPool, NEW e \in Ends, NEW m \in Content,
         \A g \in Ends : HandsStay(g), UNCHANGED <<received, stream>>,
         queue'[Peer(e)] = queue[Peer(e)],
         queue'[e]["Top"] = queue[e]["Top"], queue'[e]["High"] = queue[e]["High"],
         \/ queue'[e]["Low"] = queue[e]["Low"]
         \/ \E y \in JobT : y.do = "file" /\ queue'[e]["Low"] = Append(queue[e]["Low"], y),
         closed[e] => queue'[e]["Normal"] = queue[e]["Normal"],
         ~closed[e] => queue'[e]["Normal"]
                         = Append(queue[e]["Normal"], Job("encrypt", m, FALSE)),
         NEW x
  PROVE  /\ closed[e] => Comes(Line(e), Line(e)', 0, x, {})
         /\ ~closed[e] => /\ Enters(Line(e), Line(e)', m, {})
                          /\ Keeps(Line(e), Line(e)')
                          /\ InLine(Line(e)', m)
         /\ Comes(Line(Peer(e)), Line(Peer(e))', 0, x, {})
         /\ Keeps(Line(Peer(e)), Line(Peer(e))')
  <1> DEFINE p == Peer(e)
             job == Job("encrypt", m, FALSE)
  <1>0. Peer(p) = e /\ p \in Ends
    BY PeerIsEnd, PeerOfPeer
  <1>1. \A g \in Ends : \A q \in {1, 8} \cup HandRanks : Line(g)'[q] = Line(g)[q]
    BY HandRanksStay, EndsOfStep
  <1>2. /\ job \in LineT /\ job.do = "encrypt" /\ job.what = m
    BY JobHasType DEF Dos, Job, LineT, JobT
  <1> HIDE DEF p, job
  <1>3. \A q \in Ranks : q \in {1, 8} \cup HandRanks \/ q \in {3, 5, 7, 10, 12} \/ q = 14
    BY HolderIs DEF QueueRanks
  <1>4. \A q \in {3, 5, 7, 10, 12} : Line(e)'[q] = Line(e)[q]
    BY LineIs, LineIsNext
  <1>5. /\ \A q \in {10, 12, 14} : Line(p)'[q] = Line(p)[q]
        /\ Line(p)'[3] = Line(p)[3]
    BY <1>0, LineIs, LineIsNext DEF p
  <1>6. Stays(Line(p)[7], Line(p)'[7], 7, {})
    <2>1. Line(p)[7] = queue[e]["Low"] /\ Line(p)'[7] = queue'[e]["Low"]
      BY <1>0, LineIs, LineIsNext
    <2>2. \A y \in JobT : y.do = "file" => y \in LineT /\ y.do # Kind[7]
      BY KindIs DEF JobT, LineT
    <2> QED
      BY <2>1, <2>2 DEF Stays
  <1>7. Stays(Line(p)[5], Line(p)'[5], 5, {})
    <2>1. Line(p)[5] = queue[e]["Normal"] /\ Line(p)'[5] = queue'[e]["Normal"]
      BY <1>0, LineIs, LineIsNext
    <2>2. job.do # Kind[5]
      BY <1>2, KindIs
    <2> QED
      BY <1>2, <2>1, <2>2 DEF Stays, job
  <1>8. \A q \in Ranks : Stays(Line(p)[q], Line(p)'[q], q, {})
    <2>1. \A q \in Ranks \ {5, 7} : Line(p)'[q] = Line(p)[q]
      BY <1>0, <1>1, <1>3, <1>5
    <2> QED
      BY <2>1, <1>6, <1>7 DEF Stays
  <1>9. Line(e) \in Lines /\ Line(p) \in Lines
    BY <1>0, LineTyped
  <1>10. Comes(Line(p), Line(p)', 0, x, {}) /\ Keeps(Line(p), Line(p)')
    BY <1>8, <1>9, StillMoves
  <1>11. \A q \in Ranks \ {14} : Line(e)'[q] = Line(e)[q]
    BY <1>1, <1>3, <1>4
  <1>12. ASSUME closed[e] PROVE Comes(Line(e), Line(e)', 0, x, {})
    <2>1. Line(e)'[14] = Line(e)[14]
      BY <1>12, LineIs, LineIsNext
    <2>2. \A q \in Ranks : Stays(Line(e)[q], Line(e)'[q], q, {})
      BY <1>11, <2>1 DEF Stays
    <2> QED
      BY <1>9, <2>2, StillMoves
  <1>13. ASSUME ~closed[e]
         PROVE  Enters(Line(e), Line(e)', m, {}) /\ Keeps(Line(e), Line(e)') /\ InLine(Line(e)', m)
    <2>1. Line(e)'[14] = Append(Line(e)[14], job)
      BY <1>13, LineIs, LineIsNext DEF job
    <2>2. \A q \in Ranks \ {14} : Stays(Line(e)[q], Line(e)'[q], q, {})
      BY <1>11 DEF Stays
    <2> QED
      BY <1>2, <1>9, <2>1, <2>2, EnterMoves
  <1> QED
    BY <1>10, <1>12, <1>13 DEF p

\* Messages, files and the handshake are different things.
LEMMA AcceptMoves ==
  ASSUME ConnectionInv, InOrderPool, NEW e \in Ends, NEW m \in Messages[e], Accept(e, m),
         m \notin Handshake, NEW x
  PROVE  /\ closed[e] => Comes(Line(e), Line(e)', 0, x, {})
         /\ ~closed[e] => /\ Enters(Line(e), Line(e)', m, {})
                          /\ Keeps(Line(e), Line(e)')
                          /\ InLine(Line(e)', m)
         /\ Comes(Line(Peer(e)), Line(Peer(e))', 0, x, {})
         /\ Keeps(Line(Peer(e)), Line(Peer(e))')
         /\ closed[e] => UNCHANGED queue
         /\ ~closed[e] => queue'[e]["Low"] =
              IF m \in DOMAIN FileOf
              THEN Append(queue[e]["Low"], Job("file", FileOf[m], FALSE))
              ELSE queue[e]["Low"]
         /\ queue'[Peer(e)] = queue[Peer(e)]
  <1> DEFINE a == Job("encrypt", m, FALSE)
             b == Job("file", FileOf[m], FALSE)
             r == Queued(queue, e, a)
  <1>1. /\ m \in Content /\ a = SendJob(m) /\ a \in JobT
        /\ Send(queue, e, m) = r
        /\ PriorityOf(a.do) = "Normal"
    BY ContentHas, SendIsQueued, PrioritiesAre DEF SendJob, Job
  <1>2. Sorted(queue) /\ Sorted(r) /\ Peer(e) \in Ends \ {e}
    BY <1>1, QueuedIsSorted, PeerIsEnd DEF ConnectionInv
  <1>3. m \in DOMAIN FileOf => b \in JobT /\ PriorityOf(b.do) = "Low" /\ b.do = "file"
    BY ContentHas, JobHasType, PrioritiesAre DEF Dos, Job
  <1>4. {"Top", "High", "Normal", "Low"} \subseteq Priorities
    BY DEF Priorities
  <1>5. queue' = IF m \in DOMAIN FileOf THEN Queued(r, e, b) ELSE r
    BY <1>1 DEF Accept
  <1> HIDE DEF a, b
  <1>6. /\ r[Peer(e)] = queue[Peer(e)]
        /\ r[e]["Top"] = queue[e]["Top"] /\ r[e]["High"] = queue[e]["High"]
        /\ r[e]["Low"] = queue[e]["Low"]
        /\ closed[e] => r = queue
        /\ ~closed[e] => r[e]["Normal"] = Append(queue[e]["Normal"], a)
    <2>1. a \in JobT /\ PriorityOf(a.do) = "Normal" /\ Sorted(queue)
          /\ Peer(e) \in Ends \ {e}
      BY <1>1, <1>2
    <2>2. /\ \A f \in Ends \ {e} : Queued(queue, e, a)[f] = queue[f]
          /\ \A o \in Priorities \ {"Normal"} : Queued(queue, e, a)[e][o] = queue[e][o]
          /\ closed[e] => Queued(queue, e, a) = queue
          /\ ~closed[e] => Queued(queue, e, a)[e]["Normal"] = Append(queue[e]["Normal"], a)
      BY <2>1, QueuedIs
    <2> QED
      BY <1>4, <2>1, <2>2
  <1> HIDE DEF r
  <1>7. /\ queue'[Peer(e)] = queue[Peer(e)]
        /\ queue'[e]["Top"] = queue[e]["Top"] /\ queue'[e]["High"] = queue[e]["High"]
        /\ closed[e] => queue' = queue
        /\ ~closed[e] => /\ queue'[e]["Normal"] = Append(queue[e]["Normal"], a)
                         /\ queue'[e]["Low"] = IF m \in DOMAIN FileOf
                                               THEN Append(queue[e]["Low"], b)
                                               ELSE queue[e]["Low"]
    <2>1. CASE m \notin DOMAIN FileOf
      BY <2>1, <1>5, <1>6
    <2>2. CASE m \in DOMAIN FileOf
      <3> DEFINE u == Queued(r, e, b)
      <3>1. /\ u[Peer(e)] = r[Peer(e)]
            /\ u[e]["Top"] = r[e]["Top"] /\ u[e]["High"] = r[e]["High"]
            /\ u[e]["Normal"] = r[e]["Normal"]
            /\ closed[e] => u = r
            /\ ~closed[e] => u[e]["Low"] = Append(r[e]["Low"], b)
        BY <2>2, <1>2, <1>3, <1>4, QueuedIs
      <3>2. queue' = u
        BY <2>2, <1>5
      <3> HIDE DEF u
      <3> QED
        BY <2>2, <3>1, <3>2, <1>6
    <2> QED
      BY <2>1, <2>2
  <1>8. UNCHANGED <<doing, received, stream>>
    BY DEF Accept, link
  <1>9. \A g \in Ends : HandsStay(g)
    BY <1>8, HandsStayUnchanged
  <1>10. \/ queue'[e]["Low"] = queue[e]["Low"]
         \/ \E y \in JobT : y.do = "file" /\ queue'[e]["Low"] = Append(queue[e]["Low"], y)
    BY <1>3, <1>7
  <1>11. /\ closed[e] => queue'[e]["Normal"] = queue[e]["Normal"]
         /\ ~closed[e] => queue'[e]["Normal"]
                            = Append(queue[e]["Normal"], Job("encrypt", m, FALSE))
    BY <1>7 DEF a
  <1>12. /\ closed[e] => Comes(Line(e), Line(e)', 0, x, {})
         /\ ~closed[e] => /\ Enters(Line(e), Line(e)', m, {})
                          /\ Keeps(Line(e), Line(e)')
                          /\ InLine(Line(e)', m)
         /\ Comes(Line(Peer(e)), Line(Peer(e))', 0, x, {})
         /\ Keeps(Line(Peer(e)), Line(Peer(e))')
    BY <1>1, <1>7, <1>8, <1>9, <1>10, <1>11, SendMoves
  <1> QED
    BY <1>7, <1>12 DEF b

LEMMA SendFileMoves ==
  ASSUME ConnectionInv, InOrderPool, NEW e \in Ends, NEW w \in Workers, SendFile(e, w),
         NEW m, m = What(e, w), m \notin Handshake, NEW x
  PROVE  /\ closed[e] => Comes(Line(e), Line(e)', 0, x, {})
         /\ ~closed[e] => /\ Enters(Line(e), Line(e)', m, {})
                          /\ Keeps(Line(e), Line(e)')
                          /\ InLine(Line(e)', m)
         /\ Comes(Line(Peer(e)), Line(Peer(e))', 0, x, {})
         /\ Keeps(Line(Peer(e)), Line(Peer(e))')
         /\ \A f \in Ends : queue'[f]["Low"] = queue[f]["Low"]
  <1> DEFINE a == Job("encrypt", m, FALSE)
  <1>1. /\ doing[e][w].step = "work" /\ doing[e][w].job.do = "file" /\ Done(e, w)
        /\ UNCHANGED <<received, stream>>
    BY DEF SendFile, At, link
  <1>2. m \in Content
    BY <1>1 DEF What, ConnectionInv, WorkInv, JobT
  <1>3. /\ a = SendJob(m) /\ a \in JobT /\ queue' = Queued(queue, e, a)
        /\ PriorityOf(a.do) = "Normal"
    BY <1>2, SendIsQueued, PrioritiesAre DEF SendJob, Job, SendFile
  <1>4. Sorted(queue) /\ Peer(e) \in Ends \ {e} /\ \A f \in Ends : f = e \/ f = Peer(e)
    BY PeerIsEnd DEF ConnectionInv, Ends, Peer
  <1>5. {"Top", "High", "Normal", "Low"} \subseteq Priorities
    BY DEF Priorities
  <1> HIDE DEF a
  <1> DEFINE u == Queued(queue, e, a)
  <1>6. /\ u[Peer(e)] = queue[Peer(e)]
        /\ u[e]["Top"] = queue[e]["Top"] /\ u[e]["High"] = queue[e]["High"]
        /\ u[e]["Low"] = queue[e]["Low"]
        /\ closed[e] => u = queue
        /\ ~closed[e] => u[e]["Normal"] = Append(queue[e]["Normal"], a)
    BY <1>3, <1>4, <1>5, QueuedIs
  <1>7. queue' = u
    BY <1>3
  <1> HIDE DEF u
  <1>8. /\ queue'[Peer(e)] = queue[Peer(e)]
        /\ queue'[e]["Top"] = queue[e]["Top"] /\ queue'[e]["High"] = queue[e]["High"]
        /\ queue'[e]["Low"] = queue[e]["Low"]
        /\ closed[e] => queue'[e]["Normal"] = queue[e]["Normal"]
        /\ ~closed[e] => queue'[e]["Normal"] = Append(queue[e]["Normal"], Job("encrypt", m, FALSE))
    BY <1>6, <1>7 DEF a
  <1>9. \A g \in Ends : HandsStay(g)
    <2>1. OthersGoOn(e, w) /\ doing'[e][w].step # "work"
      BY <1>1, DoneHand DEF OthersGoOn
    <2>2. HandsStay(e)
      BY <1>1, <2>1, HandsStayIf
    <2>3. HandsStay(Peer(e))
      BY <1>4, <2>1, HandIs DEF HandsStay, OthersGoOn
    <2> QED
      BY <1>4, <2>2, <2>3
  <1>10. /\ closed[e] => Comes(Line(e), Line(e)', 0, x, {})
         /\ ~closed[e] => /\ Enters(Line(e), Line(e)', m, {})
                          /\ Keeps(Line(e), Line(e)')
                          /\ InLine(Line(e)', m)
         /\ Comes(Line(Peer(e)), Line(Peer(e))', 0, x, {})
         /\ Keeps(Line(Peer(e)), Line(Peer(e))')
    BY <1>1, <1>2, <1>8, <1>9, SendMoves
  <1>11. \A f \in Ends : queue'[f]["Low"] = queue[f]["Low"]
    BY <1>4, <1>8
  <1> QED
    BY <1>10, <1>11

\* The message is written to the socket, or is gone with it.
LEMMA WriteMoves ==
  ASSUME ConnectionInv, InOrderPool, NEW e \in Ends, NEW w \in Workers,
         WriteSocket(e, w), NEW job, job = doing[e][w].job
  PROVE  /\ Line(e)[9] = <<job>>
         /\ Comes(Line(e), Line(e)', 9, job, {})
         /\ up => Keeps(Line(e), Line(e)')
         /\ Comes(Line(Peer(e)), Line(Peer(e))', 0, job, {})
         /\ Keeps(Line(Peer(e)), Line(Peer(e))')
  <1> DEFINE p == Peer(e)
  <1>1. /\ doing[e][w].step = "work" /\ job.do = "send" /\ Done(e, w)
        /\ UNCHANGED <<queue, received>>
        /\ stream' = IF up THEN [stream EXCEPT ![Peer(e)] = Append(@, job)] ELSE stream
    BY DEF WriteSocket, At, traffic
  <1>2. Peer(p) = e /\ p \in Ends /\ p # e
    BY PeerIsEnd, PeerOfPeer
  <1>3. OthersGoOn(e, w) /\ doing'[e][w].step # "work"
    BY <1>1, DoneHand DEF OthersGoOn
  <1>4. 9 \in HandRanks /\ 9 \in Ranks \ {1} /\ 9 - 1 = 8 /\ Holder(e, 9) = e
        /\ Kind[9] = "send" /\ Kind[8] = "send"
    BY KindIs DEF HandRanks, Ranks, Holder
  <1>5. /\ Line(e)[9] = <<job>> /\ Line(e)'[9] = <<>>
        /\ \A g \in Ends, q \in HandRanks : g # e \/ q # 9 => Line(g)'[q] = Line(g)[q]
    BY <1>1, <1>3, <1>4, HandLeaves
  <1>6. \A g \in Ends : Line(g)'[1] = Line(g)[1]
    BY <1>1, EndsOfStep
  <1>7. \A g \in Ends, q \in QueueRanks : Line(g)'[q] = Line(g)[q]
    BY <1>1, QueuesStay
  <1>8. /\ Line(e) \in Lines /\ Line(p) \in Lines
        /\ Line(e)[9] # <<>> /\ Line(e)'[9] = Tail(Line(e)[9]) /\ Head(Line(e)[9]) = job
    BY <1>2, <1>5, LineTyped
  <1>9. job \in LineT
    BY <1>1 DEF ConnectionInv, WorkInv, JobT, LineT
  <1>10. Line(p)'[8] = Line(p)[8]
    <2>1. stream'[e] = stream[e]
      BY <1>1, <1>2 DEF p
    <2> QED
      BY <2>1, <1>2, LineIs, LineIsNext
  <1> HIDE DEF p
  <1>11. \A q \in Ranks : q = 1 \/ q = 8 \/ q \in QueueRanks \/ q \in HandRanks
    BY HolderIs
  <1>12. \A q \in Ranks : Stays(Line(p)[q], Line(p)'[q], q, {})
    BY <1>2, <1>5, <1>6, <1>7, <1>10, <1>11 DEF Stays
  <1>13. Comes(Line(p), Line(p)', 0, job, {}) /\ Keeps(Line(p), Line(p)')
    BY <1>8, <1>12, StillMoves
  <1>14. \A q \in Ranks \ {9, 8} : Stays(Line(e)[q], Line(e)'[q], q, {})
    BY <1>5, <1>6, <1>7, <1>11 DEF Stays
  <1>15. CASE up
    <2>1. stream \in [Ends -> Seq(JobT)]
      BY DEF ConnectionInv
    <2>2. stream'[p] = Append(stream[p], job)
      BY <1>1, <1>2, <1>15, <2>1 DEF p
    <2>3. Line(e)'[8] = Append(Line(e)[8], job)
      BY <2>2, LineIs, LineIsNext DEF p
    <2>4. Comes(Line(e), Line(e)', 9, job, {}) /\ Keeps(Line(e), Line(e)')
      BY <1>1, <1>4, <1>8, <1>9, <1>14, <2>3, PassMoves
    <2> QED
      BY <1>5, <1>13, <2>4 DEF p
  <1>16. CASE ~up
    <2>1. Line(e)'[8] = Line(e)[8]
      BY <1>1, <1>16, LineIs, LineIsNext
    <2>2. \A q \in Ranks \ {9} : Stays(Line(e)[q], Line(e)'[q], q, {})
      BY <1>14, <2>1 DEF Stays
    <2>3. Comes(Line(e), Line(e)', 9, job, {})
      BY <1>4, <1>8, <2>2, LoseMoves
    <2> QED
      BY <1>5, <1>13, <1>16, <2>3 DEF p
  <1> QED
    BY <1>15, <1>16

-----------------------------------------------------------------------------
(* A message reaches the application, or the io thread takes it.           *)

LEMMA GivenGrows ==
  ASSUME NEW s \in Seq(Content), NEW m \in Content
  PROVE  Given(Append(s, m)) = Append(Given(s), Job("got", m, FALSE))
  <1> DEFINE x == Job("got", m, FALSE)
             u == Append(s, m)
             g == Given(u)
             h == Append(Given(s), x)
  <1>1. /\ Len(s) \in Nat /\ Len(u) = Len(s) + 1 /\ u \in Seq(Content)
        /\ \A i \in 1 .. Len(s) : u[i] = s[i]
        /\ u[Len(s) + 1] = m
    BY AppendProperties, LenProperties
  <1>2. Given(s) \in Seq(LineT) /\ g \in Seq(LineT) /\ x \in LineT
    BY <1>1, GivenTyped DEF Job, LineT
  <1> HIDE DEF u
  <1>3. /\ Len(Given(s)) = Len(s) /\ \A i \in 1 .. Len(s) : Given(s)[i] = Job("got", s[i], FALSE)
        /\ Len(g) = Len(u) /\ \A i \in 1 .. Len(u) : g[i] = Job("got", u[i], FALSE)
    BY <1>1, <1>2, LenProperties DEF Given
  <1> HIDE DEF g, x
  <1>4. /\ h \in Seq(LineT) /\ Len(h) = Len(s) + 1
        /\ \A i \in 1 .. Len(s) : h[i] = Given(s)[i]
        /\ h[Len(s) + 1] = x
    BY <1>2, <1>3, AppendProperties
  <1> HIDE DEF h
  <1>5. ASSUME NEW i \in 1 .. Len(g) PROVE g[i] = h[i]
    <2>1. i \in 1 .. Len(s) \/ i = Len(s) + 1
      BY <1>1, <1>3
    <2>2. CASE i \in 1 .. Len(s)
      <3>1. i \in 1 .. Len(u) /\ u[i] = s[i]
        BY <1>1, <2>2
      <3> QED
        BY <1>3, <1>4, <2>2, <3>1
    <2>3. CASE i = Len(s) + 1
      <3>1. i \in 1 .. Len(u) /\ u[i] = m
        BY <1>1, <2>3
      <3> QED
        BY <1>3, <1>4, <2>3, <3>1 DEF x
    <2> QED
      BY <2>1, <2>2, <2>3
  <1>6. g = h
    BY <1>1, <1>2, <1>3, <1>4, <1>5, SeqEqual
  <1> QED
    BY <1>6 DEF g, h, u, x

\* Data is given to the application, or is gone.
LEMMA ReceiveMoves ==
  ASSUME ConnectionInv, InOrderPool, NEW e \in Ends, NEW w \in Workers,
         NEW job, job = doing[e][w].job,
         NEW x \in LineT, x.do = "got",
         \/ ReceiveData(e, w) /\ x = Job("got", job.what, FALSE)
         \/ ReceiveHandshake(e, w)
  PROVE  /\ Line(Peer(e))[2] = <<job>> /\ job.do = "receive"
         /\ Comes(Line(Peer(e)), Line(Peer(e))', 2, x, {})
         /\ received'[e] # received[e] => Keeps(Line(Peer(e)), Line(Peer(e))')
         /\ \A m : InLine(Line(Peer(e)), m) /\ m # job.what => InLine(Line(Peer(e))', m)
         /\ Comes(Line(e), Line(e)', 0, x, {})
         /\ Keeps(Line(e), Line(e)')
  <1> DEFINE p == Peer(e)
  <1>1. /\ doing[e][w].step = "work" /\ job.do = "receive"
        /\ UNCHANGED <<queue, stream>>
        /\ doing'[e][w].step # "work" /\ OthersGoOn(e, w)
    <2>1. /\ doing[e][w].step = "work" /\ job.do = "receive"
          /\ UNCHANGED <<queue, stream>>
      BY DEF ReceiveData, ReceiveHandshake, At, link
    <2>2. OthersGoOn(e, w)
      BY QuietStep
    <2>3. \/ Done(e, w)
          \/ \E step \in Steps \ {"idle", "work"} : Goes(e, w, step)
      BY DEF ReceiveData, ReceiveHandshake, Steps
    <2>4. doing'[e][w].step # "work"
      BY <2>1, <2>3, DoneHand, GoesHand
    <2> QED
      BY <2>1, <2>2, <2>4
  <1>2. Peer(p) = e /\ p # e /\ p \in Ends /\ p = Peer(e)
    BY PeerIsEnd, PeerOfPeer
  <1> HIDE DEF p
  <1> USE <1>2
  <1>3. 2 \in HandRanks /\ 2 \in Ranks \ {1} /\ 2 - 1 = 1 /\ Holder(p, 2) = e
        /\ Kind[2] = "receive" /\ Kind[1] = "got"
    BY <1>2, KindIs DEF HandRanks, Ranks, Holder
  <1>4. /\ Line(p)[2] = <<job>> /\ Line(p)'[2] = <<>>
        /\ \A g \in Ends, q \in HandRanks : g # p \/ q # 2 => Line(g)'[q] = Line(g)[q]
    BY <1>1, <1>3, HandLeaves
  <1>5. \A g \in Ends : Line(g)'[8] = Line(g)[8]
    BY <1>1, EndsOfStep
  <1>6. \A g \in Ends, q \in QueueRanks : Line(g)'[q] = Line(g)[q]
    BY <1>1, QueuesStay
  <1>7. /\ Line(e) \in Lines /\ Line(p) \in Lines
        /\ Line(p)[2] # <<>> /\ Line(p)'[2] = Tail(Line(p)[2]) /\ Head(Line(p)[2]) = job
    BY <1>4, LineTyped
  <1>8. /\ received' = received
           \/ /\ ReceiveData(e, w) /\ received' = [received EXCEPT ![e] = Append(@, job.what)]
              /\ x = Job("got", job.what, FALSE)
        /\ received \in [Ends -> Seq(Content)]
        /\ job \in JobT /\ job.what \in Content
    <2>1. received' = received
           \/ /\ ReceiveData(e, w) /\ received' = [received EXCEPT ![e] = Append(@, job.what)]
              /\ x = Job("got", job.what, FALSE)
      <3>1. CASE ReceiveHandshake(e, w)
        BY <3>1 DEF ReceiveHandshake, traffic
      <3>2. CASE ReceiveData(e, w) /\ x = Job("got", job.what, FALSE)
        BY <3>2 DEF ReceiveData, What
      <3> QED
        BY <3>1, <3>2
    <2> QED
      BY <1>1, <2>1 DEF ConnectionInv, HistoryInv, WorkInv, JobT
  <1>9. Line(e)'[1] = Line(e)[1]
    <2>1. received'[p] = received[p]
      BY <1>2, <1>8
    <2> QED
      BY <2>1, LineIs, LineIsNext
  <1>10. \A q \in Ranks : q = 1 \/ q = 8 \/ q \in QueueRanks \/ q \in HandRanks
    BY HolderIs
  <1>11. \A q \in Ranks : Stays(Line(e)[q], Line(e)'[q], q, {})
    BY <1>2, <1>4, <1>5, <1>6, <1>9, <1>10 DEF Stays
  <1>12. Comes(Line(e), Line(e)', 0, x, {}) /\ Keeps(Line(e), Line(e)')
    BY <1>7, <1>11, StillMoves
  <1>13. \A q \in Ranks \ {2, 1} : Stays(Line(p)[q], Line(p)'[q], q, {})
    BY <1>4, <1>5, <1>6, <1>10 DEF Stays
  <1>14. CASE received' = received
    <2>1. Line(p)'[1] = Line(p)[1]
      BY <1>14, LineIs, LineIsNext
    <2>2. \A q \in Ranks \ {2} : Stays(Line(p)[q], Line(p)'[q], q, {})
      BY <1>13, <2>1 DEF Stays
    <2>3. /\ Comes(Line(p), Line(p)', 2, x, {})
          /\ \A m : InLine(Line(p), m) =>
               InLine(Line(p)', m) \/ (Line(p)[2][1].do = Kind[2] /\ Line(p)[2][1].what = m)
      BY <1>3, <1>7, <2>2, LoseMoves
    <2>4. Line(p)[2][1] = job
      BY <1>4
    <2> QED
      BY <1>1, <1>4, <1>12, <1>14, <2>3, <2>4
  <1>15. CASE /\ received' = [received EXCEPT ![e] = Append(@, job.what)]
              /\ x = Job("got", job.what, FALSE)
    <2>1. received'[e] = Append(received[e], job.what)
      BY <1>8, <1>15
    <2>2. Given(received'[e]) = Append(Given(received[e]), x)
      BY <1>8, <1>15, <2>1, GivenGrows
    <2>3. Line(p)'[1] = Append(Line(p)[1], x)
      <3>1. Line(p)[1] = Given(received[e])
        BY <1>2, LineIs
      <3>2. Line(p)'[1] = Given(received'[e])
        BY <1>2, LineIsNext
      <3> QED
        BY <2>2, <3>1, <3>2
    <2>4. x.what = job.what
      BY <1>15 DEF Job
    <2>6. 1 \in Ranks /\ 1 + 1 = 2
      BY DEF Ranks
    <2>7. Head(Line(p)[2]).do = Kind[2] /\ x.what = Head(Line(p)[2]).what /\ x.do = Kind[1]
      BY <1>1, <1>3, <1>7, <2>4
    <2>5. Comes(Line(p), Line(p)', 2, x, {}) /\ Keeps(Line(p), Line(p)')
      <3>1. \A q \in Ranks : q = 2 \/ q = 1 \/ Stays(Line(p)[q], Line(p)'[q], q, {})
        BY <1>13
      <3>2. 2 \in Ranks
        BY <1>3
      <3> QED
        BY <1>7, <2>3, <2>6, <2>7, <3>1, <3>2, PassMovesTo
    <2> QED
      BY <1>1, <1>4, <1>12, <2>5 DEF Keeps
  <1>16. /\ Line(p)[2] = <<job>> /\ job.do = "receive"
         /\ Comes(Line(p), Line(p)', 2, x, {})
         /\ received'[e] # received[e] => Keeps(Line(p), Line(p)')
         /\ \A m : InLine(Line(p), m) /\ m # job.what => InLine(Line(p)', m)
         /\ Comes(Line(e), Line(e)', 0, x, {})
         /\ Keeps(Line(e), Line(e)')
    BY <1>8, <1>14, <1>15
  <1> QED
    BY <1>16 DEF p

\* The io thread takes the next message from the socket.
LEMMA ReadMoves ==
  ASSUME ConnectionInv, InOrderPool, SocketInv, NEW e \in Ends,
         ReadSocket(e)
  PROVE  \E x :
         /\ Line(Peer(e))[8] # <<>> /\ Head(Line(Peer(e))[8]) = Head(stream[e])
         /\ x.sealed = Head(stream[e]).sealed /\ x.what = Head(stream[e]).what
         /\ Comes(Line(Peer(e)), Line(Peer(e))', 8, x, {})
         /\ ~closed[e] => Keeps(Line(Peer(e)), Line(Peer(e))')
         /\ Comes(Line(e), Line(e)', 0, x, {})
         /\ Keeps(Line(e), Line(e)')
  <1> DEFINE p == Peer(e)
             x == [Head(stream[e]) EXCEPT !.do = "decompress"]
  <1>1. /\ stream[e] # <<>> /\ Push(e, x) /\ UNCHANGED <<doing, received>>
        /\ stream' = [stream EXCEPT ![e] = Tail(@)]
        /\ stream \in [Ends -> Seq(JobT)] /\ Sorted(queue)
    BY DEF ReadSocket, traffic, ConnectionInv
  <1>2. Peer(p) = e /\ p # e /\ p \in Ends /\ p = Peer(e)
    BY PeerIsEnd, PeerOfPeer
  <1>3. /\ Head(stream[e]) \in JobT /\ Head(stream[e]) = stream[e][1] /\ 1 \in DOMAIN stream[e]
    BY <1>1, HeadTailProperties, LenProperties, EmptySeq
  <1>4. /\ Head(stream[e]).do = "send"
        /\ x \in JobT /\ x.do = "decompress" /\ x.what = Head(stream[e]).what
        /\ x.sealed = Head(stream[e]).sealed
    BY <1>3 DEF SocketInv, JobT, Dos
  <1> SUFFICES /\ Line(p)[8] # <<>> /\ Head(Line(p)[8]) = Head(stream[e])
               /\ x.sealed = Head(stream[e]).sealed /\ x.what = Head(stream[e]).what
               /\ Comes(Line(p), Line(p)', 8, x, {})
               /\ ~closed[e] => Keeps(Line(p), Line(p)')
               /\ Comes(Line(e), Line(e)', 0, x, {})
               /\ Keeps(Line(e), Line(e)')
    OBVIOUS
  <1> HIDE DEF p, x
  <1> USE <1>2
  <1>5. 8 \in Ranks \ {1} /\ 8 - 1 = 7 /\ Kind[8] = "send" /\ Kind[7] = "decompress"
        /\ 7 \in QueueRanks /\ Holder(p, 7) = e /\ Holder(e, 7) # e
    BY <1>2, KindIs DEF Ranks, QueueRanks, Holder
  <1>6. /\ Line(p)[8] = stream[e] /\ Line(p)'[8] = Tail(Line(p)[8])
        /\ Line(p)[8] # <<>> /\ Head(Line(p)[8]) = Head(stream[e])
        /\ Line(e)'[8] = Line(e)[8]
    <2>1. stream'[e] = Tail(stream[e]) /\ stream'[p] = stream[p]
      BY <1>1, <1>2
    <2> QED
      BY <1>1, <1>2, <2>1, LineIs, LineIsNext
  <1>7. \A g \in Ends : Line(g)'[1] = Line(g)[1] /\ \A q \in HandRanks : Line(g)'[q] = Line(g)[q]
    BY <1>1, EndsOfStep, HandsStayUnchanged, HandRanksStay
  <1>8. Line(e) \in Lines /\ Line(p) \in Lines
    BY LineTyped
  <1>9. \A q \in Ranks : q = 1 \/ q = 8 \/ q \in QueueRanks \/ q \in HandRanks
    BY HolderIs
  <1>10. CASE closed[e]
    <2>1. UNCHANGED queue
      BY <1>1, <1>4, <1>10, QueuedIs DEF Push
    <2>2. \A g \in Ends, q \in QueueRanks : Line(g)'[q] = Line(g)[q]
      BY <2>1, QueuesStay
    <2>3. /\ \A q \in Ranks \ {8} : Stays(Line(p)[q], Line(p)'[q], q, {})
          /\ \A q \in Ranks : Stays(Line(e)[q], Line(e)'[q], q, {})
      BY <1>6, <1>7, <1>9, <2>2 DEF Stays
    <2>4. Comes(Line(p), Line(p)', 8, x, {})
      BY <1>1, <1>5, <1>6, <1>8, <2>3, LoseMoves
    <2>5. Comes(Line(e), Line(e)', 0, x, {}) /\ Keeps(Line(e), Line(e)')
      BY <1>8, <2>3, StillMoves
    <2> QED
      BY <1>1, <1>4, <1>6, <1>10, <2>4, <2>5
  <1>11. CASE ~closed[e]
    <2>1. \A g \in Ends, q \in QueueRanks :
            IF Holder(g, q) = e /\ Kind[q] = x.do
            THEN Line(g)'[q] = Append(Line(g)[q], x)
            ELSE Stays(Line(g)[q], Line(g)'[q], q, {})
      BY <1>1, <1>4, <1>11, QueueGrows
    <2>2. Line(p)'[7] = Append(Line(p)[7], x)
      BY <1>4, <1>5, <2>1
    <2>3. /\ \A g \in Ends : \A q \in QueueRanks \ {7} : Stays(Line(g)[q], Line(g)'[q], q, {})
          /\ Stays(Line(e)[7], Line(e)'[7], 7, {})
      BY <1>4, <1>5, <2>1, KindsDiffer
    <2>4. \A q \in Ranks \ {8, 7} : Stays(Line(p)[q], Line(p)'[q], q, {})
      BY <1>7, <1>9, <2>3 DEF Stays
    <2>5. \A q \in Ranks : Stays(Line(e)[q], Line(e)'[q], q, {})
      BY <1>6, <1>7, <1>9, <2>3 DEF Stays
    <2>6. x \in LineT
      BY <1>4 DEF JobT, LineT
    <2>9. 7 \in Ranks /\ 7 + 1 = 8
      BY DEF Ranks
    <2>10. Head(Line(p)[8]).do = Kind[8] /\ x.what = Head(Line(p)[8]).what /\ x.do = Kind[7]
      BY <1>4, <1>5, <1>6
    <2>7. Comes(Line(p), Line(p)', 8, x, {}) /\ Keeps(Line(p), Line(p)')
      <3>1. \A q \in Ranks : q = 8 \/ q = 7 \/ Stays(Line(p)[q], Line(p)'[q], q, {})
        BY <2>4
      <3>2. 8 \in Ranks
        BY <1>5
      <3> QED
        BY <1>6, <1>8, <2>2, <2>6, <2>9, <2>10, <3>1, <3>2, PassMovesTo
    <2>8. Comes(Line(e), Line(e)', 0, x, {}) /\ Keeps(Line(e), Line(e)')
      BY <1>8, <2>5, StillMoves
    <2> QED
      BY <1>1, <1>4, <1>6, <2>7, <2>8
  <1> QED
    BY <1>10, <1>11

\* What a broken or closed connection holds is gone, or stays.
LEMMA EndMoves ==
  ASSUME ConnectionInv, InOrderPool, Break \/ \E e \in Ends : Close(e), NEW x
  PROVE  \A f \in Ends : Comes(Line(f), Line(f)', 0, x, {})
  <1>1. /\ UNCHANGED <<doing, received>>
        /\ \A e \in Ends : stream'[e] = stream[e] \/ stream'[e] = <<>>
        /\ \A e \in Ends, o \in Priorities : queue'[e][o] = queue[e][o] \/ queue'[e][o] = <<>>
    <2>1. CASE Break
      BY <2>1 DEF Break, traffic
    <2>2. CASE \E e \in Ends : Close(e)
      <3>1. PICK e \in Ends : Close(e)
        BY <2>2
      <3>2. /\ stream \in [Ends -> Seq(JobT)]
            /\ queue \in [Ends -> [Priorities -> Seq(JobT)]]
        BY DEF ConnectionInv, Sorted
      <3>3. /\ stream' = [stream EXCEPT ![e] = <<>>]
            /\ queue' = [queue EXCEPT ![e] = [o \in Priorities |-> <<>>]]
            /\ UNCHANGED <<doing, received>>
        BY <3>1 DEF Close, traffic
      <3> QED
        BY <3>2, <3>3
    <2> QED
      BY <2>1, <2>2
  <1> SUFFICES ASSUME NEW f \in Ends PROVE Comes(Line(f), Line(f)', 0, x, {})
    OBVIOUS
  <1>2. Line(f)'[1] = Line(f)[1] /\ \A q \in HandRanks : Line(f)'[q] = Line(f)[q]
    BY <1>1, EndsOfStep, HandsStayUnchanged, HandRanksStay
  <1>3. Line(f)'[8] = Line(f)[8] \/ Line(f)'[8] = <<>>
    BY <1>1, PeerIsEnd, LineIs, LineIsNext
  <1>4. \A q \in QueueRanks : Line(f)'[q] = Line(f)[q] \/ Line(f)'[q] = <<>>
    <2> SUFFICES ASSUME NEW q \in QueueRanks
                 PROVE  Line(f)'[q] = Line(f)[q] \/ Line(f)'[q] = <<>>
      OBVIOUS
    <2>1. Holder(f, q) \in Ends
      BY QueueOfRank, HolderIs
    <2> QED
      BY <1>1, <2>1, QueueOfRank
  <1>5. \A q \in Ranks : q = 1 \/ q = 8 \/ q \in QueueRanks \/ q \in HandRanks
    BY HolderIs
  <1>6. \A q \in Ranks : Line(f)'[q] = Line(f)[q] \/ Line(f)'[q] = <<>>
    BY <1>2, <1>3, <1>4, <1>5
  <1> QED
    BY <1>6, LineTyped, EmptyMoves

LEMMA QuietComes ==
  ASSUME ConnectionInv, InOrderPool, NEW e \in Ends, NEW H, LinesStay(e, H), NEW x
  PROVE  /\ Comes(Line(e), Line(e)', 0, x, H) /\ Keeps(Line(e), Line(e)')
         /\ Comes(Line(Peer(e)), Line(Peer(e))', 0, x, {})
         /\ Keeps(Line(Peer(e)), Line(Peer(e))')
  BY LineTyped, PeerIsEnd, StillMoves DEF LinesStay

-----------------------------------------------------------------------------
(* The files that are still to be sent.                                    *)

\* The jobs among which are the files an end has to send, first the one in hand.
Files(e) == Hand(e, Handler, "file") \o queue[e]["Low"]

\* What becomes of them with a step that sends no message and no file.
FilesMove(e) ==
  \/ Files(e)' = Files(e)
  \/ Files(e) # <<>> /\ Files(e)' = Tail(Files(e))
  \/ \E y \in LineT : y.do # "file" /\ Files(e)' = Append(Files(e), y)
  \/ Files(e)' = Hand(e, Handler, "file")

LEMMA OneThen ==
  ASSUME NEW S, NEW x \in S, NEW s \in Seq(S)
  PROVE  /\ <<x>> \o s \in Seq(S) /\ <<x>> \o s # <<>>
         /\ Head(<<x>> \o s) = x /\ Tail(<<x>> \o s) = s
  <1> DEFINE u == <<x>> \o s
  <1>1. /\ <<x>> \in Seq(S) /\ Len(<<x>>) = 1 /\ <<x>>[1] = x /\ Len(s) \in Nat
    BY LenProperties
  <1>2. /\ u \in Seq(S) /\ Len(u) = 1 + Len(s)
        /\ \A i \in 1 .. 1 + Len(s) : u[i] = IF i <= 1 THEN <<x>>[i] ELSE s[i - 1]
    BY <1>1, ConcatProperties
  <1> HIDE DEF u
  <1>3. u # <<>> /\ u[1] = x /\ \A i \in 1 .. Len(s) : u[i + 1] = s[i]
    BY <1>1, <1>2, EmptySeq
  <1>4. /\ Head(u) = x /\ Tail(u) \in Seq(S) /\ Len(Tail(u)) = Len(s)
        /\ \A i \in 1 .. Len(s) : Tail(u)[i] = u[i + 1]
    BY <1>1, <1>2, <1>3, HeadTailProperties
  <1>5. Tail(u) = s
    BY <1>3, <1>4, SeqEqual
  <1> QED
    BY <1>2, <1>3, <1>4, <1>5 DEF u

LEMMA HeadThenTail ==
  ASSUME NEW S, NEW s \in Seq(S), s # <<>>
  PROVE  <<Head(s)>> \o Tail(s) = s
  <1> DEFINE u == <<Head(s)>> \o Tail(s)
  <1>1. /\ Head(s) \in S /\ Tail(s) \in Seq(S) /\ Len(s) \in Nat \ {0}
        /\ Len(Tail(s)) = Len(s) - 1 /\ Head(s) = s[1]
        /\ \A i \in 1 .. Len(Tail(s)) : Tail(s)[i] = s[i + 1]
    BY HeadTailProperties, LenProperties, EmptySeq
  <1>2. <<Head(s)>> \in Seq(S) /\ Len(<<Head(s)>>) = 1 /\ <<Head(s)>>[1] = Head(s)
    BY <1>1
  <1>3. /\ u \in Seq(S) /\ Len(u) = 1 + Len(Tail(s))
        /\ \A i \in 1 .. 1 + Len(Tail(s)) :
             u[i] = IF i <= 1 THEN <<Head(s)>>[i] ELSE Tail(s)[i - 1]
    BY <1>1, <1>2, ConcatProperties
  <1> HIDE DEF u
  <1>4. ASSUME NEW i \in 1 .. Len(s) PROVE u[i] = s[i]
    <2>1. CASE i = 1
      BY <2>1, <1>1, <1>2, <1>3
    <2>2. CASE i # 1
      <3>1. i - 1 \in 1 .. Len(Tail(s)) /\ i \in 1 .. 1 + Len(Tail(s)) /\ ~(i <= 1)
        BY <2>2, <1>1
      <3>2. u[i] = Tail(s)[i - 1] /\ Tail(s)[i - 1] = s[i - 1 + 1] /\ i - 1 + 1 = i
        BY <3>1, <1>1, <1>3
      <3> QED
        BY <3>2
    <2> QED
      BY <2>1, <2>2
  <1>5. u = s
    BY <1>1, <1>3, <1>4, SeqEqual
  <1> QED
    BY <1>5 DEF u

LEMMA ThenAppend ==
  ASSUME NEW S, NEW t \in Seq(S), NEW s \in Seq(S), NEW x \in S
  PROVE  t \o Append(s, x) = Append(t \o s, x)
  <1> DEFINE u == t \o Append(s, x)
             v == Append(t \o s, x)
             a == Append(s, x)
             c == t \o s
  <1>1. /\ a \in Seq(S) /\ Len(a) = Len(s) + 1
        /\ \A i \in 1 .. Len(s) : a[i] = s[i]
        /\ a[Len(s) + 1] = x
        /\ Len(s) \in Nat /\ Len(t) \in Nat
    BY AppendProperties, LenProperties
  <1>2. /\ c \in Seq(S) /\ Len(c) = Len(t) + Len(s)
        /\ \A i \in 1 .. Len(t) + Len(s) : c[i] = IF i <= Len(t) THEN t[i] ELSE s[i - Len(t)]
    BY ConcatProperties
  <1> HIDE DEF a, c
  <1>3. /\ v \in Seq(S) /\ Len(v) = Len(c) + 1
        /\ \A i \in 1 .. Len(c) : v[i] = c[i]
        /\ v[Len(c) + 1] = x
    BY <1>2, AppendProperties DEF c
  <1>4. /\ u \in Seq(S) /\ Len(u) = Len(t) + Len(a)
        /\ \A i \in 1 .. Len(t) + Len(a) : u[i] = IF i <= Len(t) THEN t[i] ELSE a[i - Len(t)]
    BY <1>1, ConcatProperties DEF a
  <1> HIDE DEF u, v
  <1>5. ASSUME NEW i \in 1 .. Len(u) PROVE u[i] = v[i]
    <2>1. i \in 1 .. Len(t) + Len(s) + 1 /\ i \in 1 .. Len(t) + Len(a)
      BY <1>1, <1>4
    <2>2. CASE i <= Len(t)
      <3>1. i \in 1 .. Len(c) /\ i \in 1 .. Len(t) + Len(s)
        BY <1>1, <1>2, <2>1, <2>2
      <3>2. u[i] = t[i] /\ c[i] = t[i] /\ v[i] = c[i]
        BY <1>2, <1>3, <1>4, <2>1, <2>2, <3>1
      <3> QED
        BY <3>2
    <2>3. CASE ~(i <= Len(t)) /\ i # Len(t) + Len(s) + 1
      <3>1. i \in 1 .. Len(c) /\ i \in 1 .. Len(t) + Len(s) /\ i - Len(t) \in 1 .. Len(s)
        BY <1>1, <1>2, <2>1, <2>3
      <3>2. u[i] = a[i - Len(t)] /\ c[i] = s[i - Len(t)] /\ v[i] = c[i]
        BY <1>2, <1>3, <1>4, <2>1, <2>3, <3>1
      <3> QED
        BY <1>1, <3>1, <3>2
    <2>4. CASE i = Len(t) + Len(s) + 1
      <3>1. i - Len(t) = Len(s) + 1 /\ ~(i <= Len(t)) /\ i = Len(c) + 1
        BY <1>1, <1>2, <2>4
      <3>2. u[i] = a[i - Len(t)] /\ v[i] = x
        BY <1>3, <1>4, <2>1, <3>1
      <3> QED
        BY <1>1, <3>1, <3>2
    <2> QED
      BY <2>2, <2>3, <2>4
  <1>6. u = v
    <2>1. Len(u) = Len(v)
      BY <1>1, <1>2, <1>3, <1>4
    <2> QED
      BY <1>3, <1>4, <1>5, <2>1, SeqEqual
  <1> QED
    BY <1>6 DEF u, v, a, c

LEMMA FilesTyped ==
  ASSUME ConnectionInv, InOrderPool, NEW e \in Ends
  PROVE  /\ Files(e) \in Seq(LineT)
         /\ queue[e]["Low"] \in Seq(LineT)
         /\ Hand(e, Handler, "file") = <<>> => Files(e) = queue[e]["Low"]
         /\ At(e, Handler, "file", "work") =>
              /\ Hand(e, Handler, "file") = <<doing[e][Handler].job>>
              /\ doing[e][Handler].job \in LineT
         /\ ~At(e, Handler, "file", "work") => Hand(e, Handler, "file") = <<>>
  <1>1. queue[e]["Low"] \in Seq(LineT) /\ Hand(e, Handler, "file") \in Seq(LineT)
    <2>1. queue[e]["Low"] \in Seq(JobT)
      BY DEF ConnectionInv, Sorted, Priorities
    <2> QED
      BY <2>1, JobsAreItems, HandTyped, PoolIs
  <1>2. Files(e) \in Seq(LineT)
    BY <1>1, ConcatProperties DEF Files
  <1>3. Hand(e, Handler, "file") = <<>> => Files(e) = queue[e]["Low"]
    BY <1>1, ConcatEmptySeq DEF Files
  <1>4. At(e, Handler, "file", "work") =>
          /\ Hand(e, Handler, "file") = <<doing[e][Handler].job>>
          /\ doing[e][Handler].job \in LineT
    BY PoolIs DEF Hand, At, ConnectionInv, WorkInv, JobT, LineT
  <1> QED
    BY <1>1, <1>2, <1>3, <1>4 DEF Hand

LEMMA LowStays ==
  ASSUME ConnectionInv,
         \/ UNCHANGED queue \/ Refuse
         \/ \E e \in Ends : \E job \in JobT : Push(e, job) /\ PriorityOf(job.do) # "Low"
  PROVE  \A f \in Ends : queue'[f]["Low"] = queue[f]["Low"]
  <1>1. Sorted(queue) /\ "Low" \in Priorities /\ "Low" # "High" /\ "Low" # "Normal"
    BY DEF ConnectionInv, Priorities
  <1>2. CASE UNCHANGED queue
    BY <1>2
  <1>3. CASE \E e \in Ends : \E job \in JobT : Push(e, job) /\ PriorityOf(job.do) # "Low"
    <2>1. PICK e \in Ends : \E job \in JobT : Push(e, job) /\ PriorityOf(job.do) # "Low"
      BY <1>3
    <2>2. PICK job \in JobT : Push(e, job) /\ PriorityOf(job.do) # "Low"
      BY <2>1
    <2>3. \A f \in Ends : f = e \/ f \in Ends \ {e}
      OBVIOUS
    <2> QED
      BY <1>1, <2>2, <2>3, QueuedIs DEF Push
  <1>4. CASE Refuse
    <2> DEFINE a == Job("notify", FALSE, FALSE)
               r == Queued(queue, "session", a)
    <2>1. a \in JobT /\ "session" \in Ends /\ "refused" \in Content /\ a.do = "notify"
      BY JobHasType, ContentHas DEF Dos, Handshake, Ends, Job
    <2>2. SendJob("refused") \in JobT /\ SendJob("refused").do = "compress"
          /\ queue' = Queued(r, "session", SendJob("refused"))
      BY <1>4, <2>1, SendIsQueued DEF Refuse, SendJob, Handshake, Job
    <2>3. Sorted(r)
      BY <1>1, <2>1, QueuedIsSorted
    <2> HIDE DEF a
    <2>4. \A f \in Ends : r[f]["Low"] = queue[f]["Low"]
      <3>1. \A f \in Ends : f = "session" \/ f \in Ends \ {"session"}
        OBVIOUS
      <3> QED
        BY <1>1, <2>1, <3>1, QueuedIs, PrioritiesAre
    <2> DEFINE b == SendJob("refused")
    <2>5. b \in JobT /\ PriorityOf(b.do) = "High" /\ queue' = Queued(r, "session", b)
      BY <2>2, PrioritiesAre
    <2> HIDE DEF r, b
    <2>6. /\ \A f \in Ends \ {"session"} : Queued(r, "session", b)[f] = r[f]
          /\ \A o \in Priorities \ {PriorityOf(b.do)} :
               Queued(r, "session", b)["session"][o] = r["session"][o]
      BY <2>1, <2>3, <2>5, QueuedIs
    <2>7. \A f \in Ends : queue'[f]["Low"] = r[f]["Low"]
      <3>1. \A f \in Ends : f = "session" \/ f \in Ends \ {"session"}
        OBVIOUS
      <3> QED
        BY <1>1, <2>5, <2>6, <3>1
    <2> QED
      BY <2>4, <2>7
  <1> QED
    BY <1>2, <1>3, <1>4

\* A worker that has begun a job is done with it, or goes on as a receiver.
LEMMA WorkerGoesOn ==
  ASSUME ConnectionInv, NEW e \in Ends, NEW w \in Workers, Work(e, w), ~Take(e, w)
  PROVE  /\ OthersGoOn(e, w)
         /\ doing[e][w].step # "idle"
         /\ doing'[e][w].step # "work"
         /\ Done(e, w) \/ (doing[e][w].job.do = "receive"
                             /\ \E step \in Steps \ {"idle", "work"} : Goes(e, w, step))
  <1>1. /\ doing[e][w].step # "idle"
        /\ \/ Done(e, w)
           \/ /\ \E step \in Steps \ {"idle", "work"} : Goes(e, w, step)
              /\ doing[e][w].step = "work" => doing[e][w].job.do = "receive"
    <2>1. CASE Stage(e, w) \/ SendFile(e, w) \/ WriteSocket(e, w) \/ Notify(e, w)
      BY <2>1 DEF Stage, SendFile, WriteSocket, Notify, At
    <2>2. CASE ReceiveData(e, w) \/ ReceiveHandshake(e, w) \/ WorkerExpires(e, w)
      BY <2>2 DEF ReceiveData, ReceiveHandshake, WorkerExpires, At, Steps
    <2>3. CASE e = "session" /\ (SessionConfirms(w) \/ SessionRefuses(w)
                                 \/ SessionNotifies(w) \/ SessionReplies(w))
      BY <2>3 DEF SessionConfirms, SessionRefuses, SessionNotifies, SessionReplies, At, Steps
    <2>4. CASE e = "client" /\ (ClientTakesKey(w) \/ ClientConfirms(w))
      BY <2>4 DEF ClientTakesKey, ClientConfirms, At, Steps
    <2> QED
      BY <2>1, <2>2, <2>3, <2>4 DEF Work
  <1>2. doing[e][w].step # "work" => doing[e][w].job.do = "receive"
    BY <1>1 DEF ConnectionInv, WorkInv
  <1>3. CASE Done(e, w)
    BY <1>1, <1>3, DoneHand DEF OthersGoOn
  <1>4. CASE doing[e][w].job.do = "receive"
             /\ \E step \in Steps \ {"idle", "work"} : Goes(e, w, step)
    BY <1>1, <1>4, GoesHand DEF OthersGoOn
  <1> QED
    BY <1>1, <1>2, <1>3, <1>4

LEMMA HandFileStays ==
  ASSUME NEW e \in Ends, NEW w \in Workers, InOrderPool, OthersGoOn(e, w),
         doing[e][w].step # "work" \/ doing[e][w].job.do # "file",
         doing'[e][w].step # "work"
  PROVE  \A f \in Ends : Hand(f, Handler, "file")' = Hand(f, Handler, "file")
  <1> SUFFICES ASSUME NEW f \in Ends
               PROVE  Hand(f, Handler, "file")' = Hand(f, Handler, "file")
    OBVIOUS
  <1>1. CASE f # e \/ Handler # w
    <2>1. doing'[f][Handler] = doing[f][Handler]
      BY <1>1, PoolIs DEF OthersGoOn
    <2> QED
      BY <2>1, HandIs
  <1>2. CASE f = e /\ Handler = w
    <2>1. Hand(e, w, "file") = <<>> /\ Hand(e, w, "file")' = <<>>
      BY HandIs
    <2> QED
      BY <1>2, <2>1
  <1> QED
    BY <1>1, <1>2

LEMMA FilesStay ==
  ASSUME NEW f, Hand(f, Handler, "file")' = Hand(f, Handler, "file"),
         queue'[f]["Low"] = queue[f]["Low"]
  PROVE  FilesMove(f)
  BY DEF FilesMove, Files

LEMMA FilesTaken ==
  ASSUME ConnectionInv, InOrderPool, NEW e \in Ends, NEW w \in Workers, Take(e, w),
         NEW f \in Ends
  PROVE  FilesMove(f)
  <1>1. PICK i \in Waiting(e, w) :
          /\ doing' = [doing EXCEPT ![e][w] = [job |-> Head(queue[e][Serves[w][i]]),
                                                step |-> "work"]]
          /\ queue' = [queue EXCEPT ![e][Serves[w][i]] = Tail(@)]
    BY DEF Take
  <1> DEFINE o == Serves[w][i]
             job == Head(queue[e][o])
  <1>2. /\ queue[e][o] # <<>> /\ o \in Range(Serves[w]) /\ o \in Priorities
    <2>1. Serves[w] \in Seq(Priorities) /\ i \in 1 .. Len(Serves[w]) /\ queue[e][o] # <<>>
      BY ConnectionAssumption DEF Waiting
    <2> QED
      BY <2>1, ElementOfSeq, LenProperties DEF Range
  <1>3. doing[e][w] = Idle /\ OthersGoOn(e, w)
    BY TakeHand DEF OthersGoOn
  <1>4. /\ queue \in [Ends -> [Priorities -> Seq(JobT)]]
        /\ doing \in [Ends -> [Workers -> [job : JobT \cup {None}, step : Steps]]]
    BY DEF ConnectionInv, Sorted, WorkInv
  <1>5. /\ queue'[e][o] = Tail(queue[e][o])
        /\ \A n \in Priorities \ {o} : queue'[e][n] = queue[e][n]
        /\ \A g \in Ends \ {e} : queue'[g] = queue[g]
        /\ doing'[e][w].job = job /\ doing'[e][w].step = "work"
    BY <1>1, <1>2, <1>4
  <1>6. PriorityOf(job.do) = o /\ job \in LineT
    <2>1. queue[e][o] \in Seq(JobT) /\ job = queue[e][o][1] /\ Len(queue[e][o]) > 0
          /\ job \in JobT
      BY <1>2, <1>4, HeadTailProperties, EmptySeq
    <2>2. job \in LineT
      BY <2>1 DEF JobT, LineT
    <2>3. \A k \in 1 .. Len(queue[e][o]) : PriorityOf(queue[e][o][k].do) = o
      BY <1>2 DEF ConnectionInv, Sorted
    <2>4. 1 \in 1 .. Len(queue[e][o])
      BY <2>1, LenProperties
    <2> HIDE DEF o, job
    <2> QED
      BY <2>1, <2>2, <2>3, <2>4
  <1> HIDE DEF o, job
  <1>7. "Low" \in Priorities /\ Handler \in Workers
    BY PoolIs DEF Priorities
  <1>8. CASE f # e
    <2>1. doing'[f][Handler] = doing[f][Handler] /\ queue'[f] = queue[f]
      BY <1>3, <1>5, <1>7, <1>8 DEF OthersGoOn
    <2> QED
      BY <2>1, HandIs, FilesStay
  <1>9. CASE f = e /\ w # Handler
    <2>1. o = "Top"
      BY <1>2, <1>9, PoolIs
    <2>2. doing'[f][Handler] = doing[f][Handler] /\ queue'[f]["Low"] = queue[f]["Low"]
      BY <1>3, <1>5, <1>7, <1>9, <2>1 DEF OthersGoOn
    <2> QED
      BY <2>2, HandIs, FilesStay
  <1>10. CASE f = e /\ w = Handler
    <2>1. doing[e][Handler].step # "work" /\ Hand(e, Handler, "file") = <<>>
      BY <1>3, <1>10, HandIs DEF Idle
    <2>2. Hand(e, Handler, "file")' = IF job.do = "file" THEN <<job>> ELSE <<>>
      BY <1>5, <1>10, HandIs
    <2>3. CASE o # "Low"
      <3>1. job.do # "file"
        BY <1>6, <2>3, PrioritiesAre
      <3>2. queue'[f]["Low"] = queue[f]["Low"]
        BY <1>5, <1>7, <1>10, <2>3
      <3> QED
        BY <1>10, <2>1, <2>2, <3>1, <3>2, FilesStay
    <2>4. CASE o = "Low"
      <3>1. /\ Files(e) = queue[e]["Low"] /\ queue[e]["Low"] \in Seq(LineT)
            /\ queue[e]["Low"] # <<>> /\ job = Head(queue[e]["Low"])
        BY <1>2, <2>1, <2>4, FilesTyped DEF job
      <3>2. queue'[e]["Low"] = Tail(queue[e]["Low"])
        BY <1>5, <2>4
      <3>3. Files(e)' = (Hand(e, Handler, "file")') \o queue'[e]["Low"]
        BY DEF Files
      <3>4. CASE job.do = "file"
        <4>1. Files(e)' = <<Head(queue[e]["Low"])>> \o Tail(queue[e]["Low"])
          BY <2>2, <3>1, <3>2, <3>3, <3>4
        <4>2. Files(e)' = Files(e)
          BY <3>1, <4>1, HeadThenTail
        <4> QED
          BY <4>2, <1>10 DEF FilesMove
      <3>5. CASE job.do # "file"
        <4>1. Files(e)' = <<>> \o Tail(queue[e]["Low"])
          BY <2>2, <3>2, <3>3, <3>5
        <4>2. Files(e)' = Tail(Files(e)) /\ Files(e) # <<>>
          BY <3>1, <4>1, HeadTailProperties, ConcatEmptySeq
        <4> QED
          BY <4>2, <1>10 DEF FilesMove
      <3> QED
        BY <3>4, <3>5
    <2> QED
      BY <2>3, <2>4
  <1> QED
    BY <1>8, <1>9, <1>10

-----------------------------------------------------------------------------
(* The files owed are of messages that were sent, each once.               *)

\* The files F an end has to send are files of messages it has sent, each once,
\* and none is sent yet.
FilesOwed(F, s, M) ==
  /\ IsInjective(s)
  /\ \A m \in Range(s) :
       m \in M \/ \E n \in Range(s) \cap DOMAIN FileOf : m = FileOf[n]
  /\ \A i \in DOMAIN F : F[i].do = "file" =>
       /\ F[i].what \notin Range(s)
       /\ \E n \in Range(s) \cap DOMAIN FileOf : F[i].what = FileOf[n]
  /\ \A i, j \in DOMAIN F :
       F[i].do = "file" /\ F[j].do = "file" /\ F[i].what = F[j].what => i = j

FilesInv(e) == FilesOwed(Files(e), sent[e], Messages[e])

\* The places of the files that remain.
LEMMA FewerOwed ==
  ASSUME NEW F, NEW G, NEW s, NEW M, FilesOwed(F, s, M), NEW d \in Nat,
         \A i \in DOMAIN G : i \in Nat,
         \A i \in DOMAIN G : G[i].do = "file" => i + d \in DOMAIN F /\ G[i] = F[i + d]
  PROVE  FilesOwed(G, s, M)
  <1>1. \A i, j \in DOMAIN G : i + d = j + d => i = j
    OBVIOUS
  <1>2. \A i \in DOMAIN G : G[i].do = "file" =>
          /\ G[i].what \notin Range(s)
          /\ \E n \in Range(s) \cap DOMAIN FileOf : G[i].what = FileOf[n]
    BY DEF FilesOwed
  <1>3. ASSUME NEW i \in DOMAIN G, NEW j \in DOMAIN G,
               G[i].do = "file", G[j].do = "file", G[i].what = G[j].what
        PROVE  i = j
    <2>1. /\ i + d \in DOMAIN F /\ j + d \in DOMAIN F
          /\ F[i + d].do = "file" /\ F[j + d].do = "file"
          /\ F[i + d].what = F[j + d].what
      BY <1>3
    <2>2. i + d = j + d
      BY <2>1 DEF FilesOwed
    <2> QED
      BY <1>1, <2>2
  <1> QED
    BY <1>2, <1>3 DEF FilesOwed

LEMMA TailOwed ==
  ASSUME NEW F \in Seq(LineT), F # <<>>, NEW s, NEW M, FilesOwed(F, s, M)
  PROVE  FilesOwed(Tail(F), s, M)
  <1> DEFINE G == Tail(F)
  <1>1. /\ \A i \in DOMAIN G : i \in Nat
        /\ \A i \in DOMAIN G : i + 1 \in DOMAIN F /\ G[i] = F[i + 1]
    BY HeadTailProperties, LenProperties, EmptySeq
  <1> HIDE DEF G
  <1>2. FilesOwed(G, s, M)
    BY <1>1, FewerOwed, 1 \in Nat
  <1> QED
    BY <1>2 DEF G

LEMMA AppendOwed ==
  ASSUME NEW F \in Seq(LineT), NEW y \in LineT, y.do # "file",
         NEW s, NEW M, FilesOwed(F, s, M)
  PROVE  FilesOwed(Append(F, y), s, M)
  <1> DEFINE G == Append(F, y)
  <1>0. /\ Len(F) \in Nat /\ DOMAIN F = 1 .. Len(F) /\ DOMAIN G = 1 .. Len(F) + 1
        /\ \A i \in 1 .. Len(F) : G[i] = F[i]
        /\ G[Len(F) + 1] = y
    BY AppendProperties, LenProperties
  <1> HIDE DEF G
  <1>1. /\ \A i \in DOMAIN G : i \in Nat
        /\ \A i \in DOMAIN G : G[i].do = "file" => i + 0 \in DOMAIN F /\ G[i] = F[i + 0]
    <2>1. \A i \in DOMAIN G : i \in Nat /\ i + 0 = i
      BY <1>0
    <2>2. \A i \in DOMAIN G : i # Len(F) + 1 => i \in DOMAIN F
      BY <1>0
    <2> QED
      BY <1>0, <2>1, <2>2
  <1>2. FilesOwed(G, s, M)
    BY <1>1, FewerOwed, 0 \in Nat
  <1> QED
    BY <1>2 DEF G

\* A step that sends nothing leaves the files owed.
LEMMA MoveOwed ==
  ASSUME ConnectionInv, InOrderPool, NEW e \in Ends, FilesInv(e),
         FilesMove(e), sent'[e] = sent[e]
  PROVE  FilesInv(e)'
  <1>1. Files(e) \in Seq(LineT)
    BY FilesTyped
  <1>2. FilesOwed(Files(e), sent[e], Messages[e])
    BY DEF FilesInv
  <1>3. CASE Files(e)' = Files(e)
    BY <1>2, <1>3 DEF FilesInv
  <1>4. CASE Files(e) # <<>> /\ Files(e)' = Tail(Files(e))
    <2>1. FilesOwed(Tail(Files(e)), sent[e], Messages[e])
      BY <1>1, <1>2, <1>4, TailOwed
    <2> QED
      BY <1>4, <2>1 DEF FilesInv
  <1>5. CASE \E y \in LineT : y.do # "file" /\ Files(e)' = Append(Files(e), y)
    <2>1. PICK y \in LineT : y.do # "file" /\ Files(e)' = Append(Files(e), y)
      BY <1>5
    <2>2. FilesOwed(Append(Files(e), y), sent[e], Messages[e])
      BY <1>1, <1>2, <2>1, AppendOwed
    <2> QED
      BY <2>1, <2>2 DEF FilesInv
  <1>6. CASE Files(e)' = Hand(e, Handler, "file")
    <2> DEFINE h == Hand(e, Handler, "file")
    <2>1. CASE At(e, Handler, "file", "work")
      <3> DEFINE x == doing[e][Handler].job
      <3>1. h = <<x>> /\ x \in LineT /\ queue[e]["Low"] \in Seq(LineT)
        BY <2>1, FilesTyped
      <3>2. Files(e) = <<x>> \o queue[e]["Low"]
        BY <3>1 DEF Files
      <3> HIDE DEF x, h
      <3>3. Files(e) # <<>> /\ Head(Files(e)) = x
        BY <3>1, <3>2, OneThen
      <3>4. 1 \in DOMAIN Files(e) /\ Files(e)[1] = x
        BY <1>1, <3>3, HeadTailProperties, LenProperties, EmptySeq
      <3>5. \A i \in DOMAIN h : i \in Nat /\ i + 0 \in DOMAIN Files(e) /\ h[i] = Files(e)[i + 0]
        <4>1. DOMAIN h = {1} /\ h[1] = x
          BY <3>1
        <4>2. 1 + 0 = 1
          OBVIOUS
        <4> QED
          BY <3>4, <4>1, <4>2
      <3>6. FilesOwed(h, sent[e], Messages[e])
        BY <1>2, <3>5, FewerOwed, 0 \in Nat
      <3> QED
        BY <1>6, <3>6 DEF FilesInv, h
    <2>2. CASE ~At(e, Handler, "file", "work")
      <3>1. h = <<>>
        BY <2>2, FilesTyped
      <3>2. DOMAIN h = {}
        BY <3>1
      <3> HIDE DEF h
      <3>3. FilesOwed(h, sent[e], Messages[e])
        BY <1>2, <3>2, FewerOwed, 0 \in Nat
      <3> QED
        BY <1>6, <3>3 DEF FilesInv, h
    <2> QED
      BY <2>1, <2>2
  <1> QED
    BY <1>3, <1>4, <1>5, <1>6 DEF FilesMove

\* A message is accepted, and with it its file.
LEMMA AcceptOwed ==
  ASSUME NEW F \in Seq(LineT), NEW S, NEW s \in Seq(S), NEW e \in Ends,
         NEW m \in Messages[e] \cap S, m \notin Range(s),
         FilesOwed(F, s, Messages[e]),
         NEW G,
         \/ G = F
         \/ /\ m \in DOMAIN FileOf
            /\ Job("file", FileOf[m], FALSE) \in LineT
            /\ G = Append(F, Job("file", FileOf[m], FALSE))
  PROVE  FilesOwed(G, Append(s, m), Messages[e])
  <1> DEFINE u == Append(s, m)
             y == Job("file", FileOf[m], FALSE)
  <1>1. Range(u) = Range(s) \cup {m}
    BY RangeOfAppend
  <1>2. /\ DOMAIN s = 1 .. Len(s) /\ Len(s) \in Nat /\ DOMAIN u = 1 .. Len(s) + 1
        /\ \A a \in 1 .. Len(s) : u[a] = s[a]
        /\ u[Len(s) + 1] = m
    BY AppendProperties, LenProperties
  <1> HIDE DEF u
  <1>3. IsInjective(u)
    <2>1. \A a \in DOMAIN u : u[a] = m => a = Len(s) + 1
      BY <1>2 DEF Range
    <2>2. \A a \in DOMAIN u : u[a] # m => a \in DOMAIN s /\ u[a] = s[a]
      BY <1>2
    <2> QED
      BY <2>1, <2>2 DEF IsInjective, FilesOwed
  <1>4. \A n \in DOMAIN FileOf : FileOf[n] \notin Messages[e]
    BY ConnectionAssumption
  <1>5. m \in DOMAIN FileOf =>
          /\ FileOf[m] \notin Range(u)
          /\ \A i \in DOMAIN F : F[i].do = "file" => F[i].what # FileOf[m]
    BY <1>1, <1>4, ConnectionAssumption DEF FilesOwed
  <1>6. \A i \in DOMAIN F : F[i].do = "file" =>
          /\ F[i].what \notin Range(u)
          /\ \E n \in Range(u) \cap DOMAIN FileOf : F[i].what = FileOf[n]
    BY <1>1, <1>4 DEF FilesOwed
  <1>7. FilesOwed(F, u, Messages[e])
    BY <1>1, <1>3, <1>6 DEF FilesOwed
  <1>8. CASE m \in DOMAIN FileOf /\ y \in LineT /\ G = Append(F, y)
    <2>1. y.do = "file" /\ y.what = FileOf[m]
      BY DEF Job
    <2> HIDE DEF y
    <2>2. /\ Len(F) \in Nat /\ DOMAIN F = 1 .. Len(F) /\ DOMAIN G = 1 .. Len(F) + 1
          /\ \A i \in 1 .. Len(F) : G[i] = F[i]
          /\ G[Len(F) + 1] = y
      BY <1>8, AppendProperties, LenProperties
    <2>3. \A i \in DOMAIN G : \/ i = Len(F) + 1 /\ G[i] = y
                              \/ i \in DOMAIN F /\ G[i] = F[i]
      BY <2>2
    <2>4. \A i \in DOMAIN G : G[i].do = "file" =>
            /\ G[i].what \notin Range(u)
            /\ \E n \in Range(u) \cap DOMAIN FileOf : G[i].what = FileOf[n]
      BY <1>1, <1>5, <1>6, <1>8, <2>1, <2>3
    <2>5. \A i, j \in DOMAIN G :
            G[i].do = "file" /\ G[j].do = "file" /\ G[i].what = G[j].what => i = j
      <3> SUFFICES ASSUME NEW i \in DOMAIN G, NEW j \in DOMAIN G,
                          G[i].do = "file", G[j].do = "file", G[i].what = G[j].what
                   PROVE  i = j
        OBVIOUS
      <3>1. CASE i \in DOMAIN F /\ G[i] = F[i] /\ j \in DOMAIN F /\ G[j] = F[j]
        BY <3>1 DEF FilesOwed
      <3>2. CASE i = Len(F) + 1 /\ G[i] = y
        BY <1>5, <1>8, <2>1, <2>3, <3>2
      <3>3. CASE j = Len(F) + 1 /\ G[j] = y
        BY <1>5, <1>8, <2>1, <2>3, <3>3
      <3> QED
        BY <2>3, <3>1, <3>2, <3>3
    <2> QED
      BY <1>7, <2>4, <2>5 DEF FilesOwed, u
  <1> QED
    BY <1>7, <1>8 DEF u

\* The first of the files owed is sent.
LEMMA SendOwed ==
  ASSUME NEW F \in Seq(LineT), NEW S, NEW s \in Seq(S), NEW M, FilesOwed(F, s, M),
         F # <<>>, Head(F).do = "file", NEW m \in S, m = Head(F).what
  PROVE  /\ m \notin Range(s)
         /\ \E n \in DOMAIN FileOf : m = FileOf[n]
         /\ FilesOwed(Tail(F), Append(s, m), M)
  <1> DEFINE u == Append(s, m)
             G == Tail(F)
  <1>1. Range(u) = Range(s) \cup {m}
    BY RangeOfAppend
  <1>2. /\ DOMAIN s = 1 .. Len(s) /\ Len(s) \in Nat /\ DOMAIN u = 1 .. Len(s) + 1
        /\ \A a \in 1 .. Len(s) : u[a] = s[a]
        /\ u[Len(s) + 1] = m
    BY AppendProperties, LenProperties
  <1>3. 1 \in DOMAIN F /\ F[1].do = "file" /\ F[1].what = m
    BY HeadTailProperties, LenProperties, EmptySeq
  <1>4. /\ m \notin Range(s)
        /\ \E n \in Range(s) \cap DOMAIN FileOf : m = FileOf[n]
    BY <1>3 DEF FilesOwed
  <1>5. \A i \in DOMAIN G : i \in Nat /\ i + 1 \in DOMAIN F /\ G[i] = F[i + 1] /\ i + 1 # 1
    BY HeadTailProperties, LenProperties, EmptySeq
  <1>6. FilesOwed(G, s, M)
    BY TailOwed
  <1> HIDE DEF u, G
  <1>7. \A i \in DOMAIN G : G[i].do = "file" => G[i].what # m
    BY <1>3, <1>5 DEF FilesOwed
  <1>8. IsInjective(u)
    <2>1. \A a \in DOMAIN u : u[a] = m => a = Len(s) + 1
      BY <1>2, <1>4 DEF Range
    <2>2. \A a \in DOMAIN u : u[a] # m => a \in DOMAIN s /\ u[a] = s[a]
      BY <1>2
    <2> QED
      BY <2>1, <2>2 DEF IsInjective, FilesOwed
  <1>9. FilesOwed(G, u, M)
    <2>1. \A i \in DOMAIN G : G[i].do = "file" =>
            /\ G[i].what \notin Range(u)
            /\ \E n \in Range(u) \cap DOMAIN FileOf : G[i].what = FileOf[n]
      BY <1>1, <1>6, <1>7 DEF FilesOwed
    <2>2. \A k \in Range(u) :
            k \in M \/ \E n \in Range(u) \cap DOMAIN FileOf : k = FileOf[n]
      BY <1>1, <1>4, <1>6 DEF FilesOwed
    <2> QED
      BY <1>6, <1>8, <2>1, <2>2 DEF FilesOwed
  <1> QED
    BY <1>4, <1>9 DEF u, G

-----------------------------------------------------------------------------
(* Each step leaves the files owed.                                        *)

\* What a step of the worker w of e puts into the queues, if it takes no job and
\* sends none.
WorkPuts(e) ==
  \/ UNCHANGED queue \/ Refuse
  \/ \E f \in Ends : \E job \in JobT : Push(f, job) /\ PriorityOf(job.do) # "Low"

LEMMA WorkerPuts ==
  ASSUME ConnectionInv, NEW e \in Ends, NEW w \in Workers, Work(e, w), ~Take(e, w),
         ~SendFile(e, w)
  PROVE  /\ WorkPuts(e)
         /\ doing[e][w].step # "work" \/ doing[e][w].job.do # "file"
  <1>1. CASE Stage(e, w)
    <2> DEFINE job == doing[e][w].job
    <2>1. /\ doing[e][w].step = "work" /\ job \in JobT /\ job.do \in Staged
          /\ NextJob(e, job) \in JobT
          /\ PriorityOf(NextJob(e, job).do) # "Low"
      <3>1. job.do \in Staged /\ doing[e][w].step = "work"
        BY <1>1 DEF Stage, Staged
      <3>2. job \in JobT
        BY <3>1 DEF ConnectionInv, WorkInv
      <3> HIDE DEF job
      <3>3. job.what \in Content /\ job.sealed \in BOOLEAN /\ cipher[e] \in BOOLEAN
        BY <3>2 DEF JobT, ConnectionInv
      <3>4. NextJob(e, job) \in JobT /\ NextJob(e, job).do \in {"compress", "send", "decrypt", "receive"}
        BY <3>1, <3>3 DEF NextJob, Job, JobT, Dos, Staged
      <3> QED
        BY <3>1, <3>2, <3>4, PrioritiesAre DEF job
    <2>2. UNCHANGED queue \/ Push(e, NextJob(e, job))
      BY <1>1, <2>1 DEF Stage, NextJob, Staged
    <2>3. job.do # "file"
      BY <2>1 DEF Staged
    <2> QED
      BY <2>1, <2>2, <2>3 DEF WorkPuts
  <1>2. CASE WriteSocket(e, w) \/ ReceiveData(e, w) \/ ReceiveHandshake(e, w) \/ Notify(e, w)
    BY <1>2 DEF WriteSocket, ReceiveData, ReceiveHandshake, Notify, At, WorkPuts
  <1>3. CASE WorkerExpires(e, w)
    BY <1>3 DEF WorkerExpires, Expire, WorkPuts
  <1>4. CASE e = "session" /\ (SessionConfirms(w) \/ SessionRefuses(w))
    BY <1>4 DEF SessionConfirms, SessionRefuses, At, WorkPuts
  <1>5. CASE \/ e = "session" /\ SessionNotifies(w)
             \/ e = "client" /\ (ClientConfirms(w) \/ ClientTakesKey(w))
    <2>1. Job("notify", TRUE, FALSE) \in JobT /\ Job("notify", TRUE, FALSE).do = "notify"
      BY JobHasType, ContentHas DEF Dos, Job
    <2>2. UNCHANGED queue \/ Push(e, Job("notify", TRUE, FALSE))
      BY <1>5 DEF SessionNotifies, ClientConfirms, ClientTakesKey
    <2>3. doing[e][w].step # "work"
      BY <1>5 DEF SessionNotifies, ClientConfirms, ClientTakesKey, At
    <2> QED
      BY <2>1, <2>2, <2>3, PrioritiesAre DEF WorkPuts
  <1>6. CASE e = "session" /\ SessionReplies(w)
    <2>1. SendJob("accepted") \in JobT /\ SendJob("accepted").do = "compress"
          /\ Push("session", SendJob("accepted"))
      BY <1>6, SendIsQueued, ContentHas DEF Ends, SessionReplies, Push, SendJob, Handshake, Job
    <2>2. doing[e][w].step # "work"
      BY <1>6 DEF SessionReplies, At
    <2> QED
      BY <1>6, <2>1, <2>2, PrioritiesAre DEF WorkPuts
  <1> QED
    BY <1>1, <1>2, <1>3, <1>4, <1>5, <1>6 DEF Work

LEMMA WorkFiles ==
  ASSUME ConnectionInv, InOrderPool, NEW e \in Ends, NEW w \in Workers, Work(e, w),
         ~SendFile(e, w)
  PROVE  \A f \in Ends : FilesMove(f)
  <1>1. CASE Take(e, w)
    BY <1>1, FilesTaken
  <1>2. CASE ~Take(e, w)
    <2>1. /\ WorkPuts(e)
          /\ doing[e][w].step # "work" \/ doing[e][w].job.do # "file"
      BY <1>2, WorkerPuts
    <2>2. OthersGoOn(e, w) /\ doing'[e][w].step # "work"
      BY <1>2, WorkerGoesOn
    <2>3. \A f \in Ends : Hand(f, Handler, "file")' = Hand(f, Handler, "file")
      BY <2>1, <2>2, HandFileStays
    <2>4. \A f \in Ends : queue'[f]["Low"] = queue[f]["Low"]
      BY <2>1, LowStays DEF WorkPuts
    <2> QED
      BY <2>3, <2>4, FilesStay
  <1> QED
    BY <1>1, <1>2

LEMMA OtherFiles ==
  ASSUME ConnectionInv, InOrderPool,
         \/ ClientStarts \/ SessionStarts \/ ClientStops \/ Break
         \/ \E e \in Ends : ReadFails(e) \/ ReaderExpires(e)
  PROVE  \A f \in Ends : FilesMove(f)
  <1>1. UNCHANGED doing
    BY DEF ClientStarts, SessionStarts, ClientStops, Break, ReadFails, ReaderExpires
  <1>2. \/ UNCHANGED queue \/ Refuse
        \/ \E e \in Ends : \E job \in JobT : Push(e, job) /\ PriorityOf(job.do) # "Low"
    <2>1. CASE ClientStarts
      <3>1. SendJob("request") \in JobT /\ SendJob("request").do = "compress"
            /\ Push("client", SendJob("request"))
        BY <2>1, SendIsQueued, ContentHas DEF Ends, ClientStarts, Push, SendJob, Handshake, Job
      <3> QED
        BY <3>1, PrioritiesAre DEF Ends
    <2>2. CASE SessionStarts \/ ClientStops \/ Break \/ \E e \in Ends : ReadFails(e)
      BY <2>2 DEF SessionStarts, ClientStops, Break, ReadFails, Expire
    <2>3. CASE \E e \in Ends : ReaderExpires(e)
      BY <2>3 DEF ReaderExpires, Expire
    <2> QED
      BY <2>1, <2>2, <2>3
  <1>3. \A f \in Ends : queue'[f]["Low"] = queue[f]["Low"]
    BY <1>2, LowStays
  <1>4. \A f \in Ends : Hand(f, Handler, "file")' = Hand(f, Handler, "file")
    BY <1>1 DEF Hand, At
  <1> QED
    BY <1>3, <1>4, FilesStay

LEMMA ReadFiles ==
  ASSUME ConnectionInv, InOrderPool, NEW e \in Ends, ReadSocket(e), NEW f \in Ends
  PROVE  FilesMove(f)
  <1> DEFINE job == [Head(stream[e]) EXCEPT !.do = "decompress"]
  <1>1. job \in JobT /\ job.do = "decompress"
    <2>1. Head(stream[e]) \in JobT
      BY HeadTailProperties, EmptySeq DEF ReadSocket, ConnectionInv
    <2> QED
      BY <2>1 DEF JobT, Dos
  <1>2. Push(e, job) /\ UNCHANGED doing
    BY DEF ReadSocket
  <1> HIDE DEF job
  <1>3. Hand(f, Handler, "file")' = Hand(f, Handler, "file")
    BY <1>2 DEF Hand, At
  <1>4. /\ \A g \in Ends \ {e} : Queued(queue, e, job)[g] = queue[g]
        /\ closed[e] => Queued(queue, e, job) = queue
        /\ ~closed[e] => Queued(queue, e, job)[e]["Low"] = Append(queue[e]["Low"], job)
    BY <1>1, QueuedIs, PrioritiesAre DEF ConnectionInv
  <1>5. queue' = Queued(queue, e, job)
    BY <1>2 DEF Push
  <1>6. CASE f # e \/ closed[e]
    BY <1>3, <1>4, <1>5, <1>6, FilesStay
  <1>7. CASE f = e /\ ~closed[e]
    <2>1. /\ Hand(e, Handler, "file") \in Seq(LineT) /\ queue[e]["Low"] \in Seq(LineT)
          /\ job \in LineT
      <3>1. Handler \in Workers
        BY PoolIs
      <3>2. job \in LineT
        BY <1>1 DEF JobT, LineT
      <3> QED
        BY <3>1, <3>2, HandTyped, FilesTyped
    <2>2. Files(e)' = Hand(e, Handler, "file") \o Append(queue[e]["Low"], job)
      BY <1>3, <1>4, <1>5, <1>7 DEF Files
    <2> DEFINE h == Hand(e, Handler, "file")
               l == queue[e]["Low"]
    <2>4. h \in Seq(LineT) /\ l \in Seq(LineT) /\ Files(e) = h \o l
          /\ Files(e)' = h \o Append(l, job)
      BY <2>1, <2>2 DEF Files
    <2> HIDE DEF h, l
    <2>5. h \o Append(l, job) = Append(h \o l, job)
      BY <2>1, <2>4, ThenAppend
    <2>3. Files(e)' = Append(Files(e), job)
      BY <2>4, <2>5
    <2> QED
      BY <1>1, <1>7, <2>1, <2>3 DEF FilesMove
  <1> QED
    BY <1>6, <1>7

LEMMA CloseFiles ==
  ASSUME ConnectionInv, InOrderPool, NEW e \in Ends, Close(e), NEW f \in Ends
  PROVE  FilesMove(f)
  <1>1. Hand(f, Handler, "file")' = Hand(f, Handler, "file")
    BY DEF Close, Hand, At
  <1>2. /\ queue' = [queue EXCEPT ![e] = [p \in Priorities |-> <<>>]]
        /\ queue \in [Ends -> [Priorities -> Seq(JobT)]] /\ "Low" \in Priorities
    BY DEF Close, ConnectionInv, Sorted, Priorities
  <1>3. CASE f # e
    <2>1. queue'[f]["Low"] = queue[f]["Low"]
      BY <1>2, <1>3
    <2> QED
      BY <1>1, <2>1, FilesStay
  <1>4. CASE f = e
    <2>1. queue'[f]["Low"] = <<>>
      BY <1>2, <1>4
    <2>2. Handler \in Workers /\ Hand(f, Handler, "file") \in Seq(LineT)
      BY PoolIs, HandTyped
    <2>3. Files(f)' = Hand(f, Handler, "file") \o <<>>
      BY <1>1, <2>1 DEF Files
    <2>4. Files(f)' = Hand(f, Handler, "file")
      BY <2>2, <2>3, ConcatEmptySeq
    <2> QED
      BY <2>4 DEF FilesMove
  <1> QED
    BY <1>3, <1>4

-----------------------------------------------------------------------------
(* The inductive invariant of the order.                                   *)

\* The messages of each line are in the order in which send() accepted them.
OrderOf(e) ==
  /\ Ordered(Line(e), sent[e])
  /\ Known(Line(e), sent[e], Handshake)
  /\ Range(received[e]) \cap Handshake = {}
  /\ FilesInv(e)

OrderInv == SocketInv /\ \A e \in Ends : OrderOf(e)

\* The items of the line of e come nearer, or are of the handshake.
Moves(e) ==
  \E r \in Ranks \cup {0} : \E H \in SUBSET Handshake : \E x :
    Comes(Line(e), Line(e)', r, x, H)

LEMMA SentIsData ==
  ASSUME NEW e \in Ends, FilesInv(e)
  PROVE  Range(sent[e]) \cap Handshake = {}
  <1>1. Messages[e] \cap Handshake = {}
    BY ConnectionAssumption
  <1>2. \A n \in DOMAIN FileOf : FileOf[n] \notin Handshake
    BY ConnectionAssumption
  <1> QED
    BY <1>1, <1>2 DEF FilesInv, FilesOwed

LEMMA MovesIf ==
  ASSUME NEW e, NEW r \in Ranks \cup {0}, NEW H \in SUBSET Handshake, NEW x,
         Comes(Line(e), Line(e)', r, x, H)
  PROVE  Moves(e)
  BY DEF Moves

LEMMA MovesKeep ==
  ASSUME ConnectionInv, ConnectionInv', InOrderPool, NEW e \in Ends, FilesInv(e),
         Ordered(Line(e), sent[e]), Known(Line(e), sent[e], Handshake),
         Moves(e), sent'[e] = sent[e]
  PROVE  /\ Ordered(Line(e)', sent'[e])
         /\ Known(Line(e)', sent'[e], Handshake)
  <1> DEFINE L == Line(e)
             L2 == Line(e)'
  <1>1. L \in Lines /\ L2 \in Lines
    BY LinesTyped, LinesTypedNext
  <1>2. PICK r \in Ranks \cup {0} : \E H \in SUBSET Handshake : \E x : Comes(L, L2, r, x, H)
    BY DEF Moves
  <1>3. PICK H \in SUBSET Handshake : \E x : Comes(L, L2, r, x, H)
    BY <1>2
  <1>4. PICK x : Comes(L, L2, r, x, H)
    BY <1>3
  <1>5. Ordered(L, sent[e]) /\ Known(L, sent[e], Handshake)
    OBVIOUS
  <1>6. Range(sent[e]) \cap H = {} /\ H \subseteq Handshake
    BY SentIsData
  <1> HIDE DEF L, L2
  <1>7. \A q \in Ranks : L2[q] \in Seq(LineT)
    BY <1>1 DEF Lines
  <1>8. Ordered(L2, sent[e])
    BY <1>1, <1>4, <1>5, <1>6, <1>7, OrderKept
  <1>9. Known(L2, sent[e], Handshake)
    BY <1>4, <1>5, <1>6, KnownKept
  <1> QED
    BY <1>8, <1>9 DEF L2

-----------------------------------------------------------------------------
(* The steps that send nothing. *)

LEMMA QuietMove ==
  ASSUME ConnectionInv, InOrderPool, NEW e \in Ends, NEW H \in SUBSET Handshake,
         LinesStay(e, H)
  PROVE  \A f \in Ends : Moves(f)
  <1>1. /\ Comes(Line(e), Line(e)', 0, None, H)
        /\ Comes(Line(Peer(e)), Line(Peer(e))', 0, None, {})
    BY QuietComes
  <1>2. Moves(e) /\ Moves(Peer(e))
    BY <1>1, MovesIf
  <1>3. \A f \in Ends : f = e \/ f = Peer(e)
    BY DEF Ends, Peer
  <1> QED
    BY <1>2, <1>3

LEMMA WorkLinesMove ==
  ASSUME ConnectionInv, InOrderPool, NEW e \in Ends, NEW w \in Workers, Work(e, w),
         ~SendFile(e, w)
  PROVE  \A f \in Ends : Moves(f)
  <1>0. /\ \A f, g \in Ends : f = g \/ f = Peer(g)
        /\ Peer(e) \in Ends /\ Peer(Peer(e)) = e
        /\ \A r \in 0 .. 14 : r \in Ranks \cup {0}
    BY PeerOfPeer DEF Ends, Peer, Ranks
  <1>1. CASE Take(e, w)
    <2>1. PICK r \in {0, 10, 12, 14} : Comes(Line(e), Line(e)', r, Head(Line(e)[r]), {})
      BY <1>1, TakeMoves
    <2>2. PICK k \in {0, 3, 5, 7} :
            Comes(Line(Peer(e)), Line(Peer(e))', k, Head(Line(Peer(e))[k]), {})
      BY <1>1, TakeMoves
    <2>3. r \in Ranks \cup {0} /\ k \in Ranks \cup {0}
      BY DEF Ranks
    <2>4. Moves(e) /\ Moves(Peer(e))
      BY <2>1, <2>2, <2>3, MovesIf
    <2> QED
      BY <1>0, <2>4
  <1>2. CASE Stage(e, w)
    <2> DEFINE job == doing[e][w].job
    <2>1. PICK r \in {4, 6, 11, 13} : \E f \in Ends :
            /\ Comes(Line(f), Line(f)', r, NextJob(e, job), {})
            /\ Comes(Line(Peer(f)), Line(Peer(f))', 0, NextJob(e, job), {})
      BY <1>2, StageMoves
    <2>2. PICK f \in Ends :
            /\ Comes(Line(f), Line(f)', r, NextJob(e, job), {})
            /\ Comes(Line(Peer(f)), Line(Peer(f))', 0, NextJob(e, job), {})
      BY <2>1
    <2>3. r \in Ranks \cup {0}
      BY DEF Ranks
    <2>4. Moves(f) /\ Moves(Peer(f))
      BY <2>2, <2>3, MovesIf
    <2> QED
      BY <1>0, <2>4
  <1>3. CASE WriteSocket(e, w)
    <2> DEFINE job == doing[e][w].job
    <2>1. /\ Comes(Line(e), Line(e)', 9, job, {})
          /\ Comes(Line(Peer(e)), Line(Peer(e))', 0, job, {})
      BY <1>3, WriteMoves
    <2>2. Moves(e) /\ Moves(Peer(e))
      BY <1>0, <2>1, MovesIf
    <2> QED
      BY <1>0, <2>2
  <1>4. CASE ReceiveData(e, w) \/ ReceiveHandshake(e, w)
    <2> DEFINE job == doing[e][w].job
               x == Job("got", job.what, FALSE)
    <2>1. x \in LineT /\ x.do = "got"
      <3>1. doing[e][w].step # "idle"
        BY <1>4 DEF ReceiveData, ReceiveHandshake, At
      <3>2. job.what \in Content
        BY <3>1 DEF ConnectionInv, WorkInv, JobT
      <3> QED
        BY <3>2 DEF LineT, Job
    <2> HIDE DEF x
    <2>2. /\ Comes(Line(Peer(e)), Line(Peer(e))', 2, x, {})
          /\ Comes(Line(e), Line(e)', 0, x, {})
      BY <1>4, <2>1, ReceiveMoves DEF x
    <2>3. Moves(e) /\ Moves(Peer(e))
      BY <1>0, <2>2, MovesIf
    <2> QED
      BY <1>0, <2>3
  <1>5. CASE \/ Notify(e, w)
             \/ e = "session" /\ (SessionConfirms(w) \/ SessionNotifies(w))
             \/ e = "client" /\ (ClientTakesKey(w) \/ ClientConfirms(w)
                                 \/ WorkerExpires(e, w))
    BY <1>5, WorkerQuiet, QuietMove, {} \in SUBSET Handshake
  <1>6. CASE e = "session" /\ (WorkerExpires(e, w) \/ SessionRefuses(w))
    <2>1. LinesStay("session", {"refused"}) /\ {"refused"} \in SUBSET Handshake
      BY <1>6, RefusalQuiet DEF Handshake
    <2> QED
      BY <1>6, <2>1, QuietMove
  <1>7. CASE e = "session" /\ SessionReplies(w)
    <2>1. LinesStay("session", {"accepted"}) /\ {"accepted"} \in SUBSET Handshake
      BY <1>7, HandshakeQuiet DEF Handshake
    <2> QED
      BY <1>7, <2>1, QuietMove
  <1>8. e = "session" \/ e = "client"
    BY DEF Ends
  <1> QED
    BY <1>1, <1>2, <1>3, <1>4, <1>5, <1>6, <1>7, <1>8 DEF Work

LEMMA OtherLinesMove ==
  ASSUME ConnectionInv, InOrderPool, SocketInv,
         \/ ClientStarts \/ SessionStarts \/ ClientStops \/ Break \/ UNCHANGED vars
         \/ \E e \in Ends : Io(e) \/ Close(e)
  PROVE  \A f \in Ends : Moves(f)
  <1>1. CASE ClientStarts
    <2>1. /\ LinesStay("client", {"request"}) /\ {"request"} \in SUBSET Handshake
          /\ "client" \in Ends
      BY <1>1, HandshakeQuiet DEF Handshake, Ends
    <2> QED
      BY <2>1, QuietMove
  <1>2. CASE \/ SessionStarts \/ ClientStops \/ UNCHANGED vars
             \/ \E e \in Ends : ReadFails(e)
    <2>1. LinesStay("client", {}) /\ {} \in SUBSET Handshake /\ "client" \in Ends
      BY <1>2, QuietLines DEF Ends
    <2> QED
      BY <2>1, QuietMove
  <1>3. CASE \E e \in Ends : ReaderExpires(e)
    <2>1. PICK e \in Ends : ReaderExpires(e)
      BY <1>3
    <2>2. LinesStay(e, {"refused"}) /\ {"refused"} \in SUBSET Handshake
      BY <2>1, ReaderExpiresQuiet DEF Handshake
    <2> QED
      BY <2>2, QuietMove
  <1>4. CASE \E e \in Ends : ReadSocket(e)
    <2>1. PICK e \in Ends : ReadSocket(e)
      BY <1>4
    <2>2. PICK x : /\ Comes(Line(Peer(e)), Line(Peer(e))', 8, x, {})
                   /\ Comes(Line(e), Line(e)', 0, x, {})
      BY <2>1, ReadMoves
    <2>3. 8 \in Ranks \cup {0} /\ 0 \in Ranks \cup {0} /\ {} \in SUBSET Handshake
      BY DEF Ranks
    <2>4. Moves(e) /\ Moves(Peer(e))
      BY <2>2, <2>3, MovesIf
    <2>5. \A f \in Ends : f = e \/ f = Peer(e)
      BY DEF Ends, Peer
    <2> QED
      BY <2>4, <2>5
  <1>5. CASE Break \/ \E e \in Ends : Close(e)
    BY <1>5, EndMoves, MovesIf, {} \in SUBSET Handshake
  <1> QED
    BY <1>1, <1>2, <1>3, <1>4, <1>5 DEF Io

-----------------------------------------------------------------------------
(* Each step keeps the order.                                              *)

LEMMA SocketStep ==
  ASSUME ConnectionInv, SocketInv, [Next]_vars
  PROVE  SocketInv'
  <1>1. CASE UNCHANGED stream
    BY <1>1 DEF SocketInv
  <1>2. CASE \E e \in Ends : \E w \in Workers : WriteSocket(e, w)
    <2>1. PICK e \in Ends : \E w \in Workers : WriteSocket(e, w)
      BY <1>2
    <2>2. PICK w \in Workers : WriteSocket(e, w)
      BY <2>1
    <2> DEFINE job == doing[e][w].job
               p == Peer(e)
    <2>3. /\ job \in JobT /\ job.do = "send" /\ p \in Ends
          /\ stream' = IF up THEN [stream EXCEPT ![p] = Append(@, job)] ELSE stream
          /\ stream \in [Ends -> Seq(JobT)]
      BY <2>2, PeerIsEnd DEF WriteSocket, At, ConnectionInv, WorkInv
    <2> HIDE DEF job, p
    <2>4. \A f \in Ends : stream'[f] = stream[f] \/ stream'[f] = Append(stream[f], job)
      BY <2>3
    <2>5. \A f \in Ends : \A i \in DOMAIN stream'[f] : stream'[f][i].do = "send"
      <3> SUFFICES ASSUME NEW f \in Ends, NEW i \in DOMAIN stream'[f]
                   PROVE  stream'[f][i].do = "send"
        OBVIOUS
      <3>1. CASE stream'[f] = stream[f]
        BY <3>1 DEF SocketInv
      <3>2. CASE stream'[f] = Append(stream[f], job)
        <4>1. stream[f] \in Seq(JobT) /\ DOMAIN stream[f] = 1 .. Len(stream[f])
              /\ Len(stream[f]) \in Nat
          BY <2>3, LenProperties
        <4>2. /\ DOMAIN stream'[f] = 1 .. Len(stream[f]) + 1
              /\ \A k \in 1 .. Len(stream[f]) : stream'[f][k] = stream[f][k]
              /\ stream'[f][Len(stream[f]) + 1] = job
          BY <2>3, <3>2, <4>1, AppendProperties, LenProperties
        <4> QED
          BY <2>3, <4>1, <4>2 DEF SocketInv
      <3> QED
        BY <2>4, <3>1, <3>2
    <2> QED
      BY <2>5 DEF SocketInv
  <1>3. CASE \E e \in Ends : ReadSocket(e)
    <2>1. PICK e \in Ends : ReadSocket(e)
      BY <1>3
    <2>2. /\ stream[e] # <<>> /\ stream' = [stream EXCEPT ![e] = Tail(@)]
          /\ stream \in [Ends -> Seq(JobT)]
      BY <2>1 DEF ReadSocket, ConnectionInv
    <2>3. \A i \in DOMAIN Tail(stream[e]) :
             i + 1 \in DOMAIN stream[e] /\ Tail(stream[e])[i] = stream[e][i + 1]
      BY <2>2, HeadTailProperties, LenProperties, EmptySeq
    <2>4. \A f \in Ends : stream'[f] = stream[f] \/ (f = e /\ stream'[f] = Tail(stream[e]))
      BY <2>2
    <2>5. ASSUME NEW f \in Ends, NEW i \in DOMAIN stream'[f]
          PROVE  stream'[f][i].do = "send"
      <3>1. CASE stream'[f] = stream[f]
        BY <3>1 DEF SocketInv
      <3>2. CASE f = e /\ stream'[f] = Tail(stream[e])
        BY <2>3, <3>2 DEF SocketInv
      <3> QED
        BY <2>4, <3>1, <3>2
    <2> QED
      BY <2>5 DEF SocketInv
  <1>4. CASE Break \/ \E e \in Ends : Close(e)
    <2>1. stream \in [Ends -> Seq(JobT)]
      BY DEF ConnectionInv
    <2>2. \A f \in Ends : stream'[f] = stream[f] \/ stream'[f] = <<>>
      BY <1>4, <2>1 DEF Break, Close
    <2> QED
      BY <2>2 DEF SocketInv
  <1>5. UNCHANGED stream \/ (\E e \in Ends : \E w \in Workers : WriteSocket(e, w))
        \/ (\E e \in Ends : ReadSocket(e)) \/ Break \/ (\E e \in Ends : Close(e))
    <2>1. ASSUME NEW e \in Ends, NEW w \in Workers, Work(e, w)
          PROVE  UNCHANGED stream \/ WriteSocket(e, w)
      <3>1. CASE Take(e, w) \/ Stage(e, w) \/ SendFile(e, w) \/ ReceiveData(e, w)
        BY <3>1 DEF link, Take, Stage, SendFile, ReceiveData
      <3>2. CASE WorkerExpires(e, w) \/ ReceiveHandshake(e, w) \/ Notify(e, w)
        BY <3>2 DEF link, WorkerExpires, ReceiveHandshake, Notify
      <3>3. CASE SessionConfirms(w) \/ SessionRefuses(w) \/ SessionNotifies(w)
                 \/ SessionReplies(w) \/ ClientTakesKey(w) \/ ClientConfirms(w)
        BY <3>3 DEF link, SessionConfirms, SessionRefuses, SessionNotifies,
           SessionReplies, ClientTakesKey, ClientConfirms
      <3> QED
        BY <2>1, <3>1, <3>2, <3>3 DEF Work
    <2>2. CASE ClientStarts \/ SessionStarts \/ ClientStops \/ UNCHANGED vars
               \/ (\E e \in Ends : ReadFails(e) \/ ReaderExpires(e))
               \/ (\E e \in Ends : \E m \in Messages[e] : Accept(e, m))
      BY <2>2 DEF link, vars, ClientStarts, SessionStarts, ClientStops, ReadFails,
         ReaderExpires, Accept
    <2> QED
      BY <2>1, <2>2 DEF Next, Io
  <1> QED
    BY <1>1, <1>2, <1>3, <1>4, <1>5

\* No handshake message is given to an application.
LEMMA ReceivedIsData ==
  ASSUME ConnectionInv, [Next]_vars, NEW f \in Ends, Range(received[f]) \cap Handshake = {}
  PROVE  Range(received'[f]) \cap Handshake = {}
  <1>1. CASE UNCHANGED received
    BY <1>1
  <1>2. CASE \E e \in Ends : \E w \in Workers : ReceiveData(e, w)
    <2>1. PICK e \in Ends : \E w \in Workers : ReceiveData(e, w)
      BY <1>2
    <2>2. PICK w \in Workers : ReceiveData(e, w)
      BY <2>1
    <2> DEFINE m == What(e, w)
    <2>3. /\ m \in Content /\ m \notin Handshake
          /\ received \in [Ends -> Seq(Content)]
          /\ \/ received' = received
             \/ received' = [received EXCEPT ![e] = Append(@, m)]
      BY <2>2 DEF ReceiveData, At, What, ConnectionInv, HistoryInv, WorkInv, JobT
    <2> HIDE DEF m
    <2>4. received'[f] = received[f] \/ received'[f] = Append(received[f], m)
      BY <2>3
    <2>5. Range(Append(received[f], m)) = Range(received[f]) \cup {m}
      BY <2>3, RangeOfAppend
    <2> QED
      BY <2>3, <2>4, <2>5
  <1>3. UNCHANGED received \/ \E e \in Ends : \E w \in Workers : ReceiveData(e, w)
    <2>1. ASSUME NEW e \in Ends, NEW w \in Workers, Work(e, w)
          PROVE  UNCHANGED received \/ ReceiveData(e, w)
      <3>1. CASE Take(e, w) \/ Stage(e, w) \/ SendFile(e, w) \/ WriteSocket(e, w)
        BY <3>1 DEF traffic, Take, Stage, SendFile, WriteSocket
      <3>2. CASE WorkerExpires(e, w) \/ ReceiveHandshake(e, w) \/ Notify(e, w)
        BY <3>2 DEF traffic, WorkerExpires, ReceiveHandshake, Notify
      <3>3. CASE SessionConfirms(w) \/ SessionRefuses(w) \/ SessionNotifies(w)
                 \/ SessionReplies(w) \/ ClientTakesKey(w) \/ ClientConfirms(w)
        BY <3>3 DEF traffic, SessionConfirms, SessionRefuses, SessionNotifies,
           SessionReplies, ClientTakesKey, ClientConfirms
      <3> QED
        BY <2>1, <3>1, <3>2, <3>3 DEF Work
    <2>2. CASE ClientStarts \/ SessionStarts \/ ClientStops \/ UNCHANGED vars \/ Break
               \/ (\E e \in Ends : Io(e) \/ Close(e))
               \/ (\E e \in Ends : \E m \in Messages[e] : Accept(e, m))
      BY <2>2 DEF traffic, vars, ClientStarts, SessionStarts, ClientStops, ReadFails,
         ReaderExpires, Accept, Io, ReadSocket, Break, Close
    <2> QED
      BY <2>1, <2>2 DEF Next
  <1> QED
    BY <1>1, <1>2, <1>3

\* The steps that send nothing leave the order.
LEMMA OrderStays ==
  ASSUME ConnectionInv, ConnectionInv', InOrderPool, [Next]_vars,
         NEW e \in Ends, OrderOf(e), Moves(e), FilesMove(e), sent'[e] = sent[e]
  PROVE  OrderOf(e)'
  <1>1. Ordered(Line(e)', sent'[e]) /\ Known(Line(e)', sent'[e], Handshake)
    BY MovesKeep DEF OrderOf
  <1>2. FilesInv(e)'
    BY MoveOwed DEF OrderOf
  <1>3. Range(received'[e]) \cap Handshake = {}
    BY ReceivedIsData DEF OrderOf
  <1>4. Handshake' = Handshake
    BY DEF Handshake
  <1> QED
    BY <1>1, <1>2, <1>3, <1>4 DEF OrderOf

\* A message is accepted behind all of its line.
LEMMA SentLast ==
  ASSUME ConnectionInv, ConnectionInv', InOrderPool, NEW e \in Ends, OrderOf(e),
         NEW m \in Content, m \notin Range(sent[e]) \cup Handshake,
         sent' = [sent EXCEPT ![e] = Append(@, m)], NEW x,
         closed[e] => Comes(Line(e), Line(e)', 0, x, {}),
         ~closed[e] => Enters(Line(e), Line(e)', m, {})
  PROVE  Ordered(Line(e)', sent'[e]) /\ Known(Line(e)', sent'[e], Handshake)
  <1> DEFINE L == Line(e)
             L2 == Line(e)'
             s == sent[e]
  <1>1. L \in Lines /\ L2 \in Lines
    BY LinesTyped, LinesTypedNext
  <1>2. Ordered(L, s) /\ Known(L, s, Handshake) /\ Range(s) \cap Handshake = {}
    BY SentIsData DEF OrderOf
  <1>3. s \in Seq(Content) /\ sent'[e] = Append(s, m)
    BY DEF ConnectionInv, HistoryInv
  <1> HIDE DEF L, L2, s
  <1>4. \A q \in Ranks : L2[q] \in Seq(LineT)
    BY <1>1 DEF Lines
  <1>5. m \notin Range(s) \cup Handshake
    BY DEF s
  <1>6. CASE closed[e]
    <2>1. Comes(L, L2, 0, x, {})
      BY <1>6 DEF L, L2
    <2>2. Ordered(L2, s)
      BY <1>1, <1>2, <1>4, <2>1, OrderKept
    <2>3. Known(L2, s, Handshake)
      BY <1>2, <2>1, KnownKept
    <2>4. Ordered(L2, Append(s, m)) /\ Known(L2, Append(s, m), Handshake)
      BY <1>3, <1>5, <2>2, <2>3, GrowKeeps
    <2> QED
      BY <1>3, <2>4 DEF L2
  <1>7. CASE ~closed[e]
    <2>1. Enters(L, L2, m, {})
      BY <1>7 DEF L, L2
    <2>2. Ordered(L2, Append(s, m)) /\ Known(L2, Append(s, m), Handshake)
      BY <1>1, <1>2, <1>3, <1>4, <1>5, <2>1, EnterKeeps
    <2> QED
      BY <1>3, <2>2 DEF L2
  <1> QED
    BY <1>6, <1>7

LEMMA AcceptOrder ==
  ASSUME ConnectionInv, ConnectionInv', InOrderPool, SocketInv, NEW e \in Ends,
         NEW m \in Messages[e], Accept(e, m), [Next]_vars, NEW f \in Ends, OrderOf(f)
  PROVE  OrderOf(f)'
  <1>0. /\ m \in Content /\ m \notin Handshake /\ m \notin Range(sent[e])
        /\ sent' = [sent EXCEPT ![e] = Append(@, m)]
        /\ sent \in [Ends -> Seq(Content)] /\ UNCHANGED doing
    BY ConnectionAssumption, ContentHas
    DEF Accept, ToSet, Range, ConnectionInv, HistoryInv
  <1>1. /\ closed[e] => Comes(Line(e), Line(e)', 0, None, {})
        /\ ~closed[e] => Enters(Line(e), Line(e)', m, {})
        /\ Comes(Line(Peer(e)), Line(Peer(e))', 0, None, {})
        /\ closed[e] => UNCHANGED queue
        /\ ~closed[e] => queue'[e]["Low"] =
             IF m \in DOMAIN FileOf
             THEN Append(queue[e]["Low"], Job("file", FileOf[m], FALSE))
             ELSE queue[e]["Low"]
        /\ queue'[Peer(e)] = queue[Peer(e)]
    BY <1>0, AcceptMoves
  <1>2. \A g \in Ends : Hand(g, Handler, "file")' = Hand(g, Handler, "file")
    BY <1>0 DEF Hand, At
  <1>3. CASE f = Peer(e)
    <2>1. Moves(Peer(e)) /\ f # e
      BY <1>1, <1>3, MovesIf, PeerIsEnd
    <2>2. queue'[f]["Low"] = queue[f]["Low"] /\ sent'[f] = sent[f]
      BY <1>0, <1>1, <1>3, <2>1
    <2>3. FilesMove(f)
      BY <1>2, <2>2, FilesStay
    <2> QED
      BY <1>3, <2>1, <2>2, <2>3, OrderStays
  <1>4. CASE f = e
    <2>0. OrderOf(e)
      BY <1>4
    <2>1. Ordered(Line(e)', sent'[e]) /\ Known(Line(e)', sent'[e], Handshake)
      BY <1>0, <1>1, <2>0, SentLast
    <2>2. Range(received'[e]) \cap Handshake = {}
      BY <2>0, ReceivedIsData DEF OrderOf
    <2> DEFINE F == Files(e)
               G == Files(e)'
               y == Job("file", FileOf[m], FALSE)
               s == sent[e]
    <2>3. F \in Seq(LineT) /\ FilesOwed(F, s, Messages[e])
          /\ s \in Seq(Content) /\ m \notin Range(s) /\ m \in Messages[e] \cap Content
      BY <1>0, <2>0, FilesTyped DEF OrderOf, FilesInv
    <2>4. m \in DOMAIN FileOf => y \in LineT
      BY ContentHas DEF LineT, Job, Dos
    <2>5. G = F \/ (m \in DOMAIN FileOf /\ y \in LineT /\ G = Append(F, y))
      <3> DEFINE h == Hand(e, Handler, "file")
                 l == queue[e]["Low"]
      <3>1. /\ h \in Seq(LineT) /\ l \in Seq(LineT) /\ F = h \o l
            /\ G = h \o queue'[e]["Low"]
        BY <1>2, PoolIs, HandTyped, FilesTyped DEF Files
      <3>2. queue'[e]["Low"] = l \/ (m \in DOMAIN FileOf /\ queue'[e]["Low"] = Append(l, y))
        BY <1>1
      <3> HIDE DEF h, l, F, G, y
      <3>3. CASE queue'[e]["Low"] = l
        BY <3>1, <3>3
      <3>4. CASE m \in DOMAIN FileOf /\ queue'[e]["Low"] = Append(l, y)
        <4>1. y \in LineT
          BY <2>4, <3>4
        <4>2. h \o Append(l, y) = Append(h \o l, y)
          BY <3>1, <4>1, ThenAppend
        <4> QED
          BY <3>1, <3>4, <4>1, <4>2
      <3> QED
        BY <3>2, <3>3, <3>4
    <2> HIDE DEF F, G, s
    <2>6. FilesOwed(G, Append(s, m), Messages[e])
      BY <2>3, <2>5, AcceptOwed
    <2>7. FilesInv(e)'
      BY <1>0, <2>6 DEF FilesInv, G, s
    <2>8. Handshake' = Handshake
      BY DEF Handshake
    <2> QED
      BY <1>4, <2>1, <2>2, <2>7, <2>8 DEF OrderOf
  <1> QED
    BY <1>3, <1>4 DEF Ends, Peer

LEMMA SendFileOrder ==
  ASSUME ConnectionInv, ConnectionInv', InOrderPool, SocketInv, NEW e \in Ends,
         NEW w \in Workers, SendFile(e, w), [Next]_vars, NEW f \in Ends,
         \A g \in Ends : OrderOf(g)
  PROVE  OrderOf(f)'
  <1> DEFINE m == What(e, w)
             job == doing[e][w].job
  <1>0. /\ At(e, w, "file", "work") /\ m = job.what /\ job \in JobT /\ m \in Content
        /\ sent' = [sent EXCEPT ![e] = Append(@, m)] /\ Done(e, w)
        /\ sent \in [Ends -> Seq(Content)]
    BY DEF SendFile, At, What, ConnectionInv, HistoryInv, WorkInv, JobT
  <1>1. w = Handler
    <2>1. doing[e][w].step = "work" /\ job.do = "file"
      BY <1>0 DEF At
    <2>2. w = Sender => job.do = "send"
      BY <2>1, HandlersJob
    <2> QED
      BY <2>1, <2>2, PoolIs
  <1> DEFINE F == Files(e)
             G == Files(e)'
             s == sent[e]
  <1>2. F \in Seq(LineT) /\ FilesOwed(F, s, Messages[e]) /\ s \in Seq(Content)
    BY <1>0, FilesTyped DEF OrderOf, FilesInv
  <1>3. F # <<>> /\ Head(F) = job /\ Tail(F) = queue[e]["Low"] /\ job.do = "file"
    <2>1. /\ Hand(e, Handler, "file") = <<job>> /\ job \in LineT
          /\ queue[e]["Low"] \in Seq(LineT)
      BY <1>0, <1>1, FilesTyped
    <2>2. F = <<job>> \o queue[e]["Low"]
      BY <2>1 DEF Files
    <2> HIDE DEF F, job
    <2> QED
      BY <1>0, <2>1, <2>2, OneThen DEF At, job
  <1>10. m = What(e, w) /\ m \in Content /\ m = Head(F).what /\ Head(F).do = "file"
    BY <1>0, <1>3
  <1> HIDE DEF F, s, m, job
  <1>4. /\ m \notin Range(s) /\ \E n \in DOMAIN FileOf : m = FileOf[n]
        /\ FilesOwed(Tail(F), Append(s, m), Messages[e])
    BY <1>2, <1>3, <1>10, SendOwed
  <1>5. m \notin Handshake
    BY <1>4, ConnectionAssumption
  <1>6. m = What(e, w)
    BY <1>10
  <1>7. /\ closed[e] => Comes(Line(e), Line(e)', 0, None, {})
        /\ ~closed[e] => Enters(Line(e), Line(e)', m, {})
        /\ Comes(Line(Peer(e)), Line(Peer(e))', 0, None, {})
        /\ \A g \in Ends : queue'[g]["Low"] = queue[g]["Low"]
    BY <1>5, <1>6, SendFileMoves
  <1>8. CASE f = Peer(e)
    <2>1. Moves(Peer(e)) /\ f # e
      BY <1>7, <1>8, MovesIf, PeerIsEnd
    <2>2. queue'[f]["Low"] = queue[f]["Low"] /\ sent'[f] = sent[f]
      BY <1>0, <1>7, <1>8, <2>1
    <2>3. Hand(f, Handler, "file")' = Hand(f, Handler, "file")
      <3>1. doing'[f][Handler] = doing[f][Handler]
        BY <1>0, <2>1, DoneHand, PoolIs
      <3> QED
        BY <3>1, HandIs
    <2>4. FilesMove(f)
      BY <2>2, <2>3, FilesStay
    <2> QED
      BY <1>8, <2>1, <2>2, <2>4, OrderStays
  <1>9. CASE f = e
    <2>1. Ordered(Line(e)', sent'[e]) /\ Known(Line(e)', sent'[e], Handshake)
      BY <1>0, <1>4, <1>5, <1>7, SentLast DEF s
    <2>2. Range(received'[e]) \cap Handshake = {}
      BY ReceivedIsData DEF OrderOf
    <2>3. Hand(e, Handler, "file")' = <<>>
      <3>1. doing'[e][Handler].step = "idle"
        BY <1>0, <1>1, DoneHand
      <3> QED
        BY <3>1, HandIs
    <2>4. G = Tail(F)
      <3>1. Tail(F) \in Seq(LineT)
        BY <1>2, <1>3, HeadTailProperties
      <3>2. G = <<>> \o Tail(F)
        BY <1>3, <1>7, <2>3 DEF Files
      <3> HIDE DEF G
      <3> QED
        BY <3>1, <3>2, ConcatEmptySeq
    <2> HIDE DEF G
    <2>5. sent'[e] = Append(s, m)
      BY <1>0 DEF s
    <2>6. FilesInv(e)'
      BY <1>4, <2>4, <2>5 DEF FilesInv, G
    <2>7. Handshake' = Handshake
      BY DEF Handshake
    <2> QED
      BY <1>9, <2>1, <2>2, <2>6, <2>7 DEF OrderOf
  <1> QED
    BY <1>8, <1>9 DEF Ends, Peer

LEMMA InitLines == InOrderPool /\ Init => \A e \in Ends : \A q \in Ranks : Line(e)[q] = <<>>
  <1> SUFFICES ASSUME InOrderPool, Init, NEW e \in Ends, NEW q \in Ranks PROVE Line(e)[q] = <<>>
    OBVIOUS
  <1> DEFINE p == Peer(e)
  <1>1. p \in Ends
    BY PeerIsEnd
  <1> HIDE DEF p
  <1>2. \A f \in Ends :
          /\ received[f] = <<>> /\ stream[f] = <<>>
          /\ queue[f]["Top"] = <<>> /\ queue[f]["High"] = <<>>
          /\ queue[f]["Normal"] = <<>> /\ queue[f]["Low"] = <<>>
    BY DEF Init, Priorities
  <1>3. \A f \in Ends, w \in Workers : \A do : Hand(f, w, do) = <<>>
    BY DEF Hand, At, Init, Idle
  <1>4. Given(received[p]) = <<>>
    <2>1. Len(received[p]) = 0
      BY <1>1, <1>2
    <2>2. DOMAIN Given(received[p]) = 1 .. 0 /\ 1 .. 0 = {}
      BY <2>1 DEF Given
    <2>3. Given(received[p]) \in Seq(LineT)
      BY <1>1, <1>2, GivenTyped, EmptySeq
    <2>4. Len(Given(received[p])) = 0
      BY <2>2, <2>3, LenProperties
    <2> QED
      BY <2>3, <2>4, EmptySeq
  <1> QED
    BY <1>1, <1>2, <1>3, <1>4, LineIs, RankIs, PoolIs DEF p

LEMMA OrderInvInit == InOrderPool /\ Init => OrderInv
  <1> SUFFICES ASSUME InOrderPool, Init PROVE OrderInv
    OBVIOUS
  <1>1. SocketInv
    BY DEF SocketInv, Init
  <1>2. ASSUME NEW e \in Ends PROVE OrderOf(e)
    <2>1. sent[e] = <<>> /\ received[e] = <<>>
      BY DEF Init
    <2>2. \A q \in Ranks : Line(e)[q] = <<>>
      BY InitLines
    <2>3. \A q \in Ranks : DOMAIN Line(e)[q] = {}
      BY <2>2
    <2>4. Ordered(Line(e), sent[e]) /\ Known(Line(e), sent[e], Handshake)
      BY <2>3 DEF Ordered, Known
    <2>5. Range(sent[e]) = {} /\ Range(received[e]) = {} /\ DOMAIN sent[e] = {}
      BY <2>1 DEF Range
    <2>6. Files(e) = <<>>
      <3>1. queue[e]["Low"] = <<>> /\ Hand(e, Handler, "file") = <<>>
        BY PoolIs DEF Init, Hand, At, Idle, Priorities
      <3> QED
        BY <3>1 DEF Files
    <2>7. FilesInv(e)
      BY <2>5, <2>6 DEF FilesInv, FilesOwed, IsInjective
    <2> QED
      BY <2>4, <2>5, <2>7 DEF OrderOf
  <1> QED
    BY <1>1, <1>2 DEF OrderInv

LEMMA SentStays ==
  ASSUME [Next]_vars
  PROVE  \/ UNCHANGED sent
         \/ \E e \in Ends : \E m \in Messages[e] : Accept(e, m)
         \/ \E e \in Ends : \E w \in Workers : SendFile(e, w)
  <1>1. ASSUME NEW e \in Ends, NEW w \in Workers, Work(e, w)
        PROVE  UNCHANGED sent \/ SendFile(e, w)
    <2>1. CASE Take(e, w) \/ Stage(e, w) \/ WriteSocket(e, w) \/ ReceiveData(e, w)
      BY <2>1 DEF traffic, Take, Stage, ReceiveData, WriteSocket
    <2>2. CASE WorkerExpires(e, w) \/ ReceiveHandshake(e, w) \/ Notify(e, w)
      BY <2>2 DEF traffic, WorkerExpires, ReceiveHandshake, Notify
    <2>3. CASE SessionConfirms(w) \/ SessionRefuses(w) \/ SessionNotifies(w)
               \/ SessionReplies(w) \/ ClientTakesKey(w) \/ ClientConfirms(w)
      BY <2>3 DEF traffic, SessionConfirms, SessionRefuses, SessionNotifies,
         SessionReplies, ClientTakesKey, ClientConfirms
    <2> QED
      BY <1>1, <2>1, <2>2, <2>3 DEF Work
  <1>2. CASE ClientStarts \/ SessionStarts \/ ClientStops \/ UNCHANGED vars \/ Break
             \/ (\E e \in Ends : Io(e) \/ Close(e))
    BY <1>2 DEF traffic, vars, ClientStarts, SessionStarts, ClientStops, ReadFails,
       ReaderExpires, Io, ReadSocket, Break, Close
  <1> QED
    BY <1>1, <1>2 DEF Next

LEMMA OrderInvStep ==
  ASSUME ConnectionInv, InOrderPool, OrderInv, [Next]_vars
  PROVE  OrderInv'
  <1>0. ConnectionInv' /\ SocketInv /\ SocketInv'
    BY ConnectionInvStep, SocketStep DEF OrderInv
  <1>1. \A f \in Ends : OrderOf(f)
    BY DEF OrderInv
  <1>2. CASE \E e \in Ends : \E m \in Messages[e] : Accept(e, m)
    BY <1>0, <1>1, <1>2, AcceptOrder DEF OrderInv
  <1>3. CASE \E e \in Ends : \E w \in Workers : SendFile(e, w)
    BY <1>0, <1>1, <1>3, SendFileOrder DEF OrderInv
  <1>4. CASE UNCHANGED sent /\ ~(\E e \in Ends : \E m \in Messages[e] : Accept(e, m))
             /\ ~(\E e \in Ends : \E w \in Workers : SendFile(e, w))
    <2>1. \A f \in Ends : Moves(f) /\ FilesMove(f)
      <3>1. CASE \E e \in Ends : \E w \in Workers : Work(e, w)
        BY <1>4, <3>1, WorkLinesMove, WorkFiles
      <3>2. CASE ClientStarts \/ SessionStarts \/ ClientStops \/ Break
                 \/ (\E e \in Ends : ReadFails(e) \/ ReaderExpires(e))
        BY <1>0, <3>2, OtherLinesMove, OtherFiles DEF Io
      <3>3. CASE \E e \in Ends : ReadSocket(e) \/ Close(e)
        BY <1>0, <3>3, OtherLinesMove, ReadFiles, CloseFiles DEF Io
      <3>4. CASE UNCHANGED vars
        <4>1. \A f \in Ends : Files(f)' = Files(f)
          BY <3>4 DEF vars, Files, Hand, At
        <4> QED
          BY <1>0, <3>4, <4>1, OtherLinesMove DEF FilesMove
      <3> QED
        BY <1>4, <3>1, <3>2, <3>3, <3>4 DEF Next, Io
    <2>2. \A f \in Ends : OrderOf(f)'
      BY <1>0, <1>1, <1>4, <2>1, OrderStays
    <2> QED
      BY <1>0, <2>2 DEF OrderInv
  <1> QED
    BY <1>2, <1>3, <1>4, SentStays

\* With the pool of DataHandler (DataHandler.cpp:222), what is on the way from an
\* end to the application of its peer is in the order in which send() accepted
\* it, from the application to the first queue (DataHandler.cpp:325-353, 641-744).
THEOREM OrderIsKept ==
  ASSUME InOrderPool
  PROVE  Spec => [](ConnectionInv /\ OrderInv)
  <1>1. Init => ConnectionInv /\ OrderInv
    BY ConnectionInvInit, OrderInvInit
  <1>2. ConnectionInv /\ OrderInv /\ [Next]_vars => (ConnectionInv /\ OrderInv)'
    BY ConnectionInvStep, OrderInvStep
  <1> QED
    BY <1>1, <1>2, PTL DEF Spec

-----------------------------------------------------------------------------
(* What holds while nothing has gone wrong, and both ends have the same key.*)

\* Where the worker of e is that does everything but the writes.
StepOf(e) == doing[e][Handler].step

\* No data is at rank 2 or 3 unread, or at rank 4 to 12 in another mode.
SealedRight(L) ==
  \A q \in Ranks : \A i \in DOMAIN L[q] :
    Counted(L, q, i) /\ L[q][i].what \notin Handshake =>
      /\ q \in 4 .. 12 => L[q][i].sealed = EncryptMode
      /\ q \in 2 .. 3 => ~L[q][i].sealed

\* Where data may be: behind rank 4 unless near, at rank 14 unless gone.
Placed(L, near, gone) ==
  \A q \in Ranks : \A i \in DOMAIN L[q] :
    Counted(L, q, i) /\ L[q][i].what # "accepted" =>
      /\ q <= 4 => near
      /\ q # 14 => gone

\* What e sends of the handshake.
Hello(e) == IF e = "client" THEN "request" ELSE "accepted"

\* Both ends are open and reading, and no worker is about to expire or refuse.
Runs ==
  /\ up
  /\ \A e \in Ends : condition[e] # "Expired" /\ ~closed[e] /\ reader[e] = "ready"
  /\ StepOf("client") \in {"idle", "work", "confirm", "assign"}
  /\ StepOf("session") \in {"idle", "work", "confirm", "notify", "reply"}

\* The session is about to send its reply, or has sent it; the client holds the
\* reply; the reply is on its way to it.
Replying == StepOf("session") \in {"notify", "reply"}
Replied == condition["session"] = "Confirmed" /\ ~Replying
AtClient == StepOf("client") \in {"confirm", "assign"}
OnItsWay == InLine(Line("session"), "accepted")

\* How far the handshake has come at one end and at the other.
Phases ==
  /\ condition["client"] = "None" => condition["session"] = "None"
  /\ condition["client"] = "Confirmed" => Replied
  /\ OnItsWay \/ AtClient => Replied /\ condition["client"] = "Waiting"
  /\ ~(OnItsWay /\ AtClient)
  /\ Replied /\ condition["client"] = "Waiting" => OnItsWay \/ AtClient
  /\ StepOf("session") = "confirm" => condition["session"] = "Waiting"
  /\ Replying => condition["session"] = "Confirmed"

\* An end has its key from its confirmation on, or while it answers it.
Keys ==
  /\ condition["client"] # "Confirmed" /\ StepOf("client") # "assign" => ~cipher["client"]
  /\ condition["client"] = "Confirmed" \/ StepOf("client") = "assign"
       => cipher["client"] = EncryptMode
  /\ condition["session"] = "Confirmed" /\ StepOf("session") # "notify"
       => cipher["session"] = EncryptMode

\* What e has sent is in its line, sealed as it should be, and nothing else.
LineHealth(e) ==
  /\ condition[e] # "Confirmed" => sent[e] = <<>>
  /\ Known(Line(e), sent[e], {Hello(e)})
  /\ SealedRight(Line(e))
  /\ \A m \in Range(sent[e]) : InLine(Line(e), m)

\* The reply is ahead of all that the session sends, which stays behind until the
\* client has taken it.
ReplyFirst ==
  /\ First(Line("session"), "accepted")
  /\ Placed(Line("session"), condition["client"] = "Confirmed", ~Replying)

\* Nothing has ended the connection, and the client has the key of the server.
Healthy == ~troubled /\ sameKey

\* What holds of a connection that is healthy.
Fine == Runs /\ Phases /\ Keys /\ ReplyFirst /\ \A e \in Ends : LineHealth(e)

HealthInv == Healthy => Fine

-----------------------------------------------------------------------------
(* What is sealed and what is placed where, when items move.               *)

\* The item that moves is sealed as its new rank asks.
SealPasses(r, x) ==
  x.what \notin Handshake =>
    /\ r \in 5 .. 13 => x.sealed = EncryptMode
    /\ r \in 3 .. 4 => ~x.sealed

LEMMA SealedKept ==
  ASSUME NEW L \in Lines, NEW L2, NEW r \in Ranks \cup {0}, NEW x,
         NEW H \in SUBSET Handshake, Comes(L, L2, r, x, H), SealedRight(L),
         r # 0 /\ Counted(L, r, 1) => SealPasses(r, x)
  PROVE  SealedRight(L2)
  <1> SUFFICES ASSUME NEW q \in Ranks, NEW i \in DOMAIN L2[q], Counted(L2, q, i),
                      L2[q][i].what \notin Handshake
               PROVE  /\ q \in 4 .. 12 => L2[q][i].sealed = EncryptMode
                      /\ q \in 2 .. 3 => ~L2[q][i].sealed
    BY DEF SealedRight
  <1>1. \/ q # r /\ Counted(L, q, i) /\ L2[q][i] = L[q][i]
        \/ q = r /\ Counted(L, q, i + 1) /\ L2[q][i] = L[q][i + 1]
        \/ /\ q + 1 = r /\ i = Len(L[q]) + 1 /\ L2[q][i] = x
           /\ Counted(L, r, 1) /\ x.what = L[r][1].what
    BY DEF Comes
  <1>2. CASE Counted(L, q, i) /\ L2[q][i] = L[q][i]
    BY <1>2 DEF SealedRight, Counted
  <1>3. CASE Counted(L, q, i + 1) /\ L2[q][i] = L[q][i + 1]
    BY <1>3 DEF SealedRight, Counted
  <1>4. CASE q + 1 = r /\ L2[q][i] = x /\ Counted(L, r, 1)
    <2>1. /\ q \in 4 .. 12 => r \in 5 .. 13
          /\ q \in 2 .. 3 => r \in 3 .. 4
          /\ r # 0
      BY <1>4 DEF Ranks
    <2> QED
      BY <1>4, <2>1 DEF SealPasses
  <1> QED
    BY <1>1, <1>2, <1>3, <1>4

\* A message that moves as it is.
LEMMA SealCarried ==
  ASSUME NEW L \in Lines, NEW r \in Ranks, NEW x, SealedRight(L), Counted(L, r, 1),
         r \notin {4, 13}, x.what = L[r][1].what, x.sealed = L[r][1].sealed
  PROVE  SealPasses(r, x)
  <1>1. 1 \in DOMAIN L[r]
    BY DEF Counted
  <1>2. r \in 5 .. 13 => r \in 4 .. 12
    BY DEF Ranks
  <1>3. r \in 3 .. 4 => r \in 2 .. 3
    BY DEF Ranks
  <1> QED
    BY <1>1, <1>2, <1>3 DEF SealPasses, SealedRight

LEMMA PlacedKept ==
  ASSUME NEW L \in Lines, NEW L2, NEW r \in Ranks \cup {0}, NEW x,
         NEW H, H \subseteq {"accepted"}, Comes(L, L2, r, x, H),
         NEW near, NEW near2, NEW gone, NEW gone2,
         Placed(L, near, gone), near => near2, gone => gone2,
         r = 5 /\ Counted(L, 5, 1) /\ L[5][1].what # "accepted" => near2,
         r = 14 => gone2
  PROVE  Placed(L2, near2, gone2)
  <1> SUFFICES ASSUME NEW q \in Ranks, NEW i \in DOMAIN L2[q], Counted(L2, q, i),
                      L2[q][i].what # "accepted"
               PROVE  (q <= 4 => near2) /\ (q # 14 => gone2)
    BY DEF Placed
  <1>1. \/ q # r /\ Counted(L, q, i) /\ L2[q][i] = L[q][i]
        \/ q = r /\ Counted(L, q, i + 1) /\ L2[q][i] = L[q][i + 1]
        \/ /\ q + 1 = r /\ i = Len(L[q]) + 1 /\ L2[q][i] = x
           /\ Counted(L, r, 1) /\ x.what = L[r][1].what
    BY DEF Comes
  <1>2. CASE Counted(L, q, i) /\ L2[q][i] = L[q][i]
    BY <1>2 DEF Placed, Counted
  <1>3. CASE Counted(L, q, i + 1) /\ L2[q][i] = L[q][i + 1]
    BY <1>3 DEF Placed, Counted
  <1>4. CASE q + 1 = r /\ L2[q][i] = x /\ Counted(L, r, 1) /\ x.what = L[r][1].what
    <2>1. /\ r \in Ranks /\ 1 \in DOMAIN L[r]
          /\ q <= 4 => r = 5 \/ r <= 4
          /\ r = 14 \/ r # 14
      BY <1>4 DEF Ranks, Counted
    <2>2. L[r][1].what # "accepted"
      BY <1>4
    <2>3. r # 5 => (q <= 4 => near2)
      BY <1>4, <2>1, <2>2 DEF Placed
    <2>4. r = 5 => near2
      BY <1>4, <2>2
    <2>5. gone2
      BY <1>4, <2>1, <2>2 DEF Placed
    <2> QED
      BY <2>3, <2>4, <2>5
  <1> QED
    BY <1>1, <1>2, <1>3, <1>4

\* The message that is first of its line is taken from it.
LEMMA LoseFirst ==
  ASSUME NEW L \in Lines, NEW L2, NEW r \in Ranks, NEW x, NEW m,
         Comes(L, L2, r, x, {}), First(L, m), Counted(L, r, 1), L[r][1].what = m,
         x.what # m, \A q \in Ranks : L2[q] \in Seq(LineT)
  PROVE  ~InLine(L2, m)
  <1> SUFFICES ASSUME NEW q \in Ranks, NEW i \in DOMAIN L2[q], Counted(L2, q, i),
                      L2[q][i].what = m
               PROVE  FALSE
    BY DEF InLine
  <1>1. 1 \in DOMAIN L[r]
    BY DEF Counted
  <1>2. \/ q # r /\ Counted(L, q, i) /\ L2[q][i] = L[q][i]
        \/ q = r /\ Counted(L, q, i + 1) /\ L2[q][i] = L[q][i + 1]
    BY DEF Comes
  <1>3. CASE q # r /\ Counted(L, q, i) /\ L2[q][i] = L[q][i]
    <2>1. i \in DOMAIN L[q] /\ <<q, i>> # <<r, 1>>
      BY <1>3 DEF Counted
    <2>2. Ahead(q, i, r, 1) /\ Ahead(r, 1, q, i)
      BY <1>1, <1>3, <2>1 DEF First
    <2> QED
      BY <1>1, <2>1, <2>2, AheadStrict
  <1>4. CASE q = r /\ Counted(L, q, i + 1) /\ L2[q][i] = L[q][i + 1]
    <2>1. i + 1 \in DOMAIN L[q] /\ i + 1 # 1
      <3>1. i \in 1 .. Len(L2[q]) /\ Len(L2[q]) \in Nat
        BY LenProperties
      <3> QED
        BY <1>4, <3>1 DEF Counted
    <2>2. Ahead(q, i + 1, r, 1) /\ Ahead(r, 1, q, i + 1)
      BY <1>1, <1>4, <2>1 DEF First
    <2> QED
      BY <1>1, <2>1, <2>2, AheadStrict
  <1> QED
    BY <1>2, <1>3, <1>4

LEMMA NoneIsFirst ==
  ASSUME NEW L, NEW m, ~InLine(L, m)
  PROVE  First(L, m)
  BY DEF First, InLine

\* The reply comes to a line of which all else is still at rank 14.
LEMMA ReplyEnters ==
  ASSUME NEW L \in Lines, NEW L2, NEW x \in LineT, L2[12] = Append(L[12], x),
         x.do = "compress", x.what = "accepted",
         \A q \in Ranks \ {12} : Stays(L[q], L2[q], q, {}),
         ~InLine(L, "accepted"), Placed(L, FALSE, FALSE)
  PROVE  First(L2, "accepted") /\ InLine(L2, "accepted")
  <1>0. 12 \in Ranks /\ Kind[12] = "compress"
    BY DEF Ranks, Kind
  <1>1. \A q \in Ranks : L[q] \in Seq(LineT) /\ DOMAIN L[q] = 1 .. Len(L[q])
                         /\ Len(L[q]) \in Nat
    BY LenProperties DEF Lines
  <1>2. \A q \in Ranks \ {12} :
          \A i \in DOMAIN L2[q] : \/ i \in DOMAIN L[q] /\ L2[q][i] = L[q][i]
                                  \/ L2[q][i].do # Kind[q]
    BY <1>1, StaysPlaces
  <1>3. /\ DOMAIN L2[12] = 1 .. Len(L[12]) + 1
        /\ \A i \in 1 .. Len(L[12]) : L2[12][i] = L[12][i]
        /\ L2[12][Len(L[12]) + 1] = x
    BY <1>0, <1>1, AppendProperties, LenProperties
  <1> DEFINE l == Len(L[12]) + 1
  <1>4. ASSUME NEW q \in Ranks, NEW i \in DOMAIN L2[q], Counted(L2, q, i)
        PROVE  \/ q = 12 /\ i = l
               \/ L2[q][i].what # "accepted" /\ q = 14
    <2>1. (i \in DOMAIN L[q] /\ L2[q][i] = L[q][i]) \/ (q = 12 /\ i = l)
      <3>1. CASE q = 12
        <4>1. i \in 1 .. Len(L[12]) + 1 /\ Len(L[12]) \in Nat
          BY <1>0, <1>1, <1>3, <3>1
        <4> QED
          BY <1>0, <1>1, <1>3, <3>1, <4>1
      <3>2. CASE q # 12
        BY <1>2, <1>4, <3>2 DEF Counted
      <3> QED
        BY <3>1, <3>2
    <2>2. CASE i \in DOMAIN L[q] /\ L2[q][i] = L[q][i]
      BY <1>4, <2>2 DEF Counted, Placed, InLine
    <2> QED
      BY <2>1, <2>2
  <1>5. l \in DOMAIN L2[12] /\ Counted(L2, 12, l) /\ L2[12][l].what = "accepted"
    BY <1>0, <1>1, <1>3 DEF Counted
  <1> HIDE DEF l
  <1>6. First(L2, "accepted")
    <2> SUFFICES ASSUME NEW q \in Ranks, NEW k \in Ranks, NEW i \in DOMAIN L2[q],
                        NEW j \in DOMAIN L2[k], Counted(L2, q, i), Counted(L2, k, j),
                        L2[q][i].what = "accepted", <<q, i>> # <<k, j>>
                 PROVE  Ahead(q, i, k, j)
      BY DEF First
    <2>1. q = 12 /\ i = l
      BY <1>4
    <2>2. k = 14
      BY <1>4, <2>1
    <2> QED
      BY <2>1, <2>2 DEF Ahead
  <1> QED
    BY <1>0, <1>5, <1>6 DEF InLine

\* Data comes to a line, behind all of it.
LEMMA DataEnters ==
  ASSUME NEW L \in Lines, NEW L2, NEW m, m \notin Handshake, Enters(L, L2, m, {}),
         \A q \in Ranks : L2[q] \in Seq(LineT)
  PROVE  /\ SealedRight(L) => SealedRight(L2)
         /\ First(L, "accepted") => First(L2, "accepted")
         /\ \A near, gone : Placed(L, near, gone) => Placed(L2, near, gone)
         /\ InLine(L2, "accepted") => InLine(L, "accepted")
  <1>0. 14 \in Ranks /\ "accepted" \in Handshake /\ \A q \in Ranks : q \in Nat /\ q <= 14
    BY DEF Ranks, Handshake
  <1>1. \A q \in Ranks : \A j \in DOMAIN L2[q] : Counted(L2, q, j) =>
          \/ Counted(L, q, j) /\ j \in DOMAIN L[q] /\ L2[q][j] = L[q][j]
          \/ q = 14 /\ j = Len(L[14]) + 1 /\ L2[q][j].what = m
    BY DEF Enters, Counted
  <1>2. ASSUME SealedRight(L) PROVE SealedRight(L2)
    <2>1. ~(14 \in 4 .. 12) /\ ~(14 \in 2 .. 3)
      OBVIOUS
    <2> QED
      BY <1>1, <1>2, <2>1 DEF SealedRight
  <1>3. ASSUME NEW near, NEW gone, Placed(L, near, gone) PROVE Placed(L2, near, gone)
    <2>1. ~(14 <= 4)
      OBVIOUS
    <2> QED
      BY <1>1, <1>3, <2>1 DEF Placed
  <1>4. InLine(L2, "accepted") => InLine(L, "accepted")
    BY <1>0, <1>1 DEF InLine
  <1>5. ASSUME First(L, "accepted") PROVE First(L2, "accepted")
    <2> SUFFICES ASSUME NEW q \in Ranks, NEW k \in Ranks, NEW i \in DOMAIN L2[q],
                        NEW j \in DOMAIN L2[k], Counted(L2, q, i), Counted(L2, k, j),
                        L2[q][i].what = "accepted", <<q, i>> # <<k, j>>
                 PROVE  Ahead(q, i, k, j)
      BY DEF First
    <2>1. Counted(L, q, i) /\ i \in DOMAIN L[q] /\ L2[q][i] = L[q][i]
      BY <1>0, <1>1
    <2>2. CASE Counted(L, k, j) /\ j \in DOMAIN L[k]
      BY <1>5, <2>1, <2>2 DEF First
    <2>3. CASE k = 14 /\ j = Len(L[14]) + 1
      <3>1. DOMAIN L[q] = 1 .. Len(L[q]) /\ Len(L[q]) \in Nat
        BY LenProperties DEF Lines
      <3> QED
        BY <1>0, <2>1, <2>3, <3>1 DEF Ahead
    <2> QED
      BY <1>1, <2>2, <2>3
  <1> QED
    BY <1>2, <1>3, <1>4, <1>5

-----------------------------------------------------------------------------
(* The steps that leave the handshake alone.                               *)

\* The line of f goes on as it should: nothing is new to it, what moves is
\* sealed right, and no data comes to a client that is not confirmed, or leaves
\* its first queue while the session is replying.
GoesWell(f) ==
  \E r \in Ranks \cup {0} : \E x :
    /\ Comes(Line(f), Line(f)', r, x, {})
    /\ r # 0 /\ Counted(Line(f), r, 1) => SealPasses(r, x)
    /\ f = "session" =>
         /\ r = 5 /\ Counted(Line(f), 5, 1) /\ Line(f)[5][1].what # "accepted"
              => condition'["client"] = "Confirmed"
         /\ r = 14 => ~Replying'

LEMMA WellIf ==
  ASSUME NEW f, NEW r \in Ranks \cup {0}, NEW x, Comes(Line(f), Line(f)', r, x, {}),
         r # 0 /\ Counted(Line(f), r, 1) => SealPasses(r, x),
         f = "session" =>
           /\ r = 5 /\ Counted(Line(f), 5, 1) /\ Line(f)[5][1].what # "accepted"
                => condition'["client"] = "Confirmed"
           /\ r = 14 => ~Replying'
  PROVE  GoesWell(f)
  BY DEF GoesWell

LEMMA StillWell ==
  ASSUME NEW f, NEW x, Comes(Line(f), Line(f)', 0, x, {})
  PROVE  GoesWell(f)
  <1>1. 0 \in Ranks \cup {0} /\ ~(0 = 5) /\ ~(0 = 14)
    OBVIOUS
  <1> QED
    BY <1>1 DEF GoesWell

LEMMA NothingNew ==
  ASSUME NEW L, NEW L2, NEW r \in Ranks \cup {0}, NEW x, Comes(L, L2, r, x, {}), NEW m,
         InLine(L2, m)
  PROVE  InLine(L, m)
  <1>1. PICK q \in Ranks : \E i \in DOMAIN L2[q] : Counted(L2, q, i) /\ L2[q][i].what = m
    BY DEF InLine
  <1>2. PICK i \in DOMAIN L2[q] : Counted(L2, q, i) /\ L2[q][i].what = m
    BY <1>1
  <1>3. CameFrom(L, L2, r, q, i)
    BY <1>2, ComesFrom
  <1> QED
    BY <1>2, <1>3 DEF CameFrom, InLine

LEMMA LineGoesOn ==
  ASSUME ConnectionInv, ConnectionInv', InOrderPool, NEW f \in Ends, LineHealth(f),
         GoesWell(f), sent'[f] = sent[f],
         condition'[f] # "Confirmed" => condition[f] # "Confirmed",
         \A m \in Range(sent[f]) : InLine(Line(f), m) => InLine(Line(f)', m)
  PROVE  LineHealth(f)'
  <1> DEFINE L == Line(f)
             L2 == Line(f)'
             h == Hello(f)
             s == sent[f]
  <1>1. L \in Lines /\ L2 \in Lines
    BY LinesTyped, LinesTypedNext
  <1>2. PICK r \in Ranks \cup {0} : \E x :
          /\ Comes(L, L2, r, x, {})
          /\ r # 0 /\ Counted(L, r, 1) => SealPasses(r, x)
    BY DEF GoesWell
  <1>3. PICK x : /\ Comes(L, L2, r, x, {})
                 /\ r # 0 /\ Counted(L, r, 1) => SealPasses(r, x)
    BY <1>2
  <1>4. Known(L, s, {h}) /\ SealedRight(L)
    BY DEF LineHealth
  <1>5. \A m \in Range(s) : InLine(L2, m)
    BY DEF LineHealth
  <1>6. condition'[f] # "Confirmed" => s = <<>>
    BY DEF LineHealth
  <1> HIDE DEF L, L2, h, s
  <1>7. {} \in SUBSET Handshake /\ {} \subseteq {h}
    OBVIOUS
  <1>8. Known(L2, s, {h})
    BY <1>3, <1>4, <1>7, KnownKept
  <1>9. SealedRight(L2)
    BY <1>1, <1>3, <1>4, <1>7, SealedKept
  <1>10. sent'[f] = s
    BY DEF s
  <1>11. SealedRight(Line(f))'
    BY <1>9 DEF L2, SealedRight, Handshake
  <1>12. Known(Line(f)', sent'[f], {Hello(f)})
    BY <1>8, <1>10 DEF L2, h
  <1> QED
    BY <1>5, <1>6, <1>10, <1>11, <1>12 DEF LineHealth, L2

LEMMA ReplyStaysFirst ==
  ASSUME ConnectionInv, ConnectionInv', InOrderPool, ReplyFirst, GoesWell("session"),
         condition["client"] = "Confirmed" => condition'["client"] = "Confirmed",
         Replying' => Replying
  PROVE  /\ ReplyFirst'
         /\ OnItsWay' => OnItsWay
  <1> DEFINE L == Line("session")
             L2 == Line("session")'
             near == condition["client"] = "Confirmed"
             near2 == condition'["client"] = "Confirmed"
             gone == ~Replying
             gone2 == ~Replying'
  <1>0. "session" \in Ends
    BY DEF Ends
  <1>1. L \in Lines /\ L2 \in Lines
    BY <1>0, LinesTyped, LinesTypedNext
  <1>2. PICK r \in Ranks \cup {0} : \E x :
          /\ Comes(L, L2, r, x, {})
          /\ r = 5 /\ Counted(L, 5, 1) /\ L[5][1].what # "accepted" => near2
          /\ r = 14 => gone2
    BY DEF GoesWell
  <1>3. PICK x :
          /\ Comes(L, L2, r, x, {})
          /\ r = 5 /\ Counted(L, 5, 1) /\ L[5][1].what # "accepted" => near2
          /\ r = 14 => gone2
    BY <1>2
  <1>4. First(L, "accepted") /\ Placed(L, near, gone) /\ (near => near2) /\ (gone => gone2)
    BY DEF ReplyFirst
  <1> HIDE DEF L, L2, near, near2, gone, gone2
  <1>5. \A q \in Ranks : L2[q] \in Seq(LineT)
    BY <1>1 DEF Lines
  <1>6. First(L2, "accepted")
    BY <1>1, <1>3, <1>4, <1>5, FirstKept
  <1>7. Placed(L2, near2, gone2)
    BY <1>1, <1>3, <1>4, PlacedKept
  <1>8. InLine(L2, "accepted") => InLine(L, "accepted")
    BY <1>3, NothingNew
  <1> QED
    BY <1>6, <1>7, <1>8 DEF ReplyFirst, OnItsWay, L, L2, near2, gone2

\* Nothing of the handshake happens.
LEMMA PhasesStay ==
  ASSUME Runs, Phases, Keys, UNCHANGED <<condition, cipher, up, closed, reader>>,
         \A e \in Ends : \/ StepOf(e)' = StepOf(e)
                         \/ StepOf(e) \in {"idle", "work"} /\ StepOf(e)' \in {"idle", "work"},
         OnItsWay' <=> OnItsWay
  PROVE  Runs' /\ Phases' /\ Keys' /\ (Replying' <=> Replying)
  <1>1. "client" \in Ends /\ "session" \in Ends
    BY DEF Ends
  <1>2. /\ \A s \in {"confirm", "assign", "notify", "reply"} : \A e \in Ends :
             StepOf(e)' = s <=> StepOf(e) = s
        /\ Replying' <=> Replying
        /\ AtClient' <=> AtClient
    BY <1>1 DEF Replying, AtClient
  <1>3. Runs'
    BY <1>1 DEF Runs
  <1>4. Replied' <=> Replied
    BY <1>2 DEF Replied
  <1>5. Phases'
    BY <1>1, <1>2, <1>4 DEF Phases
  <1>6. Keys'
    BY <1>1, <1>2 DEF Keys
  <1> QED
    BY <1>2, <1>3, <1>5, <1>6

\* The line of f loses nothing that was sent, nor the reply.
LosesNone(f) ==
  \A m \in Range(sent[f]) \cup {"accepted"} : InLine(Line(f), m) => InLine(Line(f)', m)

LEMMA KeepsAll ==
  ASSUME NEW f, Keeps(Line(f), Line(f)')
  PROVE  LosesNone(f)
  BY DEF Keeps, LosesNone

\* The steps that only move what is in the lines.
LEMMA FineStays ==
  ASSUME ConnectionInv, ConnectionInv', InOrderPool, Fine,
         UNCHANGED <<condition, cipher, up, closed, reader, sent>>,
         \A e \in Ends : \/ StepOf(e)' = StepOf(e)
                         \/ StepOf(e) \in {"idle", "work"} /\ StepOf(e)' \in {"idle", "work"},
         \A f \in Ends : GoesWell(f) /\ LosesNone(f)
  PROVE  Fine'
  <1>1. "client" \in Ends /\ "session" \in Ends
    BY DEF Ends
  <1>2. \A f \in Ends : LineHealth(f)'
    <2> SUFFICES ASSUME NEW f \in Ends PROVE LineHealth(f)'
      OBVIOUS
    <2>1. \A m \in Range(sent[f]) : InLine(Line(f), m) => InLine(Line(f)', m)
      BY DEF LosesNone
    <2> QED
      BY <2>1, LineGoesOn DEF Fine
  <1>3. Replying' => Replying
    BY <1>1 DEF Replying
  <1>4. ReplyFirst' /\ (OnItsWay' => OnItsWay)
    BY <1>1, <1>3, ReplyStaysFirst DEF Fine
  <1>5. OnItsWay => OnItsWay'
    BY <1>1 DEF OnItsWay, LosesNone
  <1>6. Runs' /\ Phases' /\ Keys'
    BY <1>4, <1>5, PhasesStay DEF Fine
  <1> QED
    BY <1>2, <1>4, <1>6 DEF Fine

-----------------------------------------------------------------------------
(* Where data of a line can be, and what its ends have done.               *)

\* Data is in a line only if its end was confirmed.
LEMMA DataWasSent ==
  ASSUME Fine, NEW f \in Ends, NEW q \in Ranks, NEW i, Counted(Line(f), q, i),
         Line(f)[q][i].what \notin Handshake
  PROVE  /\ condition[f] = "Confirmed"
         /\ f = "client" => Replied
         /\ condition["session"] = "Confirmed"
  <1>1. i \in DOMAIN Line(f)[q]
    BY DEF Counted
  <1>2. Hello(f) \in Handshake
    BY DEF Hello, Handshake
  <1>3. Known(Line(f), sent[f], {Hello(f)}) /\ (condition[f] # "Confirmed" => sent[f] = <<>>)
    BY DEF Fine, LineHealth
  <1>4. Line(f)[q][i].what \in Range(sent[f])
    BY <1>1, <1>2, <1>3 DEF Known
  <1>5. sent[f] # <<>>
    <2>1. sent[f] = <<>> => Range(sent[f]) = {}
      BY DEF Range
    <2> QED
      BY <1>4, <2>1
  <1>6. condition[f] = "Confirmed"
    BY <1>3, <1>5
  <1> QED
    BY <1>6 DEF Fine, Phases, Replied, Ends

LEMMA HandshakeIsHello ==
  ASSUME OrderInv, Fine, NEW f \in Ends, NEW q \in Ranks, NEW i, Counted(Line(f), q, i),
         Line(f)[q][i].what \in Handshake
  PROVE  Line(f)[q][i].what = Hello(f)
  <1>1. i \in DOMAIN Line(f)[q]
    BY DEF Counted
  <1>2. Range(sent[f]) \cap Handshake = {}
    BY SentIsData DEF OrderInv, OrderOf
  <1>3. Known(Line(f), sent[f], {Hello(f)})
    BY DEF Fine, LineHealth
  <1>4. Line(f)[q][i].what \in Range(sent[f]) \cup {Hello(f)}
    BY <1>1, <1>3 DEF Known
  <1> QED
    BY <1>2, <1>4

\* Data that is near its application comes to an end with the key.
LEMMA NearIsReady ==
  ASSUME Fine, NEW e \in Ends, NEW q \in Ranks, q <= 4, NEW i,
         Counted(Line(Peer(e)), q, i), Line(Peer(e))[q][i].what \notin Handshake
  PROVE  condition[e] = "Confirmed" /\ cipher[e] = EncryptMode
  <1>1. CASE e = "client"
    <2>1. Peer(e) = "session"
      BY <1>1 DEF Peer
    <2>2. Placed(Line("session"), condition["client"] = "Confirmed", ~Replying)
      BY DEF Fine, ReplyFirst
    <2>3. i \in DOMAIN Line("session")[q] /\ Line("session")[q][i].what # "accepted"
      BY <2>1 DEF Counted, Handshake
    <2>4. condition["client"] = "Confirmed"
      BY <2>1, <2>2, <2>3 DEF Placed
    <2> QED
      BY <1>1, <2>4 DEF Fine, Keys
  <1>2. CASE e = "session"
    <2> DEFINE p == Peer(e)
    <2>1. p = "client" /\ p \in Ends
      BY <1>2 DEF Peer, Ends
    <2> HIDE DEF p
    <2>2. Counted(Line(p), q, i) /\ Line(p)[q][i].what \notin Handshake
      BY DEF p
    <2>3. Replied
      BY <2>1, <2>2, DataWasSent
    <2>4. StepOf("session") # "notify" /\ condition["session"] = "Confirmed"
      BY <2>3 DEF Replied, Replying
    <2> QED
      BY <1>2, <2>4 DEF Fine, Keys
  <1> QED
    BY <1>1, <1>2 DEF Ends

\* Data is encrypted by an end with the key.
LEMMA SenderIsReady ==
  ASSUME Fine, NEW f \in Ends, NEW q \in Ranks, NEW i,
         Counted(Line(f), q, i), Line(f)[q][i].what \notin Handshake,
         StepOf(f) = "work"
  PROVE  cipher[f] = EncryptMode
  <1>1. condition[f] = "Confirmed"
    BY DataWasSent
  <1> QED
    BY <1>1 DEF Fine, Keys, Ends

\* Data comes to the hand of a client when the reply has been there.
LEMMA ReplyHasCome ==
  ASSUME ConnectionInv, InOrderPool, OrderInv, Fine, doing["client"][Handler] = Idle,
         queue["client"]["High"] = <<>>,
         Counted(Line("session"), 5, 1), Line("session")[5][1].what # "accepted"
  PROVE  condition["client"] = "Confirmed"
  <1> DEFINE L == Line("session")
  <1>1. /\ "session" \in Ends /\ "client" \in Ends /\ Peer("session") = "client"
        /\ 5 \in Ranks /\ 1 \in DOMAIN L[5]
    BY DEF Ends, Peer, Ranks, Counted
  <1>2. L[2] = <<>> /\ L[3] = <<>> /\ L[4] = <<>> /\ L[1] = Given(received["client"])
    <2>1. doing["client"][Handler].step # "work"
      BY DEF Idle
    <2> QED
      BY <1>1, <2>1, HandIs, LineIs
  <1>3. L[5][1].what \notin Handshake
    <2>1. L[5][1].what \in Handshake => L[5][1].what = Hello("session")
      BY <1>1, HandshakeIsHello
    <2> QED
      BY <2>1 DEF Hello
  <1>4. condition["session"] = "Confirmed"
    BY <1>1, <1>3, DataWasSent
  <1>5. ~Replying
    <2>1. Placed(L, condition["client"] = "Confirmed", ~Replying)
      BY DEF Fine, ReplyFirst
    <2>2. 5 # 14
      OBVIOUS
    <2> QED
      BY <1>1, <2>1, <2>2 DEF Placed
  <1>6. ~AtClient
    BY DEF AtClient, StepOf, Idle
  <1>7. ~OnItsWay
    <2> SUFFICES ASSUME OnItsWay PROVE FALSE
      OBVIOUS
    <2>1. PICK q \in Ranks : \E i \in DOMAIN L[q] : Counted(L, q, i) /\ L[q][i].what = "accepted"
      BY DEF OnItsWay, InLine
    <2>2. PICK i \in DOMAIN L[q] : Counted(L, q, i) /\ L[q][i].what = "accepted"
      BY <2>1
    <2>3. <<q, i>> # <<5, 1>>
      BY <2>2
    <2>4. Ahead(q, i, 5, 1)
      BY <1>1, <2>2, <2>3 DEF Fine, ReplyFirst, First
    <2>5. L \in Lines
      BY <1>1, LinesTyped
    <2>6. i \in 1 .. Len(L[q]) /\ Len(L[q]) \in Nat
      BY <2>2, <2>5, LenProperties DEF Lines
    <2>7. q = 1
      <3>1. q < 5
        BY <2>4, <2>6 DEF Ahead
      <3>2. q = 1 \/ q = 2 \/ q = 3 \/ q = 4
        BY <3>1 DEF Ranks
      <3>3. DOMAIN <<>> = {}
        OBVIOUS
      <3> QED
        BY <1>2, <2>2, <3>2, <3>3
    <2>8. i \in 1 .. Len(received["client"]) /\ L[1][i].what = received["client"][i]
      <3> HIDE DEF L
      <3> QED
        BY <1>2, <2>2, <2>7 DEF Given, Job
    <2>9. "accepted" \in Range(received["client"])
      <3>1. received["client"] \in Seq(Content)
        BY <1>1 DEF ConnectionInv, HistoryInv
      <3>2. DOMAIN received["client"] = 1 .. Len(received["client"])
        BY <3>1, LenProperties
      <3> QED
        BY <2>2, <2>7, <2>8, <3>2 DEF Range
    <2> QED
      BY <1>1, <2>9 DEF OrderInv, OrderOf, Handshake
  <1>8. condition["client"] \in Conditions /\ condition["client"] # "Expired"
    BY <1>1 DEF Fine, Runs, ConnectionInv
  <1> QED
    BY <1>4, <1>5, <1>6, <1>7, <1>8 DEF Fine, Phases, Replied, Conditions

-----------------------------------------------------------------------------
(* A worker takes a job or hands it on, while all is well.                 *)

LEMMA EndsAre ==
  /\ "client" \in Ends /\ "session" \in Ends
  /\ Peer("client") = "session" /\ Peer("session") = "client"
  /\ \A e \in Ends : e = "client" \/ e = "session"
  /\ \A e, f \in Ends : f = e \/ f = Peer(e)
  BY DEF Ends, Peer

\* A worker that takes a job or is done with it.
LEMMA WorkersStep ==
  ASSUME InOrderPool, NEW e \in Ends, NEW w \in Workers, OthersGoOn(e, w),
         doing[e][w].step \in {"idle", "work"}, doing'[e][w].step \in {"idle", "work"}
  PROVE  \A f \in Ends : \/ StepOf(f)' = StepOf(f)
                         \/ StepOf(f) \in {"idle", "work"} /\ StepOf(f)' \in {"idle", "work"}
  BY PoolIs DEF OthersGoOn, StepOf

LEMMA TakeFine ==
  ASSUME ConnectionInv, ConnectionInv', InOrderPool, OrderInv, Fine,
         NEW e \in Ends, NEW w \in Workers, Take(e, w)
  PROVE  Fine'
  <1> DEFINE p == Peer(e)
  <1>1. PICK r \in {0, 10, 12, 14} :
          /\ Comes(Line(e), Line(e)', r, Head(Line(e)[r]), {})
          /\ Keeps(Line(e), Line(e)')
          /\ r = 14 => doing[e][Handler] = Idle
    BY TakeMoves
  <1>2. PICK k \in {0, 3, 5, 7} :
          /\ Comes(Line(p), Line(p)', k, Head(Line(p)[k]), {})
          /\ Keeps(Line(p), Line(p)')
          /\ k = 5 => doing[e][Handler] = Idle /\ queue[e]["High"] = <<>>
    BY TakeMoves
  <1>3. r \in Ranks \cup {0} /\ k \in Ranks \cup {0} /\ p \in Ends /\ e \in Ends
    BY PeerIsEnd DEF Ranks
  <1>4. \A f \in Ends, n \in Ranks : Counted(Line(f), n, 1) /\ n \notin {4, 13}
           => SealPasses(n, Head(Line(f)[n]))
    <2> SUFFICES ASSUME NEW f \in Ends, NEW n \in Ranks, Counted(Line(f), n, 1),
                        n \notin {4, 13}
                 PROVE  SealPasses(n, Head(Line(f)[n]))
      OBVIOUS
    <2>1. Line(f) \in Lines
      BY LinesTyped
    <2>2. Line(f)[n] \in Seq(LineT) /\ 1 \in DOMAIN Line(f)[n]
      BY <2>1 DEF Lines, Counted
    <2>3. Line(f)[n] # <<>> /\ Head(Line(f)[n]) = Line(f)[n][1]
      <3>1. Line(f)[n] # <<>>
        BY <2>2
      <3> QED
        BY <2>2, <3>1, HeadTailProperties
    <2>4. SealedRight(Line(f))
      BY DEF Fine, LineHealth
    <2> QED
      BY <2>1, <2>3, <2>4, SealCarried
  <1>5. /\ r # 0 /\ Counted(Line(e), r, 1) => SealPasses(r, Head(Line(e)[r]))
        /\ k # 0 /\ Counted(Line(p), k, 1) => SealPasses(k, Head(Line(p)[k]))
    <2>1. /\ r # 0 => r \in Ranks /\ r \notin {4, 13}
          /\ k # 0 => k \in Ranks /\ k \notin {4, 13}
      BY <1>3
    <2> QED
      BY <1>3, <1>4, <2>1
  <1>6. /\ doing[e][w].step = "idle" /\ doing'[e][w].step = "work" /\ OthersGoOn(e, w)
    BY TakeHand DEF OthersGoOn, Idle
  <1>7. \A f \in Ends : \/ StepOf(f)' = StepOf(f)
                        \/ StepOf(f) \in {"idle", "work"} /\ StepOf(f)' \in {"idle", "work"}
    BY <1>6, WorkersStep
  <1>8. UNCHANGED <<condition, cipher, up, closed, reader, sent>>
    BY DEF Take, link, traffic
  <1>9. GoesWell(e)
    <2>1. e = "session" /\ r = 14 => ~Replying'
      <3>1. e = "session" /\ r = 14 => StepOf(e) = "idle"
        BY <1>1 DEF StepOf, Idle
      <3> QED
        BY <1>7, <3>1 DEF Replying
    <2>2. r # 5
      OBVIOUS
    <2> QED
      BY <1>1, <1>3, <1>5, <2>1, <2>2, WellIf
  <1>10. GoesWell(p)
    <2>1. p = "session" /\ k = 5 /\ Counted(Line(p), 5, 1) /\ Line(p)[5][1].what # "accepted"
            => condition'["client"] = "Confirmed"
      <3>1. p = "session" => e = "client"
        BY EndsAre
      <3> HIDE DEF p
      <3> QED
        BY <1>2, <1>8, <3>1, ReplyHasCome
    <2>2. k # 14
      OBVIOUS
    <2> HIDE DEF p
    <2> QED
      BY <1>2, <1>3, <1>5, <2>1, <2>2, WellIf
  <1>11. LosesNone(e) /\ LosesNone(p)
    BY <1>1, <1>2, KeepsAll
  <1>12. \A f \in Ends : f = e \/ f = p
    BY EndsAre
  <1> HIDE DEF p
  <1> QED
    BY <1>7, <1>8, <1>9, <1>10, <1>11, <1>12, FineStays

LEMMA StageFine ==
  ASSUME ConnectionInv, ConnectionInv', InOrderPool, OrderInv, Fine,
         NEW e \in Ends, NEW w \in Workers, Stage(e, w)
  PROVE  Fine'
  <1> DEFINE job == doing[e][w].job
             x == NextJob(e, job)
  <1>1. PICK r \in {4, 6, 11, 13} : \E f \in Ends :
           /\ Holder(f, r) = e /\ Line(f)[r] = <<job>> /\ job.do = Kind[r]
           /\ Comes(Line(f), Line(f)', r, x, {})
           /\ StagePasses(e, job) => Keeps(Line(f), Line(f)')
           /\ \A m : InLine(Line(f), m) /\ m # job.what => InLine(Line(f)', m)
           /\ Comes(Line(Peer(f)), Line(Peer(f))', 0, x, {})
           /\ Keeps(Line(Peer(f)), Line(Peer(f))')
    BY StageMoves
  <1>2. PICK f \in Ends :
           /\ Holder(f, r) = e /\ Line(f)[r] = <<job>> /\ job.do = Kind[r]
           /\ Comes(Line(f), Line(f)', r, x, {})
           /\ StagePasses(e, job) => Keeps(Line(f), Line(f)')
           /\ \A m : InLine(Line(f), m) /\ m # job.what => InLine(Line(f)', m)
           /\ Comes(Line(Peer(f)), Line(Peer(f))', 0, x, {})
           /\ Keeps(Line(Peer(f)), Line(Peer(f))')
    BY <1>1
  <1>3. /\ doing[e][w].step = "work" /\ Done(e, w) /\ job \in JobT
        /\ UNCHANGED <<condition, cipher, up, closed, reader, sent>>
    BY DEF Stage, link, traffic, ConnectionInv, WorkInv
  <1>4. OthersGoOn(e, w) /\ doing'[e][w].step = "idle"
    BY <1>3, DoneHand DEF OthersGoOn
  <1>5. StepOf(e) = "work"
    <2>1. job.do # "send"
      BY <1>2, KindIs
    <2>2. w = Handler
      BY <1>3, <2>1, HandlersJob, PoolIs
    <2> QED
      BY <1>3, <2>2 DEF StepOf
  <1>6. /\ x.what = job.what
        /\ r = 4 => x.sealed = (job.sealed /\ ~cipher[e]) /\ job.do = "decrypt"
        /\ r \in {6, 11} => x.sealed = job.sealed
        /\ r = 13 => x.sealed = cipher[e]
        /\ r # 4 => job.do # "decrypt"
    <2>1. /\ r = 4 => job.do = "decrypt"
          /\ r = 6 => job.do = "decompress"
          /\ r = 11 => job.do = "compress"
          /\ r = 13 => job.do = "encrypt"
      BY <1>2, KindIs
    <2>2. x.what = job.what
          /\ x.sealed = CASE job.do = "encrypt" -> cipher[e]
                          [] job.do = "decrypt" -> (job.sealed /\ ~cipher[e])
                          [] OTHER -> job.sealed
      BY DEF NextJob, Job
    <2> QED
      BY <2>1, <2>2
  <1>7. /\ r \in Ranks /\ Counted(Line(f), r, 1) /\ Line(f)[r][1] = job
        /\ InLine(Line(f), job.what)
    <2>1. r \in Ranks /\ 1 \in DOMAIN Line(f)[r] /\ Line(f)[r][1] = job
      BY <1>2 DEF Ranks
    <2> QED
      BY <1>2, <2>1 DEF Counted, InLine
  <1>8. r = 4 => f = Peer(e)
    BY <1>2, PeerOfPeer DEF Holder
  <1>9. r \in {11, 13} => f = e
    BY <1>2 DEF Holder
  <1>10. condition[e] # "Expired" /\ ~closed[e]
    BY DEF Fine, Runs
  <1> HIDE DEF x, job
  <1>11. CASE job.what \notin Handshake
    <2>1. r = 4 => job.sealed = EncryptMode /\ cipher[e] = EncryptMode
      <3>0. 4 \in 4 .. 12
        OBVIOUS
      <3>1. SealedRight(Line(f))
        BY DEF Fine, LineHealth
      <3>2. r = 4 => job.sealed = EncryptMode
        BY <1>7, <1>11, <3>0, <3>1 DEF SealedRight, Counted
      <3>3. r = 4 => cipher[e] = EncryptMode
        BY <1>7, <1>8, <1>11, NearIsReady
      <3> QED
        BY <3>2, <3>3
    <2>2. StagePasses(e, job)
      BY <1>6, <1>10, <2>1 DEF StagePasses
    <2>3. SealPasses(r, x)
      <3>1. CASE r = 4
        <4>1. ~x.sealed
          BY <1>6, <2>1, <3>1, ConnectionAssumption, Zenon
        <4>2. r \notin 5 .. 13
          BY <3>1
        <4> QED
          BY <4>1, <4>2, Zenon DEF SealPasses
      <3>2. CASE r \in {6, 11}
        <4>1. SealedRight(Line(f)) /\ Line(f) \in Lines
          BY LinesTyped DEF Fine, LineHealth
        <4> QED
          BY <1>6, <1>7, <3>2, <4>1, SealCarried
      <3>3. CASE r = 13
        <4>1. cipher[e] = EncryptMode
          BY <1>5, <1>7, <1>9, <1>11, <3>3, SenderIsReady
        <4> QED
          BY <1>6, <3>3, <4>1 DEF SealPasses
      <3> QED
        BY <3>1, <3>2, <3>3
    <2> QED
      <3>1. LosesNone(f)
        BY <1>2, <2>2, KeepsAll
      <3>2. GoesWell(f)
        BY <1>2, <1>7, <2>3, WellIf
      <3>3. GoesWell(Peer(f)) /\ LosesNone(Peer(f))
        BY <1>2, StillWell, KeepsAll
      <3>4. \A g \in Ends : GoesWell(g) /\ LosesNone(g)
        BY <3>1, <3>2, <3>3, EndsAre
      <3>5. \A g \in Ends : \/ StepOf(g)' = StepOf(g)
                            \/ StepOf(g) \in {"idle", "work"} /\ StepOf(g)' \in {"idle", "work"}
        BY <1>3, <1>4, WorkersStep
      <3> QED
        BY <1>3, <3>4, <3>5, FineStays
  <1>12. CASE job.what \in Handshake
    <2>1. job.what = Hello(f)
      BY <1>7, <1>12, HandshakeIsHello
    <2>2. f = "session" => StagePasses(e, job)
      <3>1. f = "session" => OnItsWay
        BY <1>7, <2>1 DEF Hello, OnItsWay
      <3>2. OnItsWay => ~cipher["client"]
        BY DEF Fine, Phases, Keys, AtClient
      <3>3. f = "session" /\ r = 4 => e = "client"
        BY <1>8, EndsAre
      <3> QED
        BY <1>6, <1>10, <3>1, <3>2, <3>3 DEF StagePasses
    <2>3. LosesNone(f)
      <3>1. CASE f = "session"
        BY <1>2, <2>2, <3>1, KeepsAll
      <3>2. CASE f = "client"
        <4>1. job.what = "request" /\ "request" \in Handshake
          BY <2>1, <3>2 DEF Hello, Handshake
        <4>2. Range(sent[f]) \cap Handshake = {}
          BY SentIsData DEF OrderInv, OrderOf
        <4> QED
          BY <1>2, <4>1, <4>2 DEF LosesNone
      <3> QED
        BY <3>1, <3>2, EndsAre
    <2>4. SealPasses(r, x)
      BY <1>6, <1>12 DEF SealPasses
    <2>5. GoesWell(f)
      BY <1>2, <1>7, <2>4, WellIf
    <2>6. GoesWell(Peer(f)) /\ LosesNone(Peer(f))
      BY <1>2, StillWell, KeepsAll
    <2>7. \A g \in Ends : GoesWell(g) /\ LosesNone(g)
      BY <2>3, <2>5, <2>6, EndsAre
    <2>8. \A g \in Ends : \/ StepOf(g)' = StepOf(g)
                          \/ StepOf(g) \in {"idle", "work"} /\ StepOf(g)' \in {"idle", "work"}
      BY <1>3, <1>4, WorkersStep
    <2> QED
      BY <1>3, <2>7, <2>8, FineStays
  <1> QED
    BY <1>11, <1>12

-----------------------------------------------------------------------------
(* Messages at the socket and at the application, while all is well.       *)

LEMMA HeadIsFirst ==
  ASSUME NEW L \in Lines, NEW r \in Ranks, Counted(L, r, 1)
  PROVE  /\ L[r] # <<>> /\ 1 \in DOMAIN L[r]
         /\ Head(L[r]) = L[r][1]
  <1>1. L[r] \in Seq(LineT) /\ 1 \in DOMAIN L[r]
    BY DEF Lines, Counted
  <1>2. L[r] # <<>>
    BY <1>1
  <1> QED
    BY <1>1, <1>2, HeadTailProperties

LEMMA WriteFine ==
  ASSUME ConnectionInv, ConnectionInv', InOrderPool, OrderInv, Fine,
         NEW e \in Ends, NEW w \in Workers, WriteSocket(e, w)
  PROVE  Fine'
  <1> DEFINE job == doing[e][w].job
             p == Peer(e)
  <1>1. /\ Line(e)[9] = <<job>>
        /\ Comes(Line(e), Line(e)', 9, job, {})
        /\ up => Keeps(Line(e), Line(e)')
        /\ Comes(Line(p), Line(p)', 0, job, {})
        /\ Keeps(Line(p), Line(p)')
    BY WriteMoves
  <1>2. up
    BY DEF Fine, Runs
  <1>3. 9 \in Ranks /\ 9 \notin {4, 13} /\ 9 # 5 /\ 9 # 14
    BY DEF Ranks
  <1>4. Line(e) \in Lines /\ SealedRight(Line(e))
    BY LinesTyped DEF Fine, LineHealth
  <1>5. /\ doing[e][w].step = "work" /\ doing'[e][w].step = "idle" /\ OthersGoOn(e, w)
        /\ UNCHANGED <<condition, cipher, up, closed, reader, sent>>
    BY DoneHand DEF WriteSocket, At, traffic, OthersGoOn
  <1>6. \A f \in Ends : \/ StepOf(f)' = StepOf(f)
                        \/ StepOf(f) \in {"idle", "work"} /\ StepOf(f)' \in {"idle", "work"}
    BY <1>5, WorkersStep
  <1>7. \A f \in Ends : f = e \/ f = p
    BY EndsAre
  <1>8. Line(e)[9][1] = job
    BY <1>1
  <1> HIDE DEF job, p
  <1>9. Counted(Line(e), 9, 1) => SealPasses(9, job)
    BY <1>3, <1>4, <1>8, SealCarried
  <1>10. GoesWell(e) /\ GoesWell(p)
    BY <1>1, <1>3, <1>9, WellIf, StillWell
  <1>11. LosesNone(e) /\ LosesNone(p)
    BY <1>1, <1>2, KeepsAll
  <1> QED
    BY <1>5, <1>6, <1>7, <1>10, <1>11, FineStays

LEMMA ReadFine ==
  ASSUME ConnectionInv, ConnectionInv', InOrderPool, OrderInv, Fine,
         NEW e \in Ends, ReadSocket(e)
  PROVE  Fine'
  <1> DEFINE p == Peer(e)
  <1>0. p \in Ends /\ SocketInv
    BY PeerIsEnd DEF OrderInv
  <1>1. PICK x :
         /\ Line(p)[8] # <<>> /\ Head(Line(p)[8]) = Head(stream[e])
         /\ x.sealed = Head(stream[e]).sealed /\ x.what = Head(stream[e]).what
         /\ Comes(Line(p), Line(p)', 8, x, {})
         /\ ~closed[e] => Keeps(Line(p), Line(p)')
         /\ Comes(Line(e), Line(e)', 0, x, {})
         /\ Keeps(Line(e), Line(e)')
    BY <1>0, ReadMoves
  <1>2. ~closed[e]
    BY DEF Fine, Runs
  <1>3. 8 \in Ranks /\ 8 \notin {4, 13} /\ 8 # 5 /\ 8 # 14
    BY DEF Ranks
  <1>4. Line(p) \in Lines /\ SealedRight(Line(p))
    BY <1>0, LinesTyped DEF Fine, LineHealth
  <1>5. UNCHANGED <<condition, cipher, up, closed, reader, sent, doing>>
    BY DEF ReadSocket, traffic
  <1>6. \A f \in Ends : StepOf(f)' = StepOf(f)
    BY <1>5 DEF StepOf
  <1>7. \A f \in Ends : f = e \/ f = p
    BY EndsAre
  <1> HIDE DEF p
  <1>8. Counted(Line(p), 8, 1) => SealPasses(8, x)
    <2> SUFFICES ASSUME Counted(Line(p), 8, 1) PROVE SealPasses(8, x)
      OBVIOUS
    <2>1. Head(Line(p)[8]) = Line(p)[8][1]
      BY <1>3, <1>4, HeadIsFirst
    <2>2. x.what = Line(p)[8][1].what /\ x.sealed = Line(p)[8][1].sealed
      BY <1>1, <2>1
    <2> QED
      BY <1>3, <1>4, <2>2, SealCarried
  <1>10. GoesWell(e) /\ GoesWell(p)
    BY <1>1, <1>3, <1>8, WellIf, StillWell
  <1>11. LosesNone(e) /\ LosesNone(p)
    BY <1>1, <1>2, KeepsAll
  <1> QED
    BY <1>5, <1>6, <1>7, <1>10, <1>11, FineStays

LEMMA QuietWell ==
  ASSUME ConnectionInv, InOrderPool, NEW e \in Ends, LinesStay(e, {})
  PROVE  \A f \in Ends : GoesWell(f) /\ Keeps(Line(f), Line(f)')
  <1> DEFINE p == Peer(e)
  <1>1. /\ Comes(Line(e), Line(e)', 0, None, {}) /\ Keeps(Line(e), Line(e)')
        /\ Comes(Line(p), Line(p)', 0, None, {}) /\ Keeps(Line(p), Line(p)')
    BY QuietComes
  <1>2. \A f \in Ends : f = e \/ f = p
    BY EndsAre
  <1> HIDE DEF p
  <1> QED
    BY <1>1, <1>2, StillWell

LEMMA NotifyFine ==
  ASSUME ConnectionInv, ConnectionInv', InOrderPool, OrderInv, Fine,
         NEW e \in Ends, NEW w \in Workers, Notify(e, w)
  PROVE  Fine'
  <1>1. \A f \in Ends : GoesWell(f) /\ LosesNone(f)
    BY WorkerQuiet, QuietWell, KeepsAll
  <1>2. /\ doing[e][w].step = "work" /\ doing'[e][w].step = "idle" /\ OthersGoOn(e, w)
        /\ UNCHANGED <<condition, cipher, up, closed, reader, sent>>
    BY DoneHand DEF Notify, At, traffic, link, OthersGoOn
  <1>3. \A f \in Ends : \/ StepOf(f)' = StepOf(f)
                        \/ StepOf(f) \in {"idle", "work"} /\ StepOf(f)' \in {"idle", "work"}
    BY <1>2, WorkersStep
  <1> QED
    BY <1>1, <1>2, <1>3, FineStays

LEMMA NothingFine ==
  ASSUME ConnectionInv, ConnectionInv', InOrderPool, OrderInv, Fine, UNCHANGED vars
  PROVE  Fine'
  <1>1. \A f \in Ends : GoesWell(f) /\ LosesNone(f)
    BY QuietLines, QuietWell, KeepsAll, EndsAre
  <1>2. UNCHANGED <<condition, cipher, up, closed, reader, sent, doing>>
    BY DEF vars, link, traffic
  <1>3. \A f \in Ends : StepOf(f)' = StepOf(f)
    BY <1>2 DEF StepOf
  <1> QED
    BY <1>1, <1>2, <1>3, FineStays

LEMMA DataInHand ==
  ASSUME ConnectionInv, InOrderPool, NEW e \in Ends, NEW w \in Workers, ReceiveData(e, w)
  PROVE  /\ doing[e][w].step = "work" /\ doing[e][w].job \in JobT
         /\ doing[e][w].job.what \notin Handshake
         /\ Line(Peer(e))[2] = <<doing[e][w].job>>
         /\ doing[e][w].job.do = "receive"
  <1> DEFINE job == doing[e][w].job
             x == Job("got", job.what, FALSE)
  <1>1. /\ doing[e][w].step = "work" /\ job.what \notin Handshake /\ job \in JobT
    BY DEF ReceiveData, At, What, ConnectionInv, WorkInv
  <1>2. Line(Peer(e))[2] = <<job>> /\ job.do = "receive"
    <2>1. x \in LineT /\ x.do = "got"
      BY <1>1 DEF LineT, Job, JobT
    <2> HIDE DEF x
    <2> QED
      BY <2>1, ReceiveMoves DEF x
  <1> QED
    BY <1>1, <1>2

\* Data that reaches the application is data it can read, of an end that is
\* confirmed: it is given to it.
LEMMA ReceiveDataGives ==
  ASSUME ConnectionInv, InOrderPool, OrderInv, Fine,
         NEW e \in Ends, NEW w \in Workers, ReceiveData(e, w)
  PROVE  /\ received'[e] = Append(received[e], doing[e][w].job.what)
         /\ Done(e, w) /\ doing[e][w].step = "work" /\ doing[e][w].job \in JobT
         /\ received' = [received EXCEPT ![e] = Append(@, What(e, w))]
  <1> DEFINE job == doing[e][w].job
             p == Peer(e)
  <1>0. p \in Ends
    BY PeerIsEnd
  <1>1. /\ doing[e][w].step = "work" /\ job.what \notin Handshake /\ job \in JobT
        /\ Line(p)[2] = <<job>> /\ job.do = "receive"
    BY DataInHand
  <1>2. 2 \in Ranks /\ 2 \in 2 .. 3 /\ 2 <= 4
    BY DEF Ranks
  <1>3. Counted(Line(p), 2, 1) /\ Line(p)[2][1] = job
    BY <1>1, KindIs DEF Counted
  <1>4. 1 \in DOMAIN Line(p)[2]
    BY <1>3 DEF Counted
  <1>5. ~job.sealed
    <2>1. SealedRight(Line(p))
      BY <1>0 DEF Fine, LineHealth
    <2> HIDE DEF p, job
    <2> QED
      BY <1>1, <1>2, <1>3, <1>4, <2>1 DEF SealedRight
  <1>6. condition[e] = "Confirmed"
    BY <1>1, <1>2, <1>3, NearIsReady
  <1>7. received \in [Ends -> Seq(Content)]
    BY DEF ConnectionInv, HistoryInv
  <1> QED
    BY <1>1, <1>5, <1>6, <1>7 DEF ReceiveData, What

LEMMA ReceiveDataFine ==
  ASSUME ConnectionInv, ConnectionInv', InOrderPool, OrderInv, Fine,
         NEW e \in Ends, NEW w \in Workers, ReceiveData(e, w)
  PROVE  Fine'
  <1> DEFINE job == doing[e][w].job
             p == Peer(e)
             x == Job("got", job.what, FALSE)
  <1>0. /\ received'[e] = Append(received[e], job.what) /\ job \in JobT
        /\ doing[e][w].step = "work" /\ Done(e, w)
        /\ p \in Ends
    BY ReceiveDataGives, PeerIsEnd
  <1>1. x \in LineT /\ x.do = "got"
    BY <1>0 DEF LineT, Job, JobT
  <1>2. received'[e] # received[e]
    <2>1. received[e] \in Seq(Content) /\ job.what \in Content
      BY <1>0 DEF ConnectionInv, HistoryInv, JobT
    <2>2. Len(received'[e]) = Len(received[e]) + 1 /\ Len(received[e]) \in Nat
      BY <1>0, <2>1, AppendProperties, LenProperties
    <2> QED
      BY <2>2
  <1>3. /\ Comes(Line(p), Line(p)', 2, x, {}) /\ Keeps(Line(p), Line(p)')
        /\ Comes(Line(e), Line(e)', 0, x, {}) /\ Keeps(Line(e), Line(e)')
    <2> HIDE DEF x
    <2> QED
      BY <1>1, <1>2, ReceiveMoves DEF x
  <1>4. 2 \in Ranks /\ 2 # 5 /\ 2 # 14 /\ 2 \notin 5 .. 13 /\ 2 \notin 3 .. 4
    BY DEF Ranks
  <1>5. SealPasses(2, x)
    BY <1>4 DEF SealPasses
  <1>6. /\ doing'[e][w].step = "idle" /\ OthersGoOn(e, w)
        /\ UNCHANGED <<condition, cipher, up, closed, reader, sent>>
    BY <1>0, DoneHand DEF ReceiveData, link, OthersGoOn
  <1>7. \A f \in Ends : \/ StepOf(f)' = StepOf(f)
                        \/ StepOf(f) \in {"idle", "work"} /\ StepOf(f)' \in {"idle", "work"}
    BY <1>0, <1>6, WorkersStep
  <1>8. \A f \in Ends : f = e \/ f = p
    BY EndsAre
  <1> HIDE DEF p, x
  <1>9. GoesWell(e) /\ GoesWell(p)
    BY <1>3, <1>4, <1>5, WellIf, StillWell
  <1>10. LosesNone(e) /\ LosesNone(p)
    BY <1>3, KeepsAll
  <1> QED
    BY <1>6, <1>7, <1>8, <1>9, <1>10, FineStays

-----------------------------------------------------------------------------
(* The ends hear of each other.                                            *)

\* What a step of the handshake leaves of both lines.
LEMMA LinesGoOn ==
  ASSUME ConnectionInv, ConnectionInv', InOrderPool, Fine,
         \A f \in Ends : GoesWell(f), UNCHANGED sent,
         \A f \in Ends : \A m \in Range(sent[f]) : InLine(Line(f), m) => InLine(Line(f)', m),
         \A f \in Ends : condition[f] = "Confirmed" => condition'[f] = "Confirmed",
         Replying' => Replying
  PROVE  /\ ReplyFirst' /\ \A f \in Ends : LineHealth(f)'
         /\ OnItsWay' => OnItsWay
  <1>1. ASSUME NEW f \in Ends PROVE LineHealth(f)'
    BY LineGoesOn DEF Fine
  <1>2. ReplyFirst' /\ (OnItsWay' => OnItsWay)
    BY EndsAre, ReplyStaysFirst DEF Fine
  <1> QED
    BY <1>1, <1>2

\* The worker that has a handshake to answer.
LEMMA HandshakeHand ==
  ASSUME ConnectionInv, InOrderPool, NEW e \in Ends, NEW w \in Workers,
         doing[e][w].step \notin {"idle", "work"}
  PROVE  w = Handler /\ StepOf(e) = doing[e][w].step
  BY HandlersJob, PoolIs DEF StepOf

LEMMA HandlerGoes ==
  ASSUME ConnectionInv, InOrderPool, NEW e \in Ends,
         OthersGoOn(e, Handler)
  PROVE  StepOf(e)' = doing'[e][Handler].step /\ StepOf(Peer(e))' = StepOf(Peer(e))
  <1>1. Peer(e) \in Ends /\ Peer(e) # e
    BY PeerIsEnd DEF Ends, Peer
  <1> QED
    BY <1>1, PoolIs DEF OthersGoOn, StepOf

\* The reply has come: it is the only one, and the client has waited for it.
LEMMA ClientHearsFine ==
  ASSUME ConnectionInv, ConnectionInv', InOrderPool, OrderInv, Fine,
         NEW w \in Workers, ReceiveHandshake("client", w)
  PROVE  Fine'
  <1> DEFINE job == doing["client"][w].job
             x == Job("got", "request", FALSE)
             L == Line("session")
  <1>0. /\ "client" \in Ends /\ "session" \in Ends /\ Peer("client") = "session"
        /\ Peer("session") = "client"
    BY EndsAre
  <1>1. x \in LineT /\ x.do = "got" /\ x.what = "request"
    BY ContentHas DEF LineT, Job, Handshake
  <1>2. /\ L[2] = <<job>> /\ job.do = "receive"
        /\ Comes(L, L', 2, x, {})
        /\ \A m : InLine(L, m) /\ m # job.what => InLine(L', m)
        /\ Comes(Line("client"), Line("client")', 0, x, {})
        /\ Keeps(Line("client"), Line("client")')
    <2> HIDE DEF x
    <2> QED
      BY <1>0, <1>1, ReceiveMoves
  <1>3. /\ job.what \in Handshake /\ doing["client"][w].step = "work"
        /\ UNCHANGED <<condition, cipher, up, closed, reader, sent>>
    BY DEF ReceiveHandshake, At, What, link, traffic
  <1>4. 2 \in Ranks /\ Counted(L, 2, 1) /\ L[2][1] = job
    BY <1>2, KindIs DEF Counted, Ranks
  <1>5. job.what = "accepted"
    BY <1>0, <1>3, <1>4, HandshakeIsHello DEF Hello
  <1>6. OnItsWay
    BY <1>4, <1>5 DEF OnItsWay, InLine, Counted
  <1>7. condition["client"] = "Waiting" /\ Replied /\ ~AtClient
    BY <1>6 DEF Fine, Phases
  <1>8. Goes("client", w, "confirm")
    BY <1>7 DEF ReceiveHandshake
  <1>9. w = Handler
    BY <1>0, <1>2, <1>3, HandlersJob, PoolIs
  <1>10. OthersGoOn("client", Handler) /\ doing'["client"][Handler].step = "confirm"
    <2>1. "confirm" \in Steps \ {"idle", "work"} /\ doing["client"][w].step # "idle"
      BY <1>3 DEF Steps
    <2> QED
      BY <1>0, <1>2, <1>8, <1>9, <2>1, GoesHand DEF OthersGoOn
  <1>11. StepOf("client")' = "confirm" /\ StepOf("session")' = StepOf("session")
    BY <1>0, <1>10, HandlerGoes
  <1>12. ~OnItsWay'
    <2>1. First(L, "accepted") /\ L \in Lines /\ L' \in Lines
      BY <1>0, LinesTyped, LinesTypedNext DEF Fine, ReplyFirst
    <2>2. \A q \in Ranks : L'[q] \in Seq(LineT)
      BY <2>1 DEF Lines
    <2>3. x.what # "accepted"
      BY <1>1
    <2> HIDE DEF L, x
    <2>4. ~InLine(L', "accepted")
      BY <1>2, <1>4, <1>5, <2>1, <2>2, <2>3, LoseFirst
    <2> QED
      BY <2>4 DEF OnItsWay, L
  <1>13. \A f \in Ends : GoesWell(f)
    <2>1. 2 # 5 /\ 2 # 14 /\ 2 \notin 5 .. 13 /\ 2 \notin 3 .. 4
      OBVIOUS
    <2>2. SealPasses(2, x)
      BY <2>1 DEF SealPasses
    <2> HIDE DEF x
    <2> QED
      BY <1>2, <1>4, <2>1, <2>2, WellIf, StillWell, EndsAre
  <1>14. \A f \in Ends : \A m \in Range(sent[f]) : InLine(Line(f), m) => InLine(Line(f)', m)
    <2>1. \A m \in Range(sent["session"]) : m # "accepted"
      BY <1>0, SentIsData DEF OrderInv, OrderOf, Handshake
    <2>2. \A m \in Range(sent["session"]) : InLine(L, m) => InLine(L', m)
      BY <1>2, <1>5, <2>1
    <2>3. \A m : InLine(Line("client"), m) => InLine(Line("client")', m)
      BY <1>2 DEF Keeps
    <2> QED
      BY <2>2, <2>3, EndsAre
  <1>15. Replying' <=> Replying
    BY <1>11 DEF Replying
  <1>16. ReplyFirst' /\ \A f \in Ends : LineHealth(f)'
    BY <1>3, <1>13, <1>14, <1>15, LinesGoOn
  <1>17. Runs'
    BY <1>3, <1>11 DEF Fine, Runs
  <1>18. AtClient' /\ Replied' /\ condition'["client"] = "Waiting"
    BY <1>3, <1>7, <1>11, <1>15 DEF AtClient, Replied
  <1>19. Phases'
    BY <1>3, <1>11, <1>12, <1>15, <1>18 DEF Fine, Phases
  <1>20. Keys'
    BY <1>3, <1>7, <1>11 DEF Fine, Keys, AtClient
  <1> QED
    BY <1>16, <1>17, <1>19, <1>20 DEF Fine

\* The session is asked: it answers if it has waited for the request.
LEMMA SessionHearsFine ==
  ASSUME ConnectionInv, ConnectionInv', InOrderPool, OrderInv, Fine,
         NEW w \in Workers, ReceiveHandshake("session", w)
  PROVE  Fine'
  <1> DEFINE job == doing["session"][w].job
             x == Job("got", "request", FALSE)
             L == Line("client")
  <1>0. /\ "client" \in Ends /\ "session" \in Ends /\ Peer("client") = "session"
        /\ Peer("session") = "client"
    BY EndsAre
  <1>1. x \in LineT /\ x.do = "got" /\ x.what = "request"
    BY ContentHas DEF LineT, Job, Handshake
  <1>2. /\ L[2] = <<job>> /\ job.do = "receive"
        /\ Comes(L, L', 2, x, {})
        /\ \A m : InLine(L, m) /\ m # job.what => InLine(L', m)
        /\ Comes(Line("session"), Line("session")', 0, x, {})
        /\ Keeps(Line("session"), Line("session")')
    <2> HIDE DEF x
    <2> QED
      BY <1>0, <1>1, ReceiveMoves
  <1>3. /\ job.what \in Handshake /\ doing["session"][w].step = "work"
        /\ UNCHANGED <<condition, cipher, up, closed, reader, sent>>
    BY DEF ReceiveHandshake, At, What, link, traffic
  <1>4. w = Handler /\ StepOf("session") = "work"
    BY <1>0, <1>2, <1>3, HandlersJob, PoolIs DEF StepOf
  <1>5. IF condition["session"] = "Waiting" THEN Goes("session", w, "confirm")
        ELSE Done("session", w)
    BY DEF ReceiveHandshake
  <1>6. /\ OthersGoOn("session", Handler)
        /\ \/ doing'["session"][Handler].step = "confirm" /\ condition["session"] = "Waiting"
           \/ doing'["session"][Handler].step = "idle"
    <2>1. "confirm" \in Steps \ {"idle", "work"} /\ doing["session"][w].step # "idle"
      BY <1>3 DEF Steps
    <2>2. CASE condition["session"] = "Waiting"
      BY <1>0, <1>2, <1>4, <1>5, <2>1, <2>2, GoesHand DEF OthersGoOn
    <2>3. CASE condition["session"] # "Waiting"
      BY <1>0, <1>4, <1>5, <2>3, DoneHand DEF OthersGoOn
    <2> QED
      BY <2>2, <2>3
  <1>7. /\ StepOf("client")' = StepOf("client")
        /\ \/ StepOf("session")' = "confirm" /\ condition["session"] = "Waiting"
           \/ StepOf("session")' = "idle"
    BY <1>0, <1>6, HandlerGoes
  <1>8. \A f \in Ends : GoesWell(f)
    <2>1. 2 \in Ranks /\ 2 # 5 /\ 2 # 14 /\ 2 \notin 5 .. 13 /\ 2 \notin 3 .. 4
      BY DEF Ranks
    <2>2. SealPasses(2, x)
      BY <2>1 DEF SealPasses
    <2> HIDE DEF x
    <2> QED
      BY <1>2, <2>1, <2>2, WellIf, StillWell, EndsAre
  <1>9. \A f \in Ends : \A m \in Range(sent[f]) : InLine(Line(f), m) => InLine(Line(f)', m)
    <2>1. \A m \in Range(sent["client"]) : m # job.what
      BY <1>0, <1>3, SentIsData DEF OrderInv, OrderOf
    <2>2. \A m \in Range(sent["client"]) : InLine(L, m) => InLine(L', m)
      BY <1>2, <2>1
    <2>3. \A m : InLine(Line("session"), m) => InLine(Line("session")', m)
      BY <1>2 DEF Keeps
    <2> QED
      BY <2>2, <2>3, EndsAre
  <1>10. ~Replying /\ ~Replying' /\ (AtClient' <=> AtClient)
    BY <1>4, <1>7 DEF Replying, AtClient
  <1>11. ReplyFirst' /\ (\A f \in Ends : LineHealth(f)') /\ (OnItsWay' => OnItsWay)
    BY <1>3, <1>8, <1>9, <1>10, LinesGoOn
  <1>12. OnItsWay => OnItsWay'
    BY <1>2 DEF Keeps, OnItsWay
  <1>13. Runs'
    BY <1>3, <1>7 DEF Fine, Runs
  <1>14. Replied' <=> Replied
    BY <1>3, <1>10 DEF Replied
  <1>15. Phases'
    BY <1>3, <1>7, <1>10, <1>11, <1>12, <1>14 DEF Fine, Phases
  <1>16. Keys'
    BY <1>3, <1>4, <1>7 DEF Fine, Keys
  <1> QED
    BY <1>11, <1>13, <1>15, <1>16 DEF Fine

-----------------------------------------------------------------------------
(* Both ends are confirmed.                                                *)

\* The session is confirmed: nothing has been sent to the client, so that
\* nothing is in its line.
LEMMA SessionConfirmsFine ==
  ASSUME ConnectionInv, ConnectionInv', InOrderPool, OrderInv, Fine, sameKey,
         NEW w \in Workers, SessionConfirms(w)
  PROVE  Fine'
  <1>0. "client" \in Ends /\ "session" \in Ends /\ Peer("session") = "client"
    BY EndsAre
  <1>1. /\ doing["session"][w].step = "confirm" /\ doing["session"][w].job.do = "receive"
        /\ condition' = [condition EXCEPT !["session"] = "Confirmed"]
        /\ Goes("session", w, "notify")
        /\ UNCHANGED <<cipher, up, closed, reader, sent>>
    BY DEF SessionConfirms, At, Confirm, link, traffic
  <1>2. w = Handler /\ StepOf("session") = "confirm"
    BY <1>0, <1>1, HandshakeHand
  <1>3. OthersGoOn("session", Handler) /\ doing'["session"][Handler].step = "notify"
    <2>1. "notify" \in Steps \ {"idle", "work"} /\ doing["session"][w].step # "idle"
      BY <1>1 DEF Steps
    <2> QED
      BY <1>0, <1>1, <1>2, <2>1, GoesHand DEF OthersGoOn
  <1>4. StepOf("session")' = "notify" /\ StepOf("client")' = StepOf("client")
    BY <1>0, <1>3, HandlerGoes
  <1>5. /\ condition'["session"] = "Confirmed" /\ condition'["client"] = condition["client"]
        /\ condition["session"] = "Waiting"
    BY <1>0, <1>1, <1>2 DEF ConnectionInv, Fine, Phases
  <1>6. ~Replied /\ ~OnItsWay /\ ~AtClient /\ condition["client"] \notin {"None", "Confirmed"}
    BY <1>5 DEF Fine, Phases, Replied
  <1>7. \A f \in Ends : GoesWell(f) /\ Keeps(Line(f), Line(f)')
    <2>1. LinesStay("session", {})
      BY <1>0, WorkerQuiet
    <2> QED
      BY <1>0, <2>1, QuietWell
  <1>8. \A f \in Ends : LineHealth(f)'
    <2> SUFFICES ASSUME NEW f \in Ends PROVE LineHealth(f)'
      OBVIOUS
    <2>1. \A m \in Range(sent[f]) : InLine(Line(f), m) => InLine(Line(f)', m)
      BY <1>7 DEF Keeps
    <2>2. condition'[f] # "Confirmed" => condition[f] # "Confirmed"
      BY <1>5, EndsAre
    <2> QED
      BY <1>1, <1>7, <2>1, <2>2, LineGoesOn DEF Fine
  <1>9. sent'["session"] = <<>>
    BY <1>0, <1>1, <1>5 DEF Fine, LineHealth
  <1>10. \A q \in Ranks : \A i \in DOMAIN Line("session")'[q] :
           Counted(Line("session")', q, i) => Line("session")'[q][i].what = "accepted"
    <2>1. Known(Line("session")', sent'["session"], {Hello("session")})
      BY <1>0, <1>8 DEF LineHealth
    <2>2. Range(sent'["session"]) = {}
      BY <1>9 DEF Range
    <2> QED
      BY <2>1, <2>2 DEF Known, Hello
  <1>11. ~OnItsWay'
    <2>1. PICK r \in Ranks \cup {0} : \E x : Comes(Line("session"), Line("session")', r, x, {})
      BY <1>0, <1>7 DEF GoesWell
    <2>2. PICK x : Comes(Line("session"), Line("session")', r, x, {})
      BY <2>1
    <2> QED
      BY <1>6, <2>2, NothingNew DEF OnItsWay
  <1>12. ReplyFirst'
    <2>1. First(Line("session")', "accepted")
      BY <1>11, NoneIsFirst DEF OnItsWay
    <2>2. \A near, gone : Placed(Line("session")', near, gone)
      BY <1>10 DEF Placed
    <2>3. ReplyFirst' <=> /\ First(Line("session")', "accepted")
                          /\ Placed(Line("session")', condition'["client"] = "Confirmed",
                                    ~Replying')
      BY DEF ReplyFirst
    <2> QED
      BY <2>1, <2>2, <2>3
  <1>13. Runs'
    BY <1>0, <1>1, <1>4, <1>5, EndsAre DEF Fine, Runs
  <1>14. Replying' /\ ~AtClient' /\ ~Replied'
    BY <1>4, <1>6 DEF Replying, Replied, AtClient
  <1>15. Phases'
    BY <1>4, <1>5, <1>6, <1>11, <1>14 DEF Phases
  <1>16. Keys'
    BY <1>1, <1>4, <1>5 DEF Fine, Keys
  <1> QED
    BY <1>8, <1>12, <1>13, <1>15, <1>16 DEF Fine

LEMMA SessionNotifiesFine ==
  ASSUME ConnectionInv, ConnectionInv', InOrderPool, OrderInv, Fine,
         NEW w \in Workers, SessionNotifies(w)
  PROVE  Fine'
  <1>0. "client" \in Ends /\ "session" \in Ends /\ Peer("session") = "client"
    BY EndsAre
  <1>1. /\ doing["session"][w].step = "notify" /\ doing["session"][w].job.do = "receive"
        /\ cipher' = [cipher EXCEPT !["session"] = EncryptMode]
        /\ Goes("session", w, "reply")
        /\ UNCHANGED <<condition, up, closed, reader, sent>>
    BY DEF SessionNotifies, At, link, traffic
  <1>2. w = Handler /\ StepOf("session") = "notify"
    BY <1>0, <1>1, HandshakeHand
  <1>3. OthersGoOn("session", Handler) /\ doing'["session"][Handler].step = "reply"
    <2>1. "reply" \in Steps \ {"idle", "work"} /\ doing["session"][w].step # "idle"
      BY <1>1 DEF Steps
    <2> QED
      BY <1>0, <1>1, <1>2, <2>1, GoesHand DEF OthersGoOn
  <1>4. StepOf("session")' = "reply" /\ StepOf("client")' = StepOf("client")
    BY <1>0, <1>3, HandlerGoes
  <1>5. \A f \in Ends : GoesWell(f) /\ Keeps(Line(f), Line(f)')
    <2>1. LinesStay("session", {})
      BY <1>0, WorkerQuiet
    <2> QED
      BY <1>0, <2>1, QuietWell
  <1>6. Replying /\ Replying' /\ (AtClient' <=> AtClient)
    BY <1>2, <1>4 DEF Replying, AtClient
  <1>7. \A f \in Ends : \A m \in Range(sent[f]) : InLine(Line(f), m) => InLine(Line(f)', m)
    BY <1>5 DEF Keeps
  <1>8. ReplyFirst' /\ (\A f \in Ends : LineHealth(f)') /\ (OnItsWay' => OnItsWay)
    BY <1>1, <1>5, <1>6, <1>7, LinesGoOn
  <1>9. ~Replied /\ ~Replied'
    BY <1>6 DEF Replied
  <1>10. Runs'
    BY <1>1, <1>4 DEF Fine, Runs
  <1>11. Phases'
    BY <1>1, <1>2, <1>4, <1>6, <1>8, <1>9 DEF Fine, Phases
  <1>12. cipher'["session"] = EncryptMode /\ cipher'["client"] = cipher["client"]
    BY <1>0, <1>1 DEF ConnectionInv
  <1>13. Keys'
    BY <1>1, <1>4, <1>12 DEF Fine, Keys
  <1> QED
    BY <1>8, <1>10, <1>11, <1>13 DEF Fine

LEMMA ClientTakesKeyFine ==
  ASSUME ConnectionInv, ConnectionInv', InOrderPool, OrderInv, Fine,
         NEW w \in Workers, ClientTakesKey(w)
  PROVE  Fine'
  <1>0. "client" \in Ends /\ "session" \in Ends /\ Peer("client") = "session"
    BY EndsAre
  <1>1. /\ doing["client"][w].step = "confirm" /\ doing["client"][w].job.do = "receive"
        /\ cipher' = [cipher EXCEPT !["client"] = EncryptMode]
        /\ Goes("client", w, "assign")
        /\ UNCHANGED <<condition, up, closed, reader, sent>>
    BY DEF ClientTakesKey, At, link, traffic
  <1>2. w = Handler /\ StepOf("client") = "confirm"
    BY <1>0, <1>1, HandshakeHand
  <1>3. OthersGoOn("client", Handler) /\ doing'["client"][Handler].step = "assign"
    <2>1. "assign" \in Steps \ {"idle", "work"} /\ doing["client"][w].step # "idle"
      BY <1>1 DEF Steps
    <2> QED
      BY <1>0, <1>1, <1>2, <2>1, GoesHand DEF OthersGoOn
  <1>4. StepOf("client")' = "assign" /\ StepOf("session")' = StepOf("session")
    BY <1>0, <1>3, HandlerGoes
  <1>5. \A f \in Ends : GoesWell(f) /\ Keeps(Line(f), Line(f)')
    <2>1. LinesStay("client", {})
      BY <1>0, WorkerQuiet
    <2> QED
      BY <1>0, <2>1, QuietWell
  <1>6. AtClient /\ AtClient' /\ (Replying' <=> Replying)
    BY <1>2, <1>4 DEF Replying, AtClient
  <1>7. \A f \in Ends : \A m \in Range(sent[f]) : InLine(Line(f), m) => InLine(Line(f)', m)
    BY <1>5 DEF Keeps
  <1>8. ReplyFirst' /\ (\A f \in Ends : LineHealth(f)') /\ (OnItsWay' => OnItsWay)
    BY <1>1, <1>5, <1>6, <1>7, LinesGoOn
  <1>9. Replied' <=> Replied
    BY <1>1, <1>6 DEF Replied
  <1>10. Runs'
    BY <1>1, <1>4 DEF Fine, Runs
  <1>11. Phases'
    BY <1>1, <1>4, <1>6, <1>8, <1>9 DEF Fine, Phases
  <1>12. cipher'["client"] = EncryptMode /\ cipher'["session"] = cipher["session"]
    BY <1>0, <1>1 DEF ConnectionInv
  <1>13. Keys'
    BY <1>1, <1>4, <1>12 DEF Fine, Keys
  <1> QED
    BY <1>8, <1>10, <1>11, <1>13 DEF Fine

LEMMA ClientConfirmsFine ==
  ASSUME ConnectionInv, ConnectionInv', InOrderPool, OrderInv, Fine,
         NEW w \in Workers, ClientConfirms(w)
  PROVE  Fine'
  <1>0. "client" \in Ends /\ "session" \in Ends /\ Peer("client") = "session"
    BY EndsAre
  <1>1. /\ doing["client"][w].step = "assign"
        /\ condition' = [condition EXCEPT !["client"] = "Confirmed"]
        /\ Done("client", w)
        /\ UNCHANGED <<cipher, up, closed, reader, sent>>
    BY DEF ClientConfirms, At, Confirm, link, traffic
  <1>2. w = Handler /\ StepOf("client") = "assign"
    BY <1>0, <1>1, HandshakeHand
  <1>3. OthersGoOn("client", Handler) /\ doing'["client"][Handler].step = "idle"
    BY <1>0, <1>1, <1>2, DoneHand DEF OthersGoOn
  <1>4. StepOf("client")' = "idle" /\ StepOf("session")' = StepOf("session")
    BY <1>0, <1>3, HandlerGoes
  <1>5. \A f \in Ends : GoesWell(f) /\ Keeps(Line(f), Line(f)')
    <2>1. LinesStay("client", {})
      BY <1>0, WorkerQuiet
    <2> QED
      BY <1>0, <2>1, QuietWell
  <1>6. AtClient /\ ~AtClient' /\ (Replying' <=> Replying)
    BY <1>2, <1>4 DEF Replying, AtClient
  <1>7. \A f \in Ends : \A m \in Range(sent[f]) : InLine(Line(f), m) => InLine(Line(f)', m)
    BY <1>5 DEF Keeps
  <1>8. /\ condition'["client"] = "Confirmed" /\ condition'["session"] = condition["session"]
    BY <1>0, <1>1 DEF ConnectionInv
  <1>9. \A f \in Ends : condition[f] = "Confirmed" => condition'[f] = "Confirmed"
    BY <1>8, EndsAre
  <1>10. ReplyFirst' /\ (\A f \in Ends : LineHealth(f)') /\ (OnItsWay' => OnItsWay)
    BY <1>1, <1>5, <1>6, <1>7, <1>9, LinesGoOn
  <1>11. Replied /\ Replied' /\ ~OnItsWay /\ ~OnItsWay'
    BY <1>6, <1>8, <1>10 DEF Replied, Fine, Phases
  <1>12. Runs'
    BY <1>0, <1>1, <1>4, <1>8, EndsAre DEF Fine, Runs
  <1>13. Phases'
    BY <1>4, <1>6, <1>8, <1>11 DEF Fine, Phases, Replied
  <1>14. Keys'
    BY <1>1, <1>2, <1>4, <1>8 DEF Fine, Keys
  <1> QED
    BY <1>10, <1>12, <1>13, <1>14 DEF Fine

-----------------------------------------------------------------------------
(* The greetings are sent.                                                 *)

\* The greeting of f comes to its line.
LEMMA HelloComes ==
  ASSUME ConnectionInv, ConnectionInv', InOrderPool, NEW f \in Ends, LineHealth(f),
         Comes(Line(f), Line(f)', 0, None, {Hello(f)}), Keeps(Line(f), Line(f)'),
         sent'[f] = sent[f],
         condition'[f] # "Confirmed" => condition[f] # "Confirmed"
  PROVE  LineHealth(f)'
  <1> DEFINE L == Line(f)
             L2 == Line(f)'
             h == Hello(f)
             s == sent[f]
  <1>1. L \in Lines /\ L2 \in Lines
    BY LinesTyped, LinesTypedNext
  <1>2. Known(L, s, {h}) /\ SealedRight(L)
    BY DEF LineHealth
  <1>3. Comes(L, L2, 0, None, {h})
    OBVIOUS
  <1>4. \A m \in Range(s) : InLine(L2, m)
    BY DEF LineHealth, Keeps
  <1>5. condition'[f] # "Confirmed" => s = <<>>
    BY DEF LineHealth
  <1>6. h \in Handshake
    BY DEF Hello, Handshake
  <1> HIDE DEF L, L2, h, s
  <1>7. {h} \in SUBSET Handshake /\ {h} \subseteq {h} /\ 0 \in Ranks \cup {0}
    BY <1>6
  <1>8. Known(L2, s, {h})
    BY <1>2, <1>3, <1>7, KnownKept
  <1>9. SealedRight(L2)
    BY <1>1, <1>2, <1>3, <1>7, SealedKept
  <1>10. sent'[f] = s
    BY DEF s
  <1>11. SealedRight(Line(f))'
    BY <1>9 DEF L2, SealedRight, Handshake
  <1>12. Known(Line(f)', sent'[f], {Hello(f)})
    BY <1>8, <1>10 DEF L2, h
  <1> QED
    BY <1>4, <1>5, <1>10, <1>11, <1>12 DEF LineHealth, L2

LEMMA ClientStartsFine ==
  ASSUME ConnectionInv, ConnectionInv', InOrderPool, OrderInv, Fine, ClientStarts
  PROVE  Fine'
  <1>0. "client" \in Ends /\ "session" \in Ends /\ Peer("client") = "session"
    BY EndsAre
  <1>1. /\ condition["client"] = "None"
        /\ condition' = [condition EXCEPT !["client"] = "Waiting"]
        /\ UNCHANGED <<cipher, up, closed, reader, sent, doing>>
    BY DEF ClientStarts, link, traffic
  <1>2. \A f \in Ends : StepOf(f)' = StepOf(f)
    BY <1>1 DEF StepOf
  <1>3. condition'["client"] = "Waiting" /\ condition'["session"] = condition["session"]
    BY <1>0, <1>1 DEF ConnectionInv
  <1>4. /\ Comes(Line("client"), Line("client")', 0, None, {"request"})
        /\ Keeps(Line("client"), Line("client")')
        /\ Comes(Line("session"), Line("session")', 0, None, {})
        /\ Keeps(Line("session"), Line("session")')
    <2>1. "request" \in Handshake
      BY DEF Handshake
    <2>2. LinesStay("client", {"request"})
      BY <1>0, <2>1, HandshakeQuiet
    <2> QED
      BY <1>0, <2>2, QuietComes
  <1>5. LineHealth("client")'
    <2>1. Hello("client") = "request"
      BY DEF Hello
    <2>2. LineHealth("client") /\ sent'["client"] = sent["client"]
      BY <1>0, <1>1 DEF Fine
    <2>3. condition["client"] # "Confirmed"
      BY <1>1
    <2> QED
      BY <1>0, <1>4, <2>1, <2>2, <2>3, HelloComes
  <1>6. GoesWell("session") /\ (Replying' <=> Replying) /\ (AtClient' <=> AtClient)
    BY <1>0, <1>2, <1>4, StillWell DEF Replying, AtClient
  <1>7. LineHealth("session")'
    <2>1. \A m \in Range(sent["session"]) : InLine(Line("session"), m) => InLine(Line("session")', m)
      BY <1>4 DEF Keeps
    <2> QED
      BY <1>0, <1>1, <1>3, <1>6, <2>1, LineGoesOn DEF Fine
  <1>8. ReplyFirst' /\ (OnItsWay' => OnItsWay)
    BY <1>1, <1>6, ReplyStaysFirst DEF Fine
  <1>9. ~OnItsWay /\ ~AtClient /\ condition["session"] = "None"
    BY <1>1 DEF Fine, Phases
  <1>10. Runs'
    BY <1>0, <1>1, <1>2, <1>3, EndsAre DEF Fine, Runs
  <1>11. Replied' <=> Replied
    BY <1>3, <1>6 DEF Replied
  <1>12. Phases'
    BY <1>0, <1>1, <1>2, <1>3, <1>6, <1>8, <1>9, <1>11 DEF Fine, Phases, Replied
  <1>13. Keys'
    BY <1>0, <1>1, <1>2, <1>3 DEF Fine, Keys
  <1> QED
    BY <1>5, <1>7, <1>8, <1>10, <1>12, <1>13, EndsAre DEF Fine

LEMMA SessionStartsFine ==
  ASSUME ConnectionInv, ConnectionInv', InOrderPool, OrderInv, Fine, SessionStarts
  PROVE  Fine'
  <1>0. "client" \in Ends /\ "session" \in Ends /\ Peer("client") = "session"
    BY EndsAre
  <1>1. /\ condition["client"] # "None" /\ condition["session"] = "None"
        /\ condition' = [condition EXCEPT !["session"] = "Waiting"]
        /\ UNCHANGED <<cipher, up, closed, reader, sent, doing>>
    BY DEF SessionStarts, link, traffic
  <1>2. \A f \in Ends : StepOf(f)' = StepOf(f)
    BY <1>1 DEF StepOf
  <1>3. condition'["session"] = "Waiting" /\ condition'["client"] = condition["client"]
    BY <1>0, <1>1 DEF ConnectionInv
  <1>4. \A f \in Ends : GoesWell(f) /\ Keeps(Line(f), Line(f)')
    BY <1>0, QuietLines, QuietWell
  <1>5. \A f \in Ends : \A m \in Range(sent[f]) : InLine(Line(f), m) => InLine(Line(f)', m)
    BY <1>4 DEF Keeps
  <1>6. (Replying' <=> Replying) /\ (AtClient' <=> AtClient)
    BY <1>0, <1>2 DEF Replying, AtClient
  <1>7. \A f \in Ends : condition[f] = "Confirmed" => condition'[f] = "Confirmed"
    BY <1>1, <1>3, EndsAre
  <1>8. ReplyFirst' /\ (\A f \in Ends : LineHealth(f)') /\ (OnItsWay' => OnItsWay)
    BY <1>1, <1>4, <1>5, <1>6, <1>7, LinesGoOn
  <1>9. ~OnItsWay /\ ~AtClient /\ ~Replied /\ ~Replied' /\ ~Replying
        /\ condition["client"] # "Confirmed"
    BY <1>1, <1>3 DEF Fine, Phases, Replied
  <1>10. Runs'
    BY <1>0, <1>1, <1>2, <1>3, EndsAre DEF Fine, Runs
  <1>11. Phases'
    BY <1>0, <1>1, <1>2, <1>3, <1>6, <1>8, <1>9 DEF Fine, Phases
  <1>12. Keys'
    BY <1>0, <1>1, <1>2, <1>3 DEF Fine, Keys
  <1> QED
    BY <1>8, <1>10, <1>11, <1>12 DEF Fine

\* The reply is sent: it comes before all that the session has sent.
LEMMA SessionRepliesFine ==
  ASSUME ConnectionInv, ConnectionInv', InOrderPool, OrderInv, Fine,
         NEW w \in Workers, SessionReplies(w)
  PROVE  Fine'
  <1> DEFINE x == Job("compress", "accepted", FALSE)
             L == Line("session")
             L2 == Line("session")'
  <1>0. /\ "client" \in Ends /\ "session" \in Ends /\ Peer("session") = "client"
        /\ Peer("client") = "session"
    BY EndsAre
  <1>1. /\ doing["session"][w].step = "reply" /\ doing["session"][w].job.do = "receive"
        /\ Done("session", w)
        /\ UNCHANGED <<condition, cipher, up, closed, reader, sent>>
    BY DEF SessionReplies, At, link, traffic
  <1>2. w = Handler /\ StepOf("session") = "reply"
    BY <1>0, <1>1, HandshakeHand
  <1>3. OthersGoOn("session", Handler) /\ doing'["session"][Handler].step = "idle"
    BY <1>0, <1>1, <1>2, DoneHand DEF OthersGoOn
  <1>4. StepOf("session")' = "idle" /\ StepOf("client")' = StepOf("client")
    BY <1>0, <1>3, HandlerGoes
  <1>5. /\ Comes(L, L2, 0, None, {"accepted"}) /\ Keeps(L, L2)
        /\ Comes(Line("client"), Line("client")', 0, None, {})
        /\ Keeps(Line("client"), Line("client")')
    <2>1. "accepted" \in Handshake
      BY DEF Handshake
    <2>2. LinesStay("session", {"accepted"})
      BY <1>0, <2>1, HandshakeQuiet
    <2> QED
      BY <1>0, <2>2, QuietComes
  <1>6. Replying /\ ~Replying' /\ (AtClient' <=> AtClient)
    BY <1>2, <1>4 DEF Replying, AtClient
  <1>7. /\ ~Replied /\ ~OnItsWay /\ ~AtClient /\ condition["session"] = "Confirmed"
        /\ condition["client"] = "Waiting"
    <2>1. ~Replied /\ ~OnItsWay /\ ~AtClient /\ condition["session"] = "Confirmed"
          /\ condition["client"] \notin {"None", "Confirmed"}
      BY <1>6 DEF Fine, Phases, Replied
    <2>2. condition["client"] \in Conditions /\ condition["client"] # "Expired"
      BY <1>0 DEF ConnectionInv, Fine, Runs
    <2> QED
      BY <2>1, <2>2 DEF Conditions
  <1>8. Placed(L, FALSE, FALSE) /\ ~InLine(L, "accepted")
    <2>1. Placed(L, condition["client"] = "Confirmed", ~Replying)
      BY DEF Fine, ReplyFirst
    <2> QED
      BY <1>6, <1>7, <2>1 DEF Placed, OnItsWay
  <1>9. /\ L2[12] = Append(L[12], x)
        /\ \A q \in Ranks \ {12} : Stays(L[q], L2[q], q, {})
    <2>1. x \in JobT /\ x.do = "compress" /\ Kind[12] = "compress" /\ 12 \in QueueRanks
      BY ContentHas, KindIs DEF JobT, Job, Dos, Handshake, QueueRanks
    <2>2. Push("session", x) /\ ~closed["session"]
      BY <1>0 DEF SessionReplies, Send, Push, Handshake, Fine, Runs
    <2>3. Holder("session", 12) = "session"
      BY DEF Holder
    <2>4. \A q \in QueueRanks : IF Holder("session", q) = "session" /\ Kind[q] = x.do
                                THEN L2[q] = Append(L[q], x)
                                ELSE Stays(L[q], L2[q], q, {})
      <3> HIDE DEF x
      <3> QED
        BY <1>0, <2>1, <2>2, QueueGrows
    <2>5. \A q \in QueueRanks \ {12} : Kind[q] # x.do
      BY <2>1, KindsDiffer
    <2>6. \A q \in HandRanks : L2[q] = L[q]
      <3>1. HandsStay("session") /\ HandsStay("client")
        <4>1. OthersGoOn("session", w) /\ doing["session"][w].step # "work"
              /\ doing'["session"][w].step # "work"
          BY <1>1, <1>2, <1>3
        <4>2. HandsStay("session")
          BY <1>0, <4>1, HandsStayIf
        <4>3. \A v \in Workers : doing'["client"][v] = doing["client"][v]
          BY <1>0, <1>3 DEF OthersGoOn
        <4> QED
          BY <4>2, <4>3, HandIs DEF HandsStay
      <3> QED
        BY <1>0, <3>1, HandRanksStay, EndsAre
    <2>7. L2[1] = L[1] /\ L2[8] = L[8]
      BY <1>0, EndsOfStep DEF SessionReplies, traffic, link
    <2>8. \A q \in Ranks : q = 1 \/ q = 8 \/ q \in QueueRanks \/ q \in HandRanks
      BY HolderIs
    <2> HIDE DEF x, L, L2
    <2> QED
      BY <2>1, <2>3, <2>4, <2>5, <2>6, <2>7, <2>8 DEF Stays
  <1>10. L \in Lines /\ x \in LineT /\ x.do = "compress" /\ x.what = "accepted"
    BY <1>0, LinesTyped, ContentHas DEF LineT, Job, Dos, Handshake
  <1>11. First(L2, "accepted") /\ InLine(L2, "accepted")
    <2> HIDE DEF x, L, L2
    <2> QED
      BY <1>8, <1>9, <1>10, ReplyEnters
  <1>12. Placed(L2, FALSE, TRUE)
    <2>1. 0 \in Ranks \cup {0} /\ {"accepted"} \subseteq {"accepted"} /\ ~(0 = 5) /\ ~(0 = 14)
      OBVIOUS
    <2> HIDE DEF L, L2
    <2> QED
      BY <1>5, <1>8, <1>10, <2>1, PlacedKept
  <1>13. ReplyFirst'
    <2>1. ReplyFirst' <=> /\ First(L2, "accepted")
                          /\ Placed(L2, condition'["client"] = "Confirmed", ~Replying')
      BY DEF ReplyFirst
    <2> HIDE DEF L2
    <2> QED
      BY <1>1, <1>6, <1>7, <1>11, <1>12, <2>1
  <1>14. LineHealth("session")'
    <2>1. Hello("session") = "accepted"
      BY DEF Hello
    <2>2. LineHealth("session") /\ sent'["session"] = sent["session"]
      BY <1>0, <1>1 DEF Fine
    <2> QED
      BY <1>0, <1>1, <1>5, <2>1, <2>2, HelloComes
  <1>15. LineHealth("client")'
    <2>1. \A m \in Range(sent["client"]) : InLine(Line("client"), m) => InLine(Line("client")', m)
      BY <1>5 DEF Keeps
    <2>2. GoesWell("client")
      BY <1>5, StillWell
    <2> QED
      BY <1>0, <1>1, <2>1, <2>2, LineGoesOn DEF Fine
  <1>16. Replied' /\ OnItsWay'
    BY <1>1, <1>6, <1>7, <1>11 DEF Replied, OnItsWay
  <1>17. Runs'
    BY <1>1, <1>4 DEF Fine, Runs
  <1>18. Phases'
    BY <1>1, <1>4, <1>6, <1>7, <1>16 DEF Fine, Phases
  <1>19. Keys'
    BY <1>1, <1>2, <1>4 DEF Fine, Keys
  <1> QED
    BY <1>13, <1>14, <1>15, <1>17, <1>18, <1>19, EndsAre DEF Fine

-----------------------------------------------------------------------------
(* Data is sent, while all is well.                                        *)

\* What is sent comes to the end of its line.
LEMMA SentFine ==
  ASSUME ConnectionInv, ConnectionInv', InOrderPool, OrderInv, Fine, NEW e \in Ends,
         NEW m \in Content, m \notin Handshake \cup Range(sent[e]),
         condition[e] = "Confirmed",
         sent' = [sent EXCEPT ![e] = Append(@, m)],
         Enters(Line(e), Line(e)', m, {}), Keeps(Line(e), Line(e)'), InLine(Line(e)', m),
         Comes(Line(Peer(e)), Line(Peer(e))', 0, None, {}),
         Keeps(Line(Peer(e)), Line(Peer(e))'),
         UNCHANGED <<condition, cipher, up, closed, reader>>,
         \A f \in Ends : \/ StepOf(f)' = StepOf(f)
                         \/ StepOf(f) \in {"idle", "work"} /\ StepOf(f)' \in {"idle", "work"}
  PROVE  Fine'
  <1> DEFINE p == Peer(e)
             L == Line(e)
             L2 == Line(e)'
             h == Hello(e)
             s == sent[e]
  <1>0. /\ p \in Ends /\ p # e /\ \A f \in Ends : f = e \/ f = p
        /\ sent'[e] = Append(s, m) /\ sent'[p] = sent[p] /\ s \in Seq(Content)
    <2>1. sent \in [Ends -> Seq(Content)]
      BY DEF ConnectionInv, HistoryInv
    <2>2. p \in Ends /\ p # e
      BY PeerIsEnd DEF Ends, Peer
    <2> QED
      BY <2>1, <2>2, EndsAre
  <1>1. L \in Lines /\ L2 \in Lines
    BY LinesTyped, LinesTypedNext
  <1>2. Known(L, s, {h}) /\ SealedRight(L) /\ (\A n \in Range(s) : InLine(L, n))
    BY DEF Fine, LineHealth
  <1>3. Ordered(L, s) /\ h \in Handshake /\ Range(s) \cap {h} = {} /\ m \notin Range(s) \cup {h}
    <2>1. h \in Handshake
      BY DEF Hello, Handshake
    <2>2. Range(s) \cap Handshake = {} /\ Ordered(L, s)
      BY SentIsData DEF OrderInv, OrderOf
    <2> QED
      BY <2>1, <2>2
  <1>4. /\ Enters(L, L2, m, {}) /\ Keeps(L, L2) /\ InLine(L2, m)
        /\ \A q \in Ranks : L2[q] \in Seq(LineT)
    BY <1>1 DEF Lines
  <1>5. First(L, "accepted") => First(L2, "accepted")
    <2> HIDE DEF L, L2
    <2> QED
      BY <1>1, <1>4, DataEnters
  <1>6. SealedRight(L2)
    <2> HIDE DEF L, L2
    <2> QED
      BY <1>1, <1>2, <1>4, DataEnters
  <1>7. /\ \A near, gone : Placed(L, near, gone) => Placed(L2, near, gone)
        /\ InLine(L2, "accepted") => InLine(L, "accepted")
    <2> HIDE DEF L, L2
    <2> QED
      BY <1>1, <1>4, DataEnters
  <1>8. Known(L2, Append(s, m), {h})
    <2> HIDE DEF L, L2, s, h
    <2>1. {} \subseteq {h}
      OBVIOUS
    <2> QED
      BY <1>0, <1>1, <1>2, <1>3, <1>4, <2>1, EnterKeeps
  <1>9. \A n \in Range(Append(s, m)) : InLine(L2, n)
    <2>1. Range(Append(s, m)) = Range(s) \cup {m}
      BY <1>0, RangeOfAppend
    <2> QED
      BY <1>2, <1>4, <2>1 DEF Keeps
  <1>10. LineHealth(e)'
    <2>1. SealedRight(Line(e))'
      BY <1>6 DEF SealedRight, Handshake
    <2>2. Known(Line(e)', sent'[e], {Hello(e)})
      BY <1>0, <1>8
    <2>3. \A n \in Range(sent'[e]) : InLine(Line(e)', n)
      BY <1>0, <1>9
    <2>4. condition'[e] = "Confirmed"
      OBVIOUS
    <2> QED
      BY <2>1, <2>2, <2>3, <2>4 DEF LineHealth
  <1>11. LineHealth(p)'
    <2>1. \A n \in Range(sent[p]) : InLine(Line(p), n) => InLine(Line(p)', n)
      BY DEF Keeps
    <2>2. GoesWell(p)
      BY StillWell
    <2> HIDE DEF p
    <2> QED
      BY <1>0, <2>1, <2>2, LineGoesOn DEF Fine
  <1>12. Replying' => Replying
    BY EndsAre DEF Replying
  <1>13. Replying => Replying'
    BY EndsAre DEF Replying
  <1>14. ReplyFirst' /\ (OnItsWay' => OnItsWay)
    <2>1. CASE e = "session"
      <3>1. ReplyFirst' <=> /\ First(L2, "accepted")
                            /\ Placed(L2, condition'["client"] = "Confirmed", ~Replying')
        BY <2>1 DEF ReplyFirst
      <3>2. ReplyFirst <=> /\ First(L, "accepted")
                           /\ Placed(L, condition["client"] = "Confirmed", ~Replying)
        BY <2>1 DEF ReplyFirst
      <3>3. (condition'["client"] = "Confirmed") = (condition["client"] = "Confirmed")
        OBVIOUS
      <3>4. (~Replying') = (~Replying)
        BY <1>12, <1>13
      <3>5. Placed(L, condition["client"] = "Confirmed", ~Replying)
            => Placed(L2, condition["client"] = "Confirmed", ~Replying)
        BY <1>7
      <3>6. Placed(L2, condition["client"] = "Confirmed", ~Replying)
            => Placed(L2, condition'["client"] = "Confirmed", ~Replying')
        BY <3>3, <3>4 DEF Placed
      <3>7. ReplyFirst /\ (OnItsWay' <=> InLine(L2, "accepted")) /\ (OnItsWay <=> InLine(L, "accepted"))
        BY <2>1 DEF Fine, OnItsWay
      <3> HIDE DEF L, L2
      <3> QED
        BY <1>5, <1>7, <3>1, <3>2, <3>5, <3>6, <3>7
    <2>2. CASE p = "session"
      <3>1. GoesWell("session")
        BY <2>2, StillWell
      <3>2. condition["client"] = "Confirmed" => condition'["client"] = "Confirmed"
        OBVIOUS
      <3> QED
        BY <1>12, <3>1, <3>2, ReplyStaysFirst DEF Fine
    <2> QED
      BY <1>0, <2>1, <2>2, EndsAre
  <1>15. OnItsWay => OnItsWay'
    <2>1. Keeps(Line("session"), Line("session")')
      BY <1>0, EndsAre
    <2> QED
      BY <2>1 DEF Keeps, OnItsWay
  <1>16. Runs' /\ Phases' /\ Keys'
    BY <1>14, <1>15, PhasesStay DEF Fine
  <1> QED
    BY <1>0, <1>10, <1>11, <1>14, <1>16 DEF Fine

LEMMA AcceptFine ==
  ASSUME ConnectionInv, ConnectionInv', InOrderPool, OrderInv, Fine, NEW e \in Ends,
         NEW m \in Messages[e], Accept(e, m)
  PROVE  Fine'
  <1>1. /\ m \in Content /\ m \notin Handshake /\ m \notin Range(sent[e])
        /\ sent' = [sent EXCEPT ![e] = Append(@, m)]
        /\ condition[e] = "Confirmed"
        /\ UNCHANGED <<condition, cipher, up, closed, reader, doing>>
    BY ConnectionAssumption, ContentHas DEF Accept, ToSet, Range, link
  <1>2. ~closed[e]
    BY DEF Fine, Runs
  <1>3. /\ Enters(Line(e), Line(e)', m, {}) /\ Keeps(Line(e), Line(e)')
        /\ InLine(Line(e)', m)
        /\ Comes(Line(Peer(e)), Line(Peer(e))', 0, None, {})
        /\ Keeps(Line(Peer(e)), Line(Peer(e))')
    BY <1>1, <1>2, AcceptMoves
  <1>4. \A f \in Ends : StepOf(f)' = StepOf(f)
    BY <1>1 DEF StepOf
  <1> QED
    BY <1>1, <1>3, <1>4, SentFine

\* The message that starts the transfer was sent: the end is confirmed.
LEMMA SendFileFine ==
  ASSUME ConnectionInv, ConnectionInv', InOrderPool, OrderInv, Fine, NEW e \in Ends,
         NEW w \in Workers, SendFile(e, w)
  PROVE  Fine'
  <1> DEFINE m == What(e, w)
             job == doing[e][w].job
             F == Files(e)
  <1>0. /\ At(e, w, "file", "work") /\ m = job.what /\ job \in JobT /\ m \in Content
        /\ sent' = [sent EXCEPT ![e] = Append(@, m)] /\ Done(e, w)
        /\ UNCHANGED <<condition, cipher, up, closed, reader>>
    BY DEF SendFile, At, What, ConnectionInv, HistoryInv, WorkInv, JobT, link
  <1>1. w = Handler
    <2>1. doing[e][w].step = "work" /\ job.do = "file"
      BY <1>0 DEF At
    <2>2. w = Sender => job.do = "send"
      BY <2>1, HandlersJob
    <2> QED
      BY <2>1, <2>2, PoolIs
  <1>2. 1 \in DOMAIN F /\ F[1] = job /\ job.do = "file"
    <2>1. Hand(e, Handler, "file") = <<job>> /\ job.do = "file"
      BY <1>0, <1>1 DEF Hand, At
    <2>2. queue[e]["Low"] \in Seq(JobT)
      BY DEF ConnectionInv, Sorted, Priorities
    <2> HIDE DEF job
    <2> QED
      BY <1>0, <2>1, <2>2 DEF Files
  <1>3. FilesOwed(F, sent[e], Messages[e])
    BY DEF OrderInv, OrderOf, FilesInv
  <1>4. m \notin Range(sent[e]) /\ \E n \in Range(sent[e]) \cap DOMAIN FileOf : m = FileOf[n]
    <2> HIDE DEF F
    <2> QED
      BY <1>0, <1>2, <1>3 DEF FilesOwed
  <1>5. m \notin Handshake
    BY <1>4, ConnectionAssumption
  <1>6. condition[e] = "Confirmed"
    <2>1. sent[e] # <<>>
      <3>1. sent[e] = <<>> => Range(sent[e]) = {}
        BY DEF Range
      <3> QED
        BY <1>4, <3>1
    <2> QED
      BY <2>1 DEF Fine, LineHealth
  <1>7. ~closed[e]
    BY DEF Fine, Runs
  <1>8. doing[e][w].step = "work" /\ doing'[e][w].step = "idle" /\ OthersGoOn(e, w)
    BY <1>0, DoneHand DEF OthersGoOn, At
  <1>9. \A f \in Ends : \/ StepOf(f)' = StepOf(f)
                        \/ StepOf(f) \in {"idle", "work"} /\ StepOf(f)' \in {"idle", "work"}
    BY <1>8, WorkersStep
  <1>10. /\ Enters(Line(e), Line(e)', m, {}) /\ Keeps(Line(e), Line(e)')
         /\ InLine(Line(e)', m)
         /\ Comes(Line(Peer(e)), Line(Peer(e))', 0, None, {})
         /\ Keeps(Line(Peer(e)), Line(Peer(e))')
    BY <1>5, <1>7, SendFileMoves
  <1> HIDE DEF m, job
  <1> QED
    BY <1>0, <1>4, <1>5, <1>6, <1>9, <1>10, SentFine

LEMMA HealthInvInit == InOrderPool /\ Init => HealthInv
  <1> SUFFICES ASSUME InOrderPool, Init PROVE Fine
    BY DEF HealthInv
  <1>1. /\ condition["client"] = "None" /\ condition["session"] = "None"
        /\ StepOf("client") = "idle" /\ StepOf("session") = "idle"
        /\ cipher["client"] = FALSE
    BY EndsAre, PoolIs DEF Init, StepOf, Idle
  <1>2. ASSUME NEW f \in Ends
        PROVE  \A q \in Ranks : DOMAIN Line(f)[q] = {}
    <2>1. \A q \in Ranks : Line(f)[q] = <<>>
      BY InitLines
    <2> QED
      BY <2>1
  <1>3. ASSUME NEW f \in Ends PROVE LineHealth(f)
    <2>1. sent[f] = <<>>
      BY DEF Init
    <2>2. Range(sent[f]) = {}
      BY <2>1 DEF Range
    <2> QED
      BY <1>2, <2>1, <2>2 DEF LineHealth, Known, SealedRight
  <1>4. ~OnItsWay /\ ReplyFirst
    BY <1>2, EndsAre DEF OnItsWay, InLine, ReplyFirst, First, Placed
  <1>5. ~Replied /\ ~Replying /\ ~AtClient
    BY <1>1 DEF Replied, Replying, AtClient
  <1>6. Runs
    BY <1>1 DEF Init, Runs
  <1>7. Phases /\ Keys
    BY <1>1, <1>4, <1>5 DEF Phases, Keys
  <1> QED
    BY <1>3, <1>4, <1>6, <1>7 DEF Fine

LEMMA TroubledStays ==
  ASSUME ConnectionInv, [Next]_vars
  PROVE  /\ troubled => troubled'
         /\ Break \/ ClientStops \/ (\E e \in Ends : Close(e)) => troubled'
         /\ troubled' = troubled \/ ((Break \/ ClientStops \/ \E e \in Ends : Close(e))
                                     /\ UNCHANGED traffic)
  <1>1. ASSUME NEW e \in Ends, NEW w \in Workers, Work(e, w)
        PROVE  troubled' = troubled
    <2>1. CASE Take(e, w) \/ Stage(e, w) \/ SendFile(e, w) \/ WriteSocket(e, w)
               \/ ReceiveData(e, w)
      BY <2>1 DEF marks, Take, Stage, SendFile, ReceiveData, WriteSocket
    <2>2. CASE WorkerExpires(e, w) \/ ReceiveHandshake(e, w) \/ Notify(e, w)
      BY <2>2 DEF marks, WorkerExpires, ReceiveHandshake, Notify
    <2>3. CASE SessionConfirms(w) \/ SessionRefuses(w) \/ SessionNotifies(w)
               \/ SessionReplies(w) \/ ClientTakesKey(w) \/ ClientConfirms(w)
      BY <2>3 DEF marks, SessionConfirms, SessionRefuses, SessionNotifies,
         SessionReplies, ClientTakesKey, ClientConfirms
    <2> QED
      BY <1>1, <2>1, <2>2, <2>3 DEF Work
  <1>2. CASE \/ ClientStarts \/ SessionStarts \/ UNCHANGED vars
             \/ \E e \in Ends : Io(e) \/ \E m \in Messages[e] : Accept(e, m)
    <2>1. troubled' = troubled
      BY <1>2 DEF marks, vars, ClientStarts, SessionStarts, ReadFails, ReaderExpires,
         Io, ReadSocket, Accept
    <2>2. ~(Break \/ ClientStops \/ \E e \in Ends : Close(e)) \/ troubled'
      BY DEF Break, ClientStops, Close
    <2> QED
      BY <2>1, <2>2
  <1>3. CASE Break \/ ClientStops \/ \E e \in Ends : Close(e)
    BY <1>3 DEF Break, ClientStops, Close, traffic
  <1>4. ~(Break \/ ClientStops \/ \E e \in Ends : Close(e)) \/ troubled'
    BY DEF Break, ClientStops, Close
  <1> QED
    BY <1>1, <1>2, <1>3, <1>4 DEF Next

\* A worker of a connection that is well does not expire or refuse it.
LEMMA WorkFine ==
  ASSUME ConnectionInv, ConnectionInv', InOrderPool, OrderInv, Fine, sameKey,
         NEW e \in Ends, NEW w \in Workers, Work(e, w)
  PROVE  Fine'
  <1>1. CASE Take(e, w) \/ Stage(e, w) \/ SendFile(e, w) \/ WriteSocket(e, w)
    BY <1>1, TakeFine, StageFine, SendFileFine, WriteFine
  <1>2. CASE ReceiveData(e, w) \/ Notify(e, w)
    BY <1>2, ReceiveDataFine, NotifyFine
  <1>3. CASE ReceiveHandshake(e, w)
    BY <1>3, ClientHearsFine, SessionHearsFine, EndsAre
  <1>4. CASE e = "session" /\ (SessionConfirms(w) \/ SessionNotifies(w) \/ SessionReplies(w))
    BY <1>4, SessionConfirmsFine, SessionNotifiesFine, SessionRepliesFine
  <1>5. CASE e = "client" /\ (ClientTakesKey(w) \/ ClientConfirms(w))
    BY <1>5, ClientTakesKeyFine, ClientConfirmsFine
  <1>6. doing[e][w].step \notin {"expire", "refuse"}
    <2> SUFFICES ASSUME doing[e][w].step \in {"expire", "refuse"} PROVE FALSE
      OBVIOUS
    <2>1. StepOf(e) \in {"expire", "refuse"}
      BY HandshakeHand
    <2> QED
      BY <2>1, EndsAre DEF Fine, Runs
  <1>7. ~WorkerExpires(e, w) /\ ~(e = "session" /\ SessionRefuses(w))
    BY <1>6 DEF WorkerExpires, SessionRefuses, At
  <1> QED
    BY <1>1, <1>2, <1>3, <1>4, <1>5, <1>7 DEF Work

LEMMA HealthInvStep ==
  ASSUME ConnectionInv, InOrderPool, OrderInv, HealthInv, [Next]_vars
  PROVE  HealthInv'
  <1> SUFFICES ASSUME Healthy' PROVE Fine'
    BY DEF HealthInv
  <1>1. ConnectionInv'
    BY ConnectionInvStep
  <1>2. /\ ~troubled /\ ~troubled' /\ sameKey
        /\ ~Break /\ ~ClientStops /\ \A e \in Ends : ~Close(e)
    BY TroubledStays, KeyStays DEF Healthy
  <1>3. Fine
    BY <1>2 DEF HealthInv, Healthy
  <1>4. CASE ClientStarts \/ SessionStarts \/ UNCHANGED vars
    BY <1>1, <1>3, <1>4, ClientStartsFine, SessionStartsFine, NothingFine
  <1>5. CASE \E e \in Ends : \E m \in Messages[e] : Accept(e, m)
    BY <1>1, <1>3, <1>5, AcceptFine
  <1>6. CASE \E e \in Ends : \E w \in Workers : Work(e, w)
    BY <1>1, <1>2, <1>3, <1>6, WorkFine
  <1>7. CASE \E e \in Ends : Io(e)
    <2>1. PICK e \in Ends : Io(e)
      BY <1>7
    <2>2. up /\ reader[e] = "ready"
      BY <1>3 DEF Fine, Runs
    <2>3. ReadSocket(e)
      BY <2>1, <2>2 DEF Io, ReadFails, ReaderExpires
    <2> QED
      BY <1>1, <1>3, <2>3, ReadFine
  <1> QED
    BY <1>2, <1>4, <1>5, <1>6, <1>7 DEF Next

\* The inductive invariant of the theorems below.
ConnectionIsWell == ConnectionInv /\ OrderInv /\ HealthInv

LEMMA WellInit == InOrderPool /\ Init => ConnectionIsWell
  BY ConnectionInvInit, OrderInvInit, HealthInvInit DEF ConnectionIsWell

LEMMA WellStep == InOrderPool /\ ConnectionIsWell /\ [Next]_vars => ConnectionIsWell'
  BY ConnectionInvStep, OrderInvStep, HealthInvStep DEF ConnectionIsWell

\* With the pool of DataHandler an end expires only because the network or the
\* client has ended the connection or the key was wrong: no data overtakes the
\* reply of the handshake, which would expire the client (NetworkClient.cpp:409).
\* The run connection_overtaken shows that a larger pool breaks it.
THEOREM ExpiryHasCause ==
  ASSUME InOrderPool
  PROVE  Spec => []ExpiresWithCause
  <1>1. ConnectionIsWell => ExpiresWithCause
    BY DEF ConnectionIsWell, HealthInv, Healthy, Fine, Runs, ExpiresWithCause,
       ConnectionInv, HistoryInv
  <1> QED
    BY <1>1, WellInit, WellStep, PTL DEF Spec

-----------------------------------------------------------------------------
(* The channel of an end's messages.                                       *)

\* The messages received of s: Taken of module OrderedChannel.
TakenOf(s, r) ==
  IF r = <<>> THEN 0 ELSE CHOOSE k \in 1..Len(s) : s[k] = r[Len(r)]

\* What a step does to the channel of the messages of f: one is sent, one is
\* given to the application, or the channel is lossy, or nothing.
ChannelMoves(f) ==
  \/ /\ Len(sent'[f]) = Len(sent[f]) + 1
     /\ SubSeq(sent'[f], 1, Len(sent[f])) = sent[f]
     /\ received'[Peer(f)] = received[Peer(f)] /\ troubled' = troubled
  \/ /\ \E k \in (TakenOf(sent[f], received[Peer(f)]) + 1)..Len(sent[f]) :
           /\ k = TakenOf(sent[f], received[Peer(f)]) + 1 \/ troubled
           /\ received'[Peer(f)] = Append(received[Peer(f)], sent[f][k])
     /\ sent'[f] = sent[f] /\ troubled' = troubled
  \/ /\ ~troubled /\ troubled' = TRUE
     /\ sent'[f] = sent[f] /\ received'[Peer(f)] = received[Peer(f)]
  \/ /\ sent'[f] = sent[f] /\ received'[Peer(f)] = received[Peer(f)]
     /\ troubled' = troubled

LEMMA ReceivedStays ==
  ASSUME [Next]_vars
  PROVE  \/ UNCHANGED received
         \/ \E e \in Ends : \E w \in Workers : ReceiveData(e, w)
  <1>1. ASSUME NEW e \in Ends, NEW w \in Workers, Work(e, w)
        PROVE  UNCHANGED received \/ ReceiveData(e, w)
    <2>1. CASE Take(e, w) \/ Stage(e, w) \/ WriteSocket(e, w) \/ SendFile(e, w)
      BY <2>1 DEF traffic, Take, Stage, SendFile, WriteSocket
    <2>2. CASE WorkerExpires(e, w) \/ ReceiveHandshake(e, w) \/ Notify(e, w)
      BY <2>2 DEF traffic, WorkerExpires, ReceiveHandshake, Notify
    <2>3. CASE SessionConfirms(w) \/ SessionRefuses(w) \/ SessionNotifies(w)
               \/ SessionReplies(w) \/ ClientTakesKey(w) \/ ClientConfirms(w)
      BY <2>3 DEF traffic, SessionConfirms, SessionRefuses, SessionNotifies,
         SessionReplies, ClientTakesKey, ClientConfirms
    <2> QED
      BY <1>1, <2>1, <2>2, <2>3 DEF Work
  <1>2. CASE ClientStarts \/ SessionStarts \/ ClientStops \/ UNCHANGED vars \/ Break
             \/ (\E e \in Ends : Io(e) \/ Close(e) \/ \E m \in Messages[e] : Accept(e, m))
    BY <1>2 DEF traffic, vars, ClientStarts, SessionStarts, ClientStops, ReadFails,
       ReaderExpires, Io, ReadSocket, Break, Close, Accept
  <1> QED
    BY <1>1, <1>2 DEF Next

LEMMA SentMoves ==
  ASSUME ConnectionInv, NEW e \in Ends, NEW m \in Content,
         sent' = [sent EXCEPT ![e] = Append(@, m)], UNCHANGED <<received, troubled>>,
         NEW f \in Ends
  PROVE  ChannelMoves(f)
  <1> DEFINE s == sent[f]
  <1>1. sent \in [Ends -> Seq(Content)] /\ s \in Seq(Content)
    BY DEF ConnectionInv, HistoryInv
  <1>2. CASE f # e
    BY <1>1, <1>2 DEF ChannelMoves
  <1>3. CASE f = e
    <2>1. sent'[f] = Append(s, m)
      BY <1>1, <1>3
    <2>2. Len(Append(s, m)) = Len(s) + 1 /\ Append(s, m) \in Seq(Content)
      BY <1>1, AppendProperties
    <2>3. SubSeq(Append(s, m), 1, Len(s)) = s
      <3> HIDE DEF s
      <3>1. Len(s) \in Nat /\ \A i \in 1 .. Len(s) : Append(s, m)[i] = s[i] /\ s[i] \in Content
        BY <1>1, AppendProperties, LenProperties, ElementOfSeq
      <3>2. /\ SubSeq(Append(s, m), 1, Len(s)) \in Seq(Content)
            /\ Len(SubSeq(Append(s, m), 1, Len(s))) = Len(s)
            /\ \A i \in 1 .. Len(s) : SubSeq(Append(s, m), 1, Len(s))[i] = s[i]
        BY <3>1, SubSeqProperties
      <3> QED
        BY <1>1, <3>2, SeqEqual
    <2> QED
      BY <2>1, <2>2, <2>3 DEF ChannelMoves
  <1> QED
    BY <1>2, <1>3

\* What an application is given comes behind all it was given before, and next
\* to it unless the connection is in trouble.
LEMMA NextIsGiven ==
  ASSUME NEW L \in Lines, NEW s \in Seq(Content), NEW r \in Seq(Content), NEW job,
         L[1] = Given(r), L[2] = <<job>>, job.do = "receive",
         Ordered(L, s), IsInjective(s), job.what \in Range(s), Range(r) \subseteq Range(s)
  PROVE  /\ \E k \in (TakenOf(s, r) + 1)..Len(s) : job.what = s[k]
         /\ (\A m \in Range(s) : InLine(L, m)) =>
              TakenOf(s, r) + 1 \in 1..Len(s) /\ job.what = s[TakenOf(s, r) + 1]
  <1> DEFINE t == TakenOf(s, r)
  <1>1. /\ DOMAIN s = 1 .. Len(s) /\ Len(s) \in Nat
        /\ DOMAIN r = 1 .. Len(r) /\ Len(r) \in Nat
    BY LenProperties
  <1>2. PICK k \in 1 .. Len(s) : s[k] = job.what
    BY <1>1 DEF Range
  <1>3. /\ 1 \in Ranks /\ 2 \in Ranks /\ Counted(L, 2, 1) /\ L[2][1] = job
        /\ 1 \in DOMAIN L[2]
    BY KindIs DEF Counted, Ranks
  <1>4. \A i \in 1 .. Len(r) : Counted(L, 1, i) /\ i \in DOMAIN L[1] /\ L[1][i].what = r[i]
    BY KindIs DEF Counted, Given, Job
  <1>5. DOMAIN L[1] = 1 .. Len(r)
    BY DEF Given
  <1>6. ASSUME r # <<>>
        PROVE  /\ t \in 1 .. Len(s) /\ s[t] = r[Len(r)] /\ Len(r) \in 1 .. Len(r)
    <2>1. Len(r) \in 1 .. Len(r)
      <3>1. Len(r) # 0
        BY <1>6, EmptySeq
      <3> QED
        BY <1>1, <3>1
    <2>2. \E n \in 1 .. Len(s) : s[n] = r[Len(r)]
      <3>1. r[Len(r)] \in Range(r)
        BY <1>1, <2>1 DEF Range
      <3> QED
        BY <1>1, <3>1 DEF Range
    <2>3. t = CHOOSE n \in 1 .. Len(s) : s[n] = r[Len(r)]
      BY <1>6 DEF TakenOf
    <2> QED
      BY <2>1, <2>2, <2>3
  <1>7. r = <<>> => t = 0 /\ Len(r) = 0
    BY DEF TakenOf
  <1>8. t \in Nat /\ t < k
    <2>1. CASE r = <<>>
      BY <1>7, <2>1
    <2>2. CASE r # <<>>
      <3>1. Ahead(1, Len(r), 2, 1)
        BY DEF Ahead
      <3>2. t < k
        BY <1>1, <1>2, <1>3, <1>4, <1>6, <2>2, <3>1 DEF Ordered
      <3> QED
        BY <1>6, <2>2, <3>2
    <2> QED
      BY <2>1, <2>2
  <1>9. ASSUME \A m \in Range(s) : InLine(L, m) PROVE k = t + 1
    <2> SUFFICES ASSUME k # t + 1 PROVE FALSE
      OBVIOUS
    <2> DEFINE j == t + 1
    <2>1. j \in 1 .. Len(s) /\ j < k /\ t < j
      BY <1>1, <1>8
    <2> HIDE DEF j, t
    <2>2. s[j] \in Range(s)
      BY <1>1, <2>1 DEF Range
    <2>3. PICK q \in Ranks : \E i \in DOMAIN L[q] : Counted(L, q, i) /\ L[q][i].what = s[j]
      BY <1>9, <2>2 DEF InLine
    <2>4. PICK i \in DOMAIN L[q] : Counted(L, q, i) /\ L[q][i].what = s[j]
      BY <2>3
    <2>5. ~Ahead(2, 1, q, i)
      <3>1. Ahead(2, 1, q, i) => k < j
        BY <1>1, <1>2, <1>3, <2>1, <2>4 DEF Ordered
      <3> QED
        BY <1>1, <2>1, <3>1
    <2>6. <<q, i>> # <<2, 1>>
      <3>1. <<q, i>> = <<2, 1>> => s[j] = s[k]
        BY <1>2, <1>3, <2>4
      <3>2. s[j] = s[k] => j = k
        BY <1>1, <2>1 DEF IsInjective
      <3> QED
        BY <1>1, <2>1, <3>1, <3>2
    <2>7. q = 1 /\ i \in 1 .. Len(r)
      <3>1. L[q] \in Seq(LineT)
        BY DEF Lines
      <3>2. i \in 1 .. Len(L[q]) /\ Len(L[q]) \in Nat
        BY <3>1, LenProperties
      <3>3. q = 1
        BY <2>5, <2>6, <3>2 DEF Ahead, Ranks
      <3> QED
        BY <1>5, <3>3
    <2>8. r # <<>>
      BY <1>1, <1>7, <2>7
    <2>9. CASE i = Len(r)
      <3>1. s[j] = s[t]
        BY <1>4, <1>6, <2>4, <2>7, <2>8, <2>9
      <3>2. j = t
        BY <1>1, <1>6, <2>1, <2>8, <3>1 DEF IsInjective
      <3> QED
        BY <1>8, <2>1, <3>2
    <2>10. CASE i # Len(r)
      <3>1. Ahead(1, i, 1, Len(r))
        BY <1>1, <2>7, <2>10 DEF Ahead
      <3>2. /\ Counted(L, 1, i) /\ Counted(L, 1, Len(r)) /\ L[1][i].what = s[j]
            /\ L[1][Len(r)].what = s[t] /\ i \in DOMAIN L[1] /\ Len(r) \in DOMAIN L[1]
            /\ j \in DOMAIN s /\ t \in DOMAIN s
        BY <1>1, <1>4, <1>6, <2>1, <2>4, <2>7, <2>8
      <3>3. j < t
        BY <1>3, <3>1, <3>2 DEF Ordered
      <3> QED
        BY <1>1, <1>8, <2>1, <3>3
    <2> QED
      BY <2>9, <2>10
  <1>10. k \in t + 1 .. Len(s)
    BY <1>1, <1>8
  <1>11. k = t + 1 => t + 1 \in 1 .. Len(s) /\ job.what = s[t + 1]
    BY <1>2
  <1> QED
    BY <1>2, <1>9, <1>10, <1>11

LEMMA GivenMoves ==
  ASSUME ConnectionInv, InOrderPool, OrderInv, HealthInv, HandshakeInv,
         NEW e \in Ends, NEW w \in Workers, ReceiveData(e, w),
         NEW f \in Ends
  PROVE  ChannelMoves(f)
  <1> DEFINE job == doing[e][w].job
             p == Peer(e)
             s == sent[p]
             r == received[e]
             L == Line(p)
  <1>0. /\ p \in Ends /\ Peer(p) = e /\ (f = p \/ Peer(f) # e)
        /\ UNCHANGED <<sent, troubled>>
        /\ s \in Seq(Content) /\ r \in Seq(Content)
        /\ \/ received' = received
           \/ /\ received' = [received EXCEPT ![e] = Append(@, job.what)]
              /\ condition[e] = "Confirmed"
        /\ job.what \notin Handshake /\ job \in JobT
    <2>1. p \in Ends /\ Peer(p) = e /\ \A g \in Ends : g = p \/ Peer(g) # e
      BY DEF Ends, Peer
    <2>2. sent \in [Ends -> Seq(Content)] /\ received \in [Ends -> Seq(Content)]
      BY DEF ConnectionInv, HistoryInv
    <2> QED
      BY <2>1, <2>2 DEF ReceiveData, What, marks, At, ConnectionInv, WorkInv
  <1>1. L[2] = <<job>> /\ job.do = "receive"
    BY DataInHand
  <1> HIDE DEF p
  <1>2. L \in Lines /\ L[1] = Given(r)
    BY <1>0, LinesTyped, LineIs
  <1>3. Ordered(L, s) /\ Known(L, s, Handshake) /\ FilesOwed(Files(p), s, Messages[p])
    BY <1>0 DEF OrderInv, OrderOf, FilesInv
  <1>4. Range(r) \cap Handshake = {} /\ IsInjective(s)
    BY <1>3 DEF OrderInv, OrderOf, FilesOwed
  <1>5. 1 \in Ranks /\ 2 \in Ranks
    BY DEF Ranks
  <1>6. condition[e] = "Confirmed" /\ ~troubled => \A m \in Range(s) : InLine(L, m)
    <2> SUFFICES ASSUME condition[e] = "Confirmed", ~troubled
                 PROVE  \A m \in Range(s) : InLine(L, m)
      OBVIOUS
    <2>1. sameKey
      BY DEF HandshakeInv, WrongKeyStaysOut
    <2>2. LineHealth(p)
      BY <1>0, <2>1 DEF HealthInv, Healthy, Fine
    <2> QED
      BY <2>2 DEF LineHealth
  <1> HIDE DEF L, job
  <1>7. job.what \in Range(s)
    <2>1. 1 \in DOMAIN L[2] /\ L[2][1] = job /\ Counted(L, 2, 1)
      BY <1>1, KindIs DEF Counted
    <2>2. job.what \in Range(s) \cup Handshake
      BY <1>3, <1>5, <2>1 DEF Known
    <2> QED
      BY <1>0, <2>2
  <1>8. Range(r) \subseteq Range(s)
    <2> HIDE DEF r, s
    <2> SUFFICES ASSUME NEW i \in DOMAIN r PROVE r[i] \in Range(s)
      BY DEF Range
    <2>1. i \in 1 .. Len(r)
      BY <1>0, LenProperties
    <2>2. i \in DOMAIN L[1] /\ Counted(L, 1, i) /\ L[1][i].what = r[i]
      BY <1>2, <2>1, KindIs DEF Counted, Given, Job
    <2>3. r[i] \in Range(s) \cup Handshake
      BY <1>3, <1>5, <2>2 DEF Known
    <2>4. r[i] \in Range(r)
      BY DEF Range
    <2> QED
      BY <1>4, <2>3, <2>4
  <1>9. /\ \E k \in (TakenOf(s, r) + 1)..Len(s) : job.what = s[k]
        /\ (\A m \in Range(s) : InLine(L, m)) =>
             TakenOf(s, r) + 1 \in 1..Len(s) /\ job.what = s[TakenOf(s, r) + 1]
    <2> HIDE DEF r, s
    <2> QED
      BY <1>0, <1>1, <1>2, <1>3, <1>4, <1>7, <1>8, NextIsGiven
  <1>10. CASE received' = received
    BY <1>0, <1>10 DEF ChannelMoves
  <1>11. CASE received' # received
    <2>1. /\ received'[e] = Append(r, job.what)
          /\ \A g \in Ends \ {e} : received'[g] = received[g]
          /\ condition[e] = "Confirmed"
      <3>1. received \in [Ends -> Seq(Content)]
        BY DEF ConnectionInv, HistoryInv
      <3> QED
        BY <1>0, <1>11, <3>1
    <2>2. CASE Peer(f) # e
      <3>1. Peer(f) \in Ends
        BY PeerIsEnd
      <3> QED
        BY <1>0, <2>1, <2>2, <3>1 DEF ChannelMoves
    <2>3. \E k \in (TakenOf(s, r) + 1)..Len(s) :
            /\ k = TakenOf(s, r) + 1 \/ troubled
            /\ received'[e] = Append(r, s[k])
      <3>1. CASE troubled
        BY <1>9, <2>1, <3>1
      <3>2. CASE ~troubled
        <4>1. TakenOf(s, r) + 1 \in 1..Len(s) /\ job.what = s[TakenOf(s, r) + 1]
          BY <1>6, <1>9, <2>1, <3>2
        <4>2. TakenOf(s, r) + 1 \in (TakenOf(s, r) + 1)..Len(s)
          BY <4>1
        <4> QED
          BY <2>1, <4>1, <4>2
      <3> QED
        BY <3>1, <3>2
    <2>4. ChannelMoves(p)
      BY <1>0, <2>3 DEF ChannelMoves
    <2> QED
      BY <1>0, <2>2, <2>4
  <1> QED
    BY <1>10, <1>11

LEMMA StepMovesChannel ==
  ASSUME ConnectionIsWell, InOrderPool, HandshakeInv, [Next]_vars, NEW f \in Ends
  PROVE  ChannelMoves(f)
  <1>0. ConnectionInv /\ OrderInv /\ HealthInv
    BY DEF ConnectionIsWell
  <1>1. CASE \E e \in Ends : \E w \in Workers : ReceiveData(e, w)
    BY <1>0, <1>1, GivenMoves
  <1>2. CASE \E e \in Ends : \E m \in Messages[e] : Accept(e, m)
    <2>1. PICK e \in Ends : \E m \in Messages[e] : Accept(e, m)
      BY <1>2
    <2>2. PICK m \in Messages[e] : Accept(e, m)
      BY <2>1
    <2>3. /\ m \in Content /\ sent' = [sent EXCEPT ![e] = Append(@, m)]
          /\ UNCHANGED <<received, troubled>>
      BY <2>2, ContentHas DEF Accept, marks
    <2> QED
      BY <1>0, <2>3, SentMoves
  <1>3. CASE \E e \in Ends : \E w \in Workers : SendFile(e, w)
    <2>1. PICK e \in Ends : \E w \in Workers : SendFile(e, w)
      BY <1>3
    <2>2. PICK w \in Workers : SendFile(e, w)
      BY <2>1
    <2>3. /\ What(e, w) \in Content /\ sent' = [sent EXCEPT ![e] = Append(@, What(e, w))]
          /\ UNCHANGED <<received, troubled>>
      BY <1>0, <2>2 DEF SendFile, marks, At, What, ConnectionInv, WorkInv, JobT
    <2> QED
      BY <1>0, <2>3, SentMoves
  <1>4. CASE UNCHANGED received /\ UNCHANGED sent
    <2>1. troubled \in BOOLEAN /\ troubled' \in BOOLEAN /\ (troubled => troubled')
      BY <1>0, ConnectionInvStep, TroubledStays DEF ConnectionInv, HistoryInv
    <2> QED
      BY <1>4, <2>1 DEF ChannelMoves
  <1> QED
    BY <1>1, <1>2, <1>3, <1>4, SentStays, ReceivedStays

LEMMA ClientChannelMoves ==
  ASSUME ChannelMoves("client")
  PROVE  [ClientToSession!Next]_(ClientToSession!vars)
  <1> DEFINE s == sent["client"]
             r == received["session"]
  <1>1. \/ Len(s') = Len(s) + 1 /\ SubSeq(s', 1, Len(s)) = s /\ UNCHANGED <<r, troubled>>
        \/ /\ \E k \in (TakenOf(s, r) + 1)..Len(s) :
                 /\ k = TakenOf(s, r) + 1 \/ troubled
                 /\ r' = Append(r, s[k])
           /\ UNCHANGED <<s, troubled>>
        \/ ~troubled /\ troubled' = TRUE /\ UNCHANGED <<s, r>>
        \/ UNCHANGED <<s, r, troubled>>
    BY EndsAre DEF ChannelMoves
  <1>2. ClientToSession!Taken = TakenOf(s, r)
    BY DEF ClientToSession!Taken, TakenOf
  <1> QED
    BY <1>1, <1>2 DEF ClientToSession!Next, ClientToSession!vars, ClientToSession!AcceptOne,
       ClientToSession!Deliver, ClientToSession!BecomeLossy

LEMMA SessionChannelMoves ==
  ASSUME ChannelMoves("session")
  PROVE  [SessionToClient!Next]_(SessionToClient!vars)
  <1> DEFINE s == sent["session"]
             r == received["client"]
  <1>1. \/ Len(s') = Len(s) + 1 /\ SubSeq(s', 1, Len(s)) = s /\ UNCHANGED <<r, troubled>>
        \/ /\ \E k \in (TakenOf(s, r) + 1)..Len(s) :
                 /\ k = TakenOf(s, r) + 1 \/ troubled
                 /\ r' = Append(r, s[k])
           /\ UNCHANGED <<s, troubled>>
        \/ ~troubled /\ troubled' = TRUE /\ UNCHANGED <<s, r>>
        \/ UNCHANGED <<s, r, troubled>>
    BY EndsAre DEF ChannelMoves
  <1>2. SessionToClient!Taken = TakenOf(s, r)
    BY DEF SessionToClient!Taken, TakenOf
  <1> QED
    BY <1>1, <1>2 DEF SessionToClient!Next, SessionToClient!vars, SessionToClient!AcceptOne,
       SessionToClient!Deliver, SessionToClient!BecomeLossy

\* With the pool of DataHandler the connection implements OrderedChannel in both
\* directions: an application is given the messages of its peer in the order of
\* send() and each once, and none is skipped until the connection is in trouble
\* (DataHandler.cpp:659-744).
THEOREM OrderIsPromised ==
  ASSUME InOrderPool
  PROVE  Spec => KeepsOrder
  <1>1. Init => ClientToSession!Init /\ SessionToClient!Init
    BY EndsAre DEF Init, ClientToSession!Init, SessionToClient!Init
  <1>2. ConnectionIsWell /\ HandshakeInv /\ [Next]_vars =>
          /\ [ClientToSession!Next]_(ClientToSession!vars)
          /\ [SessionToClient!Next]_(SessionToClient!vars)
    <2> SUFFICES ASSUME ConnectionIsWell, HandshakeInv, [Next]_vars
                 PROVE  /\ [ClientToSession!Next]_(ClientToSession!vars)
                        /\ [SessionToClient!Next]_(SessionToClient!vars)
      OBVIOUS
    <2>1. ChannelMoves("client") /\ ChannelMoves("session")
      BY StepMovesChannel, EndsAre
    <2> QED
      BY <2>1, ClientChannelMoves, SessionChannelMoves
  <1>3. Spec => [](ConnectionIsWell /\ HandshakeInv)
    BY WellInit, WellStep, WrongKeyIsRefused, PTL DEF Spec
  <1> QED
    BY <1>1, <1>2, <1>3, PTL DEF Spec, KeepsOrder, ClientToSession!Spec,
       SessionToClient!Spec

=============================================================================
