----------------------------- MODULE BackupProofs -----------------------------
(***************************************************************************)
(* Proofs about the backup files of jobs: the types and the owners of the  *)
(* files, that what save() wrote whole is not lost, and that no data is    *)
(* worked on twice but for a crash or a recovery under living jobs.        *)
(***************************************************************************)
EXTENDS JobBackup, SequenceLemmas, FiniteSetTheorems

USE JobBackupAssumption, JobPoolAssumption

\* A queued job waits once, in the queue of its own priority.
Ordered(p) ==
  /\ IsInjective(queue[p])
  /\ \A j \in Queued(p) : step[j] = "queued" /\ PriorityOf[j] = p

QueueInv == \A p \in Priorities : Ordered(p)

\* What a job has in hand and what its file holds, at each point of its life.
LifeInv ==
  \A j \in Jobs :
    /\ step[j] \in {"unborn", "built"} => j \notin named \cup DOMAIN folder
    /\ Alive(j) /\ step[j] # "built" => j \in named
    /\ Alive(j) => payload[j] \in submitted
    /\ step[j] \in {"built", "opened"} => data[j] = payload[j]
    /\ step[j] \in {"saved", "queued", "taken"} => data[j] = Empty
    /\ step[j] \in {"loaded", "called"} => data[j] \in {payload[j], Empty}
    /\ j \in DOMAIN folder => folder[j] \in {payload[j], Empty}

\* A file that is not there although its job lives was taken by a recovery;
\* one that is there holds what load() read.
FileInv ==
  \A j \in Jobs : payload[j] \notin exposed =>
    /\ Alive(j) /\ step[j] # "built" => j \in DOMAIN folder
    /\ step[j] \in {"loaded", "called"} => data[j] = folder[j]

\* A callback that was called has the data.
CalledInv == \A j \in At("called") : data[j] = Empty \/ ran[data[j]] > 0

\* Nothing is known of data the program has not submitted.
SubmittedInv ==
  /\ \A f \in DOMAIN folder : folder[f] \in submitted \cup {Empty}
  /\ Range(got) \subseteq submitted \cup {Empty}
  /\ \A p \in Payloads \ submitted : ran[p] = 0

\* Between reading a file and removing it, its content is the last result, and
\* the data of a living job is exposed.
ReadInv ==
  recovery = "read" =>
    /\ got # <<>>
    /\ step[current] # "unborn"
    /\ Alive(current) => payload[current] \in exposed
    /\ current \in DOMAIN folder =>
         folder[current] \in {got[Len(got)], Empty} \cup exposed

\* The number of busy workers is a number.
WorkersInv == IsFiniteSet(Busy)

BackupIInv ==
  /\ TypeOK
  /\ FilesHaveOwners
  /\ WorkersInv
  /\ QueueInv
  /\ LifeInv
  /\ FileInv
  /\ CalledInv
  /\ SubmittedInv
  /\ ReadInv

-----------------------------------------------------------------------------
\* Data that no recovery took from a living job is in one place: a living job,
\* a file that its job left behind, or an entry of the result.  Only the content
\* of the file that is being read is in two.
Untouched == Payloads \ exposed

Abandoned == {f \in DOMAIN folder : ~Alive(f)}

OneJob ==
  \A j, k \in Jobs :
    /\ Alive(j) /\ Alive(k)
    /\ payload[j] = payload[k] /\ payload[j] \in Untouched
    => j = k

OneFile ==
  \A f, g \in Abandoned :
    folder[f] = folder[g] /\ folder[f] \in Untouched => f = g

OneEntry ==
  \A i, k \in DOMAIN got : got[i] = got[k] /\ got[i] \in Untouched => i = k

JobOrFile ==
  \A j \in Jobs, f \in Abandoned :
    Alive(j) /\ payload[j] = folder[f] => payload[j] \notin Untouched

JobOrEntry ==
  \A j \in Jobs, i \in DOMAIN got :
    Alive(j) /\ payload[j] = got[i] => payload[j] \notin Untouched

FileOrEntry ==
  \A f \in Abandoned, i \in DOMAIN got :
    folder[f] = got[i] /\ got[i] \in Untouched =>
      recovery = "read" /\ f = current /\ i = Len(got)

\* Data that still waits to be run: a crash cut off every callback it had.
Unrun(p) == p \in Untouched => ran[p] <= halfway[p]

WaitingInv ==
  /\ \A j \in Jobs : Alive(j) /\ step[j] # "called" => Unrun(payload[j])
  /\ \A f \in Abandoned : Unrun(folder[f])
  /\ \A i \in DOMAIN got : Unrun(got[i])

UniqueInv ==
  /\ OneJob
  /\ OneFile
  /\ OneEntry
  /\ JobOrFile
  /\ JobOrEntry
  /\ FileOrEntry

\* Data that save() wrote whole, and where it can be.
Safe(p) ==
  \/ ran[p] > 0
  \/ p \in Range(folder)
  \/ p \in Range(got)
  \/ \E j \in Jobs : Alive(j) /\ data[j] = p
  \/ p \in thrown \cup down \cup exposed

SafeInv == \A p \in kept : Safe(p)

-----------------------------------------------------------------------------
(* The queues *)

\* What waits in a queue, and what taking its first job leaves there.
LEMMA QueuedJobs ==
  ASSUME TypeOK, QueueInv, LifeInv, NEW p \in Priorities
  PROVE  /\ Queued(p) \subseteq Jobs
         /\ \A j \in Queued(p) :
              step[j] = "queued" /\ PriorityOf[j] = p /\ j \in named
         /\ \A j \in Queued(p) : payload[j] \in Payloads
  <1>1. Queued(p) \subseteq Jobs
    BY RangeInSet DEF TypeOK, JobPoolTypeOK, Queued
  <1>2. \A j \in Queued(p) : step[j] = "queued" /\ PriorityOf[j] = p
    BY DEF QueueInv, Ordered
  <1> QED
    BY <1>1, <1>2 DEF LifeInv, TypeOK, Alive

LEMMA FirstQueued ==
  ASSUME TypeOK, QueueInv, NEW p \in Priorities, queue[p] # <<>>
  PROVE  /\ Head(queue[p]) \in Queued(p)
         /\ Head(queue[p]) \in Jobs
         /\ step[Head(queue[p])] = "queued"
         /\ PriorityOf[Head(queue[p])] = p
         /\ Tail(queue[p]) \in Seq(Jobs)
         /\ IsInjective(Tail(queue[p]))
         /\ Range(Tail(queue[p])) = Queued(p) \ {Head(queue[p])}
  <1>1. queue[p] \in Seq(Jobs) /\ IsInjective(queue[p])
    BY DEF TypeOK, JobPoolTypeOK, QueueInv, Ordered
  <1>2. Head(queue[p]) \in Queued(p) /\ Head(queue[p]) \in Jobs
    BY <1>1, RangeOfTail, RangeInSet DEF Queued
  <1> QED
    BY <1>1, <1>2, TailStaysInjective, HeadTailProperties DEF QueueInv, Ordered, Queued

-----------------------------------------------------------------------------
(* The result of uncompleted_jobs() *)

\* Whoever uses the result takes its first d entries away.
Shifted(d) ==
  /\ d = 0 => UNCHANGED got
  /\ d = 1 => Range(got) \subseteq {got[1]} \cup Range(got')
  /\ \A i \in DOMAIN got' :
       i \in Nat \ {0} /\ i + d \in DOMAIN got /\ got'[i] = got[i + d]

LEMMA TailShifts ==
  ASSUME TypeOK, got # <<>>, got' = Tail(got)
  PROVE  /\ Shifted(1)
         /\ 1 \in DOMAIN got
         /\ Head(got) = got[1]
         /\ Head(got) \in Payloads \cup {Empty}
         /\ got' \in Seq(Payloads \cup {Empty})
  <1>1. /\ DOMAIN got = 1 .. Len(got)
        /\ Len(got) \in Nat \ {0} /\ Head(got) = got[1]
    BY LenProperties, EmptySeq DEF TypeOK
  <1>2. /\ Tail(got) \in Seq(Payloads \cup {Empty})
        /\ Len(Tail(got)) = Len(got) - 1
        /\ \A i \in 1 .. Len(Tail(got)) : Tail(got)[i] = got[i + 1]
    BY HeadTailProperties DEF TypeOK
  <1>3. DOMAIN Tail(got) = 1 .. Len(got) - 1
    BY <1>2, LenProperties
  <1>4. Head(got) \in Payloads \cup {Empty}
    BY HeadTailProperties DEF TypeOK
  <1>5. ASSUME NEW i \in DOMAIN got, i # 1 PROVE got[i] \in Range(got')
    <2>1. i - 1 \in DOMAIN Tail(got) /\ Tail(got)[i - 1] = got[i]
      BY <1>1, <1>2, <1>3, <1>5
    <2> QED
      BY <2>1 DEF Range
  <1> QED
    BY <1>1, <1>2, <1>3, <1>4, <1>5 DEF Shifted, Range

\* A program that builds a job takes new data or the first of its result.
Source(p, d) ==
  IF d = 0 THEN p \notin submitted
           ELSE recovery = "no" /\ 1 \in DOMAIN got /\ p = got[1]

LEMMA Built ==
  ASSUME TypeOK, NEW j \in Jobs, BuildNew(j) \/ BuildRecovered(j)
  PROVE  /\ \E p \in Payloads, d \in {0, 1} :
              Build(j, p) /\ Shifted(d) /\ Source(p, d)
         /\ got' \in Seq(Payloads \cup {Empty})
  <1>1. CASE BuildNew(j)
    <2>1. got' = got /\ \E p \in Payloads \ submitted : Build(j, p)
      BY <1>1 DEF BuildNew
    <2>2. Shifted(0)
      BY <2>1, LenProperties DEF Shifted, TypeOK
    <2> QED
      BY <2>1, <2>2 DEF Source, TypeOK
  <1>2. CASE BuildRecovered(j)
    <2>1. /\ recovery = "no" /\ got # <<>> /\ Head(got) # Empty
          /\ got' = Tail(got)
          /\ Build(j, Head(got))
      BY <1>2 DEF BuildRecovered
    <2>2. Head(got) \in Payloads /\ Shifted(1) /\ Source(Head(got), 1)
      BY <2>1, TailShifts DEF Source
    <2> QED
      BY <2>1, <2>2, TailShifts
  <1> QED
    BY <1>1, <1>2

\* Reading a file appends its content to the result; the data of a living job
\* is exposed by it.
LEMMA Reads ==
  ASSUME TypeOK, LifeInv, NEW f \in Jobs, RecoverReads(f)
  PROVE  /\ f \in DOMAIN folder
         /\ got' \in Seq(Payloads \cup {Empty})
         /\ got' # <<>>
         /\ Len(got) \in Nat /\ Len(got') = Len(got) + 1
         /\ DOMAIN got = 1 .. Len(got)
         /\ DOMAIN got' = DOMAIN got \cup {Len(got) + 1}
         /\ \A i \in DOMAIN got : got'[i] = got[i]
         /\ got'[Len(got) + 1] = folder[f]
         /\ Range(got') = Range(got) \cup {folder[f]}
         /\ exposed \subseteq exposed'
         /\ Alive(f) => payload[f] \in exposed'
         /\ recovery = "looking" /\ recovery' = "read" /\ current' = f
         /\ UNCHANGED <<step, payload, data, named, folder, ran, halfway>>
  <1>1. f \in DOMAIN folder /\ got' = Append(got, folder[f])
    BY DEF RecoverReads
  <1>2. DOMAIN got = 1 .. Len(got) /\ Len(got) \in Nat
    BY LenProperties DEF TypeOK
  <1>3. /\ got' \in Seq(Payloads \cup {Empty})
        /\ Len(got') = Len(got) + 1
        /\ \A i \in 1 .. Len(got) : got'[i] = got[i]
        /\ got'[Len(got) + 1] = folder[f]
    BY <1>1, AppendProperties DEF TypeOK
  <1>4. DOMAIN got' = 1 .. Len(got) + 1 /\ got' # <<>>
    BY <1>2, <1>3, LenProperties, EmptySeq
  <1>5. Range(got') = Range(got) \cup {folder[f]}
    BY <1>1, RangeOfAppend DEF TypeOK
  <1>6. exposed' = IF Alive(f) THEN exposed \cup {payload[f]} ELSE exposed
    BY DEF RecoverReads
  <1> QED
    BY <1>1, <1>2, <1>3, <1>4, <1>5, <1>6 DEF RecoverReads, backupVars

-----------------------------------------------------------------------------
(* Types, owners, and the life of a file *)

LEMMA TypeStep ==
  ASSUME BackupIInv, [Next]_vars
  PROVE  TypeOK'
  <1> USE DEF BackupIInv, TypeOK, JobPoolTypeOK, Steps
  <1>1. CASE UNCHANGED vars
    BY <1>1 DEF vars, jobPoolVars, backupVars, recoveryVars, historyVars
  <1>2. ASSUME NEW j \in Jobs, BuildNew(j) \/ BuildRecovered(j) PROVE TypeOK'
    <2>1. PICK p \in Payloads, d \in {0, 1} :
                Build(j, p) /\ Shifted(d) /\ Source(p, d)
      BY <1>2, Built
    <2>2. got' \in Seq(Payloads \cup {Empty})
      BY <1>2, Built
    <2>3. /\ step' \in [Jobs -> Steps]
          /\ payload' \in [Jobs -> Payloads \cup {Empty}]
          /\ data' \in [Jobs -> Payloads \cup {Empty}]
      BY <2>1 DEF Build, Moves
    <2>4. /\ submitted' = submitted \cup {p}
          /\ UNCHANGED <<queue, locked, fresh, refused, discarded, named, folder>>
          /\ UNCHANGED <<recovery, listed, current, crashes, kept, ran, thrown>>
          /\ UNCHANGED <<down, halfway, exposed, left>>
      BY <2>1 DEF Build, jobPoolVars
    <2>5. JobPoolTypeOK'
      BY <2>4
    <2>6. (submitted \cup kept \cup thrown \cup down \cup exposed)' \subseteq Payloads
      BY <2>4
    <2> QED
      BY <2>2, <2>3, <2>4, <2>5, <2>6
  <1>3. ASSUME NEW j \in Jobs, SaveOpens(j) PROVE TypeOK'
    BY <1>3 DEF SaveOpens, Moves, WithFile, jobPoolVars, recoveryVars,
                 historyVars
  <1>4. ASSUME NEW j \in Jobs, SaveWrites(j) PROVE TypeOK'
    BY <1>4 DEF SaveWrites, Moves, WithFile, jobPoolVars, recoveryVars
  <1>5. ASSUME NEW j \in Jobs, Refuse(j) PROVE TypeOK'
    BY <1>5 DEF Refuse, PushRefused, Moves, recoveryVars
  <1>6. ASSUME NEW j \in Jobs, Enqueue(j) PROVE TypeOK'
    <2>1. queue' \in [Priorities -> Seq(Jobs)] /\ step' \in [Jobs -> Steps]
      BY <1>6, AppendProperties DEF Enqueue, PushBack, Moves
    <2> QED
      BY <1>6, <2>1 DEF Enqueue, PushBack, recoveryVars, historyVars
  <1>7. ASSUME NEW j \in Jobs, Load(j) PROVE TypeOK'
    BY <1>7 DEF Load, Moves, jobPoolVars, recoveryVars, historyVars
  <1>8. ASSUME NEW j \in Jobs, CallBack(j) PROVE TypeOK'
    BY <1>8 DEF CallBack, Moves, jobPoolVars, recoveryVars
  <1>9. ASSUME NEW j \in Jobs, Destroy(j) PROVE TypeOK'
    BY <1>9 DEF Destroy, Moves, WithoutFiles, jobPoolVars, recoveryVars,
                 historyVars
  <1>10. ASSUME NEW f \in Jobs, RecoverReads(f) PROVE TypeOK'
    <2>1. exposed' \subseteq Payloads
      BY <1>10 DEF RecoverReads, LifeInv
    <2> QED
      BY <1>10, <2>1, Reads DEF RecoverReads, jobPoolVars, backupVars
  <1>11. ASSUME NEW p \in Priorities, Take(p) PROVE TypeOK'
    BY <1>11, FirstQueued DEF Take, PopFront, recoveryVars, historyVars
  <1>12. ASSUME NEW p \in Priorities, ClearPriority(p) PROVE TypeOK'
    <2>1. Queued(p) \subseteq Jobs
      BY QueuedJobs
    <2>2. UNION {Queued(q) : q \in {p}} = Queued(p)
      OBVIOUS
    <2>3. queue' = [q \in Priorities |-> IF q \in {p} THEN <<>> ELSE queue[q]]
      BY <1>12 DEF ClearPriority, ClearQueues
    <2>4. queue' \in [Priorities -> Seq(Jobs)]
      BY <2>3
    <2> QED
      BY <1>12, <2>1, <2>2, <2>4 DEF ClearPriority, ClearQueues, Dropped, recoveryVars
  <1>13. CASE Clear
    <2>1. AllQueued \subseteq Jobs /\ \A j \in AllQueued : payload[j] \in Payloads
      BY QueuedJobs DEF AllQueued
    <2>2. queue' \in [Priorities -> Seq(Jobs)]
      BY <1>13 DEF Clear, ClearQueues
    <2> QED
      BY <1>13, <2>1, <2>2 DEF Clear, ClearQueues, AllQueued, Dropped, WithoutFiles,
                           recoveryVars
  <1>14. CASE SetLock
    BY <1>14 DEF SetLock, SetLocked, backupVars, recoveryVars, historyVars
  <1>15. CASE PassOver
    BY <1>15, TailShifts DEF PassOver, jobPoolVars, backupVars, historyVars
  <1>16. CASE RecoverOpens
    BY <1>16 DEF RecoverOpens, jobPoolVars, backupVars, historyVars
  <1>17. CASE RecoverRemoves
    BY <1>17 DEF RecoverRemoves, WithoutFiles, jobPoolVars, historyVars
  <1>18. CASE RecoverReturns
    BY <1>18 DEF RecoverReturns, jobPoolVars, backupVars, historyVars
  <1>19. CASE Crash
    <2>1. halfway' \in [Payloads -> Nat]
      <3> DEFINE cut(p) == Cardinality({j \in At("called") : payload[j] = p})
      <3>1. ASSUME NEW p \in Payloads PROVE cut(p) \in Nat
        BY FS_Subset, FS_CardinalityType DEF WorkersInv, Busy
      <3>2. halfway' = [p \in Payloads |-> halfway[p] + cut(p)]
        BY <1>19 DEF Crash
      <3> HIDE DEF cut
      <3> QED
        BY <3>1, <3>2
    <2>2. down' \subseteq Payloads
      <3>1. Range(got) \subseteq Payloads \cup {Empty}
        BY RangeInSet
      <3> QED
        BY <1>19, <3>1 DEF Crash, InMemoryOnly, LifeInv, Alive, At
    <2>3. crashes' \in 0 .. MaxCrashes
      BY <1>19 DEF Crash
    <2>4. queue' \in [Priorities -> Seq(Jobs)] /\ got' \in Seq(Payloads \cup {Empty})
      BY <1>19 DEF Crash
    <2> QED
      BY <1>19, <2>1, <2>2, <2>3, <2>4 DEF Crash, Dropped
  <1> QED
    BY <1>1, <1>2, <1>3, <1>4, <1>5, <1>6, <1>7, <1>8, <1>9, <1>10, <1>11,
         <1>12, <1>13, <1>14, <1>15, <1>16, <1>17, <1>18, <1>19
    DEF Next, Work, Push, Recover

LEMMA OwnersStep ==
  ASSUME BackupIInv, [Next]_vars
  PROVE  FilesHaveOwners'
  <1> USE DEF BackupIInv, TypeOK, LifeInv, FilesHaveOwners, Alive
  <1>1. CASE \/ \E j \in Jobs : RecoverReads(j)
             \/ SetLock \/ PassOver \/ RecoverOpens
             \/ RecoverReturns \/ UNCHANGED vars
    BY <1>1 DEF RecoverReads, SetLock, PassOver, RecoverOpens, RecoverReturns,
                 vars, backupVars, historyVars
  <1>2. ASSUME NEW j \in Jobs, BuildNew(j) \/ BuildRecovered(j)
        PROVE  FilesHaveOwners'
    <2>1. PICK p \in Payloads, d \in {0, 1} :
                Build(j, p) /\ Shifted(d) /\ Source(p, d)
      BY <1>2, Built
    <2> QED
      BY <2>1 DEF Build, Moves
  <1>3. ASSUME NEW j \in Jobs, SaveOpens(j) PROVE FilesHaveOwners'
    BY <1>3 DEF SaveOpens, Moves, WithFile, historyVars
  <1>4. ASSUME NEW j \in Jobs, SaveWrites(j) PROVE FilesHaveOwners'
    BY <1>4 DEF SaveWrites, Moves, WithFile
  <1>5. ASSUME NEW j \in Jobs, Refuse(j) PROVE FilesHaveOwners'
    BY <1>5 DEF Refuse, PushRefused, Moves
  <1>6. ASSUME NEW j \in Jobs, Enqueue(j) PROVE FilesHaveOwners'
    BY <1>6 DEF Enqueue, PushBack, Moves, historyVars
  <1>7. ASSUME NEW j \in Jobs, Load(j) PROVE FilesHaveOwners'
    BY <1>7 DEF Load, Moves, historyVars
  <1>8. ASSUME NEW j \in Jobs, CallBack(j) PROVE FilesHaveOwners'
    BY <1>8 DEF CallBack, Moves
  <1>9. ASSUME NEW j \in Jobs, Destroy(j) PROVE FilesHaveOwners'
    BY <1>9 DEF Destroy, Moves, WithoutFiles, historyVars
  <1>10. ASSUME NEW p \in Priorities, Take(p) PROVE FilesHaveOwners'
    BY <1>10, FirstQueued DEF Take, PopFront, historyVars
  <1>11. ASSUME NEW p \in Priorities, ClearPriority(p) PROVE FilesHaveOwners'
    BY <1>11 DEF ClearPriority, ClearQueues, Dropped
  <1>12. CASE Clear
    BY <1>12 DEF Clear, ClearQueues, Dropped, WithoutFiles
  <1>13. CASE RecoverRemoves
    BY <1>13 DEF RecoverRemoves, WithoutFiles, historyVars
  <1>14. CASE Crash
    BY <1>14 DEF Crash, Dropped
  <1> QED
    BY <1>1, <1>2, <1>3, <1>4, <1>5, <1>6, <1>7, <1>8, <1>9, <1>10, <1>11,
         <1>12, <1>13, <1>14
    DEF Next, Work, Push, Recover

LEMMA LifeStep ==
  ASSUME BackupIInv, [Next]_vars
  PROVE  LifeInv'
  <1> USE DEF BackupIInv, TypeOK, LifeInv, Alive
  <1>1. CASE \/ \E j \in Jobs : RecoverReads(j)
             \/ SetLock \/ PassOver \/ RecoverOpens
             \/ RecoverReturns \/ UNCHANGED vars
    BY <1>1 DEF RecoverReads, SetLock, PassOver, RecoverOpens, RecoverReturns,
                 vars, backupVars, historyVars
  <1>2. ASSUME NEW j \in Jobs, BuildNew(j) \/ BuildRecovered(j) PROVE LifeInv'
    <2>1. PICK p \in Payloads, d \in {0, 1} :
                Build(j, p) /\ Shifted(d) /\ Source(p, d)
      BY <1>2, Built
    <2> QED
      BY <2>1 DEF Build, Moves
  <1>3. ASSUME NEW j \in Jobs, SaveOpens(j) PROVE LifeInv'
    BY <1>3 DEF SaveOpens, Moves, WithFile, historyVars
  <1>4. ASSUME NEW j \in Jobs, SaveWrites(j) PROVE LifeInv'
    BY <1>4 DEF SaveWrites, Moves, WithFile
  <1>5. ASSUME NEW j \in Jobs, Refuse(j) PROVE LifeInv'
    BY <1>5 DEF Refuse, PushRefused, Moves
  <1>6. ASSUME NEW j \in Jobs, Enqueue(j) PROVE LifeInv'
    BY <1>6 DEF Enqueue, PushBack, Moves, historyVars
  <1>7. ASSUME NEW j \in Jobs, Load(j) PROVE LifeInv'
    BY <1>7 DEF Load, Moves, historyVars
  <1>8. ASSUME NEW j \in Jobs, CallBack(j) PROVE LifeInv'
    BY <1>8 DEF CallBack, Moves
  <1>9. ASSUME NEW j \in Jobs, Destroy(j) PROVE LifeInv'
    BY <1>9 DEF Destroy, Moves, WithoutFiles, historyVars
  <1>10. ASSUME NEW p \in Priorities, Take(p) PROVE LifeInv'
    BY <1>10, FirstQueued DEF Take, PopFront, historyVars
  <1>11. ASSUME NEW p \in Priorities, ClearPriority(p) PROVE LifeInv'
    BY <1>11, QueuedJobs DEF ClearPriority, ClearQueues, Dropped
  <1>12. CASE Clear
    BY <1>12, QueuedJobs DEF Clear, ClearQueues, Dropped, WithoutFiles
  <1>13. CASE RecoverRemoves
    BY <1>13 DEF RecoverRemoves, WithoutFiles, historyVars
  <1>14. CASE Crash
    BY <1>14 DEF Crash, Dropped
  <1> QED
    BY <1>1, <1>2, <1>3, <1>4, <1>5, <1>6, <1>7, <1>8, <1>9, <1>10, <1>11,
         <1>12, <1>13, <1>14
    DEF Next, Work, Push, Recover

LEMMA FileStep ==
  ASSUME BackupIInv, [Next]_vars
  PROVE  FileInv'
  <1> USE DEF BackupIInv, TypeOK, LifeInv, FileInv, Alive
  <1>1. CASE \/ SetLock
             \/ PassOver \/ RecoverOpens \/ RecoverReturns
             \/ UNCHANGED vars
    BY <1>1 DEF SetLock, PassOver, RecoverOpens, RecoverReturns, vars,
                 backupVars, historyVars
  <1>2. ASSUME NEW j \in Jobs, BuildNew(j) \/ BuildRecovered(j) PROVE FileInv'
    <2>1. PICK p \in Payloads, d \in {0, 1} :
                Build(j, p) /\ Shifted(d) /\ Source(p, d)
      BY <1>2, Built
    <2> QED
      BY <2>1 DEF Build, Moves
  <1>3. ASSUME NEW j \in Jobs, SaveOpens(j) PROVE FileInv'
    BY <1>3 DEF SaveOpens, Moves, WithFile, historyVars
  <1>4. ASSUME NEW j \in Jobs, SaveWrites(j) PROVE FileInv'
    BY <1>4 DEF SaveWrites, Moves, WithFile
  <1>5. ASSUME NEW j \in Jobs, Refuse(j) PROVE FileInv'
    BY <1>5 DEF Refuse, PushRefused, Moves
  <1>6. ASSUME NEW j \in Jobs, Enqueue(j) PROVE FileInv'
    BY <1>6 DEF Enqueue, PushBack, Moves, historyVars
  <1>7. ASSUME NEW j \in Jobs, Load(j) PROVE FileInv'
    BY <1>7 DEF Load, Moves, historyVars
  <1>8. ASSUME NEW j \in Jobs, CallBack(j) PROVE FileInv'
    BY <1>8 DEF CallBack, Moves
  <1>9. ASSUME NEW j \in Jobs, Destroy(j) PROVE FileInv'
    BY <1>9 DEF Destroy, Moves, WithoutFiles, historyVars
  <1>10. ASSUME NEW f \in Jobs, RecoverReads(f) PROVE FileInv'
    BY <1>10, Reads DEF FileInv
  <1>11. ASSUME NEW p \in Priorities, Take(p) PROVE FileInv'
    BY <1>11, FirstQueued DEF Take, PopFront, historyVars
  <1>12. ASSUME NEW p \in Priorities, ClearPriority(p) PROVE FileInv'
    BY <1>12 DEF ClearPriority, ClearQueues, Dropped
  <1>13. CASE Clear
    BY <1>13 DEF Clear, ClearQueues, Dropped, WithoutFiles
  <1>14. CASE RecoverRemoves
    BY <1>14 DEF RecoverRemoves, WithoutFiles, historyVars, ReadInv
  <1>15. CASE Crash
    BY <1>15 DEF Crash, Dropped
  <1> QED
    BY <1>1, <1>2, <1>3, <1>4, <1>5, <1>6, <1>7, <1>8, <1>9, <1>10, <1>11,
         <1>12, <1>13, <1>14, <1>15
    DEF Next, Work, Push, Recover

LEMMA CalledStep ==
  ASSUME BackupIInv, [Next]_vars
  PROVE  CalledInv'
  <1> USE DEF BackupIInv, TypeOK, CalledInv, At
  <1>1. CASE \/ \E j \in Jobs : RecoverReads(j)
             \/ SetLock \/ PassOver \/ RecoverOpens
             \/ RecoverRemoves \/ RecoverReturns \/ UNCHANGED vars
    BY <1>1 DEF RecoverReads, SetLock, PassOver, RecoverOpens, RecoverRemoves,
                 RecoverReturns, vars, backupVars, historyVars
  <1>2. ASSUME NEW j \in Jobs, BuildNew(j) \/ BuildRecovered(j)
        PROVE  CalledInv'
    <2>1. PICK p \in Payloads, d \in {0, 1} :
                Build(j, p) /\ Shifted(d) /\ Source(p, d)
      BY <1>2, Built
    <2> QED
      BY <2>1 DEF Build, Moves
  <1>3. ASSUME NEW j \in Jobs, SaveOpens(j) PROVE CalledInv'
    BY <1>3 DEF SaveOpens, Moves, WithFile, historyVars
  <1>4. ASSUME NEW j \in Jobs, SaveWrites(j) PROVE CalledInv'
    BY <1>4 DEF SaveWrites, Moves, WithFile
  <1>5. ASSUME NEW j \in Jobs, Refuse(j) PROVE CalledInv'
    BY <1>5 DEF Refuse, PushRefused, Moves
  <1>6. ASSUME NEW j \in Jobs, Enqueue(j) PROVE CalledInv'
    BY <1>6 DEF Enqueue, PushBack, Moves, historyVars
  <1>7. ASSUME NEW j \in Jobs, Load(j) PROVE CalledInv'
    BY <1>7 DEF Load, Moves, historyVars
  <1>8. ASSUME NEW j \in Jobs, CallBack(j) PROVE CalledInv'
    BY <1>8 DEF CallBack, Moves
  <1>9. ASSUME NEW j \in Jobs, Destroy(j) PROVE CalledInv'
    BY <1>9 DEF Destroy, Moves, WithoutFiles, historyVars
  <1>10. ASSUME NEW p \in Priorities, Take(p) PROVE CalledInv'
    BY <1>10 DEF Take, PopFront, historyVars
  <1>11. ASSUME NEW p \in Priorities, ClearPriority(p) PROVE CalledInv'
    BY <1>11 DEF ClearPriority, ClearQueues, Dropped
  <1>12. CASE Clear
    BY <1>12 DEF Clear, ClearQueues, Dropped, WithoutFiles
  <1>13. CASE Crash
    BY <1>13 DEF Crash, Dropped
  <1> QED
    BY <1>1, <1>2, <1>3, <1>4, <1>5, <1>6, <1>7, <1>8, <1>9, <1>10, <1>11,
         <1>12, <1>13
    DEF Next, Work, Push, Recover

LEMMA SubmittedStep ==
  ASSUME BackupIInv, [Next]_vars
  PROVE  SubmittedInv'
  <1> USE DEF BackupIInv, TypeOK, LifeInv, SubmittedInv, Alive
  <1>1. CASE \/ \E j \in Jobs : Refuse(j) \/ Enqueue(j) \/ Load(j)
             \/ \E p \in Priorities : Take(p) \/ ClearPriority(p)
             \/ SetLock \/ RecoverOpens \/ RecoverReturns
             \/ UNCHANGED vars
    BY <1>1 DEF Refuse, Enqueue, Load, Take, ClearPriority, SetLock,
                 RecoverOpens, RecoverReturns, vars, recoveryVars,
                 historyVars, backupVars
  <1>2. ASSUME NEW j \in Jobs, BuildNew(j) \/ BuildRecovered(j)
        PROVE  SubmittedInv'
    <2>1. PICK p \in Payloads, d \in {0, 1} :
                Build(j, p) /\ Shifted(d) /\ Source(p, d)
      BY <1>2, Built
    <2> QED
      BY <2>1 DEF Build, Moves, Shifted, Range
  <1>3. ASSUME NEW j \in Jobs, SaveOpens(j) PROVE SubmittedInv'
    BY <1>3 DEF SaveOpens, Moves, WithFile, recoveryVars, historyVars
  <1>4. ASSUME NEW j \in Jobs, SaveWrites(j) PROVE SubmittedInv'
    BY <1>4 DEF SaveWrites, Moves, WithFile, recoveryVars
  <1>5. ASSUME NEW j \in Jobs, CallBack(j) PROVE SubmittedInv'
    <2>1. data[j] \in submitted \cup {Empty}
      BY <1>5 DEF CallBack, Moves
    <2>2. \A p \in Payloads \ submitted : ran'[p] = ran[p]
      BY <1>5, <2>1 DEF CallBack
    <2> QED
      BY <1>5, <2>2 DEF CallBack, recoveryVars
  <1>6. ASSUME NEW j \in Jobs, Destroy(j) PROVE SubmittedInv'
    BY <1>6 DEF Destroy, Moves, WithoutFiles, recoveryVars, historyVars
  <1>7. ASSUME NEW f \in Jobs, RecoverReads(f) PROVE SubmittedInv'
    <2>1. /\ f \in DOMAIN folder
          /\ Range(got') = Range(got) \cup {folder[f]}
          /\ UNCHANGED <<folder, ran>>
      BY <1>7, Reads
    <2>2. submitted' = submitted
      BY <1>7 DEF RecoverReads
    <2> QED
      BY <2>1, <2>2
  <1>8. CASE Clear
    BY <1>8 DEF Clear, ClearQueues, Dropped, WithoutFiles, recoveryVars
  <1>9. CASE PassOver
    BY <1>9, TailShifts DEF PassOver, backupVars, historyVars, Shifted, Range
  <1>10. CASE RecoverRemoves
    BY <1>10 DEF RecoverRemoves, WithoutFiles, historyVars
  <1>11. CASE Crash
    BY <1>11, RangeOfEmpty DEF Crash, Dropped
  <1> QED
    BY <1>1, <1>2, <1>3, <1>4, <1>5, <1>6, <1>7, <1>8, <1>9, <1>10, <1>11
    DEF Next, Work, Push, Recover

LEMMA ReadStep ==
  ASSUME BackupIInv, [Next]_vars
  PROVE  ReadInv'
  <1> USE DEF BackupIInv, TypeOK, ReadInv, LifeInv, Alive
  <1>1. CASE \/ SetLock
             \/ UNCHANGED vars
    BY <1>1 DEF SetLock, vars, backupVars, recoveryVars, historyVars
  <1>2. ASSUME NEW j \in Jobs, BuildNew(j) \/ BuildRecovered(j) PROVE ReadInv'
    <2>1. PICK p \in Payloads, d \in {0, 1} :
                Build(j, p) /\ Shifted(d) /\ Source(p, d)
      BY <1>2, Built
    <2> QED
      BY <2>1 DEF Build, Moves, Source, Shifted
  <1>3. ASSUME NEW j \in Jobs, SaveOpens(j) PROVE ReadInv'
    BY <1>3 DEF SaveOpens, Moves, WithFile, recoveryVars, historyVars
  <1>4. ASSUME NEW j \in Jobs, SaveWrites(j) PROVE ReadInv'
    BY <1>4 DEF SaveWrites, Moves, WithFile, recoveryVars
  <1>5. ASSUME NEW j \in Jobs, Refuse(j) PROVE ReadInv'
    BY <1>5 DEF Refuse, PushRefused, Moves, recoveryVars
  <1>6. ASSUME NEW j \in Jobs, Enqueue(j) PROVE ReadInv'
    BY <1>6 DEF Enqueue, PushBack, Moves, recoveryVars, historyVars
  <1>7. ASSUME NEW j \in Jobs, Load(j) PROVE ReadInv'
    BY <1>7 DEF Load, Moves, recoveryVars, historyVars
  <1>8. ASSUME NEW j \in Jobs, CallBack(j) PROVE ReadInv'
    BY <1>8 DEF CallBack, Moves, recoveryVars
  <1>9. ASSUME NEW j \in Jobs, Destroy(j) PROVE ReadInv'
    BY <1>9 DEF Destroy, Moves, WithoutFiles, recoveryVars, historyVars
  <1>10. ASSUME NEW f \in Jobs, RecoverReads(f) PROVE ReadInv'
    BY <1>10, Reads DEF Alive
  <1>11. ASSUME NEW p \in Priorities, Take(p) PROVE ReadInv'
    BY <1>11, FirstQueued DEF Take, PopFront, recoveryVars, historyVars
  <1>12. ASSUME NEW p \in Priorities, ClearPriority(p) PROVE ReadInv'
    BY <1>12 DEF ClearPriority, ClearQueues, Dropped, recoveryVars
  <1>13. CASE Clear
    BY <1>13 DEF Clear, ClearQueues, Dropped, WithoutFiles, recoveryVars
  <1>14. CASE PassOver
    BY <1>14 DEF PassOver, backupVars, historyVars
  <1>15. CASE RecoverOpens
    BY <1>15 DEF RecoverOpens, backupVars, historyVars
  <1>16. CASE RecoverRemoves
    BY <1>16 DEF RecoverRemoves, WithoutFiles, historyVars
  <1>17. CASE RecoverReturns
    BY <1>17 DEF RecoverReturns, backupVars, historyVars
  <1>18. CASE Crash
    BY <1>18 DEF Crash, Dropped
  <1> QED
    BY <1>1, <1>2, <1>3, <1>4, <1>5, <1>6, <1>7, <1>8, <1>9, <1>10, <1>11,
         <1>12, <1>13, <1>14, <1>15, <1>16, <1>17, <1>18
    DEF Next, Work, Push, Recover

-----------------------------------------------------------------------------
(* The queues and the workers *)

\* push() keeps a queue without repetition.
LEMMA Appended ==
  ASSUME BackupIInv, NEW j \in Jobs, Enqueue(j)
  PROVE  LET q == queue[PriorityOf[j]]
         IN  IsInjective(Append(q, j)) /\ Range(Append(q, j)) = Range(q) \cup {j}
  <1> DEFINE s == queue[PriorityOf[j]]
  <1>1. s \in Seq(Jobs) /\ IsInjective(s)
    BY DEF BackupIInv, TypeOK, JobPoolTypeOK, QueueInv, Ordered
  <1>2. j \notin Range(s)
    BY DEF BackupIInv, QueueInv, Ordered, Queued, Enqueue, Moves
  <1> HIDE DEF s
  <1>3. IsInjective(Append(s, j)) /\ Range(Append(s, j)) = Range(s) \cup {j}
    BY <1>1, <1>2, AppendStaysInjective, RangeOfAppend
  <1> QED
    BY <1>3 DEF s

\* pop() takes one job out of one queue.
LEMMA Popped ==
  ASSUME TypeOK, QueueInv, NEW p \in Priorities, Take(p)
  PROVE  /\ IsInjective(queue'[p])
         /\ Queued(p)' = Queued(p) \ {Head(queue[p])}
  <1>1. queue[p] # <<>> /\ queue'[p] = Tail(queue[p])
    BY DEF Take, PopFront, TypeOK, JobPoolTypeOK
  <1>2. /\ IsInjective(Tail(queue[p]))
        /\ Range(Tail(queue[p])) = Queued(p) \ {Head(queue[p])}
    BY <1>1, FirstQueued
  <1> QED
    BY <1>1, <1>2 DEF Queued

LEMMA QueueStep ==
  ASSUME BackupIInv, [Next]_vars
  PROVE  QueueInv'
  <1> USE DEF BackupIInv, TypeOK, JobPoolTypeOK, QueueInv, Ordered, Queued
  <1>1. CASE \/ \E j \in Jobs : RecoverReads(j)
             \/ SetLock \/ PassOver \/ RecoverOpens
             \/ RecoverRemoves \/ RecoverReturns \/ UNCHANGED vars
    BY <1>1 DEF RecoverReads, SetLock, SetLocked, PassOver, RecoverOpens,
                 RecoverRemoves, RecoverReturns, vars, jobPoolVars, backupVars
  <1>2. ASSUME NEW j \in Jobs, BuildNew(j) \/ BuildRecovered(j)
        PROVE  QueueInv'
    <2>1. PICK p \in Payloads, d \in {0, 1} :
                Build(j, p) /\ Shifted(d) /\ Source(p, d)
      BY <1>2, Built
    <2> QED
      BY <2>1 DEF Build, Moves, jobPoolVars
  <1>3. ASSUME NEW j \in Jobs, SaveOpens(j) PROVE QueueInv'
    BY <1>3 DEF SaveOpens, Moves, WithFile, jobPoolVars
  <1>4. ASSUME NEW j \in Jobs, SaveWrites(j) PROVE QueueInv'
    BY <1>4 DEF SaveWrites, Moves, WithFile, jobPoolVars
  <1>5. ASSUME NEW j \in Jobs, Refuse(j) PROVE QueueInv'
    BY <1>5 DEF Refuse, PushRefused, Moves
  <1>6. ASSUME NEW j \in Jobs, Enqueue(j) PROVE QueueInv'
    <2> DEFINE r == PriorityOf[j]
    <2> DEFINE s == Append(queue[r], j)
    <2>2. IsInjective(s) /\ Range(s) = Queued(r) \cup {j}
      BY <1>6, Appended
    <2>3. \A q \in Priorities : queue'[q] = IF q = r THEN s ELSE queue[q]
      BY <1>6 DEF Enqueue, PushBack
    <2>4. step' = [step EXCEPT ![j] = "queued"]
      BY <1>6 DEF Enqueue, Moves
    <2> HIDE DEF r, s
    <2>5. ASSUME NEW q \in Priorities
          PROVE  Ordered(q)'
      <3>1. CASE q = r
        BY <2>2, <2>3, <2>4, <3>1 DEF r
      <3>2. CASE q # r
        BY <2>3, <2>4, <3>2
      <3> QED
        BY <3>1, <3>2
    <2> QED
      BY <2>5
  <1>7. ASSUME NEW j \in Jobs, Load(j) PROVE QueueInv'
    BY <1>7 DEF Load, Moves, jobPoolVars
  <1>8. ASSUME NEW j \in Jobs, CallBack(j) PROVE QueueInv'
    BY <1>8 DEF CallBack, Moves, jobPoolVars
  <1>9. ASSUME NEW j \in Jobs, Destroy(j) PROVE QueueInv'
    BY <1>9 DEF Destroy, Moves, WithoutFiles, jobPoolVars
  <1>10. ASSUME NEW p \in Priorities, Take(p) PROVE QueueInv'
    <2>1. \A q \in Priorities : queue'[q] = IF q = p THEN Tail(queue[p]) ELSE queue[q]
      BY <1>10 DEF Take, PopFront
    <2>2. queue[p] # <<>> /\ step' = [step EXCEPT ![Head(queue[p])] = "taken"]
      BY <1>10 DEF Take
    <2>3. ASSUME NEW q \in Priorities
          PROVE  Ordered(q)'
      <3>1. \A k \in Queued(q) : k \in Jobs /\ step[k] = "queued" /\ PriorityOf[k] = q
        BY QueuedJobs
      <3>2. CASE q = p
        BY <1>10, <2>2, <3>1, <3>2, Popped
      <3>3. CASE q # p
        BY <2>1, <2>2, <3>1, <3>3, FirstQueued DEF Queued
      <3> QED
        BY <3>2, <3>3
    <2> QED
      BY <2>3
  <1>11. ASSUME NEW p \in Priorities, ClearPriority(p) PROVE QueueInv'
    <2>1. ASSUME NEW q \in Priorities
          PROVE  Ordered(q)'
      <3>1. CASE q = p
        <4>1. queue'[q] = <<>>
          BY <1>11, <3>1 DEF ClearPriority, ClearQueues
        <4> QED
          BY <4>1, RangeOfEmpty, EmptyInjective DEF Queued
      <3>2. CASE q # p
        <4>1. queue'[q] = queue[q]
          BY <1>11, <3>2 DEF ClearPriority, ClearQueues
        <4>2. \A k \in Queued(q) : k \in Jobs /\ PriorityOf[k] = q
          BY QueuedJobs
        <4>3. \A k \in Queued(p) : PriorityOf[k] = p
          BY QueuedJobs
        <4> QED
          BY <1>11, <3>2, <4>1, <4>2, <4>3 DEF Queued, ClearPriority, Dropped
      <3> QED
        BY <3>1, <3>2
    <2> QED
      BY <2>1
  <1>12. CASE Clear
    <2>1. \A q \in Priorities : queue'[q] = <<>>
      BY <1>12 DEF Clear, ClearQueues
    <2> QED
      BY <2>1, RangeOfEmpty, EmptyInjective DEF Queued
  <1>13. CASE Crash
    <2>1. \A q \in Priorities : queue'[q] = <<>>
      BY <1>13 DEF Crash
    <2> QED
      BY <2>1, RangeOfEmpty, EmptyInjective DEF Queued
  <1> QED
    BY <1>1, <1>2, <1>3, <1>4, <1>5, <1>6, <1>7, <1>8, <1>9, <1>10, <1>11,
         <1>12, <1>13
    DEF Next, Work, Push, Recover

\* Only Take() makes a worker busy.
LEMMA NoOtherTakes ==
  ASSUME BackupIInv, ~ \E p \in Priorities : Take(p), [Next]_vars
  PROVE  Busy' \subseteq Busy
  <1> USE DEF BackupIInv, TypeOK, Busy, At
  <1>1. CASE \/ \E j \in Jobs : RecoverReads(j)
             \/ SetLock \/ PassOver \/ RecoverOpens
             \/ RecoverRemoves \/ RecoverReturns \/ UNCHANGED vars
    BY <1>1 DEF RecoverReads, SetLock, PassOver, RecoverOpens, RecoverRemoves,
                 RecoverReturns, vars, backupVars
  <1>2. ASSUME NEW j \in Jobs, BuildNew(j) \/ BuildRecovered(j)
        PROVE  Busy' \subseteq Busy
    <2>1. PICK p \in Payloads, d \in {0, 1} :
                Build(j, p) /\ Shifted(d) /\ Source(p, d)
      BY <1>2, Built
    <2> QED
      BY <2>1 DEF Build, Moves
  <1>3. ASSUME NEW j \in Jobs, SaveOpens(j) PROVE Busy' \subseteq Busy
    BY <1>3 DEF SaveOpens, Moves, WithFile
  <1>4. ASSUME NEW j \in Jobs, SaveWrites(j) PROVE Busy' \subseteq Busy
    BY <1>4 DEF SaveWrites, Moves, WithFile
  <1>5. ASSUME NEW j \in Jobs, Refuse(j) PROVE Busy' \subseteq Busy
    BY <1>5 DEF Refuse, PushRefused, Moves
  <1>6. ASSUME NEW j \in Jobs, Enqueue(j) PROVE Busy' \subseteq Busy
    BY <1>6 DEF Enqueue, PushBack, Moves
  <1>7. ASSUME NEW j \in Jobs, Load(j) PROVE Busy' \subseteq Busy
    BY <1>7 DEF Load, Moves
  <1>8. ASSUME NEW j \in Jobs, CallBack(j) PROVE Busy' \subseteq Busy
    BY <1>8 DEF CallBack, Moves
  <1>9. ASSUME NEW j \in Jobs, Destroy(j) PROVE Busy' \subseteq Busy
    BY <1>9 DEF Destroy, Moves, WithoutFiles
  <1>10. ASSUME NEW p \in Priorities, Take(p) PROVE Busy' \subseteq Busy
    BY <1>10
  <1>11. ASSUME NEW p \in Priorities, ClearPriority(p) PROVE Busy' \subseteq Busy
    BY <1>11 DEF ClearPriority, ClearQueues, Dropped
  <1>12. CASE Clear
    BY <1>12 DEF Clear, ClearQueues, Dropped, WithoutFiles
  <1>13. CASE Crash
    BY <1>13 DEF Crash, Dropped
  <1> QED
    BY <1>1, <1>2, <1>3, <1>4, <1>5, <1>6, <1>7, <1>8, <1>9, <1>10, <1>11,
         <1>12, <1>13
    DEF Next, Work, Push, Recover

LEMMA WorkersStep ==
  ASSUME BackupIInv, [Next]_vars
  PROVE  WorkersInv'
  <1>1. ASSUME NEW p \in Priorities, Take(p) PROVE WorkersInv'
    <2>1. Busy' \subseteq Busy \cup {Head(queue[p])}
      BY <1>1 DEF Take, Busy, At
    <2>2. IsFiniteSet(Busy \cup {Head(queue[p])})
      BY FS_AddElement DEF BackupIInv, WorkersInv
    <2> QED
      BY <2>1, <2>2, FS_Subset DEF WorkersInv
  <1>2. CASE ~ \E p \in Priorities : Take(p)
    <2>1. Busy' \subseteq Busy
      BY <1>2, NoOtherTakes
    <2> QED
      BY <2>1, FS_Subset DEF BackupIInv, WorkersInv
  <1> QED
    BY <1>1, <1>2

LEMMA BackupIInvInit == Init => BackupIInv
  <1> SUFFICES ASSUME Init PROVE BackupIInv
    OBVIOUS
  <1> USE DEF Init, JobPoolInit
  <1>1. Busy = {}
    BY DEF Busy, At
  <1>2. IsFiniteSet({})
    BY FS_EmptySet
  <1>3. TypeOK
    <2>1. /\ queue \in [Priorities -> Seq(Jobs)]
          /\ got \in Seq(Payloads \cup {Empty})
          /\ DOMAIN folder = {}
      OBVIOUS
    <2>2. JobPoolTypeOK
      BY <2>1 DEF JobPoolTypeOK
    <2>3. ran \in [Payloads -> Nat] /\ halfway \in [Payloads -> Nat]
      OBVIOUS
    <2>4. step \in [Jobs -> Steps]
      BY DEF Steps
    <2>5. /\ payload \in [Jobs -> Payloads \cup {Empty}]
          /\ data \in [Jobs -> Payloads \cup {Empty}]
      OBVIOUS
    <2>6. crashes \in 0 .. MaxCrashes
      OBVIOUS
    <2>7. current \in Jobs \cup {None} /\ (current # None <=> recovery = "read")
      OBVIOUS
    <2> QED
      BY <2>1, <2>2, <2>3, <2>4, <2>5, <2>6, <2>7 DEF TypeOK
  <1>4. QueueInv
    BY RangeOfEmpty, EmptyInjective DEF QueueInv, Ordered, Queued
  <1>5. LifeInv /\ FileInv /\ CalledInv /\ FilesHaveOwners /\ ReadInv
    BY DEF LifeInv, FileInv, CalledInv, FilesHaveOwners, ReadInv, Alive, At
  <1>6. SubmittedInv
    BY RangeOfEmpty DEF SubmittedInv
  <1> QED
    BY <1>1, <1>2, <1>3, <1>4, <1>5, <1>6 DEF BackupIInv, WorkersInv

LEMMA BackupIInvStep == BackupIInv /\ [Next]_vars => BackupIInv'
  BY TypeStep, OwnersStep, LifeStep, FileStep, CalledStep, SubmittedStep, ReadStep,
     QueueStep, WorkersStep
  DEF BackupIInv

(***************************************************************************)
(* The members keep their types, and no file in the backup folder outlives *)
(* its job except those that a crash, a refused push() or clear(priority)  *)
(* left behind: for any number of jobs, workers and crashes.               *)
(***************************************************************************)
THEOREM FilesAreOwned == Spec => []BackupInv
  <1>1. BackupIInv => BackupInv
    BY DEF BackupIInv, BackupInv
  <1> QED
    BY <1>1, BackupIInvInit, BackupIInvStep, PTL DEF Spec

-----------------------------------------------------------------------------
(* Saved data is kept *)

\* What the histories say of data stays said.
Remembered(p) == ran[p] > 0 \/ p \in thrown \cup down \cup exposed

LEMMA RemembersStep ==
  ASSUME BackupIInv, NEW p \in Payloads, Remembered(p), [Next]_vars
  PROVE  Remembered(p)'
  <1> USE DEF BackupIInv, TypeOK, Remembered
  <1>1. CASE \/ \E j \in Jobs : \/ SaveOpens(j) \/ SaveWrites(j)
                              \/ Refuse(j) \/ Enqueue(j)
                              \/ Load(j) \/ Destroy(j)
             \/ \E q \in Priorities : Take(q) \/ ClearPriority(q)
             \/ SetLock \/ PassOver \/ RecoverOpens
             \/ RecoverRemoves \/ RecoverReturns \/ UNCHANGED vars
    BY <1>1 DEF SaveOpens, SaveWrites, Refuse, Enqueue, Load, Destroy, Take,
                 ClearPriority, SetLock, PassOver, RecoverOpens,
                 RecoverRemoves, RecoverReturns, vars, historyVars
  <1>2. ASSUME NEW j \in Jobs, BuildNew(j) \/ BuildRecovered(j)
        PROVE  Remembered(p)'
    <2>1. PICK q \in Payloads, d \in {0, 1} :
                Build(j, q) /\ Shifted(d) /\ Source(q, d)
      BY <1>2, Built
    <2> QED
      BY <2>1 DEF Build, Moves
  <1>3. ASSUME NEW j \in Jobs, CallBack(j) PROVE Remembered(p)'
    BY <1>3 DEF CallBack, Moves
  <1>4. ASSUME NEW f \in Jobs, RecoverReads(f) PROVE Remembered(p)'
    BY <1>4, Reads DEF RecoverReads
  <1>5. CASE Clear
    BY <1>5 DEF Clear
  <1>6. CASE Crash
    BY <1>6 DEF Crash
  <1> QED
    BY <1>1, <1>2, <1>3, <1>4, <1>5, <1>6
    DEF Next, Work, Push, Recover

\* Data in a file stays safe: a file is truncated or removed only when the data
\* has been worked on, thrown away, or read into a result.
LEMMA FileStaysSafe ==
  ASSUME BackupIInv, NEW p \in Payloads, p \in kept',
         NEW f \in DOMAIN folder, folder[f] = p,
         [Next]_vars
  PROVE  Safe(p)'
  <1> USE DEF BackupIInv, TypeOK
  <1>1. CASE \/ \E j \in Jobs : \/ BuildNew(j) \/ BuildRecovered(j) \/ Refuse(j)
                              \/ Enqueue(j) \/ Load(j)
                              \/ CallBack(j) \/ RecoverReads(j)
             \/ \E q \in Priorities : Take(q) \/ ClearPriority(q)
             \/ SetLock \/ PassOver \/ RecoverOpens
             \/ RecoverReturns \/ Crash \/ UNCHANGED vars
    BY <1>1 DEF BuildNew, BuildRecovered, Build, Refuse, Enqueue, Load,
                 CallBack, RecoverReads, Take, ClearPriority, SetLock,
                 PassOver, RecoverOpens, RecoverReturns, Crash, vars,
                 backupVars, LifeInv, Safe, Range
  <1>2. ASSUME NEW j \in Jobs, SaveOpens(j) PROVE Safe(p)'
    BY <1>2 DEF SaveOpens, Moves, WithFile, LifeInv, Safe, Range
  <1>3. ASSUME NEW j \in Jobs, SaveWrites(j) PROVE Safe(p)'
    BY <1>3 DEF SaveWrites, Moves, WithFile, LifeInv, Safe, Range
  <1>4. ASSUME NEW j \in Jobs, Destroy(j) PROVE Safe(p)'
    <2>1. CASE f # j
      BY <1>4, <2>1 DEF Destroy, WithoutFiles, Safe, Range
    <2>2. CASE f = j
      <3>1. data[j] = p \/ p \in exposed
        BY <1>4, <2>2 DEF Destroy, Moves, LifeInv, FileInv
      <3>2. ran[p] > 0 \/ p \in exposed
        BY <1>4, <3>1 DEF Destroy, Moves, CalledInv, At
      <3> QED
        BY <1>4, <3>2 DEF Destroy, historyVars, Safe
    <2> QED
      BY <2>1, <2>2
  <1>5. CASE Clear
    BY <1>5, QueuedJobs DEF Clear, ClearQueues, Dropped, WithoutFiles,
                             LifeInv, Safe, Range
  <1>6. CASE RecoverRemoves
    <2>1. CASE f # current
      BY <1>6, <2>1 DEF RecoverRemoves, WithoutFiles, Safe, Range
    <2>2. CASE f = current
      <3>1. p \in exposed \/ p = got[Len(got)]
        BY <1>6, <2>2 DEF RecoverRemoves, ReadInv
      <3>2. Len(got) \in DOMAIN got
        BY <1>6, LenProperties, EmptySeq DEF RecoverRemoves, ReadInv
      <3> QED
        BY <1>6, <3>1, <3>2 DEF RecoverRemoves, historyVars, Safe, Range
    <2> QED
      BY <2>1, <2>2
  <1> QED
    BY <1>1, <1>2, <1>3, <1>4, <1>5, <1>6
    DEF Next, Work, Push, Recover

LEMMA EntryStaysSafe ==
  ASSUME BackupIInv, NEW p \in Payloads, p \in kept',
         NEW i \in DOMAIN got, got[i] = p,
         [Next]_vars
  PROVE  Safe(p)'
  <1> USE DEF BackupIInv, TypeOK
  <1>1. CASE \/ \E j \in Jobs : \/ SaveOpens(j) \/ SaveWrites(j)
                              \/ Refuse(j) \/ Enqueue(j)
                              \/ Load(j) \/ CallBack(j) \/ Destroy(j)
             \/ \E q \in Priorities : Take(q) \/ ClearPriority(q)
             \/ Clear \/ SetLock \/ RecoverOpens
             \/ RecoverRemoves \/ RecoverReturns \/ UNCHANGED vars
    BY <1>1 DEF SaveOpens, SaveWrites, Refuse, Enqueue, Load, CallBack,
                 Destroy, Take, ClearPriority, Clear, SetLock, RecoverOpens,
                 RecoverRemoves, RecoverReturns, vars, recoveryVars, Safe,
                 Range
  <1>2. ASSUME NEW j \in Jobs, BuildNew(j) \/ BuildRecovered(j) PROVE Safe(p)'
    <2>1. PICK q \in Payloads, d \in {0, 1} :
                Build(j, q) /\ Shifted(d) /\ Source(q, d)
      BY <1>2, Built
    <2>2. q = p \/ p \in Range(got')
      BY <2>1 DEF Source, Shifted, Range
    <2> QED
      BY <2>1, <2>2 DEF Build, Moves, Safe, Alive
  <1>3. ASSUME NEW f \in Jobs, RecoverReads(f) PROVE Safe(p)'
    <2>1. p \in Range(got')
      BY <1>3, Reads DEF Range
    <2> QED
      BY <2>1 DEF Safe
  <1>4. CASE PassOver
    <2>1. p \in Range(got')
      BY <1>4, TailShifts DEF PassOver, Shifted, Range
    <2> QED
      BY <2>1 DEF Safe
  <1>5. CASE Crash
    <2>1. p \in Range(got)
      BY DEF Range
    <2> QED
      BY <1>5, <2>1 DEF Crash, InMemoryOnly, Safe
  <1> QED
    BY <1>1, <1>2, <1>3, <1>4, <1>5
    DEF Next, Work, Push, Recover

LEMMA DataStaysSafe ==
  ASSUME BackupIInv, NEW p \in Payloads, p \in kept',
         NEW k \in Jobs, Alive(k), data[k] = p,
         [Next]_vars
  PROVE  Safe(p)'
  <1> USE DEF BackupIInv, TypeOK
  <1>1. CASE \/ \E j \in Jobs : RecoverReads(j)
             \/ SetLock \/ PassOver \/ RecoverOpens
             \/ RecoverRemoves \/ RecoverReturns \/ UNCHANGED vars
    BY <1>1 DEF RecoverReads, SetLock, PassOver, RecoverOpens, RecoverRemoves,
                 RecoverReturns, vars, backupVars, LifeInv, Safe, Range, Alive
  <1>2. ASSUME NEW j \in Jobs, BuildNew(j) \/ BuildRecovered(j) PROVE Safe(p)'
    <2>1. PICK q \in Payloads, d \in {0, 1} :
                Build(j, q) /\ Shifted(d) /\ Source(q, d)
      BY <1>2, Built
    <2> QED
      BY <2>1 DEF Build, Moves, LifeInv, Safe, Alive
  <1>3. ASSUME NEW j \in Jobs, SaveOpens(j) PROVE Safe(p)'
    BY <1>3 DEF SaveOpens, Moves, WithFile, LifeInv, Safe, Range, Alive
  <1>4. ASSUME NEW j \in Jobs, SaveWrites(j) PROVE Safe(p)'
    <2>1. CASE k # j
      BY <1>4, <2>1 DEF SaveWrites, Moves, Safe, Alive
    <2>2. CASE k = j
      <3>1. payload[j] = p
        BY <1>4, <2>2 DEF SaveWrites, Moves, LifeInv
      <3>2. PICK content \in {p, Empty} :
              /\ folder' = IF j \in DOMAIN folder THEN WithFile(j, content) ELSE folder
              /\ kept' = IF content = Empty THEN kept \ {p} ELSE kept \cup {p}
        BY <1>4, <3>1 DEF SaveWrites
      <3>3. content = p
        BY <3>2
      <3>4. p \in exposed \/ j \in DOMAIN folder
        BY <1>4, <3>1 DEF SaveWrites, Moves, FileInv, Alive
      <3> QED
        BY <1>4, <3>2, <3>3, <3>4 DEF SaveWrites, WithFile, Safe, Range
    <2> QED
      BY <2>1, <2>2
  <1>5. ASSUME NEW j \in Jobs, Refuse(j) PROVE Safe(p)'
    BY <1>5 DEF Refuse, PushRefused, Moves, LifeInv, Safe, Range, Alive
  <1>6. ASSUME NEW j \in Jobs, Enqueue(j) PROVE Safe(p)'
    BY <1>6 DEF Enqueue, PushBack, Moves, LifeInv, Safe, Range, Alive
  <1>7. ASSUME NEW j \in Jobs, Load(j) PROVE Safe(p)'
    BY <1>7 DEF Load, Moves, LifeInv, Safe, Range, Alive
  <1>8. ASSUME NEW j \in Jobs, CallBack(j) PROVE Safe(p)'
    BY <1>8 DEF CallBack, Moves, LifeInv, Safe, Range, Alive
  <1>9. ASSUME NEW j \in Jobs, Destroy(j) PROVE Safe(p)'
    <2>1. CASE k # j
      BY <1>9, <2>1 DEF Destroy, Moves, Safe, Alive
    <2>2. CASE k = j
      BY <1>9, <2>2 DEF Destroy, Moves, CalledInv, At, historyVars, Safe
    <2> QED
      BY <2>1, <2>2
  <1>10. ASSUME NEW q \in Priorities, Take(q) PROVE Safe(p)'
    BY <1>10, FirstQueued DEF Take, PopFront, LifeInv, Safe, Range, Alive
  <1>11. ASSUME NEW q \in Priorities, ClearPriority(q) PROVE Safe(p)'
    <2>1. k \notin Queued(q)
      BY QueuedJobs DEF LifeInv
    <2> QED
      BY <1>11, <2>1 DEF ClearPriority, Dropped, Safe, Alive
  <1>12. CASE Clear
    <2>1. \A q \in Priorities : k \notin Queued(q)
      BY QueuedJobs DEF LifeInv
    <2> QED
      BY <1>12, <2>1 DEF Clear, AllQueued, Dropped, Safe, Alive
  <1>13. CASE Crash
    <2>1. CASE step[k] \in {"built", "opened"}
      <3>1. p \in {payload[j] : j \in At("built") \cup At("opened")}
        BY <2>1 DEF LifeInv, At
      <3> QED
        BY <1>13, <3>1 DEF Crash, InMemoryOnly, Safe
    <2>2. CASE step[k] \in {"loaded", "called"}
      <3>1. p \in exposed \/ p \in Range(folder)
        BY <2>2 DEF LifeInv, FileInv, Alive, Range
      <3> QED
        BY <1>13, <3>1 DEF Crash, Safe
    <2> QED
      BY <2>1, <2>2 DEF LifeInv, Alive, Steps
  <1> QED
    BY <1>1, <1>2, <1>3, <1>4, <1>5, <1>6, <1>7, <1>8, <1>9, <1>10, <1>11,
         <1>12, <1>13
    DEF Next, Work, Push, Recover



\* Only save() adds to what was kept.
LEMMA KeptBySave ==
  ASSUME [Next]_vars, kept' # kept
  PROVE  \E j \in Jobs : SaveWrites(j)
  BY DEF Next, Work, Push, Recover, BuildNew, BuildRecovered, Build, SaveOpens, Refuse,
         Enqueue, Load, CallBack, Destroy, RecoverReads, Take, ClearPriority, Clear,
         SetLock, PassOver, RecoverOpens, RecoverRemoves, RecoverReturns, Crash, vars,
         historyVars

LEMMA SafeStep ==
  ASSUME BackupIInv, SafeInv, [Next]_vars
  PROVE  SafeInv'
  <1> SUFFICES ASSUME NEW p \in kept' PROVE Safe(p)'
    BY DEF SafeInv
  <1>1. BackupIInv' /\ p \in Payloads
    BY BackupIInvStep DEF BackupIInv, TypeOK
  <1>2. CASE p \in kept
    <2>1. CASE Remembered(p)
      BY <1>1, <2>1, RemembersStep DEF Remembered, Safe
    <2>2. CASE p \in Range(folder)
      BY <1>1, <2>2, FileStaysSafe DEF Range
    <2>3. CASE p \in Range(got)
      BY <1>1, <2>3, EntryStaysSafe DEF Range
    <2>4. CASE \E j \in Jobs : Alive(j) /\ data[j] = p
      BY <1>1, <2>4, DataStaysSafe
    <2> QED
      BY <1>2, <2>1, <2>2, <2>3, <2>4 DEF SafeInv, Safe, Remembered
  <1>3. CASE p \notin kept
    <2>1. PICK j \in Jobs : SaveWrites(j)
      <3>1. kept' # kept
        BY <1>3
      <3> QED
        BY <3>1, KeptBySave
    <2>2. p = payload[j] /\ p # Empty
      BY <1>1, <1>3, <2>1 DEF SaveWrites
    <2>3. j \in DOMAIN folder => folder' = WithFile(j, p)
      BY <1>1, <1>3, <2>1, <2>2 DEF SaveWrites
    <2>4. p \in exposed \/ j \in DOMAIN folder
      BY <2>1, <2>2 DEF BackupIInv, FileInv, SaveWrites, Moves, Alive
    <2> QED
      BY <2>1, <2>3, <2>4 DEF SaveWrites, WithFile, Safe, Range
  <1> QED
    BY <1>2, <1>3

(***************************************************************************)
(* What save() wrote whole is not lost, for any number of jobs, workers    *)
(* and crashes: it has been worked on, or a file, a result or a living job *)
(* has it, or it was thrown away, was only in memory when the process      *)
(* crashed, or was taken from a living job by uncompleted_jobs().          *)
(***************************************************************************)
THEOREM SavedDataIsKept == Spec => []SavedIsKept
  <1>1. Init => SafeInv
    BY DEF Init, SafeInv
  <1>2. BackupIInv /\ SafeInv => SavedIsKept
    BY DEF BackupIInv, TypeOK, SafeInv, Safe, SavedIsKept, InMemory
  <1> QED
    BY <1>1, <1>2, BackupIInvInit, BackupIInvStep, SafeStep, PTL DEF Spec

-----------------------------------------------------------------------------
(* Data is in one place *)

\* Most steps give nobody new data: jobs end, and may leave their file behind.
NothingNew ==
  /\ \A j \in Jobs : Alive(j)' => Alive(j)
  /\ \A f \in Abandoned' :
       /\ f \in DOMAIN folder /\ folder'[f] = folder[f]
       /\ f \in Abandoned \/ (Alive(f) /\ ~Alive(f)')
  /\ UNCHANGED <<payload, exposed>>
  /\ \/ got' = got /\ (UNCHANGED <<recovery, current>> \/ recovery # "read")
     \/ got' = <<>>

\* The steps that move the data of a recovery.
ResultStep ==
  \/ \E j \in Jobs : BuildNew(j) \/ BuildRecovered(j) \/ RecoverReads(j)
  \/ PassOver
  \/ RecoverRemoves

LEMMA OthersBringNothing ==
  ASSUME BackupIInv, ~ResultStep, [Next]_vars
  PROVE  NothingNew
  <1> USE DEF BackupIInv, TypeOK, LifeInv, NothingNew, Abandoned, Alive
  <1>1. CASE \/ SetLock
             \/ UNCHANGED vars
    BY <1>1 DEF SetLock, vars, backupVars, recoveryVars, historyVars
  <1>2. ASSUME NEW j \in Jobs, SaveOpens(j) PROVE NothingNew
    BY <1>2 DEF SaveOpens, Moves, WithFile, recoveryVars, historyVars
  <1>3. ASSUME NEW j \in Jobs, SaveWrites(j) PROVE NothingNew
    BY <1>3 DEF SaveWrites, Moves, WithFile, recoveryVars
  <1>4. ASSUME NEW j \in Jobs, Refuse(j) PROVE NothingNew
    BY <1>4 DEF Refuse, PushRefused, Moves, recoveryVars
  <1>5. ASSUME NEW j \in Jobs, Enqueue(j) PROVE NothingNew
    BY <1>5 DEF Enqueue, PushBack, Moves, recoveryVars, historyVars
  <1>6. ASSUME NEW j \in Jobs, Load(j) PROVE NothingNew
    BY <1>6 DEF Load, Moves, recoveryVars, historyVars
  <1>7. ASSUME NEW j \in Jobs, CallBack(j) PROVE NothingNew
    BY <1>7 DEF CallBack, Moves, recoveryVars
  <1>8. ASSUME NEW j \in Jobs, Destroy(j) PROVE NothingNew
    BY <1>8 DEF Destroy, Moves, WithoutFiles, recoveryVars, historyVars
  <1>9. ASSUME NEW p \in Priorities, Take(p) PROVE NothingNew
    BY <1>9, FirstQueued DEF Take, PopFront, recoveryVars, historyVars
  <1>10. ASSUME NEW p \in Priorities, ClearPriority(p) PROVE NothingNew
    BY <1>10, QueuedJobs DEF ClearPriority, ClearQueues, Dropped, recoveryVars
  <1>11. CASE Clear
    BY <1>11, QueuedJobs DEF Clear, ClearQueues, Dropped, WithoutFiles,
                              recoveryVars
  <1>12. CASE RecoverOpens
    BY <1>12 DEF RecoverOpens, backupVars, historyVars
  <1>13. CASE RecoverReturns
    BY <1>13 DEF RecoverReturns, backupVars, historyVars
  <1>14. CASE Crash
    BY <1>14 DEF Crash, Dropped
  <1> QED
    BY <1>1, <1>2, <1>3, <1>4, <1>5, <1>6, <1>7, <1>8, <1>9, <1>10, <1>11,
         <1>12, <1>13, <1>14
    DEF Next, Work, Push, Recover, ResultStep

LEMMA UniqueKept ==
  ASSUME BackupIInv, UniqueInv, NothingNew
  PROVE  UniqueInv'
  <1> USE DEF NothingNew, Untouched
  <1>1. \A f \in Abandoned' :
          /\ folder'[f] = folder[f]
          /\ \/ f \in Abandoned
             \/ /\ f \in Jobs /\ Alive(f) /\ ~Alive(f)'
                /\ folder[f] \in {payload[f], Empty}
    BY DEF BackupIInv, TypeOK, LifeInv
  <1>2. OneJob'
    BY DEF UniqueInv, OneJob
  <1>3. OneFile'
    <2> SUFFICES ASSUME NEW f \in Abandoned', NEW g \in Abandoned',
                        folder[f] = folder[g], folder[f] \in Untouched
                 PROVE  f = g
      BY <1>1 DEF OneFile
    <2>1. CASE f \in Abandoned /\ g \in Abandoned
      BY <2>1 DEF UniqueInv, OneFile
    <2>2. CASE f \notin Abandoned /\ g \notin Abandoned
      BY <1>1, <2>2 DEF UniqueInv, OneJob
    <2>3. CASE (f \in Abandoned) # (g \in Abandoned)
      BY <1>1, <2>3 DEF UniqueInv, JobOrFile
    <2> QED
      BY <2>1, <2>2, <2>3
  <1>4. OneEntry'
    BY DEF UniqueInv, OneEntry
  <1>5. JobOrFile'
    BY <1>1 DEF UniqueInv, OneJob, JobOrFile
  <1>6. JobOrEntry'
    BY DEF UniqueInv, JobOrEntry
  <1>7. FileOrEntry'
    <2> SUFFICES ASSUME NEW f \in Abandoned', NEW i \in DOMAIN got', got' = got,
                        folder[f] = got[i], got[i] \in Untouched
                 PROVE  recovery' = "read" /\ f = current' /\ i = Len(got)
      BY <1>1 DEF FileOrEntry
    <2>1. f \in Abandoned
      BY <1>1 DEF UniqueInv, JobOrEntry
    <2> QED
      BY <2>1 DEF UniqueInv, FileOrEntry
  <1> QED
    BY <1>2, <1>3, <1>4, <1>5, <1>6, <1>7 DEF UniqueInv

LEMMA UniqueBuilt ==
  ASSUME BackupIInv, UniqueInv, NEW j \in Jobs, BuildNew(j) \/ BuildRecovered(j)
  PROVE  UniqueInv'
  <1>1. PICK p \in Payloads, d \in {0, 1} :
                Build(j, p) /\ Shifted(d) /\ Source(p, d)
    BY Built DEF BackupIInv
  <1>2. /\ step[j] = "unborn" /\ j \notin DOMAIN folder
        /\ \A k \in Jobs : Alive(k)' <=> Alive(k) \/ k = j
        /\ \A k \in Jobs : payload'[k] = IF k = j THEN p ELSE payload[k]
        /\ UNCHANGED <<folder, exposed, recovery, current>>
    BY <1>1 DEF Build, Moves, Alive, BackupIInv, TypeOK, LifeInv
  <1>3. Abandoned' = Abandoned
    BY <1>2 DEF Abandoned, BackupIInv, TypeOK
  <1>4. d = 0 => p \notin submitted /\ got' = got
    BY <1>1 DEF Source, Shifted
  <1>5. d = 1 => recovery = "no" /\ 1 \in DOMAIN got /\ p = got[1]
    BY <1>1 DEF Source
  <1>6. \A i \in DOMAIN got' :
          i \in Nat \ {0} /\ i + d \in DOMAIN got /\ got'[i] = got[i + d]
    BY <1>1 DEF Shifted
  <1>7. \A k \in Jobs : Alive(k) => payload[k] \in submitted
    BY DEF BackupIInv, LifeInv
  <1>8. /\ \A f \in DOMAIN folder : folder[f] \in submitted \cup {Empty}
        /\ \A i \in DOMAIN got : got[i] \in submitted \cup {Empty}
    BY DEF BackupIInv, SubmittedInv, Range
  <1> USE DEF Untouched
  <1>9. OneJob'
    BY <1>2, <1>4, <1>5, <1>7 DEF UniqueInv, OneJob, JobOrEntry
  <1>10. OneFile'
    BY <1>2, <1>3 DEF UniqueInv, OneFile
  <1>11. OneEntry'
    BY <1>2, <1>6 DEF UniqueInv, OneEntry
  <1>12. JobOrFile'
    BY <1>2, <1>3, <1>4, <1>5, <1>8 DEF UniqueInv, JobOrFile, FileOrEntry, Abandoned
  <1>13. JobOrEntry'
    BY <1>2, <1>4, <1>5, <1>6, <1>8 DEF UniqueInv, JobOrEntry, OneEntry
  <1>14. FileOrEntry'
    BY <1>2, <1>3, <1>4, <1>5, <1>6 DEF UniqueInv, FileOrEntry
  <1> QED
    BY <1>9, <1>10, <1>11, <1>12, <1>13, <1>14 DEF UniqueInv

LEMMA UniquePassed ==
  ASSUME BackupIInv, UniqueInv, PassOver
  PROVE  UniqueInv'
  <1>1. /\ recovery = "no"
        /\ UNCHANGED <<step, payload, folder, exposed, recovery, current>>
    BY DEF PassOver, backupVars, historyVars
  <1>2. \A i \in DOMAIN got' :
          i \in Nat \ {0} /\ i + 1 \in DOMAIN got /\ got'[i] = got[i + 1]
    BY TailShifts DEF PassOver, BackupIInv, Shifted
  <1>3. Abandoned' = Abandoned
    BY <1>1 DEF Abandoned, Alive
  <1> USE DEF Untouched, Alive
  <1>4. OneJob' /\ OneFile' /\ JobOrFile'
    BY <1>1, <1>3 DEF UniqueInv, OneJob, OneFile, JobOrFile
  <1>5. OneEntry'
    BY <1>1, <1>2 DEF UniqueInv, OneEntry
  <1>6. JobOrEntry' /\ FileOrEntry'
    BY <1>1, <1>2, <1>3 DEF UniqueInv, JobOrEntry, FileOrEntry
  <1> QED
    BY <1>4, <1>5, <1>6 DEF UniqueInv

LEMMA UniqueRead ==
  ASSUME BackupIInv, UniqueInv, NEW f \in Jobs, RecoverReads(f)
  PROVE  UniqueInv'
  <1>1. /\ f \in DOMAIN folder
        /\ Len(got) \in Nat /\ Len(got') = Len(got) + 1
        /\ DOMAIN got = 1 .. Len(got)
        /\ DOMAIN got' = DOMAIN got \cup {Len(got) + 1}
        /\ \A i \in DOMAIN got : got'[i] = got[i]
        /\ got'[Len(got) + 1] = folder[f]
        /\ exposed \subseteq exposed'
        /\ Alive(f) => payload[f] \in exposed'
        /\ recovery = "looking" /\ recovery' = "read" /\ current' = f
        /\ UNCHANGED <<step, payload, folder>>
    BY Reads DEF BackupIInv
  <1>2. Abandoned' = Abandoned
    BY <1>1 DEF Abandoned, Alive
  <1>3. Untouched' \subseteq Untouched
    BY <1>1 DEF Untouched
  <1>4. folder[f] \in Untouched' => f \in Abandoned
    BY <1>1 DEF Abandoned, Untouched, BackupIInv, LifeInv
  <1>5. \A g \in Abandoned, i \in DOMAIN got :
          folder[g] = got[i] => got[i] \notin Untouched
    BY <1>1 DEF UniqueInv, FileOrEntry
  <1>6. \A j \in Jobs : Alive(j)' <=> Alive(j)
    BY <1>1 DEF Alive
  <1>7. OneJob' /\ OneFile' /\ JobOrFile'
    BY <1>1, <1>2, <1>3, <1>6 DEF UniqueInv, OneJob, OneFile, JobOrFile
  <1>8. OneEntry'
    BY <1>1, <1>3, <1>4, <1>5 DEF UniqueInv, OneEntry
  <1>9. JobOrEntry'
    BY <1>1, <1>3, <1>4, <1>6 DEF UniqueInv, JobOrEntry, JobOrFile
  <1>10. FileOrEntry'
    BY <1>1, <1>2, <1>3, <1>4, <1>5 DEF UniqueInv, FileOrEntry, OneFile
  <1> QED
    BY <1>7, <1>8, <1>9, <1>10 DEF UniqueInv

LEMMA UniqueRemoved ==
  ASSUME BackupIInv, UniqueInv, RecoverRemoves
  PROVE  UniqueInv'
  <1>1. /\ UNCHANGED <<step, payload, exposed, got>>
        /\ \A f \in DOMAIN folder' :
             f \in DOMAIN folder /\ f # current /\ folder'[f] = folder[f]
    BY DEF RecoverRemoves, WithoutFiles, historyVars
  <1>2. \A f \in Abandoned' : f \in Abandoned /\ f # current /\ folder'[f] = folder[f]
    BY <1>1 DEF Abandoned, Alive
  <1> USE DEF Untouched, Alive
  <1>3. OneJob' /\ OneEntry' /\ JobOrEntry'
    BY <1>1 DEF UniqueInv, OneJob, OneEntry, JobOrEntry
  <1>4. OneFile' /\ JobOrFile' /\ FileOrEntry'
    BY <1>1, <1>2 DEF UniqueInv, OneFile, JobOrFile, FileOrEntry
  <1> QED
    BY <1>3, <1>4 DEF UniqueInv

LEMMA UniqueStep ==
  ASSUME BackupIInv, UniqueInv, [Next]_vars
  PROVE  UniqueInv'
  <1>1. CASE ResultStep
    BY <1>1, UniqueBuilt, UniquePassed, UniqueRead, UniqueRemoved DEF ResultStep
  <1>2. CASE ~ResultStep
    BY <1>2, OthersBringNothing, UniqueKept
  <1> QED
    BY <1>1, <1>2

-----------------------------------------------------------------------------
(* Data is worked on once *)

OnceInv == UniqueInv /\ WaitingInv /\ RunsOnce

\* A file is only left behind by a job whose callback was not called, but for a
\* crash.
NothingRun ==
  /\ UNCHANGED <<ran, halfway>>
  /\ \A j \in Jobs : Alive(j)' /\ step'[j] # "called" => step[j] # "called"
  /\ \A f \in Abandoned' : f \in Abandoned \/ step[f] # "called"

LEMMA OthersRunNothing ==
  ASSUME BackupIInv, ~ResultStep,
         ~Crash, ~ \E j \in Jobs : CallBack(j),
         [Next]_vars
  PROVE  NothingRun
  <1> USE DEF BackupIInv, TypeOK, LifeInv, NothingRun, Abandoned, Alive
  <1>1. CASE \/ SetLock
             \/ RecoverOpens \/ RecoverReturns \/ UNCHANGED vars
    BY <1>1 DEF SetLock, RecoverOpens, RecoverReturns, vars, backupVars,
                 historyVars
  <1>2. ASSUME NEW j \in Jobs, SaveOpens(j) PROVE NothingRun
    BY <1>2 DEF SaveOpens, Moves, WithFile, historyVars
  <1>3. ASSUME NEW j \in Jobs, SaveWrites(j) PROVE NothingRun
    BY <1>3 DEF SaveWrites, Moves, WithFile
  <1>4. ASSUME NEW j \in Jobs, Refuse(j) PROVE NothingRun
    BY <1>4 DEF Refuse, PushRefused, Moves
  <1>5. ASSUME NEW j \in Jobs, Enqueue(j) PROVE NothingRun
    BY <1>5 DEF Enqueue, PushBack, Moves, historyVars
  <1>6. ASSUME NEW j \in Jobs, Load(j) PROVE NothingRun
    BY <1>6 DEF Load, Moves, historyVars
  <1>7. ASSUME NEW j \in Jobs, Destroy(j) PROVE NothingRun
    BY <1>7 DEF Destroy, Moves, WithoutFiles, historyVars
  <1>8. ASSUME NEW p \in Priorities, Take(p) PROVE NothingRun
    <2>1. /\ step' = [step EXCEPT ![Head(queue[p])] = "taken"]
          /\ UNCHANGED <<folder, ran, halfway>>
      BY <1>8 DEF Take, historyVars
    <2>2. step[Head(queue[p])] = "queued"
      BY <1>8, FirstQueued DEF Take
    <2> QED
      BY <2>1, <2>2
  <1>9. ASSUME NEW p \in Priorities, ClearPriority(p) PROVE NothingRun
    BY <1>9, QueuedJobs DEF ClearPriority, ClearQueues, Dropped
  <1>10. CASE Clear
    BY <1>10, QueuedJobs DEF Clear, ClearQueues, Dropped, WithoutFiles
  <1> QED
    BY <1>1, <1>2, <1>3, <1>4, <1>5, <1>6, <1>7, <1>8, <1>9, <1>10
    DEF Next, Work, Push, Recover, ResultStep

LEMMA OnceKept ==
  ASSUME BackupIInv, OnceInv, NothingNew, NothingRun
  PROVE  WaitingInv' /\ RunsOnce'
  <1>1. RunsOnce'
    BY DEF OnceInv, RunsOnce, NothingNew, NothingRun
  <1> USE DEF NothingNew, NothingRun, Untouched, Unrun
  <1>2. \A j \in Jobs : Alive(j)' /\ step'[j] # "called" => Unrun(payload[j])'
    BY DEF OnceInv, WaitingInv
  <1>3. \A f \in Abandoned' : Unrun(folder[f])'
    <2> TAKE f \in Abandoned'
    <2>1. CASE f \in Abandoned
      BY <2>1 DEF OnceInv, WaitingInv
    <2>2. CASE f \notin Abandoned
      <3>1. /\ f \in Jobs /\ Alive(f) /\ step[f] # "called"
            /\ folder[f] \in {payload[f], Empty}
        BY <2>2 DEF BackupIInv, TypeOK, LifeInv
      <3> QED
        BY <3>1 DEF OnceInv, WaitingInv
    <2> QED
      BY <2>1, <2>2
  <1>4. \A i \in DOMAIN got' : Unrun(got[i])'
    BY DEF OnceInv, WaitingInv
  <1> QED
    BY <1>1, <1>2, <1>3, <1>4 DEF WaitingInv

LEMMA OnceCalled ==
  ASSUME BackupIInv, OnceInv, NothingNew, NEW j \in Jobs, CallBack(j)
  PROVE  WaitingInv' /\ RunsOnce'
  <1>1. /\ step[j] = "loaded" /\ step' = [step EXCEPT ![j] = "called"]
        /\ data[j] \in {payload[j], Empty}
        /\ \A p \in Payloads :
             ran'[p] = IF p = data[j] THEN ran[p] + 1 ELSE ran[p]
        /\ UNCHANGED <<payload, folder, got, halfway, exposed>>
    BY DEF CallBack, Moves, BackupIInv, LifeInv, backupVars, recoveryVars
  <1>2. Alive(j) /\ \A k \in Jobs : Alive(k)' <=> Alive(k)
    BY <1>1 DEF Alive, BackupIInv, TypeOK
  <1>3. Abandoned' = Abandoned
    BY <1>1, <1>2 DEF Abandoned, BackupIInv, TypeOK
  <1>4. \A p \in Payloads : ran[p] \in Nat /\ halfway[p] \in Nat
    BY DEF BackupIInv, TypeOK
  <1>5. ASSUME NEW p, Unrun(p), p # payload[j] PROVE Unrun(p)'
    BY <1>1, <1>5 DEF Unrun, Untouched
  <1>6. payload[j] \in Untouched => ran[payload[j]] <= halfway[payload[j]]
    BY <1>1, <1>2 DEF OnceInv, WaitingInv, Unrun
  <1>7. RunsOnce'
    <2> SUFFICES ASSUME NEW p \in Payloads \ exposed PROVE ran'[p] <= 1 + halfway[p]
      BY <1>1 DEF RunsOnce
    <2>1. CASE p = data[j]
      BY <1>1, <1>4, <1>6, <2>1 DEF Untouched
    <2>2. CASE p # data[j]
      BY <1>1, <2>2 DEF OnceInv, RunsOnce
    <2> QED
      BY <2>1, <2>2
  <1>8. \A k \in Jobs : Alive(k)' /\ step'[k] # "called" => Unrun(payload[k])'
    <2> SUFFICES ASSUME NEW k \in Jobs, Alive(k), step'[k] # "called"
                 PROVE  Unrun(payload[k])'
      BY <1>2
    <2>1. k # j /\ step[k] # "called"
      BY <1>1 DEF BackupIInv, TypeOK
    <2>2. CASE payload[k] = payload[j]
      BY <1>1, <1>2, <2>1, <2>2 DEF OnceInv, UniqueInv, OneJob, Unrun, Untouched
    <2>3. CASE payload[k] # payload[j]
      BY <1>1, <1>5, <2>1, <2>3 DEF OnceInv, WaitingInv
    <2> QED
      BY <2>2, <2>3
  <1>9. \A f \in Abandoned' : Unrun(folder[f])'
    <2> TAKE f \in Abandoned'
    <2>1. CASE folder[f] = payload[j]
      BY <1>1, <1>2, <1>3, <2>1 DEF OnceInv, UniqueInv, JobOrFile, Unrun, Untouched
    <2>2. CASE folder[f] # payload[j]
      BY <1>1, <1>3, <1>5, <2>2 DEF OnceInv, WaitingInv
    <2> QED
      BY <2>1, <2>2
  <1>10. \A i \in DOMAIN got' : Unrun(got[i])'
    <2> TAKE i \in DOMAIN got'
    <2>1. CASE got[i] = payload[j]
      BY <1>1, <1>2, <2>1 DEF OnceInv, UniqueInv, JobOrEntry, Unrun, Untouched
    <2>2. CASE got[i] # payload[j]
      BY <1>1, <1>5, <2>2 DEF OnceInv, WaitingInv
    <2> QED
      BY <2>1, <2>2
  <1> QED
    BY <1>7, <1>8, <1>9, <1>10 DEF WaitingInv

\* A crash counts every callback it cuts off.
LEMMA CrashCounts ==
  ASSUME BackupIInv, Crash, NEW p \in Payloads
  PROVE  /\ ran'[p] = ran[p] /\ ran[p] \in Nat
         /\ halfway[p] \in Nat /\ halfway'[p] \in Nat
         /\ halfway[p] <= halfway'[p]
         /\ (\E j \in At("called") : payload[j] = p) => halfway[p] + 1 <= halfway'[p]
  <1> DEFINE cut == {j \in At("called") : payload[j] = p}
  <1>1. IsFiniteSet(cut)
    BY FS_Subset DEF BackupIInv, WorkersInv, Busy
  <1>2. Cardinality(cut) \in Nat /\ (cut # {} => Cardinality(cut) # 0)
    BY <1>1, FS_CardinalityType, FS_EmptySet
  <1>3. halfway'[p] = halfway[p] + Cardinality(cut) /\ ran' = ran
    BY DEF Crash
  <1>4. halfway[p] \in Nat /\ ran[p] \in Nat
    BY DEF BackupIInv, TypeOK
  <1>5. (\E j \in At("called") : payload[j] = p) => cut # {}
    OBVIOUS
  <1> HIDE DEF cut
  <1> QED
    BY <1>2, <1>3, <1>4, <1>5

LEMMA OnceCrashed ==
  ASSUME BackupIInv, OnceInv, NothingNew, Crash
  PROVE  WaitingInv' /\ RunsOnce'
  <1>1. /\ got' = <<>> /\ UNCHANGED <<folder, exposed>>
        /\ \A j \in Jobs : ~Alive(j)'
    BY DEF Crash, Dropped, Alive, NothingNew
  <1>2. RunsOnce'
    BY <1>1, CrashCounts DEF OnceInv, RunsOnce
  <1>3. \A f \in Abandoned' : Unrun(folder[f])'
    <2> SUFFICES ASSUME NEW f \in Abandoned', folder[f] \in Untouched
                 PROVE  ran'[folder[f]] <= halfway'[folder[f]]
      BY <1>1 DEF Unrun, Untouched
    <2> DEFINE p == folder[f]
    <2>1. p \in Payloads \ exposed
      BY DEF Untouched
    <2>2. /\ ran'[p] = ran[p] /\ ran[p] \in Nat
          /\ halfway[p] \in Nat /\ halfway'[p] \in Nat
          /\ halfway[p] <= halfway'[p]
          /\ (\E j \in At("called") : payload[j] = p) => halfway[p] + 1 <= halfway'[p]
      BY <2>1, CrashCounts
    <2>3. CASE f \in Abandoned
      BY <2>2, <2>3 DEF OnceInv, WaitingInv, Unrun
    <2>4. CASE f \notin Abandoned
      <3>1. f \in Jobs /\ Alive(f) /\ p = payload[f]
        BY <2>1, <2>4 DEF NothingNew, BackupIInv, TypeOK, LifeInv
      <3>2. CASE step[f] = "called"
        BY <2>1, <2>2, <3>1, <3>2 DEF At, OnceInv, RunsOnce
      <3>3. CASE step[f] # "called"
        BY <2>2, <3>1, <3>3 DEF OnceInv, WaitingInv, Unrun
      <3> QED
        BY <3>2, <3>3
    <2> QED
      BY <2>3, <2>4
  <1>4. DOMAIN got' = {}
    BY <1>1
  <1> QED
    BY <1>1, <1>2, <1>3, <1>4 DEF WaitingInv

LEMMA OnceResult ==
  ASSUME BackupIInv, OnceInv, ResultStep
  PROVE  WaitingInv' /\ RunsOnce'
  <1>1. ASSUME NEW j \in Jobs, BuildNew(j) \/ BuildRecovered(j)
        PROVE  WaitingInv' /\ RunsOnce'
    <2>1. PICK p \in Payloads, d \in {0, 1} :
                Build(j, p) /\ Shifted(d) /\ Source(p, d)
      BY <1>1, Built DEF BackupIInv
    <2>2. /\ \A k \in Jobs : Alive(k)' <=> Alive(k) \/ k = j
          /\ \A k \in Jobs : k # j => step'[k] = step[k]
          /\ \A k \in Jobs : payload'[k] = IF k = j THEN p ELSE payload[k]
          /\ j \notin DOMAIN folder
          /\ UNCHANGED <<folder, exposed, ran, halfway>>
      BY <2>1 DEF Build, Moves, Alive, BackupIInv, TypeOK, LifeInv
    <2>3. Abandoned' = Abandoned
      BY <2>2 DEF Abandoned, BackupIInv, TypeOK
    <2>4. Unrun(p)
      <3>1. CASE d = 0
        BY <2>1, <3>1 DEF Source, Unrun, BackupIInv, SubmittedInv, TypeOK
      <3>2. CASE d = 1
        BY <2>1, <3>2 DEF Source, OnceInv, WaitingInv
      <3> QED
        BY <3>1, <3>2
    <2>5. \A q : Unrun(q) => Unrun(q)'
      BY <2>2 DEF Unrun, Untouched
    <2>6. \A i \in DOMAIN got' : Unrun(got'[i])
      BY <2>1 DEF Shifted, OnceInv, WaitingInv
    <2> QED
      BY <2>2, <2>3, <2>4, <2>5, <2>6 DEF OnceInv, WaitingInv, RunsOnce
  <1>2. CASE PassOver
    <2>1. UNCHANGED <<step, payload, folder, exposed, ran, halfway>>
      BY <1>2 DEF PassOver, backupVars, historyVars
    <2>2. \A i \in DOMAIN got' : i + 1 \in DOMAIN got /\ got'[i] = got[i + 1]
      BY <1>2, TailShifts DEF PassOver, BackupIInv, Shifted
    <2> QED
      BY <2>1, <2>2 DEF OnceInv, WaitingInv, RunsOnce, Unrun, Untouched, Abandoned, Alive
  <1>3. ASSUME NEW f \in Jobs, RecoverReads(f) PROVE WaitingInv' /\ RunsOnce'
    <2>1. /\ f \in DOMAIN folder
          /\ DOMAIN got' = DOMAIN got \cup {Len(got) + 1}
          /\ \A i \in DOMAIN got : got'[i] = got[i]
          /\ got'[Len(got) + 1] = folder[f]
          /\ exposed \subseteq exposed'
          /\ Alive(f) => payload[f] \in exposed'
          /\ UNCHANGED <<step, payload, folder, ran, halfway>>
      BY <1>3, Reads DEF BackupIInv
    <2>2. folder[f] \in Untouched' => f \in Abandoned
      BY <2>1 DEF Abandoned, Untouched, BackupIInv, LifeInv
    <2>3. \A q : Unrun(q) => Unrun(q)'
      BY <2>1 DEF Unrun, Untouched
    <2>4. Unrun(folder[f])'
      BY <2>1, <2>2 DEF Unrun, Untouched, OnceInv, WaitingInv
    <2>5. Abandoned' = Abandoned /\ \A j \in Jobs : Alive(j)' <=> Alive(j)
      BY <2>1 DEF Abandoned, Alive
    <2> QED
      BY <2>1, <2>3, <2>4, <2>5 DEF OnceInv, WaitingInv, RunsOnce
  <1>4. CASE RecoverRemoves
    <2>1. /\ UNCHANGED <<step, payload, exposed, got, ran, halfway>>
          /\ \A f \in DOMAIN folder' : f \in DOMAIN folder /\ folder'[f] = folder[f]
      BY <1>4 DEF RecoverRemoves, WithoutFiles, historyVars
    <2> QED
      BY <2>1 DEF OnceInv, WaitingInv, RunsOnce, Unrun, Untouched, Abandoned, Alive
  <1> QED
    BY <1>1, <1>2, <1>3, <1>4 DEF ResultStep

LEMMA OnceStep ==
  ASSUME BackupIInv, OnceInv, [Next]_vars
  PROVE  OnceInv'
  <1>1. UniqueInv'
    BY UniqueStep DEF OnceInv
  <1>2. WaitingInv' /\ RunsOnce'
    <2>1. CASE ResultStep
      BY <2>1, OnceResult
    <2>2. CASE ~ResultStep
      <3>1. NothingNew
        BY <2>2, OthersBringNothing
      <3>2. CASE Crash
        BY <3>1, <3>2, OnceCrashed
      <3>3. CASE \E j \in Jobs : CallBack(j)
        BY <3>1, <3>3, OnceCalled
      <3>4. CASE ~Crash /\ ~ \E j \in Jobs : CallBack(j)
        BY <2>2, <3>1, <3>4, OthersRunNothing, OnceKept
      <3> QED
        BY <3>2, <3>3, <3>4
    <2> QED
      BY <2>1, <2>2
  <1> QED
    BY <1>1, <1>2 DEF OnceInv

(***************************************************************************)
(* Data is worked on once for every time a crash cut off its callback      *)
(* before destroy(), and once more: for any number of jobs, workers and    *)
(* crashes, unless uncompleted_jobs() took it from a living job.           *)
(***************************************************************************)
THEOREM DataRunsOnce == Spec => []RunsOnce
  <1>1. Init => OnceInv
    BY DEF Init, OnceInv, UniqueInv, OneJob, OneFile, OneEntry, JobOrFile, JobOrEntry,
           FileOrEntry, WaitingInv, RunsOnce, Abandoned, Alive
  <1>2. OnceInv => RunsOnce
    BY DEF OnceInv
  <1> QED
    BY <1>1, <1>2, BackupIInvInit, BackupIInvStep, OnceStep, PTL DEF Spec
=============================================================================
