------------------------------- MODULE JobBackup -------------------------------
(***************************************************************************)
(* The backup files of ThreadPool/Job.cpp and their recovery by            *)
(* JobPool::uncompleted_jobs().  A job of a class that saves itself puts   *)
(* its data in a file and forgets it, work() loads it back and removes the *)
(* file, and after a crash the program asks for the data of the jobs that  *)
(* were not completed and makes jobs of it.  The queues are JobPool's; the *)
(* workers are reduced to the steps of work().                             *)
(***************************************************************************)
EXTENDS JobPool, FiniteSets

CONSTANTS Payloads,     \* the data of jobs
          Empty,        \* no data
          None,         \* no file
          WorkerCount,  \* the workers of the pool
          MaxCrashes    \* bound: crashes of the process

ASSUME JobBackupAssumption ==
  /\ Jobs \subseteq Nat
  /\ WorkerCount \in Nat \ {0}
  /\ MaxCrashes \in Nat
  /\ Empty \notin Payloads
  /\ None \notin Jobs

VARIABLES step,      \* where each job is in its life
          payload,   \* history: the data each job was built with
          data,      \* data_
          named,     \* the jobs whose temporary_file_ is set; a job's file is named by a guid
          folder,    \* the contents of the files in the backup folder
          recovery,  \* where uncompleted_jobs() is, "no" outside a call
          listed,    \* the files there when it opened the folder
          current,   \* the file it is at
          got,       \* its result; afterwards, what the program has not made jobs of yet
          crashes,   \* crashes so far
          submitted, \* history: payloads of which a job was ever built
          kept,      \* history: payloads whose last save() wrote them whole
          ran,       \* history: how often a callback got each payload
          thrown,    \* history: payloads of the jobs clear() destroyed
          down,      \* history: payloads that only memory held when the process crashed
          halfway,   \* history: crashes between a payload's callback and its destroy()
          exposed,   \* history: payloads of jobs whose file a recovery took while they were alive
          left       \* history: files that nobody but a recovery removes

backupVars == <<step, payload, data, named, folder>>
recoveryVars == <<recovery, listed, current, got>>
historyVars == <<crashes, submitted, kept, ran, thrown, down, halfway, exposed, left>>
vars == <<jobPoolVars, backupVars, recoveryVars, historyVars>>

Alive(j) == step[j] \notin {"unborn", "gone"}
At(s) == {j \in Jobs : step[j] = s}
Busy == At("taken") \cup At("loaded") \cup At("called")

WithFile(f, content) == [g \in DOMAIN folder \cup {f} |-> IF g = f THEN content ELSE folder[g]]
WithoutFiles(F) == [g \in DOMAIN folder \ F |-> folder[g]]

Init ==
  /\ JobPoolInit
  /\ step = [j \in Jobs |-> "unborn"]
  /\ payload = [j \in Jobs |-> Empty]
  /\ data = [j \in Jobs |-> Empty]
  /\ named = {}
  /\ folder = <<>>
  /\ recovery = "no"
  /\ listed = {}
  /\ current = None
  /\ got = <<>>
  /\ crashes = 0
  /\ submitted = {}
  /\ kept = {}
  /\ ran = [p \in Payloads |-> 0]
  /\ thrown = {}
  /\ down = {}
  /\ halfway = [p \in Payloads |-> 0]
  /\ exposed = {}
  /\ left = {}

Moves(j, from, to) == step[j] = from /\ step' = [step EXCEPT ![j] = to]

-----------------------------------------------------------------------------
\* The program builds a job, of new data or of the first data it recovered.
Build(j, p) ==
  /\ \A k \in At("unborn") : j <= k
  /\ Moves(j, "unborn", "built")
  /\ payload' = [payload EXCEPT ![j] = p]
  /\ data' = [data EXCEPT ![j] = p]
  /\ submitted' = submitted \cup {p}
  /\ UNCHANGED <<jobPoolVars, named, folder, recovery, listed, current>>
  /\ UNCHANGED <<crashes, kept, ran, thrown, down, halfway, exposed, left>>

BuildNew(j) ==
  \E p \in Payloads \ submitted : Build(j, p) /\ UNCHANGED got

BuildRecovered(j) ==
  /\ recovery = "no"
  /\ got # <<>>
  /\ Head(got) # Empty
  /\ got' = Tail(got)
  /\ Build(j, Head(got))

\* It makes no job of an empty entry.
PassOver ==
  /\ recovery = "no"
  /\ got # <<>>
  /\ Head(got) = Empty
  /\ got' = Tail(got)
  /\ UNCHANGED <<jobPoolVars, backupVars, recovery, listed, current, historyVars>>

\* save(): opening the file empties it, ...
SaveOpens(j) ==
  /\ Moves(j, "built", "opened")
  /\ named' = named \cup {j}
  /\ folder' = WithFile(j, Empty)
  /\ UNCHANGED <<jobPoolVars, payload, data, recoveryVars, historyVars>>

\* ... the result of write_bytes() is not looked at, and data_ is cleared.
\* What is written to a removed file goes with it.
SaveWrites(j) ==
  /\ Moves(j, "opened", "saved")
  /\ \E content \in {payload[j], Empty} :
       /\ folder' = IF j \in DOMAIN folder THEN WithFile(j, content) ELSE folder
       /\ kept' = IF content = Empty THEN kept \ {payload[j]} ELSE kept \cup {payload[j]}
  /\ data' = [data EXCEPT ![j] = Empty]
  /\ UNCHANGED <<jobPoolVars, payload, named, recoveryVars>>
  /\ UNCHANGED <<crashes, submitted, ran, thrown, down, halfway, exposed, left>>

\* push(), in one step: nothing between its test of the lock and the queue
\* touches a file.  A refused job is dropped without destroy().
Refuse(j) ==
  /\ PushRefused(j)
  /\ Moves(j, "saved", "gone")
  /\ left' = left \cup {j}
  /\ UNCHANGED <<payload, data, named, folder, recoveryVars>>
  /\ UNCHANGED <<crashes, submitted, kept, ran, thrown, down, halfway, exposed>>

Enqueue(j) ==
  /\ ~locked
  /\ PushBack(j)
  /\ Moves(j, "saved", "queued")
  /\ UNCHANGED <<payload, data, named, folder, recoveryVars, historyVars>>

-----------------------------------------------------------------------------
\* A worker takes a job and does work(): load(), the callback, destroy().
Take(p) ==
  /\ queue[p] # <<>>
  /\ Cardinality(Busy) < WorkerCount
  /\ PopFront(p)
  /\ step' = [step EXCEPT ![Head(queue[p])] = "taken"]
  /\ UNCHANGED <<payload, data, named, folder, recoveryVars, historyVars>>

\* Mutant: the file goes as soon as it has been read.
LoadAndRemove(j) ==
  /\ Moves(j, "taken", "loaded")
  /\ data' = [data EXCEPT ![j] = IF j \in DOMAIN folder THEN folder[j] ELSE Empty]
  /\ folder' = WithoutFiles({j})
  /\ UNCHANGED <<jobPoolVars, payload, named, recoveryVars, historyVars>>

\* load(): a file that cannot be opened leaves the job without data.
Load(j) ==
  /\ Moves(j, "taken", "loaded")
  /\ data' = [data EXCEPT ![j] = IF j \notin named THEN @
                                 ELSE IF j \in DOMAIN folder THEN folder[j] ELSE Empty]
  /\ UNCHANGED <<jobPoolVars, payload, named, folder, recoveryVars, historyVars>>

\* The callback, whatever it answers or throws.
CallBack(j) ==
  /\ Moves(j, "loaded", "called")
  /\ ran' = [p \in Payloads |-> IF p = data[j] THEN ran[p] + 1 ELSE ran[p]]
  /\ UNCHANGED <<jobPoolVars, payload, data, named, folder, recoveryVars>>
  /\ UNCHANGED <<crashes, submitted, kept, thrown, down, halfway, exposed, left>>

\* Mutant: a job that failed keeps its file.
DestroyIfDone(j) ==
  /\ Moves(j, "called", "gone")
  /\ UNCHANGED <<jobPoolVars, payload, data, named, folder, recoveryVars, historyVars>>

Destroy(j) ==
  /\ Moves(j, "called", "gone")
  /\ folder' = WithoutFiles({j} \cap named)
  /\ named' = named \ {j}
  /\ UNCHANGED <<jobPoolVars, payload, data, recoveryVars, historyVars>>

-----------------------------------------------------------------------------
Dropped(S) == [j \in Jobs |-> IF j \in S THEN "gone" ELSE step[j]]

\* Mutant: clear() leaves the files, like clear(priority).
ClearKeepsFiles ==
  /\ AllQueued # {}
  /\ ClearQueues(Priorities)
  /\ step' = Dropped(AllQueued)
  /\ thrown' = thrown \cup {payload[j] : j \in AllQueued}
  /\ UNCHANGED <<payload, data, named, folder, recoveryVars>>
  /\ UNCHANGED <<crashes, submitted, kept, ran, down, halfway, exposed, left>>

\* clear() destroys what is queued, the files included.
Clear ==
  /\ AllQueued # {}
  /\ ClearQueues(Priorities)
  /\ step' = Dropped(AllQueued)
  /\ folder' = WithoutFiles(AllQueued \cap named)
  /\ named' = named \ AllQueued
  /\ thrown' = thrown \cup {payload[j] : j \in AllQueued}
  /\ UNCHANGED <<payload, data, recoveryVars>>
  /\ UNCHANGED <<crashes, submitted, kept, ran, down, halfway, exposed, left>>

\* clear(priority) forgets the jobs of one queue and leaves their files.
ClearPriority(p) ==
  /\ queue[p] # <<>>
  /\ ClearQueues({p})
  /\ step' = Dropped(Queued(p))
  /\ left' = left \cup Queued(p)
  /\ UNCHANGED <<payload, data, named, folder, recoveryVars>>
  /\ UNCHANGED <<crashes, submitted, kept, ran, thrown, down, halfway, exposed>>

SetLock ==
  /\ SetLocked(~locked)
  /\ UNCHANGED <<backupVars, recoveryVars, historyVars>>

-----------------------------------------------------------------------------
\* uncompleted_jobs(), by a program that has used what the last call gave it.
RecoverOpens ==
  /\ recovery = "no"
  /\ got = <<>>
  /\ DOMAIN folder # {}
  /\ recovery' = "looking"
  /\ listed' = DOMAIN folder
  /\ UNCHANGED <<jobPoolVars, backupVars, current, got, historyVars>>

\* A file is read; one that appeared meanwhile may be listed or not.
RecoverReads(f) ==
  /\ recovery = "looking"
  /\ f \in DOMAIN folder
  /\ recovery' = "read"
  /\ current' = f
  /\ got' = Append(got, folder[f])
  /\ exposed' = IF Alive(f) THEN exposed \cup {payload[f]} ELSE exposed
  /\ UNCHANGED <<jobPoolVars, backupVars, listed>>
  /\ UNCHANGED <<crashes, submitted, kept, ran, thrown, down, halfway, left>>

\* Then it is removed.
RecoverRemoves ==
  /\ recovery = "read"
  /\ recovery' = "looking"
  /\ folder' = WithoutFiles({current})
  /\ current' = None
  /\ UNCHANGED <<jobPoolVars, step, payload, data, named, listed, got, historyVars>>

RecoverReturns ==
  /\ recovery = "looking"
  /\ listed \cap DOMAIN folder = {}
  /\ recovery' = "no"
  /\ listed' = {}
  /\ UNCHANGED <<jobPoolVars, backupVars, current, got, historyVars>>

\* The process crashes, and another starts with what is in the folder.
InMemoryOnly ==
  (Range(got) \cup {payload[j] : j \in At("built") \cup At("opened")})
    \ (Range(folder) \cup {Empty})

Crash ==
  /\ crashes < MaxCrashes
  /\ crashes' = crashes + 1
  /\ step' = Dropped({j \in Jobs : Alive(j)})
  /\ queue' = [p \in Priorities |-> <<>>]
  /\ locked' = FALSE
  /\ recovery' = "no"
  /\ listed' = {}
  /\ current' = None
  /\ got' = <<>>
  /\ down' = down \cup InMemoryOnly
  /\ halfway' = [p \in Payloads |->
                   halfway[p] + Cardinality({j \in At("called") : payload[j] = p})]
  /\ left' = left \cup {j \in DOMAIN folder : Alive(j)}
  /\ UNCHANGED <<fresh, refused, discarded, payload, data, named, folder>>
  /\ UNCHANGED <<submitted, kept, ran, thrown, exposed>>

Work(j) == Load(j) \/ CallBack(j) \/ Destroy(j)
Push(j) == Refuse(j) \/ Enqueue(j)
Recover == RecoverOpens \/ RecoverRemoves \/ RecoverReturns

Next ==
  \/ \E j \in Jobs : \/ BuildNew(j) \/ BuildRecovered(j)
                     \/ SaveOpens(j) \/ SaveWrites(j)
                     \/ Push(j) \/ Work(j) \/ RecoverReads(j)
  \/ \E p \in Priorities : Take(p) \/ ClearPriority(p)
  \/ Clear \/ SetLock \/ PassOver \/ Recover \/ Crash

Spec == Init /\ [][Next]_vars

-----------------------------------------------------------------------------
(***************************************************************************)
(* Type invariant: the members of Job.h, the folder, and uncompleted_jobs. *)
(***************************************************************************)
Steps == {"unborn", "built", "opened", "saved", "queued", "taken", "loaded",
          "called", "gone"}

TypeOK ==
  /\ JobPoolTypeOK
  /\ step \in [Jobs -> Steps]
  /\ payload \in [Jobs -> Payloads \cup {Empty}]
  /\ data \in [Jobs -> Payloads \cup {Empty}]
  /\ named \subseteq Jobs
  /\ DOMAIN folder \subseteq Jobs
  /\ \A f \in DOMAIN folder : folder[f] \in Payloads \cup {Empty}
  /\ recovery \in {"no", "looking", "read"}
  /\ listed \subseteq Jobs
  /\ current \in Jobs \cup {None} /\ (current # None <=> recovery = "read")
  /\ got \in Seq(Payloads \cup {Empty})
  /\ crashes \in 0 .. MaxCrashes
  /\ submitted \cup kept \cup thrown \cup down \cup exposed \subseteq Payloads
  /\ ran \in [Payloads -> Nat]
  /\ halfway \in [Payloads -> Nat]
  /\ left \subseteq Jobs

(***************************************************************************)
(* What save() wrote whole is not lost, whatever crashes: it has run, or a *)
(* file holds it, or the memory of the running process does.  The          *)
(* exceptions are the jobs that clear() destroyed, those of a process that *)
(* crashed while uncompleted_jobs() had removed their files, and those     *)
(* whose files it removed while they were still to run.                    *)
(***************************************************************************)
InMemory == Range(got) \cup {data[j] : j \in {k \in Jobs : Alive(k)}}

SavedIsKept ==
  kept \subseteq {p \in Payloads : ran[p] > 0} \cup Range(folder) \cup InMemory
                 \cup thrown \cup down \cup exposed

(***************************************************************************)
(* Data is worked on once; again only when the process crashed between a   *)
(* callback and the destroy() behind it, or when uncompleted_jobs() took   *)
(* the data of a job that was still alive.                                 *)
(***************************************************************************)
RunsOnce == \A p \in Payloads \ exposed : ran[p] <= 1 + halfway[p]

(***************************************************************************)
(* No file outlives its job, except those that a crash, a refused push()   *)
(* or clear(priority) left for the next recovery.                          *)
(***************************************************************************)
FilesHaveOwners == \A f \in DOMAIN folder : Alive(f) \/ f \in left

BackupInv == TypeOK /\ FilesHaveOwners
=============================================================================
