-------------------------------- MODULE Logger --------------------------------
(***************************************************************************)
(* Utilities/Logger.cpp: any thread writes messages into a list, one       *)
(* thread of the logger moves them to a file, and the thread that owns the *)
(* logger starts and stops it.  A message stands for one call of write().  *)
(* Time counts in whole days, as the names and the ages of the files do.   *)
(***************************************************************************)
EXTENDS Integers, Sequences, SequencesExt, Functions

CONSTANTS Messages,       \* the calls of write()
          LevelOf,        \* their LogTypes, 0 (None) .. 7 (Packet)
          FileMode,       \* file_mode_
          ConsoleMode,    \* console_mode_
          Intervals,      \* write_interval_ is one of them: 0 waits for a notification
          LineLimit,      \* what max_lines() was called with
          LifeCycle,      \* life_cycle_period_, in days
          EpochDays,      \* from the epoch of the system clock to that of the files
          MaxStarts,      \* bound: calls of start()
          MaxDay,         \* bound: days the clock advances
          StartMark, StopMark, None

ASSUME LoggerAssumption ==
  /\ LevelOf \in [Messages -> 0 .. 7]
  /\ FileMode \in 0 .. 7
  /\ ConsoleMode \in 0 .. 7
  /\ Intervals \subseteq Nat
  /\ {LineLimit, LifeCycle, MaxStarts, MaxDay} \subseteq Nat
  /\ EpochDays \in Int
  /\ StartMark # StopMark
  /\ {StartMark, StopMark, None} \cap Messages = {}

VARIABLES interval,    \* write_interval_, set before the first start()
          messages,    \* messages_
          threadStop,  \* thread_stop_
          admitted,    \* the message of the write() that holds mutex_, or None
          at,          \* where the logger's thread is; "none": thread_ is null
          batch,       \* the messages the thread swapped out
          owner,       \* where the owner is in start() or stop()
          restarting,  \* whether that stop() was called by start()
          starts,      \* calls of start()
          today,       \* the day
          files,       \* the log files, by day
          rows,        \* what write_log() was given: the database's rows, with the day
          dropped,     \* history: messages write() turned away
          before       \* history: messages whose write() returned before stop()

vars == <<interval, messages, threadStop, admitted, at, batch, owner, restarting,
          starts, today, files, rows, dropped, before>>

Lines == Messages \cup {StartMark, StopMark}
Days == 0 .. MaxDay

\* The setters compute log_types_ and squeeze the limit into 16 bits.
LogTypes == IF FileMode >= ConsoleMode THEN FileMode ELSE ConsoleMode
MaxLines == LineLimit % 65536

Level(line) == IF line \in Messages THEN LevelOf[line] ELSE 0

Written == {rows[i].line : i \in DOMAIN rows}
Accepted == Range(messages) \cup Range(batch) \cup Written

\* thread_stop_ has no initial value, thread_ is null.
Init ==
  /\ interval \in Intervals
  /\ messages = <<>>
  /\ threadStop \in BOOLEAN
  /\ admitted = None
  /\ at = "none"
  /\ batch = <<>>
  /\ owner = "idle"
  /\ restarting = FALSE
  /\ starts = 0
  /\ today = 0
  /\ files = <<>>
  /\ rows = <<>>
  /\ dropped = {}
  /\ before = {}

-----------------------------------------------------------------------------
\* mutex_ is held by a write() past its test, and by the thread between the
\* evaluation of the wait's predicate and its block.
MutexFree == admitted = None /\ at # "blocking"

Wakes == at' = IF at = "asleep" THEN "locking" ELSE at

\* write(): the test of thread_stop_ ...
WriteTest(m) ==
  /\ MutexFree
  /\ m \notin Accepted \cup dropped
  /\ IF threadStop THEN dropped' = dropped \cup {m} /\ UNCHANGED admitted
                   ELSE admitted' = m /\ UNCHANGED dropped
  /\ UNCHANGED <<interval, messages, threadStop, at, batch, owner, restarting,
                 starts, today, files, rows, before>>

\* Mutant: the type log_types_ itself is taken for one that nobody logs.
NotifiesBelow(m) == LevelOf[m] < LogTypes /\ interval = 0

\* ... and the rest of it; stop() may have set the flag in between.
Notifies(m) == LevelOf[m] <= LogTypes /\ interval = 0

WritePush ==
  /\ admitted # None
  /\ messages' = Append(messages, admitted)
  /\ admitted' = None
  /\ IF Notifies(admitted) THEN Wakes ELSE UNCHANGED at
  /\ UNCHANGED <<interval, threadStop, batch, owner, restarting, starts, today,
                 files, rows, dropped, before>>

-----------------------------------------------------------------------------
\* Mutant: off by one, the file grows one line past the limit.
PushLineLate(lines, line) ==
  Append(IF Len(lines) > MaxLines THEN Tail(lines) ELSE lines, line)

\* write_file(): the file of the day keeps the last max_lines_ lines.
PushLine(lines, line) ==
  Append(IF Len(lines) >= MaxLines THEN Tail(lines) ELSE lines, line)

PushLines(old, lines) ==
  LET file[n \in 0 .. Len(lines)] ==
        IF n = 0 THEN old ELSE PushLine(file[n - 1], lines[n])
  IN  file[Len(lines)]

WriteFile(lines) ==
  LET old == IF today \in DOMAIN files THEN files[today] ELSE <<>>
      new == IF MaxLines = 0 THEN old \o lines ELSE PushLines(old, lines)
  IN  files' = IF FileMode = 0 \/ lines = <<>> THEN files
               ELSE [d \in DOMAIN files \cup {today} |->
                       IF d = today THEN new ELSE files[d]]

\* The elements of s that are of K, in their order.
Filtered(s, K) ==
  LET kept[n \in 0 .. Len(s)] ==
        IF n = 0 THEN <<>>
        ELSE IF s[n] \in K THEN Append(kept[n - 1], s[n]) ELSE kept[n - 1]
  IN  kept[Len(s)]

\* What file_mode_ lets through.
Logged == {l \in Lines : Level(l) <= FileMode}

\* write_log(): every line to the database, those of convert_log() to the file.
WriteLog(lines) ==
  /\ rows' = rows \o [i \in DOMAIN lines |-> [line |-> lines[i], day |-> today]]
  /\ WriteFile(Filtered(lines, Logged))

\* check_life_cycle(): the age mixes the epochs of two clocks.
Age(d) == today - d + EpochDays

RemoveOldFiles ==
  files' = [d \in {e \in DOMAIN files : ~(Age(e) > LifeCycle)} |-> files[d]]

-----------------------------------------------------------------------------
\* run(), the logger's thread.
ThreadMoves(from, to) == at = from /\ at' = to

ThreadUnchanged == UNCHANGED <<interval, threadStop, admitted, owner, restarting,
                               starts, today, dropped, before>>

CleanFirst ==
  /\ ThreadMoves("cleaning", "opening")
  /\ RemoveOldFiles
  /\ UNCHANGED <<messages, batch, rows>>
  /\ ThreadUnchanged

WriteStart ==
  /\ ThreadMoves("opening", "loop")
  /\ WriteLog(<<StartMark>>)
  /\ UNCHANGED <<messages, batch>>
  /\ ThreadUnchanged

\* Mutant: the loop ends on the flag alone.
LeaveOnStop ==
  /\ at = "loop"
  /\ at' = IF ~threadStop THEN "locking" ELSE "closing"
  /\ UNCHANGED <<messages, batch, files, rows>>
  /\ ThreadUnchanged

\* The head of the loop looks at messages_ without mutex_.
LoopHead ==
  /\ at = "loop"
  /\ at' = IF ~threadStop \/ messages # <<>> THEN "locking" ELSE "closing"
  /\ UNCHANGED <<messages, batch, files, rows>>
  /\ ThreadUnchanged

\* Mutant: a copy in place of the swap.
Copies ==
  /\ batch' = messages
  /\ UNCHANGED messages
  /\ at' = IF messages = <<>> THEN "loop" ELSE "writing"

\* messages.swap(messages_) and the unlock.
Swaps ==
  /\ batch' = messages
  /\ messages' = <<>>
  /\ at' = IF messages = <<>> THEN "loop" ELSE "writing"

Predicate == threadStop \/ messages # <<>>

LockAndTest ==
  /\ at = "locking"
  /\ MutexFree
  /\ IF Predicate THEN Swaps
                  ELSE at' = "blocking" /\ UNCHANGED <<messages, batch>>
  /\ UNCHANGED <<files, rows>>
  /\ ThreadUnchanged

Block ==
  /\ ThreadMoves("blocking", "asleep")
  /\ UNCHANGED <<messages, batch, files, rows>>
  /\ ThreadUnchanged

\* wait_for() times out: it takes mutex_ again and returns whatever holds.
TimeOut ==
  /\ interval > 0
  /\ ThreadMoves("asleep", "timedOut")
  /\ UNCHANGED <<messages, batch, files, rows>>
  /\ ThreadUnchanged

LockAfterTimeOut ==
  /\ at = "timedOut"
  /\ MutexFree
  /\ Swaps
  /\ UNCHANGED <<files, rows>>
  /\ ThreadUnchanged

\* A wait may end without a notification and test its predicate again.
SpuriousWake ==
  /\ ThreadMoves("asleep", "locking")
  /\ UNCHANGED <<messages, batch, files, rows>>
  /\ ThreadUnchanged

WriteBatch ==
  /\ ThreadMoves("writing", "loop")
  /\ WriteLog(batch)
  /\ batch' = <<>>
  /\ UNCHANGED messages
  /\ ThreadUnchanged

WriteStop ==
  /\ ThreadMoves("closing", "sweeping")
  /\ WriteLog(<<StopMark>>)
  /\ UNCHANGED <<messages, batch>>
  /\ ThreadUnchanged

CleanLast ==
  /\ ThreadMoves("sweeping", "ended")
  /\ RemoveOldFiles
  /\ UNCHANGED <<messages, batch, rows>>
  /\ ThreadUnchanged

Run == \/ CleanFirst \/ WriteStart \/ LoopHead \/ LockAndTest \/ Block \/ TimeOut
       \/ LockAfterTimeOut \/ WriteBatch \/ WriteStop \/ CleanLast

-----------------------------------------------------------------------------
\* The owner.  stop() sets the flag and notifies, both without mutex_.
OwnerMoves(from, to) == owner = from /\ owner' = to

OwnerUnchanged == UNCHANGED <<interval, messages, admitted, batch, today, files,
                              rows, dropped>>

RaiseStop(byStart) ==
  /\ at # "none"
  /\ OwnerMoves("idle", "notifying")
  /\ threadStop' = TRUE
  /\ restarting' = byStart
  /\ before' = Accepted \cap Messages
  /\ UNCHANGED at
  /\ OwnerUnchanged

Stop == RaiseStop(FALSE) /\ UNCHANGED starts

Start ==
  /\ starts < MaxStarts
  /\ starts' = starts + 1
  /\ \/ RaiseStop(TRUE)
     \/ /\ at = "none"
        /\ OwnerMoves("idle", "starting")
        /\ UNCHANGED <<threadStop, restarting, before, at>>
        /\ OwnerUnchanged

\* Mutant: stop() resets the flag before it joins.
ResetBeforeJoin ==
  /\ OwnerMoves("notifying", "joining")
  /\ Wakes
  /\ threadStop' = FALSE
  /\ UNCHANGED <<restarting, starts, before>>
  /\ OwnerUnchanged

StopNotify ==
  /\ OwnerMoves("notifying", "joining")
  /\ Wakes
  /\ UNCHANGED <<threadStop, restarting, starts, before>>
  /\ OwnerUnchanged

StopJoin ==
  /\ OwnerMoves("joining", "resetting")
  /\ ThreadMoves("ended", "none")
  /\ UNCHANGED <<threadStop, restarting, starts, before>>
  /\ OwnerUnchanged

StopReset ==
  /\ OwnerMoves("resetting", IF restarting THEN "starting" ELSE "idle")
  /\ threadStop' = FALSE
  /\ restarting' = FALSE
  /\ UNCHANGED <<starts, before, at>>
  /\ OwnerUnchanged

StartThread ==
  /\ OwnerMoves("starting", "idle")
  /\ threadStop' = FALSE
  /\ ThreadMoves("none", "cleaning")
  /\ UNCHANGED <<restarting, starts, before>>
  /\ OwnerUnchanged

Proceed == StopNotify \/ StopJoin \/ StopReset \/ StartThread

DayPasses ==
  /\ today < MaxDay
  /\ today' = today + 1
  /\ UNCHANGED <<interval, messages, threadStop, admitted, at, batch, owner,
                 restarting, starts, files, rows, dropped, before>>

Next ==
  \/ \E m \in Messages : WriteTest(m)
  \/ WritePush
  \/ Run
  \/ SpuriousWake
  \/ Stop
  \/ Start
  \/ Proceed
  \/ DayPasses

Spec == Init /\ [][Next]_vars

\* Threads that can take a step take one: a writer inside write(), the
\* logger's thread, and the owner inside start() or stop().
FairSpec == Spec /\ WF_vars(WritePush) /\ WF_vars(Run) /\ WF_vars(Proceed)

-----------------------------------------------------------------------------
(***************************************************************************)
(* Type invariant: the variables of Logger.h, and of the calls under way.  *)
(***************************************************************************)
TypeOK ==
  /\ interval \in Intervals
  /\ messages \in Seq(Messages)
  /\ threadStop \in BOOLEAN
  /\ admitted \in Messages \cup {None}
  /\ at \in {"none", "cleaning", "opening", "loop", "locking", "blocking",
             "asleep", "timedOut", "writing", "closing", "sweeping", "ended"}
  /\ batch \in Seq(Messages)
  /\ owner \in {"idle", "notifying", "joining", "resetting", "starting"}
  /\ restarting \in BOOLEAN
  /\ starts \in 0 .. MaxStarts
  /\ today \in Days
  /\ DOMAIN files \subseteq Days
  /\ \A d \in DOMAIN files : files[d] \in Seq(Lines)
  /\ rows \in Seq([line : Lines, day : Days])
  /\ dropped \subseteq Messages
  /\ before \subseteq Messages

(***************************************************************************)
(* stop() waits for what was written before it: when the thread has been   *)
(* joined, every message whose write() returned before stop() was called   *)
(* has been given to the file.                                             *)
(***************************************************************************)
FlushedByStop == owner = "resetting" => before \subseteq Written

(***************************************************************************)
(* The rotation of write_file() loses only the oldest lines, and           *)
(* check_life_cycle() only files older than life_cycle_period_ days: until *)
(* then the file of a day is there and holds the last max_lines_ of the    *)
(* lines of that day whose type file_mode_ lets through.                   *)
(***************************************************************************)
LinesOf(d) ==
  LET ofDay == Filtered(rows, [line : Logged, day : {d}])
  IN  [i \in DOMAIN ofDay |-> ofDay[i].line]

LastLines(s) == IF MaxLines = 0 \/ Len(s) <= MaxLines THEN s
                ELSE SubSeq(s, Len(s) - MaxLines + 1, Len(s))

FileKeepsLastLines ==
  \A d \in Days :
    /\ FileMode > 0 /\ LinesOf(d) # <<>> /\ today - d <= LifeCycle => d \in DOMAIN files
    /\ d \in DOMAIN files => files[d] = LastLines(LinesOf(d))

LoggerInv == TypeOK /\ FileKeepsLastLines

(***************************************************************************)
(* stop(), and the stop() inside start(), returns, for it joins a thread   *)
(* that ends.  The one thing that keeps it waiting is a thread that sleeps *)
(* without an interval: it missed the notification, which stop() sends     *)
(* without mutex_, and nobody sends another.                               *)
(***************************************************************************)
MissedTheCall == interval = 0 /\ owner = "joining" /\ at = "asleep"

StopReturns == owner # "idle" ~> owner = "idle" \/ MissedTheCall

(***************************************************************************)
(* A buffered message whose type is logged is written, or the owner stops  *)
(* the logger: the thread never sleeps through the message of a write().   *)
(***************************************************************************)
BufferedIsWritten ==
  \A m \in Messages :
    (m \in Range(messages) /\ LevelOf[m] <= LogTypes /\ owner = "idle" /\ at # "none")
      ~> (m \in Written \/ owner # "idle")

(***************************************************************************)
(* Refinement: the logger is the FIFO log of LogService.  A message counts *)
(* as buffered until write_log() has it, a session is open from [START] to *)
(* [STOP].                                                                 *)
(***************************************************************************)
SessionOpen == at \in {"loop", "locking", "blocking", "asleep", "timedOut",
                       "writing", "closing"}

Service == INSTANCE LogService
  WITH buffered <- batch \o messages,
       written <- [i \in DOMAIN rows |-> rows[i].line],
       open <- SessionOpen

ImplementsLogService == Service!Spec
=============================================================================
