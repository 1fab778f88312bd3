----------------------------- MODULE LoggerProofs -----------------------------
(***************************************************************************)
(* Proofs about Logger: stop() completes what was written before it, the   *)
(* logger implements LogService, and what write_file() keeps, which is     *)
(* folded over the lines, is the end of what was written that day.         *)
(***************************************************************************)
EXTENDS Logger, SequenceLemmas

Active == {"notifying", "joining"}
Leaving == {"closing", "sweeping", "ended"}

Typed ==
  /\ messages \in Seq(Messages)
  /\ threadStop \in BOOLEAN
  /\ admitted \in Messages \cup {None}
  /\ at \in {"none", "cleaning", "opening", "loop", "locking", "blocking",
             "asleep", "timedOut", "writing", "closing", "sweeping", "ended"}
  /\ batch \in Seq(Messages)
  /\ owner \in {"idle", "notifying", "joining", "resetting", "starting"}
  /\ restarting \in BOOLEAN
  /\ today \in Days
  /\ rows \in Seq([line : Lines, day : Days])
  /\ before \subseteq Messages

\* A message inside write() is nowhere else; the thread carries a batch
\* exactly while it writes one.
Places ==
  /\ admitted # None => admitted \notin Accepted
  /\ at = "writing" <=> batch # <<>>

\* Where the owner is in stop(), and what the thread knows of it.
StopProtocol ==
  /\ owner \in Active => at # "none" /\ threadStop
  /\ owner \in {"resetting", "starting"} => at = "none"
  /\ at # "none" /\ threadStop => owner \in Active
  /\ at \in Leaving => threadStop

\* What was accepted before stop() stays accepted, and is written once the
\* thread has decided to leave.
Flushes ==
  /\ owner \in Active \cup {"resetting"} => before \subseteq Accepted
  /\ owner \in Active /\ at \in Leaving => before \subseteq Written
  /\ owner = "resetting" => before \subseteq Written

IInv == Typed /\ Places /\ StopProtocol /\ Flushes

-----------------------------------------------------------------------------
\* The rows that write_log() makes of lines, and the lines of a sequence of rows.
RowsOf(lines, d) == [i \in DOMAIN lines |-> [line |-> lines[i], day |-> d]]
LinesIn(rs) == [i \in DOMAIN rs |-> rs[i].line]

LEMMA LinesOfRows ==
  ASSUME NEW rs \in Seq([line : Lines, day : Days])
  PROVE  /\ LinesIn(rs) \in Seq(Lines)
         /\ Len(LinesIn(rs)) = Len(rs)
         /\ \A i \in 1 .. Len(rs) : LinesIn(rs)[i] = rs[i].line
  <1>1. DOMAIN rs = 1 .. Len(rs) /\ Len(rs) \in Nat /\ rs \in [1 .. Len(rs) -> [line : Lines, day : Days]]
    BY LenProperties
  <1>2. LinesIn(rs) \in [1 .. Len(rs) -> Lines]
    BY <1>1 DEF LinesIn
  <1>3. LinesIn(rs) \in Seq(Lines)
    BY <1>1, <1>2, SeqDef
  <1> QED
    BY <1>1, <1>2, <1>3, LenProperties DEF LinesIn

LEMMA RowsAreRows ==
  ASSUME NEW lines \in Seq(Lines), NEW d \in Days
  PROVE  /\ RowsOf(lines, d) \in Seq([line : Lines, day : Days])
         /\ LinesIn(RowsOf(lines, d)) = lines
  <1>1. DOMAIN lines = 1 .. Len(lines) /\ Len(lines) \in Nat /\ lines \in [1 .. Len(lines) -> Lines]
    BY LenProperties
  <1>2. RowsOf(lines, d) \in [1 .. Len(lines) -> [line : Lines, day : Days]]
    BY <1>1 DEF RowsOf
  <1>3. RowsOf(lines, d) \in Seq([line : Lines, day : Days])
    <2> DEFINE R == [line : Lines, day : Days]
    <2>1. RowsOf(lines, d) \in [1 .. Len(lines) -> R]
      BY <1>2
    <2> HIDE DEF R
    <2>2. RowsOf(lines, d) \in Seq(R)
      BY <2>1, <1>1, SeqDef
    <2> QED
      BY <2>2 DEF R
  <1>4. LinesIn(RowsOf(lines, d)) = lines
    BY <1>1, <1>2 DEF RowsOf, LinesIn
  <1> QED
    BY <1>3, <1>4

LEMMA LinesOfConcat ==
  ASSUME NEW r \in Seq([line : Lines, day : Days]),
         NEW s \in Seq([line : Lines, day : Days])
  PROVE  LinesIn(r \o s) = LinesIn(r) \o LinesIn(s)
  <1> DEFINE R == [line : Lines, day : Days]
  <1>1. /\ r \o s \in Seq(R)
        /\ Len(r \o s) = Len(r) + Len(s)
        /\ \A i \in 1 .. Len(r) + Len(s) :
             (r \o s)[i] = IF i <= Len(r) THEN r[i] ELSE s[i - Len(r)]
    BY ConcatProperties
  <1>2. /\ LinesIn(r) \in Seq(Lines) /\ Len(LinesIn(r)) = Len(r)
        /\ LinesIn(s) \in Seq(Lines) /\ Len(LinesIn(s)) = Len(s)
        /\ LinesIn(r \o s) \in Seq(Lines) /\ Len(LinesIn(r \o s)) = Len(r) + Len(s)
    BY <1>1, LinesOfRows
  <1>3. /\ LinesIn(r) \o LinesIn(s) \in Seq(Lines)
        /\ Len(LinesIn(r) \o LinesIn(s)) = Len(r) + Len(s)
        /\ \A i \in 1 .. Len(r) + Len(s) :
             (LinesIn(r) \o LinesIn(s))[i] =
               IF i <= Len(r) THEN LinesIn(r)[i] ELSE LinesIn(s)[i - Len(r)]
    BY <1>2, ConcatProperties
  <1>4. Len(r) \in Nat /\ Len(s) \in Nat
    BY LenProperties
  <1>5. ASSUME NEW i \in 1 .. Len(r) + Len(s)
        PROVE  LinesIn(r \o s)[i] = (LinesIn(r) \o LinesIn(s))[i]
    <2>1. LinesIn(r \o s)[i] = (r \o s)[i].line
      BY <1>1, LinesOfRows
    <2>2. CASE i <= Len(r)
      <3>1. i \in 1 .. Len(r)
        BY <1>4, <2>2
      <3>2. LinesIn(r)[i] = r[i].line
        BY <3>1, LinesOfRows
      <3> QED
        BY <2>1, <2>2, <3>2, <1>1, <1>3
    <2>3. CASE ~(i <= Len(r))
      <3>1. i - Len(r) \in 1 .. Len(s)
        BY <1>4, <2>3
      <3>2. LinesIn(s)[i - Len(r)] = s[i - Len(r)].line
        BY <3>1, LinesOfRows
      <3> QED
        BY <2>1, <2>3, <3>2, <1>1, <1>3
    <2> QED
      BY <2>2, <2>3
  <1> QED
    BY <1>2, <1>3, <1>5, SeqEqual

LEMMA WrittenIsRange ==
  ASSUME Typed
  PROVE  Written = Range(LinesIn(rows))
  <1>1. DOMAIN rows = 1 .. Len(rows) /\ DOMAIN LinesIn(rows) = DOMAIN rows
    BY LenProperties DEF Typed, LinesIn
  <1> QED
    BY <1>1 DEF Written, Range, LinesIn

\* write_log() appends the lines it was given.
LEMMA WriteLogAppends ==
  ASSUME Typed, NEW lines \in Seq(Lines), WriteLog(lines)
  PROVE  /\ rows' \in Seq([line : Lines, day : Days])
         /\ LinesIn(rows') = LinesIn(rows) \o lines
         /\ Written' = Written \cup Range(lines)
  <1>1. rows' = rows \o RowsOf(lines, today)
    BY DEF WriteLog, RowsOf
  <1>2. RowsOf(lines, today) \in Seq([line : Lines, day : Days])
        /\ LinesIn(RowsOf(lines, today)) = lines
    BY RowsAreRows DEF Typed
  <1>3. rows' \in Seq([line : Lines, day : Days])
    BY <1>1, <1>2, ConcatProperties DEF Typed
  <1>4. LinesIn(rows') = LinesIn(rows) \o lines
    BY <1>1, <1>2, LinesOfConcat DEF Typed
  <1>5. LinesIn(rows) \in Seq(Lines)
    BY LinesOfRows DEF Typed
  <1>6. Range(LinesIn(rows')) = Range(LinesIn(rows)) \cup Range(lines)
    BY <1>4, <1>5, RangeOfConcat
  <1>7. Written' = Range(LinesIn(rows'))
    <2>1. DOMAIN rows' = DOMAIN LinesIn(rows')
      BY DEF LinesIn
    <2> QED
      BY <2>1 DEF Written, Range, LinesIn
  <1> QED
    BY <1>3, <1>4, <1>6, <1>7, WrittenIsRange

LEMMA MarksAreLines ==
  /\ <<StartMark>> \in Seq(Lines)
  /\ <<StopMark>> \in Seq(Lines)
  /\ Range(<<StartMark>>) = {StartMark}
  /\ Range(<<StopMark>>) = {StopMark}
  /\ \A s \in Seq(Messages) : s \in Seq(Lines)
  <1>1. \A s \in Seq(Messages) : s \in Seq(Lines)
    BY SeqMonotonic DEF Lines
  <1>2. ASSUME NEW x PROVE Range(<<x>>) = {x}
    <2>1. <<x>> = Append(<<>>, x)
      OBVIOUS
    <2>2. <<>> \in Seq({x}) /\ x \in {x}
      BY EmptySeq
    <2>3. Range(Append(<<>>, x)) = Range(<<>>) \cup {x}
      BY <2>2, RangeOfAppend
    <2> QED
      BY <2>1, <2>3, RangeOfEmpty
  <1>3. StartMark \in Lines /\ StopMark \in Lines
    BY DEF Lines
  <1>4. <<StartMark>> \in Seq(Lines) /\ <<StopMark>> \in Seq(Lines)
    BY <1>3
  <1> QED
    BY <1>1, <1>2, <1>4
-----------------------------------------------------------------------------
LEMMA InvInit == Init => IInv
  <1> SUFFICES ASSUME Init PROVE IInv
    OBVIOUS
  <1>1. Typed
    <2>1. today \in Days
      BY LoggerAssumption DEF Init, Days
    <2>2. rows \in Seq([line : Lines, day : Days])
      BY EmptySeq DEF Init
    <2>3. messages \in Seq(Messages) /\ batch \in Seq(Messages)
      BY EmptySeq DEF Init
    <2> QED
      BY <2>1, <2>2, <2>3 DEF Init, Typed
  <1>2. Places
    BY DEF Init, Places
  <1>3. StopProtocol
    BY DEF Init, StopProtocol, Active, Leaving
  <1>4. Flushes
    BY DEF Init, Flushes, Active
  <1> QED
    BY <1>1, <1>2, <1>3, <1>4 DEF IInv

\* What a step that touches no message leaves alone.
Still == UNCHANGED <<messages, admitted, batch, rows>>

LEMMA StillKeeps ==
  ASSUME Still
  PROVE  /\ Accepted' = Accepted
         /\ Written' = Written
  <1>1. Written' = Written
    BY DEF Still, Written
  <1> QED
    BY <1>1 DEF Still, Accepted

LEMMA InvWriteTest ==
  ASSUME IInv, NEW m \in Messages, WriteTest(m)
  PROVE  IInv'
  <1> USE DEF IInv, WriteTest
  <1>1. Accepted' = Accepted /\ Written' = Written
    BY DEF Accepted, Written
  <1>2. Typed'
    BY DEF Typed
  <1>3. Places'
    BY <1>1 DEF Places
  <1>4. StopProtocol'
    BY DEF StopProtocol
  <1>5. Flushes'
    BY <1>1 DEF Flushes
  <1> QED
    BY <1>2, <1>3, <1>4, <1>5

LEMMA InvWritePush ==
  ASSUME IInv, WritePush
  PROVE  IInv'
  <1> USE DEF IInv, WritePush, Wakes
  <1>1. admitted \in Messages /\ messages \in Seq(Messages)
    BY DEF Typed
  <1>2. Range(messages') = Range(messages) \cup {admitted}
    BY <1>1, RangeOfAppend
  <1>3. Written' = Written
    BY DEF Written
  <1>4. Accepted \subseteq Accepted'
    BY <1>2, <1>3 DEF Accepted
  <1>5. messages' \in Seq(Messages)
    BY <1>1, AppendProperties
  <1>6. Typed'
    BY <1>5 DEF Typed
  <1>7. Places'
    BY DEF Places
  <1>8. StopProtocol'
    BY DEF StopProtocol, Leaving
  <1>9. Flushes'
    BY <1>3, <1>4 DEF Flushes, Leaving
  <1> QED
    BY <1>6, <1>7, <1>8, <1>9

\* The thread's steps that move nothing: at and files are all that changes.
LEMMA InvQuietThread ==
  ASSUME IInv, ThreadUnchanged, UNCHANGED <<messages, batch, rows>>,
         \/ at = "cleaning" /\ at' = "opening"
         \/ at = "loop" /\ at' = "locking"
         \/ at = "loop" /\ at' = "closing" /\ threadStop /\ messages = <<>>
         \/ at = "locking" /\ at' = "blocking"
         \/ at = "blocking" /\ at' = "asleep"
         \/ at = "asleep" /\ at' \in {"timedOut", "locking"}
         \/ at = "sweeping" /\ at' = "ended"
  PROVE  IInv'
  <1> USE DEF IInv, ThreadUnchanged
  <1>1. Accepted' = Accepted /\ Written' = Written
    BY StillKeeps DEF Still
  <1>2. Typed'
    BY DEF Typed
  <1>3. Places'
    BY <1>1 DEF Places
  <1>4. StopProtocol'
    BY DEF StopProtocol, Leaving
  <1>5. CASE at = "loop" /\ messages = <<>>
    <2>1. Accepted = Written
      BY <1>5, RangeOfEmpty DEF Accepted, Places
    <2> QED
      BY <1>1, <1>2, <1>3, <1>4, <1>5, <2>1 DEF Flushes, Leaving
  <1>6. CASE ~(at = "loop" /\ messages = <<>>)
    BY <1>1, <1>2, <1>3, <1>4, <1>6 DEF Flushes, Leaving
  <1> QED
    BY <1>5, <1>6

LEMMA InvSwaps ==
  ASSUME IInv, at \in {"locking", "timedOut"}, Swaps, UNCHANGED rows, ThreadUnchanged
  PROVE  IInv'
  <1> USE DEF IInv, ThreadUnchanged, Swaps
  <1>1. batch = <<>>
    BY DEF Places
  <1>2. Written' = Written
    BY DEF Written
  <1>3. Accepted' = Accepted
    BY <1>1, <1>2, RangeOfEmpty DEF Accepted
  <1>4. Typed'
    BY EmptySeq DEF Typed
  <1>5. Places'
    BY <1>3 DEF Places
  <1>6. StopProtocol'
    BY DEF StopProtocol, Leaving
  <1>7. Flushes'
    BY <1>2, <1>3 DEF Flushes, Leaving
  <1> QED
    BY <1>4, <1>5, <1>6, <1>7

\* The thread writes its batch, or a mark.
LEMMA InvWritesLog ==
  ASSUME IInv, NEW lines, WriteLog(lines), ThreadUnchanged, UNCHANGED messages,
         \/ at = "opening" /\ at' = "loop" /\ lines = <<StartMark>> /\ batch' = batch
         \/ at = "writing" /\ at' = "loop" /\ lines = batch /\ batch' = <<>>
         \/ at = "closing" /\ at' = "sweeping" /\ lines = <<StopMark>> /\ batch' = batch
  PROVE  IInv'
  <1> USE DEF IInv, ThreadUnchanged
  <1>1. lines \in Seq(Lines)
    BY MarksAreLines DEF Typed
  <1>2. rows' \in Seq([line : Lines, day : Days]) /\ Written' = Written \cup Range(lines)
    BY <1>1, WriteLogAppends
  <1>3. Accepted' = Accepted \cup Range(lines)
    <2>1. CASE batch' = batch
      BY <2>1, <1>2 DEF Accepted
    <2>2. CASE lines = batch /\ batch' = <<>>
      BY <2>2, <1>2, RangeOfEmpty DEF Accepted
    <2> QED
      BY <2>1, <2>2
  <1>4. Range(lines) \subseteq Accepted \/ Range(lines) \subseteq {StartMark, StopMark}
    BY MarksAreLines DEF Accepted
  <1>5. Typed'
    BY <1>2, EmptySeq DEF Typed
  <1>6. Places'
    <2>1. admitted # None => admitted \notin Accepted'
      BY <1>3, <1>4, LoggerAssumption DEF Places, Typed
    <2>2. at' # "writing" /\ batch' = <<>>
      BY DEF Places
    <2> QED
      BY <2>1, <2>2 DEF Places
  <1>7. StopProtocol'
    BY DEF StopProtocol, Leaving
  <1>8. Flushes'
    BY <1>2, <1>3 DEF Flushes, Leaving
  <1> QED
    BY <1>5, <1>6, <1>7, <1>8

LEMMA InvThread == ASSUME IInv, Run \/ SpuriousWake PROVE IInv'
  <1>1. CASE CleanFirst
    BY <1>1, InvQuietThread DEF CleanFirst, ThreadMoves
  <1>2. CASE WriteStart
    BY <1>2, InvWritesLog DEF WriteStart, ThreadMoves
  <1>3. CASE LoopHead
    BY <1>3, InvQuietThread DEF LoopHead
  <1>4. CASE LockAndTest
    <2>1. CASE Predicate
      BY <1>4, <2>1, InvSwaps DEF LockAndTest
    <2>2. CASE ~Predicate
      BY <1>4, <2>2, InvQuietThread DEF LockAndTest
    <2> QED
      BY <2>1, <2>2
  <1>5. CASE Block \/ TimeOut \/ SpuriousWake
    BY <1>5, InvQuietThread DEF Block, TimeOut, SpuriousWake, ThreadMoves
  <1>6. CASE LockAfterTimeOut
    BY <1>6, InvSwaps DEF LockAfterTimeOut
  <1>7. CASE WriteBatch
    BY <1>7, InvWritesLog DEF WriteBatch, ThreadMoves
  <1>8. CASE WriteStop
    BY <1>8, InvWritesLog DEF WriteStop, ThreadMoves
  <1>9. CASE CleanLast
    BY <1>9, InvQuietThread DEF CleanLast, ThreadMoves
  <1> QED
    BY <1>1, <1>2, <1>3, <1>4, <1>5, <1>6, <1>7, <1>8, <1>9 DEF Run

LEMMA InvRaiseStop ==
  ASSUME IInv, NEW b \in BOOLEAN, RaiseStop(b)
  PROVE  IInv'
  <1> USE DEF IInv, RaiseStop, OwnerMoves, OwnerUnchanged
  <1>1. Accepted' = Accepted /\ Written' = Written
    BY StillKeeps DEF Still
  <1>2. Typed'
    BY DEF Typed
  <1>3. Places'
    BY <1>1 DEF Places
  <1>4. StopProtocol'
    BY DEF StopProtocol, Active, Leaving
  <1>5. at \notin Leaving
    BY DEF StopProtocol, Active, Leaving
  <1>6. Flushes'
    BY <1>1, <1>5 DEF Flushes, Active
  <1> QED
    BY <1>2, <1>3, <1>4, <1>6

LEMMA InvOwner ==
  ASSUME IInv, Stop \/ Start \/ Proceed
  PROVE  IInv'
  <1> USE DEF IInv, OwnerMoves, ThreadMoves, OwnerUnchanged
  <1>1. CASE \E b \in BOOLEAN : RaiseStop(b)
    BY <1>1, InvRaiseStop
  <1>2. CASE StopNotify
    <2> USE <1>2 DEF StopNotify, Wakes
    <2>1. Accepted' = Accepted /\ Written' = Written
      BY StillKeeps DEF Still
    <2>2. Typed' /\ Places'
      BY <2>1 DEF Typed, Places
    <2>3. StopProtocol' /\ Flushes'
      BY <2>1 DEF StopProtocol, Flushes, Active, Leaving
    <2> QED
      BY <2>2, <2>3
  <1>3. CASE StopJoin
    <2> USE <1>3 DEF StopJoin
    <2>1. Accepted' = Accepted /\ Written' = Written
      BY StillKeeps DEF Still
    <2>2. Typed' /\ Places'
      BY <2>1 DEF Typed, Places
    <2>3. StopProtocol' /\ Flushes'
      BY <2>1 DEF StopProtocol, Flushes, Active, Leaving
    <2> QED
      BY <2>2, <2>3
  <1>4. CASE StopReset
    <2> USE <1>4 DEF StopReset
    <2>1. Accepted' = Accepted /\ Written' = Written
      BY StillKeeps DEF Still
    <2>2. Typed' /\ Places'
      BY <2>1 DEF Typed, Places
    <2>3. StopProtocol' /\ Flushes'
      BY <2>1 DEF StopProtocol, Flushes, Active, Leaving
    <2> QED
      BY <2>2, <2>3
  <1>5. CASE StartThread \/ (at = "none" /\ OwnerMoves("idle", "starting")
                             /\ UNCHANGED <<threadStop, restarting, before, at>> /\ OwnerUnchanged)
    <2> USE <1>5 DEF StartThread
    <2>1. Accepted' = Accepted /\ Written' = Written
      BY StillKeeps DEF Still
    <2>2. Typed' /\ Places'
      BY <2>1 DEF Typed, Places
    <2>3. StopProtocol' /\ Flushes'
      BY <2>1 DEF StopProtocol, Flushes, Active, Leaving
    <2> QED
      BY <2>2, <2>3
  <1> QED
    BY <1>1, <1>2, <1>3, <1>4, <1>5 DEF Stop, Start, Proceed

LEMMA InvNext == IInv /\ [Next]_vars => IInv'
  <1> SUFFICES ASSUME IInv, [Next]_vars PROVE IInv'
    OBVIOUS
  <1>1. CASE \E m \in Messages : WriteTest(m)
    BY <1>1, InvWriteTest
  <1>2. CASE WritePush
    BY <1>2, InvWritePush
  <1>3. CASE Run \/ SpuriousWake
    BY <1>3, InvThread
  <1>4. CASE Stop \/ Start \/ Proceed
    BY <1>4, InvOwner
  <1>5. CASE DayPasses
    <2> USE <1>5 DEF DayPasses
    <2>1. Accepted' = Accepted /\ Written' = Written
      BY StillKeeps DEF Still
    <2>2. today' \in Days
      BY LoggerAssumption DEF IInv, Typed, Days
    <2>3. Typed' /\ Places'
      BY <2>1, <2>2 DEF IInv, Typed, Places
    <2>4. StopProtocol' /\ Flushes'
      BY <2>1 DEF IInv, StopProtocol, Flushes
    <2> QED
      BY <2>3, <2>4 DEF IInv
  <1>6. CASE UNCHANGED vars
    <2> USE <1>6 DEF vars
    <2>1. Accepted' = Accepted /\ Written' = Written
      BY StillKeeps DEF Still
    <2>2. Typed' /\ Places'
      BY <2>1 DEF IInv, Typed, Places
    <2>3. StopProtocol' /\ Flushes'
      BY <2>1 DEF IInv, StopProtocol, Flushes
    <2> QED
      BY <2>2, <2>3 DEF IInv
  <1> QED
    BY <1>1, <1>2, <1>3, <1>4, <1>5, <1>6 DEF Next

LEMMA Invariance == Spec => []IInv
  <1>1. Init => IInv
    BY InvInit
  <1>2. IInv /\ [Next]_vars => IInv'
    BY InvNext
  <1> QED
    BY <1>1, <1>2, PTL DEF Spec

(***************************************************************************)
(* Logger::stop() has joined the thread only after every message whose     *)
(* write() returned before stop() was called has gone to the file.         *)
(***************************************************************************)
THEOREM StopFlushes == Spec => []FlushedByStop
  <1>1. IInv => FlushedByStop
    BY DEF IInv, Flushes, FlushedByStop
  <1> QED
    BY <1>1, Invariance, PTL

-----------------------------------------------------------------------------
\* The state of LogService that a state of the logger stands for.
Buffered == batch \o messages

LEMMA ServiceState ==
  ASSUME IInv
  PROVE  /\ Buffered \in Seq(Messages)
         /\ Len(Buffered) = Len(batch) + Len(messages)
         /\ Range(Buffered) = Range(batch) \cup Range(messages)
         /\ Range(LinesIn(rows)) = Written
  <1>1. batch \in Seq(Messages) /\ messages \in Seq(Messages)
    BY DEF IInv, Typed
  <1> QED
    BY <1>1, ConcatProperties, RangeOfConcat, WrittenIsRange DEF IInv, Buffered

LEMMA Stutters ==
  ASSUME Buffered' = Buffered, UNCHANGED rows, SessionOpen' = SessionOpen
  PROVE  UNCHANGED Service!serviceVars
  BY DEF Buffered, Service!serviceVars

LEMMA PushAccepts ==
  ASSUME IInv, WritePush
  PROVE  Service!Accept(admitted)
  <1> USE DEF IInv, WritePush, Wakes
  <1>1. /\ admitted \in Messages
        /\ batch \in Seq(Messages)
        /\ messages \in Seq(Messages)
    BY DEF Typed
  <1>2. admitted \notin Range(Buffered) \cup Range(LinesIn(rows))
    BY <1>1, ServiceState, LoggerAssumption DEF Places, Accepted
  <1>3. batch \o Append(messages, admitted) = Append(batch \o messages, admitted)
    <2>1. Append(messages, admitted) = messages \o <<admitted>>
      BY <1>1, AppendIsConcat
    <2>2. Append(batch \o messages, admitted) = (batch \o messages) \o <<admitted>>
      BY <1>1, ConcatProperties, AppendIsConcat
    <2>3. <<admitted>> \in Seq(Messages)
      BY <1>1
    <2> QED
      BY <1>1, <2>1, <2>2, <2>3, ConcatAssociative
  <1>4. SessionOpen' = SessionOpen
    BY DEF SessionOpen
  <1>5. (batch \o messages)' = Append(batch \o messages, admitted)
    BY <1>3
  <1> QED
    BY <1>2, <1>4, <1>5 DEF Service!Accept, Buffered, LinesIn, Range, Service!Range

LEMMA WriteStartOpens ==
  ASSUME IInv, WriteStart
  PROVE  Service!Open
  <1> USE DEF WriteStart, ThreadMoves
  <1>1. LinesIn(rows') = LinesIn(rows) \o <<StartMark>>
    BY WriteLogAppends, MarksAreLines DEF IInv
  <1>2. LinesIn(rows) \o <<StartMark>> = Append(LinesIn(rows), StartMark)
    <2>1. LinesIn(rows) \in Seq(Lines) /\ StartMark \in Lines
      BY LinesOfRows DEF IInv, Typed, Lines
    <2> QED
      BY <2>1, AppendIsConcat
  <1>3. ~SessionOpen /\ SessionOpen'
    BY DEF SessionOpen
  <1> QED
    BY <1>1, <1>2, <1>3 DEF Service!Open, LinesIn

LEMMA WriteStopCloses ==
  ASSUME IInv, WriteStop
  PROVE  Service!Close
  <1> USE DEF WriteStop, ThreadMoves
  <1>1. LinesIn(rows') = LinesIn(rows) \o <<StopMark>>
    BY WriteLogAppends, MarksAreLines DEF IInv
  <1>2. LinesIn(rows) \o <<StopMark>> = Append(LinesIn(rows), StopMark)
    <2>1. LinesIn(rows) \in Seq(Lines) /\ StopMark \in Lines
      BY LinesOfRows DEF IInv, Typed, Lines
    <2> QED
      BY <2>1, AppendIsConcat
  <1>3. SessionOpen /\ SessionOpen' = FALSE
    BY DEF SessionOpen
  <1> QED
    BY <1>1, <1>2, <1>3 DEF Service!Close, LinesIn

LEMMA WriteBatchFlushes ==
  ASSUME IInv, WriteBatch
  PROVE  \E n \in 1 .. Len(Buffered) : Service!Flush(n)
  <1> USE DEF WriteBatch, ThreadMoves
  <1>1. /\ batch \in Seq(Messages)
        /\ messages \in Seq(Messages)
        /\ batch # <<>>
    BY DEF IInv, Typed, Places
  <1>2. Len(batch) \in 1 .. Len(Buffered)
    <2>1. Len(batch) \in Nat \ {0} /\ Len(messages) \in Nat
      BY <1>1, EmptySeq, LenProperties
    <2> QED
      BY <2>1, ServiceState
  <1>3. LinesIn(rows') = LinesIn(rows) \o batch
    BY <1>1, WriteLogAppends, MarksAreLines DEF IInv
  <1>4. SubSeq(Buffered, 1, Len(batch)) = batch
        /\ SubSeq(Buffered, Len(batch) + 1, Len(Buffered)) = messages
    BY <1>1, SplitConcat DEF Buffered
  <1>5. (batch \o messages)' = messages
    BY <1>1, ConcatEmptySeq
  <1>6. SessionOpen /\ SessionOpen'
    BY DEF SessionOpen
  <1> QED
    BY <1>2, <1>3, <1>4, <1>5, <1>6 DEF Service!Flush, Buffered, LinesIn

LEMMA SwapsStutters ==
  ASSUME IInv, at \in {"locking", "timedOut"}, Swaps, UNCHANGED rows
  PROVE  UNCHANGED Service!serviceVars
  <1> USE DEF Swaps
  <1>1. messages \in Seq(Messages) /\ batch = <<>>
    BY DEF IInv, Typed, Places
  <1>2. Buffered' = Buffered
    BY <1>1, ConcatEmptySeq DEF Buffered
  <1>3. SessionOpen' = SessionOpen
    BY DEF SessionOpen
  <1> QED
    BY <1>2, <1>3, Stutters

\* Steps that move no message and do not open or close the session.
LEMMA OthersStutter ==
  ASSUME IInv, UNCHANGED <<messages, batch, rows>>,
         \/ at' = at
         \/ at \in {"none", "cleaning", "sweeping", "ended"}
            /\ at' \in {"none", "cleaning", "opening", "ended"}
         \/ at \in {"loop", "locking", "blocking", "asleep"}
            /\ at' \in {"locking", "blocking", "asleep", "timedOut", "closing"}
  PROVE  UNCHANGED Service!serviceVars
  <1>1. Buffered' = Buffered
    BY DEF Buffered
  <1>2. SessionOpen' = SessionOpen
    BY DEF SessionOpen
  <1> QED
    BY <1>1, <1>2, Stutters

LEMMA StepRefines ==
  ASSUME IInv, [Next]_vars
  PROVE  [Service!Next]_(Service!serviceVars)
  <1>1. CASE WritePush
    BY <1>1, PushAccepts DEF Service!Next, WritePush, IInv, Typed
  <1>2. CASE WriteStart
    BY <1>2, WriteStartOpens DEF Service!Next
  <1>3. CASE WriteStop
    BY <1>3, WriteStopCloses DEF Service!Next
  <1>4. CASE WriteBatch
    BY <1>4, WriteBatchFlushes DEF Service!Next, Buffered
  <1>5. CASE LockAndTest /\ Predicate
    BY <1>5, SwapsStutters DEF LockAndTest
  <1>6. CASE LockAfterTimeOut
    BY <1>6, SwapsStutters DEF LockAfterTimeOut
  <1>7. CASE LockAndTest /\ ~Predicate
    BY <1>7, OthersStutter DEF LockAndTest
  <1>8. CASE CleanFirst \/ LoopHead \/ Block \/ TimeOut \/ SpuriousWake \/ CleanLast
    BY <1>8, OthersStutter
    DEF CleanFirst, LoopHead, Block, TimeOut, SpuriousWake, CleanLast, ThreadMoves
  <1>9. CASE Stop \/ Start \/ Proceed
    <2>1. UNCHANGED <<messages, batch, rows>>
      BY <1>9 DEF Stop, Start, Proceed, RaiseStop, StopNotify, StopJoin, StopReset,
                  StartThread, OwnerUnchanged
    <2>2. \/ at' = at
          \/ at = "asleep" /\ at' = "locking"
          \/ at = "ended" /\ at' = "none"
          \/ at = "none" /\ at' = "cleaning"
      BY <1>9 DEF Stop, Start, Proceed, RaiseStop, StopNotify, StopJoin, StopReset,
                  StartThread, ThreadMoves, Wakes
    <2> QED
      BY <2>1, <2>2, OthersStutter
  <1>10. CASE \/ \E m \in Messages : WriteTest(m)
              \/ DayPasses
              \/ UNCHANGED vars
    BY <1>10, OthersStutter DEF WriteTest, DayPasses, vars
  <1> QED
    BY <1>1, <1>2, <1>3, <1>4, <1>5, <1>6, <1>7, <1>8, <1>9, <1>10 DEF Next, Run

(***************************************************************************)
(* The logger implements the FIFO log: for any messages, writers, interval *)
(* and number of sessions, every message taken over reaches write_log() at *)
(* most once, in the order of the calls of write(), and between a [START]  *)
(* and the next [STOP].                                                    *)
(***************************************************************************)
THEOREM LoggerRefines == Spec => ImplementsLogService
  <1>1. Init => Service!Init
    <2> SUFFICES ASSUME Init PROVE Service!Init
      OBVIOUS
    <2>1. batch \o messages = <<>>
      BY DEF Init
    <2>2. [i \in DOMAIN rows |-> rows[i].line] = <<>>
      BY DEF Init
    <2>3. SessionOpen = FALSE
      BY DEF Init, SessionOpen
    <2> QED
      BY <2>1, <2>2, <2>3 DEF Service!Init
  <1>2. IInv /\ [Next]_vars => [Service!Next]_(Service!serviceVars)
    BY StepRefines
  <1> QED
    BY <1>1, <1>2, Invariance, PTL DEF Spec, ImplementsLogService, Service!Spec

-----------------------------------------------------------------------------
(* What Filtered() keeps.                                                  *)

KeepStep(f, s, K, n) ==
  IF n = 0 THEN <<>>
  ELSE IF s[n] \in K THEN Append(f[n - 1], s[n]) ELSE f[n - 1]

Keeping(f, s, K) == f = [n \in 0 .. Len(s) |-> KeepStep(f, s, K, n)]

LEMMA KeepingIs ==
  ASSUME NEW X, NEW s \in Seq(X), NEW K
  PROVE  \E f \in [0 .. Len(s) -> Seq(X \cap K)] :
            /\ \A n \in 0 .. Len(s) : f[n] = KeepStep(f, s, K, n)
            /\ Filtered(s, K) = f[Len(s)]
  <1>0. Len(s) \in Nat /\ \A n \in 1 .. Len(s) : s[n] \in X
    OBVIOUS
  <1>1. Filtered(s, K) = (CHOOSE f : Keeping(f, s, K))[Len(s)]
    BY DEF Filtered, Keeping, KeepStep
  <1> DEFINE S == Seq(X \cap K)
             g == [n \in 1 .. Len(s) |-> [t \in S |->
                     IF s[n] \in K THEN Append(t, s[n]) ELSE t]]
  <1>2. g \in [1 .. Len(s) -> [S -> S]] /\ <<>> \in S
    <2>1. ASSUME NEW n \in 1 .. Len(s), NEW t \in S
          PROVE  (IF s[n] \in K THEN Append(t, s[n]) ELSE t) \in S
      <3>1. CASE s[n] \in K
        <4>1. s[n] \in X \cap K
          BY <1>0, <3>1
        <4> QED
          BY <3>1, <4>1, AppendProperties
      <3>2. CASE s[n] \notin K
        BY <3>2
      <3> QED
        BY <3>1, <3>2
    <2> QED
      BY <2>1
  <1>3. PICK f \in [0 .. Len(s) -> S] : Iterates(f, <<>>, g, Len(s))
    <2> HIDE DEF g, S
    <2> QED
      BY <1>0, <1>2, IteratesExist
  <1>4. \A n \in 0 .. Len(s) : f[n] = KeepStep(f, s, K, n)
    <2>1. \A n \in 1 .. Len(s) : f[n - 1] \in S
      BY <1>0, <1>3
    <2>2. ASSUME NEW n \in 1 .. Len(s)
          PROVE  f[n] = KeepStep(f, s, K, n)
      <3>1. f[n] = g[n][f[n - 1]] /\ f[n - 1] \in S
        BY <1>3, <2>1 DEF Iterates
      <3> QED
        BY <3>1 DEF KeepStep
    <2>3. f[0] = KeepStep(f, s, K, 0)
      BY <1>3 DEF Iterates, KeepStep
    <2> QED
      BY <1>0, <2>2, <2>3
  <1> DEFINE h == CHOOSE h : Keeping(h, s, K)
  <1>5. Keeping(h, s, K)
    BY <1>4 DEF Keeping
  <1>6. \A n \in 0 .. Len(s) : f[n] = h[n]
    <2> HIDE DEF h, S
    <2>1. \A n \in 0 .. Len(s) : h[n] = KeepStep(h, s, K, n)
      BY <1>5 DEF Keeping
    <2>2. f[0] = h[0]
      BY <1>0, <1>4, <2>1 DEF KeepStep
    <2>3. ASSUME NEW n \in 1 .. Len(s), f[n - 1] = h[n - 1] PROVE f[n] = h[n]
      <3>1. n # 0 /\ n \in 0 .. Len(s)
        BY <1>0
      <3>2. KeepStep(f, s, K, n) = KeepStep(h, s, K, n)
        BY <2>3, <3>1, Zenon DEF KeepStep
      <3> QED
        BY <1>4, <2>1, <3>1, <3>2
    <2> DEFINE T == {n \in 0 .. Len(s) : f[n] = h[n]}
    <2>4. 0 \in T /\ \A n \in 1 .. Len(s) : n - 1 \in T => n \in T
      BY <1>0, <2>2, <2>3
    <2>5. 0 .. Len(s) \subseteq T
      <3> HIDE DEF T
      <3> QED
        BY <1>0, <2>4, UpTo
    <2> QED
      BY <2>5
  <1>7. Filtered(s, K) = f[Len(s)]
    BY <1>0, <1>1, <1>6
  <1> QED
    BY <1>4, <1>7

LEMMA FilteredIs ==
  ASSUME NEW X, NEW s \in Seq(X), NEW K
  PROVE  Filtered(s, K) \in Seq(X) /\ Filtered(s, K) \in Seq(X \cap K)
  <1>1. Filtered(s, K) \in Seq(X \cap K)
    BY KeepingIs
  <1> QED
    BY <1>1, SeqMonotonic

LEMMA FilteredEmpty == \A K : Filtered(<<>>, K) = <<>>
  <1> SUFFICES ASSUME NEW K PROVE Filtered(<<>>, K) = <<>>
    OBVIOUS
  <1>1. <<>> \in Seq({}) /\ Len(<<>>) = 0
    OBVIOUS
  <1>2. PICK f \in [0 .. Len(<<>>) -> Seq({} \cap K)] :
                 /\ \A n \in 0 .. Len(<<>>) : f[n] = KeepStep(f, <<>>, K, n)
                 /\ Filtered(<<>>, K) = f[Len(<<>>)]
    BY <1>1, KeepingIs
  <1> QED
    BY <1>1, <1>2 DEF KeepStep

LEMMA FilteredAppend ==
  ASSUME NEW X, NEW s \in Seq(X), NEW x \in X, NEW K
  PROVE  Filtered(Append(s, x), K) =
           IF x \in K THEN Append(Filtered(s, K), x) ELSE Filtered(s, K)
  <1> DEFINE t == Append(s, x)
  <1>1. /\ t \in Seq(X) /\ Len(t) = Len(s) + 1 /\ Len(s) \in Nat
        /\ \A n \in 1 .. Len(s) : t[n] = s[n]
        /\ t[Len(s) + 1] = x
    BY AppendProperties, LenProperties
  <1> HIDE DEF t
  <1>2. PICK f \in [0 .. Len(s) -> Seq(X \cap K)] :
                 /\ \A n \in 0 .. Len(s) : f[n] = KeepStep(f, s, K, n)
                 /\ Filtered(s, K) = f[Len(s)]
    BY KeepingIs
  <1>3. PICK h \in [0 .. Len(t) -> Seq(X \cap K)] :
                 /\ \A n \in 0 .. Len(t) : h[n] = KeepStep(h, t, K, n)
                 /\ Filtered(t, K) = h[Len(t)]
    BY <1>1, KeepingIs
  <1>4. \A n \in 0 .. Len(s) : f[n] = h[n]
    <2>1. f[0] = h[0]
      BY <1>1, <1>2, <1>3 DEF KeepStep
    <2>2. ASSUME NEW n \in 1 .. Len(s), f[n - 1] = h[n - 1] PROVE f[n] = h[n]
      <3>1. n # 0 /\ n \in 0 .. Len(s) /\ n \in 0 .. Len(t) /\ t[n] = s[n]
        BY <1>1
      <3>2. KeepStep(f, s, K, n) = KeepStep(h, t, K, n)
        BY <2>2, <3>1, Zenon DEF KeepStep
      <3> QED
        BY <1>2, <1>3, <3>1, <3>2
    <2> DEFINE T == {n \in 0 .. Len(s) : f[n] = h[n]}
    <2>3. Len(s) \in Nat /\ 0 \in T /\ \A n \in 1 .. Len(s) : n - 1 \in T => n \in T
      BY <1>1, <2>1, <2>2
    <2>4. 0 .. Len(s) \subseteq T
      <3> HIDE DEF T
      <3> QED
        BY <2>3, UpTo
    <2> QED
      BY <2>4
  <1>5. h[Len(t)] = KeepStep(h, t, K, Len(t)) /\ Len(t) # 0 /\ Len(t) - 1 = Len(s)
    BY <1>1, <1>3
  <1>6. h[Len(s)] = f[Len(s)] /\ t[Len(t)] = x
    BY <1>1, <1>4
  <1>7. KeepStep(h, t, K, Len(t)) = IF x \in K THEN Append(h[Len(s)], x) ELSE h[Len(s)]
    BY <1>5, <1>6, Zenon DEF KeepStep
  <1> QED
    BY <1>2, <1>3, <1>5, <1>6, <1>7 DEF t

LEMMA FilteredConcat ==
  ASSUME NEW X, NEW s \in Seq(X), NEW t \in Seq(X), NEW K
  PROVE  Filtered(s \o t, K) = Filtered(s, K) \o Filtered(t, K)
  <1> DEFINE T == {u \in Seq(X) : Filtered(s \o u, K) = Filtered(s, K) \o Filtered(u, K)}
  <1>1. <<>> \in T
    <2>1. s \o <<>> = s /\ Filtered(s, K) \o <<>> = Filtered(s, K)
      BY FilteredIs, ConcatEmptySeq
    <2>2. Filtered(s \o <<>>, K) = Filtered(s, K) \o Filtered(<<>>, K)
      BY <2>1, FilteredEmpty
    <2>3. <<>> \in Seq(X)
      OBVIOUS
    <2> QED
      BY <2>2, <2>3
  <1>2. ASSUME NEW u \in Seq(X), NEW x \in X, u \in T PROVE Append(u, x) \in T
    <2>1. /\ Filtered(s, K) \in Seq(X) /\ Filtered(u, K) \in Seq(X)
          /\ Append(u, x) \in Seq(X) /\ s \o u \in Seq(X)
      BY FilteredIs, AppendProperties, ConcatProperties
    <2>2. Filtered(s \o u, K) = Filtered(s, K) \o Filtered(u, K)
      BY <1>2
    <2>3. s \o Append(u, x) = Append(s \o u, x)
      BY AppendOfConcat
    <2>4. Filtered(s, K) \o Append(Filtered(u, K), x)
            = Append(Filtered(s, K) \o Filtered(u, K), x)
      BY <2>1, AppendOfConcat
    <2>5. Filtered(Append(s \o u, x), K) =
            IF x \in K THEN Append(Filtered(s \o u, K), x) ELSE Filtered(s \o u, K)
      BY <2>1, FilteredAppend
    <2>6. Filtered(Append(u, x), K) =
            IF x \in K THEN Append(Filtered(u, K), x) ELSE Filtered(u, K)
      BY FilteredAppend
    <2>7. Filtered(s \o Append(u, x), K) = Filtered(s, K) \o Filtered(Append(u, x), K)
      BY <2>2, <2>3, <2>4, <2>5, <2>6
    <2> QED
      BY <2>1, <2>7
  <1> HIDE DEF T
  <1>3. Seq(X) \subseteq T
    BY <1>1, <1>2, GrowSequences
  <1> QED
    BY <1>3 DEF T

-----------------------------------------------------------------------------
(* What PushLines() makes of a file.                                       *)

PushStep(f, old, lines, n) == IF n = 0 THEN old ELSE PushLine(f[n - 1], lines[n])

Pushing(f, old, lines) == f = [n \in 0 .. Len(lines) |-> PushStep(f, old, lines, n)]

LEMMA LimitIs == MaxLines \in Nat
  BY LoggerAssumption DEF MaxLines

LEMMA LastIs ==
  ASSUME NEW s \in Seq(Lines)
  PROVE  /\ LastLines(s) \in Seq(Lines)
         /\ Len(LastLines(s)) =
              IF MaxLines = 0 \/ Len(s) <= MaxLines THEN Len(s) ELSE MaxLines
         /\ \A i \in 1 .. Len(LastLines(s)) :
              LastLines(s)[i] = s[i + Len(s) - Len(LastLines(s))]
  <1>1. Len(s) \in Nat /\ MaxLines \in Nat
    BY LimitIs
  <1>2. CASE MaxLines = 0 \/ Len(s) <= MaxLines
    <2>1. LastLines(s) = s
      BY <1>2 DEF LastLines
    <2> QED
      BY <1>1, <1>2, <2>1
  <1>3. CASE ~(MaxLines = 0 \/ Len(s) <= MaxLines)
    <2>1. LastLines(s) = SubSeq(s, Len(s) - MaxLines + 1, Len(s))
      BY <1>3 DEF LastLines
    <2>2. Len(s) - MaxLines + 1 \in 1 .. Len(s) + 1 /\ Len(s) \in 0 .. Len(s)
      BY <1>1, <1>3
    <2>3. /\ SubSeq(s, Len(s) - MaxLines + 1, Len(s)) \in Seq(Lines)
          /\ Len(SubSeq(s, Len(s) - MaxLines + 1, Len(s))) = MaxLines
          /\ \A i \in 1 .. MaxLines : SubSeq(s, Len(s) - MaxLines + 1, Len(s))[i]
                                        = s[(Len(s) - MaxLines + 1) + i - 1]
      BY <1>1, <1>3, <2>2, SubSeqProperties
    <2> QED
      BY <1>1, <1>3, <2>1, <2>3
  <1> QED
    BY <1>2, <1>3

\* One more line, and one less if the file is full.
LEMMA PushKeepsLast ==
  ASSUME MaxLines # 0, NEW s \in Seq(Lines), NEW x \in Lines
  PROVE  PushLine(LastLines(s), x) = LastLines(Append(s, x))
  <1> DEFINE l == LastLines(s)
             t == Append(s, x)
  <1>1. /\ t \in Seq(Lines) /\ Len(t) = Len(s) + 1 /\ Len(s) \in Nat
        /\ \A i \in 1 .. Len(s) : t[i] = s[i]
        /\ t[Len(s) + 1] = x
    BY AppendProperties, LenProperties
  <1>2. MaxLines \in Nat
    BY LimitIs
  <1>3. /\ l \in Seq(Lines) /\ Len(l) = IF Len(s) <= MaxLines THEN Len(s) ELSE MaxLines
        /\ \A i \in 1 .. Len(l) : l[i] = s[i + Len(s) - Len(l)]
    BY LastIs
  <1>4. /\ LastLines(t) \in Seq(Lines)
        /\ Len(LastLines(t)) = IF Len(t) <= MaxLines THEN Len(t) ELSE MaxLines
        /\ \A i \in 1 .. Len(LastLines(t)) :
             LastLines(t)[i] = t[i + Len(t) - Len(LastLines(t))]
    BY <1>1, LastIs
  <1> DEFINE u == IF Len(l) >= MaxLines THEN Tail(l) ELSE l
  <1>5. /\ u \in Seq(Lines) /\ Len(u) = Len(LastLines(t)) - 1
        /\ \A i \in 1 .. Len(u) : u[i] = s[i + Len(s) - Len(u)]
    <2> HIDE DEF l, t
    <2>1. CASE Len(l) >= MaxLines
      <3>1. l # <<>>
        BY <1>2, <1>3, <2>1, EmptySeq
      <3>2. /\ Tail(l) \in Seq(Lines) /\ Len(Tail(l)) = Len(l) - 1
            /\ \A i \in 1 .. Len(Tail(l)) : Tail(l)[i] = l[i + 1]
        BY <1>3, <3>1, HeadTailProperties
      <3>3. Len(l) = MaxLines /\ u = Tail(l)
        BY <1>1, <1>2, <1>3, <2>1
      <3>4. Len(LastLines(t)) = MaxLines
        BY <1>1, <1>2, <1>3, <1>4, <3>3
      <3>5. ASSUME NEW i \in 1 .. Len(u) PROVE u[i] = s[i + Len(s) - Len(u)]
        <4>1. i + 1 \in 1 .. Len(l) /\ i \in 1 .. Len(Tail(l)) /\ Len(u) = Len(l) - 1
          BY <1>2, <3>2, <3>3
        <4>2. l[i + 1] = s[(i + 1) + Len(s) - Len(l)]
          BY <1>3, <4>1
        <4>3. (i + 1) + Len(s) - Len(l) = i + Len(s) - Len(u)
          <5>1. Len(l) \in Nat /\ Len(s) \in Nat /\ Len(u) = Len(l) - 1 /\ i \in Int
            BY <1>1, <1>3, <4>1, LenProperties
          <5> HIDE DEF u
          <5> QED
            BY <5>1
        <4> QED
          BY <3>2, <3>3, <4>1, <4>2, <4>3
      <3> QED
        BY <3>2, <3>3, <3>4, <3>5
    <2>2. CASE ~(Len(l) >= MaxLines)
      <3>1. Len(l) = Len(s) /\ Len(s) < MaxLines /\ u = l
        BY <1>1, <1>2, <1>3, <2>2
      <3>2. Len(LastLines(t)) = Len(s) + 1
        BY <1>1, <1>2, <1>4, <3>1
      <3>3. \A i \in 1 .. Len(l) : l[i] = s[i + Len(s) - Len(l)]
        BY <1>3
      <3> HIDE DEF u
      <3>4. u \in Seq(Lines) /\ Len(u) = Len(LastLines(t)) - 1
        <4>1. l \in Seq(Lines)
          BY <1>3
        <4> QED
          BY <1>1, <3>1, <3>2, <4>1
      <3>5. \A i \in 1 .. Len(u) : u[i] = s[i + Len(s) - Len(u)]
        BY <3>1, <3>3
      <3> QED
        BY <3>4, <3>5
    <2> QED
      BY <2>1, <2>2
  <1>6. PushLine(l, x) = Append(u, x)
    BY DEF PushLine
  <1> HIDE DEF l, t, u
  <1>7. /\ Append(u, x) \in Seq(Lines) /\ Len(Append(u, x)) = Len(u) + 1
        /\ \A i \in 1 .. Len(u) : Append(u, x)[i] = u[i]
        /\ Append(u, x)[Len(u) + 1] = x
    BY <1>5, AppendProperties
  <1>8. Len(u) \in Nat /\ Len(u) <= Len(s)
    BY <1>1, <1>2, <1>4, <1>5, LenProperties
  <1>9. ASSUME NEW i \in 1 .. Len(u) + 1 PROVE Append(u, x)[i] = LastLines(t)[i]
    <2>0. LastLines(t)[i] = t[i + Len(t) - Len(LastLines(t))]
      BY <1>4, <1>5, <1>8
    <2>1. CASE i = Len(u) + 1
      BY <1>1, <1>5, <1>7, <1>8, <2>0, <2>1
    <2>2. CASE i \in 1 .. Len(u)
      <3>1. i + Len(t) - Len(LastLines(t)) = i + Len(s) - Len(u)
        BY <1>1, <1>5, <1>8
      <3>2. i + Len(s) - Len(u) \in 1 .. Len(s)
        BY <1>1, <1>8, <2>2
      <3> QED
        BY <1>1, <1>5, <1>7, <2>0, <2>2, <3>1, <3>2
    <2> QED
      BY <1>8, <2>1, <2>2
  <1>10. Append(u, x) = LastLines(t)
    <2>1. Len(Append(u, x)) = Len(LastLines(t)) /\ Len(u) + 1 = Len(Append(u, x))
      BY <1>4, <1>5, <1>7, <1>8, LenProperties
    <2> QED
      BY <1>4, <1>7, <1>9, <2>1, SeqEqual
  <1> QED
    BY <1>6, <1>10 DEF l, t

LEMMA PushLinesKeepLast ==
  ASSUME MaxLines # 0, NEW s \in Seq(Lines), NEW lines \in Seq(Lines)
  PROVE  PushLines(LastLines(s), lines) = LastLines(s \o lines)
  <1> DEFINE old == LastLines(s)
             All(n) == s \o SubSeq(lines, 1, n)
             k == [n \in 0 .. Len(lines) |-> LastLines(All(n))]
             h == CHOOSE f : Pushing(f, old, lines)
  <1>0. Len(lines) \in Nat
    OBVIOUS
  <1>1. PushLines(old, lines) = h[Len(lines)]
    BY DEF PushLines, Pushing, PushStep
  <1>2. All(0) = s /\ All(Len(lines)) = s \o lines
    BY <1>0, SubSeqEmpty, SubSeqFull, ConcatEmptySeq
  <1>3. ASSUME NEW n \in 1 .. Len(lines)
        PROVE  PushLine(LastLines(All(n - 1)), lines[n]) = LastLines(All(n))
    <2>1. SubSeq(lines, 1, n) = Append(SubSeq(lines, 1, n - 1), lines[n])
      BY <1>0, SubSeqRecursiveSecond
    <2>2. SubSeq(lines, 1, n - 1) \in Seq(Lines) /\ lines[n] \in Lines
      BY <1>0, SubSeqProperties, ElementOfSeq
    <2>3. All(n) = Append(All(n - 1), lines[n]) /\ All(n - 1) \in Seq(Lines)
      BY <2>1, <2>2, AppendOfConcat, ConcatProperties
    <2> HIDE DEF All
    <2> QED
      BY <2>2, <2>3, PushKeepsLast
  <1> HIDE DEF All
  <1>4. \A n \in 0 .. Len(lines) : k[n] = PushStep(k, old, lines, n)
    <2>1. k[0] = PushStep(k, old, lines, 0)
      BY <1>0, <1>2 DEF PushStep
    <2>2. ASSUME NEW n \in 1 .. Len(lines) PROVE k[n] = PushStep(k, old, lines, n)
      <3>1. n # 0 /\ n \in 0 .. Len(lines) /\ n - 1 \in 0 .. Len(lines)
        BY <1>0
      <3>2. k[n - 1] = LastLines(All(n - 1)) /\ k[n] = LastLines(All(n))
        BY <3>1
      <3> HIDE DEF k
      <3> QED
        BY <1>3, <3>1, <3>2 DEF PushStep
    <2> QED
      BY <1>0, <2>1, <2>2
  <1>5. Pushing(h, old, lines)
    <2>1. Pushing(k, old, lines)
      BY <1>4 DEF Pushing
    <2> HIDE DEF k
    <2> QED
      BY <2>1
  <1> HIDE DEF h, k
  <1>6. \A n \in 0 .. Len(lines) : h[n] = PushStep(h, old, lines, n)
    BY <1>5 DEF Pushing
  <1> DEFINE T == {n \in 0 .. Len(lines) : h[n] = k[n]}
  <1>7. 0 \in T
    <2>1. h[0] = k[0]
      BY <1>0, <1>4, <1>6 DEF PushStep
    <2> QED
      BY <1>0, <2>1
  <1>8. ASSUME NEW n \in 1 .. Len(lines), n - 1 \in T PROVE n \in T
    <2>1. n # 0 /\ n \in 0 .. Len(lines) /\ h[n - 1] = k[n - 1]
      BY <1>0, <1>8
    <2>2. PushStep(h, old, lines, n) = PushStep(k, old, lines, n)
      BY <2>1, Zenon DEF PushStep
    <2>3. h[n] = k[n]
      BY <1>4, <1>6, <2>1, <2>2
    <2> QED
      BY <2>1, <2>3
  <1> HIDE DEF T
  <1>9. 0 .. Len(lines) \subseteq T
    BY <1>0, <1>7, <1>8, UpTo
  <1>10. h[Len(lines)] = k[Len(lines)]
    BY <1>0, <1>9 DEF T
  <1>11. k[Len(lines)] = LastLines(s \o lines)
    <2>1. Len(lines) \in 0 .. Len(lines)
      BY <1>0
    <2>2. k[Len(lines)] = LastLines(All(Len(lines)))
      BY <2>1 DEF k
    <2> QED
      BY <1>2, <2>2
  <1> QED
    BY <1>1, <1>10, <1>11

-----------------------------------------------------------------------------
(* The lines of a day.                                                     *)

Rows == [line : Lines, day : Days]
KeyOf(d) == [line : Logged, day : {d}]

LEMMA LinesOfIs == \A d : LinesOf(d) = LinesIn(Filtered(rows, KeyOf(d)))
  BY DEF LinesOf, LinesIn, KeyOf

LEMMA LinesOfAppend ==
  ASSUME NEW rs \in Seq(Rows), NEW r \in Rows
  PROVE  LinesIn(Append(rs, r)) = Append(LinesIn(rs), r.line)
  <1> DEFINE t == Append(rs, r)
  <1>1. /\ t \in Seq(Rows) /\ Len(t) = Len(rs) + 1 /\ Len(rs) \in Nat
        /\ \A i \in 1 .. Len(rs) : t[i] = rs[i]
        /\ t[Len(rs) + 1] = r
    BY AppendProperties, LenProperties
  <1> HIDE DEF t
  <1>2. /\ LinesIn(rs) \in Seq(Lines) /\ Len(LinesIn(rs)) = Len(rs)
        /\ \A i \in 1 .. Len(rs) : LinesIn(rs)[i] = rs[i].line
        /\ LinesIn(t) \in Seq(Lines) /\ Len(LinesIn(t)) = Len(t)
        /\ \A i \in 1 .. Len(t) : LinesIn(t)[i] = t[i].line
    BY <1>1, LinesOfRows DEF Rows
  <1>3. r.line \in Lines
    BY DEF Rows
  <1> DEFINE u == Append(LinesIn(rs), r.line)
  <1>4. /\ u \in Seq(Lines) /\ Len(u) = Len(rs) + 1
        /\ \A i \in 1 .. Len(rs) : u[i] = LinesIn(rs)[i]
        /\ u[Len(rs) + 1] = r.line
    BY <1>2, <1>3, AppendProperties
  <1> HIDE DEF u
  <1>5. ASSUME NEW i \in 1 .. Len(rs) + 1 PROVE LinesIn(t)[i] = u[i]
    <2>1. CASE i = Len(rs) + 1
      BY <1>1, <1>2, <1>4, <2>1
    <2>2. CASE i \in 1 .. Len(rs)
      BY <1>1, <1>2, <1>4, <2>2
    <2> QED
      BY <1>1, <2>1, <2>2
  <1>6. LinesIn(t) = u
    BY <1>1, <1>2, <1>4, <1>5, SeqEqual
  <1> QED
    BY <1>6 DEF t, u

\* The rows of what is written on day e add to the lines of day d if it is d.
LEMMA LinesOfDay ==
  ASSUME NEW d \in Days, NEW e \in Days, NEW lines \in Seq(Lines)
  PROVE  LinesIn(Filtered(RowsOf(lines, e), KeyOf(d)))
           = IF d = e THEN Filtered(lines, Logged) ELSE <<>>
  <1> DEFINE In(s) == LinesIn(Filtered(RowsOf(s, e), KeyOf(d)))
             Out(s) == IF d = e THEN Filtered(s, Logged) ELSE <<>>
             T == {s \in Seq(Lines) : In(s) = Out(s)}
  <1>1. <<>> \in T
    <2>1. RowsOf(<<>>, e) = <<>>
      BY DEF RowsOf
    <2>2. LinesIn(<<>>) = <<>>
      BY DEF LinesIn
    <2>3. In(<<>>) = <<>> /\ Out(<<>>) = <<>> /\ <<>> \in Seq(Lines)
      BY <2>1, <2>2, FilteredEmpty
    <2> QED
      BY <2>3
  <1>2. ASSUME NEW s \in Seq(Lines), NEW x \in Lines, s \in T PROVE Append(s, x) \in T
    <2> DEFINE row == [line |-> x, day |-> e]
               rs == RowsOf(s, e)
               kept == Filtered(rs, KeyOf(d))
    <2>1. rs \in Seq(Rows) /\ row \in Rows
      BY RowsAreRows DEF Rows
    <2>2. RowsOf(Append(s, x), e) = Append(rs, row)
      <3>1. /\ Append(s, x) \in Seq(Lines) /\ Len(Append(s, x)) = Len(s) + 1
            /\ \A i \in 1 .. Len(s) : Append(s, x)[i] = s[i]
            /\ Append(s, x)[Len(s) + 1] = x
            /\ DOMAIN s = 1 .. Len(s) /\ Len(s) \in Nat
        BY AppendProperties, LenProperties
      <3>2. /\ RowsOf(Append(s, x), e) \in Seq(Rows)
            /\ DOMAIN Append(s, x) = 1 .. Len(s) + 1
        BY <3>1, RowsAreRows, LenProperties DEF Rows
      <3>3. Len(rs) = Len(s) /\ Len(RowsOf(Append(s, x), e)) = Len(s) + 1
        BY <2>1, <3>1, <3>2, LenProperties DEF RowsOf
      <3>4. /\ Append(rs, row) \in Seq(Rows) /\ Len(Append(rs, row)) = Len(s) + 1
            /\ \A i \in 1 .. Len(s) : Append(rs, row)[i] = rs[i]
            /\ Append(rs, row)[Len(s) + 1] = row
        BY <2>1, <3>3, AppendProperties
      <3>5. ASSUME NEW i \in 1 .. Len(s) + 1
            PROVE  RowsOf(Append(s, x), e)[i] = Append(rs, row)[i]
        <4>1. RowsOf(Append(s, x), e)[i] = [line |-> Append(s, x)[i], day |-> e]
          BY <3>2 DEF RowsOf
        <4>2. CASE i \in 1 .. Len(s)
          <5>1. rs[i] = [line |-> s[i], day |-> e]
            BY <3>1, <4>2 DEF RowsOf
          <5> QED
            BY <3>1, <3>4, <4>1, <4>2, <5>1
        <4>3. CASE i = Len(s) + 1
          BY <3>1, <3>4, <4>1, <4>3
        <4>4. i \in 1 .. Len(s) \/ i = Len(s) + 1
          BY <3>1
        <4> QED
          BY <4>2, <4>3, <4>4
      <3> HIDE DEF rs, row
      <3> QED
        BY <3>2, <3>3, <3>4, <3>5, SeqEqual
    <2>3. row \in KeyOf(d) <=> d = e /\ x \in Logged
      BY DEF KeyOf
    <2>4. row.line = x
      OBVIOUS
    <2> HIDE DEF rs, row
    <2>5. kept \in Seq(Rows)
      BY <2>1, FilteredIs
    <2>6. Filtered(Append(rs, row), KeyOf(d)) =
            IF row \in KeyOf(d) THEN Append(kept, row) ELSE kept
      BY <2>1, FilteredAppend
    <2>7. LinesIn(Append(kept, row)) = Append(LinesIn(kept), x)
      BY <2>1, <2>4, <2>5, LinesOfAppend
    <2>8. LinesIn(kept) = Out(s)
      BY <1>2 DEF rs
    <2>9. Filtered(Append(s, x), Logged) =
            IF x \in Logged THEN Append(Filtered(s, Logged), x) ELSE Filtered(s, Logged)
      BY FilteredAppend
    <2> HIDE DEF kept
    <2>10. In(Append(s, x)) = IF row \in KeyOf(d) THEN Append(LinesIn(kept), x)
                              ELSE LinesIn(kept)
      BY <2>2, <2>6, <2>7
    <2>11. In(Append(s, x)) = Out(Append(s, x))
      <3> HIDE DEF In
      <3> QED
        BY <2>3, <2>8, <2>9, <2>10
    <2>12. Append(s, x) \in Seq(Lines)
      BY AppendProperties
    <2> QED
      BY <2>11, <2>12
  <1> HIDE DEF T
  <1>3. Seq(Lines) \subseteq T
    BY <1>1, <1>2, GrowSequences
  <1> QED
    BY <1>3 DEF T

LEMMA LinesOfTyped ==
  ASSUME rows \in Seq(Rows), NEW d \in Days
  PROVE  LinesOf(d) \in Seq(Lines)
  <1>1. Filtered(rows, KeyOf(d)) \in Seq(Rows)
    BY FilteredIs
  <1> QED
    BY <1>1, LinesOfRows, LinesOfIs DEF Rows

LEMMA LinesOfGrow ==
  ASSUME rows \in Seq(Rows), today \in Days, NEW lines \in Seq(Lines), WriteLog(lines),
         NEW d \in Days
  PROVE  LinesOf(d)' = LinesOf(d) \o (IF d = today THEN Filtered(lines, Logged) ELSE <<>>)
  <1> DEFINE new == RowsOf(lines, today)
  <1>1. rows' = rows \o new /\ new \in Seq(Rows)
    BY RowsAreRows DEF WriteLog, RowsOf, Rows
  <1> HIDE DEF new
  <1>2. /\ Filtered(rows', KeyOf(d)) = Filtered(rows, KeyOf(d)) \o Filtered(new, KeyOf(d))
        /\ Filtered(rows, KeyOf(d)) \in Seq(Rows) /\ Filtered(new, KeyOf(d)) \in Seq(Rows)
    <2>1. Filtered(rows \o new, KeyOf(d)) = Filtered(rows, KeyOf(d)) \o Filtered(new, KeyOf(d))
      BY <1>1, FilteredConcat
    <2>2. Filtered(rows, KeyOf(d)) \in Seq(Rows) /\ Filtered(new, KeyOf(d)) \in Seq(Rows)
      BY <1>1, FilteredIs
    <2> QED
      BY <1>1, <2>1, <2>2, Zenon
  <1>3. LinesIn(Filtered(rows', KeyOf(d)))
          = LinesIn(Filtered(rows, KeyOf(d))) \o LinesIn(Filtered(new, KeyOf(d)))
    BY <1>2, LinesOfConcat DEF Rows
  <1>4. LinesIn(Filtered(new, KeyOf(d))) = IF d = today THEN Filtered(lines, Logged) ELSE <<>>
    BY LinesOfDay DEF new
  <1>5. LinesOf(d)' = LinesIn(Filtered(rows', KeyOf(d)))
    BY DEF LinesOf, LinesIn, KeyOf
  <1> QED
    BY <1>3, <1>4, <1>5, LinesOfIs

-----------------------------------------------------------------------------
(* The files.                                                              *)

\* What FileKeepsLastLines rests on: without a mode for it there is no file.
FileInv ==
  /\ interval \in Intervals /\ starts \in 0 .. MaxStarts /\ dropped \subseteq Messages
  /\ DOMAIN files \subseteq Days
  /\ FileMode = 0 => DOMAIN files = {}
  /\ FileKeepsLastLines

LEMMA FilesStay ==
  ASSUME FileInv, UNCHANGED <<files, rows, today, interval>>,
         starts' \in 0 .. MaxStarts, dropped' \subseteq Messages
  PROVE  FileInv'
  <1>1. \A d \in Days : LinesOf(d)' = LinesOf(d)
    BY DEF LinesOf
  <1>2. FileKeepsLastLines'
    BY <1>1 DEF FileInv, FileKeepsLastLines, LastLines
  <1> QED
    BY <1>2 DEF FileInv

LEMMA DayKeepsFiles ==
  ASSUME FileInv, Typed, UNCHANGED <<files, rows, interval, starts, dropped>>,
         today' \in Days, today <= today'
  PROVE  FileInv'
  <1>1. \A d \in Days : LinesOf(d)' = LinesOf(d)
    BY DEF LinesOf
  <1>2. Days \subseteq Nat /\ LifeCycle \in Nat /\ today \in Days
    BY LoggerAssumption DEF Days, Typed
  <1>3. FileKeepsLastLines'
    <2> SUFFICES ASSUME NEW d \in Days
                 PROVE  /\ FileMode > 0 /\ LinesOf(d)' # <<>> /\ today' - d <= LifeCycle
                             => d \in DOMAIN files'
                        /\ d \in DOMAIN files' => files'[d] = LastLines(LinesOf(d)')
      BY DEF FileKeepsLastLines, LastLines
    <2>1. today' - d <= LifeCycle => today - d <= LifeCycle
      <3>1. today \in Nat /\ today' \in Nat /\ d \in Nat /\ LifeCycle \in Nat
        BY <1>2
      <3>2. \A a, b, c, l \in Nat : a <= b /\ b - c <= l => a - c <= l
        OBVIOUS
      <3> QED
        BY <3>1, <3>2
    <2> QED
      BY <1>1, <2>1 DEF FileInv, FileKeepsLastLines
  <1> QED
    BY <1>3 DEF FileInv

LEMMA CleaningKeepsFiles ==
  ASSUME EpochDays <= 0, FileInv, Typed, RemoveOldFiles,
         UNCHANGED <<rows, interval, starts, dropped, today>>
  PROVE  FileInv'
  <1>1. \A d \in Days : LinesOf(d)' = LinesOf(d)
    BY DEF LinesOf
  <1>2. /\ Days \subseteq Nat /\ LifeCycle \in Nat /\ today \in Days /\ EpochDays \in Int
        /\ DOMAIN files \subseteq Days
    BY LoggerAssumption DEF Days, Typed, FileInv
  <1>3. /\ DOMAIN files' = {d \in DOMAIN files : ~(Age(d) > LifeCycle)}
        /\ \A d \in DOMAIN files' : files'[d] = files[d]
    BY DEF RemoveOldFiles
  <1>4. \A d \in DOMAIN files : today - d <= LifeCycle => d \in DOMAIN files'
    <2> SUFFICES ASSUME NEW d \in DOMAIN files, today - d <= LifeCycle
                 PROVE  ~(Age(d) > LifeCycle)
      BY <1>3
    <2>1. today \in Nat /\ d \in Nat /\ LifeCycle \in Nat /\ EpochDays \in Int
      BY <1>2
    <2>2. Age(d) = today - d + EpochDays
      BY DEF Age
    <2> QED
      BY <2>1, <2>2
  <1>5. FileKeepsLastLines'
    <2> SUFFICES ASSUME NEW d \in Days
                 PROVE  /\ FileMode > 0 /\ LinesOf(d)' # <<>> /\ today' - d <= LifeCycle
                             => d \in DOMAIN files'
                        /\ d \in DOMAIN files' => files'[d] = LastLines(LinesOf(d)')
      BY DEF FileKeepsLastLines, LastLines
    <2>1. /\ FileMode > 0 /\ LinesOf(d) # <<>> /\ today - d <= LifeCycle => d \in DOMAIN files
          /\ d \in DOMAIN files => files[d] = LastLines(LinesOf(d))
      BY DEF FileInv, FileKeepsLastLines
    <2> QED
      BY <1>1, <1>3, <1>4, <2>1
  <1> QED
    BY <1>3, <1>5 DEF FileInv

LEMMA WritingKeepsFiles ==
  ASSUME FileInv, Typed, NEW lines \in Seq(Lines), WriteLog(lines),
         UNCHANGED <<interval, starts, dropped, today>>
  PROVE  FileInv'
  <1> DEFINE kept == Filtered(lines, Logged)
             old == IF today \in DOMAIN files THEN files[today] ELSE <<>>
             new == IF MaxLines = 0 THEN old \o kept ELSE PushLines(old, kept)
  <1>1. /\ Days \subseteq Nat /\ LifeCycle \in Nat /\ today \in Days /\ rows \in Seq(Rows)
        /\ DOMAIN files \subseteq Days /\ FileMode \in Nat
    BY LoggerAssumption DEF Days, Typed, FileInv, Rows
  <1>2. kept \in Seq(Lines)
    BY FilteredIs
  <1>3. \A d \in Days : /\ LinesOf(d) \in Seq(Lines)
                        /\ LinesOf(d)' = LinesOf(d) \o (IF d = today THEN kept ELSE <<>>)
    BY <1>1, LinesOfTyped, LinesOfGrow
  <1>4. \A d \in Days : d # today => LinesOf(d)' = LinesOf(d)
    BY <1>3, ConcatEmptySeq
  <1>5. files' = IF FileMode = 0 \/ kept = <<>> THEN files
                 ELSE [d \in DOMAIN files \cup {today} |->
                         IF d = today THEN new ELSE files[d]]
    BY DEF WriteLog, WriteFile
  <1> SUFFICES FileKeepsLastLines' /\ DOMAIN files' \subseteq Days
               /\ (FileMode = 0 => DOMAIN files' = {})
    BY DEF FileInv
  <1> HIDE DEF kept
  <1>6. CASE FileMode = 0
    <2>1. DOMAIN files' = {} /\ ~(FileMode > 0)
      BY <1>5, <1>6 DEF FileInv
    <2> QED
      BY <2>1 DEF FileKeepsLastLines
  <1>7. CASE FileMode # 0 /\ kept = <<>>
    <2>1. files' = files
      BY <1>5, <1>7
    <2>2. \A d \in Days : LinesOf(d)' = LinesOf(d)
      BY <1>3, <1>4, <1>7, ConcatEmptySeq
    <2>3. FileKeepsLastLines'
      BY <2>1, <2>2 DEF FileInv, FileKeepsLastLines, LastLines
    <2> QED
      BY <1>7, <2>1, <2>3 DEF FileInv
  <1>8. CASE FileMode # 0 /\ kept # <<>>
    <2>1. /\ DOMAIN files' = DOMAIN files \cup {today}
          /\ files'[today] = new
          /\ \A d \in DOMAIN files : d # today => files'[d] = files[d]
      BY <1>5, <1>8
    <2>2. FileMode > 0 /\ today - today <= LifeCycle
      BY <1>1, <1>8
    <2>3. old = LastLines(LinesOf(today))
      <3>1. CASE today \in DOMAIN files
        BY <1>1, <3>1 DEF FileInv, FileKeepsLastLines
      <3>2. CASE today \notin DOMAIN files
        <4>1. LinesOf(today) = <<>>
          BY <1>1, <2>2, <3>2 DEF FileInv, FileKeepsLastLines
        <4>2. LastLines(<<>>) = <<>>
          <5>1. Len(<<>>) = 0 /\ MaxLines \in Nat
            BY LimitIs
          <5> QED
            BY <5>1 DEF LastLines
        <4> QED
          BY <3>2, <4>1, <4>2
      <3> QED
        BY <3>1, <3>2
    <2>4. new = LastLines(LinesOf(today) \o kept)
      <3> HIDE DEF old
      <3>1. CASE MaxLines = 0
        BY <2>3, <3>1 DEF LastLines
      <3>2. CASE MaxLines # 0
        BY <1>1, <1>2, <1>3, <2>3, <3>2, PushLinesKeepLast
      <3> QED
        BY <3>1, <3>2
    <2> HIDE DEF new, old
    <2>5. LinesOf(today)' = LinesOf(today) \o kept
      BY <1>1, <1>3
    <2>6. FileKeepsLastLines'
      <3> SUFFICES ASSUME NEW d \in Days
                   PROVE  /\ FileMode > 0 /\ LinesOf(d)' # <<>> /\ today' - d <= LifeCycle
                               => d \in DOMAIN files'
                          /\ d \in DOMAIN files' => files'[d] = LastLines(LinesOf(d)')
        BY DEF FileKeepsLastLines, LastLines
      <3>1. CASE d = today
        BY <2>1, <2>4, <2>5, <3>1
      <3>2. CASE d # today
        <4>1. /\ FileMode > 0 /\ LinesOf(d) # <<>> /\ today - d <= LifeCycle
                   => d \in DOMAIN files
              /\ d \in DOMAIN files => files[d] = LastLines(LinesOf(d))
          BY DEF FileInv, FileKeepsLastLines
        <4> QED
          BY <1>4, <2>1, <3>2, <4>1
      <3> QED
        BY <3>1, <3>2
    <2> QED
      BY <1>1, <1>8, <2>1, <2>6
  <1> QED
    BY <1>6, <1>7, <1>8

LEMMA FileInvInit == Init => FileInv
  <1> SUFFICES ASSUME Init PROVE FileInv
    OBVIOUS
  <1>1. DOMAIN files = {} /\ 0 \in 0 .. MaxStarts
    BY LoggerAssumption DEF Init
  <1>2. \A d \in Days : LinesOf(d) = <<>>
    <2>1. LinesIn(<<>>) = <<>>
      BY DEF LinesIn
    <2> QED
      BY <2>1, FilteredEmpty, LinesOfIs DEF Init
  <1>3. FileKeepsLastLines
    BY <1>1, <1>2 DEF FileKeepsLastLines
  <1> QED
    BY <1>1, <1>3 DEF FileInv, Init

LEMMA FileInvNext ==
  ASSUME EpochDays <= 0, IInv, FileInv, [Next]_vars
  PROVE  FileInv'
  <1>1. Typed /\ batch \in Seq(Lines)
    BY SeqMonotonic DEF IInv, Typed, Lines
  <1>2. starts \in 0 .. MaxStarts /\ dropped \subseteq Messages
    BY DEF FileInv
  <1>3. CASE \E m \in Messages : WriteTest(m)
    BY <1>2, <1>3, FilesStay DEF WriteTest
  <1>4. CASE WritePush \/ SpuriousWake \/ Stop \/ Proceed \/ UNCHANGED vars
    <2>1. UNCHANGED <<files, rows, today, interval, starts, dropped>>
      BY <1>4 DEF WritePush, SpuriousWake, ThreadUnchanged, Stop, RaiseStop, OwnerUnchanged,
         Proceed, StopNotify, StopJoin, StopReset, StartThread, vars
    <2> QED
      BY <1>2, <2>1, FilesStay
  <1>5. CASE Start
    <2>1. UNCHANGED <<files, rows, today, interval, dropped>>
      BY <1>5 DEF Start, RaiseStop, OwnerUnchanged
    <2>2. starts' \in 0 .. MaxStarts
      BY <1>2, <1>5, LoggerAssumption DEF Start
    <2> QED
      BY <1>2, <2>1, <2>2, FilesStay
  <1>6. CASE Run
    <2>1. UNCHANGED <<interval, starts, dropped, today>>
      BY <1>6 DEF Run, CleanFirst, WriteStart, LoopHead, LockAndTest, Block, TimeOut,
         LockAfterTimeOut, WriteBatch, WriteStop, CleanLast, ThreadUnchanged
    <2>2. CASE CleanFirst \/ CleanLast
      BY <1>1, <2>1, <2>2, CleaningKeepsFiles DEF CleanFirst, CleanLast
    <2>3. CASE WriteStart \/ WriteBatch \/ WriteStop
      BY <1>1, <2>1, <2>3, MarksAreLines, WritingKeepsFiles DEF WriteStart, WriteBatch, WriteStop
    <2>4. CASE LoopHead \/ LockAndTest \/ Block \/ TimeOut \/ LockAfterTimeOut
      <3>1. UNCHANGED <<files, rows>>
        BY <2>4 DEF LoopHead, LockAndTest, Block, TimeOut, LockAfterTimeOut
      <3> QED
        BY <1>2, <2>1, <3>1, FilesStay
    <2> QED
      BY <1>6, <2>2, <2>3, <2>4 DEF Run
  <1>7. CASE DayPasses
    <2>1. today' \in Days /\ today <= today'
      BY <1>1, <1>7, LoggerAssumption DEF DayPasses, Typed, Days
    <2> QED
      BY <1>1, <1>7, <2>1, DayKeepsFiles DEF DayPasses
  <1> QED
    BY <1>3, <1>4, <1>5, <1>6, <1>7 DEF Next

\* When the clock of the files is not behind that of the system, the file of a
\* day is there until it is older than life_cycle_period_ days and holds the
\* last max_lines_ of the lines that file_mode_ lets through on that day, for
\* any sequence of writes, starts and stops (Logger.cpp:346-399, 456-500).
THEOREM FilesAreKept ==
  ASSUME EpochDays <= 0
  PROVE  Spec => []LoggerInv
  <1>1. Init => IInv /\ FileInv
    BY InvInit, FileInvInit
  <1>2. IInv /\ FileInv /\ [Next]_vars => (IInv /\ FileInv)'
    BY InvNext, FileInvNext
  <1>3. IInv /\ FileInv => LoggerInv
    <2> SUFFICES ASSUME IInv, FileInv PROVE TypeOK
      BY DEF FileInv, LoggerInv
    <2>1. \A d \in DOMAIN files : files[d] \in Seq(Lines)
      BY LinesOfTyped, LastIs DEF FileInv, FileKeepsLastLines, IInv, Typed, Rows
    <2> QED
      BY <2>1 DEF TypeOK, IInv, Typed, FileInv
  <1> QED
    BY <1>1, <1>2, <1>3, PTL DEF Spec
=============================================================================
