------------------------------- MODULE Framing -------------------------------
(***************************************************************************)
(* One direction of a connection on the socket: SendingJob.cpp writes a    *)
(* message as start tag, length, data and end tag; the read_* chain of     *)
(* DataHandler.cpp (355-620) takes the stream apart again.  A write may be *)
(* short and the connection may break at any byte.                         *)
(***************************************************************************)
EXTENDS Integers, Sequences, FiniteSets, SequencesExt

CONSTANTS Payloads,     \* the messages: non-empty sequences of bytes
          SendBuffer,   \* buffer_size_ of the sender
          ReadBuffer,   \* buffer_size_ of the reader
          MaxShort      \* bound: how many short writes of a tag or length

\* Above every length of a message.
Unfilled == 256 * 256

ASSUME FramingAssumption ==
  /\ Payloads \subseteq Seq(0..255) \ {<<>>}
  /\ \A m \in Payloads : Len(m) < Unfilled
  /\ SendBuffer \in Nat \ {0}
  /\ ReadBuffer \in Nat \ {0}
  /\ MaxShort \in Nat

VARIABLES
  jobs,      \* the SendingJobs queued with priority Top, which one worker runs
  sending,   \* the part of Head(jobs) being written: <<part, bytes written>>
  wire,      \* the bytes written and not read
  open,      \* neither end of the connection has broken it
  reading,   \* the state of the read_* chain
  sent,      \* history: the messages in the order of their SendingJobs
  received,  \* history: the messages pushed as decompress jobs
  cut        \* history: the place in sent of each message cut by a short write

sender == <<jobs, sending>>
vars == <<jobs, sending, wire, open, reading, sent, received, cut>>

Idle == <<"idle", 0>>
StartCode == <<253, 253, 253, 253>>
EndCode == <<252, 252, 252, 252>>
LengthSize == 8

\* Mutant: the length is written most significant byte first.
LengthCodeBig(n) == <<0, 0, 0, 0, 0, 0, n \div 256, n % 256>>

\* memcpy of a uint64_t, little endian; the messages are below 65536 bytes.
LengthCode(n) == <<n % 256, n \div 256, 0, 0, 0, 0, 0, 0>>

\* What the reader makes of eight bytes.  Bytes that are no length of the
\* sender's make one that the stream never fills.
LengthOf(code) == IF \A i \in 3..LengthSize : code[i] = 0
                  THEN code[1] + 256 * code[2] ELSE Unfilled

Init ==
  /\ jobs = <<>> /\ sending = Idle
  /\ wire = <<>> /\ open = TRUE
  /\ reading = [at |-> "start", matched |-> 0, need |-> 0, data |-> <<>>]
  /\ sent = <<>> /\ received = <<>> /\ cut = {}

-----------------------------------------------------------------------------
(* The sender: SendingJob::working().                                      *)

PushSendingJob(m) ==
  /\ m \notin ToSet(sent)
  /\ jobs' = Append(jobs, m)
  /\ sent' = Append(sent, m)
  /\ UNCHANGED <<sending, wire, open, reading, received, cut>>

Begin ==
  /\ sending = Idle
  /\ jobs # <<>>
  /\ sending' = <<"start", 0>>
  /\ UNCHANGED <<jobs, wire, open, reading, sent, received, cut>>

\* working() returns, whether it wrote the whole message or gave up.
Leave == sending' = Idle /\ jobs' = Tail(jobs)

Write(bytes, n) == wire' = wire \o SubSeq(bytes, 1, n)
UnderWay == Len(sent) - Len(jobs) + 1

\* One socket_->send() of a tag or of the length; too few bytes end the job.
WriteCode(part, bytes, Whole) ==
  /\ sending[1] = part
  /\ open
  /\ \/ Write(bytes, Len(bytes)) /\ Whole /\ UNCHANGED cut
     \/ \E n \in 1..(Len(bytes) - 1) :
           /\ Cardinality(cut) < MaxShort
           /\ Write(bytes, n) /\ Leave
           /\ cut' = cut \cup {UnderWay}
  /\ UNCHANGED <<open, reading, sent, received>>

SendStart == WriteCode("start", StartCode,
                       sending' = <<"length", 0>> /\ UNCHANGED jobs)
SendLength == WriteCode("length", LengthCode(Len(Head(jobs))),
                        sending' = <<"data", 0>> /\ UNCHANGED jobs)
SendEnd == WriteCode("end", EndCode, Leave)

\* Mutant: send_data() takes a short write of a chunk for the whole chunk.
SendDataOnce ==
  /\ sending[1] = "data"
  /\ open
  /\ LET data == Head(jobs)
         rest == SubSeq(data, sending[2] + 1, Len(data))
         size == IF Len(rest) < SendBuffer THEN Len(rest) ELSE SendBuffer
     IN \E n \in 1..size :
          /\ Write(rest, n)
          /\ sending' = IF size = Len(rest) THEN <<"end", 0>>
                        ELSE <<"data", sending[2] + size>>
  /\ UNCHANGED <<jobs, open, reading, sent, received, cut>>

\* A short write of data is made good by the next turn of the loop.
SendData ==
  /\ sending[1] = "data"
  /\ open
  /\ LET data == Head(jobs)
         rest == SubSeq(data, sending[2] + 1, Len(data))
         size == IF Len(rest) < SendBuffer THEN Len(rest) ELSE SendBuffer
     IN \E n \in 1..size :
          /\ Write(rest, n)
          /\ sending' = IF n = Len(rest) THEN <<"end", 0>>
                        ELSE <<"data", sending[2] + n>>
  /\ UNCHANGED <<jobs, open, reading, sent, received, cut>>

\* send() throws; the exception becomes the result of the job.
SendThrows ==
  /\ sending # Idle
  /\ ~open
  /\ Leave
  /\ UNCHANGED <<wire, open, reading, sent, received, cut>>

-----------------------------------------------------------------------------
(* The reader: one action per completion of an async_read.                 *)

At(state) == reading.at = state /\ UNCHANGED <<jobs, sending, open, sent, cut>>
Consume(n) == wire' = SubSeq(wire, n + 1, Len(wire))

\* Mutant: received_data_ is not cleared.
RestartWithData == [at |-> "start", matched |-> 0, need |-> 0,
                    data |-> reading.data]

\* read_start_code() from the first byte of the tag.
Restart == [at |-> "start", matched |-> 0, need |-> 0, data |-> <<>>]

\* A byte that does not match is dropped, and the matching starts over.
ReadStartCode ==
  /\ At("start")
  /\ wire # <<>>
  /\ Consume(1)
  /\ reading' = IF Head(wire) # StartCode[reading.matched + 1] THEN Restart
                ELSE IF reading.matched + 1 = Len(StartCode)
                     THEN [Restart EXCEPT !.at = "length"]
                ELSE [Restart EXCEPT !.matched = reading.matched + 1]
  /\ UNCHANGED received

ReadData(need, data) ==
  [Restart EXCEPT !.at = IF need = 0 THEN "end" ELSE "data",
                  !.need = need, !.data = data]

ReadLengthCode ==
  /\ At("length")
  /\ Len(wire) >= LengthSize
  /\ Consume(LengthSize)
  /\ reading' = ReadData(LengthOf(SubSeq(wire, 1, LengthSize)), reading.data)
  /\ UNCHANGED received

ReadChunk ==
  /\ At("data")
  /\ LET n == IF reading.need < ReadBuffer THEN reading.need ELSE ReadBuffer
     IN /\ Len(wire) >= n
        /\ Consume(n)
        /\ reading' = ReadData(reading.need - n,
                               reading.data \o SubSeq(wire, 1, n))
  /\ UNCHANGED received

ReadEndCode ==
  /\ At("end")
  /\ wire # <<>>
  /\ Consume(1)
  /\ LET matches == Head(wire) = EndCode[reading.matched + 1]
         last == reading.matched + 1 = Len(EndCode)
     IN /\ reading' = IF matches /\ ~last
                      THEN [reading EXCEPT !.matched = @ + 1] ELSE Restart
        /\ received' = IF matches /\ last THEN Append(received, reading.data)
                       ELSE received

\* What the completion in progress waits for.
Wanted == CASE reading.at = "length" -> LengthSize
            [] reading.at = "data" -> IF reading.need < ReadBuffer
                                      THEN reading.need ELSE ReadBuffer
            [] OTHER -> 1

\* The read completes with an error: condition(Expired), and no further read.
ReadFails ==
  /\ ~open
  /\ reading.at # "expired"
  /\ Len(wire) < Wanted
  /\ wire' = <<>>
  /\ reading' = [Restart EXCEPT !.at = "expired"]
  /\ UNCHANGED <<jobs, sending, open, sent, received, cut>>

\* The connection breaks; what is under way still arrives, or is gone.  (To
\* lose a part of it is to break after the reader has read the other part.)
Break ==
  /\ open
  /\ open' = FALSE
  /\ wire' \in {wire, <<>>}
  /\ UNCHANGED <<jobs, sending, reading, sent, received, cut>>

Sender == Begin \/ SendStart \/ SendLength \/ SendData \/ SendEnd \/ SendThrows
Reader == ReadStartCode \/ ReadLengthCode \/ ReadChunk \/ ReadEndCode \/ ReadFails

Next == (\E m \in Payloads : PushSendingJob(m)) \/ Sender \/ Reader \/ Break

Spec == Init /\ [][Next]_vars

\* The Top worker goes on with its job, and the io_context with its reads.
FairSpec == Spec /\ WF_vars(Sender) /\ WF_vars(Reader)
-----------------------------------------------------------------------------
(* Properties.                                                             *)

TypeOK ==
  /\ jobs \in Seq(Payloads) /\ sent \in Seq(Payloads)
  /\ sending \in {"idle", "start", "length", "data", "end"} \X Nat
  /\ wire \in Seq(0..255)
  /\ open \in BOOLEAN
  /\ reading \in [at : {"start", "length", "data", "end", "expired"},
                  matched : 0..3, need : Nat, data : Seq(0..255)]
  /\ received \in Seq(Seq(0..255))
  /\ cut \subseteq 1..Len(sent)

\* Whatever is written short and wherever the stream breaks, the reader hands
\* on only messages that were sent, whole and in order, each once; and while
\* no write of a tag or length was short it leaves none out.  The reader has
\* to find its place again behind a message that was cut (DataHandler.cpp:403).
Channel == INSTANCE OrderedChannel WITH lossy <- cut # {}
ImplementsOrderedChannel == Channel!Spec

\* The damage of a short write is behind it: no message sent before the first
\* one that was cut is missing when a later one has arrived.
CompleteBeforeCut ==
  \A i, j \in 1..Len(sent) :
     (i < j /\ (\A c \in cut : i < c) /\ Contains(received, sent[j]))
        => Contains(received, sent[i])

WireInv == TypeOK /\ CompleteBeforeCut

\* A connection that stays up delivers every message, also when the socket
\* takes the data a few bytes at a time (SendingJob.cpp:112).
AllArrive ==
  \A k \in 1..Cardinality(Payloads) :
     Len(sent) >= k ~> (Len(received) >= k \/ cut # {} \/ ~open)

=============================================================================
