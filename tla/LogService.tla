------------------------------ MODULE LogService ------------------------------
(***************************************************************************)
(* What an asynchronous logger promises, with no thread and no lock in it: *)
(* messages are taken over one at a time and reach the log in that order,  *)
(* each once, and only between the two marks of a session.                 *)
(***************************************************************************)
EXTENDS Naturals, Sequences, Functions

CONSTANTS Messages, StartMark, StopMark

VARIABLES buffered,  \* messages taken over and not written
          written,   \* everything in the log
          open       \* whether a session is open

serviceVars == <<buffered, written, open>>

Init ==
  /\ buffered = <<>>
  /\ written = <<>>
  /\ open = FALSE

Accept(m) ==
  /\ m \notin Range(buffered) \cup Range(written)
  /\ buffered' = Append(buffered, m)
  /\ UNCHANGED <<written, open>>

Open ==
  /\ ~open
  /\ open' = TRUE
  /\ written' = Append(written, StartMark)
  /\ UNCHANGED buffered

Flush(n) ==
  /\ open
  /\ written' = written \o SubSeq(buffered, 1, n)
  /\ buffered' = SubSeq(buffered, n + 1, Len(buffered))
  /\ UNCHANGED open

Close ==
  /\ open
  /\ open' = FALSE
  /\ written' = Append(written, StopMark)
  /\ UNCHANGED buffered

Next ==
  \/ \E m \in Messages : Accept(m)
  \/ \E n \in 1 .. Len(buffered) : Flush(n)
  \/ Open
  \/ Close

Spec == Init /\ [][Next]_serviceVars
=============================================================================
