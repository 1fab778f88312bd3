--------------------------- MODULE OrderedChannel ---------------------------
(***************************************************************************)
(* What one direction of a connection promises to the two applications:    *)
(* the messages arrive in the order in which they were accepted, each at   *)
(* most once and unchanged.  While the channel is not lossy none is        *)
(* skipped.  Nothing is said of how a message travels.                     *)
(***************************************************************************)
EXTENDS Naturals, Sequences

VARIABLES
  sent,      \* the messages accepted from the sender
  received,  \* the messages handed to the receiver
  lossy      \* TRUE from the moment the channel may skip messages

vars == <<sent, received, lossy>>

\* The place in sent of the last message handed over.  Messages are distinct.
Taken == IF received = <<>> THEN 0
         ELSE CHOOSE k \in 1..Len(sent) : sent[k] = received[Len(received)]

Init == sent = <<>> /\ received = <<>> /\ lossy \in BOOLEAN

AcceptOne ==
  /\ Len(sent') = Len(sent) + 1
  /\ SubSeq(sent', 1, Len(sent)) = sent
  /\ UNCHANGED <<received, lossy>>

Deliver ==
  /\ \E k \in (Taken + 1)..Len(sent) :
        /\ k = Taken + 1 \/ lossy
        /\ received' = Append(received, sent[k])
  /\ UNCHANGED <<sent, lossy>>

BecomeLossy == ~lossy /\ lossy' = TRUE /\ UNCHANGED <<sent, received>>

Next == AcceptOne \/ Deliver \/ BecomeLossy

Spec == Init /\ [][Next]_vars
=============================================================================
