----------------------------- MODULE SessionTable -----------------------------
(***************************************************************************)
(* What Network/NetworkServer.cpp does with the vector of its sessions:    *)
(* send_binary(), send_message() and send_files() go through it, and       *)
(* drop_session() and drop_sessions(id) take sessions out.  A session is   *)
(* its id, its sub id and whether its send functions accept data.          *)
(***************************************************************************)
EXTENDS Integers, Sequences, Functions

CONSTANT Anybody  \* the empty id

Matches(session, id, subId) ==
  \/ id = Anybody
  \/ session.id = id /\ (subId = Anybody \/ session.subId = subId)

\* Mutant: a session that refuses the data is passed over.
SendPast(sessions, id, subId) ==
  [reached |-> {i \in DOMAIN sessions : Matches(sessions[i], id, subId) /\ sessions[i].up},
   result  |-> \A i \in DOMAIN sessions : Matches(sessions[i], id, subId) => sessions[i].up]

\* The loop over the sessions; the first one that refuses ends it.
Send(sessions, id, subId) ==
  LET rest[i \in 1 .. Len(sessions) + 1] ==
        IF i > Len(sessions) THEN [reached |-> {}, result |-> TRUE]
        ELSE IF ~Matches(sessions[i], id, subId) THEN rest[i + 1]
        ELSE IF ~sessions[i].up THEN [reached |-> {}, result |-> FALSE]
        ELSE [rest[i + 1] EXCEPT !.reached = @ \cup {i}]
  IN  rest[1]

\* The loop that puts the sessions back, but for those to be dropped.
Remaining(sessions, dropped) ==
  LET kept[i \in 0 .. Len(sessions)] ==
        IF i = 0 THEN <<>>
        ELSE IF i \in dropped THEN kept[i - 1] ELSE Append(kept[i - 1], sessions[i])
  IN  kept[Len(sessions)]

DropSession(sessions, id, subId) ==
  Remaining(sessions, {i \in DOMAIN sessions : sessions[i].id = id /\ sessions[i].subId = subId})

DropSessions(sessions, id) == Remaining(sessions, {i \in DOMAIN sessions : sessions[i].id = id})

(***************************************************************************)
(* A send that succeeds has reached every session it is for; one that      *)
(* fails has reached those in front of the first session that refused, and *)
(* nobody behind it: one session that has not been confirmed yet, or has   *)
(* expired and is still in the vector, cuts the later ones off.            *)
(***************************************************************************)
StopsAtRefusal(sessions, id, subId) ==
  LET send    == Send(sessions, id, subId)
      for     == {i \in DOMAIN sessions : Matches(sessions[i], id, subId)}
      refuses == {i \in for : ~sessions[i].up}
  IN  /\ send.result <=> refuses = {}
      /\ send.reached = {i \in for : \A k \in refuses : i < k}

\* Who was dropped cannot be reached, and nobody else is lost.
DroppedIsGone(sessions, id, subId) ==
  LET one == DropSession(sessions, id, subId)
      all == DropSessions(sessions, id)
  IN  /\ id # Anybody => Send(all, id, subId).reached = {}
      /\ id # Anybody /\ subId # Anybody => Send(one, id, subId).reached = {}
      /\ Range(all) = {s \in Range(sessions) : s.id # id}
      /\ Range(one) = {s \in Range(sessions) : ~(s.id = id /\ s.subId = subId)}
=============================================================================
