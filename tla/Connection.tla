------------------------------ MODULE Connection ------------------------------
(***************************************************************************)
(* A NetworkClient and the NetworkSession that serves it: the handshake,   *)
(* the pipelines of jobs a message passes at either end (DataHandler.cpp   *)
(* 325-353 and 641-744), and the end of the connection.  Every job is      *)
(* taken by one of the workers of its end's ThreadPool; the pool is used   *)
(* as module JobService describes it, the socket as OrderedChannel does.   *)
(* USE_ENCRYPT_MODULE is defined: NetworkClient.cpp needs it to compile.   *)
(***************************************************************************)
EXTENDS Naturals, Sequences, FiniteSets, SequencesExt

CONSTANTS Workers,     \* the workers of each end's pool that take data jobs
          Serves,      \* [Workers -> sequences of priorities]
          Messages,    \* [Ends -> sets of messages]: what each end may send
          FileOf,      \* the file that follows a message that starts a transfer
          EncryptMode, \* encrypt_mode_ of the server
          MayEnd,      \* what may end a connection: "network", "client"
          None

Ends == {"client", "session"}
Peer(e) == IF e = "client" THEN "session" ELSE "client"
Priorities == {"Top", "High", "Normal", "Low"}

Handshake == {"request", "accepted", "refused"}

\* The messages, the files and the handshake are told apart.
ASSUME ConnectionAssumption ==
  /\ Serves \in [Workers -> Seq(Priorities)]
  /\ EncryptMode \in BOOLEAN
  /\ MayEnd \subseteq {"network", "client"}
  /\ Messages["client"] \cap Messages["session"] = {}
  /\ None \notin Messages["client"] \cup Messages["session"]
  /\ \A e \in Ends : Messages[e] \cap Handshake = {}
  /\ \A m, n \in DOMAIN FileOf : FileOf[m] = FileOf[n] => m = n
  /\ \A m \in DOMAIN FileOf : \A e \in Ends : FileOf[m] \notin Messages[e] \cup Handshake

VARIABLES
  condition,  \* condition_ of each end
  queue,      \* per end and priority, the jobs of its pool
  closed,     \* the pool of an end is locked and stopped
  doing,      \* per end and worker, the job it works on and the next step
  reader,     \* the io thread of each end: "ready", "expiring" or "done"
  stream,     \* per end, the messages on the socket towards it
  up,         \* the connection is neither broken nor closed by an end
  sameKey,    \* the client has registered the key of the server
  cipher,     \* per end, it has the key and is in encrypt mode
  sent,       \* history: per end, the messages its send() accepted
  received,   \* history: per end, the messages its application was given
  told,       \* per end, what its application was told of the connection
  ender,      \* what may end the connection: one of MayEnd
  troubled,   \* history: the network or the client has ended the connection
  revived,    \* history: an end that had expired was confirmed
  clear       \* history: application data that left an end unencrypted

link == <<stream, up, sameKey, ender>>
traffic == <<sent, received>>
marks == <<troubled, revived, clear>>
vars == <<condition, queue, closed, doing, reader, link, cipher, traffic, told,
          marks>>

PriorityOf(do) ==
  CASE do \in {"encrypt", "decrypt", "notify"} -> "Normal"
    [] do \in {"compress", "receive"} -> "High"
    [] do = "send" -> "Top"
    [] do \in {"decompress", "file"} -> "Low"

Job(do, what, sealed) == [do |-> do, what |-> what, sealed |-> sealed]
Idle == [job |-> None, step |-> "idle"]

Init ==
  /\ condition = [e \in Ends |-> "None"]
  /\ queue = [e \in Ends |-> [p \in Priorities |-> <<>>]]
  /\ closed = [e \in Ends |-> FALSE]
  /\ doing = [e \in Ends |-> [w \in Workers |-> Idle]]
  /\ reader = [e \in Ends |-> "ready"]
  /\ stream = [e \in Ends |-> <<>>] /\ up = TRUE /\ sameKey \in BOOLEAN
  /\ ender \in MayEnd
  /\ cipher = [e \in Ends |-> FALSE]
  /\ sent = [e \in Ends |-> <<>>] /\ received = [e \in Ends |-> <<>>]
  /\ told = [e \in Ends |-> <<>>]
  /\ troubled = FALSE /\ revived = FALSE /\ clear = {}

\* ThreadPool::push(): a locked pool refuses the job.
Queued(q, e, job) ==
  IF closed[e] THEN q
  ELSE [q EXCEPT ![e][PriorityOf(job.do)] = Append(@, job)]

Push(e, job) == queue' = Queued(queue, e, job)

\* send(): a handshake message goes to compression, data to encryption.
Send(q, e, what) ==
  Queued(q, e, Job(IF what \in Handshake THEN "compress" ELSE "encrypt",
                   what, FALSE))

-----------------------------------------------------------------------------
(* The ends start, and their applications send.                            *)

ClientStarts ==
  /\ condition["client"] = "None"
  /\ condition' = [condition EXCEPT !["client"] = "Waiting"]
  /\ queue' = Send(queue, "client", "request")
  /\ UNCHANGED <<closed, doing, reader, link, cipher, traffic, told, marks>>

SessionStarts ==
  /\ condition["client"] # "None"
  /\ condition["session"] = "None"
  /\ condition' = [condition EXCEPT !["session"] = "Waiting"]
  /\ UNCHANGED <<queue, closed, doing, reader, link, cipher, traffic, told,
                 marks>>

\* Mutant: send_message() does not test that the end is confirmed.
AcceptEarly(e, m) ==
  /\ m \notin ToSet(sent[e])
  /\ condition[e] # "None"
  /\ LET q == Send(queue, e, m)
     IN queue' = IF m \in DOMAIN FileOf
                 THEN Queued(q, e, Job("file", FileOf[m], FALSE)) ELSE q
  /\ sent' = [sent EXCEPT ![e] = Append(@, m)]
  /\ UNCHANGED <<condition, closed, doing, reader, link, cipher, received, told,
                 marks>>

\* send_message(), send_binary(), and send_files() with the message that starts
\* the transfer; its file follows as a job that reads it and calls send().
Accept(e, m) ==
  /\ m \notin ToSet(sent[e])
  /\ condition[e] = "Confirmed"
  /\ LET q == Send(queue, e, m)
     IN queue' = IF m \in DOMAIN FileOf
                 THEN Queued(q, e, Job("file", FileOf[m], FALSE)) ELSE q
  /\ sent' = [sent EXCEPT ![e] = Append(@, m)]
  /\ UNCHANGED <<condition, closed, doing, reader, link, cipher, received, told,
                 marks>>

-----------------------------------------------------------------------------
(* The workers.                                                            *)

Waiting(e, w) == {i \in 1..Len(Serves[w]) : queue[e][Serves[w][i]] # <<>>}

\* Mutant: the youngest job is taken first.
TakeLast(e, w) ==
  /\ doing[e][w] = Idle
  /\ \E i \in Waiting(e, w) :
        /\ \A k \in Waiting(e, w) : i <= k
        /\ LET p == Serves[w][i] IN
           /\ doing' = [doing EXCEPT ![e][w] = [job |-> Last(queue[e][p]),
                                                step |-> "work"]]
           /\ queue' = [queue EXCEPT ![e][p] = Front(@)]
  /\ UNCHANGED <<condition, closed, reader, link, cipher, traffic, told, marks>>

\* JobPool::pop(): the head of the first queue in the worker's order.
Take(e, w) ==
  /\ doing[e][w] = Idle
  /\ \E i \in Waiting(e, w) :
        /\ \A k \in Waiting(e, w) : i <= k
        /\ LET p == Serves[w][i] IN
           /\ doing' = [doing EXCEPT ![e][w] = [job |-> Head(queue[e][p]),
                                                step |-> "work"]]
           /\ queue' = [queue EXCEPT ![e][p] = Tail(@)]
  /\ UNCHANGED <<condition, closed, reader, link, cipher, traffic, told, marks>>

At(e, w, do, step) == doing[e][w].step = step /\ doing[e][w].job.do = do
What(e, w) == doing[e][w].job.what
Done(e, w) == doing' = [doing EXCEPT ![e][w] = Idle]
Goes(e, w, step) == doing' = [doing EXCEPT ![e][w].step = step]

\* The stages that turn a job into one of the next stage.  An expired end
\* drops the message.  Data is encrypted when the key is there and left as it
\* is otherwise; a message that was not encrypted cannot be decrypted.
Stage(e, w) ==
  LET job == doing[e][w].job
      Becomes(do, sealed) ==
        IF condition[e] = "Expired" THEN UNCHANGED queue
        ELSE Push(e, Job(do, job.what, sealed))
  IN /\ doing[e][w].step = "work"
     /\ \/ job.do = "encrypt" /\ Becomes("compress", cipher[e])
        \/ job.do = "compress" /\ Becomes("send", job.sealed)
        \/ job.do = "decompress" /\ Becomes("decrypt", job.sealed)
        \/ job.do = "decrypt" /\ (cipher[e] => job.sealed)
                              /\ Becomes("receive", job.sealed /\ ~cipher[e])
        \/ job.do = "decrypt" /\ cipher[e] /\ ~job.sealed /\ UNCHANGED queue
     /\ Done(e, w)
     /\ UNCHANGED <<condition, closed, reader, link, cipher, traffic, told,
                    marks>>

\* FileSendingJob: reads the file and calls send().
SendFile(e, w) ==
  /\ At(e, w, "file", "work")
  /\ queue' = Send(queue, e, What(e, w))
  /\ sent' = [sent EXCEPT ![e] = Append(@, What(e, w))]
  /\ Done(e, w)
  /\ UNCHANGED <<condition, closed, reader, link, cipher, received, told, marks>>

\* SendingJob: a socket that is closed throws, and the message is gone.
WriteSocket(e, w) ==
  /\ At(e, w, "send", "work")
  /\ LET job == doing[e][w].job IN
     /\ stream' = IF up THEN [stream EXCEPT ![Peer(e)] = Append(@, job)]
                  ELSE stream
     /\ clear' = IF up /\ ~job.sealed /\ job.what \notin Handshake
                 THEN clear \cup {job.what} ELSE clear
  /\ Done(e, w)
  /\ UNCHANGED <<condition, queue, closed, reader, up, sameKey, ender, cipher,
                 traffic, told, troubled, revived>>

\* condition(Expired) has seen another condition: the test and the assignment
\* are two steps.
WillExpire(e) == condition[e] # "Expired"

\* response_connection(false): a new key, a job for the server, and a refusal,
\* which the compression of an expired session drops.
Refuse ==
  /\ cipher' = [cipher EXCEPT !["session"] = EncryptMode]
  /\ queue' = Send(Queued(queue, "session", Job("notify", FALSE, FALSE)),
                   "session", "refused")

\* The assignment, and disconnected(): the client forgets the key and calls its
\* application.
Expire(e) ==
  /\ condition' = [condition EXCEPT ![e] = "Expired"]
  /\ IF e = "client"
     THEN /\ cipher' = [cipher EXCEPT ![e] = FALSE]
          /\ told' = [told EXCEPT ![e] = Append(@, FALSE)]
          /\ UNCHANGED queue
     ELSE Refuse /\ UNCHANGED told

\* ReceivingJob: unreadable data fails; data before the end is Confirmed
\* expires it; other data goes to the application.
ReceiveData(e, w) ==
  /\ At(e, w, "receive", "work")
  /\ What(e, w) \notin Handshake
  /\ LET readable == ~doing[e][w].job.sealed
         confirmed == condition[e] = "Confirmed"
     IN /\ received' = IF readable /\ confirmed
                       THEN [received EXCEPT ![e] = Append(@, What(e, w))]
                       ELSE received
        /\ IF readable /\ ~confirmed /\ WillExpire(e)
           THEN Goes(e, w, "expire") ELSE Done(e, w)
  /\ UNCHANGED <<condition, queue, closed, reader, link, cipher, sent, told,
                 marks>>

WorkerExpires(e, w) ==
  /\ doing[e][w].step = "expire"
  /\ Expire(e)
  /\ IF What(e, w) = "request" THEN Goes(e, w, "refuse") ELSE Done(e, w)
  /\ UNCHANGED <<closed, reader, link, traffic, marks>>

\* received_connection(): the test.  The messages are the request and its
\* acceptance; a refusal never leaves the session (see Refuse).
ReceiveHandshake(e, w) ==
  /\ At(e, w, "receive", "work")
  /\ What(e, w) \in Handshake
  /\ IF condition[e] = "Waiting" THEN Goes(e, w, "confirm") ELSE Done(e, w)
  /\ UNCHANGED <<condition, queue, closed, reader, link, cipher, traffic, told,
                 marks>>

\* The assignment does not look at what the end has become since the test.
Confirm(e) ==
  /\ condition' = [condition EXCEPT ![e] = "Confirmed"]
  /\ revived' = (revived \/ condition[e] = "Expired")

\* Mutant: the key is not compared.
SessionConfirmsAnyKey(w) ==
  /\ At("session", w, "receive", "confirm")
  /\ Confirm("session")
  /\ Goes("session", w, "notify")
  /\ UNCHANGED <<queue, closed, reader, link, cipher, traffic, told, troubled,
                 clear>>

\* The session is confirmed before it has a key and before the client knows.
\* A wrong key expires it, and is then refused a second time.
SessionConfirms(w) ==
  /\ At("session", w, "receive", "confirm")
  /\ IF sameKey THEN Confirm("session") /\ Goes("session", w, "notify")
     ELSE /\ UNCHANGED <<condition, revived>>
          /\ Goes("session", w,
                  IF WillExpire("session") THEN "expire" ELSE "refuse")
  /\ UNCHANGED <<queue, closed, reader, link, cipher, traffic, told, troubled,
                 clear>>

SessionRefuses(w) ==
  /\ At("session", w, "receive", "refuse")
  /\ Refuse
  /\ Done("session", w)
  /\ UNCHANGED <<condition, closed, reader, link, traffic, told, marks>>

\* Mutant: no key is created.
SessionNotifiesWithoutKey(w) ==
  /\ At("session", w, "receive", "notify")
  /\ Push("session", Job("notify", TRUE, FALSE))
  /\ Goes("session", w, "reply")
  /\ UNCHANGED <<condition, closed, reader, link, cipher, traffic, told, marks>>

\* response_connection(true): the key, the server's job, and then the reply.
SessionNotifies(w) ==
  /\ At("session", w, "receive", "notify")
  /\ cipher' = [cipher EXCEPT !["session"] = EncryptMode]
  /\ Push("session", Job("notify", TRUE, FALSE))
  /\ Goes("session", w, "reply")
  /\ UNCHANGED <<condition, closed, reader, link, traffic, told, marks>>

SessionReplies(w) ==
  /\ At("session", w, "receive", "reply")
  /\ queue' = Send(queue, "session", "accepted")
  /\ Done("session", w)
  /\ UNCHANGED <<condition, closed, reader, link, cipher, traffic, told, marks>>

\* The client takes the key, then confirms and has its application told.
ClientTakesKey(w) ==
  /\ At("client", w, "receive", "confirm")
  /\ cipher' = [cipher EXCEPT !["client"] = EncryptMode]
  /\ Goes("client", w, "assign")
  /\ UNCHANGED <<condition, queue, closed, reader, link, traffic, told, marks>>

ClientConfirms(w) ==
  /\ At("client", w, "receive", "assign")
  /\ Confirm("client")
  /\ Push("client", Job("notify", TRUE, FALSE))
  /\ Done("client", w)
  /\ UNCHANGED <<closed, reader, link, cipher, traffic, told, troubled, clear>>

\* The application is told: by the ConnectionJob of a client, by way of the
\* pool of the server for a session.
Notify(e, w) ==
  /\ At(e, w, "notify", "work")
  /\ told' = [told EXCEPT ![e] = Append(@, What(e, w))]
  /\ Done(e, w)
  /\ UNCHANGED <<condition, queue, closed, reader, link, cipher, traffic, marks>>

Work(e, w) ==
  \/ Take(e, w) \/ Stage(e, w) \/ SendFile(e, w) \/ WriteSocket(e, w)
  \/ ReceiveData(e, w) \/ WorkerExpires(e, w) \/ ReceiveHandshake(e, w)
  \/ Notify(e, w)
  \/ e = "session" /\ (SessionConfirms(w) \/ SessionRefuses(w)
                       \/ SessionNotifies(w) \/ SessionReplies(w))
  \/ e = "client" /\ (ClientTakesKey(w) \/ ClientConfirms(w))

-----------------------------------------------------------------------------
(* The io thread of an end.                                                *)

Reading(e) == condition[e] \notin {"None", "Expired"} /\ reader[e] = "ready"

\* Mutant: the next start code is not read.
ReadSocketOnce(e) ==
  /\ Reading(e)
  /\ stream[e] # <<>>
  /\ Push(e, [Head(stream[e]) EXCEPT !.do = "decompress"])
  /\ stream' = [stream EXCEPT ![e] = Tail(@)]
  /\ reader' = [reader EXCEPT ![e] = "done"]
  /\ UNCHANGED <<condition, closed, doing, up, sameKey, ender, cipher, traffic,
                 told, marks>>

ReadSocket(e) ==
  /\ Reading(e)
  /\ stream[e] # <<>>
  /\ Push(e, [Head(stream[e]) EXCEPT !.do = "decompress"])
  /\ stream' = [stream EXCEPT ![e] = Tail(@)]
  /\ UNCHANGED <<condition, closed, doing, reader, up, sameKey, ender, cipher,
                 traffic, told, marks>>

\* Mutant: the error is not taken as the end of the connection.
ReadFailsSilently(e) ==
  /\ Reading(e)
  /\ ~up /\ stream[e] = <<>>
  /\ reader' = [reader EXCEPT ![e] = "done"]
  /\ UNCHANGED <<condition, queue, closed, doing, link, cipher, traffic, told,
                 marks>>

ReadFails(e) ==
  /\ Reading(e)
  /\ ~up /\ stream[e] = <<>>
  /\ reader' = [reader EXCEPT ![e] = "expiring"]
  /\ UNCHANGED <<condition, queue, closed, doing, link, cipher, traffic, told,
                 marks>>

ReaderExpires(e) ==
  /\ reader[e] = "expiring"
  /\ Expire(e)
  /\ reader' = [reader EXCEPT ![e] = "done"]
  /\ UNCHANGED <<closed, doing, link, traffic, marks>>

Io(e) == ReadSocket(e) \/ ReadFails(e) \/ ReaderExpires(e)

-----------------------------------------------------------------------------
(* The end of the connection.                                              *)

\* What is on its way still arrives, or is gone.
Break ==
  /\ ender = "network"
  /\ up
  /\ up' = FALSE
  /\ troubled' = TRUE
  /\ stream' \in {stream, [e \in Ends |-> <<>>]}
  /\ UNCHANGED <<condition, queue, closed, doing, reader, sameKey, ender, cipher,
                 traffic, told, revived, clear>>

\* NetworkClient::stop(): first condition(Expired, true) ...
ClientStops ==
  /\ ender = "client"
  /\ condition["client"] \in {"Waiting", "Confirmed"}
  /\ Expire("client")
  /\ troubled' = TRUE
  /\ UNCHANGED <<closed, doing, reader, link, traffic, revived, clear>>

\* Mutant: the socket of a session stays open.
CloseKeepsSocket(e) ==
  /\ condition[e] = "Expired"
  /\ ~closed[e]
  /\ e = "session" => Contains(told[e], FALSE)
  /\ closed' = [closed EXCEPT ![e] = TRUE]
  /\ queue' = [queue EXCEPT ![e] = [p \in Priorities |-> <<>>]]
  /\ up' = (up /\ e = "session")
  /\ troubled' = TRUE
  /\ UNCHANGED <<condition, doing, reader, stream, sameKey, ender, cipher,
                 traffic, told, revived, clear>>

\* ... then the socket and the pool are destroyed.  The server stops a session
\* that it finds expired when it has been told.
Close(e) ==
  /\ condition[e] = "Expired"
  /\ ~closed[e]
  /\ e = "session" => Contains(told[e], FALSE)
  /\ closed' = [closed EXCEPT ![e] = TRUE]
  /\ queue' = [queue EXCEPT ![e] = [p \in Priorities |-> <<>>]]
  /\ up' = FALSE
  /\ troubled' = TRUE
  /\ stream' = [stream EXCEPT ![e] = <<>>]
  /\ UNCHANGED <<condition, doing, reader, sameKey, ender, cipher, traffic, told,
                 revived, clear>>

Next ==
  \/ ClientStarts \/ SessionStarts \/ Break \/ ClientStops
  \/ \E e \in Ends :
       \/ \E m \in Messages[e] : Accept(e, m)
       \/ \E w \in Workers : Work(e, w)
       \/ Io(e) \/ Close(e)

Spec == Init /\ [][Next]_vars

\* The client starts, the server accepts; workers and io threads go on; a
\* server closes the session it was told of.
FairSpec ==
  /\ Spec
  /\ WF_vars(ClientStarts) /\ WF_vars(SessionStarts)
  /\ \A e \in Ends : WF_vars(Io(e)) /\ \A w \in Workers : WF_vars(Work(e, w))
  /\ WF_vars(Close("session"))

-----------------------------------------------------------------------------
(* Properties.                                                             *)

TypeOK ==
  /\ condition \in [Ends -> {"None", "Waiting", "Confirmed", "Expired"}]
  /\ DOMAIN queue = Ends /\ closed \in [Ends -> BOOLEAN]
  /\ \A e \in Ends : \A p \in Priorities : \A i \in 1..Len(queue[e][p]) :
        PriorityOf(queue[e][p][i].do) = p
  /\ reader \in [Ends -> {"ready", "expiring", "done"}]
  /\ cipher \in [Ends -> BOOLEAN]
  /\ up \in BOOLEAN /\ sameKey \in BOOLEAN

\* Each end is given what the other end's send() accepted, in that order, each
\* message once; none is skipped until the connection is in trouble.  At both
\* ends every stage of the pipeline is a job of its own (DataHandler.cpp:659).
ClientToSession == INSTANCE OrderedChannel
  WITH sent <- sent["client"], received <- received["session"],
       lossy <- troubled
SessionToClient == INSTANCE OrderedChannel
  WITH sent <- sent["session"], received <- received["client"],
       lossy <- troubled
KeepsOrder == ClientToSession!Spec /\ SessionToClient!Spec

\* An end expires because the network or the client has ended the connection,
\* or the key was wrong; never because data has overtaken the reply of the
\* handshake (NetworkClient.cpp:409).
ExpiresWithCause ==
  (\E e \in Ends : condition[e] = "Expired") => (troubled \/ ~sameKey)

\* A client with a wrong key is never confirmed, and nothing that is sent
\* reaches an application.
WrongKeyStaysOut ==
  ~sameKey => \A e \in Ends : condition[e] # "Confirmed" /\ received[e] = <<>>

HandshakeInv == TypeOK /\ WrongKeyStaysOut

\* In encrypt mode no application data leaves an end unencrypted, except from
\* an end that was confirmed after it had expired and lost its key.
DataIsEncrypted == EncryptMode => (clear = {} \/ revived)

\* A client does not wait for ever: it is confirmed, or it expires, also when
\* its key is wrong and the refusal is never sent.
WaitingEnds == condition["client"] = "Waiting" ~> condition["client"] # "Waiting"

\* What the ends accept arrives while nothing ends the connection.
AllArrive ==
  []<>(troubled \/ \A e \in Ends : Len(received[Peer(e)]) = Len(sent[e]))

\* When the connection is broken both applications are told, and the server
\* drops its session, unless it was confirmed after it had expired.
BreakIsTold ==
  ~up ~> /\ Contains(told["client"], FALSE)
         /\ \/ condition["session"] = "None"
            \/ /\ Contains(told["session"], FALSE)
               /\ closed["session"] \/ revived
=============================================================================
