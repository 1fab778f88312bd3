------------------------------ MODULE FileManager ------------------------------
(***************************************************************************)
(* Network/FileManager.cpp: the receiving end of send_files().  The peer   *)
(* sends a start message with the number of files and one message per      *)
(* file; each passes a pipeline of jobs on several workers at both ends    *)
(* (DataHandler.cpp:641-744), so they are handled in any order, several at *)
(* a time, by the workers of the session's pool.                           *)
(***************************************************************************)
EXTENDS Naturals, Sequences, FiniteSets, Functions

CONSTANTS Guids,    \* the transfers
          Files,    \* the messages of their files
          GuidOf,   \* the transfer a file belongs to
          Broken,   \* the files the sender could not read
          Workers,  \* the threads of the receiving pool
          None

ASSUME FileAssumption ==
  /\ GuidOf \in [Files -> Guids]
  /\ Broken \subseteq Files
  /\ IsFiniteSet(Files)
  /\ None \notin Guids

VARIABLES conditions,   \* file_conditions_: a record per transfer under way
          checking,     \* the guid a worker has recorded a file of, or None
          completions,  \* the check_condition_callback jobs in the pool
          started,      \* transfers whose start message was handled
          handled,      \* files whose message was handled
          lost,         \* history: files turned away, no transfer being known
          reports       \* the calls of the received_files callback

vars == <<conditions, checking, completions, started, handled, lost, reports>>

\* send_files() announces as many files as it sends.
FilesOf(g) == {f \in Files : GuidOf[f] = g}
Announced(g) == Cardinality(FilesOf(g))

Init ==
  /\ conditions = <<>>
  /\ checking = [w \in Workers |-> None]
  /\ completions = <<>>
  /\ started = {}
  /\ handled = {}
  /\ lost = {}
  /\ reports = <<>>

Known(g) == g \in DOMAIN conditions
Idle(w) == checking[w] = None

\* Under mutex_: start() inserts a record.
StartTransfer(w, g) ==
  /\ Idle(w)
  /\ g \notin started
  /\ started' = started \cup {g}
  /\ conditions' = IF Known(g) THEN conditions
                   ELSE [h \in DOMAIN conditions \cup {g} |->
                           IF h = g THEN [count     |-> Announced(g),
                                          failures  |-> <<>>,
                                          successes |-> <<>>]
                                    ELSE conditions[h]]
  /\ UNCHANGED <<checking, completions, handled, lost, reports>>

\* A record with one more file.
WithFile(r, f, failed) ==
  IF failed THEN [r EXCEPT !.failures = Append(@, f)]
            ELSE [r EXCEPT !.successes = Append(@, f)]

\* received_file(): failure() for a file that the sender could not read or
\* that cannot be saved, success() for any other.  Either appends the file
\* under mutex_, releases it, and goes on to check_condition().
Record(w, f, saved) ==
  /\ Idle(w)
  /\ f \notin handled
  /\ handled' = handled \cup {f}
  /\ LET g == GuidOf[f]
     IN  IF Known(g)
         THEN /\ conditions' = [conditions EXCEPT
                                  ![g] = WithFile(@, f, f \in Broken \/ ~saved)]
              /\ checking' = [checking EXCEPT ![w] = g]
              /\ UNCHANGED lost
         ELSE /\ lost' = lost \cup {f}
              /\ UNCHANGED <<conditions, checking>>
  /\ UNCHANGED <<completions, started, reports>>

\* Mutant: the count is compared with an index, which starts at 0.
LastIndex(r) == Len(r.failures) + Len(r.successes) + 1

Arrived(r) == Len(r.failures) + Len(r.successes)

\* Mutant: only the successes are compared with the count.
CheckSuccesses(w) ==
  LET g == checking[w]
  IN  /\ g # None
      /\ checking' = [checking EXCEPT ![w] = None]
      /\ completions' = IF Known(g) /\ conditions[g].count = Len(conditions[g].successes)
                        THEN Append(completions, g) ELSE completions
      /\ UNCHANGED <<conditions, started, handled, lost, reports>>

\* check_condition(), under mutex_ again.
CheckCondition(w) ==
  LET g == checking[w]
  IN  /\ g # None
      /\ checking' = [checking EXCEPT ![w] = None]
      /\ completions' = IF Known(g) /\ conditions[g].count = Arrived(conditions[g])
                        THEN Append(completions, g) ELSE completions
      /\ UNCHANGED <<conditions, started, handled, lost, reports>>

\* Mutant: the record is not erased.
Kept(g) == conditions

Without(g) == [h \in DOMAIN conditions \ {g} |-> conditions[h]]

\* check_condition_callback(): the job of an idle worker.
RunCompletion(w) ==
  /\ Idle(w)
  /\ completions # <<>>
  /\ completions' = Tail(completions)
  /\ LET g == Head(completions)
     IN  IF Known(g)
         THEN /\ conditions' = Without(g)
              /\ reports' = Append(reports, [guid      |-> g,
                                             failures  |-> conditions[g].failures,
                                             successes |-> conditions[g].successes])
         ELSE UNCHANGED <<conditions, reports>>
  /\ UNCHANGED <<checking, started, handled, lost>>

Next ==
  \E w \in Workers :
    \/ \E g \in Guids : StartTransfer(w, g)
    \/ \E f \in Files, saved \in BOOLEAN : Record(w, f, saved)
    \/ CheckCondition(w)
    \/ RunCompletion(w)

Spec == Init /\ [][Next]_vars

\* A worker completes what it began, and the pool runs its jobs; nothing
\* makes the peer send.
FairSpec ==
  /\ Spec
  /\ \A w \in Workers : WF_vars(CheckCondition(w))
  /\ WF_vars(\E w \in Workers : RunCompletion(w))

-----------------------------------------------------------------------------
(***************************************************************************)
(* Type invariant: the members of FileManager.h and the jobs under way.    *)
(***************************************************************************)
Condition == [count : Nat, failures : Seq(Files), successes : Seq(Files)]

TypeOK ==
  /\ DOMAIN conditions \subseteq Guids
  /\ \A g \in DOMAIN conditions : conditions[g] \in Condition
  /\ checking \in [Workers -> Guids \cup {None}]
  /\ completions \in Seq(Guids)
  /\ started \subseteq Guids
  /\ handled \subseteq Files
  /\ lost \subseteq handled
  /\ reports \in Seq([guid : Guids, failures : Seq(Files), successes : Seq(Files)])

(***************************************************************************)
(* Two workers may both find a transfer complete and push two completion   *)
(* jobs; the received_files callback is still called at most once.         *)
(***************************************************************************)
ReportedOnce ==
  \A i, j \in DOMAIN reports : reports[i].guid = reports[j].guid => i = j

(***************************************************************************)
(* A report is whole: it lists every file of its transfer, once, the files *)
(* that the sender could not read among the failures.                      *)
(***************************************************************************)
ReportsAreWhole ==
  \A i \in DOMAIN reports :
    LET r == reports[i]
    IN  /\ Range(r.failures) \cup Range(r.successes) = FilesOf(r.guid)
        /\ Arrived(r) = Announced(r.guid)
        /\ Broken \cap FilesOf(r.guid) \subseteq Range(r.failures)

Reported(g) == \E i \in DOMAIN reports : reports[i].guid = g

(***************************************************************************)
(* A transfer whose files have all been recorded is reported, however the  *)
(* workers interleave between recording a file and checking the count.     *)
(***************************************************************************)
CompleteIsReported ==
  \A g \in Guids :
    (g \in started /\ FilesOf(g) # {} /\ FilesOf(g) \subseteq handled \ lost)
      ~> Reported(g)

(***************************************************************************)
(* What the samples wait for: once all messages of a transfer have been    *)
(* handled, it is reported.                                                *)
(***************************************************************************)
TransferReported ==
  \A g \in Guids : (g \in started /\ FilesOf(g) \subseteq handled) ~> Reported(g)
=============================================================================
