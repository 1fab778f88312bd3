------------------------------ MODULE Algorithms ------------------------------
(***************************************************************************)
(* The inputs of the algorithms of Codecs and SessionTable, and what they  *)
(* promise of each.  A state is one input; an archive goes on to its next  *)
(* cut, so that a behaviour sees the file of an archive being truncated at *)
(* every byte.                                                             *)
(***************************************************************************)
EXTENDS Codecs, SessionTable

CONSTANT Ids  \* of sessions

VARIABLE input

Session == [id : Ids, subId : Ids, up : BOOLEAN]

Archives == [algorithm : {"archive"}, files : Seq(NamedData), cut : Nat]
Blocks == [algorithm : {"blocks"}, data : Seq(Bytes), written : Nat, read : Nat]
Words == [algorithm : {"text"}, text : Seq(Bytes), token : Seq(Bytes), target : Seq(Bytes)]
Sendings == [algorithm : {"send"}, sessions : Seq(Session),
             id : Ids \cup {Anybody}, subId : Ids \cup {Anybody}]

\* The inputs a caller can have; split() and replace2() need a token.
IsArchive(x) == /\ x \in Archives
                /\ \A n \in DOMAIN x.files : Storable(x.files[n])
                /\ x.cut <= Len(Archive(x.files))
IsInput(x) == \/ IsArchive(x)
              \/ x \in Blocks
              \/ x \in Words /\ x.token # <<>>
              \/ x \in Sendings

Is(name) == input.algorithm = name

FirstInput == IsInput(input) /\ (Is("archive") => input.cut = 0)

NextCut ==
  /\ Is("archive")
  /\ input.cut < Len(Archive(input.files))
  /\ input' = [input EXCEPT !.cut = @ + 1]

AllInputs == FirstInput /\ [][NextCut]_input

-----------------------------------------------------------------------------
\* Folder::decompression() gives back the files in front of a cut, whole.
ArchiveKeepsPrefix == Is("archive") => KeepsPrefix(input.files, input.cut)

\* Compressor::decompression() gives back all of the data or none.
BlocksAllOrNothing == Is("blocks") => AllOrNothing(input.data, input.written, input.read)

\* Converter::split() and replace2() treat every token, and only tokens.
SplitIsFields ==
  Is("text") => SplitsAndReplaces(input.text, input.token, input.target)

\* NetworkServer::send_*() reaches the sessions in front of the first one that
\* refuses, and who was dropped is reached no more.
SendStopsAtRefusal ==
  Is("send") => /\ StopsAtRefusal(input.sessions, input.id, input.subId)
                /\ DroppedIsGone(input.sessions, input.id, input.subId)
=============================================================================
