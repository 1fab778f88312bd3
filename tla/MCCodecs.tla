------------------------------- MODULE MCCodecs -------------------------------
(***************************************************************************)
(* Small inputs for the algorithms of Codecs and SessionTable: archives of *)
(* up to two files cut at every byte, data and block sizes up to 3, texts  *)
(* up to 5 bytes, vectors of up to 3 sessions.                             *)
(***************************************************************************)
EXTENDS Algorithms

CONSTANTS a, b

MCIds == {a, b}

Texts(n) == UNION {[1 .. m -> Bytes] : m \in 0 .. n}
NonEmpty(n) == Texts(n) \ {<<>>}

File(path, data) == [path |-> path, data |-> data]
FileLists ==
  {<<>>} \cup {<<File(p, d)>> : p \in NonEmpty(2), d \in Texts(2)}
         \cup {<<File(<<0>>, d), File(<<1>>, e)>> : d, e \in Texts(2)}

SmallArchives == [algorithm : {"archive"}, files : FileLists, cut : {0}]
SmallBlocks == [algorithm : {"blocks"}, data : Texts(3), written : 0 .. 3, read : 0 .. 3]
SmallWords == [algorithm : {"text"}, text : Texts(5), token : NonEmpty(2), target : Texts(1)]

Tables == UNION {[1 .. n -> Session] : n \in 0 .. 3}
SmallSendings == [algorithm : {"send"}, sessions : Tables,
                  id : {a, Anybody}, subId : {a, Anybody}]

SmallInputs == SmallArchives \cup SmallBlocks \cup SmallWords \cup SmallSendings

\* They are inputs that the theorems speak of.
ASSUME SmallAssumption == \A x \in SmallInputs : IsInput(x)

Init == input \in SmallInputs

Next == NextCut

Spec == Init /\ [][Next]_input
=============================================================================
