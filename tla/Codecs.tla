-------------------------------- MODULE Codecs --------------------------------
(***************************************************************************)
(* The sequential algorithms the program puts its data through: the        *)
(* length-prefixed arrays of Utilities/Combiner.cpp, the archive that      *)
(* Folder.cpp builds of them, the blocks of Compressor.cpp, and the search *)
(* loop of Converter.cpp.  Bytes are digits, a length is a little-endian   *)
(* number of a few digits, offsets count from 0.                           *)
(***************************************************************************)
EXTENDS Integers, FiniteSets, SequencesExt

CONSTANTS Base,        \* values of a byte
          LengthBytes  \* sizeof(size_t)

ASSUME CodecsAssumption == Base \in Nat \ {0, 1} /\ LengthBytes \in Nat \ {0}

Bytes == 0 .. Base - 1

\* The n elements of s behind the first i.
Slice(s, i, n) == SubSeq(s, i + 1, i + n)

\* memcpy of a size_t, little endian, and back.
ToBytes(n) ==
  LET high[k \in 0 .. LengthBytes] == IF k = 0 THEN n ELSE high[k - 1] \div Base
  IN  [k \in 1 .. LengthBytes |-> high[k - 1] % Base]
ToLength(bytes) ==
  LET high[k \in 0 .. Len(bytes)] ==
        IF k = 0 THEN 0 ELSE bytes[Len(bytes) - k + 1] + Base * high[k - 1]
  IN  high[Len(bytes)]

\* How many lengths there are.
Capacity ==
  LET power[k \in 0 .. LengthBytes] == IF k = 0 THEN 1 ELSE Base * power[k - 1]
  IN  power[LengthBytes]

-----------------------------------------------------------------------------
\* Combiner::append(): the length, and the array back to front.
Combine(result, source) == result \o ToBytes(Len(source)) \o Reverse(source)

\* Mutant: an array that is cut short is given out as far as it goes.
DivideShort(source, index) ==
  IF Len(source) < index + LengthBytes THEN [part |-> <<>>, index |-> index]
  ELSE LET n == ToLength(Slice(source, index, LengthBytes))
           i == index + LengthBytes
           m == IF Len(source) - i < n THEN Len(source) - i ELSE n
       IN  [part |-> Reverse(Slice(source, i, m)), index |-> i + m]

\* Combiner::divide(): nothing of an array that is cut short, but the index
\* has moved behind its length by then.
Divide(source, index) ==
  IF Len(source) < index + LengthBytes THEN [part |-> <<>>, index |-> index]
  ELSE LET n == ToLength(Slice(source, index, LengthBytes))
           i == index + LengthBytes
       IN  IF n = 0 \/ Len(source) < i + n
           THEN [part |-> <<>>, index |-> i]
           ELSE [part |-> Reverse(Slice(source, i, n)), index |-> i + n]

\* A file that Folder::read_file() gives: all of its array is in memory, so that
\* its length is one of a size_t.
NamedData == [path : Seq(Bytes), data : Seq(Bytes)]
EntryLength(file) == LengthBytes + Len(file.path) + LengthBytes + Len(file.data)
Storable(file) == EntryLength(file) < Capacity

\* Folder::compression(): a file is its path and its data, one array.
Entry(file) == Combine(Combine(<<>>, file.path), file.data)
Archive(files) ==
  LET out[n \in 0 .. Len(files)] ==
        IF n = 0 THEN <<>> ELSE Combine(out[n - 1], Entry(files[n]))
  IN  out[Len(files)]

\* Folder::decompression(): until an array is empty.
Extract(bytes) ==
  LET rest[i \in 0 .. Len(bytes)] ==
        LET entry == Divide(bytes, i)
            path  == Divide(entry.part, 0)
            data  == Divide(entry.part, path.index)
        IN  IF entry.part = <<>> THEN <<>>
            ELSE <<[path |-> path.part, data |-> data.part]>> \o rest[entry.index]
  IN  rest[0]

(***************************************************************************)
(* An archive that was cut anywhere gives back the files that lie before   *)
(* the cut, each with its name and all of its data, and nothing else; a    *)
(* whole archive all of them, the empty files too.                         *)
(***************************************************************************)
KeepsPrefix(files, cut) ==
  LET whole == {n \in 1 .. Len(files) : Len(Archive(SubSeq(files, 1, n))) <= cut}
  IN  Extract(SubSeq(Archive(files), 1, cut)) = SubSeq(files, 1, Cardinality(whole))

-----------------------------------------------------------------------------
\* What a function returns instead of data, with a message.
CONSTANT NoData

ASSUME NoDataAssumption == NoData \notin Seq(Seq(Bytes))

\* Compressor::compression(): blocks of at most blockBytes.
Compress(data, blockBytes) ==
  LET rest[i \in 0 .. Len(data)] ==
        LET n == IF Len(data) - i > blockBytes THEN blockBytes ELSE Len(data) - i
        IN  IF n = 0 THEN <<>> ELSE <<Slice(data, i, n)>> \o rest[i + n]
  IN  IF rest[0] = <<>> THEN NoData ELSE rest[0]

\* LZ4_decompress_safe_continue() gives a block back if there is room for it.
Fits(block, blockBytes) == Len(block) <= blockBytes

\* Mutant: a block that cannot be decompressed is passed over.
DecompressOthers(blocks, blockBytes) ==
  LET data == FlattenSeq(SelectSeq(blocks, LAMBDA b : Fits(b, blockBytes)))
  IN  IF data = <<>> THEN NoData ELSE data

\* Compressor::decompression(): the first block that fails ends it, and what
\* came before is the result.
Decompress(blocks, blockBytes) ==
  LET good == {n \in 0 .. Len(blocks) : \A i \in 1 .. n : Fits(blocks[i], blockBytes)}
      last == CHOOSE n \in good : \A m \in good : m <= n
      data == FlattenSeq(SubSeq(blocks, 1, last))
  IN  IF data = <<>> THEN NoData ELSE data

(***************************************************************************)
(* Whatever block size the reader has, it gets all of the data or none:    *)
(* the loop that ends at a failure never passes off a part as the whole.   *)
(***************************************************************************)
AllOrNothing(data, written, read) ==
  LET blocks == Compress(data, written)
      result == IF blocks = NoData THEN NoData ELSE Decompress(blocks, read)
  IN  /\ result \in {data, NoData}
      /\ data # <<>> /\ written > 0 /\ read >= written => result = data

-----------------------------------------------------------------------------
OccursAt(s, token, i) == i + Len(token) <= Len(s) /\ Slice(s, i, Len(token)) = token

\* std::string::find() from an offset on, -1 for npos.
Find(s, token, from) ==
  LET found == {i \in from .. Len(s) : OccursAt(s, token, i)}
  IN  IF found = {} THEN -1 ELSE CHOOSE i \in found : \A k \in found : i <= k

\* split() keeps what is not empty.
Pushed(piece) == IF piece = <<>> THEN <<>> ELSE <<piece>>

\* Mutant: the search goes on at the byte behind the start of a token.
SplitByOne(s, token) ==
  LET rest[last \in 0 .. Len(s)] ==
        LET offset == Find(s, token, last)
        IN  IF offset = -1 THEN Pushed(Slice(s, last, Len(s) - last))
            ELSE Pushed(Slice(s, last, offset - last)) \o rest[offset + 1]
  IN  rest[0]

\* Converter::split(): what lies between the tokens.
Split(s, token) ==
  LET rest[last \in 0 .. Len(s)] ==
        LET offset == Find(s, token, last)
        IN  IF offset = -1 THEN Pushed(Slice(s, last, Len(s) - last))
            ELSE Pushed(Slice(s, last, offset - last)) \o rest[offset + Len(token)]
  IN  rest[0]

\* Converter::replace2(): the same, with the target in between.
Replace2(s, token, target) ==
  LET rest[last \in 0 .. Len(s)] ==
        LET offset == Find(s, token, last)
        IN  IF offset = -1 THEN Slice(s, last, Len(s) - last)
            ELSE Slice(s, last, offset - last) \o target \o rest[offset + Len(token)]
  IN  rest[0]

(***************************************************************************)
(* The reference reads a string byte by byte: a token starts where it      *)
(* occurs and the one before has ended; split() gives the runs of bytes    *)
(* outside all tokens, replace2() puts the target where a token starts.    *)
(***************************************************************************)
Starts(s, token) ==
  LET ended[i \in 0 .. Len(s)] ==  \* where the last token in front of i ends
        IF i = 0 THEN 0
        ELSE IF OccursAt(s, token, i - 1) /\ ended[i - 1] <= i - 1
             THEN i - 1 + Len(token) ELSE ended[i - 1]
  IN  {i \in 0 .. Len(s) : OccursAt(s, token, i) /\ ended[i] <= i}

InToken(s, starts, token) ==
  {i \in 0 .. Len(s) - 1 : \E k \in starts : k <= i /\ i < k + Len(token)}

RunFrom(s, outside, i) ==
  LET end == CHOOSE e \in i .. Len(s) : e \notin outside /\ i .. e - 1 \subseteq outside
  IN  Slice(s, i, end - i)

Runs(s, token) ==
  LET outside == (0 .. Len(s) - 1) \ InToken(s, Starts(s, token), token)
  IN  FlattenSeq([n \in 1 .. Len(s) |->
                    IF n - 1 \in outside /\ n - 2 \notin outside
                    THEN <<RunFrom(s, outside, n - 1)>> ELSE <<>>])

Substituted(s, token, target) ==
  LET starts == Starts(s, token)
      inside == InToken(s, starts, token)
  IN  FlattenSeq([n \in 1 .. Len(s) |->
                    IF n - 1 \in starts THEN target
                    ELSE IF n - 1 \in inside THEN <<>> ELSE <<s[n]>>])

SplitsAndReplaces(s, token, target) ==
  /\ Split(s, token) = Runs(s, token)
  /\ Replace2(s, token, target) = Substituted(s, token, target)
=============================================================================
