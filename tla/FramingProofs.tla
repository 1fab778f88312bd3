---------------------------- MODULE FramingProofs ----------------------------
(***************************************************************************)
(* What the reader of a connection makes of the bytes.  As long as no      *)
(* message was cut by a short write, the bytes on the wire are the rest of *)
(* the frame being read, whole frames, and the part of a frame that is     *)
(* being written; the reader is at the place in its frame that its state   *)
(* says.  From this follow that nothing sent before a cut is missing and   *)
(* that without cuts the stream is an OrderedChannel.                      *)
(***************************************************************************)
EXTENDS Framing, SequenceLemmas, FiniteSetTheorems

Bytes == 0..255
States == {"start", "length", "data", "end", "expired"}
Parts == {"idle", "start", "length", "data", "end"}

\* The bytes that a SendingJob writes for m.
Frame(m) == [x \in 1..(16 + Len(m)) |->
               IF x <= 4 THEN StartCode[x]
               ELSE IF x <= 12 THEN LengthCode(Len(m))[x - 4]
               ELSE IF x <= 12 + Len(m) THEN m[x - 12]
               ELSE EndCode[x - 12 - Len(m)]]

\* How many of them the job under way has written.
Written == CASE sending[1] = "length" -> 4
             [] sending[1] = "data" -> 12 + sending[2]
             [] sending[1] = "end" -> 12 + Len(Head(jobs))
             [] OTHER -> 0

\* The jobs are the messages sent last; one is being written.
SenderInv ==
  /\ Len(jobs) <= Len(sent)
  /\ \A i \in 1..Len(jobs) : jobs[i] = sent[Len(sent) - Len(jobs) + i]
  /\ \A i, j \in 1..Len(sent) : sent[i] = sent[j] => i = j
  /\ sending[1] = "idle" <=> sending = Idle
  /\ sending[1] # "idle" => jobs # <<>>
  /\ sending[1] = "data" => sending[2] < Len(Head(jobs))
  /\ \A c \in cut : c < UnderWay

\* A chunk of data is never empty.
ReaderInv == reading.at = "data" => reading.need > 0

\* The message the reader is at.
Coming == Len(received) + 1

\* The reader has read r bytes of the frame of m.
HasRead(m, r) ==
  \/ /\ reading.at = "start" /\ reading.data = <<>>
     /\ r = reading.matched
  \/ /\ reading.at = "length" /\ reading.data = <<>>
     /\ reading.matched = 0 /\ r = 4
  \/ /\ reading.at = "data" /\ reading.matched = 0
     /\ reading.need = Len(m) - Len(reading.data)
     /\ \A x \in 1..Len(reading.data) : reading.data[x] = m[x]
     /\ r = 12 + Len(reading.data)
  \/ /\ reading.at = "end" /\ reading.data = m
     /\ r = 12 + Len(m) + reading.matched

\* What was received is what was sent first.
Faithful == \A i \in 1..Len(received) : received[i] = sent[i]

\* P are the first bytes of the frame of the message l, if there is one.
Part(P, l) ==
  /\ l > Len(sent) => P = <<>>
  /\ l <= Len(sent) =>
       /\ Len(P) < 16 + Len(sent[l])
       /\ \A x \in 1..Len(P) : P[x] = Frame(sent[l])[x]

\* B[k] are the bytes from the frame of the message k on, for the messages of s
\* from f to l.
Chain(B, f, l, s) ==
  /\ B \in [f..l -> Seq(Bytes)]
  /\ \A k \in f..(l - 1) : B[k] = Frame(s[k]) \o B[k + 1]

\* What is left of b behind its first r bytes.
Left(b, r) == SubSeq(b, r + 1, Len(b))

\* The wire holds what is left of the frame being read and what is behind it, up
\* to the part of the message l that was written.
Stream(B, l, r) ==
  /\ Chain(B, Coming, l, sent)
  /\ r <= Len(B[Coming])
  /\ wire = Left(B[Coming], r)
  /\ cut = {} => Part(B[l], l)
  /\ cut = {} /\ open => l = UnderWay /\ Len(B[l]) = Written

\* The reader is at a message before the first that was cut.
CleanBy(B, l, r) ==
  /\ l \in Coming..UnderWay /\ r \in Nat
  /\ Stream(B, l, r)
  /\ Faithful
  /\ \A c \in cut : l <= c
  /\ cut # {} => l \in cut /\ Coming < l
  /\ Coming <= Len(sent) => HasRead(sent[Coming], r)
  /\ Coming > Len(sent) => reading = Restart /\ r = 0

Clean == \E B, l, r : CleanBy(B, l, r)

\* It has read all the messages before the first that was cut.
Past ==
  \E z \in cut :
    /\ \A c \in cut : z <= c
    /\ z <= Coming
    /\ \A i \in 1..(z - 1) : received[i] = sent[i]

\* The connection broke, and there is nothing left to read.
Gone ==
  /\ ~open /\ wire = <<>>
  /\ Faithful
  /\ Coming <= UnderWay
  /\ \A c \in cut : Coming <= c

FrameInv == TypeOK /\ SenderInv /\ ReaderInv /\ (Clean \/ Past \/ Gone)

-----------------------------------------------------------------------------
(* Bytes, frames and chains of them.                                       *)

LEMMA LeftIs ==
  ASSUME NEW b \in Seq(Bytes), NEW r \in Nat, r <= Len(b)
  PROVE  /\ Left(b, r) \in Seq(Bytes)
         /\ Len(Left(b, r)) = Len(b) - r
         /\ \A x \in 1..(Len(b) - r) : Left(b, r)[x] = b[r + x]
  BY DEF Left

LEMMA LeftOfConcat ==
  ASSUME NEW b \in Seq(Bytes), NEW w \in Seq(Bytes), NEW r \in Nat, r <= Len(b)
  PROVE  Left(b \o w, r) = Left(b, r) \o w
  <1> DEFINE c == b \o w
             d == Left(b, r)
             h == Left(c, r)
             g == d \o w
  <1>1. /\ c \in Seq(Bytes) /\ Len(c) = Len(b) + Len(w)
        /\ \A x \in 1..(Len(b) + Len(w)) : c[x] = IF x <= Len(b) THEN b[x] ELSE w[x - Len(b)]
    BY ConcatProperties
  <1>2. /\ d \in Seq(Bytes) /\ Len(d) = Len(b) - r
        /\ \A x \in 1..(Len(b) - r) : d[x] = b[r + x]
    BY LeftIs
  <1>3. /\ g \in Seq(Bytes) /\ Len(g) = Len(d) + Len(w)
        /\ \A x \in 1..(Len(d) + Len(w)) : g[x] = IF x <= Len(d) THEN d[x] ELSE w[x - Len(d)]
    <2> HIDE DEF d
    <2> QED
      BY <1>2, ConcatProperties
  <1>4. Len(b) \in Nat /\ Len(w) \in Nat
    OBVIOUS
  <1> HIDE DEF c, d, g
  <1>5. r <= Len(c)
    BY <1>1, <1>4
  <1>6. /\ h \in Seq(Bytes) /\ Len(h) = Len(c) - r
        /\ \A x \in 1..(Len(c) - r) : h[x] = c[r + x]
    BY <1>1, <1>5, LeftIs
  <1> HIDE DEF h
  <1>7. ASSUME NEW x \in 1..Len(h)
        PROVE  h[x] = g[x]
    <2>1. x \in 1..(Len(b) + Len(w) - r)
      BY <1>1, <1>6
    <2>2. CASE x <= Len(b) - r
      <3>1. r + x \in 1..(Len(b) + Len(w)) /\ r + x <= Len(b) /\ x \in 1..(Len(b) - r)
        BY <2>1, <2>2, <1>4
      <3>2. x \in 1..(Len(d) + Len(w)) /\ x <= Len(d)
        BY <1>2, <2>1, <2>2, <1>4
      <3>3. h[x] = b[r + x]
        BY <3>1, <1>1, <1>6
      <3> QED
        BY <3>1, <3>2, <3>3, <1>2, <1>3
    <2>3. CASE x > Len(b) - r
      <3>1. r + x \in 1..(Len(b) + Len(w)) /\ ~(r + x <= Len(b))
        BY <2>1, <2>3, <1>4
      <3>2. x \in 1..(Len(d) + Len(w)) /\ ~(x <= Len(d)) /\ x - Len(d) = r + x - Len(b)
        BY <1>2, <2>1, <2>3, <1>4
      <3>3. h[x] = w[r + x - Len(b)]
        BY <3>1, <1>1, <1>6
      <3> QED
        BY <3>2, <3>3, <1>3
    <2> QED
      BY <1>4, <2>1, <2>2, <2>3
  <1>8. Len(h) = Len(g)
    BY <1>1, <1>2, <1>3, <1>4, <1>6
  <1>9. h = g
    BY <1>3, <1>6, <1>7, <1>8, SeqEqual
  <1> QED
    BY <1>9 DEF h, g, c, d

LEMMA LeftOfLeft ==
  ASSUME NEW b \in Seq(Bytes), NEW r \in Nat, NEW n \in Nat, r + n <= Len(b)
  PROVE  SubSeq(Left(b, r), n + 1, Len(Left(b, r))) = Left(b, r + n)
  <1>1. Left(Left(b, r), n) = Left(b, r + n)
    <2>1. /\ Left(b, r) \in Seq(Bytes) /\ Len(Left(b, r)) = Len(b) - r
          /\ \A x \in 1..(Len(b) - r) : Left(b, r)[x] = b[r + x]
      BY LeftIs
    <2>2. /\ Left(b, r + n) \in Seq(Bytes) /\ Len(Left(b, r + n)) = Len(b) - (r + n)
          /\ \A x \in 1..(Len(b) - (r + n)) : Left(b, r + n)[x] = b[r + n + x]
      BY LeftIs
    <2>3. /\ Left(Left(b, r), n) \in Seq(Bytes)
          /\ Len(Left(Left(b, r), n)) = Len(b) - r - n
          /\ \A x \in 1..(Len(b) - r - n) : Left(Left(b, r), n)[x] = Left(b, r)[n + x]
      BY <2>1, LeftIs
    <2>4. ASSUME NEW x \in 1..(Len(b) - r - n)
          PROVE  Left(Left(b, r), n)[x] = Left(b, r + n)[x]
      <3>1. n + x \in 1..(Len(b) - r) /\ x \in 1..(Len(b) - (r + n))
            /\ r + (n + x) = r + n + x
        OBVIOUS
      <3> QED
        BY <2>1, <2>2, <2>3, <3>1
    <2> QED
      BY <2>2, <2>3, <2>4, SeqEqual
  <1> QED
    BY <1>1 DEF Left

LEMMA LeftOfFront ==
  ASSUME NEW f \in Seq(Bytes), NEW b \in Seq(Bytes)
  PROVE  Left(f \o b, Len(f)) = b /\ Left(b, 0) = b
  <1>1. Left(f \o b, Len(f)) = Left(f, Len(f)) \o b
    BY LeftOfConcat
  <1>2. Left(f, Len(f)) = <<>>
    BY SubSeqEmpty DEF Left
  <1>3. <<>> \o b = b
    OBVIOUS
  <1>4. Left(b, 0) = b
    BY SubSeqFull DEF Left
  <1> QED
    BY <1>1, <1>2, <1>3, <1>4

\* A message is a sequence of bytes whose length two bytes hold.
LEMMA PayloadIs ==
  ASSUME NEW m \in Payloads
  PROVE  m \in Seq(Bytes) /\ Len(m) \in Nat /\ Len(m) > 0 /\ Len(m) < Unfilled
  <1>1. m \in Seq(0..255) /\ m # <<>> /\ Len(m) < Unfilled
    BY FramingAssumption
  <1>2. Len(m) \in Nat /\ Len(m) # 0
    BY <1>1, LenProperties, EmptySeq
  <1>3. Len(m) > 0
    BY <1>2
  <1> QED
    BY <1>1, <1>2, <1>3 DEF Bytes

LEMMA EightBytes ==
  ASSUME NEW a \in Bytes, NEW b \in Bytes, NEW t, t = <<a, b, 0, 0, 0, 0, 0, 0>>
  PROVE  /\ t \in Seq(Bytes) /\ Len(t) = 8
         /\ t[1] = a /\ t[2] = b
         /\ \A i \in 3..8 : t[i] = 0
  <1>1. \A i \in 3..8 : i = 3 \/ i = 4 \/ i = 5 \/ i = 6 \/ i = 7 \/ i = 8
    OBVIOUS
  <1>2. t[3] = 0 /\ t[4] = 0 /\ t[5] = 0 /\ t[6] = 0 /\ t[7] = 0 /\ t[8] = 0
    OBVIOUS
  <1>3. 0 \in Bytes
    BY DEF Bytes
  <1> QED
    BY <1>1, <1>2, <1>3

LEMMA TwoDigits ==
  ASSUME NEW n \in Nat, n < 256 * 256
  PROVE  /\ n % 256 \in 0..255 /\ n \div 256 \in 0..255
         /\ (n % 256) + 256 * (n \div 256) = n
  BY SMT

LEMMA LengthCodeIs ==
  ASSUME NEW n \in Nat, n < Unfilled
  PROVE  /\ LengthCode(n) \in Seq(Bytes) /\ Len(LengthCode(n)) = 8
         /\ \A code : (\A i \in 1..8 : code[i] = LengthCode(n)[i]) => LengthOf(code) = n
  <1> DEFINE a == n % 256
             b == n \div 256
  <1>1. a \in Bytes /\ b \in Bytes /\ a + 256 * b = n
    BY TwoDigits DEF Unfilled, Bytes
  <1>2. LengthCode(n) = <<a, b, 0, 0, 0, 0, 0, 0>>
    BY DEF LengthCode
  <1> HIDE DEF a, b
  <1>3. /\ LengthCode(n) \in Seq(Bytes) /\ Len(LengthCode(n)) = 8
        /\ LengthCode(n)[1] = a /\ LengthCode(n)[2] = b
        /\ \A i \in 3..8 : LengthCode(n)[i] = 0
    BY <1>1, <1>2, EightBytes
  <1>4. ASSUME NEW code, \A i \in 1..8 : code[i] = LengthCode(n)[i]
        PROVE  LengthOf(code) = n
    <2>1. /\ \A i \in 3..8 : i \in 1..8
          /\ 1 \in 1..8 /\ 2 \in 1..8
      OBVIOUS
    <2>2. /\ \A i \in 3..8 : code[i] = 0
          /\ code[1] = a /\ code[2] = b
      BY <1>3, <1>4, <2>1
    <2>3. LengthOf(code) = code[1] + 256 * code[2]
      BY <2>2, Zenon DEF LengthOf, LengthSize
    <2> QED
      BY <1>1, <2>2, <2>3
  <1> QED
    BY <1>3, <1>4

LEMMA CodesAre ==
  /\ StartCode \in Seq(Bytes) /\ Len(StartCode) = 4
  /\ EndCode \in Seq(Bytes) /\ Len(EndCode) = 4
  /\ \A x \in 1..4 : StartCode[x] = 253 /\ EndCode[x] = 252
  <1>1. \A x \in 1..4 : x = 1 \/ x = 2 \/ x = 3 \/ x = 4
    OBVIOUS
  <1> QED
    BY <1>1 DEF StartCode, EndCode, Bytes

LEMMA FrameIs ==
  ASSUME NEW m \in Payloads
  PROVE  /\ Frame(m) \in Seq(Bytes) /\ Len(Frame(m)) = 16 + Len(m)
         /\ \A x \in 1..4 : Frame(m)[x] = StartCode[x]
         /\ \A x \in 1..8 : Frame(m)[4 + x] = LengthCode(Len(m))[x]
         /\ \A x \in 1..Len(m) : Frame(m)[12 + x] = m[x]
         /\ \A x \in 1..4 : Frame(m)[12 + Len(m) + x] = EndCode[x]
  <1> DEFINE n == Len(m)
             code == LengthCode(n)
             byte(x) == IF x <= 4 THEN StartCode[x]
                        ELSE IF x <= 12 THEN code[x - 4]
                        ELSE IF x <= 12 + n THEN m[x - 12]
                        ELSE EndCode[x - 12 - n]
  <1>1. m \in Seq(Bytes) /\ n \in Nat /\ n > 0 /\ n < Unfilled
    BY PayloadIs
  <1>2. n \in Nat
    BY <1>1
  <1>3. code \in Seq(Bytes) /\ Len(code) = 8
    BY <1>1, LengthCodeIs
  <1>4. /\ \A x \in 1..4 : StartCode[x] \in Bytes /\ EndCode[x] \in Bytes
        /\ \A x \in 1..8 : code[x] \in Bytes
        /\ \A x \in 1..n : m[x] \in Bytes
    <2>1. \A x \in 1..4 : StartCode[x] \in Bytes /\ EndCode[x] \in Bytes
      BY CodesAre, ElementOfSeq
    <2> HIDE DEF n, code
    <2>2. \A x \in 1..8 : code[x] \in Bytes
      BY <1>3, ElementOfSeq
    <2>3. \A x \in 1..Len(m) : m[x] \in Bytes
      BY <1>1, ElementOfSeq
    <2> QED
      BY <2>1, <2>2, <2>3 DEF n
  <1> HIDE DEF code
  <1>5. ASSUME NEW x \in 1..(16 + n) PROVE byte(x) \in Bytes
    <2> HIDE DEF n
    <2>1. x \in 1..4 \/ x \in 5..12 \/ x \in 13..(12 + n) \/ x \in (13 + n)..(16 + n)
      BY <1>2
    <2>2. CASE x \in 1..4
      BY <2>2, <1>4
    <2>3. CASE x \in 5..12
      <3>1. x - 4 \in 1..8 /\ ~(x <= 4) /\ x <= 12
        BY <2>3
      <3> QED
        BY <3>1, <1>4
    <2>4. CASE x \in 13..(12 + n)
      <3>1. x - 12 \in 1..n /\ ~(x <= 4) /\ ~(x <= 12) /\ x <= 12 + n
        BY <2>4, <1>2
      <3> QED
        BY <3>1, <1>4
    <2>5. CASE x \in (13 + n)..(16 + n)
      <3>1. x - 12 - n \in 1..4 /\ ~(x <= 4) /\ ~(x <= 12) /\ ~(x <= 12 + n)
        BY <2>5, <1>2
      <3> QED
        BY <3>1, <1>4
    <2> QED
      BY <2>1, <2>2, <2>3, <2>4, <2>5
  <1>6. Frame(m) = [x \in 1..(16 + n) |-> byte(x)]
    BY DEF Frame, code
  <1>7. 16 + n \in Nat
    BY <1>2
  <1> HIDE DEF byte
  <1>8. Frame(m) \in [1..(16 + n) -> Bytes]
    BY <1>5, <1>6
  <1>9. Frame(m) \in Seq(Bytes) /\ Len(Frame(m)) = 16 + n
    BY <1>7, <1>8
  <1>10. \A x \in 1..(16 + n) : Frame(m)[x] = byte(x)
    BY <1>6
  <1> HIDE DEF n
  <1>11. \A x \in 1..4 : Frame(m)[x] = StartCode[x]
    <2> TAKE x \in 1..4
    <2>1. x \in 1..(16 + n) /\ x <= 4
      BY <1>2
    <2> QED
      BY <2>1, <1>10 DEF byte
  <1>12. \A x \in 1..8 : Frame(m)[4 + x] = code[x]
    <2> TAKE x \in 1..8
    <2>1. 4 + x \in 1..(16 + n) /\ ~(4 + x <= 4) /\ 4 + x <= 12 /\ (4 + x) - 4 = x
      BY <1>2
    <2> QED
      BY <2>1, <1>10 DEF byte
  <1>13. \A x \in 1..n : Frame(m)[12 + x] = m[x]
    <2> TAKE x \in 1..n
    <2>1. /\ 12 + x \in 1..(16 + n) /\ ~(12 + x <= 4) /\ ~(12 + x <= 12)
          /\ 12 + x <= 12 + n /\ (12 + x) - 12 = x
      BY <1>2
    <2> QED
      BY <2>1, <1>10 DEF byte
  <1>14. \A x \in 1..4 : Frame(m)[12 + n + x] = EndCode[x]
    <2> TAKE x \in 1..4
    <2>1. /\ 12 + n + x \in 1..(16 + n) /\ ~(12 + n + x <= 4) /\ ~(12 + n + x <= 12)
          /\ ~(12 + n + x <= 12 + n) /\ (12 + n + x) - 12 - n = x
      BY <1>2
    <2> QED
      BY <2>1, <1>10 DEF byte
  <1> QED
    BY <1>9, <1>11, <1>12, <1>13, <1>14 DEF n, code

LEMMA ThreeParts ==
  ASSUME NEW a \in Seq(Bytes), NEW b \in Seq(Bytes), NEW c \in Seq(Bytes)
  PROVE  (a \o b) \o c = a \o (b \o c)
  <1>1. PICK X : X = Bytes
    OBVIOUS
  <1>2. a \in Seq(X) /\ b \in Seq(X) /\ c \in Seq(X)
    BY <1>1
  <1> QED
    BY <1>2, ConcatAssociative

LEMMA ChainGrows ==
  ASSUME NEW s, NEW f \in Nat, NEW l \in Nat, f <= l,
         \A k \in f..(l - 1) : s[k] \in Payloads,
         NEW B, Chain(B, f, l, s), NEW w \in Seq(Bytes)
  PROVE  Chain([k \in f..l |-> B[k] \o w], f, l, s)
  <1> DEFINE C == [k \in f..l |-> B[k] \o w]
  <1>1. \A k \in f..l : B[k] \in Seq(Bytes) /\ C[k] = B[k] \o w
    BY DEF Chain
  <1>2. C \in [f..l -> Seq(Bytes)]
    BY <1>1, ConcatProperties
  <1>3. ASSUME NEW k \in f..(l - 1) PROVE C[k] = Frame(s[k]) \o C[k + 1]
    <2>1. k \in f..l /\ k + 1 \in f..l
      OBVIOUS
    <2>2. B[k] = Frame(s[k]) \o B[k + 1]
      BY DEF Chain
    <2>3. Frame(s[k]) \in Seq(Bytes)
      BY FrameIs
    <2>4. (Frame(s[k]) \o B[k + 1]) \o w = Frame(s[k]) \o (B[k + 1] \o w)
      <3>1. B[k + 1] \in Seq(Bytes)
        BY <1>1, <2>1
      <3> QED
        BY <2>3, <3>1, ThreeParts
    <2> QED
      BY <1>1, <2>1, <2>2, <2>4
  <1> QED
    BY <1>2, <1>3 DEF Chain

LEMMA ChainExtends ==
  ASSUME NEW s, NEW f \in Nat, NEW l \in Nat, f <= l,
         NEW B, Chain(B, f, l, s), B[l] = Frame(s[l])
  PROVE  Chain([k \in f..(l + 1) |-> IF k = l + 1 THEN <<>> ELSE B[k]], f, l + 1, s)
  <1> DEFINE C == [k \in f..(l + 1) |-> IF k = l + 1 THEN <<>> ELSE B[k]]
  <1>1. \A k \in f..l : B[k] \in Seq(Bytes) /\ C[k] = B[k]
    <2> TAKE k \in f..l
    <2>1. k \in f..(l + 1) /\ k # l + 1
      OBVIOUS
    <2> QED
      BY <2>1 DEF Chain
  <1>2. C[l + 1] = <<>>
    OBVIOUS
  <1>3. \A k \in f..(l + 1) : k \in f..l \/ k = l + 1
    OBVIOUS
  <1>4. C \in [f..(l + 1) -> Seq(Bytes)]
    <2>1. \A k \in f..(l + 1) : C[k] \in Seq(Bytes)
      BY <1>1, <1>2, <1>3, EmptySeq
    <2> QED
      BY <2>1
  <1> HIDE DEF C
  <1>5. ASSUME NEW k \in f..((l + 1) - 1) PROVE C[k] = Frame(s[k]) \o C[k + 1]
    <2>1. k \in f..l
      OBVIOUS
    <2>2. CASE k = l
      <3>1. B[l] \in Seq(Bytes) /\ C[l] = B[l]
        BY <1>1, <2>1, <2>2
      <3> QED
        BY <2>2, <3>1, <1>2, ConcatEmptySeq
    <2>3. CASE k # l
      <3>1. k \in f..(l - 1) /\ k + 1 \in f..l
        BY <2>1, <2>3
      <3>2. B[k] = Frame(s[k]) \o B[k + 1]
        BY <3>1 DEF Chain
      <3> QED
        BY <2>1, <3>1, <3>2, <1>1
    <2> QED
      BY <2>2, <2>3
  <1>6. Chain(C, f, l + 1, s)
    BY <1>4, <1>5 DEF Chain
  <1> QED
    BY <1>6 DEF C

LEMMA ChainAdvances ==
  ASSUME NEW s, NEW f \in Nat, NEW l \in Nat, f < l, NEW B, Chain(B, f, l, s)
  PROVE  Chain([k \in (f + 1)..l |-> B[k]], f + 1, l, s)
  <1>1. \A k \in (f + 1)..l : k \in f..l
    OBVIOUS
  <1>2. \A k \in (f + 1)..(l - 1) : k \in f..(l - 1) /\ k \in (f + 1)..l /\ k + 1 \in (f + 1)..l
    OBVIOUS
  <1> QED
    BY <1>1, <1>2 DEF Chain

\* Only the messages up to l count.
LEMMA ChainOf ==
  ASSUME NEW s, NEW t, NEW f \in Nat, NEW l \in Nat, NEW B, Chain(B, f, l, s),
         \A k \in f..(l - 1) : s[k] = t[k]
  PROVE  Chain(B, f, l, t)
  BY DEF Chain

-----------------------------------------------------------------------------
(* What a step of the sender does.                                         *)

Same == UNCHANGED <<open, reading, sent, received>>
Grows(w) == w \in Seq(Bytes) /\ wire' = wire \o w

\* w are the next bytes of the frame of the message under way.
NextBytes(w) == \A x \in 1..Len(w) : w[x] = Frame(Head(jobs))[Written + x]

Continues ==
  \E w : /\ Grows(w) /\ NextBytes(w)
         /\ open /\ sending[1] # "idle"
         /\ jobs' = jobs /\ cut' = cut
         /\ sending' \in (Parts \ {"idle"}) \X Nat
         /\ sending'[1] = "data" => sending'[2] < Len(Head(jobs))
         /\ Written' = Written + Len(w) /\ Written' < 16 + Len(Head(jobs))

Ends ==
  \E w : /\ Grows(w) /\ NextBytes(w)
         /\ open /\ sending[1] # "idle"
         /\ Leave /\ cut' = cut
         /\ Written + Len(w) = 16 + Len(Head(jobs))

Cuts ==
  \E w : /\ Grows(w)
         /\ open /\ sending[1] # "idle"
         /\ Leave /\ cut' = cut \cup {UnderWay}
         /\ Cardinality(cut) < MaxShort

Throws == ~open /\ sending[1] # "idle" /\ Leave /\ UNCHANGED <<wire, cut>>

LEMMA WrittenIs ==
  /\ sending[1] = "idle" => Written = 0
  /\ sending[1] = "start" => Written = 0
  /\ sending[1] = "length" => Written = 4
  /\ sending[1] = "data" => Written = 12 + sending[2]
  /\ sending[1] = "end" => Written = 12 + Len(Head(jobs))
  BY DEF Written

LEMMA WrittenNext ==
  /\ sending'[1] = "idle" => Written' = 0
  /\ sending'[1] = "start" => Written' = 0
  /\ sending'[1] = "length" => Written' = 4
  /\ sending'[1] = "data" => Written' = 12 + sending'[2]
  /\ sending'[1] = "end" => Written' = 12 + Len(Head(jobs'))
  BY DEF Written

LEMMA FrontIs ==
  ASSUME NEW b \in Seq(Bytes), NEW n \in Nat, n <= Len(b)
  PROVE  /\ SubSeq(b, 1, n) \in Seq(Bytes) /\ Len(SubSeq(b, 1, n)) = n
         /\ \A x \in 1..n : SubSeq(b, 1, n)[x] = b[x]
  OBVIOUS

LEMMA FirstJob ==
  ASSUME TypeOK, SenderInv, sending[1] # "idle"
  PROVE  /\ jobs # <<>> /\ Head(jobs) \in Payloads
         /\ Tail(jobs) \in Seq(Payloads) /\ Len(Tail(jobs)) = Len(jobs) - 1
         /\ \A i \in 1..(Len(jobs) - 1) : Tail(jobs)[i] = jobs[i + 1]
         /\ Len(jobs) \in Nat /\ Len(jobs) > 0 /\ Head(jobs) = jobs[1]
         /\ Len(sent) \in Nat
  <1>1. jobs \in Seq(Payloads) /\ jobs # <<>> /\ sent \in Seq(Payloads)
    BY DEF TypeOK, SenderInv
  <1>2. /\ Head(jobs) \in Payloads
        /\ Tail(jobs) \in Seq(Payloads) /\ Len(Tail(jobs)) = Len(jobs) - 1
        /\ \A i \in 1..(Len(jobs) - 1) : Tail(jobs)[i] = jobs[i + 1]
    BY <1>1, HeadTailProperties
  <1>3. Len(jobs) \in Nat /\ Len(jobs) > 0 /\ Head(jobs) = jobs[1] /\ Len(sent) \in Nat
    BY <1>1
  <1> QED
    BY <1>1, <1>2, <1>3

\* Writing a code of n bytes, whose first stands at k + 1 in the frame.
LEMMA CodeWritten ==
  ASSUME TypeOK, SenderInv, NEW part \in Parts \ {"idle"}, NEW b \in Seq(Bytes),
         NEW Q, WriteCode(part, b, Q),
         \A x \in 1..Len(b) : b[x] = Frame(Head(jobs))[Written + x]
  PROVE  /\ Same /\ sending[1] = part
         /\ \/ /\ Q /\ cut' = cut /\ open
               /\ Grows(b) /\ NextBytes(b)
            \/ Cuts
  <1>1. Same /\ sending[1] = part /\ open /\ sending[1] # "idle"
    BY DEF WriteCode, Same
  <1>2. CASE Write(b, Len(b)) /\ Q /\ UNCHANGED cut
    <2>1. SubSeq(b, 1, Len(b)) = b
      BY SubSeqFull
    <2> QED
      BY <1>1, <1>2, <2>1 DEF Write, Grows, NextBytes
  <1>3. CASE \E n \in 1..(Len(b) - 1) :
               /\ Cardinality(cut) < MaxShort
               /\ Write(b, n) /\ Leave
               /\ cut' = cut \cup {UnderWay}
    <2>1. PICK n \in 1..(Len(b) - 1) :
               /\ Cardinality(cut) < MaxShort
               /\ Write(b, n) /\ Leave
               /\ cut' = cut \cup {UnderWay}
      BY <1>3
    <2>2. n \in Nat /\ n <= Len(b)
      OBVIOUS
    <2>3. Grows(SubSeq(b, 1, n))
      BY <2>1, <2>2, FrontIs DEF Write, Grows
    <2> QED
      BY <1>1, <2>1, <2>3 DEF Cuts
  <1>4. \/ Write(b, Len(b)) /\ Q /\ UNCHANGED cut
        \/ \E n \in 1..(Len(b) - 1) :
               /\ Cardinality(cut) < MaxShort
               /\ Write(b, n) /\ Leave
               /\ cut' = cut \cup {UnderWay}
    BY DEF WriteCode
  <1> QED
    BY <1>1, <1>2, <1>3, <1>4

LEMMA SenderMoves ==
  ASSUME TypeOK, SenderInv, Sender
  PROVE  Same /\ (Begin \/ Continues \/ Ends \/ Cuts \/ Throws)
  <1> DEFINE m == Head(jobs)
  <1>1. CASE Begin
    BY <1>1 DEF Begin, Same
  <1>2. CASE SendThrows
    <2>1. sending[1] # "idle"
      BY <1>2 DEF SendThrows, SenderInv
    <2> QED
      BY <1>2, <2>1 DEF SendThrows, Same, Throws
  <1>3. CASE SendStart \/ SendLength \/ SendData \/ SendEnd
    <2>1. sending[1] # "idle"
      BY <1>3 DEF SendStart, SendLength, SendData, SendEnd, WriteCode
    <2>2. /\ m \in Payloads
          /\ m \in Seq(Bytes) /\ Len(m) \in Nat /\ Len(m) > 0 /\ Len(m) < Unfilled
          /\ Frame(m) \in Seq(Bytes) /\ Len(Frame(m)) = 16 + Len(m)
          /\ \A x \in 1..4 : Frame(m)[x] = StartCode[x]
          /\ \A x \in 1..8 : Frame(m)[4 + x] = LengthCode(Len(m))[x]
          /\ \A x \in 1..Len(m) : Frame(m)[12 + x] = m[x]
          /\ \A x \in 1..4 : Frame(m)[12 + Len(m) + x] = EndCode[x]
      BY <2>1, FirstJob, PayloadIs, FrameIs
    <2> HIDE DEF m
    <2>3. CASE SendStart
      <3>1. WriteCode("start", StartCode, sending' = <<"length", 0>> /\ UNCHANGED jobs)
        BY <2>3 DEF SendStart
      <3>2. sending[1] = "start" /\ Written = 0
        BY <3>1, WrittenIs DEF WriteCode
      <3>3. \A x \in 1..Len(StartCode) : StartCode[x] = Frame(m)[Written + x]
        BY <2>2, <3>2, CodesAre
      <3>4. /\ Same
            /\ \/ /\ sending' = <<"length", 0>> /\ jobs' = jobs /\ cut' = cut /\ open
                  /\ Grows(StartCode) /\ NextBytes(StartCode)
               \/ Cuts
        <4>1. StartCode \in Seq(Bytes) /\ "start" \in Parts \ {"idle"}
          BY CodesAre DEF Parts
        <4>2. WriteCode("start", StartCode, sending' = <<"length", 0>> /\ jobs' = jobs)
          BY <3>1
        <4> QED
          BY <4>1, <4>2, <3>3, CodeWritten DEF m
      <3>5. ASSUME sending' = <<"length", 0>>, jobs' = jobs
            PROVE  /\ sending' \in (Parts \ {"idle"}) \X Nat /\ sending'[1] # "data"
                   /\ Written' = Written + 4 /\ Written' < 16 + Len(m)
        BY <2>2, <3>2, <3>5, WrittenNext DEF Parts
      <3> QED
        BY <2>1, <3>4, <3>5, CodesAre DEF Continues, m
    <2>4. CASE SendLength
      <3> DEFINE code == LengthCode(Len(m))
      <3>1. WriteCode("length", code, sending' = <<"data", 0>> /\ UNCHANGED jobs)
        BY <2>4 DEF SendLength, m
      <3>2. sending[1] = "length" /\ Written = 4
        BY <3>1, WrittenIs DEF WriteCode
      <3>3. code \in Seq(Bytes) /\ Len(code) = 8
        BY <2>2, LengthCodeIs
      <3>4. \A x \in 1..Len(code) : code[x] = Frame(m)[Written + x]
        BY <2>2, <3>2, <3>3
      <3> HIDE DEF code
      <3>5. /\ Same
            /\ \/ /\ sending' = <<"data", 0>> /\ jobs' = jobs /\ cut' = cut /\ open
                  /\ Grows(code) /\ NextBytes(code)
               \/ Cuts
        BY <3>1, <3>3, <3>4, CodeWritten DEF Parts, m
      <3>6. ASSUME sending' = <<"data", 0>>, jobs' = jobs
            PROVE  /\ sending' \in (Parts \ {"idle"}) \X Nat
                   /\ sending'[2] < Len(m)
                   /\ Written' = Written + 8 /\ Written' < 16 + Len(m)
        BY <2>2, <3>2, <3>6, WrittenNext DEF Parts
      <3> QED
        BY <2>1, <3>3, <3>5, <3>6 DEF Continues, m
    <2>5. CASE SendEnd
      <3>1. WriteCode("end", EndCode, Leave)
        BY <2>5 DEF SendEnd
      <3>2. sending[1] = "end" /\ Written = 12 + Len(m)
        BY <3>1, WrittenIs DEF WriteCode, m
      <3>3. \A x \in 1..Len(EndCode) : EndCode[x] = Frame(m)[Written + x]
        BY <2>2, <3>2, CodesAre
      <3>4. /\ Same
            /\ \/ /\ Leave /\ cut' = cut /\ open
                  /\ Grows(EndCode) /\ NextBytes(EndCode)
               \/ Cuts
        <4>1. EndCode \in Seq(Bytes) /\ "end" \in Parts \ {"idle"}
          BY CodesAre DEF Parts
        <4> QED
          BY <4>1, <3>1, <3>3, CodeWritten DEF m
      <3>5. Written + Len(EndCode) = 16 + Len(m)
        BY <2>2, <3>2, CodesAre
      <3> QED
        BY <2>1, <3>4, <3>5 DEF Ends, m
    <2>6. CASE SendData
      <3> DEFINE k == sending[2]
                 rest == SubSeq(m, k + 1, Len(m))
                 size == IF Len(rest) < SendBuffer THEN Len(rest) ELSE SendBuffer
      <3>1. sending[1] = "data" /\ open /\ Written = 12 + k /\ k \in Nat /\ k < Len(m)
        BY <2>6, WrittenIs DEF SendData, SenderInv, TypeOK, m
      <3>2. /\ rest \in Seq(Bytes) /\ Len(rest) = Len(m) - k
            /\ \A x \in 1..(Len(m) - k) : rest[x] = m[k + x]
        <4>1. k <= Len(m)
          BY <2>2, <3>1
        <4>2. rest = Left(m, k)
          BY DEF Left
        <4> HIDE DEF rest, k
        <4> QED
          BY <4>1, <4>2, <2>2, <3>1, LeftIs
      <3>3. /\ \E n \in 1..size :
                 /\ Write(rest, n)
                 /\ sending' = IF n = Len(rest) THEN <<"end", 0>> ELSE <<"data", k + n>>
            /\ jobs' = jobs /\ cut' = cut /\ Same
        BY <2>6 DEF SendData, Same, m
      <3>4. size \in Nat /\ size <= Len(rest)
        BY <3>2, FramingAssumption
      <3> HIDE DEF rest, size
      <3>5. PICK n \in 1..size :
                 /\ Write(rest, n)
                 /\ sending' = IF n = Len(rest) THEN <<"end", 0>> ELSE <<"data", k + n>>
        BY <3>3
      <3>6. n \in Nat /\ n <= Len(rest) /\ n <= Len(m) - k
        BY <3>2, <3>4
      <3> DEFINE w == SubSeq(rest, 1, n)
      <3>7. /\ w \in Seq(Bytes) /\ Len(w) = n
            /\ \A x \in 1..n : w[x] = rest[x]
        BY <3>2, <3>6, FrontIs
      <3>8. Grows(w)
        BY <3>5, <3>7 DEF Write, Grows
      <3> HIDE DEF w, k
      <3>9. \A x \in 1..Len(w) : w[x] = Frame(m)[Written + x]
        <4> TAKE x \in 1..Len(w)
        <4>1. /\ x \in 1..n /\ x \in 1..(Len(m) - k) /\ k + x \in 1..Len(m)
              /\ 12 + k + x = 12 + (k + x)
          BY <3>1, <3>6, <3>7, <2>2
        <4> QED
          BY <4>1, <3>1, <3>2, <3>7, <2>2
      <3>10. /\ sending' \in (Parts \ {"idle"}) \X Nat
             /\ sending'[1] = "data" => sending'[2] < Len(m)
             /\ Written' = Written + n /\ Written' < 16 + Len(m)
        <4>1. CASE n = Len(rest)
          <5>1. sending' = <<"end", 0>> /\ jobs' = jobs
            BY <3>3, <3>5, <4>1
          <5>2. Written' = 12 + Len(m)
            BY <5>1, WrittenNext DEF m
          <5>3. 12 + Len(m) = 12 + k + n
            <6>1. n = Len(m) - k
              BY <3>2, <4>1
            <6>2. k \in Nat /\ Len(m) \in Nat
              BY <3>1, <2>2
            <6> HIDE DEF m
            <6> QED
              BY <6>1, <6>2
          <5> QED
            BY <3>1, <2>2, <5>1, <5>2, <5>3 DEF Parts
        <4>2. CASE n # Len(rest)
          <5>1. sending' = <<"data", k + n>> /\ jobs' = jobs
            BY <3>3, <3>5, <4>2
          <5>2. Written' = 12 + (k + n)
            BY <5>1, WrittenNext
          <5>3. k + n < Len(m) /\ k + n \in Nat
            <6> DEFINE a == Len(m)
                       b == Len(rest)
            <6>1. a \in Nat /\ k \in Nat /\ n \in Nat /\ b = a - k /\ n <= b /\ n # b
              BY <2>2, <3>1, <3>2, <3>6, <4>2
            <6> HIDE DEF a, b
            <6>2. k + n < a /\ k + n \in Nat
              BY <6>1
            <6> QED
              BY <6>2 DEF a
          <5> QED
            BY <3>1, <3>6, <2>2, <5>1, <5>2, <5>3 DEF Parts
        <4> QED
          BY <4>1, <4>2
      <3> QED
        BY <2>1, <3>1, <3>3, <3>7, <3>8, <3>9, <3>10 DEF Continues, NextBytes, m
    <2> QED
      BY <1>3, <2>3, <2>4, <2>5, <2>6
  <1> QED
    BY <1>1, <1>2, <1>3 DEF Sender

-----------------------------------------------------------------------------
(* The types, and what holds of the sender and the reader by themselves.   *)

LEMMA TypedWire == TypeOK <=>
  /\ jobs \in Seq(Payloads) /\ sent \in Seq(Payloads)
  /\ sending \in Parts \X Nat
  /\ wire \in Seq(Bytes)
  /\ open \in BOOLEAN
  /\ reading \in [at : States, matched : 0..3, need : Nat, data : Seq(Bytes)]
  /\ received \in Seq(Seq(Bytes))
  /\ cut \subseteq 1..Len(sent)
  BY DEF TypeOK, Parts, States, Bytes

\* working() returns: the next message is under way.
LEMMA Leaves ==
  ASSUME TypeOK, SenderInv, sending[1] # "idle", Leave, sent' = sent,
         cut' \subseteq cut \cup {UnderWay}
  PROVE  /\ SenderInv'
         /\ jobs' \in Seq(Payloads) /\ sending' \in Parts \X Nat
         /\ UnderWay' = UnderWay + 1 /\ UnderWay \in 1..Len(sent)
         /\ Head(jobs) = sent[UnderWay] /\ Written' = 0
  <1> DEFINE a == Len(sent)
             b == Len(jobs)
  <1>1. /\ a \in Nat /\ b \in Nat /\ b > 0 /\ b <= a
        /\ Tail(jobs) \in Seq(Payloads) /\ Len(Tail(jobs)) = b - 1
        /\ \A i \in 1..(b - 1) : Tail(jobs)[i] = jobs[i + 1]
        /\ Head(jobs) = jobs[1]
    BY FirstJob DEF SenderInv
  <1>2. sending' = Idle /\ jobs' = Tail(jobs)
    BY DEF Leave
  <1>3. UnderWay = a - b + 1 /\ UnderWay' = a - (b - 1) + 1
    BY <1>1, <1>2 DEF UnderWay
  <1>4. /\ \A i \in 1..b : jobs[i] = sent[a - b + i]
        /\ \A i, j \in 1..a : sent[i] = sent[j] => i = j
        /\ \A c \in cut : c < UnderWay
    BY DEF SenderInv
  <1>5. sending'[1] = "idle" /\ sending' \in Parts \X Nat
    BY <1>2 DEF Idle, Parts
  <1> HIDE DEF a, b
  <1>6. UnderWay' = UnderWay + 1 /\ UnderWay \in 1..a
    BY <1>1, <1>3
  <1>7. ASSUME NEW i \in 1..(b - 1) PROVE Tail(jobs)[i] = sent[a - (b - 1) + i]
    <2>1. i + 1 \in 1..b /\ a - b + (i + 1) = a - (b - 1) + i
      BY <1>1
    <2> QED
      BY <1>1, <1>4, <2>1
  <1>8. Head(jobs) = sent[UnderWay]
    <2>1. 1 \in 1..b /\ a - b + 1 = UnderWay
      BY <1>1, <1>3
    <2> QED
      BY <1>1, <1>4, <2>1
  <1>9. \A c \in cut' : c < UnderWay'
    <2>1. \A c \in cut : c < UnderWay + 1
      <3>1. cut \subseteq 1..a
        BY DEF TypeOK, a
      <3> QED
        BY <1>1, <1>3, <1>4, <3>1
    <2>2. UnderWay < UnderWay + 1
      BY <1>6, <1>1
    <2> QED
      BY <1>6, <2>1, <2>2
  <1>10. b - 1 <= a
    BY <1>1
  <1>11. /\ Len(jobs') <= Len(sent')
         /\ \A i \in 1..Len(jobs') : jobs'[i] = sent'[Len(sent') - Len(jobs') + i]
         /\ \A i, j \in 1..Len(sent') : sent'[i] = sent'[j] => i = j
    BY <1>1, <1>2, <1>4, <1>7, <1>10 DEF a
  <1>12. SenderInv'
    BY <1>2, <1>5, <1>9, <1>11 DEF SenderInv
  <1> QED
    BY <1>1, <1>2, <1>5, <1>6, <1>8, <1>12, WrittenNext DEF a

\* The message under way.
LEMMA UnderWayIs ==
  ASSUME TypeOK, SenderInv
  PROVE  /\ UnderWay \in Nat /\ UnderWay > 0 /\ UnderWay <= Len(sent) + 1
         /\ sending[1] # "idle" => UnderWay <= Len(sent) /\ Head(jobs) = sent[UnderWay]
         /\ Len(sent) \in Nat
  <1> DEFINE a == Len(sent)
             b == Len(jobs)
  <1>1. a \in Nat /\ b \in Nat /\ b <= a /\ UnderWay = a - b + 1
    BY DEF TypeOK, SenderInv, UnderWay
  <1>2. ASSUME sending[1] # "idle"
        PROVE  b > 0 /\ Head(jobs) = jobs[1]
    BY <1>2, FirstJob
  <1>3. \A i \in 1..b : jobs[i] = sent[a - b + i]
    BY DEF SenderInv
  <1> HIDE DEF a, b
  <1>4. ASSUME sending[1] # "idle"
        PROVE  UnderWay <= a /\ Head(jobs) = sent[UnderWay]
    <2>1. 1 \in 1..b /\ a - b + 1 = UnderWay /\ UnderWay <= a
      BY <1>1, <1>2, <1>4
    <2> QED
      BY <1>2, <1>3, <1>4, <2>1
  <1>5. UnderWay \in Nat /\ UnderWay > 0 /\ UnderWay <= a + 1
    BY <1>1
  <1> QED
    BY <1>1, <1>4, <1>5 DEF a

LEMMA PushKeeps ==
  ASSUME TypeOK, SenderInv, NEW m \in Payloads, PushSendingJob(m)
  PROVE  /\ TypeOK' /\ SenderInv'
         /\ UnderWay' = UnderWay /\ Written' = Written
         /\ Len(sent') = Len(sent) + 1 /\ \A i \in 1..Len(sent) : sent'[i] = sent[i]
         /\ sent' = Append(sent, m)
  <1> DEFINE a == Len(sent)
             b == Len(jobs)
  <1>1. /\ jobs' = Append(jobs, m) /\ sent' = Append(sent, m) /\ m \notin ToSet(sent)
        /\ UNCHANGED <<sending, wire, open, reading, received, cut>>
    BY DEF PushSendingJob
  <1>2. jobs \in Seq(Payloads) /\ sent \in Seq(Payloads) /\ cut \subseteq 1..a
    BY DEF TypeOK
  <1>3. /\ a \in Nat /\ b \in Nat /\ b <= a
        /\ \A i \in 1..b : jobs[i] = sent[a - b + i]
        /\ \A i, j \in 1..a : sent[i] = sent[j] => i = j
    BY <1>2 DEF SenderInv
  <1>4. /\ jobs' \in Seq(Payloads) /\ sent' \in Seq(Payloads)
        /\ Len(jobs') = b + 1 /\ Len(sent') = a + 1
        /\ \A i \in 1..b : jobs'[i] = jobs[i]
        /\ \A i \in 1..a : sent'[i] = sent[i]
        /\ jobs'[b + 1] = m /\ sent'[a + 1] = m
        /\ jobs # <<>> => Head(jobs') = Head(jobs)
        /\ jobs' # <<>>
    BY <1>1, <1>2
  <1>5. \A i \in 1..a : sent[i] # m
    BY <1>1, <1>2 DEF ToSet
  <1> HIDE DEF a, b
  <1>6. \A i \in 1..(b + 1) : jobs'[i] = sent'[(a + 1) - (b + 1) + i]
    <2> TAKE i \in 1..(b + 1)
    <2>1. CASE i = b + 1
      <3>1. (a + 1) - (b + 1) + i = a + 1
        BY <2>1, <1>3
      <3> QED
        BY <2>1, <3>1, <1>4
    <2>2. CASE i # b + 1
      <3>1. i \in 1..b /\ a - b + i \in 1..a /\ (a + 1) - (b + 1) + i = a - b + i
        BY <2>2, <1>3
      <3> QED
        BY <3>1, <1>3, <1>4
    <2> QED
      BY <2>1, <2>2
  <1>7. \A i, j \in 1..(a + 1) : sent'[i] = sent'[j] => i = j
    <2>1. \A i \in 1..(a + 1) : i \in 1..a \/ i = a + 1
      BY <1>3
    <2> QED
      BY <2>1, <1>3, <1>4, <1>5
  <1>8. UnderWay' = UnderWay
    <2>1. UnderWay = a - b + 1 /\ UnderWay' = (a + 1) - (b + 1) + 1
      BY <1>4 DEF UnderWay, a, b
    <2> QED
      BY <2>1, <1>3
  <1>9. Written' = Written
    <2>1. sending[1] # "idle" => jobs # <<>>
      BY DEF SenderInv
    <2>2. sending[1] # "idle" => Head(jobs') = Head(jobs)
      BY <1>4, <2>1
    <2>3. sending' = sending
      BY <1>1
    <2> QED
      BY <2>2, <2>3 DEF Written
  <1>10. TypeOK'
    <2>1. \A c \in 1..a : c \in 1..(a + 1)
      BY <1>3
    <2>2. cut' \subseteq 1..Len(sent')
      BY <1>1, <1>2, <1>4, <2>1
    <2> QED
      BY <1>1, <1>4, <2>2 DEF TypeOK
  <1>11. SenderInv'
    <2>1. b + 1 <= a + 1
      BY <1>3
    <2>2. \A c \in cut' : c < UnderWay'
      BY <1>1, <1>8 DEF SenderInv
    <2>3. /\ sending'[1] = "idle" <=> sending' = Idle
          /\ sending'[1] # "idle" => jobs' # <<>>
          /\ sending'[1] = "data" => sending'[2] < Len(Head(jobs'))
      BY <1>1, <1>4 DEF SenderInv
    <2>4. /\ Len(jobs') <= Len(sent')
          /\ \A i \in 1..Len(jobs') : jobs'[i] = sent'[Len(sent') - Len(jobs') + i]
          /\ \A i, j \in 1..Len(sent') : sent'[i] = sent'[j] => i = j
      BY <1>4, <1>6, <1>7, <2>1
    <2> QED
      BY <2>2, <2>3, <2>4 DEF SenderInv
  <1> QED
    BY <1>1, <1>4, <1>8, <1>9, <1>10, <1>11 DEF a

LEMMA SenderKeeps ==
  ASSUME TypeOK, SenderInv, Same, Begin \/ Continues \/ Ends \/ Cuts \/ Throws
  PROVE  TypeOK' /\ SenderInv'
  <1>1. /\ jobs \in Seq(Payloads) /\ sent \in Seq(Payloads) /\ sending \in Parts \X Nat
        /\ wire \in Seq(Bytes) /\ cut \subseteq 1..Len(sent)
    BY TypedWire
  <1>2. sent' = sent /\ open' = open /\ reading' = reading /\ received' = received
    BY DEF Same
  <1>3. \A w : Grows(w) => wire' \in Seq(Bytes)
    BY <1>1, ConcatProperties DEF Grows
  <1>4. ASSUME jobs' \in Seq(Payloads), sending' \in Parts \X Nat, wire' \in Seq(Bytes),
               cut' \subseteq 1..Len(sent)
        PROVE  TypeOK'
    BY <1>2, <1>4 DEF TypeOK, Parts, Bytes
  <1>5. CASE Begin
    <2>1. /\ sending = Idle /\ jobs # <<>> /\ sending' = <<"start", 0>>
          /\ UNCHANGED <<jobs, wire, cut>>
      BY <1>5 DEF Begin
    <2>2. UnderWay' = UnderWay
      BY <2>1, <1>2 DEF UnderWay
    <2>3. sending' \in Parts \X Nat /\ sending'[1] = "start" /\ sending' # Idle
      BY <2>1 DEF Parts, Idle
    <2>4. TypeOK'
      BY <1>1, <1>4, <2>1, <2>3
    <2>5. SenderInv'
      BY <1>2, <2>1, <2>2, <2>3 DEF SenderInv
    <2> QED
      BY <2>4, <2>5
  <1>6. CASE Continues
    <2>1. /\ wire' \in Seq(Bytes) /\ sending[1] # "idle"
          /\ jobs' = jobs /\ cut' = cut
          /\ sending' \in (Parts \ {"idle"}) \X Nat
          /\ sending'[1] = "data" => sending'[2] < Len(Head(jobs))
      BY <1>6, <1>3 DEF Continues
    <2>2. UnderWay' = UnderWay
      BY <2>1, <1>2 DEF UnderWay
    <2>3. sending' \in Parts \X Nat /\ sending'[1] # "idle" /\ sending' # Idle
      BY <2>1 DEF Parts, Idle
    <2>4. TypeOK'
      BY <1>1, <1>4, <2>1, <2>3
    <2>5. SenderInv'
      BY <1>2, <2>1, <2>2, <2>3 DEF SenderInv
    <2> QED
      BY <2>4, <2>5
  <1>7. CASE Ends \/ Cuts \/ Throws
    <2>1. /\ sending[1] # "idle" /\ Leave /\ wire' \in Seq(Bytes)
          /\ cut' = cut \/ cut' = cut \cup {UnderWay}
      BY <1>7, <1>1, <1>3 DEF Ends, Cuts, Throws
    <2>2. cut' \subseteq cut \cup {UnderWay}
      BY <2>1
    <2>3. /\ SenderInv' /\ jobs' \in Seq(Payloads) /\ sending' \in Parts \X Nat
          /\ UnderWay \in 1..Len(sent)
      BY <1>2, <2>1, <2>2, Leaves
    <2>4. TypeOK'
      BY <1>1, <1>4, <2>1, <2>2, <2>3
    <2> QED
      BY <2>3, <2>4
  <1> QED
    BY <1>5, <1>6, <1>7

ReadT == [at : States, matched : 0..3, need : Nat, data : Seq(Bytes)]

LEMMA SenderSame ==
  ASSUME UNCHANGED <<jobs, sending, sent, cut>>
  PROVE  SenderInv <=> SenderInv'
  BY DEF SenderInv, UnderWay

LEMMA RestartIs ==
  /\ Restart \in ReadT /\ Restart.at = "start" /\ Restart.matched = 0
  /\ Restart.data = <<>> /\ Restart.need = 0
  BY DEF Restart, ReadT, States

LEMMA ReadDataIs ==
  ASSUME NEW need \in Nat, NEW data \in Seq(Bytes)
  PROVE  /\ ReadData(need, data) \in ReadT
         /\ ReadData(need, data).matched = 0 /\ ReadData(need, data).need = need
         /\ ReadData(need, data).data = data
         /\ need = 0 => ReadData(need, data).at = "end"
         /\ need # 0 => ReadData(need, data).at = "data"
  <1> DEFINE state == IF need = 0 THEN "end" ELSE "data"
             r == [Restart EXCEPT !.at = state, !.need = need, !.data = data]
  <1>1. ReadData(need, data) = r
    BY DEF ReadData
  <1>2. /\ state \in States
        /\ need = 0 => state = "end"
        /\ need # 0 => state = "data"
    BY DEF States
  <1> HIDE DEF state
  <1>3. r \in ReadT /\ r.at = state /\ r.matched = 0 /\ r.need = need /\ r.data = data
    BY <1>2, RestartIs DEF ReadT
  <1> QED
    BY <1>1, <1>2, <1>3

LEMMA LengthIsNat ==
  ASSUME NEW code, \A i \in 1..8 : code[i] \in Bytes
  PROVE  LengthOf(code) \in Nat
  <1>1. code[1] \in Nat /\ code[2] \in Nat
    <2>1. 1 \in 1..8 /\ 2 \in 1..8
      OBVIOUS
    <2> QED
      BY <2>1 DEF Bytes
  <1>2. code[1] + 256 * code[2] \in Nat
    BY <1>1
  <1>3. Unfilled \in Nat
    BY DEF Unfilled
  <1>4. LengthOf(code) = code[1] + 256 * code[2] \/ LengthOf(code) = Unfilled
    BY Zenon DEF LengthOf
  <1> QED
    BY <1>2, <1>3, <1>4

\* What a completed read leaves of the wire.
LEMMA Consumed ==
  ASSUME wire \in Seq(Bytes), NEW n \in Nat, n <= Len(wire), Consume(n)
  PROVE  /\ wire' \in Seq(Bytes) /\ wire' = Left(wire, n)
         /\ SubSeq(wire, 1, n) \in Seq(Bytes) /\ Len(SubSeq(wire, 1, n)) = n
         /\ \A x \in 1..n : SubSeq(wire, 1, n)[x] = wire[x] /\ wire[x] \in Bytes
  <1>1. wire' = Left(wire, n)
    BY DEF Consume, Left
  <1>2. \A x \in 1..n : wire[x] \in Bytes
    OBVIOUS
  <1> QED
    BY <1>1, <1>2, LeftIs, FrontIs

\* How much the read in progress takes.
Chunk == IF reading.need < ReadBuffer THEN reading.need ELSE ReadBuffer

LEMMA ChunkIs ==
  ASSUME TypeOK, ReaderInv, reading.at = "data"
  PROVE  /\ Chunk \in Nat /\ Chunk > 0 /\ Chunk <= reading.need
         /\ reading.need - Chunk \in Nat
  <1>1. reading.need \in Nat /\ reading.need > 0 /\ ReadBuffer \in Nat /\ ReadBuffer > 0
    BY TypedWire, FramingAssumption DEF ReaderInv
  <1> QED
    BY <1>1 DEF Chunk

LEMMA ReaderKeeps ==
  ASSUME TypeOK, SenderInv, ReaderInv, Reader
  PROVE  /\ TypeOK' /\ SenderInv' /\ ReaderInv'
         /\ UNCHANGED <<jobs, sending, open, sent, cut>>
  <1>1. /\ wire \in Seq(Bytes) /\ received \in Seq(Seq(Bytes))
        /\ reading \in ReadT
        /\ reading.at \in States /\ reading.matched \in 0..3 /\ reading.need \in Nat
        /\ reading.data \in Seq(Bytes)
    BY TypedWire DEF ReadT
  <1>2. UNCHANGED <<jobs, sending, open, sent, cut>>
    BY DEF Reader, ReadStartCode, ReadLengthCode, ReadChunk, ReadEndCode, ReadFails, At
  <1>3. ASSUME wire' \in Seq(Bytes), received' \in Seq(Seq(Bytes)), reading' \in ReadT
        PROVE  TypeOK'
    BY <1>2, <1>3 DEF TypeOK, ReadT, States, Bytes
  <1>4. \A n \in Nat : n <= Len(wire) /\ Consume(n) => wire' \in Seq(Bytes)
    BY <1>1, Consumed
  <1>5. SenderInv'
    BY <1>2, SenderSame
  <1>6. \A st \in States : [Restart EXCEPT !.at = st] \in ReadT /\ [Restart EXCEPT !.at = st].at = st
    BY RestartIs DEF ReadT
  <1>7. \A n \in 0..3 : /\ [Restart EXCEPT !.matched = n] \in ReadT
                         /\ [Restart EXCEPT !.matched = n].at = "start"
    BY RestartIs DEF ReadT
  <1>8. \A n \in 0..3 : /\ [reading EXCEPT !.matched = n] \in ReadT
                         /\ [reading EXCEPT !.matched = n].at = reading.at
    BY <1>1 DEF ReadT
  <1>9. CASE ReadStartCode
    <2>1. /\ wire # <<>> /\ Consume(1) /\ received' = received
          /\ \/ reading' = Restart
             \/ reading' = [Restart EXCEPT !.at = "length"]
             \/ /\ reading' = [Restart EXCEPT !.matched = reading.matched + 1]
                /\ reading.matched + 1 # Len(StartCode)
      BY <1>9 DEF ReadStartCode
    <2>2. 1 <= Len(wire)
      BY <1>1, <2>1
    <2>3. reading' \in ReadT /\ reading'.at # "data"
      <3>1. reading.matched + 1 # Len(StartCode) => reading.matched + 1 \in 0..3
        BY <1>1, CodesAre
      <3> QED
        BY <2>1, <3>1, <1>6, <1>7, RestartIs DEF States
    <2> QED
      BY <1>2, <1>5, <1>1, <1>3, <1>4, <2>1, <2>2, <2>3 DEF ReaderInv
  <1>10. CASE ReadLengthCode
    <2> DEFINE n == LengthOf(SubSeq(wire, 1, LengthSize))
    <2>1. /\ Len(wire) >= 8 /\ Consume(8) /\ received' = received
          /\ reading' = ReadData(n, reading.data)
      BY <1>10 DEF ReadLengthCode, LengthSize
    <2>2. n \in Nat
      <3>1. 8 \in Nat /\ 8 <= Len(wire)
        BY <1>1, <2>1
      <3>2. \A x \in 1..8 : SubSeq(wire, 1, 8)[x] \in Bytes
        BY <1>1, <2>1, <3>1, Consumed
      <3> QED
        BY <3>2, LengthIsNat DEF LengthSize
    <2> HIDE DEF n
    <2>3. reading' \in ReadT /\ (reading'.at = "data" => reading'.need > 0)
      BY <1>1, <2>1, <2>2, ReadDataIs
    <2> QED
      BY <1>2, <1>5, <1>1, <1>3, <1>4, <2>1, <2>3 DEF ReaderInv
  <1>11. CASE ReadChunk
    <2>1. /\ reading.at = "data" /\ Len(wire) >= Chunk /\ Consume(Chunk)
          /\ received' = received
          /\ reading' = ReadData(reading.need - Chunk, reading.data \o SubSeq(wire, 1, Chunk))
      BY <1>11 DEF ReadChunk, At, Chunk
    <2>2. Chunk \in Nat /\ reading.need - Chunk \in Nat
      BY <2>1, ChunkIs
    <2>3. SubSeq(wire, 1, Chunk) \in Seq(Bytes) /\ wire' \in Seq(Bytes)
      BY <1>1, <2>1, <2>2, Consumed
    <2>4. reading.data \o SubSeq(wire, 1, Chunk) \in Seq(Bytes)
      BY <1>1, <2>3, ConcatProperties
    <2>5. reading' \in ReadT /\ (reading'.at = "data" => reading'.need > 0)
      <3> DEFINE k == reading.need - Chunk
                 d == reading.data \o SubSeq(wire, 1, Chunk)
      <3>1. k \in Nat /\ d \in Seq(Bytes) /\ reading' = ReadData(k, d)
        BY <2>1, <2>2, <2>4
      <3> HIDE DEF k, d
      <3>2. k # 0 => k > 0
        BY <3>1
      <3> QED
        BY <3>1, <3>2, ReadDataIs
    <2> QED
      BY <1>2, <1>5, <1>1, <1>3, <2>1, <2>3, <2>5 DEF ReaderInv
  <1>12. CASE ReadEndCode
    <2>1. /\ wire # <<>> /\ Consume(1) /\ reading.at = "end"
          /\ received' = received \/ received' = Append(received, reading.data)
          /\ \/ reading' = Restart
             \/ /\ reading' = [reading EXCEPT !.matched = @ + 1]
                /\ reading.matched + 1 # Len(EndCode)
      BY <1>12 DEF ReadEndCode, At
    <2>2. 1 <= Len(wire)
      BY <1>1, <2>1
    <2>3. reading' \in ReadT /\ reading'.at # "data"
      <3>1. reading.matched + 1 # Len(EndCode) => reading.matched + 1 \in 0..3
        BY <1>1, CodesAre
      <3> QED
        BY <2>1, <3>1, <1>8, RestartIs
    <2>4. received' \in Seq(Seq(Bytes))
      <3>1. Append(received, reading.data) \in Seq(Seq(Bytes))
        <4> DEFINE X == Seq(Bytes)
        <4>1. received \in Seq(X) /\ reading.data \in X
          BY <1>1
        <4> HIDE DEF X
        <4>2. Append(received, reading.data) \in Seq(X)
          BY <4>1
        <4> QED
          BY <4>2 DEF X
      <3> QED
        BY <1>1, <2>1, <3>1
    <2> QED
      BY <1>2, <1>5, <1>1, <1>3, <1>4, <2>1, <2>2, <2>3, <2>4 DEF ReaderInv
  <1>13. CASE ReadFails
    <2>1. wire' = <<>> /\ received' = received /\ reading' = [Restart EXCEPT !.at = "expired"]
      BY <1>13 DEF ReadFails
    <2>2. reading' \in ReadT /\ reading'.at # "data"
      BY <2>1, <1>6 DEF States
    <2> QED
      BY <1>2, <1>5, <1>1, <1>3, <2>1, <2>2 DEF ReaderInv
  <1> QED
    BY <1>9, <1>10, <1>11, <1>12, <1>13 DEF Reader

LEMMA BreakKeeps ==
  ASSUME TypeOK, SenderInv, ReaderInv, Break
  PROVE  TypeOK' /\ SenderInv' /\ ReaderInv'
  <1>1. /\ open' = FALSE /\ wire' \in {wire, <<>>}
        /\ UNCHANGED <<jobs, sending, reading, sent, received, cut>>
    BY DEF Break
  <1>2. wire' \in Seq(0..255)
    BY <1>1, TypedWire, EmptySeq DEF Bytes
  <1>3. TypeOK'
    BY <1>1, <1>2 DEF TypeOK
  <1> QED
    BY <1>1, <1>3, SenderSame DEF ReaderInv

-----------------------------------------------------------------------------
(* A reader that is past the first cut, or has nothing left to read.       *)

LEMMA Received ==
  ASSUME TypeOK, received' = received \/ \E x : received' = Append(received, x)
  PROVE  /\ Len(received) \in Nat /\ Coming = Len(received) + 1
         /\ Coming' >= Coming /\ Coming' \in Nat
         /\ \A i \in 1..Len(received) : received'[i] = received[i]
  <1>1. received \in Seq(Seq(Bytes)) /\ Len(received) \in Nat /\ Coming = Len(received) + 1
    BY TypedWire DEF Coming
  <1>2. CASE received' = received
    BY <1>1, <1>2 DEF Coming
  <1>3. CASE \E x : received' = Append(received, x)
    <2>1. PICK x : received' = Append(received, x)
      BY <1>3
    <2>2. /\ Len(received') = Len(received) + 1
          /\ \A i \in 1..Len(received) : received'[i] = received[i]
      BY <1>1, <2>1
    <2>3. Coming' = Coming + 1
      BY <1>1, <2>2 DEF Coming
    <2> QED
      BY <1>1, <2>2, <2>3
  <1> QED
    BY <1>2, <1>3

LEMMA PastStays ==
  ASSUME TypeOK, SenderInv, Past,
         received' = received \/ \E x : received' = Append(received, x),
         cut' = cut \/ cut' = cut \cup {UnderWay},
         \A i \in 1..Len(sent) : sent'[i] = sent[i]
  PROVE  Past'
  <1>1. PICK z \in cut :
          /\ \A c \in cut : z <= c
          /\ z <= Coming
          /\ \A i \in 1..(z - 1) : received[i] = sent[i]
    BY DEF Past
  <1>2. z \in 1..Len(sent) /\ Len(sent) \in Nat /\ z < UnderWay /\ UnderWay \in Nat
    BY <1>1, UnderWayIs DEF TypeOK, SenderInv
  <1>3. /\ Len(received) \in Nat /\ Coming = Len(received) + 1
        /\ Coming' >= Coming /\ Coming' \in Nat
        /\ \A i \in 1..Len(received) : received'[i] = received[i]
    BY Received
  <1>4. z \in cut' /\ \A c \in cut' : z <= c
    <2>1. z <= UnderWay
      BY <1>2
    <2>2. \A c \in cut' : c \in cut \/ c = UnderWay
      OBVIOUS
    <2> QED
      BY <1>1, <2>1, <2>2
  <1>5. z <= Coming'
    BY <1>1, <1>2, <1>3
  <1>6. ASSUME NEW i \in 1..(z - 1) PROVE received'[i] = sent'[i]
    <2>1. i \in 1..Len(received) /\ i \in 1..Len(sent)
      BY <1>1, <1>2, <1>3
    <2> QED
      BY <2>1, <1>1, <1>3
  <1> QED
    BY <1>4, <1>5, <1>6 DEF Past

\* What was received is among what was sent before the message under way.
LEMMA FaithfulStays ==
  ASSUME TypeOK, SenderInv, Faithful, Coming <= UnderWay, received' = received,
         \A i \in 1..Len(sent) : sent'[i] = sent[i]
  PROVE  Faithful'
  <1>1. /\ Len(received) \in Nat /\ Coming = Len(received) + 1 /\ Coming' = Coming
    BY Received DEF Coming
  <1>2. Len(received) <= Len(sent)
    BY <1>1, UnderWayIs
  <1>3. \A i \in 1..Len(received) : i \in 1..Len(sent)
    BY <1>1, <1>2, UnderWayIs
  <1> QED
    BY <1>3 DEF Faithful

LEMMA GoneStays ==
  ASSUME TypeOK, SenderInv, Gone, ~open', wire' = <<>>, received' = received, cut' = cut,
         \A i \in 1..Len(sent) : sent'[i] = sent[i],
         UnderWay' = UnderWay \/ UnderWay' = UnderWay + 1
  PROVE  Gone'
  <1>1. Coming' = Coming /\ Len(received) \in Nat /\ Coming = Len(received) + 1
    BY Received DEF Coming
  <1>2. Coming <= UnderWay /\ UnderWay \in Nat
    BY UnderWayIs DEF Gone
  <1>3. Faithful'
    BY <1>2, FaithfulStays DEF Gone
  <1>4. Coming' <= UnderWay'
    BY <1>1, <1>2
  <1> QED
    BY <1>1, <1>3, <1>4 DEF Gone

\* With an empty wire only the failure of a read is left to the reader.
LEMMA NothingToRead ==
  ASSUME TypeOK, ReaderInv, wire = <<>>, Reader
  PROVE  ReadFails
  <1>1. Len(wire) = 0
    OBVIOUS
  <1>2. ~ReadStartCode /\ ~ReadEndCode
    BY DEF ReadStartCode, ReadEndCode
  <1>3. ~ReadLengthCode
    BY <1>1 DEF ReadLengthCode, LengthSize
  <1>4. ~ReadChunk
    <2> SUFFICES ASSUME ReadChunk PROVE FALSE
      OBVIOUS
    <2>1. reading.at = "data" /\ Len(wire) >= Chunk
      BY DEF ReadChunk, At, Chunk
    <2>2. Chunk \in Nat /\ Chunk > 0
      BY <2>1, ChunkIs
    <2> QED
      BY <1>1, <2>1, <2>2
  <1> QED
    BY <1>2, <1>3, <1>4 DEF Reader

-----------------------------------------------------------------------------
(* A reader before the first cut.                                          *)

LEMMA CleanIs ==
  ASSUME TypeOK, SenderInv, NEW B, NEW l, NEW r, CleanBy(B, l, r)
  PROVE  /\ Coming \in Nat /\ Coming > 0 /\ Coming = Len(received) + 1 /\ Len(received) \in Nat
         /\ l \in Nat /\ Coming <= l /\ l <= UnderWay /\ UnderWay \in Nat
         /\ l <= Len(sent) + 1 /\ Len(sent) \in Nat
         /\ \A k \in 1..Len(sent) : sent[k] \in Payloads
         /\ \A k \in Coming..(l - 1) : sent[k] \in Payloads
         /\ \A k \in Coming..l : B[k] \in Seq(Bytes)
         /\ B[Coming] \in Seq(Bytes) /\ B[l] \in Seq(Bytes)
         /\ r \in Nat /\ r <= Len(B[Coming])
  <1>1. received \in Seq(Seq(Bytes)) /\ sent \in Seq(Payloads)
    BY TypedWire
  <1>2. Coming \in Nat /\ Coming > 0 /\ Coming = Len(received) + 1 /\ Len(received) \in Nat
    BY <1>1 DEF Coming
  <1>3. UnderWay \in Nat /\ UnderWay <= Len(sent) + 1 /\ Len(sent) \in Nat
    BY UnderWayIs
  <1>4. l \in Coming..UnderWay /\ r \in Nat /\ Stream(B, l, r)
    BY DEF CleanBy
  <1>5. l \in Nat /\ Coming <= l /\ l <= UnderWay /\ l <= Len(sent) + 1
    BY <1>2, <1>3, <1>4
  <1>6. \A k \in 1..Len(sent) : sent[k] \in Payloads
    BY <1>1
  <1>7. \A k \in Coming..(l - 1) : k \in 1..Len(sent)
    BY <1>2, <1>3, <1>5
  <1>8. \A k \in Coming..l : B[k] \in Seq(Bytes)
    BY <1>4 DEF Stream, Chain
  <1>9. Coming \in Coming..l /\ l \in Coming..l
    BY <1>2, <1>5
  <1>10. r <= Len(B[Coming])
    BY <1>4 DEF Stream
  <1> QED
    BY <1>2, <1>3, <1>4, <1>5, <1>6, <1>7, <1>8, <1>9, <1>10

\* The bytes of w are written behind those of B.
Behind(B, l, w) == [k \in Coming..l |-> B[k] \o w]

LEMMA StreamGrows ==
  ASSUME TypeOK, SenderInv, NEW B, NEW l, NEW r, CleanBy(B, l, r), NEW w, Grows(w)
  PROVE  /\ Chain(Behind(B, l, w), Coming, l, sent)
         /\ r <= Len(Behind(B, l, w)[Coming])
         /\ wire' = Left(Behind(B, l, w)[Coming], r)
         /\ \A k \in Coming..l : Behind(B, l, w)[k] = B[k] \o w
  <1>1. /\ Coming \in Nat /\ l \in Nat /\ Coming <= l
        /\ \A k \in Coming..(l - 1) : sent[k] \in Payloads
        /\ B[Coming] \in Seq(Bytes) /\ r \in Nat /\ r <= Len(B[Coming])
    BY CleanIs
  <1>2. Chain(B, Coming, l, sent) /\ wire = Left(B[Coming], r)
    BY DEF CleanBy, Stream
  <1>3. w \in Seq(Bytes) /\ wire' = wire \o w
    BY DEF Grows
  <1>4. Chain(Behind(B, l, w), Coming, l, sent)
    BY <1>1, <1>2, <1>3, ChainGrows DEF Behind
  <1>5. \A k \in Coming..l : Behind(B, l, w)[k] = B[k] \o w
    BY DEF Behind
  <1>6. Behind(B, l, w)[Coming] = B[Coming] \o w
    BY <1>1, <1>5
  <1>7. wire' = Left(B[Coming] \o w, r)
    BY <1>1, <1>2, <1>3, LeftOfConcat
  <1>8. Len(B[Coming] \o w) = Len(B[Coming]) + Len(w) /\ Len(w) \in Nat
    BY <1>1, <1>3, ConcatProperties
  <1>9. r <= Len(B[Coming] \o w)
    BY <1>1, <1>8
  <1> QED
    BY <1>4, <1>5, <1>6, <1>7, <1>9

\* A part of a frame goes on with the next bytes of the frame.
LEMMA PartGrows ==
  ASSUME NEW m \in Payloads, NEW P \in Seq(Bytes), NEW w \in Seq(Bytes),
         \A x \in 1..Len(P) : P[x] = Frame(m)[x],
         \A x \in 1..Len(w) : w[x] = Frame(m)[Len(P) + x]
  PROVE  /\ P \o w \in Seq(Bytes) /\ Len(P \o w) = Len(P) + Len(w)
         /\ \A x \in 1..Len(P \o w) : (P \o w)[x] = Frame(m)[x]
         /\ Len(P) + Len(w) = 16 + Len(m) => P \o w = Frame(m)
  <1>1. /\ P \o w \in Seq(Bytes) /\ Len(P \o w) = Len(P) + Len(w)
        /\ \A x \in 1..(Len(P) + Len(w)) :
              (P \o w)[x] = IF x <= Len(P) THEN P[x] ELSE w[x - Len(P)]
    BY ConcatProperties
  <1>2. Len(P) \in Nat /\ Len(w) \in Nat
    OBVIOUS
  <1>3. ASSUME NEW x \in 1..(Len(P) + Len(w)) PROVE (P \o w)[x] = Frame(m)[x]
    <2>1. CASE x <= Len(P)
      BY <1>1, <1>2, <2>1
    <2>2. CASE ~(x <= Len(P))
      <3>1. x - Len(P) \in 1..Len(w) /\ Len(P) + (x - Len(P)) = x
        BY <1>2, <2>2
      <3> QED
        BY <1>1, <2>2, <3>1
    <2> QED
      BY <2>1, <2>2
  <1>4. ASSUME Len(P) + Len(w) = 16 + Len(m) PROVE P \o w = Frame(m)
    <2>1. Frame(m) \in Seq(Bytes) /\ Len(Frame(m)) = 16 + Len(m)
      BY FrameIs
    <2> QED
      BY <1>1, <1>3, <1>4, <2>1, SeqEqual
  <1> QED
    BY <1>1, <1>3, <1>4

\* The reader does not move: what else is to be shown of the new stream.
LEMMA ReaderRests ==
  ASSUME TypeOK, SenderInv, NEW B, NEW l, NEW r, CleanBy(B, l, r),
         UNCHANGED <<received, reading, sent>>,
         NEW C, NEW l2, l2 \in Coming..UnderWay',
         Stream(C, l2, r)', \A c \in cut' : l2 <= c,
         cut' # {} => l2 \in cut' /\ Coming < l2
  PROVE  Clean'
  <1>1. Coming' = Coming
    BY DEF Coming
  <1>2. Faithful'
    BY DEF CleanBy, Faithful
  <1>3. /\ Coming' <= Len(sent') => HasRead(sent[Coming], r)'
        /\ Coming' > Len(sent') => reading' = Restart' /\ r = 0
    BY <1>1 DEF CleanBy, HasRead, Restart
  <1>4. r \in Nat
    BY CleanIs
  <1>5. CleanBy(C, l2, r)'
    BY <1>1, <1>2, <1>3, <1>4 DEF CleanBy
  <1> QED
    BY <1>5 DEF Clean

LEMMA CleanPush ==
  ASSUME TypeOK, SenderInv, NEW B, NEW l, NEW r, CleanBy(B, l, r),
         NEW m \in Payloads, PushSendingJob(m)
  PROVE  Clean'
  <1>1. /\ UnderWay' = UnderWay /\ Written' = Written
        /\ Len(sent') = Len(sent) + 1 /\ \A i \in 1..Len(sent) : sent'[i] = sent[i]
    BY PushKeeps
  <1>2. UNCHANGED <<wire, open, reading, received, cut>>
    BY DEF PushSendingJob
  <1>3. Coming' = Coming
    BY <1>2 DEF Coming
  <1>4. /\ Coming \in Nat /\ Coming > 0 /\ l \in Nat /\ Coming <= l /\ l <= UnderWay
        /\ l <= Len(sent) + 1 /\ Len(sent) \in Nat /\ r \in Nat
        /\ B[l] \in Seq(Bytes)
    BY CleanIs
  <1>5. /\ l \in Coming..UnderWay /\ Faithful /\ \A c \in cut : l <= c
        /\ cut # {} => l \in cut /\ Coming < l
        /\ Coming <= Len(sent) => HasRead(sent[Coming], r)
        /\ Coming > Len(sent) => reading = Restart /\ r = 0
        /\ Stream(B, l, r)
    BY DEF CleanBy
  <1>6. Faithful'
    <2>1. Coming <= UnderWay
      BY <1>4, UnderWayIs
    <2> QED
      BY <1>1, <1>2, <2>1, <1>5, FaithfulStays
  <1>7. Chain(B, Coming, l, sent')
    <2>1. \A k \in Coming..(l - 1) : k \in 1..Len(sent)
      BY <1>4
    <2>2. \A k \in Coming..(l - 1) : sent[k] = sent'[k]
      BY <1>1, <2>1
    <2>3. Chain(B, Coming, l, sent)
      BY <1>5 DEF Stream
    <2> QED
      BY <1>4, <2>2, <2>3, ChainOf
  <1>8. cut = {} => Part(B[l], l)'
    <2> SUFFICES ASSUME cut = {} PROVE Part(B[l], l)'
      OBVIOUS
    <2>1. Part(B[l], l)
      BY <1>5 DEF Stream
    <2>2. CASE l <= Len(sent)
      <3>1. l \in 1..Len(sent) /\ ~(l > Len(sent'))
        BY <1>1, <1>4, <2>2
      <3>2. sent'[l] = sent[l]
        BY <1>1, <3>1
      <3> QED
        BY <2>1, <2>2, <3>1, <3>2 DEF Part, Frame
    <2>3. CASE l > Len(sent)
      <3>1. B[l] = <<>> /\ l = Len(sent) + 1 /\ ~(l > Len(sent'))
        BY <1>1, <1>4, <2>1, <2>3 DEF Part
      <3>2. Len(sent'[l]) \in Nat
        <4>1. sent' \in Seq(Payloads) /\ l \in 1..Len(sent')
          <5>1. TypeOK'
            BY PushKeeps
          <5> QED
            BY <5>1, <3>1, <1>1, <1>4 DEF TypeOK
        <4>2. sent'[l] \in Payloads
          BY <4>1
        <4> QED
          BY <4>2, PayloadIs
      <3>3. Len(B[l]) = 0
        BY <3>1
      <3> QED
        BY <3>1, <3>2, <3>3 DEF Part
    <2> QED
      BY <1>4, <2>2, <2>3
  <1>9. Stream(B, l, r)'
    BY <1>1, <1>2, <1>3, <1>5, <1>7, <1>8 DEF Stream
  <1>10. /\ Coming' <= Len(sent') => HasRead(sent[Coming], r)'
         /\ Coming' > Len(sent') => reading' = Restart' /\ r = 0
    <2>1. CASE Coming <= Len(sent)
      <3>1. Coming \in 1..Len(sent) /\ Coming' <= Len(sent')
        BY <1>1, <1>3, <1>4, <2>1
      <3>2. sent'[Coming] = sent[Coming] /\ Coming' <= Len(sent') /\ ~(Coming' > Len(sent'))
        BY <1>1, <1>3, <1>4, <3>1
      <3> QED
        BY <1>2, <1>3, <1>5, <2>1, <3>2 DEF HasRead
    <2>2. CASE Coming > Len(sent)
      <3>1. reading = Restart /\ r = 0 /\ ~(Coming' > Len(sent'))
        BY <1>1, <1>3, <1>4, <1>5, <2>2
      <3> QED
        BY <1>2, <3>1, RestartIs DEF HasRead
    <2> QED
      BY <1>4, <2>1, <2>2
  <1>11. CleanBy(B, l, r)'
    BY <1>1, <1>2, <1>3, <1>4, <1>5, <1>6, <1>9, <1>10 DEF CleanBy
  <1> QED
    BY <1>11 DEF Clean

LEMMA CleanBreaks ==
  ASSUME TypeOK, SenderInv, NEW B, NEW l, NEW r, CleanBy(B, l, r), Break \/ ReadFails
  PROVE  Clean' \/ Gone'
  <1>1. /\ Coming \in Nat /\ l \in Nat /\ Coming <= l /\ l <= UnderWay /\ UnderWay \in Nat
        /\ l \in Coming..UnderWay
    BY CleanIs DEF CleanBy
  <1>2. /\ ~open' /\ UNCHANGED <<jobs, sending, sent, received, cut>>
        /\ wire' = <<>> \/ (wire' = wire /\ reading' = reading)
    BY DEF Break, ReadFails
  <1>3. Coming' = Coming /\ UnderWay' = UnderWay /\ Written' = Written
    BY <1>2 DEF Coming, UnderWay, Written
  <1>4. CASE wire' = <<>>
    <2>1. Faithful'
      BY <1>2 DEF Faithful, CleanBy
    <2>2. \A c \in cut : Coming <= c
      <3>1. \A c \in cut : l <= c /\ c \in Nat
        BY DEF CleanBy, TypeOK
      <3> QED
        BY <1>1, <3>1
    <2>3. Coming <= UnderWay
      BY <1>1
    <2> QED
      BY <1>2, <1>3, <1>4, <2>1, <2>2, <2>3 DEF Gone
  <1>5. CASE wire' = wire /\ reading' = reading
    <2>1. Stream(B, l, r) /\ \A c \in cut : l <= c
      BY DEF CleanBy
    <2>2. Stream(B, l, r)'
      BY <1>2, <1>3, <1>5, <2>1 DEF Stream, Part
    <2>3. cut' # {} => l \in cut' /\ Coming < l
      BY <1>2 DEF CleanBy
    <2>4. UNCHANGED <<received, reading, sent>>
      BY <1>2, <1>5
    <2>5. Clean'
      BY <1>1, <1>2, <1>3, <2>1, <2>2, <2>3, <2>4, ReaderRests
    <2> QED
      BY <2>5
  <1> QED
    BY <1>2, <1>4, <1>5

LEMMA CleanSends ==
  ASSUME TypeOK, SenderInv, NEW B, NEW l, NEW r, CleanBy(B, l, r),
         Same, Begin \/ Continues \/ Ends \/ Cuts \/ Throws
  PROVE  Clean' \/ Past'
  <1>1. /\ Coming \in Nat /\ Coming > 0 /\ Coming = Len(received) + 1
        /\ l \in Nat /\ Coming <= l /\ l <= UnderWay /\ UnderWay \in Nat
        /\ l <= Len(sent) + 1 /\ Len(sent) \in Nat
        /\ \A k \in 1..Len(sent) : sent[k] \in Payloads
        /\ B[l] \in Seq(Bytes) /\ B[Coming] \in Seq(Bytes)
        /\ r \in Nat /\ r <= Len(B[Coming])
    BY CleanIs
  <1>2. /\ l \in Coming..UnderWay /\ Faithful /\ \A c \in cut : l <= c
        /\ cut # {} => l \in cut /\ Coming < l
        /\ Stream(B, l, r)
    BY DEF CleanBy
  <1>3. UNCHANGED <<open, received, reading, sent>>
    BY DEF Same
  <1>4. Coming' = Coming
    BY <1>3 DEF Coming
  <1>5. /\ Chain(B, Coming, l, sent) /\ wire = Left(B[Coming], r)
        /\ cut = {} => Part(B[l], l)
        /\ cut = {} /\ open => l = UnderWay /\ Len(B[l]) = Written
    BY <1>2 DEF Stream
  <1>6. ASSUME sending[1] # "idle"
        PROVE  /\ UnderWay \in 1..Len(sent) /\ Head(jobs) = sent[UnderWay]
               /\ Head(jobs) \in Payloads
    <2>1. UnderWay <= Len(sent) /\ Head(jobs) = sent[UnderWay] /\ UnderWay > 0
      BY <1>6, UnderWayIs
    <2>2. UnderWay \in 1..Len(sent)
      BY <1>1, <2>1
    <2> QED
      BY <1>1, <2>1, <2>2
  <1>7. CASE Begin
    <2>1. UNCHANGED <<jobs, wire, cut>> /\ sending = Idle /\ sending' = <<"start", 0>>
      BY <1>7 DEF Begin
    <2>2. UnderWay' = UnderWay
      BY <2>1, <1>3 DEF UnderWay
    <2>3. Written = 0 /\ Written' = 0
      BY <2>1, WrittenIs, WrittenNext DEF Idle
    <2>4. Stream(B, l, r)'
      BY <1>2, <1>3, <1>4, <2>1, <2>2, <2>3 DEF Stream, Part
    <2> QED
      BY <1>2, <1>3, <2>1, <2>2, <2>4, ReaderRests
  <1>8. CASE Throws
    <2>1. UNCHANGED <<wire, cut>> /\ ~open /\ sending[1] # "idle" /\ Leave
      BY <1>8 DEF Throws
    <2>2. UnderWay' = UnderWay + 1
      BY <2>1, <1>3, Leaves
    <2>3. l \in Coming..UnderWay'
      BY <1>1, <2>2
    <2>4. Stream(B, l, r)'
      BY <1>2, <1>3, <1>4, <2>1 DEF Stream, Part
    <2> QED
      BY <1>2, <1>3, <2>1, <2>3, <2>4, ReaderRests
  <1>9. CASE Continues \/ Ends \/ Cuts
    <2>1. PICK w :
             /\ Grows(w)
             /\ \/ /\ NextBytes(w) /\ open /\ sending[1] # "idle"
                   /\ jobs' = jobs /\ cut' = cut
                   /\ Written' = Written + Len(w)
                   /\ Written' < 16 + Len(Head(jobs))
                \/ /\ NextBytes(w) /\ open /\ sending[1] # "idle"
                   /\ Leave /\ cut' = cut
                   /\ Written + Len(w) = 16 + Len(Head(jobs))
                \/ /\ open /\ sending[1] # "idle" /\ Leave
                   /\ cut' = cut \cup {UnderWay}
      BY <1>9 DEF Continues, Ends, Cuts
    <2>2. /\ Grows(w) /\ w \in Seq(Bytes) /\ Len(w) \in Nat /\ open /\ sending[1] # "idle"
          /\ cut' \subseteq cut \cup {UnderWay} /\ cut \subseteq cut'
          /\ jobs' = jobs \/ Leave
      BY <2>1 DEF Grows
    <2>3. PICK C :
             /\ Chain(C, Coming, l, sent) /\ r <= Len(C[Coming]) /\ wire' = Left(C[Coming], r)
             /\ \A k \in Coming..l : C[k] = B[k] \o w
      <3> DEFINE D == Behind(B, l, w)
      <3>1. /\ Chain(D, Coming, l, sent) /\ r <= Len(D[Coming]) /\ wire' = Left(D[Coming], r)
            /\ \A k \in Coming..l : D[k] = B[k] \o w
        BY <2>2, StreamGrows
      <3> HIDE DEF D
      <3> QED
        BY <3>1
    <2>4. C[l] = B[l] \o w
      BY <1>1, <2>3
    <2>5. UnderWay' = UnderWay \/ UnderWay' = UnderWay + 1
      <3>1. jobs' = jobs => UnderWay' = UnderWay
        BY <1>3 DEF UnderWay
      <3>2. Leave => UnderWay' = UnderWay + 1
        BY <1>3, <2>2, Leaves
      <3> QED
        BY <2>2, <3>1, <3>2
    <2>6. l \in Coming..UnderWay'
      BY <1>1, <2>5
    <2>7. CASE cut # {}
      <3>1. l \in cut /\ l \in cut' /\ Coming < l /\ cut' # {}
        BY <1>2, <2>2, <2>7
      <3>2. \A c \in cut' : l <= c
        BY <1>1, <1>2, <2>2
      <3>3. Stream(C, l, r)'
        BY <1>3, <1>4, <2>3, <3>1 DEF Stream
      <3> QED
        BY <1>3, <2>6, <3>1, <3>2, <3>3, ReaderRests
    <2>8. CASE cut = {} /\ cut' # {}
      <3>1. cut' = {UnderWay} /\ l = UnderWay
        BY <1>5, <2>2, <2>8
      <3>2. l \in cut' /\ \A c \in cut' : l <= c
        BY <1>1, <3>1
      <3>3. CASE Coming < l
        <4>1. Stream(C, l, r)'
          BY <1>3, <1>4, <2>3, <2>8 DEF Stream
        <4> QED
          BY <1>3, <2>6, <3>2, <3>3, <4>1, ReaderRests
      <3>4. CASE Coming = l
        <4>1. \A i \in 1..(l - 1) : i \in 1..Len(received)
          BY <1>1, <3>4
        <4>2. \A i \in 1..(l - 1) : received'[i] = sent'[i]
          BY <1>2, <1>3, <4>1 DEF Faithful
        <4>3. l <= Coming'
          BY <1>1, <1>4, <3>4
        <4>4. Past'
          BY <3>2, <4>2, <4>3 DEF Past
        <4> QED
          BY <4>4
      <3> QED
        BY <1>1, <3>3, <3>4
    <2>9. CASE cut' = {}
      <3>1. cut = {} /\ cut' = cut /\ l = UnderWay /\ Len(B[l]) = Written /\ Part(B[l], l)
        BY <1>5, <2>2, <2>9
      <3>2. /\ NextBytes(w)
            /\ \/ /\ jobs' = jobs /\ Written' = Written + Len(w)
                  /\ Written' < 16 + Len(Head(jobs))
               \/ Leave /\ Written + Len(w) = 16 + Len(Head(jobs))
        BY <2>1, <2>9
      <3>3. l \in 1..Len(sent) /\ Head(jobs) = sent[l] /\ sent[l] \in Payloads
        BY <1>6, <2>2, <3>1
      <3>4. \A x \in 1..Len(B[l]) : B[l][x] = Frame(sent[l])[x]
        BY <3>1, <3>3 DEF Part
      <3>5. \A x \in 1..Len(w) : w[x] = Frame(sent[l])[Len(B[l]) + x]
        BY <3>1, <3>2, <3>3 DEF NextBytes
      <3>6. /\ C[l] \in Seq(Bytes) /\ Len(C[l]) = Written + Len(w)
            /\ \A x \in 1..Len(C[l]) : C[l][x] = Frame(sent[l])[x]
            /\ Written + Len(w) = 16 + Len(sent[l]) => C[l] = Frame(sent[l])
        <4>1. /\ B[l] \o w \in Seq(Bytes) /\ Len(B[l] \o w) = Len(B[l]) + Len(w)
              /\ \A x \in 1..Len(B[l] \o w) : (B[l] \o w)[x] = Frame(sent[l])[x]
              /\ Len(B[l]) + Len(w) = 16 + Len(sent[l]) => B[l] \o w = Frame(sent[l])
          BY <1>1, <2>2, <3>3, <3>4, <3>5, PartGrows
        <4> QED
          BY <2>4, <3>1, <4>1
      <3>7. CASE /\ jobs' = jobs /\ Written' = Written + Len(w)
                 /\ Written' < 16 + Len(Head(jobs))
        <4>1. UnderWay' = UnderWay
          BY <3>7, <1>3 DEF UnderWay
        <4>2. Part(C[l], l)'
          <5>1. ~(l > Len(sent)) /\ Len(C[l]) < 16 + Len(sent[l])
            BY <1>1, <3>3, <3>6, <3>7
          <5>2. Part(C[l], l)
            BY <3>6, <5>1 DEF Part
          <5> QED
            BY <1>3, <5>2 DEF Part, Frame
        <4>3. Stream(C, l, r)'
          BY <1>3, <1>4, <2>3, <3>1, <3>6, <3>7, <4>1, <4>2 DEF Stream
        <4> QED
          BY <1>2, <1>3, <2>6, <3>1, <4>3, ReaderRests
      <3>8. CASE Leave /\ Written + Len(w) = 16 + Len(Head(jobs))
        <4>1. UnderWay' = UnderWay + 1 /\ Written' = 0
          BY <3>8, <1>3, <2>2, Leaves
        <4>2. C[l] = Frame(sent[l])
          BY <3>3, <3>6, <3>8
        <4>3. PICK D : D = [k \in Coming..(l + 1) |-> IF k = l + 1 THEN <<>> ELSE C[k]]
          OBVIOUS
        <4>4. Chain(D, Coming, l + 1, sent) /\ D[l + 1] = <<>> /\ D[Coming] = C[Coming]
          <5>1. Coming \in Coming..(l + 1) /\ Coming # l + 1 /\ l + 1 \in Coming..(l + 1)
            BY <1>1
          <5>2. D[l + 1] = <<>> /\ D[Coming] = C[Coming]
            BY <4>3, <5>1
          <5>3. Chain(D, Coming, l + 1, sent)
            BY <1>1, <2>3, <4>2, <4>3, ChainExtends
          <5> QED
            BY <5>2, <5>3
        <4>5. Part(D[l + 1], l + 1)'
          <5>1. ASSUME l + 1 <= Len(sent)
                PROVE  0 < 16 + Len(sent[l + 1])
            <6>1. l + 1 \in 1..Len(sent)
              BY <1>1, <5>1
            <6>2. sent[l + 1] \in Payloads
              BY <1>1, <6>1
            <6> QED
              BY <6>2, PayloadIs
          <5>2. Len(D[l + 1]) = 0 /\ D[l + 1] = <<>>
            BY <4>4
          <5> QED
            BY <1>3, <5>1, <5>2 DEF Part
        <4>6. l + 1 = UnderWay' /\ Len(D[l + 1]) = Written'
          BY <3>1, <4>1, <4>4
        <4>7. Stream(D, l + 1, r)'
          BY <1>3, <1>4, <2>3, <4>4, <4>5, <4>6 DEF Stream
        <4>8. l + 1 \in Coming..UnderWay'
          BY <1>1, <4>6
        <4> QED
          BY <1>3, <2>9, <4>7, <4>8, ReaderRests
      <3> QED
        BY <3>2, <3>7, <3>8
    <2> QED
      BY <2>7, <2>8, <2>9
  <1> QED
    BY <1>7, <1>8, <1>9

\* The bytes on the wire go on with the frame that is being read.
LEMMA BytesAhead ==
  ASSUME TypeOK, SenderInv, NEW B, NEW l, NEW r, CleanBy(B, l, r), Len(wire) > 0
  PROVE  /\ Coming \in 1..Len(sent) /\ sent[Coming] \in Payloads
         /\ HasRead(sent[Coming], r)
         /\ Len(wire) \in Nat /\ r + Len(wire) = Len(B[Coming])
         /\ \A x \in 1..Len(wire) :
               r + x <= 16 + Len(sent[Coming]) => wire[x] = Frame(sent[Coming])[r + x]
         /\ Coming = l => r + Len(wire) < 16 + Len(sent[Coming])
  <1>1. /\ Coming \in Nat /\ Coming > 0 /\ l \in Nat /\ Coming <= l
        /\ l <= Len(sent) + 1 /\ Len(sent) \in Nat
        /\ \A k \in 1..Len(sent) : sent[k] \in Payloads
        /\ \A k \in Coming..l : B[k] \in Seq(Bytes)
        /\ B[Coming] \in Seq(Bytes) /\ r \in Nat /\ r <= Len(B[Coming])
    BY CleanIs
  <1>2. /\ wire = Left(B[Coming], r)
        /\ cut # {} => Coming < l
        /\ cut = {} => Part(B[l], l)
        /\ \A k \in Coming..(l - 1) : B[k] = Frame(sent[k]) \o B[k + 1]
        /\ Coming <= Len(sent) => HasRead(sent[Coming], r)
    BY DEF CleanBy, Stream, Chain
  <1> DEFINE b == B[Coming]
             m == sent[Coming]
  <1>3. /\ Len(wire) = Len(b) - r /\ Len(b) \in Nat
        /\ \A x \in 1..(Len(b) - r) : wire[x] = b[r + x]
    <2>1. b \in Seq(Bytes) /\ r \in Nat /\ r <= Len(b) /\ wire = Left(b, r)
      BY <1>1, <1>2
    <2> HIDE DEF b
    <2>2. /\ Len(Left(b, r)) = Len(b) - r
          /\ \A x \in 1..(Len(b) - r) : Left(b, r)[x] = b[r + x]
      BY <2>1, LeftIs
    <2> QED
      BY <2>1, <2>2
  <1>4. Len(wire) \in Nat /\ r + Len(wire) = Len(b)
    BY <1>1, <1>3
  <1>5. /\ Coming <= Len(sent)
        /\ \A y \in 1..Len(b) : y <= 16 + Len(m) => b[y] = Frame(m)[y]
        /\ Coming = l => Len(b) < 16 + Len(m)
    <2>1. CASE Coming < l
      <3>1. Coming \in Coming..(l - 1) /\ Coming \in 1..Len(sent) /\ Coming <= Len(sent)
            /\ Coming # l /\ Coming + 1 \in Coming..l
        BY <1>1, <2>1
      <3>2. b = Frame(m) \o B[Coming + 1] /\ m \in Payloads /\ B[Coming + 1] \in Seq(Bytes)
        BY <1>1, <1>2, <3>1
      <3>3. Frame(m) \in Seq(Bytes) /\ Len(Frame(m)) = 16 + Len(m)
        BY <3>2, FrameIs
      <3>4. \A y \in 1..Len(b) : y <= Len(Frame(m)) => b[y] = Frame(m)[y]
        <4> HIDE DEF b
        <4> QED
          BY <3>2, <3>3, ConcatProperties
      <3> QED
        BY <3>1, <3>3, <3>4
    <2>2. CASE Coming = l
      <3>1. cut = {} /\ Part(b, l)
        BY <1>1, <1>2, <2>2
      <3>2. l <= Len(sent)
        <4> SUFFICES ASSUME l > Len(sent) PROVE FALSE
          BY <1>1
        <4>1. Len(b) = 0
          BY <3>1 DEF Part
        <4> QED
          BY <1>1, <1>4, <4>1
      <3> QED
        BY <2>2, <3>1, <3>2 DEF Part
    <2> QED
      BY <1>1, <2>1, <2>2
  <1>6. Coming \in 1..Len(sent) /\ m \in Payloads
    BY <1>1, <1>5
  <1>7. ASSUME NEW x \in 1..Len(wire), r + x <= 16 + Len(m)
        PROVE  wire[x] = Frame(m)[r + x]
    <2>1. x \in 1..(Len(b) - r) /\ r + x \in 1..Len(b)
      BY <1>1, <1>3
    <2> QED
      BY <1>3, <1>5, <1>7, <2>1
  <1> QED
    BY <1>2, <1>4, <1>5, <1>6, <1>7

\* The reader goes on in the frame.
LEMMA ReadsOn ==
  ASSUME TypeOK, SenderInv, NEW B, NEW l, NEW r, CleanBy(B, l, r), Len(wire) > 0,
         NEW n \in Nat, n <= Len(wire), Consume(n), r + n < 16 + Len(sent[Coming]),
         UNCHANGED <<jobs, sending, open, sent, cut, received>>,
         HasRead(sent[Coming], r + n)'
  PROVE  Clean'
  <1>1. /\ Coming \in Nat /\ l \in Nat /\ B[Coming] \in Seq(Bytes) /\ r \in Nat
    BY CleanIs
  <1>2. /\ Coming \in 1..Len(sent) /\ Len(wire) \in Nat /\ r + Len(wire) = Len(B[Coming])
        /\ Len(sent) \in Nat
    BY BytesAhead, UnderWayIs
  <1>3. UnderWay' = UnderWay /\ Written' = Written /\ Coming' = Coming
    BY DEF UnderWay, Written, Coming
  <1>4. r + n <= Len(B[Coming]) /\ r + n \in Nat /\ ~(Coming > Len(sent))
    BY <1>1, <1>2
  <1>5. wire' = Left(B[Coming], r + n)
    <2>1. wire = Left(B[Coming], r)
      BY DEF CleanBy, Stream
    <2> QED
      BY <1>1, <1>4, <2>1, LeftOfLeft DEF Consume
  <1>6. Stream(B, l, r + n)'
    <2>1. Stream(B, l, r)
      BY DEF CleanBy
    <2> QED
      BY <1>3, <1>4, <1>5, <2>1 DEF Stream, Part
  <1>7. Faithful'
    BY DEF CleanBy, Faithful
  <1>8. CleanBy(B, l, r + n)'
    BY <1>3, <1>4, <1>6, <1>7 DEF CleanBy
  <1> QED
    BY <1>8 DEF Clean

\* The reader hands on the message.
LEMMA ReadsLast ==
  ASSUME TypeOK, SenderInv, NEW B, NEW l, NEW r, CleanBy(B, l, r), Len(wire) > 0,
         NEW n \in Nat, n <= Len(wire), Consume(n), r + n = 16 + Len(sent[Coming]),
         UNCHANGED <<jobs, sending, open, sent, cut>>,
         received' = Append(received, sent[Coming]), reading' = Restart
  PROVE  /\ Clean' \/ Past'
         /\ Faithful' /\ Coming < UnderWay
  <1>1. /\ Coming \in Nat /\ Coming > 0 /\ Coming = Len(received) + 1 /\ Len(received) \in Nat
        /\ l \in Nat /\ Coming <= l /\ l <= UnderWay /\ UnderWay \in Nat
        /\ B[Coming] \in Seq(Bytes) /\ r \in Nat
        /\ \A k \in Coming..l : B[k] \in Seq(Bytes)
    BY CleanIs
  <1>2. /\ Coming \in 1..Len(sent) /\ Len(wire) \in Nat /\ r + Len(wire) = Len(B[Coming])
        /\ sent[Coming] \in Payloads /\ Len(sent) \in Nat
        /\ Coming = l => r + Len(wire) < 16 + Len(sent[Coming])
    BY BytesAhead, UnderWayIs
  <1>3. Len(sent[Coming]) \in Nat /\ Frame(sent[Coming]) \in Seq(Bytes)
        /\ Len(Frame(sent[Coming])) = 16 + Len(sent[Coming])
    BY <1>2, FrameIs, PayloadIs
  <1>4. Coming < l
    BY <1>1, <1>2, <1>3
  <1>5. /\ Chain(B, Coming, l, sent) /\ wire = Left(B[Coming], r)
        /\ cut = {} => Part(B[l], l)
        /\ cut = {} /\ open => l = UnderWay /\ Len(B[l]) = Written
        /\ Faithful /\ \A c \in cut : l <= c
        /\ cut # {} => l \in cut
        /\ l \in Coming..UnderWay
    BY DEF CleanBy, Stream
  <1>6. r + n <= Len(B[Coming])
    BY <1>1, <1>2
  <1>7. wire' = Left(B[Coming], r + n)
    BY <1>1, <1>5, <1>6, LeftOfLeft DEF Consume
  <1>8. B[Coming] = Frame(sent[Coming]) \o B[Coming + 1] /\ B[Coming + 1] \in Seq(Bytes)
    <2>1. Coming \in Coming..(l - 1) /\ Coming + 1 \in Coming..l
      BY <1>1, <1>4
    <2> QED
      BY <1>1, <1>5, <2>1 DEF Chain
  <1>9. wire' = B[Coming + 1]
    BY <1>3, <1>7, <1>8, LeftOfFront
  <1>10. /\ Len(received') = Len(received) + 1 /\ Coming' = Coming + 1
         /\ \A i \in 1..Len(received) : received'[i] = received[i]
         /\ received'[Coming] = sent[Coming]
    <2>1. received \in Seq(Seq(Bytes))
      BY TypedWire
    <2>2. /\ Len(received') = Len(received) + 1
          /\ \A i \in 1..Len(received) : received'[i] = received[i]
          /\ received'[Len(received) + 1] = sent[Coming]
      BY <2>1
    <2> QED
      BY <1>1, <2>2 DEF Coming
  <1>11. Faithful'
    <2>1. \A i \in 1..Len(received') : i \in 1..Len(received) \/ i = Coming
      BY <1>1, <1>10
    <2>2. \A i \in 1..Len(received') : received'[i] = sent[i]
      BY <1>5, <1>10, <2>1 DEF Faithful
    <2> QED
      BY <2>2 DEF Faithful
  <1>12. UnderWay' = UnderWay /\ Written' = Written
    BY DEF UnderWay, Written
  <1>13. CASE cut # {} /\ Coming + 1 = l
    <2>1. l \in cut' /\ \A c \in cut' : l <= c
      BY <1>5, <1>13
    <2>2. l <= Coming' /\ \A i \in 1..(l - 1) : i \in 1..Len(received')
      BY <1>1, <1>10, <1>13
    <2>3. \A i \in 1..(l - 1) : received'[i] = sent'[i]
      BY <1>11, <2>2 DEF Faithful
    <2>4. Past'
      BY <2>1, <2>2, <2>3 DEF Past
    <2> QED
      BY <1>1, <1>4, <1>11, <2>4
  <1>14. CASE ~(cut # {} /\ Coming + 1 = l)
    <2>1. PICK C : C = [k \in (Coming + 1)..l |-> B[k]]
      OBVIOUS
    <2>2. Chain(C, Coming + 1, l, sent)
      BY <1>1, <1>4, <1>5, <2>1, ChainAdvances
    <2>3. C[Coming + 1] = B[Coming + 1] /\ C[l] = B[l]
      <3>1. Coming + 1 \in (Coming + 1)..l /\ l \in (Coming + 1)..l
        BY <1>1, <1>4
      <3> QED
        BY <2>1, <3>1
    <2>4. wire' = Left(C[Coming + 1], 0) /\ 0 <= Len(C[Coming + 1])
      BY <1>8, <1>9, <2>3, LeftOfFront
    <2>5. Part(B[l], l)' <=> Part(B[l], l)
      BY DEF Part, Frame
    <2>6. Stream(C, l, 0)'
      BY <1>5, <1>10, <1>12, <2>2, <2>3, <2>4, <2>5 DEF Stream
    <2>7. l \in Coming'..UnderWay' /\ (cut' # {} => l \in cut' /\ Coming' < l)
      BY <1>1, <1>4, <1>5, <1>10, <1>12, <1>14
    <2>8. reading' = Restart' /\ reading'.at = "start" /\ reading'.data = <<>>
          /\ reading'.matched = 0
      BY RestartIs DEF Restart
    <2>9. CleanBy(C, l, 0)'
      BY <1>5, <1>11, <2>6, <2>7, <2>8 DEF CleanBy, HasRead
    <2> QED
      BY <1>1, <1>4, <1>11, <2>9 DEF Clean
  <1> QED
    BY <1>13, <1>14

\* A step of a reader before the first cut: it goes on in its frame, or hands on
\* the message it has read.
HandsOn == received' = Append(received, sent[Coming]) /\ Faithful' /\ Coming < UnderWay

LEMMA CleanReads ==
  ASSUME TypeOK, SenderInv, ReaderInv, NEW B, NEW l, NEW r, CleanBy(B, l, r),
         ReadStartCode \/ ReadLengthCode \/ ReadChunk \/ ReadEndCode
  PROVE  /\ Clean' \/ Past'
         /\ received' = received \/ HandsOn
  <1>0. PICK m : m = sent[Coming]
    OBVIOUS
  <1>1. /\ wire \in Seq(Bytes) /\ reading \in ReadT /\ reading.matched \in 0..3
        /\ reading.need \in Nat /\ reading.data \in Seq(Bytes)
        /\ received \in Seq(Seq(Bytes))
    BY TypedWire DEF ReadT
  <1>2. UNCHANGED <<jobs, sending, open, sent, cut>>
    BY DEF ReadStartCode, ReadLengthCode, ReadChunk, ReadEndCode, At
  <1>3. Len(wire) > 0
    <2>1. wire # <<>> => Len(wire) > 0
      BY <1>1
    <2>2. ReadLengthCode => Len(wire) > 0
      BY <1>1 DEF ReadLengthCode, LengthSize
    <2>3. ReadChunk => Len(wire) > 0
      <3> SUFFICES ASSUME ReadChunk PROVE Len(wire) > 0
        OBVIOUS
      <3>1. reading.at = "data" /\ Len(wire) >= Chunk
        BY DEF ReadChunk, At, Chunk
      <3>2. Chunk \in Nat /\ Chunk > 0
        BY <3>1, ChunkIs
      <3> QED
        BY <1>1, <3>1, <3>2
    <2> QED
      BY <2>1, <2>2, <2>3 DEF ReadStartCode, ReadEndCode
  <1>4. /\ Coming \in 1..Len(sent) /\ m \in Payloads
        /\ HasRead(m, r)
        /\ Len(wire) \in Nat
        /\ \A x \in 1..Len(wire) : r + x <= 16 + Len(m) => wire[x] = Frame(m)[r + x]
    BY <1>0, <1>3, BytesAhead
  <1>5. /\ m \in Seq(Bytes) /\ Len(m) \in Nat /\ Len(m) > 0 /\ Len(m) < Unfilled
        /\ \A x \in 1..4 : Frame(m)[x] = StartCode[x]
        /\ \A x \in 1..8 : Frame(m)[4 + x] = LengthCode(Len(m))[x]
        /\ \A x \in 1..Len(m) : Frame(m)[12 + x] = m[x]
        /\ \A x \in 1..4 : Frame(m)[12 + Len(m) + x] = EndCode[x]
    BY <1>4, PayloadIs, FrameIs
  <1>6. r \in Nat
    BY CleanIs
  <1>7. \A n \in Nat : n <= Len(wire) /\ Consume(n) /\ r + n < 16 + Len(m)
                       /\ received' = received /\ HasRead(m, r + n)' => Clean'
    <2> TAKE n \in Nat
    <2> HAVE /\ n <= Len(wire) /\ Consume(n) /\ r + n < 16 + Len(m)
             /\ received' = received /\ HasRead(m, r + n)'
    <2>1. Coming' = Coming /\ sent' = sent
      BY <1>2 DEF Coming
    <2>2. HasRead(sent[Coming], r + n)'
      BY <1>0, <2>1 DEF HasRead
    <2> QED
      BY <1>0, <1>2, <1>3, <2>2, ReadsOn
  <1>8. Head(wire) = wire[1] /\ 1 \in 1..Len(wire) /\ 1 <= Len(wire)
    BY <1>1, <1>3, <1>4
  <1>13. /\ Len(m) \in Nat /\ Len(m) > 0 /\ r \in Nat
         /\ reading.matched \in Nat /\ reading.matched <= 3 /\ Len(wire) \in Nat
    <2>1. reading.matched \in Nat /\ reading.matched <= 3
      BY <1>1
    <2> QED
      BY <1>4, <1>5, <1>6, <2>1
  <1>9. CASE ReadStartCode
    <2>1. /\ reading.at = "start" /\ Consume(1) /\ received' = received
          /\ reading' = IF Head(wire) # StartCode[reading.matched + 1] THEN Restart
                        ELSE IF reading.matched + 1 = Len(StartCode)
                             THEN [Restart EXCEPT !.at = "length"]
                        ELSE [Restart EXCEPT !.matched = reading.matched + 1]
      BY <1>9 DEF ReadStartCode, At
    <2>2. r = reading.matched
      BY <1>4, <2>1 DEF HasRead
    <2>3. Head(wire) = StartCode[reading.matched + 1]
      <3>1. r + 1 \in 1..4 /\ r + 1 <= 16 + Len(m)
        BY <1>13, <2>2
      <3> QED
        BY <1>4, <1>5, <1>8, <2>2, <3>1
    <2>4. r + 1 < 16 + Len(m) /\ r \in 0..3
      BY <1>13, <2>2
    <2>5. CASE r + 1 = 4
      <3>1. reading' = [Restart EXCEPT !.at = "length"]
        BY <2>1, <2>2, <2>3, <2>5, CodesAre
      <3>2. reading'.at = "length" /\ reading'.matched = 0 /\ reading'.data = <<>>
        BY <3>1, RestartIs DEF ReadT
      <3>3. HasRead(m, r + 1)'
        BY <2>5, <3>2 DEF HasRead
      <3> QED
        BY <1>7, <1>8, <2>1, <2>4, <3>3
    <2>6. CASE r + 1 # 4
      <3>1. reading' = [Restart EXCEPT !.matched = r + 1]
        BY <2>1, <2>2, <2>3, <2>6, CodesAre
      <3>2. reading'.at = "start" /\ reading'.matched = r + 1 /\ reading'.data = <<>>
        BY <3>1, RestartIs DEF ReadT
      <3>3. HasRead(m, r + 1)'
        BY <3>2 DEF HasRead
      <3> QED
        BY <1>7, <1>8, <2>1, <2>4, <3>3
    <2> QED
      BY <2>5, <2>6
  <1>10. CASE ReadLengthCode
    <2> DEFINE code == SubSeq(wire, 1, 8)
    <2>1. /\ reading.at = "length" /\ 8 <= Len(wire) /\ Consume(8) /\ received' = received
          /\ reading' = ReadData(LengthOf(code), reading.data)
      BY <1>4, <1>10 DEF ReadLengthCode, At, LengthSize
    <2>2. r = 4 /\ reading.data = <<>>
      BY <1>4, <2>1 DEF HasRead
    <2>3. \A x \in 1..8 : code[x] = LengthCode(Len(m))[x]
      <3> TAKE x \in 1..8
      <3>1. x \in 1..Len(wire) /\ r + x <= 16 + Len(m) /\ r + x = 4 + x
        BY <1>13, <2>1, <2>2
      <3>2. wire[x] = Frame(m)[4 + x]
        BY <1>4, <3>1
      <3>3. code[x] = wire[x]
        BY <1>1, <2>1, FrontIs
      <3> QED
        BY <1>5, <3>2, <3>3
    <2> HIDE DEF code
    <2>4. LengthOf(code) = Len(m)
      BY <1>5, <2>3, LengthCodeIs
    <2>5. /\ reading'.at = "data" /\ reading'.matched = 0 /\ reading'.need = Len(m)
          /\ reading'.data = <<>>
      <3>1. PICK e \in Seq(Bytes) : e = <<>>
        BY EmptySeq
      <3>2. reading' = ReadData(Len(m), e)
        BY <2>1, <2>2, <2>4, <3>1
      <3>3. Len(m) \in Nat /\ Len(m) # 0
        BY <1>13
      <3>4. /\ reading'.at = "data" /\ reading'.matched = 0 /\ reading'.need = Len(m)
            /\ reading'.data = e
        BY <3>2, <3>3, ReadDataIs
      <3> QED
        BY <3>1, <3>4
    <2>6. HasRead(m, r + 8)'
      <3>1. r + 8 = 12 + Len(reading'.data) /\ reading'.need = Len(m) - Len(reading'.data)
            /\ \A x \in 1..Len(reading'.data) : FALSE
        BY <1>13, <2>2, <2>5
      <3> QED
        BY <2>5, <3>1 DEF HasRead
    <2>7. r + 8 < 16 + Len(m)
      BY <1>13, <2>2
    <2> QED
      BY <1>7, <2>1, <2>6, <2>7
  <1>11. CASE ReadChunk
    <2>p1. PICK n : n = Chunk
      OBVIOUS
    <2>p2. PICK c : c = SubSeq(wire, 1, n)
      OBVIOUS
    <2>p3. PICK d : d = reading.data
      OBVIOUS
    <2>p4. PICK k : k = reading.need - n
      OBVIOUS
    <2>1. /\ reading.at = "data" /\ n <= Len(wire) /\ Consume(n) /\ received' = received
          /\ reading' = ReadData(k, d \o c)
      <3>1. Chunk \in Nat /\ reading.at = "data"
        BY <1>11, ChunkIs DEF ReadChunk, At
      <3>2. /\ Chunk <= Len(wire) /\ Consume(Chunk) /\ received' = received
            /\ reading' = ReadData(reading.need - Chunk,
                                   reading.data \o SubSeq(wire, 1, Chunk))
        BY <1>4, <1>11, <3>1 DEF ReadChunk, At, Chunk
      <3> QED
        BY <3>1, <3>2, <2>p1, <2>p2, <2>p3, <2>p4
    <2>2. n \in Nat /\ n > 0 /\ n <= reading.need /\ k \in Nat
      <3>1. Chunk \in Nat /\ Chunk > 0 /\ Chunk <= reading.need
        BY <2>1, ChunkIs
      <3> QED
        BY <1>1, <2>p1, <2>p4, <3>1
    <2>3. /\ r = 12 + Len(d) /\ reading.need = Len(m) - Len(d) /\ reading.matched = 0
          /\ \A x \in 1..Len(d) : d[x] = m[x]
      BY <1>4, <2>1, <2>p3 DEF HasRead
    <2>4. c \in Seq(Bytes) /\ Len(c) = n /\ \A x \in 1..n : c[x] = wire[x]
      BY <1>1, <2>1, <2>2, <2>p2, FrontIs
    <2>5. d \in Seq(Bytes) /\ Len(d) \in Nat
      BY <1>1, <2>p3
    <2>6. k = Len(m) - Len(d) - n /\ n <= Len(m) - Len(d)
      BY <2>p4, <2>2, <2>3
    <2>7. \A x \in 1..n : c[x] = m[Len(d) + x]
      <3> TAKE x \in 1..n
      <3>1. /\ x \in 1..Len(wire) /\ r + x <= 16 + Len(m)
            /\ Len(d) + x \in 1..Len(m) /\ r + x = 12 + (Len(d) + x)
        <4>1. /\ x \in Nat /\ x > 0 /\ x <= n /\ n <= Len(m) - Len(d)
              /\ n \in Nat /\ n <= Len(wire) /\ r = 12 + Len(d)
          BY <2>1, <2>2, <2>3
        <4> QED
          BY <4>1, <1>13, <2>5
      <3>2. wire[x] = Frame(m)[12 + (Len(d) + x)]
        BY <1>4, <3>1
      <3> QED
        BY <1>5, <2>4, <3>1, <3>2
    <2>8. /\ d \o c \in Seq(Bytes) /\ Len(d \o c) = Len(d) + n
          /\ \A x \in 1..(Len(d) + n) : (d \o c)[x] = IF x <= Len(d) THEN d[x] ELSE c[x - Len(d)]
      BY <2>4, <2>5, ConcatProperties
    <2>9. \A x \in 1..(Len(d) + n) : (d \o c)[x] = m[x]
      <3> TAKE x \in 1..(Len(d) + n)
      <3>1. CASE x <= Len(d)
        BY <2>3, <2>5, <2>8, <3>1
      <3>2. CASE ~(x <= Len(d))
        <4>1. x - Len(d) \in 1..n /\ Len(d) + (x - Len(d)) = x
          BY <2>2, <2>5, <3>2
        <4> QED
          BY <2>7, <2>8, <3>2, <4>1
      <3> QED
        BY <3>1, <3>2
    <2>10. /\ reading'.matched = 0 /\ reading'.need = k /\ reading'.data = d \o c
           /\ k = 0 => reading'.at = "end"
           /\ k # 0 => reading'.at = "data"
      <3> DEFINE e == d \o c
      <3>1. e \in Seq(Bytes) /\ k \in Nat /\ reading' = ReadData(k, e)
        BY <2>1, <2>2, <2>8
      <3> HIDE DEF e
      <3>2. /\ reading'.matched = 0 /\ reading'.need = k /\ reading'.data = e
            /\ k = 0 => reading'.at = "end"
            /\ k # 0 => reading'.at = "data"
        BY <3>1, ReadDataIs
      <3> QED
        BY <3>2 DEF e
    <2>11. r + n < 16 + Len(m) /\ r + n = 12 + (Len(d) + n)
      <3>1. r = 12 + Len(d)
        BY <2>3
      <3>2. Len(m) \in Nat /\ n \in Nat
        BY <1>13, <2>2
      <3> QED
        BY <2>5, <2>6, <3>1, <3>2
    <2>12. HasRead(m, r + n)'
      <3>1. CASE k = 0
        <4>1. Len(d) + n = Len(m)
          BY <1>13, <2>2, <2>5, <2>6, <3>1
        <4>2. d \o c = m
          BY <1>5, <2>8, <2>9, <4>1, SeqEqual
        <4>3. r + n = 12 + Len(m) + 0
          BY <2>11, <4>1, <1>13
        <4>4. /\ reading'.at = "end" /\ reading'.matched = 0 /\ reading'.data = m
              /\ r + n = 12 + Len(m) + reading'.matched
          BY <2>10, <3>1, <4>2, <4>3
        <4> QED
          BY <4>4 DEF HasRead
      <3>2. CASE k # 0
        <4>1. k = Len(m) - (Len(d) + n)
          BY <1>13, <2>2, <2>5, <2>6
        <4>2. /\ reading'.at = "data" /\ reading'.matched = 0
              /\ Len(reading'.data) = Len(d) + n
              /\ reading'.need = Len(m) - Len(reading'.data)
              /\ r + n = 12 + Len(reading'.data)
          BY <2>8, <2>10, <2>11, <3>2, <4>1
        <4>3. \A x \in 1..Len(reading'.data) : reading'.data[x] = m[x]
          BY <2>9, <2>10, <4>2
        <4> QED
          BY <4>2, <4>3 DEF HasRead
      <3> QED
        BY <3>1, <3>2
    <2> QED
      BY <1>7, <2>1, <2>2, <2>11, <2>12
  <1>12. CASE ReadEndCode
    <2>1. /\ reading.at = "end" /\ Consume(1)
          /\ LET matches == Head(wire) = EndCode[reading.matched + 1]
                 last == reading.matched + 1 = Len(EndCode)
             IN /\ reading' = IF matches /\ ~last
                              THEN [reading EXCEPT !.matched = @ + 1] ELSE Restart
                /\ received' = IF matches /\ last THEN Append(received, reading.data)
                               ELSE received
      BY <1>12 DEF ReadEndCode, At
    <2>2. r = 12 + Len(m) + reading.matched /\ reading.data = m
      BY <1>4, <2>1 DEF HasRead
    <2>3. Head(wire) = EndCode[reading.matched + 1]
      <3>1. /\ reading.matched + 1 \in 1..4 /\ r + 1 <= 16 + Len(m)
            /\ r + 1 = 12 + Len(m) + (reading.matched + 1)
        BY <1>13, <2>2
      <3> QED
        BY <1>4, <1>5, <1>8, <3>1
    <2>4. CASE reading.matched + 1 = 4
      <3>1. received' = Append(received, m) /\ reading' = Restart
        BY <2>1, <2>2, <2>3, <2>4, CodesAre
      <3>2. r + 1 = 16 + Len(m)
        BY <1>13, <2>2, <2>4
      <3> QED
        BY <1>2, <1>3, <1>8, <2>1, <3>1, <3>2, <1>0, ReadsLast DEF HandsOn
    <2>5. CASE reading.matched + 1 # 4
      <3>1. received' = received /\ reading' = [reading EXCEPT !.matched = @ + 1]
        BY <2>1, <2>3, <2>5, CodesAre
      <3>2. reading'.at = "end" /\ reading'.matched = reading.matched + 1 /\ reading'.data = m
        BY <1>1, <2>1, <2>2, <3>1 DEF ReadT
      <3>3. r + 1 = 12 + Len(m) + (reading.matched + 1) /\ r + 1 < 16 + Len(m)
        BY <1>13, <2>2, <2>5
      <3>4. HasRead(m, r + 1)'
        BY <3>2, <3>3 DEF HasRead
      <3> QED
        BY <1>7, <1>8, <2>1, <3>1, <3>3, <3>4
    <2> QED
      BY <2>4, <2>5
  <1> QED
    BY <1>9, <1>10, <1>11, <1>12

-----------------------------------------------------------------------------
(* Every step.                                                             *)

Located == Clean \/ Past \/ Gone

LEMMA SenderStays ==
  ASSUME TypeOK, SenderInv, ReaderInv, Located, Sender
  PROVE  TypeOK' /\ SenderInv' /\ ReaderInv' /\ Located' /\ received' = received
  <1>1. Same /\ (Begin \/ Continues \/ Ends \/ Cuts \/ Throws)
    BY SenderMoves
  <1>2. TypeOK' /\ SenderInv'
    BY <1>1, SenderKeeps
  <1>3. ReaderInv' /\ received' = received /\ sent' = sent /\ open' = open
    BY <1>1 DEF Same, ReaderInv
  <1>4. CASE Clean
    <2>1. PICK B, l, r : CleanBy(B, l, r)
      BY <1>4 DEF Clean
    <2>2. Clean' \/ Past'
      BY <1>1, <2>1, CleanSends
    <2> QED
      BY <1>2, <1>3, <2>2 DEF Located
  <1>5. CASE Past
    <2>1. cut' = cut \/ cut' = cut \cup {UnderWay}
      BY <1>1 DEF Begin, Continues, Ends, Cuts, Throws
    <2>2. \A i \in 1..Len(sent) : sent'[i] = sent[i]
      BY <1>3
    <2>3. Past'
      BY <1>3, <1>5, <2>1, <2>2, PastStays
    <2> QED
      BY <1>2, <1>3, <2>3 DEF Located
  <1>6. CASE Gone
    <2>1. ~open /\ wire = <<>>
      BY <1>6 DEF Gone
    <2>2. Begin \/ Throws
      BY <1>1, <2>1 DEF Continues, Ends, Cuts
    <2>3. wire' = <<>> /\ cut' = cut /\ ~open'
      BY <1>3, <2>1, <2>2 DEF Begin, Throws
    <2>4. UnderWay' = UnderWay \/ UnderWay' = UnderWay + 1
      <3>1. CASE Begin
        BY <3>1 DEF Begin, UnderWay
      <3>2. CASE Throws
        <4>1. sending[1] # "idle" /\ Leave /\ cut' \subseteq cut \cup {UnderWay}
          BY <2>3, <3>2 DEF Throws
        <4> QED
          BY <1>3, <4>1, Leaves
      <3> QED
        BY <2>2, <3>1, <3>2
    <2>5. \A i \in 1..Len(sent) : sent'[i] = sent[i]
      BY <1>3
    <2>6. Gone'
      BY <1>3, <1>6, <2>3, <2>4, <2>5, GoneStays
    <2> QED
      BY <1>2, <1>3, <2>6 DEF Located
  <1> QED
    BY <1>4, <1>5, <1>6 DEF Located

LEMMA ReaderStays ==
  ASSUME TypeOK, SenderInv, ReaderInv, Located, Reader
  PROVE  /\ TypeOK' /\ SenderInv' /\ ReaderInv' /\ Located'
         /\ received' = received \/ HandsOn \/ cut # {}
  <1>1. /\ TypeOK' /\ SenderInv' /\ ReaderInv'
        /\ UNCHANGED <<jobs, sending, open, sent, cut>>
    BY ReaderKeeps
  <1>2. received' = received \/ \E x : received' = Append(received, x)
    BY DEF Reader, ReadStartCode, ReadLengthCode, ReadChunk, ReadEndCode, ReadFails
  <1>3. CASE Clean
    <2>1. PICK B, l, r : CleanBy(B, l, r)
      BY <1>3 DEF Clean
    <2>2. CASE ReadFails
      <3>1. Clean' \/ Gone'
        BY <2>1, <2>2, CleanBreaks
      <3>2. received' = received
        BY <2>2 DEF ReadFails
      <3> QED
        BY <1>1, <3>1, <3>2 DEF Located
    <2>3. CASE ReadStartCode \/ ReadLengthCode \/ ReadChunk \/ ReadEndCode
      <3>1. (Clean' \/ Past') /\ (received' = received \/ HandsOn)
        BY <2>1, <2>3, CleanReads
      <3> QED
        BY <1>1, <3>1 DEF Located
    <2> QED
      BY <2>2, <2>3 DEF Reader
  <1>4. CASE Past
    <2>1. Past'
      BY <1>1, <1>2, <1>4, PastStays
    <2>2. cut # {}
      BY <1>4 DEF Past
    <2> QED
      BY <1>1, <2>1, <2>2 DEF Located
  <1>5. CASE Gone
    <2>1. ~open /\ wire = <<>>
      BY <1>5 DEF Gone
    <2>2. ReadFails
      BY <2>1, NothingToRead
    <2>3. wire' = <<>> /\ received' = received
      BY <2>2 DEF ReadFails
    <2>4. UnderWay' = UnderWay
      BY <1>1 DEF UnderWay
    <2>5. Gone'
      BY <1>1, <1>5, <2>1, <2>3, <2>4, GoneStays
    <2> QED
      BY <1>1, <2>3, <2>5 DEF Located
  <1> QED
    BY <1>3, <1>4, <1>5 DEF Located

LEMMA PushStays ==
  ASSUME TypeOK, SenderInv, ReaderInv, Located, NEW m \in Payloads, PushSendingJob(m)
  PROVE  TypeOK' /\ SenderInv' /\ ReaderInv' /\ Located'
  <1>1. /\ TypeOK' /\ SenderInv' /\ UnderWay' = UnderWay
        /\ \A i \in 1..Len(sent) : sent'[i] = sent[i]
    BY PushKeeps
  <1>2. UNCHANGED <<sending, wire, open, reading, received, cut>>
    BY DEF PushSendingJob
  <1>3. ReaderInv'
    BY <1>2 DEF ReaderInv
  <1>4. CASE Clean
    <2>1. PICK B, l, r : CleanBy(B, l, r)
      BY <1>4 DEF Clean
    <2> QED
      BY <1>1, <1>3, <2>1, CleanPush DEF Located
  <1>5. CASE Past
    <2>1. Past'
      BY <1>1, <1>2, <1>5, PastStays
    <2> QED
      BY <1>1, <1>3, <2>1 DEF Located
  <1>6. CASE Gone
    <2>1. ~open' /\ wire' = <<>>
      BY <1>2, <1>6 DEF Gone
    <2>2. Gone'
      BY <1>1, <1>2, <1>6, <2>1, GoneStays
    <2> QED
      BY <1>1, <1>3, <2>2 DEF Located
  <1> QED
    BY <1>4, <1>5, <1>6 DEF Located

LEMMA BreakStays ==
  ASSUME TypeOK, SenderInv, ReaderInv, Located, Break
  PROVE  TypeOK' /\ SenderInv' /\ ReaderInv' /\ Located'
  <1>1. TypeOK' /\ SenderInv' /\ ReaderInv'
    BY BreakKeeps
  <1>2. open /\ UNCHANGED <<jobs, sending, reading, sent, received, cut>>
    BY DEF Break
  <1>3. CASE Clean
    <2>1. PICK B, l, r : CleanBy(B, l, r)
      BY <1>3 DEF Clean
    <2>2. Clean' \/ Gone'
      BY <2>1, CleanBreaks
    <2> QED
      BY <1>1, <2>2 DEF Located
  <1>4. CASE Past
    <2>1. Past'
      BY <1>2, <1>4, PastStays
    <2> QED
      BY <1>1, <2>1 DEF Located
  <1>5. ~Gone
    BY <1>2 DEF Gone
  <1> QED
    BY <1>3, <1>4, <1>5 DEF Located

LEMMA FrameStep == FrameInv /\ [Next]_vars => FrameInv'
  <1> SUFFICES ASSUME TypeOK, SenderInv, ReaderInv, Located, [Next]_vars
               PROVE  TypeOK' /\ SenderInv' /\ ReaderInv' /\ Located'
    BY DEF FrameInv, Located
  <1>1. CASE \E m \in Payloads : PushSendingJob(m)
    BY <1>1, PushStays
  <1>2. CASE Sender
    BY <1>2, SenderStays
  <1>3. CASE Reader
    BY <1>3, ReaderStays
  <1>4. CASE Break
    BY <1>4, BreakStays
  <1>5. CASE UNCHANGED vars
    <2>1. UNCHANGED <<jobs, sending, wire, open, reading, sent, received, cut>>
      BY <1>5 DEF vars
    <2>2. TypeOK' /\ ReaderInv'
      BY <2>1 DEF TypeOK, ReaderInv
    <2>3. UnderWay' = UnderWay /\ Written' = Written /\ Coming' = Coming
      BY <2>1 DEF UnderWay, Written, Coming
    <2>4. SenderInv'
      BY <2>1, <2>3 DEF SenderInv
    <2>5. Past => Past'
      BY <2>1, <2>3 DEF Past
    <2>6. Gone => Gone'
      BY <2>1, <2>3 DEF Gone, Faithful
    <2>7. Clean => Clean'
      <3> SUFFICES ASSUME NEW B, NEW l, NEW r, CleanBy(B, l, r) PROVE CleanBy(B, l, r)'
        BY DEF Clean
      <3>1. Stream(B, l, r)'
        BY <2>1, <2>3 DEF CleanBy, Stream, Part
      <3>2. \A m : HasRead(m, r)' <=> HasRead(m, r)
        BY <2>1 DEF HasRead
      <3>3. HasRead(sent[Coming], r) => HasRead(sent[Coming], r)'
        BY <2>1, <2>3 DEF HasRead
      <3> QED
        BY <2>1, <2>3, <3>1, <3>3 DEF CleanBy, Faithful, Restart
    <2> QED
      BY <2>2, <2>4, <2>5, <2>6, <2>7 DEF Located
  <1> QED
    BY <1>1, <1>2, <1>3, <1>4, <1>5 DEF Next

LEMMA FrameInit == Init => FrameInv
  <1> SUFFICES ASSUME Init PROVE FrameInv
    OBVIOUS
  <1>1. /\ jobs = <<>> /\ sending = Idle /\ wire = <<>> /\ open = TRUE
        /\ reading = Restart /\ sent = <<>> /\ received = <<>> /\ cut = {}
    BY DEF Init, Restart
  <1>2. TypeOK
    BY <1>1, RestartIs DEF TypedWire, TypeOK, Idle, Restart
  <1>3. Coming = 1 /\ UnderWay = 1 /\ Len(sent) = 0 /\ Written = 0
    BY <1>1 DEF Coming, UnderWay, Written, Idle
  <1>4. SenderInv
    BY <1>1, <1>3 DEF SenderInv, Idle
  <1>5. ReaderInv
    BY <1>1, RestartIs DEF ReaderInv
  <1>6. Clean
    <2>1. PICK B : B = [k \in 1..1 |-> <<>>]
      OBVIOUS
    <2>2. B[1] = <<>> /\ Len(B[1]) = 0 /\ B \in [1..1 -> Seq(Bytes)]
      <3>1. <<>> \in Seq(Bytes) /\ 1 \in 1..1
        BY EmptySeq
      <3> QED
        BY <2>1, <3>1
    <2>3. Chain(B, 1, 1, sent)
      BY <2>2 DEF Chain
    <2>4. Left(B[1], 0) = <<>>
      BY <2>2 DEF Left
    <2>5. Part(B[1], 1)
      BY <1>3, <2>2 DEF Part
    <2>6. Stream(B, 1, 0)
      BY <1>1, <1>3, <2>2, <2>3, <2>4, <2>5 DEF Stream
    <2>7. Faithful
      BY <1>1 DEF Faithful
    <2>8. CleanBy(B, 1, 0)
      BY <1>1, <1>3, <2>6, <2>7 DEF CleanBy
    <2> QED
      BY <2>8 DEF Clean
  <1> QED
    BY <1>2, <1>4, <1>5, <1>6 DEF FrameInv

LEMMA FrameIsComplete == FrameInv => WireInv
  <1> SUFFICES ASSUME FrameInv,
                      NEW i \in 1..Len(sent), NEW j \in 1..Len(sent), i < j,
                      \A c \in cut : i < c, Contains(received, sent[j])
               PROVE  Contains(received, sent[i])
    BY DEF FrameInv, WireInv, CompleteBeforeCut
  <1>1. TypeOK /\ SenderInv /\ (Clean \/ Past \/ Gone)
    BY DEF FrameInv
  <1>2. received \in Seq(Seq(Bytes)) /\ Len(received) \in Nat /\ Len(sent) \in Nat
    <2>1. received \in Seq(Seq(Bytes)) /\ sent \in Seq(Payloads)
      BY <1>1 DEF TypeOK, Bytes
    <2> QED
      BY <2>1
  <1>3. SUFFICES \E k \in 1..Len(received) : received[k] = sent[i]
    BY DEF Contains
  <1>4. CASE Past
    <2>1. PICK z \in cut : /\ z <= Coming
                           /\ \A k \in 1..(z - 1) : received[k] = sent[k]
      BY <1>4 DEF Past
    <2>2. z \in 1..Len(sent)
      BY <1>1 DEF TypeOK
    <2>3. i \in 1..(z - 1) /\ i \in 1..Len(received)
      BY <1>2, <2>1, <2>2 DEF Coming
    <2> QED
      BY <2>1, <2>3
  <1>5. CASE Faithful /\ Len(received) <= Len(sent)
    <2>1. PICK k \in 1..Len(received) : received[k] = sent[j]
      BY DEF Contains
    <2>2. k \in 1..Len(sent) /\ sent[k] = sent[j]
      BY <1>2, <1>5, <2>1 DEF Faithful
    <2>3. k = j
      BY <1>1, <2>2 DEF SenderInv
    <2>4. i \in 1..Len(received)
      BY <1>2, <2>1, <2>3
    <2> QED
      BY <1>5, <2>4 DEF Faithful
  <1>6. CASE Clean
    <2>1. PICK B, l, r : CleanBy(B, l, r)
      BY <1>6 DEF Clean
    <2>2. Faithful
      BY <2>1 DEF CleanBy
    <2>3. /\ Coming = Len(received) + 1 /\ l \in Nat /\ Coming \in Nat
          /\ Coming <= l /\ l <= Len(sent) + 1
      BY <1>1, <2>1, CleanIs
    <2>4. Len(received) <= Len(sent)
      BY <1>2, <2>3
    <2> QED
      BY <1>5, <2>2, <2>4
  <1>7. CASE Gone
    <2>1. Faithful /\ Coming <= UnderWay
      BY <1>7 DEF Gone
    <2>2. UnderWay \in Nat /\ UnderWay <= Len(sent) + 1
      BY <1>1, UnderWayIs
    <2>3. Len(received) <= Len(sent)
      BY <1>2, <2>1, <2>2 DEF Coming
    <2> QED
      BY <1>5, <2>1, <2>3
  <1> QED
    BY <1>1, <1>4, <1>6, <1>7

\* Whatever is written short and wherever the stream breaks, no message sent
\* before the first one that was cut is missing when a later one has arrived
\* (SendingJob.cpp 60-150, DataHandler.cpp 355-620).
THEOREM WireIsKept == Spec => []WireInv
  <1>1. Spec => []FrameInv
    BY FrameInit, FrameStep, PTL DEF Spec
  <1> QED
    BY <1>1, FrameIsComplete, PTL

-----------------------------------------------------------------------------
(* Without short writes of codes.                                          *)

NeverCut == cut = {}

LEMMA NothingIsCut ==
  ASSUME MaxShort = 0, FrameInv, NeverCut, [Next]_vars
  PROVE  NeverCut'
  <1>1. TypeOK /\ SenderInv /\ ReaderInv /\ cut = {}
    BY DEF FrameInv, NeverCut
  <1>2. Cardinality(cut) = 0
    BY <1>1, FS_EmptySet
  <1>3. CASE Sender
    <2>1. Begin \/ Continues \/ Ends \/ Cuts \/ Throws
      BY <1>1, <1>3, SenderMoves
    <2>2. ~Cuts
      BY <1>2 DEF Cuts
    <2>3. cut' = cut
      BY <2>1, <2>2 DEF Begin, Continues, Ends, Throws
    <2> QED
      BY <1>1, <2>3 DEF NeverCut
  <1>4. CASE Reader
    <2>1. cut' = cut
      BY <1>1, <1>4, ReaderKeeps
    <2> QED
      BY <1>1, <2>1 DEF NeverCut
  <1>5. CASE \E m \in Payloads : PushSendingJob(m)
    BY <1>1, <1>5 DEF PushSendingJob, NeverCut
  <1>6. CASE Break
    BY <1>1, <1>6 DEF Break, NeverCut
  <1>7. CASE UNCHANGED vars
    BY <1>1, <1>7 DEF vars, NeverCut
  <1> QED
    BY <1>3, <1>4, <1>5, <1>6, <1>7 DEF Next

\* The place of the last message handed on.
LEMMA TakenIs ==
  ASSUME TypeOK, SenderInv, Faithful, Len(received) <= Len(sent)
  PROVE  Channel!Taken = Len(received)
  <1>1. Len(received) \in Nat /\ Len(sent) \in Nat /\ received \in Seq(Seq(Bytes))
    <2>1. received \in Seq(Seq(Bytes)) /\ sent \in Seq(Payloads)
      BY DEF TypeOK, Bytes
    <2> QED
      BY <2>1
  <1>2. CASE received = <<>>
    <2>1. Len(received) = 0
      BY <1>2
    <2> QED
      BY <1>2, <2>1 DEF Channel!Taken
  <1>3. CASE received # <<>>
    <2>1. Len(received) \in 1..Len(received) /\ Len(received) \in 1..Len(sent)
      BY <1>1, <1>3
    <2>2. sent[Len(received)] = received[Len(received)]
      BY <2>1 DEF Faithful
    <2>3. \A k \in 1..Len(sent) : sent[k] = received[Len(received)] <=> k = Len(received)
      BY <2>1, <2>2 DEF SenderInv
    <2>4. (CHOOSE k \in 1..Len(sent) : sent[k] = received[Len(received)]) = Len(received)
      BY <2>1, <2>3
    <2> QED
      BY <1>3, <2>4 DEF Channel!Taken
  <1> QED
    BY <1>2, <1>3

LEMMA HandsOnDelivers ==
  ASSUME FrameInv, NeverCut, Reader, HandsOn
  PROVE  Channel!Deliver
  <1>1. TypeOK /\ SenderInv /\ ReaderInv
    BY DEF FrameInv
  <1>2. UNCHANGED <<sent, cut>>
    BY <1>1, ReaderKeeps
  <1>3. /\ received' = Append(received, sent[Coming]) /\ Faithful' /\ Coming < UnderWay
    BY DEF HandsOn
  <1>4. received \in Seq(Seq(Bytes)) /\ Len(received) \in Nat /\ Len(sent) \in Nat
        /\ UnderWay \in Nat /\ UnderWay <= Len(sent) + 1
    <2>1. received \in Seq(Seq(Bytes))
      BY <1>1 DEF TypeOK, Bytes
    <2> QED
      BY <1>1, <2>1, UnderWayIs
  <1>5. Coming \in 1..Len(sent) /\ Coming = Len(received) + 1 /\ Len(received) <= Len(sent)
    BY <1>3, <1>4 DEF Coming
  <1>6. Faithful
    <2>1. \A i \in 1..Len(received) : i \in 1..Len(received') /\ received'[i] = received[i]
      BY <1>3, <1>4
    <2> QED
      BY <1>2, <1>3, <2>1 DEF Faithful
  <1>7. Channel!Taken = Len(received)
    BY <1>1, <1>5, <1>6, TakenIs
  <1>8. Coming = Channel!Taken + 1 /\ Coming \in (Channel!Taken + 1)..Len(sent)
    BY <1>4, <1>5, <1>7
  <1>9. (cut # {})' <=> (cut # {})
    BY <1>2
  <1> QED
    BY <1>2, <1>3, <1>8, <1>9 DEF Channel!Deliver

LEMMA ChannelStep ==
  ASSUME FrameInv, NeverCut, NeverCut', [Next]_vars
  PROVE  [Channel!Next]_(Channel!vars)
  <1>1. TypeOK /\ SenderInv /\ ReaderInv /\ Located
    BY DEF FrameInv, Located
  <1>2. cut = {} /\ cut' = {}
    BY DEF NeverCut
  <1>3. CASE \E m \in Payloads : PushSendingJob(m)
    <2>1. PICK m \in Payloads : PushSendingJob(m)
      BY <1>3
    <2>2. sent \in Seq(Payloads) /\ sent' = Append(sent, m) /\ received' = received
      BY <1>1, <2>1 DEF PushSendingJob, TypeOK
    <2>3. Len(sent') = Len(sent) + 1 /\ SubSeq(sent', 1, Len(sent)) = sent
      BY <2>2
    <2> QED
      BY <1>2, <2>2, <2>3 DEF Channel!Next, Channel!AcceptOne
  <1>4. CASE Sender
    BY <1>1, <1>2, <1>4, SenderStays, SenderMoves DEF Same, Channel!vars
  <1>5. CASE Reader
    <2>1. received' = received \/ HandsOn
      BY <1>1, <1>2, <1>5, ReaderStays
    <2>2. sent' = sent
      BY <1>1, <1>5, ReaderKeeps
    <2>3. HandsOn => Channel!Deliver
      BY <1>5, HandsOnDelivers
    <2> QED
      BY <1>2, <2>1, <2>2, <2>3 DEF Channel!Next, Channel!vars
  <1>6. CASE Break
    BY <1>2, <1>6 DEF Break, Channel!vars
  <1>7. CASE UNCHANGED vars
    BY <1>2, <1>7 DEF vars, Channel!vars
  <1> QED
    BY <1>3, <1>4, <1>5, <1>6, <1>7 DEF Next

\* While the socket takes each tag and each length whole, one direction of a
\* connection is an OrderedChannel that loses nothing: the reader hands on the
\* messages of the SendingJobs, whole, in order and each once, however the data is
\* cut into chunks and wherever the connection breaks (SendingJob.cpp 60-150,
\* DataHandler.cpp 355-620).
THEOREM StreamIsOrdered ==
  ASSUME MaxShort = 0
  PROVE  Spec => ImplementsOrderedChannel
  <1>1. Init => Channel!Init /\ NeverCut
    BY DEF Init, Channel!Init, NeverCut
  <1>2. FrameInv /\ NeverCut /\ [Next]_vars => NeverCut' /\ [Channel!Next]_(Channel!vars)
    BY NothingIsCut, ChannelStep
  <1>3. Spec => []FrameInv
    BY FrameInit, FrameStep, PTL DEF Spec
  <1> QED
    BY <1>1, <1>2, <1>3, PTL DEF Spec, ImplementsOrderedChannel, Channel!Spec

=============================================================================
