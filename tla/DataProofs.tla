------------------------------ MODULE DataProofs ------------------------------
(***************************************************************************)
(* Proofs about what becomes of data: the algorithms of Codecs and         *)
(* SessionTable for every input, and the reports FileManager makes of the  *)
(* files of a transfer.                                                    *)
(*                                                                         *)
(* The recursive functions of the algorithms are first shown to exist (by  *)
(* IteratesExist or DescentExists), so that their CHOOSE has a value; what *)
(* they compute is then shown by induction over the offset (UpTo,          *)
(* DownFrom).  A record of FileManager counts its files by the lengths of  *)
(* two lists; the invariant says that the lists hold distinct files of the *)
(* transfer, so that the count is reached exactly when all of them are     *)
(* there.                                                                  *)
(***************************************************************************)
EXTENDS Algorithms, FileManager, SequenceLemmas, FiniteSetTheorems

-----------------------------------------------------------------------------
(* The bytes of a length.                                                  *)

LEMMA Digit ==
  ASSUME NEW n \in Nat
  PROVE  /\ n % Base \in Bytes /\ n \div Base \in Nat
         /\ n = (n % Base) + Base * (n \div Base)
  <1>1. Base \in Nat /\ Base > 1
    BY CodecsAssumption
  <1> QED
    BY <1>1 DEF Bytes

HighStep(q, n, k) == IF k = 0 THEN n ELSE q[k - 1] \div Base
High(q, n) == q = [k \in 0 .. LengthBytes |-> HighStep(q, n, k)]

LEMMA ToBytesIs ==
  ASSUME NEW n \in Nat
  PROVE  \E q \in [0 .. LengthBytes -> Nat] :
            /\ q[0] = n
            /\ \A k \in 1 .. LengthBytes : q[k] = q[k - 1] \div Base
            /\ ToBytes(n) = [k \in 1 .. LengthBytes |-> q[k - 1] % Base]
  <1>0. LengthBytes \in Nat /\ LengthBytes > 0 /\ Base \in Nat /\ Base > 1
    BY CodecsAssumption
  <1>1. PICK g : g = [k \in 1 .. LengthBytes |-> [x \in Nat |-> x \div Base]]
    OBVIOUS
  <1>2. g \in [1 .. LengthBytes -> [Nat -> Nat]]
    BY <1>1, Digit
  <1>3. PICK f \in [0 .. LengthBytes -> Nat] : Iterates(f, n, g, LengthBytes)
    BY <1>0, <1>2, IteratesExist
  <1>4. f[0] = n /\ \A k \in 1 .. LengthBytes : f[k] = f[k - 1] \div Base
    <2>1. \A k \in 1 .. LengthBytes : f[k] = g[k][f[k - 1]] /\ f[k - 1] \in Nat
      BY <1>0, <1>3 DEF Iterates
    <2> QED
      BY <1>1, <1>3, <2>1 DEF Iterates
  <1>5. \A k \in 0 .. LengthBytes : f[k] = HighStep(f, n, k)
    BY <1>0, <1>4 DEF HighStep
  <1>6. High(f, n)
    BY <1>3, <1>5 DEF High
  <1>7. PICK h : h = CHOOSE q : High(q, n)
    OBVIOUS
  <1>8. High(h, n)
    BY <1>6, <1>7
  <1>9. /\ DOMAIN h = 0 .. LengthBytes /\ h[0] = n
        /\ \A k \in 1 .. LengthBytes : h[k] = h[k - 1] \div Base
    <2>1. DOMAIN h = 0 .. LengthBytes /\ \A k \in 0 .. LengthBytes : h[k] = HighStep(h, n, k)
      BY <1>8 DEF High
    <2> QED
      BY <1>0, <2>1 DEF HighStep
  <1>10. h = [k \in 0 .. LengthBytes |-> h[k]]
    BY <1>8 DEF High
  <1>11. \A k \in 0 .. LengthBytes : h[k] \in Nat
    <2> DEFINE T == {k \in 0 .. LengthBytes : h[k] \in Nat}
    <2>1. 0 \in T
      BY <1>0, <1>9
    <2>2. ASSUME NEW k \in 1 .. LengthBytes, k - 1 \in T PROVE k \in T
      <3>1. h[k - 1] \in Nat /\ h[k] = h[k - 1] \div Base
        BY <1>9, <2>2
      <3>2. h[k] \in Nat
        BY <3>1, Digit
      <3> QED
        BY <1>0, <3>2
    <2>3. 0 .. LengthBytes \subseteq T
      <3> HIDE DEF T
      <3> QED
        BY <1>0, <2>1, <2>2, UpTo
    <2> QED
      BY <2>3
  <1>12. h \in [0 .. LengthBytes -> Nat]
    BY <1>10, <1>11
  <1>13. ToBytes(n) = [k \in 1 .. LengthBytes |-> h[k - 1] % Base]
    <2>1. ToBytes(n) = [k \in 1 .. LengthBytes |-> (CHOOSE q : High(q, n))[k - 1] % Base]
      BY DEF ToBytes, High, HighStep
    <2> QED
      BY <1>7, <2>1
  <1> QED
    BY <1>9, <1>12, <1>13

ValueStep(v, b, k) == IF k = 0 THEN 0 ELSE b[Len(b) - k + 1] + Base * v[k - 1]
Value(v, b) == v = [k \in 0 .. Len(b) |-> ValueStep(v, b, k)]

LEMMA ToLengthIs ==
  ASSUME NEW b \in Seq(Bytes)
  PROVE  \E v \in [0 .. Len(b) -> Nat] :
            /\ v[0] = 0
            /\ \A k \in 1 .. Len(b) : v[k] = b[Len(b) - k + 1] + Base * v[k - 1]
            /\ ToLength(b) = v[Len(b)]
  <1>0. /\ Len(b) \in Nat /\ Base \in Nat
        /\ \A k \in 1 .. Len(b) : b[Len(b) - k + 1] \in Nat
    BY CodecsAssumption DEF Bytes
  <1>1. PICK g : g = [k \in 1 .. Len(b) |-> [x \in Nat |-> b[Len(b) - k + 1] + Base * x]]
    OBVIOUS
  <1>2. g \in [1 .. Len(b) -> [Nat -> Nat]]
    <2>1. ASSUME NEW k \in 1 .. Len(b), NEW x \in Nat
          PROVE  b[Len(b) - k + 1] + Base * x \in Nat
      <3>1. b[Len(b) - k + 1] \in Nat /\ Base * x \in Nat
        BY <1>0
      <3> QED
        BY <3>1
    <2> QED
      BY <1>1, <2>1
  <1>3. PICK f \in [0 .. Len(b) -> Nat] : Iterates(f, 0, g, Len(b))
    BY <1>0, <1>2, IteratesExist
  <1>4. f[0] = 0 /\ \A k \in 1 .. Len(b) : f[k] = b[Len(b) - k + 1] + Base * f[k - 1]
    <2>0. \A k \in 1 .. Len(b) : k - 1 \in 0 .. Len(b)
      BY <1>0
    <2>1. \A k \in 1 .. Len(b) : f[k] = g[k][f[k - 1]] /\ f[k - 1] \in Nat
      BY <1>3, <2>0 DEF Iterates
    <2> QED
      BY <1>1, <1>3, <2>1 DEF Iterates
  <1>5. \A k \in 0 .. Len(b) : f[k] = ValueStep(f, b, k)
    BY <1>0, <1>4 DEF ValueStep
  <1>6. Value(f, b)
    BY <1>3, <1>5 DEF Value
  <1>7. PICK h : h = CHOOSE v : Value(v, b)
    OBVIOUS
  <1>8. Value(h, b)
    BY <1>6, <1>7
  <1>9. /\ DOMAIN h = 0 .. Len(b) /\ h[0] = 0
        /\ \A k \in 1 .. Len(b) : h[k] = b[Len(b) - k + 1] + Base * h[k - 1]
    <2>1. DOMAIN h = 0 .. Len(b) /\ \A k \in 0 .. Len(b) : h[k] = ValueStep(h, b, k)
      BY <1>8 DEF Value
    <2> QED
      BY <1>0, <2>1 DEF ValueStep
  <1>10. h = [k \in 0 .. Len(b) |-> h[k]]
    BY <1>8 DEF Value
  <1>11. \A k \in 0 .. Len(b) : h[k] \in Nat
    <2> DEFINE T == {k \in 0 .. Len(b) : h[k] \in Nat}
    <2>1. 0 \in T
      BY <1>0, <1>9
    <2>2. ASSUME NEW k \in 1 .. Len(b), k - 1 \in T PROVE k \in T
      <3>1. h[k - 1] \in Nat /\ h[k] = b[Len(b) - k + 1] + Base * h[k - 1]
        BY <1>9, <2>2
      <3>2. b[Len(b) - k + 1] \in Nat /\ k \in 0 .. Len(b)
        <4>1. Len(b) - k + 1 \in 1 .. Len(b)
          BY <1>0
        <4> QED
          BY <1>0, <4>1 DEF Bytes
      <3>3. \A x, y \in Nat : x + Base * y \in Nat
        BY CodecsAssumption
      <3>4. h[k] \in Nat
        BY <3>1, <3>2, <3>3
      <3> QED
        BY <3>2, <3>4
    <2>3. 0 .. Len(b) \subseteq T
      <3> HIDE DEF T
      <3> QED
        BY <1>0, <2>1, <2>2, UpTo
    <2> QED
      BY <2>3
  <1>12. h \in [0 .. Len(b) -> Nat]
    BY <1>10, <1>11
  <1>13. ToLength(b) = h[Len(b)]
    <2>1. ToLength(b) = (CHOOSE v : Value(v, b))[Len(b)]
      BY DEF ToLength, Value, ValueStep
    <2> QED
      BY <1>7, <2>1
  <1> QED
    BY <1>9, <1>12, <1>13

PowerStep(p, k) == IF k = 0 THEN 1 ELSE Base * p[k - 1]

LEMMA CapacityIs ==
  \E p \in [0 .. LengthBytes -> Nat] :
     /\ p[0] = 1 /\ \A k \in 1 .. LengthBytes : p[k] = Base * p[k - 1]
     /\ Capacity = p[LengthBytes]
  <1>0. LengthBytes \in Nat /\ LengthBytes > 0 /\ Base \in Nat
    BY CodecsAssumption
  <1>1. PICK g : g = [k \in 1 .. LengthBytes |-> [x \in Nat |-> Base * x]]
    OBVIOUS
  <1>2. g \in [1 .. LengthBytes -> [Nat -> Nat]]
    <2>1. \A x \in Nat : Base * x \in Nat
      BY <1>0
    <2> QED
      BY <1>1, <2>1
  <1>3. PICK f \in [0 .. LengthBytes -> Nat] : Iterates(f, 1, g, LengthBytes)
    BY <1>0, <1>2, IteratesExist
  <1>4. f[0] = 1 /\ \A k \in 1 .. LengthBytes : f[k] = Base * f[k - 1]
    <2>1. \A k \in 1 .. LengthBytes : f[k] = g[k][f[k - 1]] /\ f[k - 1] \in Nat
      BY <1>0, <1>3 DEF Iterates
    <2> QED
      BY <1>1, <1>3, <2>1 DEF Iterates
  <1>5. \A k \in 0 .. LengthBytes : f[k] = PowerStep(f, k)
    BY <1>0, <1>4 DEF PowerStep
  <1>6. f = [k \in 0 .. LengthBytes |-> PowerStep(f, k)]
    BY <1>3, <1>5
  <1>7. PICK h : h = CHOOSE p : p = [k \in 0 .. LengthBytes |-> PowerStep(p, k)]
    OBVIOUS
  <1>8. h = [k \in 0 .. LengthBytes |-> PowerStep(h, k)]
    BY <1>6, <1>7
  <1>9. h[0] = 1 /\ \A k \in 1 .. LengthBytes : h[k] = Base * h[k - 1]
    <2>1. \A k \in 0 .. LengthBytes : h[k] = PowerStep(h, k)
      BY <1>8
    <2> QED
      BY <1>0, <2>1 DEF PowerStep
  <1>10. h = [k \in 0 .. LengthBytes |-> h[k]]
    BY <1>8
  <1>11. \A k \in 0 .. LengthBytes : h[k] \in Nat
    <2> DEFINE T == {k \in 0 .. LengthBytes : h[k] \in Nat}
    <2>1. 0 \in T
      BY <1>0, <1>9
    <2>2. ASSUME NEW k \in 1 .. LengthBytes, k - 1 \in T PROVE k \in T
      <3>1. h[k - 1] \in Nat /\ h[k] = Base * h[k - 1]
        BY <1>9, <2>2
      <3>2. h[k] \in Nat
        BY <1>0, <3>1
      <3> QED
        BY <1>0, <3>2
    <2>3. 0 .. LengthBytes \subseteq T
      <3> HIDE DEF T
      <3> QED
        BY <1>0, <2>1, <2>2, UpTo
    <2> QED
      BY <2>3
  <1>12. h \in [0 .. LengthBytes -> Nat]
    BY <1>10, <1>11
  <1>13. Capacity = h[LengthBytes]
    <2>1. Capacity =
            (CHOOSE p : p = [k \in 0 .. LengthBytes |-> PowerStep(p, k)])[LengthBytes]
      BY DEF Capacity, PowerStep
    <2> QED
      BY <1>7, <2>1
  <1> QED
    BY <1>9, <1>12, <1>13

LEMMA DivSmaller ==
  ASSUME NEW x \in Nat, NEW p \in Nat, x < Base * p
  PROVE  x \div Base < p
  <1>1. Base \in Nat /\ Base > 1
    BY CodecsAssumption
  <1>2. PICK d \in Nat, r \in Nat : d = x \div Base /\ x = r + Base * d
    BY <1>1, Digit DEF Bytes
  <1>3. ASSUME p <= d PROVE FALSE
    <2>1. PICK e \in Nat : d = p + e
      <3>1. d - p \in Nat /\ d = p + (d - p)
        BY <1>3
      <3> QED
        BY <3>1
    <2>2. Base * d = Base * p + Base * e
      BY <1>1, <2>1
    <2>3. Base * p \in Nat /\ Base * e \in Nat
      BY <1>1
    <2> QED
      BY <1>2, <2>2, <2>3
  <1> QED
    BY <1>2, <1>3

\* memcpy there and back: as long as a length is one of a size_t, it is what it was.
LEMMA LengthsAreKept ==
  ASSUME NEW n \in Nat, n < Capacity
  PROVE  /\ ToBytes(n) \in Seq(Bytes) /\ Len(ToBytes(n)) = LengthBytes
         /\ ToLength(ToBytes(n)) = n
  <1> DEFINE L == LengthBytes
  <1>0. L \in Nat /\ L > 0 /\ Base \in Nat /\ Base > 1
    BY CodecsAssumption
  <1>1. PICK q \in [0 .. L -> Nat] :
            /\ q[0] = n
            /\ \A k \in 1 .. L : q[k] = q[k - 1] \div Base
            /\ ToBytes(n) = [k \in 1 .. L |-> q[k - 1] % Base]
    BY ToBytesIs
  <1>2. PICK p \in [0 .. L -> Nat] :
            /\ p[0] = 1 /\ \A k \in 1 .. L : p[k] = Base * p[k - 1]
            /\ Capacity = p[L]
    BY CapacityIs
  <1>3. PICK b : b = ToBytes(n)
    OBVIOUS
  <1>4. b \in Seq(Bytes) /\ Len(b) = L /\ \A k \in 1 .. L : b[k] = q[k - 1] % Base
    <2>1. \A k \in 1 .. L : q[k - 1] % Base \in Bytes
      <3> TAKE k \in 1 .. L
      <3>1. q[k - 1] \in Nat
        BY <1>0, <1>1
      <3> QED
        BY <3>1, Digit
    <2>2. b = [k \in 1 .. L |-> q[k - 1] % Base]
      BY <1>1, <1>3
    <2> QED
      BY <1>0, <2>1, <2>2
  <1>5. \A k \in 0 .. L : q[k] < p[L - k]
    <2> DEFINE T == {k \in 0 .. L : q[k] < p[L - k]}
    <2>1. 0 \in T
      BY <1>0, <1>1, <1>2
    <2>2. ASSUME NEW k \in 1 .. L, k - 1 \in T PROVE k \in T
      <3>0. PICK j \in 0 .. L : /\ j = L - k /\ j + 1 \in 1 .. L
                                /\ L - (k - 1) = j + 1 /\ (j + 1) - 1 = j
        <4>1. L - k \in 0 .. L /\ (L - k) + 1 \in 1 .. L /\ L - (k - 1) = (L - k) + 1
              /\ ((L - k) + 1) - 1 = L - k
          BY <1>0
        <4> QED
          BY <4>1
      <3>1. q[k - 1] \in Nat /\ p[j] \in Nat /\ q[k] = q[k - 1] \div Base
        <4>1. k - 1 \in 0 .. L
          BY <1>0
        <4>2. q[k - 1] \in Nat
          BY <1>1, <4>1
        <4>3. p[j] \in Nat
          BY <1>2
        <4> QED
          BY <1>1, <4>2, <4>3
      <3>2. q[k - 1] < Base * p[j]
        <4>1. q[k - 1] < p[j + 1]
          BY <2>2, <3>0
        <4>2. p[j + 1] = Base * p[j]
          BY <1>2, <3>0
        <4> QED
          BY <4>1, <4>2
      <3>3. q[k] < p[L - k]
        BY <3>0, <3>1, <3>2, DivSmaller
      <3> QED
        BY <1>0, <3>3
    <2>3. 0 .. L \subseteq T
      <3> HIDE DEF T, L
      <3> QED
        BY <1>0, <2>1, <2>2, UpTo
    <2> QED
      BY <2>3
  <1>6. q[L] = 0
    <2>1. L \in 0 .. L /\ L - L = 0 /\ q[L] \in Nat
      BY <1>0, <1>1
    <2>2. q[L] < 1
      BY <1>2, <1>5, <2>1
    <2> QED
      BY <2>1, <2>2
  <1>7. PICK v \in [0 .. Len(b) -> Nat] :
            /\ v[0] = 0
            /\ \A k \in 1 .. Len(b) : v[k] = b[Len(b) - k + 1] + Base * v[k - 1]
            /\ ToLength(b) = v[Len(b)]
    BY <1>4, ToLengthIs
  <1>8. \A k \in 0 .. L : v[k] = q[L - k]
    <2> DEFINE T == {k \in 0 .. L : v[k] = q[L - k]}
    <2>1. 0 \in T
      BY <1>0, <1>6, <1>7
    <2>2. ASSUME NEW k \in 1 .. L, k - 1 \in T PROVE k \in T
      <3>1. /\ q[L - k] \in Nat /\ L - k + 1 \in 1 .. L /\ L - k \in 0 .. L
            /\ L - (k - 1) = L - k + 1 /\ (L - k + 1) - 1 = L - k
        BY <1>0, <1>1
      <3>2. b[L - k + 1] = q[L - k] % Base /\ q[L - k + 1] = q[L - k] \div Base
        BY <1>1, <1>4, <3>1
      <3>3. v[k - 1] = q[L - k + 1]
        BY <2>2, <3>1
      <3>4. v[k] = b[L - k + 1] + Base * v[k - 1]
        BY <1>4, <1>7
      <3>5. v[k] = q[L - k]
        BY <3>1, <3>2, <3>3, <3>4, Digit
      <3> QED
        BY <1>0, <3>5
    <2>3. 0 .. L \subseteq T
      <3> HIDE DEF T, L
      <3> QED
        BY <1>0, <2>1, <2>2, UpTo
    <2> QED
      BY <2>3
  <1>9. v[L] = n
    <2>1. L \in 0 .. L /\ L - L = 0
      BY <1>0
    <2> QED
      BY <1>1, <1>8, <2>1
  <1> QED
    BY <1>3, <1>4, <1>7, <1>9

\* Whatever the bytes are, they are a length.
LEMMA LengthIsNat == \A b \in Seq(Bytes) : ToLength(b) \in Nat
  <1> SUFFICES ASSUME NEW b \in Seq(Bytes) PROVE ToLength(b) \in Nat
    OBVIOUS
  <1>1. Len(b) \in Nat
    OBVIOUS
  <1> QED
    BY <1>1, ToLengthIs

-----------------------------------------------------------------------------
(* Arrays one behind the other.                                            *)

LEMMA SliceIs ==
  ASSUME NEW X, NEW b \in Seq(X), NEW i \in Nat, NEW n \in Nat, i + n <= Len(b)
  PROVE  /\ Slice(b, i, n) \in Seq(X) /\ Len(Slice(b, i, n)) = n
         /\ \A x \in 1 .. n : Slice(b, i, n)[x] = b[i + x]
  <1>1. Len(b) \in Nat
    OBVIOUS
  <1>2. CASE n = 0
    <2>1. Slice(b, i, n) = <<>>
      BY <1>1, <1>2, SubSeqEmpty DEF Slice
    <2>2. PICK e \in Seq(X) : e = <<>> /\ Len(e) = 0
      BY EmptySeq
    <2>3. Slice(b, i, n) = e
      BY <2>1, <2>2
    <2>4. \A x \in 1 .. n : FALSE
      BY <1>2
    <2> QED
      BY <1>2, <2>2, <2>3, <2>4
  <1>3. CASE n # 0
    <2>1. /\ i + 1 \in 1 .. Len(b) /\ i + n \in 1 .. Len(b)
          /\ (i + n) - (i + 1) + 1 = n
      BY <1>1, <1>3
    <2>2. /\ SubSeq(b, i + 1, i + n) \in Seq(X) /\ Len(SubSeq(b, i + 1, i + n)) = n
          /\ \A x \in 1 .. n : SubSeq(b, i + 1, i + n)[x] = b[i + x]
      BY <2>1
    <2> QED
      BY <2>2 DEF Slice
  <1> QED
    BY <1>2, <1>3

LEMMA ReverseIs ==
  ASSUME NEW X, NEW s \in Seq(X)
  PROVE  /\ Reverse(s) \in Seq(X) /\ Len(Reverse(s)) = Len(s)
         /\ \A x \in 1 .. Len(s) : Reverse(s)[x] = s[Len(s) - x + 1]
  <1>1. Len(s) \in Nat /\ \A x \in 1 .. Len(s) : (Len(s) - x) + 1 \in 1 .. Len(s)
    OBVIOUS
  <1>2. \A x \in 1 .. Len(s) : s[(Len(s) - x) + 1] \in X
    BY <1>1
  <1> QED
    BY <1>1, <1>2 DEF Reverse

LEMMA CombineIs ==
  ASSUME NEW r \in Seq(Bytes), NEW s \in Seq(Bytes), Len(s) < Capacity
  PROVE  /\ Combine(r, s) \in Seq(Bytes)
         /\ Len(Combine(r, s)) = Len(r) + LengthBytes + Len(s)
         /\ \A x \in 1 .. Len(r) : Combine(r, s)[x] = r[x]
         /\ \A x \in 1 .. LengthBytes : Combine(r, s)[Len(r) + x] = ToBytes(Len(s))[x]
         /\ \A x \in 1 .. Len(s) : Combine(r, s)[Len(r) + LengthBytes + x] = s[Len(s) - x + 1]
  <1>0. LengthBytes \in Nat /\ Len(s) \in Nat /\ Len(r) \in Nat
    BY CodecsAssumption
  <1>1. PICK t \in Seq(Bytes) : t = ToBytes(Len(s)) /\ Len(t) = LengthBytes
    BY <1>0, LengthsAreKept
  <1>2. PICK v \in Seq(Bytes) :
          /\ v = Reverse(s) /\ Len(v) = Len(s)
          /\ \A x \in 1 .. Len(s) : v[x] = s[Len(s) - x + 1]
    BY ReverseIs
  <1>3. PICK u \in Seq(Bytes) :
          /\ u = r \o t /\ Len(u) = Len(r) + LengthBytes
          /\ \A x \in 1 .. Len(r) : u[x] = r[x]
          /\ \A x \in 1 .. LengthBytes : u[Len(r) + x] = t[x]
    <2>1. /\ r \o t \in Seq(Bytes) /\ Len(r \o t) = Len(r) + Len(t)
          /\ \A x \in 1 .. Len(r) : (r \o t)[x] = r[x]
          /\ \A x \in 1 .. Len(t) : (r \o t)[Len(r) + x] = t[x]
      BY ConcatIs
    <2>2. PICK u \in Seq(Bytes) : u = r \o t
      BY <2>1
    <2> QED
      BY <1>1, <2>1, <2>2
  <1>4. /\ u \o v \in Seq(Bytes) /\ Len(u \o v) = Len(u) + Len(v)
        /\ \A x \in 1 .. Len(u) : (u \o v)[x] = u[x]
        /\ \A x \in 1 .. Len(v) : (u \o v)[Len(u) + x] = v[x]
    BY ConcatIs
  <1>5. Combine(r, s) = u \o v
    BY <1>1, <1>2, <1>3 DEF Combine
  <1>6. \A x \in 1 .. Len(r) : x \in 1 .. Len(u)
    BY <1>0, <1>3
  <1>7. \A x \in 1 .. LengthBytes : Len(r) + x \in 1 .. Len(u)
    BY <1>0, <1>3
  <1>8. PICK c \in Seq(Bytes) : c = u \o v /\ c = Combine(r, s)
    BY <1>4, <1>5
  <1>9. Len(c) = Len(r) + LengthBytes + Len(s)
    BY <1>2, <1>3, <1>4, <1>8
  <1>10. \A x \in 1 .. Len(r) : c[x] = r[x]
    BY <1>3, <1>4, <1>6, <1>8
  <1>11. \A x \in 1 .. LengthBytes : c[Len(r) + x] = t[x]
    BY <1>3, <1>4, <1>7, <1>8
  <1>12. \A x \in 1 .. Len(s) : c[Len(r) + LengthBytes + x] = s[Len(s) - x + 1]
    BY <1>2, <1>3, <1>4, <1>8
  <1> QED
    BY <1>1, <1>8, <1>9, <1>10, <1>11, <1>12

\* b goes on behind i with the array s, as far as b goes.
GoesOn(b, i, s) ==
  /\ \A x \in 1 .. LengthBytes : i + x <= Len(b) => b[i + x] = ToBytes(Len(s))[x]
  /\ \A x \in 1 .. Len(s) :
       i + LengthBytes + x <= Len(b) => b[i + LengthBytes + x] = s[Len(s) - x + 1]

LEMMA LengthRead ==
  ASSUME NEW b \in Seq(Bytes), NEW i \in Nat, NEW s \in Seq(Bytes), Len(s) < Capacity,
         GoesOn(b, i, s), i + LengthBytes <= Len(b)
  PROVE  ToLength(Slice(b, i, LengthBytes)) = Len(s)
  <1>0. LengthBytes \in Nat /\ Len(s) \in Nat /\ Len(b) \in Nat
    BY CodecsAssumption
  <1>1. PICK t \in Seq(Bytes) : t = ToBytes(Len(s)) /\ Len(t) = LengthBytes
                                /\ ToLength(t) = Len(s)
    BY <1>0, LengthsAreKept
  <1>2. PICK u \in Seq(Bytes) : /\ u = Slice(b, i, LengthBytes) /\ Len(u) = LengthBytes
                                /\ \A x \in 1 .. LengthBytes : u[x] = b[i + x]
    BY <1>0, SliceIs
  <1>3. \A x \in 1 .. LengthBytes : u[x] = t[x]
    <2> TAKE x \in 1 .. LengthBytes
    <2>1. i + x <= Len(b)
      BY <1>0
    <2>2. b[i + x] = ToBytes(Len(s))[x]
      BY <2>1 DEF GoesOn
    <2>3. u[x] = b[i + x]
      BY <1>2
    <2> QED
      BY <1>1, <2>2, <2>3
  <1>4. u = t
    BY <1>1, <1>2, <1>3, SeqEqual
  <1> QED
    BY <1>1, <1>2, <1>4

\* An array that is there is divided, one that is cut short is not.
LEMMA DivideWhole ==
  ASSUME NEW b \in Seq(Bytes), NEW i \in Nat, NEW s \in Seq(Bytes), Len(s) < Capacity,
         GoesOn(b, i, s), i + LengthBytes + Len(s) <= Len(b)
  PROVE  Divide(b, i) = [part |-> s, index |-> i + LengthBytes + Len(s)]
  <1>0. LengthBytes \in Nat /\ Len(s) \in Nat /\ Len(b) \in Nat
    BY CodecsAssumption
  <1>1. i + LengthBytes <= Len(b) /\ ~(Len(b) < i + LengthBytes)
    BY <1>0
  <1>2. ToLength(Slice(b, i, LengthBytes)) = Len(s)
    BY <1>1, LengthRead
  <1>3. Divide(b, i) =
          IF Len(s) = 0 \/ Len(b) < i + LengthBytes + Len(s)
          THEN [part |-> <<>>, index |-> i + LengthBytes]
          ELSE [part |-> Reverse(Slice(b, i + LengthBytes, Len(s))),
                index |-> i + LengthBytes + Len(s)]
    BY <1>1, <1>2, Zenon DEF Divide
  <1>4. CASE Len(s) = 0
    <2>1. s = <<>> /\ i + LengthBytes + Len(s) = i + LengthBytes
      BY <1>0, <1>4
    <2> QED
      BY <1>3, <1>4, <2>1
  <1>5. CASE Len(s) # 0
    <2>1. PICK u \in Seq(Bytes) :
            /\ u = Slice(b, i + LengthBytes, Len(s)) /\ Len(u) = Len(s)
            /\ \A x \in 1 .. Len(s) : u[x] = b[i + LengthBytes + x]
      <3>1. i + LengthBytes \in Nat
        BY <1>0
      <3> QED
        BY <1>0, <3>1, SliceIs
    <2>2. PICK v \in Seq(Bytes) : /\ v = Reverse(u) /\ Len(v) = Len(s)
                                  /\ \A x \in 1 .. Len(s) : v[x] = u[Len(s) - x + 1]
      BY <2>1, ReverseIs
    <2>3. \A x \in 1 .. Len(s) : v[x] = s[x]
      <3> TAKE x \in 1 .. Len(s)
      <3>1. PICK y \in 1 .. Len(s) : y = Len(s) - x + 1 /\ Len(s) - y + 1 = x
                                     /\ i + LengthBytes + y <= Len(b)
        <4> DEFINE y == Len(s) - x + 1
        <4>1. y \in 1 .. Len(s) /\ Len(s) - y + 1 = x
          BY <1>0
        <4>2. i + LengthBytes + y <= Len(b)
          BY <1>0, <4>1
        <4> QED
          BY <4>1, <4>2
      <3>2. v[x] = u[y] /\ u[y] = b[i + LengthBytes + y]
        BY <2>1, <2>2, <3>1
      <3>3. b[i + LengthBytes + y] = s[x]
        BY <3>1 DEF GoesOn
      <3> QED
        BY <3>2, <3>3
    <2>4. v = s
      BY <2>2, <2>3, SeqEqual
    <2>5. ~(Len(b) < i + LengthBytes + Len(s))
      BY <1>0
    <2> QED
      BY <1>3, <1>5, <2>1, <2>2, <2>4, <2>5
  <1> QED
    BY <1>4, <1>5

LEMMA DivideCut ==
  ASSUME NEW b \in Seq(Bytes), NEW i \in Nat, NEW s \in Seq(Bytes), Len(s) < Capacity,
         GoesOn(b, i, s), Len(b) < i + LengthBytes + Len(s)
  PROVE  Divide(b, i).part = <<>>
  <1>0. LengthBytes \in Nat /\ Len(s) \in Nat /\ Len(b) \in Nat
    BY CodecsAssumption
  <1>1. CASE Len(b) < i + LengthBytes
    <2>1. Divide(b, i) = [part |-> <<>>, index |-> i]
      BY <1>1, Zenon DEF Divide
    <2> QED
      BY <2>1
  <1>2. CASE ~(Len(b) < i + LengthBytes)
    <2>1. ToLength(Slice(b, i, LengthBytes)) = Len(s)
      BY <1>0, <1>2, LengthRead
    <2>2. Divide(b, i) =
            IF Len(s) = 0 \/ Len(b) < i + LengthBytes + Len(s)
            THEN [part |-> <<>>, index |-> i + LengthBytes]
            ELSE [part |-> Reverse(Slice(b, i + LengthBytes, Len(s))),
                  index |-> i + LengthBytes + Len(s)]
      BY <1>2, <2>1, Zenon DEF Divide
    <2> QED
      BY <2>2
  <1> QED
    BY <1>1, <1>2

\* Whatever the bytes are: an index that is behind the one before, in the bytes.
LEMMA DivideIs ==
  ASSUME NEW b \in Seq(Bytes), NEW i \in 0 .. Len(b)
  PROVE  /\ Divide(b, i).part \in Seq(Bytes)
         /\ Divide(b, i).index \in 0 .. Len(b)
         /\ Divide(b, i).part # <<>> => i < Divide(b, i).index
  <1>0. LengthBytes \in Nat /\ LengthBytes > 0 /\ Len(b) \in Nat
    BY CodecsAssumption
  <1>1. CASE Len(b) < i + LengthBytes
    <2>1. Divide(b, i) = [part |-> <<>>, index |-> i]
      BY <1>1, Zenon DEF Divide
    <2> QED
      BY <2>1, EmptySeq
  <1>2. CASE ~(Len(b) < i + LengthBytes)
    <2>1. PICK n \in Nat : n = ToLength(Slice(b, i, LengthBytes))
      <3>1. Slice(b, i, LengthBytes) \in Seq(Bytes)
        BY <1>0, <1>2, SliceIs
      <3> QED
        BY <3>1, LengthIsNat
    <2>2. Divide(b, i) =
            IF n = 0 \/ Len(b) < i + LengthBytes + n
            THEN [part |-> <<>>, index |-> i + LengthBytes]
            ELSE [part |-> Reverse(Slice(b, i + LengthBytes, n)),
                  index |-> i + LengthBytes + n]
      BY <1>2, <2>1, Zenon DEF Divide
    <2>3. CASE n = 0 \/ Len(b) < i + LengthBytes + n
      <3>1. Divide(b, i) = [part |-> <<>>, index |-> i + LengthBytes]
        BY <2>2, <2>3
      <3>2. i + LengthBytes \in 0 .. Len(b)
        BY <1>0, <1>2
      <3> QED
        BY <3>1, <3>2, EmptySeq
    <2>4. CASE ~(n = 0 \/ Len(b) < i + LengthBytes + n)
      <3>1. Divide(b, i) = [part |-> Reverse(Slice(b, i + LengthBytes, n)),
                            index |-> i + LengthBytes + n]
        BY <2>2, <2>4
      <3>2. i + LengthBytes + n \in 0 .. Len(b) /\ i < i + LengthBytes + n
            /\ i + LengthBytes \in Nat /\ i + LengthBytes + n <= Len(b)
        BY <1>0, <2>4
      <3>3. Slice(b, i + LengthBytes, n) \in Seq(Bytes)
        BY <3>2, SliceIs
      <3>4. Reverse(Slice(b, i + LengthBytes, n)) \in Seq(Bytes)
        BY <3>3, ReverseIs
      <3> QED
        BY <3>1, <3>2, <3>4
    <2> QED
      BY <2>3, <2>4
  <1> QED
    BY <1>1, <1>2

\* Arrays are found wherever the bytes are the same.
LEMMA GoesOnAlike ==
  ASSUME NEW c \in Seq(Bytes), NEW b \in Seq(Bytes), NEW i \in Nat, NEW s \in Seq(Bytes),
         GoesOn(c, i, s),
         \A x \in 1 .. Len(b) : x <= i + LengthBytes + Len(s) => x <= Len(c) /\ b[x] = c[x]
  PROVE  GoesOn(b, i, s)
  <1>0. LengthBytes \in Nat /\ Len(s) \in Nat /\ Len(b) \in Nat /\ Len(c) \in Nat
    BY CodecsAssumption
  <1>1. ASSUME NEW x \in 1 .. LengthBytes, i + x <= Len(b)
        PROVE  b[i + x] = ToBytes(Len(s))[x]
    <2>1. i + x \in 1 .. Len(b) /\ i + x <= i + LengthBytes + Len(s)
      BY <1>0, <1>1
    <2>2. i + x <= Len(c) /\ b[i + x] = c[i + x]
      BY <2>1
    <2> QED
      BY <2>2 DEF GoesOn
  <1>2. ASSUME NEW x \in 1 .. Len(s), i + LengthBytes + x <= Len(b)
        PROVE  b[i + LengthBytes + x] = s[Len(s) - x + 1]
    <2>1. /\ i + LengthBytes + x \in 1 .. Len(b)
          /\ i + LengthBytes + x <= i + LengthBytes + Len(s)
      BY <1>0, <1>2
    <2>2. i + LengthBytes + x <= Len(c) /\ b[i + LengthBytes + x] = c[i + LengthBytes + x]
      BY <2>1
    <2> QED
      BY <2>2 DEF GoesOn
  <1> QED
    BY <1>1, <1>2 DEF GoesOn

LEMMA CombineGoesOn ==
  ASSUME NEW r \in Seq(Bytes), NEW s \in Seq(Bytes), Len(s) < Capacity
  PROVE  GoesOn(Combine(r, s), Len(r), s)
  BY CombineIs DEF GoesOn

-----------------------------------------------------------------------------
(* Archives.                                                               *)

\* An entry gives back its path and its data.
LEMMA EntryIs ==
  ASSUME NEW file \in NamedData, Storable(file)
  PROVE  LET e == Entry(file)
         IN  /\ e \in Seq(Bytes) /\ Len(e) = EntryLength(file) /\ e # <<>>
             /\ Divide(e, 0) = [part |-> file.path, index |-> LengthBytes + Len(file.path)]
             /\ Divide(e, LengthBytes + Len(file.path)).part = file.data
  <1>0. LengthBytes \in Nat /\ LengthBytes > 0
    BY CodecsAssumption
  <1>1. PICK p \in Seq(Bytes), d \in Seq(Bytes) : p = file.path /\ d = file.data
    BY DEF NamedData
  <1>2. Len(p) \in Nat /\ Len(d) \in Nat /\ Capacity \in Nat
    <2>1. Capacity \in Nat
      BY <1>0, CapacityIs
    <2> QED
      BY <2>1
  <1>3. Len(p) < Capacity /\ Len(d) < Capacity
    <2>1. LengthBytes + Len(p) + LengthBytes + Len(d) < Capacity
      BY <1>1 DEF Storable, EntryLength
    <2> QED
      BY <1>0, <1>2, <2>1
  <1>4. PICK z \in Seq(Bytes) : z = <<>> /\ Len(z) = 0
    BY EmptySeq
  <1>5. PICK f \in Seq(Bytes) : /\ f = Combine(z, p) /\ Len(f) = LengthBytes + Len(p)
                                /\ GoesOn(f, 0, p)
    <2>1. Combine(z, p) \in Seq(Bytes) /\ Len(Combine(z, p)) = 0 + LengthBytes + Len(p)
      BY <1>3, <1>4, CombineIs
    <2>2. GoesOn(Combine(z, p), 0, p)
      BY <1>3, <1>4, CombineGoesOn
    <2> QED
      BY <1>0, <1>2, <2>1, <2>2
  <1>6. PICK e \in Seq(Bytes) :
          /\ e = Combine(f, d) /\ Len(e) = Len(f) + LengthBytes + Len(d)
          /\ \A x \in 1 .. Len(f) : e[x] = f[x]
          /\ GoesOn(e, Len(f), d)
    BY <1>3, CombineIs, CombineGoesOn
  <1>7. e = Entry(file)
    BY <1>1, <1>4, <1>5, <1>6 DEF Entry
  <1>8. Len(e) = EntryLength(file) /\ e # <<>>
    <2>1. Len(e) = EntryLength(file)
      BY <1>1, <1>5, <1>6 DEF EntryLength
    <2>2. Len(e) # 0
      BY <1>0, <1>2, <1>5, <1>6
    <2> QED
      BY <1>4, <2>1, <2>2
  <1>9. GoesOn(e, 0, p)
    <2>1. \A x \in 1 .. Len(e) : x <= 0 + LengthBytes + Len(p) => x <= Len(f) /\ e[x] = f[x]
      <3>1. Len(e) \in Nat /\ Len(f) \in Nat
        OBVIOUS
      <3>2. ASSUME NEW x \in 1 .. Len(e), x <= 0 + LengthBytes + Len(p)
            PROVE  x \in 1 .. Len(f)
        BY <1>0, <1>2, <1>5, <3>1, <3>2
      <3> QED
        BY <1>6, <3>1, <3>2
    <2> QED
      BY <1>5, <2>1, GoesOnAlike
  <1>10. Divide(e, 0) = [part |-> p, index |-> LengthBytes + Len(p)]
    <2>1. 0 + LengthBytes + Len(p) = LengthBytes + Len(p) /\ LengthBytes + Len(p) <= Len(e)
      BY <1>0, <1>2, <1>5, <1>6
    <2>2. Divide(e, 0) = [part |-> p, index |-> 0 + LengthBytes + Len(p)]
      BY <1>3, <1>9, <2>1, DivideWhole
    <2> QED
      BY <2>1, <2>2
  <1>11. Divide(e, Len(f)).part = d
    <2>1. Len(f) \in Nat /\ Len(f) + LengthBytes + Len(d) <= Len(e)
      BY <1>0, <1>2, <1>6
    <2>2. Divide(e, Len(f)) = [part |-> d, index |-> Len(f) + LengthBytes + Len(d)]
      BY <1>3, <1>6, <2>1, DivideWhole
    <2> QED
      BY <2>2
  <1> QED
    BY <1>1, <1>5, <1>6, <1>7, <1>8, <1>10, <1>11

\* out[n] is the archive of the first n files.
Builds(out, files) ==
  /\ out \in [0 .. Len(files) -> Seq(Bytes)]
  /\ out[0] = <<>>
  /\ \A n \in 1 .. Len(files) : out[n] = Combine(out[n - 1], Entry(files[n]))

BuildStep(out, files, n) == IF n = 0 THEN <<>> ELSE Combine(out[n - 1], Entry(files[n]))
Build(out, files) == out = [n \in 0 .. Len(files) |-> BuildStep(out, files, n)]

LEMMA ArchiveIs ==
  ASSUME NEW files \in Seq(NamedData), \A n \in 1 .. Len(files) : Storable(files[n])
  PROVE  \E out : Builds(out, files) /\ Archive(files) = out[Len(files)]
  <1> DEFINE N == Len(files)
  <1>0. N \in Nat
    OBVIOUS
  <1>1. PICK g : g = [k \in 1 .. N |-> [x \in Seq(Bytes) |-> Combine(x, Entry(files[k]))]]
    OBVIOUS
  <1>2. ASSUME NEW k \in 1 .. N, NEW x \in Seq(Bytes)
        PROVE  Combine(x, Entry(files[k])) \in Seq(Bytes)
    <2>1. files[k] \in NamedData /\ Storable(files[k])
      OBVIOUS
    <2>2. Entry(files[k]) \in Seq(Bytes) /\ Len(Entry(files[k])) < Capacity
      BY <2>1, EntryIs DEF Storable
    <2> QED
      BY <2>2, CombineIs
  <1>3. g \in [1 .. N -> [Seq(Bytes) -> Seq(Bytes)]]
    BY <1>1, <1>2
  <1>4. PICK z \in Seq(Bytes) : z = <<>>
    BY EmptySeq
  <1>5. PICK f \in [0 .. N -> Seq(Bytes)] : Iterates(f, z, g, N)
    BY <1>0, <1>3, IteratesExist
  <1>6. f[0] = <<>> /\ \A k \in 1 .. N : f[k] = Combine(f[k - 1], Entry(files[k]))
    <2>0. \A k \in 1 .. N : k - 1 \in 0 .. N
      BY <1>0
    <2>1. \A k \in 1 .. N : f[k] = g[k][f[k - 1]] /\ f[k - 1] \in Seq(Bytes)
      BY <1>5, <2>0 DEF Iterates
    <2> QED
      BY <1>1, <1>4, <1>5, <2>1 DEF Iterates
  <1>7. \A k \in 0 .. N : f[k] = BuildStep(f, files, k)
    BY <1>0, <1>6 DEF BuildStep
  <1>8. Build(f, files)
    BY <1>5, <1>7 DEF Build
  <1>9. PICK h : h = CHOOSE out : Build(out, files)
    OBVIOUS
  <1>10. Build(h, files)
    BY <1>8, <1>9
  <1>11. /\ h[0] = <<>>
         /\ \A k \in 1 .. N : h[k] = Combine(h[k - 1], Entry(files[k]))
    <2>1. \A k \in 0 .. N : h[k] = BuildStep(h, files, k)
      BY <1>10 DEF Build
    <2> QED
      BY <1>0, <2>1 DEF BuildStep
  <1>12. h = [k \in 0 .. N |-> h[k]]
    BY <1>10 DEF Build
  <1>13. \A k \in 0 .. N : h[k] \in Seq(Bytes)
    <2> DEFINE T == {k \in 0 .. N : h[k] \in Seq(Bytes)}
    <2>1. 0 \in T
      <3>1. h[0] \in Seq(Bytes) /\ 0 \in 0 .. N
        BY <1>0, <1>4, <1>11
      <3> QED
        BY <3>1
    <2>2. ASSUME NEW k \in 1 .. N, k - 1 \in T PROVE k \in T
      <3>1. h[k - 1] \in Seq(Bytes) /\ h[k] = Combine(h[k - 1], Entry(files[k]))
        BY <1>11, <2>2
      <3>2. h[k] \in Seq(Bytes)
        BY <1>2, <3>1
      <3> QED
        BY <1>0, <3>2
    <2>3. 0 .. N \subseteq T
      <3> HIDE DEF T, N
      <3> QED
        BY <1>0, <2>1, <2>2, UpTo
    <2> QED
      BY <2>3
  <1>14. h \in [0 .. N -> Seq(Bytes)]
    BY <1>12, <1>13
  <1>15. Archive(files) = h[N]
    <2>1. Archive(files) = (CHOOSE out : Build(out, files))[N]
      BY DEF Archive, Build, BuildStep
    <2> QED
      BY <1>9, <2>1
  <1> QED
    BY <1>11, <1>14, <1>15 DEF Builds

LEMMA ArchiveLength ==
  ASSUME NEW files \in Seq(NamedData), \A n \in 1 .. Len(files) : Storable(files[n])
  PROVE  Len(Archive(files)) \in Nat
  <1>1. PICK out : Builds(out, files) /\ Archive(files) = out[Len(files)]
    BY ArchiveIs
  <1>2. Len(files) \in 0 .. Len(files)
    OBVIOUS
  <1>3. Archive(files) \in Seq(Bytes)
    BY <1>1, <1>2 DEF Builds
  <1> QED
    BY <1>3

\* The first files of an archive are an archive.
LEMMA ArchiveOfFirst ==
  ASSUME NEW files \in Seq(NamedData), \A n \in 1 .. Len(files) : Storable(files[n]),
         NEW out, Builds(out, files), NEW m \in 0 .. Len(files)
  PROVE  Archive(SubSeq(files, 1, m)) = out[m]
  <1>0. Len(files) \in Nat
    OBVIOUS
  <1>1. PICK first \in Seq(NamedData) :
          /\ first = SubSeq(files, 1, m) /\ Len(first) = m
          /\ \A n \in 1 .. m : first[n] = files[n]
    BY FirstIs
  <1>2. PICK o : Builds(o, first) /\ Archive(first) = o[m]
    <2>1. \A n \in 1 .. m : n \in 1 .. Len(files)
      BY <1>0
    <2>2. \A n \in 1 .. Len(first) : Storable(first[n])
      BY <1>1, <2>1
    <2> QED
      BY <1>1, <2>2, ArchiveIs
  <1>3. 0 .. m \subseteq {n \in 0 .. m : o[n] = out[n]}
    <2> DEFINE T == {n \in 0 .. m : o[n] = out[n]}
    <2>1. 0 \in T
      BY <1>2 DEF Builds
    <2>2. ASSUME NEW n \in 1 .. m, n - 1 \in T PROVE n \in T
      <3>1. n \in 1 .. Len(files) /\ n \in 0 .. m
        BY <1>0
      <3>2. o[n] = Combine(o[n - 1], Entry(first[n])) /\ out[n] = Combine(out[n - 1], Entry(files[n]))
        BY <1>1, <1>2, <3>1 DEF Builds
      <3> QED
        BY <1>1, <2>2, <3>1, <3>2
    <2>3. 0 .. m \subseteq T
      <3> HIDE DEF T
      <3>1. m \in Nat
        BY <1>0
      <3> QED
        BY <2>1, <2>2, <3>1, UpTo
    <2> QED
      BY <2>3
  <1>4. m \in 0 .. m
    BY <1>0
  <1> QED
    BY <1>1, <1>2, <1>3, <1>4

\* An archive begins with those of its first files.
LEMMA ArchiveGrows ==
  ASSUME NEW files \in Seq(NamedData), \A n \in 1 .. Len(files) : Storable(files[n]),
         NEW out, Builds(out, files), NEW n \in 1 .. Len(files)
  PROVE  /\ out[n - 1] \in Seq(Bytes) /\ out[n] \in Seq(Bytes)
         /\ Entry(files[n]) \in Seq(Bytes) /\ Len(Entry(files[n])) < Capacity
         /\ Len(out[n]) = Len(out[n - 1]) + LengthBytes + Len(Entry(files[n]))
         /\ \A x \in 1 .. Len(out[n - 1]) : out[n][x] = out[n - 1][x]
         /\ GoesOn(out[n], Len(out[n - 1]), Entry(files[n]))
  <1>1. Len(files) \in Nat /\ n - 1 \in 0 .. Len(files)
    OBVIOUS
  <1>2. PICK r \in Seq(Bytes) : r = out[n - 1] /\ out[n] = Combine(r, Entry(files[n]))
    BY <1>1 DEF Builds
  <1>3. PICK e \in Seq(Bytes) : e = Entry(files[n]) /\ Len(e) < Capacity
    BY EntryIs DEF Storable
  <1>4. PICK c \in Seq(Bytes) :
          /\ c = Combine(r, e) /\ Len(c) = Len(r) + LengthBytes + Len(e)
          /\ \A x \in 1 .. Len(r) : c[x] = r[x]
          /\ GoesOn(c, Len(r), e)
    BY <1>3, CombineIs, CombineGoesOn
  <1> QED
    BY <1>2, <1>3, <1>4

LEMMA ArchiveBegins ==
  ASSUME NEW files \in Seq(NamedData), \A n \in 1 .. Len(files) : Storable(files[n]),
         NEW out, Builds(out, files), NEW m \in 0 .. Len(files), NEW n \in m .. Len(files)
  PROVE  /\ Len(out[m]) \in Nat /\ Len(out[n]) \in Nat
         /\ Len(out[m]) <= Len(out[n]) /\ \A x \in 1 .. Len(out[m]) : out[n][x] = out[m][x]
  <1>0. Len(files) \in Nat
    OBVIOUS
  <1>1. \A k \in 0 .. Len(files) : out[k] \in Seq(Bytes) /\ Len(out[k]) \in Nat
    <2>1. \A k \in 0 .. Len(files) : out[k] \in Seq(Bytes)
      BY DEF Builds
    <2> QED
      BY <2>1
  <1> DEFINE From(k) == /\ Len(out[m]) <= Len(out[k])
                        /\ \A x \in 1 .. Len(out[m]) : out[k][x] = out[m][x]
             T == {k \in 0 .. Len(files) : m <= k => From(k)}
  <1>2. 0 \in T
    <2>1. m <= 0 => m = 0
      OBVIOUS
    <2>2. From(m)
      BY <1>1
    <2> QED
      BY <1>0, <2>1, <2>2
  <1>3. ASSUME NEW k \in 1 .. Len(files), k - 1 \in T PROVE k \in T
    <2>1. SUFFICES ASSUME m <= k PROVE From(k)
      BY <1>0
    <2>2. CASE m = k
      BY <1>1, <2>2
    <2>3. CASE m # k
      <3>1. m <= k - 1 /\ k - 1 \in 0 .. Len(files)
        BY <1>0, <2>1, <2>3
      <3>2. From(k - 1)
        BY <1>3, <3>1
      <3>3. /\ Len(out[k]) = Len(out[k - 1]) + LengthBytes + Len(Entry(files[k]))
            /\ \A x \in 1 .. Len(out[k - 1]) : out[k][x] = out[k - 1][x]
            /\ Entry(files[k]) \in Seq(Bytes)
        BY ArchiveGrows
      <3>4. Len(out[k - 1]) <= Len(out[k])
        <4>1. LengthBytes \in Nat /\ Len(Entry(files[k])) \in Nat /\ Len(out[k - 1]) \in Nat
          BY <1>1, <3>1, <3>3, CodecsAssumption
        <4>2. PICK a \in Nat, l \in Nat, e \in Nat :
                a = Len(out[k - 1]) /\ l = LengthBytes /\ e = Len(Entry(files[k]))
          BY <4>1
        <4>3. Len(out[k]) = a + l + e
          BY <3>3, <4>2
        <4>4. a <= a + l + e
          OBVIOUS
        <4> QED
          BY <4>2, <4>3, <4>4
      <3>5. Len(out[m]) \in Nat /\ Len(out[k - 1]) \in Nat /\ Len(out[k]) \in Nat
        BY <1>0, <1>1, <3>1
      <3>6. \A x \in 1 .. Len(out[m]) : x \in 1 .. Len(out[k - 1])
        BY <3>2, <3>5
      <3> QED
        BY <3>2, <3>3, <3>4, <3>5, <3>6
    <2> QED
      BY <2>2, <2>3
  <1>4. 0 .. Len(files) \subseteq T
    <2> HIDE DEF T
    <2> QED
      BY <1>0, <1>2, <1>3, UpTo
  <1>5. n \in T /\ m <= n
    BY <1>0, <1>4
  <1> QED
    BY <1>0, <1>1, <1>5

\* The cut b of an archive holds its arrays where the archive does.
LEMMA CutGoesOn ==
  ASSUME NEW files \in Seq(NamedData), \A n \in 1 .. Len(files) : Storable(files[n]),
         NEW out, Builds(out, files), NEW cut \in 0 .. Len(out[Len(files)]),
         NEW n \in 1 .. Len(files)
  PROVE  GoesOn(SubSeq(out[Len(files)], 1, cut), Len(out[n - 1]), Entry(files[n]))
  <1> DEFINE N == Len(files)
  <1>0. N \in Nat /\ n - 1 \in 0 .. N /\ N \in n .. N /\ n \in 0 .. N /\ N \in 0 .. N
    OBVIOUS
  <1>1. PICK c \in Seq(Bytes) : c = out[N]
    BY <1>0 DEF Builds
  <1>2. PICK b \in Seq(Bytes) : /\ b = SubSeq(out[N], 1, cut) /\ Len(b) = cut
                                /\ \A x \in 1 .. cut : b[x] = c[x]
    <2>1. cut \in 0 .. Len(c)
      BY <1>1
    <2>2. /\ SubSeq(c, 1, cut) \in Seq(Bytes) /\ Len(SubSeq(c, 1, cut)) = cut
          /\ \A x \in 1 .. cut : SubSeq(c, 1, cut)[x] = c[x]
      BY <2>1, FirstIs
    <2> QED
      BY <1>1, <2>2
  <1>3. PICK a \in Seq(Bytes), e \in Seq(Bytes), i \in Nat :
          /\ a = out[n] /\ e = Entry(files[n]) /\ i = Len(out[n - 1])
          /\ Len(a) = i + LengthBytes + Len(e) /\ GoesOn(a, i, e)
    <2>1. /\ out[n - 1] \in Seq(Bytes) /\ out[n] \in Seq(Bytes)
          /\ Entry(files[n]) \in Seq(Bytes)
          /\ Len(out[n]) = Len(out[n - 1]) + LengthBytes + Len(Entry(files[n]))
          /\ GoesOn(out[n], Len(out[n - 1]), Entry(files[n]))
      BY ArchiveGrows
    <2>2. Len(out[n - 1]) \in Nat
      BY <2>1
    <2> QED
      BY <2>1, <2>2
  <1>4. /\ Len(a) \in Nat /\ Len(c) \in Nat
        /\ Len(a) <= Len(c) /\ \A x \in 1 .. Len(a) : c[x] = a[x]
    <2>1. /\ Len(out[n]) \in Nat /\ Len(out[N]) \in Nat
          /\ Len(out[n]) <= Len(out[N]) /\ \A x \in 1 .. Len(out[n]) : out[N][x] = out[n][x]
      BY <1>0, ArchiveBegins
    <2> QED
      BY <1>1, <1>3, <2>1
  <1>5. \A x \in 1 .. Len(b) : x <= i + LengthBytes + Len(e) => x <= Len(a) /\ b[x] = a[x]
    <2> TAKE x \in 1 .. Len(b)
    <2> HAVE x <= i + LengthBytes + Len(e)
    <2>1. x <= Len(a)
      BY <1>3
    <2>2. x \in 1 .. Len(a) /\ x \in 1 .. cut
      BY <1>2, <1>4, <2>1
    <2> QED
      BY <1>2, <1>4, <2>1, <2>2
  <1>6. GoesOn(b, i, e)
    BY <1>3, <1>5, GoesOnAlike
  <1> QED
    BY <1>2, <1>3, <1>6

\* How many files lie before the cut.
LEMMA WholeFiles ==
  ASSUME NEW files \in Seq(NamedData), \A n \in 1 .. Len(files) : Storable(files[n]),
         NEW out, Builds(out, files), NEW cut \in 0 .. Len(out[Len(files)])
  PROVE  \E w \in 0 .. Len(files) :
            /\ Len(out[w]) <= cut
            /\ w < Len(files) => cut < Len(out[w + 1])
            /\ w = Cardinality({n \in 1 .. Len(files) :
                                  Len(Archive(SubSeq(files, 1, n))) <= cut})
  <1> DEFINE N == Len(files)
             Behind == {n \in 1 .. N : cut < Len(out[n])}
  <1>0. N \in Nat
    OBVIOUS
  <1>1. \A n \in 0 .. N : Len(out[n]) \in Nat
    <2> TAKE n \in 0 .. N
    <2>1. n \in n .. N
      BY <1>0
    <2> QED
      BY <2>1, ArchiveBegins
  <1>2. Len(out[0]) = 0 /\ cut \in Nat
    <2>1. cut \in Nat
      BY <1>0, <1>1
    <2>2. Len(out[0]) = 0
      BY EmptySeq DEF Builds
    <2> QED
      BY <2>1, <2>2
  <1>3. PICK w \in 0 .. N : Len(out[w]) <= cut /\ (w < N => cut < Len(out[w + 1]))
    <2>1. CASE Behind = {}
      <3>1. Len(out[N]) <= cut
        <4>1. CASE N = 0
          BY <1>2, <4>1
        <4>2. CASE N # 0
          <5>1. N \in 1 .. N /\ N \notin Behind
            BY <1>0, <2>1, <4>2
          <5> QED
            BY <1>0, <1>1, <1>2, <5>1
        <4> QED
          BY <4>1, <4>2
      <3> QED
        BY <1>0, <3>1
    <2>2. CASE Behind # {}
      <3>1. Behind \subseteq Nat
        BY <1>0
      <3>2. PICK n \in Behind : \A m \in Behind : n <= m
        <4> HIDE DEF Behind
        <4> QED
          BY <2>2, <3>1, Least
      <3>3. n \in 1 .. N /\ cut < Len(out[n]) /\ n - 1 \in 0 .. N /\ (n - 1) + 1 = n
        BY <1>0, <3>2
      <3>4. Len(out[n - 1]) <= cut
        <4>1. CASE n = 1
          BY <1>2, <4>1
        <4>2. CASE n # 1
          <5>1. n - 1 \in 1 .. N /\ ~(n <= n - 1)
            BY <1>0, <3>3, <4>2
          <5>2. n - 1 \notin Behind
            BY <3>2, <5>1
          <5> QED
            BY <1>1, <1>2, <3>3, <5>1, <5>2
        <4> QED
          BY <4>1, <4>2
      <3> QED
        BY <3>3, <3>4
    <2> QED
      BY <2>1, <2>2
  <1>4. {n \in 1 .. N : Len(Archive(SubSeq(files, 1, n))) <= cut} = 1 .. w
    <2>1. ASSUME NEW n \in 1 .. N
          PROVE  Len(Archive(SubSeq(files, 1, n))) <= cut <=> n <= w
      <3>1. n \in 0 .. N /\ N \in n .. N
        BY <1>0
      <3>2. Archive(SubSeq(files, 1, n)) = out[n]
        BY <3>1, ArchiveOfFirst
      <3>3. CASE n <= w
        <4>1. w \in n .. N
          BY <1>0, <3>3
        <4>2. Len(out[n]) <= Len(out[w])
          BY <3>1, <4>1, ArchiveBegins
        <4>3. Len(out[n]) <= cut
          <5>1. Len(out[n]) \in Nat /\ Len(out[w]) \in Nat
            BY <1>1, <3>1
          <5> QED
            BY <1>2, <1>3, <4>2, <5>1
        <4> QED
          BY <3>2, <3>3, <4>3
      <3>4. CASE ~(n <= w)
        <4>1. w < N /\ w + 1 \in 0 .. N /\ n \in w + 1 .. N
          BY <1>0, <3>4
        <4>2. Len(out[w + 1]) <= Len(out[n])
          BY <4>1, ArchiveBegins
        <4>3. ~(Len(out[n]) <= cut)
          <5>1. Len(out[n]) \in Nat /\ Len(out[w + 1]) \in Nat
            BY <1>1, <3>1, <4>1
          <5>2. cut < Len(out[w + 1])
            BY <1>3, <4>1
          <5> QED
            BY <1>2, <4>2, <5>1, <5>2
        <4> QED
          BY <3>2, <3>4, <4>3
      <3> QED
        BY <3>3, <3>4
    <2>2. 1 .. w \subseteq 1 .. N
      BY <1>0
    <2> QED
      BY <1>0, <2>1, <2>2
  <1>5. Cardinality(1 .. w) = w
    <2>1. Cardinality(1 .. w) = IF 1 > w THEN 0 ELSE w - 1 + 1
      BY <1>0, FS_Interval
    <2> QED
      BY <1>0, <2>1
  <1>6. w = Cardinality({n \in 1 .. N : Len(Archive(SubSeq(files, 1, n))) <= cut})
    BY <1>4, <1>5
  <1> QED
    BY <1>3, <1>6

\* The file whose entry is at i.
FileAt(b, i) ==
  LET entry == Divide(b, i).part
      path  == Divide(entry, 0)
  IN  [path |-> path.part, data |-> Divide(entry, path.index).part]

ReadStep(h, b, i) ==
  IF Divide(b, i).part = <<>> THEN <<>> ELSE <<FileAt(b, i)>> \o h[Divide(b, i).index]
Reads(h, b) == h = [i \in 0 .. Len(b) |-> ReadStep(h, b, i)]

LEMMA ExtractIs ==
  ASSUME NEW b \in Seq(Bytes)
  PROVE  \E h : Reads(h, b) /\ Extract(b) = h[0]
  <1> DEFINE S == Seq(NamedData)
             n == Len(b)
             E == {i \in 0 .. n : Divide(b, i).part = <<>>}
             a == [i \in E |-> <<>>]
             next == [i \in 0 .. n \ E |-> Divide(b, i).index]
             g == [i \in 0 .. n \ E |-> [x \in S |-> <<FileAt(b, i)>> \o x]]
  <1>0. n \in Nat
    OBVIOUS
  <1>1. \A i \in 0 .. n : /\ Divide(b, i).part \in Seq(Bytes)
                          /\ Divide(b, i).index \in 0 .. n
                          /\ Divide(b, i).part # <<>> => i < Divide(b, i).index
    BY DivideIs
  <1>2. a \in [E -> S]
    <2>1. <<>> \in S
      BY EmptySeq
    <2> QED
      BY <2>1
  <1>3. next \in [0 .. n \ E -> 0 .. n] /\ \A i \in 0 .. n \ E : i < next[i]
    BY <1>1
  <1>4. ASSUME NEW i \in 0 .. n PROVE FileAt(b, i) \in NamedData
    <2>1. PICK e \in Seq(Bytes) : e = Divide(b, i).part
      BY <1>1
    <2>2. 0 \in 0 .. Len(e)
      OBVIOUS
    <2>3. Divide(e, 0).part \in Seq(Bytes) /\ Divide(e, 0).index \in 0 .. Len(e)
      BY <2>2, DivideIs
    <2>4. Divide(e, Divide(e, 0).index).part \in Seq(Bytes)
      BY <2>3, DivideIs
    <2>5. FileAt(b, i) = [path |-> Divide(e, 0).part,
                          data |-> Divide(e, Divide(e, 0).index).part]
      BY <2>1 DEF FileAt
    <2> QED
      BY <2>3, <2>4, <2>5 DEF NamedData
  <1>5. g \in [0 .. n \ E -> [S -> S]]
    <2>1. ASSUME NEW i \in 0 .. n \ E, NEW x \in S PROVE <<FileAt(b, i)>> \o x \in S
      <3>1. PICK f \in NamedData : f = FileAt(b, i)
        BY <1>4
      <3>2. <<f>> \in Seq(NamedData)
        OBVIOUS
      <3>3. <<f>> \o x \in Seq(NamedData)
        BY <3>2, ConcatIs
      <3> QED
        BY <3>1, <3>3
    <2> QED
      BY <2>1
  <1>6. PICK f \in [0 .. n -> S] : Descends(f, n, E, a, next, g)
    <2> HIDE DEF S, n, a, next, g, E
    <2>1. E \in SUBSET (0 .. n)
      BY DEF E
    <2> QED
      BY <1>0, <1>2, <1>3, <1>5, <2>1, DescentExists
  <1>7. ASSUME NEW i \in 0 .. n PROVE f[i] = ReadStep(f, b, i)
    <2>1. f[i] = IF i \in E THEN a[i] ELSE g[i][f[next[i]]]
      BY <1>6 DEF Descends
    <2>2. CASE i \in E
      <3>1. f[i] = <<>> /\ Divide(b, i).part = <<>>
        BY <2>1, <2>2
      <3> QED
        BY <3>1 DEF ReadStep
    <2>3. CASE i \notin E
      <3>1. i \in 0 .. n \ E /\ next[i] \in 0 .. n /\ Divide(b, i).part # <<>>
        BY <1>3, <2>3
      <3>2. f[next[i]] \in S
        BY <1>6, <3>1
      <3>3. g[i][f[next[i]]] = <<FileAt(b, i)>> \o f[next[i]]
        BY <3>1, <3>2
      <3>4. f[i] = <<FileAt(b, i)>> \o f[Divide(b, i).index]
        BY <2>1, <2>3, <3>1, <3>3
      <3> QED
        BY <3>1, <3>4 DEF ReadStep
    <2> QED
      BY <2>2, <2>3
  <1>8. Reads(f, b)
    BY <1>6, <1>7 DEF Reads
  <1>9. PICK h : h = CHOOSE q : Reads(q, b)
    OBVIOUS
  <1>10. Reads(h, b)
    BY <1>8, <1>9
  <1>11. Extract(b) = h[0]
    <2>1. Extract(b) = (CHOOSE q : Reads(q, b))[0]
      BY DEF Extract, Reads, ReadStep, FileAt
    <2> QED
      BY <1>9, <2>1
  <1> QED
    BY <1>10, <1>11

\* What an archive gives back, cut anywhere.
LEMMA KeepsPrefixIs ==
  ASSUME NEW files \in Seq(NamedData), \A n \in 1 .. Len(files) : Storable(files[n]),
         NEW cut \in 0 .. Len(Archive(files))
  PROVE  KeepsPrefix(files, cut)
  <1> DEFINE N == Len(files)
  <1>0. N \in Nat /\ LengthBytes \in Nat /\ LengthBytes > 0
    BY CodecsAssumption
  <1>1. PICK out : Builds(out, files) /\ Archive(files) = out[N]
    BY ArchiveIs
  <1>2. PICK w \in 0 .. N :
          /\ Len(out[w]) <= cut
          /\ (w < N => cut < Len(out[w + 1]))
          /\ w = Cardinality({n \in 1 .. N : Len(Archive(SubSeq(files, 1, n))) <= cut})
    BY <1>1, WholeFiles
  <1>3. PICK b \in Seq(Bytes) : b = SubSeq(out[N], 1, cut) /\ Len(b) = cut
    <2>1. out[N] \in Seq(Bytes)
      BY <1>0, <1>1 DEF Builds
    <2> QED
      BY <1>1, <2>1, FirstIs
  <1>4. PICK h : Reads(h, b) /\ Extract(b) = h[0]
    BY ExtractIs
  <1>5. \A n \in 0 .. w : Len(out[n]) \in Nat /\ Len(out[n]) <= cut /\ Len(out[n]) \in 0 .. Len(b)
    <2> TAKE n \in 0 .. w
    <2>1. n \in 0 .. N /\ w \in n .. N
      BY <1>0
    <2>2. Len(out[n]) \in Nat /\ Len(out[w]) \in Nat /\ Len(out[n]) <= Len(out[w])
      BY <1>1, <2>1, ArchiveBegins
    <2>3. Len(out[n]) <= cut
      <3>1. cut \in Int
        OBVIOUS
      <3> QED
        BY <1>2, <2>2, <3>1
    <2> QED
      BY <1>3, <2>2, <2>3
  <1> DEFINE T == {k \in 0 .. w : h[Len(out[k])] = SubSeq(files, k + 1, w)}
  <1>6. w \in T
    <2>1. w \in 0 .. w /\ Len(out[w]) \in Nat /\ Len(out[w]) \in 0 .. Len(b)
      BY <1>0, <1>5
    <2>2. Divide(b, Len(out[w])).part = <<>>
      <3>1. CASE w < N
        <4>1. w + 1 \in 1 .. N /\ (w + 1) - 1 = w
          BY <1>0, <3>1
        <4>2. PICK e \in Seq(Bytes), i \in Nat :
                /\ e = Entry(files[w + 1]) /\ i = Len(out[w]) /\ Len(e) < Capacity
                /\ Len(out[w + 1]) = i + LengthBytes + Len(e)
                /\ GoesOn(b, i, e)
          <5>1. PICK n \in 1 .. N : n = w + 1 /\ n - 1 = w
            BY <4>1
          <5>2. /\ out[n - 1] \in Seq(Bytes) /\ Entry(files[n]) \in Seq(Bytes)
             /\ Len(Entry(files[n])) < Capacity
             /\ Len(out[n]) = Len(out[n - 1]) + LengthBytes + Len(Entry(files[n]))
            BY <1>1, ArchiveGrows
          <5>3. GoesOn(SubSeq(out[N], 1, cut), Len(out[n - 1]), Entry(files[n]))
            BY <1>1, CutGoesOn
          <5>4. Len(out[n - 1]) \in Nat
            BY <5>2
          <5> QED
            BY <1>3, <5>1, <5>2, <5>3, <5>4
        <4>3. Len(b) < i + LengthBytes + Len(e)
          BY <1>2, <1>3, <3>1, <4>2
        <4>4. Divide(b, i).part = <<>>
          BY <4>2, <4>3, DivideCut
        <4> QED
          BY <4>2, <4>4
      <3>2. CASE ~(w < N)
        <4>1. w = N
          BY <1>0, <3>2
        <4>2. Len(b) < Len(out[w]) + LengthBytes
          <5>1. cut <= Len(out[w])
            BY <1>1, <4>1
          <5> QED
            BY <1>0, <1>3, <2>1, <5>1
        <4>3. Divide(b, Len(out[w])) = [part |-> <<>>, index |-> Len(out[w])]
          BY <4>2, Zenon DEF Divide
        <4> QED
          BY <4>3
      <3> QED
        BY <3>1, <3>2
    <2>3. h[Len(out[w])] = <<>>
      <3>1. h[Len(out[w])] = ReadStep(h, b, Len(out[w]))
        BY <1>4, <2>1 DEF Reads
      <3> QED
        BY <2>2, <3>1 DEF ReadStep
    <2>4. SubSeq(files, w + 1, w) = <<>>
      BY <1>0, SubSeqEmpty
    <2> QED
      BY <2>1, <2>3, <2>4
  <1>7. ASSUME NEW k \in 0 .. w, k # w, k + 1 \in T PROVE k \in T
    <2>1. /\ k + 1 \in 1 .. N /\ (k + 1) - 1 = k /\ k + 1 \in 0 .. w
          /\ w \in k + 1 .. N /\ (k + 1) + 1 = k + 2
      BY <1>0, <1>7
    <2>2. PICK e \in Seq(Bytes), i \in Nat :
            /\ e = Entry(files[k + 1]) /\ i = Len(out[k]) /\ Len(e) < Capacity
            /\ Len(out[k + 1]) = i + LengthBytes + Len(e)
            /\ GoesOn(b, i, e)
      <3>1. PICK n \in 1 .. N : n = k + 1 /\ n - 1 = k
        BY <2>1
      <3>2. /\ out[n - 1] \in Seq(Bytes) /\ Entry(files[n]) \in Seq(Bytes)
         /\ Len(Entry(files[n])) < Capacity
         /\ Len(out[n]) = Len(out[n - 1]) + LengthBytes + Len(Entry(files[n]))
        BY <1>1, ArchiveGrows
      <3>3. GoesOn(SubSeq(out[N], 1, cut), Len(out[n - 1]), Entry(files[n]))
        BY <1>1, CutGoesOn
      <3>4. Len(out[n - 1]) \in Nat
        BY <3>2
      <3> QED
        BY <1>3, <3>1, <3>2, <3>3, <3>4
    <2>3. i + LengthBytes + Len(e) <= Len(b)
      BY <1>3, <1>5, <2>1, <2>2
    <2>4. Divide(b, i) = [part |-> e, index |-> Len(out[k + 1])]
      <3>1. Divide(b, i) = [part |-> e, index |-> i + LengthBytes + Len(e)]
        BY <2>2, <2>3, DivideWhole
      <3> QED
        BY <2>2, <3>1
    <2>5. PICK file \in NamedData : file = files[k + 1] /\ Storable(file)
      BY <2>1
    <2>6. e # <<>> /\ FileAt(b, i) = file
      <3>1. /\ e # <<>> /\ Divide(e, 0) = [part |-> file.path, index |-> LengthBytes + Len(file.path)]
            /\ Divide(e, LengthBytes + Len(file.path)).part = file.data
        BY <2>2, <2>5, EntryIs
      <3>2. FileAt(b, i) = [path |-> file.path, data |-> file.data]
        BY <2>4, <3>1 DEF FileAt
      <3> QED
        BY <3>1, <3>2 DEF NamedData
    <2>7. h[i] = <<file>> \o h[Len(out[k + 1])]
      <3>1. h[i] = ReadStep(h, b, i)
        BY <1>4, <1>5, <2>2 DEF Reads
      <3>2. Divide(b, i).part = e /\ Divide(b, i).index = Len(out[k + 1])
        BY <2>4
      <3> QED
        BY <2>6, <3>1, <3>2, Zenon DEF ReadStep
    <2>8. h[Len(out[k + 1])] = SubSeq(files, k + 2, w)
      BY <1>7, <2>1
    <2>9. SubSeq(files, k + 1, w) = <<files[k + 1]>> \o SubSeq(files, k + 2, w)
      BY <2>1, SubSeqRecursiveFirst
    <2> QED
      BY <2>2, <2>5, <2>7, <2>8, <2>9
  <1>8. 0 .. w \subseteq T
    <2>1. ASSUME NEW k \in 0 .. w, k + 1 .. w \subseteq T PROVE k \in T
      <3>1. k # w => k + 1 \in k + 1 .. w
        BY <1>0
      <3> HIDE DEF T
      <3> QED
        BY <1>6, <1>7, <2>1, <3>1
    <2> HIDE DEF T
    <2>2. w \in Nat
      BY <1>0
    <2> QED
      BY <2>1, <2>2, DownFrom
  <1>9. Extract(b) = SubSeq(files, 1, w)
    <2>1. 0 \in T /\ Len(out[0]) = 0
      <3>1. Len(out[0]) = 0
        BY <1>1, EmptySeq DEF Builds
      <3>2. 0 \in 0 .. w
        BY <1>0
      <3> QED
        BY <1>8, <3>1, <3>2
    <2> QED
      BY <1>4, <2>1
  <1> QED
    BY <1>1, <1>2, <1>3, <1>9 DEF KeepsPrefix

-----------------------------------------------------------------------------
(* Sequences of sequences.                                                 *)

FlatStep(q, s, i) == IF i = 1 THEN s[i] ELSE q[i - 1] \o s[i]
Flattens(q, s) == q = [i \in 1 .. Len(s) |-> FlatStep(q, s, i)]

LEMMA FlattenIs ==
  ASSUME NEW X, NEW s \in Seq(Seq(X)), s # <<>>
  PROVE  \E q \in [1 .. Len(s) -> Seq(X)] :
            /\ q[1] = s[1] /\ \A i \in 2 .. Len(s) : q[i] = q[i - 1] \o s[i]
            /\ FlattenSeq(s) = q[Len(s)]
  <1>0. Len(s) \in Nat /\ Len(s) # 0 /\ \A i \in 1 .. Len(s) : s[i] \in Seq(X)
    BY EmptySeq
  <1>1. PICK e \in Seq(X) : e = <<>>
    BY EmptySeq
  <1> DEFINE g == [k \in 1 .. Len(s) |-> [x \in Seq(X) |-> x \o s[k]]]
  <1>2. g \in [1 .. Len(s) -> [Seq(X) -> Seq(X)]]
    <2>1. ASSUME NEW k \in 1 .. Len(s), NEW x \in Seq(X) PROVE x \o s[k] \in Seq(X)
      BY <1>0, ConcatIs
    <2> QED
      BY <2>1
  <1>3. PICK f \in [0 .. Len(s) -> Seq(X)] : Iterates(f, e, g, Len(s))
    <2> HIDE DEF g
    <2> QED
      BY <1>0, <1>2, IteratesExist
  <1>4. \A k \in 1 .. Len(s) : k - 1 \in 0 .. Len(s) /\ f[k] = f[k - 1] \o s[k]
    <2>1. \A k \in 1 .. Len(s) : k - 1 \in 0 .. Len(s)
      BY <1>0
    <2> QED
      BY <1>3, <2>1 DEF Iterates
  <1>5. f[1] = s[1]
    <2>1. 1 \in 1 .. Len(s) /\ 1 - 1 = 0 /\ s[1] \in Seq(X)
      BY <1>0
    <2>2. f[1] = e \o s[1]
      BY <1>3, <1>4, <2>1 DEF Iterates
    <2> QED
      BY <1>1, <2>1, <2>2, ConcatEmptySeq
  <1> DEFINE p == [k \in 1 .. Len(s) |-> f[k]]
  <1>6. /\ p \in [1 .. Len(s) -> Seq(X)] /\ p[1] = s[1]
        /\ \A i \in 2 .. Len(s) : p[i] = p[i - 1] \o s[i]
    <2>1. \A k \in 1 .. Len(s) : k \in 0 .. Len(s) /\ p[k] = f[k]
      BY <1>0
    <2>2. \A i \in 2 .. Len(s) : i \in 1 .. Len(s) /\ i - 1 \in 1 .. Len(s)
      BY <1>0
    <2>3. 1 \in 1 .. Len(s) /\ p \in [1 .. Len(s) -> Seq(X)]
      BY <1>0, <1>3, <2>1
    <2> HIDE DEF p
    <2> QED
      BY <1>4, <1>5, <2>1, <2>2, <2>3
  <1>7. Flattens(p, s)
    <2> HIDE DEF p
    <2>1. \A i \in 1 .. Len(s) : i = 1 \/ i \in 2 .. Len(s)
      BY <1>0
    <2>2. \A i \in 1 .. Len(s) : p[i] = FlatStep(p, s, i)
      BY <1>6, <2>1 DEF FlatStep
    <2> QED
      BY <1>6, <2>2 DEF Flattens
  <1>8. PICK q : q = CHOOSE h : Flattens(h, s)
    OBVIOUS
  <1>9. Flattens(q, s)
    <2> HIDE DEF p
    <2> QED
      BY <1>7, <1>8
  <1>10. /\ q = [i \in 1 .. Len(s) |-> q[i]] /\ q[1] = s[1]
         /\ \A i \in 2 .. Len(s) : q[i] = q[i - 1] \o s[i]
    <2>1. \A i \in 1 .. Len(s) : q[i] = FlatStep(q, s, i)
      BY <1>9 DEF Flattens
    <2>2. 1 \in 1 .. Len(s) /\ \A i \in 2 .. Len(s) : i \in 1 .. Len(s) /\ i # 1
      BY <1>0
    <2>3. q = [i \in 1 .. Len(s) |-> q[i]]
      BY <1>9 DEF Flattens
    <2> QED
      BY <2>1, <2>2, <2>3 DEF FlatStep
  <1>11. q \in [1 .. Len(s) -> Seq(X)]
    <2> DEFINE T == {i \in 0 .. Len(s) : i # 0 => q[i] \in Seq(X)}
    <2>1. 0 \in T
      BY <1>0
    <2>2. ASSUME NEW i \in 1 .. Len(s), i - 1 \in T PROVE i \in T
      <3>1. CASE i = 1
        BY <1>0, <1>10, <3>1
      <3>2. CASE i # 1
        <4>1. i \in 2 .. Len(s) /\ i - 1 # 0
          BY <1>0, <3>2
        <4>2. q[i] = q[i - 1] \o s[i] /\ q[i - 1] \in Seq(X) /\ s[i] \in Seq(X)
          BY <1>0, <1>10, <2>2, <4>1
        <4>3. q[i] \in Seq(X)
          BY <4>2, ConcatIs
        <4> QED
          BY <1>0, <4>3
      <3> QED
        BY <3>1, <3>2
    <2>3. 0 .. Len(s) \subseteq T
      <3> HIDE DEF T
      <3> QED
        BY <1>0, <2>1, <2>2, UpTo
    <2>4. \A i \in 1 .. Len(s) : q[i] \in Seq(X)
      <3> TAKE i \in 1 .. Len(s)
      <3>1. i \in 0 .. Len(s) /\ i # 0
        BY <1>0
      <3>2. i \in T
        <4> HIDE DEF T
        <4> QED
          BY <2>3, <3>1
      <3> QED
        BY <3>1, <3>2
    <2> QED
      BY <1>10, <2>4
  <1>12. FlattenSeq(s) = q[Len(s)]
    <2>1. FlattenSeq(s) = (CHOOSE h : Flattens(h, s))[Len(s)]
      BY <1>0 DEF FlattenSeq, Flattens, FlatStep
    <2> QED
      BY <1>8, <2>1
  <1> QED
    BY <1>10, <1>11, <1>12

LEMMA FlattenEmpty == FlattenSeq(<<>>) = <<>>
  BY DEF FlattenSeq

\* A sequence put in front comes first.
LEMMA FlattenCons ==
  ASSUME NEW X, NEW s \in Seq(Seq(X)), NEW x \in Seq(X)
  PROVE  FlattenSeq(<<x>> \o s) = x \o FlattenSeq(s)
  <1>0. Len(s) \in Nat /\ \A a, b, c \in Seq(X) : (a \o b) \o c = a \o (b \o c)
    BY ConcatAssociative
  <1>1. PICK r \in Seq(Seq(X)) : /\ r = <<x>> \o s /\ Len(r) = Len(s) + 1 /\ r[1] = x
                                 /\ \A i \in 1 .. Len(s) : r[i + 1] = s[i]
    <2>1. /\ <<x>> \o s \in Seq(Seq(X)) /\ Len(<<x>> \o s) = Len(s) + 1
          /\ (<<x>> \o s)[1] = x
          /\ \A i \in 1 .. Len(s) : (<<x>> \o s)[i + 1] = s[i]
      <3>1. PICK Y : Y = Seq(X)
        OBVIOUS
      <3>2. x \in Y /\ s \in Seq(Y)
        BY <3>1
      <3> QED
        BY <3>1, <3>2, ConsIs
    <2> QED
      BY <2>1
  <1>2. PICK q \in [1 .. Len(r) -> Seq(X)] :
            /\ q[1] = r[1] /\ \A i \in 2 .. Len(r) : q[i] = q[i - 1] \o r[i]
            /\ FlattenSeq(r) = q[Len(r)]
    <2>1. r # <<>>
      BY <1>0, <1>1, EmptySeq
    <2> QED
      BY <2>1, FlattenIs
  <1>3. CASE s = <<>>
    <2>1. Len(r) = 1
      BY <1>1, <1>3, EmptySeq
    <2> QED
      BY <1>1, <1>2, <1>3, <2>1, FlattenEmpty, ConcatEmptySeq
  <1>4. CASE s # <<>>
    <2>1. PICK p \in [1 .. Len(s) -> Seq(X)] :
            /\ p[1] = s[1] /\ \A i \in 2 .. Len(s) : p[i] = p[i - 1] \o s[i]
            /\ FlattenSeq(s) = p[Len(s)]
      BY <1>4, FlattenIs
    <2>2. Len(s) # 0
      BY <1>4, EmptySeq
    <2> DEFINE T == {i \in 0 .. Len(s) : i # 0 => q[i + 1] = x \o p[i]}
    <2>3. 0 \in T
      BY <1>0
    <2>4. ASSUME NEW i \in 1 .. Len(s), i - 1 \in T PROVE i \in T
      <3>1. i + 1 \in 2 .. Len(r) /\ (i + 1) - 1 = i /\ (i - 1) + 1 = i /\ i \in 1 .. Len(r)
        BY <1>0, <1>1
      <3>2. q[i + 1] = q[i] \o s[i]
        BY <1>1, <1>2, <3>1
      <3>3. CASE i = 1
        <4>1. q[i] = x /\ p[i] = s[i]
          BY <1>1, <1>2, <2>1, <3>3
        <4>2. q[i + 1] = x \o p[i]
          BY <3>2, <4>1
        <4> QED
          BY <1>0, <4>2
      <3>4. CASE i # 1
        <4>1. i \in 2 .. Len(s) /\ i - 1 # 0 /\ i - 1 \in 1 .. Len(s)
          BY <1>0, <3>4
        <4>2. q[i] = x \o p[i - 1] /\ p[i] = p[i - 1] \o s[i]
          BY <2>1, <2>4, <3>1, <4>1
        <4>3. PICK y \in Seq(X), z \in Seq(X) : y = p[i - 1] /\ z = s[i]
          <5>1. p[i - 1] \in Seq(X)
            BY <2>1, <4>1
          <5>2. s[i] \in Seq(X)
            BY ElementOfSeq
          <5> QED
            BY <5>1, <5>2
        <4>4. (x \o p[i - 1]) \o s[i] = x \o (p[i - 1] \o s[i])
          BY <1>0, <4>3
        <4>5. q[i + 1] = x \o p[i]
          BY <3>2, <4>2, <4>4
        <4> QED
          BY <1>0, <4>5
      <3> QED
        BY <3>3, <3>4
    <2>5. 0 .. Len(s) \subseteq T
      <3> HIDE DEF T
      <3> QED
        BY <1>0, <2>3, <2>4, UpTo
    <2>6. q[Len(s) + 1] = x \o p[Len(s)]
      <3>1. Len(s) \in 0 .. Len(s)
        BY <1>0
      <3> QED
        BY <2>2, <2>5, <3>1
    <2> QED
      BY <1>1, <1>2, <2>1, <2>6
  <1> QED
    BY <1>3, <1>4

-----------------------------------------------------------------------------
(* Blocks.                                                                 *)

Part(data, blockBytes, i) ==
  IF Len(data) - i > blockBytes THEN blockBytes ELSE Len(data) - i
CutStep(h, data, blockBytes, i) ==
  LET n == Part(data, blockBytes, i)
  IN  IF n = 0 THEN <<>> ELSE <<Slice(data, i, n)>> \o h[i + n]
Cuts(h, data, blockBytes) == h = [i \in 0 .. Len(data) |-> CutStep(h, data, blockBytes, i)]

LEMMA PartIs ==
  ASSUME NEW data \in Seq(Bytes), NEW blockBytes \in Nat, NEW i \in 0 .. Len(data)
  PROVE  /\ Part(data, blockBytes, i) \in Nat /\ Part(data, blockBytes, i) <= blockBytes
         /\ i + Part(data, blockBytes, i) \in 0 .. Len(data)
         /\ Part(data, blockBytes, i) = 0 <=> (i = Len(data) \/ blockBytes = 0)
  <1>1. Len(data) \in Nat
    OBVIOUS
  <1> QED
    BY <1>1 DEF Part

LEMMA CompressIs ==
  ASSUME NEW data \in Seq(Bytes), NEW blockBytes \in Nat
  PROVE  \E h : /\ Cuts(h, data, blockBytes)
                /\ Compress(data, blockBytes) = IF h[0] = <<>> THEN NoData ELSE h[0]
  <1> DEFINE n == Len(data)
             S == Seq(Seq(Bytes))
             P(i) == Part(data, blockBytes, i)
             E == {i \in 0 .. n : P(i) = 0}
             a == [i \in E |-> <<>>]
             next == [i \in 0 .. n \ E |-> i + P(i)]
             g == [i \in 0 .. n \ E |-> [x \in S |-> <<Slice(data, i, P(i))>> \o x]]
  <1>0. n \in Nat /\ \A i \in 0 .. n : P(i) \in Nat /\ i + P(i) \in 0 .. n
    <2>1. ASSUME NEW i \in 0 .. Len(data)
          PROVE  /\ Part(data, blockBytes, i) \in Nat
                 /\ i + Part(data, blockBytes, i) \in 0 .. Len(data)
      BY PartIs
    <2> QED
      BY <2>1
  <1>1. a \in [E -> S]
    <2>1. <<>> \in S
      BY EmptySeq
    <2> QED
      BY <2>1
  <1>2. next \in [0 .. n \ E -> 0 .. n] /\ \A i \in 0 .. n \ E : i < next[i]
    <2>1. \A i \in 0 .. n \ E : i + P(i) \in 0 .. n /\ i < i + P(i)
      <3> TAKE i \in 0 .. n \ E
      <3>1. P(i) \in Nat /\ P(i) # 0 /\ i + P(i) \in 0 .. n
        BY <1>0
      <3> HIDE DEF P
      <3> QED
        BY <1>0, <3>1
    <2> QED
      BY <2>1
  <1>3. g \in [0 .. n \ E -> [S -> S]]
    <2>1. ASSUME NEW i \in 0 .. n \ E, NEW x \in S PROVE <<Slice(data, i, P(i))>> \o x \in S
      <3>1. PICK Y : Y = Seq(Bytes)
        OBVIOUS
      <3>2. PICK y \in Y : y = Slice(data, i, P(i))
        <4>1. i \in Nat /\ P(i) \in Nat /\ i + P(i) <= Len(data)
          BY <1>0
        <4> QED
          BY <3>1, <4>1, SliceIs
      <3>3. x \in Seq(Y)
        BY <3>1
      <3>4. <<y>> \o x \in Seq(Y)
        BY <3>2, <3>3, ConsIs
      <3> QED
        BY <3>1, <3>2, <3>4
    <2> QED
      BY <2>1
  <1>4. PICK f \in [0 .. n -> S] : Descends(f, n, E, a, next, g)
    <2>1. E \in SUBSET (0 .. n)
      OBVIOUS
    <2> HIDE DEF S, n, a, next, g, E, P
    <2> QED
      BY <1>0, <1>1, <1>2, <1>3, <2>1, DescentExists
  <1>5. ASSUME NEW i \in 0 .. n PROVE f[i] = CutStep(f, data, blockBytes, i)
    <2>1. f[i] = IF i \in E THEN a[i] ELSE g[i][f[next[i]]]
      BY <1>4 DEF Descends
    <2>2. CASE i \in E
      <3>1. f[i] = <<>> /\ Part(data, blockBytes, i) = 0
        BY <2>1, <2>2
      <3> QED
        BY <3>1 DEF CutStep
    <2>3. CASE i \notin E
      <3>1. i \in 0 .. n \ E /\ next[i] \in 0 .. n /\ Part(data, blockBytes, i) # 0
            /\ next[i] = i + P(i)
        BY <1>2, <2>3
      <3>2. f[next[i]] \in S
        BY <1>4, <3>1
      <3>3. g[i][f[next[i]]] = <<Slice(data, i, P(i))>> \o f[next[i]]
        BY <3>1, <3>2
      <3>4. f[i] = <<Slice(data, i, P(i))>> \o f[i + P(i)]
        <4> HIDE DEF g, a, next
        <4> QED
          BY <2>1, <2>3, <3>1, <3>3
      <3> QED
        BY <3>1, <3>4 DEF CutStep
    <2> QED
      BY <2>2, <2>3
  <1>6. Cuts(f, data, blockBytes)
    BY <1>4, <1>5 DEF Cuts
  <1>7. PICK h : h = CHOOSE q : Cuts(q, data, blockBytes)
    OBVIOUS
  <1>8. Cuts(h, data, blockBytes)
    BY <1>6, <1>7
  <1>9. Compress(data, blockBytes) = IF h[0] = <<>> THEN NoData ELSE h[0]
    <2>1. Compress(data, blockBytes) =
            LET q == CHOOSE q : Cuts(q, data, blockBytes)
            IN  IF q[0] = <<>> THEN NoData ELSE q[0]
      BY DEF Compress, Cuts, CutStep, Part
    <2> QED
      BY <1>7, <2>1
  <1> QED
    BY <1>8, <1>9

\* The blocks behind an offset are the data behind it, and none is too large.
LEMMA BlocksAre ==
  ASSUME NEW data \in Seq(Bytes), NEW blockBytes \in Nat, blockBytes > 0,
         NEW h, Cuts(h, data, blockBytes), NEW i \in 0 .. Len(data)
  PROVE  /\ h[i] \in Seq(Seq(Bytes))
         /\ \A k \in 1 .. Len(h[i]) : Len(h[i][k]) <= blockBytes
         /\ FlattenSeq(h[i]) = SubSeq(data, i + 1, Len(data))
  <1> DEFINE Good(j) == /\ h[j] \in Seq(Seq(Bytes))
                        /\ \A k \in 1 .. Len(h[j]) : Len(h[j][k]) <= blockBytes
                        /\ FlattenSeq(h[j]) = SubSeq(data, j + 1, Len(data))
             T == {j \in 0 .. Len(data) : Good(j)}
  <1>0. Len(data) \in Nat
    OBVIOUS
  <1>1. ASSUME NEW j \in 0 .. Len(data), j + 1 .. Len(data) \subseteq T PROVE j \in T
    <2>1. PICK n \in Nat : n = Part(data, blockBytes, j) /\ n <= blockBytes
                           /\ j + n \in 0 .. Len(data) /\ (n = 0 <=> j = Len(data))
      <3>1. /\ Part(data, blockBytes, j) \in Nat /\ Part(data, blockBytes, j) <= blockBytes
            /\ j + Part(data, blockBytes, j) \in 0 .. Len(data)
            /\ Part(data, blockBytes, j) = 0 <=> (j = Len(data) \/ blockBytes = 0)
        BY PartIs
      <3> QED
        BY <3>1
    <2>2. h[j] = IF n = 0 THEN <<>> ELSE <<Slice(data, j, n)>> \o h[j + n]
      <3>1. h[j] = CutStep(h, data, blockBytes, j)
        BY DEF Cuts
      <3> QED
        BY <2>1, <3>1 DEF CutStep
    <2>3. CASE n = 0
      <3>1. h[j] = <<>> /\ j = Len(data)
        BY <2>1, <2>2, <2>3
      <3>2. SubSeq(data, j + 1, Len(data)) = <<>>
        BY <1>0, <3>1, SubSeqEmpty
      <3>3. PICK e \in Seq(Seq(Bytes)) : e = <<>> /\ Len(e) = 0
        BY EmptySeq
      <3>4. \A k \in 1 .. Len(h[j]) : FALSE
        BY <3>1, <3>3
      <3> QED
        BY <3>1, <3>2, <3>3, <3>4, FlattenEmpty
    <2>4. CASE n # 0
      <3>1. j + n \in j + 1 .. Len(data) /\ j + n \in Nat /\ j + n <= Len(data)
        BY <1>0, <2>1, <2>4
      <3>2. Good(j + n)
        BY <1>1, <3>1
      <3>3. PICK x \in Seq(Bytes) : x = Slice(data, j, n) /\ Len(x) = n
        BY <1>0, <2>1, <3>1, SliceIs
      <3>4. PICK Y : Y = Seq(Bytes)
        OBVIOUS
      <3>5. PICK s \in Seq(Y) : s = h[j + n]
        BY <3>2, <3>4
      <3>6. /\ h[j] = <<x>> \o s
            /\ h[j] \in Seq(Y) /\ Len(h[j]) = Len(s) + 1 /\ h[j][1] = x
            /\ \A k \in 1 .. Len(s) : h[j][k + 1] = s[k]
        <4>1. h[j] = <<x>> \o s
          BY <2>2, <2>4, <3>3, <3>5
        <4>2. x \in Y
          BY <3>4
        <4>3. /\ <<x>> \o s \in Seq(Y) /\ Len(<<x>> \o s) = Len(s) + 1
              /\ (<<x>> \o s)[1] = x
              /\ \A k \in 1 .. Len(s) : (<<x>> \o s)[k + 1] = s[k]
          BY <4>2, ConsIs
        <4> QED
          BY <4>1, <4>3
      <3>7. ASSUME NEW k \in 1 .. Len(h[j]) PROVE Len(h[j][k]) <= blockBytes
        <4>1. CASE k = 1
          BY <2>1, <3>3, <3>6, <4>1
        <4>2. CASE k # 1
          <5>1. k - 1 \in 1 .. Len(s) /\ (k - 1) + 1 = k
            BY <3>6, <4>2
          <5>2. h[j][k] = s[k - 1]
            BY <3>6, <5>1
          <5>3. \A m \in 1 .. Len(s) : Len(s[m]) <= blockBytes
            BY <3>2, <3>5
          <5> QED
            BY <5>1, <5>2, <5>3
        <4> QED
          BY <4>1, <4>2
      <3>8. FlattenSeq(h[j]) = SubSeq(data, j + 1, Len(data))
        <4>1. FlattenSeq(<<x>> \o s) = x \o FlattenSeq(s)
          BY <3>4, FlattenCons
        <4>2. x = SubSeq(data, j + 1, j + n)
          BY <3>3 DEF Slice
        <4>3. FlattenSeq(s) = SubSeq(data, (j + n) + 1, Len(data))
          BY <3>2, <3>5
        <4>4. SubSeq(data, j + 1, j + n) \o SubSeq(data, (j + n) + 1, Len(data))
                = SubSeq(data, j + 1, Len(data))
          <5>1. /\ j + 1 \in 1 .. Len(data) + 1 /\ j + n \in (j + 1) - 1 .. Len(data)
                /\ Len(data) \in j + n .. Len(data)
            BY <1>0, <2>1, <3>1
          <5> QED
            BY <5>1, ConcatAdjacentSubSeq
        <4> QED
          BY <3>6, <4>1, <4>2, <4>3, <4>4
      <3> QED
        BY <3>4, <3>6, <3>7, <3>8
    <2> QED
      BY <2>3, <2>4
  <1>2. 0 .. Len(data) \subseteq T
    <2> HIDE DEF T
    <2> QED
      BY <1>0, <1>1, DownFrom
  <1> QED
    BY <1>2


\* As many blocks are read as can be decompressed from the first on.
LEMMA DecompressAll ==
  ASSUME NEW blocks \in Seq(Seq(Bytes)), NEW read \in Nat,
         \A k \in 1 .. Len(blocks) : Len(blocks[k]) <= read
  PROVE  Decompress(blocks, read) =
           IF FlattenSeq(blocks) = <<>> THEN NoData ELSE FlattenSeq(blocks)
  <1> DEFINE good == {n \in 0 .. Len(blocks) : \A i \in 1 .. n : Fits(blocks[i], read)}
             last == CHOOSE n \in good : \A m \in good : m <= n
  <1>0. Len(blocks) \in Nat
    OBVIOUS
  <1>1. Len(blocks) \in good /\ \A m \in good : m <= Len(blocks) /\ m \in Nat
    BY <1>0 DEF Fits
  <1>2. last = Len(blocks)
    <2> HIDE DEF good
    <2>1. last \in good /\ \A m \in good : m <= last
      BY <1>1
    <2> HIDE DEF last
    <2>2. Len(blocks) <= last /\ last <= Len(blocks) /\ last \in Nat
      BY <1>1, <2>1
    <2> QED
      BY <1>0, <2>2
  <1>3. SubSeq(blocks, 1, last) = blocks
    <2> HIDE DEF last
    <2> QED
      BY <1>2, SubSeqFull
  <1>4. Decompress(blocks, read) = LET data == FlattenSeq(SubSeq(blocks, 1, last))
                                   IN  IF data = <<>> THEN NoData ELSE data
    BY DEF Decompress
  <1> HIDE DEF last
  <1> QED
    BY <1>3, <1>4

LEMMA DecompressNone ==
  ASSUME NEW blocks \in Seq(Seq(Bytes)), NEW read \in Nat,
         Len(blocks) > 0, Len(blocks[1]) > read
  PROVE  Decompress(blocks, read) = NoData
  <1> DEFINE good == {n \in 0 .. Len(blocks) : \A i \in 1 .. n : Fits(blocks[i], read)}
             last == CHOOSE n \in good : \A m \in good : m <= n
  <1>0. Len(blocks) \in Nat /\ blocks[1] \in Seq(Bytes) /\ Len(blocks[1]) \in Nat
    <2>1. Len(blocks) \in Nat /\ blocks[1] \in Seq(Bytes)
      OBVIOUS
    <2> QED
      BY <2>1
  <1>1. good = {0}
    <2>1. ASSUME NEW n \in good PROVE n = 0
      <3>1. n # 0 => 1 \in 1 .. n
        BY <1>0
      <3>2. ~Fits(blocks[1], read)
        BY <1>0 DEF Fits
      <3> QED
        BY <3>1, <3>2
    <2>2. 0 \in good
      BY <1>0
    <2> HIDE DEF good
    <2> QED
      BY <2>1, <2>2
  <1>2. last = 0
    <2> HIDE DEF good
    <2> QED
      BY <1>1
  <1>3. SubSeq(blocks, 1, last) = <<>>
    <2> HIDE DEF last
    <2> QED
      BY <1>2, SubSeqEmpty
  <1>4. Decompress(blocks, read) = LET data == FlattenSeq(SubSeq(blocks, 1, last))
                                   IN  IF data = <<>> THEN NoData ELSE data
    BY DEF Decompress
  <1> HIDE DEF last
  <1> QED
    BY <1>3, <1>4, FlattenEmpty

\* What blocks give back, whatever the sizes of the writer and the reader.
LEMMA AllOrNothingIs ==
  ASSUME NEW data \in Seq(Bytes), NEW written \in Nat, NEW read \in Nat
  PROVE  AllOrNothing(data, written, read)
  <1> DEFINE result == IF Compress(data, written) = NoData THEN NoData
                       ELSE Decompress(Compress(data, written), read)
  <1> SUFFICES /\ result \in {data, NoData}
               /\ data # <<>> /\ written > 0 /\ read >= written => result = data
    BY DEF AllOrNothing
  <1>0. Len(data) \in Nat /\ 0 \in 0 .. Len(data) /\ (data = <<>> <=> Len(data) = 0)
    BY EmptySeq
  <1>1. PICK h : /\ Cuts(h, data, written)
                 /\ Compress(data, written) = IF h[0] = <<>> THEN NoData ELSE h[0]
    BY CompressIs
  <1>2. PICK n \in Nat : /\ n = Part(data, written, 0) /\ n <= written
                         /\ 0 + n \in 0 .. Len(data)
                         /\ n = 0 <=> (0 = Len(data) \/ written = 0)
    <2>1. /\ Part(data, written, 0) \in Nat /\ Part(data, written, 0) <= written
          /\ 0 + Part(data, written, 0) \in 0 .. Len(data)
          /\ Part(data, written, 0) = 0 <=> (0 = Len(data) \/ written = 0)
      BY <1>0, PartIs
    <2> QED
      BY <2>1
  <1>3. h[0] = IF n = 0 THEN <<>> ELSE <<Slice(data, 0, n)>> \o h[0 + n]
    <2>1. h[0] = CutStep(h, data, written, 0)
      BY <1>0, <1>1 DEF Cuts
    <2> QED
      BY <1>2, <2>1 DEF CutStep
  <1>4. CASE n = 0
    <2>1. result = NoData
      BY <1>1, <1>3, <1>4
    <2>2. data = <<>> \/ ~(written > 0)
      BY <1>0, <1>2, <1>4
    <2> QED
      BY <2>1, <2>2
  <1>5. CASE n # 0
    <2>1. data # <<>> /\ written > 0
      BY <1>0, <1>2, <1>5
    <2>2. PICK Y : Y = Seq(Bytes)
      OBVIOUS
    <2>3. PICK x \in Seq(Bytes) : x = Slice(data, 0, n) /\ Len(x) = n
      BY <1>0, <1>2, SliceIs
    <2>4. /\ h[0] \in Seq(Seq(Bytes)) /\ h[0 + n] \in Seq(Seq(Bytes))
          /\ \A k \in 1 .. Len(h[0]) : Len(h[0][k]) <= written
          /\ FlattenSeq(h[0]) = SubSeq(data, 0 + 1, Len(data))
      BY <1>0, <1>1, <1>2, <2>1, BlocksAre
    <2>5. PICK s \in Seq(Y), blocks \in Seq(Y) :
            /\ s = h[0 + n] /\ blocks = h[0] /\ blocks = <<x>> \o s
            /\ Len(blocks) = Len(s) + 1 /\ blocks[1] = x
      <3>1. /\ h[0] \in Seq(Y) /\ h[0 + n] \in Seq(Y) /\ h[0] = <<x>> \o h[0 + n]
            /\ x \in Y
        BY <1>3, <1>5, <2>2, <2>3, <2>4
      <3>2. PICK s \in Seq(Y) : s = h[0 + n]
        BY <3>1
      <3>3. /\ <<x>> \o s \in Seq(Y) /\ Len(<<x>> \o s) = Len(s) + 1
            /\ (<<x>> \o s)[1] = x
        BY <3>1, ConsIs
      <3> QED
        BY <3>1, <3>2, <3>3
    <2>6. FlattenSeq(blocks) = data
      <3>1. 0 + 1 = 1 /\ SubSeq(data, 1, Len(data)) = data
        BY SubSeqFull
      <3> QED
        BY <2>4, <2>5, <3>1
    <2>7. Len(s) \in Nat
      OBVIOUS
    <2>8. blocks # <<>> /\ blocks \in Seq(Seq(Bytes)) /\ blocks # NoData
      <3>1. Len(blocks) # 0
        BY <2>5, <2>7
      <3>2. blocks # <<>>
        BY <3>1, EmptySeq
      <3>3. blocks \in Seq(Seq(Bytes))
        BY <2>4, <2>5
      <3> QED
        BY <3>2, <3>3, NoDataAssumption
    <2>9. result = Decompress(blocks, read)
      BY <1>1, <2>5, <2>8
    <2>10. CASE n > read
      <3>1. Len(blocks) > 0 /\ Len(blocks[1]) > read
        BY <2>3, <2>5, <2>7, <2>10
      <3>2. result = NoData
        BY <2>8, <2>9, <3>1, DecompressNone
      <3>3. ~(read >= written)
        BY <1>2, <2>10
      <3> QED
        BY <3>2, <3>3
    <2>11. CASE n <= read
      <3>1. \A k \in 1 .. Len(blocks) : Len(blocks[k]) <= read
        <4>1. ASSUME NEW k \in 1 .. Len(blocks) PROVE Len(blocks[k]) <= read
          <5>1. Len(blocks[k]) <= written /\ Len(blocks[k]) \in Nat
            <6>1. Len(blocks[k]) <= written
              BY <2>4, <2>5
            <6>2. blocks[k] \in Seq(Bytes)
              BY <2>8
            <6> QED
              BY <6>1, <6>2
          <5>2. CASE written <= read
            BY <5>1, <5>2
          <5>3. CASE ~(written <= read)
            <6>1. n = Len(data)
              BY <1>0, <1>2, <2>11, <5>3 DEF Part
            <6>2. s = <<>>
              <7>1. h[Len(data)] = CutStep(h, data, written, Len(data))
                <8>1. Len(data) \in 0 .. Len(data)
                  BY <1>0
                <8> QED
                  BY <1>1, <8>1 DEF Cuts
              <7>2. Part(data, written, Len(data)) = 0
                BY <1>0 DEF Part
              <7>3. h[Len(data)] = <<>>
                BY <7>1, <7>2 DEF CutStep
              <7> QED
                BY <1>2, <2>5, <6>1, <7>3
            <6>3. k = 1
              BY <2>5, <6>2, EmptySeq
            <6> QED
              BY <2>3, <2>5, <2>11, <6>3
          <5> QED
            BY <5>2, <5>3
        <4> QED
          BY <4>1
      <3>2. result = data
        BY <2>1, <2>6, <2>8, <2>9, <3>1, DecompressAll
      <3> QED
        BY <3>2
    <2> QED
      BY <2>10, <2>11
  <1> QED
    BY <1>4, <1>5


-----------------------------------------------------------------------------
(* The vector of the sessions.                                             *)

SendStep(h, sessions, id, subId, i) ==
  IF i > Len(sessions) THEN [reached |-> {}, result |-> TRUE]
  ELSE IF ~Matches(sessions[i], id, subId) THEN h[i + 1]
  ELSE IF ~sessions[i].up THEN [reached |-> {}, result |-> FALSE]
  ELSE [h[i + 1] EXCEPT !.reached = @ \cup {i}]
Sends(h, sessions, id, subId) ==
  h = [i \in 1 .. Len(sessions) + 1 |-> SendStep(h, sessions, id, subId, i)]

\* What the loop does from the session i on.
For(sessions, id, subId, i) == {j \in i .. Len(sessions) : Matches(sessions[j], id, subId)}
Refuse(sessions, id, subId, i) == {j \in For(sessions, id, subId, i) : ~sessions[j].up}
SentFrom(sessions, id, subId, i) ==
  [reached |-> {j \in For(sessions, id, subId, i) :
                  \A k \in Refuse(sessions, id, subId, i) : j < k},
   result  |-> Refuse(sessions, id, subId, i) = {}]

LEMMA SentIs ==
  ASSUME NEW sessions, NEW id, NEW subId, NEW h, Len(sessions) \in Nat,
         NEW i \in 1 .. Len(sessions) + 1,
         i <= Len(sessions) => h[i + 1] = SentFrom(sessions, id, subId, i + 1)
  PROVE  SendStep(h, sessions, id, subId, i) = SentFrom(sessions, id, subId, i)
  <1> DEFINE F(j) == For(sessions, id, subId, j)
             R(j) == Refuse(sessions, id, subId, j)
             reached(j) == {x \in F(j) : \A k \in R(j) : x < k}
  <1>0. SentFrom(sessions, id, subId, i) = [reached |-> reached(i), result |-> R(i) = {}]
    BY DEF SentFrom
  <1>1. CASE i > Len(sessions)
    <2>1. F(i) = {} /\ R(i) = {} /\ reached(i) = {}
      BY <1>1 DEF For, Refuse
    <2>2. SendStep(h, sessions, id, subId, i) = [reached |-> {}, result |-> TRUE]
      BY <1>1 DEF SendStep
    <2> HIDE DEF R, reached
    <2> QED
      BY <1>0, <2>1, <2>2
  <1>2. CASE i <= Len(sessions)
    <2>0. h[i + 1] = [reached |-> reached(i + 1), result |-> R(i + 1) = {}] /\ ~(i > Len(sessions))
      BY <1>2 DEF SentFrom
    <2>1. /\ \A j \in F(i + 1) : j \in F(i) /\ i < j /\ j \in Int
          /\ \A j \in F(i) : j = i \/ j \in F(i + 1)
          /\ i \in F(i) <=> Matches(sessions[i], id, subId)
          /\ i \notin F(i + 1)
      BY <1>2 DEF For
    <2>2. CASE ~Matches(sessions[i], id, subId)
      <3>1. F(i) = F(i + 1)
        BY <2>1, <2>2
      <3>2. R(i) = R(i + 1)
        BY <3>1 DEF Refuse
      <3>3. reached(i) = reached(i + 1)
        BY <3>1, <3>2
      <3>4. SendStep(h, sessions, id, subId, i) = h[i + 1]
        BY <2>0, <2>2 DEF SendStep
      <3> HIDE DEF R, reached
      <3> QED
        BY <1>0, <2>0, <3>2, <3>3, <3>4
    <2>3. CASE Matches(sessions[i], id, subId) /\ ~sessions[i].up
      <3>1. i \in R(i)
        BY <2>1, <2>3 DEF Refuse
      <3>2. \A j \in F(i) : ~(j < i)
        BY DEF For
      <3>3. reached(i) = {}
        BY <3>1, <3>2
      <3>4. SendStep(h, sessions, id, subId, i) = [reached |-> {}, result |-> FALSE]
        BY <2>0, <2>3 DEF SendStep
      <3>5. (R(i) = {}) = FALSE
        BY <3>1
      <3> HIDE DEF R, reached
      <3> QED
        BY <1>0, <3>3, <3>4, <3>5
    <2>4. CASE Matches(sessions[i], id, subId) /\ ~ ~sessions[i].up
      <3>1. F(i) = F(i + 1) \cup {i}
        BY <2>1, <2>4
      <3>2. R(i) = R(i + 1)
        BY <2>4, <3>1 DEF Refuse
      <3>3. \A k \in R(i + 1) : i < k
        BY <2>1 DEF Refuse
      <3>4. reached(i) = reached(i + 1) \cup {i}
        BY <3>1, <3>2, <3>3
      <3>5. SendStep(h, sessions, id, subId, i) = [h[i + 1] EXCEPT !.reached = @ \cup {i}]
        BY <2>0, <2>4 DEF SendStep
      <3>6. PICK A, B : A = reached(i + 1) /\ B = (R(i + 1) = {})
        OBVIOUS
      <3>7. PICK r : r = h[i + 1] /\ r = [reached |-> A, result |-> B]
        <4> HIDE DEF R, reached
        <4> QED
          BY <2>0, <3>6
      <3>8. [r EXCEPT !.reached = @ \cup {i}] = [reached |-> A \cup {i}, result |-> B]
        <4>1. PICK C : C = A \cup {i}
          OBVIOUS
        <4>2. r.reached \cup {i} = C
          BY <3>7, <4>1
        <4>3. [r EXCEPT !.reached = @ \cup {i}] = [r EXCEPT !.reached = C]
          BY <4>2
        <4>4. [r EXCEPT !.reached = C] = [reached |-> C, result |-> B]
          BY <3>7
        <4> QED
          BY <4>1, <4>3, <4>4
      <3>9. SentFrom(sessions, id, subId, i) = [reached |-> A \cup {i}, result |-> B]
        <4> HIDE DEF R, reached
        <4> QED
          BY <1>0, <3>2, <3>4, <3>6
      <3> QED
        BY <3>5, <3>7, <3>8, <3>9
    <2> QED
      BY <2>2, <2>3, <2>4
  <1> QED
    BY <1>1, <1>2

LEMMA SendIs ==
  ASSUME NEW X, NEW sessions \in Seq(X), NEW id, NEW subId
  PROVE  Send(sessions, id, subId) = SentFrom(sessions, id, subId, 1)
  <1> DEFINE N == Len(sessions)
             f == [i \in 1 .. N + 1 |-> SentFrom(sessions, id, subId, i)]
  <1>0. N \in Nat
    OBVIOUS
  <1>1. Sends(f, sessions, id, subId)
    <2>1. ASSUME NEW i \in 1 .. N + 1 PROVE f[i] = SendStep(f, sessions, id, subId, i)
      <3>1. i <= N => f[i + 1] = SentFrom(sessions, id, subId, i + 1)
        BY <1>0
      <3>2. f[i] = SentFrom(sessions, id, subId, i)
        OBVIOUS
      <3> HIDE DEF f
      <3> QED
        BY <1>0, <3>1, <3>2, SentIs
    <2>2. f = [i \in 1 .. N + 1 |-> f[i]]
      OBVIOUS
    <2> HIDE DEF f
    <2> QED
      BY <2>1, <2>2 DEF Sends
  <1>2. PICK h : h = CHOOSE q : Sends(q, sessions, id, subId)
    OBVIOUS
  <1>3. Sends(h, sessions, id, subId)
    <2> HIDE DEF f
    <2> QED
      BY <1>1, <1>2
  <1> DEFINE T == {j \in 0 .. N : h[j + 1] = SentFrom(sessions, id, subId, j + 1)}
  <1>4. ASSUME NEW j \in 0 .. N, j + 1 .. N \subseteq T PROVE j \in T
    <2>1. PICK i \in 1 .. N + 1 : i = j + 1
      BY <1>0
    <2>2. i <= N => h[i + 1] = SentFrom(sessions, id, subId, i + 1)
      <3>1. i <= N => i \in j + 1 .. N
        BY <1>0, <2>1
      <3> QED
        BY <1>4, <3>1
    <2>3. h[i] = SendStep(h, sessions, id, subId, i)
      BY <1>3 DEF Sends
    <2>4. h[i] = SentFrom(sessions, id, subId, i)
      BY <1>0, <2>2, <2>3, SentIs
    <2> QED
      BY <2>1, <2>4
  <1>5. h[1] = SentFrom(sessions, id, subId, 1)
    <2>1. 0 .. N \subseteq T
      <3> HIDE DEF T, N
      <3> QED
        BY <1>0, <1>4, DownFrom
    <2>2. 0 \in 0 .. N /\ 0 + 1 = 1
      BY <1>0
    <2> QED
      BY <2>1, <2>2
  <1>6. Send(sessions, id, subId) = h[1]
    <2>1. Send(sessions, id, subId) = (CHOOSE q : Sends(q, sessions, id, subId))[1]
      BY DEF Send, Sends, SendStep
    <2> QED
      BY <1>2, <2>1
  <1> QED
    BY <1>5, <1>6

\* Whom a message reaches.
LEMMA StopsAtRefusalIs ==
  ASSUME NEW X, NEW sessions \in Seq(X), NEW id, NEW subId
  PROVE  StopsAtRefusal(sessions, id, subId)
  <1>1. Send(sessions, id, subId) = SentFrom(sessions, id, subId, 1)
    BY SendIs
  <1>2. DOMAIN sessions = 1 .. Len(sessions)
    OBVIOUS
  <1>3. /\ {i \in DOMAIN sessions : Matches(sessions[i], id, subId)} = For(sessions, id, subId, 1)
        /\ {i \in For(sessions, id, subId, 1) : ~sessions[i].up} = Refuse(sessions, id, subId, 1)
    BY <1>2 DEF For, Refuse
  <1>4. /\ Send(sessions, id, subId).result = (Refuse(sessions, id, subId, 1) = {})
        /\ Send(sessions, id, subId).reached =
              {i \in For(sessions, id, subId, 1) :
                 \A k \in Refuse(sessions, id, subId, 1) : i < k}
    BY <1>1 DEF SentFrom
  <1> QED
    BY <1>3, <1>4 DEF StopsAtRefusal

KeptStep(q, sessions, dropped, i) ==
  IF i = 0 THEN <<>>
  ELSE IF i \in dropped THEN q[i - 1] ELSE Append(q[i - 1], sessions[i])
Keeps(q, sessions, dropped) ==
  q = [i \in 0 .. Len(sessions) |-> KeptStep(q, sessions, dropped, i)]

LEMMA RemainingIs ==
  ASSUME NEW X, NEW sessions \in Seq(X), NEW dropped
  PROVE  /\ Remaining(sessions, dropped) \in Seq(X)
         /\ Range(Remaining(sessions, dropped))
              = {sessions[i] : i \in 1 .. Len(sessions) \ dropped}
  <1> DEFINE N == Len(sessions)
             g == [k \in 1 .. N |->
                     [x \in Seq(X) |-> IF k \in dropped THEN x ELSE Append(x, sessions[k])]]
  <1>0. N \in Nat /\ \A k \in 1 .. N : sessions[k] \in X
    OBVIOUS
  <1>1. PICK e \in Seq(X) : e = <<>>
    BY EmptySeq
  <1>2. g \in [1 .. N -> [Seq(X) -> Seq(X)]]
    BY <1>0
  <1>3. PICK f \in [0 .. N -> Seq(X)] : Iterates(f, e, g, N)
    <2> HIDE DEF g
    <2> QED
      BY <1>0, <1>2, IteratesExist
  <1>4. \A i \in 0 .. N : f[i] = KeptStep(f, sessions, dropped, i)
    <2> TAKE i \in 0 .. N
    <2>1. CASE i = 0
      BY <1>1, <1>3, <2>1 DEF Iterates, KeptStep
    <2>2. CASE i # 0
      <3>1. i \in 1 .. N /\ i - 1 \in 0 .. N
        BY <1>0, <2>2
      <3>2. f[i] = g[i][f[i - 1]] /\ f[i - 1] \in Seq(X)
        BY <1>3, <3>1 DEF Iterates
      <3>3. g[i][f[i - 1]] = IF i \in dropped THEN f[i - 1] ELSE Append(f[i - 1], sessions[i])
        BY <3>1, <3>2
      <3> HIDE DEF g
      <3> QED
        BY <2>2, <3>2, <3>3 DEF KeptStep
    <2> QED
      BY <2>1, <2>2
  <1>5. Keeps(f, sessions, dropped)
    BY <1>3, <1>4 DEF Keeps
  <1>6. PICK h : h = CHOOSE q : Keeps(q, sessions, dropped)
    OBVIOUS
  <1>7. Keeps(h, sessions, dropped)
    BY <1>5, <1>6
  <1>8. \A i \in 0 .. N : h[i] = KeptStep(h, sessions, dropped, i)
    BY <1>7 DEF Keeps
  <1> DEFINE T == {i \in 0 .. N : /\ h[i] \in Seq(X)
                                  /\ Range(h[i]) = {sessions[j] : j \in 1 .. i \ dropped}}
  <1>9. 0 \in T
    <2>1. 0 \in 0 .. N /\ h[0] = <<>>
      BY <1>0, <1>8 DEF KeptStep
    <2>2. {sessions[j] : j \in 1 .. 0 \ dropped} = {}
      OBVIOUS
    <2> QED
      BY <1>1, <2>1, <2>2, RangeOfEmpty
  <1>10. ASSUME NEW i \in 1 .. N, i - 1 \in T PROVE i \in T
    <2>1. /\ i \in 0 .. N /\ i # 0
          /\ \A j \in 1 .. i : j = i \/ j \in 1 .. i - 1
          /\ 1 .. i - 1 \subseteq 1 .. i /\ i \in 1 .. i
      BY <1>0
    <2>2. PICK r \in Seq(X) : /\ r = h[i - 1]
                              /\ Range(r) = {sessions[j] : j \in 1 .. i - 1 \ dropped}
      BY <1>10
    <2>3. h[i] = IF i \in dropped THEN r ELSE Append(r, sessions[i])
      BY <1>8, <2>1, <2>2 DEF KeptStep
    <2>4. CASE i \in dropped
      <3>1. 1 .. i \ dropped = 1 .. i - 1 \ dropped
        BY <2>1, <2>4
      <3> QED
        BY <2>1, <2>2, <2>3, <2>4, <3>1
    <2>5. CASE i \notin dropped
      <3>1. 1 .. i \ dropped = (1 .. i - 1 \ dropped) \cup {i}
        BY <2>1, <2>5
      <3>2. Range(Append(r, sessions[i])) = Range(r) \cup {sessions[i]}
        BY <1>0, RangeOfAppend
      <3>3. Append(r, sessions[i]) \in Seq(X)
        BY <1>0
      <3>4. Range(h[i]) = {sessions[j] : j \in 1 .. i \ dropped}
        BY <2>2, <2>3, <2>5, <3>1, <3>2
      <3> QED
        BY <2>1, <2>3, <2>5, <3>3, <3>4
    <2> QED
      BY <2>4, <2>5
  <1>11. h[N] \in Seq(X) /\ Range(h[N]) = {sessions[j] : j \in 1 .. N \ dropped}
    <2>1. 0 .. N \subseteq T
      <3> HIDE DEF T, N
      <3> QED
        BY <1>0, <1>9, <1>10, UpTo
    <2>2. N \in 0 .. N
      BY <1>0
    <2> QED
      BY <2>1, <2>2
  <1>12. Remaining(sessions, dropped) = h[N]
    <2>1. Remaining(sessions, dropped) = (CHOOSE q : Keeps(q, sessions, dropped))[N]
      BY DEF Remaining, Keeps, KeptStep
    <2> QED
      BY <1>6, <2>1
  <1> QED
    BY <1>11, <1>12

\* Who is left in the vector.
LEMMA DroppedIsGoneIs ==
  ASSUME NEW X, NEW sessions \in Seq(X), NEW id, NEW subId
  PROVE  DroppedIsGone(sessions, id, subId)
  <1> DEFINE all == DropSessions(sessions, id)
             one == DropSession(sessions, id, subId)
  <1>0. DOMAIN sessions = 1 .. Len(sessions)
    OBVIOUS
  <1>1. all \in Seq(X) /\ Range(all) = {s \in Range(sessions) : s.id # id}
    <2> DEFINE dropped == {i \in DOMAIN sessions : sessions[i].id = id}
    <2>1. all = Remaining(sessions, dropped)
      BY DEF DropSessions
    <2>2. all \in Seq(X) /\ Range(all) = {sessions[i] : i \in 1 .. Len(sessions) \ dropped}
      <3> HIDE DEF dropped, all
      <3> QED
        BY <2>1, RemainingIs
    <2>3. {sessions[i] : i \in 1 .. Len(sessions) \ dropped}
            = {s \in Range(sessions) : s.id # id}
      BY <1>0 DEF Range
    <2> QED
      BY <2>2, <2>3
  <1>2. one \in Seq(X) /\ Range(one) = {s \in Range(sessions) : ~(s.id = id /\ s.subId = subId)}
    <2> DEFINE dropped == {i \in DOMAIN sessions : sessions[i].id = id /\ sessions[i].subId = subId}
    <2>1. one = Remaining(sessions, dropped)
      BY DEF DropSession
    <2>2. one \in Seq(X) /\ Range(one) = {sessions[i] : i \in 1 .. Len(sessions) \ dropped}
      <3> HIDE DEF dropped, one
      <3> QED
        BY <2>1, RemainingIs
    <2>3. {sessions[i] : i \in 1 .. Len(sessions) \ dropped}
            = {s \in Range(sessions) : ~(s.id = id /\ s.subId = subId)}
      BY <1>0 DEF Range
    <2> QED
      BY <2>2, <2>3
  <1> HIDE DEF all, one
  <1>3. ASSUME NEW t \in Seq(X), \A i \in 1 .. Len(t) : ~Matches(t[i], id, subId)
        PROVE  Send(t, id, subId).reached = {}
    <2>1. Send(t, id, subId) = SentFrom(t, id, subId, 1)
      BY SendIs
    <2>2. For(t, id, subId, 1) = {}
      BY <1>3 DEF For
    <2> QED
      BY <2>1, <2>2 DEF SentFrom
  <1>4. ASSUME id # Anybody PROVE Send(all, id, subId).reached = {}
    <2>1. ASSUME NEW i \in 1 .. Len(all) PROVE ~Matches(all[i], id, subId)
      <3>1. all[i] \in Range(all)
        BY <1>1 DEF Range
      <3> QED
        BY <1>1, <1>4, <3>1 DEF Matches
    <2> QED
      BY <1>1, <1>3, <2>1
  <1>5. ASSUME id # Anybody, subId # Anybody PROVE Send(one, id, subId).reached = {}
    <2>1. ASSUME NEW i \in 1 .. Len(one) PROVE ~Matches(one[i], id, subId)
      <3>1. one[i] \in Range(one)
        BY <1>2 DEF Range
      <3> QED
        BY <1>2, <1>5, <3>1 DEF Matches
    <2> QED
      BY <1>2, <1>3, <2>1
  <1> QED
    BY <1>1, <1>2, <1>4, <1>5 DEF DroppedIsGone, all, one

-----------------------------------------------------------------------------
(* Tokens.                                                                 *)

LEMMA FindIs ==
  ASSUME NEW s \in Seq(Bytes), NEW token, NEW last \in 0 .. Len(s)
  PROVE  \/ /\ Find(s, token, last) = -1
            /\ \A i \in last .. Len(s) : ~OccursAt(s, token, i)
         \/ /\ Find(s, token, last) \in last .. Len(s) /\ Find(s, token, last) # -1
            /\ OccursAt(s, token, Find(s, token, last))
            /\ \A i \in last .. Find(s, token, last) - 1 : ~OccursAt(s, token, i)
  <1> DEFINE found == {i \in last .. Len(s) : OccursAt(s, token, i)}
  <1>0. Len(s) \in Nat
    OBVIOUS
  <1>1. Find(s, token, last) =
          IF found = {} THEN -1 ELSE CHOOSE i \in found : \A k \in found : i <= k
    BY DEF Find
  <1>2. CASE found = {}
    BY <1>1, <1>2
  <1>3. CASE found # {}
    <2>1. found \subseteq Nat
      BY <1>0
    <2>2. \E i \in found : \A k \in found : i <= k
      <3> HIDE DEF found
      <3> QED
        BY <1>3, <2>1, Least
    <2>3. PICK o : o = CHOOSE i \in found : \A k \in found : i <= k
      OBVIOUS
    <2>4. o \in found /\ \A k \in found : o <= k
      <3> HIDE DEF found
      <3> QED
        BY <2>2, <2>3
    <2>5. Find(s, token, last) = o
      <3> HIDE DEF found
      <3> QED
        BY <1>1, <1>3, <2>3
    <2>6. o \in last .. Len(s) /\ OccursAt(s, token, o) /\ o # -1
      BY <1>0, <2>4
    <2>7. \A i \in last .. o - 1 : ~OccursAt(s, token, i)
      <3> TAKE i \in last .. o - 1
      <3>1. i \in last .. Len(s) /\ ~(o <= i)
        BY <1>0, <2>6
      <3> QED
        BY <2>4, <3>1
    <2> QED
      BY <2>5, <2>6, <2>7
  <1> QED
    BY <1>2, <1>3

\* An occurrence lies within the text.
LEMMA OccursWithin ==
  ASSUME NEW s \in Seq(Bytes), NEW token \in Seq(Bytes), token # <<>>,
         NEW i \in Nat, OccursAt(s, token, i)
  PROVE  /\ Len(token) \in Nat /\ Len(token) > 0
         /\ i + Len(token) <= Len(s) /\ i \in 0 .. Len(s) - 1 /\ i + Len(token) \in 0 .. Len(s)
  <1>1. Len(token) \in Nat /\ Len(token) # 0 /\ Len(s) \in Nat
    BY EmptySeq
  <1>2. i + Len(token) <= Len(s)
    BY DEF OccursAt
  <1> QED
    BY <1>1, <1>2

EndStep(q, s, token, i) ==
  IF i = 0 THEN 0
  ELSE IF OccursAt(s, token, i - 1) /\ q[i - 1] <= i - 1
       THEN i - 1 + Len(token) ELSE q[i - 1]
EndSteps(q, s, token) == q = [i \in 0 .. Len(s) |-> EndStep(q, s, token, i)]

\* q[i] is where the last token in front of i ends.
Ended(q, s, token) ==
  /\ q \in [0 .. Len(s) -> Nat]
  /\ q[0] = 0
  /\ \A i \in 1 .. Len(s) : q[i] = IF OccursAt(s, token, i - 1) /\ q[i - 1] <= i - 1
                                   THEN i - 1 + Len(token) ELSE q[i - 1]
  /\ Starts(s, token) = {i \in 0 .. Len(s) : OccursAt(s, token, i) /\ q[i] <= i}

LEMMA StartsIs ==
  ASSUME NEW s \in Seq(Bytes), NEW token \in Seq(Bytes)
  PROVE  \E q : Ended(q, s, token)
  <1> DEFINE N == Len(s)
             L == Len(token)
             g == [i \in 1 .. N |-> [x \in Nat |-> IF OccursAt(s, token, i - 1) /\ x <= i - 1
                                                   THEN i - 1 + L ELSE x]]
  <1>0. N \in Nat /\ L \in Nat
    OBVIOUS
  <1>1. g \in [1 .. N -> [Nat -> Nat]]
    <2>1. \A i \in 1 .. N : i - 1 + L \in Nat
      BY <1>0
    <2> HIDE DEF L, N
    <2> QED
      BY <2>1
  <1>2. PICK f \in [0 .. N -> Nat] : Iterates(f, 0, g, N)
    <2> HIDE DEF g, N
    <2> QED
      BY <1>0, <1>1, IteratesExist
  <1>3. \A i \in 0 .. N : f[i] = EndStep(f, s, token, i)
    <2> TAKE i \in 0 .. N
    <2>1. CASE i = 0
      BY <1>2, <2>1 DEF Iterates, EndStep
    <2>2. CASE i # 0
      <3>1. i \in 1 .. N /\ i - 1 \in 0 .. N
        BY <1>0, <2>2
      <3>2. f[i] = g[i][f[i - 1]] /\ f[i - 1] \in Nat
        BY <1>2, <3>1 DEF Iterates
      <3>3. g[i][f[i - 1]] = IF OccursAt(s, token, i - 1) /\ f[i - 1] <= i - 1
                             THEN i - 1 + L ELSE f[i - 1]
        BY <3>1, <3>2
      <3> HIDE DEF g
      <3> QED
        BY <2>2, <3>2, <3>3 DEF EndStep
    <2> QED
      BY <2>1, <2>2
  <1>4. EndSteps(f, s, token)
    BY <1>2, <1>3 DEF EndSteps
  <1>5. PICK h : h = CHOOSE q : EndSteps(q, s, token)
    OBVIOUS
  <1>6. EndSteps(h, s, token)
    BY <1>4, <1>5
  <1>7. /\ h = [i \in 0 .. N |-> h[i]] /\ h[0] = 0
        /\ \A i \in 1 .. N : h[i] = IF OccursAt(s, token, i - 1) /\ h[i - 1] <= i - 1
                                    THEN i - 1 + L ELSE h[i - 1]
    <2>1. \A i \in 0 .. N : h[i] = EndStep(h, s, token, i)
      BY <1>6 DEF EndSteps
    <2>2. 0 \in 0 .. N /\ \A i \in 1 .. N : i \in 0 .. N /\ i # 0
      BY <1>0
    <2>3. h = [i \in 0 .. N |-> h[i]]
      BY <1>6 DEF EndSteps
    <2> QED
      BY <2>1, <2>2, <2>3 DEF EndStep
  <1>8. h \in [0 .. N -> Nat]
    <2> DEFINE T == {i \in 0 .. N : h[i] \in Nat}
    <2>1. 0 \in T
      BY <1>0, <1>7
    <2>2. ASSUME NEW i \in 1 .. N, i - 1 \in T PROVE i \in T
      <3>1. h[i - 1] \in Nat /\ i - 1 + L \in Nat /\ i \in 0 .. N
        BY <1>0, <2>2
      <3>2. h[i] \in Nat
        BY <1>7, <3>1
      <3> QED
        BY <3>1, <3>2
    <2>3. 0 .. N \subseteq T
      <3> HIDE DEF T, N
      <3> QED
        BY <1>0, <2>1, <2>2, UpTo
    <2> QED
      BY <1>7, <2>3
  <1>9. Starts(s, token) = {i \in 0 .. N : OccursAt(s, token, i) /\ h[i] <= i}
    <2>1. Starts(s, token) =
            {i \in 0 .. N : /\ OccursAt(s, token, i)
                            /\ (CHOOSE q : EndSteps(q, s, token))[i] <= i}
      BY DEF Starts, EndSteps, EndStep
    <2> QED
      BY <1>5, <2>1
  <1> QED
    BY <1>7, <1>8, <1>9 DEF Ended

\* No token starts where none occurs.
LEMMA BetweenTokens ==
  ASSUME NEW s \in Seq(Bytes), NEW token \in Seq(Bytes), NEW q, Ended(q, s, token),
         NEW last \in 0 .. Len(s), NEW o \in last .. Len(s),
         \A i \in last .. o - 1 : ~OccursAt(s, token, i)
  PROVE  /\ q[o] = q[last]
         /\ \A i \in last .. o - 1 : i \notin Starts(s, token)
  <1> DEFINE T == {i \in 0 .. o : last <= i => q[i] = q[last]}
  <1>0. Len(s) \in Nat /\ o \in Nat /\ last \in Nat
    OBVIOUS
  <1>1. 0 \in T
    <2>1. last <= 0 => last = 0
      BY <1>0
    <2> QED
      BY <1>0, <2>1
  <1>2. ASSUME NEW i \in 1 .. o, i - 1 \in T PROVE i \in T
    <2>1. i \in 0 .. o /\ i \in 1 .. Len(s)
      BY <1>0
    <2>2. CASE last <= i - 1
      <3>1. i - 1 \in last .. o - 1
        BY <1>0, <2>2
      <3>2. q[i] = q[i - 1]
        BY <2>1, <3>1 DEF Ended
      <3> QED
        BY <1>2, <2>1, <2>2, <3>2
    <2>3. CASE ~(last <= i - 1)
      <3>1. last <= i => last = i
        BY <1>0, <2>3
      <3> QED
        BY <2>1, <3>1
    <2> QED
      BY <2>2, <2>3
  <1>3. q[o] = q[last]
    <2>1. 0 .. o \subseteq T
      <3> HIDE DEF T
      <3> QED
        BY <1>0, <1>1, <1>2, UpTo
    <2>2. o \in 0 .. o /\ last <= o
      BY <1>0
    <2> QED
      BY <2>1, <2>2
  <1>4. \A i \in last .. o - 1 : i \notin Starts(s, token)
    BY DEF Ended
  <1> QED
    BY <1>3, <1>4

\* A token that starts is read to its end.
LEMMA WithinToken ==
  ASSUME NEW s \in Seq(Bytes), NEW token \in Seq(Bytes), token # <<>>,
         NEW q, Ended(q, s, token), NEW o \in 0 .. Len(s), OccursAt(s, token, o), q[o] <= o
  PROVE  /\ o \in Starts(s, token)
         /\ q[o + Len(token)] = o + Len(token)
         /\ \A i \in o + 1 .. o + Len(token) - 1 : i \notin Starts(s, token)
  <1> DEFINE L == Len(token)
  <1>0. Len(s) \in Nat /\ o \in Nat /\ L \in Nat /\ L > 0 /\ o + L <= Len(s)
    BY OccursWithin
  <1>1. o \in Starts(s, token)
    BY DEF Ended
  <1> DEFINE T == {x \in 0 .. L : x > 0 => q[o + x] = o + L}
  <1>2. 0 \in T
    BY <1>0
  <1>3. ASSUME NEW x \in 1 .. L, x - 1 \in T PROVE x \in T
    <2>1. x \in 0 .. L /\ o + x \in 1 .. Len(s) /\ (o + x) - 1 = o + (x - 1)
      BY <1>0
    <2>2. CASE x = 1
      <3>1. (o + x) - 1 = o
        BY <1>0, <2>2
      <3>2. q[o + x] = o + L
        BY <2>1, <3>1 DEF Ended
      <3> QED
        BY <2>1, <3>2
    <2>3. CASE x # 1
      <3>1. x - 1 > 0 /\ ~(o + L <= (o + x) - 1)
        BY <1>0, <2>3
      <3>2. q[(o + x) - 1] = o + L
        BY <1>3, <2>1, <3>1
      <3>3. q[o + x] = q[(o + x) - 1]
        BY <2>1, <3>1, <3>2 DEF Ended
      <3> QED
        BY <2>1, <3>2, <3>3
    <2> QED
      BY <2>2, <2>3
  <1>4. 0 .. L \subseteq T
    <2> HIDE DEF T, L
    <2> QED
      BY <1>0, <1>2, <1>3, UpTo
  <1>5. q[o + L] = o + L
    <2>1. L \in 0 .. L /\ L > 0
      BY <1>0
    <2>2. L \in T
      <3> HIDE DEF T
      <3> QED
        BY <1>4, <2>1
    <2> QED
      BY <2>1, <2>2
  <1>6. ASSUME NEW i \in o + 1 .. o + L - 1 PROVE i \notin Starts(s, token)
    <2>1. PICK x \in 0 .. L : x > 0 /\ x = i - o /\ o + x = i
      <3>1. i - o \in 0 .. L /\ i - o > 0 /\ o + (i - o) = i
        BY <1>0
      <3> QED
        BY <3>1
    <2>2. q[i] = o + L
      <3>1. x \in T
        <4> HIDE DEF T
        <4> QED
          BY <1>4
      <3> QED
        BY <2>1, <3>1
    <2>3. ~(o + L <= i)
      BY <1>0
    <2> QED
      BY <2>2, <2>3 DEF Ended
  <1> QED
    BY <1>1, <1>5, <1>6

\* A token that started has ended where the last one has.
LEMMA TokenBefore ==
  ASSUME NEW s \in Seq(Bytes), NEW token \in Seq(Bytes), token # <<>>,
         NEW q, Ended(q, s, token), NEW k \in Starts(s, token), NEW j \in k + 1 .. Len(s)
  PROVE  k + Len(token) <= q[j]
  <1> DEFINE L == Len(token)
             T == {i \in 0 .. j : k < i => k + L <= q[i]}
  <1>0. Len(s) \in Nat /\ L \in Nat /\ k \in 0 .. Len(s) /\ j \in Nat /\ k < j /\ j <= Len(s)
    BY DEF Ended
  <1>1. q[k] <= k /\ OccursAt(s, token, k)
    BY DEF Ended
  <1>2. 0 \in T
    BY <1>0
  <1>3. ASSUME NEW i \in 1 .. j, i - 1 \in T PROVE i \in T
    <2>1. /\ i \in 0 .. j /\ i \in 1 .. Len(s) /\ q[i - 1] \in Nat
          /\ q[i] = IF OccursAt(s, token, i - 1) /\ q[i - 1] <= i - 1
                    THEN i - 1 + L ELSE q[i - 1]
      <3>1. i \in 0 .. j /\ i \in 1 .. Len(s) /\ i - 1 \in 0 .. Len(s)
        BY <1>0
      <3> QED
        BY <3>1 DEF Ended
    <2>2. CASE k = i - 1
      <3>1. q[i] = k + L
        BY <1>1, <2>1, <2>2
      <3> QED
        BY <1>0, <2>1, <3>1
    <2>3. CASE k # i - 1
      <3>1. k < i => k < i - 1
        BY <1>0, <2>3
      <3>2. k < i => k + L <= q[i - 1]
        BY <1>3, <3>1
      <3>3. k < i => k + L <= i - 1 + L
        BY <1>0
      <3>4. k < i => k + L <= q[i]
        BY <2>1, <3>2, <3>3
      <3> QED
        BY <2>1, <3>4
    <2> QED
      BY <2>2, <2>3
  <1>4. 0 .. j \subseteq T
    <2> HIDE DEF T
    <2> QED
      BY <1>0, <1>2, <1>3, UpTo
  <1>5. j \in 0 .. j
    BY <1>0
  <1> QED
    BY <1>0, <1>4, <1>5

\* What lies between two tokens is outside all of them.
LEMMA BetweenIsOutside ==
  ASSUME NEW s \in Seq(Bytes), NEW token \in Seq(Bytes), token # <<>>,
         NEW q, Ended(q, s, token), NEW last \in 0 .. Len(s), q[last] <= last,
         NEW o \in last .. Len(s), \A i \in last .. o - 1 : ~OccursAt(s, token, i)
  PROVE  \A i \in last .. o - 1 : i \notin InToken(s, Starts(s, token), token)
  <1>0. Len(s) \in Nat /\ last \in Nat /\ Len(token) \in Nat /\ q[last] \in Nat
    BY DEF Ended
  <1> SUFFICES ASSUME NEW i \in last .. o - 1, NEW k \in Starts(s, token),
                      k <= i, i < k + Len(token)
               PROVE  FALSE
    BY DEF InToken
  <1>1. k \in 0 .. Len(s)
    BY DEF Ended
  <1>2. ~(k \in last .. o - 1)
    BY BetweenTokens
  <1>3. last \in k + 1 .. Len(s)
    BY <1>0, <1>1, <1>2
  <1>4. k + Len(token) <= q[last]
    BY <1>3, TokenBefore
  <1> QED
    BY <1>0, <1>1, <1>4

LEMMA WithinIsInside ==
  ASSUME NEW s \in Seq(Bytes), NEW token \in Seq(Bytes), token # <<>>,
         NEW q, Ended(q, s, token), NEW o \in 0 .. Len(s), OccursAt(s, token, o), q[o] <= o
  PROVE  \A i \in o .. o + Len(token) - 1 : i \in InToken(s, Starts(s, token), token)
  <1>1. o \in Starts(s, token)
    BY WithinToken
  <1>2. Len(s) \in Nat /\ Len(token) \in Nat /\ o \in Nat /\ o + Len(token) <= Len(s)
    BY OccursWithin
  <1> SUFFICES ASSUME NEW i \in o .. o + Len(token) - 1
               PROVE  i \in 0 .. Len(s) - 1 /\ o <= i /\ i < o + Len(token)
    BY <1>1 DEF InToken
  <1> QED
    BY <1>2

-----------------------------------------------------------------------------
(* Flattened parts of a sequence.                                          *)

LEMMA FlattenType ==
  ASSUME NEW Y, NEW c \in Seq(Seq(Y))
  PROVE  FlattenSeq(c) \in Seq(Y)
  <1>1. CASE c = <<>>
    BY <1>1, FlattenEmpty, EmptySeq
  <1>2. CASE c # <<>>
    <2>1. PICK q \in [1 .. Len(c) -> Seq(Y)] : FlattenSeq(c) = q[Len(c)]
      BY <1>2, FlattenIs
    <2>2. Len(c) \in 1 .. Len(c)
      BY <1>2, EmptySeq
    <2> QED
      BY <2>1, <2>2
  <1> QED
    BY <1>1, <1>2

LEMMA MiddleIs ==
  ASSUME NEW S, NEW c \in Seq(S), NEW i \in 0 .. Len(c), NEW m \in i .. Len(c)
  PROVE  /\ SubSeq(c, i + 1, m) \in Seq(S)
         /\ i = m => SubSeq(c, i + 1, m) = <<>>
         /\ i < m => /\ c[i + 1] \in S
                     /\ SubSeq(c, i + 1, m) = <<c[i + 1]>> \o SubSeq(c, (i + 1) + 1, m)
  <1>0. Len(c) \in Nat /\ i \in Nat /\ m \in Nat
    OBVIOUS
  <1>1. CASE i = m
    <2>1. SubSeq(c, i + 1, m) = <<>>
      BY <1>0, <1>1, SubSeqEmpty
    <2>2. <<>> \in Seq(S) /\ ~(i < m)
      BY <1>0, <1>1, EmptySeq
    <2> QED
      BY <2>1, <2>2
  <1>2. CASE i # m
    <2>1. i + 1 \in 1 .. Len(c) /\ m \in i + 1 .. Len(c)
      BY <1>0, <1>2
    <2>2. SubSeq(c, i + 1, m) = <<c[i + 1]>> \o SubSeq(c, (i + 1) + 1, m)
      BY <2>1, SubSeqRecursiveFirst
    <2>3. \A n \in i + 1 .. m : c[n] \in S
      BY <1>0
    <2>4. SubSeq(c, i + 1, m) \in Seq(S)
      <3>1. i + 1 \in Int /\ m \in Int
        BY <1>0
      <3> QED
        BY <2>3, <3>1, SubSeqProperties
    <2> QED
      BY <1>2, <2>1, <2>2, <2>3, <2>4
  <1> QED
    BY <1>1, <1>2

LEMMA FlattenMiddle ==
  ASSUME NEW Y, NEW c \in Seq(Seq(Y)), NEW i \in 0 .. Len(c), NEW m \in i .. Len(c)
  PROVE  /\ FlattenSeq(SubSeq(c, i + 1, m)) \in Seq(Y)
         /\ i = m => FlattenSeq(SubSeq(c, i + 1, m)) = <<>>
         /\ i < m => /\ c[i + 1] \in Seq(Y)
                     /\ FlattenSeq(SubSeq(c, i + 1, m))
                          = c[i + 1] \o FlattenSeq(SubSeq(c, (i + 1) + 1, m))
  <1>0. Len(c) \in Nat /\ i \in Nat /\ m \in Nat
    OBVIOUS
  <1>1. PICK Z : Z = Seq(Y)
    OBVIOUS
  <1>2. c \in Seq(Z)
    BY <1>1
  <1>3. SubSeq(c, i + 1, m) \in Seq(Z) /\ (i = m => SubSeq(c, i + 1, m) = <<>>)
    BY <1>2, MiddleIs
  <1>4. FlattenSeq(SubSeq(c, i + 1, m)) \in Seq(Y)
    BY <1>1, <1>3, FlattenType
  <1>5. ASSUME i < m
        PROVE  /\ c[i + 1] \in Seq(Y)
               /\ FlattenSeq(SubSeq(c, i + 1, m))
                    = c[i + 1] \o FlattenSeq(SubSeq(c, (i + 1) + 1, m))
    <2>1. c[i + 1] \in Z /\ SubSeq(c, i + 1, m) = <<c[i + 1]>> \o SubSeq(c, (i + 1) + 1, m)
      BY <1>2, <1>5, MiddleIs
    <2>2. i + 1 \in 0 .. Len(c) /\ m \in i + 1 .. Len(c)
      BY <1>0, <1>5
    <2>3. SubSeq(c, (i + 1) + 1, m) \in Seq(Z)
      BY <1>2, <2>2, MiddleIs
    <2>4. PICK x \in Seq(Y), r \in Seq(Seq(Y)) :
            x = c[i + 1] /\ r = SubSeq(c, (i + 1) + 1, m)
      BY <1>1, <2>1, <2>3
    <2>5. FlattenSeq(<<x>> \o r) = x \o FlattenSeq(r)
      BY FlattenCons
    <2> QED
      BY <2>1, <2>4, <2>5
  <1> QED
    BY <1>3, <1>4, <1>5, FlattenEmpty

Associates(S) == \A x, y, z \in S : (x \o y) \o z = x \o (y \o z)

LEMMA Associative ==
  ASSUME NEW Y
  PROVE  Associates(Seq(Y))
  BY ConcatAssociative DEF Associates

\* In two parts.
LEMMA FlattenSplit ==
  ASSUME NEW Y, NEW c \in Seq(Seq(Y)), NEW i \in 0 .. Len(c), NEW j \in i .. Len(c),
         NEW m \in j .. Len(c)
  PROVE  FlattenSeq(SubSeq(c, i + 1, m))
           = FlattenSeq(SubSeq(c, i + 1, j)) \o FlattenSeq(SubSeq(c, j + 1, m))
  <1> DEFINE F(x, y) == FlattenSeq(SubSeq(c, x + 1, y))
             T == {k \in 0 .. j : i <= k => F(k, m) = F(k, j) \o F(j, m)}
  <1>0. Len(c) \in Nat /\ i \in Nat /\ j \in Nat /\ m \in Nat /\ j \in 0 .. Len(c)
    OBVIOUS
  <1>a. Associates(Seq(Y))
    BY Associative
  <1>1. F(j, m) \in Seq(Y)
    <2>1. FlattenSeq(SubSeq(c, j + 1, m)) \in Seq(Y)
      BY <1>0, FlattenMiddle
    <2> QED
      BY <2>1
  <1>2. ASSUME NEW k \in 0 .. j, k + 1 .. j \subseteq T PROVE k \in T
    <2>1. k \in 0 .. Len(c) /\ j \in k .. Len(c) /\ m \in k .. Len(c)
      BY <1>0
    <2>2. CASE k = j
      <3>1. F(k, j) = <<>>
        BY <2>1, <2>2, FlattenMiddle
      <3>2. <<>> \o F(j, m) = F(j, m)
        BY <1>1, ConcatEmptySeq
      <3> QED
        BY <2>2, <3>1, <3>2
    <2>3. CASE k # j
      <3>1. k < j /\ k < m /\ k + 1 \in 0 .. Len(c) /\ j \in k + 1 .. Len(c) /\ k + 1 \in k + 1 .. j
        BY <1>0, <2>1, <2>3
      <3>2. c[k + 1] \in Seq(Y) /\ F(k, m) = c[k + 1] \o F(k + 1, m)
        BY <2>1, <3>1, FlattenMiddle
      <3>3. F(k, j) = c[k + 1] \o F(k + 1, j)
        BY <2>1, <3>1, FlattenMiddle
      <3>4. F(k + 1, j) \in Seq(Y)
        BY <3>1, FlattenMiddle
      <3>5. i <= k => F(k + 1, m) = F(k + 1, j) \o F(j, m)
        <4>1. k + 1 \in T /\ (i <= k => i <= k + 1)
          <5> HIDE DEF T
          <5> QED
            BY <1>0, <1>2, <3>1
        <4> QED
          BY <4>1
      <3>6. PICK x \in Seq(Y), y \in Seq(Y), z \in Seq(Y) :
              x = c[k + 1] /\ y = F(k + 1, j) /\ z = F(j, m)
        BY <1>1, <3>2, <3>4
      <3>7. (x \o y) \o z = x \o (y \o z)
        BY <1>a DEF Associates
      <3> HIDE DEF F
      <3> QED
        BY <3>2, <3>3, <3>5, <3>6, <3>7
    <2> QED
      BY <2>2, <2>3
  <1>3. 0 .. j \subseteq T
    <2> HIDE DEF T
    <2> QED
      BY <1>0, <1>2, DownFrom
  <1>4. i \in 0 .. j /\ i <= i
    BY <1>0
  <1> QED
    BY <1>3, <1>4

LEMMA FlattenNothing ==
  ASSUME NEW Y, NEW c \in Seq(Seq(Y)), NEW i \in 0 .. Len(c), NEW j \in i .. Len(c),
         \A n \in i + 1 .. j : c[n] = <<>>
  PROVE  FlattenSeq(SubSeq(c, i + 1, j)) = <<>>
  <1> DEFINE F(x) == FlattenSeq(SubSeq(c, x + 1, j))
             T == {k \in 0 .. j : i <= k => F(k) = <<>>}
  <1>0. Len(c) \in Nat /\ i \in Nat /\ j \in Nat
    OBVIOUS
  <1>1. ASSUME NEW k \in 0 .. j, k + 1 .. j \subseteq T PROVE k \in T
    <2>1. k \in 0 .. Len(c) /\ j \in k .. Len(c)
      BY <1>0
    <2>2. CASE k = j
      BY <2>1, <2>2, FlattenMiddle
    <2>3. CASE k # j
      <3>1. k < j /\ k + 1 \in k + 1 .. j
        BY <1>0, <2>3
      <3>2. F(k) = c[k + 1] \o F(k + 1)
        BY <2>1, <3>1, FlattenMiddle
      <3>3. i <= k => c[k + 1] = <<>>
        BY <1>0, <3>1
      <3>4. i <= k => F(k + 1) = <<>>
        <4>1. k + 1 \in T /\ (i <= k => i <= k + 1)
          <5> HIDE DEF T
          <5> QED
            BY <1>0, <1>1, <3>1
        <4> QED
          BY <4>1
      <3>5. PICK e \in Seq(Y) : e = <<>>
        BY EmptySeq
      <3>6. e \o e = e
        BY <3>5, ConcatEmptySeq
      <3> HIDE DEF F
      <3> QED
        BY <3>2, <3>3, <3>4, <3>5, <3>6
    <2> QED
      BY <2>2, <2>3
  <1>2. 0 .. j \subseteq T
    <2> HIDE DEF T
    <2> QED
      BY <1>0, <1>1, DownFrom
  <1>3. i \in 0 .. j /\ i <= i
    BY <1>0
  <1> QED
    BY <1>2, <1>3

\* Only the first is not empty.
LEMMA FlattenFirst ==
  ASSUME NEW Y, NEW c \in Seq(Seq(Y)), NEW i \in 0 .. Len(c), NEW j \in i + 1 .. Len(c),
         \A n \in i + 2 .. j : c[n] = <<>>
  PROVE  FlattenSeq(SubSeq(c, i + 1, j)) = c[i + 1]
  <1>0. Len(c) \in Nat /\ i \in Nat /\ j \in Nat /\ j \in i .. Len(c) /\ i < j
        /\ i + 1 \in 0 .. Len(c) /\ (i + 1) + 1 = i + 2
    OBVIOUS
  <1>a. i < j => /\ c[i + 1] \in Seq(Y)
                 /\ FlattenSeq(SubSeq(c, i + 1, j))
                      = c[i + 1] \o FlattenSeq(SubSeq(c, (i + 1) + 1, j))
    <2>1. j \in i .. Len(c)
      BY <1>0
    <2> QED
      BY <2>1, FlattenMiddle
  <1>1. c[i + 1] \in Seq(Y) /\ FlattenSeq(SubSeq(c, i + 1, j))
                                 = c[i + 1] \o FlattenSeq(SubSeq(c, (i + 1) + 1, j))
    BY <1>0, <1>a
  <1>2. FlattenSeq(SubSeq(c, (i + 1) + 1, j)) = <<>>
    <2>1. \A n \in (i + 1) + 1 .. j : c[n] = <<>>
      BY <1>0
    <2> QED
      BY <1>0, <2>1, FlattenNothing
  <1>3. c[i + 1] \o <<>> = c[i + 1]
    BY <1>1, ConcatEmptySeq
  <1> QED
    BY <1>1, <1>2, <1>3

\* Each is one element.
LEMMA FlattenSingles ==
  ASSUME NEW Y, NEW c \in Seq(Seq(Y)), NEW s \in Seq(Y), Len(s) = Len(c),
         NEW i \in 0 .. Len(c), NEW j \in i .. Len(c), \A n \in i + 1 .. j : c[n] = <<s[n]>>
  PROVE  FlattenSeq(SubSeq(c, i + 1, j)) = SubSeq(s, i + 1, j)
  <1> DEFINE F(x) == FlattenSeq(SubSeq(c, x + 1, j))
             T == {k \in 0 .. j : i <= k => F(k) = SubSeq(s, k + 1, j)}
  <1>0. Len(c) \in Nat /\ i \in Nat /\ j \in Nat
    OBVIOUS
  <1>1. ASSUME NEW k \in 0 .. j, k + 1 .. j \subseteq T PROVE k \in T
    <2>1. k \in 0 .. Len(c) /\ j \in k .. Len(c) /\ k \in 0 .. Len(s) /\ j \in k .. Len(s)
      BY <1>0
    <2>2. CASE k = j
      <3>1. F(k) = <<>>
        BY <2>1, <2>2, FlattenMiddle
      <3>2. k = j => SubSeq(s, k + 1, j) = <<>>
        BY <2>1, MiddleIs
      <3> QED
        BY <2>2, <3>1, <3>2
    <2>3. CASE k # j
      <3>1. k < j /\ k + 1 \in k + 1 .. j
        BY <1>0, <2>3
      <3>2. F(k) = c[k + 1] \o F(k + 1)
        BY <2>1, <3>1, FlattenMiddle
      <3>3. SubSeq(s, k + 1, j) = <<s[k + 1]>> \o SubSeq(s, (k + 1) + 1, j)
        BY <2>1, <3>1, MiddleIs
      <3>4. i <= k => c[k + 1] = <<s[k + 1]>>
        BY <1>0, <3>1
      <3>5. i <= k => F(k + 1) = SubSeq(s, (k + 1) + 1, j)
        <4>1. k + 1 \in T /\ (i <= k => i <= k + 1)
          <5> HIDE DEF T
          <5> QED
            BY <1>0, <1>1, <3>1
        <4> QED
          BY <4>1
      <3> HIDE DEF F
      <3> QED
        BY <3>2, <3>3, <3>4, <3>5
    <2> QED
      BY <2>2, <2>3
  <1>2. 0 .. j \subseteq T
    <2> HIDE DEF T
    <2> QED
      BY <1>0, <1>1, DownFrom
  <1>3. i \in 0 .. j /\ i <= i
    BY <1>0
  <1> QED
    BY <1>2, <1>3

-----------------------------------------------------------------------------
(* The loop over the tokens.                                               *)

LEMMA NextToken ==
  ASSUME NEW s \in Seq(Bytes), NEW token \in Seq(Bytes), token # <<>>,
         NEW q, Ended(q, s, token), NEW last \in 0 .. Len(s), q[last] <= last
  PROVE  \/ /\ Find(s, token, last) = -1
            /\ \A i \in last .. Len(s) - 1 : i \notin InToken(s, Starts(s, token), token)
         \/ \E o \in last .. Len(s) - 1 :
              /\ Find(s, token, last) = o
              /\ o + Len(token) \in o + 1 .. Len(s)
              /\ q[o + Len(token)] <= o + Len(token)
              /\ o \in Starts(s, token)
              /\ \A i \in o + 1 .. o + Len(token) - 1 : i \notin Starts(s, token)
              /\ \A i \in last .. o - 1 : i \notin InToken(s, Starts(s, token), token)
              /\ \A i \in o .. o + Len(token) - 1 : i \in InToken(s, Starts(s, token), token)
  <1>0. Len(s) \in Nat /\ last \in Nat /\ last <= Len(s) /\ Len(s) \in last .. Len(s)
    OBVIOUS
  <1>1. CASE Find(s, token, last) = -1
    <2>1. \A i \in last .. Len(s) : ~OccursAt(s, token, i)
      BY <1>0, <1>1, FindIs
    <2>2. \A i \in last .. Len(s) - 1 : ~OccursAt(s, token, i)
      BY <1>0, <2>1
    <2>3. \A i \in last .. Len(s) - 1 : i \notin InToken(s, Starts(s, token), token)
      BY <1>0, <2>2, BetweenIsOutside
    <2> QED
      BY <1>1, <2>3
  <1>2. CASE Find(s, token, last) # -1
    <2>1. PICK o \in last .. Len(s) :
            /\ Find(s, token, last) = o /\ OccursAt(s, token, o)
            /\ \A i \in last .. o - 1 : ~OccursAt(s, token, i)
      BY <1>2, FindIs
    <2>2. o \in Nat /\ o \in 0 .. Len(s)
      BY <1>0
    <2>3. /\ Len(token) \in Nat /\ Len(token) > 0
          /\ o + Len(token) <= Len(s) /\ o \in 0 .. Len(s) - 1
      BY <2>1, <2>2, OccursWithin
    <2>4. q[o] = q[last]
      BY <2>1, BetweenTokens
    <2>5. q[last] \in Nat
      BY DEF Ended
    <2>6. q[o] <= o
      BY <1>0, <2>2, <2>4, <2>5
    <2>7. /\ o \in Starts(s, token)
          /\ q[o + Len(token)] = o + Len(token)
          /\ \A i \in o + 1 .. o + Len(token) - 1 : i \notin Starts(s, token)
      BY <2>1, <2>2, <2>6, WithinToken
    <2>8. \A i \in last .. o - 1 : i \notin InToken(s, Starts(s, token), token)
      BY <2>1, BetweenIsOutside
    <2>9. \A i \in o .. o + Len(token) - 1 : i \in InToken(s, Starts(s, token), token)
      BY <2>1, <2>2, <2>6, WithinIsInside
    <2>10. /\ o \in last .. Len(s) - 1 /\ o + Len(token) \in o + 1 .. Len(s)
           /\ o + Len(token) <= o + Len(token)
      BY <1>0, <2>2, <2>3
    <2> QED
      BY <2>1, <2>7, <2>8, <2>9, <2>10
  <1> QED
    BY <1>1, <1>2

LEMMA StartIsInside ==
  ASSUME NEW s \in Seq(Bytes), NEW token \in Seq(Bytes), token # <<>>,
         NEW i \in 0 .. Len(s) - 1, i \notin InToken(s, Starts(s, token), token)
  PROVE  i \notin Starts(s, token)
  <1>1. Len(token) \in Nat /\ Len(token) # 0 /\ Len(s) \in Nat
    BY EmptySeq
  <1>2. i <= i /\ i < i + Len(token)
    BY <1>1
  <1> QED
    BY <1>2 DEF InToken

\* What both loops compute: the tail behind the last token, before that for each
\* token what it and the bytes in front of it give.
Continues(h, s, token, head, tail) ==
  \A last \in 0 .. Len(s) :
    h[last] = IF Find(s, token, last) = -1 THEN tail[last]
              ELSE head[last] \o h[Find(s, token, last) + Len(token)]

LEMMA LoopExists ==
  ASSUME NEW X, NEW s \in Seq(Bytes), NEW token \in Seq(Bytes), token # <<>>,
         NEW head \in [0 .. Len(s) -> Seq(X)], NEW tail \in [0 .. Len(s) -> Seq(X)]
  PROVE  \E h \in [0 .. Len(s) -> Seq(X)] : Continues(h, s, token, head, tail)
  <1> DEFINE n == Len(s)
             S == Seq(X)
             P(i) == Find(s, token, i)
             E == {i \in 0 .. n : P(i) = -1}
             a == [i \in E |-> tail[i]]
             next == [i \in 0 .. n \ E |-> P(i) + Len(token)]
             g == [i \in 0 .. n \ E |-> [x \in S |-> head[i] \o x]]
  <1>0. n \in Nat /\ \A i \in 0 .. n \ E : P(i) + Len(token) \in 0 .. n /\ i < P(i) + Len(token)
    <2>1. ASSUME NEW i \in 0 .. Len(s), Find(s, token, i) # -1
          PROVE  /\ Find(s, token, i) + Len(token) \in 0 .. Len(s)
                 /\ i < Find(s, token, i) + Len(token)
      <3>1. PICK o \in i .. Len(s) : Find(s, token, i) = o /\ OccursAt(s, token, o)
        BY <2>1, FindIs
      <3>2. o \in Nat /\ i \in Nat /\ i <= o
        OBVIOUS
      <3>3. Len(token) \in Nat /\ Len(token) > 0 /\ o + Len(token) \in 0 .. Len(s)
        BY <3>1, <3>2, OccursWithin
      <3>4. i < o + Len(token)
        BY <3>2, <3>3
      <3> QED
        BY <3>1, <3>3, <3>4
    <2> QED
      BY <2>1
  <1>1. a \in [E -> S]
    OBVIOUS
  <1>2. next \in [0 .. n \ E -> 0 .. n] /\ \A i \in 0 .. n \ E : i < next[i]
    <2> HIDE DEF n, P, E
    <2> QED
      BY <1>0
  <1>3. g \in [0 .. n \ E -> [S -> S]]
    <2>1. ASSUME NEW i \in 0 .. n \ E, NEW x \in S PROVE head[i] \o x \in S
      <3>1. PICK y \in Seq(X), z \in Seq(X) : y = head[i] /\ z = x
        OBVIOUS
      <3>2. y \o z \in Seq(X)
        BY ConcatIs
      <3> QED
        BY <3>1, <3>2
    <2> HIDE DEF n, E, S
    <2> QED
      BY <2>1
  <1>4. PICK f \in [0 .. n -> S] : Descends(f, n, E, a, next, g)
    <2>1. E \in SUBSET (0 .. n)
      OBVIOUS
    <2> HIDE DEF S, n, a, next, g, E, P
    <2> QED
      BY <1>0, <1>1, <1>2, <1>3, <2>1, DescentExists
  <1>5. ASSUME NEW i \in 0 .. n
        PROVE  f[i] = IF P(i) = -1 THEN tail[i] ELSE head[i] \o f[P(i) + Len(token)]
    <2>1. f[i] = IF i \in E THEN a[i] ELSE g[i][f[next[i]]]
      BY <1>4 DEF Descends
    <2>2. CASE i \in E
      <3>1. f[i] = tail[i] /\ P(i) = -1
        BY <2>1, <2>2
      <3> QED
        BY <3>1
    <2>3. CASE i \notin E
      <3>1. i \in 0 .. n \ E /\ next[i] \in 0 .. n /\ P(i) # -1 /\ next[i] = P(i) + Len(token)
        BY <1>2, <2>3
      <3>2. f[next[i]] \in S
        BY <1>4, <3>1
      <3>3. g[i][f[next[i]]] = head[i] \o f[next[i]]
        BY <3>1, <3>2
      <3> HIDE DEF g, a, next
      <3> QED
        BY <2>1, <2>3, <3>1, <3>3
    <2> QED
      BY <2>2, <2>3
  <1> QED
    BY <1>4, <1>5 DEF Continues

\* A boundary is where no token reaches over, at the start or behind a token.
Boundary(q, s, token, last) ==
  q[last] <= last /\ (last = 0 \/ last - 1 \in InToken(s, Starts(s, token), token))

\* The loop gives the contributions of the bytes, one after the other, if each of
\* its turns gives those of the bytes it passes.
LEMMA LoopIs ==
  ASSUME NEW X, NEW s \in Seq(Bytes), NEW token \in Seq(Bytes), token # <<>>,
         NEW q, Ended(q, s, token), NEW c \in Seq(Seq(X)), Len(c) = Len(s),
         NEW head, NEW tail, NEW h, Continues(h, s, token, head, tail),
         \A last \in 0 .. Len(s) : Boundary(q, s, token, last) =>
           /\ Find(s, token, last) = -1 =>
                tail[last] = FlattenSeq(SubSeq(c, last + 1, Len(s)))
           /\ Find(s, token, last) # -1 =>
                head[last] = FlattenSeq(SubSeq(c, last + 1, Find(s, token, last) + Len(token)))
  PROVE  h[0] = FlattenSeq(c)
  <1> DEFINE N == Len(s)
             L == Len(token)
             T == {i \in 0 .. N : Boundary(q, s, token, i) =>
                                    h[i] = FlattenSeq(SubSeq(c, i + 1, N))}
  <1>0. N \in Nat /\ L \in Nat /\ Len(c) = N
    OBVIOUS
  <1>1. ASSUME NEW i \in 0 .. N, i + 1 .. N \subseteq T PROVE i \in T
    <2> SUFFICES ASSUME Boundary(q, s, token, i)
                 PROVE  h[i] = FlattenSeq(SubSeq(c, i + 1, N))
      OBVIOUS
    <2>0. q[i] <= i
      BY DEF Boundary
    <2>1. h[i] = IF Find(s, token, i) = -1 THEN tail[i]
                 ELSE head[i] \o h[Find(s, token, i) + Len(token)]
      BY DEF Continues
    <2>2. CASE Find(s, token, i) = -1
      BY <2>1, <2>2
    <2>3. CASE Find(s, token, i) # -1
      <3>1. PICK o \in i .. Len(s) - 1 :
              /\ Find(s, token, i) = o
              /\ o + Len(token) \in o + 1 .. Len(s)
              /\ q[o + Len(token)] <= o + Len(token)
              /\ \A k \in o .. o + Len(token) - 1 : k \in InToken(s, Starts(s, token), token)
        BY <2>0, <2>3, NextToken
      <3>2. PICK e \in 0 .. Len(c) :
              /\ e = o + L /\ e \in i + 1 .. N /\ e \in i .. Len(c) /\ N \in e .. Len(c)
              /\ e - 1 \in o .. o + L - 1 /\ i \in 0 .. Len(c)
        <4>1. /\ o + L \in 0 .. Len(c) /\ o + L \in i + 1 .. N /\ o + L \in i .. Len(c)
              /\ N \in o + L .. Len(c) /\ (o + L) - 1 \in o .. o + L - 1
          BY <1>0, <3>1
        <4> QED
          BY <1>0, <4>1
      <3>3. Boundary(q, s, token, e)
        BY <3>1, <3>2 DEF Boundary
      <3>4. h[e] = FlattenSeq(SubSeq(c, e + 1, N))
        BY <1>1, <3>2, <3>3
      <3>5. head[i] = FlattenSeq(SubSeq(c, i + 1, e))
        BY <2>3, <3>1, <3>2
      <3>6. FlattenSeq(SubSeq(c, i + 1, N))
              = FlattenSeq(SubSeq(c, i + 1, e)) \o FlattenSeq(SubSeq(c, e + 1, N))
        <4> HIDE DEF N, L
        <4> QED
          BY <3>2, FlattenSplit
      <3> QED
        BY <2>1, <2>3, <3>1, <3>2, <3>4, <3>5, <3>6
    <2> QED
      BY <2>2, <2>3
  <1>2. 0 .. N \subseteq T
    <2> HIDE DEF T, N
    <2> QED
      BY <1>0, <1>1, DownFrom
  <1>3. 0 \in T /\ Boundary(q, s, token, 0)
    <2>1. 0 \in 0 .. N /\ q[0] = 0
      BY <1>0 DEF Ended
    <2> QED
      BY <1>2, <2>1 DEF Boundary
  <1>4. h[0] = FlattenSeq(SubSeq(c, 0 + 1, N))
    BY <1>3
  <1>5. SubSeq(c, 1, Len(c)) = c
    <2>1. PICK Z : Z = Seq(X)
      OBVIOUS
    <2>2. c \in Seq(Z)
      BY <2>1
    <2> QED
      BY <2>2, SubSeqFull
  <1>6. SubSeq(c, 0 + 1, N) = c
    BY <1>0, <1>5
  <1> QED
    BY <1>4, <1>6

-----------------------------------------------------------------------------
(* replace2().                                                             *)

ReplaceStep(h, s, token, target, last) ==
  LET offset == Find(s, token, last)
  IN  IF offset = -1 THEN Slice(s, last, Len(s) - last)
      ELSE Slice(s, last, offset - last) \o target \o h[offset + Len(token)]
Replaces(h, s, token, target) ==
  h = [last \in 0 .. Len(s) |-> ReplaceStep(h, s, token, target, last)]
ReplaceTail(s) == [last \in 0 .. Len(s) |-> Slice(s, last, Len(s) - last)]
ReplaceHead(s, token, target) ==
  [last \in 0 .. Len(s) |->
     IF Find(s, token, last) = -1 THEN <<>>
     ELSE Slice(s, last, Find(s, token, last) - last) \o target]

LEMMA SliceLength ==
  ASSUME NEW s \in Seq(Bytes), NEW i \in Nat, NEW n \in Nat, i + n <= Len(s)
  PROVE  Slice(s, i, n) \in Seq(Bytes) /\ Len(Slice(s, i, n)) = n
  BY SliceIs

\* A slice up to an offset.
LEMMA SliceTo ==
  ASSUME NEW s \in Seq(Bytes), NEW i \in 0 .. Len(s), NEW j \in i .. Len(s)
  PROVE  /\ Slice(s, i, j - i) \in Seq(Bytes) /\ Slice(s, i, j - i) = SubSeq(s, i + 1, j)
         /\ Slice(s, i, j - i) = <<>> => j - i = 0
  <1>1. /\ i \in Nat /\ j - i \in Nat /\ i + (j - i) <= Len(s) /\ i + (j - i) = j
    OBVIOUS
  <1>2. Slice(s, i, j - i) \in Seq(Bytes) /\ Len(Slice(s, i, j - i)) = j - i
    <2>1. PICK n \in Nat : n = j - i /\ i + n <= Len(s)
      BY <1>1
    <2>2. i \in Nat
      BY <1>1
    <2>3. Slice(s, i, n) \in Seq(Bytes) /\ Len(Slice(s, i, n)) = n
      BY <2>1, <2>2, SliceLength
    <2> QED
      BY <2>1, <2>3
  <1>3. Slice(s, i, j - i) = SubSeq(s, i + 1, j)
    BY <1>1 DEF Slice
  <1>4. Slice(s, i, j - i) = <<>> => j - i = 0
    BY <1>2, EmptySeq
  <1> QED
    BY <1>2, <1>3, <1>4

LEMMA Replace2Is ==
  ASSUME NEW s \in Seq(Bytes), NEW token \in Seq(Bytes), token # <<>>, NEW target \in Seq(Bytes)
  PROVE  \E h : /\ Continues(h, s, token, ReplaceHead(s, token, target), ReplaceTail(s))
                /\ Replace2(s, token, target) = h[0]
  <1> DEFINE head == ReplaceHead(s, token, target)
             tail == ReplaceTail(s)
  <1>0. Len(s) \in Nat
    OBVIOUS
  <1>1. head \in [0 .. Len(s) -> Seq(Bytes)]
    <2>1. ASSUME NEW last \in 0 .. Len(s), Find(s, token, last) # -1
          PROVE  Slice(s, last, Find(s, token, last) - last) \o target \in Seq(Bytes)
      <3>1. PICK o \in last .. Len(s) : Find(s, token, last) = o
        BY <2>1, FindIs
      <3>2. Slice(s, last, o - last) \in Seq(Bytes)
        BY SliceTo
      <3>3. Slice(s, last, o - last) \o target \in Seq(Bytes)
        BY <3>2, ConcatIs
      <3> QED
        BY <3>1, <3>3
    <2>2. <<>> \in Seq(Bytes)
      BY EmptySeq
    <2> QED
      BY <2>1, <2>2 DEF ReplaceHead
  <1>2. tail \in [0 .. Len(s) -> Seq(Bytes)]
    <2>1. ASSUME NEW last \in 0 .. Len(s) PROVE Slice(s, last, Len(s) - last) \in Seq(Bytes)
      <3>1. Len(s) \in last .. Len(s)
        BY <1>0
      <3> QED
        BY <3>1, SliceTo
    <2> QED
      BY <2>1 DEF ReplaceTail
  <1>3. PICK f \in [0 .. Len(s) -> Seq(Bytes)] : Continues(f, s, token, head, tail)
    <2> HIDE DEF head, tail
    <2> QED
      BY <1>1, <1>2, LoopExists
  <1>4. Replaces(f, s, token, target)
    <2>1. ASSUME NEW last \in 0 .. Len(s) PROVE f[last] = ReplaceStep(f, s, token, target, last)
      <3>1. f[last] = IF Find(s, token, last) = -1 THEN tail[last]
                      ELSE head[last] \o f[Find(s, token, last) + Len(token)]
        BY <1>3 DEF Continues
      <3>2. tail[last] = Slice(s, last, Len(s) - last)
        BY DEF ReplaceTail
      <3>3. Find(s, token, last) # -1 =>
              head[last] = Slice(s, last, Find(s, token, last) - last) \o target
        BY DEF ReplaceHead
      <3> HIDE DEF head, tail
      <3> QED
        BY <3>1, <3>2, <3>3 DEF ReplaceStep
    <2> QED
      BY <1>3, <2>1 DEF Replaces
  <1>5. PICK h : h = CHOOSE r : Replaces(r, s, token, target)
    OBVIOUS
  <1>6. Replaces(h, s, token, target)
    BY <1>4, <1>5
  <1>7. Replace2(s, token, target) = h[0]
    <2>1. Replace2(s, token, target) = (CHOOSE r : Replaces(r, s, token, target))[0]
      BY DEF Replace2, Replaces, ReplaceStep
    <2> QED
      BY <1>5, <2>1
  <1>8. Continues(h, s, token, head, tail)
    <2>1. ASSUME NEW last \in 0 .. Len(s)
          PROVE  h[last] = IF Find(s, token, last) = -1 THEN tail[last]
                           ELSE head[last] \o h[Find(s, token, last) + Len(token)]
      <3>1. h[last] = ReplaceStep(h, s, token, target, last)
        BY <1>6 DEF Replaces
      <3>2. tail[last] = Slice(s, last, Len(s) - last)
        BY DEF ReplaceTail
      <3>3. Find(s, token, last) # -1 =>
              head[last] = Slice(s, last, Find(s, token, last) - last) \o target
        BY DEF ReplaceHead
      <3> HIDE DEF head, tail
      <3> QED
        BY <3>1, <3>2, <3>3 DEF ReplaceStep
    <2> QED
      BY <2>1 DEF Continues
  <1> QED
    BY <1>7, <1>8

\* What each byte gives.
SubstitutedAt(s, token, target) ==
  [n \in 1 .. Len(s) |->
     IF n - 1 \in Starts(s, token) THEN target
     ELSE IF n - 1 \in InToken(s, Starts(s, token), token) THEN <<>> ELSE <<s[n]>>]

LEMMA ReplacesIs ==
  ASSUME NEW s \in Seq(Bytes), NEW token \in Seq(Bytes), token # <<>>, NEW target \in Seq(Bytes)
  PROVE  Replace2(s, token, target) = Substituted(s, token, target)
  <1>1. PICK q : Ended(q, s, token)
    BY StartsIs
  <1>2. PICK h : /\ Continues(h, s, token, ReplaceHead(s, token, target), ReplaceTail(s))
                 /\ Replace2(s, token, target) = h[0]
    BY Replace2Is
  <1>3. PICK c : c = SubstitutedAt(s, token, target)
    OBVIOUS
  <1>4. Substituted(s, token, target) = FlattenSeq(c)
    BY <1>3 DEF Substituted, SubstitutedAt
  <1>5. Len(s) \in Nat
    OBVIOUS
  <1>6. c \in Seq(Seq(Bytes)) /\ Len(c) = Len(s)
    <2>1. PICK Z : Z = Seq(Bytes)
      OBVIOUS
    <2>2. \A n \in 1 .. Len(s) : <<s[n]>> \in Z
      BY <2>1
    <2>3. target \in Z /\ <<>> \in Z
      BY <2>1, EmptySeq
    <2>4. c \in [1 .. Len(s) -> Z]
      BY <1>3, <2>2, <2>3 DEF SubstitutedAt
    <2>5. c \in Seq(Z) /\ Len(c) = Len(s)
      BY <1>5, <2>4
    <2> QED
      BY <2>1, <2>5
  \* Outside the tokens a byte gives itself.
  <1>7. ASSUME NEW i \in 0 .. Len(s), NEW j \in i .. Len(s),
               \A k \in i .. j - 1 : k \notin InToken(s, Starts(s, token), token)
        PROVE  FlattenSeq(SubSeq(c, i + 1, j)) = Slice(s, i, j - i)
    <2>1. ASSUME NEW n \in i + 1 .. j PROVE c[n] = <<s[n]>>
      <3>1. n - 1 \in i .. j - 1 /\ n - 1 \in 0 .. Len(s) - 1 /\ n \in 1 .. Len(s)
        BY <1>5
      <3>2. n - 1 \notin InToken(s, Starts(s, token), token)
        BY <1>7, <3>1
      <3>3. n - 1 \notin Starts(s, token)
        BY <3>1, <3>2, StartIsInside
      <3> QED
        BY <1>3, <3>1, <3>2, <3>3 DEF SubstitutedAt
    <2>2. i \in 0 .. Len(c) /\ j \in i .. Len(c)
      BY <1>6
    <2>3. FlattenSeq(SubSeq(c, i + 1, j)) = SubSeq(s, i + 1, j)
      BY <1>6, <2>1, <2>2, FlattenSingles
    <2> QED
      BY <2>3, SliceTo
  <1>8. ASSUME NEW last \in 0 .. Len(s), Boundary(q, s, token, last),
               Find(s, token, last) = -1
        PROVE  ReplaceTail(s)[last] = FlattenSeq(SubSeq(c, last + 1, Len(s)))
    <2>1. \A k \in last .. Len(s) - 1 : k \notin InToken(s, Starts(s, token), token)
      BY <1>1, <1>8, NextToken DEF Boundary
    <2>2. Len(s) \in last .. Len(s)
      BY <1>5
    <2>3. FlattenSeq(SubSeq(c, last + 1, Len(s))) = Slice(s, last, Len(s) - last)
      BY <1>7, <2>1, <2>2
    <2> QED
      BY <2>3 DEF ReplaceTail
  <1>9. ASSUME NEW last \in 0 .. Len(s), Boundary(q, s, token, last),
               Find(s, token, last) # -1
        PROVE  ReplaceHead(s, token, target)[last]
                 = FlattenSeq(SubSeq(c, last + 1, Find(s, token, last) + Len(token)))
    <2>1. PICK o \in last .. Len(s) - 1 :
            /\ Find(s, token, last) = o
            /\ o + Len(token) \in o + 1 .. Len(s)
            /\ o \in Starts(s, token)
            /\ \A i \in o + 1 .. o + Len(token) - 1 : i \notin Starts(s, token)
            /\ \A i \in last .. o - 1 : i \notin InToken(s, Starts(s, token), token)
            /\ \A i \in o .. o + Len(token) - 1 : i \in InToken(s, Starts(s, token), token)
      BY <1>1, <1>9, NextToken DEF Boundary
    <2>2. PICK e \in o + 1 .. Len(c) :
            /\ e = o + Len(token) /\ e \in o .. Len(c) /\ o \in last .. Len(c)
            /\ last \in 0 .. Len(c) /\ o \in 0 .. Len(c) /\ o \in last .. Len(s)
            /\ o \in Nat /\ Len(token) \in Nat
      <3>1. Len(token) \in Nat /\ o \in Nat /\ o \in last .. Len(s)
        BY <1>5
      <3>2. /\ o + Len(token) \in o + 1 .. Len(c) /\ o + Len(token) \in o .. Len(c)
            /\ o \in last .. Len(c) /\ last \in 0 .. Len(c) /\ o \in 0 .. Len(c)
        BY <1>5, <1>6, <2>1, <3>1
      <3> QED
        BY <3>1, <3>2
    <2>3. FlattenSeq(SubSeq(c, last + 1, o)) = Slice(s, last, o - last)
      BY <1>7, <2>1, <2>2
    <2>4. c[o + 1] = target
      <3>1. o + 1 \in 1 .. Len(s) /\ (o + 1) - 1 = o
        BY <1>5, <2>1, <2>2
      <3> QED
        BY <1>3, <2>1, <3>1 DEF SubstitutedAt
    <2>5. ASSUME NEW n \in o + 2 .. e PROVE c[n] = <<>>
      <3>1. /\ n \in 1 .. Len(s) /\ n - 1 \in o + 1 .. o + Len(token) - 1
            /\ n - 1 \in o .. o + Len(token) - 1
        BY <1>5, <1>6, <2>2
      <3> QED
        BY <1>3, <2>1, <3>1 DEF SubstitutedAt
    <2>6. FlattenSeq(SubSeq(c, o + 1, e)) = target
      <3>1. FlattenSeq(SubSeq(c, o + 1, e)) = c[o + 1]
        BY <1>6, <2>2, <2>5, FlattenFirst
      <3> QED
        BY <2>4, <3>1
    <2>7. FlattenSeq(SubSeq(c, last + 1, e))
            = FlattenSeq(SubSeq(c, last + 1, o)) \o FlattenSeq(SubSeq(c, o + 1, e))
      BY <1>6, <2>2, FlattenSplit
    <2>8. ReplaceHead(s, token, target)[last] = Slice(s, last, o - last) \o target
      BY <1>9, <2>1 DEF ReplaceHead
    <2> QED
      BY <2>1, <2>2, <2>3, <2>6, <2>7, <2>8
  <1>10. h[0] = FlattenSeq(c)
    <2>1. PICK head, tail : head = ReplaceHead(s, token, target) /\ tail = ReplaceTail(s)
      OBVIOUS
    <2>2. \A last \in 0 .. Len(s) : Boundary(q, s, token, last) =>
            /\ Find(s, token, last) = -1 =>
                 tail[last] = FlattenSeq(SubSeq(c, last + 1, Len(s)))
            /\ Find(s, token, last) # -1 =>
                 head[last] = FlattenSeq(SubSeq(c, last + 1, Find(s, token, last) + Len(token)))
      BY <1>8, <1>9, <2>1
    <2>3. Continues(h, s, token, head, tail)
      BY <1>2, <2>1
    <2> QED
      BY <1>1, <1>6, <2>2, <2>3, LoopIs
  <1> QED
    BY <1>2, <1>4, <1>10

-----------------------------------------------------------------------------
(* split().                                                                *)

SplitStep(h, s, token, last) ==
  LET offset == Find(s, token, last)
  IN  IF offset = -1 THEN Pushed(Slice(s, last, Len(s) - last))
      ELSE Pushed(Slice(s, last, offset - last)) \o h[offset + Len(token)]
Splits(h, s, token) == h = [last \in 0 .. Len(s) |-> SplitStep(h, s, token, last)]
SplitTail(s) == [last \in 0 .. Len(s) |-> Pushed(Slice(s, last, Len(s) - last))]
SplitHead(s, token) ==
  [last \in 0 .. Len(s) |->
     IF Find(s, token, last) = -1 THEN <<>>
     ELSE Pushed(Slice(s, last, Find(s, token, last) - last))]

LEMMA PushedIs ==
  ASSUME NEW Z, NEW piece \in Z
  PROVE  Pushed(piece) \in Seq(Z)
  <1>1. <<>> \in Seq(Z) /\ <<piece>> \in Seq(Z)
    BY EmptySeq
  <1> QED
    BY <1>1 DEF Pushed

LEMMA SplitIs ==
  ASSUME NEW s \in Seq(Bytes), NEW token \in Seq(Bytes), token # <<>>
  PROVE  \E h : /\ Continues(h, s, token, SplitHead(s, token), SplitTail(s))
                /\ Split(s, token) = h[0]
  <1> DEFINE head == SplitHead(s, token)
             tail == SplitTail(s)
  <1>0. Len(s) \in Nat
    OBVIOUS
  <1>a. PICK Z : Z = Seq(Bytes)
    OBVIOUS
  <1>1. head \in [0 .. Len(s) -> Seq(Z)]
    <2>1. ASSUME NEW last \in 0 .. Len(s), Find(s, token, last) # -1
          PROVE  Pushed(Slice(s, last, Find(s, token, last) - last)) \in Seq(Z)
      <3>1. PICK o \in last .. Len(s) : Find(s, token, last) = o
        BY <2>1, FindIs
      <3>2. Slice(s, last, o - last) \in Z
        BY <1>a, SliceTo
      <3>3. Pushed(Slice(s, last, o - last)) \in Seq(Z)
        BY <3>2, PushedIs
      <3> QED
        BY <3>1, <3>3
    <2>2. <<>> \in Seq(Z)
      BY EmptySeq
    <2> QED
      BY <2>1, <2>2 DEF SplitHead
  <1>2. tail \in [0 .. Len(s) -> Seq(Z)]
    <2>1. ASSUME NEW last \in 0 .. Len(s)
          PROVE  Pushed(Slice(s, last, Len(s) - last)) \in Seq(Z)
      <3>1. Len(s) \in last .. Len(s)
        BY <1>0
      <3>2. Slice(s, last, Len(s) - last) \in Z
        BY <1>a, <3>1, SliceTo
      <3> QED
        BY <3>2, PushedIs
    <2> QED
      BY <2>1 DEF SplitTail
  <1>3. PICK f \in [0 .. Len(s) -> Seq(Z)] : Continues(f, s, token, head, tail)
    <2> HIDE DEF head, tail
    <2> QED
      BY <1>1, <1>2, LoopExists
  <1>4. Splits(f, s, token)
    <2>1. ASSUME NEW last \in 0 .. Len(s) PROVE f[last] = SplitStep(f, s, token, last)
      <3>1. f[last] = IF Find(s, token, last) = -1 THEN tail[last]
                      ELSE head[last] \o f[Find(s, token, last) + Len(token)]
        BY <1>3 DEF Continues
      <3>2. tail[last] = Pushed(Slice(s, last, Len(s) - last))
        BY DEF SplitTail
      <3>3. Find(s, token, last) # -1 =>
              head[last] = Pushed(Slice(s, last, Find(s, token, last) - last))
        BY DEF SplitHead
      <3> HIDE DEF head, tail
      <3> QED
        BY <3>1, <3>2, <3>3 DEF SplitStep
    <2> QED
      BY <1>3, <2>1 DEF Splits
  <1>5. PICK h : h = CHOOSE r : Splits(r, s, token)
    OBVIOUS
  <1>6. Splits(h, s, token)
    BY <1>4, <1>5
  <1>7. Split(s, token) = h[0]
    <2>1. Split(s, token) = (CHOOSE r : Splits(r, s, token))[0]
      BY DEF Split, Splits, SplitStep
    <2> QED
      BY <1>5, <2>1
  <1>8. Continues(h, s, token, head, tail)
    <2>1. ASSUME NEW last \in 0 .. Len(s)
          PROVE  h[last] = IF Find(s, token, last) = -1 THEN tail[last]
                           ELSE head[last] \o h[Find(s, token, last) + Len(token)]
      <3>1. h[last] = SplitStep(h, s, token, last)
        BY <1>6 DEF Splits
      <3>2. tail[last] = Pushed(Slice(s, last, Len(s) - last))
        BY DEF SplitTail
      <3>3. Find(s, token, last) # -1 =>
              head[last] = Pushed(Slice(s, last, Find(s, token, last) - last))
        BY DEF SplitHead
      <3> HIDE DEF head, tail
      <3> QED
        BY <3>1, <3>2, <3>3 DEF SplitStep
    <2> QED
      BY <2>1 DEF Continues
  <1> QED
    BY <1>7, <1>8

\* A run ends at the first byte behind it that is not outside.
LEMMA RunIs ==
  ASSUME NEW s \in Seq(Bytes), NEW outside \in SUBSET (0 .. Len(s) - 1), NEW i \in 0 .. Len(s)
  PROVE  /\ RunFrom(s, outside, i) \in Seq(Bytes)
         /\ \A o \in i .. Len(s) : o \notin outside /\ i .. o - 1 \subseteq outside =>
              RunFrom(s, outside, i) = Slice(s, i, o - i)
  <1> DEFINE End(e) == e \in i .. Len(s) /\ e \notin outside /\ i .. e - 1 \subseteq outside
             V == {e \in i .. Len(s) : e \notin outside}
  <1>0. Len(s) \in Nat /\ i \in Nat /\ i <= Len(s)
    OBVIOUS
  <1>1. V \subseteq Nat /\ V # {}
    <2>1. Len(s) \in V
      BY <1>0
    <2> QED
      BY <1>0, <2>1
  <1>2. \E e : End(e)
    <2>1. PICK e \in V : \A m \in V : e <= m
      <3> HIDE DEF V
      <3> QED
        BY <1>1, Least
    <2>2. i .. e - 1 \subseteq outside
      <3> SUFFICES ASSUME NEW x \in i .. e - 1, x \notin outside PROVE FALSE
        OBVIOUS
      <3>1. x \in i .. Len(s) /\ ~(e <= x)
        BY <1>0, <2>1
      <3> QED
        BY <2>1, <3>1
    <2> QED
      BY <2>1, <2>2
  <1>3. PICK d : d = CHOOSE e \in i .. Len(s) : e \notin outside /\ i .. e - 1 \subseteq outside
    OBVIOUS
  <1>4. End(d)
    BY <1>2, <1>3
  <1>5. RunFrom(s, outside, i) = Slice(s, i, d - i)
    BY <1>3 DEF RunFrom
  <1>6. Slice(s, i, d - i) \in Seq(Bytes)
    BY <1>4, SliceTo
  <1>7. ASSUME NEW o \in i .. Len(s), o \notin outside, i .. o - 1 \subseteq outside
        PROVE  o = d
    <2>1. ~(o < d)
      <3> SUFFICES ASSUME o < d PROVE FALSE
        OBVIOUS
      <3>1. o \in i .. d - 1
        BY <1>0, <1>4
      <3> QED
        BY <1>4, <1>7, <3>1
    <2>2. ~(d < o)
      <3> SUFFICES ASSUME d < o PROVE FALSE
        OBVIOUS
      <3>1. d \in i .. o - 1
        BY <1>0, <1>4
      <3> QED
        BY <1>4, <1>7, <3>1
    <2> QED
      BY <1>0, <1>4, <2>1, <2>2
  <1> QED
    BY <1>5, <1>6, <1>7

Outside(s, token) == (0 .. Len(s) - 1) \ InToken(s, Starts(s, token), token)

\* What each byte gives.
RunsAt(s, token) ==
  [n \in 1 .. Len(s) |->
     IF n - 1 \in Outside(s, token) /\ n - 2 \notin Outside(s, token)
     THEN <<RunFrom(s, Outside(s, token), n - 1)>> ELSE <<>>]

\* Behind a boundary, what lies in front of the next token is one run.
LEMMA RunBetween ==
  ASSUME NEW s \in Seq(Bytes), NEW token \in Seq(Bytes), token # <<>>,
         NEW Z, Z = Seq(Bytes), NEW c \in Seq(Seq(Z)), Len(c) = Len(s), c = RunsAt(s, token),
         NEW q, NEW last \in 0 .. Len(s), Boundary(q, s, token, last),
         NEW o \in last .. Len(s),
         \A i \in last .. o - 1 : i \notin InToken(s, Starts(s, token), token),
         o = Len(s) \/ o \in InToken(s, Starts(s, token), token)
  PROVE  FlattenSeq(SubSeq(c, last + 1, o)) = Pushed(Slice(s, last, o - last))
  <1> DEFINE outside == Outside(s, token)
  <1>0. /\ Len(s) \in Nat /\ last \in Nat /\ o \in Nat /\ last <= o
        /\ last \in 0 .. Len(c) /\ o \in last .. Len(c)
    OBVIOUS
  <1>1. CASE last = o
    <2>1. FlattenSeq(SubSeq(c, last + 1, o)) = <<>>
      BY <1>0, <1>1, FlattenMiddle
    <2>2. Slice(s, last, o - last) = SubSeq(s, last + 1, o)
      BY SliceTo
    <2>3. SubSeq(s, last + 1, o) = <<>>
      BY <1>0, <1>1, SubSeqEmpty
    <2> QED
      BY <2>1, <2>2, <2>3 DEF Pushed
  <1>2. CASE last # o
    <2>0. last + 1 \in 1 .. Len(s) /\ (last + 1) - 1 = last /\ (last + 1) - 2 = last - 1
          /\ o \in last + 1 .. Len(c) /\ last \in last .. o - 1
      BY <1>0, <1>2
    <2>1. last \in outside /\ last - 1 \notin outside
      <3>1. last \in outside
        BY <1>0, <2>0 DEF Outside
      <3>2. last = 0 => last - 1 \notin 0 .. Len(s) - 1
        OBVIOUS
      <3> QED
        BY <3>1, <3>2 DEF Boundary, Outside
    <2>2. o \notin outside /\ last .. o - 1 \subseteq outside
      <3>1. o = Len(s) => o \notin 0 .. Len(s) - 1
        BY <1>0
      <3>2. o \notin outside
        BY <3>1 DEF Outside
      <3>3. \A i \in last .. o - 1 : i \in 0 .. Len(s) - 1
        BY <1>0
      <3> QED
        BY <3>2, <3>3 DEF Outside
    <2>3. RunFrom(s, outside, last) = Slice(s, last, o - last)
      <3>1. outside \in SUBSET (0 .. Len(s) - 1)
        BY DEF Outside
      <3> HIDE DEF outside
      <3> QED
        BY <2>2, <3>1, RunIs
    <2>4. c[last + 1] = <<Slice(s, last, o - last)>>
      BY <2>0, <2>1, <2>3 DEF RunsAt
    <2>5. ASSUME NEW n \in last + 2 .. o PROVE c[n] = <<>>
      <3>1. n \in 1 .. Len(s) /\ n - 2 \in last .. o - 1
        BY <1>0
      <3>2. n - 2 \in outside
        BY <2>2, <3>1
      <3> QED
        BY <3>1, <3>2 DEF RunsAt
    <2>6. FlattenSeq(SubSeq(c, last + 1, o)) = c[last + 1]
      BY <1>0, <2>0, <2>5, FlattenFirst
    <2>7. Slice(s, last, o - last) # <<>>
      <3>1. Slice(s, last, o - last) = <<>> => o - last = 0
        BY SliceTo
      <3> QED
        BY <1>0, <1>2, <3>1
    <2> QED
      BY <2>4, <2>6, <2>7 DEF Pushed
  <1> QED
    BY <1>1, <1>2

LEMMA SplitsIs ==
  ASSUME NEW s \in Seq(Bytes), NEW token \in Seq(Bytes), token # <<>>
  PROVE  Split(s, token) = Runs(s, token)
  <1>1. PICK q : Ended(q, s, token)
    BY StartsIs
  <1>2. PICK h : /\ Continues(h, s, token, SplitHead(s, token), SplitTail(s))
                 /\ Split(s, token) = h[0]
    BY SplitIs
  <1>3. PICK c : c = RunsAt(s, token)
    OBVIOUS
  <1>4. Runs(s, token) = FlattenSeq(c)
    BY <1>3 DEF Runs, RunsAt, Outside
  <1>5. Len(s) \in Nat
    OBVIOUS
  <1>a. PICK Z : Z = Seq(Bytes)
    OBVIOUS
  <1>6. c \in Seq(Seq(Z)) /\ Len(c) = Len(s)
    <2>1. PICK Y : Y = Seq(Z)
      OBVIOUS
    <2>2. ASSUME NEW n \in 1 .. Len(s) PROVE <<RunFrom(s, Outside(s, token), n - 1)>> \in Y
      <3>1. n - 1 \in 0 .. Len(s) /\ Outside(s, token) \in SUBSET (0 .. Len(s) - 1)
        BY <1>5 DEF Outside
      <3>2. RunFrom(s, Outside(s, token), n - 1) \in Z
        BY <1>a, <3>1, RunIs
      <3> QED
        BY <2>1, <3>2
    <2>3. <<>> \in Y
      BY <2>1, EmptySeq
    <2>4. c \in [1 .. Len(s) -> Y]
      BY <1>3, <2>2, <2>3 DEF RunsAt
    <2>5. c \in Seq(Y) /\ Len(c) = Len(s)
      BY <1>5, <2>4
    <2> QED
      BY <2>1, <2>5
  <1>8. ASSUME NEW last \in 0 .. Len(s), Boundary(q, s, token, last),
               Find(s, token, last) = -1
        PROVE  SplitTail(s)[last] = FlattenSeq(SubSeq(c, last + 1, Len(s)))
    <2>1. \A k \in last .. Len(s) - 1 : k \notin InToken(s, Starts(s, token), token)
      BY <1>1, <1>8, NextToken DEF Boundary
    <2>2. Len(s) \in last .. Len(s)
      BY <1>5
    <2>3. FlattenSeq(SubSeq(c, last + 1, Len(s))) = Pushed(Slice(s, last, Len(s) - last))
      <3>1. PICK o \in last .. Len(s) : o = Len(s)
        BY <2>2
      <3>2. /\ \A i \in last .. o - 1 : i \notin InToken(s, Starts(s, token), token)
            /\ o = Len(s) \/ o \in InToken(s, Starts(s, token), token)
        BY <2>1, <3>1
      <3>3. FlattenSeq(SubSeq(c, last + 1, o)) = Pushed(Slice(s, last, o - last))
        BY <1>3, <1>6, <1>8, <1>a, <3>2, RunBetween
      <3> QED
        BY <3>1, <3>3
    <2> QED
      BY <2>3 DEF SplitTail
  <1>9. ASSUME NEW last \in 0 .. Len(s), Boundary(q, s, token, last),
               Find(s, token, last) # -1
        PROVE  SplitHead(s, token)[last]
                 = FlattenSeq(SubSeq(c, last + 1, Find(s, token, last) + Len(token)))
    <2>1. PICK o \in last .. Len(s) - 1 :
            /\ Find(s, token, last) = o
            /\ o + Len(token) \in o + 1 .. Len(s)
            /\ \A i \in last .. o - 1 : i \notin InToken(s, Starts(s, token), token)
            /\ \A i \in o .. o + Len(token) - 1 : i \in InToken(s, Starts(s, token), token)
      BY <1>1, <1>9, NextToken DEF Boundary
    <2>2. PICK e \in o .. Len(c) :
            /\ e = o + Len(token) /\ o \in last .. Len(c)
            /\ last \in 0 .. Len(c) /\ o \in 0 .. Len(c) /\ o \in last .. Len(s)
            /\ o \in Nat /\ Len(token) \in Nat /\ o \in o .. o + Len(token) - 1
      <3>1. Len(token) \in Nat /\ o \in Nat /\ o \in last .. Len(s)
        BY <1>5
      <3>2. /\ o + Len(token) \in o .. Len(c) /\ o \in o .. o + Len(token) - 1
            /\ o \in last .. Len(c) /\ last \in 0 .. Len(c) /\ o \in 0 .. Len(c)
        BY <1>5, <1>6, <2>1, <3>1
      <3> QED
        BY <3>1, <3>2
    <2>3. FlattenSeq(SubSeq(c, last + 1, o)) = Pushed(Slice(s, last, o - last))
      <3>1. o \in InToken(s, Starts(s, token), token)
        BY <2>1, <2>2
      <3> QED
        BY <1>3, <1>6, <1>9, <1>a, <2>1, <2>2, <3>1, RunBetween
    <2>4. ASSUME NEW n \in o + 1 .. e PROVE c[n] = <<>>
      <3>1. n \in 1 .. Len(s) /\ n - 1 \in o .. o + Len(token) - 1
        BY <1>5, <1>6, <2>2
      <3>2. n - 1 \notin Outside(s, token)
        BY <2>1, <3>1 DEF Outside
      <3> QED
        BY <1>3, <3>1, <3>2 DEF RunsAt
    <2>5. FlattenSeq(SubSeq(c, o + 1, e)) = <<>>
      BY <1>6, <2>2, <2>4, FlattenNothing
    <2>6. FlattenSeq(SubSeq(c, last + 1, e))
            = FlattenSeq(SubSeq(c, last + 1, o)) \o FlattenSeq(SubSeq(c, o + 1, e))
      BY <1>6, <2>2, FlattenSplit
    <2>7. SplitHead(s, token)[last] = Pushed(Slice(s, last, o - last))
      BY <1>9, <2>1 DEF SplitHead
    <2>8. FlattenSeq(SubSeq(c, last + 1, o)) \in Seq(Z)
      BY <1>6, <2>2, FlattenMiddle
    <2>9. FlattenSeq(SubSeq(c, last + 1, o)) \o <<>> = FlattenSeq(SubSeq(c, last + 1, o))
      BY <2>8, ConcatEmptySeq
    <2> QED
      BY <2>1, <2>2, <2>3, <2>5, <2>6, <2>7, <2>9
  <1>10. h[0] = FlattenSeq(c)
    <2>1. PICK head, tail : head = SplitHead(s, token) /\ tail = SplitTail(s)
      OBVIOUS
    <2>2. \A last \in 0 .. Len(s) : Boundary(q, s, token, last) =>
            /\ Find(s, token, last) = -1 =>
                 tail[last] = FlattenSeq(SubSeq(c, last + 1, Len(s)))
            /\ Find(s, token, last) # -1 =>
                 head[last] = FlattenSeq(SubSeq(c, last + 1, Find(s, token, last) + Len(token)))
      BY <1>8, <1>9, <2>1
    <2>3. Continues(h, s, token, head, tail)
      BY <1>2, <2>1
    <2> QED
      BY <1>1, <1>6, <2>2, <2>3, LoopIs
  <1> QED
    BY <1>2, <1>4, <1>10

\* Both loops are what the reader byte by byte does.
LEMMA SplitsAndReplacesIs ==
  ASSUME NEW s \in Seq(Bytes), NEW token \in Seq(Bytes), token # <<>>, NEW target \in Seq(Bytes)
  PROVE  SplitsAndReplaces(s, token, target)
  <1>1. Split(s, token) = Runs(s, token)
    BY SplitsIs
  <1>2. Replace2(s, token, target) = Substituted(s, token, target)
    BY ReplacesIs
  <1> QED
    BY <1>1, <1>2 DEF SplitsAndReplaces

-----------------------------------------------------------------------------
(* The algorithms, for every input.                                        *)

LEMMA InputsStay == AllInputs => []IsInput(input)
  <1>1. FirstInput => IsInput(input)
    BY DEF FirstInput
  <1>2. IsInput(input) /\ [NextCut]_input => IsInput(input)'
    <2> SUFFICES ASSUME IsInput(input), NextCut PROVE IsInput(input')
      BY DEF IsInput, IsArchive
    <2>1. IsArchive(input)
      BY DEF IsInput, NextCut, Is, Blocks, Words, Sendings
    <2>2. Len(Archive(input.files)) \in Nat
      BY <2>1, ArchiveLength DEF IsArchive, Archives
    <2>3. /\ input'.algorithm = "archive" /\ input'.files = input.files
          /\ input'.cut = input.cut + 1 /\ input' \in Archives
      BY <2>1 DEF NextCut, IsArchive, Archives
    <2>4. IsArchive(input')
      BY <2>1, <2>2, <2>3 DEF NextCut, IsArchive, Archives
    <2> QED
      BY <2>4 DEF IsInput
  <1> QED
    BY <1>1, <1>2, PTL DEF AllInputs

(***************************************************************************)
(* Folder::decompression() of an archive that ends anywhere gives back the *)
(* files that lie in front of the end, each with its name and all of its   *)
(* data, and no part of a file: whatever the names, the data, the size of  *)
(* a length and the byte it ends at.                                       *)
(***************************************************************************)
THEOREM ArchivesKeepPrefixes == AllInputs => []ArchiveKeepsPrefix
  <1>1. IsInput(input) => ArchiveKeepsPrefix
    <2> SUFFICES ASSUME IsInput(input), Is("archive")
                 PROVE  KeepsPrefix(input.files, input.cut)
      BY DEF ArchiveKeepsPrefix
    <2>1. /\ input.files \in Seq(NamedData) /\ input.cut \in Nat
          /\ \A n \in 1 .. Len(input.files) : Storable(input.files[n])
          /\ input.cut <= Len(Archive(input.files))
      BY DEF IsInput, IsArchive, Archives, Is, Blocks, Words, Sendings
    <2>2. input.cut \in 0 .. Len(Archive(input.files))
      BY <2>1, ArchiveLength
    <2> QED
      BY <2>1, <2>2, KeepsPrefixIs
  <1> QED
    BY <1>1, InputsStay, PTL

(***************************************************************************)
(* Compressor::decompression() gives back all of the data or an error,     *)
(* whatever block size it has; all of it if its blocks are at least as     *)
(* large as the writer's.                                                  *)
(***************************************************************************)
THEOREM BlocksAreAllOrNothing == AllInputs => []BlocksAllOrNothing
  <1>1. IsInput(input) => BlocksAllOrNothing
    <2> SUFFICES ASSUME IsInput(input), Is("blocks")
                 PROVE  AllOrNothing(input.data, input.written, input.read)
      BY DEF BlocksAllOrNothing
    <2>1. input.data \in Seq(Bytes) /\ input.written \in Nat /\ input.read \in Nat
      BY DEF IsInput, IsArchive, Archives, Is, Blocks, Words, Sendings
    <2> QED
      BY <2>1, AllOrNothingIs
  <1> QED
    BY <1>1, InputsStay, PTL

(***************************************************************************)
(* Converter::split() and replace2() find the tokens that a reader finds   *)
(* who goes through the text byte by byte: split() gives what lies between *)
(* them, replace2() the text with the target in the place of each, for     *)
(* every text, every target and every token that is not empty.             *)
(***************************************************************************)
THEOREM SplitsAreFields == AllInputs => []SplitIsFields
  <1>1. IsInput(input) => SplitIsFields
    <2> SUFFICES ASSUME IsInput(input), Is("text")
                 PROVE  SplitsAndReplaces(input.text, input.token, input.target)
      BY DEF SplitIsFields
    <2>1. /\ input.text \in Seq(Bytes) /\ input.token \in Seq(Bytes)
          /\ input.target \in Seq(Bytes) /\ input.token # <<>>
      BY DEF IsInput, IsArchive, Archives, Is, Blocks, Words, Sendings
    <2> QED
      BY <2>1, SplitsAndReplacesIs
  <1> QED
    BY <1>1, InputsStay, PTL

(***************************************************************************)
(* NetworkServer::send_*() passes a message to the sessions it is for, in  *)
(* the order of the vector, up to the first that refuses it, and to none   *)
(* behind that one; whom drop_session() has dropped it reaches no more,    *)
(* and everybody else is still there.                                      *)
(***************************************************************************)
THEOREM SendsStopAtRefusal == AllInputs => []SendStopsAtRefusal
  <1>1. IsInput(input) => SendStopsAtRefusal
    <2> SUFFICES ASSUME IsInput(input), Is("send")
                 PROVE  /\ StopsAtRefusal(input.sessions, input.id, input.subId)
                        /\ DroppedIsGone(input.sessions, input.id, input.subId)
      BY DEF SendStopsAtRefusal
    <2>1. input.sessions \in Seq(Session)
      BY DEF IsInput, IsArchive, Archives, Is, Blocks, Words, Sendings
    <2> QED
      BY <2>1, StopsAtRefusalIs, DroppedIsGoneIs
  <1> QED
    BY <1>1, InputsStay, PTL

-----------------------------------------------------------------------------
(* FileManager.                                                            *)

Listed(r) == Range(r.failures) \cup Range(r.successes)

Consistent(g, r) ==
  /\ r \in Condition
  /\ r.count = Announced(g)
  /\ Listed(r) \subseteq FilesOf(g)
  /\ Arrived(r) = Cardinality(Listed(r))
  /\ Range(r.successes) \cap Broken = {}

Report == [guid : Guids, failures : Seq(Files), successes : Seq(Files)]

Whole(r) ==
  /\ Listed(r) = FilesOf(r.guid)
  /\ Arrived(r) = Announced(r.guid)
  /\ Broken \cap FilesOf(r.guid) \subseteq Range(r.failures)

Records ==
  \A g \in DOMAIN conditions :
    /\ g \in started
    /\ ~Reported(g)
    /\ Consistent(g, conditions[g])
    /\ Listed(conditions[g]) \subseteq handled

\* A completion job whose transfer is known finds it complete.
Jobs ==
  \A g \in Range(completions) :
    /\ g \in started
    /\ g \in DOMAIN conditions => Arrived(conditions[g]) = Announced(g)

Reports ==
  /\ \A i \in DOMAIN reports : reports[i].guid \in started /\ Whole(reports[i])
  /\ ReportedOnce

IInv == TypeOK /\ Records /\ Jobs /\ Reports

-----------------------------------------------------------------------------
LEMMA FilesFinite ==
  ASSUME NEW g
  PROVE  /\ IsFiniteSet(FilesOf(g))
         /\ Announced(g) \in Nat
         /\ FilesOf(g) \subseteq Files
  <1>1. FilesOf(g) \in SUBSET Files
    BY DEF FilesOf
  <1>2. IsFiniteSet(FilesOf(g))
    BY <1>1, FS_Subset, FileAssumption
  <1> QED
    BY <1>1, <1>2, FS_CardinalityType DEF Announced

\* When the count is reached, no file of the transfer is missing.
LEMMA CountReached ==
  ASSUME NEW g, NEW r, Consistent(g, r), Arrived(r) = Announced(g)
  PROVE  Listed(r) = FilesOf(g)
  <1>1. IsFiniteSet(FilesOf(g)) /\ Listed(r) \in SUBSET FilesOf(g)
    BY FilesFinite DEF Consistent
  <1>2. Cardinality(FilesOf(g)) = Cardinality(Listed(r))
    BY DEF Consistent, Announced
  <1> QED
    BY <1>1, <1>2, FS_Subset

\* Recording a file that is not listed yet.
LEMMA WithFileConsistent ==
  ASSUME NEW g, NEW r, Consistent(g, r), NEW f \in FilesOf(g), f \notin Listed(r),
         NEW failed \in BOOLEAN, f \in Broken => failed
  PROVE  /\ Consistent(g, WithFile(r, f, failed))
         /\ Listed(WithFile(r, f, failed)) = Listed(r) \cup {f}
  <1> DEFINE w == WithFile(r, f, failed)
  <1>1. /\ r \in Condition
        /\ r.failures \in Seq(Files)
        /\ r.successes \in Seq(Files)
        /\ f \in Files
    BY FilesFinite DEF Consistent, Condition
  <1>2. w = IF failed THEN [r EXCEPT !.failures = Append(r.failures, f)]
                      ELSE [r EXCEPT !.successes = Append(r.successes, f)]
    BY DEF WithFile
  <1>3. /\ Append(r.failures, f) \in Seq(Files)
        /\ Append(r.successes, f) \in Seq(Files)
        /\ Len(Append(r.failures, f)) = Len(r.failures) + 1
        /\ Len(Append(r.successes, f)) = Len(r.successes) + 1
    BY <1>1, AppendProperties
  <1>4. /\ Range(Append(r.failures, f)) = Range(r.failures) \cup {f}
        /\ Range(Append(r.successes, f)) = Range(r.successes) \cup {f}
    BY <1>1, RangeOfAppend
  <1>5. /\ w \in Condition
        /\ w.count = r.count
        /\ w.failures = IF failed THEN Append(r.failures, f) ELSE r.failures
        /\ w.successes = IF failed THEN r.successes ELSE Append(r.successes, f)
    BY <1>1, <1>2, <1>3 DEF Condition
  <1> HIDE DEF w
  <1>6. Listed(w) = Listed(r) \cup {f}
    BY <1>4, <1>5 DEF Listed
  <1>7. Arrived(w) = Arrived(r) + 1
    <2>1. Len(r.failures) \in Nat /\ Len(r.successes) \in Nat
      BY <1>1, LenProperties
    <2>2. \A a, b \in Nat : (a + 1) + b = (a + b) + 1 /\ a + (b + 1) = (a + b) + 1
      OBVIOUS
    <2>3. CASE failed
      <3>1. Len(w.failures) = Len(r.failures) + 1 /\ w.successes = r.successes
        BY <2>3, <1>3, <1>5
      <3>2. Arrived(w) = (Len(r.failures) + 1) + Len(r.successes)
        BY <3>1 DEF Arrived
      <3>3. Arrived(r) = Len(r.failures) + Len(r.successes)
        BY DEF Arrived
      <3> QED
        BY <2>1, <2>2, <3>2, <3>3
    <2>4. CASE ~failed
      <3>1. w.failures = r.failures /\ Len(w.successes) = Len(r.successes) + 1
        BY <2>4, <1>3, <1>5
      <3>2. Arrived(w) = Len(r.failures) + (Len(r.successes) + 1)
        BY <3>1 DEF Arrived
      <3>3. Arrived(r) = Len(r.failures) + Len(r.successes)
        BY DEF Arrived
      <3> QED
        BY <2>1, <2>2, <3>2, <3>3
    <2> QED
      BY <2>3, <2>4
  <1>8. Cardinality(Listed(w)) = Cardinality(Listed(r)) + 1
    <2>1. IsFiniteSet(Listed(r))
      BY FilesFinite, FS_Subset DEF Consistent
    <2> QED
      BY <2>1, <1>6, FS_AddElement
  <1>9. Range(w.successes) \cap Broken = {}
    BY <1>4, <1>5 DEF Consistent
  <1>10. Consistent(g, w)
    BY <1>5, <1>6, <1>7, <1>8, <1>9 DEF Consistent
  <1> QED
    BY <1>6, <1>10 DEF w

-----------------------------------------------------------------------------
LEMMA InvInit == Init => IInv
  <1> SUFFICES ASSUME Init PROVE IInv
    OBVIOUS
  <1> USE DEF Init
  <1>1. TypeOK
    <2>1. completions \in Seq(Guids)
      BY EmptySeq
    <2>2. reports \in Seq([guid : Guids, failures : Seq(Files), successes : Seq(Files)])
      BY EmptySeq
    <2> QED
      BY <2>1, <2>2 DEF TypeOK
  <1>2. Records
    BY DEF Records
  <1>3. Jobs
    BY DEF Jobs, Range
  <1>4. Reports
    BY DEF Reports, ReportedOnce
  <1> QED
    BY <1>1, <1>2, <1>3, <1>4 DEF IInv

LEMMA InvStartTransfer ==
  ASSUME IInv, NEW w \in Workers, NEW g \in Guids, StartTransfer(w, g)
  PROVE  IInv'
  <1> USE DEF IInv, StartTransfer, Known
  <1>1. g \notin DOMAIN conditions /\ ~Reported(g)
    BY DEF Records, Reports, Reported
  <1> DEFINE fresh == [count |-> Announced(g), failures |-> <<>>, successes |-> <<>>]
  <1>2. /\ DOMAIN conditions' = DOMAIN conditions \cup {g}
        /\ conditions'[g] = fresh
        /\ \A h \in DOMAIN conditions : conditions'[h] = conditions[h]
    BY <1>1
  <1>3. Consistent(g, fresh) /\ Listed(fresh) = {}
    <2>1. fresh \in Condition
      BY FilesFinite, EmptySeq DEF Condition
    <2>2. Range(<<>>) = {}
      BY DEF Range
    <2>3. Listed(fresh) = {} /\ Arrived(fresh) = 0
      BY <2>2 DEF Listed, Arrived
    <2> QED
      BY <2>1, <2>2, <2>3, FS_EmptySet DEF Consistent
  <1> HIDE DEF fresh
  <1>4. TypeOK'
    BY <1>2, <1>3 DEF TypeOK, Consistent
  <1>5. Reports'
    BY DEF Reports, ReportedOnce
  <1>6. \A h : Reported(h)' = Reported(h)
    BY DEF Reported
  <1>7. Records'
    BY <1>1, <1>2, <1>3, <1>6 DEF Records
  <1>8. Jobs'
    BY <1>2 DEF Jobs
  <1> QED
    BY <1>4, <1>5, <1>7, <1>8

LEMMA InvRecord ==
  ASSUME IInv, NEW w \in Workers, NEW f \in Files, NEW saved \in BOOLEAN,
         Record(w, f, saved)
  PROVE  IInv'
  <1> USE DEF IInv, Record, Known
  <1> DEFINE g == GuidOf[f]
             failed == f \in Broken \/ ~saved
             r == WithFile(conditions[g], f, failed)
  <1>1. g \in Guids /\ f \in FilesOf(g) /\ failed \in BOOLEAN /\ (f \in Broken => failed)
    BY FileAssumption DEF FilesOf
  <1>2. CASE g \notin DOMAIN conditions
    <2>1. UNCHANGED <<conditions, checking, completions, started, reports>>
          /\ handled' = handled \cup {f} /\ lost' = lost \cup {f}
      BY <1>2
    <2>2. TypeOK'
      BY <2>1 DEF TypeOK
    <2>3. \A h : Reported(h)' = Reported(h)
      BY <2>1 DEF Reported
    <2>4. Records'
      BY <2>1, <2>3 DEF Records
    <2>5. Jobs' /\ Reports'
      BY <2>1 DEF Jobs, Reports, ReportedOnce
    <2> QED
      BY <2>2, <2>4, <2>5
  <1>3. CASE g \in DOMAIN conditions
    <2>1. /\ conditions' = [conditions EXCEPT ![g] = r]
          /\ checking' = [checking EXCEPT ![w] = g]
          /\ handled' = handled \cup {f}
          /\ UNCHANGED <<lost, completions, started, reports>>
      BY <1>3
    <2>2. f \notin Listed(conditions[g]) /\ Consistent(g, conditions[g])
      BY <1>3 DEF Records
    <2>3. Consistent(g, r) /\ Listed(r) = Listed(conditions[g]) \cup {f}
      <3> HIDE DEF failed, g
      <3> QED
        BY <1>1, <2>2, WithFileConsistent
    <2> HIDE DEF r
    <2>4. /\ DOMAIN conditions' = DOMAIN conditions
          /\ conditions'[g] = r
          /\ \A h \in DOMAIN conditions \ {g} : conditions'[h] = conditions[h]
      BY <1>3, <2>1
    <2>5. TypeOK'
      <3>1. \A h \in DOMAIN conditions' : conditions'[h] \in Condition
        BY <2>3, <2>4 DEF TypeOK, Consistent
      <3>2. checking' \in [Workers -> Guids \cup {None}]
        BY <1>1, <2>1 DEF TypeOK
      <3> QED
        BY <2>1, <2>4, <3>1, <3>2 DEF TypeOK
    <2>6. \A h : Reported(h)' = Reported(h)
      BY <2>1 DEF Reported
    <2>7. Records'
      BY <1>3, <2>1, <2>3, <2>4, <2>6 DEF Records
    <2>8. g \notin Range(completions)
      <3>1. SUFFICES ASSUME g \in Range(completions) PROVE FALSE
        OBVIOUS
      <3>2. Arrived(conditions[g]) = Announced(g)
        BY <1>3, <3>1 DEF Jobs
      <3>3. Listed(conditions[g]) = FilesOf(g)
        BY <2>2, <3>2, CountReached
      <3> QED
        BY <1>1, <2>2, <3>3
    <2>9. Jobs'
      BY <2>1, <2>4, <2>8 DEF Jobs
    <2>10. Reports'
      BY <2>1 DEF Reports, ReportedOnce
    <2> QED
      BY <2>5, <2>7, <2>9, <2>10
  <1> QED
    BY <1>2, <1>3

LEMMA InvCheckCondition ==
  ASSUME IInv, NEW w \in Workers, CheckCondition(w)
  PROVE  IInv'
  <1> USE DEF IInv, CheckCondition, Known
  <1> DEFINE g == checking[w]
             full == g \in DOMAIN conditions /\ conditions[g].count = Arrived(conditions[g])
  <1>1. /\ g \in Guids
        /\ checking' = [checking EXCEPT ![w] = None]
        /\ completions' = IF full THEN Append(completions, g) ELSE completions
        /\ UNCHANGED <<conditions, started, handled, lost, reports>>
    BY DEF TypeOK
  <1>2. completions \in Seq(Guids)
    BY DEF TypeOK
  <1>3. completions' \in Seq(Guids)
    BY <1>1, <1>2, AppendProperties
  <1>4. TypeOK'
    BY <1>1, <1>3 DEF TypeOK
  <1>5. \A h : Reported(h)' = Reported(h)
    BY <1>1 DEF Reported
  <1>6. Records' /\ Reports'
    BY <1>1, <1>5 DEF Records, Reports, ReportedOnce
  <1>7. Jobs'
    <2>1. CASE full
      <3>1. g \in started /\ Arrived(conditions[g]) = Announced(g)
        BY <2>1 DEF Records, Consistent
      <3>2. Range(completions') = Range(completions) \cup {g}
        BY <1>1, <1>2, <2>1, RangeOfAppend
      <3> QED
        BY <1>1, <3>1, <3>2 DEF Jobs
    <2>2. CASE ~full
      BY <1>1, <2>2 DEF Jobs
    <2> QED
      BY <2>1, <2>2
  <1> QED
    BY <1>4, <1>6, <1>7

LEMMA InvRunCompletion ==
  ASSUME IInv, NEW w \in Workers, RunCompletion(w)
  PROVE  IInv'
  <1> USE DEF IInv, RunCompletion, Known
  <1> DEFINE g == Head(completions)
             report == [guid |-> g, failures |-> conditions[g].failures,
                        successes |-> conditions[g].successes]
  <1>1. /\ completions \in Seq(Guids) /\ completions # <<>>
        /\ completions' = Tail(completions)
        /\ UNCHANGED <<checking, started, handled, lost>>
    BY DEF TypeOK
  <1>2. /\ g \in Range(completions)
        /\ Range(completions') \subseteq Range(completions)
        /\ completions' \in Seq(Guids)
    BY <1>1, RangeOfTail, HeadTailProperties
  <1>3. CASE g \notin DOMAIN conditions
    <2>1. UNCHANGED <<conditions, reports>>
      BY <1>3
    <2>2. TypeOK'
      BY <1>1, <1>2, <2>1 DEF TypeOK
    <2>3. \A h : Reported(h)' = Reported(h)
      BY <2>1 DEF Reported
    <2>4. Records' /\ Jobs' /\ Reports'
      BY <1>1, <1>2, <2>1, <2>3 DEF Records, Jobs, Reports, ReportedOnce
    <2> QED
      BY <2>2, <2>4
  <1>4. CASE g \in DOMAIN conditions
    <2>1. conditions' = Without(g) /\ reports' = Append(reports, report)
      BY <1>4
    <2>2. /\ DOMAIN conditions' = DOMAIN conditions \ {g}
          /\ \A h \in DOMAIN conditions' : conditions'[h] = conditions[h]
      BY <2>1 DEF Without
    <2>3. /\ Consistent(g, conditions[g])
          /\ ~Reported(g)
          /\ g \in started
          /\ Arrived(conditions[g]) = Announced(g)
      BY <1>2, <1>4 DEF Records, Jobs
    <2>4. Listed(conditions[g]) = FilesOf(g)
      BY <2>3, CountReached
    <2>5. conditions[g] \in Condition /\ g \in Guids
      BY <1>4 DEF TypeOK
    <2>6. report \in Report /\ Whole(report)
      <3>1. report \in Report
        BY <2>5 DEF Report, Condition
      <3>2. Listed(report) = FilesOf(g)
        BY <2>4 DEF Listed
      <3>3. Arrived(report) = Announced(g)
        BY <2>3 DEF Arrived
      <3>4. Broken \cap FilesOf(g) \subseteq Range(report.failures)
        BY <2>3, <2>4 DEF Consistent, Listed
      <3> QED
        BY <3>1, <3>2, <3>3, <3>4 DEF Whole
    <2> HIDE DEF report
    <2>7. /\ reports' \in Seq(Report)
          /\ DOMAIN reports' = 1 .. Len(reports) + 1
          /\ DOMAIN reports = 1 .. Len(reports)
          /\ Len(reports) \in Nat
          /\ \A i \in 1 .. Len(reports) : reports'[i] = reports[i]
          /\ reports'[Len(reports) + 1] = report
      <3>1. reports \in Seq(Report)
        BY DEF TypeOK, Report
      <3> QED
        BY <2>1, <2>6, <3>1, AppendProperties, LenProperties
    <2>8. report.guid = g
      BY DEF report
    <2>9. TypeOK'
      BY <1>1, <1>2, <2>2, <2>7 DEF TypeOK, Report
    <2>10. \A h : Reported(h)' => Reported(h) \/ h = g
      BY <2>7, <2>8 DEF Reported
    <2>11. Records'
      BY <1>1, <2>2, <2>10 DEF Records
    <2>12. Jobs'
      BY <1>1, <1>2, <2>2 DEF Jobs
    <2>13. Reports'
      <3>1. \A i \in DOMAIN reports' : reports'[i].guid \in started /\ Whole(reports'[i])
        BY <2>3, <2>6, <2>7, <2>8 DEF Reports
      <3>2. ReportedOnce'
        BY <2>3, <2>7, <2>8 DEF Reports, ReportedOnce, Reported
      <3>3. (\A i \in DOMAIN reports : reports[i].guid \in started /\ Whole(reports[i]))'
        BY <1>1, <3>1 DEF Whole
      <3> QED
        BY <3>2, <3>3 DEF Reports
    <2> QED
      BY <2>9, <2>11, <2>12, <2>13
  <1> QED
    BY <1>3, <1>4

LEMMA InvNext == IInv /\ [Next]_vars => IInv'
  <1> SUFFICES ASSUME IInv, [Next]_vars PROVE IInv'
    OBVIOUS
  <1>1. CASE UNCHANGED vars
    <2>1. \A h : Reported(h)' = Reported(h)
      BY <1>1 DEF vars, Reported
    <2> QED
      BY <1>1, <2>1 DEF vars, IInv, TypeOK, Records, Jobs, Reports, ReportedOnce
  <1>2. CASE Next
    BY <1>2, InvStartTransfer, InvRecord, InvCheckCondition, InvRunCompletion DEF Next
  <1> QED
    BY <1>1, <1>2

LEMMA Invariance == Spec => []IInv
  <1>1. Init => IInv
    BY InvInit
  <1>2. IInv /\ [Next]_vars => IInv'
    BY InvNext
  <1> QED
    BY <1>1, <1>2, PTL DEF Spec

(***************************************************************************)
(* Whatever the workers interleave, and however many of them find the      *)
(* transfer complete, FileManager calls the received_files callback at     *)
(* most once for it.                                                       *)
(***************************************************************************)
THEOREM ReportsOnce == Spec => []ReportedOnce
  <1>1. IInv => ReportedOnce
    BY DEF IInv, Reports
  <1> QED
    BY <1>1, Invariance, PTL

(***************************************************************************)
(* What FileManager reports is complete: every file of the transfer, once, *)
(* the unreadable ones among the failures.                                 *)
(***************************************************************************)
THEOREM ReportsWhole == Spec => []ReportsAreWhole
  <1>1. IInv => ReportsAreWhole
    BY DEF IInv, Reports, Whole, Listed, ReportsAreWhole
  <1> QED
    BY <1>1, Invariance, PTL
=============================================================================
