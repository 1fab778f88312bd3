---------------------------- MODULE SequenceLemmas ----------------------------
(***************************************************************************)
(* What the proofs need about sequences beyond SequenceTheorems: the       *)
(* elements of a sequence, where a concatenation splits, sequences without *)
(* repetition, and induction over numbers and sequences.                   *)
(***************************************************************************)
EXTENDS SequenceTheorems, WellFoundedInduction, TLAPS

\* The empty sequence has no element.
LEMMA RangeOfEmpty == Range(<<>>) = {}
  BY DEF Range

LEMMA RangeInSet ==
  ASSUME NEW S, NEW s \in Seq(S)
  PROVE  Range(s) \subseteq S
  BY ElementOfSeq, LenProperties DEF Range

LEMMA RangeOfAppend ==
  ASSUME NEW S, NEW s \in Seq(S), NEW e \in S
  PROVE  Range(Append(s, e)) = Range(s) \cup {e}
  <1>1. DOMAIN s = 1 .. Len(s) /\ Len(s) \in Nat
    BY LenProperties
  <1>2. /\ Append(s, e) \in Seq(S)
        /\ Len(Append(s, e)) = Len(s) + 1
        /\ \A i \in 1 .. Len(s) : Append(s, e)[i] = s[i]
        /\ Append(s, e)[Len(s) + 1] = e
    BY AppendProperties
  <1>3. DOMAIN Append(s, e) = 1 .. Len(s) + 1
    BY <1>2, LenProperties
  <1> QED
    BY <1>1, <1>2, <1>3 DEF Range

LEMMA RangeOfTail ==
  ASSUME NEW S, NEW s \in Seq(S), s # <<>>
  PROVE  /\ Head(s) \in Range(s)
         /\ Range(Tail(s)) \subseteq Range(s)
  <1>1. DOMAIN s = 1 .. Len(s) /\ Len(s) \in Nat \ {0} /\ Head(s) = s[1]
    BY LenProperties, EmptySeq
  <1>2. /\ Tail(s) \in Seq(S)
        /\ Len(Tail(s)) = Len(s) - 1
        /\ \A i \in 1 .. Len(Tail(s)) : Tail(s)[i] = s[i + 1]
    BY HeadTailProperties
  <1>3. DOMAIN Tail(s) = 1 .. Len(s) - 1
    BY <1>2, LenProperties
  <1> QED
    BY <1>1, <1>2, <1>3 DEF Range

LEMMA RangeOfConcat ==
  ASSUME NEW S, NEW s \in Seq(S), NEW t \in Seq(S)
  PROVE  Range(s \o t) = Range(s) \cup Range(t)
  <1>1. /\ DOMAIN s = 1 .. Len(s) /\ Len(s) \in Nat
        /\ DOMAIN t = 1 .. Len(t) /\ Len(t) \in Nat
    BY LenProperties
  <1>2. /\ s \o t \in Seq(S)
        /\ Len(s \o t) = Len(s) + Len(t)
        /\ \A i \in 1 .. Len(s) + Len(t) :
             (s \o t)[i] = IF i <= Len(s) THEN s[i] ELSE t[i - Len(s)]
    BY ConcatProperties
  <1>3. DOMAIN (s \o t) = 1 .. Len(s) + Len(t)
    BY <1>2, LenProperties
  <1>4. Range(s \o t) \subseteq Range(s) \cup Range(t)
    BY <1>1, <1>2, <1>3 DEF Range
  <1>5. Range(s) \subseteq Range(s \o t)
    BY <1>1, <1>2, <1>3 DEF Range
  <1>6. ASSUME NEW x \in Range(t) PROVE x \in Range(s \o t)
    <2>1. PICK i \in 1 .. Len(t) : x = t[i]
      BY <1>1 DEF Range
    <2>2. Len(s) + i \in 1 .. Len(s) + Len(t) /\ (s \o t)[Len(s) + i] = t[i]
      BY <1>1, <1>2
    <2> QED
      BY <2>1, <2>2, <1>3 DEF Range
  <1> QED
    BY <1>4, <1>5, <1>6

\* The elements of the second sequence follow those of the first.
LEMMA ConcatIs ==
  ASSUME NEW S, NEW s \in Seq(S), NEW t \in Seq(S)
  PROVE  /\ s \o t \in Seq(S) /\ Len(s \o t) = Len(s) + Len(t)
         /\ \A i \in 1 .. Len(s) : (s \o t)[i] = s[i]
         /\ \A i \in 1 .. Len(t) : (s \o t)[Len(s) + i] = t[i]
  <1>1. /\ Len(s) \in Nat /\ Len(t) \in Nat
        /\ s \o t \in Seq(S) /\ Len(s \o t) = Len(s) + Len(t)
        /\ \A i \in 1 .. Len(s) + Len(t) :
             (s \o t)[i] = IF i <= Len(s) THEN s[i] ELSE t[i - Len(s)]
    BY ConcatProperties, LenProperties
  <1>2. \A i \in 1 .. Len(t) : /\ Len(s) + i \in 1 .. Len(s) + Len(t)
                               /\ ~(Len(s) + i <= Len(s)) /\ Len(s) + i - Len(s) = i
    BY <1>1
  <1>3. \A i \in 1 .. Len(s) : i \in 1 .. Len(s) + Len(t) /\ i <= Len(s)
    BY <1>1
  <1> QED
    BY <1>1, <1>2, <1>3

LEMMA ConsIs ==
  ASSUME NEW S, NEW x \in S, NEW s \in Seq(S)
  PROVE  /\ <<x>> \o s \in Seq(S) /\ Len(<<x>> \o s) = Len(s) + 1
         /\ (<<x>> \o s)[1] = x
         /\ \A i \in 1 .. Len(s) : (<<x>> \o s)[i + 1] = s[i]
  <1>1. PICK o \in Seq(S) : o = <<x>> /\ Len(o) = 1 /\ o[1] = x
    <2>1. <<x>> \in Seq(S)
      OBVIOUS
    <2>2. Len(<<x>>) = 1 /\ <<x>>[1] = x
      OBVIOUS
    <2> QED
      BY <2>1, <2>2
  <1>2. /\ o \o s \in Seq(S) /\ Len(o \o s) = Len(o) + Len(s)
        /\ \A i \in 1 .. Len(o) : (o \o s)[i] = o[i]
        /\ \A i \in 1 .. Len(s) : (o \o s)[Len(o) + i] = s[i]
    BY ConcatIs
  <1>3. /\ 1 \in 1 .. Len(o) /\ Len(o) + Len(s) = Len(s) + 1
        /\ \A i \in 1 .. Len(s) : Len(o) + i = i + 1
    BY <1>1, LenProperties
  <1> QED
    BY <1>1, <1>2, <1>3

\* The first elements of a sequence.
LEMMA FirstIs ==
  ASSUME NEW S, NEW s \in Seq(S), NEW m \in 0 .. Len(s)
  PROVE  /\ SubSeq(s, 1, m) \in Seq(S) /\ Len(SubSeq(s, 1, m)) = m
         /\ \A i \in 1 .. m : SubSeq(s, 1, m)[i] = s[i]
  <1>0. Len(s) \in Nat /\ m \in Nat
    OBVIOUS
  <1>1. CASE m = 0
    <2>1. PICK e \in Seq(S) : e = <<>> /\ Len(e) = 0
      BY EmptySeq
    <2>2. SubSeq(s, 1, m) = e
      BY <1>1, <2>1, SubSeqEmpty
    <2>3. \A i \in 1 .. m : FALSE
      BY <1>1
    <2> QED
      BY <1>1, <2>1, <2>2, <2>3
  <1>2. CASE m # 0
    <2>1. 1 \in 1 .. Len(s) /\ m \in 1 .. Len(s) /\ m - 1 + 1 = m
          /\ \A i \in 1 .. m : 1 + i - 1 = i
      BY <1>0, <1>2
    <2> QED
      BY <2>1
  <1> QED
    BY <1>1, <1>2

\* Concatenation splits where it was put together.
LEMMA SplitConcat ==
  ASSUME NEW S, NEW s \in Seq(S), NEW t \in Seq(S)
  PROVE  /\ SubSeq(s \o t, 1, Len(s)) = s
         /\ SubSeq(s \o t, Len(s) + 1, Len(s \o t)) = t
  <1>1. /\ s \o t \in Seq(S)
        /\ Len(s \o t) = Len(s) + Len(t)
        /\ Len(s) \in Nat
        /\ Len(t) \in Nat
        /\ \A i \in 1 .. Len(s) + Len(t) :
             (s \o t)[i] = IF i <= Len(s) THEN s[i] ELSE t[i - Len(s)]
    BY ConcatProperties, LenProperties
  <1>2. \A i \in 1 .. Len(s) + Len(t) : (s \o t)[i] \in S
    BY <1>1, ElementOfSeq
  <1>3. SubSeq(s \o t, 1, Len(s)) = s
    <2>1. \A i \in 1 .. Len(s) : (s \o t)[i] \in S
      BY <1>1, <1>2
    <2>2. /\ SubSeq(s \o t, 1, Len(s)) \in Seq(S)
          /\ Len(SubSeq(s \o t, 1, Len(s))) = Len(s)
          /\ \A i \in 1 .. Len(s) : SubSeq(s \o t, 1, Len(s))[i] = (s \o t)[i]
      BY <1>1, <2>1, SubSeqProperties
    <2>3. \A i \in 1 .. Len(s) : SubSeq(s \o t, 1, Len(s))[i] = s[i]
      BY <1>1, <2>2
    <2> QED
      BY <2>2, <2>3, SeqEqual
  <1>4. SubSeq(s \o t, Len(s) + 1, Len(s \o t)) = t
    <2> DEFINE m == Len(s) + 1
               n == Len(s) + Len(t)
               u == SubSeq(s \o t, m, n)
    <2>1. \A i \in m .. n : (s \o t)[i] \in S
      BY <1>1, <1>2
    <2>2. m \in Int /\ n \in Int
      BY <1>1
    <2>3. /\ u \in Seq(S)
          /\ Len(u) = IF m <= n THEN n - m + 1 ELSE 0
          /\ \A i \in 1 .. n - m + 1 : u[i] = (s \o t)[m + i - 1]
      <3> DEFINE c == s \o t
      <3>1. \A i \in m .. n : c[i] \in S
        BY <2>1
      <3> HIDE DEF c, m, n
      <3>2. /\ SubSeq(c, m, n) \in Seq(S)
            /\ Len(SubSeq(c, m, n)) = IF m <= n THEN n - m + 1 ELSE 0
            /\ \A i \in 1 .. n - m + 1 : SubSeq(c, m, n)[i] = c[m + i - 1]
        BY <3>1, <2>2, SubSeqProperties
      <3> QED
        BY <3>2 DEF c
    <2>4. Len(u) = Len(t)
      BY <1>1, <2>3
    <2>5. ASSUME NEW i \in 1 .. Len(u) PROVE u[i] = t[i]
      <3>1. i \in 1 .. n - m + 1 /\ m + i - 1 = Len(s) + i
        BY <1>1, <2>4
      <3>2. u[i] = (s \o t)[Len(s) + i]
        BY <2>3, <3>1
      <3>3. Len(s) + i \in 1 .. Len(s) + Len(t) /\ ~(Len(s) + i <= Len(s))
        BY <1>1, <2>4
      <3>4. Len(s) + i - Len(s) = i
        BY <1>1
      <3> QED
        BY <1>1, <3>2, <3>3, <3>4
    <2>6. u = t
      <3> HIDE DEF u
      <3> QED
        BY <2>3, <2>4, <2>5, SeqEqual
    <2> QED
      BY <2>6, <1>1
  <1> QED
    BY <1>3, <1>4

-----------------------------------------------------------------------------
(* Sequences without repetition *)

LEMMA AppendStaysInjective ==
  ASSUME NEW S, NEW s \in Seq(S), NEW e \in S, IsInjective(s), e \notin Range(s)
  PROVE  IsInjective(Append(s, e))
  <1>1. DOMAIN s = 1 .. Len(s) /\ Len(s) \in Nat
    BY LenProperties
  <1>2. IsInjective(Append(s, e))
    <2> DEFINE u == Append(s, e)
    <2>1. /\ DOMAIN u = 1 .. Len(s) + 1
          /\ \A i \in 1 .. Len(s) : u[i] = s[i]
          /\ u[Len(s) + 1] = e
      BY AppendProperties, LenProperties
    <2>2. \A i \in 1 .. Len(s) : s[i] # e
      BY <1>1 DEF Range
    <2> HIDE DEF u
    <2>3. IsInjective(u)
      BY <1>1, <2>1, <2>2 DEF IsInjective
    <2> QED
      BY <2>3 DEF u
  <1> QED
    BY <1>2

LEMMA TailStaysInjective ==
  ASSUME NEW S, NEW s \in Seq(S), s # <<>>, IsInjective(s)
  PROVE  /\ IsInjective(Tail(s))
         /\ Range(Tail(s)) = Range(s) \ {Head(s)}
  <1>1. DOMAIN s = 1 .. Len(s) /\ Len(s) \in Nat \ {0} /\ Head(s) = s[1]
    BY LenProperties, EmptySeq
  <1>2. /\ Tail(s) \in Seq(S)
        /\ Len(Tail(s)) = Len(s) - 1
        /\ \A i \in 1 .. Len(Tail(s)) : Tail(s)[i] = s[i + 1]
    BY HeadTailProperties
  <1>3. DOMAIN Tail(s) = 1 .. Len(s) - 1
    BY <1>2, LenProperties
  <1>4. \A i \in DOMAIN Tail(s) : i + 1 \in DOMAIN s /\ Tail(s)[i] = s[i + 1]
    BY <1>1, <1>2, <1>3
  <1>5. IsInjective(Tail(s))
    BY <1>3, <1>4 DEF IsInjective
  <1>6. Range(Tail(s)) \subseteq Range(s) \ {Head(s)}
    BY <1>1, <1>3, <1>4 DEF Range, IsInjective
  <1>7. ASSUME NEW x \in Range(s) \ {Head(s)} PROVE x \in Range(Tail(s))
    <2>1. PICK i \in DOMAIN s : x = s[i]
      BY DEF Range
    <2>2. i # 1
      BY <1>1, <2>1
    <2>3. i - 1 \in DOMAIN Tail(s) /\ Tail(s)[i - 1] = s[i]
      BY <1>1, <1>2, <1>3, <2>2
    <2> QED
      BY <2>1, <2>3 DEF Range
  <1> QED
    BY <1>5, <1>6, <1>7

LEMMA EmptyInjective == IsInjective(<<>>)
  BY DEF IsInjective

-----------------------------------------------------------------------------
(* Induction and recursion on numbers.  What holds of a number is a set     *)
(* here, and a step a function, where the library takes an operator.       *)

Smaller == OpToRel(<, Nat)

LEMMA Least ==
  ASSUME NEW T, T \subseteq Nat, T # {}
  PROVE  \E n \in T : \A m \in T : n <= m
  <1>1. Smaller = {p \in Nat \X Nat : p[1] < p[2]}
    BY DEF Smaller, OpToRel
  <1>2. IsWellFoundedOn(Smaller, Nat)
    BY NatLessThanWellFounded DEF Smaller
  <1>3. PICK n \in T : \A m \in T : <<m, n>> \notin Smaller
    BY <1>2, WFMin
  <1>4. ASSUME NEW m \in T PROVE n <= m
    <2>1. <<m, n>> \notin Smaller /\ <<m, n>> \in Nat \X Nat
      BY <1>3
    <2>2. ~(m < n)
      BY <1>1, <2>1
    <2> QED
      BY <2>2
  <1> QED
    BY <1>3, <1>4

LEMMA UpTo ==
  ASSUME NEW n \in Nat, NEW T, 0 \in T, \A i \in 1 .. n : i - 1 \in T => i \in T
  PROVE  0 .. n \subseteq T
  <1> SUFFICES ASSUME (0 .. n) \ T # {} PROVE FALSE
    OBVIOUS
  <1>1. PICK i \in (0 .. n) \ T : \A m \in (0 .. n) \ T : i <= m
    <2> DEFINE U == (0 .. n) \ T
    <2>1. U \subseteq Nat /\ U # {}
      OBVIOUS
    <2> HIDE DEF U
    <2>2. \E i \in U : \A m \in U : i <= m
      BY <2>1, Least
    <2> QED
      BY <2>2 DEF U
  <1>2. i \in 1 .. n /\ i - 1 \in 0 .. n /\ i - 1 \in T
    BY <1>1
  <1> QED
    BY <1>1, <1>2

\* Iterates(f, a, g, n): f is what n steps make of a, the step i being g[i].
Iterates(f, a, g, n) ==
  DOMAIN f = 0 .. n /\ f[0] = a /\ \A i \in 1 .. n : f[i] = g[i][f[i - 1]]

LEMMA IteratesExist ==
  ASSUME NEW S, NEW a \in S, NEW n \in Nat, NEW g \in [1 .. n -> [S -> S]]
  PROVE  \E f \in [0 .. n -> S] : Iterates(f, a, g, n)
  <1> DEFINE T == {i \in 0 .. n : \E f \in [0 .. i -> S] : Iterates(f, a, g, i)}
  <1>1. 0 \in T
    <2>1. [i \in 0 .. 0 |-> a] \in [0 .. 0 -> S] /\ Iterates([i \in 0 .. 0 |-> a], a, g, 0)
      BY DEF Iterates
    <2> QED
      BY <2>1
  <1>2. ASSUME NEW i \in 1 .. n, i - 1 \in T PROVE i \in T
    <2>1. PICK f \in [0 .. i - 1 -> S] : Iterates(f, a, g, i - 1)
      BY <1>2
    <2> DEFINE h == [k \in 0 .. i |-> IF k = i THEN g[i][f[i - 1]] ELSE f[k]]
    <2>2. h \in [0 .. i -> S]
      BY <2>1
    <2>3. Iterates(h, a, g, i)
      BY <2>1 DEF Iterates
    <2> QED
      BY <2>2, <2>3
  <1>3. n \in T
    <2> HIDE DEF T
    <2>1. 0 .. n \subseteq T
      BY <1>1, <1>2, UpTo
    <2> QED
      BY <2>1
  <1> QED
    BY <1>3

\* What holds of the empty sequence, and of Append(s, x) if it holds of s, holds
\* of every sequence.
LEMMA GrowSequences ==
  ASSUME NEW X, NEW T, <<>> \in T,
         \A s \in Seq(X) : \A x \in X : s \in T => Append(s, x) \in T
  PROVE  Seq(X) \subseteq T
  <1> SUFFICES ASSUME NEW s \in Seq(X) PROVE s \in T
    OBVIOUS
  <1>0. Len(s) \in Nat
    OBVIOUS
  <1> DEFINE Start(n) == SubSeq(s, 1, n)
             U == {n \in 0 .. Len(s) : Start(n) \in T}
  <1>1. 0 \in U
    <2>1. Start(0) = <<>>
      BY <1>0, SubSeqEmpty
    <2> HIDE DEF Start
    <2> QED
      BY <1>0, <2>1
  <1>2. ASSUME NEW n \in 1 .. Len(s), n - 1 \in U PROVE n \in U
    <2>1. Start(n) = Append(Start(n - 1), s[n])
      BY <1>0, SubSeqRecursiveSecond
    <2>2. Start(n - 1) \in Seq(X) /\ s[n] \in X
      BY <1>0, SubSeqProperties, ElementOfSeq
    <2> HIDE DEF Start
    <2>3. Start(n - 1) \in T
      BY <1>2
    <2>4. Start(n) \in T /\ n \in 0 .. Len(s)
      BY <2>1, <2>2, <2>3
    <2> QED
      BY <2>4
  <1> HIDE DEF U
  <1>3. 0 .. Len(s) \subseteq U
    BY <1>0, <1>1, <1>2, UpTo
  <1>4. Len(s) \in U
    BY <1>0, <1>3
  <1>5. Start(Len(s)) = s
    BY SubSeqFull
  <1> HIDE DEF Start
  <1> QED
    BY <1>4, <1>5 DEF U

LEMMA AppendOfConcat ==
  ASSUME NEW X, NEW s \in Seq(X), NEW t \in Seq(X), NEW x \in X
  PROVE  s \o Append(t, x) = Append(s \o t, x)
  <1>1. /\ Append(t, x) = t \o <<x>> /\ Append(s \o t, x) = (s \o t) \o <<x>>
        /\ <<x>> \in Seq(X)
    BY AppendIsConcat, ConcatProperties
  <1> QED
    BY <1>1, ConcatAssociative

\* What holds of a number when it holds of all between it and n holds up to n.
LEMMA DownFrom ==
  ASSUME NEW n \in Nat, NEW T, \A i \in 0 .. n : i + 1 .. n \subseteq T => i \in T
  PROVE  0 .. n \subseteq T
  <1> SUFFICES ASSUME NEW x \in 0 .. n, x \notin T PROVE FALSE
    OBVIOUS
  <1> DEFINE V == {k \in 0 .. n : n - k \notin T}
  <1>1. V \subseteq Nat /\ V # {}
    <2>1. PICK k \in 0 .. n : n - k = x
      <3>1. n - x \in 0 .. n /\ n - (n - x) = x
        OBVIOUS
      <3> QED
        BY <3>1
    <2>2. k \in V
      BY <2>1
    <2>3. V \subseteq Nat
      OBVIOUS
    <2> HIDE DEF V
    <2> QED
      BY <2>2, <2>3
  <1>2. PICK k \in V : \A m \in V : k <= m
    <2> HIDE DEF V
    <2> QED
      BY <1>1, Least
  <1>3. n - k \in 0 .. n /\ n - k \notin T
    BY <1>2
  <1>4. ASSUME NEW j \in n - k + 1 .. n PROVE j \in T
    <2>1. n - j \in 0 .. n /\ n - (n - j) = j /\ n - j < k
      BY <1>3, <1>4
    <2> QED
      BY <1>2, <2>1
  <1> QED
    BY <1>3, <1>4

\* A recursion that goes from each place to a later one, until one of E.
Descends(f, n, E, a, next, g) ==
  \A i \in 0 .. n : f[i] = IF i \in E THEN a[i] ELSE g[i][f[next[i]]]

LEMMA DescentExists ==
  ASSUME NEW S, NEW n \in Nat, NEW E \in SUBSET (0 .. n), NEW a \in [E -> S],
         NEW next \in [0 .. n \ E -> 0 .. n], \A i \in 0 .. n \ E : i < next[i],
         NEW g \in [0 .. n \ E -> [S -> S]]
  PROVE  \E f \in [0 .. n -> S] : Descends(f, n, E, a, next, g)
  <1> DEFINE Right(f, i) == f[i] = IF i \in E THEN a[i] ELSE g[i][f[next[i]]]
             T == {k \in 0 .. n : \E f \in [n - k .. n -> S] :
                                     \A i \in n - k .. n : Right(f, i)}
  <1>1. 0 \in T
    <2>1. n \in E
      OBVIOUS
    <2> DEFINE h == [i \in n - 0 .. n |-> a[n]]
    <2>2. h \in [n - 0 .. n -> S]
      BY <2>1
    <2>3. \A i \in n - 0 .. n : i = n /\ h[i] = a[n]
      OBVIOUS
    <2> HIDE DEF h
    <2>4. \A i \in n - 0 .. n : Right(h, i)
      BY <2>1, <2>3
    <2> QED
      BY <2>2, <2>4
  <1>2. ASSUME NEW k \in 1 .. n, k - 1 \in T PROVE k \in T
    <2>1. PICK f \in [n - (k - 1) .. n -> S] : \A i \in n - (k - 1) .. n : Right(f, i)
      BY <1>2
    <2> DEFINE m == n - k
               new == IF m \in E THEN a[m] ELSE g[m][f[next[m]]]
               h == [i \in m .. n |-> IF i = m THEN new ELSE f[i]]
    <2>2. m \in 0 .. n /\ m + 1 = n - (k - 1) /\ k \in 0 .. n
          /\ \A i \in m .. n : i \in 0 .. n /\ (i = m \/ i \in m + 1 .. n)
      OBVIOUS
    <2>3. new \in S
      <3>1. CASE m \in E
        BY <3>1
      <3>2. CASE m \notin E
        <4>1. m \in 0 .. n \ E /\ next[m] \in 0 .. n /\ m < next[m]
          BY <2>2, <3>2
        <4>2. next[m] \in m + 1 .. n
          BY <2>2, <4>1
        <4>3. f[next[m]] \in S /\ g[m] \in [S -> S]
          BY <2>1, <2>2, <4>1, <4>2
        <4> QED
          BY <3>2, <4>3
      <3> QED
        BY <3>1, <3>2
    <2>4. h \in [m .. n -> S] /\ h[m] = new /\ \A i \in m + 1 .. n : h[i] = f[i]
      BY <2>1, <2>2, <2>3
    <2>5. ASSUME NEW i \in m .. n PROVE Right(h, i)
      <3>1. i \notin E => next[i] \in m + 1 .. n
        BY <2>2
      <3>2. i \notin E => h[next[i]] = f[next[i]]
        BY <2>4, <3>1
      <3> HIDE DEF h
      <3>3. CASE i = m
        BY <2>4, <3>2, <3>3
      <3>4. CASE i \in m + 1 .. n
        BY <2>1, <2>2, <2>4, <3>2, <3>4
      <3> QED
        BY <2>2, <3>3, <3>4
    <2> QED
      BY <2>2, <2>4, <2>5
  <1>3. n \in T
    <2> HIDE DEF T
    <2>1. 0 .. n \subseteq T
      BY <1>1, <1>2, UpTo
    <2> QED
      BY <2>1
  <1>4. n - n = 0
    OBVIOUS
  <1> QED
    BY <1>3, <1>4 DEF Descends

=============================================================================
