----------------------------- MODULE GzLibProofs -----------------------------
(***************************************************************************)
(* What the proofs about GzRead and GzWrite share: facts about sequences   *)
(* of bytes, about FlattenSeq, which says what the pieces of a file decode *)
(* to, and about what gz_open finds in a mode.                             *)
(***************************************************************************)
EXTENDS GzLib, SequencesExt, SequenceTheorems, WellFoundedInduction, TLAPS

\* Induction up to n, for a set of numbers.
LEMMA UpTo ==
  ASSUME NEW n \in Nat, NEW S, 0 \in S, \A m \in 0 .. n - 1 : m \in S => m + 1 \in S
  PROVE  \A m \in 0 .. n : m \in S
<1> DEFINE R == OpToRel(<, Nat)
           T == {m \in 0 .. n : m \notin S}
<1>1. IsWellFoundedOn(R, Nat)
  BY NatLessThanWellFounded
<1>2. \A x, y \in Nat : y < x => <<y, x>> \in R
  BY DEF OpToRel
<1> HIDE DEF R
<1>3. SUFFICES ASSUME T # {} PROVE FALSE
  OBVIOUS
<1>4. T \subseteq Nat
  OBVIOUS
<1> HIDE DEF T
<1>5. PICK x \in T : \A y \in T : ~(<<y, x>> \in R)
  BY <1>1, <1>3, <1>4, WFMin
<1>6. \A y \in T : ~(y < x)
  BY <1>2, <1>4, <1>5, Zenon
<1>7. x \in 0 .. n /\ x \notin S
  BY DEF T
<1>8. x # 0
  BY <1>7
<1>9. x - 1 \in 0 .. n - 1 /\ x - 1 < x
  BY <1>7, <1>8
<1>10. x - 1 \in S
  BY <1>6, <1>9 DEF T
<1>11. (x - 1) + 1 \in S
  BY <1>9, <1>10
<1> QED  BY <1>7, <1>11

\* The function FlattenSeq is defined by.
Flattens(f, n, ss) == f = [i \in 1 .. n |-> IF i = 1 THEN ss[i] ELSE f[i - 1] \o ss[i]]

\* There is such a function,
LEMMA FlattenExists ==
  ASSUME NEW n \in Nat, NEW ss \in [1 .. n -> Seq(Int)]
  PROVE  \E f \in [1 .. n -> Seq(Int)] : Flattens(f, n, ss)
<1> DEFINE S == {m \in 0 .. n : \E f \in [1 .. m -> Seq(Int)] : Flattens(f, m, ss)}
<1>1. 0 \in S
  <2>1. [i \in 1 .. 0 |-> <<>>] \in [1 .. 0 -> Seq(Int)]
    OBVIOUS
  <2>2. Flattens([i \in 1 .. 0 |-> <<>>], 0, ss)
    BY DEF Flattens
  <2>3. \E f \in [1 .. 0 -> Seq(Int)] : Flattens(f, 0, ss)
    BY <2>1, <2>2, Zenon
  <2>4. 0 \in 0 .. n
    OBVIOUS
  <2> QED  BY <2>3, <2>4, Zenon
<1>2. ASSUME NEW m \in 0 .. n - 1, m \in S
      PROVE  m + 1 \in S
  <2>1. PICK f \in [1 .. m -> Seq(Int)] : Flattens(f, m, ss)
    BY <1>2
  <2> DEFINE h == [i \in 1 .. m + 1 |-> IF i = 1 THEN ss[i]
                                        ELSE IF i = m + 1 THEN f[m] \o ss[i] ELSE f[i]]
  <2>2. m \in Nat /\ m + 1 \in 0 .. n
    OBVIOUS
  <2>3. ASSUME NEW i \in 1 .. m + 1
        PROVE  h[i] \in Seq(Int) /\ h[i] = IF i = 1 THEN ss[i] ELSE h[i - 1] \o ss[i]
    <3>1. ss[i] \in Seq(Int)
      BY <2>2
    <3>2. CASE i = 1
      BY <3>1, <3>2
    <3>3. CASE i # 1 /\ i = m + 1
      <4>1. m \in 1 .. m /\ i - 1 = m
        BY <3>3, <2>2
      <4>2. h[m] = f[m] /\ f[m] \in Seq(Int)
        <5>1. h[m] = IF m = 1 THEN ss[m] ELSE f[m]
          BY <4>1, <2>2
        <5>2. m = 1 => f[m] = ss[m]
          BY <2>1, <4>1 DEF Flattens
        <5> QED  BY <5>1, <5>2, <4>1
      <4>3. h[i] = f[m] \o ss[i]
        BY <3>3
      <4> HIDE DEF h
      <4>4. f[m] \o ss[i] \in Seq(Int)
        BY <3>1, <4>2, ConcatProperties
      <4>5. h[i] = h[i - 1] \o ss[i]
        BY <4>1, <4>2, <4>3
      <4> QED  BY <3>3, <4>3, <4>4, <4>5
    <3>4. CASE i # 1 /\ i # m + 1
      <4>1. i \in 1 .. m /\ i - 1 \in 1 .. m /\ i - 1 # m + 1
        BY <3>4, <2>2
      <4>2. h[i] = f[i] /\ f[i] = f[i - 1] \o ss[i]
        BY <2>1, <3>4, <4>1 DEF Flattens
      <4>3. h[i - 1] = f[i - 1]
        BY <2>1, <4>1 DEF Flattens
      <4> HIDE DEF h
      <4> QED  BY <3>4, <4>1, <4>2, <4>3
    <3> QED  BY <3>2, <3>3, <3>4
  <2>4. h \in [1 .. m + 1 -> Seq(Int)]
    BY <2>3
  <2>5. h = [i \in 1 .. m + 1 |-> IF i = 1 THEN ss[i] ELSE h[i - 1] \o ss[i]]
    <3>1. h = [i \in 1 .. m + 1 |-> h[i]]
      OBVIOUS
    <3> HIDE DEF h
    <3> QED  BY <2>3, <3>1
  <2>6. Flattens(h, m + 1, ss)
    BY <2>5 DEF Flattens
  <2> HIDE DEF h
  <2> QED  BY <2>2, <2>4, <2>6
<1> HIDE DEF S
<1>3. \A m \in 0 .. n - 1 : m \in S => m + 1 \in S
  BY <1>2
<1>4. \A m \in 0 .. n : m \in S
  BY <1>1, <1>3, UpTo, Zenon
<1>5. n \in S
  BY <1>4
<1> QED  BY <1>5 DEF S

Agree(s, t, m) == \A i \in 1 .. m : s[i] = t[i]

\* and where two families agree, so do theirs.
LEMMA FlattenUnique ==
  ASSUME NEW n \in Nat, NEW m \in 0 .. n, NEW ss, NEW tt, NEW f, NEW h,
         Flattens(f, n, ss), Flattens(h, m, tt), Agree(ss, tt, m)
  PROVE  Agree(f, h, m)
<1> DEFINE S == {i \in 0 .. m : i = 0 \/ f[i] = h[i]}
<1>1. 0 \in S
  OBVIOUS
<1>2. ASSUME NEW i \in 0 .. m - 1, i \in S
      PROVE  i + 1 \in S
  <2>1. i + 1 \in 1 .. m /\ i + 1 \in 1 .. n /\ i + 1 \in 0 .. m /\ (i + 1) - 1 = i
    OBVIOUS
  <2>2. f[i + 1] = IF i + 1 = 1 THEN ss[i + 1] ELSE f[(i + 1) - 1] \o ss[i + 1]
    BY <2>1 DEF Flattens
  <2>3. h[i + 1] = IF i + 1 = 1 THEN tt[i + 1] ELSE h[(i + 1) - 1] \o tt[i + 1]
    BY <2>1 DEF Flattens
  <2>4. i # 0 => f[i] = h[i]
    BY <1>2
  <2>5. i + 1 = 1 <=> i = 0
    OBVIOUS
  <2>6. f[i + 1] = h[i + 1]
    BY <2>1, <2>2, <2>3, <2>4, <2>5 DEF Agree
  <2> QED  BY <2>1, <2>6
<1>3. \A i \in 0 .. m : i \in S
  <2> HIDE DEF S
  <2> QED  BY <1>1, <1>2, UpTo
<1> QED  BY <1>3 DEF Agree

\* FlattenSeq gives its last value.
LEMMA FlattenIs ==
  ASSUME NEW n \in Nat, n # 0, NEW ss \in [1 .. n -> Seq(Int)]
  PROVE  \E f \in [1 .. n -> Seq(Int)] : Flattens(f, n, ss) /\ FlattenSeq(ss) = f[n]
<1> DEFINE f == CHOOSE f : f = [i \in 1 .. n |-> IF i = 1 THEN ss[i] ELSE f[i - 1] \o ss[i]]
<1>1. PICK h \in [1 .. n -> Seq(Int)] : Flattens(h, n, ss)
  BY FlattenExists
<1>2. f = [i \in 1 .. n |-> IF i = 1 THEN ss[i] ELSE f[i - 1] \o ss[i]]
  BY <1>1, Zenon DEF Flattens
<1>3. Len(ss) = n
  OBVIOUS
<1>4. FlattenSeq(ss) = f[n]
  BY <1>3 DEF FlattenSeq
<1> HIDE DEF f
<1>5. Flattens(f, n, ss)
  BY <1>2 DEF Flattens
<1>6. f = h
  <2>1. \A i \in 1 .. n : f[i] = h[i]
    <3>1. Agree(ss, ss, n)
      BY DEF Agree
    <3>2. n \in 0 .. n
      OBVIOUS
    <3>3. Agree(f, h, n)
      BY <1>1, <1>5, <3>1, <3>2, FlattenUnique, Zenon
    <3> QED  BY <3>3 DEF Agree
  <2>2. f = [i \in 1 .. n |-> f[i]]
    BY <1>2
  <2> QED  BY <2>1, <2>2
<1> QED  BY <1>1, <1>4, <1>6

\* A further piece is put behind the ones before it.
LEMMA FlattenNext ==
  ASSUME NEW n \in Nat, NEW ss \in [1 .. n + 1 -> Seq(Int)], NEW tt \in [1 .. n -> Seq(Int)],
         Agree(ss, tt, n)
  PROVE  FlattenSeq(tt) \in Seq(Int) /\ FlattenSeq(ss) = FlattenSeq(tt) \o ss[n + 1]
<1>1. PICK h \in [1 .. n + 1 -> Seq(Int)] : Flattens(h, n + 1, ss) /\ FlattenSeq(ss) = h[n + 1]
  <2>1. n + 1 \in Nat /\ n + 1 # 0
    OBVIOUS
  <2> QED  BY <2>1, FlattenIs
<1>2. ss[n + 1] \in Seq(Int)
  OBVIOUS
<1>3. CASE n = 0
  <2>1. h[1] = ss[1]
    BY <1>1, <1>3 DEF Flattens
  <2>2. tt = <<>> /\ FlattenSeq(<<>>) = <<>>
    BY <1>3 DEF FlattenSeq
  <2>3. <<>> \in Seq(Int) /\ <<>> \o ss[n + 1] = ss[n + 1]
    BY <1>2, EmptySeq, ConcatEmptySeq
  <2>4. FlattenSeq(ss) = ss[n + 1]
    BY <1>1, <1>3, <2>1
  <2>5. FlattenSeq(tt) = <<>>
    BY <2>2, Zenon
  <2> QED  BY <2>3, <2>4, <2>5, Zenon
<1>4. CASE n # 0
  <2>1. PICK k \in [1 .. n -> Seq(Int)] : Flattens(k, n, tt) /\ FlattenSeq(tt) = k[n]
    BY <1>4, FlattenIs
  <2>2. Agree(h, k, n)
    <3>1. n \in 0 .. n + 1 /\ n + 1 \in Nat
      OBVIOUS
    <3> QED  BY <1>1, <2>1, <3>1, FlattenUnique, Zenon
  <2>3. n \in 1 .. n /\ n + 1 # 1 /\ (n + 1) - 1 = n /\ n + 1 \in 1 .. n + 1
    BY <1>4
  <2>4. h[n + 1] = IF n + 1 = 1 THEN ss[n + 1] ELSE h[(n + 1) - 1] \o ss[n + 1]
    BY <1>1, <2>3 DEF Flattens
  <2>5. h[n] = k[n]
    BY <2>2, <2>3 DEF Agree
  <2> QED  BY <1>1, <2>1, <2>3, <2>4, <2>5
<1> QED  BY <1>3, <1>4

\* Concatenation.
LEMMA CatIntType ==
  \A s, t \in Seq(Int) : s \o t \in Seq(Int)
BY ConcatProperties

LEMMA CatInt ==
  \A s, t, u \in Seq(Int) : (s \o t) \o u = s \o (t \o u)
BY ConcatAssociative, SMTT(40)

\* A sequence is cut in two.
LEMMA Cut ==
  ASSUME NEW S, NEW s \in Seq(S), NEW k \in 0 .. Len(s)
  PROVE  /\ SubSeq(s, 1, k) \in Seq(S) /\ Len(SubSeq(s, 1, k)) = k
         /\ SubSeq(s, k + 1, Len(s)) \in Seq(S) /\ Len(SubSeq(s, k + 1, Len(s))) = Len(s) - k
         /\ SubSeq(s, 1, k) \o SubSeq(s, k + 1, Len(s)) = s
<1>1. Len(s) \in Nat
  BY LenProperties
<1>2. \A i \in 1 .. Len(s) : s[i] \in S
  BY ElementOfSeq
<1>3. SubSeq(s, 1, k) \in Seq(S) /\ Len(SubSeq(s, 1, k)) = k
  <2>1. \A i \in 1 .. k : s[i] \in S
    BY <1>1, <1>2
  <2> QED  BY <1>1, <2>1, SubSeqProperties
<1>4. SubSeq(s, k + 1, Len(s)) \in Seq(S) /\ Len(SubSeq(s, k + 1, Len(s))) = Len(s) - k
  <2>1. \A i \in k + 1 .. Len(s) : s[i] \in S
    BY <1>1, <1>2
  <2>2. Len(SubSeq(s, k + 1, Len(s))) = IF k + 1 <= Len(s) THEN Len(s) - (k + 1) + 1 ELSE 0
    BY <1>1, <2>1, SubSeqProperties
  <2>3. SubSeq(s, k + 1, Len(s)) \in Seq(S)
    BY <1>1, <2>1, SubSeqProperties
  <2>4. (IF k + 1 <= Len(s) THEN Len(s) - (k + 1) + 1 ELSE 0) = Len(s) - k
    BY <1>1
  <2> QED  BY <2>2, <2>3, <2>4
<1>5. SubSeq(s, 1, k) \o SubSeq(s, k + 1, Len(s)) = SubSeq(s, 1, Len(s))
  <2>1. 1 \in 1 .. Len(s) + 1 /\ k \in 1 - 1 .. Len(s) /\ Len(s) \in k .. Len(s)
    BY <1>1
  <2> QED  BY <2>1, ConcatAdjacentSubSeq
<1>6. SubSeq(s, 1, Len(s)) = s
  BY SubSeqFull
<1> QED  BY <1>3, <1>4, <1>5, <1>6

LEMMA CutInt ==
  \A s \in Seq(Int) : \A k \in 0 .. Len(s) :
    /\ SubSeq(s, 1, k) \in Seq(Int) /\ Len(SubSeq(s, 1, k)) = k
    /\ SubSeq(s, k + 1, Len(s)) \in Seq(Int) /\ Len(SubSeq(s, k + 1, Len(s))) = Len(s) - k
    /\ SubSeq(s, 1, k) \o SubSeq(s, k + 1, Len(s)) = s
BY Cut, Zenon

\* The empty sequence.
LEMMA EmptyInt ==
  <<>> \in Seq(Int) /\ \A s \in Seq(Int) : Len(s) \in Nat /\ (Len(s) = 0 <=> s = <<>>)
                                           /\ s \o <<>> = s /\ <<>> \o s = s
BY EmptySeq, LenProperties, ConcatEmptySeq

\* A mode is a sequence of letters.
IsMode(m) == Len(m) \in Nat /\ DOMAIN m = 1 .. Len(m)

\* What gz_open finds in a mode is a level, or a strategy, or the default.
LEMMA LastOfType ==
  ASSUME NEW m, IsMode(m), NEW S, NEW none
  PROVE  LastOf(m, S, none) \in (S \cap {m[i] : i \in DOMAIN m}) \cup {none}
<1> DEFINE at == {i \in DOMAIN m : m[i] \in S}
           n == Len(m)
           R == OpToRel(<, Nat)
<1>1. n \in Nat /\ DOMAIN m = 1 .. n
  BY DEF IsMode
<1>2. CASE at = {}
  BY <1>2 DEF LastOf
<1>3. CASE at # {}
  <2> DEFINE T == {n - i : i \in at}
  <2>1. at \subseteq 1 .. n
    BY <1>1
  <2> HIDE DEF at
  <2>2. T \subseteq Nat /\ T # {}
    <3>1. \A i \in at : n - i \in Nat
      BY <1>1, <2>1
    <3> QED  BY <1>3, <3>1
  <2>3. IsWellFoundedOn(R, Nat)
    BY NatLessThanWellFounded
  <2>4. \A x, y \in Nat : y < x => <<y, x>> \in R
    BY DEF OpToRel
  <2> HIDE DEF R
  <2>5. PICK x \in T : \A y \in T : ~(<<y, x>> \in R)
    BY <2>2, <2>3, WFMin
  <2>6. PICK k \in at : x = n - k
    OBVIOUS
  <2>7. \A j \in at : j <= k
    <3>1. SUFFICES ASSUME NEW j \in at
                   PROVE  j <= k
      OBVIOUS
    <3>2. n - j \in T
      OBVIOUS
    <3>3. ~(n - j < x)
      BY <2>2, <2>4, <2>5, <3>2
    <3>4. j \in 1 .. n /\ k \in 1 .. n
      BY <2>1
    <3> QED  BY <1>1, <2>6, <3>3, <3>4
  <2>8. (CHOOSE i \in at : \A j \in at : j <= i) \in at
    BY <2>7
  <2>9. LastOf(m, S, none) = m[CHOOSE i \in at : \A j \in at : j <= i]
    BY <1>3, Zenon DEF LastOf, at
  <2> QED  BY <2>8, <2>9 DEF at
<1> QED  BY <1>2, <1>3

=============================================================================
