--------------------------- MODULE SequenceLemmas ---------------------------
(* Facts about numbers, sequences and the operators of SequencesExt the      *)
(* models use, for any elements.  The library's own induction theorems take  *)
(* an operator as a parameter; these take a set.                             *)
EXTENDS SequencesExt, FiniteSetTheorems, SequenceTheorems, WellFoundedInduction, TLAPS

\* Induction over the natural numbers: a set that holds 0, and the successor
\* of each of its elements, holds them all.
LEMMA Induction ==
    ASSUME NEW S \in SUBSET Nat, 0 \in S, \A n \in S : n + 1 \in S
    PROVE  S = Nat
<1> SUFFICES ASSUME S # Nat PROVE FALSE
  OBVIOUS
<1> DEFINE T == Nat \ S
<1>1. T \subseteq Nat /\ T # {}
  OBVIOUS
<1> HIDE DEF T
<1>2. PICK x \in T : \A y \in T : ~(<<y, x>> \in OpToRel(<, Nat))
  BY <1>1, NatLessThanWellFounded, WFMin
<1>3. x \in Nat /\ x # 0 /\ x - 1 \in Nat
  BY <1>1 DEF T
<1>4. x - 1 \in T
  BY <1>3 DEF T
<1>5. <<x - 1, x>> \in OpToRel(<, Nat)
  BY <1>3 DEF OpToRel
<1> QED
  BY <1>2, <1>4, <1>5

\* The least element of a set of natural numbers.
LEMMA MinOK ==
    ASSUME NEW S \in SUBSET Nat, S # {}
    PROVE  Min(S) \in S /\ \A y \in S : Min(S) <= y
<1>1. PICK x \in S : \A y \in S : ~(<<y, x>> \in OpToRel(<, Nat))
  BY NatLessThanWellFounded, WFMin
<1>2. ASSUME NEW y \in S PROVE x <= y
  <2>1. x \in Nat /\ y \in Nat
    OBVIOUS
  <2>2. ~(y < x)
    BY <1>1, <2>1 DEF OpToRel
  <2> QED
    BY <2>1, <2>2
<1>3. \E z \in S : \A y \in S : z <= y
  BY <1>2
<1> QED
  BY <1>3 DEF Min

-----------------------------------------------------------------------------
(* FlattenSeq: the recursive function in its definition exists, and its      *)
(* value is the parts one after the other.                                   *)

\* The function FlattenSeq is defined by, for the first n parts.
Joins(seqs, n, g) ==
    g = [i \in 1 .. n |-> IF i = 1 THEN seqs[i] ELSE g[i - 1] \o seqs[i]]

LEMMA JoinsExist ==
    ASSUME NEW seqs, NEW n \in Nat
    PROVE  \E g : Joins(seqs, n, g)
<1> DEFINE T == {k \in Nat : \E g : Joins(seqs, k, g)}
<1>1. 0 \in T
  <2> DEFINE g == [i \in 1 .. 0 |-> <<>>]
  <2>1. Joins(seqs, 0, g)
    BY DEF Joins
  <2> QED
    BY <2>1
<1>2. ASSUME NEW k \in T PROVE k + 1 \in T
  <2>1. PICK g : Joins(seqs, k, g)
    OBVIOUS
  <2> DEFINE next == IF k = 0 THEN seqs[1] ELSE g[k] \o seqs[k + 1]
             h == [i \in 1 .. k + 1 |-> IF i = k + 1 THEN next ELSE g[i]]
  <2>2. k \in Nat
    OBVIOUS
  <2>3. \A i \in 1 .. k : g[i] = IF i = 1 THEN seqs[i] ELSE g[i - 1] \o seqs[i]
    BY <2>1 DEF Joins
  <2>4. ASSUME NEW i \in 1 .. k + 1
        PROVE  h[i] = IF i = 1 THEN seqs[i] ELSE h[i - 1] \o seqs[i]
    <3>1. CASE i = k + 1 /\ k = 0
      BY <3>1
    <3>2. CASE i = k + 1 /\ k # 0
      <4>1. i - 1 = k /\ k \in 1 .. k + 1 /\ k # k + 1 /\ i # 1
        BY <2>2, <3>2
      <4>2. h[i - 1] = g[k] /\ h[i] = g[k] \o seqs[k + 1]
        BY <3>2, <4>1
      <4> QED
        BY <3>2, <4>1, <4>2
    <3>3. CASE i # k + 1
      <4>1. i \in 1 .. k /\ (i # 1 => i - 1 \in 1 .. k + 1 /\ i - 1 # k + 1)
        BY <2>2, <3>3
      <4>2. h[i] = g[i] /\ (i # 1 => h[i - 1] = g[i - 1])
        BY <3>3, <4>1
      <4> QED
        BY <2>3, <4>1, <4>2
    <3> QED
      BY <3>1, <3>2, <3>3
  <2>5. h = [i \in 1 .. k + 1 |-> h[i]]
    OBVIOUS
  <2> HIDE DEF h
  <2>6. Joins(seqs, k + 1, h)
    BY <2>4, <2>5 DEF Joins
  <2> QED
    BY <2>2, <2>6
<1> HIDE DEF T
<1>3. T = Nat
  BY <1>1, <1>2, Induction DEF T
<1> QED
  BY <1>3 DEF T

\* What FlattenSeq is, without its LET.
LEMMA FlattenIsJoin ==
    ASSUME NEW S, NEW seqs \in Seq(S), seqs # <<>>
    PROVE  \E g : Joins(seqs, Len(seqs), g) /\ FlattenSeq(seqs) = g[Len(seqs)]
<1> DEFINE g == CHOOSE f : f = [i \in 1 .. Len(seqs) |-> IF i = 1 THEN seqs[i] ELSE f[i - 1] \o seqs[i]]
<1>0. Len(seqs) \in Nat /\ Len(seqs) # 0
  OBVIOUS
<1>1. \E f : f = [i \in 1 .. Len(seqs) |-> IF i = 1 THEN seqs[i] ELSE f[i - 1] \o seqs[i]]
  BY <1>0, JoinsExist DEF Joins
<1>2. FlattenSeq(seqs) = g[Len(seqs)]
  BY <1>0 DEF FlattenSeq
<1>3. g = [i \in 1 .. Len(seqs) |-> IF i = 1 THEN seqs[i] ELSE g[i - 1] \o seqs[i]]
  BY <1>1
<1>4. Joins(seqs, Len(seqs), g)
  BY <1>3 DEF Joins
<1> QED
  BY <1>2, <1>4

\* flat holds the first n parts of seqs one after the other: at[i] is where
\* part i ends.
Lays(seqs, n, at, flat) ==
    /\ Len(flat) = at[n]
    /\ \A i \in 1 .. n : \A j \in DOMAIN seqs[i] :
        at[i - 1] + j \in DOMAIN flat /\ flat[at[i - 1] + j] = seqs[i][j]
    /\ \A k \in DOMAIN flat :
        \E i \in 1 .. n : \E j \in DOMAIN seqs[i] : k = at[i - 1] + j

\* One part more.
LEMMA LaysOneMore ==
    ASSUME NEW S, NEW seqs \in Seq(Seq(S)), NEW n \in 0 .. Len(seqs) - 1,
           NEW at, at[n] \in Nat, NEW flat \in Seq(S),
           Lays(seqs, n, at, flat), at[n + 1] = at[n] + Len(seqs[n + 1])
    PROVE  Lays(seqs, n + 1, at, flat \o seqs[n + 1])
<1> DEFINE part == seqs[n + 1]
           more == flat \o part
<1>1. n + 1 \in DOMAIN seqs /\ n \in Nat /\ n + 1 - 1 = n
  OBVIOUS
<1>2. part \in Seq(S) /\ Len(flat) = at[n] /\ at[n] \in Nat /\ Len(part) \in Nat
  BY <1>1 DEF Lays
<1> HIDE DEF part
<1>3. /\ Len(more) = Len(flat) + Len(part) /\ DOMAIN more = 1 .. Len(more)
      /\ DOMAIN flat = 1 .. Len(flat) /\ DOMAIN part = 1 .. Len(part)
      /\ \A k \in DOMAIN flat : k \in DOMAIN more /\ more[k] = flat[k]
      /\ \A j \in DOMAIN part : at[n] + j \in DOMAIN more /\ more[at[n] + j] = part[j]
  <2>1. /\ Len(more) = Len(flat) + Len(part) /\ DOMAIN more = 1 .. Len(more)
        /\ DOMAIN flat = 1 .. Len(flat) /\ DOMAIN part = 1 .. Len(part)
    BY <1>2
  <2>2. \A k \in DOMAIN flat : k \in DOMAIN more /\ more[k] = flat[k]
    BY <1>2
  <2>3. ASSUME NEW j \in DOMAIN part
        PROVE  at[n] + j \in DOMAIN more /\ more[at[n] + j] = part[j]
    <3>1. Len(flat) + j \in DOMAIN more /\ more[Len(flat) + j] = part[j]
      BY <1>2
    <3> QED
      BY <1>2, <3>1
  <2> QED
    BY <2>1, <2>2, <2>3
<1> HIDE DEF more
<1>4. ASSUME NEW i \in 1 .. n + 1, NEW j \in DOMAIN seqs[i]
      PROVE  at[i - 1] + j \in DOMAIN more /\ more[at[i - 1] + j] = seqs[i][j]
  <2>1. CASE i = n + 1
    <3>1. i - 1 = n /\ seqs[i] = part
      BY <1>1, <2>1 DEF part
    <3> QED
      BY <1>3, <3>1
  <2>2. CASE i # n + 1
    <3>1. i \in 1 .. n
      BY <1>1, <2>2
    <3>2. at[i - 1] + j \in DOMAIN flat /\ flat[at[i - 1] + j] = seqs[i][j]
      BY <3>1 DEF Lays
    <3> QED
      BY <1>3, <3>2
  <2> QED
    BY <2>1, <2>2
<1>5. ASSUME NEW k \in DOMAIN more
      PROVE  \E i \in 1 .. n + 1 : \E j \in DOMAIN seqs[i] : k = at[i - 1] + j
  <2>1. CASE k \in DOMAIN flat
    <3>1. PICK i \in 1 .. n : \E j \in DOMAIN seqs[i] : k = at[i - 1] + j
      BY <2>1 DEF Lays
    <3>2. i \in 1 .. n + 1
      BY <1>1
    <3> QED
      BY <3>1, <3>2
  <2>2. CASE k \notin DOMAIN flat
    <3>1. k - Len(flat) \in DOMAIN part /\ k = at[n] + (k - Len(flat))
      BY <1>2, <1>3, <2>2
    <3>2. n + 1 \in 1 .. n + 1
      BY <1>1
    <3> QED
      BY <1>1, <3>1, <3>2 DEF part
  <2> QED
    BY <2>1, <2>2
<1>6. Len(more) = at[n + 1]
  BY <1>2, <1>3 DEF part
<1>7. Lays(seqs, n + 1, at, more)
  BY <1>4, <1>5, <1>6 DEF Lays
<1> QED
  BY <1>7 DEF more, part

\* Where each part ends.
PartEnds(seqs, at) ==
    /\ at \in [0 .. Len(seqs) -> Nat] /\ at[0] = 0
    /\ \A i \in DOMAIN seqs : at[i] = at[i - 1] + Len(seqs[i])

\* FlattenSeq lays its parts one after the other, and nothing else.
LEMMA FlattenParts ==
    ASSUME NEW S, NEW seqs \in Seq(Seq(S))
    PROVE  /\ FlattenSeq(seqs) \in Seq(S)
           /\ \E at : PartEnds(seqs, at) /\ Lays(seqs, Len(seqs), at, FlattenSeq(seqs))
<1>0. Len(seqs) \in Nat /\ DOMAIN seqs = 1 .. Len(seqs)
  OBVIOUS
<1>1. CASE seqs = <<>>
  <2>1. FlattenSeq(seqs) = <<>> /\ Len(seqs) = 0
    BY <1>1 DEF FlattenSeq
  <2> DEFINE at == [i \in 0 .. Len(seqs) |-> 0]
  <2>2. PartEnds(seqs, at) /\ at[Len(seqs)] = 0
    BY <1>1, <2>1 DEF PartEnds
  <2>3. Lays(seqs, Len(seqs), at, <<>>)
    BY <2>1, <2>2 DEF Lays
  <2> QED
    BY <2>1, <2>2, <2>3
<1>2. CASE seqs # <<>>
  <2>1. PICK g : Joins(seqs, Len(seqs), g) /\ FlattenSeq(seqs) = g[Len(seqs)]
    BY <1>2, FlattenIsJoin
  <2>2. \A i \in 1 .. Len(seqs) : g[i] = IF i = 1 THEN seqs[i] ELSE g[i - 1] \o seqs[i]
    BY <2>1 DEF Joins
  <2> DEFINE at == [i \in 0 .. Len(seqs) |-> IF i = 0 THEN 0 ELSE Len(g[i])]
             T  == {n \in Nat : n < Len(seqs) =>
                        /\ g[n + 1] \in Seq(S)
                        /\ at[n + 1] = at[n] + Len(seqs[n + 1]) /\ at[n] \in Nat
                        /\ Lays(seqs, n + 1, at, g[n + 1])}
  <2>3. 0 \in T
    <3>1. g[1] = seqs[1] /\ seqs[1] \in Seq(S) /\ 1 \in DOMAIN seqs
      BY <1>0, <1>2, <2>2
    <3>2. at[0] = 0 /\ at[1] = Len(seqs[1]) /\ Len(seqs[1]) \in Nat
      BY <1>0, <1>2, <3>1
    <3> HIDE DEF at
    <3>3. Lays(seqs, 1, at, seqs[1])
      BY <3>1, <3>2 DEF Lays
    <3> QED
      BY <3>1, <3>2, <3>3
  <2>4. ASSUME NEW n \in T PROVE n + 1 \in T
    <3> SUFFICES ASSUME n + 1 < Len(seqs) PROVE n + 1 \in T
      OBVIOUS
    <3>1. n \in Nat /\ n < Len(seqs) /\ n + 1 \in DOMAIN seqs /\ n + 2 \in DOMAIN seqs
      BY <1>0
    <3>2. g[n + 1] \in Seq(S) /\ Lays(seqs, n + 1, at, g[n + 1])
      BY <3>1
    <3>3. n + 2 # 1 /\ n + 2 - 1 = n + 1 /\ n + 1 + 1 = n + 2 /\ n + 1 # 0 /\ n + 2 # 0
      BY <3>1
    <3>4. g[n + 2] = g[n + 1] \o seqs[n + 2] /\ seqs[n + 2] \in Seq(S)
      <4> DEFINE m == n + 2
      <4>1. m \in 1 .. Len(seqs) /\ m # 1 /\ m - 1 = n + 1 /\ m = n + 2
        BY <1>0, <3>1
      <4> HIDE DEF m, T, at
      <4>2. g[m] = IF m = 1 THEN seqs[m] ELSE g[m - 1] \o seqs[m]
        BY <2>2, <4>1
      <4>3. seqs[m] \in Seq(S)
        BY <1>0, <4>1
      <4> QED
        BY <4>1, <4>2, <4>3
    <3>5. at[n + 1] = Len(g[n + 1]) /\ at[n + 2] = Len(g[n + 2])
      BY <1>0, <3>1, <3>3
    <3>6. /\ g[n + 2] \in Seq(S) /\ Len(g[n + 1]) \in Nat
          /\ Len(g[n + 2]) = Len(g[n + 1]) + Len(seqs[n + 2])
      BY <3>2, <3>4
    <3> HIDE DEF at
    <3>7. Lays(seqs, n + 2, at, g[n + 2])
      <4> DEFINE m == n + 1
      <4>1. m \in 0 .. Len(seqs) - 1 /\ m + 1 = n + 2 /\ m = n + 1
        BY <3>1
      <4> HIDE DEF m
      <4>2. /\ at[m] \in Nat /\ g[m] \in Seq(S) /\ Lays(seqs, m, at, g[m])
            /\ at[m + 1] = at[m] + Len(seqs[m + 1])
        BY <3>2, <3>4, <3>5, <3>6, <4>1
      <4>3. Lays(seqs, m + 1, at, g[m] \o seqs[m + 1])
        BY <4>1, <4>2, LaysOneMore
      <4> QED
        BY <3>4, <4>1, <4>3
    <3>8. /\ n + 1 \in Nat /\ at[n + 1] \in Nat
          /\ at[n + 2] = at[n + 1] + Len(seqs[n + 2])
      BY <3>1, <3>5, <3>6
    <3> QED
      BY <3>3, <3>6, <3>7, <3>8
  <2> HIDE DEF T
  <2>5. T = Nat
    BY <2>3, <2>4, Induction DEF T
  <2>6. ASSUME NEW i \in DOMAIN seqs
        PROVE  /\ g[i] \in Seq(S) /\ at[i] = at[i - 1] + Len(seqs[i])
               /\ Lays(seqs, i, at, g[i])
    <3>1. i - 1 \in Nat /\ i - 1 < Len(seqs) /\ i - 1 + 1 = i
      BY <1>0
    <3>2. i - 1 \in T
      BY <2>5, <3>1
    <3> HIDE DEF at
    <3> QED
      BY <3>1, <3>2 DEF T
  <2>7. PartEnds(seqs, at)
    <3>1. \A i \in DOMAIN seqs : Len(g[i]) \in Nat
      BY <2>6
    <3>2. at \in [0 .. Len(seqs) -> Nat] /\ at[0] = 0
      BY <1>0, <3>1
    <3> HIDE DEF at
    <3> QED
      BY <2>6, <3>2 DEF PartEnds
  <2>8. Len(seqs) \in DOMAIN seqs
    BY <1>0, <1>2
  <2> HIDE DEF at
  <2> QED
    BY <2>1, <2>6, <2>7, <2>8
<1> QED
  BY <1>1, <1>2

\* The same, as a set.
LEMMA FlattenRange ==
    ASSUME NEW S, NEW seqs \in Seq(Seq(S))
    PROVE  ToSet(FlattenSeq(seqs)) = UNION {ToSet(seqs[i]) : i \in DOMAIN seqs}
<1> DEFINE flat == FlattenSeq(seqs)
<1>1. PICK at : PartEnds(seqs, at) /\ Lays(seqs, Len(seqs), at, flat)
  BY FlattenParts
<1>2. DOMAIN seqs = 1 .. Len(seqs)
  OBVIOUS
<1> HIDE DEF flat
<1>3. ASSUME NEW k \in DOMAIN flat
      PROVE  \E i \in DOMAIN seqs : flat[k] \in ToSet(seqs[i])
  <2>1. PICK i \in 1 .. Len(seqs) : \E j \in DOMAIN seqs[i] : k = at[i - 1] + j
    BY <1>1 DEF Lays
  <2>2. PICK j \in DOMAIN seqs[i] : k = at[i - 1] + j
    BY <2>1
  <2>3. flat[k] = seqs[i][j]
    BY <1>1, <2>2 DEF Lays
  <2> QED
    BY <1>2, <2>3 DEF ToSet
<1>4. ASSUME NEW i \in DOMAIN seqs, NEW j \in DOMAIN seqs[i]
      PROVE  seqs[i][j] \in ToSet(flat)
  <2>1. at[i - 1] + j \in DOMAIN flat /\ flat[at[i - 1] + j] = seqs[i][j]
    BY <1>1, <1>2 DEF Lays
  <2> QED
    BY <2>1 DEF ToSet
<1> QED
  BY <1>3, <1>4 DEF ToSet, flat

-----------------------------------------------------------------------------
(* SetToSeq, and short sequences *)

\* SetToSeq gives every element of a finite set a place of its own.
LEMMA SetToSeqOnce ==
    ASSUME NEW S, IsFiniteSet(S)
    PROVE  /\ SetToSeq(S) \in Seq(S)
           /\ \A m, n \in DOMAIN SetToSeq(S) :
                SetToSeq(S)[m] = SetToSeq(S)[n] => m = n
<1>1. Cardinality(S) \in Nat /\ ExistsBijection(1 .. Cardinality(S), S)
  BY FS_CardinalityType
<1>2. \E f \in [1 .. Cardinality(S) -> S] : IsInjective(f)
  BY <1>1 DEF ExistsBijection, Bijection, Injection
<1>3. SetToSeq(S) \in [1 .. Cardinality(S) -> S] /\ IsInjective(SetToSeq(S))
  BY <1>2 DEF SetToSeq
<1>4. SetToSeq(S) \in Seq(S)
  BY <1>1, <1>3, IsASeq
<1> QED
  BY <1>3, <1>4 DEF IsInjective

\* A queue of at most max messages keeps its type when a message is added at
\* either end, or its oldest one is dropped.
LEMMA QueueTypes ==
    ASSUME NEW S, NEW q \in Seq(S), NEW m \in S, NEW max \in Nat \ {0}
    PROVE  /\ (IF Len(q) < max THEN Append(q, m) ELSE Append(Tail(q), m)) \in Seq(S)
           /\ (IF Len(q) < max THEN <<m>> \o q ELSE q) \in Seq(S)
           /\ q # <<>> => Tail(q) \in Seq(S)
<1>1. q # <<>> => Tail(q) \in Seq(S)
  OBVIOUS
<1>2. Append(q, m) \in Seq(S) /\ <<m>> \o q \in Seq(S)
  OBVIOUS
<1>3. ASSUME ~(Len(q) < max) PROVE Append(Tail(q), m) \in Seq(S)
  <2>1. q # <<>>
    BY <1>3
  <2> QED
    BY <1>1, <2>1
<1> QED
  BY <1>1, <1>2, <1>3

\* A stack without its top.
LEMMA FrontAndLast ==
    ASSUME NEW S, NEW s \in Seq(S), s # <<>>
    PROVE  /\ Front(s) \in Seq(S) /\ Len(Front(s)) = Len(s) - 1
           /\ \A k \in 1 .. Len(s) - 1 : Front(s)[k] = s[k]
           /\ Len(s) \in DOMAIN s /\ Last(s) = s[Len(s)] /\ Last(s) \in S
<1>1. Len(s) \in Nat /\ Len(s) # 0 /\ DOMAIN s = 1 .. Len(s)
  OBVIOUS
<1>2. /\ Front(s) \in Seq(S) /\ Len(Front(s)) = Len(s) - 1
      /\ \A k \in 1 .. Len(s) - 1 : Front(s)[k] = s[k]
  BY <1>1 DEF Front
<1>3. Len(s) \in DOMAIN s /\ s[Len(s)] \in S
  BY <1>1
<1> QED
  BY <1>2, <1>3 DEF Last

\* The elements of two sequences one after the other.
LEMMA Joined ==
    ASSUME NEW S, NEW s \in Seq(S), NEW t \in Seq(S)
    PROVE  ToSet(s \o t) = ToSet(s) \cup ToSet(t)
<1>1. /\ DOMAIN s = 1 .. Len(s) /\ DOMAIN t = 1 .. Len(t) /\ Len(s) \in Nat /\ Len(t) \in Nat
      /\ DOMAIN (s \o t) = 1 .. Len(s) + Len(t)
      /\ \A k \in 1 .. Len(s) + Len(t) : (s \o t)[k] = IF k <= Len(s) THEN s[k] ELSE t[k - Len(s)]
  OBVIOUS
<1> DEFINE j == s \o t
<1> HIDE DEF j
<1>2. ASSUME NEW k \in 1 .. Len(s) + Len(t)
      PROVE  j[k] \in ToSet(s) \cup ToSet(t)
  <2>1. CASE k <= Len(s)
    BY <1>1, <2>1 DEF ToSet, j
  <2>2. CASE ~(k <= Len(s))
    <3>1. k - Len(s) \in 1 .. Len(t)
      BY <1>1, <2>2
    <3> QED
      BY <1>1, <2>2, <3>1 DEF ToSet, j
  <2> QED
    BY <2>1, <2>2
<1>3. ASSUME NEW k \in 1 .. Len(s)
      PROVE  \E i \in DOMAIN j : j[i] = s[k]
  <2>1. k \in 1 .. Len(s) + Len(t) /\ k <= Len(s)
    BY <1>1
  <2> QED
    BY <1>1, <2>1 DEF j
<1>4. ASSUME NEW k \in 1 .. Len(t)
      PROVE  \E i \in DOMAIN j : j[i] = t[k]
  <2>1. /\ Len(s) + k \in 1 .. Len(s) + Len(t) /\ ~(Len(s) + k <= Len(s))
        /\ (Len(s) + k) - Len(s) = k
    BY <1>1
  <2> QED
    BY <1>1, <2>1 DEF j
<1>5. ToSet(j) \subseteq ToSet(s) \cup ToSet(t)
  <2>1. DOMAIN j = 1 .. Len(s) + Len(t)
    BY <1>1 DEF j
  <2> QED
    BY <1>2, <2>1 DEF ToSet
<1>6. ToSet(s) \subseteq ToSet(j) /\ ToSet(t) \subseteq ToSet(j)
  BY <1>1, <1>3, <1>4 DEF ToSet
<1> QED
  BY <1>5, <1>6 DEF j

-----------------------------------------------------------------------------
(* Sequences whose elements are replaced by sequences *)

\* Induction over sequences: a set that holds the empty one, and with each
\* sequence all that are one element longer.
LEMMA SeqInduction ==
    ASSUME NEW S, NEW T \in SUBSET Seq(S), <<>> \in T,
           \A s \in T : \A x \in S : Append(s, x) \in T
    PROVE  T = Seq(S)
<1> DEFINE N == {n \in Nat : \A s \in Seq(S) : Len(s) = n => s \in T}
<1>1. 0 \in N
  <2>1. \A s \in Seq(S) : Len(s) = 0 => s = <<>>
    OBVIOUS
  <2> QED
    BY <2>1
<1>2. ASSUME NEW n \in N PROVE n + 1 \in N
  <2>1. ASSUME NEW s \in Seq(S), Len(s) = n + 1 PROVE s \in T
    <3>1. n \in Nat /\ s # <<>>
      BY <2>1
    <3>2. PICK t \in Seq(S), x \in S : s = Append(t, x)
      BY <3>1, SequenceEmptyOrAppend
    <3>3. Len(t) = n
      BY <2>1, <3>1, <3>2
    <3>4. t \in T
      BY <3>3
    <3> QED
      BY <3>2, <3>4
  <2> QED
    BY <2>1
<1>3. N = Nat
  <2> HIDE DEF N
  <2>1. N \subseteq Nat
    BY DEF N
  <2> QED
    BY <1>1, <1>2, <2>1, Induction
<1>4. ASSUME NEW s \in Seq(S) PROVE s \in T
  <2>1. Len(s) \in N
    BY <1>3
  <2> QED
    BY <2>1
<1> QED
  BY <1>4

\* One part more at the end.
LEMMA FlattenMore ==
    ASSUME NEW S, NEW seqs \in Seq(Seq(S)), NEW x \in Seq(S)
    PROVE  FlattenSeq(Append(seqs, x)) = FlattenSeq(seqs) \o x
<1> DEFINE more == Append(seqs, x)
           n == Len(seqs)
<1>1. /\ more \in Seq(Seq(S)) /\ more # <<>> /\ Len(more) = n + 1 /\ n \in Nat
      /\ more[n + 1] = x /\ \A i \in 1 .. n : more[i] = seqs[i]
  BY AppendProperties
<1> HIDE DEF more
<1>2. PICK g : Joins(more, n + 1, g) /\ FlattenSeq(more) = g[n + 1]
  BY <1>1, FlattenIsJoin
<1>3. \A i \in 1 .. n + 1 : g[i] = IF i = 1 THEN more[i] ELSE g[i - 1] \o more[i]
  BY <1>2 DEF Joins
<1>4. CASE seqs = <<>>
  <2>1. n = 0 /\ FlattenSeq(seqs) = <<>>
    BY <1>4 DEF FlattenSeq
  <2>2. g[1] = x
    BY <1>1, <1>3, <2>1
  <2> QED
    BY <1>2, <2>1, <2>2 DEF more
<1>5. CASE seqs # <<>>
  <2>1. PICK h : Joins(seqs, n, h) /\ FlattenSeq(seqs) = h[n]
    BY <1>5, FlattenIsJoin
  <2>2. \A i \in 1 .. n : h[i] = IF i = 1 THEN seqs[i] ELSE h[i - 1] \o seqs[i]
    BY <2>1 DEF Joins
  <2>3. n # 0
    BY <1>5
  <2> DEFINE T == {m \in Nat : m < n => g[m + 1] = h[m + 1]}
  <2> HIDE DEF n
  <2>4. 0 \in T
    <3>1. 1 \in 1 .. n + 1 /\ 1 \in 1 .. n
      BY <1>1, <2>3
    <3> QED
      BY <1>1, <1>3, <2>2, <3>1
  <2>5. ASSUME NEW m \in T PROVE m + 1 \in T
    <3> SUFFICES ASSUME m + 1 < n PROVE g[m + 2] = h[m + 2]
      OBVIOUS
    <3> DEFINE k == m + 2
    <3>1. /\ m \in Nat /\ m < n /\ k \in 1 .. n + 1 /\ k \in 1 .. n /\ k # 1
          /\ k - 1 = m + 1
      BY <1>1
    <3>2. g[m + 1] = h[m + 1]
      BY <3>1
    <3> HIDE DEF k, T
    <3>3. g[k] = g[m + 1] \o more[k] /\ h[k] = h[m + 1] \o seqs[k]
      BY <1>3, <2>2, <3>1
    <3>4. g[k] = h[k]
      BY <1>1, <3>1, <3>2, <3>3
    <3> QED
      BY <3>4 DEF k
  <2> HIDE DEF T
  <2>6. T = Nat
    <3>1. T \subseteq Nat
      BY DEF T
    <3> QED
      BY <2>4, <2>5, <3>1, Induction
  <2>7. g[n] = h[n]
    <3>1. n - 1 \in Nat /\ n - 1 < n /\ n - 1 + 1 = n
      BY <1>1, <2>3
    <3> QED
      BY <2>6, <3>1 DEF T
  <2>8. g[n + 1] = g[n] \o x
    <3> DEFINE k == n + 1
    <3>1. k \in 1 .. n + 1 /\ k # 1 /\ k - 1 = n
      BY <1>1, <2>3
    <3> HIDE DEF k
    <3>2. g[k] = g[n] \o more[k]
      BY <1>3, <3>1
    <3> QED
      BY <1>1, <3>2 DEF k
  <2> QED
    BY <1>2, <2>1, <2>7, <2>8 DEF more
<1> QED
  BY <1>4, <1>5

\* Every element of s is replaced by a sequence.
Replaces(G, S, P) == G \in [S -> Seq(P)]
Mapped(s, G) == [k \in DOMAIN s |-> G[s[k]]]
Each(s, G)   == FlattenSeq(Mapped(s, G))

LEMMA EachOfNone ==
    ASSUME NEW G
    PROVE  Each(<<>>, G) = <<>>
<1>1. Mapped(<<>>, G) = <<>>
  BY DEF Mapped
<1> QED
  BY <1>1 DEF Each, FlattenSeq

LEMMA EachIsSeq ==
    ASSUME NEW S, NEW P, NEW G, Replaces(G, S, P), NEW s \in Seq(S)
    PROVE  /\ Each(s, G) \in Seq(P)
           /\ Mapped(s, G) \in Seq(Seq(P)) /\ Len(Mapped(s, G)) = Len(s)
<1> DEFINE t == Mapped(s, G)
<1>1. \A k \in 1 .. Len(s) : G[s[k]] \in Seq(P)
  BY DEF Replaces
<1>2. DOMAIN s = 1 .. Len(s) /\ Len(s) \in Nat
  OBVIOUS
<1>3. t \in Seq(Seq(P)) /\ Len(t) = Len(s)
  BY <1>1, <1>2, IsASeq DEF Mapped
<1> HIDE DEF t
<1>4. FlattenSeq(t) \in Seq(P)
  BY <1>3, FlattenParts
<1> QED
  BY <1>3, <1>4 DEF Each, t

LEMMA EachMore ==
    ASSUME NEW S, NEW P, NEW G, Replaces(G, S, P), NEW s \in Seq(S), NEW x \in S
    PROVE  G[x] \in Seq(P) /\ Each(Append(s, x), G) = Each(s, G) \o G[x]
<1> DEFINE n == Len(s)
           more == Append(s, x)
           t == Mapped(s, G)
           u == Mapped(more, G)
           v == Append(t, G[x])
<1>1. /\ more \in Seq(S) /\ Len(more) = n + 1 /\ more[n + 1] = x
      /\ \A k \in 1 .. n : more[k] = s[k]
  BY AppendProperties
<1>2. n \in Nat /\ DOMAIN s = 1 .. n /\ DOMAIN more = 1 .. n + 1
  BY <1>1
<1>3. t \in Seq(Seq(P)) /\ Len(t) = n /\ u \in Seq(Seq(P)) /\ Len(u) = n + 1
  <2>1. t \in Seq(Seq(P)) /\ Len(t) = n
    BY EachIsSeq
  <2> HIDE DEF more
  <2>2. u \in Seq(Seq(P)) /\ Len(u) = Len(more)
    BY <1>1, EachIsSeq
  <2> HIDE DEF t, u
  <2> QED
    BY <1>1, <2>1, <2>2
<1>0. G[x] \in Seq(P)
  BY DEF Replaces
<1>4. (\A k \in 1 .. n : t[k] = G[s[k]]) /\ \A k \in 1 .. n + 1 : u[k] = G[more[k]]
  BY <1>2 DEF Mapped
<1> HIDE DEF t, u, n, more
<1>5. /\ v \in Seq(Seq(P)) /\ Len(v) = n + 1 /\ v[n + 1] = G[x]
      /\ \A k \in 1 .. n : v[k] = t[k]
  BY <1>0, <1>3, AppendProperties
<1> HIDE DEF v
<1>6. ASSUME NEW k \in 1 .. n + 1 PROVE u[k] = v[k]
  <2>1. CASE k = n + 1
    BY <1>1, <1>4, <1>5, <2>1
  <2>2. CASE k # n + 1
    <3>1. k \in 1 .. n
      BY <1>2, <2>2
    <3>2. u[k] = G[more[k]] /\ more[k] = s[k]
      BY <1>1, <1>4, <3>1
    <3>3. v[k] = G[s[k]]
      BY <1>4, <1>5, <3>1
    <3> QED
      BY <3>2, <3>3
  <2> QED
    BY <2>1, <2>2
<1>7. u = v
  BY <1>3, <1>5, <1>6, SeqEqual
<1>8. FlattenSeq(v) = FlattenSeq(t) \o G[x]
  BY <1>0, <1>3, FlattenMore DEF v
<1> QED
  BY <1>0, <1>7, <1>8 DEF Each, t, u, more

\* Replacing the elements of two sequences, each by itself or one after the
\* other.
LEMMA EachJoins ==
    ASSUME NEW S, NEW P, NEW G, Replaces(G, S, P), NEW s \in Seq(S)
    PROVE  \A t \in Seq(S) : Each(s \o t, G) = Each(s, G) \o Each(t, G)
<1> DEFINE T == {t \in Seq(S) : Each(s \o t, G) = Each(s, G) \o Each(t, G)}
<1>1. <<>> \in T
  <2>1. s \o <<>> = s /\ Each(s, G) \in Seq(P) /\ Each(<<>>, G) = <<>>
    <3>1. Each(s, G) \in Seq(P)
      BY EachIsSeq
    <3>2. s \o <<>> = s
      OBVIOUS
    <3> QED
      BY <3>1, <3>2, EachOfNone
  <2>2. Each(s, G) \o <<>> = Each(s, G)
    BY <2>1
  <2> QED
    BY <2>1, <2>2
<1>2. ASSUME NEW t \in T, NEW x \in S PROVE Append(t, x) \in T
  <2>1. t \in Seq(S) /\ Each(s \o t, G) = Each(s, G) \o Each(t, G)
    OBVIOUS
  <2>2. s \o t \in Seq(S) /\ <<x>> \in Seq(S) /\ Append(t, x) \in Seq(S)
    BY <2>1
  <2>3. s \o Append(t, x) = Append(s \o t, x)
    <3>1. Append(t, x) = t \o <<x>> /\ Append(s \o t, x) = (s \o t) \o <<x>>
      BY <2>1, <2>2, AppendIsConcat
    <3> QED
      BY <2>1, <2>2, <3>1, ConcatAssociative
  <2>4. G[x] \in Seq(P) /\ Each(Append(s \o t, x), G) = Each(s \o t, G) \o G[x]
    <3> DEFINE j == s \o t
    <3>1. j \in Seq(S)
      BY <2>2
    <3> HIDE DEF j, T
    <3>2. G[x] \in Seq(P) /\ Each(Append(j, x), G) = Each(j, G) \o G[x]
      BY <3>1, EachMore
    <3> QED
      BY <3>2 DEF j
  <2>5. G[x] \in Seq(P) /\ Each(Append(t, x), G) = Each(t, G) \o G[x]
    BY <2>1, EachMore
  <2>6. Each(s, G) \in Seq(P) /\ Each(t, G) \in Seq(P)
    BY <2>1, EachIsSeq
  <2>7. (Each(s, G) \o Each(t, G)) \o G[x] = Each(s, G) \o (Each(t, G) \o G[x])
    <3> DEFINE a == Each(s, G)
               b == Each(t, G)
               c == G[x]
    <3>1. a \in Seq(P) /\ b \in Seq(P) /\ c \in Seq(P)
      BY <2>4, <2>6
    <3> HIDE DEF a, b, c
    <3>2. (a \o b) \o c = a \o (b \o c)
      BY <3>1, ConcatAssociative
    <3> QED
      BY <3>2 DEF a, b, c
  <2> QED
    BY <2>1, <2>2, <2>3, <2>4, <2>5, <2>7
<1>3. T = Seq(S)
  <2> HIDE DEF T
  <2>1. T \subseteq Seq(S)
    BY DEF T
  <2> QED
    BY <1>1, <1>2, <2>1, SeqInduction
<1> QED
  BY <1>3

\* A function of sequences that may be applied part by part.
PartByPart(P, H) ==
    /\ H \in [Seq(P) -> Seq(P)] /\ H[<<>>] = <<>>
    /\ \A s, t \in Seq(P) : H[s \o t] = H[s] \o H[t]

LEMMA EachThen ==
    ASSUME NEW S, NEW P, NEW G, Replaces(G, S, P), NEW H, PartByPart(P, H)
    PROVE  \A s \in Seq(S) : H[Each(s, G)] = Each(s, [x \in S |-> H[G[x]]])
<1> DEFINE F == [x \in S |-> H[G[x]]]
           T == {s \in Seq(S) : H[Each(s, G)] = Each(s, F)}
<1>1. Replaces(F, S, P) /\ \A x \in S : F[x] = H[G[x]]
  BY DEF PartByPart, Replaces
<1> HIDE DEF F
<1>2. <<>> \in T
  <2>1. Each(<<>>, G) = <<>> /\ Each(<<>>, F) = <<>>
    BY EachOfNone
  <2>2. <<>> \in Seq(S) /\ H[<<>>] = <<>>
    BY DEF PartByPart
  <2> QED
    BY <2>1, <2>2
<1>3. ASSUME NEW s \in T, NEW x \in S PROVE Append(s, x) \in T
  <2>1. s \in Seq(S) /\ H[Each(s, G)] = Each(s, F) /\ Append(s, x) \in Seq(S)
    OBVIOUS
  <2>2. /\ Each(s, G) \in Seq(P)
        /\ G[x] \in Seq(P) /\ Each(Append(s, x), G) = Each(s, G) \o G[x]
    <3>1. Each(s, G) \in Seq(P)
      BY <2>1, EachIsSeq
    <3> HIDE DEF T
    <3>2. G[x] \in Seq(P) /\ Each(Append(s, x), G) = Each(s, G) \o G[x]
      BY <2>1, EachMore
    <3> QED
      BY <3>1, <3>2
  <2>3. F[x] \in Seq(P) /\ Each(Append(s, x), F) = Each(s, F) \o F[x]
    BY <1>1, <2>1, EachMore
  <2>4. H[Each(s, G) \o G[x]] = H[Each(s, G)] \o H[G[x]]
    BY <2>2 DEF PartByPart
  <2> QED
    BY <1>1, <2>1, <2>2, <2>3, <2>4
<1>4. T = Seq(S)
  <2> HIDE DEF T
  <2>1. T \subseteq Seq(S)
    BY DEF T
  <2> QED
    BY <1>2, <1>3, <2>1, SeqInduction
<1> QED
  BY <1>4 DEF F

\* Replacing every element by itself.
LEMMA EachItself ==
    ASSUME NEW P
    PROVE  \A s \in Seq(P) : Each(s, [x \in P |-> <<x>>]) = s
<1> DEFINE G == [x \in P |-> <<x>>]
           T == {s \in Seq(P) : Each(s, G) = s}
<1>1. Replaces(G, P, P) /\ \A x \in P : G[x] = <<x>>
  BY DEF Replaces
<1> HIDE DEF G
<1>2. <<>> \in T
  BY EachOfNone
<1>3. ASSUME NEW s \in T, NEW x \in P PROVE Append(s, x) \in T
  <2>1. s \in Seq(P) /\ Each(s, G) = s /\ Append(s, x) \in Seq(P)
    OBVIOUS
  <2> HIDE DEF T
  <2>2. G[x] \in Seq(P) /\ Each(Append(s, x), G) = Each(s, G) \o G[x]
    <3>1. s \in Seq(P) /\ x \in P /\ Replaces(G, P, P)
      BY <1>1, <2>1
    <3> QED
      BY <3>1, EachMore
  <2>3. Append(s, x) = s \o <<x>>
    BY <2>1, AppendIsConcat
  <2> QED
    BY <1>1, <2>1, <2>2, <2>3 DEF T
<1>4. T = Seq(P)
  <2> HIDE DEF T
  <2>1. T \subseteq Seq(P)
    BY DEF T
  <2> QED
    BY <1>2, <1>3, <2>1, SeqInduction
<1> QED
  BY <1>4 DEF G

\* Replacing the only element.
LEMMA EachOfOne ==
    ASSUME NEW S, NEW P, NEW G, Replaces(G, S, P), NEW x \in S
    PROVE  Each(<<x>>, G) = G[x]
<1>1. <<x>> = Append(<<>>, x) /\ <<>> \in Seq(S)
  OBVIOUS
<1> DEFINE e == <<>>
<1>2. e \in Seq(S)
  OBVIOUS
<1> HIDE DEF e
<1>3. G[x] \in Seq(P) /\ Each(Append(e, x), G) = Each(e, G) \o G[x]
  BY <1>2, EachMore
<1> QED
  BY <1>1, <1>3, EachOfNone DEF e
=============================================================================
