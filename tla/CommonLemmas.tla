---------------------------- MODULE CommonLemmas ----------------------------
(***************************************************************************)
(* Facts about numbers, positions and sequences that the proofs share.     *)
(***************************************************************************)
EXTENDS Integers, SequenceTheorems, WellFoundedInduction, TLAPS

-----------------------------------------------------------------------------
(* A set of numbers has a smallest and, when it is finite, a largest: what   *)
(* is needed of a CHOOSE between positions                                   *)

NatLess == {p \in Nat \X Nat : p[1] < p[2]}

LEMMA NatLessIsWellFounded == IsWellFoundedOn(NatLess, Nat)
<1>1. NatLess = OpToRel(<, Nat)
  BY SMT DEF OpToRel, NatLess
<1> QED BY <1>1, NatLessThanWellFounded, Zenon

LEMMA Smallest ==
  ASSUME NEW T \in SUBSET Nat, T # {}
  PROVE  \E x \in T : \A y \in T : x <= y
<1>1. PICK x \in T : \A y \in T : <<y, x>> \notin NatLess
  BY NatLessIsWellFounded, WFMin
<1>2. \A y \in T : ~(y < x)
  BY <1>1 DEF NatLess
<1> QED BY <1>1, <1>2

LEMMA Largest ==
  ASSUME NEW n \in Nat, NEW S \in SUBSET (1..n), S # {}
  PROVE  \E i \in S : \A j \in S : j <= i
<1> DEFINE T == {n - i : i \in S}
<1>1. T \in SUBSET Nat /\ T # {}
  <2>1. \A i \in 1..n : n - i \in Nat
    OBVIOUS
  <2> QED BY <2>1
<1>2. \E t \in T : \A u \in T : t <= u
  <2> HIDE DEF T
  <2> QED BY <1>1, Smallest
<1>3. PICK i \in S : \A j \in S : n - i <= n - j
  BY <1>2
<1> QED BY <1>3

-----------------------------------------------------------------------------
(* Slots: the remainder of a position *)

\* Two positions that share a slot are at least one lap apart.
LEMMA ModApart ==
  ASSUME NEW C \in Nat, C >= 1, NEW p \in Nat, NEW q \in Nat, (p % C) = (q % C), p < q
  PROVE  q >= p + C
<1>1. /\ p = C * (p \div C) + (p % C)
      /\ p \div C \in Int
  OBVIOUS
<1>2. /\ q = C * (q \div C) + (q % C)
      /\ q \div C \in Int
  OBVIOUS
<1> DEFINE i == p \div C
           j == q \div C
<1> HIDE DEF i, j
<1>3. q - p = C * j - C * i /\ i \in Int /\ j \in Int
  BY <1>1, <1>2 DEF i, j
<1>4. C * j - C * i = C * (j - i)
  BY <1>3
<1>5. j - i >= 1
  <2>1. SUFFICES ASSUME j - i <= 0 PROVE FALSE
    BY <1>3
  <2>2. C * (j - i) <= 0
    BY <2>1, <1>3
  <2>. QED BY <2>2, <1>3, <1>4
<1>6. C * (j - i) >= C
  BY <1>5, <1>3
<1>. QED BY <1>3, <1>4, <1>6

\* A lap later the slot is the same one.
LEMMA ModLap ==
  ASSUME NEW C \in Nat, C >= 1, NEW p \in Nat
  PROVE  ((p + C) % C) = (p % C)
<1> DEFINE i == p \div C
           j == (p + C) \div C
           r == p % C
           s == (p + C) % C
<1>1. /\ p = C * i + r
      /\ i \in Int /\ r \in 0..(C - 1)
  OBVIOUS
<1>2. /\ p + C = C * j + s
      /\ j \in Int /\ s \in 0..(C - 1)
  OBVIOUS
<1> HIDE DEF i, j, r, s
<1>3. s - r = C * (i + 1 - j)
  <2>1. C * (i + 1 - j) = C * i + C - C * j
    BY <1>1, <1>2
  <2>. QED BY <2>1, <1>1, <1>2
<1>4. i + 1 - j = 0
  <2>1. ASSUME i + 1 - j >= 1 PROVE FALSE
    <3>1. C * (i + 1 - j) >= C
      BY <2>1, <1>1, <1>2
    <3>. QED BY <3>1, <1>1, <1>2, <1>3
  <2>2. ASSUME i + 1 - j <= -1 PROVE FALSE
    <3>1. C * (i + 1 - j) <= -C
      BY <2>2, <1>1, <1>2
    <3>. QED BY <3>1, <1>1, <1>2, <1>3
  <2>. QED BY <2>1, <2>2, <1>1, <1>2
<1>5. s = r
  BY <1>1, <1>2, <1>3, <1>4
<1>. QED BY <1>5 DEF s, r

\* The first lap numbers the slots.
LEMMA ModFirst ==
  ASSUME NEW C \in Nat, C >= 1, NEW p \in 0..(C - 1)
  PROVE  (p % C) = p
<1> DEFINE i == p \div C
           r == p % C
<1>1. p = C * i + r /\ i \in Int /\ r \in 0..(C - 1)
  OBVIOUS
<1> HIDE DEF i, r
<1>2. ASSUME i >= 1 PROVE FALSE
  <2>1. C * i >= C
    BY <1>1, <1>2
  <2>. QED BY <2>1, <1>1
<1>3. ASSUME i <= -1 PROVE FALSE
  <2>1. C * i <= -C
    BY <1>1, <1>3
  <2>. QED BY <2>1, <1>1
<1>4. i = 0
  BY <1>1, <1>2, <1>3
<1>. QED BY <1>1, <1>4 DEF r

-----------------------------------------------------------------------------
(* Suffixes: the queue is what is left of the values that claimed a position *)

\* What is left of a sequence when its first d elements are gone, and how it
\* changes when the sequence grows at the end or one more element goes.
LEMMA SuffixIs ==
  ASSUME NEW S, NEW s \in Seq(S), NEW n \in Nat, n = Len(s), NEW d \in 0..n
  PROVE  /\ SubSeq(s, d + 1, n) \in Seq(S)
         /\ Len(SubSeq(s, d + 1, n)) = n - d
         /\ \A i \in 1..(n - d) : SubSeq(s, d + 1, n)[i] = s[d + i]
OBVIOUS

LEMMA SuffixGrows ==
  ASSUME NEW S, NEW s \in Seq(S), NEW n \in Nat, n = Len(s),
         NEW d \in 0..n, NEW v \in S
  PROVE  SubSeq(Append(s, v), d + 1, n + 1) = Append(SubSeq(s, d + 1, n), v)
<1>1. /\ Append(s, v) \in Seq(S) /\ Len(Append(s, v)) = n + 1
      /\ \A i \in 1..n : Append(s, v)[i] = s[i]
      /\ Append(s, v)[n + 1] = v
  BY AppendProperties
<1> DEFINE new == SubSeq(Append(s, v), d + 1, n + 1)
           old == SubSeq(s, d + 1, n)
<1>2. /\ new \in Seq(S) /\ Len(new) = n + 1 - d
      /\ \A i \in 1..(n + 1 - d) : new[i] = Append(s, v)[d + i]
  BY <1>1, SuffixIs
<1>3. /\ old \in Seq(S) /\ Len(old) = n - d
      /\ \A i \in 1..(n - d) : old[i] = s[d + i]
  BY SuffixIs
<1> HIDE DEF new, old
<1> DEFINE grown == Append(old, v)
<1>4. /\ grown \in Seq(S) /\ Len(grown) = n - d + 1
      /\ \A i \in 1..(n - d) : grown[i] = old[i]
      /\ grown[n - d + 1] = v
  BY <1>3, AppendProperties
<1> HIDE DEF grown
<1>5. ASSUME NEW i \in 1..(n - d) PROVE new[i] = grown[i]
  <2>1. d + i \in 1..n /\ i \in 1..(n + 1 - d)
    OBVIOUS
  <2>2. new[i] = s[d + i]
    BY <2>1, <1>1, <1>2
  <2>. QED BY <2>2, <1>3, <1>4
<1>6. new[n - d + 1] = grown[n - d + 1]
  <2>1. d + (n - d + 1) = n + 1 /\ n - d + 1 \in 1..(n + 1 - d)
    OBVIOUS
  <2>. QED BY <2>1, <1>1, <1>2, <1>4
<1>7. \A i \in 1..(n + 1 - d) : i \in 1..(n - d) \/ i = n - d + 1
  OBVIOUS
<1>8. Len(new) = Len(grown) /\ \A i \in 1..Len(new) : new[i] = grown[i]
  BY <1>2, <1>4, <1>5, <1>6, <1>7
<1>9. new = grown
  BY <1>2, <1>4, <1>8, SeqEqual
<1>. QED BY <1>9 DEF new, old, grown

LEMMA SuffixShrinks ==
  ASSUME NEW S, NEW s \in Seq(S), NEW n \in Nat, n = Len(s),
         NEW d \in Nat, d < n
  PROVE  /\ SubSeq(s, d + 1, n) # <<>>
         /\ Head(SubSeq(s, d + 1, n)) = s[d + 1]
         /\ SubSeq(s, d + 2, n) = Tail(SubSeq(s, d + 1, n))
<1>1. d + 1 \in 1..Len(s) /\ n \in (d + 1)..Len(s) /\ (d + 1) + 1 = d + 2
  OBVIOUS
<1>2. Len(SubSeq(s, d + 1, n)) = n - d
  BY SuffixIs
<1>3. SubSeq(s, d + 1, n) # <<>>
  BY <1>2, EmptySeq
<1>4. /\ Head(SubSeq(s, d + 1, n)) = s[d + 1]
      /\ Tail(SubSeq(s, d + 1, n)) = SubSeq(s, (d + 1) + 1, n)
  BY <1>1, HeadTailOfSubSeq
<1>. QED BY <1>1, <1>3, <1>4
=============================================================================
