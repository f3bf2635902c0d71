----------------------------- MODULE LoopLemmas -----------------------------
(***************************************************************************)
(* Induction over the length of a loop, for the proofs about operators     *)
(* that go through a sequence.                                             *)
(***************************************************************************)
EXTENDS SequencesExt, SequenceTheorems, WellFoundedInduction, TLAPS

\* What is wrong somewhere is wrong at a first place: the form of induction
\* that the provers can use.
LEMMA LeastNumber ==
  ASSUME NEW T \in SUBSET Nat, T # {}
  PROVE  \E m \in T : \A k \in T : m <= k
  <1> DEFINE R == OpToRel(<, Nat)
  <1>1. PICK m \in T : \A y \in T : <<y, m>> \notin R
    <2>1. IsWellFoundedOn(R, Nat)
      BY NatLessThanWellFounded
    <2> HIDE DEF R
    <2> QED
      BY <2>1, WFMin
  <1>2. ASSUME NEW k \in T, k < m PROVE FALSE
    <2>1. <<k, m>> \in R
      BY <1>2 DEF OpToRel
    <2> QED
      BY <1>1, <2>1
  <1>3. \A k \in T : m <= k
    BY <1>2
  <1> QED
    BY <1>3

\* A set of numbers up to n that is not empty has a greatest element.
LEMMA GreatestNumber ==
  ASSUME NEW n \in Nat, NEW T \in SUBSET (0..n), T # {}
  PROVE  \E m \in T : \A k \in T : k <= m
  <1> DEFINE U == {n - k : k \in T}
  <1>0. \A k \in T : k \in Nat /\ k <= n /\ n - k \in Nat
    OBVIOUS
  <1>1. U \in SUBSET Nat /\ U # {}
    BY <1>0
  <1>2. PICK d \in U : \A u \in U : d <= u
    <2> HIDE DEF U
    <2> QED
      BY <1>1, LeastNumber
  <1>3. PICK m \in T : d = n - m
    BY <1>2
  <1>4. ASSUME NEW k \in T PROVE k <= m
    <2>1. n - m <= n - k
      BY <1>2, <1>3
    <2> QED
      BY <1>0, <2>1
  <1> QED
    BY <1>4

\* The value that FlattenSeq computes, of a sequence that is not empty.
LEMMA FlattenDef ==
  ASSUME NEW seqs, Len(seqs) # 0
  PROVE  FlattenSeq(seqs) =
           (CHOOSE f : f = [i \in 1..Len(seqs) |-> IF i = 1 THEN seqs[i] ELSE f[i-1] \o seqs[i]])[Len(seqs)]
  BY DEF FlattenSeq

\* Joining sequences of one element each gives the sequence of the elements.
LEMMA FlattenSingles ==
  ASSUME NEW S, NEW s \in Seq(S), s # <<>>
  PROVE  FlattenSeq([i \in 1..Len(s) |-> <<s[i]>>]) = s
  <1> DEFINE n == Len(s)
             seqs == [i \in 1..n |-> <<s[i]>>]
             whole == [i \in 1..n |-> SubSeq(s, 1, i)]
  <1>1. n \in Nat /\ n # 0 /\ Len(seqs) = n
    OBVIOUS
  <1>2. /\ SubSeq(s, 1, 1) = <<s[1]>>
        /\ \A i \in 2..n : SubSeq(s, 1, i) = SubSeq(s, 1, i-1) \o <<s[i]>>
    <2>1. ASSUME NEW i \in 1..n PROVE SubSeq(s, 1, i) = SubSeq(s, 1, i-1) \o <<s[i]>>
      BY <1>1, SubSeqRecursiveSecond
    <2>2. SubSeq(s, 1, 1) = <<s[1]>>
      <3>1. SubSeq(s, 1, 1) \in Seq(S) /\ Len(SubSeq(s, 1, 1)) = 1 /\ SubSeq(s, 1, 1)[1] = s[1]
        BY <1>1, SubSeqProperties
      <3>2. <<s[1]>> \in Seq(S) /\ Len(<<s[1]>>) = 1 /\ <<s[1]>>[1] = s[1]
        BY <1>1
      <3>3. \A i \in 1..1 : SubSeq(s, 1, 1)[i] = <<s[1]>>[i]
        BY <3>1, <3>2
      <3> QED
        BY <3>1, <3>2, <3>3, SeqEqual
    <2> QED
      BY <2>1, <2>2
  <1>3. whole = [i \in 1..n |-> IF i = 1 THEN seqs[i] ELSE whole[i-1] \o seqs[i]]
    <2> SUFFICES ASSUME NEW i \in 1..n
                 PROVE  whole[i] = IF i = 1 THEN seqs[i] ELSE whole[i-1] \o seqs[i]
      BY Zenon
    <2>1. CASE i = 1
      BY <1>1, <1>2, <2>1
    <2>2. CASE i # 1
      <3>1. i - 1 \in 1..n /\ i \in 2..n
        BY <2>2, <1>1
      <3> QED
        BY <1>2, <2>2, <3>1
    <2> QED
      BY <2>1, <2>2
  <1>4. PICK f : /\ f = [i \in 1..n |-> IF i = 1 THEN seqs[i] ELSE f[i-1] \o seqs[i]]
                 /\ FlattenSeq(seqs) = f[n]
    <2> HIDE DEF seqs, whole, n
    <2> DEFINE fl == CHOOSE f : f = [i \in 1..Len(seqs) |-> IF i = 1 THEN seqs[i] ELSE f[i-1] \o seqs[i]]
    <2>1. fl = [i \in 1..Len(seqs) |-> IF i = 1 THEN seqs[i] ELSE fl[i-1] \o seqs[i]]
      BY <1>1, <1>3
    <2>2. FlattenSeq(seqs) = fl[Len(seqs)]
      BY <1>1, FlattenDef
    <2> HIDE DEF fl
    <2> QED
      BY <1>1, <2>1, <2>2
  <1> DEFINE Wrong == {i \in 1..n : f[i] # SubSeq(s, 1, i)}
  <1>5. Wrong = {}
    <2> SUFFICES ASSUME Wrong # {} PROVE FALSE
      OBVIOUS
    <2>1. PICK m \in Wrong : \A k \in Wrong : m <= k
      <3>1. Wrong \subseteq Nat
        BY <1>1
      <3> HIDE DEF Wrong
      <3> QED
        BY <3>1, LeastNumber
    <2>2. m # 1
      BY <1>1, <1>2, <1>4
    <2>3. m - 1 \in 1..n /\ f[m-1] = SubSeq(s, 1, m-1)
      BY <1>1, <2>1, <2>2
    <2>4. f[m] = f[m-1] \o <<s[m]>>
      BY <1>4, <2>2
    <2> QED
      BY <1>2, <2>2, <2>3, <2>4
  <1>6. f[n] = SubSeq(s, 1, n)
    BY <1>1, <1>5
  <1>7. SubSeq(s, 1, n) = s
    OBVIOUS
  <1> QED
    BY <1>4, <1>6, <1>7
=============================================================================
