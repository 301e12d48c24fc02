---------------------------- MODULE SequenceLemmas ----------------------------
(* Lemmas about numbers and sequences that the proofs of several           *)
(* components need.                                                        *)
(*                                                                         *)
(* The induction theorems of the library take the property as an operator. *)
(* The ones here take the set of numbers that have it, which is enough to  *)
(* reason about functions that are defined by recursion.                   *)
EXTENDS Integers, Sequences, SequencesExt, SequenceTheorems, WellFoundedInduction, TLAPS

(* A set of numbers that has 0, and the next one of each, has all.         *)
LEMMA SetInduction ==
    ASSUME NEW T, 0 \in T, \A n \in T \cap Nat : n + 1 \in T
    PROVE  Nat \subseteq T
<1> SUFFICES ASSUME Nat \ T # {} PROVE FALSE
    OBVIOUS
<1> DEFINE R == OpToRel(<, Nat)
           S == Nat \ T
<1>1. IsWellFoundedOn(R, Nat)
    BY NatLessThanWellFounded
<1> HIDE DEF R
<1>2. PICK x \in S : \A y \in S : ~ (<<y, x>> \in R)
    BY <1>1, WFMin
<1>3. x - 1 \in Nat /\ <<x - 1, x>> \in R
    BY DEF R, OpToRel
<1>4. x - 1 \in T
    BY <1>2, <1>3
<1> QED
    BY <1>3, <1>4

(* The same up to a bound.                                                 *)
LEMMA BoundedInduction ==
    ASSUME NEW m \in Nat, NEW T, 0 \in T, \A n \in 0..(m - 1) : n \in T => n + 1 \in T
    PROVE  0..m \subseteq T
<1> DEFINE U == T \cup {n \in Nat : n > m}
<1>1. 0 \in U /\ \A n \in U \cap Nat : n + 1 \in U
    OBVIOUS
<1> HIDE DEF U
<1>2. Nat \subseteq U
    BY <1>1, SetInduction
<1> QED
    BY <1>2 DEF U

\* g is the run of length n that starts with a and goes on with step.
IsRun(g, n, S, a, step) ==
    /\ g \in [0..n -> S] /\ g[0] = a
    /\ \A i \in 1..n : g[i] = step[i][g[i - 1]]

(* What a recursive function is defined by has a solution.                 *)
LEMMA RecursionExists ==
    ASSUME NEW n \in Nat, NEW S, NEW a \in S, NEW step,
           \A i \in 1..n : \A x \in S : step[i][x] \in S
    PROVE  \E g : IsRun(g, n, S, a, step)
<1> DEFINE T == {m \in 0..n : \E g : IsRun(g, m, S, a, step)}
<1>1. 0 \in T
    <2> DEFINE g == [i \in 0..0 |-> a]
    <2>1. IsRun(g, 0, S, a, step)
        BY DEF IsRun
    <2> HIDE DEF g
    <2> QED
        BY <2>1
<1>2. ASSUME NEW m \in 0..(n - 1), m \in T PROVE m + 1 \in T
    <2>0. PICK g : IsRun(g, m, S, a, step)
        BY <1>2
    <2> DEFINE last == step[m + 1][g[m]]
               h == [i \in 0..(m + 1) |-> IF i = m + 1 THEN last ELSE g[i]]
    <2>1. g[m] \in S /\ m + 1 \in 1..n
        BY <2>0 DEF IsRun
    <2>2. last \in S
        BY <2>1
    <2>3. h \in [0..(m + 1) -> S] /\ h[0] = a
        <3> HIDE DEF last
        <3> QED
            BY <2>0, <2>2 DEF IsRun
    <2>4. ASSUME NEW i \in 1..(m + 1) PROVE h[i] = step[i][h[i - 1]]
        <3>1. CASE i = m + 1
            <4>1. h[i] = last /\ h[i - 1] = g[m]
                BY <3>1
            <4> QED
                BY <3>1, <4>1
        <3>2. CASE i # m + 1
            <4>1. i \in 1..m /\ i - 1 \in 0..m
                BY <3>2
            <4>2. h[i] = g[i] /\ h[i - 1] = g[i - 1]
                BY <4>1
            <4> QED
                BY <2>0, <4>1, <4>2 DEF IsRun
        <3> QED
            BY <3>1, <3>2
    <2> HIDE DEF h
    <2>5. IsRun(h, m + 1, S, a, step)
        BY <2>3, <2>4 DEF IsRun
    <2> QED
        BY <2>1, <2>5
<1>3. n \in T
    <2> HIDE DEF T
    <2>1. 0..n \subseteq T
        BY <1>1, <1>2, BoundedInduction
    <2> QED
        BY <2>1
<1> QED
    BY <1>3

-----------------------------------------------------------------------------
(* Prefixes.                                                               *)

LEMMA PrefixOfItself ==
    ASSUME NEW S, NEW s \in Seq(S) PROVE IsPrefix(s, s)
BY LenProperties DEF IsPrefix

LEMMA PrefixOfLonger ==
    ASSUME NEW S, NEW s \in Seq(S), NEW e \in S PROVE IsPrefix(s, Append(s, e))
<1>1. /\ Append(s, e) \in Seq(S) /\ Len(s) \in Nat
      /\ Len(Append(s, e)) = Len(s) + 1
      /\ \A i \in 1..Len(s) : Append(s, e)[i] = s[i]
    BY AppendProperties, LenProperties
<1>2. SubSeq(Append(s, e), 1, Len(s)) = SubSeq(s, 1, Len(s))
    <2> DEFINE t == Append(s, e)
               n == Len(s)
    <2>1. \A i \in 1..n : t[i] \in S /\ s[i] \in S /\ t[i] = s[i]
        BY <1>1
    <2>2. n \in Nat
        BY <1>1
    <2> HIDE DEF t, n
    <2>3. /\ SubSeq(t, 1, n) \in Seq(S) /\ SubSeq(s, 1, n) \in Seq(S)
          /\ Len(SubSeq(t, 1, n)) = n /\ Len(SubSeq(s, 1, n)) = n
          /\ \A i \in 1..n : SubSeq(t, 1, n)[i] = SubSeq(s, 1, n)[i]
        BY <2>1, <2>2, SubSeqProperties
    <2>4. SubSeq(t, 1, n) = SubSeq(s, 1, n)
        BY <2>3, SeqEqual
    <2> QED
        BY <2>4 DEF t, n
<1> QED
    BY <1>1, <1>2 DEF IsPrefix

LEMMA EmptyPrefix ==
    ASSUME NEW S, NEW s \in Seq(S) PROVE IsPrefix(<<>>, s)
<1>1. <<>> \in Seq(S) /\ Len(<<>>) = 0 /\ Len(s) \in Nat
    BY LenProperties
<1>2. SubSeq(<<>>, 1, 0) = <<>> /\ SubSeq(s, 1, 0) = <<>>
    BY <1>1
<1> QED
    BY <1>1, <1>2 DEF IsPrefix

\* What was a prefix once stays one.
LEMMA PrefixOfGrown ==
    ASSUME NEW S, NEW s \in Seq(S), NEW t \in Seq(S), NEW e \in S, IsPrefix(s, t)
    PROVE  IsPrefix(s, Append(t, e))
<1> DEFINE n == Len(s)
           u == Append(t, e)
<1>1. /\ u \in Seq(S) /\ n \in Nat /\ Len(t) \in Nat /\ Len(u) = Len(t) + 1
      /\ \A i \in 1..Len(t) : u[i] = t[i]
    BY AppendProperties, LenProperties
<1>2. n <= Len(t) /\ SubSeq(s, 1, n) = SubSeq(t, 1, n)
    BY DEF IsPrefix
<1>3. \A i \in 1..n : i \in 1..Len(t) /\ i \in 1..Len(u) /\ u[i] = t[i]
    BY <1>1, <1>2
<1>4. \A i \in 1..n : t[i] \in S /\ u[i] \in S
    BY <1>1, <1>3, ElementOfSeq
<1> HIDE DEF n, u
<1>5. /\ SubSeq(u, 1, n) \in Seq(S) /\ SubSeq(t, 1, n) \in Seq(S)
      /\ Len(SubSeq(u, 1, n)) = n /\ Len(SubSeq(t, 1, n)) = n
      /\ \A i \in 1..n : SubSeq(u, 1, n)[i] = u[i] /\ SubSeq(t, 1, n)[i] = t[i]
    BY <1>1, <1>4, SubSeqProperties
<1>6. SubSeq(u, 1, n) = SubSeq(t, 1, n)
    BY <1>3, <1>5, SeqEqual
<1>7. n <= Len(u)
    BY <1>1, <1>2
<1> QED
    BY <1>2, <1>6, <1>7 DEF IsPrefix, n, u

=============================================================================
