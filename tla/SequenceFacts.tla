---------------------------- MODULE SequenceFacts ----------------------------
(***************************************************************************)
(* What Append and Tail do to the elements of a sequence, for the proofs   *)
(* about channels and queues, and what a recursive function over a         *)
(* sequence is, for those about loops.                                     *)
(***************************************************************************)
EXTENDS Integers, Sequences, SequenceTheorems, WellFoundedInduction, TLAPS

Occurs(x, s)   == \E i \in DOMAIN s : s[i] = x
OnlyOnce(x, s) == \A i, j \in DOMAIN s : s[i] = x /\ s[j] = x => i = j

\* Index by index.
LEMMA AppendFacts ==
    ASSUME NEW S, NEW s \in Seq(S), NEW e \in S
    PROVE  /\ Append(s, e) \in Seq(S)
           /\ DOMAIN s = 1 .. Len(s) /\ Len(s) \in Nat
           /\ DOMAIN Append(s, e) = 1 .. Len(s) + 1
           /\ Len(Append(s, e)) = Len(s) + 1
           /\ \A i \in 1 .. Len(s) : Append(s, e)[i] = s[i]
           /\ Append(s, e)[Len(s) + 1] = e
BY LenProperties, AppendProperties

LEMMA TailFacts ==
    ASSUME NEW S, NEW s \in Seq(S), s # <<>>
    PROVE  /\ Tail(s) \in Seq(S)
           /\ Head(s) = s[1]
           /\ Len(s) \in Nat \ {0} /\ DOMAIN s = 1 .. Len(s)
           /\ Len(Tail(s)) = Len(s) - 1
           /\ DOMAIN Tail(s) = 1 .. Len(s) - 1
           /\ \A i \in 1 .. Len(s) - 1 : Tail(s)[i] = s[i + 1]
<1>1. Tail(s) \in Seq(S) /\ Len(Tail(s)) = Len(s) - 1
  BY HeadTailProperties
<1>2. Len(s) \in Nat \ {0} /\ DOMAIN s = 1 .. Len(s)
  BY EmptySeq, LenProperties
<1>3. DOMAIN Tail(s) = 1 .. Len(s) - 1
  BY <1>1, LenProperties
<1> QED
  BY <1>1, <1>2, <1>3, HeadTailProperties

\* What is put at the end of a sequence occurs in it, and nothing else is new.
LEMMA AppendOccurs ==
    ASSUME NEW S, NEW s \in Seq(S), NEW e \in S, NEW x
    PROVE  /\ Append(s, e) \in Seq(S)
           /\ Occurs(x, Append(s, e)) <=> Occurs(x, s) \/ x = e
           /\ OnlyOnce(x, s) /\ ~(Occurs(x, s) /\ x = e) => OnlyOnce(x, Append(s, e))
<1>1. PICK n \in Nat : n = Len(s)
  BY LenProperties
<1>2. /\ Append(s, e) \in Seq(S)
      /\ DOMAIN s = 1 .. n /\ DOMAIN Append(s, e) = 1 .. n + 1
      /\ \A i \in 1 .. n : Append(s, e)[i] = s[i]
      /\ Append(s, e)[n + 1] = e
  BY <1>1, AppendFacts
<1>3. \A i \in 1 .. n + 1 : i \in 1 .. n \/ i = n + 1
  OBVIOUS
<1>4. 1 .. n \subseteq 1 .. n + 1 /\ n + 1 \in 1 .. n + 1
  OBVIOUS
<1> QED
  BY <1>2, <1>3, <1>4 DEF Occurs, OnlyOnce

\* What is taken off its front is not in it any more if it was there once.
LEMMA TailOccurs ==
    ASSUME NEW S, NEW s \in Seq(S), s # <<>>, NEW x
    PROVE  /\ Tail(s) \in Seq(S) /\ Head(s) \in S
           /\ Occurs(x, s) <=> x = Head(s) \/ Occurs(x, Tail(s))
           /\ OnlyOnce(x, s) => OnlyOnce(x, Tail(s))
           /\ OnlyOnce(x, s) /\ Head(s) = x => ~Occurs(x, Tail(s))
<1>1. PICK n \in Nat \ {0} : n = Len(s)
  BY TailFacts
<1>2. /\ Tail(s) \in Seq(S)
      /\ DOMAIN s = 1 .. n /\ DOMAIN Tail(s) = 1 .. n - 1
      /\ \A i \in 1 .. n - 1 : Tail(s)[i] = s[i + 1]
      /\ Head(s) = s[1]
  BY <1>1, TailFacts
<1>3. /\ \A i \in 1 .. n : i = 1 \/ (i - 1 \in 1 .. n - 1 /\ s[i] = Tail(s)[i - 1])
      /\ \A i \in 1 .. n - 1 : i + 1 \in 1 .. n /\ i + 1 # 1
      /\ 1 \in 1 .. n
      /\ \A i, j \in 1 .. n - 1 : i + 1 = j + 1 => i = j
  BY <1>2
<1>4. Occurs(x, s) <=> x = Head(s) \/ Occurs(x, Tail(s))
  <2>1. ASSUME NEW i \in 1 .. n, s[i] = x
        PROVE  s[1] = x \/ \E j \in 1 .. n - 1 : Tail(s)[j] = x
    BY <1>3, <2>1
  <2>2. ASSUME NEW j \in 1 .. n - 1, Tail(s)[j] = x
        PROVE  \E i \in 1 .. n : s[i] = x
    BY <1>2, <1>3, <2>2
  <2> QED
    BY <1>2, <1>3, <2>1, <2>2 DEF Occurs
<1>5. OnlyOnce(x, s) => OnlyOnce(x, Tail(s))
  BY <1>2, <1>3 DEF OnlyOnce
<1>6. OnlyOnce(x, s) /\ Head(s) = x => ~Occurs(x, Tail(s))
  BY <1>2, <1>3 DEF OnlyOnce, Occurs
<1> QED
  BY <1>2, <1>4, <1>5, <1>6, HeadTailProperties

\* A sequence of one.
LEMMA AppendToEmpty ==
    ASSUME NEW S, NEW e \in S
    PROVE  /\ Append(<<>>, e) = <<e>> /\ Append(<<>>, e) # <<>>
           /\ Len(Append(<<>>, e)) = 1 /\ Len(<<>>) = 0
           /\ Append(<<>>, e)[1] = e
<1>1. <<>> \in Seq(S) /\ Len(<<>>) = 0
  BY EmptySeq
<1> QED
  BY <1>1, AppendProperties

-----------------------------------------------------------------------------
(* What a loop over a sequence computes: recursive functions of how far it *)
(* has come, and induction over that.                                      *)

\* A set that has 0, and with a number the next, has all.
LEMMA NatSetInduction ==
    ASSUME NEW S, 0 \in S, \A n \in Nat : n \in S => n + 1 \in S
    PROVE  Nat \subseteq S
<1> SUFFICES ASSUME Nat \ S # {} PROVE FALSE
  OBVIOUS
<1>1. IsWellFoundedOn(OpToRel(<, Nat), Nat)
  BY NatLessThanWellFounded
<1>2. PICK m \in Nat \ S : \A y \in Nat \ S : ~(<<y, m>> \in OpToRel(<, Nat))
  BY <1>1, WFMin
<1>3. \A y \in Nat \ S : ~(y < m)
  BY <1>2, Zenon DEF OpToRel
<1>4. m # 0
  OBVIOUS
<1>5. m - 1 \in Nat /\ m - 1 < m /\ m - 1 + 1 = m
  BY <1>4
<1>6. m - 1 \in S
  BY <1>3, <1>5
<1> QED
  BY <1>5, <1>6

\* f goes on from base by the steps, as far as m.
Follows(f, m, base, step) == f[0] = base /\ \A i \in 1 .. m : f[i] = step[i][f[i - 1]]

\* A function from 0 to n is made step by step.
LEMMA RecursionExists ==
    ASSUME NEW A, NEW n \in Nat, NEW base \in A, NEW step \in [1 .. n -> [A -> A]]
    PROVE  \E f \in [0 .. n -> A] : Follows(f, n, base, step)
<1> DEFINE S == {m \in Nat : m <= n => \E f \in [0 .. m -> A] : Follows(f, m, base, step)}
<1>1. 0 \in S
  <2> DEFINE f == [i \in 0 .. 0 |-> base]
  <2>1. f \in [0 .. 0 -> A] /\ f[0] = base /\ 1 .. 0 = {}
    OBVIOUS
  <2> HIDE DEF f
  <2>2. Follows(f, 0, base, step)
    BY <2>1 DEF Follows
  <2> QED
    BY <2>1, <2>2
<1>2. ASSUME NEW m \in Nat, m \in S, m + 1 <= n
      PROVE  \E g \in [0 .. m + 1 -> A] : Follows(g, m + 1, base, step)
  <2>1. PICK f \in [0 .. m -> A] : Follows(f, m, base, step)
    BY <1>2
  <2> DEFINE next == step[m + 1][f[m]]
             g == [i \in 0 .. m + 1 |-> IF i = m + 1 THEN next ELSE f[i]]
  <2>2. m + 1 \in 1 .. n /\ f[m] \in A
    BY <1>2, <2>1
  <2>3. next \in A
    BY <2>2
  <2>4. \A i \in 0 .. m : f[i] \in A /\ i # m + 1 /\ i \in 0 .. m + 1
    BY <2>1
  <2>5. g \in [0 .. m + 1 -> A]
    <3> HIDE DEF next
    <3>1. \A i \in 0 .. m + 1 : i # m + 1 => i \in 0 .. m
      OBVIOUS
    <3> QED
      BY <2>3, <2>4, <3>1
  <2>6. g[m + 1] = next /\ \A i \in 0 .. m : g[i] = f[i]
    BY <2>4
  <2> HIDE DEF g, next
  <2>7. ASSUME NEW i \in 1 .. m + 1 PROVE g[i] = step[i][g[i - 1]]
    <3>1. CASE i = m + 1
      BY <2>6, <3>1 DEF next
    <3>2. CASE i # m + 1
      BY <2>1, <2>6, <3>2 DEF Follows
    <3> QED
      BY <3>1, <3>2
  <2>8. g[0] = base
    BY <2>1, <2>6 DEF Follows
  <2> QED
    BY <2>5, <2>7, <2>8 DEF Follows
<1>3. ASSUME NEW m \in Nat, m \in S PROVE m + 1 \in S
  BY <1>2, <1>3
<1> HIDE DEF S
<1>4. n \in S
  BY <1>1, <1>3, NatSetInduction
<1> QED
  BY <1>4 DEF S

=============================================================================
