--------------------------- MODULE SequenceLemmas ---------------------------
(***************************************************************************)
(* What the proofs need of sequences: their ends, and induction over an    *)
(* interval of the naturals, with sets and functions in the place of       *)
(* predicates and operators, for functions defined by recursion over the   *)
(* length of a sequence.                                                   *)
(***************************************************************************)
EXTENDS Integers, Sequences, SequenceTheorems, TLAPS, WellFoundedInduction

\* Appending an element, and taking the first one away.
LEMMA AppendOf ==
  ASSUME NEW S, NEW s \in Seq(S), NEW e \in S
  PROVE  /\ Append(s, e) \in Seq(S) /\ Len(Append(s, e)) = Len(s) + 1
         /\ \A i \in 1..Len(s) : Append(s, e)[i] = s[i]
         /\ Append(s, e)[Len(s) + 1] = e
OBVIOUS

LEMMA TailOf ==
  ASSUME NEW S, NEW s \in Seq(S), s # <<>>
  PROVE  /\ Head(s) \in S /\ Tail(s) \in Seq(S)
         /\ Len(s) \in Nat /\ Len(s) > 0 /\ Head(s) = s[1]
         /\ Len(Tail(s)) = Len(s) - 1
         /\ \A i \in 1..(Len(s) - 1) : Tail(s)[i] = s[i + 1]
OBVIOUS

-----------------------------------------------------------------------------
(* Induction and recursion *)

Less == {p \in Nat \X Nat : p[1] < p[2]}

\* A set of naturals that is not empty has a least element.
LEMMA LeastNatural ==
  ASSUME NEW T \in SUBSET Nat, T # {}
  PROVE  \E x \in T : \A y \in T : x <= y
<1>1. IsWellFoundedOn(Less, Nat)
  BY NatLessThanWellFounded DEF OpToRel, Less
<1>2. PICK x \in T : \A y \in T : <<y, x>> \notin Less
  BY <1>1, WFMin
<1>3. \A y \in Nat : y < x => <<y, x>> \in Less
  <2>1. ASSUME NEW y \in Nat, y < x
        PROVE  <<y, x>> \in Less
    BY <2>1 DEF Less
  <2> QED BY <2>1
<1>4. ASSUME NEW y \in T
      PROVE  x <= y
  <2>1. x \in Nat /\ y \in Nat
    OBVIOUS
  <2>2. ~ (y < x)
    BY <1>2, <1>3, <2>1
  <2> QED BY <2>1, <2>2
<1> QED BY <1>4

\* Induction up to L.
LEMMA IntervalInduction ==
  ASSUME NEW L \in Nat, NEW T, 0 \in T, \A n \in 1..L : n - 1 \in T => n \in T
  PROVE  0..L \subseteq T
<1> DEFINE Left == {n \in 0..L : n \notin T}
<1>1. SUFFICES Left = {}
  OBVIOUS
<1>2. SUFFICES ASSUME Left # {} PROVE FALSE
  OBVIOUS
<1>3. PICK x \in Left : \A y \in Left : x <= y
  <2>1. Left \in SUBSET Nat
    OBVIOUS
  <2> HIDE DEF Left
  <2> QED BY <1>2, <2>1, LeastNatural
<1>4. x \in 1..L /\ x - 1 \in 0..L
  BY <1>3
<1>5. x - 1 \in T
  BY <1>3, <1>4
<1> QED BY <1>3, <1>4, <1>5

\* One step of a recursion up to L within V, and the function it defines.
StepOn(step, L, V) == step \in [(1..L) \X V -> V]
Follows(f, step, base, L, V) ==
  /\ f \in [0..L -> V]
  /\ f[0] = base
  /\ \A n \in 1..L : f[n] = step[<<n, f[n - 1]>>]

\* A recursion whose step stays within V defines a function into V.
LEMMA RecursionDefines ==
  ASSUME NEW L \in Nat, NEW V, NEW base \in V, NEW step, StepOn(step, L, V)
  PROVE  \E f : Follows(f, step, base, L, V)
<1>0. step \in [(1..L) \X V -> V]
  BY DEF StepOn
<1> DEFINE Upto(k, f) == /\ f \in [0..k -> V]
                         /\ f[0] = base
                         /\ \A n \in 1..k : f[n] = step[<<n, f[n - 1]>>]
           T == {k \in 0..L : \E f \in [0..k -> V] : Upto(k, f)}
<1>1. 0 \in T
  <2> DEFINE f == [n \in 0..0 |-> base]
  <2>1. f \in [0..0 -> V] /\ Upto(0, f)
    OBVIOUS
  <2> HIDE DEF f, Upto
  <2>2. \E g \in [0..0 -> V] : Upto(0, g)
    BY <2>1
  <2> QED BY <2>2
<1>2. ASSUME NEW k \in 1..L, k - 1 \in T
      PROVE  k \in T
  <2>1. PICK f \in [0..(k - 1) -> V] : Upto(k - 1, f)
    BY <1>2
  <2> DEFINE g == [n \in 0..k |-> IF n = k THEN step[<<k, f[k - 1]>>] ELSE f[n]]
  <2>2. f[k - 1] \in V /\ step[<<k, f[k - 1]>>] \in V
    BY <1>0, <2>1
  <2>3. g \in [0..k -> V] /\ g[0] = base
    BY <2>1, <2>2
  <2>4. ASSUME NEW n \in 1..k
        PROVE  g[n] = step[<<n, g[n - 1]>>]
    <3>1. CASE n = k
      <4>1. g[k] = step[<<k, f[k - 1]>>] /\ g[k - 1] = f[k - 1]
        OBVIOUS
      <4> QED BY <3>1, <4>1
    <3>2. CASE n # k
      BY <3>2, <2>1
    <3> QED BY <3>1, <3>2
  <2>5. Upto(k, g)
    BY <2>3, <2>4
  <2> HIDE DEF g, Upto
  <2>6. \E h \in [0..k -> V] : Upto(k, h)
    BY <2>3, <2>5
  <2> QED BY <2>6
<1> HIDE DEF T
<1>3. 0..L \subseteq T
  BY <1>1, <1>2, IntervalInduction
<1>4. PICK f \in [0..L -> V] : Upto(L, f)
  BY <1>3 DEF T
<1> QED BY <1>4 DEF Follows
=============================================================================
