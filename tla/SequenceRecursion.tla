-------------------------- MODULE SequenceRecursion --------------------------
(***************************************************************************)
(* Functions that are computed along a sequence, one element after the     *)
(* other: they exist, they are unique, and one more element is one more    *)
(* step.  The proof is by induction over the length, taken from the        *)
(* well-foundedness of < as the least number at which a statement fails.   *)
(***************************************************************************)
EXTENDS Naturals, Sequences, WellFoundedInduction, TLAPS

\* A set of numbers that is not empty has a least one.
LEMMA LeastNumber ==
  ASSUME NEW T, T \subseteq Nat, T # {}
  PROVE  \E m \in T : \A n \in T : m <= n
<1>1. PICK m \in T : \A n \in T : ~(<<n, m>> \in OpToRel(<, Nat))
  BY WFMin, NatLessThanWellFounded
<1>2. ASSUME NEW n \in T PROVE m <= n
  <2>1. ~(<<n, m>> \in {ss \in Nat \X Nat : ss[1] < ss[2]})
    BY <1>1 DEF OpToRel
  <2> QED BY <2>1
<1> QED BY <1>2

\* Induction: a set with 0 and the successors of what it has has all numbers.
LEMMA SetInduction ==
  ASSUME NEW S, 0 \in S, \A n \in Nat : n \in S => n + 1 \in S
  PROVE  Nat \subseteq S
<1>1. SUFFICES ASSUME Nat \ S # {} PROVE FALSE
  OBVIOUS
<1>2. PICK m \in Nat \ S : \A n \in Nat \ S : m <= n
  BY <1>1, LeastNumber
<1>3. m # 0 /\ m - 1 \in Nat /\ m - 1 \in S
  BY <1>2
<1> QED BY <1>2, <1>3

\* f has the values of the recursion that starts with b and goes on with g.
Runs(f, b, g, s) ==
  /\ DOMAIN f = 0..Len(s)
  /\ f[0] = b
  /\ \A n \in 1..Len(s) : f[n] = g[<<f[n - 1], s[n]>>]

\* There is such a function, and its values are of the type of b.
LEMMA RunExists ==
  ASSUME NEW A, NEW B, NEW b \in A, NEW g \in [A \X B -> A], NEW s \in Seq(B)
  PROVE  \E f \in [0..Len(s) -> A] : Runs(f, b, g, s)
<1> DEFINE Upto(n, f) == f \in [0..n -> A] /\ f[0] = b /\ \A i \in 1..n : f[i] = g[<<f[i - 1], s[i]>>]
           H == {n \in Nat : n <= Len(s) => \E f : Upto(n, f)}
<1>1. 0 \in H
  <2>1. Upto(0, [i \in 0..0 |-> b])
    OBVIOUS
  <2> QED BY <2>1
<1>2. ASSUME NEW n \in Nat, n \in H PROVE n + 1 \in H
  <2>1. SUFFICES ASSUME n + 1 <= Len(s) PROVE \E f : Upto(n + 1, f)
    OBVIOUS
  <2>2. PICK f : Upto(n, f)
    BY <1>2, <2>1
  <2> DEFINE h == [i \in 0..n + 1 |-> IF i <= n THEN f[i] ELSE g[<<f[n], s[n + 1]>>]]
  <2>3. s[n + 1] \in B /\ f[n] \in A
    BY <2>1, <2>2
  <2>4. h \in [0..n + 1 -> A] /\ h[0] = b
    BY <2>2, <2>3
  <2>5. ASSUME NEW i \in 1..n + 1 PROVE h[i] = g[<<h[i - 1], s[i]>>]
    <3>1. CASE i = n + 1
      <4>1. h[i - 1] = f[n] /\ h[i] = g[<<f[n], s[n + 1]>>]
        BY <3>1
      <4> QED BY <3>1, <4>1
    <3>2. CASE i # n + 1
      <4>1. i \in 1..n /\ h[i - 1] = f[i - 1] /\ h[i] = f[i]
        BY <3>2
      <4> QED BY <2>2, <4>1
    <3> QED BY <3>1, <3>2
  <2> HIDE DEF h
  <2> QED BY <2>4, <2>5
<1> HIDE DEF H
<1>3. Nat \subseteq H
  BY <1>1, <1>2, SetInduction
<1>4. Len(s) \in H
  BY <1>3
<1> QED BY <1>4 DEF H, Runs

\* Two such functions, one of them over a sequence that goes on, agree as far
\* as both go.
LEMMA RunsAgree ==
  ASSUME NEW B, NEW b, NEW g, NEW s \in Seq(B), NEW t \in Seq(B), NEW f, NEW h,
         Runs(f, b, g, s), Runs(h, b, g, t),
         NEW l \in Nat, l <= Len(s), l <= Len(t), \A i \in 1..l : s[i] = t[i]
  PROVE  f[l] = h[l]
<1> DEFINE H == {n \in Nat : n <= l => f[n] = h[n]}
<1>1. 0 \in H
  BY DEF Runs
<1>2. ASSUME NEW n \in Nat, n \in H PROVE n + 1 \in H
  <2>1. SUFFICES ASSUME n + 1 <= l PROVE f[n + 1] = h[n + 1]
    OBVIOUS
  <2>2. f[n] = h[n] /\ s[n + 1] = t[n + 1]
    BY <1>2, <2>1
  <2>3. f[n + 1] = g[<<f[n], s[n + 1]>>]
    BY <2>1 DEF Runs
  <2>4. h[n + 1] = g[<<h[n], t[n + 1]>>]
    BY <2>1 DEF Runs
  <2> QED BY <2>2, <2>3, <2>4
<1> HIDE DEF H
<1>3. l \in H
  BY <1>1, <1>2, SetInduction
<1> QED BY <1>3 DEF H

\* What the recursion gives for a sequence.
Result(b, g, s) == (CHOOSE f : Runs(f, b, g, s))[Len(s)]

\* Every run gives the result.
LEMMA RunResult ==
  ASSUME NEW B, NEW b, NEW g, NEW s \in Seq(B), NEW f, Runs(f, b, g, s)
  PROVE  Result(b, g, s) = f[Len(s)]
<1> DEFINE k == CHOOSE h : Runs(h, b, g, s)
<1>1. Runs(k, b, g, s)
  OBVIOUS
<1>2. Len(s) \in Nat /\ Len(s) <= Len(s) /\ \A i \in 1..Len(s) : s[i] = s[i]
  OBVIOUS
<1>3. Result(b, g, s) = k[Len(s)]
  BY DEF Result
<1> HIDE DEF k
<1>4. k[Len(s)] = f[Len(s)]
  BY <1>1, <1>2, RunsAgree
<1> QED BY <1>3, <1>4

\* b starts a recursion of values of A over elements of B, and g goes on with it.
Recursion(A, B, b, g) == b \in A /\ g \in [A \X B -> A]

\* A function whose next value is g's wherever the last one is of the type of b
\* gives the result.
LEMMA RunIs ==
  ASSUME NEW A, NEW B, NEW b, NEW g, Recursion(A, B, b, g), NEW s \in Seq(B), NEW k,
         DOMAIN k = 0..Len(s), k[0] = b,
         \A n \in 1..Len(s) : k[n - 1] \in A => k[n] = g[<<k[n - 1], s[n]>>]
  PROVE  k[Len(s)] = Result(b, g, s)
<1>1. PICK f \in [0..Len(s) -> A] : Runs(f, b, g, s)
  BY RunExists DEF Recursion
<1> DEFINE H == {n \in Nat : n <= Len(s) => k[n] = f[n]}
<1>2. 0 \in H
  BY <1>1 DEF Runs
<1>3. ASSUME NEW n \in Nat, n \in H PROVE n + 1 \in H
  <2> SUFFICES ASSUME n + 1 <= Len(s) PROVE k[n + 1] = f[n + 1]
    OBVIOUS
  <2>1. n \in 0..Len(s) /\ n + 1 \in 1..Len(s) /\ (n + 1) - 1 = n
    OBVIOUS
  <2>2. k[n] = f[n] /\ f[n] \in A
    BY <1>1, <1>3, <2>1
  <2>3. f[n + 1] = g[<<f[n], s[n + 1]>>]
    BY <1>1, <2>1 DEF Runs
  <2> QED BY <2>1, <2>2, <2>3
<1> HIDE DEF H
<1>4. Len(s) \in H
  BY <1>2, <1>3, SetInduction
<1>5. k[Len(s)] = f[Len(s)]
  BY <1>4 DEF H
<1> QED BY <1>1, <1>5, RunResult

\* The result for no element, and for one more.
Computed(A, B, b, g) ==
  /\ Result(b, g, <<>>) = b
  /\ \A s \in Seq(B) : Result(b, g, s) \in A
  /\ \A s \in Seq(B), c \in B : Result(b, g, Append(s, c)) = g[<<Result(b, g, s), c>>]

LEMMA ResultSteps ==
  ASSUME NEW A, NEW B, NEW b, NEW g, Recursion(A, B, b, g)
  PROVE  Computed(A, B, b, g)
<1>0. b \in A /\ g \in [A \X B -> A]
  BY DEF Recursion
<1>1. Result(b, g, <<>>) = b
  <2>1. <<>> \in Seq(B) /\ Len(<<>>) = 0
    OBVIOUS
  <2>2. PICK f : Runs(f, b, g, <<>>)
    BY <1>0, <2>1, RunExists
  <2> QED BY <2>1, <2>2, RunResult DEF Runs
<1>2. ASSUME NEW s \in Seq(B) PROVE Result(b, g, s) \in A
  <2>1. PICK f \in [0..Len(s) -> A] : Runs(f, b, g, s)
    BY <1>0, RunExists
  <2>2. Result(b, g, s) = f[Len(s)]
    BY <2>1, RunResult
  <2> QED BY <2>1, <2>2
<1>3. ASSUME NEW s \in Seq(B), NEW c \in B
      PROVE  Result(b, g, Append(s, c)) = g[<<Result(b, g, s), c>>]
  <2> DEFINE t == Append(s, c)
  <2>1. t \in Seq(B) /\ Len(t) = Len(s) + 1 /\ Len(s) \in Nat /\ Len(s) <= Len(s)
        /\ Len(s) <= Len(t)
    OBVIOUS
  <2>2. t[Len(s) + 1] = c /\ \A i \in 1..Len(s) : s[i] = t[i]
    OBVIOUS
  <2> HIDE DEF t
  <2>3. PICK f \in [0..Len(s) -> A] : Runs(f, b, g, s)
    BY <1>0, RunExists
  <2>4. PICK h \in [0..Len(t) -> A] : Runs(h, b, g, t)
    BY <1>0, <2>1, RunExists
  <2>5. f[Len(s)] = h[Len(s)]
    BY <2>1, <2>2, <2>3, <2>4, RunsAgree
  <2>6. h[Len(s) + 1] = g[<<h[Len(s)], c>>]
    BY <2>1, <2>2, <2>4 DEF Runs
  <2>7. Result(b, g, s) = f[Len(s)]
    BY <2>3, RunResult
  <2>8. Result(b, g, t) = h[Len(s) + 1]
    BY <2>1, <2>4, RunResult
  <2>9. Result(b, g, t) = g[<<Result(b, g, s), c>>]
    BY <2>5, <2>6, <2>7, <2>8
  <2> QED BY <2>9 DEF t
<1> QED BY <1>1, <1>2, <1>3 DEF Computed

=============================================================================
