------------------------------- MODULE Recursion -------------------------------
(***************************************************************************)
(* Induction over numbers, stated with sets, and the existence of what is  *)
(* defined by recursion over a loop's counter: the lemmas by which values  *)
(* that loops compute are reasoned about, whatever their bounds.           *)
(***************************************************************************)
EXTENDS Integers, WellFoundedInduction, TLAPS

\* A set of numbers has a least one.
LEMMA LeastNumber ==
    ASSUME NEW S \in SUBSET Nat, S # {}
    PROVE  \E n \in S : \A m \in S : n <= m
<1> DEFINE R == OpToRel(<, Nat)
<1>1. IsWellFoundedOn(R, Nat)
  BY NatLessThanWellFounded
<1>2. \A n, m \in Nat : n < m => <<n, m>> \in R
  BY DEF OpToRel
<1> HIDE DEF R
<1>3. PICK n \in S : \A m \in S : ~(<<m, n>> \in R)
  BY <1>1, WFMin
<1>4. \A m \in S : n <= m
  <2> SUFFICES ASSUME NEW m \in S PROVE n <= m
    OBVIOUS
  <2>1. ~(m < n)
    BY <1>2, <1>3
  <2> QED
    BY <2>1
<1> QED
  BY <1>4

\* What holds of 0, and of a number's successor when it holds of the number, holds of all.
LEMMA Induction ==
    ASSUME NEW S, 0 \in S, \A n \in Nat : n \in S => n + 1 \in S
    PROVE  \A n \in Nat : n \in S
<1> SUFFICES ASSUME Nat \ S # {} PROVE FALSE
  OBVIOUS
<1>1. PICK n \in Nat \ S : \A m \in Nat \ S : n <= m
  BY LeastNumber
<1>2. n - 1 \in Nat \ S
  BY <1>1
<1> QED
  BY <1>1, <1>2

\* A loop of N turns over values of V: Turn[n][v] is what its n-th turn makes of v, and a
\* history of it holds what it had before the first turn and after each.
Loop(N, V, Turn) == \A n \in 1..N, v \in V : Turn[n][v] \in V
History(N, V, first, Turn, h) ==
    h \in [0..N -> V] /\ h[0] = first /\ \A n \in 1..N : h[n] = Turn[n][h[n - 1]]

\* Every loop has a history.
LEMMA HistoryExists ==
    ASSUME NEW N \in Nat, NEW V, NEW first \in V, NEW Turn, Loop(N, V, Turn)
    PROVE  \E h : History(N, V, first, Turn, h)
<1> DEFINE Upto(n, f) == f[0] = first /\ \A i \in 1..n : f[i] = Turn[i][f[i - 1]]
           S == {n \in Nat : n <= N => \E f \in [0..n -> V] : Upto(n, f)}
<1>1. 0 \in S
  <2>1. Upto(0, [i \in 0..0 |-> first]) /\ [i \in 0..0 |-> first] \in [0..0 -> V]
    OBVIOUS
  <2> QED
    BY <2>1
<1>2. ASSUME NEW n \in Nat, n \in S, n + 1 <= N
      PROVE  \E f \in [0..(n + 1) -> V] : Upto(n + 1, f)
  <2>1. PICK f \in [0..n -> V] : Upto(n, f)
    BY <1>2
  <2> DEFINE g == [i \in 0..(n + 1) |-> IF i <= n THEN f[i] ELSE Turn[n + 1][f[n]]]
  <2>2. n \in 0..n /\ 0 \in 0..n /\ n + 1 \in 1..N /\ n + 1 \in 0..(n + 1) /\ ~(n + 1 <= n)
    BY <1>2
  <2>3. f[n] \in V /\ Turn[n + 1][f[n]] \in V
    BY <2>1, <2>2 DEF Loop
  <2>4. g \in [0..(n + 1) -> V] /\ (\A i \in 0..n : g[i] = f[i]) /\ g[n + 1] = Turn[n + 1][f[n]]
    BY <2>1, <2>2, <2>3
  <2> HIDE DEF g
  <2>5. ASSUME NEW i \in 1..(n + 1) PROVE g[i] = Turn[i][g[i - 1]]
    <3>1. CASE i = n + 1
      <4>1. i - 1 = n /\ g[i - 1] = f[n]
        BY <2>2, <2>4, <3>1
      <4> QED
        BY <2>4, <3>1, <4>1
    <3>2. CASE i # n + 1
      <4>1. i \in 1..n /\ i \in 0..n /\ i - 1 \in 0..n
        BY <3>2
      <4> QED
        BY <2>1, <2>4, <4>1
    <3> QED
      BY <3>1, <3>2
  <2>6. g[0] = first
    BY <2>1, <2>2, <2>4
  <2> QED
    BY <2>4, <2>5, <2>6
<1>3. \A n \in Nat : n \in S
  <2>1. \A n \in Nat : n \in S => n + 1 \in S
    BY <1>2
  <2> HIDE DEF S
  <2> QED
    BY <1>1, <2>1, Induction
<1>4. \E f \in [0..N -> V] : Upto(N, f)
  BY <1>3
<1> QED
  BY <1>4 DEF History
================================================================================
