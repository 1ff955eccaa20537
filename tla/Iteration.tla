----------------------------- MODULE Iteration -----------------------------
(***************************************************************************)
(* What is made step by step, as the loops of the program make it: Base at *)
(* first, then Step for 1, 2, ... up to a number, for what the loop is     *)
(* given (a, b and c).  A condition that holds at first and that each step *)
(* keeps holds at the end.  A loop of a model is an instance.              *)
(***************************************************************************)
EXTENDS Integers, WellFoundedInduction, TLAPS

CONSTANTS Base(_, _, _), Step(_, _, _, _, _), Good(_, _, _, _, _)

Upto(a, b, c, N) ==
    LET upTo[i \in 0..N] == IF i = 0 THEN Base(a, b, c) ELSE Step(a, b, c, upTo[i - 1], i)
    IN  upTo[N]

\* A set of numbers with 0 and the successor of each of them has all of them.
LEMMA Successors ==
    ASSUME NEW S \in SUBSET Nat, 0 \in S, \A n \in S : n + 1 \in S
    PROVE  S = Nat
<1>1. SUFFICES ASSUME Nat \ S # {} PROVE FALSE OBVIOUS
<1> DEFINE T == Nat \ S
<1>2. T \subseteq Nat /\ T # {} BY <1>1
<1> HIDE DEF T
<1>3. IsWellFoundedOn(OpToRel(<, Nat), Nat) BY NatLessThanWellFounded
<1>4. PICK x \in T : \A y \in T : ~ (<<y, x>> \in OpToRel(<, Nat)) BY <1>2, <1>3, WFMin
<1>5. x \in Nat /\ x \notin S BY DEF T
<1>6. \A y \in Nat \ S : ~ (y < x) BY <1>4, <1>5 DEF OpToRel, T
<1> HIDE <1>3
<1>7. x # 0 BY <1>5
<1>8. x - 1 \in Nat /\ x - 1 < x /\ x = (x - 1) + 1 BY <1>5, <1>7
<1>9. x - 1 \in S BY <1>6, <1>8
<1> QED BY <1>5, <1>8, <1>9

\* A condition that holds at first and that each step keeps holds at the end.
LEMMA Invariance ==
    ASSUME NEW a, NEW b, NEW c, NEW N \in Nat,
           Good(a, b, c, Base(a, b, c), 0),
           ASSUME NEW i \in 1..N, NEW r, Good(a, b, c, r, i - 1)
           PROVE  Good(a, b, c, Step(a, b, c, r, i), i)
    PROVE  Good(a, b, c, Upto(a, b, c, N), N)
<1> DEFINE next(f, i) == IF i = 0 THEN Base(a, b, c) ELSE Step(a, b, c, f[i - 1], i)
           Eq(f, n) == f = [i \in 0..n |-> IF i = 0 THEN Base(a, b, c)
                                           ELSE Step(a, b, c, f[i - 1], i)]
           upTo == CHOOSE f : Eq(f, N)
<1>2. Upto(a, b, c, N) = upTo[N] BY DEF Upto
<1>3. \E f : Eq(f, N)
  <2> DEFINE T == {n \in Nat : \E f : Eq(f, n)}
  <2>1. 0 \in T
    <3> DEFINE f == [i \in 0..0 |-> Base(a, b, c)]
    <3>1. \A i \in 0..0 : i = 0 OBVIOUS
    <3>2. Eq(f, 0) BY <3>1, Zenon
    <3> QED BY <3>2, Zenon
  <2>2. ASSUME NEW n \in T
        PROVE  n + 1 \in T
    <3>0. n \in Nat /\ n + 1 \in Nat OBVIOUS
    <3>1. PICK f : Eq(f, n) BY Zenon
    <3> DEFINE g == [i \in 0..n + 1 |-> IF i = n + 1 THEN next(f, n + 1) ELSE f[i]]
    <3> HIDE DEF T, next
    <3>2. \A i \in 0..n : g[i] = f[i] BY <3>0
    <3>3. g[n + 1] = next(f, n + 1) BY <3>0
    <3>4. g = [i \in 0..n + 1 |-> g[i]] BY Zenon
    <3> HIDE DEF g
    <3>5. \A i \in 0..n + 1 : next(g, i) = next(f, i)
      <4>1. \A i \in 0..n + 1 : i # 0 => i - 1 \in 0..n BY <3>0
      <4> QED BY <3>2, <4>1, Zenon DEF next
    <3>6. \A i \in 0..n : f[i] = next(f, i) BY <3>1, Zenon DEF next
    <3>7. \A i \in 0..n + 1 : i \in 0..n \/ i = n + 1 BY <3>0
    <3>8. \A i \in 0..n + 1 : g[i] = next(g, i)
      BY <3>2, <3>3, <3>5, <3>6, <3>7, Zenon
    <3>9. g = [i \in 0..n + 1 |-> next(g, i)] BY <3>4, <3>8, Zenon
    <3>10. Eq(g, n + 1) BY <3>9, Zenon DEF next
    <3> QED BY <3>0, <3>10, Zenon DEF T
  <2>3. T \in SUBSET Nat OBVIOUS
  <2> HIDE DEF T
  <2>4. T = Nat BY <2>1, <2>2, <2>3, Successors
  <2> QED BY <2>4 DEF T
<1>4. Eq(upTo, N) BY <1>3
<1> HIDE DEF upTo
<1>5. upTo[0] = Base(a, b, c) /\ \A i \in 1..N : upTo[i] = Step(a, b, c, upTo[i - 1], i)
  <2>1. \A i \in 0..N : upTo[i] = next(upTo, i) BY <1>4, Zenon
  <2>2. 0 \in 0..N /\ \A i \in 1..N : i \in 0..N /\ i # 0 OBVIOUS
  <2> QED BY <2>1, <2>2, Zenon
<1> HIDE DEF next, Eq
<1> DEFINE T == {n \in Nat : n <= N => Good(a, b, c, upTo[n], n)}
<1>6. 0 \in T BY <1>5
<1>7. ASSUME NEW n \in T
      PROVE  n + 1 \in T
  <2>0. n \in Nat /\ (n <= N => Good(a, b, c, upTo[n], n)) OBVIOUS
  <2> SUFFICES ASSUME n + 1 <= N
               PROVE  Good(a, b, c, upTo[n + 1], n + 1)
    BY <2>0
  <2>1. n + 1 \in 1..N /\ (n + 1) - 1 = n /\ n <= N BY <2>0
  <2>2. Good(a, b, c, upTo[(n + 1) - 1], (n + 1) - 1) BY <2>0, <2>1
  <2>3. Good(a, b, c, Step(a, b, c, upTo[(n + 1) - 1], n + 1), n + 1) BY <2>1, <2>2
  <2> QED BY <1>5, <2>1, <2>3
<1>8. T \in SUBSET Nat OBVIOUS
<1> HIDE DEF T
<1>9. T = Nat BY <1>6, <1>7, <1>8, Successors
<1> QED BY <1>2, <1>9 DEF T
=============================================================================
