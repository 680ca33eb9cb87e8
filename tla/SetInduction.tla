---------------------------- MODULE SetInduction ----------------------------
(***************************************************************************)
(* Induction and recursion over the natural numbers, about sets and        *)
(* functions instead of formulas: what holds for every number is a set     *)
(* that has every number, and a definition by recursion is a function with *)
(* a first value and a step. They carry the proofs about what the code     *)
(* does in a loop: the waits of a worker's retries, and the metrics that a *)
(* collector puts together query by query.                                 *)
(***************************************************************************)
EXTENDS Integers, WellFoundedInduction, TLAPS

\* Some numbers have a least one.
LEMMA LeastNatural ==
    ASSUME NEW S, S \subseteq Nat, S # {}
    PROVE  \E n \in S : \A k \in S : n <= k
<1>1. IsWellFoundedOn(OpToRel(<, Nat), Nat)
  BY NatLessThanWellFounded
<1>2. PICK n \in S : \A k \in S : ~(<<k, n>> \in OpToRel(<, Nat))
  BY <1>1, WFMin, Zenon
<1>3. \A k \in S : ~(k < n)
  BY <1>2 DEF OpToRel
<1> QED
  BY <1>3

\* Some numbers below a bound have a greatest one.
LEMMA GreatestNatural ==
    ASSUME NEW n \in Nat, NEW S, S \subseteq 0..n, S # {}
    PROVE  \E x \in S : \A y \in S : x >= y
<1> DEFINE T == {n - x : x \in S}
<1>1. T \subseteq Nat /\ T # {}
  <2>1. \A x \in S : n - x \in Nat
    OBVIOUS
  <2> QED
    BY <2>1
<1>2. PICK t \in T : \A u \in T : t <= u
  BY <1>1, LeastNatural
<1>3. PICK x \in S : t = n - x
  BY <1>2
<1>4. ASSUME NEW y \in S PROVE x >= y
  <2>1. n - x <= n - y
    BY <1>2, <1>3
  <2> QED
    BY <2>1
<1> QED
  BY <1>4

\* A set with zero, and with the successor of each of its numbers, has them all.
LEMMA NatSetInduction ==
    ASSUME NEW S, 0 \in S, \A n \in Nat : n \in S => n + 1 \in S
    PROVE  Nat \subseteq S
<1> DEFINE T == Nat \ S
<1>1. ASSUME T # {} PROVE FALSE
  <2>1. PICK n \in T : \A k \in T : n <= k
    BY <1>1, LeastNatural
  <2>2. n # 0 /\ n - 1 \in Nat
    BY <2>1
  <2>3. n - 1 \in S
    BY <2>1, <2>2
  <2> QED
    BY <2>1, <2>2, <2>3
<1> QED
  BY <1>1

-----------------------------------------------------------------------------

\* The functions on 0..n that start with a and go on with g.
Approximations(S, a, g, n) ==
    {f \in [0..n -> S] : f[0] = a /\ \A k \in 0..(n - 1) : f[k + 1] = g[<<k + 1, f[k]>>]}

\* There is one for every n.
LEMMA ApproximationExists ==
    ASSUME NEW S, NEW a \in S, NEW g \in [Nat \X S -> S]
    PROVE  \A n \in Nat : Approximations(S, a, g, n) # {}
<1> DEFINE T == {n \in Nat : Approximations(S, a, g, n) # {}}
<1>1. 0 \in T
  <2> DEFINE f == [k \in 0..0 |-> a]
  <2>1. f \in Approximations(S, a, g, 0)
    BY DEF Approximations
  <2> QED
    BY <2>1
<1>2. ASSUME NEW n \in Nat, n \in T PROVE n + 1 \in T
  <2>1. PICK f : f \in Approximations(S, a, g, n)
    BY <1>2
  <2>2. /\ f \in [0..n -> S] /\ f[0] = a
        /\ \A k \in 0..(n - 1) : f[k + 1] = g[<<k + 1, f[k]>>]
    BY <2>1 DEF Approximations
  <2> DEFINE h == [k \in 0..(n + 1) |-> IF k = n + 1 THEN g[<<n + 1, f[n]>>] ELSE f[k]]
  <2>3. f[n] \in S
    BY <2>2
  <2>4. g[<<n + 1, f[n]>>] \in S
    BY <2>3
  <2>5. h \in [0..(n + 1) -> S]
    BY <2>2, <2>4
  <2>6. h[0] = a
    BY <2>2
  <2>7. ASSUME NEW k \in 0..n PROVE h[k + 1] = g[<<k + 1, h[k]>>]
    <3>1. h[k] = f[k]
      OBVIOUS
    <3>2. CASE k = n
      <4>1. h[n + 1] = g[<<n + 1, f[n]>>]
        OBVIOUS
      <4> QED
        BY <4>1, <3>1, <3>2, Zenon
    <3>3. CASE k # n
      <4>1. k \in 0..(n - 1) /\ h[k + 1] = f[k + 1]
        BY <3>3
      <4> QED
        BY <4>1, <3>1, <2>2
    <3> QED
      BY <3>2, <3>3
  <2>8. (n + 1) - 1 = n
    OBVIOUS
  <2> HIDE DEF h
  <2>9. h \in Approximations(S, a, g, n + 1)
    BY <2>5, <2>6, <2>7, <2>8 DEF Approximations
  <2> QED
    BY <2>9
<1> HIDE DEF T
<1>3. Nat \subseteq T
  BY <1>1, <1>2, NatSetInduction
<1> QED
  BY <1>3 DEF T

\* Two of them agree where both have a value.
LEMMA ApproximationsAgree ==
    ASSUME NEW S, NEW a \in S, NEW g \in [Nat \X S -> S],
           NEW n \in Nat, NEW f \in Approximations(S, a, g, n),
           NEW m \in Nat, NEW h \in Approximations(S, a, g, m)
    PROVE  \A k \in Nat : k <= n /\ k <= m => f[k] = h[k]
<1> DEFINE T == {k \in Nat : k <= n /\ k <= m => f[k] = h[k]}
<1>1. 0 \in T
  BY DEF Approximations
<1>2. ASSUME NEW k \in Nat, k \in T PROVE k + 1 \in T
  <2> SUFFICES ASSUME k + 1 <= n, k + 1 <= m PROVE f[k + 1] = h[k + 1]
    OBVIOUS
  <2>1. f[k] = h[k] /\ k \in 0..(n - 1) /\ k \in 0..(m - 1)
    BY <1>2
  <2> QED
    BY <2>1 DEF Approximations
<1> HIDE DEF T
<1>3. Nat \subseteq T
  BY <1>1, <1>2, NatSetInduction
<1> QED
  BY <1>3 DEF T

\* The function on the natural numbers that starts with a and goes on with g.
Recursion(f, S, a, g) ==
    f \in [Nat -> S] /\ f[0] = a /\ \A n \in Nat : f[n + 1] = g[<<n + 1, f[n]>>]

\* A first value and a step define one.
LEMMA NatSetRecursion ==
    ASSUME NEW S, NEW a \in S, NEW g \in [Nat \X S -> S]
    PROVE  \E f : Recursion(f, S, a, g)
<1> DEFINE A(n) == CHOOSE f : f \in Approximations(S, a, g, n)
           F == [n \in Nat |-> A(n)[n]]
<1>1. \A n \in Nat : A(n) \in Approximations(S, a, g, n)
  BY ApproximationExists
<1> HIDE DEF A
<1>2. \A n \in Nat : A(n) \in [0..n -> S] /\ A(n)[0] = a
  BY <1>1 DEF Approximations
<1>3. F \in [Nat -> S] /\ F[0] = a
  BY <1>2
<1>4. ASSUME NEW n \in Nat PROVE F[n + 1] = g[<<n + 1, F[n]>>]
  <2>1. A(n + 1)[n] = A(n)[n]
    BY <1>1, ApproximationsAgree
  <2>2. n \in 0..((n + 1) - 1)
    OBVIOUS
  <2>3. A(n + 1)[n + 1] = g[<<n + 1, A(n + 1)[n]>>]
    BY <1>1, <2>2 DEF Approximations
  <2> QED
    BY <2>1, <2>3
<1> HIDE DEF F
<1>5. Recursion(F, S, a, g)
  BY <1>3, <1>4 DEF Recursion
<1> QED
  BY <1>5
=============================================================================
