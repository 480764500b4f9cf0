--------------------------- MODULE NaturalLemmas ---------------------------
(***************************************************************************)
(* Facts about the natural numbers that the proofs of several components   *)
(* use.  The least element of a set stands in for induction.               *)
(***************************************************************************)
EXTENDS Shifts, FiniteSets, TLAPS, WellFoundedInduction, FiniteSetTheorems

\* A non-empty set of naturals has a least element.
LEMMA NatMin ==
    ASSUME NEW T \in SUBSET Nat, T # {}
    PROVE  \E m \in T : \A n \in T : m <= n
<1> DEFINE R == OpToRel(<, Nat)
<1>1. IsWellFoundedOn(R, Nat)
  BY NatLessThanWellFounded
<1>2. \E m \in T : \A n \in T : ~(<<n, m>> \in R)
  <2> HIDE DEF R
  <2> QED BY <1>1, WFMin
<1>3. \A m, n \in Nat : n < m => <<n, m>> \in R
  BY DEF OpToRel
<1>4. PICK m \in T : \A n \in T : ~(<<n, m>> \in R)
  BY <1>2
<1> HIDE DEF R
<1>5. SUFFICES ASSUME NEW n \in T PROVE m <= n
  BY <1>4
<1>6. ~(n < m)
  BY <1>3, <1>4
<1> QED
  BY <1>6
----------------------------------------------------------------------------
(* The exponential backoff: 1 << n                                         *)

\* g is 1 << i for every i up to n.
ShiftedUpTo(g, n) ==
    /\ g \in [0 .. n -> Nat]
    /\ g[0] = 1
    /\ \A i \in 1 .. n : g[i] = 2 * g[i - 1]

LEMMA ShiftedUpToExists ==
    ASSUME NEW n \in Nat
    PROVE  \E g : ShiftedUpTo(g, n)
<1> DEFINE Bad == {k \in Nat : \A g : ~ShiftedUpTo(g, k)}
<1> SUFFICES ASSUME Bad # {} PROVE FALSE
  OBVIOUS
<1>1. PICK k \in Bad : \A j \in Bad : k <= j
  <2>1. Bad \in SUBSET Nat
    OBVIOUS
  <2> HIDE DEF Bad
  <2> QED BY <2>1, NatMin
<1>2. k # 0
  <2>1. ShiftedUpTo([i \in 0 .. 0 |-> 1], 0)
    BY DEF ShiftedUpTo
  <2> QED
    BY <2>1
<1>3. PICK g : ShiftedUpTo(g, k - 1)
  <2>1. k - 1 \in Nat /\ k - 1 \notin Bad
    BY <1>1, <1>2
  <2> QED
    BY <2>1
<1> DEFINE h == [i \in 0 .. k |-> IF i = k THEN 2 * g[k - 1] ELSE g[i]]
<1>4. k \in Nat /\ k - 1 \in 0 .. (k - 1)
  BY <1>2
<1>5. ShiftedUpTo(h, k)
  <2>1. \A i \in 0 .. (k - 1) : g[i] \in Nat
    BY <1>3 DEF ShiftedUpTo
  <2>2. h \in [0 .. k -> Nat]
    BY <1>4, <2>1
  <2>3. h[0] = 1
    BY <1>2, <1>3, <1>4 DEF ShiftedUpTo
  <2>4. ASSUME NEW i \in 1 .. k PROVE h[i] = 2 * h[i - 1]
    <3>1. h[i - 1] = g[i - 1]
      BY <1>4
    <3>2. CASE i = k
      BY <1>4, <3>1, <3>2
    <3>3. CASE i # k
      BY <1>3, <1>4, <3>1, <3>3 DEF ShiftedUpTo
    <3> QED
      BY <3>2, <3>3
  <2> HIDE DEF h
  <2> QED
    BY <2>2, <2>3, <2>4 DEF ShiftedUpTo
<1> QED
  BY <1>5

LEMMA ShiftedUpToUnique ==
    ASSUME NEW n \in Nat, NEW m \in Nat, NEW g, NEW h, ShiftedUpTo(g, n), ShiftedUpTo(h, m),
           NEW i \in 0 .. n, i \in 0 .. m
    PROVE  g[i] = h[i]
<1> DEFINE Bad == {k \in Nat : k <= n /\ k <= m /\ g[k] # h[k]}
<1> SUFFICES ASSUME Bad # {} PROVE FALSE
  OBVIOUS
<1>1. PICK k \in Bad : \A j \in Bad : k <= j
  <2>1. Bad \in SUBSET Nat
    OBVIOUS
  <2> HIDE DEF Bad
  <2> QED BY <2>1, NatMin
<1>2. k # 0
  BY DEF ShiftedUpTo
<1>3. k - 1 \in Nat /\ k - 1 \notin Bad
  BY <1>1, <1>2
<1>4. g[k - 1] = h[k - 1]
  BY <1>3
<1> QED
  BY <1>2, <1>4 DEF ShiftedUpTo

\* 1 << n doubles with every n: the recursive definition has a solution.
LEMMA ShiftedDoubles ==
    /\ Shifted[0] = 1
    /\ \A n \in Nat : n # 0 => Shifted[n] = 2 * Shifted[n - 1]
    /\ Shifted = [n \in Nat |-> Shifted[n]]
<1> DEFINE G(n) == CHOOSE g : ShiftedUpTo(g, n)
           f == [n \in Nat |-> G(n)[n]]
<1>1. \A n \in Nat : ShiftedUpTo(G(n), n)
  BY ShiftedUpToExists
<1>2. f[0] = 1
  BY <1>1 DEF ShiftedUpTo
<1>3. ASSUME NEW n \in Nat, n # 0 PROVE f[n] = 2 * f[n - 1]
  <2>1. n - 1 \in Nat /\ n - 1 \in 0 .. n /\ n - 1 \in 0 .. (n - 1) /\ n \in 1 .. n
    BY <1>3
  <2>2. ShiftedUpTo(G(n), n) /\ ShiftedUpTo(G(n - 1), n - 1)
    BY <1>1, <2>1
  <2> HIDE DEF G
  <2>3. G(n)[n - 1] = G(n - 1)[n - 1]
    BY <2>1, <2>2, ShiftedUpToUnique
  <2>4. G(n)[n] = 2 * G(n)[n - 1]
    BY <2>1, <2>2 DEF ShiftedUpTo
  <2> QED
    BY <2>1, <2>3, <2>4
<1>4. f = [n \in Nat |-> IF n = 0 THEN 1 ELSE 2 * f[n - 1]]
  <2>1. f = [n \in Nat |-> f[n]]
    OBVIOUS
  <2> HIDE DEF f
  <2>2. \A n \in Nat : f[n] = IF n = 0 THEN 1 ELSE 2 * f[n - 1]
    BY <1>2, <1>3
  <2> QED
    BY <2>1, <2>2
<1>5. Shifted = [n \in Nat |-> IF n = 0 THEN 1 ELSE 2 * Shifted[n - 1]]
  <2> HIDE DEF f
  <2> QED BY <1>4 DEF Shifted
<1> QED
  BY <1>5

\* 1 << n is a positive number.
LEMMA ShiftedPositive ==
    ASSUME NEW n \in Nat
    PROVE  Shifted[n] \in Nat /\ Shifted[n] >= 1
<1> DEFINE Bad == {k \in Nat : ~(Shifted[k] \in Nat /\ Shifted[k] >= 1)}
<1> SUFFICES ASSUME Bad # {} PROVE FALSE
  OBVIOUS
<1>1. PICK k \in Bad : \A j \in Bad : k <= j
  <2>1. Bad \in SUBSET Nat
    OBVIOUS
  <2> HIDE DEF Bad
  <2> QED BY <2>1, NatMin
<1>2. k # 0
  <2>1. Shifted[0] = 1
    BY ShiftedDoubles
  <2> QED
    BY <2>1
<1>3. k - 1 \in Nat /\ k - 1 \notin Bad
  BY <1>1, <1>2
<1>4. Shifted[k - 1] \in Nat /\ Shifted[k - 1] >= 1
  BY <1>3
<1>5. Shifted[k] = 2 * Shifted[k - 1]
  BY <1>2, ShiftedDoubles
<1>6. Shifted[k] \in Nat /\ Shifted[k] >= 1
  BY <1>4, <1>5
<1> QED
  BY <1>6
============================================================================
