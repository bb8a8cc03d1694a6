------------------------------ MODULE FoldFacts ------------------------------
(***************************************************************************)
(* What FoldLeft computes, for any operation Op and any invariant Inv of   *)
(* its partial results: an instance of this module is the induction over a *)
(* list for one loop of the code.  The operations take two parameters of   *)
(* the call besides the value so far and the element; Inv takes a context, *)
(* the value and the number of elements done.                              *)
(***************************************************************************)
EXTENDS Integers, WellFoundedInduction, TLAPS

CONSTANTS Op(_, _, _, _), Inv(_, _, _)

\* The largest of some numbers, as Max of FiniteSetsExt chooses it.
Top(s) == CHOOSE x \in s : \A y \in s : x >= y

\* FoldLeft over q, as SequencesExt and Folds define it: a recursive function over the
\* subsets of D.
IsIteration(g, a, b, base, q, D) ==
  g = [s \in SUBSET D |->
         IF s = {} THEN base ELSE Op(a, b, g[s \ {Top(s)}], q[Top(s)])]

Fold(a, b, base, q) == (CHOOSE g : IsIteration(g, a, b, base, q, DOMAIN q))[DOMAIN q]
-----------------------------------------------------------------------------
\* A set of natural numbers that is not empty has a least element.
LEMMA Smallest ==
  ASSUME NEW T, T \subseteq Nat, T # {}
  PROVE  \E x \in T : \A y \in T : x <= y
<1> DEFINE R == OpToRel(<, Nat)
<1>1. IsWellFoundedOn(R, Nat)
  BY NatLessThanWellFounded
<1>2. PICK x \in T : \A y \in T : ~(<<y, x>> \in R)
  BY <1>1, WFMin
<1>3. \A y \in T : ~(y < x)
  BY <1>2 DEF OpToRel
<1> QED
  BY <1>3

\* A bounded one has a largest element, which is its Top.
LEMMA Largest ==
  ASSUME NEW k \in Nat, NEW s \in SUBSET (1 .. k), s # {}
  PROVE  Top(s) \in s /\ \A y \in s : Top(s) >= y
<1>0. \A y \in s : y \in 1 .. k
  OBVIOUS
<1> DEFINE T == {u \in Nat : \A y \in s : y <= u}
<1>1. k \in T
  OBVIOUS
<1>2. PICK u \in T : \A v \in T : u <= v
  BY <1>1, Smallest
<1>3. u \in s
  <2>1. SUFFICES ASSUME u \notin s PROVE FALSE
    OBVIOUS
  <2>2. \A y \in s : y <= u - 1
    BY <1>2, <2>1
  <2>3. u >= 1
    <3>1. PICK y \in s : TRUE
      OBVIOUS
    <3>2. y \in 1 .. k /\ y <= u
      BY <1>0, <1>2, <3>1
    <3> QED
      BY <3>2
  <2>4. u - 1 \in T
    BY <2>2, <2>3
  <2> QED
    BY <1>2, <2>4
<1>4. \E x \in s : \A y \in s : x >= y
  BY <1>2, <1>3
<1>5. Top(s) = CHOOSE x \in s : \A y \in s : x >= y
  BY Zenon DEF Top
<1> QED
  BY <1>4, <1>5, Zenon

\* The last of 1 .. k + 1 is the largest of any set it is in.
LEMMA LargestOfAll ==
  ASSUME NEW k \in Nat, NEW s \in SUBSET (1 .. k + 1), k + 1 \in s
  PROVE  Top(s) = k + 1
<1>1. Top(s) \in s /\ \A y \in s : Top(s) >= y
  <2>1. k + 1 \in Nat /\ s # {}
    OBVIOUS
  <2> QED
    BY <2>1, Largest
<1>2. Top(s) \in 1 .. k + 1
  <2>1. \A y \in s : y \in 1 .. k + 1
    OBVIOUS
  <2> QED
    BY <1>1, <2>1
<1> QED
  BY <1>1, <1>2
-----------------------------------------------------------------------------
\* There is such a function.
LEMMA IterationExists ==
  ASSUME NEW a, NEW b, NEW base, NEW q, NEW n \in Nat
  PROVE  \E g : IsIteration(g, a, b, base, q, 1 .. n)
<1> DEFINE T == {k \in Nat : ~\E g : IsIteration(g, a, b, base, q, 1 .. k)}
<1>1. SUFFICES ASSUME T # {} PROVE FALSE
  OBVIOUS
<1>2. PICK m \in T : \A y \in T : m <= y
  BY <1>1, Smallest
<1>3. CASE m = 0
  <2> DEFINE g == [s \in SUBSET (1 .. 0) |-> base]
  <2>1. SUBSET (1 .. 0) = {{}}
    OBVIOUS
  <2>2. IsIteration(g, a, b, base, q, 1 .. 0)
    BY <2>1 DEF IsIteration
  <2> QED
    BY <1>2, <1>3, <2>2
<1>4. CASE m # 0
  <2> DEFINE k == m - 1
  <2>1. k \in Nat /\ m = k + 1 /\ k \notin T
    BY <1>2, <1>4
  <2>2. PICK g : IsIteration(g, a, b, base, q, 1 .. k)
    BY <2>1
  <2> HIDE DEF k
  <2> DEFINE h == [s \in SUBSET (1 .. k + 1) |->
                     IF k + 1 \in s THEN Op(a, b, g[s \ {k + 1}], q[k + 1]) ELSE g[s]]
  <2>3. ASSUME NEW s \in SUBSET (1 .. k + 1)
        PROVE  h[s] = IF s = {} THEN base ELSE Op(a, b, h[s \ {Top(s)}], q[Top(s)])
    <3>1. CASE k + 1 \in s
      <4>1. Top(s) = k + 1
        BY <3>1, <2>1, LargestOfAll
      <4>2. s \ {k + 1} \in SUBSET (1 .. k) /\ s \ {k + 1} \in SUBSET (1 .. k + 1)
            /\ k + 1 \notin s \ {k + 1} /\ s # {}
        BY <2>1, <3>1
      <4>3. h[s \ {k + 1}] = g[s \ {k + 1}]
        BY <4>2
      <4>4. h[s] = Op(a, b, g[s \ {k + 1}], q[k + 1])
        BY <3>1
      <4> HIDE DEF h
      <4> QED
        BY <4>1, <4>2, <4>3, <4>4
    <3>2. CASE k + 1 \notin s
      <4>1. s \in SUBSET (1 .. k)
        BY <2>1, <3>2
      <4>2. h[s] = g[s]
        BY <3>2
      <4>3. g[s] = IF s = {} THEN base ELSE Op(a, b, g[s \ {Top(s)}], q[Top(s)])
        BY <2>2, <4>1 DEF IsIteration
      <4>4. CASE s # {}
        <5>1. s \ {Top(s)} \in SUBSET (1 .. k) /\ s \ {Top(s)} \in SUBSET (1 .. k + 1)
              /\ k + 1 \notin s \ {Top(s)}
          BY <4>1, <2>1, <3>2
        <5>2. h[s \ {Top(s)}] = g[s \ {Top(s)}]
          BY <5>1
        <5> HIDE DEF h
        <5> QED
          BY <4>2, <4>3, <4>4, <5>2
      <4> QED
        BY <4>2, <4>3, <4>4
    <3> QED
      BY <3>1, <3>2
  <2>4. h = [s \in SUBSET (1 .. k + 1) |->
               IF s = {} THEN base ELSE Op(a, b, h[s \ {Top(s)}], q[Top(s)])]
    <3>1. h = [s \in SUBSET (1 .. k + 1) |-> h[s]]
      OBVIOUS
    <3> HIDE DEF h
    <3> QED
      BY <3>1, <2>3, Zenon
  <2>5. IsIteration(h, a, b, base, q, 1 .. k + 1)
    BY <2>4, Zenon DEF IsIteration
  <2> QED
    BY <1>2, <2>1, <2>5
<1> QED
  BY <1>3, <1>4
-----------------------------------------------------------------------------
\* An invariant of the loop holds of its result.
THEOREM FoldInvariant ==
  ASSUME NEW a, NEW b, NEW base, NEW q, NEW n \in Nat, DOMAIN q = 1 .. n,
         NEW c, Inv(c, base, 0),
         \A i \in 1 .. n : \A v : Inv(c, v, i - 1) => Inv(c, Op(a, b, v, q[i]), i)
  PROVE  Inv(c, Fold(a, b, base, q), n)
<1> DEFINE g == CHOOSE h : IsIteration(h, a, b, base, q, 1 .. n)
<1>1. IsIteration(g, a, b, base, q, 1 .. n)
  BY IterationExists
<1>2. Fold(a, b, base, q) = g[1 .. n]
  BY Zenon DEF Fold
<1> HIDE DEF g
<1>3. g[{}] = base
  BY <1>1 DEF IsIteration
<1>4. ASSUME NEW i \in 1 .. n
      PROVE  g[1 .. i] = Op(a, b, g[1 .. i - 1], q[i])
  <2>1. 1 .. i \in SUBSET (1 .. n) /\ 1 .. i # {} /\ (1 .. i) \ {i} = 1 .. i - 1
    OBVIOUS
  <2>2. Top(1 .. i) = i
    <3>1. i - 1 \in Nat /\ 1 .. i \in SUBSET (1 .. (i - 1) + 1) /\ (i - 1) + 1 \in 1 .. i
          /\ (i - 1) + 1 = i
      OBVIOUS
    <3> QED
      BY <3>1, LargestOfAll
  <2>3. g[1 .. i] = Op(a, b, g[(1 .. i) \ {Top(1 .. i)}], q[Top(1 .. i)])
    BY <1>1, <2>1 DEF IsIteration
  <2> QED
    BY <2>1, <2>2, <2>3
<1> DEFINE T == {k \in Nat : k <= n /\ ~Inv(c, g[1 .. k], k)}
<1>5. T = {}
  <2>1. SUFFICES ASSUME T # {} PROVE FALSE
    OBVIOUS
  <2>2. PICK m \in T : \A y \in T : m <= y
    BY <2>1, Smallest
  <2>3. m # 0
    <3>1. 1 .. 0 = {}
      OBVIOUS
    <3> QED
      BY <1>3, <2>2, <3>1
  <2>4. m \in 1 .. n /\ m - 1 \in Nat /\ m - 1 <= n /\ m - 1 \notin T
    BY <2>2, <2>3
  <2>5. Inv(c, g[1 .. m - 1], m - 1)
    BY <2>4
  <2>6. Inv(c, Op(a, b, g[1 .. m - 1], q[m]), m)
    BY <2>4, <2>5
  <2> QED
    BY <1>4, <2>2, <2>4, <2>6
<1> QED
  BY <1>2, <1>5
=============================================================================
