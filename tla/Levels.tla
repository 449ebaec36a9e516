------------------------------- MODULE Levels -------------------------------
(***************************************************************************)
(* Definitions that are recursive on a depth: level 0 is Base, and level n  *)
(* is made by Step from the level below.  The functions and sets of         *)
(* EftlCodec are of this kind; the proofs about them instantiate this        *)
(* module once for each.                                                    *)
(***************************************************************************)
EXTENDS WellFoundedInduction, TLAPS

CONSTANTS Base, Step(_, _)

\* What is built from Base by n steps.
Level[n \in Nat] == IF n = 0 THEN Base ELSE Step(n, Level[n - 1])

-----------------------------------------------------------------------------
(***************************************************************************)
(* Induction, for a set T of numbers: that 0 is in T, and n + 1 with n.     *)
(***************************************************************************)
LEMMA SetInduction ==
    ASSUME NEW T, 0 \in T, \A n \in T \cap Nat : n + 1 \in T
    PROVE  Nat \subseteq T
<1>. SUFFICES ASSUME ~(Nat \subseteq T) PROVE FALSE
    OBVIOUS
<1>. DEFINE U == Nat \ T
<1>1. U \subseteq Nat /\ U # {}
    OBVIOUS
<1>. DEFINE R == {ss \in Nat \X Nat : ss[1] < ss[2]}
<1>2. IsWellFoundedOn(R, Nat)
    BY NatLessThanWellFounded, Zenon DEF OpToRel
<1>. HIDE DEF R
<1>3. PICK m \in U : \A y \in U : ~(<<y, m>> \in R)
    BY <1>1, <1>2, WFMin
<1>4. \A y \in U : ~(y < m)
    BY <1>3, <1>1 DEF R
<1>5. m \in Nat /\ m # 0
    BY <1>1
<1>6. m - 1 \in Nat /\ m - 1 < m
    BY <1>5
<1>7. m - 1 \in T
    BY <1>4, <1>6
<1>8. (m - 1) + 1 \in T
    BY <1>6, <1>7
<1>. QED
    BY <1>5, <1>8

-----------------------------------------------------------------------------
(***************************************************************************)
(* There is one function that takes the steps up to n, and F takes them all. *)
(***************************************************************************)
Upto(n, g) ==
    /\ g[0] = Base
    /\ \A i \in 0..(n - 1) : g[i + 1] = Step(i + 1, g[i])

\* Two functions that take the same steps agree.
LEMMA UptoUnique ==
    ASSUME NEW n \in Nat, NEW m \in Nat, NEW g, NEW h, Upto(n, g), Upto(m, h),
           n <= m
    PROVE  g[n] = h[n]
<1>. DEFINE T == {i \in Nat : i <= n => g[i] = h[i]}
<1>1. 0 \in T
    BY DEF Upto
<1>2. ASSUME NEW i \in T \cap Nat PROVE i + 1 \in T
  <2>1. CASE i + 1 <= n
    <3>1. i \in 0..(n - 1) /\ i \in 0..(m - 1) /\ i <= n
        BY <1>2, <2>1
    <3>2. g[i] = h[i]
        BY <3>1
    <3>3. g[i + 1] = Step(i + 1, g[i]) /\ h[i + 1] = Step(i + 1, h[i])
        BY <3>1 DEF Upto
    <3>. QED
        BY <3>2, <3>3
  <2>. QED
    BY <2>1
<1>3. Nat \subseteq T
    BY <1>1, <1>2, SetInduction
<1>. QED
    BY <1>3

\* A function that takes n steps exists: one step is added to a shorter one.
LEMMA UptoExists ==
    ASSUME NEW n \in Nat PROVE \E g : Upto(n, g)
<1>. DEFINE T == {i \in Nat : \E g : Upto(i, g)}
<1>1. 0 \in T
  <2>. DEFINE g == [i \in {0} |-> Base]
  <2>1. Upto(0, g)
    BY DEF Upto
  <2>. QED
    BY <2>1
<1>2. ASSUME NEW i \in T \cap Nat PROVE i + 1 \in T
  <2>1. PICK g : Upto(i, g)
    OBVIOUS
  <2>. DEFINE h == [j \in 0..(i + 1) |-> IF j = i + 1 THEN Step(i + 1, g[i]) ELSE g[j]]
  <2>2. h[0] = Base
    BY <2>1 DEF Upto
  <2>3. ASSUME NEW j \in 0..i PROVE h[j + 1] = Step(j + 1, h[j])
    <3>1. h[j] = g[j]
        OBVIOUS
    <3>2. CASE j = i
        BY <3>1, <3>2
    <3>3. CASE j # i
      <4>1. j \in 0..(i - 1) /\ j + 1 \in 0..(i + 1) /\ j + 1 # i + 1
        BY <3>3
      <4>2. h[j + 1] = g[j + 1]
        BY <4>1
      <4>. QED
        BY <2>1, <3>1, <4>1, <4>2 DEF Upto
    <3>. QED
        BY <3>2, <3>3
  <2>4. Upto(i + 1, h)
    <3>1. (i + 1) - 1 = i
        OBVIOUS
    <3>. HIDE DEF h
    <3>. QED
        BY <2>2, <2>3, <3>1 DEF Upto
  <2>. QED
    BY <2>4
<1>3. Nat \subseteq T
    BY <1>1, <1>2, SetInduction
<1>. QED
    BY <1>3

\* The recursive definition of Level means what it says: Level[0] is Base, and
\* each further level is one Step from the level below.
LEMMA LevelDef ==
    /\ Level[0] = Base
    /\ \A n \in Nat : Level[n + 1] = Step(n + 1, Level[n])
<1>. DEFINE F == [n \in Nat |-> (CHOOSE g : Upto(n, g))[n]]
<1>1. \A n \in Nat : \A g : Upto(n, g) => F[n] = g[n]
  <2>. TAKE n \in Nat
  <2>. TAKE g
  <2>1. Upto(n, CHOOSE h : Upto(n, h))
    BY UptoExists
  <2>. QED
    BY <2>1, UptoUnique
<1>2. F[0] = Base
  <2>1. PICK g : Upto(0, g)
    BY UptoExists
  <2>. QED
    BY <2>1, <1>1 DEF Upto
<1>3. ASSUME NEW n \in Nat PROVE F[n + 1] = Step(n + 1, F[n])
  <2>1. PICK g : Upto(n + 1, g)
    BY UptoExists
  <2>2. Upto(n, g)
    BY <2>1 DEF Upto
  <2>3. F[n + 1] = g[n + 1] /\ F[n] = g[n]
    BY <1>1, <2>1, <2>2
  <2>4. g[n + 1] = Step(n + 1, g[n])
    BY <2>1 DEF Upto
  <2>. QED
    BY <2>3, <2>4
<1>4. F = [n \in Nat |-> IF n = 0 THEN Base ELSE Step(n, F[n - 1])]
  <2>1. ASSUME NEW n \in Nat
        PROVE  F[n] = IF n = 0 THEN Base ELSE Step(n, F[n - 1])
    <3>1. CASE n = 0
        BY <3>1, <1>2
    <3>2. CASE n # 0
      <4>1. n - 1 \in Nat /\ (n - 1) + 1 = n
        BY <3>2
      <4>2. F[(n - 1) + 1] = Step((n - 1) + 1, F[n - 1])
        BY <4>1, <1>3
      <4>. QED
        BY <3>2, <4>1, <4>2
    <3>. QED
        BY <3>1, <3>2
  <2>2. F = [n \in Nat |-> F[n]]
    OBVIOUS
  <2>. HIDE DEF F
  <2>. QED
    BY <2>1, <2>2, Zenon
<1>. HIDE DEF F
<1>5. Level = [n \in Nat |-> IF n = 0 THEN Base ELSE Step(n, Level[n - 1])]
    BY <1>4 DEF Level
<1>. QED
    BY <1>5
=============================================================================
