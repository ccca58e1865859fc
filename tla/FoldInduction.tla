--------------------------- MODULE FoldInduction ---------------------------
(***************************************************************************)
(* Induction over FoldSet.  A step Op and a property P are constants of    *)
(* this module: a proof instantiates it for each of its folds and cites    *)
(* FoldPreserves of that instance, so no theorem takes an operator as an   *)
(* argument.                                                               *)
(***************************************************************************)
EXTENDS Integers, FiniteSets, FiniteSetsExt, FiniteSetTheorems, WellFoundedInduction, TLAPS

CONSTANTS Op(_, _, _), P(_, _, _)

\* The fold of a step Op over a set; p is a parameter that no step changes, and P
\* relates the part of the set that is done, what it yielded, and p.
Fold(S, b, p) == FoldSet(LAMBDA x, R : Op(x, R, p), b, S)

\* The parts of the definition of FoldSet by name: the element taken first, one
\* application, what a fold of the subsets in D is, and the one FoldSet chooses.
Pick(s) == CHOOSE x \in s : TRUE
Step(s, f, b, p) == IF s = {} THEN b ELSE Op(Pick(s), f[s \ {Pick(s)}], p)
IsFold(f, D, b, p) == f = [s \in D |-> Step(s, f, b, p)]
Iter(S, b, p) == CHOOSE f : IsFold(f, SUBSET S, b, p)
\* The subsets of S with at most n elements.
Small(S, n) == {s \in SUBSET S : Cardinality(s) <= n}

\* A set of natural numbers that is not empty has a least member: the way in which
\* the induction below is carried out.
LEMMA LeastNatural ==
  ASSUME NEW F \in SUBSET Nat, F # {}
  PROVE  \E n \in F : \A j \in F : n <= j
<1>1. PICK n \in F : \A j \in F : ~ (<<j, n>> \in OpToRel(<, Nat))
  BY NatLessThanWellFounded, WFMin
<1>2. ASSUME NEW j \in F, j < n PROVE FALSE
  <2>1. <<j, n>> \in Nat \X Nat /\ <<j, n>>[1] = j /\ <<j, n>>[2] = n
    OBVIOUS
  <2>2. <<j, n>>[1] < <<j, n>>[2]
    BY <1>2, <2>1
  <2>3. <<j, n>> \in OpToRel(<, Nat)
    BY <2>1, <2>2, Zenon DEF OpToRel
  <2> QED BY <1>1, <2>3
<1> QED BY <1>2

\* A fold is the value at S of the function that FoldSet chooses.
LEMMA FoldIs == ASSUME NEW S, NEW b, NEW p PROVE Fold(S, b, p) = Iter(S, b, p)[S]
  BY Zenon DEF Fold, FoldSet, MapThenFoldSet, Iter, IsFold, Pick, Step

\* Taking the chosen element out of a finite set leaves a set with one less.
LEMMA Shrinks ==
  ASSUME NEW S, IsFiniteSet(S), NEW s \in SUBSET S, s # {}
  PROVE  /\ Pick(s) \in s
         /\ s \ {Pick(s)} \in SUBSET S
         /\ Cardinality(s) \in Nat
         /\ Cardinality(s \ {Pick(s)}) \in Nat
         /\ Cardinality(s \ {Pick(s)}) = Cardinality(s) - 1
<1>1. Pick(s) \in s
  BY DEF Pick
<1>2. IsFiniteSet(s)
  BY FS_Subset
<1>3. IsFiniteSet(s \ {Pick(s)})
  BY <1>1, <1>2, FS_RemoveElement
<1> QED BY <1>1, <1>2, <1>3, FS_RemoveElement, FS_CardinalityType

\* For every n there is a function that folds the subsets of S with at most n elements.
LEMMA Approximation ==
  ASSUME NEW S, IsFiniteSet(S), NEW b, NEW p, NEW n \in Nat
  PROVE  \E f : IsFold(f, Small(S, n), b, p)
<1> DEFINE Has(m) == \E f : IsFold(f, Small(S, m), b, p)
           F == {m \in Nat : ~Has(m)}
<1>1. Has(0)
  <2> DEFINE f == [s \in Small(S, 0) |-> b]
  <2>1. ASSUME NEW s \in Small(S, 0) PROVE s = {}
    <3>1. s \in SUBSET S /\ Cardinality(s) <= 0
      BY DEF Small
    <3>2. ASSUME s # {} PROVE FALSE
      <4>1. /\ Cardinality(s) \in Nat /\ Cardinality(s \ {Pick(s)}) \in Nat
            /\ Cardinality(s \ {Pick(s)}) = Cardinality(s) - 1
        BY <3>1, <3>2, Shrinks
      <4> QED BY <3>1, <4>1
    <3> QED BY <3>2
  <2>2. \A s \in Small(S, 0) : Step(s, f, b, p) = b
    BY <2>1 DEF Step
  <2>3. IsFold(f, Small(S, 0), b, p)
    BY <2>2 DEF IsFold
  <2> HIDE DEF f
  <2> QED BY <2>3
<1>2. ASSUME NEW m \in Nat, Has(m) PROVE Has(m + 1)
  <2>1. PICK f : IsFold(f, Small(S, m), b, p)
    BY <1>2
  <2> DEFINE g == [s \in Small(S, m + 1) |-> Step(s, f, b, p)]
  <2>2. \A s \in Small(S, m) : s \in Small(S, m + 1)
    <3> TAKE s \in Small(S, m)
    <3>1. Cardinality(s) \in Nat
      BY FS_Subset, FS_CardinalityType DEF Small
    <3> QED BY <3>1 DEF Small
  <2>3. \A s \in Small(S, m) : g[s] = f[s]
    <3> TAKE s \in Small(S, m)
    <3>1. f[s] = Step(s, f, b, p)
      BY <2>1, Zenon DEF IsFold
    <3>2. g[s] = Step(s, f, b, p)
      BY <2>2, Zenon
    <3> QED BY <3>1, <3>2
  <2>4. \A s \in Small(S, m + 1) : Step(s, f, b, p) = Step(s, g, b, p)
    <3> TAKE s \in Small(S, m + 1)
    <3>1. CASE s = {}
      BY <3>1 DEF Step
    <3>2. CASE s # {}
      <4>1. s \ {Pick(s)} \in Small(S, m)
        BY <3>2, Shrinks DEF Small
      <4>2. g[s \ {Pick(s)}] = f[s \ {Pick(s)}]
        BY <4>1, <2>3
      <4> HIDE DEF g
      <4> QED BY <4>2, <3>2, Zenon DEF Step
    <3> QED BY <3>1, <3>2
  <2>5. IsFold(g, Small(S, m + 1), b, p)
    BY <2>4, Zenon DEF IsFold
  <2> HIDE DEF g
  <2> QED BY <2>5
<1> HIDE DEF Has
<1>3. SUFFICES ASSUME F # {} PROVE FALSE
  BY DEF Has
<1>4. PICK m \in F : \A j \in F : m <= j
  BY <1>3, LeastNatural
<1>5. m # 0 /\ m - 1 \in Nat /\ m - 1 \notin F /\ (m - 1) + 1 = m
  BY <1>1, <1>4
<1> QED BY <1>2, <1>4, <1>5

\* The function that FoldSet chooses is a fold: each subset of S is mapped to one
\* application of Op to the value of the subset without its chosen element.
LEMMA IterIs ==
  ASSUME NEW S, IsFiniteSet(S), NEW b, NEW p, NEW s \in SUBSET S
  PROVE  Iter(S, b, p)[s] = Step(s, Iter(S, b, p), b, p)
<1>1. Cardinality(S) \in Nat
  BY FS_CardinalityType
<1>2. Small(S, Cardinality(S)) = SUBSET S
  <2>1. \A t \in SUBSET S : Cardinality(t) <= Cardinality(S)
    BY FS_Subset
  <2> QED BY <2>1 DEF Small
<1>3. \E f : IsFold(f, SUBSET S, b, p)
  <2>1. PICK n \in Nat : n = Cardinality(S)
    BY <1>1
  <2>2. \E f : IsFold(f, Small(S, n), b, p)
    BY Approximation
  <2> QED BY <1>2, <2>1, <2>2, Zenon
<1>4. Iter(S, b, p) = [t \in SUBSET S |-> Step(t, Iter(S, b, p), b, p)]
  BY <1>3, Zenon DEF Iter, IsFold
<1> QED BY <1>4, Zenon

\* Induction over a fold: P holds of what the fold over a finite set yields when it
\* holds of the start and each application of Op keeps it, in whatever order.
LEMMA FoldPreserves ==
  ASSUME NEW S, IsFiniteSet(S), NEW b, NEW p, P({}, b, p),
         \A s \in SUBSET S : \A R : \A x \in s : P(s \ {x}, R, p) => P(s, Op(x, R, p), p)
  PROVE  P(S, Fold(S, b, p), p)
<1> DEFINE I == Iter(S, b, p)
           Fails(n) == \E s \in SUBSET S : Cardinality(s) = n /\ ~P(s, I[s], p)
           F == {n \in Nat : Fails(n)}
<1> HIDE DEF I
<1>1. ASSUME F # {} PROVE FALSE
  <2>1. PICK n \in F : \A j \in F : n <= j
    BY <1>1, LeastNatural
  <2>2. PICK s \in SUBSET S : Cardinality(s) = n /\ ~P(s, I[s], p)
    BY <2>1
  <2>3. I[s] = Step(s, I, b, p)
    BY IterIs DEF I
  <2>4. CASE s = {}
    BY <2>2, <2>3, <2>4 DEF Step
  <2>5. CASE s # {}
    <3> DEFINE x == Pick(s)
    <3>1. x \in s /\ s \ {x} \in SUBSET S /\ Cardinality(s \ {x}) = n - 1 /\ n \in Nat
      BY <2>2, <2>5, Shrinks
    <3>2. n - 1 \notin F
      BY <2>1, <3>1
    <3>3. n - 1 \in Nat
      BY <3>1, FS_Subset, FS_CardinalityType
    <3>4. P(s \ {x}, I[s \ {x}], p)
      BY <3>1, <3>2, <3>3
    <3>5. P(s, Op(x, I[s \ {x}], p), p)
      BY <3>1, <3>4
    <3>6. I[s] = Op(x, I[s \ {x}], p)
      BY <2>3, <2>5, Zenon DEF Step
    <3> QED BY <2>2, <3>5, <3>6
  <2> QED BY <2>4, <2>5
<1>2. Cardinality(S) \in Nat
  BY FS_CardinalityType
<1>3. P(S, I[S], p)
  BY <1>1, <1>2
<1> QED BY <1>3, FoldIs DEF I
=============================================================================
