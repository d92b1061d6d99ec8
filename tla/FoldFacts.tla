------------------------------- MODULE FoldFacts -------------------------------
(***************************************************************************)
(* What the proofs need about folds over finite sets, for one operator Op: *)
(* a module that folds with an operator of its own instantiates this one   *)
(* with it.  What else the operator depends on is its first argument.  The *)
(* induction is on the size of the set, by its least counterexample.       *)
(***************************************************************************)
EXTENDS Integers, FiniteSets, FiniteSetsExt, FiniteSetTheorems, WellFoundedInduction, TLAPS

CONSTANT Op(_, _, _)

Fold(c, base, S) == FoldSet(LAMBDA x, t : Op(c, x, t), base, S)

-----------------------------------------------------------------------------
(* Every set of natural numbers has a least element.                       *)

Less == {p \in Nat \X Nat : p[1] < p[2]}

LEMMA NotLess ==
  ASSUME NEW a \in Nat, NEW b \in Nat, <<a, b>> \notin Less
  PROVE  b <= a
<1>1. <<a, b>> \in Nat \X Nat
  OBVIOUS
<1>2. ~(<<a, b>>[1] < <<a, b>>[2])
  BY <1>1 DEF Less
<1> QED BY <1>2

LEMMA LeastNat ==
  ASSUME NEW T \in SUBSET Nat, T # {}
  PROVE  \E m \in T : \A n \in T : m <= n
<1>1. IsWellFoundedOn(Less, Nat)
  BY NatLessThanWellFounded DEF OpToRel, Less
<1>2. PICK m \in T : \A n \in T : <<n, m>> \notin Less
  BY <1>1, WFMin
<1> QED BY <1>2, NotLess

-----------------------------------------------------------------------------
(* The function a fold is defined by exists.                               *)

Pick(s) == CHOOSE x \in s : TRUE
FoldStep(c, base, g, s) == IF s = {} THEN base ELSE Op(c, Pick(s), g[s \ {Pick(s)}])

\* g folds the subsets of S that have at most n elements.
Folds(c, S, base, g, n) ==
  /\ g = [s \in SUBSET S |-> g[s]]
  /\ \A s \in SUBSET S : Cardinality(s) <= n => g[s] = FoldStep(c, base, g, s)

LEMMA PickIsIn == \A s : s # {} => Pick(s) \in s
  BY DEF Pick

LEMMA SubsetsAreFinite ==
  ASSUME NEW S, IsFiniteSet(S), NEW s \in SUBSET S
  PROVE  IsFiniteSet(s) /\ Cardinality(s) \in Nat /\ Cardinality(s) <= Cardinality(S)
BY FS_Subset, FS_CardinalityType

LEMMA PickLeavesFewer ==
  ASSUME NEW S, IsFiniteSet(S), NEW s \in SUBSET S, s # {}
  PROVE  /\ Pick(s) \in s /\ s \ {Pick(s)} \in SUBSET S
         /\ Cardinality(s \ {Pick(s)}) = Cardinality(s) - 1
<1>1. Pick(s) \in s /\ IsFiniteSet(s)
  BY PickIsIn, SubsetsAreFinite
<1> QED BY <1>1, FS_RemoveElement

LEMMA FoldsUpTo ==
  ASSUME NEW S, IsFiniteSet(S), NEW c, NEW base, NEW k \in Nat
  PROVE  \E g : Folds(c, S, base, g, k)
<1> DEFINE Bad == {n \in Nat : ~\E g : Folds(c, S, base, g, n)}
<1>1. SUFFICES ASSUME Bad # {} PROVE FALSE
  OBVIOUS
<1>2. PICK m \in Bad : \A n \in Bad : m <= n
  BY <1>1, LeastNat
<1>3. CASE m = 0
  <2> DEFINE h == [s \in SUBSET S |-> base]
  <2>1. \A s \in SUBSET S : Cardinality(s) <= 0 => s = {}
    BY SubsetsAreFinite, FS_EmptySet
  <2>2. Folds(c, S, base, h, 0)
    BY <2>1 DEF Folds, FoldStep
  <2> QED BY <1>2, <1>3, <2>2
<1>4. CASE m # 0
  <2>1. m - 1 \in Nat /\ ~(m <= m - 1)
    BY <1>2, <1>4
  <2>2. m - 1 \notin Bad
    <3> HIDE DEF Bad
    <3> QED BY <2>1, <1>2
  <2>3. PICK g : Folds(c, S, base, g, m - 1)
    BY <2>1, <2>2
  <2> DEFINE h == [s \in SUBSET S |-> FoldStep(c, base, g, s)]
  <2>4. ASSUME NEW s \in SUBSET S, Cardinality(s) <= m
        PROVE  h[s] = FoldStep(c, base, h, s)
    <3>1. CASE s = {}
      BY <3>1 DEF FoldStep
    <3>2. CASE s # {}
      <4> DEFINE u == s \ {Pick(s)}
      <4>1. u \in SUBSET S /\ Cardinality(u) <= m - 1
        BY <3>2, <2>4, PickLeavesFewer, SubsetsAreFinite
      <4>2. h[u] = g[u]
        BY <4>1, <2>3 DEF Folds
      <4> QED BY <4>2, <3>2 DEF FoldStep
    <3> QED BY <3>1, <3>2
  <2>5. Folds(c, S, base, h, m)
    BY <2>4 DEF Folds
  <2> QED BY <2>5, <1>2
<1> QED BY <1>3, <1>4

LEMMA FoldIterates ==
  ASSUME NEW S, IsFiniteSet(S), NEW c, NEW base
  PROVE  \E g : Folds(c, S, base, g, Cardinality(S)) /\ Fold(c, base, S) = g[S]
<1> DEFINE iter == CHOOSE g : g = [s \in SUBSET S |-> FoldStep(c, base, g, s)]
<1>1. PICK g : Folds(c, S, base, g, Cardinality(S))
  BY FoldsUpTo, FS_CardinalityType
<1>2. \A s \in SUBSET S : g[s] = FoldStep(c, base, g, s)
  BY <1>1, SubsetsAreFinite DEF Folds
<1>3. g = [s \in SUBSET S |-> FoldStep(c, base, g, s)]
  BY <1>1, <1>2 DEF Folds
<1>4. iter = [s \in SUBSET S |-> FoldStep(c, base, iter, s)]
  BY <1>3
<1>5. Fold(c, base, S) = iter[S]
  BY DEF Fold, FoldSet, MapThenFoldSet, FoldStep, Pick
<1>6. Folds(c, S, base, iter, Cardinality(S))
  <2> HIDE DEF iter
  <2> QED BY <1>4 DEF Folds
<1> QED BY <1>5, <1>6

-----------------------------------------------------------------------------
(* What a fold comes to.                                                   *)

\* A relation between the elements that were taken and the value so far, kept
\* by every step, holds of the whole set and the fold.
THEOREM FoldRelates ==
  ASSUME NEW S, IsFiniteSet(S), NEW c, NEW base, NEW R, <<{}, base>> \in R,
         \A s \in SUBSET S, x \in S : \A t :
           x \notin s /\ <<s, t>> \in R => <<s \cup {x}, Op(c, x, t)>> \in R
  PROVE  <<S, Fold(c, base, S)>> \in R
<1>1. PICK g : Folds(c, S, base, g, Cardinality(S)) /\ Fold(c, base, S) = g[S]
  BY FoldIterates
<1> DEFINE Bad == {n \in Nat : \E s \in SUBSET S : Cardinality(s) = n /\ <<s, g[s]>> \notin R}
<1>2. SUFFICES ASSUME Bad # {} PROVE FALSE
  BY <1>1, SubsetsAreFinite
<1>3. PICK m \in Bad : \A n \in Bad : m <= n
  BY <1>2, LeastNat
<1>4. PICK s \in SUBSET S : Cardinality(s) = m /\ <<s, g[s]>> \notin R
  BY <1>3
<1>5. g[s] = FoldStep(c, base, g, s)
  BY <1>1, SubsetsAreFinite DEF Folds
<1>6. s # {}
  BY <1>4, <1>5 DEF FoldStep
<1> DEFINE x == Pick(s)
           u == s \ {x}
<1>7. /\ x \in S /\ x \notin u /\ u \cup {x} = s /\ u \in SUBSET S
      /\ Cardinality(u) = m - 1 /\ Cardinality(u) \in Nat
  BY <1>4, <1>6, PickLeavesFewer, SubsetsAreFinite
<1>8. <<u, g[u]>> \notin R
  <2>1. g[s] = Op(c, x, g[u])
    BY <1>5, <1>6 DEF FoldStep
  <2> HIDE DEF x, u
  <2> QED BY <1>4, <1>7, <2>1
<1>9. Cardinality(u) \in Bad
  BY <1>7, <1>8
<1>10. m <= Cardinality(u)
  <2> HIDE DEF Bad, u
  <2> QED BY <1>3, <1>9
<1> QED BY <1>10, <1>7

\* A fold stays in a set that its operator does not leave.
THEOREM FoldStays ==
  ASSUME NEW S, IsFiniteSet(S), NEW T, NEW c, NEW base \in T,
         \A x \in S, t \in T : Op(c, x, t) \in T
  PROVE  Fold(c, base, S) \in T
<1> DEFINE R == (SUBSET S) \X T
<1>1. <<{}, base>> \in R
  OBVIOUS
<1>2. ASSUME NEW s \in SUBSET S, NEW x \in S, NEW t, x \notin s, <<s, t>> \in R
      PROVE  <<s \cup {x}, Op(c, x, t)>> \in R
  BY <1>2
<1>3. <<S, Fold(c, base, S)>> \in R
  <2> HIDE DEF R
  <2> QED BY <1>1, <1>2, FoldRelates
<1> QED BY <1>3
\* What the first value has and every step keeps is had by the last; unlike
\* FoldRelates, this does not ask for a set the values are in.
Along(S, c, base, g) ==
  /\ g[{}] = base
  /\ \A Good \in SUBSET SUBSET S :
       /\ {} \in Good
       /\ \A s \in SUBSET S, x \in S :
            x \notin s /\ s \in Good /\ g[s \cup {x}] = Op(c, x, g[s]) => s \cup {x} \in Good
       => S \in Good

THEOREM FoldAlong ==
  ASSUME NEW S, IsFiniteSet(S), NEW c, NEW base
  PROVE  \E g : Along(S, c, base, g) /\ Fold(c, base, S) = g[S]
<1>1. PICK g : Folds(c, S, base, g, Cardinality(S)) /\ Fold(c, base, S) = g[S]
  BY FoldIterates
<1>2. \A s \in SUBSET S : g[s] = FoldStep(c, base, g, s)
  BY <1>1, SubsetsAreFinite DEF Folds
<1>3. g[{}] = base
  BY <1>2 DEF FoldStep
<1>4. ASSUME NEW Good \in SUBSET SUBSET S, {} \in Good,
             \A s \in SUBSET S, x \in S :
               x \notin s /\ s \in Good /\ g[s \cup {x}] = Op(c, x, g[s]) => s \cup {x} \in Good
      PROVE  S \in Good
  <2> DEFINE Bad == {n \in Nat : \E s \in SUBSET S : Cardinality(s) = n /\ s \notin Good}
  <2>1. SUFFICES ASSUME Bad # {} PROVE FALSE
    BY SubsetsAreFinite
  <2>2. PICK m \in Bad : \A n \in Bad : m <= n
    BY <2>1, LeastNat
  <2>3. PICK s \in SUBSET S : Cardinality(s) = m /\ s \notin Good
    BY <2>2
  <2>4. s # {}
    BY <2>3, <1>4
  <2> DEFINE x == Pick(s)
             u == s \ {x}
  <2>5. /\ x \in S /\ x \notin u /\ u \cup {x} = s /\ u \in SUBSET S
        /\ Cardinality(u) = m - 1 /\ Cardinality(u) \in Nat
    BY <2>3, <2>4, PickLeavesFewer, SubsetsAreFinite
  <2>6. g[s] = Op(c, x, g[u])
    BY <1>2, <2>4 DEF FoldStep
  <2>7. u \notin Good
    <3> HIDE DEF x, u
    <3>1. g[u \cup {x}] = Op(c, x, g[u])
      BY <2>5, <2>6
    <3> QED BY <1>4, <2>3, <2>5, <3>1
  <2>8. Cardinality(u) \in Bad
    BY <2>5, <2>7
  <2>9. m <= Cardinality(u)
    <3> HIDE DEF Bad, u
    <3> QED BY <2>2, <2>8
  <2> QED BY <2>5, <2>9
<1> QED BY <1>1, <1>3, <1>4 DEF Along
=============================================================================
