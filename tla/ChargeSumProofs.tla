--------------------------- MODULE ChargeSumProofs ---------------------------
(***************************************************************************)
(* Lemmas about the sum of ChargeSum: it is a natural number, changing one *)
(* entry changes it by the difference, and no entry exceeds it.            *)
(***************************************************************************)
EXTENDS ChargeSum, Integers, FiniteSetTheorems, TLAPS

\* The units of one entry: as many as the entry's value.
LEMMA UnitsOfEntry ==
  ASSUME NEW s, NEW n \in Nat
  PROVE  /\ IsFiniteSet({s} \X (1 .. n))
         /\ Cardinality({s} \X (1 .. n)) = n
<1>1. IsFiniteSet({s}) /\ Cardinality({s}) = 1
  BY FS_Singleton
<1>2. IsFiniteSet(1 .. n) /\ Cardinality(1 .. n) = n
  BY FS_Interval
<1>3. /\ IsFiniteSet({s} \X (1 .. n))
      /\ Cardinality({s} \X (1 .. n)) = Cardinality({s}) * Cardinality(1 .. n)
  BY <1>1, <1>2, FS_Product, Zenon
<1>4. 1 * n = n
  OBVIOUS
<1>. QED
  BY <1>1, <1>2, <1>3, <1>4, Zenon

\* The sum of a finite family is a natural number.
LEMMA TotalType ==
  ASSUME NEW S, IsFiniteSet(S), NEW f \in [S -> Nat]
  PROVE  IsFiniteSet(Units(f)) /\ Total(f) \in Nat
<1>. DEFINE part == [s \in S |-> {s} \X (1 .. f[s])]
            Parts == { {s} \X (1 .. f[s]) : s \in S }
<1>1. IsFiniteSet(Parts)
  <2>1. part \in Surjection(S, Parts)
    BY DEF Surjection
  <2>. HIDE DEF part, Parts
  <2>. QED
    BY <2>1, FS_Surjection, Zenon
<1>2. \A P \in Parts : IsFiniteSet(P)
  <2>. SUFFICES ASSUME NEW s \in S
                PROVE  IsFiniteSet({s} \X (1 .. f[s]))
    OBVIOUS
  <2>. QED
    BY f[s] \in Nat, UnitsOfEntry
<1>3. Units(f) = UNION Parts
  BY DEF Units
<1>4. IsFiniteSet(Units(f))
  BY <1>1, <1>2, <1>3, FS_UNION, Zenon
<1>. QED
  BY <1>4, FS_CardinalityType DEF Total

\* Changing one entry changes the sum by the difference.
LEMMA TotalUpdate ==
  ASSUME NEW S, IsFiniteSet(S), NEW f \in [S -> Nat], NEW s \in S, NEW n \in Nat
  PROVE  Total([f EXCEPT ![s] = n]) = Total(f) - f[s] + n
<1>. DEFINE g == [f EXCEPT ![s] = n]
            Old == {s} \X (1 .. f[s])
            New == {s} \X (1 .. n)
            Rest == Units(f) \ Old
<1>1. g \in [S -> Nat] /\ f[s] \in Nat
  OBVIOUS
<1>2. /\ IsFiniteSet(Units(f)) /\ Cardinality(Units(f)) \in Nat
      /\ IsFiniteSet(Units(g)) /\ Cardinality(Units(g)) \in Nat
  BY <1>1, TotalType DEF Total
<1>3. /\ IsFiniteSet(Old) /\ Cardinality(Old) = f[s]
      /\ IsFiniteSet(New) /\ Cardinality(New) = n
  BY <1>1, UnitsOfEntry
<1>4. Old \subseteq Units(f)
  BY DEF Units
<1>5. Units(g) = Rest \cup New
  BY DEF Units
<1>6. Rest \cap New = {}
  BY DEF Units
<1>7. /\ IsFiniteSet(Rest)
      /\ Cardinality(Rest) = Cardinality(Units(f)) - Cardinality(Old)
  <2>1. Units(f) \cap Old = Old
    BY <1>4
  <2>2. Rest = Units(f) \ Old
    OBVIOUS
  <2>. HIDE DEF Rest, Old
  <2>. QED
    BY <1>2, <2>1, <2>2, FS_Difference, ZenonT(30)
<1>8. Cardinality(Units(g)) = Cardinality(Rest) + Cardinality(New) - Cardinality({})
  <2>. HIDE DEF Rest, New, Old, g
  <2>1. Cardinality(Rest \cup New)
          = Cardinality(Rest) + Cardinality(New) - Cardinality(Rest \cap New)
    BY <1>3, <1>7, FS_Union, Zenon
  <2>. QED
    BY <1>5, <1>6, <2>1, Zenon
<1>. QED
  BY <1>2, <1>3, <1>7, <1>8, FS_EmptySet DEF Total

\* No entry exceeds the sum.
LEMMA EntryWithinTotal ==
  ASSUME NEW S, IsFiniteSet(S), NEW f \in [S -> Nat], NEW s \in S
  PROVE  f[s] <= Total(f)
<1>1. IsFiniteSet(Units(f)) /\ Total(f) \in Nat
  BY TotalType
<1>2. {s} \X (1 .. f[s]) \in SUBSET Units(f)
  BY DEF Units
<1>3. Cardinality({s} \X (1 .. f[s])) = f[s]
  BY f[s] \in Nat, UnitsOfEntry
<1>. QED
  BY <1>1, <1>2, <1>3, FS_Subset DEF Total

\* The sum of zeros is zero.
LEMMA TotalZero ==
  ASSUME NEW S
  PROVE  Total([s \in S |-> 0]) = 0
<1>1. Units([s \in S |-> 0]) = {}
  BY DEF Units
<1>. QED
  BY <1>1, FS_EmptySet DEF Total
=============================================================================
