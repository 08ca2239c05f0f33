---------------------------- MODULE TallyProofs -----------------------------
(***************************************************************************)
(* What the sum of per-slot counters does when one slot moves, when a slot *)
(* is added to the sum, and how large it can be: the facts the proofs      *)
(* about Metrics and Pipeline rest on.                                     *)
(***************************************************************************)
EXTENDS Tally, FiniteSetTheorems, TLAPS

\* The units are the pairs of a slot and a number up to its count.
LEMMA UnitsDef ==
    ASSUME NEW S, NEW f, NEW c, NEW n
    PROVE  <<c, n>> \in Units(f, S) <=> c \in S /\ n \in 1..f[c]
BY DEF Units

\* Units are pairs.
LEMMA UnitsArePairs ==
    ASSUME NEW S, NEW f, NEW u \in Units(f, S)
    PROVE  \E c \in S : \E n \in 1..f[c] : u = <<c, n>>
BY DEF Units

\* Finitely many slots hold finitely many units, so their sum is a number.
LEMMA SumFinite ==
    ASSUME NEW S, IsFiniteSet(S), NEW f, \A c \in S : f[c] \in Nat
    PROVE  IsFiniteSet(Units(f, S)) /\ SumOver(f, S) \in Nat
<1> DEFINE B == {{c} \X (1..f[c]) : c \in S}
           g == [c \in S |-> {c} \X (1..f[c])]
<1>1. g \in Surjection(S, B)
  BY DEF Surjection
<1>2. IsFiniteSet(B)
  BY <1>1, FS_Surjection, Zenon
<1>3. ASSUME NEW c \in S PROVE IsFiniteSet({c} \X (1..f[c]))
  <2>1. IsFiniteSet(1..f[c])
    BY FS_Interval
  <2> QED
    BY <2>1, FS_Singleton, FS_Product
<1>4. IsFiniteSet(UNION B)
  BY <1>2, <1>3, FS_UNION
<1> QED
  BY <1>4, FS_CardinalityType DEF Units, SumOver

\* Counting one more in a slot adds one to the sum.
LEMMA SumIncrement ==
    ASSUME NEW S, IsFiniteSet(S), NEW f, NEW g, NEW c \in S,
           \A d \in S : f[d] \in Nat,
           \A d \in S : g[d] = IF d = c THEN f[d] + 1 ELSE f[d]
    PROVE  SumOver(g, S) = SumOver(f, S) + 1
<1> DEFINE e == <<c, f[c] + 1>>
<1>1. IsFiniteSet(Units(f, S)) /\ SumOver(f, S) \in Nat
  BY SumFinite
<1>2. e \notin Units(f, S)
  BY UnitsDef
<1>3. Units(g, S) = Units(f, S) \cup {e}
  <2>1. ASSUME NEW d \in S, NEW n
        PROVE  n \in 1..g[d] <=> n \in 1..f[d] \/ (d = c /\ n = f[c] + 1)
    OBVIOUS
  <2>2. ASSUME NEW u \in Units(g, S) PROVE u \in Units(f, S) \cup {e}
    <3>1. PICK d \in S : \E n \in 1..g[d] : u = <<d, n>>
      BY UnitsArePairs
    <3>2. PICK n \in 1..g[d] : u = <<d, n>>
      BY <3>1
    <3> QED
      BY <2>1, <3>2, UnitsDef
  <2>3. ASSUME NEW u \in Units(f, S) PROVE u \in Units(g, S)
    <3>1. PICK d \in S : \E n \in 1..f[d] : u = <<d, n>>
      BY UnitsArePairs
    <3>2. PICK n \in 1..f[d] : u = <<d, n>>
      BY <3>1
    <3> QED
      BY <2>1, <3>2, UnitsDef
  <2>4. e \in Units(g, S)
    BY <2>1, UnitsDef
  <2> QED
    BY <2>2, <2>3, <2>4, Zenon
<1> HIDE DEF e
<1> QED
  BY <1>1, <1>2, <1>3, FS_AddElement DEF SumOver

\* The units of one slot.
LEMMA UnitsOfSlot ==
    ASSUME NEW c, NEW n \in Nat
    PROVE  IsFiniteSet({c} \X (1..n)) /\ Cardinality({c} \X (1..n)) = n
<1>1. IsFiniteSet(1..n) /\ Cardinality(1..n) = n
  BY FS_Interval
<1>2. IsFiniteSet({c}) /\ Cardinality({c}) = 1
  BY FS_Singleton
<1>3. /\ IsFiniteSet({c} \X (1..n))
      /\ Cardinality({c} \X (1..n)) = Cardinality({c}) * Cardinality(1..n)
  BY <1>1, <1>2, FS_Product
<1> QED
  BY <1>1, <1>2, <1>3

\* A slot that joins the sum adds its count.
LEMMA SumAddSlot ==
    ASSUME NEW S, IsFiniteSet(S), NEW f, NEW c, c \notin S,
           \A d \in S \cup {c} : f[d] \in Nat
    PROVE  SumOver(f, S \cup {c}) = SumOver(f, S) + f[c]
<1> DEFINE C == {c} \X (1..f[c])
<1>1. IsFiniteSet(Units(f, S)) /\ SumOver(f, S) \in Nat
  BY SumFinite
<1>2. IsFiniteSet(C) /\ Cardinality(C) = f[c] /\ f[c] \in Nat
  BY UnitsOfSlot
<1>3. Units(f, S \cup {c}) = Units(f, S) \cup C
  BY DEF Units
<1>4. Units(f, S) \cap C = {}
  BY DEF Units
<1> HIDE DEF C
<1>5. Cardinality({}) = 0
  BY FS_EmptySet
<1>6. Cardinality(Units(f, S) \cup C)
        = Cardinality(Units(f, S)) + Cardinality(C) - Cardinality(Units(f, S) \cap C)
  BY <1>1, <1>2, FS_Union, Zenon
<1>7. Cardinality(Units(f, S) \cup C) = SumOver(f, S) + f[c]
  <2> DEFINE x == Cardinality(Units(f, S))
             y == Cardinality(C)
             z == Cardinality(Units(f, S) \cap C)
  <2>1. x \in Nat /\ y \in Nat /\ y = f[c] /\ x = SumOver(f, S)
    BY <1>1, <1>2 DEF SumOver
  <2>2. z = 0
    BY <1>4, <1>5
  <2>3. Cardinality(Units(f, S) \cup C) = x + y - z
    BY <1>6
  <2> HIDE DEF x, y, z
  <2>4. x + y - z = x + y
    BY <2>1, <2>2
  <2> QED
    BY <2>1, <2>3, <2>4
<1> QED
  BY <1>3, <1>7 DEF SumOver

\* A sum over fewer slots is not larger.
LEMMA SumOfFewer ==
    ASSUME NEW S, IsFiniteSet(S), NEW T \in SUBSET S,
           NEW f, \A c \in S : f[c] \in Nat
    PROVE  /\ IsFiniteSet(T) /\ SumOver(f, T) \in Nat
           /\ SumOver(f, T) <= SumOver(f, S)
<1>1. IsFiniteSet(Units(f, S)) /\ IsFiniteSet(T)
  BY SumFinite, FS_Subset
<1>2. SumOver(f, T) \in Nat
  BY <1>1, SumFinite
<1>3. Units(f, T) \in SUBSET Units(f, S)
  BY DEF Units
<1> QED
  BY <1>1, <1>2, <1>3, FS_Subset DEF SumOver

\* No slot holds more than the sum.
LEMMA SlotAtMostSum ==
    ASSUME NEW S, IsFiniteSet(S), NEW f, \A d \in S : f[d] \in Nat, NEW c \in S
    PROVE  f[c] <= SumOver(f, S)
<1> DEFINE T == S \ {c}
<1>1. IsFiniteSet(T) /\ SumOver(f, T) \in Nat
  BY SumOfFewer
<1>2. c \notin T /\ T \cup {c} = S /\ f[c] \in Nat
  OBVIOUS
<1> HIDE DEF T
<1>3. SumOver(f, S) = SumOver(f, T) + f[c]
  BY <1>1, <1>2, SumAddSlot
<1> QED
  BY <1>1, <1>2, <1>3

\* Slots bounded by n sum up to at most n times their number.
LEMMA SumBound ==
    ASSUME NEW S, IsFiniteSet(S), NEW n \in Nat, NEW f, \A c \in S : f[c] \in 0..n
    PROVE  SumOver(f, S) <= Cardinality(S) * n
<1>1. IsFiniteSet(1..n) /\ Cardinality(1..n) = n
  BY FS_Interval
<1>2. /\ IsFiniteSet(S \X (1..n))
      /\ Cardinality(S \X (1..n)) = Cardinality(S) * Cardinality(1..n)
  BY <1>1, FS_Product
<1>3. Units(f, S) \in SUBSET (S \X (1..n))
  BY DEF Units
<1>4. Cardinality(Units(f, S)) <= Cardinality(S \X (1..n))
  BY <1>2, <1>3, FS_Subset
<1> QED
  BY <1>1, <1>2, <1>4 DEF SumOver

\* Slots that only count up do not lower the sum.
LEMMA SumMonotone ==
    ASSUME NEW S, IsFiniteSet(S), NEW f, NEW g,
           \A c \in S : f[c] \in Nat /\ g[c] \in Nat /\ f[c] <= g[c]
    PROVE  SumOver(f, S) <= SumOver(g, S)
<1>1. IsFiniteSet(Units(g, S))
  BY SumFinite
<1>2. Units(f, S) \in SUBSET Units(g, S)
  <2>1. ASSUME NEW u \in Units(f, S) PROVE u \in Units(g, S)
    <3>1. PICK c \in S : \E n \in 1..f[c] : u = <<c, n>>
      BY UnitsArePairs
    <3>2. PICK n \in 1..f[c] : u = <<c, n>>
      BY <3>1
    <3>3. n \in 1..g[c]
      BY <3>2
    <3> QED
      BY <3>2, <3>3, UnitsDef
  <2> QED
    BY <2>1
<1> QED
  BY <1>1, <1>2, FS_Subset DEF SumOver

\* Slots that have counted nothing, and no slots at all, sum up to zero.
LEMMA SumOfZeros ==
    ASSUME NEW S, NEW f, \A c \in S : f[c] = 0
    PROVE  SumOver(f, S) = 0
<1>1. Units(f, S) = {}
  BY DEF Units
<1> QED
  BY <1>1, FS_EmptySet DEF SumOver
=============================================================================
