--------------------------- MODULE SequenceLemmas ---------------------------
(***************************************************************************)
(* What the other proofs need to know of numbers, sets of positions and    *)
(* sequences: induction in a form that is told by a set, the greatest of   *)
(* some numbers, what is picked from a sequence, the value that was set    *)
(* last, and the parts that a flattened sequence is made of.               *)
(***************************************************************************)
EXTENDS Picking, Integers, SequencesExt, FiniteSetTheorems, SequenceTheorems,
        WellFoundedInduction, TLAPS

(* Induction over the natural numbers.  The library states it for an operator, which the
   provers cannot instantiate; a set of numbers they can.  It holds since among the intervals
   that end outside the set there would be a smallest one. *)
LEMMA Induction ==
   ASSUME NEW G, 0 \in G, \A n \in Nat : n \in G => n + 1 \in G
   PROVE  \A n \in Nat : n \in G
<1> SUFFICES ASSUME NEW n \in Nat, n \notin G PROVE FALSE
  OBVIOUS
<1> DEFINE Family == {1 .. k : k \in {j \in 0 .. n : j \notin G}}
           R == StrictSubsetOrdering(1 .. n)
<1>1. IsFiniteSet(1 .. n)
  BY FS_Interval
<1>2. IsWellFoundedOn(R, SUBSET (1 .. n))
  BY <1>1, FS_FiniteSubsetsOfFinite, FS_StrictSubsetOrderingWellFounded
<1>3. Family \subseteq SUBSET (1 .. n) /\ Family # {}
  OBVIOUS
<1> HIDE DEF R
<1>4. \E x \in Family : \A y \in Family : <<y, x>> \notin R
  <2> HIDE DEF Family
  <2> QED BY <1>2, <1>3, WFMin
<1>5. PICK k \in 0 .. n : k \notin G /\ \A y \in Family : <<y, 1 .. k>> \notin R
  BY <1>4
<1>6. k # 0 /\ k - 1 \in 0 .. n /\ k - 1 \notin G
  BY <1>5
<1>7. (1 .. k - 1) \in Family
  BY <1>6
<1>8. (1 .. k - 1) \subseteq (1 .. k) /\ (1 .. k) \subseteq (1 .. n)
  BY <1>6
<1>9. (1 .. k - 1) # (1 .. k)
  <2>1. k \in 1 .. k /\ k \notin 1 .. k - 1
    BY <1>6
  <2> QED BY <2>1
<1>10. <<1 .. k - 1, 1 .. k>> \in R
  BY <1>8, <1>9 DEF R, StrictSubsetOrdering
<1> QED BY <1>5, <1>7, <1>10

(* Some numbers not above n have a greatest. *)
LEMMA MaxOfNumbers ==
    ASSUME NEW n \in Nat, NEW s \in SUBSET (1 .. n), s # {}
    PROVE  Max(s) \in s /\ \A y \in s : y <= Max(s)
<1> DEFINE HasMax(k) == \A u \in SUBSET (1 .. k) : u # {} => \E x \in u : \A y \in u : x >= y
           G == {k \in Nat : HasMax(k)}
<1>1. 0 \in G
  <2>1. 1 .. 0 = {}
    OBVIOUS
  <2> QED BY <2>1
<1>2. ASSUME NEW k \in Nat, k \in G
      PROVE  k + 1 \in G
  <2> SUFFICES ASSUME NEW u \in SUBSET (1 .. k + 1), u # {}
               PROVE  \E x \in u : \A y \in u : x >= y
    OBVIOUS
  <2>1. CASE k + 1 \in u
    BY <2>1
  <2>2. CASE k + 1 \notin u
    <3>1. u \in SUBSET (1 .. k)
      BY <2>2
    <3> QED BY <3>1, <1>2
  <2> QED BY <2>1, <2>2
<1> HIDE DEF G
<1>3. n \in G
  BY <1>1, <1>2, Induction
<1>4. \E x \in s : \A y \in s : x >= y
  BY <1>3 DEF G
<1> QED BY <1>4 DEF Max

LEMMA LeastOfNumbers ==
    ASSUME NEW s \in SUBSET Nat, s # {}
    PROVE  Min(s) \in s /\ \A y \in s : Min(s) <= y
<1> SUFFICES ASSUME \A x \in s : \E y \in s : ~(x <= y)
             PROVE  FALSE
  BY DEF Min
<1> DEFINE G == {k \in Nat : \A j \in 0 .. k : j \notin s}
<1>1. 0 \in G
  OBVIOUS
<1>2. ASSUME NEW k \in Nat, k \in G
      PROVE  k + 1 \in G
  <2>1. k + 1 \notin s
    <3> SUFFICES ASSUME k + 1 \in s
                 PROVE  FALSE
      OBVIOUS
    <3>1. PICK y \in s : ~(k + 1 <= y)
      OBVIOUS
    <3>2. y \in 0 .. k
      BY <3>1
    <3> QED BY <1>2, <3>2
  <2>2. \A j \in 0 .. k + 1 : j \in 0 .. k \/ j = k + 1
    OBVIOUS
  <2> QED BY <1>2, <2>1, <2>2
<1> HIDE DEF G
<1>3. \A k \in Nat : k \in G
  BY <1>1, <1>2, Induction
<1>4. \A k \in Nat : k \notin s
  BY <1>3 DEF G
<1> QED BY <1>4

-----------------------------------------------------------------------------
(* Picked.  Position numbers the members of I without gaps, in their order. *)

LEMMA PositionsGrow ==
    ASSUME NEW n \in Nat, NEW I \in SUBSET (1..n)
    PROVE  /\ IsFiniteSet(I) /\ Cardinality(I) \in Nat
           /\ \A i \in I : Position(I, i) \in 0..(Cardinality(I) - 1)
           /\ \A i, j \in I : i < j => Position(I, i) < Position(I, j)
<1> DEFINE B(i) == {j \in I : j < i}
<1>1. IsFiniteSet(I) /\ Cardinality(I) \in Nat
  <2>1. IsFiniteSet(1..n)
    BY FS_Interval
  <2> QED BY <2>1, FS_Subset, FS_CardinalityType
<1>2. \A i : IsFiniteSet(B(i)) /\ Cardinality(B(i)) \in Nat
  BY <1>1, FS_Subset, FS_CardinalityType
<1>3. ASSUME NEW i \in I PROVE Cardinality(B(i)) \in 0..(Cardinality(I) - 1)
  <2>1. B(i) # I /\ B(i) \in SUBSET I
    OBVIOUS
  <2>2. Cardinality(B(i)) <= Cardinality(I) /\ Cardinality(B(i)) # Cardinality(I)
    BY <1>1, <2>1, FS_Subset
  <2> HIDE DEF B
  <2> QED BY <1>1, <1>2, <2>2
<1>4. ASSUME NEW i \in I, NEW j \in I, i < j PROVE Cardinality(B(i)) < Cardinality(B(j))
  <2>1. i \in B(j) /\ i \notin B(i) /\ \A x \in B(i) : x \in B(j)
    BY <1>4
  <2>2. Cardinality(B(i)) <= Cardinality(B(j)) /\ Cardinality(B(i)) # Cardinality(B(j))
    BY <1>2, <2>1, FS_Subset
  <2> HIDE DEF B
  <2> QED BY <1>2, <2>2
<1> QED BY <1>1, <1>3, <1>4 DEF Position

LEMMA PositionsFill ==
    ASSUME NEW n \in Nat, NEW I \in SUBSET (1..n), NEW k \in 1..Cardinality(I)
    PROVE  \E i \in I : Position(I, i) = k - 1
<1> DEFINE c == Cardinality(I)
           f == [i \in I |-> Position(I, i)]
           T == 0..(c - 1)
<1>1. IsFiniteSet(I) /\ c \in Nat
  BY PositionsGrow
<1>2. IsFiniteSet(T) /\ Cardinality(T) = c
  <2> HIDE DEF c
  <2> QED BY <1>1, FS_Interval
<1>3. f \in Injection(I, T)
  <2>1. f \in [I -> T]
    BY PositionsGrow
  <2>2. \A i, j \in I : i < j => f[i] < f[j]
    BY PositionsGrow
  <2>3. \A i \in I : f[i] \in Int /\ i \in Int
    BY <2>1, <1>1
  <2> HIDE DEF f, T
  <2>4. \A i, j \in I : f[i] = f[j] => i = j
    BY <2>2, <2>3
  <2> QED BY <2>1, <2>4 DEF Injection, IsInjective
<1>4. f \in Surjection(I, T)
  BY <1>1, <1>2, <1>3, FS_Injection
<1>5. k - 1 \in T
  BY <1>1
<1> HIDE DEF T
<1> QED BY <1>4, <1>5 DEF Surjection

(* What is picked are the members at the positions given, once each: it has a strictly
   increasing map to the positions it comes from, and reaches them all. *)
LEMMA PickedInOrder ==
    ASSUME NEW S, NEW s \in Seq(S), NEW I \in SUBSET DOMAIN s
    PROVE  /\ Picked(s, I) \in Seq(S) /\ Len(Picked(s, I)) = Cardinality(I)
           /\ DOMAIN Picked(s, I) = 1..Cardinality(I)
           /\ \E at \in [1..Cardinality(I) -> I] :
                 /\ \A k \in 1..Cardinality(I) : Picked(s, I)[k] = s[at[k]]
                 /\ \A k, l \in 1..Cardinality(I) : k < l => at[k] < at[l]
                 /\ \A i \in I : \E k \in 1..Cardinality(I) : at[k] = i
<1>1. DOMAIN s = 1..Len(s) /\ Len(s) \in Nat /\ \A i \in DOMAIN s : s[i] \in S
  OBVIOUS
<1> DEFINE c == Cardinality(I)
           at == [k \in 1..c |-> CHOOSE i \in I : Position(I, i) = k - 1]
<1>2. /\ c \in Nat
      /\ \A i \in I : Position(I, i) \in 0..(c - 1)
      /\ \A i, j \in I : i < j => Position(I, i) < Position(I, j)
  BY <1>1, PositionsGrow
<1>3. \A k \in 1..c : at[k] \in I /\ Position(I, at[k]) = k - 1
  BY <1>1, PositionsFill
<1>4. Picked(s, I) = [k \in 1..c |-> s[at[k]]]
  BY DEF Picked
<1> HIDE DEF at, c
<1>5. \A k, l \in 1..c : k < l => at[k] < at[l]
  <2> SUFFICES ASSUME NEW k \in 1..c, NEW l \in 1..c, k < l PROVE at[k] < at[l]
    OBVIOUS
  <2>1. at[k] \in Int /\ at[l] \in Int /\ ~(at[l] < at[k]) /\ at[k] # at[l]
    BY <1>1, <1>2, <1>3
  <2> QED BY <2>1
<1>6. \A i \in I : \E k \in 1..c : at[k] = i
  <2> SUFFICES ASSUME NEW i \in I PROVE \E k \in 1..c : at[k] = i
    OBVIOUS
  <2> DEFINE k == Position(I, i) + 1
  <2>1. k \in 1..c /\ Position(I, at[k]) = Position(I, i)
    BY <1>2, <1>3
  <2>2. at[k] \in I /\ at[k] \in Int /\ i \in Int
    BY <1>1, <1>3, <2>1
  <2>3. at[k] = i
    BY <1>2, <2>1, <2>2
  <2> QED BY <2>1, <2>3
<1>7. at \in [1..c -> I]
  BY <1>3 DEF at
<1>8. /\ Picked(s, I) \in Seq(S) /\ Len(Picked(s, I)) = c /\ DOMAIN Picked(s, I) = 1..c
      /\ \A k \in 1..c : Picked(s, I)[k] = s[at[k]]
  BY <1>1, <1>2, <1>4, <1>7
<1> QED BY <1>5, <1>6, <1>7, <1>8 DEF c

(* From two sequences the same positions pick members that stand side by side. *)
LEMMA PickedAlike ==
    ASSUME NEW n \in Nat, NEW I \in SUBSET (1..n), NEW s, NEW t
    PROVE  \A k \in 1..Cardinality(I) : \E i \in I : Picked(s, I)[k] = s[i] /\ Picked(t, I)[k] = t[i]
<1> SUFFICES ASSUME NEW k \in 1..Cardinality(I)
             PROVE  \E i \in I : Picked(s, I)[k] = s[i] /\ Picked(t, I)[k] = t[i]
  OBVIOUS
<1> DEFINE at == CHOOSE i \in I : Position(I, i) = k - 1
<1>1. at \in I
  BY PositionsFill
<1>2. Picked(s, I)[k] = s[at] /\ Picked(t, I)[k] = t[at]
  BY DEF Picked
<1> HIDE DEF at
<1> QED BY <1>1, <1>2

-----------------------------------------------------------------------------
(* Flattening a sequence of sequences appends one after the other. *)
LEMMA FlattenByParts ==
    ASSUME NEW n \in Nat, NEW parts, parts = [i \in 1 .. n + 1 |-> parts[i]],
           Len(parts) = n + 1
    PROVE  \E m : /\ m[1] = parts[1]
                  /\ \A k \in 2 .. n + 1 : m[k] = m[k - 1] \o parts[k]
                  /\ FlattenSeq(parts) = m[n + 1]
<1> DEFINE Body(f, i) == IF i = 1 THEN parts[i] ELSE f[i - 1] \o parts[i]
           Is(f, k) == f = [i \in 1 .. k |-> Body(f, i)]
           m == CHOOSE f : Is(f, Len(parts))
           G == {k \in Nat : \E f : Is(f, k)}
<1>1. FlattenSeq(parts) = m[Len(parts)]
  <2>1. Len(parts) # 0
    OBVIOUS
  <2> QED BY <2>1 DEF FlattenSeq
<1>2. 0 \in G
  <2>1. 1 .. 0 = {}
    OBVIOUS
  <2>2. Is([i \in 1 .. 0 |-> parts], 0)
    BY <2>1
  <2> QED BY <2>2
<1>3. ASSUME NEW k \in Nat, k \in G
      PROVE  k + 1 \in G
  <2>1. PICK f : Is(f, k)
    BY <1>3
  <2> DEFINE g == [i \in 1 .. k + 1 |-> IF i = k + 1 THEN Body(f, i) ELSE f[i]]
  <2>2. ASSUME NEW i \in 1 .. k + 1
        PROVE  g[i] = Body(g, i)
    <3>1. CASE i = 1
      <4>1. CASE k = 0
        BY <3>1, <4>1
      <4>2. CASE k # 0
        <5>1. i \in 1 .. k /\ i # k + 1
          BY <3>1, <4>2
        <5>2. f[i] = Body(f, i)
          BY <5>1, <2>1
        <5> QED BY <3>1, <5>1, <5>2
      <4> QED BY <4>1, <4>2
    <3>2. CASE i # 1
      <4>1. i - 1 \in 1 .. k + 1 /\ i - 1 # k + 1
        BY <3>2
      <4>2. g[i - 1] = f[i - 1]
        BY <4>1
      <4>3. CASE i = k + 1
        BY <3>2, <4>2, <4>3
      <4>4. CASE i # k + 1
        <5>1. i \in 1 .. k
          BY <4>4
        <5>2. f[i] = Body(f, i)
          BY <5>1, <2>1
        <5>3. g[i] = f[i]
          BY <4>4
        <5> QED BY <3>2, <4>2, <5>2, <5>3
      <4> QED BY <4>3, <4>4
    <3> QED BY <3>1, <3>2
  <2>3. g = [i \in 1 .. k + 1 |-> g[i]]
    OBVIOUS
  <2>4. Is(g, k + 1)
    <3> HIDE DEF Body, g
    <3> QED BY <2>2, <2>3
  <2> HIDE DEF Is, g
  <2>5. k + 1 \in Nat
    OBVIOUS
  <2> QED BY <2>4, <2>5
<1>4. Is(m, n + 1)
  <2> HIDE DEF G
  <2>1. n + 1 \in G
    BY <1>2, <1>3, Induction
  <2> HIDE DEF Is
  <2>2. Is(m, Len(parts))
    BY <2>1 DEF G
  <2> QED BY <2>2
<1>5. \A i \in 1 .. n + 1 : m[i] = Body(m, i)
  <2> HIDE DEF m, Body
  <2> QED BY <1>4
<1> HIDE DEF m
<1>6. m[1] = parts[1]
  <2>1. 1 \in 1 .. n + 1
    OBVIOUS
  <2> QED BY <1>5, <2>1
<1>7. \A k \in 2 .. n + 1 : m[k] = m[k - 1] \o parts[k]
  <2> SUFFICES ASSUME NEW k \in 2 .. n + 1
               PROVE  m[k] = m[k - 1] \o parts[k]
    OBVIOUS
  <2>1. k \in 1 .. n + 1 /\ k # 1
    OBVIOUS
  <2> QED BY <2>1, <1>5
<1> QED BY <1>1, <1>6, <1>7

(* Flattening sequences of members of S gives one. *)
LEMMA FlattenTyped ==
    ASSUME NEW S, NEW parts \in Seq(Seq(S))
    PROVE  FlattenSeq(parts) \in Seq(S)
<1>1. CASE Len(parts) = 0
  <2>1. FlattenSeq(parts) = <<>>
    BY <1>1 DEF FlattenSeq
  <2> QED BY <2>1
<1>2. CASE Len(parts) # 0
  <2> DEFINE n == Len(parts) - 1
  <2>1. n \in Nat /\ Len(parts) = n + 1 /\ parts = [i \in 1 .. n + 1 |-> parts[i]]
    BY <1>2
  <2>2. \A i \in 1 .. n + 1 : parts[i] \in Seq(S)
    BY <2>1
  <2> HIDE DEF n
  <2>3. PICK m : /\ m[1] = parts[1]
                 /\ \A k \in 2 .. n + 1 : m[k] = m[k - 1] \o parts[k]
                 /\ FlattenSeq(parts) = m[n + 1]
    BY <2>1, FlattenByParts
  <2> DEFINE G == {k \in Nat : k <= n => m[k + 1] \in Seq(S)}
  <2>4. 0 \in G
    <3>1. 1 \in 1 .. n + 1
      BY <2>1
    <3> QED BY <3>1, <2>2, <2>3
  <2>5. ASSUME NEW k \in Nat, k \in G
        PROVE  k + 1 \in G
    <3> SUFFICES ASSUME k + 1 <= n
                 PROVE  m[(k + 1) + 1] \in Seq(S)
      OBVIOUS
    <3>1. k + 2 \in 2 .. n + 1 /\ k + 2 \in 1 .. n + 1 /\ (k + 2) - 1 = k + 1 /\ k <= n
      BY <2>1
    <3>2. m[k + 1] \in Seq(S) /\ parts[k + 2] \in Seq(S)
      BY <2>5, <3>1, <2>2
    <3>3. m[k + 2] = m[k + 1] \o parts[k + 2]
      BY <2>3, <3>1
    <3>4. (k + 1) + 1 = k + 2
      OBVIOUS
    <3>5. m[k + 2] \in Seq(S)
      BY <3>2, <3>3
    <3> QED BY <3>4, <3>5
  <2> HIDE DEF G
  <2>6. n \in G
    BY <2>1, <2>4, <2>5, Induction
  <2> QED BY <2>1, <2>3, <2>6 DEF G
<1> QED BY <1>1, <1>2

-----------------------------------------------------------------------------
(* What was said last: of the positions at that say something, w tells what each says. *)
LastAt(at, w, none) == IF at = {} THEN none ELSE w[Max(at)]

(* If every saying replaces the one before, what holds in the end was said last. *)
LEMMA LastSaid ==
    ASSUME NEW n \in Nat \ {0}, NEW at \in SUBSET (1 .. n), NEW v, NEW w, NEW none,
           v[1] = IF 1 \in at THEN w[1] ELSE none,
           \A k \in 2 .. n : v[k] = IF k \in at THEN w[k] ELSE v[k - 1]
    PROVE  v[n] = LastAt(at, w, none)
<1> DEFINE Upto(k) == at \cap (1 .. k)
           Right(k) == v[k] = IF Upto(k) = {} THEN none ELSE w[Max(Upto(k))]
           G == {k \in Nat : k + 1 <= n => Right(k + 1)}
<1>1. \A k \in 1 .. n : k \in at => Max(Upto(k)) = k /\ Upto(k) # {}
  <2> SUFFICES ASSUME NEW k \in 1 .. n, k \in at
               PROVE  Max(Upto(k)) = k /\ Upto(k) # {}
    OBVIOUS
  <2>1. Upto(k) \in SUBSET (1 .. k) /\ k \in Upto(k)
    OBVIOUS
  <2>2. Max(Upto(k)) \in Upto(k) /\ \A y \in Upto(k) : y <= Max(Upto(k))
    BY <2>1, MaxOfNumbers
  <2>3. Max(Upto(k)) \in 1 .. k
    BY <2>1, <2>2
  <2> QED BY <2>1, <2>2, <2>3
<1>2. \A k \in 2 .. n : k \notin at => Upto(k) = Upto(k - 1)
  OBVIOUS
<1>3. 0 \in G
  <2>1. 1 \notin at => Upto(1) = {}
    OBVIOUS
  <2>2. 1 \in 1 .. n
    OBVIOUS
  <2> HIDE DEF Upto
  <2> QED BY <2>1, <2>2, <1>1
<1>4. ASSUME NEW k \in Nat, k \in G
      PROVE  k + 1 \in G
  <2> SUFFICES ASSUME k + 2 <= n
               PROVE  Right(k + 2)
    OBVIOUS
  <2>1. k + 2 \in 2 .. n /\ k + 2 \in 1 .. n /\ (k + 2) - 1 = k + 1 /\ k + 1 <= n
    OBVIOUS
  <2>2. v[k + 2] = IF k + 2 \in at THEN w[k + 2] ELSE v[k + 1]
    BY <2>1
  <2>3. Right(k + 1)
    BY <1>4, <2>1
  <2> HIDE DEF Upto
  <2>4. CASE k + 2 \in at
    BY <2>1, <2>2, <2>4, <1>1
  <2>5. CASE k + 2 \notin at
    BY <2>1, <2>2, <2>3, <2>5, <1>2
  <2> QED BY <2>4, <2>5
<1>5. Right(n)
  <2> HIDE DEF Right, G
  <2>1. n - 1 \in Nat /\ (n - 1) + 1 = n
    OBVIOUS
  <2>2. n - 1 \in G
    BY <1>3, <1>4, <2>1, Induction
  <2> QED BY <2>1, <2>2 DEF G
<1>6. Upto(n) = at
  OBVIOUS
<1> HIDE DEF Upto
<1> QED BY <1>5, <1>6 DEF LastAt

(* If every set adds to the ones before, the last is the union of all. *)
LEMMA UnionOfParts ==
    ASSUME NEW n \in Nat \ {0}, NEW v, NEW w,
           v[1] = w[1], \A k \in 2 .. n : v[k] = v[k - 1] \cup w[k]
    PROVE  v[n] = UNION {w[i] : i \in 1 .. n}
<1> DEFINE All(k) == UNION {w[i] : i \in 1 .. k}
           G == {k \in Nat : k + 1 <= n => v[k + 1] = All(k + 1)}
<1>1. 0 \in G
  <2>1. \A i \in 1 .. 1 : i = 1
    OBVIOUS
  <2> QED BY <2>1
<1>2. ASSUME NEW k \in Nat, k \in G
      PROVE  k + 1 \in G
  <2> SUFFICES ASSUME k + 2 <= n
               PROVE  v[k + 2] = All(k + 2)
    OBVIOUS
  <2>1. k + 2 \in 2 .. n /\ (k + 2) - 1 = k + 1 /\ k + 1 <= n
    OBVIOUS
  <2>2. v[k + 2] = All(k + 1) \cup w[k + 2]
    BY <1>2, <2>1
  <2>3. \A i : i \in 1 .. k + 2 <=> i \in 1 .. k + 1 \/ i = k + 2
    OBVIOUS
  <2>4. All(k + 2) = All(k + 1) \cup w[k + 2]
    BY <2>3
  <2> QED BY <2>2, <2>4
<1> HIDE DEF G, All
<1>3. n - 1 \in Nat /\ (n - 1) + 1 = n
  OBVIOUS
<1>4. n - 1 \in G
  BY <1>1, <1>2, <1>3, Induction
<1> QED BY <1>3, <1>4 DEF G, All

(* What was said last when one more is asked, or two. *)
LEMMA LastAdded ==
    ASSUME NEW n \in Nat, NEW at \in SUBSET (1 .. n + 1), NEW w, NEW none
    PROVE  LastAt(at, w, none) = IF n + 1 \in at THEN w[n + 1]
                                 ELSE LastAt(at \cap (1 .. n), w, none)
<1>1. CASE n + 1 \in at
  <2>1. Max(at) \in at /\ \A y \in at : y <= Max(at)
    BY <1>1, MaxOfNumbers, n + 1 \in Nat
  <2>2. Max(at) \in 1 .. n + 1 /\ n + 1 <= Max(at)
    BY <1>1, <2>1
  <2>3. Max(at) = n + 1
    BY <2>2
  <2> QED BY <1>1, <2>3 DEF LastAt
<1>2. CASE n + 1 \notin at
  <2>1. \A y \in at : y \in 1 .. n + 1 /\ y # n + 1
    BY <1>2
  <2>2. \A y \in at : y \in 1 .. n
    BY <2>1
  <2>3. at \cap (1 .. n) = at
    BY <2>2
  <2> QED BY <1>2, <2>3
<1> QED BY <1>1, <1>2

LEMMA LastAddedTwo ==
    ASSUME NEW n \in Nat, NEW at \in SUBSET (1 .. n + 2), NEW w, NEW none
    PROVE  LastAt(at, w, none) = IF n + 2 \in at THEN w[n + 2]
                                 ELSE IF n + 1 \in at THEN w[n + 1]
                                 ELSE LastAt(at \cap (1 .. n), w, none)
<1> DEFINE some == at \cap (1 .. n + 1)
<1>1. n + 1 \in Nat /\ (n + 1) + 1 = n + 2
  OBVIOUS
<1>2. LastAt(at, w, none) = IF n + 2 \in at THEN w[n + 2] ELSE LastAt(some, w, none)
  BY <1>1, LastAdded
<1>3. some \in SUBSET (1 .. n + 1) /\ some \cap (1 .. n) = at \cap (1 .. n)
      /\ (n + 1 \in some <=> n + 1 \in at)
  OBVIOUS
<1> HIDE DEF some
<1>4. LastAt(some, w, none) = IF n + 1 \in some THEN w[n + 1] ELSE LastAt(some \cap (1 .. n), w, none)
  BY <1>3, LastAdded
<1> QED BY <1>2, <1>3, <1>4

-----------------------------------------------------------------------------
(* Parts and what they come to *)

(* No parts come to nothing. *)
LEMMA FlattenNothing ==
    ASSUME NEW parts, Len(parts) = 0
    PROVE  FlattenSeq(parts) = parts
BY DEF FlattenSeq

(* One part comes to itself. *)
LEMMA FlattenOne ==
    ASSUME NEW S, NEW p \in Seq(S)
    PROVE  FlattenSeq(<<p>>) = p
<1>1. PICK m : m[1] = <<p>>[1] /\ FlattenSeq(<<p>>) = m[0 + 1]
  <2>1. <<p>> = [i \in 1 .. 0 + 1 |-> <<p>>[i]] /\ Len(<<p>>) = 0 + 1
    OBVIOUS
  <2> QED BY <2>1, FlattenByParts
<1> QED BY <1>1

(* The last part is appended to what the others come to. *)
LEMMA FlattenMore ==
    ASSUME NEW S, NEW parts \in Seq(Seq(S)), NEW n \in Nat \ {0}, Len(parts) = n + 1
    PROVE  FlattenSeq(parts) = FlattenSeq(SubSeq(parts, 1, n)) \o parts[n + 1]
<1> DEFINE less == SubSeq(parts, 1, n)
<1>1. /\ parts = [i \in 1 .. n + 1 |-> parts[i]]
      /\ less \in Seq(Seq(S)) /\ Len(less) = n /\ \A i \in 1 .. n : less[i] = parts[i]
  OBVIOUS
<1>2. less = [i \in 1 .. (n - 1) + 1 |-> less[i]] /\ n - 1 \in Nat /\ (n - 1) + 1 = n
  BY <1>1
<1> HIDE DEF less
<1>3. PICK m : /\ m[1] = parts[1]
               /\ \A k \in 2 .. n + 1 : m[k] = m[k - 1] \o parts[k]
               /\ FlattenSeq(parts) = m[n + 1]
  BY <1>1, FlattenByParts
<1>4. PICK w : /\ w[1] = less[1]
               /\ \A k \in 2 .. n : w[k] = w[k - 1] \o less[k]
               /\ FlattenSeq(less) = w[n]
  <2>1. Len(less) = (n - 1) + 1
    BY <1>1, <1>2
  <2>2. \E v : /\ v[1] = less[1]
               /\ \A k \in 2 .. (n - 1) + 1 : v[k] = v[k - 1] \o less[k]
               /\ FlattenSeq(less) = v[(n - 1) + 1]
    BY <1>2, <2>1, FlattenByParts
  <2> QED BY <2>2, <1>2
<1> DEFINE G == {k \in Nat : k + 1 <= n => m[k + 1] = w[k + 1]}
<1>5. 0 \in G
  <2>1. 1 \in 1 .. n /\ 0 \in Nat /\ 0 + 1 = 1
    OBVIOUS
  <2>2. m[1] = w[1]
    BY <2>1, <1>1, <1>3, <1>4
  <2> QED BY <2>1, <2>2
<1>6. ASSUME NEW k \in Nat, k \in G
      PROVE  k + 1 \in G
  <2> SUFFICES ASSUME k + 2 <= n
               PROVE  m[k + 2] = w[k + 2]
    OBVIOUS
  <2>1. k + 2 \in 2 .. n + 1 /\ k + 2 \in 2 .. n /\ k + 2 \in 1 .. n /\ (k + 2) - 1 = k + 1 /\ k + 1 <= n
    OBVIOUS
  <2>2. m[k + 1] = w[k + 1]
    BY <1>6, <2>1
  <2>3. m[k + 2] = m[k + 1] \o parts[k + 2] /\ w[k + 2] = w[k + 1] \o less[k + 2]
    BY <1>3, <1>4, <2>1
  <2> QED BY <2>1, <2>2, <2>3, <1>1
<1> HIDE DEF G
<1>7. n - 1 \in G
  BY <1>2, <1>5, <1>6, Induction
<1>8. m[n] = w[n]
  BY <1>2, <1>7 DEF G
<1>9. n + 1 \in 2 .. n + 1 /\ (n + 1) - 1 = n
  OBVIOUS
<1> QED BY <1>3, <1>4, <1>8, <1>9 DEF less

(* One more part is appended to what the others come to. *)
LEMMA FlattenAppended ==
    ASSUME NEW S, NEW parts \in Seq(Seq(S)), NEW p \in Seq(S)
    PROVE  FlattenSeq(Append(parts, p)) = FlattenSeq(parts) \o p
<1> DEFINE more == Append(parts, p)
           n == Len(parts)
<1>1. more \in Seq(Seq(S)) /\ Len(more) = n + 1 /\ more[n + 1] = p /\ SubSeq(more, 1, n) = parts /\ n \in Nat
  OBVIOUS
<1>2. CASE n = 0
  <2>1. parts = <<>> /\ more = <<p>>
    BY <1>2
  <2>2. FlattenSeq(parts) = <<>>
    BY <2>1, FlattenNothing
  <2> QED BY <2>1, <2>2, FlattenOne
<1>3. CASE n # 0
  <2> HIDE DEF more, n
  <2>1. FlattenSeq(more) = FlattenSeq(SubSeq(more, 1, n)) \o more[n + 1]
    BY <1>1, <1>3, FlattenMore
  <2> QED BY <2>1, <1>1 DEF more
<1> QED BY <1>2, <1>3

(* What two sequences of parts come to, one behind the other. *)
LEMMA FlattenJoined ==
    ASSUME NEW S, NEW a \in Seq(Seq(S)), NEW b \in Seq(Seq(S))
    PROVE  FlattenSeq(a \o b) = FlattenSeq(a) \o FlattenSeq(b)
<1> DEFINE Of(k) == SubSeq(b, 1, k)
           G == {k \in Nat : k <= Len(b) => FlattenSeq(a \o Of(k)) = FlattenSeq(a) \o FlattenSeq(Of(k))}
<1>1. 0 \in G
  <2>1. Of(0) = <<>> /\ a \o Of(0) = a
    OBVIOUS
  <2>2. FlattenSeq(a) \in Seq(S)
    BY FlattenTyped
  <2> HIDE DEF Of
  <2>3. Len(Of(0)) = 0
    BY <2>1
  <2>4. FlattenSeq(Of(0)) = <<>>
    BY <2>1, <2>3, FlattenNothing
  <2>5. FlattenSeq(a) \o FlattenSeq(Of(0)) = FlattenSeq(a)
    BY <2>2, <2>4
  <2>6. FlattenSeq(a \o Of(0)) = FlattenSeq(a)
    BY <2>1
  <2> QED BY <2>5, <2>6
<1>2. ASSUME NEW k \in Nat, k \in G
      PROVE  k + 1 \in G
  <2> SUFFICES ASSUME k + 1 <= Len(b)
               PROVE  FlattenSeq(a \o Of(k + 1)) = FlattenSeq(a) \o FlattenSeq(Of(k + 1))
    OBVIOUS
  <2>1. /\ Of(k) \in Seq(Seq(S)) /\ b[k + 1] \in Seq(S) /\ Of(k + 1) = Append(Of(k), b[k + 1])
        /\ a \o Of(k + 1) = Append(a \o Of(k), b[k + 1]) /\ a \o Of(k) \in Seq(Seq(S))
    OBVIOUS
  <2> HIDE DEF Of
  <2>2. /\ FlattenSeq(a \o Of(k + 1)) = FlattenSeq(a \o Of(k)) \o b[k + 1]
        /\ FlattenSeq(Of(k + 1)) = FlattenSeq(Of(k)) \o b[k + 1]
    BY <2>1, FlattenAppended
  <2>3. FlattenSeq(a \o Of(k)) = FlattenSeq(a) \o FlattenSeq(Of(k))
    BY <1>2
  <2>4. FlattenSeq(a) \in Seq(S) /\ FlattenSeq(Of(k)) \in Seq(S)
    BY <2>1, FlattenTyped
  <2> DEFINE x == FlattenSeq(a)
             y == FlattenSeq(Of(k))
             z == b[k + 1]
  <2> HIDE DEF x, y, z
  <2>5. x \in Seq(S) /\ y \in Seq(S) /\ z \in Seq(S)
    BY <2>1, <2>4 DEF x, y, z
  <2>6. (x \o y) \o z = x \o (y \o z)
    BY <2>5
  <2> QED BY <2>2, <2>3, <2>6 DEF x, y, z
<1> HIDE DEF G
<1>3. \A k \in Nat : k \in G
  BY <1>1, <1>2, Induction
<1>4. Of(Len(b)) = b /\ Len(b) \in Nat
  OBVIOUS
<1> HIDE DEF Of
<1>5. FlattenSeq(a \o Of(Len(b))) = FlattenSeq(a) \o FlattenSeq(Of(Len(b)))
  <2> DEFINE n == Len(b)
  <2>1. n \in Nat /\ n \in G
    BY <1>3, <1>4
  <2>2. n <= n
    BY <2>1
  <2> HIDE DEF n
  <2>3. n <= n => FlattenSeq(a \o Of(n)) = FlattenSeq(a) \o FlattenSeq(Of(n))
    BY <2>1 DEF G, n
  <2> QED BY <2>2, <2>3 DEF n
<1> QED BY <1>4, <1>5

\* How far the first k parts reach.
UpTo(parts, k) == Len(FlattenSeq(SubSeq(parts, 1, k)))

(* No part reaches nowhere, all of them to the end. *)
LEMMA ReachesStart ==
    ASSUME NEW S, NEW parts \in Seq(Seq(S))
    PROVE  UpTo(parts, 0) = 0 /\ UpTo(parts, Len(parts)) = Len(FlattenSeq(parts))
<1> DEFINE none == SubSeq(parts, 1, 0)
<1>1. none = <<>> /\ SubSeq(parts, 1, Len(parts)) = parts
  OBVIOUS
<1>2. Len(none) = 0
  BY <1>1
<1> HIDE DEF none
<1>3. FlattenSeq(none) = none
  BY <1>2, FlattenNothing
<1> QED BY <1>1, <1>2, <1>3 DEF UpTo, none

(* A stretch of a sequence has as many members as it says. *)
LEMMA Stretch ==
    ASSUME NEW S, NEW s \in Seq(S), NEW m \in Nat, NEW n \in Nat, m <= n, n <= Len(s)
    PROVE  SubSeq(s, m + 1, n) \in Seq(S) /\ Len(SubSeq(s, m + 1, n)) = n - m
OBVIOUS

(* A sequence is its start and its rest. *)
LEMMA SplitAt ==
    ASSUME NEW S, NEW s \in Seq(S), NEW k \in 0 .. Len(s)
    PROVE  /\ SubSeq(s, 1, k) \in Seq(S) /\ SubSeq(s, k + 1, Len(s)) \in Seq(S)
           /\ s = SubSeq(s, 1, k) \o SubSeq(s, k + 1, Len(s))
<1>1. Len(s) \in Nat /\ 1 \in 1 .. Len(s) + 1 /\ k \in 0 .. Len(s) /\ Len(s) \in k .. Len(s) /\ 1 - 1 = 0
  OBVIOUS
<1>2. SubSeq(s, 1, k) \o SubSeq(s, k + 1, Len(s)) = SubSeq(s, 1, Len(s))
  BY <1>1, ConcatAdjacentSubSeq
<1>3. SubSeq(s, 1, Len(s)) = s
  BY SubSeqFull
<1>4. SubSeq(s, 1, k) \in Seq(S) /\ SubSeq(s, k + 1, Len(s)) \in Seq(S)
  OBVIOUS
<1> QED BY <1>2, <1>3, <1>4

(* Parts come to what the first k and the others come to. *)
LEMMA FlattenSplit ==
    ASSUME NEW S, NEW parts \in Seq(Seq(S)), NEW k \in 0 .. Len(parts)
    PROVE  FlattenSeq(parts) = FlattenSeq(SubSeq(parts, 1, k)) \o FlattenSeq(SubSeq(parts, k + 1, Len(parts)))
<1> DEFINE a == SubSeq(parts, 1, k)
           b == SubSeq(parts, k + 1, Len(parts))
<1>1. a \in Seq(Seq(S)) /\ b \in Seq(Seq(S)) /\ parts = a \o b
  BY SplitAt
<1> HIDE DEF a, b
<1> QED BY <1>1, FlattenJoined DEF a, b

(* Each part stands where the ones before it end. *)
LEMMA PartAt ==
    ASSUME NEW S, NEW parts \in Seq(Seq(S)), NEW k \in 1 .. Len(parts)
    PROVE  /\ UpTo(parts, k - 1) \in Nat
           /\ UpTo(parts, k) = UpTo(parts, k - 1) + Len(parts[k])
           /\ UpTo(parts, k) <= Len(FlattenSeq(parts))
           /\ \A i \in 1 .. Len(parts[k]) : FlattenSeq(parts)[UpTo(parts, k - 1) + i] = parts[k][i]
<1> DEFINE less == SubSeq(parts, 1, k - 1)
           upto == SubSeq(parts, 1, k)
           rest == SubSeq(parts, k + 1, Len(parts))
           p == parts[k]
<1>1. /\ less \in Seq(Seq(S)) /\ rest \in Seq(Seq(S)) /\ upto \in Seq(Seq(S)) /\ p \in Seq(S)
      /\ upto = Append(less, p) /\ k \in 0 .. Len(parts)
  OBVIOUS
<1> HIDE DEF less, upto, rest, p
<1>2. FlattenSeq(upto) = FlattenSeq(less) \o p
  BY <1>1, FlattenAppended
<1>3. FlattenSeq(parts) = FlattenSeq(upto) \o FlattenSeq(rest)
  BY <1>1, FlattenSplit DEF upto, rest
<1>4. FlattenSeq(less) \in Seq(S) /\ FlattenSeq(upto) \in Seq(S) /\ FlattenSeq(rest) \in Seq(S)
  BY <1>1, FlattenTyped
<1> DEFINE x == FlattenSeq(less)
           y == FlattenSeq(rest)
           u == FlattenSeq(upto)
           w == FlattenSeq(parts)
<1> HIDE DEF x, y, u, w
<1>5. /\ x \in Seq(S) /\ y \in Seq(S) /\ u = x \o p /\ w = u \o y
  BY <1>2, <1>3, <1>4 DEF x, y, u, w
<1>6. Len(u) = Len(x) + Len(p) /\ Len(u) <= Len(w) /\ Len(x) \in Nat
  BY <1>1, <1>5
<1>7. \A i \in 1 .. Len(p) : w[Len(x) + i] = p[i]
  BY <1>1, <1>5
<1> QED BY <1>6, <1>7 DEF x, y, u, w, less, upto, p, UpTo

(* Whatever stands in a flattened sequence stands in some part of it. *)
LEMMA PartOf ==
    ASSUME NEW S, NEW parts \in Seq(Seq(S)), NEW i \in 1 .. Len(FlattenSeq(parts))
    PROVE  \E k \in 1 .. Len(parts) : \E j \in 1 .. Len(parts[k]) :
              i = UpTo(parts, k - 1) + j /\ FlattenSeq(parts)[i] = parts[k][j]
<1> DEFINE G == {k \in Nat : k <= Len(parts) /\ i <= UpTo(parts, k) =>
                    \E l \in 1 .. Len(parts) : \E j \in 1 .. Len(parts[l]) : i = UpTo(parts, l - 1) + j}
<1>0. FlattenSeq(parts) \in Seq(S) /\ Len(FlattenSeq(parts)) \in Nat /\ i \in Nat /\ i >= 1
  <2>1. FlattenSeq(parts) \in Seq(S)
    BY FlattenTyped
  <2>2. Len(FlattenSeq(parts)) \in Nat
    BY <2>1
  <2> QED BY <2>1, <2>2
<1>1. 0 \in G
  BY <1>0, ReachesStart
<1>2. ASSUME NEW k \in Nat, k \in G
      PROVE  k + 1 \in G
  <2> SUFFICES ASSUME k + 1 <= Len(parts), i <= UpTo(parts, k + 1)
               PROVE  \E l \in 1 .. Len(parts) : \E j \in 1 .. Len(parts[l]) : i = UpTo(parts, l - 1) + j
    OBVIOUS
  <2>1. k + 1 \in 1 .. Len(parts) /\ (k + 1) - 1 = k /\ k <= Len(parts)
    OBVIOUS
  <2>2. UpTo(parts, k) \in Nat /\ UpTo(parts, k + 1) = UpTo(parts, k) + Len(parts[k + 1])
    BY <2>1, PartAt
  <2>3. CASE i <= UpTo(parts, k)
    BY <1>2, <2>1, <2>3
  <2>4. CASE i > UpTo(parts, k)
    <3> DEFINE l == k + 1
               j == i - UpTo(parts, k)
    <3>1. parts[l] \in Seq(S) /\ Len(parts[l]) \in Nat
      BY <2>1
    <3>2. j \in 1 .. Len(parts[l]) /\ i = UpTo(parts, l - 1) + j
      BY <2>1, <2>2, <2>4, <1>0, <3>1
    <3> HIDE DEF j
    <3> QED BY <3>2, <2>1
  <2> QED BY <2>2, <2>3, <2>4, <1>0
<1>3. \A k \in Nat : k \in G
  BY <1>1, <1>2, Induction
<1>4. UpTo(parts, Len(parts)) = Len(FlattenSeq(parts)) /\ Len(parts) \in Nat
  BY ReachesStart
<1>5. \E l \in 1 .. Len(parts) : \E j \in 1 .. Len(parts[l]) : i = UpTo(parts, l - 1) + j
  <2> DEFINE n == Len(parts)
  <2>1. n \in G /\ n <= n
    BY <1>3, <1>4
  <2>2. i <= UpTo(parts, n)
    BY <1>4, <1>0
  <2> QED BY <2>1, <2>2
<1> HIDE DEF G
<1>6. PICK l \in 1 .. Len(parts) : \E j \in 1 .. Len(parts[l]) : i = UpTo(parts, l - 1) + j
  BY <1>5
<1>7. PICK j \in 1 .. Len(parts[l]) : i = UpTo(parts, l - 1) + j
  BY <1>6
<1>8. FlattenSeq(parts)[UpTo(parts, l - 1) + j] = parts[l][j]
  BY PartAt
<1>9. FlattenSeq(parts)[i] = parts[l][j]
  BY <1>7, <1>8
<1> QED BY <1>7, <1>9

(* A sequence cut into single members comes to itself. *)
LEMMA FlattenSingles ==
    ASSUME NEW S, NEW s \in Seq(S)
    PROVE  FlattenSeq([i \in DOMAIN s |-> <<s[i]>>]) = s
<1> DEFINE Of(k) == SubSeq([i \in DOMAIN s |-> <<s[i]>>], 1, k)
           G == {k \in Nat : k <= Len(s) => FlattenSeq(Of(k)) = SubSeq(s, 1, k)}
           all == [i \in DOMAIN s |-> <<s[i]>>]
<1>1. all \in Seq(Seq(S)) /\ Len(all) = Len(s) /\ Len(s) \in Nat /\ \A i \in 1 .. Len(s) : all[i] = <<s[i]>>
  <2>1. DOMAIN s = 1 .. Len(s) /\ Len(s) \in Nat /\ \A i \in 1 .. Len(s) : <<s[i]>> \in Seq(S)
    OBVIOUS
  <2>2. all \in [1 .. Len(s) -> Seq(S)]
    BY <2>1
  <2> QED BY <2>1, <2>2
<1> HIDE DEF all
<1>2. 0 \in G
  <2>1. SubSeq(all, 1, 0) = <<>> /\ SubSeq(s, 1, 0) = <<>>
    BY <1>1
  <2>2. Len(SubSeq(all, 1, 0)) = 0
    BY <2>1
  <2>3. FlattenSeq(SubSeq(all, 1, 0)) = <<>>
    BY <2>1, <2>2, FlattenNothing
  <2> QED BY <2>1, <2>3 DEF all
<1>3. ASSUME NEW k \in Nat, k \in G
      PROVE  k + 1 \in G
  <2> SUFFICES ASSUME k + 1 <= Len(s)
               PROVE  FlattenSeq(Of(k + 1)) = SubSeq(s, 1, k + 1)
    OBVIOUS
  <2> DEFINE less == Of(k)
             more == Of(k + 1)
  <2>1. less = SubSeq(all, 1, k) /\ more = SubSeq(all, 1, k + 1)
    BY DEF all
  <2>2. FlattenSeq(less) = SubSeq(s, 1, k)
    BY <1>3
  <2> HIDE DEF less, more
  <2>3. less \in Seq(Seq(S)) /\ <<s[k + 1]>> \in Seq(S) /\ more = Append(less, <<s[k + 1]>>)
    BY <1>1, <2>1
  <2>4. FlattenSeq(more) = SubSeq(s, 1, k) \o <<s[k + 1]>>
    BY <2>2, <2>3, FlattenAppended
  <2>5. SubSeq(s, 1, k + 1) = SubSeq(s, 1, k) \o <<s[k + 1]>>
    OBVIOUS
  <2> QED BY <2>4, <2>5 DEF more
<1> HIDE DEF G, Of
<1>4. \A k \in Nat : k \in G
  BY <1>2, <1>3, Induction
<1>5. FlattenSeq(Of(Len(s))) = SubSeq(s, 1, Len(s))
  BY <1>1, <1>4 DEF G
<1>6. Of(Len(s)) = all
  BY <1>1 DEF Of, all
<1>7. SubSeq(s, 1, Len(s)) = s
  OBVIOUS
<1> QED BY <1>5, <1>6, <1>7 DEF all

(* Nothing, any number of times, is nothing. *)
LEMMA FlattenEmpties ==
    ASSUME NEW n \in Nat
    PROVE  FlattenSeq([i \in 1 .. n |-> <<>>]) = <<>>
<1> DEFINE all == [i \in 1 .. n |-> <<>>]
           G == {k \in Nat : k <= n => FlattenSeq(SubSeq(all, 1, k)) = <<>>}
<1>1. all \in Seq(Seq({})) /\ Len(all) = n /\ \A i \in 1 .. n : all[i] = <<>>
  OBVIOUS
<1> HIDE DEF all
<1>2. 0 \in G
  <2>1. SubSeq(all, 1, 0) = <<>>
    BY <1>1
  <2>2. Len(SubSeq(all, 1, 0)) = 0
    BY <2>1
  <2>3. FlattenSeq(SubSeq(all, 1, 0)) = <<>>
    BY <2>1, <2>2, FlattenNothing
  <2> QED BY <2>3
<1>3. ASSUME NEW k \in Nat, k \in G
      PROVE  k + 1 \in G
  <2> SUFFICES ASSUME k + 1 <= n
               PROVE  FlattenSeq(SubSeq(all, 1, k + 1)) = <<>>
    OBVIOUS
  <2> DEFINE less == SubSeq(all, 1, k)
             more == SubSeq(all, 1, k + 1)
             none == all[k + 1]
  <2>1. FlattenSeq(less) = <<>> /\ none = <<>>
    BY <1>1, <1>3
  <2>2. less \in Seq(Seq({})) /\ more = Append(less, none) /\ none \in Seq({})
    BY <1>1
  <2> HIDE DEF less, more, none
  <2>3. FlattenSeq(more) = FlattenSeq(less) \o none
    BY <2>2, FlattenAppended
  <2>4. FlattenSeq(less) \o none = <<>>
    BY <2>1
  <2> QED BY <2>3, <2>4 DEF more
<1> HIDE DEF G
<1>4. \A k \in Nat : k \in G
  BY <1>2, <1>3, Induction
<1>5. FlattenSeq(SubSeq(all, 1, n)) = <<>>
  BY <1>4 DEF G
<1>6. SubSeq(all, 1, n) = all
  BY <1>1
<1> QED BY <1>5, <1>6 DEF all

-----------------------------------------------------------------------------

(* Some numbers up to n have a greatest. *)
LEMMA MaxOfCounts ==
    ASSUME NEW n \in Nat, NEW s \in SUBSET (0 .. n), s # {}
    PROVE  Max(s) \in s /\ Max(s) \in 0 .. n /\ \A y \in s : y <= Max(s)
<1>1. \E x \in s : \A y \in s : x >= y
  <2>1. CASE s \cap (1 .. n) = {}
    <3>1. \A y \in s : y = 0
      BY <2>1
    <3>2. PICK x \in s : TRUE
      OBVIOUS
    <3>3. x = 0
      BY <3>1
    <3>4. \A y \in s : 0 >= y
      BY <3>1
    <3> QED BY <3>2, <3>3, <3>4
  <2>2. CASE s \cap (1 .. n) # {}
    <3> DEFINE u == s \cap (1 .. n)
    <3>1. u \in SUBSET (1 .. n) /\ u # {}
      BY <2>2
    <3> HIDE DEF u
    <3>2. Max(u) \in u /\ \A y \in u : y <= Max(u)
      BY <3>1, MaxOfNumbers
    <3>3. Max(u) \in s /\ Max(u) \in 1 .. n
      BY <3>2 DEF u
    <3>4. ASSUME NEW y \in s
          PROVE  Max(u) >= y
      <4>1. CASE y = 0
        BY <4>1, <3>3
      <4>2. CASE y # 0
        <5>1. y \in u
          BY <4>2 DEF u
        <5> QED BY <5>1, <3>2, <3>3
      <4> QED BY <4>1, <4>2
    <3> QED BY <3>3, <3>4
  <2> QED BY <2>1, <2>2
<1>2. Max(s) \in s /\ \A y \in s : Max(s) >= y
  BY <1>1 DEF Max
<1>3. Max(s) \in 0 .. n
  BY <1>2
<1>4. ASSUME NEW y \in s
      PROVE  y <= Max(s)
  <2>1. y \in 0 .. n /\ Max(s) >= y
    BY <1>2
  <2> QED BY <2>1, <1>3
<1> QED BY <1>2, <1>3, <1>4

(* The lesser of two numbers. *)
LEMMA LesserOfTwo ==
    ASSUME NEW a \in Nat, NEW b \in Nat
    PROVE  Min({a, b}) \in {a, b} /\ Min({a, b}) <= a /\ Min({a, b}) <= b
<1>1. {a, b} \in SUBSET Nat /\ {a, b} # {}
  OBVIOUS
<1> QED BY <1>1, LeastOfNumbers

\* Five sequences, grouped in two ways.
RegroupsFive(a, b, c, d, z) == a \o (b \o c \o d) \o z = (a \o b) \o c \o (d \o z)

(* Concatenation may be grouped otherwise. *)
LEMMA Regrouped ==
    ASSUME NEW S, NEW a, NEW b, NEW c, NEW d, NEW z,
           a \in Seq(S), b \in Seq(S), c \in Seq(S), d \in Seq(S), z \in Seq(S)
    PROVE  RegroupsFive(a, b, c, d, z)
  BY SMTT(60) DEF RegroupsFive

(* One position written in two ways. *)
LEMMA SameStart ==
    ASSUME NEW s, NEW a \in Nat, NEW p, p = a + 1
    PROVE  SubSeq(s, 1, p - 1) = SubSeq(s, 1, a + 1 - 1)
  OBVIOUS

(* A member makes a sequence. *)
LEMMA OneTyped ==
    ASSUME NEW S, NEW x \in S
    PROVE  <<x>> \in Seq(S)
  OBVIOUS

(* No member does. *)
LEMMA NoneTyped ==
    ASSUME NEW S
    PROVE  <<>> \in Seq(S)
  OBVIOUS

(* A sequence all members of which are in M is one over M. *)
LEMMA PartsOnly ==
    ASSUME NEW T, NEW p, NEW n \in Nat, p \in Seq(T), NEW M, Len(p) = n,
           \A i \in 1 .. n : p[i] \in M
    PROVE  p \in Seq(M)
  OBVIOUS

(* A sequence over two sets is one over what they share. *)
LEMMA BothTyped ==
    ASSUME NEW S, NEW K, NEW s \in Seq(S), s \in Seq(K)
    PROVE  s \in Seq(S \cap K)
  OBVIOUS

(* A function on 1 .. n is a sequence. *)
LEMMA FunctionIsSeq ==
    ASSUME NEW T, NEW n \in Nat, NEW g \in [1 .. n -> T]
    PROVE  g \in Seq(T) /\ Len(g) = n
  OBVIOUS

(* A sequence over a set is one over any larger set. *)
LEMMA SeqWider ==
    ASSUME NEW K, NEW L, K \subseteq L, NEW s \in Seq(K)
    PROVE  s \in Seq(L)
  OBVIOUS

(* The least of some numbers is the one that is no greater than any. *)
LEMMA LeastIs ==
    ASSUME NEW A \in SUBSET Nat, NEW a \in A, \A x \in A : a <= x
    PROVE  Min(A) = a
<1> DEFINE m == Min(A)
<1>1. A # {}
  OBVIOUS
<1>2. m \in A /\ \A y \in A : m <= y
  BY <1>1, LeastOfNumbers
<1> HIDE DEF m
<1>3. m \in Nat /\ a \in Nat /\ m <= a /\ a <= m
  BY <1>2
<1>4. m = a
  BY <1>3
<1> QED BY <1>4 DEF m

(* Two sequences make one. *)
LEMMA ConcatTyped ==
    ASSUME NEW S, NEW a \in Seq(S), NEW b \in Seq(S)
    PROVE  a \o b \in Seq(S)
  OBVIOUS

(* Up to three members make a sequence. *)
LEMMA ThreeTyped ==
    ASSUME NEW S, NEW a \in S, NEW b \in S, NEW c \in S
    PROVE  <<a, b, c>> \in Seq(S) /\ <<a, b>> \in Seq(S) /\ <<a>> \in Seq(S)
  OBVIOUS

(* Sets of positions have a size, and one that is not zero if they are not empty. *)
LEMMA CountsAreNumbers ==
    ASSUME NEW n \in Nat, NEW I \in SUBSET (1 .. n)
    PROVE  Cardinality(I) \in Nat /\ (Cardinality(I) > 0 => I # {})
<1>1. Cardinality(I) \in Nat
  BY PositionsGrow
<1>2. I = {} => Cardinality(I) = 0
  BY FS_EmptySet
<1> QED BY <1>1, <1>2

(* The members of a stretch of a sequence. *)
LEMMA StretchAt ==
    ASSUME NEW T, NEW s \in Seq(T), NEW m \in Nat, NEW n \in Nat, m <= n, n <= Len(s)
    PROVE  /\ SubSeq(s, m + 1, n) \in Seq(T) /\ Len(SubSeq(s, m + 1, n)) = n - m
           /\ \A i \in 1 .. n - m : SubSeq(s, m + 1, n)[i] = s[m + i]
  OBVIOUS

(* The members of the start of a sequence. *)
LEMMA StartOf ==
    ASSUME NEW T, NEW s \in Seq(T), NEW n \in Nat, n <= Len(s)
    PROVE  /\ SubSeq(s, 1, n) \in Seq(T) /\ Len(SubSeq(s, 1, n)) = n
           /\ \A i \in 1 .. n : SubSeq(s, 1, n)[i] = s[i]
  OBVIOUS

(* What remains when the member behind the first k is removed. *)
LEMMA RemovedFrom ==
    ASSUME NEW s, NEW k \in Nat, NEW i, i = k + 1
    PROVE  RemoveAt(s, i) = SubSeq(s, 1, k) \o SubSeq(s, i + 1, Len(s))
<1>1. i - 1 = k
  OBVIOUS
<1>2. RemoveAt(s, i) = SubSeq(s, 1, i - 1) \o SubSeq(s, i + 1, Len(s))
  BY DEF RemoveAt
<1> QED BY <1>1, <1>2

(* The same, for the position k + 1. *)
LEMMA RemovedAt ==
    ASSUME NEW s, NEW k \in Nat
    PROVE  RemoveAt(s, k + 1) = SubSeq(s, 1, k) \o SubSeq(s, k + 1 + 1, Len(s))
<1> DEFINE i == k + 1
<1>1. i = k + 1
  OBVIOUS
<1> HIDE DEF i
<1>2. RemoveAt(s, i) = SubSeq(s, 1, k) \o SubSeq(s, i + 1, Len(s))
  BY <1>1, RemovedFrom
<1> QED BY <1>2 DEF i

(* The members of two sequences one behind the other. *)
LEMMA JoinedAt ==
    ASSUME NEW T, NEW a \in Seq(T), NEW c \in Seq(T)
    PROVE  /\ a \o c \in Seq(T) /\ Len(a \o c) = Len(a) + Len(c)
           /\ \A i \in 1 .. Len(a) : (a \o c)[i] = a[i]
           /\ \A i \in 1 .. Len(c) : (a \o c)[Len(a) + i] = c[i]
  OBVIOUS

(* Removing what follows the first of two sequences takes the first member of the second. *)
LEMMA RemoveBehind ==
    ASSUME NEW T, NEW a \in Seq(T), NEW c \in Seq(T), c # <<>>
    PROVE  RemoveAt(a \o c, Len(a) + 1) = a \o SubSeq(c, 1 + 1, Len(c))
<1> DEFINE s == a \o c
           k == Len(a)
           n == Len(c)
           x == SubSeq(s, 1, k)
           y == SubSeq(s, k + 1 + 1, Len(s))
           z == SubSeq(c, 1 + 1, n)
<1>1. k \in Nat /\ n \in Nat /\ n >= 1
  OBVIOUS
<1>2. s \in Seq(T) /\ Len(s) = k + n /\ (\A i \in 1 .. k : s[i] = a[i])
      /\ \A i \in 1 .. n : s[k + i] = c[i]
  BY JoinedAt
<1> HIDE DEF s, k, n
<1>3. RemoveAt(s, k + 1) = x \o y
  BY <1>1, RemovedAt
<1>4. x \in Seq(T) /\ Len(x) = k /\ \A i \in 1 .. k : x[i] = s[i]
  <2>1. k <= Len(s)
    BY <1>1, <1>2
  <2> QED BY <1>1, <1>2, <2>1, StartOf
<1>5. y \in Seq(T) /\ Len(y) = n - 1 /\ \A i \in 1 .. n - 1 : y[i] = s[k + 1 + i]
  <2> DEFINE m == k + 1
             w == k + n
  <2>1. m \in Nat /\ w \in Nat /\ m <= w /\ w <= Len(s) /\ w = Len(s) /\ w - m = n - 1
    BY <1>1, <1>2
  <2> HIDE DEF m, w
  <2>2. SubSeq(s, m + 1, w) \in Seq(T) /\ Len(SubSeq(s, m + 1, w)) = w - m
        /\ \A i \in 1 .. w - m : SubSeq(s, m + 1, w)[i] = s[m + i]
    BY <1>2, <2>1, StretchAt
  <2>3. y = SubSeq(s, m + 1, w)
    BY <2>1 DEF m
  <2> HIDE DEF y
  <2>4. y \in Seq(T) /\ Len(y) = n - 1 /\ \A i \in 1 .. n - 1 : y[i] = s[m + i]
    BY <2>1, <2>2, <2>3
  <2> QED BY <2>4 DEF m
<1>6. z \in Seq(T) /\ Len(z) = n - 1 /\ \A i \in 1 .. n - 1 : z[i] = c[1 + i]
  <2>1. 1 <= n /\ n <= Len(c)
    BY <1>1 DEF n
  <2> QED BY <1>1, <2>1, StretchAt
<1> HIDE DEF x, y, z
<1>7. x = a
  <2>1. Len(a) = k
    BY DEF k
  <2> QED BY <1>1, <1>2, <1>4, <2>1, SeqEqual
<1>8. Len(y) = n - 1 /\ \A i \in 1 .. n - 1 : y[i] = z[i]
  <2>2. ASSUME NEW i \in 1 .. n - 1
        PROVE  y[i] = z[i]
    <3> DEFINE j == 1 + i
    <3>1. j \in 1 .. n /\ k + 1 + i = k + j
      BY <1>1
    <3>2. y[i] = s[k + 1 + i] /\ z[i] = c[j]
      BY <1>5, <1>6
    <3> HIDE DEF j
    <3>3. s[k + j] = c[j]
      BY <1>2, <3>1
    <3> QED BY <3>1, <3>2, <3>3
  <2> QED BY <1>5, <2>2
<1>9. y = z
  BY <1>5, <1>6, <1>8, SeqEqual
<1> QED BY <1>3, <1>7, <1>9 DEF s, z, k, n

(* Removing the last of the first of two sequences. *)
LEMMA RemoveLast ==
    ASSUME NEW T, NEW a \in Seq(T), NEW c \in Seq(T), a # <<>>
    PROVE  RemoveAt(a \o c, Len(a)) = SubSeq(a, 1, Len(a) - 1) \o c
<1> DEFINE s == a \o c
           r == Len(a)
           k == r - 1
           n == Len(c)
           x == SubSeq(s, 1, k)
           y == SubSeq(s, r + 1, Len(s))
           z == SubSeq(a, 1, k)
<1>1. n \in Nat /\ r \in Nat /\ r >= 1
  OBVIOUS
<1>2. s \in Seq(T) /\ Len(s) = r + n /\ (\A i \in 1 .. r : s[i] = a[i])
      /\ \A i \in 1 .. n : s[r + i] = c[i]
  BY JoinedAt
<1> HIDE DEF s, n, r
<1>0. k \in Nat /\ r = k + 1 /\ k <= r
  BY <1>1
<1> HIDE DEF k
<1>3. RemoveAt(s, r) = x \o y
  BY <1>0, RemovedAt
<1>4. x \in Seq(T) /\ Len(x) = k /\ \A i \in 1 .. k : x[i] = s[i]
  <2>1. k <= Len(s)
    BY <1>0, <1>1, <1>2
  <2> QED BY <1>0, <1>2, <2>1, StartOf
<1>5. z \in Seq(T) /\ Len(z) = k /\ \A i \in 1 .. k : z[i] = a[i]
  <2>1. k <= Len(a)
    BY <1>0 DEF r
  <2> QED BY <1>0, <2>1, StartOf
<1>6. y \in Seq(T) /\ Len(y) = n /\ \A i \in 1 .. n : y[i] = s[r + i]
  <2> DEFINE m == r
             w == r + n
  <2>1. m \in Nat /\ w \in Nat /\ m <= w /\ w <= Len(s) /\ w = Len(s) /\ w - m = n
    BY <1>1, <1>2
  <2> HIDE DEF m, w
  <2>2. SubSeq(s, m + 1, w) \in Seq(T) /\ Len(SubSeq(s, m + 1, w)) = w - m
        /\ \A i \in 1 .. w - m : SubSeq(s, m + 1, w)[i] = s[m + i]
    BY <1>2, <2>1, StretchAt
  <2>3. y = SubSeq(s, m + 1, w)
    BY <2>1 DEF m
  <2> HIDE DEF y
  <2> QED BY <2>1, <2>2, <2>3 DEF m
<1> HIDE DEF x, y, z
<1>7. x = z
  <2>1. \A i \in 1 .. k : x[i] = z[i]
    BY <1>0, <1>2, <1>4, <1>5
  <2> QED BY <1>4, <1>5, <2>1, SeqEqual
<1>8. y = c
  <2>1. Len(c) = n
    BY DEF n
  <2> QED BY <1>2, <1>6, <2>1, SeqEqual
<1> QED BY <1>3, <1>7, <1>8 DEF s, z, k, r

(* Parts come to what those before, between and behind two positions come to. *)
LEMMA LinesCut ==
    ASSUME NEW S, NEW ls \in Seq(Seq(S)), NEW p \in Nat \ {0}, NEW q \in 0 .. Len(ls), p <= q + 1
    PROVE  FlattenSeq(ls) = FlattenSeq(SubSeq(ls, 1, p - 1)) \o FlattenSeq(SubSeq(ls, p, q))
                              \o FlattenSeq(SubSeq(ls, q + 1, Len(ls)))
<1> DEFINE m == SubSeq(ls, 1, q)
           a == SubSeq(ls, 1, p - 1)
           b == SubSeq(ls, p, q)
<1>1. Len(ls) \in Nat /\ q \in Nat /\ p - 1 \in Nat /\ p - 1 + 1 = p
  OBVIOUS
<1>2. m \in Seq(Seq(S)) /\ Len(m) = q /\ \A i \in 1 .. q : m[i] = ls[i]
  BY <1>1
<1>3. FlattenSeq(ls) = FlattenSeq(m) \o FlattenSeq(SubSeq(ls, q + 1, Len(ls)))
  BY FlattenSplit
<1> HIDE DEF m
<1>4. FlattenSeq(m) = FlattenSeq(SubSeq(m, 1, p - 1)) \o FlattenSeq(SubSeq(m, p - 1 + 1, Len(m)))
  <2>1. p - 1 \in 0 .. Len(m)
    BY <1>1, <1>2
  <2> QED BY <1>2, <2>1, FlattenSplit
<1> DEFINE x == SubSeq(m, 1, p - 1)
           y == SubSeq(m, p, q)
<1>5. x \in Seq(Seq(S)) /\ a \in Seq(Seq(S)) /\ Len(x) = p - 1 /\ Len(a) = p - 1 /\ \A i \in 1 .. p - 1 : x[i] = a[i]
  BY <1>1, <1>2
<1>6. y \in Seq(Seq(S)) /\ b \in Seq(Seq(S)) /\ Len(y) = q - p + 1 /\ Len(b) = q - p + 1
      /\ \A i \in 1 .. q - p + 1 : y[i] = b[i]
  BY <1>1, <1>2
<1> HIDE DEF x, y, a, b
<1>7. x = a
  BY <1>5, SeqEqual
<1>8. y = b
  BY <1>6, SeqEqual
<1> QED BY <1>1, <1>2, <1>3, <1>4, <1>7, <1>8 DEF x, y, a, b

\* Three sequences of parts come to what each of them does.
FlattensThree(a, b, c) == FlattenSeq(a \o b \o c) = FlattenSeq(a) \o FlattenSeq(b) \o FlattenSeq(c)

(* They always do. *)
LEMMA ThreeFlattened ==
    ASSUME NEW S, NEW a \in Seq(Seq(S)), NEW b \in Seq(Seq(S)), NEW c \in Seq(Seq(S))
    PROVE  FlattensThree(a, b, c)
<1> DEFINE ab == a \o b
<1>1. ab \in Seq(Seq(S))
  BY ConcatTyped
<1>2. FlattenSeq(ab) = FlattenSeq(a) \o FlattenSeq(b)
  BY FlattenJoined
<1> HIDE DEF ab
<1>3. FlattenSeq(ab \o c) = FlattenSeq(ab) \o FlattenSeq(c)
  BY <1>1, FlattenJoined
<1> QED BY <1>2, <1>3 DEF ab, FlattensThree

(* The rest of a sequence, its first member, and what remains without it. *)
LEMMA WithoutFirst ==
    ASSUME NEW T, NEW s \in Seq(T), NEW q \in Nat, q < Len(s)
    PROVE  /\ SubSeq(s, q + 1, Len(s)) \in Seq(T) /\ SubSeq(s, q + 1, Len(s)) # <<>>
           /\ SubSeq(s, q + 1, Len(s))[1] = s[q + 1]
           /\ SubSeq(SubSeq(s, q + 1, Len(s)), 1 + 1, Len(SubSeq(s, q + 1, Len(s)))) = SubSeq(s, q + 1 + 1, Len(s))
<1> DEFINE n == Len(s)
           c == SubSeq(s, q + 1, n)
           m == Len(c)
           x == SubSeq(c, 1 + 1, m)
           y == SubSeq(s, q + 1 + 1, n)
<1>1. n \in Nat /\ q < n /\ q <= n /\ n <= Len(s)
  OBVIOUS
<1> HIDE DEF n
<1>2. c \in Seq(T) /\ Len(c) = n - q /\ \A i \in 1 .. n - q : c[i] = s[q + i]
  BY <1>1, StretchAt
<1>3. m \in Nat /\ m = n - q /\ 1 <= m /\ m <= Len(c)
  BY <1>1, <1>2
<1> HIDE DEF c, m
<1>4. c # <<>> /\ c[1] = s[q + 1]
  <2>1. c # <<>>
    <3> SUFFICES ASSUME c = <<>> PROVE FALSE
      OBVIOUS
    <3>1. Len(c) = 0
      OBVIOUS
    <3> QED BY <3>1, <1>3
  <2>2. 1 \in 1 .. n - q
    BY <1>1
  <2> QED BY <1>2, <2>1, <2>2
<1>5. x \in Seq(T) /\ Len(x) = m - 1 /\ \A i \in 1 .. m - 1 : x[i] = c[1 + i]
  BY <1>2, <1>3, StretchAt
<1>6. y \in Seq(T) /\ Len(y) = m - 1 /\ \A i \in 1 .. m - 1 : y[i] = s[q + 1 + i]
  <2> DEFINE r == q + 1
  <2>1. r \in Nat /\ r <= n /\ n - r = m - 1
    BY <1>1, <1>3
  <2> HIDE DEF r
  <2>2. SubSeq(s, r + 1, n) \in Seq(T) /\ Len(SubSeq(s, r + 1, n)) = n - r
        /\ \A i \in 1 .. n - r : SubSeq(s, r + 1, n)[i] = s[r + i]
    BY <1>1, <2>1, StretchAt
  <2>3. SubSeq(s, r + 1, n) \in Seq(T) /\ Len(SubSeq(s, r + 1, n)) = m - 1
        /\ \A i \in 1 .. m - 1 : SubSeq(s, r + 1, n)[i] = s[r + i]
    BY <2>1, <2>2
  <2> QED BY <2>3 DEF r
<1> HIDE DEF x, y
<1>7. ASSUME NEW i \in 1 .. m - 1
      PROVE  x[i] = y[i]
  <2> DEFINE k == 1 + i
  <2>1. k \in 1 .. n - q /\ q + k = q + 1 + i
    BY <1>1, <1>3
  <2>2. x[i] = c[k]
    BY <1>5
  <2> HIDE DEF k
  <2>3. c[k] = s[q + k]
    BY <1>2, <2>1
  <2> QED BY <1>6, <2>1, <2>2, <2>3
<1>8. x = y
  BY <1>5, <1>6, <1>7, SeqEqual
<1>9. c \in Seq(T) /\ c # <<>> /\ c[1] = s[q + 1] /\ x = y
  BY <1>2, <1>4, <1>8
<1> QED BY <1>9 DEF c, x, y, m, n

(* One position written in two ways. *)
LEMMA SameStartAs ==
    ASSUME NEW s, NEW k \in Nat
    PROVE  SubSeq(s, 1, k + 1 - 1) = SubSeq(s, 1, k)
<1>1. k + 1 - 1 = k
  OBVIOUS
<1> QED BY <1>1

(* The start of a start. *)
LEMMA StartOfStart ==
    ASSUME NEW T, NEW s \in Seq(T), NEW m \in Nat, NEW k \in Nat, m <= Len(s), k <= m
    PROVE  SubSeq(SubSeq(s, 1, m), 1, k) = SubSeq(s, 1, k)
<1> DEFINE w == SubSeq(s, 1, m)
           x == SubSeq(w, 1, k)
           y == SubSeq(s, 1, k)
<1>1. w \in Seq(T) /\ Len(w) = m /\ \A i \in 1 .. m : w[i] = s[i]
  BY StartOf
<1> HIDE DEF w
<1>2. x \in Seq(T) /\ Len(x) = k /\ \A i \in 1 .. k : x[i] = w[i]
  BY <1>1, StartOf
<1>3. k <= Len(s)
  OBVIOUS
<1>4. y \in Seq(T) /\ Len(y) = k /\ \A i \in 1 .. k : y[i] = s[i]
  BY <1>3, StartOf
<1>5. \A i \in 1 .. k : i \in 1 .. m
  OBVIOUS
<1> HIDE DEF x, y
<1>6. \A i \in 1 .. k : x[i] = y[i]
  BY <1>1, <1>2, <1>4, <1>5
<1>7. x = y
  BY <1>2, <1>4, <1>6, SeqEqual
<1> QED BY <1>7 DEF x, y, w

\* Five sequences, of which the three in the middle are grouped.
JoinsFive(a, g, h, e, c) == a \o g \o h \o e \o c = a \o (g \o h \o e) \o c

(* They may be. *)
LEMMA FiveJoined ==
    ASSUME NEW S, NEW a \in Seq(S), NEW g \in Seq(S), NEW h \in Seq(S), NEW e \in Seq(S), NEW c \in Seq(S)
    PROVE  JoinsFive(a, g, h, e, c)
<1>1. (a \o g) \o h = a \o (g \o h)
  BY ConcatAssociative
<1>2. g \o h \in Seq(S)
  BY ConcatTyped
<1>3. (a \o (g \o h)) \o e = a \o ((g \o h) \o e)
  BY <1>2, ConcatAssociative
<1> QED BY <1>1, <1>3 DEF JoinsFive
=============================================================================
