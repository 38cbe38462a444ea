-------------------------- MODULE SubsequenceProofs --------------------------
(* What AtPlaces() leaves of a sequence, and the least of a set of numbers: *)
(* lemmas for the lists of the event loop and of the image sources.        *)
EXTENDS Subsequences, FiniteSetTheorems, TLAPS

Rank(places, i) == Cardinality({j \in places : j <= i})

LEMMA CountTo ==
  ASSUME NEW n \in Nat
  PROVE  IsFiniteSet(1 .. n) /\ Cardinality(1 .. n) = n
<1>1. IsFiniteSet(1 .. n) /\ Cardinality(1 .. n) = IF 1 > n THEN 0 ELSE n - 1 + 1
  BY FS_Interval
<1>2. (IF 1 > n THEN 0 ELSE n - 1 + 1) = n
  OBVIOUS
<1> QED  BY <1>1, <1>2

(* The rank of a place counts the places up to it. *)
LEMMA RankInRange ==
  ASSUME NEW places, IsFiniteSet(places), places \subseteq Nat, NEW i \in places
  PROVE  Rank(places, i) \in 1 .. Cardinality(places)
<1> DEFINE R == {j \in places : j <= i}
<1>1. R \in SUBSET places /\ i \in R
  OBVIOUS
<1>2. IsFiniteSet(R) /\ Cardinality(R) <= Cardinality(places)
  BY <1>1, FS_Subset
<1>3. Cardinality(R) \in Nat /\ Cardinality(places) \in Nat
  BY <1>2, FS_CardinalityType
<1>4. Cardinality(R) # 0
  BY <1>1, <1>2, FS_EmptySet
<1> QED  BY <1>2, <1>3, <1>4 DEF Rank

LEMMA RankRises ==
  ASSUME NEW places, IsFiniteSet(places), places \subseteq Nat,
         NEW i \in places, NEW j \in places, i < j
  PROVE  Rank(places, i) < Rank(places, j)
<1> DEFINE R == {k \in places : k <= i}
           S == {k \in places : k <= j}
<1>1. S \in SUBSET places /\ R \in SUBSET S /\ j \in S /\ j \notin R
  <2>1. i \in Nat /\ j \in Nat /\ \A k \in places : k \in Nat
    OBVIOUS
  <2>2. \A k \in places : k <= i => k <= j
    BY <2>1
  <2>3. j <= j /\ ~(j <= i)
    BY <2>1
  <2> QED  BY <2>2, <2>3
<1>2. IsFiniteSet(S)
  BY <1>1, FS_Subset
<1>3. IsFiniteSet(R) /\ Cardinality(R) <= Cardinality(S)
      /\ (Cardinality(S) = Cardinality(R) => S = R)
  BY <1>1, <1>2, FS_Subset
<1>4. Cardinality(R) \in Nat /\ Cardinality(S) \in Nat
  BY <1>2, <1>3, FS_CardinalityType
<1> QED  BY <1>1, <1>3, <1>4 DEF Rank

(* There is a place of every rank, and Place() finds it. *)
LEMMA PlaceOfRank ==
  ASSUME NEW places, IsFiniteSet(places), places \subseteq Nat
  PROVE  /\ Cardinality(places) \in Nat
         /\ \A n \in 1 .. Cardinality(places) :
              Place(places, n) \in places /\ Rank(places, Place(places, n)) = n
         /\ \A i \in places :
              /\ Rank(places, i) \in 1 .. Cardinality(places)
              /\ Place(places, Rank(places, i)) = i
<1> DEFINE N == Cardinality(places)
           f == [i \in places |-> Rank(places, i)]
<1>1. N \in Nat
  BY FS_CardinalityType
<1>2. IsFiniteSet(1 .. N) /\ Cardinality(1 .. N) = N
  BY <1>1, CountTo
<1>3. \A i \in places : Rank(places, i) \in 1 .. N
  BY RankInRange
<1>4. \A i, j \in places : Rank(places, i) = Rank(places, j) => i = j
  <2> SUFFICES ASSUME NEW i \in places, NEW j \in places,
                      Rank(places, i) = Rank(places, j)
               PROVE  i = j
    OBVIOUS
  <2>1. i \in Nat /\ j \in Nat /\ Rank(places, i) \in Nat /\ Rank(places, j) \in Nat
    BY <1>1, <1>3
  <2>2. ~(i < j) /\ ~(j < i)
    <3>1. ASSUME NEW k \in places, NEW l \in places, k < l,
                 Rank(places, k) = Rank(places, l), Rank(places, k) \in Nat
          PROVE  FALSE
      <4>1. Rank(places, k) < Rank(places, l)
        BY <3>1, RankRises
      <4> QED  BY <3>1, <4>1
    <3> QED  BY <2>1, <3>1
  <2> QED  BY <2>1, <2>2
<1>5. f \in Injection(places, 1 .. N)
  BY <1>3, <1>4 DEF Injection, IsInjective
<1>6. f \in Surjection(places, 1 .. N)
  BY <1>1, <1>2, <1>5, FS_Injection
<1>7. \A n \in 1 .. N : \E i \in places : Rank(places, i) = n
  BY <1>6 DEF Surjection
<1>8. ASSUME NEW n \in 1 .. N
      PROVE  Place(places, n) \in places /\ Rank(places, Place(places, n)) = n
  <2>1. \E i \in places : Cardinality({j \in places : j <= i}) = n
    BY <1>7 DEF Rank
  <2> QED  BY <2>1 DEF Place, Rank
<1>9. ASSUME NEW i \in places PROVE Place(places, Rank(places, i)) = i
  BY <1>3, <1>4, <1>8
<1> QED  BY <1>1, <1>3, <1>8, <1>9

(* What is left are the elements at the places, each of them once and in   *)
(* the same order.                                                         *)
LEMMA LeftAtPlaces ==
  ASSUME NEW S, NEW s \in Seq(S), NEW places, places \subseteq DOMAIN s
  PROVE  /\ AtPlaces(s, places) \in Seq(S)
         /\ IsFiniteSet(places) /\ Cardinality(places) \in Nat
         /\ DOMAIN AtPlaces(s, places) = 1 .. Cardinality(places)
         /\ \A n \in DOMAIN AtPlaces(s, places) :
              Place(places, n) \in places /\ AtPlaces(s, places)[n] = s[Place(places, n)]
         /\ \A m, n \in DOMAIN AtPlaces(s, places) :
              Place(places, m) = Place(places, n) => m = n
         /\ \A i \in places : \E n \in DOMAIN AtPlaces(s, places) : Place(places, n) = i
<1>1. DOMAIN s = 1 .. Len(s) /\ Len(s) \in Nat /\ \A i \in 1 .. Len(s) : s[i] \in S
  OBVIOUS
<1>2. places \in SUBSET (1 .. Len(s))
  BY <1>1
<1>3. IsFiniteSet(places)
  <2>1. IsFiniteSet(1 .. Len(s))
    BY <1>1, CountTo
  <2> QED  BY <1>2, <2>1, FS_Subset
<1>4. places \subseteq Nat
  BY <1>2
<1> DEFINE N == Cardinality(places)
<1>5. /\ N \in Nat
      /\ \A n \in 1 .. N : Place(places, n) \in places /\ Rank(places, Place(places, n)) = n
      /\ \A i \in places : Rank(places, i) \in 1 .. N /\ Place(places, Rank(places, i)) = i
  BY <1>3, <1>4, PlaceOfRank
<1> HIDE DEF N
<1>6. \A n \in 1 .. N : s[Place(places, n)] \in S
  BY <1>1, <1>2, <1>5
<1>7. AtPlaces(s, places) = [n \in 1 .. N |-> s[Place(places, n)]]
  BY DEF AtPlaces, N
<1>8. AtPlaces(s, places) \in Seq(S) /\ DOMAIN AtPlaces(s, places) = 1 .. N
  BY <1>5, <1>6, <1>7
<1> QED  BY <1>3, <1>5, <1>7, <1>8 DEF N

LEMMA NatMinimum ==
  ASSUME NEW T, T \subseteq Nat, T # {}
  PROVE  \E m \in T : \A n \in T : m <= n
<1>1. PICK m \in T : \A n \in T : <<n, m>> \notin OpToRel(<, Nat)
  BY NatLessThanWellFounded, WFMin
<1>2. \A n \in T : ~(n < m)
  BY <1>1 DEF OpToRel
<1> QED  BY <1>2

(* Induction over 0 .. N, for a set of numbers.                            *)
LEMMA UpToLast ==
  ASSUME NEW N \in Nat, NEW S, 0 \in S,
         \A k \in 1 .. N : k - 1 \in S => k \in S
  PROVE  \A k \in 0 .. N : k \in S
<1> DEFINE T == {k \in 0 .. N : k \notin S}
<1> SUFFICES ASSUME T # {} PROVE FALSE
  OBVIOUS
<1>1. PICK m \in T : \A n \in T : m <= n
  <2>1. T \subseteq Nat
    OBVIOUS
  <2> QED  BY <2>1, NatMinimum
<1>2. m \in 1 .. N /\ m - 1 \in 0 .. N /\ m - 1 \notin T
  BY <1>1
<1> QED  BY <1>1, <1>2

=============================================================================
