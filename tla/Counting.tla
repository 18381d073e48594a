------------------------------- MODULE Counting -------------------------------
(***************************************************************************)
(* Lemmas about finite sets in a strict order, given as the set R of its   *)
(* pairs: what the models say of ranks, first occurrences and slots rests  *)
(* on them.                                                                *)
(***************************************************************************)
EXTENDS Orders, Integers, Sequences, Functions, FiniteSetTheorems, SequenceTheorems,
        WellFoundedInduction, TLAPS

StrictOrder(R, S) ==
    /\ \A x \in S : <<x, x>> \notin R
    /\ \A x, y, z \in S : <<x, y>> \in R /\ <<y, z>> \in R => <<x, z>> \in R
    /\ \A x, y \in S : x = y \/ <<x, y>> \in R \/ <<y, x>> \in R

(* A set of natural numbers that is not empty has a least one. *)
LEMMA LeastNumber ==
    ASSUME NEW T \in SUBSET Nat, T # {}
    PROVE  \E n \in T : \A m \in T : n <= m
PROOF
<1> DEFINE R == OpToRel(<, Nat)
<1>1. IsWellFoundedOn(R, Nat)
  BY NatLessThanWellFounded
<1>2. \A n, m \in Nat : <<n, m>> \in R <=> n < m
  BY DEF OpToRel
<1> HIDE DEF R
<1>3. PICK n \in T : \A m \in T : <<m, n>> \notin R
  BY <1>1, WFMin
<1>4. ASSUME NEW m \in T PROVE n <= m
  <2>1. n \in Nat /\ m \in Nat
    OBVIOUS
  <2>2. ~(m < n)
    BY <1>2, <1>3, <2>1
  <2> QED BY <2>1, <2>2
<1> QED BY <1>4

(* Different elements have different ranks ... *)
LEMMA RanksDiffer ==
    ASSUME NEW S, IsFiniteSet(S), NEW R, StrictOrder(R, S), NEW x \in S, NEW y \in S, x # y
    PROVE  Cardinality(UpToIn(R, S, x)) # Cardinality(UpToIn(R, S, y))
PROOF
<1>1. ASSUME NEW a \in S, NEW b \in S, <<a, b>> \in R
      PROVE  Cardinality(UpToIn(R, S, a)) # Cardinality(UpToIn(R, S, b))
  <2>1. UpToIn(R, S, b) \in SUBSET S
    BY DEF UpToIn
  <2>2. IsFiniteSet(UpToIn(R, S, b))
    BY <2>1, FS_Subset
  <2>3. UpToIn(R, S, a) \in SUBSET UpToIn(R, S, b)
    BY <1>1 DEF UpToIn, StrictOrder
  <2>4. b \in UpToIn(R, S, b) /\ b \notin UpToIn(R, S, a)
    BY <1>1 DEF UpToIn, StrictOrder
  <2> QED BY <2>2, <2>3, <2>4, FS_Subset
<1>2. CASE <<x, y>> \in R
  BY <1>1, <1>2
<1>3. CASE <<y, x>> \in R
  BY <1>1, <1>3
<1> QED BY <1>2, <1>3 DEF StrictOrder

(* ... between one and the number of elements, ... *)
LEMMA RankInRange ==
    ASSUME NEW S, IsFiniteSet(S), NEW R, NEW x \in S
    PROVE  Cardinality(UpToIn(R, S, x)) \in 1..Cardinality(S)
PROOF
<1>1. UpToIn(R, S, x) \in SUBSET S /\ x \in UpToIn(R, S, x)
  BY DEF UpToIn
<1>2. /\ IsFiniteSet(UpToIn(R, S, x))
      /\ Cardinality(UpToIn(R, S, x)) <= Cardinality(S)
  BY <1>1, FS_Subset
<1>3. Cardinality(UpToIn(R, S, x)) # 0
  BY <1>1, <1>2, FS_EmptySet
<1>4. Cardinality(UpToIn(R, S, x)) \in Nat /\ Cardinality(S) \in Nat
  BY <1>2, FS_CardinalityType
<1> QED BY <1>2, <1>3, <1>4

(* ... so that every number up to that is somebody's rank. *)
LEMMA EveryRankTaken ==
    ASSUME NEW S, IsFiniteSet(S), NEW R, StrictOrder(R, S), NEW k \in 1..Cardinality(S)
    PROVE  \E x \in S : Cardinality(UpToIn(R, S, x)) = k
PROOF
<1> DEFINE n == Cardinality(S)
           f == [x \in S |-> Cardinality(UpToIn(R, S, x))]
<1>1. n \in Nat
  BY FS_CardinalityType
<1>2. f \in [S -> 1..n]
  BY RankInRange
<1>3. \A x, y \in S : f[x] = f[y] => x = y
  BY RanksDiffer
<1>4. f \in Injection(S, 1..n)
  BY <1>2, <1>3 DEF Injection, IsInjective
<1>5. IsFiniteSet(1..n) /\ Cardinality(1..n) = n
  BY <1>1, FS_Interval
<1>6. f \in Surjection(S, 1..n)
  <2> HIDE DEF f
  <2> QED BY <1>4, <1>5, FS_Injection
<1>7. PICK x \in S : f[x] = k
  BY <1>6 DEF Surjection
<1> QED BY <1>7

(* A sorted set has its elements, each once, ... *)
LEMMA SortedAgain ==
    ASSUME NEW S, IsFiniteSet(S), NEW R, StrictOrder(R, S)
    PROVE  /\ Cardinality(S) \in Nat /\ InOrder(R, S) \in [1..Cardinality(S) -> S]
           /\ \A x \in S : \E k \in 1..Cardinality(S) : InOrder(R, S)[k] = x
           /\ \A j, k \in 1..Cardinality(S) : InOrder(R, S)[j] = InOrder(R, S)[k] => j = k
PROOF
<1> DEFINE n == Cardinality(S)
           q == InOrder(R, S)
           rank(x) == Cardinality(UpToIn(R, S, x))
<1>1. n \in Nat
  BY FS_CardinalityType
<1>2. \A k \in 1..n : \E x \in S : rank(x) = k
  BY EveryRankTaken
<1>3. \A k \in 1..n : q[k] = CHOOSE x \in S : rank(x) = k
  BY DEF InOrder
<1>4. \A k \in 1..n : q[k] \in S /\ rank(q[k]) = k
  <2> HIDE DEF rank, q
  <2> QED BY <1>2, <1>3
<1>5. q = [k \in 1..n |-> q[k]]
  BY DEF InOrder
<1>6. \A x \in S : rank(x) \in 1..n
  BY RankInRange
<1>7. \A x, y \in S : rank(x) = rank(y) => x = y
  BY RanksDiffer
<1> HIDE DEF rank, q, n
<1>8. \A x \in S : q[rank(x)] = x
  BY <1>4, <1>6, <1>7
<1>9. q \in [1..n -> S]
  BY <1>4, <1>5
<1>10. \A x \in S : \E k \in 1..n : q[k] = x
  BY <1>6, <1>8
<1>11. \A j, k \in 1..n : q[j] = q[k] => j = k
  BY <1>4
<1> QED BY <1>1, <1>9, <1>10, <1>11 DEF n, q

(* ... and the last of its elements is in order after all others. *)
LEMMA LastElement ==
    ASSUME NEW S, IsFiniteSet(S), NEW R, StrictOrder(R, S), S # {}
    PROVE  \E x \in S : \A y \in S \ {x} : <<y, x>> \in R
PROOF
<1>1. Cardinality(S) \in Nat /\ Cardinality(S) # 0
  BY FS_CardinalityType, FS_EmptySet
<1>2. PICK x \in S : Cardinality(UpToIn(R, S, x)) = Cardinality(S)
  BY <1>1, EveryRankTaken
<1>3. UpToIn(R, S, x) \in SUBSET S
  BY DEF UpToIn
<1>4. UpToIn(R, S, x) = S
  BY <1>2, <1>3, FS_Subset
<1> QED BY <1>4 DEF UpToIn

(* Numbers are in order. *)
LEMMA NumbersOrdered ==
    ASSUME NEW I, \A i \in I : i \in Int
    PROVE  StrictOrder(Ascending(I), I)
PROOF
<1>1. \A i, j \in I : <<i, j>> \in Ascending(I) <=> i < j
  BY DEF Ascending
<1> QED BY <1>1 DEF StrictOrder

(* What is kept of a sequence are its elements in K, in their old order; and if *)
(* its last element is one of them, it is still the last.                      *)
LEMMA KeptElements ==
    ASSUME NEW n \in Nat, NEW s, DOMAIN s = 1..n, NEW K
    PROVE  /\ Cardinality(PlacesOf(s, K)) \in Nat
           /\ DOMAIN Kept(s, K) = 1..Cardinality(PlacesOf(s, K))
           /\ \A k \in DOMAIN Kept(s, K) :
                 Kept(s, K)[k] \in K /\ \E i \in 1..n : Kept(s, K)[k] = s[i]
           /\ n > 0 /\ s[n] \in K =>
                 /\ Cardinality(PlacesOf(s, K)) > 0
                 /\ Kept(s, K)[Cardinality(PlacesOf(s, K))] = s[n]
PROOF
<1> DEFINE I == PlacesOf(s, K)
           R == Ascending(I)
           c == Cardinality(I)
           q == InOrder(R, I)
<1>1. I \in SUBSET (1..n) /\ \A i \in I : s[i] \in K
  BY DEF PlacesOf
<1>2. IsFiniteSet(I)
  <2>1. IsFiniteSet(1..n)
    BY FS_Interval
  <2> QED BY <1>1, <2>1, FS_Subset
<1>3. StrictOrder(R, I)
  <2>1. \A i \in I : i \in Int
    BY <1>1
  <2> HIDE DEF I
  <2> QED BY <2>1, NumbersOrdered
<1>4. Kept(s, K) = [k \in 1..c |-> s[q[k]]]
  BY DEF Kept
<1>5. n > 0 /\ s[n] \in K => n \in I
  BY DEF PlacesOf
<1>6. ASSUME n \in I PROVE UpToIn(R, I, n) = I
  <2>1. \A i \in I : i = n \/ <<i, n>> \in R
    BY <1>1, <1>6 DEF Ascending
  <2> QED BY <1>6, <2>1 DEF UpToIn
<1> HIDE DEF I, R
<1>7. c \in Nat /\ q \in [1..c -> I] /\ \A x \in I : \E k \in 1..c : q[k] = x
  BY <1>2, <1>3, SortedAgain
<1>8. ASSUME n \in I PROVE c > 0 /\ q[c] = n
  <2>1. c # 0
    BY <1>2, <1>8, FS_EmptySet
  <2>2. \E x \in I : Cardinality(UpToIn(R, I, x)) = c
    BY <1>6, <1>8
  <2>3. q[c] = CHOOSE x \in I : Cardinality(UpToIn(R, I, x)) = c
    BY <1>7, <2>1 DEF InOrder
  <2>4. q[c] \in I /\ Cardinality(UpToIn(R, I, q[c])) = Cardinality(UpToIn(R, I, n))
    <3> HIDE DEF q
    <3> QED BY <1>6, <1>8, <2>2, <2>3
  <2>5. q[c] = n
    <3> HIDE DEF q
    <3> QED BY <1>2, <1>3, <1>8, <2>4, RanksDiffer
  <2> QED BY <1>7, <2>1, <2>5
<1> HIDE DEF q, c
<1>9. \A k \in 1..c : s[q[k]] \in K /\ \E i \in 1..n : s[q[k]] = s[i]
  BY <1>1, <1>7
<1>10. /\ c \in Nat
       /\ DOMAIN Kept(s, K) = 1..c
       /\ \A k \in 1..c : Kept(s, K)[k] \in K /\ \E i \in 1..n : Kept(s, K)[k] = s[i]
       /\ n > 0 /\ s[n] \in K => c > 0 /\ Kept(s, K)[c] = s[n]
  BY <1>4, <1>5, <1>7, <1>8, <1>9
<1> QED BY <1>10 DEF c, I

LEMMA KeptOfList ==
    ASSUME NEW T, NEW s \in Seq(T), NEW K
    PROVE  /\ Kept(s, K) \in Seq(T)
           /\ \A k \in DOMAIN Kept(s, K) :
                 Kept(s, K)[k] \in K /\ \E i \in DOMAIN s : Kept(s, K)[k] = s[i]
           /\ s # <<>> /\ s[Len(s)] \in K =>
                 Kept(s, K) # <<>> /\ Kept(s, K)[Len(Kept(s, K))] = s[Len(s)]
PROOF
<1>1. PICK n \in Nat : n = Len(s) /\ DOMAIN s = 1..n
  OBVIOUS
<1>2. PICK c \in Nat : c = Cardinality(PlacesOf(s, K)) /\ DOMAIN Kept(s, K) = 1..c
  BY <1>1, KeptElements
<1>3. \A k \in DOMAIN Kept(s, K) :
         Kept(s, K)[k] \in K /\ \E i \in DOMAIN s : Kept(s, K)[k] = s[i]
  BY <1>1, KeptElements
<1>4. Kept(s, K) = [k \in 1..c |-> Kept(s, K)[k]]
  BY <1>2 DEF Kept
<1>5. \A k \in 1..c : Kept(s, K)[k] \in T
  BY <1>2, <1>3
<1>6. Kept(s, K) \in Seq(T) /\ Len(Kept(s, K)) = c
  BY <1>4, <1>5
<1>7. n > 0 /\ s[n] \in K => c > 0 /\ Kept(s, K)[c] = s[n]
  BY <1>1, <1>2, KeptElements
<1>8. s # <<>> => n > 0
  BY <1>1
<1>9. c > 0 => Kept(s, K) # <<>>
  BY <1>6
<1> QED BY <1>1, <1>3, <1>6, <1>7, <1>8, <1>9

(* What is kept comes in the old order, and all of it. *)
LEMMA KeptInOrder ==
    ASSUME NEW n \in Nat, NEW s, DOMAIN s = 1..n, NEW K
    PROVE  \E q : /\ \A k \in DOMAIN Kept(s, K) : q[k] \in 1..n /\ Kept(s, K)[k] = s[q[k]]
                  /\ \A j, k \in DOMAIN Kept(s, K) : j < k => q[j] < q[k]
                  /\ \A i \in 1..n : s[i] \in K => \E k \in DOMAIN Kept(s, K) : q[k] = i
PROOF
<1> DEFINE I == PlacesOf(s, K)
           R == Ascending(I)
           c == Cardinality(I)
           q == InOrder(R, I)
           rank(i) == Cardinality(UpToIn(R, I, i))
<1>1. /\ I \in SUBSET (1..n) /\ \A i \in I : i \in Int
      /\ \A i \in 1..n : s[i] \in K => i \in I
  BY DEF PlacesOf
<1>2. IsFiniteSet(I)
  <2>1. IsFiniteSet(1..n)
    BY FS_Interval
  <2> QED BY <1>1, <2>1, FS_Subset
<1>3. /\ StrictOrder(R, I)
      /\ \A i, j \in I : i < j => <<i, j>> \in R
  <2>1. \A i \in I : i \in Int
    BY <1>1
  <2>2. \A i, j \in I : i < j => <<i, j>> \in R
    BY DEF Ascending
  <2> HIDE DEF I
  <2> QED BY <2>1, <2>2, NumbersOrdered
<1>4. Kept(s, K) = [k \in 1..c |-> s[q[k]]]
  BY DEF Kept
<1>5. \A k \in 1..c : q[k] = CHOOSE x \in I : rank(x) = k
  BY DEF InOrder
<1> HIDE DEF I, R
<1>6. c \in Nat /\ q \in [1..c -> I] /\ \A x \in I : \E k \in 1..c : q[k] = x
  BY <1>2, <1>3, SortedAgain
<1>7. \A k \in 1..c : \E x \in I : rank(x) = k
  BY <1>2, <1>3, EveryRankTaken
<1>8. \A k \in 1..c : q[k] \in I /\ rank(q[k]) = k
  <2> HIDE DEF rank, q
  <2> QED BY <1>5, <1>7
<1>9. ASSUME NEW i \in I, NEW j \in I, i < j PROVE rank(i) <= rank(j)
  <2>1. UpToIn(R, I, i) \in SUBSET UpToIn(R, I, j)
    BY <1>3, <1>9 DEF UpToIn, StrictOrder
  <2>2. UpToIn(R, I, j) \in SUBSET I
    BY DEF UpToIn
  <2> QED BY <1>2, <2>1, <2>2, FS_Subset
<1> HIDE DEF q, c, rank
<1>10. ASSUME NEW j \in 1..c, NEW k \in 1..c, j < k PROVE q[j] < q[k]
  <2>1. q[j] \in I /\ q[k] \in I /\ rank(q[j]) = j /\ rank(q[k]) = k
    BY <1>8
  <2>2. q[j] \in Int /\ q[k] \in Int
    BY <1>1, <2>1
  <2>3. ~(q[k] < q[j])
    BY <1>6, <1>9, <1>10, <2>1
  <2>4. q[j] # q[k]
    BY <1>10, <2>1
  <2> QED BY <2>2, <2>3, <2>4
<1>11. DOMAIN Kept(s, K) = 1..c /\ \A k \in 1..c : q[k] \in 1..n /\ Kept(s, K)[k] = s[q[k]]
  BY <1>1, <1>4, <1>8
<1> WITNESS q
<1> QED BY <1>1, <1>6, <1>10, <1>11

(* Sets without a common element count as much together as one by one. *)
LEMMA CountedApart ==
    ASSUME NEW S, NEW T, IsFiniteSet(S), IsFiniteSet(T), S \cap T = {}
    PROVE  /\ IsFiniteSet(S \cup T)
           /\ Cardinality(S \cup T) = Cardinality(S) + Cardinality(T)
           /\ Cardinality(S) \in Nat /\ Cardinality(T) \in Nat
PROOF
<1>1. Cardinality(S) \in Nat /\ Cardinality(T) \in Nat /\ Cardinality(S \cap T) = 0
  BY FS_CardinalityType, FS_EmptySet
<1>2. /\ IsFiniteSet(S \cup T)
      /\ Cardinality(S \cup T) = Cardinality(S) + Cardinality(T) - Cardinality(S \cap T)
  BY FS_Union
<1>3. Cardinality(S \cup T) = Cardinality(S) + Cardinality(T)
  BY <1>1, <1>2
<1> QED BY <1>1, <1>2, <1>3

-----------------------------------------------------------------------------
(* Induction over the subsets of a finite set: what holds of the empty set, and *)
(* of a set if of the set without some element of it, holds of all (P is the   *)
(* set of the sets it holds of).                                               *)
LEMMA Smaller ==
    ASSUME NEW S, IsFiniteSet(S), NEW s \in SUBSET S, NEW x \in s
    PROVE  /\ Cardinality(s) \in Nat /\ s \ {x} \in SUBSET S
           /\ Cardinality(s \ {x}) \in Nat /\ Cardinality(s \ {x}) < Cardinality(s)
PROOF
<1>1. IsFiniteSet(s)
  BY FS_Subset
<1>2. IsFiniteSet(s \ {x}) /\ Cardinality(s \ {x}) = Cardinality(s) - 1
  BY <1>1, FS_RemoveElement
<1>3. Cardinality(s) \in Nat /\ Cardinality(s \ {x}) \in Nat
  BY <1>1, <1>2, FS_CardinalityType
<1> QED BY <1>2, <1>3

LEMMA SubsetInduction ==
    ASSUME NEW S, IsFiniteSet(S), NEW P, {} \in P,
           \A s \in (SUBSET S) \ {{}} : \E x \in s : s \ {x} \in P => s \in P
    PROVE  SUBSET S \subseteq P
PROOF
<1> DEFINE T == {n \in Nat : \E s \in SUBSET S : Cardinality(s) = n /\ s \notin P}
<1>1. \A s \in SUBSET S : Cardinality(s) \in Nat
  BY FS_Subset, FS_CardinalityType
<1>2. ASSUME T # {} PROVE FALSE
  <2>1. PICK n \in T : \A m \in T : n <= m
    <3>1. T \in SUBSET Nat
      OBVIOUS
    <3> HIDE DEF T
    <3> QED BY <1>2, <3>1, LeastNumber
  <2>2. PICK s \in SUBSET S : Cardinality(s) = n /\ s \notin P
    OBVIOUS
  <2>3. PICK x \in s : s \ {x} \in P => s \in P
    BY <2>2
  <2>4. /\ Cardinality(s) \in Nat /\ s \ {x} \in SUBSET S
        /\ Cardinality(s \ {x}) \in Nat /\ Cardinality(s \ {x}) < Cardinality(s)
    BY Smaller
  <2>5. Cardinality(s \ {x}) \notin T
    <3> HIDE DEF T
    <3> QED BY <2>1, <2>2, <2>4
  <2>6. s \ {x} \in P
    BY <2>4, <2>5
  <2> QED BY <2>2, <2>3, <2>6
<1> QED BY <1>1, <1>2

(* A function on the subsets of S, defined from the value without the element *)
(* c[s] of s: there is one.                                                   *)
TakenOff(S, c, b, step, f) ==
    [s \in SUBSET S |-> IF s = {} THEN b ELSE step[<<s, f[s \ {c[s]}]>>]]

LEMMA TakingOff ==
    ASSUME NEW S, IsFiniteSet(S), NEW c, NEW b, NEW step,
           \A s \in (SUBSET S) \ {{}} : c[s] \in s
    PROVE  \E f : f = TakenOff(S, c, b, step, f)
PROOF
<1> DEFINE Upto(n, f) == /\ f = [s \in SUBSET S |-> f[s]]
                         /\ \A s \in SUBSET S : Cardinality(s) <= n =>
                               f[s] = TakenOff(S, c, b, step, f)[s]
           T == {n \in Nat : ~\E f : Upto(n, f)}
<1>1. \A s \in SUBSET S : IsFiniteSet(s) /\ Cardinality(s) \in Nat
                           /\ Cardinality(s) <= Cardinality(S)
  BY FS_Subset, FS_CardinalityType
<1>2. ASSUME T # {} PROVE FALSE
  <2>1. PICK n \in T : \A m \in T : n <= m
    <3> HIDE DEF T
    <3>1. T \in SUBSET Nat
      BY DEF T
    <3> QED BY <1>2, <3>1, LeastNumber
  <2>2. n \in Nat /\ ~\E f : Upto(n, f)
    OBVIOUS
  <2>3. CASE n = 0
    <3> DEFINE f == [s \in SUBSET S |-> b]
    <3>1. \A s \in SUBSET S : Cardinality(s) <= 0 => s = {}
      BY <1>1, FS_EmptySet
    <3>2. Upto(0, f)
      BY <3>1 DEF TakenOff
    <3> QED BY <2>2, <2>3, <3>2
  <2>4. CASE n # 0
    <3>1. n - 1 \in Nat /\ n - 1 \notin T
      <4> HIDE DEF T
      <4>1. n - 1 \in Nat /\ ~(n <= n - 1)
        BY <2>2, <2>4
      <4> QED BY <2>1, <4>1
    <3>2. PICK f : Upto(n - 1, f)
      BY <3>1
    <3> DEFINE g == TakenOff(S, c, b, step, f)
    <3>3. g = [s \in SUBSET S |-> g[s]]
      BY DEF TakenOff
    <3>4. ASSUME NEW s \in SUBSET S, Cardinality(s) <= n
          PROVE  g[s] = TakenOff(S, c, b, step, g)[s]
      <4>1. CASE s = {}
        BY <4>1 DEF TakenOff
      <4>2. CASE s # {}
        <5> DEFINE r == s \ {c[s]}
        <5>1. r \in SUBSET S /\ Cardinality(r) <= n - 1
          <6>1. /\ Cardinality(s) \in Nat /\ r \in SUBSET S
                /\ Cardinality(r) \in Nat /\ Cardinality(r) < Cardinality(s)
            <7>1. PICK x \in s : x = c[s]
              BY <4>2
            <7>2. /\ Cardinality(s) \in Nat /\ s \ {x} \in SUBSET S
                  /\ Cardinality(s \ {x}) \in Nat /\ Cardinality(s \ {x}) < Cardinality(s)
              BY Smaller
            <7> QED BY <7>1, <7>2
          <6> QED BY <3>4, <6>1, <2>2
        <5>2. g[r] = f[r]
          BY <3>2, <5>1
        <5> QED BY <4>2, <5>2 DEF TakenOff
      <4> QED BY <4>1, <4>2
    <3>5. Upto(n, g)
      BY <3>3, <3>4
    <3> QED BY <2>2, <3>5
  <2> QED BY <2>3, <2>4
<1>3. PICK f : Upto(Cardinality(S), f)
  BY <1>2, FS_CardinalityType
<1>4. f = TakenOff(S, c, b, step, f)
  BY <1>1, <1>3 DEF TakenOff
<1> QED BY <1>4
===============================================================================
