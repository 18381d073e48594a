-------------------------------- MODULE Orders --------------------------------
(***************************************************************************)
(* Sorting by rank: the models sort sets, by keys without ties, and what   *)
(* they promise of the result is proved from its definition (Counting).    *)
(***************************************************************************)
EXTENDS Integers, FiniteSets

(* The elements up to x, x among them, where R is the set of the pairs in *)
(* order; their number is the rank of x.                                  *)
UpToIn(R, S, x) == {y \in S : y = x \/ <<y, x>> \in R}

(* The elements of S as a sequence, by rank. *)
InOrder(R, S) ==
    [k \in 1..Cardinality(S) |-> CHOOSE x \in S : Cardinality(UpToIn(R, S, x)) = k]

(* The elements of the sequence s that are in K, where they were (what SelectSeq *)
(* answers for a test that K passes).                                            *)
PlacesOf(s, K) == {i \in DOMAIN s : s[i] \in K}
Ascending(places) == {p \in places \X places : p[1] < p[2]}
Kept(s, K) ==
    LET places == PlacesOf(s, K)
    IN  [k \in 1..Cardinality(places) |-> s[InOrder(Ascending(places), places)[k]]]
===============================================================================
