-------------------------------- MODULE Sift ----------------------------------
(***************************************************************************)
(* Vec::retain and Iterator::filter: the elements of a sequence that are   *)
(* in a set, in their order; and a set of numbers as a sequence.  (As      *)
(* SelectSeq and SetToSortSeq, by counting: each element goes behind as    *)
(* many as are kept ahead of it.)                                          *)
(***************************************************************************)
EXTENDS Integers, FiniteSets, Sequences

\* The n-th number of M, from below.
Ahead(M, i) == {j \in M : j < i}
Nth(M, n) == CHOOSE i \in M : Cardinality(Ahead(M, i)) + 1 = n

Kept(s, S) == {i \in DOMAIN s : s[i] \in S}
Sift(s, S) == [n \in 1..Cardinality(Kept(s, S)) |-> s[Nth(Kept(s, S), n)]]

\* sort_by: the highest first.
Falling(M) == [n \in 1..Cardinality(M) |-> Nth(M, Cardinality(M) + 1 - n)]
=============================================================================
