----------------------------- MODULE BitVectors -----------------------------
(***************************************************************************)
(* Bit vectors with rank and select (the bm and sdsl libraries), as the    *)
(* sets of the positions of their ones.                                    *)
(***************************************************************************)
EXTENDS Integers, FiniteSets

(* The ones before a position. *)
Rank(S, at) == Cardinality({x \in S : x < at})

(* The position of the k-th one. *)
Select(S, k) == CHOOSE x \in S : Rank(S, x + 1) = k
=============================================================================
