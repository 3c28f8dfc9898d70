-------------------------------- MODULE SizeT --------------------------------
(* Unsigned arithmetic: a size_t counts modulo the number of its values. *)
EXTENDS Integers

CONSTANT Sizes     \* the number of values of a size_t: 2^64 in the code

ASSUME SizesAssumption == Sizes \in Nat \ {0}

(* Sums and differences of sizes. *)
Plus(a, b) == IF a + b < Sizes THEN a + b ELSE a + b - Sizes

Minus(a, b) == IF a >= b THEN a - b ELSE a - b + Sizes
=============================================================================
