--------------------------- MODULE MCPermutation ---------------------------
(***************************************************************************)
(* All permutations of two to six elements, and some of nine, in one cycle *)
(* or in a long one and a short one; the shortcuts of nine elements are    *)
(* four apart.                                                             *)
(***************************************************************************)
EXTENDS Permutation

Range0(n) == 0 .. (n - 1)

AllOf(n) == {p \in [Range0(n) -> Range0(n)] : IsInjective(p)}

(* One cycle of the first n - rest elements, every step of length `by`. *)
Cycles(n, rest, by) ==
  [k \in Range0(n) |-> IF k < n - rest THEN (k + by) % (n - rest) ELSE IF k = n - 1 THEN n - rest ELSE k + 1]

MCInputs ==
  UNION {AllOf(n) : n \in 2 .. 6}
    \cup {Cycles(9, 0, by) : by \in {1, 2, 4, 5, 7, 8}} \cup {Cycles(9, 2, by) : by \in 1 .. 6}
=============================================================================
