------------------------------- MODULE Packing -------------------------------
(***************************************************************************)
(* Packed integers (the word_packing library): vectors whose elements are  *)
(* fields of a fixed number of bits.                                       *)
(***************************************************************************)
EXTENDS Integers

CONSTANT MaxWidth    \* the widest field of a packed vector (64 in the code)

(* The numbers of values a field can hold are positive integers, and grow  *)
(* with its width.  (TLAPS has no theory of exponentiation; TLC evaluates  *)
(* this for the instance.)                                                 *)
ASSUME WidthAssumption ==
  /\ MaxWidth \in Nat /\ 2^0 = 1
  /\ \A w \in 0 .. MaxWidth : 2^w \in Nat \ {0} /\ \A v \in 0 .. (w - 1) : 2^v < 2^w

(* A value stored in a field reads back as its low `width` bits. *)
Packed(width, value) == value % (2^width)

(* The number of bits ceil(log2(v)) of a positive value v <= 2^MaxWidth. *)
CeilLog2(v) == CHOOSE b \in 0 .. MaxWidth : 2^b >= v /\ \A c \in 0 .. (b - 1) : 2^c < v
=============================================================================
