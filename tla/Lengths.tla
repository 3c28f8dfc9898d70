------------------------------- MODULE Lengths -------------------------------
(***************************************************************************)
(* The lengths a query grammar works with: m_start_rule_full_length for    *)
(* the start rule and, for the others, what the packed m_full_lengths      *)
(* gives back.  FullLengths checks that calculate_full_lengths leaves      *)
(* these; the query modules read them.                                     *)
(*                                                                         *)
(* Bound: texts are shorter than 2^32 (m_start_rule_full_length is a       *)
(* uint32) and shorter than 2^64 (the fields during the summation).        *)
(***************************************************************************)
EXTENDS Grammars

(* max_len: the longest rule other than the start rule, 0 if there is none. *)
LongestLength(g) == Max({0} \cup {Length(g, r) : r \in Ids(g) \ {g.start}})

(* The start rule is not among the packed lengths. *)
StoredLength(g, r) ==
  IF r = g.start THEN Length(g, r)
  ELSE Packed(CeilLog2(LongestLength(g)), Length(g, r))

(***************************************************************************)
(* The grammars whose lengths survive the packing.  The others are what    *)
(* the run of FullLengths!RuleLengthExact is about.                        *)
(***************************************************************************)
LengthsExact(g) == \A r \in Ids(g) : StoredLength(g, r) = Length(g, r)
=============================================================================
