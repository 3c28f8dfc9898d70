--------------------------- MODULE MCSampledScan ---------------------------
(***************************************************************************)
(* The grammars of MCGrammars, all of them through the constructor and the *)
(* queries; and all renumbered grammars of three rules with bodies of at   *)
(* most three symbols whose lengths the packing does not keep, for the     *)
(* lengths alone.  Texts that end on a block boundary are among the inputs, and    *)
(* others.                                                                 *)
(***************************************************************************)
EXTENDS SampledScan, MCGrammars

Bodies(r) == Nonempty({1} \cup {R(c) : c \in 0 .. (r - 1)}, 3)

OneRule == {Ordered(<< b >>) : b \in Bodies(0)}

SmallGrammars ==
  {g \in {Ordered(<< b0, b1, b2 >>) : b0 \in Bodies(0), b1 \in Bodies(1), b2 \in Bodies(2)} :
     IsRenumbered(g)}

MCInputs == ExactGrammars \cup OneRule \cup {g \in SmallGrammars : ~LengthsExact(g)}

(* Grammars with a rule, other than the start rule, of two characters or more. *)
LongInputs == {g \in SmallGrammars : LongestLength(g) >= 2}

ASSUME \E g \in ExactGrammars : Length(g, g.start) % Sampling = 0
ASSUME \E g \in ExactGrammars : Length(g, g.start) % Sampling # 0
=============================================================================
