----------------------------- MODULE MCGrammars -----------------------------
(***************************************************************************)
(* Grammars as renumbering leaves them, for the model checker, built from  *)
(* their bodies.                                                           *)
(* Characters are 0 and 1, so models set RuleOffset to 2.                  *)
(***************************************************************************)
EXTENDS Lengths

R(id) == NonTerminal(id)

Nonempty(symbols, n) == SeqOf(symbols, n) \ {<< >>}

(* The grammar with bodies[r + 1] for rule r, and its derivation. *)
Ordered(bodies) ==
  Derived([count |-> Len(bodies),
           start |-> Len(bodies) - 1,
           rules |-> [r \in 0 .. (Len(bodies) - 1) |-> DecodedRule(bodies[r + 1])]])

(* The rules in the order in which a search from r numbers them, after     *)
(* those that have a number.                                               *)
RECURSIVE Visited(_, _, _)
Visited(g, r, numbered) ==
  IF r \in ToSet(numbered) THEN numbered
  ELSE LET Visit(sofar, symbol) ==
             IF IsTerminal(symbol) THEN sofar ELSE Visited(g, RuleId(symbol), sofar)
       IN  Append(FoldLeft(Visit, numbered, g.rules[r].symbols), r)

(* Every rule is reached, and has the number renumbering would give it.    *)
IsRenumbered(g) == Visited(g, g.start, << >>) = [i \in 1 .. g.count |-> i - 1]

TwoRules == {<< <<0, 1, 1>>, b >> : b \in Nonempty({1, R(0)}, 4)}

(* The start rule's body nests the rule of b1 and repeats the first one.   *)
ThreeRules ==
  {<< <<0, 1>>, b1, b2 >> : b1 \in Nonempty({1, R(0)}, 3),
                           b2 \in {b \in Nonempty({1, R(0), R(1)}, 3) : R(1) \in ToSet(b)}}

(* Grammars that nest deeply, repeat a rule, or put a long symbol at the   *)
(* front or the back.                                                      *)
Deep == {
  << <<0, 1>>, <<R(0), 1>>, <<0, R(1)>>, <<R(0), R(2), R(1)>> >>,
  << <<0, 1, 1>>, <<1, R(0), 0>>, <<R(1), R(0)>> >>,
  << <<1, 0, 1>>, <<0, R(0), 1, R(0)>>, <<1, 1, R(1)>> >>,
  << <<0>>, <<1, R(0)>>, <<R(1), R(0)>>, <<R(2), R(1), R(2)>> >>,
  << <<0, 1>>, <<1, R(0)>>, <<1, R(1), R(1)>>, <<R(2), 0>> >>,
  << <<0>>, <<R(0), R(0)>>, <<1, R(1)>>, <<R(1), R(2), 1, 1>> >>,
  << <<0, 0, 1>>, <<R(0)>>, <<R(1), 1, 1>>, <<R(2), R(1), 0>> >> }

(* Those whose lengths the packing keeps. *)
ExactGrammars ==
  {g \in {Ordered(b) : b \in TwoRules \cup ThreeRules \cup Deep} : IsRenumbered(g) /\ LengthsExact(g)}
=============================================================================
