----------------------------- MODULE MCRenumber -----------------------------
(***************************************************************************)
(* Grammars for the model checker.  All grammars of three rules with       *)
(* bodies of two symbols whose ids are in any order, from any start rule   *)
(* (so some rules may be out of reach), and the grammars of four rules     *)
(* where every rule occurs in a later one, under every renaming.           *)
(***************************************************************************)
EXTENDS Renumber

Orders(n) == {p \in [0 .. (n - 1) -> 0 .. (n - 1)] : IsInjective(p)}

(* The grammar with bodies[i + 1] for rule i, rule i renamed p[i]. *)
Named(bodies, p, start) ==
  LET n == Len(bodies)
      rename(s) == IF IsTerminal(s) THEN s ELSE NonTerminal(p[RuleId(s)])
      body(b) == [i \in 1 .. Len(b) |-> rename(b[i])]
  IN  [count |-> n,
       start |-> p[start],
       rules |-> [q \in 0 .. (n - 1) |->
                    DecodedRule(body(bodies[(CHOOSE r \in 0 .. (n - 1) : p[r] = q) + 1]))]]

Character == RuleOffset - 1

(* Bodies of rule r: characters and rules with a smaller number. *)
Bodies(r) == SeqOf({Character} \cup {NonTerminal(c) : c \in 0 .. (r - 1)}, 2) \ {<< >>}

ThreeRules ==
  {Named(<< b0, b1, b2 >>, p, s) :
     b0 \in Bodies(0), b1 \in Bodies(1), b2 \in Bodies(2), p \in Orders(3), s \in 0 .. 2}

R(id) == NonTerminal(id)

Shapes4 == {
  << <<1, 1>>, <<R(0), R(0)>>, <<R(1), 1>>, <<0, R(2)>> >>,
  << <<1, 1>>, <<R(0), 1>>, <<R(1), R(0)>>, <<R(2), R(1), R(0)>> >>,
  << <<1>>, <<1, R(0)>>, <<R(0), 1>>, <<R(1), R(2)>> >>,
  << <<1, 0>>, <<0, 1>>, <<1, 1>>, <<R(0), R(1), R(2), R(0)>> >>,
  << <<0, 1>>, <<R(0)>>, <<R(1), R(1)>>, <<1, R(2), 0, R(0)>> >>,
  << <<1, 0, 1>>, <<R(0), R(0)>>, <<0, 1, R(0)>>, <<R(2), R(1), R(2)>> >> }

FourRules == {Named(b, p, 3) : b \in Shapes4, p \in Orders(4)}

NoRules == [count |-> 0, start |-> -1, rules |-> << >>]

(* What from_file yields: the start rule is the last one of the file. *)
FileInputs == {g \in ThreeRules \cup FourRules : g.start = g.count - 1}

MCInputs == ThreeRules \cup FourRules \cup {NoRules}
=============================================================================
