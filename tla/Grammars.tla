------------------------------ MODULE Grammars ------------------------------
(***************************************************************************)
(* Straight-line grammars as gracli holds them (grammar/grammar.hpp): a    *)
(* vector of rules, every rule a bit-packed vector of symbols.  A symbol   *)
(* below RULE_OFFSET is a character; every other symbol is a rule id plus  *)
(* RULE_OFFSET.  The code fixes RULE_OFFSET at 256.  It is a constant      *)
(* here, so that a model of a few rules reaches the widths that 256 rules  *)
(* reach in the code.                                                      *)
(*                                                                         *)
(* Rule ids and symbol indexes are 0-based as in the code; only At crosses *)
(* over to the 1-based sequences of TLA+.                                  *)
(***************************************************************************)
EXTENDS Packing, SequencesExt

CONSTANT RuleOffset  \* RULE_OFFSET

ASSUME RuleOffsetAssumption == RuleOffset \in Nat \ {0}

-----------------------------------------------------------------------------
(* Symbols *)

IsTerminal(symbol) == symbol < RuleOffset

IsNonTerminal(symbol) == ~IsTerminal(symbol)

NonTerminal(id) == id + RuleOffset

RuleId(symbol) == symbol - RuleOffset

(* A rule is a packed vector of symbols. *)
EmptyRule == [width |-> 0, symbols |-> << >>]

(* The symbol at a 0-based index of a rule. *)
At(rule, idx) == rule.symbols[idx + 1]

Size(rule) == Len(rule.symbols)

(***************************************************************************)
(* The field width the tuple decoder gives a rule: ceil(log2(max) + 1) for *)
(* the rule's largest symbol (which must not be 0: log2(0) is -infinity).  *)
(***************************************************************************)
CoderWidth(symbols) == CeilLog2(2 * Max(ToSet(symbols)))

DecodedRule(symbols) == [width |-> CoderWidth(symbols), symbols |-> symbols]

-----------------------------------------------------------------------------
(* Grammars: `count` rules with the ids 0 .. count - 1, and a start rule. *)

Ids(g) == 0 .. (g.count - 1)

NonTerminalsOf(rule) == {s \in ToSet(rule.symbols) : IsNonTerminal(s)}

Children(rule) == {RuleId(s) : s \in NonTerminalsOf(rule)}

RuleType == [width : 0 .. MaxWidth, symbols : Seq(Nat)]

(* A rank certifies that no rule derives itself. *)
IsRank(g, rank) ==
  \A r \in Ids(g) : \A c \in Children(g.rules[r]) : rank[c] < rank[r]

(* Rules whose nonterminals name one of them; a rule may derive itself.    *)
IsRuleSet(g) ==
  /\ g.count \in Nat
  /\ g.count # 0 => g.start \in Ids(g)
  /\ g.rules \in [Ids(g) -> RuleType]
  /\ \A r \in Ids(g) : Children(g.rules[r]) \subseteq Ids(g)

(***************************************************************************)
(* What the decoder can deliver from a well-formed file: every nonterminal *)
(* names a rule of the file, and no rule derives itself.                   *)
(***************************************************************************)
IsGrammar(g) ==
  /\ IsRuleSet(g)
  /\ \E rank \in [Ids(g) -> Ids(g)] : IsRank(g, rank)

(***************************************************************************)
(* The rules the start rule reaches: those in every set that holds the     *)
(* start rule and is closed under "occurs in".                             *)
(***************************************************************************)
IsClosed(g, S) == g.start \in S /\ \A r \in S : Children(g.rules[r]) \subseteq S

Reachable(g) == {r \in Ids(g) : \A S \in SUBSET Ids(g) : IsClosed(g, S) => r \in S}

(* What dependency_renumber establishes and every later step relies on:    *)
(* rules depend on rules with smaller ids, and the start rule is the last. *)
IsOrdered(g) ==
  /\ g.start = g.count - 1
  /\ \A r \in Ids(g) : \A c \in Children(g.rules[r]) : c < r

(* Grammar::expand: the string of characters each rule derives. *)
Expansions(rules) ==
  LET exp[r \in DOMAIN rules] ==
        FlattenSeq([i \in 1 .. Size(rules[r]) |->
                      LET s == rules[r].symbols[i]
                      IN  IF IsTerminal(s) THEN << s >> ELSE exp[RuleId(s)]])
  IN  exp

Text(g) == Expansions(g.rules)[g.start]

-----------------------------------------------------------------------------
(***************************************************************************)
(* A derivation annotates a grammar with what its rules stand for: text[r] *)
(* is the string of rule r, indexed from 0, and off[r][k] the place where  *)
(* the string of its k-th symbol begins, off[r][Size] being its length.    *)
(* IsDerivation says so without recursion, which is the form proofs use.   *)
(***************************************************************************)
Length(g, r) == g.off[r][Size(g.rules[r])]

SymbolSpan(g, r, k) ==
  LET s == At(g.rules[r], k)
  IN  IF IsTerminal(s) THEN 1 ELSE Length(g, RuleId(s))

IsDerivation(g) ==
  \A r \in Ids(g) :
    LET size == Size(g.rules[r])
    IN  /\ g.off[r] \in [0 .. size -> Nat]
        /\ g.off[r][0] = 0
        /\ g.text[r] \in [0 .. (Length(g, r) - 1) -> Nat]
        /\ \A k \in 0 .. (size - 1) :
             LET s == At(g.rules[r], k)
             IN  /\ g.off[r][k + 1] = g.off[r][k] + SymbolSpan(g, r, k)
                 /\ \A j \in 0 .. (SymbolSpan(g, r, k) - 1) :
                      g.text[r][g.off[r][k] + j] =
                        IF IsTerminal(s) THEN s ELSE g.text[RuleId(s)][j]

(* Where the symbols of a rule begin, if exp are the strings of the rules. *)
SymbolStarts(g, exp, r) ==
  LET start[k \in 0 .. Size(g.rules[r])] ==
        IF k = 0 THEN 0
        ELSE LET s == At(g.rules[r], k - 1)
             IN  start[k - 1] + (IF IsTerminal(s) THEN 1 ELSE Len(exp[RuleId(s)]))
  IN  start

(* The derivation of a grammar, computed: how models annotate theirs. *)
Derived(g) ==
  LET exp == [r \in Ids(g) |-> Expansions(g.rules)[r]]
  IN  [count |-> g.count, start |-> g.start, rules |-> g.rules,
       off   |-> [r \in Ids(g) |-> SymbolStarts(g, exp, r)],
       text  |-> [r \in Ids(g) |-> [j \in 0 .. (Len(exp[r]) - 1) |-> exp[r][j + 1]]]]
=============================================================================
