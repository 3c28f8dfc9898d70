------------------------------- MODULE Loading -------------------------------
(***************************************************************************)
(* From a file to the rules a query grammar works with: Grammar::from_file *)
(* decodes the file, and the constructor of the query grammar renumbers    *)
(* what it decoded.  Composes Decoders and Renumber.                       *)
(***************************************************************************)
EXTENDS Decoders

CONSTANT StackLimit  \* of Renumber

VARIABLES
  stage,             \* "file" while the file is decoded, then the pc of Renumber
  grammar, mRules, startRule, renumbering, count, stack, oldId, newRules

renumberVars == << stage, grammar, mRules, startRule, renumbering, count, stack, oldId, newRules >>

loadVars == << vars, renumberVars >>

(* The last rule of a file is its start rule.                              *)
GrammarOf(rs) ==
  [count |-> Len(rs), start |-> Len(rs) - 1,
   rules |-> [r \in 0 .. (Len(rs) - 1) |-> DecodedRule(rs[r + 1])]]

GrammarFiles == {g \in Inputs : g.kind \in {"grammar", "missing"}}

Renumbering == INSTANCE Renumber
  WITH Inputs <- {GrammarOf(g.rules) : g \in GrammarFiles},
       given <- grammar, rules <- mRules, pc <- stage

LoadInit ==
  /\ Init
  /\ stage = "file"
  /\ grammar = GrammarOf(<< >>) /\ mRules = << >> /\ startRule = -1
  /\ renumbering = << >> /\ count = 0 /\ stack = << >> /\ oldId = 0 /\ newRules = << >>

ReadFile == (TakeAny \/ Decode) /\ UNCHANGED renumberVars

(* The rules decoded become the grammar, whose renumbering begins.         *)
FromFile ==
  LET g == GrammarOf(rules)
  IN  /\ stage = "file" /\ pc = "done" /\ given \in GrammarFiles
      /\ IsRuleSet(g)
      /\ stage' = "enter"
      /\ grammar' = g /\ mRules' = g.rules /\ startRule' = g.start
      /\ renumbering' = [r \in Ids(g) |-> Renumbering!Invalid]
      /\ newRules' = [r \in Ids(g) |-> EmptyRule]
      /\ UNCHANGED << vars, count, stack, oldId >>

(* A symbol that names no rule of the file: renumbering is read behind its *)
(* end, and nothing is said of what follows.                               *)
FromFileUndefined ==
  /\ stage = "file" /\ pc = "done" /\ given \in GrammarFiles
  /\ ~IsRuleSet(GrammarOf(rules))
  /\ stage' = "undefined"
  /\ UNCHANGED << vars, grammar, mRules, startRule, renumbering, count, stack, oldId, newRules >>

Renumber == Renumbering!Step /\ UNCHANGED vars

Loaded ==
  /\ \/ stage \in {"done", "wild", "aborted", "undefined"}
     \/ pc = "undefined"
     \/ pc = "done" /\ given \notin GrammarFiles
  /\ UNCHANGED loadVars

LoadNext == ReadFile \/ FromFile \/ FromFileUndefined \/ Renumber \/ Loaded

LoadSpec == LoadInit /\ [][LoadNext]_loadVars

-----------------------------------------------------------------------------
(* Properties *)

(* A set of rules in reach each of which holds one of them: going from rule *)
(* to rule within it, the search finds no end.                             *)
HasCycle(g) ==
  \E S \in SUBSET Reachable(g) : S # {} /\ \A r \in S : Children(g.rules[r]) \cap S # {}

(* renumber_internal runs out of memory for the files with a cycle in reach *)
(* of their last rule and for no others: cycles out of reach do no harm,   *)
(* and none in reach is left unnoticed.                                    *)
EndsUnlessCyclic ==
  /\ stage = "aborted" => HasCycle(GrammarOf(given.rules))
  /\ stage \in {"rewrite", "wild", "done"} => ~HasCycle(GrammarOf(given.rules))
=============================================================================
