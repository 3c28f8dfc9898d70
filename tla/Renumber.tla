------------------------------ MODULE Renumber ------------------------------
(***************************************************************************)
(* Grammar::dependency_renumber with its helper renumber_internal          *)
(* (grammar/grammar.hpp), run by the constructor of every query grammar:   *)
(* number the rules in depth-first post-order from the start rule, then    *)
(* rewrite every nonterminal and move every rule to its new id.  Lengths   *)
(* and samples are computed bottom-up and rely on the order it leaves.     *)
(*                                                                         *)
(* The definitions whose comment starts with "Variant" are slips a         *)
(* programmer could make; they are not part of the specification and show  *)
(* which property notices them.                                            *)
(***************************************************************************)
EXTENDS Grammars

CONSTANTS
  Inputs,            \* the rules the decoder may deliver
  StackLimit         \* no more frames of rule_stack than this can be allocated

(* Nothing in a file keeps a rule from deriving itself.                    *)
ASSUME RuleSetsAssumption == \A g \in Inputs : IsRuleSet(g)

(* There is memory for as many frames as there are rules.                  *)
ASSUME StackAssumption == StackLimit \in Nat /\ \A g \in Inputs : g.count <= StackLimit

VARIABLES
  given,             \* the grammar the call started from
  rules,             \* m_rules
  startRule,         \* m_start_rule_id
  renumbering,       \* old id -> new id, Invalid while it has none
  count,             \* the next new id; after the search, the largest one
  stack,             \* rule_stack: rules in progress, next symbol of each
  oldId,             \* loop index of the rewriting loop
  newRules,          \* new_rules
  pc

vars == << given, rules, startRule, renumbering, count, stack, oldId, newRules, pc >>

(* invalid<Symbol>(): the largest uint32, which no rule id is. *)
Invalid == -1

Frame(rule, next) == [rule |-> rule, next |-> next]

Init ==
  /\ given \in Inputs
  /\ rules = given.rules
  /\ startRule = given.start
  /\ renumbering = [r \in Ids(given) |-> Invalid]
  /\ count = 0
  /\ stack = << >>
  /\ oldId = 0
  /\ newRules = [r \in Ids(given) |-> EmptyRule]
  /\ pc = "enter"

-----------------------------------------------------------------------------
(* A grammar without rules is left as it is. *)
EnterEmpty ==
  /\ pc = "enter"
  /\ given.count = 0
  /\ pc' = "done"
  /\ UNCHANGED << given, rules, startRule, renumbering, count, stack, oldId, newRules >>

Enter ==
  /\ pc = "enter"
  /\ given.count # 0
  /\ stack' = << Frame(startRule, 0) >>
  /\ pc' = "search"
  /\ UNCHANGED << given, rules, startRule, renumbering, count, oldId, newRules >>

Top == stack[Len(stack)]

IsPending(symbol) == IsNonTerminal(symbol) /\ renumbering[RuleId(symbol)] = Invalid

(* Variant: the last symbol is taken for the end of the rule. *)
PendingButLast(frame) ==
  {idx \in frame.next .. (Size(rules[frame.rule]) - 2) : IsPending(At(rules[frame.rule], idx))}

(* Variant: a rule in progress is passed over as if it had its number. *)
PendingNotOpen(frame) ==
  {idx \in frame.next .. (Size(rules[frame.rule]) - 1) :
     /\ IsPending(At(rules[frame.rule], idx))
     /\ \A k \in 1 .. Len(stack) : stack[k].rule # RuleId(At(rules[frame.rule], idx))}

(* Indexes, from the saved one on, of symbols whose rule has no number yet. *)
Pending(frame) ==
  {idx \in frame.next .. (Size(rules[frame.rule]) - 1) : IsPending(At(rules[frame.rule], idx))}

(* One turn of the search loop on a rule with a pending symbol: save the   *)
(* place and handle that symbol's rule first.                              *)
Descend ==
  /\ pc = "search" /\ stack # << >>
  /\ Len(stack) < StackLimit
  /\ \E idx \in Pending(Top) :
       /\ \A other \in Pending(Top) : idx <= other
       /\ stack' = Append([stack EXCEPT ![Len(stack)] = Frame(Top.rule, idx + 1)],
                          Frame(RuleId(At(rules[Top.rule], idx)), 0))
  /\ UNCHANGED << given, rules, startRule, renumbering, count, oldId, newRules, pc >>

(* A rule that derives itself is pushed again and again, until emplace_back *)
(* finds no memory and throws.                                             *)
StackExhausted ==
  /\ pc = "search" /\ stack # << >>
  /\ Pending(Top) # {}
  /\ Len(stack) >= StackLimit
  /\ pc' = "aborted"
  /\ UNCHANGED << given, rules, startRule, renumbering, count, stack, oldId, newRules >>

(* One turn on a rule with none: it gets the next number. *)
NumberRule ==
  /\ pc = "search" /\ stack # << >>
  /\ Pending(Top) = {}
  /\ renumbering' = [renumbering EXCEPT ![Top.rule] = count]
  /\ count' = count + 1
  /\ stack' = Front(stack)
  /\ UNCHANGED << given, rules, startRule, oldId, newRules, pc >>

(* Variant: count stays one past the largest id. *)
BeginRewriteNoDecrement ==
  /\ pc = "search" /\ stack = << >>
  /\ pc' = "rewrite"
  /\ UNCHANGED << given, rules, startRule, renumbering, count, stack, oldId, newRules >>

(* The search is over; count becomes the largest id given. *)
BeginRewrite ==
  /\ pc = "search" /\ stack = << >>
  /\ count' = count - 1
  /\ pc' = "rewrite"
  /\ UNCHANGED << given, rules, startRule, renumbering, stack, oldId, newRules >>

(* Variant: RULE_OFFSET is not added again. *)
RenumberedNoOffset(rule) ==
  [rule EXCEPT !.symbols =
     [i \in 1 .. Size(rule) |->
        IF IsTerminal(rule.symbols[i]) THEN rule.symbols[i]
        ELSE Packed(rule.width, renumbering[RuleId(rule.symbols[i])])]]

(* A rewritten symbol is stored in the field its old value had. *)
Renumbered(rule) ==
  [rule EXCEPT !.symbols =
     [i \in 1 .. Size(rule) |->
        IF IsTerminal(rule.symbols[i]) THEN rule.symbols[i]
        ELSE Packed(rule.width, NonTerminal(renumbering[RuleId(rule.symbols[i])]))]]

(* Variant: a rule that keeps its id is skipped before the index moves on. *)
RewriteRuleStuck ==
  /\ pc = "rewrite" /\ oldId < given.count
  /\ renumbering[oldId] # Invalid
  /\ renumbering[oldId] # oldId
  /\ newRules' = [newRules EXCEPT ![renumbering[oldId]] = Renumbered(rules[oldId])]
  /\ rules' = [rules EXCEPT ![oldId] = EmptyRule]
  /\ oldId' = oldId + 1
  /\ UNCHANGED << given, startRule, renumbering, count, stack, pc >>

(* One turn of the rewriting loop; the moved-from rule is left empty. *)
RewriteRule ==
  /\ pc = "rewrite" /\ oldId < given.count
  /\ renumbering[oldId] # Invalid
  /\ newRules' = [newRules EXCEPT ![renumbering[oldId]] = Renumbered(rules[oldId])]
  /\ rules' = [rules EXCEPT ![oldId] = EmptyRule]
  /\ oldId' = oldId + 1
  /\ UNCHANGED << given, startRule, renumbering, count, stack, pc >>

(***************************************************************************)
(* A rule the search never reached is moved to new_rules[invalid]: an      *)
(* assignment far outside the vector.  Nothing is said of what follows.    *)
(***************************************************************************)
WildMove ==
  /\ pc = "rewrite" /\ oldId < given.count
  /\ renumbering[oldId] = Invalid
  /\ pc' = "wild"
  /\ UNCHANGED << given, rules, startRule, renumbering, count, stack, oldId, newRules >>

Publish ==
  /\ pc = "rewrite" /\ oldId = given.count
  /\ rules' = newRules
  /\ startRule' = count
  /\ pc' = "done"
  /\ UNCHANGED << given, renumbering, count, stack, oldId, newRules >>

Terminated ==
  /\ pc \in {"done", "wild", "aborted"}
  /\ UNCHANGED vars

Step ==
  \/ EnterEmpty
  \/ Enter
  \/ Descend
  \/ StackExhausted
  \/ NumberRule
  \/ BeginRewrite
  \/ RewriteRule
  \/ WildMove
  \/ Publish

Next == Step \/ Terminated

(* A constructor runs without waiting for anyone: it keeps taking steps. *)
Spec == Init /\ [][Next]_vars /\ WF_vars(Step)

-----------------------------------------------------------------------------
(* Properties *)

Numbered == {r \in Ids(given) : renumbering[r] # Invalid}

(* The state is well-typed throughout the call; in particular the stack    *)
(* only ever holds ids of rules, so m_rules[current_id] stays in bounds.   *)
TypeOK ==
  /\ given \in Inputs
  /\ rules \in [Ids(given) -> RuleType]
  /\ newRules \in [Ids(given) -> RuleType]
  /\ given.count # 0 => startRule \in Nat
  /\ renumbering \in [Ids(given) -> Nat \cup {Invalid}]
  /\ count \in Nat
  /\ stack \in Seq([rule : Ids(given), next : Nat])
  /\ oldId \in 0 .. given.count
  /\ pc \in {"enter", "search", "rewrite", "done", "wild", "aborted"}

(* renumber_internal numbers a rule only after every rule it depends on,   *)
(* all of them with smaller numbers.                                       *)
PostOrder ==
  \A r \in Numbered : \A c \in Children(given.rules[r]) :
    c \in Numbered /\ renumbering[c] < renumbering[r]

(* How many numbers have been given out. *)
Issued == IF pc \in {"enter", "search"} \/ given.count = 0 THEN count ELSE count + 1

(* No two rules get the same number and the numbers have no gap, so that   *)
(* the rewriting loop overwrites no rule it has moved already and new      *)
(* ids stay inside the vector.                                             *)
DenseNumbers ==
  /\ \A r, q \in Numbered : renumbering[r] = renumbering[q] => r = q
  /\ {renumbering[r] : r \in Numbered} = 0 .. (Issued - 1)

(* The frames of the stack are a derivation path: each rule occurs in the  *)
(* one below it, no rule is on it twice, none on it has a number.  So the  *)
(* stack never holds more frames than there are rules.                     *)
StackIsPath ==
  pc = "search" =>
    /\ \A k \in 1 .. Len(stack) : stack[k].rule \notin Numbered
    /\ \A k \in 1 .. (Len(stack) - 1) :
         /\ stack[k].next \in 1 .. Size(given.rules[stack[k].rule])
         /\ At(given.rules[stack[k].rule], stack[k].next - 1) = NonTerminal(stack[k + 1].rule)
    /\ \A j, k \in 1 .. Len(stack) : stack[j].rule = stack[k].rule => j = k

(* The wild move happens only for a grammar with a rule that the start     *)
(* rule does not reach: the search numbers exactly the reachable rules.    *)
WildMoveOnlyIfUnreachable == pc = "wild" => Reachable(given) # Ids(given)

(* Without a cycle one frame for each rule is enough memory.               *)
NeverExhausted == pc # "aborted"

(* The new number of every nonterminal fits the field its old value was    *)
(* decoded into; the decoder sized that field for the old value only.      *)
NumbersFit ==
  \A r \in Ids(given) : \A c \in Children(given.rules[r]) :
    Packed(given.rules[r].width, NonTerminal(renumbering[c])) = NonTerminal(renumbering[c])

(* "Renumbers the rules in the grammar in such a way that rules with index *)
(* i only depend on rules with indices lesser than i" (grammar.hpp:145).   *)
(* The start rule comes last, where calculate_full_lengths looks for it.   *)
DependencyOrdered ==
  pc = "done" =>
    /\ \A i \in Ids(given) : \A c \in Children(rules[i]) : c < i
    /\ given.count # 0 => startRule = given.count - 1

(* Renumbering does not change the text the grammar derives.  The second   *)
(* form leaves out the grammars whose new ids do not fit their fields.     *)
TextKept ==
  (pc = "done" /\ given.count # 0) => Expansions(rules)[startRule] = Text(given)

(* A rule that has a number keeps it: no rule is visited twice. *)
NumberedOnce ==
  [][\A r \in Ids(given) : renumbering[r] # Invalid => renumbering'[r] = renumbering[r]]_vars

-----------------------------------------------------------------------------
(***************************************************************************)
(* The inductive invariant of the proofs in Renumber_proofs.               *)
(***************************************************************************)

(* Until the rewriting loop starts, the grammar is as it was given. *)
Untouched ==
  pc \in {"enter", "search"} =>
    /\ rules = given.rules
    /\ startRule = given.start
    /\ newRules = [r \in Ids(given) |-> EmptyRule]
    /\ oldId = 0

(* What a frame has passed is numbered, but for the child being handled.   *)
Passed ==
  \A k \in 1 .. Len(stack) : \A idx \in 0 .. (stack[k].next - 1) :
    LET s == At(given.rules[stack[k].rule], idx)
    IN  /\ idx < Size(given.rules[stack[k].rule])
        /\ IsNonTerminal(s) =>
             \/ RuleId(s) \in Numbered
             \/ k < Len(stack) /\ idx = stack[k].next - 1

(* Ranks fall along the stack: this is why no rule is on it twice. *)
Rank == CHOOSE rank \in [Ids(given) -> Ids(given)] : IsRank(given, rank)

RanksFall ==
  \A j, k \in 1 .. Len(stack) : j < k => Rank[stack[k].rule] < Rank[stack[j].rule]

Counted == Issued = Cardinality(Numbered)

(* The start rule is at the bottom of the stack, and numbered last. *)
StartLast ==
  /\ pc \in {"search", "rewrite", "wild"} => given.count # 0
  /\ pc # "search" => stack = << >>
  /\ pc = "enter" => count = 0
  /\ stack # << >> => stack[1].rule = given.start
  /\ (pc # "enter" /\ given.count # 0 /\ stack = << >>) =>
       given.start \in Numbered /\ renumbering[given.start] = Issued - 1

(* The rules before oldId have moved, the others are as they were. *)
Moved ==
  pc \in {"rewrite", "wild", "done"} =>
    /\ pc \in {"rewrite", "wild"} =>
         \A r \in Ids(given) : r >= oldId => rules[r] = given.rules[r]
    /\ \A r \in Ids(given) : r < oldId =>
         r \in Numbered /\ newRules[renumbering[r]] = Renumbered(given.rules[r])
    /\ \A i \in Ids(given) :
         \/ newRules[i] = EmptyRule
         \/ \E r \in Ids(given) : r < oldId /\ renumbering[r] = i
    /\ pc = "wild" => oldId \in Ids(given) \ Numbered
    /\ (pc = "done" /\ given.count # 0) => rules = newRules /\ startRule = count /\ oldId = given.count

Inv ==
  /\ TypeOK
  /\ Untouched
  /\ Passed
  /\ StackIsPath
  /\ RanksFall
  /\ PostOrder
  /\ DenseNumbers
  /\ Counted
  /\ StartLast
  /\ Moved
=============================================================================
