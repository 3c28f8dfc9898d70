------------------------------ MODULE GrammarOps ------------------------------
(***************************************************************************)
(* What a Grammar is asked for: the program grammar_stats reads a grammar  *)
(* and reports its statistics, computed recursively with a table of what   *)
(* is known; reproduce_ renumbers the rules and puts the text together     *)
(* from the rules in their new order.  The query grammars' reproduce is    *)
(* the second half of reproduce_, on rules renumbered before.              *)
(***************************************************************************)
EXTENDS Renumber

VARIABLES
  job,               \* none yet, or what is computed
  frames,            \* the calls of source_length or nonterminal_depth in progress
  lookup,
  report,            \* the statistics computed: value, and sum over the table
  expansions         \* of reproduce_

opsVars == << job, frames, lookup, report, expansions >>

allVars == << vars, opsVars >>

(* What Renumber allows and this module does not: the recursions below do  *)
(* not end, either, if a rule derives itself.                              *)
ASSUME InputsAssumption == \A g \in Inputs : IsGrammar(g)

(* numeric_limits<size_t>::max(): not known. *)
Unknown == 2^MaxWidth - 1

(* Numbers of rules, and lengths of texts, are ones of vectors: no size_t  *)
(* overflows, and none means "not known".                                  *)
ASSUME SizesAssumption ==
  \A g \in Inputs :
    g.count < Unknown /\ \A r \in Ids(g) : Len(Expansions(g.rules)[r]) < Unknown

Call(rule) == [rule |-> rule, next |-> 0, value |-> 0]

OpsInit ==
  /\ Init
  /\ job = "none"
  /\ frames = << >> /\ lookup = << >> /\ report = << >> /\ expansions = << >>

(* dependency_renumber, the first thing reproduce_ does. *)
RenumberStep == job = "none" /\ Step /\ UNCHANGED opsVars

-----------------------------------------------------------------------------
(* grammar_stats: of the grammar as it was read *)

Begin(kind) ==
  /\ job' = kind
  /\ frames' = << Call(startRule) >>
  /\ lookup' = [r \in Ids(given) |-> Unknown]

(* A file without rules has the start rule 2^64 - 1; m_rules is read there. *)
StartStatsEmpty ==
  /\ pc = "enter" /\ job = "none" /\ given.count = 0
  /\ job' = "undefined"
  /\ UNCHANGED << vars, frames, lookup, report, expansions >>

StartStats ==
  /\ pc = "enter" /\ job = "none" /\ given.count # 0
  /\ Begin("length")
  /\ UNCHANGED << vars, report, expansions >>

Running == job \in {"length", "depth"}

Frame1 == Last(frames)

SymbolHere == At(rules[Frame1.rule], Frame1.next)

MoreSymbols == Running /\ frames # << >> /\ Frame1.next < Size(rules[Frame1.rule])

Counted1(value) == [Frame1 EXCEPT !.next = @ + 1, !.value = value]

CountTerminal ==
  /\ MoreSymbols /\ IsTerminal(SymbolHere)
  /\ frames' = Append(Front(frames),
                      Counted1(IF job = "length" THEN Frame1.value + 1 ELSE Frame1.value))
  /\ UNCHANGED << vars, job, lookup, report, expansions >>

(* What a known rule adds: lengths are summed up, of depths the largest    *)
(* counts.                                                                 *)
CountKnown ==
  LET known == lookup[RuleId(SymbolHere)]
  IN  /\ MoreSymbols /\ IsNonTerminal(SymbolHere) /\ known # Unknown
      /\ frames' = Append(Front(frames),
                          Counted1(IF job = "length" THEN Frame1.value + known
                                   ELSE Max({Frame1.value, known})))
      /\ UNCHANGED << vars, job, lookup, report, expansions >>

(* A rule not known yet is computed first. *)
CallUnknown ==
  /\ MoreSymbols /\ IsNonTerminal(SymbolHere) /\ lookup[RuleId(SymbolHere)] = Unknown
  /\ frames' = Append(frames, Call(RuleId(SymbolHere)))
  /\ UNCHANGED << vars, job, lookup, report, expansions >>

Returned == IF job = "length" THEN Frame1.value ELSE Frame1.value + 1

CallOver == Running /\ frames # << >> /\ Frame1.next = Size(rules[Frame1.rule])

(* Variant: what was computed is not entered for the rule but for the one  *)
(* that asked.                                                             *)
ReturnToCaller ==
  /\ CallOver
  /\ lookup' = [lookup EXCEPT ![frames[Max({1, Len(frames) - 1})].rule] = Returned]
  /\ frames' = Front(frames)
  /\ UNCHANGED << vars, job, report, expansions >>

Return ==
  /\ CallOver
  /\ lookup' = [lookup EXCEPT ![Frame1.rule] = Returned]
  /\ frames' = Front(frames)
  /\ UNCHANGED << vars, job, report, expansions >>

(* Variant: what was computed for the start rule is not entered in the table. *)
TotalWithoutStart(table) ==
  FoldLeft(LAMBDA sum, k : sum + (IF k - 1 = startRule THEN Unknown ELSE table[k - 1]),
           0, [k \in 1 .. given.count |-> k])

Total(table) == FoldLeft(LAMBDA sum, k : sum + table[k - 1], 0, [k \in 1 .. given.count |-> k])

(* The average is this total over the number of rules.  A rule the start   *)
(* rule does not reach enters it with the value for "not known".           *)
Report ==
  /\ Running /\ frames = << >>
  /\ report' = Append(report, [value |-> lookup[startRule], total |-> Total(lookup)])
  /\ IF job = "length" THEN Begin("depth") ELSE job' = "over" /\ UNCHANGED << frames, lookup >>
  /\ UNCHANGED << vars, expansions >>

Stats == StartStats \/ StartStatsEmpty \/ CountTerminal \/ CountKnown \/ CallUnknown \/ Return \/ Report

-----------------------------------------------------------------------------
(* reproduce_, and reproduce of the query grammars *)

NextRule == rules[Len(expansions)]

IsExpanded(rule) == \A c \in Children(rule) : c < Len(expansions)

Reproducing == pc = "done" /\ job = "none" /\ Len(expansions) < given.count

Expanded(rule) ==
  FlattenSeq([k \in 1 .. Size(rule) |->
                LET s == rule.symbols[k]
                IN  IF IsTerminal(s) THEN << s >> ELSE expansions[RuleId(s) + 1]])

(* A rule is put together from the characters and rules it consists of;    *)
(* the start rule ends the loop.  A rule that comes before one of these    *)
(* would read expansions[...] behind its end, and nothing be said of what  *)
(* follows; Reproduced says that none does.                                *)
ExpandRule ==
  /\ Reproducing
  /\ IF IsExpanded(NextRule)
     THEN /\ expansions' = Append(expansions, Expanded(NextRule))
          /\ job' = IF Len(expansions) = startRule THEN "over" ELSE job
     ELSE job' = "undefined" /\ UNCHANGED expansions
  /\ UNCHANGED << vars, frames, lookup, report >>

Finished ==
  /\ \/ job \in {"over", "undefined"} \/ pc \in {"wild", "aborted"}
     \/ pc = "done" /\ Len(expansions) = given.count
  /\ UNCHANGED allVars

Work == RenumberStep \/ CountTerminal \/ CountKnown \/ CallUnknown \/ Return \/ Report
          \/ ExpandRule

OpsNext == Work \/ StartStats \/ StartStatsEmpty \/ Finished

(* Whatever was asked for is computed to the end. *)
OpsSpec == OpsInit /\ [][OpsNext]_allVars /\ WF_allVars(Work)

-----------------------------------------------------------------------------
(* Properties *)

(* Reference definitions: the length of a rule's string, and how deep the  *)
(* rules nest in it.                                                       *)
TrueLength(r) == Len(Expansions(given.rules)[r])

TrueDepth ==
  LET depth[r \in Ids(given)] == 1 + Max({0} \cup {depth[c] : c \in Children(given.rules[r])})
  IN  depth

True(kind, r) == IF kind = "length" THEN TrueLength(r) ELSE TrueDepth[r]

(* The table never holds a wrong value, also while the calls are nested,   *)
(* and the statistics reported are those of the grammar.                   *)
StatsRight ==
  /\ Running => \A r \in Ids(given) : lookup[r] # Unknown => lookup[r] = True(job, r)
  /\ \A k \in 1 .. Len(report) :
       report[k].value = True(IF k = 1 THEN "length" ELSE "depth", given.start)

TrueTotal(kind) ==
  LET truth == [r \in Ids(given) |-> True(kind, r)]
  IN  FoldLeft(LAMBDA sum, k : sum + truth[k - 1], 0, [k \in 1 .. given.count |-> k])

(* The averages are averages over the rules exactly if the start rule      *)
(* reaches all of them; otherwise 2^64 - 1 is counted for a rule.          *)
AverageIfReachable ==
  \A k \in 1 .. Len(report) :
    report[k].total = TrueTotal(IF k = 1 THEN "length" ELSE "depth") <=> Reachable(given) = Ids(given)

(* "After dependency_renumber is called, the rules occupy the ids 0 to     *)
(* n-1", and a nonterminal "can only be the nonterminal of a rule that has *)
(* already been fully expanded" (grammar.hpp:261-269): so it is if the new *)
(* ids fit their fields, and then the text comes out.                      *)
Reproduced ==
  (NumbersFit /\ pc = "done") =>
    /\ job # "undefined"
    /\ job = "over" => Last(expansions) = Text(given)

(* The call returns (or has left defined behaviour), whichever it is.      *)
Returns ==
  <>(job \in {"over", "undefined"} \/ pc = "wild" \/ (pc = "done" /\ given.count = 0))
=============================================================================
