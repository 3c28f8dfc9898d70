----------------------------- MODULE SampleBuild -----------------------------
(***************************************************************************)
(* SampledScanQueryGrammar::calculate_samples: a breadth-first walk over   *)
(* the parse tree that gives every block of `sampling` characters the      *)
(* deepest rule covering it, and the first symbol of that rule to begin    *)
(* inside the block.                                                       *)
(***************************************************************************)
EXTENDS FullLengths

CONSTANT Sampling    \* the template parameter `sampling`

ASSUME RulesAssumption == \A g \in Inputs : \A r \in Ids(g) : Size(g.rules[r]) > 0

ASSUME SamplingAssumption == Sampling \in Nat \ {0}

VARIABLES
  samples,           \* m_samples
  dirty,             \* dirty_samples
  queue,             \* rule_queue: where a rule's expansion starts, and the rule
  cursor,            \* the rule being scanned, the next symbol, idx_in_source
  spilled,           \* has a write gone past the end of m_samples?
  pc

samplesVars == << samples, dirty, queue, cursor, spilled >>

(* symbol_length, and source_length, the start rule's. *)
SymbolLength(r, idx) ==
  LET s == At(given.rules[r], idx)
  IN  IF IsTerminal(s) THEN 1 ELSE RuleLength(RuleId(s))

SourceLength == RuleLength(given.start)

BlockCount == (SourceLength + Sampling - 1) \div Sampling

Blocks == 0 .. (BlockCount - 1)

(* numeric_limits<uint32_t>::max(), the indexes of a fresh sample. *)
Unset == -1

Node(start, rule) == [start |-> start, rule |-> rule]

Cursor(rule, index, pos) == [rule |-> rule, index |-> index, pos |-> pos]

BuildInit ==
  /\ LengthsInit
  /\ samples = << >> /\ dirty = << >> /\ queue = << >>
  /\ cursor = Cursor(given.start, 0, 0)
  /\ spilled = FALSE
  /\ pc = "lengths"

(* The constructor computes the lengths first. *)
CalculateLengths ==
  /\ pc = "lengths"
  /\ LengthsStep
  /\ UNCHANGED << samplesVars, pc >>

LengthsComputed == lengthsPc = "done" /\ \A r \in Ids(given) : RuleLength(r) = Length(given, r)

(***************************************************************************)
(* calculate_samples goes by the lengths whatever they are; the model goes *)
(* on only with those that are right.  The others are what LossOnlyAt-     *)
(* PowersOfTwo and RuleLengthExact are about.                              *)
(***************************************************************************)
BeginSamples ==
  /\ pc = "lengths" /\ LengthsComputed
  /\ samples' = [b \in Blocks |-> [rule |-> 0, index |-> Unset, rel |-> Unset]]
  /\ dirty' = [b \in Blocks |-> FALSE]
  /\ queue' = << Node(0, given.start) >>
  /\ pc' = "next"
  /\ UNCHANGED << lengthVars, cursor, spilled >>

-----------------------------------------------------------------------------
(***************************************************************************)
(* The blocks the loop over `i` writes for a node: those its expansion     *)
(* covers, plus one if it reaches the end of the text -- meant for the     *)
(* last block, which is "most likely" incomplete.                          *)
(***************************************************************************)
(* Variant: the incomplete last block is forgotten. *)
CoveredFullOnly(node) ==
  LET first == (node.start + Sampling - 1) \div Sampling
      last  == (node.start + RuleLength(node.rule)) \div Sampling
  IN  first .. (last - 1)

(* Variant: the number of blocks is rounded up, and the extra one counted. *)
CoveredRoundedUp(node) ==
  LET first == (node.start + Sampling - 1) \div Sampling
      end   == node.start + RuleLength(node.rule)
      last  == (end + Sampling - 1) \div Sampling
  IN  first .. (last + (IF end = SourceLength THEN 1 ELSE 0) - 1)

Covered(node) ==
  LET first == (node.start + Sampling - 1) \div Sampling
      end   == node.start + RuleLength(node.rule)
      last  == end \div Sampling
  IN  first .. (last + (IF end = SourceLength THEN 1 ELSE 0) - 1)

(* Variant: a block that has a rule keeps it. *)
CoverFreeBlocks(node) ==
  /\ samples' = [b \in Blocks |->
                   IF b \in Covered(node) /\ samples[b].index = Unset
                   THEN [samples[b] EXCEPT !.rule = node.rule]
                   ELSE samples[b]]
  /\ dirty' = [b \in Blocks |->
                 (b \in Covered(node) /\ samples[b].index = Unset) \/ dirty[b]]

(* A node comes after those around it, so the deepest rule is the last     *)
(* one written.                                                            *)
CoverBlocks(node) ==
  /\ samples' = [b \in Blocks |->
                   IF b \in Covered(node) THEN [samples[b] EXCEPT !.rule = node.rule]
                   ELSE samples[b]]
  /\ dirty' = [b \in Blocks |-> b \in Covered(node) \/ dirty[b]]

(* Take the next node off the queue and mark the blocks it covers. *)
Dequeue ==
  /\ pc = "next" /\ queue # << >>
  /\ Covered(Head(queue)) \subseteq Blocks
  /\ CoverBlocks(Head(queue))
  /\ queue' = Tail(queue)
  /\ cursor' = Cursor(Head(queue).rule, 0, Head(queue).start)
  /\ pc' = "scan"
  /\ UNCHANGED << lengthVars, spilled >>

(***************************************************************************)
(* When the text ends on a block boundary the extra block does not exist:  *)
(* the loop writes a rule id past the end of m_samples and a bit past the  *)
(* end of dirty_samples.  The write may hit memory nobody uses, and the    *)
(* walk goes on; or it damages the heap, and nothing is said of the rest.  *)
(***************************************************************************)
DequeueSpill ==
  /\ pc = "next" /\ queue # << >>
  /\ ~(Covered(Head(queue)) \subseteq Blocks)
  /\ CoverBlocks(Head(queue))
  /\ queue' = Tail(queue)
  /\ cursor' = Cursor(Head(queue).rule, 0, Head(queue).start)
  /\ spilled' = TRUE
  /\ pc' \in {"scan", "corrupt"}
  /\ UNCHANGED lengthVars

(* The first symbol to begin in a block whose rule is new is its sample. *)
SampleSymbol(b) ==
  IF dirty[b]
  THEN /\ samples' = [samples EXCEPT ![b] = [rule  |-> samples[b].rule,
                                             index |-> cursor.index,
                                             rel   |-> cursor.pos % Sampling]]
       /\ dirty' = [dirty EXCEPT ![b] = FALSE]
  ELSE UNCHANGED << samples, dirty >>

(* One turn of the loop over the symbols of the rule. *)
ScanTerminal ==
  /\ pc = "scan" /\ cursor.index < Size(given.rules[cursor.rule])
  /\ IsTerminal(At(given.rules[cursor.rule], cursor.index))
  /\ SampleSymbol(cursor.pos \div Sampling)
  /\ cursor' = [cursor EXCEPT !.index = @ + 1, !.pos = @ + 1]
  /\ UNCHANGED << lengthVars, queue, spilled, pc >>

(* Variant: the child is queued at the place where it ends. *)
ScanNonTerminalAfter ==
  LET child == RuleId(At(given.rules[cursor.rule], cursor.index))
  IN  /\ pc = "scan" /\ cursor.index < Size(given.rules[cursor.rule])
      /\ IsNonTerminal(At(given.rules[cursor.rule], cursor.index))
      /\ SampleSymbol(cursor.pos \div Sampling)
      /\ queue' = Append(queue, Node(cursor.pos + RuleLength(child), child))
      /\ cursor' = [cursor EXCEPT !.index = @ + 1, !.pos = @ + RuleLength(child)]
      /\ UNCHANGED << lengthVars, spilled, pc >>

ScanNonTerminal ==
  LET child == RuleId(At(given.rules[cursor.rule], cursor.index))
  IN  /\ pc = "scan" /\ cursor.index < Size(given.rules[cursor.rule])
      /\ IsNonTerminal(At(given.rules[cursor.rule], cursor.index))
      /\ SampleSymbol(cursor.pos \div Sampling)
      /\ queue' = Append(queue, Node(cursor.pos, child))
      /\ cursor' = [cursor EXCEPT !.index = @ + 1, !.pos = @ + RuleLength(child)]
      /\ UNCHANGED << lengthVars, spilled, pc >>

FinishScan ==
  /\ pc = "scan" /\ cursor.index = Size(given.rules[cursor.rule])
  /\ pc' = "next"
  /\ UNCHANGED << lengthVars, samples, dirty, queue, cursor, spilled >>

FinishBuild ==
  /\ pc = "next" /\ queue = << >>
  /\ pc' = "ready"
  /\ UNCHANGED << lengthVars, samples, dirty, queue, cursor, spilled >>

BuildStep ==
  \/ CalculateLengths
  \/ BeginSamples
  \/ Dequeue
  \/ DequeueSpill
  \/ ScanTerminal
  \/ ScanNonTerminal
  \/ FinishScan
  \/ FinishBuild

-----------------------------------------------------------------------------
(* Properties *)

Building == pc \in {"lengths", "next", "scan", "corrupt"}

BlockStart(b) == b * Sampling

BlockEnd(b) == Min({(b + 1) * Sampling, SourceLength})

(* Where the expansion of the sample's rule starts in the text. *)
SampledStart(b) ==
  BlockStart(b) + samples[b].rel - given.off[samples[b].rule][samples[b].index]

(* The string of rule r stands at place p of the text. *)
Stands(p, r) ==
  /\ p \in 0 .. (SourceLength - Length(given, r))
  /\ \A j \in 0 .. (Length(given, r) - 1) : given.text[given.start][p + j] = given.text[r][j]

SampleSound(b) ==
  /\ samples[b].rule \in Ids(given)
  /\ samples[b].index \in 0 .. (Size(given.rules[samples[b].rule]) - 1)
  /\ samples[b].rel \in 0 .. (BlockEnd(b) - BlockStart(b) - 1)
  /\ Stands(SampledStart(b), samples[b].rule)
  /\ SampledStart(b) <= BlockStart(b)
  /\ SampledStart(b) + Length(given, samples[b].rule) >= BlockEnd(b)

SampleDeepest(b) ==
  LET rule == samples[b].rule
      place(k) == SampledStart(b) + given.off[rule][k]
  IN  /\ \A k \in 0 .. (Size(given.rules[rule]) - 1) :
           (place(k) <= BlockStart(b) /\ place(k + 1) >= BlockEnd(b))
             => IsTerminal(At(given.rules[rule], k))
      /\ \A k \in 0 .. (samples[b].index - 1) : place(k) < BlockStart(b)

(* Every block has a sample at the end of the walk: a rule whose string    *)
(* stands in the text around the whole block, and the symbol of it whose   *)
(* string begins at the sampled place inside the block.  at and substr     *)
(* take this for granted when they start scanning.                         *)
SamplesSound == ~Building => \A b \in Blocks : ~dirty[b] /\ SampleSound(b)

(* The sample's rule is the deepest that covers the block: no symbol of it *)
(* covers the block but a single character; and the sampled symbol is the  *)
(* first to begin in the block.                                            *)
SamplesDeepest == ~Building => \A b \in Blocks : SampleDeepest(b)

(* A rule waits in the queue, and is scanned, at a place of the text where *)
(* its string stands; the scan knows where each symbol begins.             *)
WalkFollowsText ==
  /\ \A k \in 1 .. Len(queue) : Stands(queue[k].start, queue[k].rule)
  /\ pc = "scan" =>
       /\ cursor.index \in 0 .. Size(given.rules[cursor.rule])
       /\ Stands(cursor.pos - given.off[cursor.rule][cursor.index], cursor.rule)

(* A write leaves m_samples only for texts that end on a block boundary.   *)
SpillOnlyAtBoundary == spilled => SourceLength % Sampling = 0

(* "If our rule spans an interval that ends at the last character of our   *)
(* source string, we need to include the last incomplete block too": the   *)
(* loop is meant to write the blocks of the text and nothing else          *)
(* (sampled_scan_query_grammar.hpp:98-100).                                *)
WritesInBounds == ~spilled

-----------------------------------------------------------------------------
(***************************************************************************)
(* The inductive invariant of the proofs in SampledScan_proofs.            *)
(***************************************************************************)

(* The string a node stands for lies around the whole block. *)
Surrounds(node, b) ==
  node.start <= BlockStart(b) /\ node.start + Length(given, node.rule) >= BlockEnd(b)

(* The node being scanned. *)
Scanned == Node(cursor.pos - given.off[cursor.rule][cursor.index], cursor.rule)

(* A node that will write the block is in the queue. *)
Waits(b) == \E k \in 1 .. Len(queue) : Surrounds(queue[k], b)

(* The rule being scanned has written the block, and no symbol of it that  *)
(* begins in the block has been seen.                                      *)
Coming(b) ==
  /\ pc = "scan"
  /\ dirty[b] /\ samples[b].rule = cursor.rule
  /\ Surrounds(Scanned, b)
  /\ cursor.pos < BlockEnd(b)
  /\ \A k \in 0 .. (cursor.index - 1) :
       Scanned.start + given.off[cursor.rule][k] < BlockStart(b)

(* The block has its sample. *)
Settled(b) == ~dirty[b] /\ SampleSound(b) /\ SampleDeepest(b)

NoBlockForgotten ==
  /\ pc \in {"next", "scan"} => \A b \in Blocks : Waits(b) \/ Coming(b) \/ Settled(b)
  /\ ~Building => \A b \in Blocks : Settled(b)

WalkTypeOK ==
  /\ pc = "lengths" => queue = << >> /\ ~spilled
  /\ pc # "lengths" =>
       /\ LengthsComputed
       /\ samples \in [Blocks -> [rule : Nat, index : Int, rel : Int]]
       /\ dirty \in [Blocks -> BOOLEAN]
       /\ queue \in Seq([start : Nat, rule : Ids(given)])
  /\ pc = "scan" => cursor \in [rule : Ids(given), index : Nat, pos : Nat]

BuildInv ==
  /\ WalkTypeOK
  /\ WalkFollowsText
  /\ NoBlockForgotten
  /\ SpillOnlyAtBoundary
=============================================================================
