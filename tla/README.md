# Gracli: specification, model checking and proofs

Gracli answers two questions about a compressed text without unpacking it: which character
is at a place (`at`), and what stands in a range (`substr`). This directory holds TLA+ modules of the
data structures that do it, TLC configurations that check them on small instances, and theorems
about them that TLAPS checks for every instance.

* [The system](#the-system)
* [Modules](#modules)
* [Runs](#runs)
* [Proofs](#proofs)
* [Where the code and its documentation part](#where-the-code-and-its-documentation-part)
* [Bounds, exclusions, fairness](#bounds-exclusions-fairness)
* [What is not modelled](#what-is-not-modelled)
* [Plan](#plan)

## The system

Gracli is a library with a command line program on top. The program loads one compressed
file, builds one data structure, and then either verifies it against a plain text or answers what
is typed in; after that it may run one benchmark. The library is sequential. The verification is parallel (OpenMP), and
its threads share counters and a critical section.

```
 grammar file --> BitIStream --> GrammarTupleCoder --> Grammar --dependency_renumber-->
        |                                                 |
        |                          calculate_full_lengths +--> NaiveQueryGrammar
        |                                                 +--> calculate_samples --> SampledScanQueryGrammar
 lzend file ---> BitIStream --> LzEndCoder --> parsing --build_aux_ds--> LzEnd
                                     all of them: CharRandomAccess, Substring (concepts.hpp)
                                                          |
   Gracli::run: verify_ds or query_interactive (main.cpp), then benchmark_* (bench.hpp)   <-- FileAccess (plain file)
```

| Component | State it keeps | Operations | What is hard, and what makes it correct |
|---|---|---|---|
| `Grammar` (`grammar/grammar.hpp`) | `m_rules` (bit-packed rules), `m_start_rule_id` | `dependency_renumber`, `expand`, `reproduce`, builders, statistics | An iterative depth-first search that saves its place in a rule and comes back; new ids written into fields of fixed width. Correct: post-order, dense ids, start rule last, text unchanged |
| `GrammarTupleCoder` | the file | `decode` | Field widths computed from the largest symbol of a rule; everything in the header is trusted; a missing file reads as zeros. Correct: the rules that were encoded |
| `BitIStream` (`util/bit_input_stream.hpp`) | `m_current`, `m_next`, `m_cursor`, `m_is_final`, `m_final_bits`, the stream | `read_bit`, `read_int`, `eof` | The end of the data is in the last or the last but one byte and must be seen one byte ahead; `read_int` goes past the look-ahead to the stream. Correct: the content is delivered once and in order whatever mix of reads is used |
| Rule lengths (`calculate_full_lengths`, in both query grammars) | `m_full_lengths`, `m_start_rule_full_length` | the summation, `rule_length` | Reads fields earlier turns must have written; packs them into fields of `ceil(log2(max))` bits. Correct: the length of every rule's string |
| `SampledScanQueryGrammar` | the above, `m_samples` (one per block of the text) | `calculate_samples`, `at`, `substr` (stream and buffer) | A queue of rules in which children overwrite what parents sampled; scans in both directions with unsigned indexes; pieces of a range that meet inside a rule. Correct: samples are sound; queries answer the text |
| `NaiveQueryGrammar` | the above without samples | `at`, `substr` (stream and buffer) | Mutual recursion of seeking and copying that shares one count of characters left. Correct: as above |
| `LzEnd` (`lzend/lzend.hpp`) | `m_last`, `m_last_pos`, `m_source_begin`, `m_source_map` | `build_aux_ds`, `at`, `substr` | A bit vector written by two loops that advance together, a map packed in place into the words it is read from, a recursion over copies of copies. Correct: every phrase finds its source, `at` ends, queries answer the text |
| LZ-End coder (`lzend/lzend_coder.hpp`) | the file | `decode` | Byte order differs from that of the stream; the end is seen by `eof`, in a file that has no trailer. Correct: the phrases that were encoded |
| `Permutation` (`util/permutation.hpp`) | the permutation, a bit vector of shortcuts and where they lead | `construct`, `next`, `previous` | Two walks, one setting and one using shortcuts, must agree on where they are. Correct: `previous` inverts `next` in a bounded number of steps |
| `verify_ds` (`main.cpp`) | per thread two buffers; the progress bar, a critical section | two parallel loops | Cancellation, buffers that keep old characters, a message printed in any case, progress arithmetic that divides by `n / 100`, a bound that wraps around. Correct: no false alarm, all that is visible is reported |
| `query_interactive` (`main.cpp`) | the word at hand | `help`, `exit`, `bounds`, an index, a range | Open and bad parts of a range, unsigned lengths, the end of the input. Correct: what was asked for is printed, and only queries outside of the text go wrong |
| `Gracli::run` (`main.cpp`) | the options | chooses a tool, then a benchmark | options shadow one another; what a tool leaves behind meets the benchmark |
| `FileAccess`, `benchmark_*` (`bench.hpp`) | a file descriptor | open, `at`, `substr`, close; build, then query | A copy of the object shares the descriptor that the original closes, and the number can be handed out again |
| Grammar statistics (`grammar_stats.cpp`, `grammar.hpp`) | a table of known lengths or depths | the two recursions, averages | A table that stands for "not known" with a number that is then summed up |
| `BlockTree` wrapper, `util.hpp` | - | forwarding, printing | nothing of its own |

Components interact by calls, by what a constructor leaves to the queries that follow (which
are `const`), and, in the program, by the descriptors of the process. So most hazards are those of sequential code with
much derived state: one step relying on an order that another step must have established, packed fields that are too
narrow, unsigned arithmetic at boundaries, recursions that share a counter. The threads of `verify_ds` and the descriptor
that outlives its owner add the others. `PROJECT.json` lists them line by line under `hazards`.

## Modules

| Module | What it models |
|---|---|
| `Packing` | Fields of a fixed number of bits (the external word_packing library): a stored value comes back modulo `2^width` |
| `BitVectors` | Bit vectors with rank and select (the external pasta library), as the sets of the places of their ones; `LzEnd` and `Permutation` use it |
| `Grammars` | Symbols, rules, grammars; the width the decoder gives a rule; what rules a file may have (`IsRuleSet`), which of them are a grammar (`IsGrammar`, without cycles), what a renumbered one is (`IsOrdered`), what it stands for (`Expansions`, `IsDerivation`) |
| `Renumber` | `dependency_renumber` and `renumber_internal`, one action per turn of each loop |
| `GrammarOps` | extends `Renumber` by `reproduce_` (and the query grammars' `reproduce`, which is its second half), and by the statistics: lengths and depths, with the frames of their recursion |
| `Lengths` | in one formula, what `calculate_full_lengths` leaves behind; the naive queries build on it |
| `FullLengths` | `calculate_full_lengths` and `rule_length` |
| `SampleBuild` | extends `FullLengths` by `calculate_samples`: the constructor of the sampled structure |
| `SampledScan` | extends `SampleBuild` by `at` and `substr` with `scan_left`, `scan_right` and `write_expansion`: the whole structure from constructor to queries |
| `NaiveQuery` | `at`, `write` and `substr` of the naive grammar, with its call stack |
| `LzEnd` | `build_aux_ds`, `at`, `substr_internal`, `substr` |
| `BitIStream` | the reader under both decoders |
| `Decoders` | extends `BitIStream` by `GrammarTupleCoder::decode` and `lz::decode`, and by a reader of any mix of bits and integers |
| `Loading` | `from_file` of a query grammar: composes `Decoders` and `Renumber` (`INSTANCE`), from the bits of a file to renumbered rules |
| `Permutation` | `construct`, `next`, `previous` |
| `SizeT` | sums and differences of a `size_t` |
| `VerifyDs` | `verify_ds` with any number of threads, one action per step that another thread can come between |
| `QueryInteractive` | the loop of `query_interactive`, and every way out of it |
| `Bench` | the descriptor of `FileAccess` through building, returning, querying and destroying in a benchmark |
| `Program` | `Gracli::run`: composes the three before, each tool with a data structure that may be a `FileAccess` |
| `RandomAccess` | the abstract specification: a text that never changes; each query is answered, with the characters of the text that were asked for |
| `MC...` | the instances TLC checks; `MCGrammars` builds ordered grammars for two of them |
| `..._proofs` | the theorems |

Composition. `Decoders` ends in the rules and the phrases that the inputs of `Renumber` and `LzEnd` stand for; `Loading` hands the rules on to `Renumber`. `Renumber` ends in
a grammar that satisfies `IsOrdered` (`DependencyOrdered`, proved); `FullLengths` assumes `IsOrdered` of its inputs and is
part of `SampledScan`, whose steps are steps of `FullLengths` (`LengthsImplemented`, proved); `Lengths` is what it
leaves (`PackedAsStored`, proved), and `NaiveQuery` assumes it. All three structures implement `RandomAccess`. `Program` is a
conjunction of the variables of `VerifyDs`, `QueryInteractive` and `Bench`, and implements `VerifyDs` (`VerifyImplemented`, proved).
The assumptions are the named `ASSUME`s, and TLC evaluates each on its instance.

State and code. Variables have the names of the members and locals they stand for, in the comment
where TLA+ needs another spelling. Ids, indexes and places are 0-based as in the code. Some choices
need a word:

* `Grammars`: `RULE_OFFSET` is 256 in the code and a constant here, so that a model of three rules has
  ids as wide, in relation to characters, as 256 rules have in the code. A rule is a record of its field
  width and its symbols. `Derived` annotates a grammar with the string of each rule and the offsets of its
  symbols; the code never sees these, the properties compare with them. `IsDerivation` says the same
  without recursion, which is the form the proofs use.
* `Renumber`: `renumber_internal` uses an explicit stack, and so does the module. A rule without a new number
  is moved to `new_rules[invalid]`: `WildMove` goes to the state `"wild"`, of which nothing more is said. A rule that derives itself is pushed again
  and again: `StackLimit` is how many frames memory holds, at least one for each rule, and `StackExhausted` is the exception behind it.
* `SampleBuild`: the model goes on from the lengths only if they are right; what follows from lost ones is the matter of finding 2.
* `SampledScan`: the header has each query twice, for a stream and for a buffer, with the same loops. The
  module has them once. The stack `char_stack` of `scan_left` is the variable `charStack`, the frames of `write_expansion` and
  `write_expansion_reverse` are `writing`; a jump of the code's index by a whole rule is one action.
* `NaiveQuery`: the frames of `write` are the variable `calls`; `left` is the `len` all of them share.
* `GrammarOps`: the recursions of the statistics are the variable `frames`. They run on the grammar as it was read,
  `reproduce_` on the renumbered one, as in the code. A file without rules has the start rule 2^64 - 1, and the statistics read there (`StartStatsEmpty`).
* `LzEnd`: bit vectors are sets of positions with `Rank` and `Select`. `m_source_map` is `memory`: of each bit, the value it is a bit
  of, the width and the place it was written with. That matters because the map is packed in place: entry `k` of `PhraseBits` bits
  is written where word `k` may still be unread. A field whose bits do not belong together is `Garbled`.
  The stable sort of the sources is one action. The recursion of
  `substr_internal` is the list `todo`.
* `BitIStream`: the buffers are one record, so that `IntIsItsBits` can compare what one `read_int` does with what
  single bits would do, in every reachable state.
* `Decoders`: a file is given by what it stands for, and `Init` lays it out. The encoders are not part of the repository; the layout is
  the one the decoders read.
* `VerifyDs`: which thread runs which iteration is left open, as OpenMP leaves it: `Fork` picks any division, and each thread runs its own iterations in
  order. A cancellation is noticed only by the thread that asks for it, at its own `cancel`; it drops the rest of its iterations and the others finish theirs, because the loops have
  no other cancellation point. A structure may be that of a shorter text; `at` and `substr` then read behind theirs (`AtBehind`, `SubstrBehind`: `"undefined"`). `src_buf` and `ds_buf` are kept per thread with
  their old content, because `substr` may write less than a window. `bar.update()` is two steps, a read and a
  write. A case has a flag for `OMP_CANCELLATION`: without it `cancel` does nothing. An exception in a parallel region
  and a division by zero end the program: `"crashed"`.
* `QueryInteractive`: a word is a record of what the code makes of it; a part of a range is a number, open, or bad (what
  `stoul` rejects). Where `substr` writes nothing the buffer has what uninitialized memory held, any characters of `Junk`, 0 among them, and printing stops at the first 0.
* `Bench`, `Program`: `open` gives the lowest free number, as POSIX says. `std::random_device` may or may not open a file.
  What `pread64` delivers is the file; what counts here is which file.
* `RandomAccess`: a request is put, answered and taken. The structures map their text to `text` and their
  variables `request` and `reply` to its own; what they do in between is stuttering.

Definitions whose comment begins with *Variant* are slips a programmer could make in the definition that
follows them. No specification uses them: each shows that some property notices the slip, and `PROJECT.json`
says which.

## Runs

Each takes a minute and a half at most. The number of distinct states is in brackets.

| Run | Instance | What it shows |
|---|---|---|
| `renumber` [41859] | all grammars of three rules with bodies up to two symbols, ids in any order, any start rule; six shapes of four rules under all renamings; no rules. Each asked for its text and for its statistics | post-order; dependency order at the end; the wild move only for unreachable rules; `reproduce_` finds every rule expanded when it is needed, and the text comes out, whenever the new ids fit; the tables of lengths and depths never hold a wrong value, and the averages are averages exactly if all rules are reached; every call returns |
| `decoders` [205292] | plain files: all contents up to 8 bits, longer ones up to 30, all sequences of reads; 3-byte grammar files of up to three rules with characters and ids up to two bytes, and of all sets of three rules of one or two symbols, cyclic or not; LZ-End files of up to three phrases with integers of one to three bytes | the content is delivered once and in order, the end is reported exactly when it is reached, an integer is its bits; both decoders return what the file stands for, and a rule of nothing but the character 0 is the only one not decoded; renumbering what was read runs out of memory if and only if a cycle is in reach of the start rule (for LZ-End: up to the loss described [below](#what-is-not-modelled)) |
| `sampled_scan` [290095] | renumbered grammars of one to four rules, block size 3, every place and every range, also past the end; grammars whose longest length is lost go through the lengths only | sums are exact, packing loses a length exactly if the longest is a power of two, and has no width exactly if only the start rule derives a character; samples are sound and deepest, the walk follows the text, writes past the end only at a block boundary; `at` stays in the rule it reads and around the character it wants, `at` and `substr` implement `RandomAccess` |
| `naive_query` [249461] | renumbered grammars of two to four rules whose lengths packing keeps | calls follow the text, `at` is right, `substr` implements `RandomAccess` on all of the text but its last character |
| `lzend` [141532] | all parsings of two to five phrases and up to eight characters | no source is missed, each phrase finds its own source before, while and after the map is packed in place, copies follow the text, `at` and `substr` implement `RandomAccess` |
| `program` [546302] | two threads, a window of 2, a bar of 3 ticks, texts of 0 to 6 characters, structures that are right, wrong at one place, in one window, or everywhere, and structures of shorter texts, with and without cancellation; inputs of up to two words; sizes modulo 8, memory of 4; descriptors 0 and 1; each tool with each kind of benchmark | no false alarm, nothing visible unreported, no tick lost, a crash only for texts that are too short, and reading behind a structure only if it is shorter than the text; the interactive mode prints what was asked for and goes wrong only outside of the text; each tool reads its own file and leaves nothing open; only a benchmark asks a stale descriptor; the program ends if its user does not have to end it, or does; at the end of the input the interactive mode goes on for ever |
| `permutation` [34400] | all permutations of two to six elements; twelve of nine elements, whose spacing is four | every shortcut leads to the one before it, `previous` inverts `next` within `m_shortcut_spacing` steps |
| `renumber_width`, `lengths_power`, `sampled_spill`, `naive_last`, `verify_message` | as above | each refutes one sentence of the documentation, see [below](#where-the-code-and-its-documentation-part) |

## Proofs

`tlapm` checks eight modules. Their theorems hold for all values of the constants that satisfy the named assumptions: every set
of grammars, every `RULE_OFFSET` and field width; every parsing, every word size; every permutation; every number of threads,
every text and answer; every size of a `size_t`; every input; every number of descriptors.

Where an invariant is not inductive by itself, the strengthened one is a conjunction of named parts, and TLC has evaluated it
on the instance of the component's run before its proof.

**`Renumber_proofs`.** From `InputsAssumption` (each input is a grammar without a cycle), `StackAssumption` (there is memory for one frame for each rule) and
`WidthAssumption`. `Inv` is the inductive invariant:

* `StackIsPath` (frames are a derivation path without repetitions) is not inductive alone. That no rule is pushed twice
  follows from `RanksFall`: a grammar without cycles has a rank that falls from a rule to its children,
  hence along the stack. So there are never more frames than rules, and memory is enough (`NoExhaustion`).
* `PostOrder` needs `Passed`: everything a frame has gone by is numbered, except the child it is waiting for.
* `DependencyOrdered` needs `Counted` and `StartLast` (the start rule is at the bottom of the stack, so it gets
  the last number, and `count - 1` is it) and `Moved` (what the rewriting loop has put where).

Theorems: `Invariance`, `TypeCorrectness`, `PostOrderCorrectness`, `NumberedOnceCorrectness`, `WildMoveSafety` (a grammar whose
start rule reaches all rules is never moved out of bounds), `DependencyOrder`, `NeverExhaustedCorrectness`. Cutting an id off in a
narrow field only makes it smaller, which is why `DependencyOrder` holds for all grammars though `TextKept`
does not.

The module goes on to `GrammarOps`, where a grammar is asked for its statistics or its text: `OpsSpec` takes steps of `Renumber` or leaves its variables
alone (`RenumberPart`), so what is proved of the renumbering holds there (`OpsPostOrder`, `OpsWildMove`, `OpsDependencyOrder`). The right-hand sides of the properties,
`Expansions`, `TrueDepth` and the totals, are recursive functions and folds. Induction over data is out of reach, but a fact that fails for some rule fails for one
of least rank (`NoLeastRule`), and a fact about sequences or sets of numbers for a shortest or lowest one; in this way `ExpansionsAre`, `DepthIs` and `PartialSums` show that the
functions exist and what their values are.

* `ReproducedCorrectness`: when `reproduce_` gets to number `k`, the rules with smaller numbers have been put together and are the strings of the
  rules the file had (`ExpandInv`); a rewritten symbol names a smaller number (`RenumberedChildren`), the right one if it fits its field (`RenumberedSymbol`).
* `StatsCorrectness`: a call in progress holds the length or the depth of the symbols it has passed (`CallRight`), and what is in the table is right
  (`TableRight`), whatever the order in which rules become known.
* `AverageCorrectness`: when the start rule has returned, known are exactly the rules in reach (`TotalReported`), because the known ones are closed under children and
  only rules in reach are called. Where a rule is not known the sum is too large, never too small, so no two errors make up for each other (`SumsCompare`). It needs
  `SizesAssumption`, that lengths and numbers of rules are less than 2^64 - 1: no length is the value for "not known".

Between the two, a bridge to the modules about queries, whose inputs carry the strings of their rules as annotation. `DerivationExists`: `Derived` gives every
grammar such an annotation, so assuming one leaves no grammar out. `DerivationIsExpansion`: a renumbered grammar has only one, the strings of
`Grammar::expand`, so the text that `at` and `substr` are proved to answer from is the text `reproduce_` is proved to return. Both rest on
`FlattenAt`, where the characters of each piece are found in pieces laid end to end.

**`SampledScan_proofs`, the lengths.** From `InputsAssumption` (grammars are ordered and annotated with their derivation; lengths fit
the 64-bit fields). The induction is over the turns of the loop: `PrefixSummed` says the field at hand is the offset of
the next symbol, `SummedExactly` that earlier fields are final, `LongestSoFar` what `max_len` is. Theorems:
`SumCorrectness`, `PackingCorrectness`, `ShorterRulesCorrectness`, `TypeCorrectness`, and `LossCorrectness`: packing loses a length if and only if the
longest rule's is a power of two, and there is no width to pack with only if no other rule derives a character (`NothingFound`). The last is about `CeilLog2`, whose value is the least exponent whose power is large enough.

**`SampledScan_proofs`, the samples.** From the same, `RulesAssumption` (no rule is empty) and `SamplingAssumption`. The lemmas are about what the loop
computes with: offsets rise (`OffsetsRise`), no rule derives the empty string (`LengthPositive`), the blocks `Covered` names are those
the rule's string surrounds (`CoveredIs`, where division rounds up on one side and down on the other). That the samples are sound at the end is far from inductive; `BuildInv`
says how each block gets there:

* `Waits`: a node in the queue surrounds the block and will write it; `Coming`: the rule being scanned has written it, and none of its symbols seen
  so far begins in it; `Settled`: it has its sample, sound and deepest. `NoBlockForgotten`: every block is in one of these, all the time.
* A symbol moves a block from `Coming` to `Settled` if it is the first to begin there (`SampledNow`), or to `Waits` if it is a nonterminal
  around the block. A scan ends only behind its rule's string, so then nothing is `Coming`; with an empty queue nothing `Waits`.
* `WalkFollowsText` carries this: without it, nothing says that the places of the queue are places of the text.

**`SampledScan_proofs`, the structure.** The sampled structure with its constructor, `at` and `substr` implements `FullLengths`
(`LengthsImplemented`, by showing of each action that it is a step of the lengths or leaves them alone). So the theorems about them
hold for it: `LengthsSummed`, `LengthsStored`, `ShorterRulesSeen`. The queries leave the samples alone (`AtIsQuery`, `SubstrIsQuery`), which gives
`WalkCorrectness`, `SpillCorrectness`, `SamplesCorrectness` and `DeepestCorrectness`. From sound samples follows:

* `AtCorrectness`: `at` reads only symbols that exist, in both directions, and returns the character that was asked for. Its invariant `AtInv` says that
  the rule at hand stands around the character (`Encloses`), that the scan has not passed it, and (`OneQuery`) that an answer belongs to the query it
  was computed for.
* `SubstrInvariance` and `WrittenCorrectness`: what `substr` has written is the text from where it began, whatever mix of scans to the left, expansions of
  whole rules and pieces of rules it took. The calls of `write_expansion` are described without recursion: each frame stands for a part of
  its rule's string, and what it has still to write follows the parts of the frames above it. In the leftward direction the stack of characters holds the text in reverse, and
  emptying it turns it round.
* `NoWrapAround`: the unsigned indexes of `scan_left` never go below zero. It rests on `AboveStart`: a range that begins at place 0 has nothing to the left of
  its sample.
* `PromiseSafety`: the structure implements `RandomAccess` without its fairness: it starts as the abstract specification does, and each of its steps is a
  step of it or a stutter. An answer is given only to a query that was put, and is the text.

**`NaiveQuery_proofs`.** From the same and `LengthsExact`. `AtCorrectness`: `at` reads only symbols that exist and returns the
character that was asked for. Its invariant `AtInv` says that the character sought is the one `rest` places behind the
symbol at hand in the string of the rule at hand. `WriteInvariance` and `CallsCorrectness`: the calls on the stack are nodes of the derivation tree,
each inside the symbol its caller stopped at, and what was written, what is left and where the calls are agree, although all of them count down the same
variable. `PromiseSafety`: the safety of `RandomAccess` for all of the text but its last character.

**`Permutation_proofs`.** From the assumption that inputs are permutations. `After(p, i, k)`, the element `k` steps behind `i`, is characterised without induction over data: of the steps
at which a property of it fails there would be a least one (`LeastNatural`). `Inv` says that `construct` has shortened whole cycles,
where its walk is in the cycle at hand, and how far the last mark is behind it. `ShortcutsCorrectness`: every shortcut leads to the mark before it,
`m_shortcut_spacing` steps back, or at most that many in the last part of a cycle. `PreviousCorrectness`: the walk of `previous` takes one shortcut at most, ends within the bound and
returns the element whose successor was asked for; its invariant is the distance still to go.

**`LzEnd_proofs`.** From the assumptions on parsings (each phrase copies what ends where an earlier phrase ends) and words.

* The build. `m_source_begin` is written by two loops that advance together: the `r`-th one of it lies at `start + r`, `start` being the place the source
  begins at. The invariant says how many ones and how many zeros are behind each loop; from the count follows what `Rank` and `Select` return
  (`MarkingCorrectness` for `NoSourceMissed`). Packing in place never writes over a word that is still to be read, because `PhraseBits <= WordBits`, and never
  garbles what it has packed (`MapCorrectness` for `SourcesFound`).
* The queries. The list `todo` of `substr_internal` stands for what is missing of the answer: its pieces, ranges to copy and last characters of phrases, concatenate
  to it, and replacing a range by the source of its phrase and what follows keeps that (`WorkCorrectness`). That concatenation is a fold (`FlattenSeq`), whose facts are proved by least counterexample, too.
* `Invariance` has both, `PromiseSafety` the safety of `RandomAccess`.

**`Program_proofs`, `verify_ds`.** From `CasesAssumption` and `SizesAssumption`; nothing is assumed of what the structure answers or of what the
buffers hold at first. The inductive invariant `Inv` says what a thread knows although the others run between any two of its
steps:

* `InLoop`: every thread is in the loop at hand, in an iteration of it; `OwnBuffers`: a thread that compares has in its buffers what it wrote.
* `CharsCovered` and `WindowsCovered`: what is wrong has been reported, or its comparison is still to come. `LeftDone`: a thread leaves
  when none of its iterations is left, or it gave them up after a report. Together they give `EveryVisibleErrorReported`.
* `ShortStuck`, `BehindStuck`, `LongEnough`: an iteration of a loop that is too short stays pending until it
  crashes; `ReportedKnown`: of places behind the structure nothing is reported, since asking for them is undefined. Together they give `CrashesIfShort`.
* `TicksInv` adds what the progress bar needs. Each iteration is run once (`OnceEach`); who is between reading and writing the bar is alone in the critical section,
  and what was read is still so (`AloneInUpdate`); hence the bar shows the number of iterations that make a tick and are over (`BarShowsCounted`).

Theorems: `Invariance`, `TypeCorrectness`, `NoFalseAlarmCorrectness`, `ReportCorrectness`, `CrashCorrectness`, `TicksInvariance`, `TicksCorrectness`.

**`Program_proofs`, the program.** From the assumptions of the parts.

* `VerifyImplemented`: the program implements `VerifyDs`, because no other action touches its variables. So
  `ProgramRaisesNoFalseAlarm`, `ProgramReports`, `ProgramCrashesIfShort` and `ProgramCountsTicks` follow from the theorems above.
* `AskedInv` (the structure is one of those given whenever a word is answered, and the words are words) gives
  `RangesAnswered` and `FailureOnlyOutside`. The arithmetic is in `RangeFacts`: a range that begins at most one behind its
  end has the length `to - from + 1` although each difference counts modulo the size of a `size_t`. `ShownBeforeZero` is about what a C string shows.
* `EndlessCorrectness` (for `EndlessAtEndOfInput`): once the words are used up the loop stays in its prompt, for every text and every input.
* `OwnedInv` says which descriptor is open, for what, in every stage of the program and of the benchmark (`BenchOwns`). It
  gives `DescriptorCorrectness` and `StaleCorrectness`. A number that is closed twice is harmless in this program,
  only because the random device is gone by then.

**`Grammars_proofs`** holds the lemmas the first ones share: symbols and children, offsets are sums, the least number with a
property, `CeilLog2`. Modules that do not build on grammars state the few of these they need again.

**`Decoders_proofs`.** From `DecodersAssumption`: files stand for bits, rules or phrases whose numbers fit the integers of the file, a byte has
at least as many bits as its trailer, and an integer of a grammar file is shorter than the longest integer a reader takes. All contents, all sizes of bytes and all
lengths of integers are covered. What `InBase`, `ReadBits` and `Read` compute is established through least counterexamples, as above.

* The numbers: the value of bits laid end to end (`NumberConcat`), and that a byte, or bytes joined, holds the content's bits in the order they are read
  (`EncodedIs`, `ByteHead`, `JoinedIs`); the trailer is where the last bits are and nowhere else (`Trailer`).
* The invariant is `Placed(s, p)`: the buffers hold the bytes around place `p` of the content and the cursor is at its bit. Opening places the
  stream at 0 (`OpenedIs`); a bit, bits one by one, whole bytes and an integer of any width each return the value there and move the place on
  (`BitRead`, `BitsRead`, `WholeBytesRead`, `IntRead`). Two streams at one place have the same buffers (`PlacedSame`), hence `IntCorrectness`; the end is
  reported at the last place only (`EofIs`), hence `EofCorrectness`. Without a trailer neither would hold.
* `GrammarInv` adds where each field is (`RuleStart`, `SymbolStart`): `RuleStored` and `SymbolStored` say that the file holds there what the decoder
  takes it for, `PackedKeeps` that the packed field is wide enough for it, `NoBlankRule` that no rule got past the decoder without a width. `MissingInv` is about a file that is not there: its stream is dead, and gives zeros for ever.

* A file without a trailer is read byte by byte, and its invariant is `AtByte(s, q)`: `q` bytes are read and the buffers hold the next two as the stream hands
  them out (`Byte`): zero behind the end, and zero for the last one if it looks like a trailer. `ByteRead`, `BytesRead` and `ZerosRead` move it on, past
  the meaningless bytes of the header, too; `EofAt` says when `eof` answers. `ParsingLies` is where the phrases lie; `LittleIs` and `LittleShort`
  what the bytes of a number give, with the highest one or without. `ParsingInv` adds that as many phrases are decoded as are read, each as expected, and that
  `source_len` is the length of them. `PhrasesLeft`: `eof` answers behind the last phrase and not before, so the loop ends there. `LengthLost`: if the last byte is lost the
  length is too short, because a byte that looks like a trailer is not zero.

Theorems: `EofCorrectness`, `IntCorrectness`, `RulesCorrectness`, `ParsingCorrectness`, and `ReadsCorrectness` for the files of all kinds.

`WidthAssumption` and `PowersAssumption` (powers of two are positive integers, double with the exponent, and begin with 1) are assumptions because TLAPS has no theory of
exponentiation; TLC evaluates them in each run.

Only model-checked: liveness, which TLAPS does not do here (`Returns`, `ProgramEnds` except for its last part, `EndlessAtEndOfInput`, which `EndlessCorrectness` proves, and the fairness of `RandomAccess` in the three refinements, that is, that every query is
answered in the end), and `EndsUnlessCyclic`: the theorems are about grammars, which have no cycle, and of these `NeverExhaustedCorrectness` says that the search does not run out of memory. Every other invariant that a run checks and that holds is also proved.

## Where the code and its documentation part

1. `renumber_width`. `renumber_internal` stores a new id in the field the decoder sized for the old one
   (`grammar.hpp:169`, `grammar_tuple_coder.hpp:46`). If the new id is wider, its high bits are lost and `reproduce_` (`:248`,
   "Reproduces this grammar's source string") returns another text. `Reproduced`, proved, says that this is the only way.
2. `lengths_power`. `ceil(log2(max_len))` bits do not hold `max_len` if it is a power of two
   (`sampled_scan_query_grammar.hpp:160`, `naive_query_grammar.hpp:69`), so the longest rule gets length 0.
   `LossOnlyAtPowersOfTwo`, proved, says that nothing else is lost. The query modules therefore take grammars with `LengthsExact`.
3. `sampled_spill`. `calculate_samples` adds a block for a rule that ends with the text, meant for an incomplete last
   block, also if the text ends on a block boundary (`sampled_scan_query_grammar.hpp:102`); the write goes past the end of
   two vectors. `SpillOnlyAtBoundary`, proved, says that this is the only way. The rest of the model ignores what lies there.
4. `naive_last`. `substr` bounds its exclusive end by the length of the text minus one
   (`naive_query_grammar.hpp:329` and `:342`), so no answer contains the last character. `KeepsPromiseButLast` says that
   everything before it is right; its safety is proved.
5. `verify_message`. `verify_ds` prints "Verification successful!" in any case (`main.cpp:99`), after whatever reports, and it leaves out the last window
   of the text (`i < n - 10`, `:84`). The help text of `-v` (`:214`) says it verifies that the file reproduces the same characters as a
   reference file. `EveryVisibleErrorReported` says what is true instead: of the reports on the way nothing is missing that
   `strcmp` could see.

## Bounds, exclusions, fairness

* `MaxWidth` (8, and 25 for `Decoders`) bounds exponents, not behaviour: every length and symbol in an instance is below `2^MaxWidth`.
* `RuleOffset` (2) makes ids reach the next power of two with three rules, which is what finding 1 is about.
* The grammars of `sampled_scan` and `naive_query` are those `dependency_renumber` leaves: ordered, with every rule in reach of the start rule and numbered in
  the order of the search (`IsRenumbered`). The theorems ask for `IsOrdered` only.
* `StackLimit` is the largest number of rules in the instance, the least that `StackAssumption` allows; with more memory the exception only comes later.
* Three and four rules: the search needs a rule that is saved, left, and returned to; a rule that was numbered
  meanwhile; and one that is not reached. Two levels below the start rule give all of these; four add the diamond and
  the chain.
* Block size 3 with texts up to about twenty characters: blocks within one rule, straddling several, cut by the end,
  and repaired after a deeper rule covered them. Ranges start and end on each side of a sample.
* `LzEnd`: five phrases make copies of copies of copies, sources that share a place and empty sources. The
  character of a phrase is its number. No operation compares characters, so a run on distinct ones stands for all
  texts: a structure that reads the right place is right whatever stands there. `WordBits` is 4, so entries of two and
  three bits share words and straddle them.
* `Decoders`: 30 bits let an integer span several whole bytes and stay within TLC's integers; therefore integers of a grammar file have 3
  bytes here and 4 in the code. Ids above 255 and 65279 make fields wider than a byte. All values of the low bits of a last length occur, for
  the missing trailer.
* `Program`: two threads are enough for a lost update, a shared buffer and a thread that leaves before another one reports; the
  proofs cover more. A window of 2 and a bar of 3 ticks keep the proportions of 10 and 100: a text can be shorter than a window, long enough for
  one loop and not for the other, or long enough for both. A structure can be shorter than its text for either loop. Junk of 0 and of a character no text has
  covers what memory can hold, as far as printing tells it apart. Sizes modulo 8 against a memory of 4 give lengths that fit, that cannot be allocated
  and that wrap around. Two words of input, the second one `exit` or an index: state that a word leaves behind can only be the answer and
  the descriptor. Two descriptors let the random device take the number that was closed, or find none.
* `Permutation`: six elements give all cycle types with shortcuts three apart; nine elements have cycles longer than twice the spacing.
* A rule of a grammar file with no symbol above 0 (`log2(0)` is undefined in the tuple coder) ends the decoder's model in `"undefined"`; grammars
  given to the other modules have such a symbol in each rule, and, in the query modules, at least one
  rule. A grammar of the start rule alone reaches the same undefined conversion in `calculate_full_lengths`: the module stops in
  `"undefined"`.
* `Permutation` starts at two elements: fields of one have no bits.
* `LzEnd` inputs have at least two phrases. A text of one character gives all packed vectors fields of no bits, and
  what the external packing library does with those is not in the repository.
* `LzEnd` is asked for ranges that start in the text or at its end: beyond it,
  `source_length() - substr_start` wraps around. A hazard is listed for it. The grammars are asked for any range.
* Texts are shorter than 2^32 (`m_start_rule_full_length` is a `uint32_t`).

Fairness is weak fairness of the computing steps. In the library each runs in one thread that waits for nobody, so a step that can be
taken is taken; a terminating loop must terminate under it. Nobody has to ask a query: asking is not fair, and
`RandomAccess` promises an answer only to a query that was put. `Program` has weak fairness of its whole next step: some thread that
can run does. That is enough for the end of both parallel loops, since no step of a thread can be repeated; no thread is promised a share.
`ProgramEnds` asks for an `exit` in the input, because at the end of the input the loop never ends (`main.cpp:114`); that is its last part, `EndlessAtEndOfInput`.

No instance may deadlock; finished computations stutter explicitly (`Terminated`).

## What is not modelled

* The grammar builders (`append_terminal`, `append_nonterminal`, `set_rule`): only tests call them. The printers and the
  counters of the query structures: they change nothing a query reads.
* Time and space in the benchmarks, and their output lines. Which places are asked for is random and irrelevant to the descriptor.
* What `pread64` delivers, short reads included: the operating system's.
* The block tree: an external library behind a wrapper that forwards every call. The computation of an LZ-End
  parsing (`compute_lzend`): external. `tests` and build files.
* `util.hpp`: reading a file into a string and printing.
* Undefined behaviour once it has happened: the actions that meet it lead to `"undefined"` or `"wild"`, of which nothing more is said. The query structures of a
  file without rules (`back()` of an empty vector) have no action: their modules assume a rule.
* The stream form of `scan_left` in several threads: no code calls it in parallel.

One behaviour was met that no sentence of the repository contradicts, so it is no run of its own: an LZ-End file has no
trailer, and `eof` is made for one. If the low three bits of the last byte are 6 or 7, the stream takes this byte for a
trailer, reads zeros in its place, and the decoder loses the highest byte of the last length. `ParsingDecoded`, proved,
states exactly that.

## Plan

Done, in this order: `Grammars`, `Renumber` with its proofs, `FullLengths` with its proofs, `SampleBuild` and
`SampledScan`, `NaiveQuery`, `LzEnd`, `BitIStream`, `RandomAccess` above the three structures; then
`GrammarOps`, `Decoders`, `Permutation`, `VerifyDs` with its proofs, `QueryInteractive`, `Bench`, `Program` with its
proofs, the composition of the lengths with the sampled structure, the proofs of the samples and of the sampled `at`; then
the proofs of `Permutation`, of both `substr` of the grammars, of the whole of `LzEnd`, of the progress bar, and of the safety part of
`RandomAccess` for all three structures, of what `GrammarOps` computes, of `BitIStream` and of both decoders.

Left: liveness, when the prover can do it, and what the section before lists.
