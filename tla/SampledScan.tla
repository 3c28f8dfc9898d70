----------------------------- MODULE SampledScan -----------------------------
(***************************************************************************)
(* SampledScanQueryGrammar: the samples of SampleBuild and the two queries *)
(* answered with them.  at scans from the sampled symbol of the block      *)
(* forward or backward and goes down into the symbol that holds the        *)
(* character.  substr takes the blocks of the range one by one and writes  *)
(* first what lies before the sampled place, collected backwards, then     *)
(* what lies after it.                                                     *)
(*                                                                         *)
(* The header holds both queries twice, once for a string stream and once  *)
(* for a char buffer; the loops are the same.                              *)
(***************************************************************************)
EXTENDS SampleBuild

VARIABLES
  request,           \* the query in progress, << >> if there is none
  reply,             \* the answer, << >> until it is complete
  out,               \* the characters written so far
  lo, hi,            \* the range of the block at hand: substr_start, substr_end
  block, lastBlock,  \* the loop over the blocks of the range
  charStack,         \* scan_left's characters, last one first
  writing            \* the calls of write_expansion(_reverse) in progress

queryVars == << request, reply, out, lo, hi, block, lastBlock, charStack, writing >>

vars == << lengthVars, samplesVars, pc,
           request, reply, out, lo, hi, block, lastBlock, charStack, writing >>

AtQuery(i) == [op |-> "at", from |-> i, len |-> 1]

SubstrQuery(from, len) == [op |-> "substr", from |-> from, len |-> len]

(* Characters of the text; ranges that may start or end past its end. *)
Queries(n) ==
  {AtQuery(i) : i \in 0 .. (n - 1)}
    \cup {SubstrQuery(from, len) : from \in 0 .. (n + 1), len \in 0 .. (n + 1)}

Init ==
  /\ BuildInit
  /\ request = << >> /\ reply = << >> /\ out = << >>
  /\ lo = 0 /\ hi = 0 /\ block = 0 /\ lastBlock = 0
  /\ charStack = << >> /\ writing = << >>

Build == BuildStep /\ UNCHANGED queryVars

Symbol == At(given.rules[cursor.rule], cursor.index)

SampleAt(b) == Cursor(samples[b].rule, samples[b].index, BlockStart(b) + samples[b].rel)

(* Into the first symbol of the nonterminal at hand. *)
EnterFront == [cursor EXCEPT !.rule = RuleId(Symbol), !.index = 0]

(* Into its last symbol. *)
EnterBack ==
  [cursor EXCEPT !.rule = RuleId(Symbol),
                 !.index = Size(given.rules[RuleId(Symbol)]) - 1]

-----------------------------------------------------------------------------
(* at *)

(* A query starts at the sample of its block.  Going forward, pos is where *)
(* the symbol at hand begins; going backward, where it ends.               *)
AskAt ==
  /\ pc = "ready" /\ request = << >>
  /\ \E i \in 0 .. (SourceLength - 1) :
       LET b == i \div Sampling
           s == samples[b]
           place == BlockStart(b) + s.rel
       IN  /\ request' = << AtQuery(i) >>
           /\ cursor' = IF i >= place THEN SampleAt(b)
                        ELSE Cursor(s.rule, s.index, place + SymbolLength(s.rule, s.index) - 1)
           /\ pc' = IF i >= place THEN "forward" ELSE "backward"
  /\ UNCHANGED << lengthVars, samples, dirty, queue, spilled, reply, out, lo, hi, block,
                  lastBlock, charStack, writing >>

Wanted == request[1].from

SymbolLengthHere == SymbolLength(cursor.rule, cursor.index)

(* Variant: a symbol is skipped also if its last character is wanted. *)
ForwardSkipTooFar ==
  /\ pc = "forward"
  /\ cursor.pos < Wanted \/ IsNonTerminal(Symbol)
  /\ cursor.pos + SymbolLengthHere <= Wanted + 1
  /\ cursor' = [cursor EXCEPT !.index = @ + 1, !.pos = @ + SymbolLengthHere]
  /\ UNCHANGED << lengthVars, samples, dirty, queue, spilled, pc, queryVars >>

ForwardSkip ==
  /\ pc = "forward"
  /\ cursor.pos < Wanted \/ IsNonTerminal(Symbol)
  /\ cursor.pos + SymbolLengthHere <= Wanted
  /\ cursor' = [cursor EXCEPT !.index = @ + 1, !.pos = @ + SymbolLengthHere]
  /\ UNCHANGED << lengthVars, samples, dirty, queue, spilled, pc, queryVars >>

ForwardEnter ==
  /\ pc = "forward"
  /\ cursor.pos < Wanted \/ IsNonTerminal(Symbol)
  /\ cursor.pos + SymbolLengthHere > Wanted
  /\ cursor' = EnterFront
  /\ UNCHANGED << lengthVars, samples, dirty, queue, spilled, pc, queryVars >>

ForwardFound ==
  /\ pc = "forward"
  /\ cursor.pos >= Wanted /\ IsTerminal(Symbol)
  /\ reply' = << << Symbol >> >>
  /\ pc' = "ready"
  /\ UNCHANGED << lengthVars, samplesVars, request, out, lo, hi,
                  block, lastBlock, charStack, writing >>

BackwardGoesOn == pc = "backward" /\ (cursor.pos > Wanted \/ IsNonTerminal(Symbol))

BackwardSkipTerminal ==
  /\ BackwardGoesOn
  /\ IsTerminal(Symbol)
  /\ cursor' = [cursor EXCEPT !.index = @ - 1, !.pos = @ - 1]
  /\ UNCHANGED << lengthVars, samples, dirty, queue, spilled, pc, queryVars >>

(* Variant: a nonterminal that ends on the wanted place is skipped. *)
BackwardSkipTooFar ==
  /\ BackwardGoesOn
  /\ IsNonTerminal(Symbol)
  /\ Wanted + SymbolLengthHere <= cursor.pos + 1
  /\ cursor' = [cursor EXCEPT !.index = @ - 1, !.pos = @ - SymbolLengthHere]
  /\ UNCHANGED << lengthVars, samples, dirty, queue, spilled, pc, queryVars >>

BackwardSkip ==
  /\ BackwardGoesOn
  /\ IsNonTerminal(Symbol)
  /\ Wanted + SymbolLengthHere <= cursor.pos
  /\ cursor' = [cursor EXCEPT !.index = @ - 1, !.pos = @ - SymbolLengthHere]
  /\ UNCHANGED << lengthVars, samples, dirty, queue, spilled, pc, queryVars >>

BackwardEnter ==
  /\ BackwardGoesOn
  /\ IsNonTerminal(Symbol)
  /\ Wanted + SymbolLengthHere > cursor.pos
  /\ cursor' = EnterBack
  /\ UNCHANGED << lengthVars, samples, dirty, queue, spilled, pc, queryVars >>

BackwardFound ==
  /\ pc = "backward"
  /\ cursor.pos <= Wanted /\ IsTerminal(Symbol)
  /\ reply' = << << Symbol >> >>
  /\ pc' = "ready"
  /\ UNCHANGED << lengthVars, samplesVars, request, out, lo, hi,
                  block, lastBlock, charStack, writing >>

-----------------------------------------------------------------------------
(* substr *)

(* The exclusive end of the range asked for. *)
SubstrEnd(query) == Min({query.from + query.len, SourceLength})

(***************************************************************************)
(* A range is answered block by block, by a recursive call for each of     *)
(* them if there are several.  An empty answer needs no block: the range   *)
(* ends at 0, or starts in a block behind the one it ends in.              *)
(***************************************************************************)
AskSubstr ==
  /\ pc = "ready" /\ request = << >>
  /\ \E query \in Queries(SourceLength) :
       LET end == SubstrEnd(query)
       IN  /\ query.op = "substr"
           /\ request' = << query >>
           /\ block' = IF end = 0 THEN 0 ELSE query.from \div Sampling
           /\ lastBlock' = IF end = 0 THEN -1 ELSE (end - 1) \div Sampling
  /\ pc' = "block"
  /\ UNCHANGED << lengthVars, samplesVars, reply, out, lo, hi, charStack, writing >>

(* What a block contributes to the range: [lo, hi). *)
BlockLo(query) == Max({query.from, BlockStart(block)})

BlockHi(query) ==
  BlockLo(query) + Min({Sampling - (BlockLo(query) - BlockStart(block)),
                        SubstrEnd(query) - BlockLo(query)})

(* Nothing is to be found before the sampled place.  (With a sample at     *)
(* place 0, source_index wraps around; the last test catches that.)        *)
NothingLeft(sample, from, end) ==
  \/ from > BlockStart(block) + sample.rel - 1
  \/ end <= from
  \/ sample.rel = 0

(* A call of write_expansion_reverse, and of write_expansion, at its start: *)
(* the rule and the index of the loop.                                     *)
CallReverse(id) == [rule |-> id, index |-> Size(given.rules[id]) - 1]

CallForward(id) == [rule |-> id, index |-> 0]

(* scan_left: from the symbol before the sampled one, pos its last place. *)
StartLeft ==
  /\ pc = "block" /\ block <= lastBlock
  /\ LET sample == samples[block]
     IN  /\ lo' = BlockLo(request[1])
         /\ hi' = BlockHi(request[1])
         /\ cursor' = Cursor(sample.rule, sample.index - 1, BlockStart(block) + sample.rel - 1)
         /\ pc' = IF NothingLeft(sample, lo', hi') THEN "leftDone" ELSE "left"
  /\ charStack' = << >>
  /\ UNCHANGED << lengthVars, samples, dirty, queue, spilled, request, reply, out, block, lastBlock,
                  writing >>

(* symbol_source_index: where the symbol at hand begins. *)
SymbolStart == cursor.pos - SymbolLengthHere + 1

ScanLeft == pc = "left" /\ writing = << >> /\ cursor.pos >= lo

(* The symbol lies behind the range. *)
LeftSkip ==
  /\ ScanLeft
  /\ SymbolStart >= hi
  /\ cursor' = [cursor EXCEPT !.index = @ - 1, !.pos = @ - SymbolLengthHere]
  /\ UNCHANGED << lengthVars, samples, dirty, queue, spilled, pc, queryVars >>

LeftWriteTerminal ==
  /\ ScanLeft
  /\ SymbolStart < hi /\ lo <= SymbolStart
  /\ IsTerminal(Symbol)
  /\ charStack' = Append(charStack, Symbol)
  /\ cursor' = [cursor EXCEPT !.index = @ - 1, !.pos = @ - 1]
  /\ UNCHANGED << lengthVars, samples, dirty, queue, spilled, pc, request, reply, out, lo, hi,
                  block, lastBlock, writing >>

(* The call of write_expansion_reverse starts at the rule's last symbol.   *)
LeftWriteRule ==
  /\ ScanLeft
  /\ SymbolStart < hi /\ lo <= SymbolStart
  /\ IsNonTerminal(Symbol)
  /\ writing' = << CallReverse(RuleId(Symbol)) >>
  /\ cursor' = [cursor EXCEPT !.index = @ - 1]
  /\ UNCHANGED << lengthVars, samples, dirty, queue, spilled, pc, request, reply, out, lo, hi,
                  block, lastBlock, charStack >>

(* The symbol begins before the range and reaches into it. *)
LeftEnter ==
  /\ ScanLeft
  /\ SymbolStart < hi /\ lo > SymbolStart
  /\ cursor' = EnterBack
  /\ UNCHANGED << lengthVars, samples, dirty, queue, spilled, pc, queryVars >>

(* The characters collected come out in the order of the text. *)
LeftDone ==
  /\ pc = "left" /\ writing = << >> /\ cursor.pos < lo
  /\ out' = out \o Reverse(charStack)
  /\ charStack' = << >>
  /\ pc' = "leftDone"
  /\ UNCHANGED << lengthVars, samplesVars, request, reply, lo, hi,
                  block, lastBlock, writing >>

(* scan_right: from the sampled symbol, pos its first place. *)
StartRight ==
  /\ pc = "leftDone"
  /\ cursor' = SampleAt(block)
  /\ IF hi <= SampleAt(block).pos \/ hi <= lo
     THEN pc' = "block" /\ block' = block + 1
     ELSE pc' = "right" /\ UNCHANGED block
  /\ UNCHANGED << lengthVars, samples, dirty, queue, spilled, request, reply, out, lo, hi,
                  lastBlock, charStack, writing >>

SymbolEnd == cursor.pos + SymbolLengthHere

ScanRight == pc = "right" /\ writing = << >> /\ cursor.pos < hi

(* The symbol lies before the range. *)
RightSkip ==
  /\ ScanRight
  /\ SymbolEnd <= lo
  /\ cursor' = [cursor EXCEPT !.index = @ + 1, !.pos = SymbolEnd]
  /\ UNCHANGED << lengthVars, samples, dirty, queue, spilled, pc, queryVars >>

RightWriteTerminal ==
  /\ ScanRight
  /\ SymbolEnd > lo /\ SymbolEnd <= hi
  /\ IsTerminal(Symbol)
  /\ out' = Append(out, Symbol)
  /\ cursor' = [cursor EXCEPT !.index = @ + 1, !.pos = @ + 1]
  /\ UNCHANGED << lengthVars, samples, dirty, queue, spilled, pc, request, reply, lo, hi,
                  block, lastBlock, charStack, writing >>

RightWriteRule ==
  /\ ScanRight
  /\ SymbolEnd > lo /\ SymbolEnd <= hi
  /\ IsNonTerminal(Symbol)
  /\ writing' = << CallForward(RuleId(Symbol)) >>
  /\ cursor' = [cursor EXCEPT !.index = @ + 1]
  /\ UNCHANGED << lengthVars, samples, dirty, queue, spilled, pc, request, reply, out, lo, hi,
                  block, lastBlock, charStack >>

(* The symbol goes on behind the range. *)
RightEnter ==
  /\ ScanRight
  /\ SymbolEnd > lo /\ SymbolEnd > hi
  /\ cursor' = EnterFront
  /\ UNCHANGED << lengthVars, samples, dirty, queue, spilled, pc, queryVars >>

RightDone ==
  /\ pc = "right" /\ writing = << >> /\ cursor.pos >= hi
  /\ pc' = "block"
  /\ block' = block + 1
  /\ UNCHANGED << lengthVars, samplesVars, request, reply, out, lo, hi,
                  lastBlock, charStack, writing >>

SubstrDone ==
  /\ pc = "block" /\ block > lastBlock
  /\ reply' = << out >>
  /\ pc' = "ready"
  /\ UNCHANGED << lengthVars, samplesVars, request, out, lo, hi,
                  block, lastBlock, charStack, writing >>

-----------------------------------------------------------------------------
(***************************************************************************)
(* write_expansion_reverse and write_expansion: the characters of a rule   *)
(* that lie in the range.  They call themselves for the nonterminals;      *)
(* source_index, which all calls share by reference, is cursor.pos.        *)
(***************************************************************************)
Writer == writing[Len(writing)]

WriterSymbol == At(given.rules[Writer.rule], Writer.index)

WriterSymbolLength == SymbolLength(Writer.rule, Writer.index)

(* The loop of the innermost call goes on, by d symbols. *)
Moved(d) == [writing EXCEPT ![Len(writing)] = [Writer EXCEPT !.index = @ + d]]

WritesReverse == pc = "left" /\ writing # << >> /\ Writer.index >= 0

(* Variant: characters behind the range are written too. *)
ReverseTerminalUnclipped ==
  /\ WritesReverse
  /\ IsTerminal(WriterSymbol)
  /\ charStack' = Append(charStack, WriterSymbol)
  /\ cursor' = [cursor EXCEPT !.pos = @ - 1]
  /\ writing' = Moved(-1)
  /\ UNCHANGED << lengthVars, samples, dirty, queue, spilled, pc, request, reply, out, lo, hi,
                  block, lastBlock >>

ReverseTerminal ==
  /\ WritesReverse
  /\ IsTerminal(WriterSymbol)
  /\ charStack' = IF cursor.pos < hi THEN Append(charStack, WriterSymbol) ELSE charStack
  /\ cursor' = [cursor EXCEPT !.pos = @ - 1]
  /\ writing' = Moved(-1)
  /\ UNCHANGED << lengthVars, samples, dirty, queue, spilled, pc, request, reply, out, lo, hi,
                  block, lastBlock >>

ReverseCall ==
  /\ WritesReverse
  /\ IsNonTerminal(WriterSymbol)
  /\ cursor.pos - WriterSymbolLength + 1 < hi
  /\ writing' = Append(Moved(-1), CallReverse(RuleId(WriterSymbol)))
  /\ UNCHANGED << lengthVars, samplesVars, pc, request, reply, out, lo, hi,
                  block, lastBlock, charStack >>

(* The subrule lies behind the range. *)
ReversePass ==
  /\ WritesReverse
  /\ IsNonTerminal(WriterSymbol)
  /\ cursor.pos - WriterSymbolLength + 1 >= hi
  /\ cursor' = [cursor EXCEPT !.pos = @ - WriterSymbolLength]
  /\ writing' = Moved(-1)
  /\ UNCHANGED << lengthVars, samples, dirty, queue, spilled, pc, request, reply, out, lo, hi,
                  block, lastBlock, charStack >>

ReverseReturn ==
  /\ pc = "left" /\ writing # << >> /\ Writer.index < 0
  /\ writing' = Front(writing)
  /\ UNCHANGED << lengthVars, samplesVars, pc, request, reply, out, lo, hi,
                  block, lastBlock, charStack >>

WritesForward ==
  pc = "right" /\ writing # << >> /\ Writer.index < Size(given.rules[Writer.rule])

ExpandTerminal ==
  /\ WritesForward
  /\ IsTerminal(WriterSymbol)
  /\ out' = IF cursor.pos >= lo THEN Append(out, WriterSymbol) ELSE out
  /\ cursor' = [cursor EXCEPT !.pos = @ + 1]
  /\ writing' = Moved(1)
  /\ UNCHANGED << lengthVars, samples, dirty, queue, spilled, pc, request, reply, lo, hi,
                  block, lastBlock, charStack >>

ExpandCall ==
  /\ WritesForward
  /\ IsNonTerminal(WriterSymbol)
  /\ cursor.pos + WriterSymbolLength > lo
  /\ writing' = Append(Moved(1), CallForward(RuleId(WriterSymbol)))
  /\ UNCHANGED << lengthVars, samplesVars, pc, request, reply, out, lo, hi,
                  block, lastBlock, charStack >>

(* The subrule lies before the range. *)
ExpandPass ==
  /\ WritesForward
  /\ IsNonTerminal(WriterSymbol)
  /\ cursor.pos + WriterSymbolLength <= lo
  /\ cursor' = [cursor EXCEPT !.pos = @ + WriterSymbolLength]
  /\ writing' = Moved(1)
  /\ UNCHANGED << lengthVars, samples, dirty, queue, spilled, pc, request, reply, out, lo, hi,
                  block, lastBlock, charStack >>

ExpandReturn ==
  /\ pc = "right" /\ writing # << >> /\ Writer.index = Size(given.rules[Writer.rule])
  /\ writing' = Front(writing)
  /\ UNCHANGED << lengthVars, samplesVars, pc, request, reply, out, lo, hi,
                  block, lastBlock, charStack >>

-----------------------------------------------------------------------------
(* The caller takes the answer; nothing of the query remains. *)
Take ==
  /\ reply # << >>
  /\ request' = << >> /\ reply' = << >> /\ out' = << >>
  /\ lo' = 0 /\ hi' = 0 /\ block' = 0 /\ lastBlock' = 0
  /\ charStack' = << >> /\ writing' = << >>
  /\ cursor' = Cursor(given.start, 0, 0)
  /\ UNCHANGED << lengthVars, samples, dirty, queue, spilled, pc >>

(* A damaged heap ends the model, as do lengths that are undefined or lost.*)
Ended ==
  /\ \/ pc = "corrupt"
     \/ pc = "lengths" /\ lengthsPc \in {"done", "undefined"} /\ ~LengthsComputed
  /\ UNCHANGED vars

AtStep ==
  \/ ForwardSkip \/ ForwardEnter \/ ForwardFound
  \/ BackwardSkipTerminal \/ BackwardSkip \/ BackwardEnter \/ BackwardFound

WriteStep ==
  \/ ReverseTerminal \/ ReverseCall \/ ReversePass \/ ReverseReturn
  \/ ExpandTerminal \/ ExpandCall \/ ExpandPass \/ ExpandReturn

LeftStep ==
  \/ StartLeft
  \/ LeftSkip \/ LeftWriteTerminal \/ LeftWriteRule \/ LeftEnter \/ LeftDone

RightStep ==
  \/ StartRight
  \/ RightSkip \/ RightWriteTerminal \/ RightWriteRule \/ RightEnter \/ RightDone

Compute == Build \/ AtStep \/ LeftStep \/ RightStep \/ WriteStep \/ SubstrDone

Next == Compute \/ AskAt \/ AskSubstr \/ Take \/ Ended

(* The calls are sequential code: a step that can be taken is taken.       *)
(* Nobody has to ask.                                                      *)
Spec == Init /\ [][Next]_vars /\ WF_vars(Compute)

-----------------------------------------------------------------------------
(* Properties *)

(* Going backward, the node whose symbols are read: pos is where the       *)
(* symbol at hand ends.                                                    *)
ScannedBack == Node(cursor.pos + 1 - given.off[cursor.rule][cursor.index + 1], cursor.rule)

(* The string of a node stands in the text around the character wanted. *)
Encloses(node) ==
  /\ Stands(node.start, node.rule)
  /\ Wanted \in node.start .. (node.start + Length(given, node.rule) - 1)

(* at never leaves the rule it reads, in either direction, nor loses the   *)
(* character it looks for on the way down; and its answer is that          *)
(* character.                                                              *)
AtFollowsText ==
  /\ pc \in {"forward", "backward"} => cursor.index \in 0 .. (Size(given.rules[cursor.rule]) - 1)
  /\ pc = "forward" => Encloses(Scanned) /\ cursor.pos <= Wanted
  /\ pc = "backward" => Encloses(ScannedBack) /\ Wanted <= cursor.pos
  /\ (reply # << >> /\ request[1].op = "at") => reply = << << given.text[given.start][Wanted] >> >>

(* The text from place a on, up to place b. *)
Part(a, b) == [k \in 1 .. Max({0, b - a}) |-> given.text[given.start][a + k - 1]]

(* While scan_left and scan_right run, what they have written is the part  *)
(* of the range the scan has passed: nothing is doubled between the two    *)
(* halves of a block, between two blocks or between two calls of write_    *)
(* expansion, and nothing is left out.                                     *)
WrittenSoFar ==
  LET from == request[1].from
  IN  /\ pc = "left" => out \o Part(lo, Min({cursor.pos + 1, hi})) \o Reverse(charStack)
                          = Part(from, Min({hi, SampleAt(block).pos}))
      /\ pc = "right" => out = Part(from, Max({lo, cursor.pos}))

SourceText(g) == [k \in 1 .. Length(g, g.start) |-> g.text[g.start][k - 1]]

QueriesOf(text) == Queries(Len(text))

Promise == INSTANCE RandomAccess WITH
  Texts <- Seq(0 .. (RuleOffset - 1)),
  Queries <- QueriesOf,
  Reach <- Len,
  text <- SourceText(given)

(* The queries answer what a random-access structure promises, for every   *)
(* place and every range, those past the end included; and every query is  *)
(* answered.                                                               *)
KeepsPromise == Promise!Spec

-----------------------------------------------------------------------------
(***************************************************************************)
(* The inductive invariant of the proof of at in SampledScan_proofs.       *)
(***************************************************************************)

(* One query at a time: its answer is there when it has ended. *)
OneQuery ==
  /\ Building => request = << >> /\ reply = << >>
  /\ pc \in {"forward", "backward"} =>
       /\ \E i \in 0 .. (SourceLength - 1) : request = << AtQuery(i) >>
       /\ cursor \in [rule : Ids(given), index : Nat, pos : Nat]
       /\ reply = << >>
  /\ pc \in {"block", "left", "leftDone", "right"} =>
       request # << >> /\ request[1].op = "substr" /\ reply = << >>
  /\ reply # << >> => pc = "ready" /\ request # << >>

AtInv == OneQuery /\ AtFollowsText

(***************************************************************************)
(* The inductive invariant of the proof of substr.  A scan and its calls   *)
(* of write_expansion(_reverse), the scan being number 0, each stand at a  *)
(* place of the text; the edge is between the symbols that are done and    *)
(* those still to come.                                                    *)
(***************************************************************************)
Calling(k) == IF k = 0 THEN cursor ELSE writing[k]

Back == IF pc = "left" THEN 1 ELSE 0

Edge(k) == Calling(k).index + Back

CallsStand(place) ==
  \A k \in 0 .. Len(writing) :
    /\ Calling(k).rule \in Ids(given)
    /\ Edge(k) \in 0 .. Size(given.rules[Calling(k).rule])
    /\ place[k] \in Nat /\ Stands(place[k], Calling(k).rule)

EdgePlace(place, k) == place[k] + given.off[Calling(k).rule][Edge(k)]

(* A call writes what its caller has passed: its far end is the caller's   *)
(* edge.  The innermost call is where the scan is.                         *)
CallsNested(place) ==
  /\ \A k \in 0 .. (Len(writing) - 1) :
       EdgePlace(place, k)
         = place[k + 1] + (IF pc = "left" THEN 0 ELSE Length(given, Calling(k + 1).rule))
  /\ EdgePlace(place, Len(writing)) = cursor.pos + Back

(* The scan reaches the end of the range inside its rule, and calls        *)
(* write_expansion only for symbols that do not.                           *)
CallsInRange(place) ==
  /\ pc = "left" => place[0] <= lo /\ \A k \in 1 .. Len(writing) : lo <= place[k]
  /\ pc = "right" =>
       /\ hi <= place[0] + Length(given, cursor.rule)
       /\ cursor.pos <= hi
       /\ \A k \in 1 .. Len(writing) : place[k] + Length(given, writing[k].rule) <= hi

ScanInv(place) == CallsStand(place) /\ CallsNested(place) /\ CallsInRange(place)

InSubstr == pc \in {"block", "left", "leftDone", "right"}

(* The loop over the blocks, and the range of the block at hand. *)
RangeInv ==
  LET from == request[1].from
      end  == SubstrEnd(request[1])
  IN  /\ block \in Nat
      /\ lastBlock = IF end = 0 THEN -1 ELSE (end - 1) \div Sampling
      /\ end > 0 => from < (block + 1) * Sampling
      /\ pc = "block" => out = Part(from, Min({end, Max({from, BlockStart(block)})}))
      /\ pc # "block" =>
           /\ block <= lastBlock
           /\ lo = Max({from, BlockStart(block)})
           /\ hi = Min({(block + 1) * Sampling, end})
      /\ pc \in {"left", "right"} => lo < hi
      /\ pc = "left" => lo < SampleAt(block).pos
      /\ pc = "leftDone" => out = Part(from, Max({lo, Min({hi, SampleAt(block).pos})}))

SubstrInv(place) ==
  /\ request # << >> => request[1] \in Queries(SourceLength)
  /\ out \in Seq(Nat) /\ charStack \in Seq(Nat)
  /\ writing \in Seq([rule : Ids(given), index : Int])
  /\ pc \notin {"left", "right"} => writing = << >>
  /\ (request = << >> \/ pc \in {"forward", "backward"}) => out = << >>
  /\ InSubstr => RangeInv
  /\ pc \in {"left", "right"} =>
       /\ cursor \in [rule : Ids(given), index : Int, pos : Int]
       /\ ScanInv(place)
       /\ WrittenSoFar
  /\ (pc = "ready" /\ request # << >> /\ request[1].op = "substr") =>
       reply = << Part(request[1].from, SubstrEnd(request[1])) >>
=============================================================================
