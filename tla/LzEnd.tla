------------------------------- MODULE LzEnd -------------------------------
(***************************************************************************)
(* LzEnd: random access on an LZ-End parsing.  Every phrase of the text is *)
(* a copy of earlier text that ends where an earlier phrase ends, and one  *)
(* more character.  The parsing is turned into bit vectors (sets of        *)
(* positions here) and a packed map from phrases to sources; at and substr *)
(* use nothing else.                                                       *)
(***************************************************************************)
EXTENDS Packing, BitVectors, SequencesExt

CONSTANTS
  Inputs,            \* parsings, with the text they stand for
  WordBits           \* the width of a word of m_source_map (64 in the code)

Phrases(g) == 0 .. (g.count - 1)

Length(g) == g.end[g.count - 1] + 1

PhraseBegin(g, k) == g.end[k] - g.phrase[k].len + 1

(* Where the text that phrase k copies begins; an empty source begins      *)
(* before the text.                                                        *)
Source(g, k) == IF g.phrase[k].len = 1 THEN -1 ELSE g.end[g.phrase[k].link] - g.phrase[k].len + 2

(* The phrases lie one after the other in the text, each a copy of text    *)
(* that ends with an earlier phrase, and a character.                      *)
IsParsing(g) ==
  /\ g.count \in Nat \ {0}
  /\ g.phrase \in [Phrases(g) -> [char : Nat, link : Nat, len : Nat \ {0}]]
  /\ g.end \in [Phrases(g) -> Nat] /\ g.text \in [0 .. (Length(g) - 1) -> Nat]
  /\ \A k \in Phrases(g) :
       LET f == g.phrase[k]
       IN  /\ PhraseBegin(g, k) = IF k = 0 THEN 0 ELSE g.end[k - 1] + 1
           /\ f.len > 1 => f.link \in 0 .. (k - 1) /\ Source(g, k) >= 0
           /\ \A j \in 0 .. (f.len - 2) : g.text[PhraseBegin(g, k) + j] = g.text[Source(g, k) + j]
           /\ g.text[g.end[k]] = f.char

(* A vector of one element has fields of no bits: see the README.          *)
ASSUME InputsAssumption ==
  \A g \in Inputs : IsParsing(g) /\ g.count > 1 /\ Length(g) <= 2^MaxWidth

(* The number of a phrase is a size_t. *)
ASSUME WordAssumption ==
  WordBits \in 1 .. MaxWidth /\ \A g \in Inputs : g.count <= 2^WordBits

VARIABLES
  given,             \* the parsing
  last, lastPos,     \* m_last, m_last_pos
  starts,            \* phrase_source_start
  begin,             \* m_source_begin
  memory,            \* the bits of m_source_map
  count,             \* current_source_count
  i,                 \* the loop variable, or the place at has come to
  position,          \* current_index, bit_index
  marked,            \* phrase_index
  request, reply,    \* the query in progress and its answer
  todo, out,         \* what substr_internal has still to do, and buf
  pc

built == << last, lastPos, starts, begin, memory, count, position, marked >>
query == << request, reply, todo, out >>
vars == << given, built, i, query, pc >>

(* Memory: a bit is known by the value it was written with and its place   *)
(* there.  A field of bits that do not belong together is no number.       *)
Garbled == -1

Field(m, at, width) ==
  LET value == m[at][1]
  IN  IF \A j \in 0 .. (width - 1) : at + j \in DOMAIN m /\ m[at + j] = << value, j >>
      THEN Packed(width, value) ELSE Garbled

WithField(m, at, width, value) ==
  [b \in DOMAIN m |-> IF b \in at .. (at + width - 1) THEN << value, b - at >> ELSE m[b]]

Word(k) == Field(memory, k * WordBits, WordBits)

IndexBits == CeilLog2(Length(given))

PhraseBits == CeilLog2(given.count)

Init ==
  /\ given \in Inputs
  /\ last = << >> /\ lastPos = {} /\ begin = {}
  /\ starts = [k \in Phrases(given) |-> 0]
  /\ count = [k \in 0 .. Length(given) |-> 0]
  /\ memory = << >> /\ i = 0 /\ position = 0 /\ marked = 0
  /\ request = << >> /\ reply = << >> /\ todo = << >> /\ out = << >>
  /\ pc = "ends"

-----------------------------------------------------------------------------
(* build_aux_ds *)

(* One more phrase in a loop over all of them. *)
Advance(first, next) ==
  IF i + 1 < given.count THEN i' = i + 1 /\ pc' = pc ELSE i' = first /\ pc' = next

SetEnd ==
  /\ pc = "ends"
  /\ last' = Append(last, given.phrase[i].char)
  /\ position' = position + given.phrase[i].len
  /\ lastPos' = lastPos \cup {position' - 1}
  /\ Advance(0, "starts")
  /\ UNCHANGED << given, starts, begin, memory, count, marked, query >>

(* Place p of the text is p + 1 here, empty sources are at 0. *)
SourceValue(f) == IF f.len = 1 THEN 0 ELSE Select(lastPos, f.link + 1) - f.len + 3

SetStart ==
  /\ pc = "starts"
  /\ starts' = [starts EXCEPT ![i] = Packed(IndexBits, SourceValue(given.phrase[i]))]
  /\ Advance(0, "sort")
  /\ UNCHANGED << given, last, lastPos, begin, memory, count, position, marked, query >>

(* The order of the phrases by source, stable. *)
Before(k, l) == starts[k] < starts[l] \/ (starts[k] = starts[l] /\ k < l)

(* The phrase at place r of the order. *)
Sorted(r) == CHOOSE k \in Phrases(given) : Cardinality({l \in Phrases(given) : Before(l, k)}) = r

Sort ==
  /\ pc = "sort"
  /\ memory' = [b \in 0 .. (given.count * WordBits - 1) |-> << Sorted(b \div WordBits), b % WordBits >>]
  /\ position' = 0
  /\ pc' = "mark"
  /\ UNCHANGED << given, last, lastPos, starts, begin, count, i, marked, query >>

(* Variant: at most one source is marked for a place. *)
SourceHereOnce == marked < given.count /\ starts[Word(marked)] = i /\ position - 1 \notin begin

SourceHere == marked < given.count /\ starts[Word(marked)] = i

MarkSource ==
  /\ pc = "mark" /\ SourceHere
  /\ begin' = begin \cup {position}
  /\ position' = position + 1
  /\ marked' = marked + 1
  /\ UNCHANGED << given, last, lastPos, starts, memory, count, i, query, pc >>

MarkGap ==
  /\ pc = "mark" /\ ~SourceHere
  /\ position' = position + 1
  /\ IF i + 1 < Length(given) THEN i' = i + 1 /\ pc' = pc ELSE i' = 0 /\ pc' = "count"
  /\ UNCHANGED << given, last, lastPos, starts, begin, memory, count, marked, query >>

CountSource ==
  /\ pc = "count"
  /\ count' = [count EXCEPT ![starts[i] + 1] = @ + 1]
  /\ Advance(2, "sum")
  /\ UNCHANGED << given, last, lastPos, starts, begin, memory, position, marked, query >>

(* Variant: the gaps are not counted. *)
SumCountsNoGaps ==
  /\ pc = "sum"
  /\ count' = [count EXCEPT ![i] = @ + count[i - 1]]
  /\ IF i < Length(given) THEN i' = i + 1 /\ pc' = pc ELSE i' = 0 /\ pc' = "map"
  /\ UNCHANGED << given, last, lastPos, starts, begin, memory, position, marked, query >>

SumCounts ==
  /\ pc = "sum"
  /\ count' = [count EXCEPT ![i] = @ + count[i - 1] + 1, ![i - 1] = @ + 1]
  /\ IF i < Length(given) THEN i' = i + 1 /\ pc' = pc ELSE i' = 0 /\ pc' = "map"
  /\ UNCHANGED << given, last, lastPos, starts, begin, memory, position, marked, query >>

SourceIndex(k) == Rank(begin, count[starts[k]] + 1) - 1

MapSource ==
  /\ pc = "map"
  /\ memory' = WithField(memory, i * WordBits, WordBits, SourceIndex(i))
  /\ count' = [count EXCEPT ![starts[i]] = @ + 1]
  /\ Advance(0, "pack")
  /\ UNCHANGED << given, last, lastPos, starts, begin, position, marked, query >>

(* The map is packed into its own memory. *)
PackSource ==
  /\ pc = "pack"
  /\ memory' = WithField(memory, i * PhraseBits, PhraseBits, Word(i))
  /\ Advance(0, "resize")
  /\ UNCHANGED << given, last, lastPos, starts, begin, count, position, marked, query >>

(* num_packs_required words are kept, the last one even if not full. *)
Resize ==
  /\ pc = "resize"
  /\ LET words == (given.count * PhraseBits + WordBits - 1) \div WordBits
     IN  memory' = [b \in 0 .. (words * WordBits - 1) |-> memory[b]]
  /\ pc' = "ready"
  /\ UNCHANGED << given, last, lastPos, starts, begin, count, i, position, marked, query >>

Build ==
  \/ SetEnd \/ SetStart \/ Sort \/ MarkSource \/ MarkGap
  \/ CountSource \/ SumCounts \/ MapSource \/ PackSource \/ Resize

-----------------------------------------------------------------------------
(* at *)

AtQuery(k) == [op |-> "at", from |-> k, len |-> 1]

SubstrQuery(from, len) == [op |-> "substr", from |-> from, len |-> len]

Queries(n) ==
  {AtQuery(k) : k \in 0 .. (n - 1)}
    \cup {SubstrQuery(from, len) : from \in 0 .. n, len \in 0 .. (n + 1)}

PhraseStart(k) == IF k > 0 THEN Select(lastPos, k) + 1 ELSE 0

PhraseEnd(k) == Select(lastPos, k + 1)

(* Where the source of phrase k starts in the text. *)
SourceStart(k) ==
  LET source == Field(memory, k * PhraseBits, PhraseBits)
  IN  Select(begin, source + 1) - source - 1

(* Variant: always from the start of the source. *)
CopiedFromStart(k, p) == SourceStart(k)

(* The place that place p of phrase k is copied from. *)
CopiedFrom(k, p) == SourceStart(k) + p - PhraseStart(k)

AskAt ==
  /\ pc = "ready" /\ request = << >>
  /\ \E k \in 0 .. (Length(given) - 1) : request' = << AtQuery(k) >> /\ i' = k
  /\ pc' = "at"
  /\ UNCHANGED << given, built, reply, todo, out >>

AtFollow ==
  /\ pc = "at" /\ i \notin lastPos
  /\ i' = CopiedFrom(Rank(lastPos, i), i)
  /\ UNCHANGED << given, built, query, pc >>

AtFound ==
  /\ pc = "at" /\ i \in lastPos
  /\ reply' = << << last[Rank(lastPos, i) + 1] >> >>
  /\ pc' = "ready"
  /\ UNCHANGED << given, built, i, request, todo, out >>

-----------------------------------------------------------------------------
(* substr: a call of substr_internal is replaced by the calls it makes and *)
(* the characters it writes, in their order.                               *)

Copy(from, len) == [task |-> "copy", from |-> from, len |-> len]

LastOf(k) == [task |-> "last", phrase |-> k]

AskSubstr ==
  /\ pc = "ready" /\ request = << >>
  /\ \E q \in Queries(Length(given)) :
       /\ q.op = "substr"
       /\ request' = << q >>
       /\ todo' = << Copy(q.from, Min({q.len, Length(given) - q.from})) >>
  /\ pc' = "substr"
  /\ UNCHANGED << given, built, i, reply, out >>

(* What the call does with phrase k: len characters of it are wanted from  *)
(* place p on.  Its last character is at hand, the others are copies.      *)
Parts(k, p, len) ==
  IF p + len - 1 < PhraseEnd(k) THEN << Copy(CopiedFrom(k, p), len) >>
  ELSE << Copy(CopiedFrom(k, p), len - 1), LastOf(k) >>

Head1 == todo[1]

StartPhrase == Rank(lastPos, Head1.from)

EndPhrase == Rank(lastPos, Head1.from + Head1.len - 1)

Called == pc = "substr" /\ todo # << >> /\ Head1.task = "copy"

CopyNothing ==
  /\ Called /\ Head1.len = 0
  /\ todo' = Tail(todo)
  /\ UNCHANGED << given, built, i, request, reply, out, pc >>

CopyWithin ==
  /\ Called /\ Head1.len > 0 /\ StartPhrase = EndPhrase
  /\ todo' = Parts(StartPhrase, Head1.from, Head1.len) \o Tail(todo)
  /\ UNCHANGED << given, built, i, request, reply, out, pc >>

(* The part of phrase k that the call wants. *)
PartOf(k) ==
  IF k = StartPhrase THEN Parts(k, Head1.from, PhraseEnd(k) - Head1.from + 1)
  ELSE IF k = EndPhrase THEN Parts(k, PhraseStart(k), Head1.from + Head1.len - 1 - PhraseEnd(k - 1))
  ELSE Parts(k, PhraseStart(k), PhraseEnd(k) - PhraseEnd(k - 1))

(* Variant: of the last phrase, only what precedes its end is wanted. *)
CopyAcrossShort ==
  /\ Called /\ Head1.len > 0 /\ StartPhrase # EndPhrase
  /\ todo' = FlattenSeq([k \in 1 .. (EndPhrase - StartPhrase) |-> PartOf(StartPhrase + k - 1)]) \o Tail(todo)
  /\ UNCHANGED << given, built, i, request, reply, out, pc >>

CopyAcross ==
  /\ Called /\ Head1.len > 0 /\ StartPhrase # EndPhrase
  /\ todo' = FlattenSeq([k \in 1 .. (EndPhrase - StartPhrase + 1) |-> PartOf(StartPhrase + k - 1)]) \o Tail(todo)
  /\ UNCHANGED << given, built, i, request, reply, out, pc >>

WriteLast ==
  /\ pc = "substr" /\ todo # << >> /\ Head1.task = "last"
  /\ out' = Append(out, last[Head1.phrase + 1])
  /\ todo' = Tail(todo)
  /\ UNCHANGED << given, built, i, request, reply, pc >>

SubstrDone ==
  /\ pc = "substr" /\ todo = << >>
  /\ reply' = << out >>
  /\ pc' = "ready"
  /\ UNCHANGED << given, built, i, request, todo, out >>

Answer == AtFollow \/ AtFound \/ CopyNothing \/ CopyWithin \/ CopyAcross \/ WriteLast \/ SubstrDone

(* The caller takes the answer; nothing of the query remains. *)
Take ==
  /\ reply # << >>
  /\ request' = << >> /\ reply' = << >> /\ out' = << >> /\ i' = 0
  /\ UNCHANGED << given, built, todo, pc >>

Next == Build \/ AskAt \/ AskSubstr \/ Answer \/ Take

(* Building and answering are sequential code; nobody has to ask. *)
Spec == Init /\ [][Next]_vars /\ WF_vars(Build \/ Answer)

-----------------------------------------------------------------------------
(* Properties *)

(* While m_source_begin is filled, no source is passed over: the ones and  *)
(* zeros written are those of the sources and places gone by, and a source *)
(* of a place gone by has its one.                                         *)
NoSourceMissed ==
  /\ pc = "mark" =>
       /\ position = i + marked /\ Cardinality(begin) = marked
       /\ \A k \in Phrases(given) : starts[k] < i => \E j \in 0 .. (marked - 1) : Word(j) = k
  /\ pc \in {"count", "sum", "map", "pack", "resize", "ready", "at", "substr"} =>
       marked = given.count

(* The entry of the map for phrase k, in a word or packed already. *)
Entry(k) ==
  IF pc = "map" \/ (pc = "pack" /\ k >= i) THEN Word(k)
  ELSE Field(memory, k * PhraseBits, PhraseBits)

Mapped == {k \in Phrases(given) :
             \/ pc = "map" /\ k < i
             \/ pc \in {"pack", "resize", "ready", "at", "substr"}}

(* From the moment it is computed, while it is packed into the words it is *)
(* read from, and ever after, the map and m_source_begin say of a phrase   *)
(* where its source is: packing destroys no entry that is still to be read.*)
SourcesFound ==
  \A k \in Mapped :
    Entry(k) \in Phrases(given) /\ Select(begin, Entry(k) + 1) - Entry(k) - 1 = Source(given, k)

Part(from, len) == [k \in 1 .. len |-> given.text[from + k - 1]]

(* What is written and what is still to be done make up the substring,     *)
(* whatever the nesting of the copies.                                     *)
WorkFollowsText ==
  pc = "substr" =>
    LET q == request[1]
    IN  out \o FlattenSeq([k \in 1 .. Len(todo) |->
                 IF todo[k].task = "copy" THEN Part(todo[k].from, todo[k].len)
                 ELSE << given.text[given.end[todo[k].phrase]] >>])
          = Part(q.from, Min({q.len, Length(given) - q.from}))

QueriesOf(text) == Queries(Len(text))

Promise == INSTANCE RandomAccess WITH
  Texts <- Seq(Nat), Queries <- QueriesOf, Reach <- Len,
  text <- Part(0, Length(given))

(* Once it is built, the structure keeps the promise of random access, for *)
(* at and for all of substr; every query is answered.                      *)
KeepsPromise == Promise!Spec
=============================================================================
