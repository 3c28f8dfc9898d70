------------------------------ MODULE Decoders ------------------------------
(***************************************************************************)
(* The two decoders on top of BitIStream: GrammarTupleCoder::decode, which *)
(* reads a grammar, and lz::decode, which reads an LZ-End parsing.  A      *)
(* third reader takes bits and integers in any order, to check BitIStream  *)
(* beyond what the decoders do with it.                                    *)
(*                                                                         *)
(* The files are given by what they stand for; their layout is that of the *)
(* encoders, which are not part of the repository (its test data follows   *)
(* it).                                                                    *)
(***************************************************************************)
EXTENDS BitIStream, Grammars

CONSTANTS
  Inputs,            \* what files stand for
  IntBytes,          \* bytes of an integer in a grammar file (4 in the code)
  HeaderBytes        \* bytes of an LZ-End header without meaning (6 in the code)

IntWidth == IntBytes * ByteBits

(***************************************************************************)
(* Three kinds of files: plain bits; a grammar, a sequence of rules, each  *)
(* a sequence of symbols; a parsing, a sequence of phrases, with the bytes *)
(* its integers take.  A missing grammar file has no rules.  The numbers   *)
(* fit the integers of the file.                                           *)
(***************************************************************************)
Fitting == 0 .. (2^IntWidth - 1)

IsInput(g) ==
  \/ g.kind = "bits" /\ g.data \in Seq({0, 1})
  \/ g.kind = "missing" /\ g.rules = << >>
  \/ /\ g.kind = "grammar" /\ g.rules \in Seq(Seq(Fitting)) /\ Len(g.rules) \in Fitting
     /\ \A k \in 1 .. Len(g.rules) : Len(g.rules[k]) \in Fitting
  \/ /\ g.kind = "lzend" /\ g.intBytes \in Nat \ {0}
     /\ ByteBits * g.intBytes <= LongestInt /\ ByteBits * g.intBytes <= 2^ByteBits
     /\ LET sizes == 2^(ByteBits * g.intBytes)
        IN  g.phrases \in Seq([char : 0 .. (2^ByteBits - 1), link : 0 .. (sizes - 1), len : 1 .. (sizes - 1)])

ASSUME DecodersAssumption ==
  /\ RuleOffset = 2^ByteBits /\ IntBytes \in Nat \ {0} /\ HeaderBytes \in Nat \ {0}
  /\ IntWidth < LongestInt /\ IntWidth < MaxWidth /\ HeaderBytes * ByteBits <= LongestInt
  /\ \A g \in Inputs : IsInput(g)

VARIABLES
  given,             \* what the file stands for
  header,            \* rule_count and min_rule_len; char_width and int_bytes
  rule, left,        \* the symbols of the rule at hand, and how many to come
  rules,             \* what decode returns for a grammar
  parsing, sourceLen,\* what it returns for a parsing
  pc

decoded == << header, rule, left, rules, parsing, sourceLen >>

vars == << file, streamVars, given, decoded, pc >>

-----------------------------------------------------------------------------
(* Files *)

Bits(n, width) == [k \in 1 .. width |-> (n \div 2^(width - k)) % 2]

SymbolBits(s) ==
  IF IsTerminal(s) THEN << 0 >> \o Bits(s, ByteBits) ELSE << 1 >> \o Bits(RuleId(s), IntWidth)

RuleLengths(rs) == {Len(r) : r \in ToSet(rs)}

Shortest(rs) == IF rs = << >> THEN 0 ELSE Min(RuleLengths(rs))

Longest(rs) == IF rs = << >> THEN 0 ELSE Max(RuleLengths(rs))

(* The number of rules, the shortest and the longest length; then of every *)
(* rule how much longer it is than the shortest, and its symbols.          *)
GrammarBits(rs) ==
  Bits(Len(rs), IntWidth) \o Bits(Shortest(rs), IntWidth) \o Bits(Longest(rs), IntWidth)
    \o FlattenSeq([k \in 1 .. Len(rs) |->
         Bits(Len(rs[k]) - Shortest(rs), IntWidth)
           \o FlattenSeq([j \in 1 .. Len(rs[k]) |-> SymbolBits(rs[k][j])])])

(* The n bytes of a number, least significant first. *)
LittleBytes(value, n) == [k \in 1 .. n |-> (value \div 2^(ByteBits * (k - 1))) % 2^ByteBits]

ParsingBytes(g) ==
  << ByteBits - 1, g.intBytes * ByteBits - 1 >> \o Zeros(HeaderBytes)
    \o FlattenSeq([k \in 1 .. Len(g.phrases) |->
         << g.phrases[k].char >> \o LittleBytes(g.phrases[k].link, g.intBytes)
           \o LittleBytes(g.phrases[k].len, g.intBytes)])

Init ==
  /\ given \in Inputs
  /\ trailed = (given.kind \in {"bits", "grammar"})
  /\ CASE given.kind = "bits"    -> content = given.data /\ bytes = Encoded(content)
       [] given.kind = "grammar" -> content = GrammarBits(given.rules) /\ bytes = Encoded(content)
       [] given.kind = "missing" -> content = << >> /\ bytes = << >>
       [] OTHER -> /\ bytes = ParsingBytes(given)
                   /\ content = FlattenSeq([k \in 1 .. Len(bytes) |-> Bits(bytes[k], ByteBits)])
  /\ StreamInit
  /\ header = << >> /\ rule = << >> /\ left = 0
  /\ rules = << >> /\ parsing = << >> /\ sourceLen = 0
  /\ pc = IF given.kind = "missing" THEN "grammar" ELSE given.kind

(* Integers read one after the other, and what they leave of the stream. *)
OneMoreInt(read, width) ==
  LET int == ReadInt(read.in, width)
  IN  [values |-> Append(read.values, int.value), in |-> int.in, bits |-> read.bits + width]

Read(s, widths) ==
  LET read[k \in 0 .. Len(widths)] ==
        IF k = 0 THEN [values |-> << >>, in |-> s, bits |-> 0] ELSE OneMoreInt(read[k - 1], widths[k])
  IN  read[Len(widths)]

Consume(read, widths) ==
  /\ in' = read.in
  /\ bitsRead' = bitsRead + read.bits
  /\ result' = [value |-> Last(read.values), width |-> Last(widths)]

-----------------------------------------------------------------------------
(* GrammarTupleCoder::decode *)

(* The longest rule length is read and not used. *)
ReadGrammarHeader ==
  LET widths == << IntWidth, IntWidth, IntWidth >>
      read   == Read(in, widths)
  IN  /\ pc = "grammar"
      /\ Consume(read, widths)
      /\ header' = [ruleCount |-> read.values[1], minRuleLen |-> read.values[2]]
      /\ pc' = "rules"
      /\ UNCHANGED << file, given, rule, left, rules, parsing, sourceLen >>

(* Variant: the difference to the shortest length is taken for the length. *)
ReadRuleLengthAsIs ==
  LET read == Read(in, << IntWidth >>)
  IN  /\ pc = "rules" /\ Len(rules) < header.ruleCount
      /\ Consume(read, << IntWidth >>)
      /\ left' = read.values[1]
      /\ rule' = << >>
      /\ pc' = "symbols"
      /\ UNCHANGED << file, given, header, rules, parsing, sourceLen >>

ReadRuleLength ==
  LET read == Read(in, << IntWidth >>)
  IN  /\ pc = "rules" /\ Len(rules) < header.ruleCount
      /\ Consume(read, << IntWidth >>)
      /\ left' = (read.values[1] + header.minRuleLen) % 2^IntWidth
      /\ rule' = << >>
      /\ pc' = "symbols"
      /\ UNCHANGED << file, given, header, rules, parsing, sourceLen >>

(* One bit tells a nonterminal from a character. *)
ReadSymbol ==
  LET flag  == ReadBit(in)
      width == IF flag.value = 1 THEN IntWidth ELSE ByteBits
      read  == Read(flag.in, << width >>)
      value == read.values[1]
  IN  /\ pc = "symbols" /\ left > 0
      /\ in' = read.in
      /\ bitsRead' = bitsRead + 1 + width
      /\ result' = [value |-> value, width |-> width]
      /\ rule' = Append(rule, IF flag.value = 1 THEN NonTerminal(value) % 2^IntWidth ELSE value)
      /\ left' = left - 1
      /\ UNCHANGED << file, given, header, rules, parsing, sourceLen, pc >>

(* Variant: fields of ceil(log2(max)) bits, as the other vectors have. *)
EndRuleNarrow ==
  LET width == CeilLog2(Max(ToSet(rule)))
  IN  /\ pc = "symbols" /\ left = 0 /\ rule # << >> /\ Max(ToSet(rule)) > 0
      /\ rules' = Append(rules, [k \in 1 .. Len(rule) |-> Packed(width, rule[k])])
      /\ pc' = "rules"
      /\ UNCHANGED << file, streamVars, given, header, rule, left, parsing, sourceLen >>

(* The rule is packed into fields just wide enough for its largest symbol. *)
EndRule ==
  LET width == CoderWidth(rule)
  IN  /\ pc = "symbols" /\ left = 0 /\ rule # << >> /\ Max(ToSet(rule)) > 0
      /\ rules' = Append(rules, [k \in 1 .. Len(rule) |-> Packed(width, rule[k])])
      /\ pc' = "rules"
      /\ UNCHANGED << file, streamVars, given, header, rule, left, parsing, sourceLen >>

(* A rule without a symbol other than the character 0: ceil(log2(0) + 1)   *)
(* is -infinity, whose conversion to a width is undefined.                 *)
EndRuleUndefined ==
  /\ pc = "symbols" /\ left = 0 /\ ToSet(rule) \subseteq {0}
  /\ pc' = "undefined"
  /\ UNCHANGED << file, streamVars, given, decoded >>

EndGrammar ==
  /\ pc = "rules" /\ Len(rules) = header.ruleCount
  /\ pc' = "done"
  /\ UNCHANGED << file, streamVars, given, decoded >>

-----------------------------------------------------------------------------
(* lz::decode *)

ReadParsingHeader ==
  LET widths == << ByteBits, ByteBits, HeaderBytes * ByteBits >>
      read   == Read(in, widths)
  IN  /\ pc = "lzend"
      /\ Consume(read, widths)
      /\ header' = [charWidth |-> read.values[1] + 1,
                    intBytes  |-> (read.values[2] + 1) \div ByteBits]
      /\ pc' = "phrases"
      /\ UNCHANGED << file, given, rule, left, rules, parsing, sourceLen >>

(* Variant: the first byte is the most significant one. *)
BigEndian(raw) == Joined(raw)

LittleEndian(raw) == Joined(Reverse(raw))

(* A phrase: the character, the link and the length.  The link of a phrase *)
(* of one character means nothing in the file and is 0 in the parsing.     *)
ReadPhrase ==
  LET n      == header.intBytes
      widths == << header.charWidth >> \o [k \in 1 .. 2 * n |-> ByteBits]
      read   == Read(in, widths)
      link   == LittleEndian(SubSeq(read.values, 2, n + 1))
      len    == LittleEndian(SubSeq(read.values, n + 2, 2 * n + 1))
  IN  /\ pc = "phrases" /\ ~Eof(in)
      /\ Consume(read, widths)
      /\ parsing' = Append(parsing, [char |-> read.values[1],
                                     link |-> IF len > 1 THEN link ELSE 0, len |-> len])
      /\ sourceLen' = sourceLen + len
      /\ UNCHANGED << file, given, header, rule, left, rules, pc >>

EndParsing ==
  /\ pc = "phrases" /\ Eof(in)
  /\ pc' = "done"
  /\ UNCHANGED << file, streamVars, given, decoded >>

-----------------------------------------------------------------------------
TakeAny == pc = "bits" /\ Take /\ UNCHANGED << given, decoded, pc >>

Terminated == pc \in {"done", "undefined"} /\ UNCHANGED vars

Decode ==
  \/ ReadGrammarHeader \/ ReadRuleLength \/ ReadSymbol
  \/ EndRule \/ EndRuleUndefined \/ EndGrammar
  \/ ReadParsingHeader \/ ReadPhrase \/ EndParsing

Next == TakeAny \/ Decode \/ Terminated

Spec == Init /\ [][Next]_vars

-----------------------------------------------------------------------------
(* Properties *)

IsBlank(body) == ToSet(body) \subseteq {0}

(* The rules of the file are the rules decoded, symbol by symbol: none is  *)
(* cut by the width of its packed field, and the place in the file is      *)
(* right for every rule, whatever the lengths and the kinds of symbols     *)
(* before it.  The last rule ends where the file does.  decode gets past   *)
(* every rule but one of nothing but the character 0, which it never does. *)
RulesDecoded ==
  given.kind \in {"grammar", "missing"} =>
    /\ IsPrefix(rules, given.rules)
    /\ \A k \in 1 .. Len(rules) : ~IsBlank(given.rules[k])
    /\ pc = "symbols" =>
         /\ IsPrefix(rule, given.rules[Len(rules) + 1])
         /\ left = Len(given.rules[Len(rules) + 1]) - Len(rule)
    /\ pc = "done" => rules = given.rules /\ Eof(in)
    /\ pc = "undefined" => IsBlank(given.rules[Len(rules) + 1])

(* The parsing as the tests of lzend_test.cpp compare it (decode_test).    *)
(* What is lost of the last length if its last byte looks like a trailer   *)
(* is that byte.                                                           *)
Expected(k) ==
  LET f == given.phrases[k]
      high == 2^(ByteBits * (given.intBytes - 1))
      len == IF k = Len(given.phrases) /\ ~LastByteKept THEN f.len % high ELSE f.len
  IN  [char |-> f.char, link |-> IF len > 1 THEN f.link ELSE 0, len |-> len]

TextLength(phrases) ==
  LET upTo[k \in 0 .. Len(phrases)] == IF k = 0 THEN 0 ELSE upTo[k - 1] + phrases[k].len
  IN  upTo[Len(phrases)]

(* decode finds the phrases of the file and stops behind the last one,     *)
(* though the file has no trailer and eof is made for one (so the loop     *)
(* ends); source_len is the length of the text unless the last byte is     *)
(* lost.                                                                   *)
ParsingDecoded ==
  given.kind = "lzend" =>
    /\ Len(parsing) <= Len(given.phrases)
    /\ \A k \in 1 .. Len(parsing) : parsing[k] = Expected(k)
    /\ pc = "done" =>
         /\ Len(parsing) = Len(given.phrases)
         /\ sourceLen = TextLength(given.phrases) <=> LastByteKept
=============================================================================
