----------------------------- MODULE NaiveQuery -----------------------------
(***************************************************************************)
(* NaiveQueryGrammar: at and substr by a scan from the start rule, with    *)
(* nothing but the lengths of the rules.  substr calls write, which calls  *)
(* itself for nonterminals; its calls are the frames of a stack here, and  *)
(* `left`, the number of characters still to come, is the reference        *)
(* parameter `len` they share.                                             *)
(***************************************************************************)
EXTENDS Lengths

CONSTANT Inputs      \* grammars as dependency_renumber leaves them

ASSUME InputsAssumption ==
  \A g \in Inputs :
    /\ IsGrammar(g) /\ IsOrdered(g) /\ IsDerivation(g) /\ LengthsExact(g)
    /\ g.count > 0
    /\ \A r \in Ids(g) : Size(g.rules[r]) > 0

VARIABLES
  given,             \* m_rules, m_start_rule_id and the lengths
  request, reply,    \* the query in progress and its answer
  rule, index, rest, \* at's current_rule, current_index, and i
  calls,             \* the calls of write in progress
  left,              \* len
  out,               \* the string stream
  pc

vars == << given, request, reply, rule, index, rest, calls, left, out, pc >>

AtQuery(i) == [op |-> "at", from |-> i, len |-> 1]

SubstrQuery(from, len) == [op |-> "substr", from |-> from, len |-> len]

Queries(n) ==
  {AtQuery(i) : i \in 0 .. (n - 1)}
    \cup {SubstrQuery(from, len) : from \in 0 .. (n + 1), len \in 0 .. (n + 1)}

(* A call of write: `start` characters of the rule are still to be skipped *)
(* from the symbol at `index` on; when seeking is over it copies.          *)
Call(r, start) == [rule |-> r, index |-> 0, start |-> start, seeking |-> TRUE]

SourceLength == StoredLength(given, given.start)

SymbolLength(r, idx) ==
  LET s == At(given.rules[r], idx)
  IN  IF IsNonTerminal(s) THEN StoredLength(given, RuleId(s)) ELSE 1

Init ==
  /\ given \in Inputs
  /\ request = << >> /\ reply = << >> /\ out = << >>
  /\ rule = given.start /\ index = 0 /\ rest = 0
  /\ calls = << >> /\ left = 0
  /\ pc = "ready"

-----------------------------------------------------------------------------
(* at *)

AskAt ==
  /\ pc = "ready" /\ request = << >>
  /\ \E i \in 0 .. (SourceLength - 1) :
       /\ request' = << AtQuery(i) >>
       /\ rest' = i
  /\ pc' = "at"
  /\ UNCHANGED << given, reply, rule, index, calls, left, out >>

Symbol == At(given.rules[rule], index)

AtSkip ==
  /\ pc = "at"
  /\ rest > 0 \/ IsNonTerminal(Symbol)
  /\ rest >= SymbolLength(rule, index)
  /\ rest' = rest - SymbolLength(rule, index)
  /\ index' = index + 1
  /\ UNCHANGED << given, request, reply, rule, calls, left, out, pc >>

(* Variant: current_index is not reset. *)
AtEnterKeepsIndex ==
  /\ pc = "at"
  /\ rest > 0 \/ IsNonTerminal(Symbol)
  /\ rest < SymbolLength(rule, index)
  /\ rule' = RuleId(Symbol)
  /\ UNCHANGED << given, request, reply, index, rest, calls, left, out, pc >>

AtEnter ==
  /\ pc = "at"
  /\ rest > 0 \/ IsNonTerminal(Symbol)
  /\ rest < SymbolLength(rule, index)
  /\ rule' = RuleId(Symbol)
  /\ index' = 0
  /\ UNCHANGED << given, request, reply, rest, calls, left, out, pc >>

AtFound ==
  /\ pc = "at"
  /\ rest = 0 /\ IsTerminal(Symbol)
  /\ reply' = << << Symbol >> >>
  /\ pc' = "ready"
  /\ UNCHANGED << given, request, rule, index, rest, calls, left, out >>

-----------------------------------------------------------------------------
(* substr *)

(* pattern_end: the last character of the text is not in reach. *)
SubstrEnd(query) == Min({query.from + query.len, SourceLength - 1})

(* An empty range needs no call of write. *)
AskSubstr ==
  /\ pc = "ready" /\ request = << >>
  /\ \E query \in Queries(SourceLength) :
       /\ query.op = "substr"
       /\ request' = << query >>
       /\ IF query.from >= SubstrEnd(query)
          THEN calls' = << >> /\ left' = 0
          ELSE calls' = << Call(given.start, query.from) >> /\ left' = SubstrEnd(query) - query.from
  /\ pc' = "write"
  /\ UNCHANGED << given, reply, rule, index, rest, out >>

Top == calls[Len(calls)]

WithTop(call) == [calls EXCEPT ![Len(calls)] = call]

TopSymbol == At(given.rules[Top.rule], Top.index)

Seeking == pc = "write" /\ calls # << >> /\ Top.seeking

Copying == pc = "write" /\ calls # << >> /\ ~Top.seeking /\ left > 0
             /\ Top.index < Size(given.rules[Top.rule])

(* The symbol lies before the range. *)
SeekSkip ==
  /\ Seeking
  /\ Top.start >= SymbolLength(Top.rule, Top.index)
  /\ calls' = WithTop([Top EXCEPT !.start = @ - SymbolLength(Top.rule, Top.index), !.index = @ + 1])
  /\ UNCHANGED << given, request, reply, rule, index, rest, left, out, pc >>

(* Variant: the index does not move past the symbol that is gone into. *)
SeekEnterStay ==
  /\ Seeking
  /\ Top.start > 0 /\ Top.start < SymbolLength(Top.rule, Top.index)
  /\ calls' = Append(WithTop([Top EXCEPT !.seeking = FALSE]),
                     Call(RuleId(TopSymbol), Top.start))
  /\ UNCHANGED << given, request, reply, rule, index, rest, left, out, pc >>

(* The range starts inside a symbol: its rest first, then what follows. *)
SeekEnter ==
  /\ Seeking
  /\ Top.start > 0 /\ Top.start < SymbolLength(Top.rule, Top.index)
  /\ calls' = Append(WithTop([Top EXCEPT !.index = @ + 1, !.seeking = FALSE]),
                     Call(RuleId(TopSymbol), Top.start))
  /\ UNCHANGED << given, request, reply, rule, index, rest, left, out, pc >>

SeekDone ==
  /\ Seeking
  /\ Top.start = 0 /\ Top.start < SymbolLength(Top.rule, Top.index)
  /\ calls' = WithTop([Top EXCEPT !.seeking = FALSE])
  /\ UNCHANGED << given, request, reply, rule, index, rest, left, out, pc >>

CopyTerminal ==
  /\ Copying
  /\ IsTerminal(TopSymbol)
  /\ out' = Append(out, TopSymbol)
  /\ left' = left - 1
  /\ calls' = WithTop([Top EXCEPT !.index = @ + 1])
  /\ UNCHANGED << given, request, reply, rule, index, rest, pc >>

CopyRule ==
  /\ Copying
  /\ IsNonTerminal(TopSymbol)
  /\ calls' = Append(WithTop([Top EXCEPT !.index = @ + 1]), Call(RuleId(TopSymbol), 0))
  /\ UNCHANGED << given, request, reply, rule, index, rest, left, out, pc >>

Return ==
  /\ pc = "write" /\ calls # << >> /\ ~Top.seeking
  /\ left = 0 \/ Top.index = Size(given.rules[Top.rule])
  /\ calls' = Front(calls)
  /\ UNCHANGED << given, request, reply, rule, index, rest, left, out, pc >>

SubstrDone ==
  /\ pc = "write" /\ calls = << >>
  /\ reply' = << out >>
  /\ pc' = "ready"
  /\ UNCHANGED << given, request, rule, index, rest, calls, left, out >>

-----------------------------------------------------------------------------
(* The caller takes the answer; nothing of the query remains. *)
Take ==
  /\ reply # << >>
  /\ request' = << >> /\ reply' = << >> /\ out' = << >>
  /\ rule' = given.start /\ index' = 0 /\ rest' = 0
  /\ left' = 0
  /\ UNCHANGED << given, calls, pc >>

Compute ==
  \/ AtSkip \/ AtEnter \/ AtFound
  \/ SeekSkip \/ SeekEnter \/ SeekDone \/ CopyTerminal \/ CopyRule \/ Return \/ SubstrDone

Next == Compute \/ AskAt \/ AskSubstr \/ Take

(* The calls are sequential code; nobody has to ask. *)
Spec == Init /\ [][Next]_vars /\ WF_vars(Compute)

-----------------------------------------------------------------------------
(* Properties *)

(* Where the expansion of the rule of each call starts in the text: a call *)
(* was made for the symbol before the index of its caller.                 *)
CallPlaces ==
  LET place[k \in 1 .. Len(calls)] ==
        IF k = 1 THEN 0 ELSE place[k - 1] + given.off[calls[k - 1].rule][calls[k - 1].index - 1]
  IN  place

(* The calls follow the text: a call was made for a symbol of its caller,  *)
(* and where the innermost one stands is where the next character of the   *)
(* answer comes from, so nothing is written twice or left out between two  *)
(* calls, whatever the nesting.                                            *)
CallsFollowText ==
  pc = "write" =>
    /\ \A k \in 1 .. (Len(calls) - 1) :
         /\ calls[k].index > 0
         /\ At(given.rules[calls[k].rule], calls[k].index - 1) = NonTerminal(calls[k + 1].rule)
    /\ (calls # << >> /\ left > 0) =>
         CallPlaces[Len(calls)] + given.off[Top.rule][Top.index] + (IF Top.seeking THEN Top.start ELSE 0)
           = request[1].from + Len(out)

(* Whenever at reads a symbol, the index is one of the rule's, and the     *)
(* character looked for is the one of that rule's string the scan has      *)
(* still `rest` characters to go to; so what it returns is the character   *)
(* of the text at the place asked for.                                     *)
AtFollowsText ==
  /\ pc = "at" =>
       /\ index < Size(given.rules[rule])
       /\ given.off[rule][index] + rest < Length(given, rule)
       /\ given.text[rule][given.off[rule][index] + rest] = given.text[given.start][request[1].from]
  /\ (pc = "ready" /\ request # << >> /\ request[1].op = "at") =>
       reply = << << given.text[given.start][request[1].from] >> >>

SourceText(g) == [k \in 1 .. Length(g, g.start) |-> g.text[g.start][k - 1]]

QueriesOf(text) == Queries(Len(text))

AllButOne(text) == Len(text) - 1

Promise == INSTANCE RandomAccess WITH
  Texts <- Seq(0 .. (RuleOffset - 1)), Queries <- QueriesOf, Reach <- Len,
  text <- SourceText(given)

ShortPromise == INSTANCE RandomAccess WITH
  Texts <- Seq(0 .. (RuleOffset - 1)), Queries <- QueriesOf, Reach <- AllButOne,
  text <- SourceText(given)

(* at keeps the promise of a random-access structure, and substr keeps it  *)
(* for all of the text but the last character; every query is answered.    *)
KeepsPromiseButLast == ShortPromise!Spec

(* "The substring in the given interval." (naive_query_grammar.hpp:326)    *)
KeepsPromise == Promise!Spec

-----------------------------------------------------------------------------
(* The inductive invariants of the proofs in NaiveQuery_proofs. *)
AtInv ==
  /\ rule \in Ids(given) /\ index \in Nat /\ rest \in Nat
  /\ pc \in {"ready", "at", "write"}
  /\ request = << >> => reply = << >> /\ pc = "ready"
  /\ pc # "ready" => reply = << >>
  /\ pc = "ready" /\ request = << >> => rule = given.start /\ index = 0
  /\ pc = "at" => request[1].op = "at"
  /\ pc = "write" => request[1].op = "substr"
  /\ AtFollowsText

CallType == [rule : Ids(given), index : Nat, start : Nat, seeking : BOOLEAN]

(* The string of rule r stands at place p of the text. *)
Stands(p, r) ==
  /\ p + Length(given, r) <= SourceLength
  /\ \A j \in 0 .. (Length(given, r) - 1) : given.text[given.start][p + j] = given.text[r][j]

(* Every call stands at its place in the text; only the innermost one      *)
(* seeks, and then what it seeks lies in the symbol at hand or behind it.  *)
CallsStand(place) ==
  \A k \in 1 .. Len(calls) :
    /\ place[k] \in Nat
    /\ Stands(place[k], calls[k].rule)
    /\ calls[k].index <= Size(given.rules[calls[k].rule])
    /\ calls[k].seeking =>
         /\ k = Len(calls)
         /\ calls[k].index < Size(given.rules[calls[k].rule])
         /\ given.off[calls[k].rule][calls[k].index] + calls[k].start < Length(given, calls[k].rule)

(* Each call but the first was made for the symbol before the index of its *)
(* caller, and begins where that symbol does.                              *)
CallsNested(place) ==
  /\ calls # << >> => place[1] = 0 /\ calls[1].rule = given.start
  /\ \A k \in 1 .. (Len(calls) - 1) :
       LET caller == calls[k]
       IN  /\ caller.index > 0
           /\ At(given.rules[caller.rule], caller.index - 1) = NonTerminal(calls[k + 1].rule)
           /\ place[k + 1] = place[k] + given.off[caller.rule][caller.index - 1]

(* The next character of the answer is the one the innermost call is at.   *)
NextIsTop(place) ==
  calls # << >> /\ left > 0 =>
    place[Len(calls)] + given.off[Top.rule][Top.index] + (IF Top.seeking THEN Top.start ELSE 0)
      = request[1].from + Len(out)

(* What is written, and what is still to come, is the range asked for.     *)
OutIsText ==
  /\ Len(out) + left = Max({0, SubstrEnd(request[1]) - request[1].from})
  /\ \A k \in 1 .. Len(out) : out[k] = given.text[given.start][request[1].from + k - 1]

WriteInv(place) ==
  /\ request # << >> => request[1] \in Queries(SourceLength)
  /\ out \in Seq(Nat) /\ left \in Nat
  /\ calls \in Seq(CallType)
  /\ pc # "write" => calls = << >>
  /\ request = << >> => out = << >>
  /\ pc = "at" => out = << >>
  /\ pc = "write" =>
       /\ OutIsText
       /\ calls = << >> => left = 0
       /\ CallsStand(place) /\ CallsNested(place) /\ NextIsTop(place)
  /\ (pc = "ready" /\ request # << >> /\ request[1].op = "substr") =>
       left = 0 /\ OutIsText /\ reply = << out >>
=============================================================================
