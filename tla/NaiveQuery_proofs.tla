-------------------------- MODULE NaiveQuery_proofs --------------------------
(***************************************************************************)
(* Proofs about NaiveQuery, for every set of renumbered grammars whose     *)
(* lengths survive the packing, every RULE_OFFSET and every width.         *)
(***************************************************************************)
EXTENDS NaiveQuery, Grammars_proofs

-----------------------------------------------------------------------------
(* Facts about the grammar given *)

LEMMA GivenFacts ==
  ASSUME given \in Inputs
  PROVE  /\ IsGrammar(given) /\ IsOrdered(given) /\ IsDerivation(given) /\ LengthsExact(given)
         /\ given.count \in Nat \ {0}
         /\ given.start \in Ids(given)
         /\ \A r \in Ids(given) :
              /\ given.rules[r] \in RuleType
              /\ Size(given.rules[r]) \in Nat \ {0}
<1>1. /\ IsGrammar(given) /\ IsOrdered(given) /\ IsDerivation(given) /\ LengthsExact(given)
      /\ given.count > 0 /\ \A r \in Ids(given) : Size(given.rules[r]) > 0
  BY InputsAssumption
<1>2. given.rules \in [Ids(given) -> RuleType] /\ given.count \in Nat
  BY <1>1 DEF IsGrammar, IsRuleSet
<1>3. \A r \in Ids(given) : Size(given.rules[r]) \in Nat
  BY <1>2 DEF RuleType, Size
<1> QED BY <1>1, <1>2, <1>3 DEF IsGrammar, IsRuleSet

(* symbol_length is the length of what the symbol stands for, and what it  *)
(* stands for is the part of the rule's string where the symbol begins.    *)
LEMMA SymbolFacts ==
  ASSUME given \in Inputs, NEW r \in Ids(given), NEW idx \in 0 .. (Size(given.rules[r]) - 1)
  PROVE  LET s    == At(given.rules[r], idx)
             span == SymbolLength(r, idx)
         IN  /\ span \in Nat
             /\ given.off[r][idx] \in Nat /\ given.off[r][idx + 1] \in Nat
             /\ given.off[r][idx + 1] = given.off[r][idx] + span
             /\ IsTerminal(s) => span = 1 /\ given.text[r][given.off[r][idx]] = s
             /\ IsNonTerminal(s) =>
                  /\ RuleId(s) \in Ids(given)
                  /\ span = Length(given, RuleId(s))
                  /\ \A j \in 0 .. (span - 1) :
                       given.text[r][given.off[r][idx] + j] = given.text[RuleId(s)][j]
<1> DEFINE s == At(given.rules[r], idx)
           span == SymbolLength(r, idx)
<1>1. /\ given.rules[r] \in RuleType /\ Size(given.rules[r]) \in Nat
      /\ IsDerivation(given) /\ LengthsExact(given) /\ IsGrammar(given)
  BY GivenFacts
<1>2. IsNonTerminal(s) => RuleId(s) \in Ids(given)
  <2>1. IsNonTerminal(s) => RuleId(s) \in Children(given.rules[r])
    BY <1>1, SymbolAt
  <2> QED BY <1>1, <2>1 DEF IsGrammar, IsRuleSet
<1>3. span = SymbolSpan(given, r, idx)
  BY <1>1, <1>2 DEF SymbolLength, SymbolSpan, LengthsExact, IsNonTerminal
<1>4. /\ given.off[r][idx] \in Nat /\ given.off[r][idx + 1] \in Nat
      /\ given.off[r][idx + 1] = given.off[r][idx] + span
  <2>1. idx \in 0 .. Size(given.rules[r]) /\ idx + 1 \in 0 .. Size(given.rules[r])
    BY <1>1
  <2> QED BY <1>1, <1>3, <2>1, Offsets
<1>5. \A j \in 0 .. (SymbolSpan(given, r, idx) - 1) :
        given.text[r][given.off[r][idx] + j] = IF IsTerminal(s) THEN s ELSE given.text[RuleId(s)][j]
  BY <1>1, Zenon DEF IsDerivation
<1>6. ASSUME IsTerminal(s)
      PROVE  span = 1 /\ given.text[r][given.off[r][idx]] = s
  <2>1. span = 1
    BY <1>6 DEF SymbolLength, IsNonTerminal
  <2>2. given.text[r][given.off[r][idx] + 0] = s
    BY <1>3, <1>5, <1>6, <2>1
  <2> QED BY <1>4, <2>1, <2>2
<1>7. ASSUME IsNonTerminal(s)
      PROVE  /\ span = Length(given, RuleId(s))
             /\ \A j \in 0 .. (span - 1) :
                  given.text[r][given.off[r][idx] + j] = given.text[RuleId(s)][j]
  BY <1>3, <1>5, <1>7 DEF SymbolSpan, IsNonTerminal
<1>8. span \in Nat
  <2>1. \A c \in Ids(given) : Length(given, c) \in Nat
    BY <1>1, GivenFacts, LengthIsNat
  <2> QED BY <1>2, <1>6, <1>7, <2>1 DEF IsNonTerminal
<1> QED BY <1>2, <1>4, <1>6, <1>7, <1>8

-----------------------------------------------------------------------------
(* The inductive invariant *)

IndInv == given \in Inputs /\ AtInv

LEMMA InitInv == Init => IndInv
<1> SUFFICES ASSUME Init PROVE IndInv
  OBVIOUS
<1>1. given.start \in Ids(given)
  BY GivenFacts DEF Init
<1> QED BY <1>1 DEF Init, IndInv, AtInv, AtFollowsText

LEMMA AskAtInv == IndInv /\ AskAt => IndInv'
<1> SUFFICES ASSUME IndInv, AskAt PROVE IndInv'
  OBVIOUS
<1>1. PICK i \in 0 .. (SourceLength - 1) : request' = << AtQuery(i) >> /\ rest' = i
  BY DEF AskAt
<1>2. /\ given \in Inputs /\ given.start \in Ids(given) /\ Size(given.rules[given.start]) \in Nat \ {0}
      /\ rule = given.start /\ index = 0 /\ reply = << >>
  BY GivenFacts DEF IndInv, AtInv, AskAt
<1>3. /\ pc' = "at" /\ given' = given /\ rule' = rule /\ index' = index /\ reply' = reply
  BY DEF AskAt
<1>4. request'[1].op = "at" /\ request'[1].from = i
  BY <1>1 DEF AtQuery
<1>5. given.off[given.start][0] = 0 /\ SourceLength = Length(given, given.start)
        /\ SourceLength \in Nat
  <2>1. IsDerivation(given) /\ LengthsExact(given) /\ given.rules[given.start] \in RuleType
    BY <1>2, GivenFacts
  <2>2. 0 \in 0 .. Size(given.rules[given.start])
          /\ Size(given.rules[given.start]) \in 0 .. Size(given.rules[given.start])
    BY <1>2
  <2> QED BY <1>2, <2>1, <2>2, Offsets DEF SourceLength, StoredLength, Length
<1>6. AtFollowsText'
  BY <1>1, <1>2, <1>3, <1>4, <1>5 DEF AtFollowsText, Length
<1> QED BY <1>1, <1>2, <1>3, <1>4, <1>6 DEF IndInv, AtInv

LEMMA AtSkipInv == IndInv /\ AtSkip => IndInv'
<1> SUFFICES ASSUME IndInv, AtSkip PROVE IndInv'
  OBVIOUS
<1> USE DEF AtSkip
<1>1. /\ given \in Inputs /\ AtInv /\ rule \in Ids(given) /\ rest \in Nat /\ index \in Nat
      /\ given.rules[rule] \in RuleType /\ Size(given.rules[rule]) \in Nat
      /\ IsDerivation(given)
  BY GivenFacts DEF IndInv, AtInv
<1>2. /\ index \in 0 .. (Size(given.rules[rule]) - 1)
      /\ given.off[rule][index] + rest < Length(given, rule)
      /\ given.text[rule][given.off[rule][index] + rest] = given.text[given.start][request[1].from]
  BY <1>1 DEF AtInv, AtFollowsText
<1>3. /\ SymbolLength(rule, index) \in Nat
      /\ given.off[rule][index] \in Nat /\ given.off[rule][index + 1] \in Nat
      /\ given.off[rule][index + 1] = given.off[rule][index] + SymbolLength(rule, index)
  BY <1>1, <1>2, SymbolFacts
<1>4. /\ rest' \in Nat /\ rest' = rest - SymbolLength(rule, index)
      /\ index' = index + 1 /\ rule' = rule /\ given' = given /\ pc' = "at"
  BY <1>1, <1>3
<1>5. given.off[rule][index + 1] + rest' = given.off[rule][index] + rest
  BY <1>1, <1>3, <1>4
<1>6. index + 1 < Size(given.rules[rule])
  <2>1. CASE index + 1 = Size(given.rules[rule])
    <3>1. Length(given, rule) = given.off[rule][index + 1]
      BY <2>1 DEF Length
    <3> QED BY <1>2, <1>3, <1>4, <1>5, <3>1
  <2>2. CASE index + 1 # Size(given.rules[rule])
    BY <1>1, <1>2, <2>2
  <2> QED BY <2>1, <2>2
<1>7. AtFollowsText'
  BY <1>2, <1>4, <1>5, <1>6 DEF AtFollowsText, Length
<1> QED BY <1>1, <1>4, <1>7 DEF IndInv, AtInv

LEMMA AtEnterInv == IndInv /\ AtEnter => IndInv'
<1> SUFFICES ASSUME IndInv, AtEnter PROVE IndInv'
  OBVIOUS
<1> USE DEF AtEnter
<1>1. /\ given \in Inputs /\ AtInv /\ rule \in Ids(given) /\ rest \in Nat /\ index \in Nat
      /\ given.rules[rule] \in RuleType /\ Size(given.rules[rule]) \in Nat
      /\ IsDerivation(given)
  BY GivenFacts DEF IndInv, AtInv
<1>2. /\ index \in 0 .. (Size(given.rules[rule]) - 1)
      /\ given.text[rule][given.off[rule][index] + rest] = given.text[given.start][request[1].from]
  BY <1>1 DEF AtInv, AtFollowsText
<1> DEFINE child == RuleId(Symbol)
<1>3. IsNonTerminal(Symbol)
  <2>1. IsTerminal(Symbol) => SymbolLength(rule, index) = 1
    BY DEF SymbolLength, Symbol, IsNonTerminal
  <2> QED BY <1>1, <2>1 DEF IsNonTerminal
<1>4. /\ child \in Ids(given)
      /\ rest \in 0 .. (SymbolLength(rule, index) - 1)
      /\ SymbolLength(rule, index) = Length(given, child)
      /\ given.text[rule][given.off[rule][index] + rest] = given.text[child][rest]
  BY SMTT(30), <1>1, <1>2, <1>3, SymbolFacts DEF Symbol
<1>5. /\ Size(given.rules[child]) \in Nat \ {0}
      /\ given.off[child][0] = 0
  <2>1. Size(given.rules[child]) \in Nat \ {0} /\ given.rules[child] \in RuleType
    BY <1>1, <1>4, GivenFacts
  <2>2. 0 \in 0 .. Size(given.rules[child])
    BY <2>1
  <2> QED BY <1>1, <1>4, <2>1, <2>2, Offsets
<1>6. /\ rule' = child /\ index' = 0 /\ rest' = rest /\ given' = given /\ pc' = "at"
      /\ request' = request
  OBVIOUS
<1> HIDE DEF child
<1>7. AtFollowsText'
  BY <1>2, <1>4, <1>5, <1>6 DEF AtFollowsText, Length
<1> QED BY <1>1, <1>4, <1>6, <1>7 DEF IndInv, AtInv

LEMMA AtFoundInv == IndInv /\ AtFound => IndInv'
<1> SUFFICES ASSUME IndInv, AtFound PROVE IndInv'
  OBVIOUS
<1> USE DEF AtFound
<1>1. /\ given \in Inputs /\ AtInv /\ rule \in Ids(given) /\ index \in Nat
      /\ Size(given.rules[rule]) \in Nat
  BY GivenFacts DEF IndInv, AtInv
<1>2. /\ index \in 0 .. (Size(given.rules[rule]) - 1)
      /\ given.text[rule][given.off[rule][index] + 0] = given.text[given.start][request[1].from]
  BY <1>1 DEF AtInv, AtFollowsText
<1>3. given.off[rule][index] \in Nat /\ given.text[rule][given.off[rule][index]] = Symbol
  BY <1>1, <1>2, SymbolFacts DEF Symbol
<1>4. Symbol = given.text[given.start][request[1].from]
  BY <1>2, <1>3
<1>5. AtFollowsText'
  BY <1>4 DEF AtFollowsText
<1> QED BY <1>1, <1>5 DEF IndInv, AtInv

(* The actions of substr leave what at uses alone. *)
LEMMA SubstrInv ==
  IndInv /\ (AskSubstr \/ SeekSkip \/ SeekEnter \/ SeekDone \/ CopyTerminal \/ CopyRule \/ Return
              \/ SubstrDone)
    => IndInv'
<1> SUFFICES ASSUME IndInv,
                    AskSubstr \/ SeekSkip \/ SeekEnter \/ SeekDone \/ CopyTerminal \/ CopyRule \/ Return
                      \/ SubstrDone
             PROVE  IndInv'
  OBVIOUS
<1>1. CASE AskSubstr
  <2>1. PICK query \in Queries(SourceLength) : query.op = "substr" /\ request' = << query >>
    BY <1>1 DEF AskSubstr
  <2>2. request'[1].op = "substr" /\ request' # << >>
    BY <2>1
  <2> QED BY <1>1, <2>2 DEF AskSubstr, IndInv, AtInv, AtFollowsText
<1>2. CASE SeekSkip \/ SeekEnter \/ SeekDone \/ CopyTerminal \/ CopyRule \/ Return
  <2>1. UNCHANGED << given, request, reply, rule, index, rest, pc >>
    BY <1>2 DEF SeekSkip, SeekEnter, SeekDone, CopyTerminal, CopyRule, Return
  <2> QED BY <2>1 DEF IndInv, AtInv, AtFollowsText
<1>3. CASE SubstrDone
  BY <1>3 DEF SubstrDone, IndInv, AtInv, AtFollowsText
<1> QED BY <1>1, <1>2, <1>3

LEMMA TakeInv == IndInv /\ Take => IndInv'
<1> SUFFICES ASSUME IndInv, Take PROVE IndInv'
  OBVIOUS
<1>1. given.start \in Ids(given)
  BY GivenFacts DEF IndInv
<1> QED BY <1>1 DEF Take, IndInv, AtInv, AtFollowsText

-----------------------------------------------------------------------------
LEMMA AtStep == IndInv /\ [Next]_vars => IndInv'
<1> SUFFICES ASSUME IndInv, [Next]_vars PROVE IndInv'
  OBVIOUS
<1>1. CASE AskAt
  BY <1>1, AskAtInv
<1>2. CASE AtSkip
  BY <1>2, AtSkipInv
<1>3. CASE AtEnter
  BY <1>3, AtEnterInv
<1>4. CASE AtFound
  BY <1>4, AtFoundInv
<1>5. CASE AskSubstr \/ SeekSkip \/ SeekEnter \/ SeekDone \/ CopyTerminal \/ CopyRule \/ Return
             \/ SubstrDone
  BY <1>5, SubstrInv
<1>6. CASE Take
  BY <1>6, TakeInv
<1>7. CASE UNCHANGED vars
  BY <1>7 DEF vars, IndInv, AtInv, AtFollowsText
<1> QED BY <1>1, <1>2, <1>3, <1>4, <1>5, <1>6, <1>7 DEF Next, Compute

(* at returns the character of the text at the place asked for: the scan   *)
(* stays on the way down to it, whatever the grammar.                      *)
THEOREM AtCorrectness == Spec => []AtFollowsText
<1>1. IndInv => AtFollowsText
  BY DEF IndInv, AtInv
<1> QED BY <1>1, AtStep, InitInv, PTL DEF Spec

-----------------------------------------------------------------------------
(***************************************************************************)
(* substr: what write writes                                               *)
(***************************************************************************)

LEMMA AnnotatedGiven ==
  ASSUME given \in Inputs
  PROVE  IsAnnotated(given) /\ HasNoEmptyRule(given)
BY InputsAssumption DEF IsAnnotated, HasNoEmptyRule

(* The source length is the length of the text, which is not empty. *)
LEMMA SourceFacts ==
  ASSUME given \in Inputs
  PROVE  /\ SourceLength = Length(given, given.start)
         /\ SourceLength \in Nat \ {0}
         /\ given.start \in Ids(given)
<1>1. given.start \in Ids(given) /\ LengthsExact(given)
  BY GivenFacts
<1> QED BY <1>1, AnnotatedGiven, LengthIsPositive DEF SourceLength, LengthsExact

LEMMA MaxWithZero ==
  ASSUME NEW n \in Int
  PROVE  Max({0, n}) = IF n > 0 THEN n ELSE 0
<1> DEFINE l == IF n > 0 THEN n ELSE 0
<1>1. l \in {0, n} /\ \A y \in {0, n} : l >= y
  OBVIOUS
<1>2. Max({0, n}) \in {0, n} /\ \A y \in {0, n} : Max({0, n}) >= y
  BY <1>1 DEF Max
<1> HIDE DEF Max
<1> QED BY <1>2

(* A query names a place and a length; the range it means ends before the  *)
(* last character of the text.                                             *)
LEMMA QueryFacts ==
  ASSUME given \in Inputs, NEW query \in Queries(SourceLength)
  PROVE  /\ query.from \in Nat /\ query.len \in Nat
         /\ query.op = "at" => query.from < SourceLength
         /\ SubstrEnd(query) \in Nat
         /\ SubstrEnd(query) = IF query.from + query.len <= SourceLength - 1
                               THEN query.from + query.len ELSE SourceLength - 1
         /\ Max({0, SubstrEnd(query) - query.from}) =
              IF SubstrEnd(query) > query.from THEN SubstrEnd(query) - query.from ELSE 0
<1>1. SourceLength \in Nat \ {0}
  BY SourceFacts
<1>2. query.from \in Nat /\ query.len \in Nat /\ (query.op = "at" => query.from < SourceLength)
  BY <1>1 DEF Queries, AtQuery, SubstrQuery
<1>3. SubstrEnd(query) = IF query.from + query.len <= SourceLength - 1
                         THEN query.from + query.len ELSE SourceLength - 1
  BY <1>1, <1>2, MinOfTwo DEF SubstrEnd
<1>4. SubstrEnd(query) \in Nat
  BY <1>1, <1>2, <1>3
<1>5. Max({0, SubstrEnd(query) - query.from}) =
        IF SubstrEnd(query) - query.from > 0 THEN SubstrEnd(query) - query.from ELSE 0
  BY <1>2, <1>4, MaxWithZero
<1> QED BY <1>2, <1>3, <1>4, <1>5

(* What write may still deliver ends before the last character. *)
LEMMA RangeEnds ==
  ASSUME given \in Inputs, request[1] \in Queries(SourceLength), OutIsText,
         out \in Seq(Nat), left \in Nat, left > 0
  PROVE  /\ request[1].from \in Nat
         /\ request[1].from + Len(out) + left <= SourceLength - 1
<1> DEFINE q == request[1]
<1>1. q \in Queries(SourceLength)
  OBVIOUS
<1>2. Len(out) + left = Max({0, SubstrEnd(q) - q.from}) /\ Len(out) \in Nat
  BY DEF OutIsText
<1> HIDE DEF q
<1>3. SourceLength \in Nat \ {0}
  BY SourceFacts
<1>4. /\ q.from \in Nat /\ q.len \in Nat /\ SubstrEnd(q) \in Nat
      /\ SubstrEnd(q) = IF q.from + q.len <= SourceLength - 1 THEN q.from + q.len ELSE SourceLength - 1
      /\ Max({0, SubstrEnd(q) - q.from}) = IF SubstrEnd(q) > q.from THEN SubstrEnd(q) - q.from ELSE 0
  BY <1>1, QueryFacts
<1> QED BY <1>2, <1>3, <1>4 DEF q

(* The string of a symbol stands where the symbol begins. *)
LEMMA StandsSymbol ==
  ASSUME given \in Inputs, NEW r \in Ids(given), NEW p \in Nat, Stands(p, r),
         NEW k \in 0 .. (Size(given.rules[r]) - 1)
  PROVE  LET s == At(given.rules[r], k)
         IN  /\ p + given.off[r][k] \in Nat
             /\ IsTerminal(s) => given.text[given.start][p + given.off[r][k]] = s
             /\ IsNonTerminal(s) => Stands(p + given.off[r][k], RuleId(s))
<1> DEFINE s == At(given.rules[r], k)
           off == given.off[r][k]
           span == SymbolSpan(given, r, k)
<1>1. /\ off \in Nat /\ span \in Nat \ {0} /\ off + span <= Length(given, r)
      /\ Length(given, r) \in Nat /\ SourceLength \in Nat
  BY AnnotatedGiven, SymbolLies, SpanIsPositive, LengthInGrammar, SourceFacts
<1>2. \A j \in 0 .. (span - 1) :
        given.text[r][off + j] = IF IsTerminal(s) THEN s ELSE given.text[RuleId(s)][j]
  BY GivenFacts, Zenon DEF IsDerivation
<1>3. \A j \in 0 .. (span - 1) :
        given.text[given.start][(p + off) + j] = IF IsTerminal(s) THEN s ELSE given.text[RuleId(s)][j]
  <2> TAKE j \in 0 .. (span - 1)
  <2>1. off + j \in 0 .. (Length(given, r) - 1) /\ p + (off + j) = (p + off) + j
    BY <1>1
  <2> QED BY <1>2, <2>1 DEF Stands
<1>4. ASSUME IsTerminal(s) PROVE given.text[given.start][p + off] = s
  <2>1. 0 \in 0 .. (span - 1) /\ (p + off) + 0 = p + off
    BY <1>1
  <2> QED BY <1>3, <1>4, <2>1
<1>5. ASSUME IsNonTerminal(s) PROVE Stands(p + off, RuleId(s))
  <2>1. span = Length(given, RuleId(s))
    BY <1>5 DEF SymbolSpan, IsNonTerminal
  <2>2. (p + off) + Length(given, RuleId(s)) <= SourceLength
    BY <1>1, <2>1 DEF Stands
  <2> QED BY <1>3, <1>5, <2>1, <2>2 DEF Stands, IsNonTerminal
<1> QED BY <1>1, <1>4, <1>5

-----------------------------------------------------------------------------
(* The inductive invariant of write; place says where the expansion of     *)
(* each call begins in the text.                                           *)

SubstrInvAt(place) == IndInv /\ WriteInv(place)

(* What the invariant says of the innermost call. *)
LEMMA TopFacts ==
  ASSUME NEW place, SubstrInvAt(place), pc = "write", calls # << >>
  PROVE  /\ given \in Inputs
         /\ Len(calls) \in Nat \ {0}
         /\ Len(calls) \in 1 .. Len(calls)
         /\ calls \in Seq(CallType)
         /\ Top = calls[Len(calls)]
         /\ Top \in CallType
         /\ Top.rule \in Ids(given)
         /\ Size(given.rules[Top.rule]) \in Nat \ {0}
         /\ Top.index \in 0 .. Size(given.rules[Top.rule])
         /\ Top.start \in Nat
         /\ place[Len(calls)] \in Nat
         /\ Stands(place[Len(calls)], Top.rule)
         /\ request # << >> /\ request[1] \in Queries(SourceLength)
         /\ out \in Seq(Nat) /\ left \in Nat
<1>1. /\ given \in Inputs /\ calls \in Seq(CallType) /\ CallsStand(place) /\ request # << >>
      /\ request[1] \in Queries(SourceLength) /\ out \in Seq(Nat) /\ left \in Nat
  BY DEF SubstrInvAt, IndInv, AtInv, WriteInv
<1>2. Len(calls) \in Nat \ {0} /\ Len(calls) \in 1 .. Len(calls)
  BY <1>1
<1>3. Top = calls[Len(calls)] /\ Top \in CallType
  BY <1>1, <1>2 DEF Top
<1>4. /\ place[Len(calls)] \in Nat /\ Stands(place[Len(calls)], Top.rule)
      /\ Top.index <= Size(given.rules[Top.rule])
  BY <1>1, <1>2, <1>3 DEF CallsStand
<1>5. Top.rule \in Ids(given) /\ Top.index \in Nat /\ Top.start \in Nat
  BY <1>3 DEF CallType
<1>6. Size(given.rules[Top.rule]) \in Nat \ {0}
  BY <1>1, <1>5, GivenFacts
<1> QED BY <1>1, <1>2, <1>3, <1>4, <1>5, <1>6

(***************************************************************************)
(* A step of write that changes only its frames and not what is written.   *)
(* What is left to show is what these frames say.                          *)
(***************************************************************************)
LEMMA FramesOnly ==
  ASSUME NEW place, NEW place2, SubstrInvAt(place), pc = "write",
         UNCHANGED << given, request, reply, left, out, pc >>,
         calls' \in Seq(CallType'),
         calls' = << >> => left = 0,
         CallsStand(place2)', CallsNested(place2)', NextIsTop(place2)'
  PROVE  WriteInv(place2)'
<1>1. SourceLength' = SourceLength
  BY DEF SourceLength
<1>2. OutIsText'
  <2>1. OutIsText /\ \A query : SubstrEnd(query)' = SubstrEnd(query)
    BY <1>1 DEF SubstrInvAt, WriteInv, SubstrEnd
  <2> QED BY <2>1 DEF OutIsText
<1> QED BY <1>1, <1>2 DEF SubstrInvAt, WriteInv

(* The innermost call moves on in its rule. *)
LEMMA TopMoves ==
  ASSUME NEW place, SubstrInvAt(place), pc = "write", calls # << >>, given' = given,
         NEW c \in CallType, calls' = WithTop(c), c.rule = Top.rule,
         c.index \in 0 .. Size(given.rules[c.rule]),
         c.seeking => /\ c.index < Size(given.rules[c.rule])
                      /\ given.off[c.rule][c.index] + c.start < Length(given, c.rule)
  PROVE  /\ calls' \in Seq(CallType') /\ calls' # << >>
         /\ Len(calls') = Len(calls)
         /\ Top' = c
         /\ CallsStand(place)'
         /\ CallsNested(place)'
<1> DEFINE n == Len(calls)
<1>1. n \in Nat \ {0} /\ calls \in Seq(CallType) /\ Top = calls[n] /\ CallsStand(place) /\ CallsNested(place)
  BY TopFacts DEF SubstrInvAt, WriteInv
<1>2. /\ calls' \in Seq(CallType) /\ Len(calls') = n /\ calls' # << >>
      /\ calls'[n] = c
      /\ \A k \in 1 .. n : k # n => calls'[k] = calls[k]
  BY <1>1 DEF WithTop
<1>3. /\ CallType' = CallType /\ \A p, r : Stands(p, r)' = Stands(p, r)
      /\ \A r : Length(given, r)' = Length(given, r)
  BY DEF CallType, Ids, Stands, SourceLength, Length
<1>4. Top' = c
  BY <1>2 DEF Top
<1> HIDE DEF n
<1>5. CallsStand(place)'
  <2> SUFFICES ASSUME NEW k \in 1 .. n
               PROVE  /\ place[k] \in Nat
                      /\ Stands(place[k], calls'[k].rule)
                      /\ calls'[k].index <= Size(given.rules[calls'[k].rule])
                      /\ calls'[k].seeking =>
                           /\ k = n
                           /\ calls'[k].index < Size(given.rules[calls'[k].rule])
                           /\ given.off[calls'[k].rule][calls'[k].index] + calls'[k].start
                                < Length(given, calls'[k].rule)
    BY <1>2, <1>3 DEF CallsStand
  <2>1. CASE k = n
    BY <1>1, <1>2, <2>1 DEF CallsStand, n
  <2>2. CASE k # n
    BY <1>1, <1>2, <2>2 DEF CallsStand, n
  <2> QED BY <2>1, <2>2
<1>6. CallsNested(place)'
  <2>1. calls'[1].rule = calls[1].rule
    BY <1>1, <1>2 DEF n
  <2>2. \A k \in 1 .. (n - 1) :
          calls'[k] = calls[k] /\ calls'[k + 1].rule = calls[k + 1].rule
    <3> TAKE k \in 1 .. (n - 1)
    <3>1. k \in 1 .. n /\ k # n /\ k + 1 \in 1 .. n
      BY <1>1
    <3>2. CASE k + 1 = n
      BY <1>1, <1>2, <3>1, <3>2 DEF n
    <3>3. CASE k + 1 # n
      BY <1>2, <3>1, <3>3
    <3> QED BY <1>2, <3>1, <3>2, <3>3
  <2> QED BY <1>1, <1>2, <2>1, <2>2 DEF CallsNested, n
<1> QED BY <1>2, <1>3, <1>4, <1>5, <1>6 DEF n

(* Where the calls begin once one more is made for the symbol at hand. *)
Called(place) ==
  [k \in 1 .. (Len(calls) + 1) |->
     IF k = Len(calls) + 1 THEN place[Len(calls)] + given.off[Top.rule][Top.index] ELSE place[k]]

(* The innermost call passes its symbol and makes a call for it. *)
LEMMA TopCalls ==
  ASSUME NEW place, SubstrInvAt(place), pc = "write", calls # << >>, given' = given,
         Top.index < Size(given.rules[Top.rule]), IsNonTerminal(TopSymbol),
         NEW start \in 0 .. (Length(given, RuleId(TopSymbol)) - 1),
         NEW c \in CallType, c.rule = Top.rule, c.index = Top.index + 1, ~c.seeking,
         calls' = Append(WithTop(c), Call(RuleId(TopSymbol), start)),
         NEW place2, place2 = Called(place)
  PROVE  /\ calls' \in Seq(CallType') /\ calls' # << >>
         /\ Len(calls') = Len(calls) + 1
         /\ Top' = Call(RuleId(TopSymbol), start)
         /\ place2[Len(calls) + 1] = place[Len(calls)] + given.off[Top.rule][Top.index]
         /\ given.off[RuleId(TopSymbol)][0] = 0
         /\ CallsStand(place2)'
         /\ CallsNested(place2)'
<1> DEFINE n == Len(calls)
           child == RuleId(TopSymbol)
           new == Call(child, start)
           off == given.off[Top.rule][Top.index]
<1>1. /\ n \in Nat \ {0} /\ calls \in Seq(CallType) /\ Top = calls[n] /\ given \in Inputs
      /\ CallsStand(place) /\ CallsNested(place) /\ Top.rule \in Ids(given)
      /\ Size(given.rules[Top.rule]) \in Nat
      /\ Top.index \in 0 .. (Size(given.rules[Top.rule]) - 1)
      /\ place[n] \in Nat /\ Stands(place[n], Top.rule)
  <2>1. CallsStand(place) /\ CallsNested(place)
    BY DEF SubstrInvAt, WriteInv
  <2> QED BY <2>1, TopFacts
<1>2. child \in Ids(given) /\ TopSymbol = NonTerminal(child)
  BY SMTT(30), <1>1, AnnotatedGiven, SymbolDescends, RuleOffsetAssumption DEF TopSymbol, NonTerminal, RuleId
<1>3. /\ place[n] + off \in Nat
      /\ Stands(place[n] + off, child)
  BY <1>1, StandsSymbol DEF TopSymbol
<1>4. Length(given, child) \in Nat /\ Size(given.rules[child]) \in Nat \ {0} /\ given.off[child][0] = 0
  BY <1>1, <1>2, AnnotatedGiven, LengthInGrammar, OffsetsOf, GivenFacts
<1>5. new \in CallType /\ new.rule = child /\ new.index = 0 /\ new.start = start /\ new.seeking
  BY <1>2, <1>4 DEF Call, CallType
<1>6. /\ calls' \in Seq(CallType) /\ Len(calls') = n + 1 /\ calls' # << >>
      /\ calls'[n + 1] = new
      /\ calls'[n] = c
      /\ \A k \in 1 .. n : k # n => calls'[k] = calls[k]
  <2> DEFINE below == WithTop(c)
  <2>1. /\ below \in Seq(CallType) /\ Len(below) = n /\ below[n] = c
        /\ \A k \in 1 .. n : k # n => below[k] = calls[k]
    BY <1>1 DEF WithTop
  <2>2. calls' = Append(below, new)
    OBVIOUS
  <2> HIDE DEF n, new, below
  <2>3. calls' \in Seq(CallType) /\ Len(calls') = n + 1 /\ calls'[n + 1] = new /\ calls' # << >>
    <3>1. calls' # << >>
      BY <1>5, <2>1, <2>2
    <3> QED BY <1>1, <1>5, <2>1, <2>2, <3>1
  <2>4. \A k \in 1 .. n : calls'[k] = below[k]
    BY <1>1, <1>5, <2>1, <2>2
  <2> QED BY <1>1, <2>1, <2>3, <2>4
<1>7. /\ CallType' = CallType /\ \A p, r : Stands(p, r)' = Stands(p, r)
      /\ \A r : Length(given, r)' = Length(given, r)
  BY DEF CallType, Ids, Stands, SourceLength, Length
<1>8. Top' = new
  BY <1>6 DEF Top
<1>9. place2[n + 1] = place[n] + off /\ \A k \in 1 .. n : place2[k] = place[k]
  BY SMTT(30), <1>1 DEF Called
<1>10. c.index <= Size(given.rules[c.rule])
  BY <1>1, <1>4, GivenFacts
<1> HIDE DEF n, new, off, child
<1>11. CallsStand(place2)'
  <2> SUFFICES ASSUME NEW k \in 1 .. (n + 1)
               PROVE  /\ place2[k] \in Nat
                      /\ Stands(place2[k], calls'[k].rule)
                      /\ calls'[k].index <= Size(given.rules[calls'[k].rule])
                      /\ calls'[k].seeking =>
                           /\ k = n + 1
                           /\ calls'[k].index < Size(given.rules[calls'[k].rule])
                           /\ given.off[calls'[k].rule][calls'[k].index] + calls'[k].start
                                < Length(given, calls'[k].rule)
    BY <1>6, <1>7 DEF CallsStand
  <2>1. CASE k = n + 1
    <3>1. start < Length(given, child)
      BY <1>4 DEF child
    <3> QED BY <1>3, <1>4, <1>5, <1>6, <1>9, <2>1, <3>1
  <2>2. CASE k = n
    BY <1>1, <1>6, <1>9, <1>10, <2>2
  <2>3. CASE k # n + 1 /\ k # n
    <3>1. k \in 1 .. n /\ calls'[k] = calls[k] /\ place2[k] = place[k]
      BY <1>1, <1>6, <1>9, <2>3
    <3> QED BY <1>1, <2>3, <3>1 DEF CallsStand, n
  <2> QED BY <2>1, <2>2, <2>3
<1>12. CallsNested(place2)'
  <2>1. calls'[1].rule = given.start /\ place2[1] = 0
    <3>1. calls[1].rule = given.start /\ place[1] = 0
      BY <1>1 DEF CallsNested
    <3> QED BY <1>1, <1>6, <1>9, <3>1
  <2> SUFFICES ASSUME NEW k \in 1 .. n
               PROVE  /\ calls'[k].index > 0
                      /\ At(given.rules[calls'[k].rule], calls'[k].index - 1) = NonTerminal(calls'[k + 1].rule)
                      /\ place2[k + 1] = place2[k] + given.off[calls'[k].rule][calls'[k].index - 1]
    <3>1. Len(calls') - 1 = n
      BY <1>1, <1>6
    <3> QED BY <2>1, <3>1 DEF CallsNested
  <2>2. CASE k = n
    <3>1. c.index - 1 = Top.index /\ c.index > 0
      BY <1>1
    <3>2. calls'[k] = c /\ calls'[k + 1].rule = child
      BY <1>5, <1>6, <2>2
    <3>3. At(given.rules[c.rule], c.index - 1) = NonTerminal(child)
      BY <1>2, <3>1 DEF TopSymbol
    <3>4. place2[k + 1] = place2[k] + given.off[c.rule][c.index - 1]
      BY <1>1, <1>9, <2>2, <3>1 DEF off
    <3> QED BY <3>1, <3>2, <3>3, <3>4
  <2>3. CASE k # n
    <3>1. k \in 1 .. (n - 1) /\ k + 1 \in 1 .. n
      BY <1>1, <2>3
    <3>2. calls'[k] = calls[k] /\ calls'[k + 1].rule = calls[k + 1].rule
      <4>1. CASE k + 1 = n
        BY <1>1, <1>6, <2>3, <4>1
      <4>2. CASE k + 1 # n
        BY <1>6, <2>3, <3>1, <4>2
      <4> QED BY <4>1, <4>2
    <3> QED BY <1>1, <1>9, <3>1, <3>2 DEF CallsNested, n
  <2> QED BY <2>2, <2>3
<1> QED BY <1>4, <1>6, <1>7, <1>8, <1>9, <1>11, <1>12 DEF n, new, off, child

(* Facts about the symbol the innermost call is at. *)
LEMMA TopSymbolFacts ==
  ASSUME NEW place, SubstrInvAt(place), pc = "write", calls # << >>,
         Top.index < Size(given.rules[Top.rule])
  PROVE  LET off  == given.off[Top.rule][Top.index]
             span == SymbolLength(Top.rule, Top.index)
         IN  /\ Top.index + 1 \in 0 .. Size(given.rules[Top.rule])
             /\ off \in Nat /\ span \in Nat
             /\ given.off[Top.rule][Top.index + 1] = off + span
             /\ off + span <= Length(given, Top.rule)
             /\ off + span < Length(given, Top.rule) => Top.index + 1 < Size(given.rules[Top.rule])
             /\ TopSymbol \in Nat
             /\ IsTerminal(TopSymbol) =>
                  span = 1 /\ given.text[given.start][place[Len(calls)] + off] = TopSymbol
             /\ IsNonTerminal(TopSymbol) =>
                  RuleId(TopSymbol) \in Ids(given) /\ span = Length(given, RuleId(TopSymbol))
                    /\ span \in Nat \ {0}
<1> DEFINE r == Top.rule
           idx == Top.index
<1>1. /\ given \in Inputs /\ r \in Ids(given) /\ Size(given.rules[r]) \in Nat
      /\ idx \in 0 .. (Size(given.rules[r]) - 1)
      /\ place[Len(calls)] \in Nat /\ Stands(place[Len(calls)], r)
  BY TopFacts
<1>2. IsAnnotated(given) /\ HasNoEmptyRule(given)
  BY <1>1, AnnotatedGiven
<1>3. /\ given.off[r][idx] \in Nat /\ SymbolLength(r, idx) \in Nat
      /\ given.off[r][idx + 1] = given.off[r][idx] + SymbolLength(r, idx)
      /\ IsTerminal(TopSymbol) => SymbolLength(r, idx) = 1
      /\ IsNonTerminal(TopSymbol) =>
           RuleId(TopSymbol) \in Ids(given) /\ SymbolLength(r, idx) = Length(given, RuleId(TopSymbol))
  BY <1>1, SymbolFacts DEF TopSymbol
<1>4. given.off[r][idx + 1] <= Length(given, r)
  BY <1>1, <1>2, SymbolLies
<1>5. TopSymbol \in Nat
  BY <1>1, <1>2, SymbolDescends DEF TopSymbol
<1>6. IsTerminal(TopSymbol) => given.text[given.start][place[Len(calls)] + given.off[r][idx]] = TopSymbol
  BY <1>1, StandsSymbol DEF TopSymbol
<1>7. IsNonTerminal(TopSymbol) => Length(given, RuleId(TopSymbol)) \in Nat \ {0}
  BY <1>2, <1>3, LengthIsPositive
<1>8. given.off[r][idx + 1] < Length(given, r) => idx + 1 # Size(given.rules[r])
  <2>1. Length(given, r) \in Nat
    BY <1>1, <1>2, LengthInGrammar
  <2> QED BY <2>1, <1>3 DEF Length
<1> QED BY <1>1, <1>3, <1>4, <1>5, <1>6, <1>7, <1>8

LEMMA SeekSkipWrites ==
  ASSUME NEW place, SubstrInvAt(place), SeekSkip
  PROVE  WriteInv(place)'
<1> DEFINE c == [Top EXCEPT !.start = @ - SymbolLength(Top.rule, Top.index), !.index = @ + 1]
           span == SymbolLength(Top.rule, Top.index)
           off == given.off[Top.rule][Top.index]
<1>1. /\ pc = "write" /\ calls # << >> /\ Top.seeking /\ Top.start >= span
      /\ calls' = WithTop(c)
      /\ UNCHANGED << given, request, reply, left, out, pc >>
  BY DEF SeekSkip, Seeking
<1>2. /\ Top \in CallType /\ Top.rule \in Ids(given) /\ Top.start \in Nat /\ Top.index \in Nat
      /\ Len(calls) \in Nat \ {0} /\ Len(calls) \in 1 .. Len(calls) /\ Top = calls[Len(calls)]
      /\ Size(given.rules[Top.rule]) \in Nat /\ place[Len(calls)] \in Nat
  BY <1>1, TopFacts
<1>3. Top.index < Size(given.rules[Top.rule]) /\ off + Top.start < Length(given, Top.rule)
  BY <1>1, <1>2 DEF SubstrInvAt, WriteInv, CallsStand
<1>4. /\ Top.index + 1 \in 0 .. Size(given.rules[Top.rule])
      /\ off \in Nat /\ span \in Nat
      /\ given.off[Top.rule][Top.index + 1] = off + span
      /\ off + span < Length(given, Top.rule) => Top.index + 1 < Size(given.rules[Top.rule])
      /\ Length(given, Top.rule) \in Nat
  <2>1. Length(given, Top.rule) \in Nat
    BY <1>1, <1>2, TopFacts, AnnotatedGiven, LengthInGrammar
  <2> QED BY <1>1, <1>3, <2>1, TopSymbolFacts
<1>5. /\ c \in CallType /\ c.rule = Top.rule /\ c.index = Top.index + 1 /\ c.start = Top.start - span
      /\ c.seeking
  <2>1. Top.start - span \in Nat /\ Top.index + 1 \in Nat
    BY <1>1, <1>2, <1>4
  <2> DEFINE d == [Top EXCEPT !.start = @ - span]
  <2>2. d \in CallType /\ d.rule = Top.rule /\ d.index = Top.index /\ d.start = Top.start - span /\ d.seeking
    BY <1>1, <1>2, <2>1 DEF CallType
  <2>3. c = [d EXCEPT !.index = @ + 1]
    BY <1>2 DEF CallType
  <2> HIDE DEF c, d
  <2> QED BY <1>2, <2>1, <2>2, <2>3 DEF CallType
<1>6. /\ c.index < Size(given.rules[c.rule])
      /\ given.off[c.rule][c.index] + c.start = off + Top.start
      /\ given.off[c.rule][c.index] + c.start < Length(given, c.rule)
  BY <1>1, <1>2, <1>3, <1>4, <1>5
<1> HIDE DEF c
<1>7. /\ calls' \in Seq(CallType') /\ calls' # << >>
      /\ Len(calls') = Len(calls) /\ Top' = c
      /\ CallsStand(place)' /\ CallsNested(place)'
  <2>1. c.index \in 0 .. Size(given.rules[c.rule])
    BY <1>4, <1>5
  <2> QED BY <1>1, <1>5, <1>6, <2>1, TopMoves
<1>8. NextIsTop(place)'
  <2>1. left > 0 => place[Len(calls)] + off + Top.start = request[1].from + Len(out)
    BY <1>1 DEF SubstrInvAt, WriteInv, NextIsTop
  <2>2. left > 0 => place[Len(calls)] + given.off[c.rule][c.index] + c.start = request[1].from + Len(out)
    BY <1>1, <1>2, <1>4, <1>5, <2>1
  <2> QED BY <1>1, <1>5, <1>7, <2>2 DEF NextIsTop
<1> QED BY <1>1, <1>7, <1>8, FramesOnly

LEMMA SeekEnterWrites ==
  ASSUME NEW place, SubstrInvAt(place), SeekEnter
  PROVE  \E p : WriteInv(p)'
<1> DEFINE c == [Top EXCEPT !.index = @ + 1, !.seeking = FALSE]
           span == SymbolLength(Top.rule, Top.index)
           off == given.off[Top.rule][Top.index]
           child == RuleId(TopSymbol)
<1>1. /\ pc = "write" /\ calls # << >> /\ Top.seeking /\ Top.start > 0 /\ Top.start < span
      /\ calls' = Append(WithTop(c), Call(child, Top.start))
      /\ UNCHANGED << given, request, reply, left, out, pc >>
  BY DEF SeekEnter, Seeking
<1>2. /\ Top \in CallType /\ Top.start \in Nat /\ Top.index \in Nat
      /\ Len(calls) \in 1 .. Len(calls) /\ Top = calls[Len(calls)] /\ place[Len(calls)] \in Nat
      /\ Len(calls) \in Nat
  BY <1>1, TopFacts
<1>3. Top.index < Size(given.rules[Top.rule])
  BY <1>1, <1>2 DEF SubstrInvAt, WriteInv, CallsStand
<1>4. /\ off \in Nat /\ span \in Nat
      /\ IsTerminal(TopSymbol) => span = 1
      /\ IsNonTerminal(TopSymbol) => span = Length(given, child)
  BY <1>1, <1>3, TopSymbolFacts
<1>5. IsNonTerminal(TopSymbol)
  BY <1>1, <1>2, <1>4 DEF IsNonTerminal
<1>6. /\ c \in CallType /\ c.rule = Top.rule /\ c.index = Top.index + 1 /\ ~c.seeking
      /\ Top.start \in 0 .. (Length(given, child) - 1)
  <2>1. Top.start \in 0 .. (Length(given, child) - 1)
    BY <1>1, <1>2, <1>4, <1>5
  <2> DEFINE d == [Top EXCEPT !.index = @ + 1]
  <2>2. d \in CallType /\ d.rule = Top.rule /\ d.index = Top.index + 1
    BY <1>2 DEF CallType
  <2>3. c = [d EXCEPT !.seeking = FALSE]
    BY <1>2 DEF CallType
  <2> HIDE DEF c, d
  <2> QED BY <1>2, <2>1, <2>2, <2>3 DEF CallType
<1> HIDE DEF c
<1>. PICK place2 : place2 = Called(place)
  OBVIOUS
<1>7. /\ calls' \in Seq(CallType') /\ calls' # << >>
      /\ Len(calls') = Len(calls) + 1 /\ Top' = Call(child, Top.start)
      /\ place2[Len(calls) + 1] = place[Len(calls)] + off
      /\ given.off[child][0] = 0
      /\ CallsStand(place2)' /\ CallsNested(place2)'
  BY <1>1, <1>3, <1>5, <1>6, TopCalls
<1>8. NextIsTop(place2)'
  <2>1. left > 0 => place[Len(calls)] + off + Top.start = request[1].from + Len(out)
    BY <1>1 DEF SubstrInvAt, WriteInv, NextIsTop
  <2>2. Top'.rule = child /\ Top'.index = 0 /\ Top'.start = Top.start /\ Top'.seeking
    BY <1>7 DEF Call
  <2>3. left > 0 =>
          place2[Len(calls')] + given.off[child][0] + Top.start = request[1].from + Len(out)
    BY <1>2, <1>4, <1>7, <2>1
  <2> QED BY <1>1, <2>2, <2>3 DEF NextIsTop
<1>9. WriteInv(place2)'
  BY <1>1, <1>7, <1>8, FramesOnly
<1> QED BY <1>9

LEMMA SeekDoneWrites ==
  ASSUME NEW place, SubstrInvAt(place), SeekDone
  PROVE  WriteInv(place)'
<1> DEFINE c == [Top EXCEPT !.seeking = FALSE]
<1>1. /\ pc = "write" /\ calls # << >> /\ Top.seeking /\ Top.start = 0
      /\ calls' = WithTop(c)
      /\ UNCHANGED << given, request, reply, left, out, pc >>
  BY DEF SeekDone, Seeking
<1>2. /\ Top \in CallType /\ Top.index \in 0 .. Size(given.rules[Top.rule])
      /\ Len(calls) \in 1 .. Len(calls) /\ Top = calls[Len(calls)] /\ place[Len(calls)] \in Nat
      /\ given.off[Top.rule][Top.index] \in Nat
  <2>1. Top.rule \in Ids(given) /\ Top.index \in 0 .. Size(given.rules[Top.rule]) /\ given \in Inputs
    BY <1>1, TopFacts
  <2> QED BY <1>1, <2>1, TopFacts, AnnotatedGiven, OffsetsOf
<1>3. c \in CallType /\ c.rule = Top.rule /\ c.index = Top.index /\ ~c.seeking
  BY <1>2 DEF CallType
<1> HIDE DEF c
<1>4. /\ calls' \in Seq(CallType') /\ calls' # << >>
      /\ Len(calls') = Len(calls) /\ Top' = c
      /\ CallsStand(place)' /\ CallsNested(place)'
  BY <1>1, <1>2, <1>3, TopMoves
<1>5. NextIsTop(place)'
  <2>1. left > 0 => place[Len(calls)] + given.off[Top.rule][Top.index] + 0 = request[1].from + Len(out)
    BY <1>1 DEF SubstrInvAt, WriteInv, NextIsTop
  <2> QED BY <1>1, <1>3, <1>4, <2>1 DEF NextIsTop
<1> QED BY <1>1, <1>4, <1>5, FramesOnly

LEMMA CopyTerminalWrites ==
  ASSUME NEW place, SubstrInvAt(place), CopyTerminal
  PROVE  WriteInv(place)'
<1> DEFINE c == [Top EXCEPT !.index = @ + 1]
           off == given.off[Top.rule][Top.index]
<1>1. /\ pc = "write" /\ calls # << >> /\ ~Top.seeking /\ left > 0
      /\ Top.index < Size(given.rules[Top.rule])
      /\ IsTerminal(TopSymbol)
      /\ out' = Append(out, TopSymbol) /\ left' = left - 1
      /\ calls' = WithTop(c)
      /\ UNCHANGED << given, request, reply, pc >>
  BY DEF CopyTerminal, Copying
<1>2. /\ Top \in CallType /\ Top.index \in Nat /\ place[Len(calls)] \in Nat
      /\ request # << >> /\ request[1] \in Queries(SourceLength) /\ given \in Inputs
      /\ out \in Seq(Nat) /\ left \in Nat
  BY <1>1, TopFacts
<1>3. /\ Top.index + 1 \in 0 .. Size(given.rules[Top.rule])
      /\ off \in Nat /\ given.off[Top.rule][Top.index + 1] = off + 1
      /\ TopSymbol \in Nat /\ given.text[given.start][place[Len(calls)] + off] = TopSymbol
  BY <1>1, TopSymbolFacts
<1>4. c \in CallType /\ c.rule = Top.rule /\ c.index = Top.index + 1 /\ ~c.seeking
  <2>1. ASSUME NEW t \in CallType, NEW i \in Nat
        PROVE  [t EXCEPT !.index = i] \in CallType /\ [t EXCEPT !.index = i].rule = t.rule
               /\ [t EXCEPT !.index = i].index = i /\ [t EXCEPT !.index = i].seeking = t.seeking
    BY DEF CallType
  <2> DEFINE t == Top
             i == t.index + 1
  <2>2. t \in CallType /\ i \in Nat /\ ~t.seeking
    BY <1>1, <1>2
  <2> HIDE DEF t, i
  <2>3. /\ [t EXCEPT !.index = i] \in CallType /\ [t EXCEPT !.index = i].rule = t.rule
        /\ [t EXCEPT !.index = i].index = i /\ [t EXCEPT !.index = i].seeking = t.seeking
    BY <2>1, <2>2
  <2> QED BY <2>2, <2>3 DEF t, i
<1> HIDE DEF c
<1>5. /\ calls' \in Seq(CallType') /\ calls' # << >>
      /\ Len(calls') = Len(calls) /\ Top' = c
      /\ CallsStand(place)' /\ CallsNested(place)'
  <2>1. c.index \in 0 .. Size(given.rules[c.rule])
    BY <1>3, <1>4
  <2> QED BY <1>1, <1>4, <2>1, TopMoves
<1>6. /\ out' \in Seq(Nat) /\ Len(out') = Len(out) + 1 /\ left' \in Nat
      /\ Len(out) \in Nat /\ request[1].from \in Nat
      /\ \A k \in 1 .. Len(out) : out'[k] = out[k]
      /\ out'[Len(out) + 1] = TopSymbol
  <2>1. request[1].from \in Nat
    BY <1>1, <1>2, RangeEnds DEF SubstrInvAt, WriteInv
  <2>2. left - 1 \in Nat
    BY <1>1, <1>2
  <2> HIDE DEF c
  <2> QED BY <1>1, <1>2, <1>3, <2>1, <2>2
<1>7. place[Len(calls)] + off = request[1].from + Len(out)
  <2>1. place[Len(calls)] + off + 0 = request[1].from + Len(out)
    BY <1>1 DEF SubstrInvAt, WriteInv, NextIsTop
  <2> QED BY <1>2, <1>3, <2>1
<1>8. NextIsTop(place)'
  <2>1. place[Len(calls)] + (off + 1) + 0 = request[1].from + (Len(out) + 1)
    <3> DEFINE at == place[Len(calls)]
               from == request[1].from
               written == Len(out)
    <3>1. at \in Nat /\ off \in Nat /\ from \in Nat /\ written \in Nat /\ at + off = from + written
      BY <1>2, <1>3, <1>6, <1>7
    <3> HIDE DEF off, at, from, written
    <3>2. at + (off + 1) + 0 = from + (written + 1)
      BY <3>1
    <3> QED BY <3>2 DEF at, from, written
  <2> QED BY <1>1, <1>3, <1>4, <1>5, <1>6, <2>1 DEF NextIsTop
<1>9. OutIsText'
  <2>1. OutIsText
    BY <1>1 DEF SubstrInvAt, WriteInv
  <2>2. SubstrEnd(request[1])' = SubstrEnd(request[1])
    BY <1>1 DEF SubstrEnd, SourceLength
  <2>3. Len(out') + left' = Len(out) + left
    BY <1>1, <1>2, <1>6
  <2>4. ASSUME NEW k \in 1 .. Len(out')
        PROVE  out'[k] = given.text[given.start][request[1].from + k - 1]
    <3>1. CASE k = Len(out) + 1
      <4>1. request[1].from + k - 1 = place[Len(calls)] + off
        BY <1>2, <1>3, <1>6, <1>7, <3>1
      <4> QED BY <1>3, <1>6, <3>1, <4>1
    <3>2. CASE k # Len(out) + 1
      <4>1. k \in 1 .. Len(out)
        BY <1>6, <3>2
      <4> QED BY <1>6, <2>1, <4>1 DEF OutIsText
    <3> QED BY <3>1, <3>2
  <2> QED BY <1>1, <2>1, <2>2, <2>3, <2>4 DEF OutIsText
<1>10. SourceLength' = SourceLength
  BY <1>1 DEF SourceLength
<1>11. request'[1] \in Queries(SourceLength)' /\ request' # << >> /\ pc' = "write" /\ calls' # << >>
  BY <1>1, <1>2, <1>5, <1>10
<1> QED BY <1>5, <1>6, <1>8, <1>9, <1>11 DEF WriteInv

LEMMA CopyRuleWrites ==
  ASSUME NEW place, SubstrInvAt(place), CopyRule
  PROVE  \E p : WriteInv(p)'
<1> DEFINE c == [Top EXCEPT !.index = @ + 1]
           off == given.off[Top.rule][Top.index]
           child == RuleId(TopSymbol)
<1>1. /\ pc = "write" /\ calls # << >> /\ ~Top.seeking
      /\ Top.index < Size(given.rules[Top.rule]) /\ IsNonTerminal(TopSymbol)
      /\ calls' = Append(WithTop(c), Call(child, 0))
      /\ UNCHANGED << given, request, reply, left, out, pc >>
  BY DEF CopyRule, Copying
<1>2. Top \in CallType /\ Top.index \in Nat /\ place[Len(calls)] \in Nat /\ Len(calls) \in Nat
  BY <1>1, TopFacts
<1>3. off \in Nat /\ 0 \in 0 .. (Length(given, child) - 1)
  <2>1. off \in Nat /\ Length(given, child) \in Nat \ {0}
    BY <1>1, TopSymbolFacts
  <2> QED BY <2>1
<1>4. c \in CallType /\ c.rule = Top.rule /\ c.index = Top.index + 1 /\ ~c.seeking
  BY <1>1, <1>2 DEF CallType
<1> HIDE DEF c
<1>. PICK place2 : place2 = Called(place)
  OBVIOUS
<1>5. /\ calls' \in Seq(CallType') /\ calls' # << >>
      /\ Len(calls') = Len(calls) + 1 /\ Top' = Call(child, 0)
      /\ place2[Len(calls) + 1] = place[Len(calls)] + off
      /\ given.off[child][0] = 0
      /\ CallsStand(place2)' /\ CallsNested(place2)'
  BY <1>1, <1>3, <1>4, TopCalls
<1>6. NextIsTop(place2)'
  <2>1. left > 0 => place[Len(calls)] + off + 0 = request[1].from + Len(out)
    BY <1>1 DEF SubstrInvAt, WriteInv, NextIsTop
  <2>2. Top'.rule = child /\ Top'.index = 0 /\ Top'.start = 0 /\ Top'.seeking
    BY <1>5 DEF Call
  <2>3. left > 0 => place2[Len(calls')] + given.off[child][0] + 0 = request[1].from + Len(out)
    BY <1>2, <1>3, <1>5, <2>1
  <2> QED BY <1>1, <2>2, <2>3 DEF NextIsTop
<1>7. WriteInv(place2)'
  BY <1>1, <1>5, <1>6, FramesOnly
<1> QED BY <1>7

(***************************************************************************)
(* A call returns because nothing is left to write, or at the end of its   *)
(* rule; then its caller goes on where the rule's string ends.  The call   *)
(* for the start rule never gets there: the range stops before the last    *)
(* character.                                                              *)
(***************************************************************************)
LEMMA ReturnWrites ==
  ASSUME NEW place, SubstrInvAt(place), Return
  PROVE  WriteInv(place)'
<1> DEFINE n == Len(calls)
<1>1. /\ pc = "write" /\ calls # << >> /\ ~Top.seeking
      /\ left = 0 \/ Top.index = Size(given.rules[Top.rule])
      /\ calls' = Front(calls)
      /\ UNCHANGED << given, request, reply, left, out, pc >>
  BY DEF Return
<1>2. /\ n \in Nat \ {0} /\ calls \in Seq(CallType) /\ Top = calls[n] /\ given \in Inputs
      /\ Top.rule \in Ids(given) /\ place[n] \in Nat
      /\ request[1] \in Queries(SourceLength) /\ out \in Seq(Nat) /\ left \in Nat
  BY <1>1, TopFacts
<1>3. CallsStand(place) /\ CallsNested(place) /\ NextIsTop(place) /\ OutIsText
  BY <1>1 DEF SubstrInvAt, WriteInv
<1>4. /\ calls' \in Seq(CallType) /\ Len(calls') = n - 1
      /\ \A k \in 1 .. (n - 1) : calls'[k] = calls[k]
      /\ n = 1 => calls' = << >>
      /\ n # 1 => calls' # << >>
  <2>1. calls' = SubSeq(calls, 1, n - 1)
    BY <1>1 DEF Front
  <2> HIDE DEF n
  <2>2. n = Len(calls)
    BY DEF n
  <2>3. calls' = [k \in 1 .. (n - 1) |-> calls[k]] /\ calls' \in Seq(CallType) /\ Len(calls') = n - 1
    BY <1>2, <2>1, <2>2
  <2> QED BY SMTT(30), <1>2, <2>3
<1>5. CallType' = CallType /\ SourceLength' = SourceLength
        /\ (\A p, r : Stands(p, r)' = Stands(p, r)) /\ (\A r : Length(given, r)' = Length(given, r))
  BY <1>1 DEF CallType, Ids, Stands, SourceLength, Length
(* What is left to write, once the top frame's rule is through, comes next *)
(* in the text.                                                            *)
<1>6. left > 0 => place[n] + Length(given, Top.rule) = request[1].from + Len(out)
  <2> SUFFICES ASSUME left > 0 PROVE place[n] + Length(given, Top.rule) = request[1].from + Len(out)
    OBVIOUS
  <2>1. place[n] + given.off[Top.rule][Top.index] + 0 = request[1].from + Len(out)
    BY <1>1, <1>3 DEF NextIsTop
  <2>2. Top.index = Size(given.rules[Top.rule])
    BY <1>1
  <2>3. given.off[Top.rule][Top.index] = Length(given, Top.rule) /\ Length(given, Top.rule) \in Nat
    BY <1>2, <2>2, AnnotatedGiven, LengthInGrammar DEF Length
  <2> QED BY <1>2, <2>1, <2>3
<1>7. calls' = << >> => left = 0
  <2> SUFFICES ASSUME calls' = << >>, left > 0 PROVE FALSE
    BY <1>2
  <2>1. n = 1 /\ place[n] = 0 /\ Top.rule = given.start
    BY <1>1, <1>2, <1>3, <1>4 DEF CallsNested
  <2>2. SourceLength = request[1].from + Len(out) /\ SourceLength \in Nat
    BY <1>2, <1>6, <2>1, SourceFacts
  <2>3. request[1].from \in Nat /\ request[1].from + Len(out) + left <= SourceLength - 1
    BY <1>2, <1>3, RangeEnds
  <2> QED BY <1>2, <2>2, <2>3
<1> HIDE DEF n
<1>8. CallsStand(place)'
  <2> SUFFICES ASSUME NEW k \in 1 .. (n - 1)
               PROVE  /\ place[k] \in Nat
                      /\ Stands(place[k], calls[k].rule)
                      /\ calls[k].index <= Size(given.rules[calls[k].rule])
                      /\ ~calls[k].seeking
    BY <1>1, <1>4, <1>5 DEF CallsStand
  <2>1. k \in 1 .. n /\ k # n
    BY <1>2
  <2> QED BY <1>3, <2>1 DEF CallsStand, n
<1>9. CallsNested(place)'
  <2> SUFFICES /\ calls' # << >> => place[1] = 0 /\ calls'[1].rule = given.start
               /\ \A k \in 1 .. (n - 2) :
                    /\ calls'[k].index > 0
                    /\ At(given.rules[calls'[k].rule], calls'[k].index - 1) = NonTerminal(calls'[k + 1].rule)
                    /\ place[k + 1] = place[k] + given.off[calls'[k].rule][calls'[k].index - 1]
    <3>1. Len(calls') - 1 = n - 2
      BY <1>2, <1>4
    <3> QED BY <1>1, <3>1 DEF CallsNested
  <2>1. calls' # << >> => place[1] = 0 /\ calls'[1].rule = given.start
    BY <1>1, <1>2, <1>3, <1>4 DEF CallsNested
  <2>2. ASSUME NEW k \in 1 .. (n - 2)
        PROVE  k \in 1 .. (n - 1) /\ calls'[k] = calls[k] /\ calls'[k + 1] = calls[k + 1]
    <3>1. k \in 1 .. (n - 1) /\ k + 1 \in 1 .. (n - 1)
      BY <1>2
    <3> QED BY <1>4, <3>1
  <2> QED BY <1>3, <2>1, <2>2 DEF CallsNested, n
<1>10. NextIsTop(place)'
  <2> SUFFICES ASSUME n # 1, left > 0
               PROVE  LET t == calls[n - 1]
                      IN  ~t.seeking /\ place[n - 1] + given.off[t.rule][t.index] + 0 = request[1].from + Len(out)
    <3>1. calls' # << >> => n # 1 /\ Len(calls') = n - 1 /\ Top' = calls[n - 1]
      <4>1. n # 1 => n - 1 \in 1 .. (n - 1)
        BY <1>2
      <4> QED BY <1>4, <4>1 DEF Top
    <3> QED BY <1>1, <3>1 DEF NextIsTop
  <2> DEFINE t == calls[n - 1]
  <2>1. n - 1 \in 1 .. (n - 1) /\ n - 1 \in 1 .. n /\ n - 1 # n /\ (n - 1) + 1 = n
    BY <1>2
  <2>2. /\ t.index > 0
        /\ At(given.rules[t.rule], t.index - 1) = NonTerminal(Top.rule)
        /\ place[n] = place[n - 1] + given.off[t.rule][t.index - 1]
    BY <1>2, <1>3, <2>1 DEF CallsNested, n
  <2>3. t \in CallType /\ t.rule \in Ids(given) /\ t.index \in Nat
    <3>1. t \in CallType
      <4>1. \A k \in 1 .. n : calls[k] \in CallType
        BY <1>2 DEF n
      <4> QED BY <2>1, <4>1
    <3> HIDE DEF t
    <3> QED BY <3>1 DEF CallType
  <2>4. /\ ~t.seeking /\ place[n - 1] \in Nat /\ t.index <= Size(given.rules[t.rule])
    BY <1>3, <2>1 DEF CallsStand, n
  <2>5. Size(given.rules[t.rule]) \in Nat /\ t.index - 1 \in 0 .. (Size(given.rules[t.rule]) - 1)
    <3>1. Size(given.rules[t.rule]) \in Nat
      BY <1>2, <2>3, GivenFacts
    <3> HIDE DEF t
    <3> QED BY <2>2, <2>3, <2>4, <3>1
  <2>6. SymbolSpan(given, t.rule, t.index - 1) = Length(given, Top.rule)
    <3>1. Top.rule \in Nat /\ NonTerminal(Top.rule) = Top.rule + RuleOffset
      BY <1>2 DEF Ids, NonTerminal
    <3>2. ~IsTerminal(NonTerminal(Top.rule)) /\ RuleId(NonTerminal(Top.rule)) = Top.rule
      BY <3>1, RuleOffsetAssumption DEF IsTerminal, RuleId
    <3> QED BY <2>2, <3>2 DEF SymbolSpan
  <2>7. /\ given.off[t.rule][t.index - 1] \in Nat
        /\ given.off[t.rule][t.index] = given.off[t.rule][t.index - 1] + Length(given, Top.rule)
    <3>1. /\ given.off[t.rule][t.index - 1] \in Nat
          /\ given.off[t.rule][(t.index - 1) + 1]
               = given.off[t.rule][t.index - 1] + SymbolSpan(given, t.rule, t.index - 1)
      BY <1>2, <2>3, <2>5, AnnotatedGiven, SymbolLies
    <3>2. (t.index - 1) + 1 = t.index
      BY <2>3
    <3> QED BY <2>6, <3>1, <3>2
  <2>8. Length(given, Top.rule) \in Nat
    BY <1>2, AnnotatedGiven, LengthInGrammar
  <2> HIDE DEF t
  <2>9. place[n - 1] + given.off[t.rule][t.index] + 0 = request[1].from + Len(out)
    BY <1>6, <2>2, <2>4, <2>7, <2>8
  <2> QED BY <2>4, <2>9 DEF t
<1>11. calls' \in Seq(CallType')
  BY <1>4, <1>5
<1> QED BY <1>1, <1>7, <1>8, <1>9, <1>10, <1>11, FramesOnly

LEMMA AskSubstrWrites ==
  ASSUME NEW place, SubstrInvAt(place), AskSubstr
  PROVE  \E p : WriteInv(p)'
<1>1. /\ given \in Inputs /\ pc = "ready" /\ request = << >> /\ out = << >> /\ calls = << >>
      /\ given' = given /\ out' = out /\ reply' = reply /\ pc' = "write"
  BY DEF AskSubstr, SubstrInvAt, IndInv, WriteInv
<1>2. PICK query \in Queries(SourceLength) :
        /\ query.op = "substr"
        /\ request' = << query >>
        /\ IF query.from >= SubstrEnd(query)
           THEN calls' = << >> /\ left' = 0
           ELSE calls' = << Call(given.start, query.from) >> /\ left' = SubstrEnd(query) - query.from
  BY DEF AskSubstr
<1>3. /\ SourceLength = Length(given, given.start) /\ SourceLength \in Nat \ {0}
      /\ given.start \in Ids(given) /\ SourceLength' = SourceLength
  BY <1>1, SourceFacts DEF SourceLength
<1>4. /\ query.from \in Nat /\ query.len \in Nat /\ SubstrEnd(query) \in Nat
      /\ SubstrEnd(query) = IF query.from + query.len <= SourceLength - 1
                            THEN query.from + query.len ELSE SourceLength - 1
      /\ Max({0, SubstrEnd(query) - query.from}) =
           IF SubstrEnd(query) > query.from THEN SubstrEnd(query) - query.from ELSE 0
  BY <1>1, QueryFacts
<1>5. /\ request' # << >> /\ request'[1] = query /\ SubstrEnd(query)' = SubstrEnd(query)
      /\ request'[1] \in Queries(SourceLength)'
  BY <1>1, <1>2, <1>3 DEF SubstrEnd
<1>6. out' = << >> /\ Len(out') = 0 /\ out' \in Seq(Nat)
  BY <1>1
<1>. PICK place2 : place2 = [k \in {1} |-> 0]
  OBVIOUS
<1>7. CASE query.from >= SubstrEnd(query)
  <2>1. calls' = << >> /\ left' = 0
    BY <1>2, <1>7
  <2>2. OutIsText'
    BY <1>4, <1>5, <1>6, <1>7, <2>1 DEF OutIsText
  <2>3. CallsStand(place2)' /\ CallsNested(place2)' /\ NextIsTop(place2)' /\ calls' \in Seq(CallType')
    BY <2>1 DEF CallsStand, CallsNested, NextIsTop
  <2> QED BY <1>1, <1>5, <1>6, <2>1, <2>2, <2>3 DEF WriteInv
<1>8. CASE ~(query.from >= SubstrEnd(query))
  <2> DEFINE c == Call(given.start, query.from)
  <2>1. calls' = << c >> /\ left' = SubstrEnd(query) - query.from
    BY <1>2, <1>8
  <2>2. /\ c \in CallType' /\ c.rule = given.start /\ c.index = 0 /\ c.start = query.from /\ c.seeking
        /\ calls' \in Seq(CallType') /\ Len(calls') = 1 /\ calls'[1] = c /\ Top' = c /\ calls' # << >>
    <3>1. c \in CallType
      BY <1>3, <1>4 DEF Call, CallType
    <3>2. CallType' = CallType
      BY <1>1 DEF CallType, Ids
    <3>3. c.rule = given.start /\ c.index = 0 /\ c.start = query.from /\ c.seeking
      BY DEF Call
    <3> HIDE DEF c
    <3> QED BY <2>1, <3>1, <3>2, <3>3 DEF Top
  <2> HIDE DEF c
  <2>3. left' \in Nat /\ query.from < SourceLength - 1 + 1 /\ query.from < SubstrEnd(query)
    BY <1>3, <1>4, <1>8, <2>1
  <2>4. OutIsText'
    BY <1>4, <1>5, <1>6, <2>1, <2>3 DEF OutIsText
  <2>5. /\ Size(given.rules[given.start]) \in Nat \ {0} /\ given.off[given.start][0] = 0
    BY <1>1, <1>3, GivenFacts, AnnotatedGiven, OffsetsOf
  <2>6. CallsStand(place2)'
    <3>1. Stands(0, given.start)'
      <4>1. \A j \in 0 .. (Length(given, given.start) - 1) : 0 + j = j
        BY <1>3
      <4> QED BY <1>1, <1>3, <4>1 DEF Stands, Length
    <3>2. 0 + query.from < Length(given, given.start)
      BY <1>3, <1>4, <2>3
    <3> QED BY <1>1, <1>3, <2>2, <2>5, <3>1, <3>2 DEF CallsStand, Length
  <2>7. CallsNested(place2)'
    BY <1>1, <2>2 DEF CallsNested
  <2>8. NextIsTop(place2)'
    BY <1>1, <1>4, <1>5, <1>6, <2>2, <2>5 DEF NextIsTop
  <2> QED BY <1>1, <1>5, <1>6, <2>1, <2>2, <2>3, <2>4, <2>6, <2>7, <2>8 DEF WriteInv
<1> QED BY <1>7, <1>8

(* at writes nothing; an answer is taken away with what was written.       *)
LEMMA OthersWrite ==
  ASSUME NEW place, SubstrInvAt(place),
         AskAt \/ AtSkip \/ AtEnter \/ AtFound \/ SubstrDone \/ Take \/ UNCHANGED vars
  PROVE  WriteInv(place)'
<1> USE DEF SubstrInvAt
<1>1. CASE AskAt
  <2>1. PICK i \in 0 .. (SourceLength - 1) : request' = << AtQuery(i) >>
    BY <1>1 DEF AskAt
  <2>2. request'[1] \in Queries(SourceLength) /\ SourceLength' = SourceLength
    BY <1>1, <2>1 DEF AskAt, Queries, SourceLength
  <2>3. request'[1] \in Queries(SourceLength)'
    BY <2>2
  <2>4. UNCHANGED << given, calls, left, out >> /\ out = << >> /\ calls = << >> /\ pc' = "at"
          /\ request' # << >>
    BY <1>1, <2>1 DEF AskAt, IndInv, AtInv, WriteInv
  <2>5. CallType' = CallType
    BY <2>4 DEF CallType, Ids
  <2> QED BY <2>3, <2>4, <2>5 DEF WriteInv
<1>2. CASE AtSkip \/ AtEnter \/ AtFound
  <2>1. UNCHANGED << given, request, calls, left, out >> /\ pc = "at" /\ pc' \in {"at", "ready"}
    BY <1>2 DEF AtSkip, AtEnter, AtFound
  <2>2. CallType' = CallType /\ SourceLength' = SourceLength
    BY <2>1 DEF CallType, Ids, SourceLength
  <2>3. request[1].op # "substr" /\ request # << >>
    BY <2>1 DEF IndInv, AtInv
  <2> QED BY <2>1, <2>2, <2>3 DEF WriteInv
<1>3. CASE SubstrDone
  <2>1. /\ UNCHANGED << given, request, calls, left, out >>
        /\ pc = "write" /\ calls = << >> /\ reply' = << out >> /\ pc' = "ready"
    BY <1>3 DEF SubstrDone
  <2>2. CallType' = CallType /\ SourceLength' = SourceLength /\ \A q : SubstrEnd(q)' = SubstrEnd(q)
    BY <2>1 DEF CallType, Ids, SourceLength, SubstrEnd
  <2>3. OutIsText /\ left = 0
    BY <2>1 DEF WriteInv
  <2>4. OutIsText'
    BY <2>1, <2>2, <2>3 DEF OutIsText
  <2> QED BY <2>1, <2>2, <2>3, <2>4 DEF WriteInv
<1>4. CASE Take
  <2>1. /\ pc = "ready" /\ calls = << >> /\ given' = given
        /\ request' = << >> /\ out' = << >> /\ left' = 0 /\ calls' = calls /\ pc' = pc
    BY <1>4 DEF Take, IndInv, AtInv, WriteInv
  <2>2. calls' \in Seq(CallType')
    BY <2>1
  <2> QED BY <2>1, <2>2 DEF WriteInv
<1>5. CASE UNCHANGED vars
  <2>1. UNCHANGED << given, request, reply, calls, left, out, pc >>
    BY <1>5 DEF vars
  <2>2. /\ CallType' = CallType /\ SourceLength' = SourceLength /\ (\A q : SubstrEnd(q)' = SubstrEnd(q))
        /\ (\A p, r : Stands(p, r)' = Stands(p, r)) /\ (\A r : Length(given, r)' = Length(given, r))
        /\ Top' = Top
    BY <2>1 DEF CallType, Ids, SourceLength, SubstrEnd, Stands, Length, Top
  <2>3. OutIsText' = OutIsText
    BY <2>1, <2>2 DEF OutIsText
  <2>4. CallsStand(place)' = CallsStand(place)
    BY <2>1, <2>2 DEF CallsStand
  <2>5. CallsNested(place)' = CallsNested(place) /\ NextIsTop(place)' = NextIsTop(place)
    BY <2>1, <2>2 DEF CallsNested, NextIsTop
  <2> QED BY <2>1, <2>2, <2>3, <2>4, <2>5 DEF WriteInv
<1> QED BY <1>1, <1>2, <1>3, <1>4, <1>5

(* There is at any time a place in the text where each call stands.        *)
CallsPlaced == \E place : WriteInv(place)

THEOREM WriteInvariance == Spec => [](IndInv /\ CallsPlaced)
<1>1. Init => CallsPlaced
  <2> SUFFICES ASSUME Init PROVE CallsPlaced
    OBVIOUS
  <2>1. WriteInv(<< >>)
    BY DEF Init, WriteInv
  <2> QED BY <2>1 DEF CallsPlaced
<1>2. IndInv /\ CallsPlaced /\ [Next]_vars => CallsPlaced'
  <2> SUFFICES ASSUME IndInv, CallsPlaced, [Next]_vars PROVE \E p : WriteInv(p)'
    BY DEF CallsPlaced
  <2>. PICK place : WriteInv(place)
    BY DEF CallsPlaced
  <2>1. SubstrInvAt(place)
    BY DEF SubstrInvAt
  <2>2. CASE AskSubstr
    BY <2>1, <2>2, AskSubstrWrites
  <2>3. CASE SeekSkip
    BY <2>1, <2>3, SeekSkipWrites
  <2>4. CASE SeekEnter
    BY <2>1, <2>4, SeekEnterWrites
  <2>5. CASE SeekDone
    BY <2>1, <2>5, SeekDoneWrites
  <2>6. CASE CopyTerminal
    BY <2>1, <2>6, CopyTerminalWrites
  <2>7. CASE CopyRule
    BY <2>1, <2>7, CopyRuleWrites
  <2>8. CASE Return
    BY <2>1, <2>8, ReturnWrites
  <2>9. CASE AskAt \/ AtSkip \/ AtEnter \/ AtFound \/ SubstrDone \/ Take \/ UNCHANGED vars
    BY <2>1, <2>9, OthersWrite
  <2> QED BY <2>2, <2>3, <2>4, <2>5, <2>6, <2>7, <2>8, <2>9 DEF Next, Compute
<1>3. IndInv /\ [Next]_vars => IndInv'
  BY AtStep
<1> QED BY <1>1, <1>2, <1>3, InitInv, PTL DEF Spec

(* The places of the invariant are those CallPlaces computes: both begin   *)
(* at 0 and go from a caller to its call in the same way.                  *)
LEMMA PlacesComputed ==
  ASSUME NEW place, SubstrInvAt(place), pc = "write", NEW k \in 1 .. Len(calls)
  PROVE  CallPlaces[k] = place[k]
<1> DEFINE n == Len(calls)
           step(f) == [j \in 1 .. n |->
                         IF j = 1 THEN 0
                         ELSE f[j - 1] + given.off[calls[j - 1].rule][calls[j - 1].index - 1]]
           placed == [j \in 1 .. n |-> place[j]]
<1>1. /\ n \in Nat /\ n # 0 => calls # << >>
      /\ CallsNested(place)
  BY DEF SubstrInvAt, WriteInv
<1>2. placed = step(placed)
  <2> SUFFICES ASSUME NEW j \in 1 .. n
               PROVE  place[j] = IF j = 1 THEN 0
                                 ELSE placed[j - 1] + given.off[calls[j - 1].rule][calls[j - 1].index - 1]
    OBVIOUS
  <2>1. CASE j = 1
    BY <1>1, <2>1 DEF CallsNested
  <2>2. CASE j # 1
    <3>1. j - 1 \in 1 .. n /\ j - 1 \in 1 .. (n - 1) /\ (j - 1) + 1 = j
      BY <1>1, <2>2
    <3>2. place[j] = place[j - 1] + given.off[calls[j - 1].rule][calls[j - 1].index - 1]
      BY <1>1, <3>1 DEF CallsNested
    <3> QED BY <2>2, <3>1, <3>2
  <2> QED BY <2>1, <2>2
<1>3. CallPlaces = CHOOSE f : f = step(f)
  BY DEF CallPlaces
<1>4. CallPlaces = step(CallPlaces)
  <2> HIDE DEF step, placed
  <2> QED BY <1>2, <1>3
<1> DEFINE wrong == {j \in 1 .. n : CallPlaces[j] # place[j]}
<1>5. ASSUME wrong # {} PROVE FALSE
  <2>1. PICK m \in wrong : \A j \in wrong : m <= j
    <3>1. wrong \subseteq Nat
      OBVIOUS
    <3> HIDE DEF wrong
    <3> QED BY <1>5, <3>1, LeastNatural
  <2>2. m \in 1 .. n /\ CallPlaces[m] # place[m]
    BY <2>1
  <2> DEFINE at == given.off[calls[m - 1].rule][calls[m - 1].index - 1]
  <2>3. CallPlaces[m] = IF m = 1 THEN 0 ELSE CallPlaces[m - 1] + at
    BY <1>4, <2>2
  <2>4. place[m] = IF m = 1 THEN 0 ELSE place[m - 1] + at
    <3>1. m # 1 => m - 1 \in 1 .. (n - 1) /\ (m - 1) + 1 = m
      BY <1>1, <2>2
    <3> QED BY <1>1, <2>2, <3>1 DEF CallsNested
  <2>5. m # 1 => m - 1 \in 1 .. n /\ m - 1 < m
    BY <1>1, <2>2
  <2>6. m # 1 => CallPlaces[m - 1] = place[m - 1]
    <3>1. m # 1 => m - 1 \notin wrong
      BY <2>1, <2>2, <2>5
    <3> QED BY <2>5, <3>1
  <2> QED BY <2>2, <2>3, <2>4, <2>6
<1> QED BY <1>5

(* The frames of write follow the text: what the innermost call is at is   *)
(* the next character of the answer, so nothing is written twice or left   *)
(* out, however deep the calls nest and wherever the range begins.         *)
THEOREM CallsCorrectness == Spec => []CallsFollowText
<1>1. IndInv /\ CallsPlaced => CallsFollowText
  <2> SUFFICES ASSUME IndInv, NEW place, WriteInv(place), pc = "write"
               PROVE  /\ \A k \in 1 .. (Len(calls) - 1) :
                           /\ calls[k].index > 0
                           /\ At(given.rules[calls[k].rule], calls[k].index - 1) = NonTerminal(calls[k + 1].rule)
                      /\ calls # << >> /\ left > 0 =>
                           CallPlaces[Len(calls)] + given.off[Top.rule][Top.index]
                             + (IF Top.seeking THEN Top.start ELSE 0) = request[1].from + Len(out)
    BY DEF CallsPlaced, CallsFollowText
  <2>1. SubstrInvAt(place) /\ CallsNested(place) /\ NextIsTop(place)
    BY DEF SubstrInvAt, WriteInv
  <2>2. \A k \in 1 .. (Len(calls) - 1) :
          /\ calls[k].index > 0
          /\ At(given.rules[calls[k].rule], calls[k].index - 1) = NonTerminal(calls[k + 1].rule)
    BY <2>1 DEF CallsNested
  <2>3. calls # << >> => CallPlaces[Len(calls)] = place[Len(calls)]
    BY <2>1, TopFacts, PlacesComputed
  <2> QED BY <2>1, <2>2, <2>3 DEF NextIsTop
<1> QED BY <1>1, WriteInvariance, PTL

-----------------------------------------------------------------------------
(***************************************************************************)
(* The safety part of KeepsPromiseButLast: every step of the structure is  *)
(* one its caller was promised, or none at all for the caller.             *)
(***************************************************************************)

LEMMA TextFacts ==
  ASSUME given \in Inputs
  PROVE  /\ SourceText(given) \in Seq(0 .. (RuleOffset - 1))
         /\ Len(SourceText(given)) = SourceLength
         /\ \A k \in 0 .. (SourceLength - 1) : SourceText(given)[k + 1] = given.text[given.start][k]
<1>1. /\ given.start \in Ids(given) /\ SourceLength = Length(given, given.start)
      /\ SourceLength \in Nat \ {0} /\ IsAnnotated(given)
  BY SourceFacts, AnnotatedGiven
<1>2. \A j \in 0 .. (SourceLength - 1) : given.text[given.start][j] \in 0 .. (RuleOffset - 1)
  BY <1>1, TextIsCharacters
<1>3. SourceText(given) = [k \in 1 .. SourceLength |-> given.text[given.start][k - 1]]
  BY <1>1 DEF SourceText
<1>4. \A k \in 1 .. SourceLength : k - 1 \in 0 .. (SourceLength - 1)
  BY <1>1
<1>5. \A k \in 0 .. (SourceLength - 1) : k + 1 \in 1 .. SourceLength /\ (k + 1) - 1 = k
  BY <1>1
<1> DEFINE t == SourceText(given)
<1>6. t \in [1 .. SourceLength -> 0 .. (RuleOffset - 1)]
  BY <1>2, <1>3, <1>4
<1>7. \A k \in 0 .. (SourceLength - 1) : t[k + 1] = given.text[given.start][k]
  BY <1>3, <1>5
<1> HIDE DEF t
<1>8. t \in Seq(0 .. (RuleOffset - 1)) /\ Len(t) = SourceLength
  <2> DEFINE chars == 0 .. (RuleOffset - 1)
             n == SourceLength
  <2>1. t \in [1 .. n -> chars] /\ n \in Nat
    BY <1>1, <1>6
  <2> HIDE DEF chars, n
  <2>2. t \in Seq(chars) /\ Len(t) = n
    BY <2>1
  <2> QED BY <2>2 DEF chars, n
<1> QED BY <1>7, <1>8 DEF t

LEMMA PromiseInit == Init => ShortPromise!Init
<1> SUFFICES ASSUME Init PROVE ShortPromise!Init
  OBVIOUS
<1>1. given \in Inputs /\ request = << >> /\ reply = << >>
  BY DEF Init
<1> QED BY <1>1, TextFacts DEF ShortPromise!Init

(* What substr hands out is the answer promised. *)
LEMMA SubstrAnswers ==
  ASSUME IndInv, CallsPlaced, SubstrDone
  PROVE  out = ShortPromise!Answer(SourceText(given), request[1])
<1> DEFINE q == request[1]
           t == SourceText(given)
           end == SubstrEnd(q)
<1>. PICK place : WriteInv(place)
  BY DEF CallsPlaced
<1>1. /\ given \in Inputs /\ q.op = "substr" /\ q \in Queries(SourceLength) /\ out \in Seq(Nat)
      /\ left = 0 /\ OutIsText
  BY DEF IndInv, AtInv, WriteInv, SubstrDone
<1>2. SourceLength \in Nat \ {0}
  BY <1>1, SourceFacts
<1>3. /\ t \in Seq(0 .. (RuleOffset - 1)) /\ Len(t) = SourceLength
      /\ \A k \in 0 .. (SourceLength - 1) : t[k + 1] = given.text[given.start][k]
  BY <1>1, TextFacts
<1>4. /\ q.from \in Nat /\ q.len \in Nat /\ end \in Nat
      /\ end = IF q.from + q.len <= SourceLength - 1 THEN q.from + q.len ELSE SourceLength - 1
      /\ Max({0, end - q.from}) = IF end > q.from THEN end - q.from ELSE 0
  BY <1>1, QueryFacts
<1>5. /\ Len(out) \in Nat
      /\ Len(out) = IF end > q.from THEN end - q.from ELSE 0
      /\ \A k \in 1 .. Len(out) : out[k] = given.text[given.start][q.from + k - 1]
  <2>1. Len(out) + left = Max({0, end - q.from}) /\ Len(out) \in Nat
    BY <1>1 DEF OutIsText
  <2>2. \A k \in 1 .. Len(out) : out[k] = given.text[given.start][q.from + k - 1]
    BY <1>1 DEF OutIsText
  <2>3. Len(out) = Max({0, end - q.from})
    <3>1. left = 0
      BY <1>1
    <3> HIDE DEF q, end
    <3>2. Len(out) + 0 = Len(out)
      BY <2>1
    <3> QED BY <2>1, <3>1, <3>2
  <2>4. Len(out) = IF end > q.from THEN end - q.from ELSE 0
    BY <1>4, <2>3
  <2> QED BY <2>1, <2>2, <2>4
<1>6. end = IF q.from + q.len < Len(t) - 1 THEN q.from + q.len ELSE Len(t) - 1
  <2> HIDE DEF q, end, t
  <2> QED BY <1>2, <1>3, <1>4
<1>7. ShortPromise!Answer(t, q) = SubSeq(t, q.from + 1, end)
  BY <1>1, <1>6 DEF ShortPromise!Answer, AllButOne
<1> HIDE DEF q, t, end
<1>8. SubSeq(t, q.from + 1, end) = out
  <2> DEFINE from == q.from
             sub == SubSeq(t, from + 1, end)
             chars == 0 .. (RuleOffset - 1)
  <2>1. /\ from \in Nat /\ end \in Nat /\ t \in Seq(chars) /\ end <= Len(t)
        /\ Len(out) = IF end > from THEN end - from ELSE 0
    BY <1>2, <1>3, <1>4, <1>5
  <2> HIDE DEF from, chars
  <2>2. /\ sub \in Seq(chars) /\ Len(sub) = IF end > from THEN end - from ELSE 0
        /\ \A k \in 1 .. (end - from) : sub[k] = t[from + k]
    BY <2>1
  <2>3. \A k \in 1 .. Len(out) : sub[k] = out[k]
    <3> TAKE k \in 1 .. Len(out)
    <3>1. k \in 1 .. (end - from)
      BY <2>1
    <3>2. from + k - 1 \in 0 .. (SourceLength - 1) /\ (from + k - 1) + 1 = from + k
      BY <1>2, <1>3, <2>1, <3>1
    <3>3. t[from + k] = given.text[given.start][from + k - 1]
      BY <1>3, <3>2
    <3>4. out[k] = given.text[given.start][from + k - 1]
      BY <1>5 DEF from
    <3> QED BY <2>2, <3>1, <3>3, <3>4
  <2> HIDE DEF sub
  <2>4. sub = out
    BY <1>1, <2>1, <2>2, <2>3
  <2> QED BY <2>4 DEF sub, from
<1> QED BY <1>7, <1>8 DEF q, t

LEMMA PromiseStep ==
  ASSUME IndInv, IndInv', CallsPlaced, [Next]_vars
  PROVE  [ShortPromise!Next]_ShortPromise!vars
<1>1. given \in Inputs
  BY DEF IndInv
<1>2. Len(SourceText(given)) = SourceLength /\ SourceLength \in Nat \ {0}
  BY <1>1, TextFacts, SourceFacts
<1>3. given' = given => SourceText(given)' = SourceText(given)
  BY DEF SourceText, Length
<1>4. CASE AskAt
  <2>1. PICK i \in 0 .. (SourceLength - 1) : request' = << AtQuery(i) >>
    BY <1>4 DEF AskAt
  <2>2. AtQuery(i) \in QueriesOf(SourceText(given))
    BY <1>2 DEF QueriesOf, Queries
  <2>3. request = << >> /\ UNCHANGED << given, reply >>
    BY <1>4 DEF AskAt
  <2>4. ShortPromise!Ask
    BY <1>3, <2>1, <2>2, <2>3 DEF ShortPromise!Ask
  <2> QED BY <2>4 DEF ShortPromise!Next
<1>5. CASE AskSubstr
  <2>1. PICK query \in Queries(SourceLength) : request' = << query >>
    BY <1>5 DEF AskSubstr
  <2>2. query \in QueriesOf(SourceText(given))
    BY <1>2 DEF QueriesOf
  <2>3. request = << >> /\ UNCHANGED << given, reply >>
    BY <1>5 DEF AskSubstr
  <2>4. ShortPromise!Ask
    BY <1>3, <2>1, <2>2, <2>3 DEF ShortPromise!Ask
  <2> QED BY <2>4 DEF ShortPromise!Next
<1>6. CASE AtFound
  <2>1. /\ request # << >> /\ request' = request /\ given' = given /\ reply = << >> /\ pc' = "ready"
        /\ request[1].op = "at"
    BY <1>6 DEF AtFound, IndInv, AtInv
  <2>2. reply' = << << given.text[given.start][request[1].from] >> >>
    BY <2>1 DEF IndInv, AtInv, AtFollowsText
  <2>3. request[1] \in Queries(SourceLength)
    BY <2>1 DEF CallsPlaced, WriteInv
  <2>4. request[1].from \in 0 .. (SourceLength - 1)
    <3>1. request[1].from \in Nat /\ request[1].from < SourceLength
      BY <1>1, <2>1, <2>3, QueryFacts
    <3> QED BY <1>2, <3>1
  <2>5. SourceText(given)[request[1].from + 1] = given.text[given.start][request[1].from]
    BY <1>1, <2>4, TextFacts
  <2>6. ShortPromise!Answer(SourceText(given), request[1]) = << given.text[given.start][request[1].from] >>
    BY <2>1, <2>5 DEF ShortPromise!Answer
  <2>7. ShortPromise!Respond
    BY <1>3, <2>1, <2>2, <2>6 DEF ShortPromise!Respond
  <2> QED BY <2>7 DEF ShortPromise!Next
<1>7. CASE SubstrDone
  <2>1. /\ request # << >> /\ request' = request /\ given' = given /\ reply = << >>
        /\ reply' = << out >>
    BY <1>7 DEF SubstrDone, IndInv, AtInv
  <2>2. out = ShortPromise!Answer(SourceText(given), request[1])
    BY <1>7, SubstrAnswers
  <2>3. ShortPromise!Respond
    BY <1>3, <2>1, <2>2 DEF ShortPromise!Respond
  <2> QED BY <2>3 DEF ShortPromise!Next
<1>8. CASE Take
  <2>1. ShortPromise!Take
    BY <1>3, <1>8 DEF Take, ShortPromise!Take
  <2> QED BY <2>1 DEF ShortPromise!Next
<1>9. CASE AtSkip \/ AtEnter \/ SeekSkip \/ SeekEnter \/ SeekDone \/ CopyTerminal \/ CopyRule \/ Return
             \/ UNCHANGED vars
  <2>1. UNCHANGED << given, request, reply >>
    BY <1>9 DEF AtSkip, AtEnter, SeekSkip, SeekEnter, SeekDone, CopyTerminal, CopyRule, Return, vars
  <2> QED BY <1>3, <2>1 DEF ShortPromise!vars
<1> QED BY <1>4, <1>5, <1>6, <1>7, <1>8, <1>9 DEF Next, Compute

(* NaiveQueryGrammar implements RandomAccess as far as safety goes: at     *)
(* answers with the character asked for, and substr with the range asked   *)
(* for, short of the last character of the text, and neither gives another *)
(* answer or touches the text, whatever the grammar and the queries.       *)
THEOREM PromiseSafety == Spec => ShortPromise!Init /\ [][ShortPromise!Next]_ShortPromise!vars
<1>1. Spec => [](IndInv /\ CallsPlaced)
  BY WriteInvariance
<1>2. ASSUME IndInv, IndInv', CallsPlaced, [Next]_vars
      PROVE  [ShortPromise!Next]_ShortPromise!vars
  BY <1>2, PromiseStep
<1> QED BY <1>1, <1>2, PromiseInit, PTL DEF Spec
=============================================================================
