----------------------------- MODULE FullLengths -----------------------------
(***************************************************************************)
(* calculate_full_lengths, the same code in NaiveQueryGrammar and in       *)
(* SampledScanQueryGrammar: the expanded length of every rule, bottom-up   *)
(* in rule order, packed at the end into fields just wide enough -- or so  *)
(* it is meant -- for the longest rule other than the start rule.          *)
(***************************************************************************)
EXTENDS Lengths

CONSTANT Inputs      \* grammars as dependency_renumber leaves them

(* Lengths fit the 64-bit fields they are summed up in. *)
ASSUME InputsAssumption ==
  \A g \in Inputs :
    /\ IsGrammar(g) /\ IsOrdered(g) /\ IsDerivation(g)
    /\ g.count > 0
    /\ LongestLength(g) <= 2^MaxWidth

VARIABLES
  given,             \* the grammar, m_rules and m_start_rule_id
  fullLengths,       \* full_lengths, 64-bit fields until the end
  summing,           \* the rule whose length is computed
  nextSymbol,        \* its symbol that is added next
  maxLen,            \* max_len
  startLength,       \* m_start_rule_full_length
  lengthsPc

lengthVars == << given, fullLengths, summing, nextSymbol, maxLen, startLength, lengthsPc >>

LengthsInit ==
  /\ given \in Inputs
  /\ fullLengths = [r \in Ids(given) |-> 0]
  /\ summing = 0 /\ nextSymbol = 0
  /\ maxLen = 0
  /\ startLength = 0
  /\ lengthsPc = "rule"

BeginRule ==
  /\ lengthsPc = "rule" /\ summing < given.count
  /\ fullLengths' = [fullLengths EXCEPT ![summing] = 0]
  /\ nextSymbol' = 0
  /\ lengthsPc' = "sum"
  /\ UNCHANGED << given, summing, maxLen, startLength >>

(* What a symbol adds, read from the fields computed so far. *)
Summand(symbol) == IF IsTerminal(symbol) THEN 1 ELSE fullLengths[RuleId(symbol)]

(* Variant: every nonterminal counts for one character. *)
AddSymbolFlat ==
  /\ lengthsPc = "sum" /\ nextSymbol < Size(given.rules[summing])
  /\ fullLengths' = [fullLengths EXCEPT ![summing] = @ + 1]
  /\ nextSymbol' = nextSymbol + 1
  /\ UNCHANGED << given, summing, maxLen, startLength, lengthsPc >>

AddSymbol ==
  /\ lengthsPc = "sum" /\ nextSymbol < Size(given.rules[summing])
  /\ fullLengths' = [fullLengths EXCEPT ![summing] = @ + Summand(At(given.rules[summing], nextSymbol))]
  /\ nextSymbol' = nextSymbol + 1
  /\ UNCHANGED << given, summing, maxLen, startLength, lengthsPc >>

(* Variant: the start rule counts for the largest length as well. *)
FinishLengthCountsAll ==
  /\ lengthsPc = "sum" /\ nextSymbol = Size(given.rules[summing])
  /\ maxLen' = IF fullLengths[summing] > maxLen THEN fullLengths[summing] ELSE maxLen
  /\ summing' = summing + 1
  /\ lengthsPc' = "rule"
  /\ UNCHANGED << given, fullLengths, nextSymbol, startLength >>

(* The start rule, the last one, does not count for the largest length. *)
FinishLength ==
  /\ lengthsPc = "sum" /\ nextSymbol = Size(given.rules[summing])
  /\ maxLen' = IF summing < given.count - 1 /\ fullLengths[summing] > maxLen THEN fullLengths[summing] ELSE maxLen
  /\ summing' = summing + 1
  /\ lengthsPc' = "rule"
  /\ UNCHANGED << given, fullLengths, nextSymbol, startLength >>

(* The start rule's length is kept apart; the others are packed, and the   *)
(* field that resize adds back for the start rule is zero.                 *)
Pack ==
  /\ lengthsPc = "rule" /\ summing = given.count /\ maxLen > 0
  /\ startLength' = fullLengths[given.count - 1]
  /\ fullLengths' = [r \in Ids(given) |->
                       IF r = given.count - 1 THEN 0
                       ELSE Packed(CeilLog2(maxLen), fullLengths[r])]
  /\ lengthsPc' = "done"
  /\ UNCHANGED << given, summing, nextSymbol, maxLen >>

(***************************************************************************)
(* A grammar of the start rule alone has max_len 0: ceil(log2(0)) is       *)
(* -infinity, whose conversion to size_t is undefined.  The start length   *)
(* is taken before that; nothing is said of the fields.                    *)
(***************************************************************************)
PackNothing ==
  /\ lengthsPc = "rule" /\ summing = given.count /\ maxLen = 0
  /\ startLength' = fullLengths[given.count - 1]
  /\ lengthsPc' = "undefined"
  /\ UNCHANGED << given, fullLengths, summing, nextSymbol, maxLen >>

LengthsStep == BeginRule \/ AddSymbol \/ FinishLength \/ Pack \/ PackNothing

(* The computation on its own; in the constructor it is followed by        *)
(* calculate_samples (module SampleBuild).                                 *)
LengthsSpec == LengthsInit /\ [][LengthsStep]_lengthVars

(* rule_length *)
RuleLength(r) == IF r # given.start THEN fullLengths[r] ELSE startLength

-----------------------------------------------------------------------------
(* Properties *)

(* All lengths are natural numbers, and the loop indexes stay in range. *)
LengthsTypeOK ==
  /\ fullLengths \in [Ids(given) -> Nat]
  /\ summing \in 0 .. given.count /\ nextSymbol \in Nat
  /\ maxLen \in Nat /\ startLength \in Nat
  /\ lengthsPc \in {"rule", "sum", "done", "undefined"}

(* The loop computes the length of the string each rule derives: every     *)
(* field it reads was written before, which is what the renumbering is for.*)
SummedExactly ==
  lengthsPc \in {"rule", "sum"} => \A r \in 0 .. (summing - 1) : fullLengths[r] = Length(given, r)

(* The packed fields are what Lengths!StoredLength says, the definition    *)
(* the query modules build on.                                             *)
PackedAsStored ==
  lengthsPc = "done" => \A r \in Ids(given) : RuleLength(r) = StoredLength(given, r)

(* Packing loses a length exactly if the longest rule's length is a power  *)
(* of two, 2^b: b bits hold at most 2^b - 1.  There is no width to pack    *)
(* with exactly if the start rule alone derives a character.               *)
LossOnlyAtPowersOfTwo ==
  /\ lengthsPc = "done" =>
       /\ \E r \in Ids(given) \ {given.start} : Length(given, r) > 0
       /\ (\A r \in Ids(given) : RuleLength(r) = Length(given, r))
            <=> ~\E b \in 0 .. MaxWidth : maxLen = 2^b
  /\ lengthsPc = "undefined" => \A r \in Ids(given) \ {given.start} : Length(given, r) = 0

(* Whatever is lost, a rule shorter than the longest keeps its length.     *)
ShorterRulesKept ==
  lengthsPc = "done" =>
    \A r \in Ids(given) : Length(given, r) < maxLen => RuleLength(r) = Length(given, r)

(* "Returns the expanded length of the rule with the given id."            *)
(* (sampled_scan_query_grammar.hpp:322)                                    *)
RuleLengthExact ==
  lengthsPc = "done" => \A r \in Ids(given) : RuleLength(r) = Length(given, r)

-----------------------------------------------------------------------------
(***************************************************************************)
(* The inductive invariant of the proofs in FullLengths_proofs.            *)
(***************************************************************************)

(* Within a rule, the field holds what the symbols passed add up to. *)
PrefixSummed ==
  lengthsPc = "sum" =>
    /\ summing < given.count
    /\ nextSymbol \in 0 .. Size(given.rules[summing])
    /\ fullLengths[summing] = given.off[summing][nextSymbol]

(* The rules that have been compared with max_len. *)
Compared == {r \in Ids(given) : r < summing /\ r # given.start}

LongestSoFar ==
  lengthsPc \in {"rule", "sum"} =>
    /\ maxLen = 0 \/ \E r \in Compared : maxLen = Length(given, r)
    /\ \A r \in Compared : Length(given, r) <= maxLen

(* After packing, max_len is the longest length, that of some rule. *)
LongestFound ==
  lengthsPc = "done" =>
    /\ maxLen > 0 /\ maxLen = LongestLength(given)
    /\ \E r \in Ids(given) \ {given.start} : maxLen = Length(given, r)
    /\ \A r \in Ids(given) \ {given.start} : Length(given, r) <= maxLen
    /\ startLength = Length(given, given.start)

(* No rule but the start rule derives a character. *)
NothingFound ==
  lengthsPc = "undefined" => \A r \in Ids(given) \ {given.start} : Length(given, r) = 0

LengthsInv ==
  /\ LengthsTypeOK
  /\ SummedExactly
  /\ PrefixSummed
  /\ LongestSoFar
  /\ LongestFound
  /\ NothingFound
  /\ PackedAsStored
=============================================================================
