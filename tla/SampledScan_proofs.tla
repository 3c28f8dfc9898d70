------------------------- MODULE SampledScan_proofs -------------------------
(***************************************************************************)
(* SampledScanQueryGrammar: proofs about compute_full_lengths,             *)
(* calculate_samples and the queries, for every set of renumbered          *)
(* grammars, every RULE_OFFSET, every width and every sampling.            *)
(*                                                                         *)
(* The lengths packed are those of the expansions, up to the lengths that  *)
(* are powers of two; the walk over the parse tree leaves every block with *)
(* the sample at and substr take for granted.  The constructor and the     *)
(* queries, put together, do to the lengths what calculate_full_lengths    *)
(* does alone, and to the samples what calculate_samples does alone: what  *)
(* is shown of these holds for the whole data structure.                   *)
(*                                                                         *)
(* On the samples rest the queries: at, whose two scans go down into the   *)
(* symbol around the character; and substr, whose invariant places the     *)
(* scan and each call of write_expansion(_reverse) in the text.  Together  *)
(* they keep the promise of RandomAccess.                                  *)
(***************************************************************************)
EXTENDS SampledScan, Grammars_proofs

-----------------------------------------------------------------------------
(* Facts about the grammar given *)

LEMMA GivenFacts ==
  ASSUME given \in Inputs
  PROVE  /\ given.count \in Nat \ {0}
         /\ given.start = given.count - 1
         /\ given.start \in Ids(given)
         /\ given.rules \in [Ids(given) -> RuleType]
         /\ \A r \in Ids(given) : Size(given.rules[r]) \in Nat
         /\ IsDerivation(given)
         /\ LongestLength(given) <= 2^MaxWidth
<1>1. /\ IsGrammar(given) /\ IsOrdered(given) /\ IsDerivation(given)
      /\ given.count > 0 /\ LongestLength(given) <= 2^MaxWidth
  BY InputsAssumption
<1>2. given.rules \in [Ids(given) -> RuleType] /\ given.count \in Nat
  BY <1>1 DEF IsGrammar, IsRuleSet
<1>3. \A r \in Ids(given) : Size(given.rules[r]) \in Nat
  BY <1>2 DEF RuleType, Size
<1> QED BY <1>1, <1>2, <1>3 DEF IsGrammar, IsRuleSet, IsOrdered

LEMMA LengthNat ==
  ASSUME given \in Inputs, NEW r \in Ids(given)
  PROVE  Length(given, r) \in Nat
BY GivenFacts, LengthIsNat

(* A symbol of a rule is a character or a rule with a smaller id.          *)
LEMMA SymbolBelow ==
  ASSUME given \in Inputs, NEW r \in Ids(given), NEW idx \in 0 .. (Size(given.rules[r]) - 1)
  PROVE  IsNonTerminal(At(given.rules[r], idx)) =>
           /\ RuleId(At(given.rules[r], idx)) \in Ids(given)
           /\ RuleId(At(given.rules[r], idx)) < r
<1>1. IsAnnotated(given)
  BY InputsAssumption DEF IsAnnotated
<1> QED BY <1>1, SymbolDescends

-----------------------------------------------------------------------------
(* The inductive invariant *)

IndInv == given \in Inputs /\ LengthsInv

LEMMA InitInv == LengthsInit => IndInv
<1> SUFFICES ASSUME LengthsInit PROVE IndInv
  OBVIOUS
<1>1. given.count \in Nat \ {0}
  BY GivenFacts DEF LengthsInit
<1>2. LengthsTypeOK
  BY <1>1 DEF LengthsInit, LengthsTypeOK
<1>3. SummedExactly /\ PrefixSummed /\ LongestSoFar /\ LongestFound /\ NothingFound /\ PackedAsStored
  BY <1>1 DEF LengthsInit, SummedExactly, PrefixSummed, LongestSoFar, LongestFound, NothingFound, PackedAsStored,
              Compared, Ids
<1> QED BY <1>2, <1>3 DEF IndInv, LengthsInv, LengthsInit

LEMMA BeginRuleInv == IndInv /\ BeginRule => IndInv'
<1> SUFFICES ASSUME IndInv, BeginRule PROVE IndInv'
  OBVIOUS
<1> USE DEF BeginRule
<1>1. given \in Inputs /\ LengthsInv /\ given.count \in Nat \ {0}
  BY GivenFacts DEF IndInv
<1>2. summing \in Ids(given) /\ given.rules[summing] \in RuleType /\ Size(given.rules[summing]) \in Nat
  <2>1. summing \in Ids(given)
    BY <1>1 DEF LengthsInv, LengthsTypeOK, Ids
  <2> QED BY <1>1, <2>1, GivenFacts
<1>3. LengthsTypeOK'
  BY <1>1, <1>2 DEF LengthsInv, LengthsTypeOK
<1>4. SummedExactly'
  BY <1>1, <1>2 DEF LengthsInv, LengthsTypeOK, SummedExactly, Length, Ids
<1>5. PrefixSummed'
  <2>1. given.off[summing][0] = 0
    <3>1. 0 \in 0 .. Size(given.rules[summing])
      BY <1>2
    <3> QED BY <1>1, <1>2, <3>1, GivenFacts, Offsets
  <2>2. fullLengths'[summing] = 0
    BY <1>1, <1>2 DEF LengthsInv, LengthsTypeOK
  <2> QED BY <1>2, <2>1, <2>2 DEF PrefixSummed
<1>6. LongestSoFar'
  BY <1>1 DEF LengthsInv, LongestSoFar, Compared, Length
<1>7. LongestFound' /\ NothingFound' /\ PackedAsStored'
  BY DEF LongestFound, NothingFound, PackedAsStored
<1> QED BY <1>1, <1>3, <1>4, <1>5, <1>6, <1>7 DEF IndInv, LengthsInv

LEMMA AddSymbolInv == IndInv /\ AddSymbol => IndInv'
<1> SUFFICES ASSUME IndInv, AddSymbol PROVE IndInv'
  OBVIOUS
<1> USE DEF AddSymbol
<1>1. given \in Inputs /\ LengthsInv /\ given.count \in Nat \ {0}
  BY GivenFacts DEF IndInv
<1>2. summing \in Ids(given) /\ given.rules[summing] \in RuleType /\ Size(given.rules[summing]) \in Nat
  <2>1. summing \in Ids(given)
    BY <1>1 DEF LengthsInv, LengthsTypeOK, PrefixSummed, Ids
  <2> QED BY <1>1, <2>1, GivenFacts
<1>3. nextSymbol \in 0 .. (Size(given.rules[summing]) - 1) /\ fullLengths[summing] = given.off[summing][nextSymbol]
  BY <1>1, <1>2 DEF LengthsInv, PrefixSummed
<1>4. Summand(At(given.rules[summing], nextSymbol)) = SymbolSpan(given, summing, nextSymbol)
  BY <1>1, <1>2, <1>3, SymbolBelow DEF LengthsInv, SummedExactly, Summand, SymbolSpan, IsNonTerminal, Ids
<1>5. /\ given.off[summing][nextSymbol] \in Nat /\ given.off[summing][nextSymbol + 1] \in Nat
      /\ given.off[summing][nextSymbol + 1] = given.off[summing][nextSymbol] + SymbolSpan(given, summing, nextSymbol)
  <2>1. nextSymbol \in 0 .. Size(given.rules[summing]) /\ nextSymbol + 1 \in 0 .. Size(given.rules[summing])
    BY <1>2, <1>3
  <2> QED BY <1>1, <1>2, <1>3, <2>1, GivenFacts, Offsets
<1>6. fullLengths' = [fullLengths EXCEPT ![summing] = given.off[summing][nextSymbol + 1]]
  BY <1>1, <1>3, <1>4, <1>5 DEF LengthsInv, LengthsTypeOK
<1>7. LengthsTypeOK'
  BY <1>1, <1>2, <1>5, <1>6 DEF LengthsInv, LengthsTypeOK
<1>8. SummedExactly'
  BY <1>1, <1>2, <1>6 DEF LengthsInv, LengthsTypeOK, SummedExactly, Length, Ids
<1>9. PrefixSummed'
  <2>1. fullLengths'[summing] = given.off[summing][nextSymbol + 1]
    BY <1>1, <1>2, <1>6 DEF LengthsInv, LengthsTypeOK
  <2> QED BY <1>1, <1>2, <1>3, <2>1 DEF LengthsInv, PrefixSummed
<1>10. LongestSoFar'
  BY <1>1 DEF LengthsInv, LongestSoFar, Compared, Length
<1>11. LongestFound' /\ NothingFound' /\ PackedAsStored'
  BY DEF LongestFound, NothingFound, PackedAsStored
<1> QED BY <1>1, <1>7, <1>8, <1>9, <1>10, <1>11 DEF IndInv, LengthsInv

LEMMA FinishRuleInv == IndInv /\ FinishLength => IndInv'
<1> SUFFICES ASSUME IndInv, FinishLength PROVE IndInv'
  OBVIOUS
<1> USE DEF FinishLength
<1>1. given \in Inputs /\ LengthsInv /\ given.count \in Nat \ {0} /\ given.start = given.count - 1
  BY GivenFacts DEF IndInv
<1>2. summing \in Ids(given) /\ Size(given.rules[summing]) \in Nat /\ summing \in Nat /\ summing < given.count
  BY <1>1, GivenFacts DEF LengthsInv, LengthsTypeOK, PrefixSummed, Ids
<1>3. fullLengths[summing] = Length(given, summing) /\ Length(given, summing) \in Nat
  BY <1>1, <1>2, LengthNat DEF LengthsInv, PrefixSummed, Length
<1>4. LengthsTypeOK'
  BY <1>1, <1>2, <1>3 DEF LengthsInv, LengthsTypeOK
<1>5. SummedExactly'
  BY <1>1, <1>2, <1>3 DEF LengthsInv, LengthsTypeOK, SummedExactly, Length, Ids
<1>6. PrefixSummed'
  BY DEF PrefixSummed
<1>7. LongestSoFar'
  <2>1. Compared' = Compared \cup (IF summing # given.start THEN {summing} ELSE {})
    BY <1>1, <1>2 DEF Compared, Ids
  <2>2. \A r \in Compared : Length(given, r) \in Nat
    BY <1>1, LengthNat DEF Compared
  <2>3. /\ maxLen = 0 \/ \E r \in Compared : maxLen = Length(given, r)
        /\ \A r \in Compared : Length(given, r) <= maxLen
        /\ maxLen \in Nat
    BY <1>1 DEF LengthsInv, LengthsTypeOK, LongestSoFar
  <2>4. \A r : Length(given, r)' = Length(given, r)
    BY DEF Length
  <2>5. CASE summing # given.start
    <3>1. summing < given.count - 1
      BY <1>1, <1>2, <2>5
    <3>2. maxLen' = IF Length(given, summing) > maxLen THEN Length(given, summing) ELSE maxLen
      BY <1>3, <3>1
    <3>3. Compared' = Compared \cup {summing}
      BY <2>1, <2>5
    <3>4. maxLen' = 0 \/ \E r \in Compared' : maxLen' = Length(given, r)
      BY <2>3, <3>2, <3>3
    <3>5. \A r \in Compared' : Length(given, r) <= maxLen'
      BY <1>3, <2>2, <2>3, <3>2, <3>3
    <3> QED BY <2>4, <3>4, <3>5 DEF LongestSoFar
  <2>6. CASE summing = given.start
    <3>1. maxLen' = maxLen /\ Compared' = Compared
      BY <1>1, <1>2, <2>1, <2>6
    <3> QED BY <2>3, <2>4, <3>1 DEF LongestSoFar
  <2> QED BY <2>5, <2>6
<1>8. LongestFound' /\ NothingFound' /\ PackedAsStored'
  BY DEF LongestFound, NothingFound, PackedAsStored
<1> QED BY <1>1, <1>4, <1>5, <1>6, <1>7, <1>8 DEF IndInv, LengthsInv

(* When every rule has been compared, max_len is the longest length.       *)
LEMMA AllCompared ==
  ASSUME IndInv, lengthsPc = "rule", summing = given.count
  PROVE  /\ maxLen = LongestLength(given)
         /\ maxLen = 0 \/ \E r \in Ids(given) \ {given.start} : maxLen = Length(given, r)
         /\ \A r \in Ids(given) \ {given.start} : Length(given, r) <= maxLen
<1>1. given \in Inputs /\ LengthsInv /\ given.count \in Nat \ {0} /\ given.start = given.count - 1
  BY GivenFacts DEF IndInv
<1>2. Compared = Ids(given) \ {given.start}
  BY <1>1 DEF Compared, Ids
<1>3. /\ maxLen = 0 \/ \E r \in Compared : maxLen = Length(given, r)
      /\ \A r \in Compared : Length(given, r) <= maxLen
      /\ maxLen \in Nat
  BY <1>1 DEF LengthsInv, LengthsTypeOK, LongestSoFar
<1> DEFINE lengths == {0} \cup {Length(given, r) : r \in Ids(given) \ {given.start}}
<1>4. lengths \subseteq Nat
  BY <1>1, LengthNat
<1>5. maxLen \in lengths /\ \A n \in lengths : n <= maxLen
  BY <1>2, <1>3
<1>6. Max(lengths) = maxLen
  <2> HIDE DEF lengths
  <2> QED BY <1>4, <1>5, MaxIs
<1> QED BY <1>2, <1>3, <1>6 DEF LongestLength

(* A packed field is a number: its width is one a field can have.          *)
LEMMA PackedNat ==
  ASSUME given \in Inputs, maxLen = LongestLength(given), maxLen \in Nat, NEW n \in Nat
  PROVE  Packed(CeilLog2(maxLen), n) \in Nat
<1>1. maxLen <= 2^MaxWidth
  BY GivenFacts
<1>2. CeilLog2(maxLen) \in 0 .. MaxWidth
  BY <1>1, CeilLog2Wide
<1>3. 2^CeilLog2(maxLen) \in Nat \ {0}
  BY <1>2, WidthAssumption
<1> QED BY <1>3 DEF Packed

LEMMA PackInv == IndInv /\ Pack => IndInv'
<1> SUFFICES ASSUME IndInv, Pack PROVE IndInv'
  OBVIOUS
<1>1. /\ given \in Inputs /\ LengthsInv /\ given.count \in Nat \ {0}
      /\ given.start = given.count - 1 /\ given.start \in Ids(given)
  BY GivenFacts DEF IndInv
<1>2. maxLen = LongestLength(given) /\ maxLen' = maxLen /\ given' = given
  BY AllCompared DEF Pack
<1>3. \A r \in Ids(given) : fullLengths[r] = Length(given, r) /\ Length(given, r) \in Nat
  BY <1>1, LengthNat DEF LengthsInv, SummedExactly, Pack, Ids
<1>4. maxLen \in Nat
  BY <1>1 DEF LengthsInv, LengthsTypeOK
<1>5. \A r \in Ids(given) : Packed(CeilLog2(maxLen), fullLengths[r]) \in Nat
  BY <1>1, <1>2, <1>3, <1>4, PackedNat
<1>6. /\ startLength' = Length(given, given.start)
      /\ fullLengths' = [r \in Ids(given) |->
                           IF r = given.start THEN 0
                           ELSE Packed(CeilLog2(maxLen), Length(given, r))]
  BY <1>1, <1>3 DEF Pack
<1>7. LengthsTypeOK'
  <2>1. fullLengths' \in [Ids(given) -> Nat]
    BY <1>3, <1>5, <1>6
  <2>2. startLength' \in Nat
    BY <1>1, <1>3, <1>6
  <2> QED BY <1>1, <1>2, <2>1, <2>2 DEF LengthsInv, LengthsTypeOK, Pack
<1>8. SummedExactly' /\ PrefixSummed' /\ LongestSoFar' /\ NothingFound'
  BY DEF Pack, SummedExactly, PrefixSummed, LongestSoFar, NothingFound
<1>9. LongestFound'
  <2>1. /\ maxLen > 0 /\ maxLen = LongestLength(given)
        /\ \E r \in Ids(given) \ {given.start} : maxLen = Length(given, r)
        /\ \A r \in Ids(given) \ {given.start} : Length(given, r) <= maxLen
    BY AllCompared DEF Pack
  <2> QED BY <1>2, <1>6, <2>1 DEF LongestFound, LongestLength, Length, Ids
<1>10. PackedAsStored'
  <2>1. \A r \in Ids(given) : RuleLength(r)' = StoredLength(given, r)
    BY <1>2, <1>6 DEF RuleLength, StoredLength
  <2>2. \A r : StoredLength(given, r)' = StoredLength(given, r)
    BY <1>2
  <2> QED BY <1>2, <2>1, <2>2 DEF PackedAsStored
<1> QED BY <1>1, <1>2, <1>7, <1>8, <1>9, <1>10 DEF IndInv, LengthsInv

LEMMA PackNothingInv == IndInv /\ PackNothing => IndInv'
<1> SUFFICES ASSUME IndInv, PackNothing PROVE IndInv'
  OBVIOUS
<1> USE DEF PackNothing
<1>1. given \in Inputs /\ LengthsInv /\ given.count \in Nat \ {0}
  BY GivenFacts DEF IndInv
<1>2. LengthsTypeOK'
  BY <1>1 DEF LengthsInv, LengthsTypeOK, Ids
<1>3. SummedExactly' /\ PrefixSummed' /\ LongestSoFar' /\ LongestFound' /\ PackedAsStored'
  BY DEF SummedExactly, PrefixSummed, LongestSoFar, LongestFound, PackedAsStored
<1>4. NothingFound'
  <2>1. \A r \in Ids(given) \ {given.start} : Length(given, r) \in Nat /\ Length(given, r) <= 0
    BY <1>1, AllCompared, LengthNat DEF IndInv
  <2>2. \A r \in Ids(given) \ {given.start} : Length(given, r) = 0
    BY <2>1
  <2> QED BY <2>2 DEF NothingFound, Length, Ids
<1> QED BY <1>1, <1>2, <1>3, <1>4 DEF IndInv, LengthsInv

LEMMA StutterInv == IndInv /\ UNCHANGED lengthVars => IndInv'
<1> SUFFICES ASSUME IndInv, UNCHANGED lengthVars PROVE IndInv'
  OBVIOUS
<1>1. UNCHANGED << given, fullLengths, summing, nextSymbol, maxLen, startLength, lengthsPc >>
  BY DEF lengthVars
<1> QED BY <1>1 DEF IndInv, LengthsInv, LengthsTypeOK, SummedExactly, PrefixSummed, LongestSoFar, LongestFound,
              NothingFound, PackedAsStored, Compared, RuleLength

-----------------------------------------------------------------------------
(* The loop sums up lengths rule by rule; packing keeps their low bits.    *)
THEOREM Invariance == LengthsSpec => []IndInv
<1>1. IndInv /\ [LengthsStep]_lengthVars => IndInv'
  <2> SUFFICES ASSUME IndInv, [LengthsStep]_lengthVars PROVE IndInv'
    OBVIOUS
  <2>1. CASE BeginRule
    BY <2>1, BeginRuleInv
  <2>2. CASE AddSymbol
    BY <2>2, AddSymbolInv
  <2>3. CASE FinishLength
    BY <2>3, FinishRuleInv
  <2>4. CASE Pack
    BY <2>4, PackInv
  <2>5. CASE PackNothing
    BY <2>5, PackNothingInv
  <2>6. CASE UNCHANGED lengthVars
    BY <2>6, StutterInv
  <2> QED BY <2>1, <2>2, <2>3, <2>4, <2>5, <2>6 DEF LengthsStep
<1> QED BY <1>1, InitInv, PTL DEF LengthsSpec

(* All lengths are numbers and the loop indexes stay in range, whatever    *)
(* grammar the renumbering hands over.                                     *)
THEOREM TypeCorrectness == LengthsSpec => []LengthsTypeOK
<1>1. IndInv => LengthsTypeOK
  BY DEF IndInv, LengthsInv
<1> QED BY <1>1, Invariance, PTL

(* Before packing, every length is that of the string the rule derives:    *)
(* no field is read before it is written.                                  *)
THEOREM SumCorrectness == LengthsSpec => []SummedExactly
<1>1. IndInv => SummedExactly
  BY DEF IndInv, LengthsInv
<1> QED BY <1>1, Invariance, PTL

(* After packing, rule_length is what Lengths!StoredLength says: the       *)
(* modules of the queries may read that instead.                           *)
THEOREM PackingCorrectness == LengthsSpec => []PackedAsStored
<1>1. IndInv => PackedAsStored
  BY DEF IndInv, LengthsInv
<1> QED BY <1>1, Invariance, PTL

(* Whatever the packing loses, a rule shorter than the longest one keeps   *)
(* its length: ceil(log2(max_len)) bits hold every smaller number.         *)
THEOREM ShorterRulesCorrectness == LengthsSpec => []ShorterRulesKept
<1>1. IndInv => ShorterRulesKept
  <2> SUFFICES ASSUME IndInv, lengthsPc = "done", NEW r \in Ids(given), Length(given, r) < maxLen
               PROVE  RuleLength(r) = Length(given, r)
    BY DEF ShorterRulesKept
  <2>1. given \in Inputs /\ LengthsInv /\ Length(given, r) \in Nat /\ maxLen \in Nat
    BY LengthNat DEF IndInv, LengthsInv, LengthsTypeOK
  <2>2. /\ RuleLength(r) = StoredLength(given, r)
        /\ maxLen = LongestLength(given) /\ maxLen <= 2^MaxWidth
    BY <2>1, GivenFacts DEF LengthsInv, PackedAsStored, LongestFound
  <2>3. /\ CeilLog2(maxLen) \in 0 .. MaxWidth
        /\ 2^CeilLog2(maxLen) >= maxLen
    BY <2>1, <2>2, CeilLog2Wide
  <2>4. 2^CeilLog2(maxLen) \in Nat \ {0}
    BY <2>3, WidthAssumption
  <2>5. Packed(CeilLog2(maxLen), Length(given, r)) = Length(given, r)
    BY <2>1, <2>3, <2>4 DEF Packed
  <2> QED BY <2>2, <2>5 DEF StoredLength
<1> QED BY <1>1, Invariance, PTL

(* ceil(log2(max_len)) bits hold max_len unless it is a power of two: the  *)
(* longest rule's length is lost exactly then, and it is the only one.     *)
(* There is no such width exactly if no other rule derives a character.    *)
THEOREM LossCorrectness == LengthsSpec => []LossOnlyAtPowersOfTwo
<1>1. IndInv => LossOnlyAtPowersOfTwo
  <2> SUFFICES ASSUME IndInv, lengthsPc = "done"
               PROVE  /\ \E r \in Ids(given) \ {given.start} : Length(given, r) > 0
                      /\ (\A r \in Ids(given) : RuleLength(r) = Length(given, r))
                           <=> ~\E b \in 0 .. MaxWidth : maxLen = 2^b
    BY DEF LossOnlyAtPowersOfTwo, IndInv, LengthsInv, NothingFound
  <2> DEFINE w == CeilLog2(maxLen)
  <2>1. /\ given \in Inputs /\ maxLen \in Nat /\ maxLen > 0
        /\ maxLen = LongestLength(given) /\ maxLen <= 2^MaxWidth
        /\ \A r \in Ids(given) : RuleLength(r) = StoredLength(given, r) /\ Length(given, r) \in Nat
    BY GivenFacts, LengthNat DEF IndInv, LengthsInv, LengthsTypeOK, LongestFound, PackedAsStored
  <2>2. w \in 0 .. MaxWidth /\ 2^w >= maxLen
    BY <2>1, CeilLog2Wide
  <2>3. 2^w \in Nat \ {0} /\ \A b \in 0 .. MaxWidth : 2^b \in Nat
    BY <2>2, WidthAssumption
  <2>4. /\ \E r \in Ids(given) \ {given.start} : Length(given, r) = maxLen
        /\ \A r \in Ids(given) \ {given.start} : Length(given, r) <= maxLen
    BY <2>1 DEF IndInv, LengthsInv, LongestFound
  <2>5. ASSUME NEW b \in 0 .. MaxWidth, maxLen = 2^b PROVE 2^w = maxLen
    <3>1. CASE w < b
      <4>1. w \in 0 .. (b - 1)
        <5> HIDE DEF w
        <5> QED BY <2>2, <3>1, WidthAssumption
      <4>2. 2^w < 2^b
        BY <4>1, WidthAssumption
      <4> HIDE DEF w
      <4> QED BY <2>1, <2>2, <2>3, <2>5, <4>2
    <3>2. CASE b < w
      <4>1. b \in 0 .. (w - 1)
        <5> HIDE DEF w
        <5> QED BY <2>2, <3>2, WidthAssumption
      <4>2. 2^b < maxLen
        BY <2>1, <4>1, CeilLog2Wide
      <4> QED BY <2>1, <2>5, <4>2
    <3>3. CASE w = b
      BY <2>5, <3>3
    <3> HIDE DEF w
    <3> QED BY <2>2, <3>1, <3>2, <3>3, WidthAssumption
  <2>6. ASSUME 2^w = maxLen PROVE \E r \in Ids(given) : RuleLength(r) # Length(given, r)
    <3>1. PICK r \in Ids(given) \ {given.start} : Length(given, r) = maxLen
      BY <2>4
    <3>2. RuleLength(r) = Packed(w, maxLen)
      BY <2>1, <3>1 DEF StoredLength
    <3>3. Packed(w, maxLen) = 0
      <4> HIDE DEF w
      <4> QED BY <2>1, <2>6 DEF Packed
    <3> QED BY <2>1, <3>1, <3>2, <3>3
  <2>7. ASSUME 2^w # maxLen, NEW r \in Ids(given) PROVE RuleLength(r) = Length(given, r)
    <3>1. CASE r = given.start
      BY <2>1, <3>1 DEF StoredLength
    <3>2. CASE r # given.start
      <4>1. Length(given, r) \in Nat /\ Length(given, r) < 2^w
        <5>1. Length(given, r) \in Nat /\ Length(given, r) <= maxLen
          BY <2>1, <2>4, <3>2
        <5> HIDE DEF w
        <5> QED BY <2>1, <2>2, <2>3, <2>7, <5>1
      <4>2. Packed(w, Length(given, r)) = Length(given, r)
        <5> HIDE DEF w
        <5> QED BY <2>3, <4>1 DEF Packed
      <4> QED BY <2>1, <3>2, <4>2 DEF StoredLength
    <3> QED BY <3>1, <3>2
  <2>8. (\E b \in 0 .. MaxWidth : maxLen = 2^b) <=> 2^w = maxLen
    BY <2>2, <2>5
  <2>9. \E r \in Ids(given) \ {given.start} : Length(given, r) > 0
    BY <2>1, <2>4
  <2> HIDE DEF w
  <2> QED BY <2>6, <2>7, <2>8, <2>9
<1> QED BY <1>1, Invariance, PTL
-----------------------------------------------------------------------------

-----------------------------------------------------------------------------
(* Division into blocks *)

LEMMA DivBounds ==
  ASSUME NEW x \in Nat, NEW s \in Nat \ {0}
  PROVE  x \div s \in Nat /\ (x \div s) * s <= x /\ x < (x \div s) * s + s
OBVIOUS

LEMMA ModIs ==
  ASSUME NEW x \in Nat, NEW s \in Nat \ {0}
  PROVE  x % s = x - (x \div s) * s
OBVIOUS

LEMMA MulMono ==
  ASSUME NEW a \in Nat, NEW b \in Nat, NEW s \in Nat \ {0}, a <= b
  PROVE  a * s <= b * s
OBVIOUS

LEMMA MulStrict ==
  ASSUME NEW a \in Nat, NEW b \in Nat, NEW s \in Nat \ {0}, a < b
  PROVE  a * s + s <= b * s
<1>1. (a + 1) * s = a * s + s
  OBVIOUS
<1>2. PICK d \in Nat : b = (a + 1) + d
  <2>1. b - (a + 1) \in Nat /\ b = (a + 1) + (b - (a + 1))
    OBVIOUS
  <2> QED BY <2>1
<1>3. b * s = (a + 1) * s + d * s /\ d * s >= 0
  BY <1>2
<1> QED BY <1>1, <1>3

(* A place lies in the block whose bounds surround it. *)
LEMMA DivUnique ==
  ASSUME NEW x \in Nat, NEW b \in Nat, NEW s \in Nat \ {0}, b * s <= x, x < b * s + s
  PROVE  x \div s = b
<1> DEFINE q == x \div s
<1>1. q \in Nat /\ q * s <= x /\ x < q * s + s
  BY DivBounds
<1> HIDE DEF q
<1>2. CASE q < b
  BY <1>1, <1>2, MulStrict
<1>3. CASE b < q
  BY <1>1, <1>3, MulStrict
<1> QED BY <1>1, <1>2, <1>3 DEF q

-----------------------------------------------------------------------------
(* Where symbols begin *)

LEMMA AnnotatedGiven ==
  ASSUME given \in Inputs
  PROVE  IsAnnotated(given) /\ HasNoEmptyRule(given)
BY InputsAssumption, RulesAssumption DEF IsAnnotated, HasNoEmptyRule

LEMMA SpanNat ==
  ASSUME given \in Inputs, NEW r \in Ids(given), NEW k \in 0 .. (Size(given.rules[r]) - 1)
  PROVE  SymbolSpan(given, r, k) \in Nat
BY SpanIsNat, AnnotatedGiven

(* The offsets of a rule are numbers, and a symbol ends where the next one *)
(* begins.                                                                 *)
LEMMA OffsetFacts ==
  ASSUME given \in Inputs, NEW r \in Ids(given)
  PROVE  /\ Size(given.rules[r]) \in Nat
         /\ given.off[r][0] = 0
         /\ Length(given, r) = given.off[r][Size(given.rules[r])]
         /\ \A k \in 0 .. Size(given.rules[r]) : given.off[r][k] \in Nat
         /\ \A k \in 0 .. (Size(given.rules[r]) - 1) :
              given.off[r][k + 1] = given.off[r][k] + SymbolSpan(given, r, k)
BY OffsetsOf, AnnotatedGiven

(* Offsets rise. *)
LEMMA OffsetsRise ==
  ASSUME given \in Inputs, NEW r \in Ids(given),
         NEW i \in 0 .. Size(given.rules[r]), NEW j \in 0 .. Size(given.rules[r]), i <= j
  PROVE  given.off[r][i] <= given.off[r][j]
BY OffsetsAscend, AnnotatedGiven

(* No rule derives the empty string: none has an empty body.               *)
LEMMA LengthPositive ==
  ASSUME given \in Inputs, NEW r \in Ids(given)
  PROVE  Length(given, r) \in Nat \ {0}
BY LengthIsPositive, AnnotatedGiven

(* Every symbol spans a character at least, so offsets rise strictly.      *)
LEMMA SpanPositive ==
  ASSUME given \in Inputs, NEW r \in Ids(given), NEW k \in 0 .. (Size(given.rules[r]) - 1)
  PROVE  SymbolSpan(given, r, k) \in Nat \ {0}
BY SpanIsPositive, AnnotatedGiven

LEMMA SymbolPlace ==
  ASSUME given \in Inputs, NEW r \in Ids(given), NEW k \in 0 .. (Size(given.rules[r]) - 1)
  PROVE  /\ given.off[r][k] \in Nat /\ given.off[r][k + 1] \in Nat /\ k + 1 \in 0 .. Size(given.rules[r])
         /\ given.off[r][k + 1] = given.off[r][k] + SymbolSpan(given, r, k)
         /\ given.off[r][k] < given.off[r][k + 1]
         /\ given.off[r][k + 1] <= Length(given, r)
BY SymbolLies, AnnotatedGiven

-----------------------------------------------------------------------------
(* The text and its blocks *)

LEMMA SourceFacts ==
  ASSUME given \in Inputs, LengthsComputed
  PROVE  /\ Sampling \in Nat \ {0}
         /\ given.start \in Ids(given)
         /\ SourceLength = Length(given, given.start)
         /\ SourceLength \in Nat \ {0}
         /\ \A r \in Ids(given) : RuleLength(r) = Length(given, r)
<1>1. given.start \in Ids(given)
  BY GivenFacts
<1>2. SourceLength = Length(given, given.start)
  BY <1>1 DEF LengthsComputed, SourceLength
<1>3. Length(given, given.start) \in Nat \ {0}
  BY <1>1, LengthPositive
<1> QED BY <1>1, <1>2, <1>3, SamplingAssumption DEF LengthsComputed

(* The blocks are those that begin in the text. *)
LEMMA BlocksAre ==
  ASSUME given \in Inputs, LengthsComputed, NEW b \in Nat
  PROVE  b \in Blocks <=> BlockStart(b) < SourceLength
<1> DEFINE n == SourceLength
           q == (n + Sampling - 1) \div Sampling
<1>1. n \in Nat \ {0} /\ Sampling \in Nat \ {0} /\ n + Sampling - 1 \in Nat
  BY SourceFacts
<1>2. q \in Nat /\ q * Sampling <= n + Sampling - 1 /\ n + Sampling - 1 < q * Sampling + Sampling
  <2> HIDE DEF n
  <2> QED BY <1>1, DivBounds
<1>3. b \in Blocks <=> b < q
  <2>1. Blocks = 0 .. (q - 1)
    BY DEF Blocks, BlockCount
  <2> HIDE DEF q
  <2> QED BY <1>2, <2>1
<1>4. b * Sampling \in Nat /\ q * Sampling \in Nat
  <2> HIDE DEF q
  <2> QED BY <1>1, <1>2
<1> HIDE DEF n, q
<1>5. CASE b < q
  <2>1. b * Sampling + Sampling <= q * Sampling
    BY <1>1, <1>2, <1>5, MulStrict
  <2>2. b * Sampling < n
    BY <1>1, <1>2, <1>4, <2>1
  <2> QED BY <1>3, <1>5, <2>2 DEF BlockStart, n
<1>6. CASE q <= b
  <2>1. q * Sampling <= b * Sampling
    BY <1>1, <1>2, <1>6, MulMono
  <2>2. ~(b * Sampling < n)
    BY <1>1, <1>2, <1>4, <2>1
  <2>3. ~(b < q)
    BY <1>2, <1>6
  <2> QED BY <1>3, <2>2, <2>3 DEF BlockStart, n
<1> QED BY <1>2, <1>5, <1>6

(* Where a block begins and ends. *)
LEMMA BlockBounds ==
  ASSUME given \in Inputs, LengthsComputed, NEW b \in Blocks
  PROVE  /\ b \in Nat
         /\ BlockStart(b) \in Nat /\ BlockStart(b) = b * Sampling
         /\ BlockEnd(b) \in Nat
         /\ BlockEnd(b) = IF BlockStart(b) + Sampling <= SourceLength
                          THEN BlockStart(b) + Sampling ELSE SourceLength
         /\ BlockStart(b) < SourceLength
         /\ BlockStart(b) < BlockEnd(b)
<1>1. SourceLength \in Nat \ {0} /\ Sampling \in Nat \ {0}
  BY SourceFacts
<1>2. b \in Nat
  BY DEF Blocks
<1>3. BlockStart(b) < SourceLength
  BY <1>2, BlocksAre
<1>4. b * Sampling \in Nat /\ (b + 1) * Sampling = b * Sampling + Sampling
  BY <1>1, <1>2
<1>5. BlockEnd(b) = IF (b + 1) * Sampling <= SourceLength THEN (b + 1) * Sampling ELSE SourceLength
  <2>1. (b + 1) * Sampling \in Nat
    BY <1>1, <1>4
  <2> QED BY <1>1, <2>1, MinOfTwo DEF BlockEnd
<1> QED BY <1>1, <1>2, <1>3, <1>4, <1>5 DEF BlockStart

(* The block a place of the text lies in, and the only one it lies in.     *)
LEMMA PlaceInBlock ==
  ASSUME given \in Inputs, LengthsComputed, NEW p \in Nat, p < SourceLength
  PROVE  /\ p \div Sampling \in Blocks
         /\ BlockStart(p \div Sampling) <= p
         /\ p < BlockEnd(p \div Sampling)
         /\ p = BlockStart(p \div Sampling) + (p % Sampling)
         /\ p % Sampling \in Nat
         /\ \A b \in Blocks : BlockStart(b) <= p /\ p < BlockEnd(b) => b = p \div Sampling
<1> DEFINE q == p \div Sampling
<1>1. SourceLength \in Nat \ {0} /\ Sampling \in Nat \ {0}
  BY SourceFacts
<1>2. q \in Nat /\ q * Sampling <= p /\ p < q * Sampling + Sampling
  BY <1>1, DivBounds
<1>3. p % Sampling = p - q * Sampling
  BY <1>1, ModIs
<1>4. ASSUME NEW b \in Blocks, BlockStart(b) <= p, p < BlockEnd(b) PROVE b = q
  <2>1. b \in Nat /\ b * Sampling <= p /\ p < b * Sampling + Sampling
    BY <1>1, <1>4, BlockBounds
  <2> QED BY <1>1, <2>1, DivUnique
<1> HIDE DEF q
<1>5. q * Sampling \in Nat
  BY <1>1, <1>2
<1>6. q \in Blocks
  <2>1. BlockStart(q) < SourceLength
    BY <1>1, <1>2, <1>5 DEF BlockStart
  <2> QED BY <1>2, <2>1, BlocksAre
<1>7. BlockStart(q) <= p /\ p < BlockEnd(q) /\ p = BlockStart(q) + (p % Sampling) /\ p % Sampling \in Nat
  BY <1>1, <1>2, <1>3, <1>5, <1>6, BlockBounds
<1> QED BY <1>4, <1>6, <1>7 DEF q

(* The string of a child stands where the symbol begins. *)
LEMMA StandsChild ==
  ASSUME given \in Inputs, LengthsComputed, NEW r \in Ids(given), NEW p, Stands(p, r),
         NEW k \in 0 .. (Size(given.rules[r]) - 1), IsNonTerminal(At(given.rules[r], k))
  PROVE  Stands(p + given.off[r][k], RuleId(At(given.rules[r], k)))
<1> DEFINE c == RuleId(At(given.rules[r], k))
           off == given.off[r][k]
<1>1. /\ p \in Nat /\ p + Length(given, r) <= SourceLength
      /\ \A j \in 0 .. (Length(given, r) - 1) : given.text[given.start][p + j] = given.text[r][j]
  BY LengthNat, SourceFacts DEF Stands
<1>2. /\ off \in Nat
      /\ given.off[r][k + 1] = off + Length(given, c)
      /\ off + Length(given, c) <= Length(given, r)
  BY SymbolPlace DEF SymbolSpan, IsNonTerminal
<1>3. Length(given, c) \in Nat /\ Length(given, r) \in Nat /\ SourceLength \in Nat
  BY SymbolBelow, LengthNat, SourceFacts
<1>4. \A j \in 0 .. (Length(given, c) - 1) : given.text[r][off + j] = given.text[c][j]
  BY GivenFacts, Zenon DEF IsDerivation, SymbolSpan, IsNonTerminal
<1>5. p + off \in 0 .. (SourceLength - Length(given, c))
  BY <1>1, <1>2, <1>3
<1>6. ASSUME NEW j \in 0 .. (Length(given, c) - 1)
      PROVE  given.text[given.start][(p + off) + j] = given.text[c][j]
  <2>1. off + j \in 0 .. (Length(given, r) - 1) /\ p + (off + j) = (p + off) + j
    BY <1>1, <1>2, <1>3
  <2> QED BY <1>1, <1>4, <2>1
<1> QED BY <1>5, <1>6 DEF Stands

(* The blocks calculate_samples writes for a node are those its string     *)
(* surrounds, and no others if the text ends inside a block.               *)
LEMMA CoveredIs ==
  ASSUME given \in Inputs, LengthsComputed, NEW node \in [start : Nat, rule : Ids(given)],
         Stands(node.start, node.rule)
  PROVE  /\ \A b \in Blocks : b \in Covered(node) <=> Surrounds(node, b)
         /\ ~(Covered(node) \subseteq Blocks) => SourceLength % Sampling = 0
<1> DEFINE n == SourceLength
           start == node.start
           end == start + Length(given, node.rule)
           first == (start + Sampling - 1) \div Sampling
           last == end \div Sampling
<1>1. n \in Nat \ {0} /\ Sampling \in Nat \ {0} /\ RuleLength(node.rule) = Length(given, node.rule)
  BY SourceFacts
<1>2. start \in Nat /\ end \in Nat /\ end <= n
  BY <1>1, LengthNat DEF Stands
<1>3. first \in Nat /\ first * Sampling <= start + Sampling - 1 /\ start + Sampling - 1 < first * Sampling + Sampling
  <2>1. start + Sampling - 1 \in Nat
    BY <1>1, <1>2
  <2> QED BY <1>1, <2>1, DivBounds
<1>4. last \in Nat /\ last * Sampling <= end /\ end < last * Sampling + Sampling
  BY <1>1, <1>2, DivBounds
<1>5. Covered(node) = first .. (last + (IF end = n THEN 1 ELSE 0) - 1)
  BY <1>1 DEF Covered
<1> HIDE DEF n, start, end, first, last
<1>6. \A b : b \in Covered(node) <=> b \in Nat /\ first <= b /\ (b < last \/ (b = last /\ end = n))
  <2>1. CASE end = n
    BY <1>3, <1>4, <1>5, <2>1
  <2>2. CASE end # n
    BY <1>3, <1>4, <1>5, <2>2
  <2> QED BY <2>1, <2>2
<1>7. ASSUME NEW b \in Blocks PROVE b \in Covered(node) <=> Surrounds(node, b)
  <2>1. /\ b \in Nat /\ BlockStart(b) = b * Sampling /\ b * Sampling \in Nat
        /\ BlockEnd(b) = IF b * Sampling + Sampling <= n THEN b * Sampling + Sampling ELSE n
        /\ b * Sampling < n
    BY BlockBounds DEF n
  <2>2. first <= b <=> start <= b * Sampling
    <3>1. CASE first <= b
      <4>1. first * Sampling <= b * Sampling /\ first * Sampling \in Nat
        BY <1>1, <1>3, <2>1, <3>1, MulMono
      <4> QED BY <1>1, <1>2, <1>3, <2>1, <3>1, <4>1
    <3>2. CASE b < first
      <4>1. b * Sampling + Sampling <= first * Sampling /\ first * Sampling \in Nat
        BY <1>1, <1>3, <2>1, <3>2, MulStrict
      <4> QED BY <1>1, <1>2, <1>3, <2>1, <3>2, <4>1
    <3> QED BY <1>3, <2>1, <3>1, <3>2
  <2>3. (b < last \/ (b = last /\ end = n)) <=> end >= BlockEnd(b)
    <3>1. last * Sampling \in Nat
      BY <1>1, <1>4
    <3>2. CASE b < last
      <4>1. b * Sampling + Sampling <= last * Sampling
        BY <1>1, <1>4, <2>1, <3>2, MulStrict
      <4>2. end >= BlockEnd(b)
        BY <1>1, <1>2, <1>4, <2>1, <3>1, <4>1
      <4> QED BY <3>2, <4>2
    <3>3. CASE b = last
      <4>1. end < b * Sampling + Sampling
        BY <1>4, <3>3
      <4>2. end >= BlockEnd(b) <=> end = n
        BY <1>1, <1>2, <2>1, <4>1
      <4> QED BY <1>4, <3>3, <4>2
    <3>4. CASE last < b
      <4>1. last * Sampling + Sampling <= b * Sampling
        BY <1>1, <1>4, <2>1, <3>4, MulStrict
      <4>2. end < b * Sampling
        BY <1>1, <1>2, <1>4, <2>1, <3>1, <4>1
      <4>3. ~(end >= BlockEnd(b))
        BY <1>1, <1>2, <2>1, <4>2
      <4> QED BY <1>4, <2>1, <3>4, <4>3
    <3> QED BY <1>4, <2>1, <3>2, <3>3, <3>4
  <2>4. Surrounds(node, b) <=> start <= b * Sampling /\ end >= BlockEnd(b)
    BY <2>1 DEF Surrounds, start, end
  <2> QED BY <1>6, <2>1, <2>2, <2>3, <2>4
<1>8. ASSUME NEW b \in Covered(node), b \notin Blocks PROVE n % Sampling = 0
  <2>1. b \in Nat /\ b * Sampling \in Nat
    BY <1>1, <1>6
  <2>2. n <= b * Sampling
    BY <1>1, <1>8, <2>1, BlocksAre DEF n, BlockStart
  <2>3. CASE b < last
    <3>1. b * Sampling + Sampling <= last * Sampling /\ last * Sampling \in Nat
      BY <1>1, <1>4, <2>1, <2>3, MulStrict
    <3> QED BY <1>1, <1>2, <1>4, <2>1, <2>2, <3>1
  <2>4. CASE b = last /\ end = n
    <3>1. n = b * Sampling + 0
      BY <1>1, <1>2, <1>4, <2>1, <2>2, <2>4
    <3>2. n \div Sampling = b
      BY <1>1, <2>1, <3>1, DivUnique
    <3>3. n % Sampling = n - b * Sampling
      BY <1>1, <3>2, ModIs
    <3> QED BY <1>1, <2>1, <3>1, <3>3
  <2> QED BY <1>6, <2>3, <2>4
<1> QED BY <1>7, <1>8 DEF n

-----------------------------------------------------------------------------
(***************************************************************************)
(* From one state to the next.  After the lengths are computed only the    *)
(* samples, the queue and the cursor change, so what is said of the next   *)
(* state is what this state's operators say of the primed variables.       *)
(***************************************************************************)
LEMMA Fixed ==
  ASSUME UNCHANGED lengthVars
  PROVE  /\ given' = given
         /\ LengthsComputed' <=> LengthsComputed
         /\ SourceLength' = SourceLength
         /\ Blocks' = Blocks
         /\ \A b : BlockStart(b)' = BlockStart(b) /\ BlockEnd(b)' = BlockEnd(b)
<1>1. UNCHANGED << given, fullLengths, startLength, lengthsPc >>
  BY DEF lengthVars
<1>2. SourceLength' = SourceLength
  BY <1>1 DEF SourceLength, RuleLength
<1>3. LengthsComputed' <=> LengthsComputed
  BY <1>1 DEF LengthsComputed, RuleLength
<1>4. Blocks' = Blocks
  BY <1>2 DEF Blocks, BlockCount
<1>5. \A b : BlockStart(b)' = BlockStart(b) /\ BlockEnd(b)' = BlockEnd(b)
  BY <1>2 DEF BlockStart, BlockEnd
<1> QED BY <1>1, <1>2, <1>3, <1>4, <1>5

LEMMA WalkNext ==
  ASSUME UNCHANGED lengthVars,
         \A k \in 1 .. Len(queue') : Stands(queue'[k].start, queue'[k].rule),
         pc' = "scan" =>
           /\ cursor'.index \in 0 .. Size(given.rules[cursor'.rule])
           /\ Stands(cursor'.pos - given.off[cursor'.rule][cursor'.index], cursor'.rule)
  PROVE  WalkFollowsText'
<1>1. given' = given /\ SourceLength' = SourceLength
  BY Fixed
<1>2. \A q, r : Stands(q, r)' <=> Stands(q, r)
  BY <1>1 DEF Stands
<1>3. ASSUME NEW k \in 1 .. Len(queue') PROVE Stands(queue[k].start, queue[k].rule)'
  <2>1. Stands(queue'[k].start, queue'[k].rule)
    OBVIOUS
  <2> QED BY <1>1, <2>1 DEF Stands
<1>4. pc' = "scan" => (/\ cursor.index \in 0 .. Size(given.rules[cursor.rule])
                       /\ Stands(cursor.pos - given.off[cursor.rule][cursor.index], cursor.rule))'
  BY <1>1 DEF Stands
<1> QED BY <1>3, <1>4 DEF WalkFollowsText

LEMMA WaitsNext ==
  ASSUME UNCHANGED lengthVars, NEW b, NEW k \in 1 .. Len(queue'), Surrounds(queue'[k], b)
  PROVE  Waits(b)'
BY Fixed DEF Waits, Surrounds

LEMMA SettledNext ==
  ASSUME UNCHANGED lengthVars, NEW b, samples'[b] = samples[b], dirty'[b] = dirty[b], Settled(b)
  PROVE  Settled(b)'
<1> DEFINE s == samples[b]
<1>1. given' = given /\ SourceLength' = SourceLength /\ BlockStart(b)' = BlockStart(b) /\ BlockEnd(b)' = BlockEnd(b)
  BY Fixed
<1>2. SampledStart(b)' = SampledStart(b)
  BY <1>1 DEF SampledStart
<1>3. SampleSound(b)'
  BY <1>1, <1>2 DEF Settled, SampleSound, Stands
<1>4. SampleDeepest(b)'
  BY <1>1, <1>2 DEF Settled, SampleDeepest
<1> QED BY <1>3, <1>4 DEF Settled

LEMMA ComingNext ==
  ASSUME UNCHANGED lengthVars, NEW b, pc' = "scan", dirty'[b], samples'[b].rule = cursor'.rule,
         Surrounds(Node(cursor'.pos - given.off[cursor'.rule][cursor'.index], cursor'.rule), b),
         cursor'.pos < BlockEnd(b),
         \A k \in 0 .. (cursor'.index - 1) :
           cursor'.pos - given.off[cursor'.rule][cursor'.index] + given.off[cursor'.rule][k] < BlockStart(b)
  PROVE  Coming(b)'
BY Fixed DEF Coming, Scanned, Surrounds, Node

-----------------------------------------------------------------------------
(* The inductive invariant *)

WalkInv == given \in Inputs /\ BuildInv

LEMMA InitWalkInv == BuildInit => WalkInv
<1> SUFFICES ASSUME BuildInit PROVE WalkInv
  OBVIOUS
<1>1. given \in Inputs /\ queue = << >> /\ spilled = FALSE /\ pc = "lengths"
  BY DEF BuildInit, LengthsInit
<1>2. WalkTypeOK /\ WalkFollowsText /\ SpillOnlyAtBoundary
  BY <1>1 DEF WalkTypeOK, WalkFollowsText, SpillOnlyAtBoundary
<1>3. NoBlockForgotten
  BY <1>1 DEF NoBlockForgotten, Building
<1> QED BY <1>1, <1>2, <1>3 DEF WalkInv, BuildInv

LEMMA CalculateLengthsInv == WalkInv /\ CalculateLengths => WalkInv'
<1> SUFFICES ASSUME WalkInv, CalculateLengths PROVE WalkInv'
  OBVIOUS
<1>1. given' = given
  BY DEF CalculateLengths, LengthsStep, BeginRule, AddSymbol, FinishLength, Pack, PackNothing
<1>2. pc = "lengths" /\ pc' = pc /\ queue' = queue /\ spilled' = spilled
  BY DEF CalculateLengths, samplesVars
<1>3. queue = << >> /\ ~spilled
  BY <1>2 DEF WalkInv, BuildInv, WalkTypeOK
<1>4. WalkTypeOK' /\ WalkFollowsText' /\ SpillOnlyAtBoundary'
  BY <1>2, <1>3 DEF WalkTypeOK, WalkFollowsText, SpillOnlyAtBoundary
<1>5. NoBlockForgotten'
  BY <1>2 DEF NoBlockForgotten, Building
<1> QED BY <1>1, <1>4, <1>5 DEF WalkInv, BuildInv

(* The root of the parse tree surrounds every block. *)
LEMMA BeginSamplesInv == WalkInv /\ BeginSamples => WalkInv'
<1> SUFFICES ASSUME WalkInv, BeginSamples PROVE WalkInv'
  OBVIOUS
<1> DEFINE root == Node(0, given.start)
<1>1. /\ given \in Inputs /\ LengthsComputed /\ UNCHANGED lengthVars
      /\ queue' = << root >> /\ pc' = "next" /\ ~spilled'
      /\ samples' = [b \in Blocks |-> [rule |-> 0, index |-> Unset, rel |-> Unset]]
      /\ dirty' = [b \in Blocks |-> FALSE]
  BY DEF BeginSamples, WalkInv, BuildInv, WalkTypeOK
<1>2. given' = given /\ (LengthsComputed' <=> LengthsComputed) /\ Blocks' = Blocks
  BY <1>1, Fixed
<1>3. /\ given.start \in Ids(given)
      /\ SourceLength = Length(given, given.start)
      /\ SourceLength \in Nat
  BY <1>1, SourceFacts
<1>4. root.start = 0 /\ root.rule = given.start /\ root \in [start : Nat, rule : Ids(given)]
  BY <1>3 DEF Node
<1>5. Stands(root.start, root.rule)
  BY <1>3, <1>4 DEF Stands
<1>6. WalkTypeOK'
  <2>1. queue' \in Seq([start : Nat, rule : Ids(given)])
    BY <1>1, <1>4
  <2>2. samples' \in [Blocks -> [rule : Nat, index : Int, rel : Int]]
    BY <1>1 DEF Unset
  <2>3. dirty' \in [Blocks -> BOOLEAN]
    BY <1>1
  <2> QED BY <1>1, <1>2, <2>1, <2>2, <2>3 DEF WalkTypeOK
<1>7. WalkFollowsText'
  <2>1. \A k \in 1 .. Len(queue') : queue'[k] = root
    BY <1>1
  <2> QED BY <1>1, <1>5, <2>1, WalkNext
<1>8. NoBlockForgotten'
  <2>1. ASSUME NEW b \in Blocks PROVE Waits(b)'
    <3>1. 1 \in 1 .. Len(queue') /\ queue'[1] = root
      BY <1>1
    <3>2. Surrounds(root, b)
      <4>1. /\ BlockStart(b) \in Nat /\ BlockEnd(b) \in Nat /\ BlockEnd(b) <= SourceLength
        BY <1>1, <1>3, SourceFacts, BlockBounds
      <4> QED BY <1>3, <1>4, <4>1 DEF Surrounds
    <3> QED BY <1>1, <3>1, <3>2, WaitsNext
  <2> QED BY <1>1, <1>2, <2>1 DEF NoBlockForgotten, Building
<1>9. SpillOnlyAtBoundary'
  BY <1>1 DEF SpillOnlyAtBoundary
<1> QED BY <1>1, <1>2, <1>6, <1>7, <1>8, <1>9 DEF WalkInv, BuildInv

(***************************************************************************)
(* A node taken off the queue writes the blocks it surrounds; each of them *)
(* is then waiting for the first symbol to begin in it.  A block that was  *)
(* waiting for another node goes on waiting.                               *)
(***************************************************************************)
LEMMA TakeNodeInv ==
  ASSUME WalkInv, pc = "next", queue # << >>,
         CoverBlocks(Head(queue)),
         queue' = Tail(queue),
         cursor' = Cursor(Head(queue).rule, 0, Head(queue).start),
         UNCHANGED lengthVars,
         pc' \in {"scan", "corrupt"},
         spilled' => spilled \/ ~(Covered(Head(queue)) \subseteq Blocks)
  PROVE  WalkInv'
<1> DEFINE node == Head(queue)
<1>1. /\ given \in Inputs /\ LengthsComputed
      /\ samples \in [Blocks -> [rule : Nat, index : Int, rel : Int]]
      /\ dirty \in [Blocks -> BOOLEAN]
      /\ queue \in Seq([start : Nat, rule : Ids(given)])
      /\ \A k \in 1 .. Len(queue) : Stands(queue[k].start, queue[k].rule)
  BY DEF WalkInv, BuildInv, WalkTypeOK, WalkFollowsText
<1>2. given' = given /\ (LengthsComputed' <=> LengthsComputed) /\ Blocks' = Blocks /\ SourceLength' = SourceLength
  BY Fixed
<1>3. /\ node = queue[1] /\ 1 \in 1 .. Len(queue)
      /\ Len(queue') = Len(queue) - 1 /\ Len(queue) \in Nat
      /\ \A k \in 1 .. Len(queue') : k + 1 \in 1 .. Len(queue) /\ queue'[k] = queue[k + 1]
  BY <1>1
<1>4. node \in [start : Nat, rule : Ids(given)] /\ Stands(node.start, node.rule)
  <2> HIDE DEF node
  <2>1. queue[1] \in [start : Nat, rule : Ids(given)]
    <3> DEFINE nodes == [start : Nat, rule : Ids(given)]
    <3>1. queue \in Seq(nodes) /\ 1 \in 1 .. Len(queue)
      BY <1>1, <1>3
    <3> HIDE DEF nodes
    <3>2. queue[1] \in nodes
      BY <3>1
    <3> QED BY <3>2 DEF nodes
  <2>2. Stands(queue[1].start, queue[1].rule)
    BY <1>1, <1>3
  <2> QED BY <1>3, <2>1, <2>2
<1>5. /\ cursor' = Cursor(node.rule, 0, node.start)
      /\ samples' = [b \in Blocks |->
                       IF b \in Covered(node) THEN [samples[b] EXCEPT !.rule = node.rule]
                       ELSE samples[b]]
      /\ dirty' = [b \in Blocks |-> b \in Covered(node) \/ dirty[b]]
  BY DEF CoverBlocks
<1>6. /\ \A b \in Blocks : b \in Covered(node) <=> Surrounds(node, b)
      /\ ~(Covered(node) \subseteq Blocks) => SourceLength % Sampling = 0
  BY <1>1, <1>4, CoveredIs
<1>7. spilled' => spilled \/ ~(Covered(node) \subseteq Blocks)
  OBVIOUS
<1>8. node.rule \in Nat /\ node.rule \in Ids(given) /\ node.start \in Nat
  BY <1>4 DEF Ids
<1> HIDE DEF node
<1>9. /\ cursor'.rule = node.rule /\ cursor'.index = 0 /\ cursor'.pos = node.start
      /\ cursor' \in [rule : Ids(given), index : Nat, pos : Nat]
  BY <1>5, <1>8 DEF Cursor
<1>10. given.off[node.rule][0] = 0 /\ Size(given.rules[node.rule]) \in Nat
  BY <1>1, <1>8, OffsetFacts
<1>11. cursor'.pos - given.off[cursor'.rule][cursor'.index] = node.start
  BY <1>8, <1>9, <1>10
<1>12. WalkTypeOK'
  <2>1. queue' \in Seq([start : Nat, rule : Ids(given)])
    BY <1>1
  <2>2. samples' \in [Blocks -> [rule : Nat, index : Int, rel : Int]]
    BY <1>1, <1>5, <1>8
  <2>3. dirty' \in [Blocks -> BOOLEAN]
    BY <1>1, <1>5
  <2> QED BY <1>1, <1>2, <1>9, <2>1, <2>2, <2>3 DEF WalkTypeOK
<1>13. WalkFollowsText'
  <2>1. \A k \in 1 .. Len(queue') : Stands(queue'[k].start, queue'[k].rule)
    BY <1>1, <1>3
  <2>2. cursor'.index \in 0 .. Size(given.rules[cursor'.rule])
    BY <1>9, <1>10
  <2>3. Stands(cursor'.pos - given.off[cursor'.rule][cursor'.index], cursor'.rule)
    BY <1>4, <1>9, <1>11
  <2> QED BY <2>1, <2>2, <2>3, WalkNext
<1>14. NoBlockForgotten'
  <2>1. ASSUME NEW b \in Blocks, pc' = "scan" PROVE Waits(b)' \/ Coming(b)' \/ Settled(b)'
    <3>1. CASE Surrounds(node, b)
      <4>1. dirty'[b] /\ samples'[b].rule = cursor'.rule
        BY <1>1, <1>5, <1>6, <1>9, <3>1
      <4>2. Surrounds(Node(cursor'.pos - given.off[cursor'.rule][cursor'.index], cursor'.rule), b)
        BY <1>9, <1>11, <3>1 DEF Surrounds, Node
      <4>3. cursor'.pos < BlockEnd(b)
        <5>1. node.start <= BlockStart(b)
          BY <3>1 DEF Surrounds
        <5> QED BY <1>1, <1>8, <1>9, <5>1, BlockBounds
      <4>4. 0 .. (cursor'.index - 1) = {}
        BY <1>9
      <4> QED BY <2>1, <4>1, <4>2, <4>3, <4>4, ComingNext
    <3>2. CASE ~Surrounds(node, b) /\ Waits(b)
      <4>1. PICK k \in 1 .. Len(queue) : Surrounds(queue[k], b)
        BY <3>2 DEF Waits
      <4>2. k # 1
        BY <1>3, <3>2, <4>1
      <4>3. k - 1 \in 1 .. Len(queue') /\ queue'[k - 1] = queue[k]
        BY <1>3, <4>2
      <4> QED BY <4>1, <4>3, WaitsNext
    <3>3. CASE ~Surrounds(node, b) /\ Settled(b)
      <4>1. samples'[b] = samples[b] /\ dirty'[b] = dirty[b]
        BY <1>1, <1>5, <1>6, <3>3
      <4> QED BY <3>3, <4>1, SettledNext
    <3>4. Waits(b) \/ Settled(b)
      BY DEF WalkInv, BuildInv, NoBlockForgotten, Coming
    <3> QED BY <3>1, <3>2, <3>3, <3>4
  <2> QED BY <1>2, <2>1 DEF NoBlockForgotten, Building
<1>15. SpillOnlyAtBoundary'
  BY <1>2, <1>6, <1>7 DEF WalkInv, BuildInv, SpillOnlyAtBoundary
<1> QED BY <1>1, <1>2, <1>12, <1>13, <1>14, <1>15 DEF WalkInv, BuildInv

-----------------------------------------------------------------------------
(* The symbol at hand lies in the text where the scan says it does. *)
LEMMA ScanFacts ==
  ASSUME WalkInv, pc = "scan", cursor.index < Size(given.rules[cursor.rule])
  PROVE  /\ given \in Inputs /\ LengthsComputed
         /\ cursor \in [rule : Ids(given), index : Nat, pos : Nat]
         /\ cursor.rule \in Ids(given) /\ cursor.rule \in Nat
         /\ cursor.index \in 0 .. (Size(given.rules[cursor.rule]) - 1) /\ cursor.index \in Nat
         /\ cursor.pos \in Nat
         /\ Scanned.rule = cursor.rule /\ Scanned.start \in Nat
         /\ Scanned.start = cursor.pos - given.off[cursor.rule][cursor.index]
         /\ cursor.pos = Scanned.start + given.off[cursor.rule][cursor.index]
         /\ Stands(Scanned.start, cursor.rule)
         /\ SymbolSpan(given, cursor.rule, cursor.index) \in Nat \ {0}
         /\ cursor.pos + SymbolSpan(given, cursor.rule, cursor.index)
              = Scanned.start + given.off[cursor.rule][cursor.index + 1]
         /\ cursor.pos + SymbolSpan(given, cursor.rule, cursor.index) <= SourceLength
         /\ SourceLength \in Nat /\ Sampling \in Nat \ {0}
<1> DEFINE r == cursor.rule
           i == cursor.index
           p == cursor.pos
<1>1. /\ given \in Inputs /\ LengthsComputed
      /\ cursor \in [rule : Ids(given), index : Nat, pos : Nat]
      /\ i \in 0 .. Size(given.rules[r])
      /\ Stands(p - given.off[r][i], r)
  BY DEF WalkInv, BuildInv, WalkTypeOK, WalkFollowsText
<1>2. r \in Ids(given) /\ r \in Nat /\ i \in Nat /\ p \in Nat
  BY <1>1 DEF Ids
<1>3. Scanned.rule = r /\ Scanned.start = p - given.off[r][i]
  BY DEF Scanned, Node
<1>4. Size(given.rules[r]) \in Nat
  BY <1>1, <1>2, OffsetFacts
<1>5. i \in 0 .. (Size(given.rules[r]) - 1)
  BY <1>2, <1>4
<1>6. /\ given.off[r][i] \in Nat /\ given.off[r][i + 1] \in Nat
      /\ given.off[r][i + 1] = given.off[r][i] + SymbolSpan(given, r, i)
      /\ given.off[r][i + 1] <= Length(given, r)
      /\ SymbolSpan(given, r, i) \in Nat \ {0}
  BY <1>1, <1>2, <1>5, SymbolPlace, SpanPositive
<1>7. SourceLength \in Nat /\ Sampling \in Nat \ {0} /\ Length(given, r) \in Nat
  BY <1>1, <1>2, SourceFacts, LengthNat
<1>8. Stands(Scanned.start, r) /\ Scanned.start \in 0 .. (SourceLength - Length(given, r))
  BY <1>1, <1>3 DEF Stands
<1>9. /\ Scanned.start \in Nat /\ p = Scanned.start + given.off[r][i]
      /\ Scanned.start + Length(given, r) <= SourceLength
  BY <1>2, <1>3, <1>6, <1>7, <1>8
<1>10. /\ p + SymbolSpan(given, r, i) = Scanned.start + given.off[r][i + 1]
       /\ p + SymbolSpan(given, r, i) <= SourceLength
  BY <1>2, <1>6, <1>7, <1>9
<1> QED BY <1>1, <1>2, <1>3, <1>5, <1>6, <1>7, <1>8, <1>9, <1>10

(***************************************************************************)
(* The first symbol to begin in a block becomes its sample.  The sample is *)
(* the deepest one unless the symbol is a nonterminal that surrounds the   *)
(* block.                                                                  *)
(***************************************************************************)
LEMMA SampledNow ==
  ASSUME WalkInv, pc = "scan", cursor.index < Size(given.rules[cursor.rule]),
         SampleSymbol(cursor.pos \div Sampling), UNCHANGED lengthVars,
         NEW b \in Blocks, Coming(b), BlockStart(b) <= cursor.pos,
         (/\ cursor.pos <= BlockStart(b)
          /\ cursor.pos + SymbolSpan(given, cursor.rule, cursor.index) >= BlockEnd(b))
           => IsTerminal(At(given.rules[cursor.rule], cursor.index))
  PROVE  Settled(b)'
<1> DEFINE r == cursor.rule
           i == cursor.index
           p == cursor.pos
           start == Scanned.start
           size == Size(given.rules[r])
<1>1. /\ given \in Inputs /\ LengthsComputed
      /\ r \in Ids(given) /\ i \in 0 .. (size - 1) /\ i \in Nat /\ p \in Nat /\ start \in Nat
      /\ p = start + given.off[r][i]
      /\ Stands(start, r)
      /\ SymbolSpan(given, r, i) \in Nat \ {0}
      /\ p + SymbolSpan(given, r, i) = start + given.off[r][i + 1]
      /\ p + SymbolSpan(given, r, i) <= SourceLength
      /\ SourceLength \in Nat /\ Sampling \in Nat \ {0}
      /\ Scanned.rule = r
  BY ScanFacts
<1>2. size \in Nat /\ given.off[r][i] \in Nat /\ Length(given, r) \in Nat
  <2>1. size \in Nat
    BY <1>1, OffsetFacts
  <2>2. i \in 0 .. size
    BY <1>1, <2>1
  <2> QED BY <1>1, <2>1, <2>2, OffsetFacts, LengthNat
<1>3. /\ b \in Nat /\ BlockStart(b) \in Nat /\ BlockEnd(b) \in Nat /\ BlockStart(b) < BlockEnd(b)
  BY <1>1, BlockBounds
<1>4. /\ dirty[b] /\ samples[b].rule = r
      /\ start <= BlockStart(b) /\ start + Length(given, r) >= BlockEnd(b)
      /\ p < BlockEnd(b)
      /\ \A k \in 0 .. (i - 1) : start + given.off[r][k] < BlockStart(b)
  BY <1>1 DEF Coming, Surrounds
<1>5. p < SourceLength
  BY <1>1
<1>6. b = p \div Sampling /\ p = BlockStart(b) + (p % Sampling) /\ p % Sampling \in Nat
  <2> HIDE DEF p
  <2>1. p \div Sampling = b
    BY <1>1, <1>4, <1>5, PlaceInBlock DEF p
  <2> QED BY <1>1, <1>5, <2>1, PlaceInBlock
<1>7. /\ samples' = [samples EXCEPT ![b] = [rule |-> r, index |-> i, rel |-> p % Sampling]]
      /\ dirty' = [dirty EXCEPT ![b] = FALSE]
  BY <1>4, <1>6 DEF SampleSymbol
<1>8. /\ samples'[b] = [rule |-> r, index |-> i, rel |-> p % Sampling]
      /\ dirty'[b] = FALSE
  BY <1>4, <1>7 DEF WalkInv, BuildInv, WalkTypeOK, Coming
<1>9. given' = given /\ SourceLength' = SourceLength /\ BlockStart(b)' = BlockStart(b) /\ BlockEnd(b)' = BlockEnd(b)
  BY Fixed
<1>10. samples'[b].rule = r /\ samples'[b].index = i /\ samples'[b].rel = p % Sampling
  BY <1>8
<1>11. SampledStart(b)' = start
  <2> DEFINE rel == p % Sampling
             off == given.off[r][i]
  <2>1. SampledStart(b)' = BlockStart(b) + rel - off
    BY <1>9, <1>10 DEF SampledStart
  <2>2. p = BlockStart(b) + rel /\ p = start + off
    BY <1>1, <1>6
  <2>3. BlockStart(b) \in Nat /\ rel \in Nat /\ off \in Nat /\ start \in Nat
    BY <1>1, <1>2, <1>3, <1>6
  <2> HIDE DEF p, start, rel, off
  <2>4. start = BlockStart(b) + rel - off
    BY <2>2, <2>3
  <2> QED BY <2>1, <2>4
<1>12. SampleSound(b)'
  <2>1. p % Sampling \in 0 .. (BlockEnd(b) - BlockStart(b) - 1)
    <3> DEFINE rel == p % Sampling
    <3>1. p = BlockStart(b) + rel /\ rel \in Nat /\ p < BlockEnd(b)
      BY <1>4, <1>6
    <3>2. BlockStart(b) \in Nat /\ BlockEnd(b) \in Nat
      BY <1>3
    <3> HIDE DEF p, rel
    <3>3. rel \in 0 .. (BlockEnd(b) - BlockStart(b) - 1)
      BY <3>1, <3>2
    <3> QED BY <3>3 DEF rel
  <2>2. Stands(start, r)
    BY <1>1
  <2> HIDE DEF r, i, p, start, size
  <2>3. Stands(SampledStart(b), samples[b].rule)'
    BY <1>9, <1>10, <1>11, <2>2 DEF Stands
  <2>4. (/\ samples[b].rule \in Ids(given)
         /\ samples[b].index \in 0 .. (Size(given.rules[samples[b].rule]) - 1)
         /\ samples[b].rel \in 0 .. (BlockEnd(b) - BlockStart(b) - 1))'
    BY <1>1, <1>9, <1>10, <2>1 DEF size
  <2>5. (/\ SampledStart(b) <= BlockStart(b)
         /\ SampledStart(b) + Length(given, samples[b].rule) >= BlockEnd(b))'
    BY <1>4, <1>9, <1>10, <1>11
  <2> QED BY <2>3, <2>4, <2>5 DEF SampleSound
<1>13. ASSUME NEW k \in 0 .. (size - 1),
              start + given.off[r][k] <= BlockStart(b), start + given.off[r][k + 1] >= BlockEnd(b)
       PROVE  IsTerminal(At(given.rules[r], k))
  <2>1. /\ k \in Nat /\ k \in 0 .. size /\ k + 1 \in 0 .. size
        /\ i \in 0 .. size /\ i + 1 \in 0 .. size
        /\ given.off[r][k] \in Nat /\ given.off[r][k + 1] \in Nat
        /\ given.off[r][i] \in Nat /\ given.off[r][i + 1] \in Nat
        /\ given.off[r][i] < given.off[r][i + 1]
    BY <1>1, <1>2, SymbolPlace
  <2>2. CASE k < i
    <3>1. given.off[r][k + 1] <= given.off[r][i]
      <4>1. k + 1 <= i
        BY <1>1, <2>1, <2>2
      <4> QED BY <1>1, <2>1, <4>1, OffsetsRise
    <3>2. start + given.off[r][k + 1] < BlockEnd(b)
      BY <1>1, <1>3, <1>4, <2>1, <3>1
    <3> QED BY <1>1, <1>3, <1>13, <2>1, <3>2
  <2>3. CASE k = i
    BY <1>1, <1>13, <2>3
  <2>4. CASE i < k
    <3>1. given.off[r][i + 1] <= given.off[r][k]
      <4>1. i + 1 <= k
        BY <1>1, <2>1, <2>4
      <4> QED BY <1>1, <2>1, <4>1, OffsetsRise
    <3>2. start + given.off[r][k] > BlockStart(b)
      BY <1>1, <1>3, <2>1, <3>1
    <3> QED BY <1>1, <1>3, <1>13, <2>1, <3>2
  <2>5. k < i \/ k = i \/ i < k
    <3>1. k \in Nat /\ i \in Nat
      BY <1>1, <2>1
    <3> HIDE DEF i
    <3> QED BY <3>1
  <2> QED BY <2>2, <2>3, <2>4, <2>5
<1>14. SampleDeepest(b)'
  <2> HIDE DEF r, i, p, start
  <2>1. \A k \in 0 .. (Size(given.rules[r]) - 1) :
          (start + given.off[r][k] <= BlockStart(b) /\ start + given.off[r][k + 1] >= BlockEnd(b))
            => IsTerminal(At(given.rules[r], k))
    BY <1>13
  <2>2. \A k \in 0 .. (i - 1) : start + given.off[r][k] < BlockStart(b)
    BY <1>4
  <2> QED BY <1>9, <1>10, <1>11, <2>1, <2>2 DEF SampleDeepest
<1> QED BY <1>8, <1>12, <1>14 DEF Settled

(***************************************************************************)
(* One turn of the loop over the symbols.  A block whose first symbol this *)
(* is gets its sample; a block the symbol passes by is still waiting for   *)
(* it; and a block inside a nonterminal waits for the node just queued.    *)
(***************************************************************************)
LEMMA ScanSymbolInv ==
  ASSUME WalkInv, pc = "scan", cursor.index < Size(given.rules[cursor.rule]),
         SampleSymbol(cursor.pos \div Sampling),
         cursor' = Cursor(cursor.rule, cursor.index + 1,
                          cursor.pos + SymbolSpan(given, cursor.rule, cursor.index)),
         \/ IsTerminal(At(given.rules[cursor.rule], cursor.index)) /\ queue' = queue
         \/ /\ IsNonTerminal(At(given.rules[cursor.rule], cursor.index))
            /\ queue' = Append(queue, Node(cursor.pos, RuleId(At(given.rules[cursor.rule], cursor.index)))),
         UNCHANGED << lengthVars, spilled, pc >>
  PROVE  WalkInv'
<1> DEFINE r == cursor.rule
           i == cursor.index
           p == cursor.pos
           start == Scanned.start
           symbol == At(given.rules[r], i)
           span == SymbolSpan(given, r, i)
           child == Node(p, RuleId(symbol))
<1>1. /\ given \in Inputs /\ LengthsComputed
      /\ cursor \in [rule : Ids(given), index : Nat, pos : Nat]
      /\ r \in Ids(given) /\ i \in 0 .. (Size(given.rules[r]) - 1) /\ i \in Nat /\ p \in Nat /\ start \in Nat
      /\ start = p - given.off[r][i] /\ p = start + given.off[r][i]
      /\ Stands(start, r)
      /\ span \in Nat \ {0}
      /\ p + span = start + given.off[r][i + 1]
      /\ p + span <= SourceLength
      /\ SourceLength \in Nat /\ Sampling \in Nat \ {0}
      /\ Scanned.rule = r
  BY ScanFacts
<1>n. /\ i \in Nat /\ p \in Nat /\ start \in Nat /\ span \in Nat \ {0}
      /\ p + span <= SourceLength /\ SourceLength \in Nat
  BY <1>1
<1>2. /\ samples \in [Blocks -> [rule : Nat, index : Int, rel : Int]]
      /\ dirty \in [Blocks -> BOOLEAN]
      /\ queue \in Seq([start : Nat, rule : Ids(given)])
      /\ \A k \in 1 .. Len(queue) : Stands(queue[k].start, queue[k].rule)
      /\ \A b \in Blocks : Waits(b) \/ Coming(b) \/ Settled(b)
  BY DEF WalkInv, BuildInv, WalkTypeOK, WalkFollowsText, NoBlockForgotten
<1>3. /\ UNCHANGED lengthVars
      /\ given' = given /\ (LengthsComputed' <=> LengthsComputed) /\ Blocks' = Blocks /\ SourceLength' = SourceLength
  BY Fixed
<1>4. /\ Size(given.rules[r]) \in Nat /\ i + 1 \in 0 .. Size(given.rules[r])
      /\ given.off[r][i] \in Nat /\ given.off[r][i + 1] \in Nat
  BY <1>1, SymbolPlace, OffsetFacts
<1>5. /\ cursor'.rule = r /\ cursor'.index = i + 1 /\ cursor'.pos = p + span
      /\ cursor' \in [rule : Ids(given), index : Nat, pos : Nat]
  <2>1. cursor' = Cursor(r, i + 1, p + span)
    OBVIOUS
  <2>2. r \in Ids(given)
    BY <1>1
  <2> HIDE DEF r, i, p, start, span
  <2>3. i + 1 \in Nat /\ p + span \in Nat
    BY <1>n
  <2> QED BY <2>1, <2>2, <2>3 DEF Cursor
<1>6. cursor'.pos - given.off[cursor'.rule][cursor'.index] = start
  <2>1. /\ p + span = start + given.off[r][i + 1]
        /\ start \in Nat /\ given.off[r][i + 1] \in Nat
    BY <1>1, <1>4
  <2>2. cursor'.rule = r /\ cursor'.index = i + 1 /\ cursor'.pos = p + span
    BY <1>5
  <2> HIDE DEF r, i, p, span, start
  <2>3. given.off[cursor'.rule][cursor'.index] = given.off[r][i + 1]
    BY <2>2
  <2> QED BY <2>1, <2>2, <2>3
<1>7. IsNonTerminal(symbol) =>
        /\ child \in [start : Nat, rule : Ids(given)]
        /\ child.start = p /\ child.rule = RuleId(symbol)
        /\ Stands(child.start, child.rule)
        /\ Length(given, child.rule) = span
  <2> SUFFICES ASSUME IsNonTerminal(symbol)
               PROVE  /\ child \in [start : Nat, rule : Ids(given)]
                      /\ child.start = p /\ child.rule = RuleId(symbol)
                      /\ Stands(child.start, child.rule)
                      /\ Length(given, child.rule) = span
    OBVIOUS
  <2>1. RuleId(symbol) \in Ids(given)
    BY <1>1, SymbolBelow
  <2>2. child.start = p /\ child.rule = RuleId(symbol) /\ child \in [start : Nat, rule : Ids(given)]
    BY <1>1, <2>1 DEF Node
  <2>3. Stands(p, RuleId(symbol))
    BY <1>1, StandsChild
  <2>4. span = Length(given, RuleId(symbol))
    BY DEF SymbolSpan, IsNonTerminal
  <2> HIDE DEF child, symbol, span, p
  <2> QED BY <2>2, <2>3, <2>4
<1>8. \/ IsTerminal(symbol) /\ queue' = queue
      \/ IsNonTerminal(symbol) /\ queue' = Append(queue, child)
  OBVIOUS
<1>9. span = 1 \/ IsNonTerminal(symbol)
  BY DEF SymbolSpan, IsNonTerminal
<1>10. SampleSymbol(p \div Sampling)
  OBVIOUS
<1>11. BlockStart(p \div Sampling) <= p /\ p \div Sampling \in Blocks
  <2>1. p \in Nat /\ p < SourceLength
    <3> HIDE DEF p, span, i, start
    <3> QED BY <1>n
  <2> QED BY <1>1, <2>1, PlaceInBlock
<1>12. ASSUME NEW b \in Blocks, b # p \div Sampling \/ ~dirty[b]
       PROVE  samples'[b] = samples[b] /\ dirty'[b] = dirty[b]
  BY <1>2, <1>10, <1>12 DEF SampleSymbol
<1> HIDE DEF child
<1>13. /\ queue' \in Seq([start : Nat, rule : Ids(given)])
       /\ \A k \in 1 .. Len(queue) : k \in 1 .. Len(queue') /\ queue'[k] = queue[k]
       /\ \A k \in 1 .. Len(queue') :
            k \in 1 .. Len(queue) \/ (IsNonTerminal(symbol) /\ queue'[k] = child)
       /\ IsNonTerminal(symbol) => Len(queue') \in 1 .. Len(queue') /\ queue'[Len(queue')] = child
  <2> DEFINE nodes == [start : Nat, rule : Ids(given)]
  <2>1. queue \in Seq(nodes) /\ (IsNonTerminal(symbol) => child \in nodes)
    BY <1>2, <1>7
  <2> HIDE DEF nodes, symbol
  <2>2. CASE IsTerminal(symbol) /\ queue' = queue
    BY <2>1, <2>2 DEF nodes, IsNonTerminal
  <2>3. CASE IsNonTerminal(symbol) /\ queue' = Append(queue, child)
    <3>1. queue' \in Seq(nodes) /\ Len(queue') = Len(queue) + 1 /\ Len(queue) \in Nat
      BY <2>1, <2>3
    <3>2. \A k \in 1 .. Len(queue) : queue'[k] = queue[k]
      BY <2>1, <2>3
    <3>3. queue'[Len(queue) + 1] = child
      BY <2>1, <2>3
    <3>4. \A k \in 1 .. Len(queue') : k \in 1 .. Len(queue) \/ k = Len(queue) + 1
      BY <3>1
    <3> QED BY <2>3, <3>1, <3>2, <3>3, <3>4 DEF nodes
  <2> QED BY <1>8, <2>2, <2>3
<1>14. WalkTypeOK'
  <2>1. samples' \in [Blocks -> [rule : Nat, index : Int, rel : Int]]
    <3>1. \A b \in Blocks : samples[b].rule \in Nat
      BY <1>2
    <3>2. p % Sampling \in Int /\ i \in Int
      <4> HIDE DEF p, span, i, start
      <4> QED BY <1>n, SamplingAssumption
    <3> DEFINE b == p \div Sampling
               s == [rule |-> samples[b].rule, index |-> i, rel |-> p % Sampling]
               types == [rule : Nat, index : Int, rel : Int]
    <3>3. s \in types
      BY <1>11, <3>1, <3>2
    <3>4. samples' = samples \/ samples' = [samples EXCEPT ![b] = s]
      BY <1>10 DEF SampleSymbol
    <3>5. samples \in [Blocks -> types]
      BY <1>2
    <3> HIDE DEF b, s, types
    <3>6. samples' \in [Blocks -> types]
      BY <3>3, <3>4, <3>5
    <3> QED BY <3>6 DEF types
  <2>2. dirty' \in [Blocks -> BOOLEAN]
    BY <1>2, <1>10 DEF SampleSymbol
  <2>3. queue' \in Seq([start : Nat, rule : Ids(given)])
    BY <1>13
  <2> QED BY <1>1, <1>3, <1>5, <2>1, <2>2, <2>3 DEF WalkTypeOK
<1>15. WalkFollowsText'
  <2>1. ASSUME NEW k \in 1 .. Len(queue') PROVE Stands(queue'[k].start, queue'[k].rule)
    <3>1. CASE k \in 1 .. Len(queue)
      <4>1. queue'[k] = queue[k] /\ Stands(queue[k].start, queue[k].rule)
        BY <1>2, <1>13, <3>1
      <4> QED BY <4>1
    <3>2. CASE IsNonTerminal(symbol) /\ queue'[k] = child
      BY <1>7, <3>2
    <3> QED BY <1>13, <3>1, <3>2
  <2>2. cursor'.index \in 0 .. Size(given.rules[cursor'.rule])
    BY <1>4, <1>5
  <2>3. Stands(cursor'.pos - given.off[cursor'.rule][cursor'.index], cursor'.rule)
    BY <1>1, <1>5, <1>6
  <2> QED BY <1>3, <2>1, <2>2, <2>3, WalkNext
<1>16. ASSUME NEW b \in Blocks PROVE Waits(b)' \/ Coming(b)' \/ Settled(b)'
  <2>1. /\ BlockStart(b) \in Nat /\ BlockEnd(b) \in Nat /\ BlockStart(b) < BlockEnd(b)
    BY <1>1, BlockBounds
  <2>2. CASE Waits(b)
    <3>1. PICK k \in 1 .. Len(queue) : Surrounds(queue[k], b)
      BY <2>2 DEF Waits
    <3>2. k \in 1 .. Len(queue') /\ queue'[k] = queue[k]
      BY <1>13
    <3> QED BY <1>3, <3>1, <3>2, WaitsNext
  <2>3. CASE Settled(b)
    <3>1. ~dirty[b]
      BY <2>3 DEF Settled
    <3> QED BY <1>3, <1>12, <2>3, <3>1, SettledNext
  <2>4. CASE Coming(b) /\ IsNonTerminal(symbol) /\ p <= BlockStart(b) /\ p + span >= BlockEnd(b)
    <3>1. Surrounds(child, b)
      BY <1>7, <2>4 DEF Surrounds
    <3>2. Len(queue') \in 1 .. Len(queue') /\ queue'[Len(queue')] = child
      BY <1>13, <2>4
    <3> QED BY <1>3, <3>1, <3>2, WaitsNext
  <2>5. CASE Coming(b) /\ BlockStart(b) <= p
             /\ ~(IsNonTerminal(symbol) /\ p <= BlockStart(b) /\ p + span >= BlockEnd(b))
    <3>1. (p <= BlockStart(b) /\ p + span >= BlockEnd(b)) => IsTerminal(symbol)
      BY <2>5 DEF IsNonTerminal
    <3> QED BY <1>3, <2>5, <3>1, SampledNow
  <2>6. CASE Coming(b) /\ p < BlockStart(b) /\ ~(IsNonTerminal(symbol) /\ p + span >= BlockEnd(b))
    <3>1. p + span < BlockEnd(b)
      <4>1. p < BlockStart(b) /\ (span = 1 \/ ~(p + span >= BlockEnd(b)))
        BY <1>9, <2>6
      <4> HIDE DEF p, span, i, start
      <4> QED BY <1>n, <2>1, <4>1
    <3>2. b # p \div Sampling
      <4>1. ~(BlockStart(b) <= p)
        <5>1. p < BlockStart(b)
          BY <2>6
        <5> HIDE DEF p, span, i, start
        <5> QED BY <1>n, <2>1, <5>1
      <4> QED BY <1>11, <4>1
    <3>3. samples'[b] = samples[b] /\ dirty'[b] = dirty[b]
      BY <1>12, <3>2
    <3>4. /\ dirty[b] /\ samples[b].rule = r /\ Surrounds(Scanned, b)
          /\ \A k \in 0 .. (i - 1) : start + given.off[r][k] < BlockStart(b)
      BY <2>6 DEF Coming
    <3>5. dirty'[b] /\ samples'[b].rule = cursor'.rule
      BY <1>5, <3>3, <3>4
    <3>6. Surrounds(Node(start, r), b)
      BY <1>1, <3>4 DEF Surrounds, Node
    <3>7. ASSUME NEW k \in 0 .. ((i + 1) - 1) PROVE start + given.off[r][k] < BlockStart(b)
      <4>1. k = i \/ k \in 0 .. (i - 1)
        <5> HIDE DEF p, span, i, start
        <5> QED BY <1>n
      <4> QED BY <1>1, <2>6, <3>4, <4>1
    <3> HIDE DEF r, i, p, start, span
    <3>8. Surrounds(Node(cursor'.pos - given.off[cursor'.rule][cursor'.index], cursor'.rule), b)
      BY <1>5, <1>6, <3>6
    <3>9. \A k \in 0 .. (cursor'.index - 1) :
            cursor'.pos - given.off[cursor'.rule][cursor'.index] + given.off[cursor'.rule][k] < BlockStart(b)
      BY <1>5, <1>6, <3>7
    <3>10. pc' = "scan" /\ cursor'.pos < BlockEnd(b)
      BY <1>5, <3>1
    <3> QED BY <1>3, <3>5, <3>8, <3>9, <3>10, ComingNext
  <2>7. p < BlockStart(b) \/ BlockStart(b) <= p
    <3> HIDE DEF p, span, i, start
    <3> QED BY <1>n, <2>1
  <2>8. p < BlockStart(b) => p <= BlockStart(b)
    <3> HIDE DEF p, span, i, start
    <3> QED BY <1>n, <2>1
  <2> QED BY <1>2, <2>2, <2>3, <2>4, <2>5, <2>6, <2>7, <2>8
<1>17. NoBlockForgotten'
  BY <1>3, <1>16 DEF NoBlockForgotten, Building
<1>18. SpillOnlyAtBoundary'
  BY <1>3 DEF WalkInv, BuildInv, SpillOnlyAtBoundary
<1> QED BY <1>1, <1>3, <1>14, <1>15, <1>17, <1>18 DEF WalkInv, BuildInv

-----------------------------------------------------------------------------
(* The actions *)

LEMMA DequeueInv == WalkInv /\ (Dequeue \/ DequeueSpill) => WalkInv'
<1>1. ASSUME WalkInv, Dequeue PROVE WalkInv'
  BY <1>1, TakeNodeInv DEF Dequeue
<1>2. ASSUME WalkInv, DequeueSpill PROVE WalkInv'
  BY <1>2, TakeNodeInv DEF DequeueSpill
<1> QED BY <1>1, <1>2

LEMMA ScanTerminalInv == WalkInv /\ ScanTerminal => WalkInv'
<1> SUFFICES ASSUME WalkInv, ScanTerminal PROVE WalkInv'
  OBVIOUS
<1>1. pc = "scan" /\ cursor.index < Size(given.rules[cursor.rule])
  BY DEF ScanTerminal
<1>2. cursor \in [rule : Ids(given), index : Nat, pos : Nat]
  BY <1>1, ScanFacts
<1>3. SymbolSpan(given, cursor.rule, cursor.index) = 1
  BY DEF ScanTerminal, SymbolSpan
<1>4. cursor' = Cursor(cursor.rule, cursor.index + 1, cursor.pos + 1)
  BY <1>2 DEF ScanTerminal, Cursor
<1> QED BY <1>1, <1>3, <1>4, ScanSymbolInv DEF ScanTerminal

LEMMA ScanNonTerminalInv == WalkInv /\ ScanNonTerminal => WalkInv'
<1> SUFFICES ASSUME WalkInv, ScanNonTerminal PROVE WalkInv'
  OBVIOUS
<1> DEFINE child == RuleId(At(given.rules[cursor.rule], cursor.index))
<1>1. /\ pc = "scan" /\ cursor.index < Size(given.rules[cursor.rule])
      /\ IsNonTerminal(At(given.rules[cursor.rule], cursor.index))
  BY DEF ScanNonTerminal
<1>2. /\ given \in Inputs /\ LengthsComputed
      /\ cursor \in [rule : Ids(given), index : Nat, pos : Nat]
      /\ cursor.rule \in Ids(given) /\ cursor.index \in 0 .. (Size(given.rules[cursor.rule]) - 1)
  BY <1>1, ScanFacts
<1>3. child \in Ids(given)
  BY <1>1, <1>2, SymbolBelow
<1>4. SymbolSpan(given, cursor.rule, cursor.index) = Length(given, child)
  BY <1>1 DEF SymbolSpan, IsNonTerminal
<1>5. RuleLength(child) = Length(given, child)
  BY <1>2, <1>3, SourceFacts
<1> HIDE DEF child
<1>6. cursor' = Cursor(cursor.rule, cursor.index + 1, cursor.pos + RuleLength(child))
  BY <1>2 DEF ScanNonTerminal, Cursor, child
<1>7. cursor' = Cursor(cursor.rule, cursor.index + 1,
                       cursor.pos + SymbolSpan(given, cursor.rule, cursor.index))
  BY <1>4, <1>5, <1>6
<1>8. queue' = Append(queue, Node(cursor.pos, child))
  BY DEF ScanNonTerminal, child
<1> QED BY <1>1, <1>7, <1>8, ScanSymbolInv DEF ScanNonTerminal, child

(* A rule that surrounds a block has a symbol that begins in it, or a      *)
(* child that surrounds it: at the end of the scan no block is left over.  *)
LEMMA FinishScanInv == WalkInv /\ FinishScan => WalkInv'
<1> SUFFICES ASSUME WalkInv, FinishScan PROVE WalkInv'
  OBVIOUS
<1>1. /\ given \in Inputs /\ LengthsComputed
      /\ pc = "scan" /\ cursor.index = Size(given.rules[cursor.rule])
      /\ cursor \in [rule : Ids(given), index : Nat, pos : Nat]
      /\ pc' = "next" /\ UNCHANGED << lengthVars, samples, dirty, queue, cursor, spilled >>
  BY DEF FinishScan, WalkInv, BuildInv, WalkTypeOK
<1>2. given' = given /\ (LengthsComputed' <=> LengthsComputed) /\ Blocks' = Blocks /\ SourceLength' = SourceLength
  BY <1>1, Fixed
<1>3. WalkTypeOK'
  BY <1>1, <1>2 DEF WalkInv, BuildInv, WalkTypeOK
<1>4. WalkFollowsText'
  BY <1>1, WalkNext DEF WalkInv, BuildInv, WalkFollowsText
<1>5. ASSUME NEW b \in Blocks, Coming(b) PROVE FALSE
  <2>1. /\ cursor.rule \in Ids(given) /\ cursor.pos \in Nat
        /\ cursor.index \in 0 .. Size(given.rules[cursor.rule])
        /\ given.off[cursor.rule][cursor.index] = Length(given, cursor.rule)
        /\ Length(given, cursor.rule) \in Nat
    BY <1>1, OffsetFacts, LengthNat DEF WalkInv, BuildInv, WalkFollowsText
  <2>2. Scanned.start = cursor.pos - Length(given, cursor.rule) /\ Scanned.rule = cursor.rule
    BY <2>1 DEF Scanned, Node
  <2>3. Scanned.start + Length(given, cursor.rule) >= BlockEnd(b) /\ cursor.pos < BlockEnd(b)
    BY <1>5, <2>2 DEF Coming, Surrounds
  <2>4. BlockEnd(b) \in Nat
    BY <1>1, BlockBounds
  <2> QED BY <2>1, <2>2, <2>3, <2>4
<1>6. NoBlockForgotten'
  <2>1. ASSUME NEW b \in Blocks PROVE Waits(b)' \/ Settled(b)'
    <3>1. Waits(b) \/ Settled(b)
      BY <1>1, <1>5 DEF WalkInv, BuildInv, NoBlockForgotten
    <3>2. CASE Waits(b)
      <4>1. PICK k \in 1 .. Len(queue') : Surrounds(queue'[k], b)
        BY <1>1, <3>2 DEF Waits
      <4> QED BY <1>1, <4>1, WaitsNext
    <3>3. CASE Settled(b)
      BY <1>1, <3>3, SettledNext
    <3> QED BY <3>1, <3>2, <3>3
  <2> QED BY <1>1, <1>2, <2>1 DEF NoBlockForgotten, Building
<1>7. SpillOnlyAtBoundary'
  BY <1>1, <1>2 DEF WalkInv, BuildInv, SpillOnlyAtBoundary
<1> QED BY <1>1, <1>2, <1>3, <1>4, <1>6, <1>7 DEF WalkInv, BuildInv

(* With the queue empty, no block is waiting for anything. *)
LEMMA FinishBuildInv == WalkInv /\ FinishBuild => WalkInv'
<1> SUFFICES ASSUME WalkInv, FinishBuild PROVE WalkInv'
  OBVIOUS
<1>1. /\ given \in Inputs /\ pc = "next" /\ queue = << >>
      /\ pc' = "ready" /\ UNCHANGED << lengthVars, samples, dirty, queue, cursor, spilled >>
  BY DEF FinishBuild, WalkInv
<1>2. given' = given /\ (LengthsComputed' <=> LengthsComputed) /\ Blocks' = Blocks /\ SourceLength' = SourceLength
  BY <1>1, Fixed
<1>3. WalkTypeOK'
  BY <1>1, <1>2 DEF WalkInv, BuildInv, WalkTypeOK
<1>4. WalkFollowsText'
  BY <1>1, WalkNext
<1>5. NoBlockForgotten'
  <2>1. ASSUME NEW b \in Blocks PROVE Settled(b)'
    <3>1. Settled(b)
      BY <1>1 DEF WalkInv, BuildInv, NoBlockForgotten, Waits, Coming
    <3> QED BY <1>1, <3>1, SettledNext
  <2> QED BY <1>1, <1>2, <2>1 DEF NoBlockForgotten
<1>6. SpillOnlyAtBoundary'
  BY <1>1, <1>2 DEF WalkInv, BuildInv, SpillOnlyAtBoundary
<1> QED BY <1>1, <1>2, <1>3, <1>4, <1>5, <1>6 DEF WalkInv, BuildInv

(***************************************************************************)
(* What the queries may do: once the samples are there, they move their    *)
(* own cursor and leave the rest alone.  So does a step that changes       *)
(* nothing.                                                                *)
(***************************************************************************)
LEMMA QueryInv ==
  ASSUME WalkInv, UNCHANGED << lengthVars, samples, dirty, queue, spilled >>,
         \/ ~Building /\ ~Building'
         \/ UNCHANGED << cursor, pc >>
  PROVE  WalkInv'
<1>1. given \in Inputs /\ UNCHANGED lengthVars
  BY DEF WalkInv
<1>2. given' = given /\ (LengthsComputed' <=> LengthsComputed) /\ Blocks' = Blocks /\ SourceLength' = SourceLength
  BY <1>1, Fixed
<1>3. /\ pc' = "scan" => pc = "scan" /\ cursor' = cursor
      /\ pc' = "lengths" <=> pc = "lengths"
      /\ pc' \in {"next", "scan"} => pc' = pc
      /\ ~Building' => ~Building
  BY DEF Building
<1>4. WalkTypeOK'
  BY <1>1, <1>2, <1>3 DEF WalkInv, BuildInv, WalkTypeOK
<1>5. WalkFollowsText'
  BY <1>1, <1>3, WalkNext DEF WalkInv, BuildInv, WalkFollowsText
<1>6. ASSUME NEW b \in Blocks, Settled(b) PROVE Settled(b)'
  BY <1>1, <1>6, SettledNext
<1>7. ASSUME NEW b \in Blocks, Waits(b) PROVE Waits(b)'
  <2>1. PICK k \in 1 .. Len(queue') : Surrounds(queue'[k], b)
    BY <1>7 DEF Waits
  <2> QED BY <1>1, <2>1, WaitsNext
<1>8. ASSUME NEW b \in Blocks, Coming(b), UNCHANGED << cursor, pc >> PROVE Coming(b)'
  BY <1>1, <1>8, Fixed DEF Coming, Scanned, Surrounds, Node
<1>9. NoBlockForgotten'
  <2>1. ASSUME ~Building', NEW b \in Blocks PROVE Settled(b)'
    BY <1>3, <1>6, <2>1 DEF WalkInv, BuildInv, NoBlockForgotten
  <2>2. ASSUME pc' \in {"next", "scan"}, NEW b \in Blocks PROVE Waits(b)' \/ Coming(b)' \/ Settled(b)'
    <3>1. UNCHANGED << cursor, pc >> /\ pc \in {"next", "scan"}
      BY <1>3, <2>2 DEF Building
    <3> QED BY <1>6, <1>7, <1>8, <3>1 DEF WalkInv, BuildInv, NoBlockForgotten
  <2> QED BY <1>2, <2>1, <2>2 DEF NoBlockForgotten
<1>10. SpillOnlyAtBoundary'
  BY <1>2 DEF WalkInv, BuildInv, SpillOnlyAtBoundary
<1> QED BY <1>1, <1>2, <1>4, <1>5, <1>9, <1>10 DEF WalkInv, BuildInv

LEMMA BuildStepInv == WalkInv /\ BuildStep => WalkInv'
BY CalculateLengthsInv, BeginSamplesInv, DequeueInv, ScanTerminalInv, ScanNonTerminalInv,
   FinishScanInv, FinishBuildInv DEF BuildStep

(* What the invariant says of a finished build. *)
LEMMA WalkInvImplies ==
  WalkInv => WalkFollowsText /\ SpillOnlyAtBoundary /\ SamplesSound /\ SamplesDeepest
BY DEF WalkInv, BuildInv, NoBlockForgotten, Settled, SamplesSound, SamplesDeepest

-----------------------------------------------------------------------------
(* The samples are computed from the lengths and leave them alone. *)
LEMMA BuildKeepsLengths == BuildStep => LengthsStep \/ UNCHANGED lengthVars
<1> SUFFICES ASSUME BuildStep PROVE LengthsStep \/ UNCHANGED lengthVars
  OBVIOUS
<1>1. CASE CalculateLengths
  BY <1>1 DEF CalculateLengths
<1>2. CASE BeginSamples
  BY <1>2 DEF BeginSamples
<1>3. CASE Dequeue
  BY <1>3 DEF Dequeue
<1>4. CASE DequeueSpill
  BY <1>4 DEF DequeueSpill
<1>5. CASE ScanTerminal
  BY <1>5 DEF ScanTerminal
<1>6. CASE ScanNonTerminal
  BY <1>6 DEF ScanNonTerminal
<1>7. CASE FinishScan
  BY <1>7 DEF FinishScan
<1>8. CASE FinishBuild
  BY <1>8 DEF FinishBuild
<1> QED BY <1>1, <1>2, <1>3, <1>4, <1>5, <1>6, <1>7, <1>8 DEF BuildStep

(* at leaves them alone. *)
LEMMA AtKeepsLengths == AskAt \/ AtStep => UNCHANGED lengthVars
<1>1. AskAt => UNCHANGED lengthVars
  BY DEF AskAt
<1>2. ForwardSkip \/ ForwardEnter \/ ForwardFound => UNCHANGED lengthVars
  BY DEF ForwardSkip, ForwardEnter, ForwardFound
<1>3. BackwardSkipTerminal \/ BackwardSkip \/ BackwardEnter \/ BackwardFound
        => UNCHANGED lengthVars
  BY DEF BackwardSkipTerminal, BackwardSkip, BackwardEnter, BackwardFound
<1> QED BY <1>1, <1>2, <1>3 DEF AtStep

(* So does substr. *)
LEMMA SubstrKeepsLengths ==
  AskSubstr \/ LeftStep \/ RightStep \/ WriteStep \/ SubstrDone => UNCHANGED lengthVars
<1>1. AskSubstr \/ SubstrDone => UNCHANGED lengthVars
  BY DEF AskSubstr, SubstrDone
<1>2. StartLeft \/ LeftSkip \/ LeftWriteTerminal => UNCHANGED lengthVars
  BY DEF StartLeft, LeftSkip, LeftWriteTerminal
<1>3. LeftWriteRule \/ LeftEnter \/ LeftDone => UNCHANGED lengthVars
  BY DEF LeftWriteRule, LeftEnter, LeftDone
<1>4. StartRight \/ RightSkip \/ RightWriteTerminal => UNCHANGED lengthVars
  BY DEF StartRight, RightSkip, RightWriteTerminal
<1>5. RightWriteRule \/ RightEnter \/ RightDone => UNCHANGED lengthVars
  BY DEF RightWriteRule, RightEnter, RightDone
<1>6. ReverseTerminal \/ ReverseCall \/ ReversePass \/ ReverseReturn => UNCHANGED lengthVars
  BY DEF ReverseTerminal, ReverseCall, ReversePass, ReverseReturn
<1>7. ExpandTerminal \/ ExpandCall \/ ExpandPass \/ ExpandReturn => UNCHANGED lengthVars
  BY DEF ExpandTerminal, ExpandCall, ExpandPass, ExpandReturn
<1> QED BY <1>1, <1>2, <1>3, <1>4, <1>5, <1>6, <1>7 DEF LeftStep, RightStep, WriteStep

-----------------------------------------------------------------------------
(* The data structure implements the computation of its lengths.           *)
THEOREM LengthsImplemented == Spec => LengthsSpec
<1>1. Init => LengthsInit
  BY DEF Init, BuildInit
<1>2. [Next]_vars => [LengthsStep]_lengthVars
  <2> SUFFICES ASSUME [Next]_vars PROVE LengthsStep \/ UNCHANGED lengthVars
    OBVIOUS
  <2>1. CASE Compute
    BY <2>1, BuildKeepsLengths, AtKeepsLengths, SubstrKeepsLengths DEF Compute, Build
  <2>2. CASE AskAt \/ AskSubstr
    BY <2>2, AtKeepsLengths, SubstrKeepsLengths
  <2>3. CASE Take
    BY <2>3 DEF Take
  <2>4. CASE Ended \/ UNCHANGED vars
    BY <2>4 DEF Ended, vars
  <2> QED BY <2>1, <2>2, <2>3, <2>4 DEF Next
<1> QED BY <1>1, <1>2, PTL DEF Spec, LengthsSpec

(* No length is read before it is computed, also in the composition.       *)
THEOREM LengthsSummed == Spec => []SummedExactly
BY LengthsImplemented, SumCorrectness, PTL

(* The queries read the lengths that Lengths!StoredLength says: whatever   *)
(* at and substr do, rule_length answers the same until the end.           *)
THEOREM LengthsStored == Spec => []PackedAsStored
BY LengthsImplemented, PackingCorrectness, PTL

(* The samples and the queries see the true length of every rule but the   *)
(* longest ones.                                                           *)
THEOREM ShorterRulesSeen == Spec => []ShorterRulesKept
BY LengthsImplemented, ShorterRulesCorrectness, PTL

(* The index loses a longest rule's length exactly at a power of two.       *)
THEOREM LossPlaced == Spec => []LossOnlyAtPowersOfTwo
BY LengthsImplemented, LossCorrectness, PTL

-----------------------------------------------------------------------------
(* The samples *)

(* A query runs on the finished data structure, and leaves it alone. *)
QueryStep ==
  /\ UNCHANGED << lengthVars, samples, dirty, queue, spilled >>
  /\ ~Building /\ ~Building'

LEMMA AtIsQuery == AskAt \/ AtStep => QueryStep
<1> USE DEF QueryStep, Building
<1>1. AskAt => QueryStep
  BY DEF AskAt
<1>2. ForwardSkip \/ ForwardEnter => QueryStep
  BY DEF ForwardSkip, ForwardEnter
<1>3. BackwardSkipTerminal \/ BackwardSkip \/ BackwardEnter => QueryStep
  BY DEF BackwardSkipTerminal, BackwardSkip, BackwardEnter, BackwardGoesOn
<1>4. ForwardFound \/ BackwardFound => QueryStep
  BY DEF ForwardFound, BackwardFound, samplesVars
<1> QED BY <1>1, <1>2, <1>3, <1>4 DEF AtStep

LEMMA SubstrIsQuery == AskSubstr \/ LeftStep \/ RightStep \/ WriteStep \/ SubstrDone => QueryStep
<1> USE DEF QueryStep, Building
<1>1. AskSubstr \/ SubstrDone => QueryStep
  BY DEF AskSubstr, SubstrDone, samplesVars
<1>2. StartLeft => QueryStep
  BY DEF StartLeft
<1>3. LeftSkip \/ LeftWriteTerminal \/ LeftWriteRule \/ LeftEnter => QueryStep
  BY DEF LeftSkip, LeftWriteTerminal, LeftWriteRule, LeftEnter, ScanLeft
<1>4. LeftDone \/ RightDone => QueryStep
  BY DEF LeftDone, RightDone, samplesVars
<1>5. StartRight => QueryStep
  BY DEF StartRight
<1>6. RightSkip \/ RightWriteTerminal \/ RightWriteRule \/ RightEnter => QueryStep
  BY DEF RightSkip, RightWriteTerminal, RightWriteRule, RightEnter, ScanRight
<1>7. ReverseTerminal \/ ReversePass \/ ReverseCall \/ ReverseReturn => QueryStep
  BY DEF ReverseTerminal, ReversePass, ReverseCall, ReverseReturn, WritesReverse, samplesVars
<1>8. ExpandTerminal \/ ExpandPass \/ ExpandCall \/ ExpandReturn => QueryStep
  BY DEF ExpandTerminal, ExpandPass, ExpandCall, ExpandReturn, WritesForward, samplesVars
<1> QED BY <1>1, <1>2, <1>3, <1>4, <1>5, <1>6, <1>7, <1>8 DEF LeftStep, RightStep, WriteStep

LEMMA BuildStepBuilds == BuildStep => Building
BY DEF BuildStep, CalculateLengths, BeginSamples, Dequeue, DequeueSpill, ScanTerminal,
       ScanNonTerminal, FinishScan, FinishBuild, Building

(* Nothing is answered before the samples are there, so Take does not      *)
(* disturb the cursor of the walk.                                         *)
AnswersAfterBuild == reply # << >> => ~Building

LEMMA SamplesStep ==
  ASSUME WalkInv, AnswersAfterBuild, [Next]_vars
  PROVE  WalkInv' /\ AnswersAfterBuild'
<1>1. CASE Build
  <2>1. BuildStep /\ reply' = reply
    BY <1>1 DEF Build, queryVars
  <2> QED BY <2>1, BuildStepInv, BuildStepBuilds DEF AnswersAfterBuild
<1>2. CASE QueryStep
  BY <1>2, QueryInv DEF QueryStep, AnswersAfterBuild
<1>3. CASE Take
  <2>1. /\ UNCHANGED << lengthVars, samples, dirty, queue, spilled, pc >>
        /\ reply # << >> /\ reply' = << >>
    BY <1>3 DEF Take
  <2>2. ~Building /\ ~Building'
    BY <2>1 DEF AnswersAfterBuild, Building
  <2> QED BY <2>1, <2>2, QueryInv DEF AnswersAfterBuild
<1>4. CASE Ended \/ UNCHANGED vars
  <2>1. UNCHANGED << lengthVars, samples, dirty, queue, cursor, spilled, pc, reply >>
    BY <1>4 DEF Ended, vars, samplesVars
  <2> QED BY <2>1, QueryInv DEF AnswersAfterBuild, Building
<1> QED BY <1>1, <1>2, <1>3, <1>4, AtIsQuery, SubstrIsQuery DEF Next, Compute

(* Constructor and queries keep what the walk establishes. *)
THEOREM SamplesInvariance == Spec => [](WalkInv /\ AnswersAfterBuild)
<1>1. Init => WalkInv /\ AnswersAfterBuild
  BY InitWalkInv DEF Init, AnswersAfterBuild
<1>2. WalkInv /\ AnswersAfterBuild /\ [Next]_vars => (WalkInv /\ AnswersAfterBuild)'
  BY SamplesStep
<1> QED BY <1>1, <1>2, PTL DEF Spec

(* During the walk a rule waits, and is scanned, at a place of the text    *)
(* where its string stands.                                                *)
THEOREM WalkCorrectness == Spec => []WalkFollowsText
BY SamplesInvariance, WalkInvImplies, PTL

(* calculate_samples writes past the end of m_samples only if the text     *)
(* ends on a block boundary.                                               *)
THEOREM SpillCorrectness == Spec => []SpillOnlyAtBoundary
BY SamplesInvariance, WalkInvImplies, PTL

(* Whenever at or substr runs, every block has a sample: a rule around the *)
(* whole block, and a symbol of it that begins at the sampled place.       *)
THEOREM SamplesCorrectness == Spec => []SamplesSound
BY SamplesInvariance, WalkInvImplies, PTL

(* The sample is the deepest rule around the block and its first symbol to *)
(* begin in the block: what makes a scan from it short.                    *)
THEOREM DeepestCorrectness == Spec => []SamplesDeepest
BY SamplesInvariance, WalkInvImplies, PTL

-----------------------------------------------------------------------------
(* at *)

(* The text has the character of a terminal where the symbol stands. *)
LEMMA StandsTerminal ==
  ASSUME given \in Inputs, LengthsComputed, NEW r \in Ids(given), NEW p, Stands(p, r),
         NEW k \in 0 .. (Size(given.rules[r]) - 1), IsTerminal(At(given.rules[r], k))
  PROVE  given.text[given.start][p + given.off[r][k]] = At(given.rules[r], k)
<1>1. /\ given.off[r][k] \in Nat
      /\ given.off[r][k] < given.off[r][k + 1] /\ given.off[r][k + 1] <= Length(given, r)
      /\ given.off[r][k + 1] \in Nat
  BY SymbolPlace
<1>2. SymbolSpan(given, r, k) = 1
  BY DEF SymbolSpan
<1>3. given.text[r][given.off[r][k]] = At(given.rules[r], k)
  <2>1. IsDerivation(given)
    BY GivenFacts
  <2>2. \A j \in 0 .. (SymbolSpan(given, r, k) - 1) :
          given.text[r][given.off[r][k] + j] = At(given.rules[r], k)
    BY <2>1, Zenon DEF IsDerivation
  <2>3. 0 \in 0 .. (SymbolSpan(given, r, k) - 1)
    BY <1>2
  <2>4. given.text[r][given.off[r][k] + 0] = At(given.rules[r], k)
    BY <2>2, <2>3
  <2> QED BY <1>1, <2>4
<1>4. given.off[r][k] \in 0 .. (Length(given, r) - 1)
  BY <1>1, LengthNat
<1> QED BY <1>3, <1>4 DEF Stands

(* The symbol at hand exists, and lies in the text where at says it does.  *)
LEMMA AtFacts ==
  ASSUME WalkInv, AtInv, pc \in {"forward", "backward"}
  PROVE  /\ given \in Inputs /\ LengthsComputed
         /\ cursor \in [rule : Ids(given), index : Nat, pos : Nat]
         /\ cursor.rule \in Ids(given) /\ cursor.index \in Nat /\ cursor.pos \in Nat
         /\ cursor.index \in 0 .. (Size(given.rules[cursor.rule]) - 1)
         /\ Size(given.rules[cursor.rule]) \in Nat
         /\ Wanted \in 0 .. (SourceLength - 1) /\ Wanted \in Nat
         /\ request = << AtQuery(Wanted) >> /\ reply = << >>
         /\ SymbolLengthHere = SymbolSpan(given, cursor.rule, cursor.index)
         /\ SymbolLengthHere \in Nat \ {0}
         /\ IsTerminal(Symbol) => SymbolLengthHere = 1
         /\ IsNonTerminal(Symbol) =>
              /\ RuleId(Symbol) \in Ids(given)
              /\ SymbolLengthHere = Length(given, RuleId(Symbol))
              /\ Size(given.rules[RuleId(Symbol)]) \in Nat \ {0}
         /\ given.off[cursor.rule][cursor.index] \in Nat
         /\ given.off[cursor.rule][cursor.index + 1]
              = given.off[cursor.rule][cursor.index] + SymbolLengthHere
         /\ Length(given, cursor.rule) \in Nat
<1> DEFINE r == cursor.rule
           i == cursor.index
<1>1. /\ given \in Inputs /\ LengthsComputed
      /\ cursor \in [rule : Ids(given), index : Nat, pos : Nat]
      /\ i \in 0 .. (Size(given.rules[r]) - 1)
      /\ \E w \in 0 .. (SourceLength - 1) : request = << AtQuery(w) >>
      /\ reply = << >>
  BY DEF WalkInv, BuildInv, WalkTypeOK, AtInv, OneQuery, AtFollowsText
<1>2. r \in Ids(given) /\ i \in Nat /\ cursor.pos \in Nat
  BY <1>1
<1>3. Wanted \in 0 .. (SourceLength - 1) /\ Wanted \in Nat /\ request = << AtQuery(Wanted) >>
  <2>1. PICK w \in 0 .. (SourceLength - 1) : request = << AtQuery(w) >>
    BY <1>1
  <2>2. Wanted = w
    BY <2>1 DEF Wanted, AtQuery
  <2> QED BY <2>1, <2>2
<1>4. Size(given.rules[r]) \in Nat /\ Length(given, r) \in Nat
  BY <1>1, <1>2, OffsetFacts, LengthNat
<1>5. IsNonTerminal(Symbol) => RuleId(Symbol) \in Ids(given)
  BY <1>1, <1>2, SymbolBelow DEF Symbol
<1>6. SymbolLengthHere = SymbolSpan(given, r, i)
  BY <1>1, <1>5, SourceFacts DEF SymbolLengthHere, SymbolLength, SymbolSpan, Symbol, IsNonTerminal
<1>7. IsTerminal(Symbol) => SymbolLengthHere = 1
  BY <1>6 DEF SymbolSpan, Symbol
<1>8. IsNonTerminal(Symbol) =>
        /\ SymbolLengthHere = Length(given, RuleId(Symbol))
        /\ Size(given.rules[RuleId(Symbol)]) \in Nat \ {0}
  <2>1. IsNonTerminal(Symbol) => SymbolLengthHere = Length(given, RuleId(Symbol))
    BY <1>6 DEF SymbolSpan, Symbol, IsNonTerminal
  <2>2. \A c \in Ids(given) : Size(given.rules[c]) \in Nat /\ Size(given.rules[c]) > 0
    BY <1>1, OffsetFacts, RulesAssumption
  <2> QED BY <1>5, <2>1, <2>2
<1>9. /\ given.off[r][i] \in Nat
      /\ given.off[r][i + 1] = given.off[r][i] + SymbolSpan(given, r, i)
      /\ SymbolSpan(given, r, i) \in Nat \ {0}
  BY <1>1, <1>2, SymbolPlace, SpanPositive
<1> QED BY <1>1, <1>2, <1>3, <1>4, <1>5, <1>6, <1>7, <1>8, <1>9

(* The steps of a scan keep the invariant if they leave the cursor at a    *)
(* symbol of a rule that stands around the character wanted.               *)
LEMMA ForwardNext ==
  ASSUME UNCHANGED lengthVars, NEW w \in 0 .. (SourceLength - 1),
         request' = << AtQuery(w) >>, reply' = << >>, pc' = "forward",
         NEW c \in Ids(given), NEW k \in 0 .. (Size(given.rules[c]) - 1), k \in Nat, NEW q \in Nat,
         cursor' = Cursor(c, k, q),
         NEW start \in Nat, given.off[c][k] \in Nat, q = start + given.off[c][k],
         Stands(start, c), w \in start .. (start + Length(given, c) - 1), q <= w
  PROVE  AtInv'
<1>1. given' = given /\ SourceLength' = SourceLength
  BY Fixed
<1>2. /\ cursor'.rule = c /\ cursor'.index = k /\ cursor'.pos = q
      /\ cursor' \in [rule : Ids(given), index : Nat, pos : Nat]
  BY DEF Cursor
<1>3. Wanted' = w
  BY DEF Wanted, AtQuery
<1>4. OneQuery'
  BY <1>1, <1>2 DEF OneQuery, Building
<1>5. q - given.off[c][k] = start
  OBVIOUS
<1>6. Scanned'.start = start /\ Scanned'.rule = c
  BY <1>1, <1>2, <1>5 DEF Scanned, Node
<1>7. Encloses(Scanned)'
  BY <1>1, <1>3, <1>6 DEF Encloses, Stands
<1>8. AtFollowsText'
  BY <1>1, <1>2, <1>3, <1>7 DEF AtFollowsText
<1> QED BY <1>4, <1>8 DEF AtInv

LEMMA BackwardNext ==
  ASSUME UNCHANGED lengthVars, NEW w \in 0 .. (SourceLength - 1),
         request' = << AtQuery(w) >>, reply' = << >>, pc' = "backward",
         NEW c \in Ids(given), NEW k \in 0 .. (Size(given.rules[c]) - 1), k \in Nat, NEW q \in Nat,
         cursor' = Cursor(c, k, q),
         NEW start \in Nat, given.off[c][k + 1] \in Nat, q + 1 = start + given.off[c][k + 1],
         Stands(start, c), w \in start .. (start + Length(given, c) - 1), w <= q
  PROVE  AtInv'
<1>1. given' = given /\ SourceLength' = SourceLength
  BY Fixed
<1>2. /\ cursor'.rule = c /\ cursor'.index = k /\ cursor'.pos = q
      /\ cursor' \in [rule : Ids(given), index : Nat, pos : Nat]
  BY DEF Cursor
<1>3. Wanted' = w
  BY DEF Wanted, AtQuery
<1>4. OneQuery'
  BY <1>1, <1>2 DEF OneQuery, Building
<1>5. q + 1 - given.off[c][k + 1] = start
  BY SMTT(30)
<1>6. ScannedBack'.start = start /\ ScannedBack'.rule = c
  BY <1>1, <1>2, <1>5 DEF ScannedBack, Node
<1>7. Encloses(ScannedBack)'
  BY <1>1, <1>3, <1>6 DEF Encloses, Stands
<1>8. AtFollowsText'
  BY <1>1, <1>2, <1>3, <1>7 DEF AtFollowsText
<1> QED BY <1>4, <1>8 DEF AtInv

(* A query starts at the sample of its block, which is around the block    *)
(* and so around the character.                                            *)
LEMMA AskAtInv == WalkInv /\ AtInv /\ AskAt => AtInv'
<1> SUFFICES ASSUME WalkInv, AtInv, AskAt PROVE AtInv'
  OBVIOUS
<1>1. /\ given \in Inputs /\ LengthsComputed /\ UNCHANGED lengthVars /\ reply' = << >>
      /\ \A b \in Blocks : SampleSound(b)
  BY DEF AskAt, WalkInv, BuildInv, WalkTypeOK, NoBlockForgotten, Settled, Building, AtInv, OneQuery
<1>2. PICK w \in 0 .. (SourceLength - 1) :
        LET b == w \div Sampling
            s == samples[b]
            place == BlockStart(b) + s.rel
        IN  /\ request' = << AtQuery(w) >>
            /\ cursor' = IF w >= place THEN SampleAt(b)
                         ELSE Cursor(s.rule, s.index, place + SymbolLength(s.rule, s.index) - 1)
            /\ pc' = IF w >= place THEN "forward" ELSE "backward"
  BY DEF AskAt
<1>3. SourceLength \in Nat /\ w \in Nat /\ w < SourceLength
  BY <1>1, SourceFacts
<1> DEFINE b == w \div Sampling
           c == samples[b].rule
           k == samples[b].index
           place == BlockStart(b) + samples[b].rel
           start == SampledStart(b)
<1>4. b \in Blocks /\ BlockStart(b) <= w /\ w < BlockEnd(b)
  BY <1>1, <1>3, PlaceInBlock
<1> HIDE DEF b
<1>5. BlockStart(b) \in Nat /\ BlockEnd(b) \in Nat
  BY <1>1, <1>4, BlockBounds
<1>6. /\ c \in Ids(given) /\ k \in 0 .. (Size(given.rules[c]) - 1)
      /\ samples[b].rel \in 0 .. (BlockEnd(b) - BlockStart(b) - 1)
      /\ Stands(start, c) /\ start <= BlockStart(b)
      /\ start + Length(given, c) >= BlockEnd(b)
  BY <1>1, <1>4 DEF SampleSound
<1>7. /\ given.off[c][k] \in Nat /\ given.off[c][k + 1] \in Nat
      /\ given.off[c][k + 1] = given.off[c][k] + SymbolSpan(given, c, k)
      /\ SymbolSpan(given, c, k) \in Nat \ {0} /\ Length(given, c) \in Nat /\ k \in Nat
  <2>1. k \in Nat
    BY <1>6
  <2> QED BY <1>1, <1>6, <2>1, SymbolPlace, SpanPositive, LengthNat
<1>8. SymbolLength(c, k) = SymbolSpan(given, c, k)
  BY <1>1, <1>6, SymbolBelow, SourceFacts DEF SymbolLength, SymbolSpan, IsNonTerminal
<1>9. start \in Nat
  <2>1. start \in 0 .. (SourceLength - Length(given, c))
    BY <1>6 DEF Stands
  <2> HIDE DEF start, c
  <2> QED BY <2>1
<1>10. place \in Nat /\ place = start + given.off[c][k]
  <2> DEFINE rel == samples[b].rel
             off == given.off[c][k]
  <2>1. start = BlockStart(b) + rel - off
    BY DEF SampledStart
  <2>2. rel \in Nat /\ off \in Nat /\ start \in Nat
    BY <1>5, <1>6, <1>7, <1>9
  <2> HIDE DEF rel, off, start, c, k
  <2>3. BlockStart(b) + rel \in Nat /\ BlockStart(b) + rel = start + off
    BY <1>5, <2>1, <2>2
  <2> QED BY <2>3 DEF rel, off
<1>11. w \in start .. (start + Length(given, c) - 1)
  <2> HIDE DEF start, c, k
  <2> QED BY <1>3, <1>4, <1>5, <1>6, <1>7, <1>9
<1>12. CASE w >= place
  <2>1. request' = << AtQuery(w) >> /\ cursor' = Cursor(c, k, place) /\ pc' = "forward"
    BY <1>2, <1>12 DEF SampleAt, b
  <2>2. place <= w
    BY <1>3, <1>10, <1>12
  <2> HIDE DEF place, start, c, k
  <2> QED BY <1>1, <1>6, <1>7, <1>9, <1>10, <1>11, <2>1, <2>2, ForwardNext
<1>13. CASE ~(w >= place)
  <2> DEFINE q == place + SymbolSpan(given, c, k) - 1
  <2>1. request' = << AtQuery(w) >> /\ pc' = "backward"
    BY <1>2, <1>13 DEF b
  <2>2. cursor' = Cursor(c, k, place + SymbolLength(c, k) - 1)
    BY <1>2, <1>13 DEF b
  <2>3. cursor' = Cursor(c, k, q)
    <3> HIDE DEF place, start, c, k
    <3> QED BY <1>8, <2>2
  <2>4. q \in Nat /\ q + 1 = start + given.off[c][k + 1] /\ w <= q
    <3> HIDE DEF place, start, c, k
    <3> QED BY <1>3, <1>7, <1>9, <1>10, <1>13
  <2> HIDE DEF q, place, start, c, k
  <2> QED BY <1>1, <1>6, <1>7, <1>9, <1>11, <2>1, <2>3, <2>4, BackwardNext
<1> QED BY <1>12, <1>13

LEMMA ForwardInv == WalkInv /\ AtInv /\ (ForwardSkip \/ ForwardEnter) => AtInv'
<1> SUFFICES ASSUME WalkInv, AtInv, ForwardSkip \/ ForwardEnter PROVE AtInv'
  OBVIOUS
<1> DEFINE r == cursor.rule
           i == cursor.index
           p == cursor.pos
           w == Wanted
           start == Scanned.start
           span == SymbolLengthHere
           offHere == given.off[r][i]
           offNext == given.off[r][i + 1]
<1>1. /\ pc = "forward" /\ pc' = "forward" /\ UNCHANGED lengthVars
      /\ request' = request /\ reply' = reply
      /\ p < w \/ IsNonTerminal(Symbol)
  BY DEF ForwardSkip, ForwardEnter, queryVars
<1>2. /\ given \in Inputs /\ LengthsComputed
      /\ cursor \in [rule : Ids(given), index : Nat, pos : Nat]
      /\ r \in Ids(given) /\ i \in Nat /\ p \in Nat
      /\ i \in 0 .. (Size(given.rules[r]) - 1) /\ Size(given.rules[r]) \in Nat
      /\ w \in 0 .. (SourceLength - 1) /\ w \in Nat
      /\ request = << AtQuery(w) >> /\ reply = << >>
      /\ span \in Nat \ {0}
      /\ IsTerminal(Symbol) => span = 1
      /\ IsNonTerminal(Symbol) =>
              /\ RuleId(Symbol) \in Ids(given)
              /\ span = Length(given, RuleId(Symbol))
              /\ Size(given.rules[RuleId(Symbol)]) \in Nat \ {0}
      /\ offHere \in Nat /\ offNext = offHere + span /\ Length(given, r) \in Nat
  BY <1>1, AtFacts
<1>3. /\ Stands(start, r) /\ w \in start .. (start + Length(given, r) - 1) /\ p <= w
      /\ start = p - offHere
  BY <1>1 DEF AtInv, AtFollowsText, Encloses, Scanned, Node
<1>4. start \in Nat
  <2>1. start \in 0 .. (SourceLength - Length(given, r))
    BY <1>3 DEF Stands
  <2> HIDE DEF start, r
  <2> QED BY <2>1
<1>5. ASSUME ForwardSkip PROVE AtInv'
  <2>1. p + span <= w /\ cursor' = Cursor(r, i + 1, p + span)
    BY <1>2, <1>5 DEF ForwardSkip, Cursor
  <2>2. i + 1 # Size(given.rules[r])
    <3>1. ASSUME i + 1 = Size(given.rules[r]) PROVE FALSE
      <4>1. Length(given, r) = offNext
        BY <3>1 DEF Length
      <4> HIDE DEF r, i, p, w, start, span, offHere, offNext
      <4> QED BY <1>2, <1>3, <1>4, <2>1, <4>1
    <3> QED BY <3>1
  <2> HIDE DEF p, w, start, span, offHere
  <2>3. i + 1 \in 0 .. (Size(given.rules[r]) - 1) /\ i + 1 \in Nat
    BY <1>2, <2>2
  <2>4. p + span \in Nat /\ offNext \in Nat /\ p + span = start + offNext
    <3> HIDE DEF r, i, offNext
    <3> QED BY <1>2, <1>3, <1>4
  <2> QED BY <1>1, <1>2, <1>3, <1>4, <2>1, <2>3, <2>4, ForwardNext
<1>6. ASSUME ForwardEnter PROVE AtInv'
  <2> DEFINE child == RuleId(Symbol)
  <2>1. p + span > w /\ cursor' = Cursor(child, 0, p)
    BY <1>2, <1>6 DEF ForwardEnter, EnterFront, Cursor
  <2>2. IsNonTerminal(Symbol)
    <3>1. IsTerminal(Symbol) => ~(p < w)
      <4> HIDE DEF p, w, span
      <4> QED BY <1>2, <2>1
    <3> QED BY <1>1, <3>1 DEF IsNonTerminal
  <2>3. Stands(start + offHere, child)
    BY <1>2, <1>3, <2>2, StandsChild DEF Symbol
  <2>4. child \in Ids(given) /\ span = Length(given, child) /\ Size(given.rules[child]) \in Nat \ {0}
    BY <1>2, <2>2
  <2> HIDE DEF p, w, start, span, offHere, r, i, child
  <2>5. start + offHere = p /\ w \in p .. (p + span - 1)
    BY <1>2, <1>3, <1>4, <2>1
  <2>6. given.off[child][0] = 0
    BY <1>2, <2>4, OffsetFacts
  <2>7. 0 \in 0 .. (Size(given.rules[child]) - 1) /\ p = p + given.off[child][0]
    BY <1>2, <2>4, <2>6
  <2>8. Stands(p, child) /\ w \in p .. (p + Length(given, child) - 1)
    BY <2>3, <2>4, <2>5
  <2>9. /\ UNCHANGED lengthVars /\ request' = << AtQuery(w) >> /\ reply' = << >> /\ pc' = "forward"
        /\ w \in 0 .. (SourceLength - 1) /\ child \in Ids(given) /\ 0 \in Nat /\ p \in Nat
        /\ given.off[child][0] \in Nat /\ cursor' = Cursor(child, 0, p) /\ p <= w
    BY <1>1, <1>2, <1>3, <2>1, <2>4, <2>6
  <2> QED BY <2>7, <2>8, <2>9, ForwardNext
<1> QED BY <1>5, <1>6

(* Going backward there is always a symbol before one that is skipped. *)
LEMMA BackwardInv ==
  WalkInv /\ AtInv /\ (BackwardSkipTerminal \/ BackwardSkip \/ BackwardEnter) => AtInv'
<1> SUFFICES ASSUME WalkInv, AtInv, BackwardSkipTerminal \/ BackwardSkip \/ BackwardEnter PROVE AtInv'
  OBVIOUS
<1> DEFINE r == cursor.rule
           i == cursor.index
           p == cursor.pos
           w == Wanted
           start == ScannedBack.start
           span == SymbolLengthHere
           offHere == given.off[r][i]
           offNext == given.off[r][i + 1]
<1>1. /\ pc = "backward" /\ pc' = "backward" /\ UNCHANGED lengthVars
      /\ request' = request /\ reply' = reply
      /\ p > w \/ IsNonTerminal(Symbol)
  BY DEF BackwardSkipTerminal, BackwardSkip, BackwardEnter, BackwardGoesOn, queryVars
<1>2. /\ given \in Inputs /\ LengthsComputed
      /\ cursor \in [rule : Ids(given), index : Nat, pos : Nat]
      /\ r \in Ids(given) /\ i \in Nat /\ p \in Nat
      /\ i \in 0 .. (Size(given.rules[r]) - 1) /\ Size(given.rules[r]) \in Nat
      /\ w \in 0 .. (SourceLength - 1) /\ w \in Nat
      /\ request = << AtQuery(w) >> /\ reply = << >>
      /\ span \in Nat \ {0}
      /\ IsTerminal(Symbol) => span = 1
      /\ IsNonTerminal(Symbol) =>
              /\ RuleId(Symbol) \in Ids(given)
              /\ span = Length(given, RuleId(Symbol))
              /\ Size(given.rules[RuleId(Symbol)]) \in Nat \ {0}
      /\ offHere \in Nat /\ offNext = offHere + span /\ Length(given, r) \in Nat
  BY <1>1, AtFacts
<1>3. /\ Stands(start, r) /\ w \in start .. (start + Length(given, r) - 1) /\ w <= p
      /\ start = p + 1 - offNext
  BY <1>1 DEF AtInv, AtFollowsText, Encloses, ScannedBack, Node
<1>4. start \in Nat
  <2>1. start \in 0 .. (SourceLength - Length(given, r))
    BY <1>3 DEF Stands
  <2> HIDE DEF start, r
  <2> QED BY <2>1
<1>5. UNCHANGED lengthVars /\ request' = << AtQuery(w) >> /\ reply' = << >> /\ pc' = "backward"
  BY <1>1, <1>2
<1>6. ASSUME BackwardSkipTerminal \/ BackwardSkip PROVE AtInv'
  <2>1. cursor' = Cursor(r, i - 1, p - span)
    <3>1. ASSUME BackwardSkipTerminal PROVE cursor' = Cursor(r, i - 1, p - 1) /\ span = 1
      BY <1>2, <3>1 DEF BackwardSkipTerminal, Cursor
    <3>2. ASSUME BackwardSkip PROVE cursor' = Cursor(r, i - 1, p - span)
      BY <1>2, <3>2 DEF BackwardSkip, Cursor
    <3> QED BY <1>6, <3>1, <3>2
  <2>2. w + span <= p
    <3>1. ASSUME BackwardSkipTerminal PROVE p > w /\ span = 1
      BY <1>1, <1>2, <3>1 DEF BackwardSkipTerminal, IsNonTerminal
    <3>2. ASSUME BackwardSkip PROVE w + span <= p
      BY <3>2 DEF BackwardSkip
    <3> HIDE DEF p, w, span
    <3> QED BY <1>2, <1>6, <3>1, <3>2
  <2>3. i # 0
    <3>1. ASSUME i = 0 PROVE FALSE
      <4>1. offHere = 0
        BY <1>2, <3>1, OffsetFacts
      <4> HIDE DEF r, i, p, w, start, span, offHere, offNext
      <4> QED BY <1>2, <1>3, <1>4, <2>2, <4>1
    <3> QED BY <3>1
  <2>4. given.off[r][(i - 1) + 1] = offHere
    <3>1. (i - 1) + 1 = i
      BY <1>2
    <3> QED BY <3>1
  <2> HIDE DEF r, i, p, w, start, span, offHere, offNext
  <2>5. i - 1 \in 0 .. (Size(given.rules[r]) - 1) /\ i - 1 \in Nat
    BY <1>2, <2>3
  <2>6. p - span \in Nat /\ (p - span) + 1 = start + offHere /\ w <= p - span
    BY <1>2, <1>3, <1>4, <2>2
  <2>7. given.off[r][(i - 1) + 1] \in Nat /\ (p - span) + 1 = start + given.off[r][(i - 1) + 1]
    BY <1>2, <2>4, <2>6
  <2>8. /\ r \in Ids(given) /\ w \in 0 .. (SourceLength - 1) /\ Stands(start, r)
        /\ w \in start .. (start + Length(given, r) - 1)
    BY <1>2, <1>3
  <2> QED BY <1>4, <1>5, <2>1, <2>5, <2>6, <2>7, <2>8, BackwardNext
<1>7. ASSUME BackwardEnter PROVE AtInv'
  <2> DEFINE child == RuleId(Symbol)
             last == Size(given.rules[child]) - 1
  <2>1. IsNonTerminal(Symbol) /\ w + span > p /\ cursor' = Cursor(child, last, p)
    BY <1>2, <1>7 DEF BackwardEnter, EnterBack, Cursor
  <2>2. Stands(start + offHere, child)
    BY <1>2, <1>3, <2>1, StandsChild DEF Symbol
  <2>3. child \in Ids(given) /\ span = Length(given, child) /\ Size(given.rules[child]) \in Nat \ {0}
    BY <1>2, <2>1
  <2>4. last \in Nat /\ last \in 0 .. (Size(given.rules[child]) - 1) /\ given.off[child][last + 1] = span
    <3>1. last \in Nat /\ last + 1 = Size(given.rules[child]) /\ last \in 0 .. last
      <4> HIDE DEF child
      <4> QED BY <2>3
    <3> HIDE DEF child
    <3> QED BY <2>3, <3>1 DEF Length
  <2> HIDE DEF r, i, p, w, start, span, offHere, offNext, child, last
  <2>5. start + offHere \in Nat /\ p + 1 = (start + offHere) + span
    BY <1>2, <1>3, <1>4
  <2>6. w \in (start + offHere) .. ((start + offHere) + span - 1)
    <3>1. w \in Nat /\ p \in Nat /\ span \in Nat /\ w <= p /\ w + span > p
      BY <1>2, <1>3, <2>1
    <3> DEFINE begin == start + offHere
    <3>2. begin \in Nat /\ p + 1 = begin + span
      BY <2>5
    <3> HIDE DEF begin
    <3>3. w \in begin .. (begin + span - 1)
      BY <3>1, <3>2
    <3> QED BY <3>3 DEF begin
  <2>7. p \in Nat /\ w \in 0 .. (SourceLength - 1) /\ w <= p /\ span \in Nat
    BY <1>2, <1>3
  <2>8. /\ given.off[child][last + 1] \in Nat
        /\ p + 1 = (start + offHere) + given.off[child][last + 1]
        /\ w \in (start + offHere) .. ((start + offHere) + Length(given, child) - 1)
    BY <2>3, <2>4, <2>5, <2>6, <2>7
  <2>9. last \in 0 .. (Size(given.rules[child]) - 1) /\ last \in Nat /\ child \in Ids(given)
    BY <2>3, <2>4
  <2> QED BY <1>5, <2>1, <2>2, <2>5, <2>7, <2>8, <2>9, BackwardNext
<1> QED BY <1>6, <1>7

(* Where a scan ends, the symbol at hand is the character wanted. *)
LEMMA FoundInv == WalkInv /\ AtInv /\ (ForwardFound \/ BackwardFound) => AtInv'
<1> SUFFICES ASSUME WalkInv, AtInv, ForwardFound \/ BackwardFound PROVE AtInv'
  OBVIOUS
<1> DEFINE r == cursor.rule
           i == cursor.index
           p == cursor.pos
           w == Wanted
           offHere == given.off[r][i]
           offNext == given.off[r][i + 1]
<1>1. /\ pc \in {"forward", "backward"} /\ pc' = "ready" /\ UNCHANGED lengthVars
      /\ request' = request /\ reply' = << << Symbol >> >> /\ IsTerminal(Symbol)
  BY DEF ForwardFound, BackwardFound
<1>2. /\ given \in Inputs /\ LengthsComputed /\ r \in Ids(given)
      /\ i \in 0 .. (Size(given.rules[r]) - 1) /\ p \in Nat /\ w \in Nat
      /\ request = << AtQuery(w) >>
      /\ offHere \in Nat /\ offNext = offHere + 1
  BY <1>1, AtFacts
<1>3. Symbol = given.text[given.start][w]
  <2>1. CASE ForwardFound
    <3>1. p = w
      <4>1. p >= w /\ p <= w
        BY <2>1 DEF ForwardFound, AtInv, AtFollowsText
      <4> HIDE DEF p, w
      <4> QED BY <1>2, <4>1
    <3>2. Stands(p - offHere, r)
      BY <2>1 DEF ForwardFound, AtInv, AtFollowsText, Encloses, Scanned, Node
    <3>3. given.text[given.start][(p - offHere) + offHere] = Symbol
      BY <1>1, <1>2, <3>2, StandsTerminal DEF Symbol
    <3>4. (p - offHere) + offHere = p
      <4> HIDE DEF p, offHere
      <4> QED BY <1>2
    <3> QED BY <3>1, <3>3, <3>4
  <2>2. CASE BackwardFound
    <3>1. p = w
      <4>1. p <= w /\ w <= p
        BY <2>2 DEF BackwardFound, AtInv, AtFollowsText
      <4> HIDE DEF p, w
      <4> QED BY <1>2, <4>1
    <3>2. Stands(p + 1 - offNext, r)
      BY <2>2 DEF BackwardFound, AtInv, AtFollowsText, Encloses, ScannedBack, Node
    <3>3. given.text[given.start][(p + 1 - offNext) + offHere] = Symbol
      BY <1>1, <1>2, <3>2, StandsTerminal DEF Symbol
    <3>4. (p + 1 - offNext) + offHere = p
      <4> HIDE DEF p, offHere, offNext
      <4> QED BY <1>2
    <3> QED BY <3>1, <3>3, <3>4
  <2> QED BY <2>1, <2>2
<1>4. given' = given /\ Wanted' = w
  BY <1>1, Fixed DEF Wanted
<1>5. OneQuery'
  BY <1>1, <1>2 DEF OneQuery, Building
<1>6. AtFollowsText'
  BY <1>1, <1>3, <1>4 DEF AtFollowsText
<1> QED BY <1>5, <1>6 DEF AtInv

(* substr does not answer for at. *)
LEMMA SubstrOneQuery ==
  AtInv /\ (AskSubstr \/ LeftStep \/ RightStep \/ WriteStep \/ SubstrDone) => AtInv'
<1> SUFFICES ASSUME AtInv, AskSubstr \/ LeftStep \/ RightStep \/ WriteStep \/ SubstrDone PROVE AtInv'
  OBVIOUS
<1>1. ASSUME pc' \in {"block", "left", "leftDone", "right"},
             request' # << >>, request'[1].op = "substr", reply' = << >>
      PROVE  AtInv'
  BY <1>1 DEF AtInv, OneQuery, AtFollowsText, Building
<1>2. CASE AskSubstr
  <2>1. pc' = "block" /\ request' # << >> /\ request'[1].op = "substr" /\ reply' = reply
    BY <1>2 DEF AskSubstr
  <2>2. reply = << >>
    BY <1>2 DEF AskSubstr, AtInv, OneQuery
  <2> QED BY <1>1, <2>1, <2>2
<1>3. CASE LeftStep \/ RightStep
  <2>1. ASSUME StartLeft \/ LeftSkip \/ LeftWriteTerminal \/ LeftWriteRule \/ LeftEnter \/ LeftDone
        PROVE  /\ pc \in {"block", "left"} /\ pc' \in {"left", "leftDone"}
               /\ request' = request /\ reply' = reply
    BY <2>1 DEF StartLeft, LeftSkip, LeftWriteTerminal, LeftWriteRule, LeftEnter, LeftDone, ScanLeft, queryVars
  <2>2. ASSUME StartRight \/ RightSkip \/ RightWriteTerminal \/ RightWriteRule \/ RightEnter \/ RightDone
        PROVE  /\ pc \in {"leftDone", "right"} /\ pc' \in {"right", "block"}
               /\ request' = request /\ reply' = reply
    BY <2>2 DEF StartRight, RightSkip, RightWriteTerminal, RightWriteRule, RightEnter, RightDone, ScanRight, queryVars
  <2> QED BY <1>1, <1>3, <2>1, <2>2 DEF LeftStep, RightStep, AtInv, OneQuery
<1>4. CASE SubstrDone
  <2>1. /\ pc = "block" /\ pc' = "ready" /\ request' = request /\ reply' = << out >>
    BY <1>4 DEF SubstrDone
  <2>2. request # << >> /\ request[1].op = "substr"
    BY <2>1 DEF AtInv, OneQuery
  <2> QED BY <2>1, <2>2 DEF AtInv, OneQuery, AtFollowsText, Building
<1>5. CASE WriteStep
  <2>1. pc \in {"left", "right"} /\ pc' = pc /\ request' = request /\ reply' = reply
    <3>1. ASSUME ReverseTerminal \/ ReverseCall \/ ReversePass \/ ReverseReturn
          PROVE  pc = "left" /\ pc' = pc /\ request' = request /\ reply' = reply
      BY <3>1 DEF ReverseTerminal, ReverseCall, ReversePass, ReverseReturn, WritesReverse
    <3>2. ASSUME ExpandTerminal \/ ExpandCall \/ ExpandPass \/ ExpandReturn
          PROVE  pc = "right" /\ pc' = pc /\ request' = request /\ reply' = reply
      BY <3>2 DEF ExpandTerminal, ExpandCall, ExpandPass, ExpandReturn, WritesForward
    <3> QED BY <1>5, <3>1, <3>2 DEF WriteStep
  <2> QED BY <1>1, <2>1 DEF AtInv, OneQuery
<1> QED BY <1>2, <1>3, <1>4, <1>5

LEMMA AtStepInv ==
  ASSUME WalkInv, AtInv, [Next]_vars
  PROVE  AtInv'
<1>1. CASE Build
  <2>1. Building /\ request' = request /\ reply' = reply
    BY <1>1, BuildStepBuilds DEF Build, queryVars
  <2>2. request = << >> /\ reply = << >>
    BY <2>1 DEF AtInv, OneQuery
  <2>3. pc' \in {"lengths", "next", "scan", "corrupt", "ready"}
    BY <1>1, <2>1 DEF Build, BuildStep, CalculateLengths, BeginSamples, Dequeue, DequeueSpill,
                      ScanTerminal, ScanNonTerminal, FinishScan, FinishBuild, Building
  <2> QED BY <2>1, <2>2, <2>3 DEF AtInv, OneQuery, AtFollowsText
<1>2. CASE AskAt \/ AtStep
  BY <1>2, AskAtInv, ForwardInv, BackwardInv, FoundInv DEF AtStep
<1>3. CASE AskSubstr \/ LeftStep \/ RightStep \/ WriteStep \/ SubstrDone
  BY <1>3, SubstrOneQuery
<1>4. CASE Take
  <2>1. pc' = pc /\ pc = "ready" /\ reply' = << >> /\ request' = << >>
    BY <1>4 DEF Take, AtInv, OneQuery
  <2> QED BY <2>1 DEF AtInv, OneQuery, AtFollowsText
<1>5. CASE Ended \/ UNCHANGED vars
  <2>1. UNCHANGED << lengthVars, cursor, pc, request, reply >>
    BY <1>5 DEF Ended, vars, samplesVars
  <2>2. given' = given /\ SourceLength' = SourceLength
    BY <2>1, Fixed
  <2>3. OneQuery'
    BY <2>1, <2>2 DEF AtInv, OneQuery, Building
  <2>4. AtFollowsText'
    BY <2>1, <2>2 DEF AtInv, AtFollowsText, Encloses, Scanned, ScannedBack, Node, Stands, Wanted
  <2> QED BY <2>3, <2>4 DEF AtInv
<1> QED BY <1>1, <1>2, <1>3, <1>4, <1>5 DEF Next, Compute

(* at reads only symbols that exist, and returns the character of the text *)
(* that was asked for, from every sample, forward and backward.            *)
THEOREM AtCorrectness == Spec => []AtFollowsText
<1>1. Init => AtInv
  BY DEF Init, BuildInit, AtInv, OneQuery, AtFollowsText, Building
<1>2. WalkInv /\ AtInv /\ [Next]_vars => AtInv'
  BY AtStepInv
<1>3. AtInv => AtFollowsText
  BY DEF AtInv
<1> QED BY <1>1, <1>2, <1>3, SamplesInvariance, PTL DEF Spec

-----------------------------------------------------------------------------
(***************************************************************************)
(* substr: parts of the text                                               *)
(***************************************************************************)

LEMMA MaxOfTwo ==
  ASSUME NEW m \in Int, NEW n \in Int
  PROVE  Max({m, n}) = IF m >= n THEN m ELSE n
<1> DEFINE l == IF m >= n THEN m ELSE n
<1>1. l \in {m, n} /\ \A y \in {m, n} : l >= y
  OBVIOUS
<1>2. Max({m, n}) \in {m, n} /\ \A y \in {m, n} : Max({m, n}) >= y
  BY <1>1 DEF Max
<1> HIDE DEF Max
<1> QED BY <1>2

LEMMA MinOfInts ==
  ASSUME NEW m \in Int, NEW n \in Int
  PROVE  Min({m, n}) = IF m <= n THEN m ELSE n
<1> DEFINE l == IF m <= n THEN m ELSE n
<1>1. l \in {m, n} /\ \A y \in {m, n} : l <= y
  OBVIOUS
<1>2. Min({m, n}) \in {m, n} /\ \A y \in {m, n} : Min({m, n}) <= y
  BY <1>1 DEF Min
<1> HIDE DEF Min
<1> QED BY <1>2

(* A part has as many characters as lie between its places, and they are   *)
(* those of the text.                                                      *)
LEMMA PartIs ==
  ASSUME given \in Inputs, LengthsComputed, NEW a \in Nat, NEW b \in Int, b <= SourceLength
  PROVE  /\ Part(a, b) \in Seq(Nat)
         /\ Len(Part(a, b)) = IF a <= b THEN b - a ELSE 0
         /\ \A k \in 1 .. (b - a) : Part(a, b)[k] = given.text[given.start][a + k - 1]
<1> DEFINE n == IF a <= b THEN b - a ELSE 0
           part == Part(a, b)
<1>1. n \in Nat /\ b - a \in Int
  OBVIOUS
<1>2. Max({0, b - a}) = n
  BY <1>1, MaxOfTwo
<1>3. part = [k \in 1 .. n |-> given.text[given.start][a + k - 1]]
  BY <1>2 DEF Part
<1>4. \A k \in 1 .. n : given.text[given.start][a + k - 1] \in Nat
  <2> TAKE k \in 1 .. n
  <2>1. given.start \in Ids(given) /\ SourceLength = Length(given, given.start) /\ SourceLength \in Nat
    BY SourceFacts
  <2>2. a + k - 1 \in 0 .. (SourceLength - 1)
    BY <2>1
  <2>3. given.text[given.start][a + k - 1] \in 0 .. (RuleOffset - 1)
    BY <2>1, <2>2, AnnotatedGiven, TextIsCharacters
  <2> QED BY <2>3
<1>5. part \in [1 .. n -> Nat]
  BY <1>3, <1>4
<1>6. \A k \in 1 .. n : part[k] = given.text[given.start][a + k - 1]
  BY <1>3
<1>7. \A k \in 1 .. (b - a) : k \in 1 .. n
  OBVIOUS
<1> HIDE DEF part
<1>8. part \in Seq(Nat) /\ Len(part) = n
  <2> HIDE DEF n
  <2> QED BY <1>1, <1>5
<1> QED BY <1>6, <1>7, <1>8 DEF part

LEMMA PartEmpty ==
  ASSUME given \in Inputs, LengthsComputed, NEW a \in Nat, NEW b \in Int, b <= SourceLength, b <= a
  PROVE  Part(a, b) = << >>
<1>1. Part(a, b) \in Seq(Nat) /\ Len(Part(a, b)) = 0
  BY PartIs
<1> QED BY <1>1

(* Two parts, the second of which begins where the first one ends. *)
LEMMA PartsJoin ==
  ASSUME given \in Inputs, LengthsComputed, NEW a \in Nat, NEW b \in Nat, NEW c \in Nat,
         a <= b, b <= c, c <= SourceLength
  PROVE  Part(a, b) \o Part(b, c) = Part(a, c)
<1> DEFINE s == Part(a, b)
           t == Part(b, c)
           u == Part(a, c)
           char(k) == given.text[given.start][k]
<1>1. SourceLength \in Nat /\ b \in Int /\ c \in Int /\ b <= SourceLength
  BY SourceFacts
<1>2. /\ s \in Seq(Nat) /\ Len(s) = b - a /\ \A k \in 1 .. (b - a) : s[k] = char(a + k - 1)
  BY <1>1, PartIs
<1>3. /\ t \in Seq(Nat) /\ Len(t) = c - b /\ \A k \in 1 .. (c - b) : t[k] = char(b + k - 1)
  BY <1>1, PartIs
<1>4. /\ u \in Seq(Nat) /\ Len(u) = c - a /\ \A k \in 1 .. (c - a) : u[k] = char(a + k - 1)
  BY <1>1, PartIs
<1> HIDE DEF s, t, u, char
<1>5. /\ s \o t \in Seq(Nat) /\ Len(s \o t) = Len(s) + Len(t)
      /\ \A k \in 1 .. Len(s) + Len(t) : (s \o t)[k] = IF k <= Len(s) THEN s[k] ELSE t[k - Len(s)]
  BY <1>2, <1>3, ConcatProperties
<1>6. \A k \in 1 .. (c - a) : (s \o t)[k] = u[k]
  <2> TAKE k \in 1 .. (c - a)
  <2>1. CASE k <= b - a
    <3>1. k \in 1 .. (b - a)
      BY <2>1
    <3> QED BY <1>2, <1>3, <1>4, <1>5, <3>1
  <2>2. CASE ~(k <= b - a)
    <3>1. k - (b - a) \in 1 .. (c - b) /\ b + (k - (b - a)) - 1 = a + k - 1
      BY <2>2
    <3>2. (s \o t)[k] = t[k - (b - a)]
      <4>1. Len(s) = b - a /\ k \in 1 .. Len(s) + Len(t) /\ ~(k <= Len(s))
        BY <1>2, <1>3, <2>2
      <4>2. (s \o t)[k] = t[k - Len(s)]
        BY <1>5, <4>1, Zenon
      <4> QED BY <4>1, <4>2
    <3>3. t[k - (b - a)] = char(a + k - 1)
      BY <1>3, <3>1
    <3> QED BY <1>4, <3>2, <3>3
  <2> QED BY <2>1, <2>2
<1>7. Len(s \o t) = Len(u)
  BY <1>2, <1>3, <1>4, <1>5
<1>8. s \o t = u
  BY <1>4, <1>5, <1>6, <1>7, SeqEqual
<1> QED BY <1>8 DEF s, t, u

(* A part grows by the character at its end. *)
LEMMA PartGrows ==
  ASSUME given \in Inputs, LengthsComputed, NEW a \in Nat, NEW b \in Nat, a <= b, b < SourceLength
  PROVE  Part(a, b + 1) = Append(Part(a, b), given.text[given.start][b])
<1> DEFINE s == Part(a, b)
           u == Part(a, b + 1)
           char(k) == given.text[given.start][k]
<1>1. /\ SourceLength \in Nat /\ b \in Int /\ b <= SourceLength
      /\ b + 1 \in Int /\ b + 1 <= SourceLength /\ a <= b + 1
  BY SourceFacts
<1>2. /\ s \in Seq(Nat) /\ Len(s) = b - a /\ \A k \in 1 .. (b - a) : s[k] = char(a + k - 1)
  BY <1>1, PartIs
<1>3. /\ u \in Seq(Nat) /\ Len(u) = (b + 1) - a
      /\ \A k \in 1 .. ((b + 1) - a) : u[k] = char(a + k - 1)
  BY <1>1, PartIs
<1> HIDE DEF s, u, char
<1>4. u[b - a + 1] = char(b)
  <2>1. b - a + 1 \in 1 .. ((b + 1) - a) /\ a + (b - a + 1) - 1 = b
    OBVIOUS
  <2> QED BY <1>3, <2>1
<1>5. char(b) \in Nat
  <2>1. b - a + 1 \in 1 .. Len(u)
    BY <1>3
  <2> QED BY <1>3, <1>4, <2>1
<1> DEFINE e == char(b)
           v == Append(s, e)
<1>6. /\ v \in Seq(Nat) /\ Len(v) = Len(s) + 1 /\ v[Len(s) + 1] = e
      /\ \A k \in 1 .. Len(s) : v[k] = s[k]
  <2> HIDE DEF e
  <2> QED BY <1>2, <1>5, AppendProperties DEF e
<1> HIDE DEF e, v
<1>7. \A k \in 1 .. Len(u) : u[k] = v[k]
  <2> TAKE k \in 1 .. Len(u)
  <2>1. CASE k = b - a + 1
    BY <1>2, <1>4, <1>6, <2>1 DEF e
  <2>2. CASE k # b - a + 1
    <3>1. k \in 1 .. (b - a) /\ k \in 1 .. ((b + 1) - a)
      BY <1>3, <2>2
    <3>2. v[k] = s[k]
      BY <1>2, <1>6, <3>1
    <3> QED BY <1>2, <1>3, <3>1, <3>2
  <2> QED BY <2>1, <2>2
<1>8. u = v
  <2>1. Len(u) = Len(v)
    BY <1>2, <1>3, <1>6
  <2> QED BY <1>3, <1>6, <1>7, <2>1, SeqEqual
<1> QED BY <1>8 DEF s, u, v, e, char

(* Of what a scan collects backwards, a character put on top comes first.  *)
LEMMA ReverseAppends ==
  ASSUME NEW o \in Seq(Nat), NEW p \in Seq(Nat), NEW s \in Seq(Nat), NEW c \in Nat
  PROVE  o \o p \o Reverse(Append(s, c)) = o \o Append(p, c) \o Reverse(s)
<1> DEFINE S == Nat
<1> o \in Seq(S) /\ p \in Seq(S) /\ s \in Seq(S) /\ c \in S
  OBVIOUS
<1> HIDE DEF S
<1> DEFINE r == Reverse(s)
           t == Reverse(Append(s, c))
<1>1. r \in Seq(S) /\ Len(r) = Len(s) /\ \A k \in 1 .. Len(s) : r[k] = s[Len(s) - k + 1]
  BY DEF Reverse
<1>2. /\ Append(s, c) \in Seq(S) /\ Len(Append(s, c)) = Len(s) + 1
      /\ Append(s, c)[Len(s) + 1] = c /\ \A k \in 1 .. Len(s) : Append(s, c)[k] = s[k]
  BY AppendProperties
<1>3. /\ t \in Seq(S) /\ Len(t) = Len(s) + 1
      /\ \A k \in 1 .. (Len(s) + 1) : t[k] = Append(s, c)[(Len(s) + 1) - k + 1]
  BY <1>2 DEF Reverse
<1> HIDE DEF r, t
<1>4. t[1] = c /\ \A k \in 1 .. Len(s) : t[k + 1] = r[k]
  <2>1. Len(s) \in Nat
    OBVIOUS
  <2>2. 1 \in 1 .. (Len(s) + 1) /\ (Len(s) + 1) - 1 + 1 = Len(s) + 1
    BY <2>1
  <2>3. t[1] = c
    BY <1>2, <1>3, <2>2
  <2>4. ASSUME NEW k \in 1 .. Len(s) PROVE t[k + 1] = r[k]
    <3>1. /\ k + 1 \in 1 .. (Len(s) + 1) /\ Len(s) - k + 1 \in 1 .. Len(s)
          /\ (Len(s) + 1) - (k + 1) + 1 = Len(s) - k + 1
      BY <2>1
    <3>2. t[k + 1] = Append(s, c)[(Len(s) + 1) - (k + 1) + 1]
      BY <1>3, <3>1, Zenon
    <3>3. t[k + 1] = Append(s, c)[Len(s) - k + 1]
      BY <3>1, <3>2, Zenon
    <3> QED BY <1>1, <1>2, <3>1, <3>3
  <2> QED BY <2>3, <2>4
<1>5. t = << c >> \o r
  <2>1. << c >> \in Seq(S) /\ Len(<< c >>) = 1 /\ << c >>[1] = c
    OBVIOUS
  <2>2. /\ << c >> \o r \in Seq(S) /\ Len(<< c >> \o r) = Len(s) + 1
        /\ \A k \in 1 .. (1 + Len(s)) : (<< c >> \o r)[k] = IF k <= 1 THEN << c >>[k] ELSE r[k - 1]
    BY <1>1, <2>1, ConcatProperties
  <2>3. \A k \in 1 .. (Len(s) + 1) : (<< c >> \o r)[k] = t[k]
    <3> TAKE k \in 1 .. (Len(s) + 1)
    <3>1. CASE k = 1
      BY <1>4, <2>1, <2>2, <3>1
    <3>2. CASE k # 1
      <4>1. k - 1 \in 1 .. Len(s) /\ (k - 1) + 1 = k
        BY <3>2
      <4>2. (<< c >> \o r)[k] = r[k - 1]
        BY <2>2, <3>2
      <4> QED BY <1>4, <4>1, <4>2
    <3> QED BY <3>1, <3>2
  <2> QED BY <1>3, <2>2, <2>3, SeqEqual
<1>6. Append(p, c) = p \o << c >>
  BY AppendIsConcat
<1>7. o \o p \in Seq(S) /\ << c >> \in Seq(S)
  OBVIOUS
<1>8. (o \o p) \o (<< c >> \o r) = ((o \o p) \o << c >>) \o r
  <2> DEFINE op == o \o p
             one == << c >>
  <2>1. op \in Seq(S) /\ one \in Seq(S)
    BY <1>7
  <2> HIDE DEF op, one
  <2>2. r \in Seq(S)
    BY <1>1
  <2>3. (op \o one) \o r = op \o (one \o r)
    BY <2>1, <2>2, ConcatAssociative, SMTT(60)
  <2> QED BY <2>3 DEF op, one
<1>9. (o \o p) \o << c >> = o \o (p \o << c >>)
  <2> DEFINE one == << c >>
  <2>1. one \in Seq(S)
    BY <1>7
  <2> HIDE DEF one
  <2>2. (o \o p) \o one = o \o (p \o one)
    BY <2>1, ConcatAssociative
  <2> QED BY <2>2 DEF one
<1> QED BY <1>5, <1>6, <1>8, <1>9 DEF r, t

-----------------------------------------------------------------------------
(***************************************************************************)
(* A scan and its calls of write_expansion(_reverse)                       *)
(***************************************************************************)

Depth == Len(writing)

(* The innermost call, or the scan itself if none runs, and the symbol it  *)
(* is at.                                                                  *)
Inner == Calling(Depth)

InnerSymbol == At(given.rules[Inner.rule], Inner.index)

ScanType ==
  /\ cursor \in [rule : Ids(given), index : Int, pos : Int]
  /\ writing \in Seq([rule : Ids(given), index : Int])

ScanState(place) ==
  /\ given \in Inputs /\ LengthsComputed
  /\ pc \in {"left", "right"}
  /\ ScanType
  /\ ScanInv(place)

LEMMA InnerFacts ==
  ASSUME NEW place, ScanState(place)
  PROVE  /\ Depth \in Nat
         /\ Inner.rule \in Ids(given) /\ Inner.index \in Int
         /\ Size(given.rules[Inner.rule]) \in Nat \ {0}
         /\ Length(given, Inner.rule) \in Nat
         /\ place[Depth] \in Nat /\ Stands(place[Depth], Inner.rule)
         /\ place[Depth] + Length(given, Inner.rule) <= SourceLength
         /\ Back \in Nat
         /\ Inner.index + Back \in 0 .. Size(given.rules[Inner.rule])
         /\ given.off[Inner.rule][Inner.index + Back] \in Nat
         /\ place[Depth] + given.off[Inner.rule][Inner.index + Back] = cursor.pos + Back
         /\ cursor.pos \in Int
         /\ SourceLength \in Nat
<1> DEFINE r == Inner.rule
           i == Inner.index
<1>1. /\ given \in Inputs /\ LengthsComputed /\ ScanType /\ CallsStand(place) /\ CallsNested(place)
      /\ Depth \in Nat /\ SourceLength \in Nat
  BY SourceFacts DEF ScanState, ScanInv, ScanType, Depth
<1>2. i \in Int /\ cursor.pos \in Int
  <2>1. cursor.index \in Int /\ cursor.pos \in Int
    BY <1>1 DEF ScanType
  <2>2. ASSUME Depth # 0 PROVE writing[Depth].index \in Int
    <3>1. Depth \in 1 .. Len(writing)
      BY <1>1, <2>2 DEF Depth
    <3> DEFINE CallType == [rule : Ids(given), index : Int]
    <3>2. writing \in Seq(CallType)
      BY <1>1 DEF ScanType
    <3> HIDE DEF CallType
    <3>3. writing[Depth] \in CallType
      BY <3>1, <3>2
    <3> QED BY <3>3 DEF CallType
  <2> QED BY <2>1, <2>2 DEF Inner, Calling
<1>3. Depth \in 0 .. Len(writing)
  BY <1>1 DEF Depth
<1>4. /\ r \in Ids(given) /\ i + Back \in 0 .. Size(given.rules[r])
      /\ place[Depth] \in Nat /\ Stands(place[Depth], r)
  BY <1>1, <1>3 DEF CallsStand, Inner, Edge
<1>5. place[Depth] + given.off[r][i + Back] = cursor.pos + Back
  BY <1>1 DEF CallsNested, EdgePlace, Inner, Edge, Depth
<1>6. Size(given.rules[r]) \in Nat \ {0} /\ given.off[r][i + Back] \in Nat /\ Length(given, r) \in Nat
  BY <1>1, <1>4, OffsetFacts, LengthNat, RulesAssumption
<1>7. place[Depth] \in 0 .. (SourceLength - Length(given, r))
  BY <1>4 DEF Stands
<1>8. place[Depth] + Length(given, r) <= SourceLength
  <2> HIDE DEF r
  <2> QED BY <1>1, <1>4, <1>6, <1>7
<1> QED BY <1>1, <1>2, <1>4, <1>5, <1>6, <1>8 DEF Back

(* The symbol the innermost call is at, if there is one, stands in the     *)
(* text where it is said to begin, forward at source_index and backward    *)
(* such that it ends there.                                                *)
LEMMA InnerSymbolFacts ==
  ASSUME NEW place, ScanState(place), Inner.index \in 0 .. (Size(given.rules[Inner.rule]) - 1)
  PROVE  LET span  == SymbolLength(Inner.rule, Inner.index)
             begin == IF pc = "left" THEN cursor.pos - span + 1 ELSE cursor.pos
         IN  /\ span \in Nat \ {0} /\ begin \in Nat
             /\ begin = place[Depth] + given.off[Inner.rule][Inner.index]
             /\ begin + span = place[Depth] + given.off[Inner.rule][Inner.index + 1]
             /\ begin + span <= place[Depth] + Length(given, Inner.rule)
             /\ IsTerminal(InnerSymbol) =>
                  span = 1 /\ given.text[given.start][begin] = InnerSymbol /\ InnerSymbol \in Nat
             /\ IsNonTerminal(InnerSymbol) =>
                  /\ RuleId(InnerSymbol) \in Ids(given)
                  /\ span = Length(given, RuleId(InnerSymbol))
                  /\ Size(given.rules[RuleId(InnerSymbol)]) \in Nat \ {0}
                  /\ Stands(begin, RuleId(InnerSymbol))
<1> DEFINE r == Inner.rule
           i == Inner.index
           span == SymbolLength(r, i)
           begin == IF pc = "left" THEN cursor.pos - span + 1 ELSE cursor.pos
           offHere == given.off[r][i]
           offNext == given.off[r][i + 1]
           p == place[Depth]
<1>1. /\ given \in Inputs /\ LengthsComputed /\ pc \in {"left", "right"}
      /\ r \in Ids(given) /\ i \in 0 .. (Size(given.rules[r]) - 1) /\ i \in Nat
      /\ p \in Nat /\ Stands(p, r) /\ cursor.pos \in Int /\ Length(given, r) \in Nat
      /\ p + given.off[r][i + Back] = cursor.pos + Back
  BY InnerFacts DEF ScanState
<1>2. IsNonTerminal(InnerSymbol) => RuleId(InnerSymbol) \in Ids(given)
  BY <1>1, SymbolBelow DEF InnerSymbol
<1>3. span = SymbolSpan(given, r, i)
  BY <1>1, <1>2, SourceFacts DEF SymbolLength, SymbolSpan, InnerSymbol, IsNonTerminal
<1>4. /\ offHere \in Nat /\ offNext = offHere + span /\ span \in Nat \ {0}
      /\ offNext <= Length(given, r)
  BY <1>1, <1>3, SymbolPlace, SpanPositive
<1>5. begin = p + offHere
  <2>1. CASE pc = "left"
    <3>1. p + offNext = cursor.pos + 1
      BY <1>1, <2>1 DEF Back
    <3>2. begin = cursor.pos - span + 1
      BY <2>1
    <3> HIDE DEF begin, span, offHere, offNext, p
    <3> QED BY <1>1, <1>4, <3>1, <3>2
  <2>2. CASE pc = "right"
    <3>1. i + Back = i
      BY <1>1, <2>2 DEF Back
    <3>2. p + offHere = cursor.pos + Back /\ Back = 0
      BY <1>1, <2>2, <3>1 DEF Back
    <3>3. begin = cursor.pos
      BY <2>2
    <3> HIDE DEF begin, offHere, p
    <3> QED BY <1>1, <3>2, <3>3
  <2> QED BY <1>1, <2>1, <2>2
<1>6. IsTerminal(InnerSymbol) => span = 1
  BY <1>3 DEF SymbolSpan, InnerSymbol
<1>7. IsTerminal(InnerSymbol) => given.text[given.start][begin] = InnerSymbol
  BY <1>1, <1>5, StandsTerminal DEF InnerSymbol
<1>8. InnerSymbol \in Nat
  BY <1>1, AnnotatedGiven, SymbolDescends DEF InnerSymbol
<1>9. IsNonTerminal(InnerSymbol) =>
        /\ span = Length(given, RuleId(InnerSymbol))
        /\ Size(given.rules[RuleId(InnerSymbol)]) \in Nat \ {0}
        /\ Stands(begin, RuleId(InnerSymbol))
  <2>1. IsNonTerminal(InnerSymbol) => span = Length(given, RuleId(InnerSymbol))
    BY <1>3 DEF SymbolSpan, InnerSymbol, IsNonTerminal
  <2>2. IsNonTerminal(InnerSymbol) => Stands(begin, RuleId(InnerSymbol))
    BY <1>1, <1>5, StandsChild DEF InnerSymbol
  <2>3. IsNonTerminal(InnerSymbol) => Size(given.rules[RuleId(InnerSymbol)]) \in Nat \ {0}
    BY <1>1, <1>2, OffsetFacts, RulesAssumption
  <2> QED BY <2>1, <2>2, <2>3
<1>10. /\ begin \in Nat /\ begin + span = p + offNext
       /\ begin + span <= p + Length(given, r)
  <2> HIDE DEF begin, span, offHere, offNext, p, r
  <2> QED BY <1>1, <1>4, <1>5
<1> QED BY <1>2, <1>4, <1>5, <1>6, <1>7, <1>8, <1>9, <1>10

(* What stands where does not depend on the queries. *)
LEMMA StandsFixed ==
  ASSUME UNCHANGED lengthVars
  PROVE  /\ given' = given /\ SourceLength' = SourceLength
         /\ \A p, r : Stands(p, r)' = Stands(p, r)
         /\ \A r : Length(given, r)' = Length(given, r)
<1>1. given' = given /\ SourceLength' = SourceLength
  BY Fixed
<1> QED BY <1>1 DEF Stands, Length

(* The innermost call moves its edge, and the scan with it. *)
LEMMA InnerMoves ==
  ASSUME NEW place, ScanState(place), NEW n, n = Depth, UNCHANGED << lengthVars, pc >>,
         Len(writing') = n,
         \A k \in 0 .. n : Calling(k)'.rule = Calling(k).rule,
         \A k \in 0 .. (n - 1) : Calling(k)'.index = Calling(k).index,
         NEW i \in Int, Calling(n)'.index = i,
         i + Back \in 0 .. Size(given.rules[Inner.rule]),
         place[n] + given.off[Inner.rule][i + Back] = cursor'.pos + Back
  PROVE  CallsStand(place)' /\ CallsNested(place)'
<1>1. /\ CallsStand(place) /\ CallsNested(place) /\ n \in Nat /\ n = Len(writing) /\ Inner = Calling(n)
      /\ given' = given /\ Back' = Back
      /\ \A p, r : Stands(p, r)' = Stands(p, r)
      /\ \A r : Length(given, r)' = Length(given, r)
  BY InnerFacts, StandsFixed DEF ScanState, ScanInv, Depth, Inner, Back
<1>2. n \in 0 .. n /\ Calling(n) = Inner
  BY <1>1
<1>3. \A k \in 0 .. n : Edge(k)' = IF k = n THEN i + Back ELSE Edge(k)
  <2> TAKE k \in 0 .. n
  <2>1. CASE k = n
    BY <1>1, <2>1 DEF Edge
  <2>2. CASE k # n
    <3>1. k \in 0 .. (n - 1)
      BY <1>1, <2>2
    <3>2. Calling(k)'.index = Calling(k).index
      BY <3>1
    <3> QED BY <1>1, <2>2, <3>2 DEF Edge
  <2> QED BY <2>1, <2>2
<1>4. CallsStand(place)'
  <2> SUFFICES ASSUME NEW k \in 0 .. n
               PROVE  /\ Calling(k)'.rule \in Ids(given)
                      /\ Edge(k)' \in 0 .. Size(given.rules[Calling(k)'.rule])
                      /\ place[k] \in Nat /\ Stands(place[k], Calling(k)'.rule)
    BY <1>1 DEF CallsStand
  <2>1. /\ Calling(k).rule \in Ids(given) /\ place[k] \in Nat /\ Stands(place[k], Calling(k).rule)
        /\ Edge(k) \in 0 .. Size(given.rules[Calling(k).rule])
        /\ Calling(k)'.rule = Calling(k).rule
    BY <1>1 DEF CallsStand
  <2> QED BY <1>2, <1>3, <2>1
<1>5. \A k \in 0 .. (n - 1) : EdgePlace(place, k)' = EdgePlace(place, k)
  <2> TAKE k \in 0 .. (n - 1)
  <2>1. k \in 0 .. n /\ k # n
    BY <1>1
  <2>2. Edge(k)' = Edge(k) /\ Calling(k)'.rule = Calling(k).rule
    BY <1>3, <2>1
  <2> QED BY <1>1, <2>2 DEF EdgePlace
<1>6. EdgePlace(place, n)' = cursor'.pos + Back
  <2>1. Edge(n)' = i + Back /\ Calling(n)'.rule = Inner.rule
    BY <1>2, <1>3
  <2> QED BY <1>1, <2>1 DEF EdgePlace
<1>7. CallsNested(place)'
  <2>1. EdgePlace(place, Len(writing))' = cursor'.pos + Back'
    <3>1. EdgePlace(place, Len(writing))' = EdgePlace(place, n)'
      BY <1>1 DEF EdgePlace
    <3> QED BY <1>1, <1>6, <3>1
  <2>2. ASSUME NEW k \in 0 .. (n - 1)
        PROVE  EdgePlace(place, k)'
                 = place[k + 1] + (IF pc = "left" THEN 0 ELSE Length(given, Calling(k + 1)'.rule))
    <3>1. k + 1 \in 0 .. n
      BY <1>1
    <3>2. Calling(k + 1)'.rule = Calling(k + 1).rule
      BY <3>1
    <3>3. EdgePlace(place, k)
            = place[k + 1] + (IF pc = "left" THEN 0 ELSE Length(given, Calling(k + 1).rule))
      BY <1>1 DEF CallsNested
    <3> QED BY <1>5, <3>2, <3>3
  <2> QED BY <1>1, <2>1, <2>2 DEF CallsNested
<1> QED BY <1>4, <1>7

(* The innermost call passes a symbol and makes a call for it, which       *)
(* begins at its near end.                                                 *)
LEMMA InnerCalls ==
  ASSUME NEW place, ScanState(place), NEW n, n = Depth, UNCHANGED << lengthVars, pc >>,
         Len(writing') = n + 1,
         \A k \in 0 .. n : Calling(k)'.rule = Calling(k).rule,
         \A k \in 0 .. (n - 1) : Calling(k)'.index = Calling(k).index,
         NEW i \in Int, Calling(n)'.index = i,
         i + Back \in 0 .. Size(given.rules[Inner.rule]),
         NEW child \in Ids(given), NEW j \in Int, NEW p \in Nat, Stands(p, child),
         Calling(n + 1)'.rule = child, Calling(n + 1)'.index = j,
         j + Back \in 0 .. Size(given.rules[child]),
         p + given.off[child][j + Back] = cursor'.pos + Back,
         place[n] + given.off[Inner.rule][i + Back]
           = p + (IF pc = "left" THEN 0 ELSE Length(given, child)),
         NEW place2, place2[n + 1] = p, \A k \in 0 .. n : place2[k] = place[k]
  PROVE  CallsStand(place2)' /\ CallsNested(place2)'
<1>1. /\ CallsStand(place) /\ CallsNested(place) /\ n \in Nat /\ n = Len(writing) /\ Inner = Calling(n)
      /\ given' = given /\ Back' = Back
      /\ \A q, r : Stands(q, r)' = Stands(q, r)
      /\ \A r : Length(given, r)' = Length(given, r)
  BY InnerFacts, StandsFixed DEF ScanState, ScanInv, Depth, Inner, Back
<1>2. n \in 0 .. n /\ Calling(n) = Inner /\ n + 1 \in 0 .. (n + 1)
  BY <1>1
<1>3. \A k \in 0 .. n : Edge(k)' = IF k = n THEN i + Back ELSE Edge(k)
  <2> TAKE k \in 0 .. n
  <2>1. CASE k = n
    BY <1>1, <2>1 DEF Edge
  <2>2. CASE k # n
    <3>1. k \in 0 .. (n - 1)
      BY <1>1, <2>2
    <3>2. Calling(k)'.index = Calling(k).index
      BY <3>1
    <3> QED BY <1>1, <2>2, <3>2 DEF Edge
  <2> QED BY <2>1, <2>2
<1>4. Edge(n + 1)' = j + Back
  BY <1>1 DEF Edge
<1>5. CallsStand(place2)'
  <2> SUFFICES ASSUME NEW k \in 0 .. (n + 1)
               PROVE  /\ Calling(k)'.rule \in Ids(given)
                      /\ Edge(k)' \in 0 .. Size(given.rules[Calling(k)'.rule])
                      /\ place2[k] \in Nat /\ Stands(place2[k], Calling(k)'.rule)
    BY <1>1 DEF CallsStand
  <2>1. CASE k = n + 1
    BY <1>4, <2>1
  <2>2. CASE k # n + 1
    <3>1. k \in 0 .. n
      BY <1>1, <2>2
    <3>2. /\ Calling(k).rule \in Ids(given) /\ place[k] \in Nat /\ Stands(place[k], Calling(k).rule)
          /\ Edge(k) \in 0 .. Size(given.rules[Calling(k).rule])
          /\ Calling(k)'.rule = Calling(k).rule /\ place2[k] = place[k]
      BY <1>1, <3>1 DEF CallsStand
    <3> QED BY <1>2, <1>3, <3>1, <3>2
  <2> QED BY <2>1, <2>2
<1>6. \A k \in 0 .. (n - 1) : EdgePlace(place2, k)' = EdgePlace(place, k)
  <2> TAKE k \in 0 .. (n - 1)
  <2>1. k \in 0 .. n /\ k # n
    BY <1>1
  <2>2. Edge(k)' = Edge(k) /\ Calling(k)'.rule = Calling(k).rule /\ place2[k] = place[k]
    BY <1>3, <2>1
  <2> QED BY <1>1, <2>2 DEF EdgePlace
<1>7. EdgePlace(place2, n)' = p + (IF pc = "left" THEN 0 ELSE Length(given, child))
  <2>1. Edge(n)' = i + Back /\ Calling(n)'.rule = Inner.rule /\ place2[n] = place[n]
    BY <1>2, <1>3
  <2> QED BY <1>1, <2>1 DEF EdgePlace
<1>8. EdgePlace(place2, n + 1)' = cursor'.pos + Back
  BY <1>1, <1>4 DEF EdgePlace
<1>9. CallsNested(place2)'
  <2>1. EdgePlace(place2, Len(writing))' = cursor'.pos + Back'
    <3>1. EdgePlace(place2, Len(writing))' = EdgePlace(place2, n + 1)'
      BY <1>1 DEF EdgePlace
    <3> QED BY <1>1, <1>8, <3>1
  <2>2. ASSUME NEW k \in 0 .. n
        PROVE  EdgePlace(place2, k)'
                 = place2[k + 1] + (IF pc = "left" THEN 0 ELSE Length(given, Calling(k + 1)'.rule))
    <3>1. CASE k = n
      BY <1>7, <3>1
    <3>2. CASE k # n
      <4>1. k \in 0 .. (n - 1) /\ k + 1 \in 0 .. n
        BY <1>1, <3>2
      <4>2. Calling(k + 1)'.rule = Calling(k + 1).rule /\ place2[k + 1] = place[k + 1]
        BY <4>1
      <4>3. EdgePlace(place, k)
              = place[k + 1] + (IF pc = "left" THEN 0 ELSE Length(given, Calling(k + 1).rule))
        BY <1>1, <4>1 DEF CallsNested
      <4> QED BY <1>6, <4>1, <4>2, <4>3
    <3> QED BY <3>1, <3>2
  <2>3. Len(writing') - 1 = n
    BY <1>1
  <2> QED BY <1>1, <2>1, <2>2, <2>3 DEF CallsNested
<1> QED BY <1>5, <1>9

(* A call that is through its rule leaves its caller where the scan is.    *)
LEMMA InnerReturns ==
  ASSUME NEW place, ScanState(place), NEW n, n = Depth, n # 0, UNCHANGED << lengthVars, pc, cursor >>,
         writing' = Front(writing),
         Inner.index + Back = (IF pc = "left" THEN 0 ELSE Size(given.rules[Inner.rule]))
  PROVE  CallsStand(place)' /\ CallsNested(place)' /\ ScanType' /\ Len(writing') = n - 1
           /\ \A k \in 0 .. (n - 1) : Calling(k)' = Calling(k)
<1>1. /\ CallsStand(place) /\ CallsNested(place) /\ n \in Nat /\ n = Len(writing) /\ Inner = Calling(n)
      /\ given' = given /\ Back' = Back /\ ScanType
      /\ \A p, r : Stands(p, r)' = Stands(p, r)
      /\ \A r : Length(given, r)' = Length(given, r)
  BY InnerFacts, StandsFixed DEF ScanState, ScanInv, Depth, Inner, Back
<1>2. /\ Len(writing') = n - 1
      /\ \A k \in 1 .. (n - 1) : writing'[k] = writing[k]
      /\ writing' \in Seq([rule : Ids(given), index : Int])
  <2> DEFINE CallType == [rule : Ids(given), index : Int]
  <2>1. writing \in Seq(CallType) /\ writing' = SubSeq(writing, 1, n - 1)
    BY <1>1 DEF ScanType, Front
  <2> HIDE DEF CallType
  <2>2. /\ Len(writing') = n - 1
        /\ \A k \in 1 .. (n - 1) : writing'[k] = writing[k]
        /\ writing' \in Seq(CallType)
    BY <1>1, <2>1
  <2> QED BY <2>2 DEF CallType
<1>3. \A k \in 0 .. (n - 1) : Calling(k)' = Calling(k)
  <2> TAKE k \in 0 .. (n - 1)
  <2>1. k # 0 => k \in 1 .. (n - 1)
    BY <1>1
  <2> QED BY <1>2, <2>1 DEF Calling
<1>4. ScanType'
  BY <1>1, <1>2 DEF ScanType, Ids
<1>5. \A k \in 0 .. (n - 1) : Edge(k)' = Edge(k) /\ EdgePlace(place, k)' = EdgePlace(place, k)
  BY <1>1, <1>3 DEF Edge, EdgePlace
<1>6. CallsStand(place)'
  <2> SUFFICES ASSUME NEW k \in 0 .. (n - 1)
               PROVE  /\ Calling(k)'.rule \in Ids(given)
                      /\ Edge(k)' \in 0 .. Size(given.rules[Calling(k)'.rule])
                      /\ place[k] \in Nat /\ Stands(place[k], Calling(k)'.rule)
    BY <1>1, <1>2 DEF CallsStand
  <2>1. k \in 0 .. n
    BY <1>1
  <2> QED BY <1>1, <1>3, <1>5, <2>1 DEF CallsStand
<1>7. EdgePlace(place, n) = place[n] + (IF pc = "left" THEN 0 ELSE Length(given, Inner.rule))
  <2>1. Edge(n) = (IF pc = "left" THEN 0 ELSE Size(given.rules[Inner.rule]))
    BY <1>1 DEF Edge
  <2>2. given.off[Inner.rule][0] = 0
    BY InnerFacts, OffsetFacts DEF ScanState
  <2> QED BY <1>1, <2>1, <2>2 DEF EdgePlace, Length
<1>8. EdgePlace(place, n - 1) = cursor.pos + Back
  <2>1. n - 1 \in 0 .. (n - 1) /\ (n - 1) + 1 = n
    BY <1>1
  <2>2. EdgePlace(place, n - 1) = place[n] + (IF pc = "left" THEN 0 ELSE Length(given, Inner.rule))
    BY <1>1, <2>1 DEF CallsNested
  <2> QED BY <1>1, <1>7, <2>2 DEF CallsNested
<1>9. CallsNested(place)'
  <2>1. EdgePlace(place, Len(writing))' = cursor'.pos + Back'
    <3>1. EdgePlace(place, Len(writing))' = EdgePlace(place, n - 1)'
      BY <1>2 DEF EdgePlace
    <3>2. n - 1 \in 0 .. (n - 1)
      BY <1>1
    <3> QED BY <1>1, <1>5, <1>8, <3>1, <3>2
  <2>2. ASSUME NEW k \in 0 .. (n - 2)
        PROVE  EdgePlace(place, k)'
                 = place[k + 1] + (IF pc = "left" THEN 0 ELSE Length(given, Calling(k + 1)'.rule))
    <3>1. k + 1 \in 0 .. (n - 1) /\ k \in 0 .. (n - 1)
      BY <1>1
    <3>2. Calling(k + 1)'.rule = Calling(k + 1).rule
      BY <1>3, <3>1
    <3>3. EdgePlace(place, k)
            = place[k + 1] + (IF pc = "left" THEN 0 ELSE Length(given, Calling(k + 1).rule))
      BY <1>1, <3>1 DEF CallsNested
    <3> QED BY <1>5, <3>1, <3>2, <3>3
  <2>3. Len(writing') - 1 = n - 2
    BY <1>1, <1>2
  <2> QED BY <1>1, <2>1, <2>2, <2>3 DEF CallsNested
<1> QED BY <1>2, <1>3, <1>4, <1>6, <1>9

(* What is known while a scan runs. *)
LEMMA RunningScan ==
  ASSUME NEW place, WalkInv, AtInv, SubstrInv(place), pc \in {"left", "right"}
  PROVE  /\ given \in Inputs /\ LengthsComputed
         /\ ScanState(place)
         /\ request # << >> /\ request[1].from \in Nat
         /\ lo \in Nat /\ hi \in Nat /\ lo < hi /\ hi <= SourceLength
         /\ request[1].from <= lo
         /\ out \in Seq(Nat) /\ charStack \in Seq(Nat)
         /\ cursor.pos \in Int /\ cursor.rule \in Ids(given) /\ cursor.index \in Int
         /\ InSubstr /\ RangeInv /\ ScanType /\ ScanInv(place) /\ WrittenSoFar
<1> DEFINE from == request[1].from
           len  == request[1].len
<1>1. InSubstr /\ pc # "lengths"
  BY DEF InSubstr
<1>2. /\ given \in Inputs /\ LengthsComputed
  BY <1>1 DEF WalkInv, BuildInv, WalkTypeOK
<1>3. request # << >> /\ request[1].op = "substr"
  BY <1>1 DEF AtInv, OneQuery, InSubstr
<1>4. SourceLength \in Nat /\ Sampling \in Nat \ {0}
  BY <1>2, SourceFacts
<1>5. request[1] \in Queries(SourceLength)
  BY <1>3 DEF SubstrInv
<1>6. from \in Nat /\ len \in Nat
  <2> DEFINE n == SourceLength
  <2>1. ASSUME NEW i \in 0 .. (n - 1), request[1] = AtQuery(i) PROVE FALSE
    <3>1. request[1].op = "at"
      BY <2>1 DEF AtQuery
    <3> QED BY <1>3, <3>1
  <2>2. PICK f \in 0 .. (n + 1), l \in 0 .. (n + 1) : request[1] = SubstrQuery(f, l)
    BY <1>5, <2>1 DEF Queries
  <2> QED BY <1>4, <2>2 DEF SubstrQuery
<1>7. SubstrEnd(request[1]) \in Nat /\ SubstrEnd(request[1]) <= SourceLength
  <2>1. from + len \in Int /\ SourceLength \in Int
    BY <1>4, <1>6
  <2>2. SubstrEnd(request[1]) = IF from + len <= SourceLength THEN from + len ELSE SourceLength
    BY <2>1, MinOfInts DEF SubstrEnd
  <2> HIDE DEF from, len
  <2> QED BY <1>4, <1>6, <2>2
<1>8. RangeInv
  BY <1>1 DEF SubstrInv
<1>9. /\ block \in Nat /\ lo < hi
      /\ lo = Max({from, BlockStart(block)})
      /\ hi = Min({(block + 1) * Sampling, SubstrEnd(request[1])})
  BY <1>8 DEF RangeInv
<1>10. BlockStart(block) \in Nat /\ (block + 1) * Sampling \in Nat
  BY <1>4, <1>9 DEF BlockStart
<1>11. lo \in Nat /\ from <= lo
  <2>1. lo = IF from >= BlockStart(block) THEN from ELSE BlockStart(block)
    BY <1>6, <1>9, <1>10, MaxOfTwo
  <2> HIDE DEF from
  <2> QED BY <1>6, <1>10, <2>1
<1>12. hi \in Nat /\ hi <= SourceLength
  <2> DEFINE e == SubstrEnd(request[1])
             b == (block + 1) * Sampling
  <2>1. hi = Min({b, e}) /\ b \in Nat /\ e \in Nat /\ e <= SourceLength
    BY <1>7, <1>9, <1>10
  <2> HIDE DEF e, b
  <2>2. hi = IF b <= e THEN b ELSE e
    BY <2>1, MinOfInts
  <2> QED BY <1>4, <2>1, <2>2
<1>13. /\ out \in Seq(Nat) /\ charStack \in Seq(Nat) /\ ScanType /\ ScanInv(place) /\ WrittenSoFar
  BY DEF SubstrInv, ScanType
<1>14. ScanState(place)
  BY <1>2, <1>13 DEF ScanState
<1>15. cursor.pos \in Int /\ cursor.rule \in Ids(given) /\ cursor.index \in Int
  BY <1>13 DEF ScanType
<1> QED BY <1>1, <1>2, <1>3, <1>6, <1>8, <1>9, <1>11, <1>12, <1>13, <1>14, <1>15

(* A scan of the whole rule at a place of the text, no call running. *)
LEMMA ScanAlone ==
  ASSUME UNCHANGED lengthVars, writing' = << >>,
         NEW place, NEW r \in Ids(given), NEW i \in Int, NEW p \in Nat, place[0] = p,
         cursor'.rule = r, cursor'.index = i,
         i + Back' \in 0 .. Size(given.rules[r]),
         Stands(p, r), p + given.off[r][i + Back'] = cursor'.pos + Back'
  PROVE  CallsStand(place)' /\ CallsNested(place)'
<1>1. /\ given' = given /\ Len(writing') = 0
      /\ \A q, c : Stands(q, c)' = Stands(q, c)
  BY StandsFixed
<1>2. Calling(0)' = cursor' /\ Edge(0)' = i + Back'
  BY DEF Calling, Edge
<1>3. CallsStand(place)'
  BY <1>1, <1>2 DEF CallsStand
<1>4. EdgePlace(place, Len(writing))' = cursor'.pos + Back'
  <2>1. EdgePlace(place, Len(writing))' = EdgePlace(place, 0)'
    BY <1>1 DEF EdgePlace
  <2> QED BY <1>1, <1>2, <2>1 DEF EdgePlace
<1>5. CallsNested(place)'
  BY <1>1, <1>4 DEF CallsNested
<1> QED BY <1>3, <1>5

(* What does not change while a scan runs. *)
ScanFrame ==
  UNCHANGED << lengthVars, samples, request, reply, lo, hi, block, lastBlock, pc >>

LEMMA ScanGoesOn ==
  ASSUME NEW place, WalkInv, AtInv, SubstrInv(place), pc \in {"left", "right"}, ScanFrame,
         out' \in Seq(Nat), charStack' \in Seq(Nat), ScanType',
         NEW place2, ScanInv(place2)', WrittenSoFar'
  PROVE  SubstrInv(place2)'
<1>1. /\ InSubstr /\ InSubstr' /\ RangeInv /\ request # << >>
  BY RunningScan DEF ScanFrame, InSubstr
<1>2. given' = given /\ SourceLength' = SourceLength /\ \A b : BlockStart(b)' = BlockStart(b)
  BY Fixed DEF ScanFrame
<1>3. RangeInv'
  <2>1. pc' \notin {"block", "leftDone"}
    BY DEF ScanFrame
  <2>2. SampleAt(block)' = SampleAt(block)
    BY <1>2 DEF SampleAt, ScanFrame, Cursor
  <2> QED BY <1>1, <1>2, <2>1, <2>2 DEF RangeInv, ScanFrame, SubstrEnd, BlockStart
<1>4. request'[1] \in Queries(SourceLength)'
  BY <1>1, <1>2 DEF ScanFrame, SubstrInv, Queries
<1> QED BY <1>1, <1>3, <1>4 DEF SubstrInv, ScanFrame, ScanType

LEMMA LeftWritten ==
  ASSUME pc = "left", ScanFrame, WrittenSoFar,
         out' \o Part(lo, Min({cursor'.pos + 1, hi})) \o Reverse(charStack')
           = out \o Part(lo, Min({cursor.pos + 1, hi})) \o Reverse(charStack)
  PROVE  WrittenSoFar'
<1>1. given' = given /\ \A b : BlockStart(b)' = BlockStart(b)
  BY Fixed DEF ScanFrame
<1>2. \A a, b : Part(a, b)' = Part(a, b)
  BY <1>1 DEF Part
<1>3. SampleAt(block)' = SampleAt(block)
  BY <1>1 DEF SampleAt, ScanFrame, Cursor
<1> QED BY <1>1, <1>2, <1>3 DEF WrittenSoFar, ScanFrame

LEMMA RightWritten ==
  ASSUME pc = "right", ScanFrame,
         out' = Part(request[1].from, Max({lo, cursor'.pos}))
  PROVE  WrittenSoFar'
<1>1. given' = given
  BY Fixed DEF ScanFrame
<1> QED BY <1>1 DEF WrittenSoFar, ScanFrame, Part

(* The innermost call goes on by d symbols. *)
LEMMA InnerMoved ==
  ASSUME NEW place, ScanState(place), NEW n, n = Depth, n # 0, NEW d \in Int
  PROVE  /\ n \in Nat \ {0} /\ Inner = writing[n] /\ Inner = Writer
         /\ InnerSymbol = WriterSymbol
         /\ WriterSymbolLength = SymbolLength(Inner.rule, Inner.index)
         /\ Moved(d) \in Seq([rule : Ids(given), index : Int]) /\ Len(Moved(d)) = n
         /\ \A k \in 1 .. (n - 1) : Moved(d)[k] = writing[k]
         /\ Moved(d)[n].rule = Inner.rule /\ Moved(d)[n].index = Inner.index + d
<1> DEFINE CallType == [rule : Ids(given), index : Int]
<1>1. n \in Nat \ {0} /\ n = Len(writing) /\ Inner = writing[n] /\ Inner = Writer
  BY InnerFacts DEF Depth, Inner, Calling, Writer
<1>2. writing \in Seq(CallType)
  BY DEF ScanState, ScanType
<1>3. writing[n] \in CallType
  <2>1. n \in 1 .. Len(writing)
    BY <1>1
  <2> HIDE DEF CallType
  <2> QED BY <1>2, <2>1
<1>4. [Writer EXCEPT !.index = @ + d] = [rule |-> Inner.rule, index |-> Inner.index + d]
  BY <1>1, <1>3
<1> DEFINE new == [rule |-> Inner.rule, index |-> Inner.index + d]
<1>5. new \in CallType
  BY <1>1, <1>3
<1>6. Moved(d) = [writing EXCEPT ![n] = new]
  BY <1>1, <1>4 DEF Moved
<1>7. /\ Moved(d) \in Seq(CallType) /\ Len(Moved(d)) = n /\ Moved(d)[n] = new
      /\ \A k \in 1 .. (n - 1) : Moved(d)[k] = writing[k]
  <2> HIDE DEF CallType, new
  <2> QED BY <1>1, <1>2, <1>5, <1>6
<1>8. new.rule = Inner.rule /\ new.index = Inner.index + d
  OBVIOUS
<1> QED BY <1>1, <1>7, <1>8 DEF InnerSymbol, WriterSymbol, WriterSymbolLength

(* Going backward with no call running, there is a symbol before the edge. *)
LEMMA LeftSymbol ==
  ASSUME NEW place, WalkInv, AtInv, SubstrInv(place), ScanLeft
  PROVE  /\ Depth = 0 /\ Inner = cursor /\ InnerSymbol = Symbol /\ writing = << >>
         /\ Back = 1 /\ Calling(0) = cursor
         /\ cursor.index \in 0 .. (Size(given.rules[cursor.rule]) - 1) /\ cursor.index \in Nat
         /\ SymbolStart = cursor.pos - SymbolLength(cursor.rule, cursor.index) + 1
         /\ cursor.pos >= lo /\ place[0] <= lo /\ pc = "left"
<1>1. pc = "left" /\ writing = << >> /\ cursor.pos >= lo /\ ScanState(place) /\ lo \in Nat
  BY RunningScan DEF ScanLeft
<1>2. Depth = 0 /\ Inner = cursor /\ InnerSymbol = Symbol /\ Back = 1 /\ Calling(0) = cursor
  BY <1>1 DEF Depth, Inner, Calling, InnerSymbol, Symbol, Back
<1>3. place[0] <= lo
  BY <1>1 DEF ScanState, ScanInv, CallsInRange
<1>4. SymbolStart = cursor.pos - SymbolLength(cursor.rule, cursor.index) + 1
  BY DEF SymbolStart, SymbolLengthHere
<1>5. /\ cursor.index \in Int /\ Size(given.rules[cursor.rule]) \in Nat
      /\ place[0] \in Nat /\ cursor.index + 1 \in 0 .. Size(given.rules[cursor.rule])
      /\ place[0] + given.off[cursor.rule][cursor.index + 1] = cursor.pos + 1
      /\ cursor.pos \in Int /\ cursor.rule \in Ids(given) /\ given \in Inputs
  BY <1>1, <1>2, InnerFacts DEF ScanState
<1>6. cursor.index + 1 # 0
  <2>1. ASSUME cursor.index + 1 = 0 PROVE FALSE
    <3>1. given.off[cursor.rule][cursor.index + 1] = 0
      BY <1>5, <2>1, OffsetFacts
    <3>2. place[0] = cursor.pos + 1
      BY <1>5, <3>1
    <3> QED BY <1>1, <1>3, <1>5, <3>2
  <2> QED BY <2>1
<1>7. cursor.index \in 0 .. (Size(given.rules[cursor.rule]) - 1) /\ cursor.index \in Nat
  BY <1>5, <1>6
<1> QED BY <1>1, <1>2, <1>3, <1>4, <1>7

(* A step of scan_left's own loop: the edge moves over the symbol. *)
LEMMA LeftPasses ==
  ASSUME NEW place, WalkInv, AtInv, SubstrInv(place), ScanLeft, ScanFrame,
         NEW span, span = SymbolLength(cursor.rule, cursor.index),
         cursor' = [cursor EXCEPT !.index = @ - 1, !.pos = @ - span],
         writing' = writing
  PROVE  ScanInv(place)' /\ ScanType' /\ cursor'.pos = cursor.pos - span
<1> DEFINE i == cursor.index - 1
           off == given.off[cursor.rule][cursor.index]
<1>1. /\ ScanState(place) /\ ScanType /\ ScanInv(place) /\ cursor.pos \in Int
      /\ cursor.rule \in Ids(given) /\ cursor.index \in Int /\ given \in Inputs
  BY RunningScan, LeftSymbol
<1>2. /\ Depth = 0 /\ Inner = cursor /\ writing = << >> /\ Back = 1 /\ Calling(0) = cursor
      /\ cursor.index \in 0 .. (Size(given.rules[cursor.rule]) - 1) /\ pc = "left"
  BY LeftSymbol
<1>3. span \in Nat \ {0} /\ place[0] + off = cursor.pos - span + 1
  BY <1>1, <1>2, InnerSymbolFacts
<1>4. /\ cursor' = [rule |-> cursor.rule, index |-> i, pos |-> cursor.pos - span]
      /\ i \in Int
  <2>1. cursor \in [rule : Ids(given), index : Int, pos : Int]
    BY <1>1 DEF ScanType
  <2>2. cursor' = [rule |-> cursor.rule, index |-> cursor.index - 1, pos |-> cursor.pos - span]
    BY <2>1
  <2>3. i \in Int
    BY <1>1
  <2> QED BY <2>2, <2>3
<1>5. ScanType'
  BY <1>1, <1>3, <1>4 DEF ScanType, ScanFrame, lengthVars
<1>6. i + Back = cursor.index /\ i + Back \in 0 .. Size(given.rules[cursor.rule])
  BY <1>1, <1>2, OffsetFacts
<1>7. place[0] + given.off[cursor.rule][i + Back] = cursor'.pos + Back
  <2>1. cursor'.pos + Back = cursor.pos - span + 1
    BY <1>1, <1>2, <1>3, <1>4
  <2> HIDE DEF i
  <2> QED BY <1>3, <1>6, <2>1
<1>8. Calling(0)' = cursor' /\ Len(writing') = 0
  BY <1>2 DEF Calling
<1>9. CallsStand(place)' /\ CallsNested(place)'
  <2> DEFINE n == Len(writing)
  <2>1. n = 0 /\ n = Depth /\ Calling(n)'.rule = cursor.rule /\ Calling(n)'.index = i
    BY <1>2, <1>4, <1>8 DEF Calling
  <2>2. \A k \in 0 .. 0 : Calling(k)'.rule = Calling(k).rule
    <3>1. Calling(0)'.rule = Calling(0).rule
      BY <1>2, <1>4, <1>8
    <3>2. \A k \in 0 .. 0 : k = 0
      OBVIOUS
    <3> QED BY <3>1, <3>2
  <2>3. \A k \in 0 .. (0 - 1) : Calling(k)'.index = Calling(k).index
    OBVIOUS
  <2>4. Calling(0)'.index = i
    BY <1>4, <1>8
  <2> HIDE DEF i, n
  <2> QED BY <1>1, <1>2, <1>4, <1>6, <1>7, <1>8, <2>2, <2>3, <2>4, InnerMoves DEF ScanFrame
<1>10. CallsInRange(place)'
  BY <1>1, <1>2 DEF ScanInv, CallsInRange, ScanFrame
<1> QED BY <1>4, <1>5, <1>9, <1>10 DEF ScanInv

(* Symbols behind the range do not change what is written. *)
LEMMA MinBehind ==
  ASSUME NEW p \in Int, NEW q \in Int, NEW h \in Int, h <= q, q <= p + 1
  PROVE  Min({p + 1, h}) = Min({q, h})
<1>1. p + 1 \in Int /\ h <= p + 1
  OBVIOUS
<1>2. Min({p + 1, h}) = h
  <2> DEFINE a == p + 1
  <2>1. a \in Int /\ h <= a
    BY <1>1
  <2> HIDE DEF a
  <2>2. Min({a, h}) = h
    BY <2>1, MinOfInts
  <2> QED BY <2>2 DEF a
<1>3. Min({q, h}) = h
  BY MinOfInts
<1> QED BY <1>2, <1>3

LEMMA LeftSkipInv ==
  ASSUME NEW place, WalkInv, AtInv, SubstrInv(place), LeftSkip
  PROVE  SubstrInv(place)'
<1> DEFINE span == SymbolLength(cursor.rule, cursor.index)
<1>1. /\ ScanLeft /\ SymbolStart >= hi /\ ScanFrame
      /\ cursor' = [cursor EXCEPT !.index = @ - 1, !.pos = @ - span]
      /\ UNCHANGED << out, charStack, writing >>
  BY DEF LeftSkip, queryVars, ScanFrame, SymbolLengthHere
<1>2. pc = "left" /\ SymbolStart = cursor.pos - span + 1
  BY <1>1, LeftSymbol
<1>3. /\ ScanState(place) /\ hi \in Nat /\ cursor.pos \in Int /\ WrittenSoFar
      /\ out \in Seq(Nat) /\ charStack \in Seq(Nat)
  BY <1>2, RunningScan
<1>4. span \in Nat
  <2>1. Inner = cursor /\ cursor.index \in 0 .. (Size(given.rules[cursor.rule]) - 1)
    BY <1>1, LeftSymbol
  <2> QED BY <1>3, <2>1, InnerSymbolFacts
<1>5. ScanInv(place)' /\ ScanType' /\ cursor'.pos = cursor.pos - span
  <2> HIDE DEF span
  <2> QED BY <1>1, LeftPasses DEF span
<1>6. Min({cursor.pos + 1, hi}) = Min({cursor'.pos + 1, hi})
  <2> DEFINE q == cursor'.pos + 1
  <2> HIDE DEF span
  <2>1. q \in Int /\ hi <= q /\ q <= cursor.pos + 1
    BY <1>1, <1>2, <1>3, <1>4, <1>5
  <2>2. Min({cursor.pos + 1, hi}) = Min({q, hi})
    <3> DEFINE p == cursor.pos
    <3>1. p \in Int /\ q \in Int /\ hi \in Int /\ hi <= q /\ q <= p + 1
      BY <1>3, <2>1
    <3> HIDE DEF p, q
    <3>2. Min({p + 1, hi}) = Min({q, hi})
      BY ZenonT(40), <3>1, MinBehind
    <3> QED BY <3>2 DEF p
  <2> QED BY <2>2 DEF q
<1>7. WrittenSoFar'
  BY <1>1, <1>2, <1>3, <1>6, LeftWritten
<1> QED BY <1>1, <1>2, <1>3, <1>5, <1>7, ScanGoesOn

(* A character at pos, put on top of the stack. *)
LEMMA CharacterLeft ==
  ASSUME given \in Inputs, LengthsComputed, pc = "left", ScanFrame, WrittenSoFar,
         lo \in Nat, hi \in Nat, hi <= SourceLength, cursor.pos \in Nat,
         lo <= cursor.pos, cursor.pos < hi, cursor'.pos = cursor.pos - 1,
         out \in Seq(Nat), charStack \in Seq(Nat), out' = out,
         charStack' = Append(charStack, given.text[given.start][cursor.pos])
  PROVE  WrittenSoFar' /\ charStack' \in Seq(Nat)
<1> DEFINE p == cursor.pos
           c == given.text[given.start][p]
           before == Part(lo, p)
<1>1. SourceLength \in Nat /\ p \in Int /\ p <= SourceLength
  BY SourceFacts
<1>2. before \in Seq(Nat) /\ Part(lo, p + 1) = Append(before, c)
  <2>1. p \in Nat /\ lo <= p /\ p < SourceLength
    BY <1>1
  <2> HIDE DEF p
  <2>2. Part(lo, p) \in Seq(Nat)
    BY <1>1, PartIs
  <2>3. Part(lo, p + 1) = Append(Part(lo, p), given.text[given.start][p])
    BY <2>1, PartGrows
  <2> QED BY <2>2, <2>3
<1>3. Min({p + 1, hi}) = p + 1
  <2> DEFINE q == p + 1
  <2>1. q \in Int /\ q <= hi
    OBVIOUS
  <2> HIDE DEF q
  <2>2. Min({q, hi}) = q
    BY <2>1, MinOfInts
  <2> QED BY <2>2 DEF q
<1>4. cursor'.pos + 1 = p /\ Min({p, hi}) = p
  <2>1. cursor'.pos + 1 = p
    OBVIOUS
  <2>2. p \in Int /\ hi \in Int /\ p <= hi
    OBVIOUS
  <2> HIDE DEF p
  <2>3. Min({p, hi}) = p
    BY <2>2, MinOfInts
  <2> QED BY <2>1, <2>3
<1>5. c \in Nat
  <2>1. given.start \in Ids(given) /\ SourceLength = Length(given, given.start)
    BY SourceFacts
  <2>2. p \in 0 .. (SourceLength - 1)
    BY <1>1
  <2>3. c \in 0 .. (RuleOffset - 1)
    BY <2>1, <2>2, AnnotatedGiven, TextIsCharacters
  <2> QED BY <2>3
<1>6. out \o before \o Reverse(Append(charStack, c)) = out \o Append(before, c) \o Reverse(charStack)
  <2> HIDE DEF before, c
  <2> QED BY <1>2, <1>5, ReverseAppends, ZenonT(40)
<1>7. WrittenSoFar'
  <2>1. out' \o Part(lo, Min({cursor'.pos + 1, hi})) \o Reverse(charStack')
          = out \o before \o Reverse(Append(charStack, c))
    BY <1>4
  <2>2. out \o Part(lo, Min({cursor.pos + 1, hi})) \o Reverse(charStack)
          = out \o Append(before, c) \o Reverse(charStack)
    BY <1>2, <1>3
  <2> QED BY <1>6, <2>1, <2>2, LeftWritten
<1>8. charStack' \in Seq(Nat)
  <2> HIDE DEF c
  <2>1. charStack' = Append(charStack, c)
    BY DEF c
  <2> QED BY <1>5, <2>1
<1> QED BY <1>7, <1>8

LEMMA LeftWriteTerminalInv ==
  ASSUME NEW place, WalkInv, AtInv, SubstrInv(place), LeftWriteTerminal
  PROVE  SubstrInv(place)'
<1> DEFINE span == SymbolLength(cursor.rule, cursor.index)
<1>1. /\ ScanLeft /\ SymbolStart < hi /\ lo <= SymbolStart /\ ScanFrame /\ IsTerminal(Symbol)
      /\ charStack' = Append(charStack, Symbol)
      /\ cursor' = [cursor EXCEPT !.index = @ - 1, !.pos = @ - 1]
      /\ UNCHANGED << out, writing >>
  BY DEF LeftWriteTerminal, ScanFrame
<1>2. /\ pc = "left" /\ SymbolStart = cursor.pos - span + 1
      /\ Inner = cursor /\ InnerSymbol = Symbol
      /\ cursor.index \in 0 .. (Size(given.rules[cursor.rule]) - 1)
  BY <1>1, LeftSymbol
<1>3. /\ ScanState(place) /\ hi \in Nat /\ lo \in Nat /\ hi <= SourceLength
      /\ cursor.pos \in Int /\ WrittenSoFar
      /\ out \in Seq(Nat) /\ charStack \in Seq(Nat) /\ given \in Inputs /\ LengthsComputed
  BY <1>2, RunningScan
<1>4. /\ span = 1 /\ cursor.pos - span + 1 \in Nat
      /\ given.text[given.start][cursor.pos - span + 1] = Symbol
  BY <1>1, <1>2, <1>3, InnerSymbolFacts
<1>5. cursor.pos - span + 1 = cursor.pos
  <2> HIDE DEF span
  <2> QED BY <1>3, <1>4
<1>6. cursor.pos \in Nat /\ lo <= cursor.pos /\ cursor.pos < hi
      /\ given.text[given.start][cursor.pos] = Symbol
  BY <1>1, <1>2, <1>4, <1>5
<1>7. ScanInv(place)' /\ ScanType' /\ cursor'.pos = cursor.pos - 1
  BY <1>1, <1>4, LeftPasses
<1>8. WrittenSoFar' /\ charStack' \in Seq(Nat)
  BY <1>1, <1>2, <1>3, <1>6, <1>7, CharacterLeft
<1> QED BY <1>1, <1>2, <1>3, <1>7, <1>8, ScanGoesOn

LEMMA LeftEnterInv ==
  ASSUME NEW place, WalkInv, AtInv, SubstrInv(place), LeftEnter
  PROVE  \E place2 : SubstrInv(place2)'
<1> DEFINE span == SymbolLength(cursor.rule, cursor.index)
           child == RuleId(Symbol)
           last == Size(given.rules[child]) - 1
           begin == cursor.pos - span + 1
<1>1. /\ ScanLeft /\ lo > SymbolStart /\ ScanFrame
      /\ cursor' = EnterBack /\ UNCHANGED << out, charStack, writing >>
  BY DEF LeftEnter, ScanFrame, queryVars
<1>2. /\ pc = "left" /\ SymbolStart = begin /\ cursor.pos >= lo
      /\ Inner = cursor /\ InnerSymbol = Symbol /\ writing = << >>
      /\ cursor.index \in 0 .. (Size(given.rules[cursor.rule]) - 1)
  BY <1>1, LeftSymbol
<1>3. /\ ScanState(place) /\ hi \in Nat /\ lo \in Nat /\ hi <= SourceLength
      /\ cursor.pos \in Int /\ WrittenSoFar /\ ScanType
      /\ out \in Seq(Nat) /\ charStack \in Seq(Nat) /\ given \in Inputs /\ LengthsComputed
  BY <1>2, RunningScan
<1>4. /\ span \in Nat \ {0} /\ begin \in Nat
      /\ IsTerminal(Symbol) => span = 1
      /\ IsNonTerminal(Symbol) => child \in Ids(given) /\ span = Length(given, child)
                                  /\ Size(given.rules[child]) \in Nat \ {0} /\ Stands(begin, child)
  BY <1>2, <1>3, InnerSymbolFacts
<1>5. IsNonTerminal(Symbol)
  <2>1. span # 1
    <3> HIDE DEF span
    <3> QED BY <1>1, <1>2, <1>3, <1>4
  <2> QED BY <1>4, <2>1 DEF IsNonTerminal
<1>6. /\ cursor' = [rule |-> child, index |-> last, pos |-> cursor.pos] /\ last \in Int
      /\ last + 1 = Size(given.rules[child]) /\ last + 1 \in 0 .. Size(given.rules[child])
  <2>1. cursor \in [rule : Ids(given), index : Int, pos : Int]
    BY <1>3 DEF ScanType
  <2>2. cursor' = [rule |-> child, index |-> last, pos |-> cursor.pos]
    BY <1>1, <2>1 DEF EnterBack
  <2> HIDE DEF child
  <2>3. last \in Int /\ last + 1 = Size(given.rules[child]) /\ last + 1 \in 0 .. Size(given.rules[child])
    BY <1>4, <1>5
  <2> QED BY <2>2, <2>3
<1>7. ScanType'
  BY <1>1, <1>2, <1>3, <1>4, <1>5, <1>6 DEF ScanType, ScanFrame, lengthVars
<1>8. PICK place2 : place2 = [k \in {0} |-> begin]
  OBVIOUS
<1>9. place2[0] = begin
  BY <1>8
<1>10. Back' = 1
  BY <1>1, <1>2 DEF Back, ScanFrame
<1>11. begin + given.off[child][last + Back'] = cursor'.pos + Back'
  <2>1. given.off[child][last + Back'] = span
    BY <1>4, <1>5, <1>6, <1>10 DEF Length
  <2>2. cursor'.pos = cursor.pos
    BY <1>6
  <2>3. begin + span = cursor.pos + 1
    <3> HIDE DEF span
    <3> QED BY <1>3, <1>4
  <2> QED BY <1>10, <2>1, <2>2, <2>3
<1>12. CallsStand(place2)' /\ CallsNested(place2)'
  <2>1. UNCHANGED lengthVars /\ writing' = << >>
    BY <1>1, <1>2 DEF ScanFrame
  <2>2. /\ child \in Ids(given) /\ begin \in Nat /\ Stands(begin, child)
        /\ cursor'.rule = child /\ cursor'.index = last
        /\ last + Back' \in 0 .. Size(given.rules[child])
    BY <1>4, <1>5, <1>6, <1>10
  <2> HIDE DEF child, last, begin
  <2> QED BY <1>6, <1>9, <1>11, <2>1, <2>2, ScanAlone
<1>13. CallsInRange(place2)'
  <2>1. place2[0] <= lo /\ pc' = "left" /\ lo' = lo /\ Len(writing') = 0
    <3>1. begin <= lo
      <4> HIDE DEF begin
      <4> QED BY <1>1, <1>2, <1>3, <1>4
    <3> QED BY <1>1, <1>2, <1>9, <3>1 DEF ScanFrame
  <2> QED BY <2>1 DEF CallsInRange
<1>14. WrittenSoFar'
  BY <1>1, <1>2, <1>3, <1>6, LeftWritten
<1>15. ScanInv(place2)' /\ out' \in Seq(Nat) /\ charStack' \in Seq(Nat)
  BY <1>1, <1>3, <1>12, <1>13 DEF ScanInv
<1> QED BY <1>1, <1>2, <1>7, <1>14, <1>15, ScanGoesOn

(* A step of write_expansion(_reverse) over a symbol without a call for it. *)
LEMMA WriterPasses ==
  ASSUME NEW place, WalkInv, AtInv, SubstrInv(place), pc \in {"left", "right"}, ScanFrame,
         NEW n, n = Depth, n # 0,
         Inner.index \in 0 .. (Size(given.rules[Inner.rule]) - 1),
         NEW span, span = SymbolLength(Inner.rule, Inner.index),
         writing' = Moved(IF pc = "left" THEN -1 ELSE 1),
         cursor' = [cursor EXCEPT !.pos = IF pc = "left" THEN @ - span ELSE @ + span]
  PROVE  /\ ScanInv(place)' /\ ScanType'
         /\ cursor'.pos = IF pc = "left" THEN cursor.pos - span ELSE cursor.pos + span
<1>1. PICK d \in Int : d = IF pc = "left" THEN -1 ELSE 1
  OBVIOUS
<1>2. /\ ScanState(place) /\ ScanType /\ ScanInv(place) /\ cursor.pos \in Int
      /\ cursor.rule \in Ids(given) /\ cursor.index \in Int /\ given \in Inputs
      /\ lo \in Nat /\ hi \in Nat
  BY RunningScan
<1>3. /\ n \in Nat \ {0} /\ Inner = writing[n]
      /\ writing' \in Seq([rule : Ids(given), index : Int]) /\ Len(writing') = n
      /\ \A k \in 1 .. (n - 1) : writing'[k] = writing[k]
      /\ writing'[n].rule = Inner.rule /\ writing'[n].index = Inner.index + d
  <2>1. writing' = Moved(d)
    BY <1>1
  <2>2. /\ n \in Nat \ {0} /\ Inner = writing[n]
        /\ Moved(d) \in Seq([rule : Ids(given), index : Int]) /\ Len(Moved(d)) = n
        /\ \A k \in 1 .. (n - 1) : Moved(d)[k] = writing[k]
        /\ Moved(d)[n].rule = Inner.rule /\ Moved(d)[n].index = Inner.index + d
    BY <1>2, <2>1, InnerMoved
  <2> QED BY <2>1, <2>2, Zenon
<1>4. /\ Inner.rule \in Ids(given) /\ Inner.index \in Int /\ place[n] \in Nat
      /\ Size(given.rules[Inner.rule]) \in Nat
      /\ place[n] + Length(given, Inner.rule) <= SourceLength
      /\ Length(given, Inner.rule) \in Nat
  BY <1>2, InnerFacts
<1> DEFINE begin == IF pc = "left" THEN cursor.pos - span + 1 ELSE cursor.pos
           offHere == given.off[Inner.rule][Inner.index]
           offNext == given.off[Inner.rule][Inner.index + 1]
<1>5. /\ span \in Nat \ {0} /\ begin \in Nat
      /\ begin = place[n] + offHere /\ begin + span = place[n] + offNext
      /\ begin + span <= place[n] + Length(given, Inner.rule)
  BY <1>2, InnerSymbolFacts
<1>6. cursor' = [rule |-> cursor.rule, index |-> cursor.index,
                 pos |-> IF pc = "left" THEN cursor.pos - span ELSE cursor.pos + span]
  <2>1. cursor \in [rule : Ids(given), index : Int, pos : Int]
    BY <1>2 DEF ScanType
  <2> QED BY <2>1
<1>7. ScanType'
  <2>1. given' = given
    BY Fixed DEF ScanFrame
  <2>2. cursor' \in [rule : Ids(given), index : Int, pos : Int]
    <3> DEFINE q == IF pc = "left" THEN cursor.pos - span ELSE cursor.pos + span
    <3>1. q \in Int
      <4> HIDE DEF begin, offHere, offNext
      <4> QED BY <1>2, <1>5
    <3>2. cursor' = [rule |-> cursor.rule, index |-> cursor.index, pos |-> q]
      BY <1>6
    <3> HIDE DEF q
    <3>3. [rule |-> cursor.rule, index |-> cursor.index, pos |-> q]
            \in [rule : Ids(given), index : Int, pos : Int]
      BY <1>2, <3>1
    <3> QED BY <3>2, <3>3, Zenon
  <2> QED BY <1>3, <2>1, <2>2 DEF ScanType
<1>8. PICK i \in Int : i = Inner.index + d
  BY <1>4
<1>9. i + Back = IF pc = "left" THEN Inner.index ELSE Inner.index + 1
  BY <1>1, <1>4, <1>8 DEF Back
<1>10. i + Back \in 0 .. Size(given.rules[Inner.rule])
  BY <1>4, <1>9
<1>11. place[n] + given.off[Inner.rule][i + Back] = cursor'.pos + Back
  <2>1. CASE pc = "left"
    <3>1. Back = 1 /\ cursor'.pos = cursor.pos - span /\ given.off[Inner.rule][i + Back] = offHere
      BY <1>6, <1>9, <2>1 DEF Back
    <3>2. place[n] + offHere = cursor.pos - span + 1
      BY <1>5, <2>1
    <3> HIDE DEF offHere
    <3> QED BY <1>2, <1>5, <3>1, <3>2
  <2>2. CASE pc = "right"
    <3>1. Back = 0 /\ cursor'.pos = cursor.pos + span /\ given.off[Inner.rule][i + Back] = offNext
      BY <1>6, <1>9, <2>2 DEF Back
    <3>2. place[n] + offNext = cursor.pos + span
      BY <1>5, <2>2
    <3> HIDE DEF offNext
    <3> QED BY <1>2, <1>5, <3>1, <3>2
  <2> QED BY <2>1, <2>2
<1>12. /\ \A k \in 0 .. n : Calling(k)'.rule = Calling(k).rule
       /\ \A k \in 0 .. (n - 1) : Calling(k)'.index = Calling(k).index
       /\ Calling(n)'.index = i
  <2>1. /\ Calling(0)'.rule = Calling(0).rule /\ Calling(0)'.index = Calling(0).index
    BY <1>6 DEF Calling
  <2>2. /\ Calling(n)'.rule = Calling(n).rule /\ Calling(n)'.index = i
    BY <1>3, <1>8 DEF Calling
  <2>3. ASSUME NEW k \in 1 .. (n - 1) PROVE Calling(k)' = Calling(k)
    BY <1>3, <2>3 DEF Calling
  <2>4. \A k \in 0 .. n : k = 0 \/ k = n \/ k \in 1 .. (n - 1)
    BY <1>3
  <2>5. \A k \in 0 .. (n - 1) : k = 0 \/ k \in 1 .. (n - 1)
    BY <1>3
  <2> QED BY <2>1, <2>2, <2>3, <2>4, <2>5
<1>13. CallsStand(place)' /\ CallsNested(place)'
  BY <1>2, <1>3, <1>10, <1>11, <1>12, InnerMoves DEF ScanFrame
<1>14. CallsInRange(place)'
  <2>1. /\ CallsInRange(place) /\ Len(writing) = n /\ Len(writing') = n
        /\ cursor'.rule = cursor.rule /\ pc' = pc /\ lo' = lo /\ hi' = hi
        /\ \A r : Length(given, r)' = Length(given, r)
    BY <1>2, <1>3, <1>6, StandsFixed DEF ScanInv, Depth, ScanFrame
  <2>2. \A k \in 1 .. n : writing'[k].rule = writing[k].rule
    <3>1. \A k \in 1 .. n : k = n \/ k \in 1 .. (n - 1)
      BY <1>3
    <3> QED BY <1>3, <3>1
  <2>3. pc = "right" => cursor'.pos <= hi
    <3>1. ASSUME pc = "right" PROVE cursor'.pos <= hi
      <4>1. n \in 1 .. n
        BY <1>3
      <4>2. place[n] + Length(given, Inner.rule) <= hi
        BY <1>3, <2>1, <3>1, <4>1 DEF CallsInRange
      <4>3. cursor'.pos = begin + span
        BY <1>6, <3>1
      <4> HIDE DEF begin
      <4> QED BY <1>2, <1>4, <1>5, <4>2, <4>3
    <3> QED BY <3>1
  <2> QED BY <2>1, <2>2, <2>3 DEF CallsInRange
<1> QED BY <1>6, <1>7, <1>13, <1>14 DEF ScanInv

(* A call for the symbol the innermost call is at. *)
LEMMA CallMade ==
  ASSUME NEW place, WalkInv, AtInv, SubstrInv(place), pc \in {"left", "right"}, ScanFrame,
         NEW n, n = Depth,
         Inner.index \in 0 .. (Size(given.rules[Inner.rule]) - 1), IsNonTerminal(InnerSymbol),
         ScanType', Len(writing') = n + 1,
         \A k \in 0 .. n : Calling(k)'.rule = Calling(k).rule,
         \A k \in 0 .. (n - 1) : Calling(k)'.index = Calling(k).index,
         Calling(n)'.index = (IF pc = "left" THEN Inner.index - 1 ELSE Inner.index + 1),
         writing'[n + 1] = (IF pc = "left" THEN CallReverse(RuleId(InnerSymbol))
                            ELSE CallForward(RuleId(InnerSymbol))),
         cursor'.pos = cursor.pos,
         n = 0 /\ pc = "left" => lo <= cursor.pos - SymbolLength(Inner.rule, Inner.index) + 1,
         n = 0 /\ pc = "right" => cursor.pos + SymbolLength(Inner.rule, Inner.index) <= hi
  PROVE  \E place2 : ScanInv(place2)'
<1> DEFINE span == SymbolLength(Inner.rule, Inner.index)
           begin == IF pc = "left" THEN cursor.pos - span + 1 ELSE cursor.pos
           size == Size(given.rules[RuleId(InnerSymbol)])
           offHere == given.off[Inner.rule][Inner.index]
           offNext == given.off[Inner.rule][Inner.index + 1]
<1>1. /\ ScanState(place) /\ ScanType /\ ScanInv(place) /\ cursor.pos \in Int
      /\ given \in Inputs /\ LengthsComputed /\ lo \in Nat /\ hi \in Nat
  BY RunningScan
<1>2. /\ n \in Nat /\ Inner.rule \in Ids(given) /\ Inner.index \in Int /\ place[n] \in Nat
      /\ Size(given.rules[Inner.rule]) \in Nat /\ Length(given, Inner.rule) \in Nat
  BY <1>1, InnerFacts
<1>3. PICK child \in Ids(given) : child = RuleId(InnerSymbol)
  BY <1>1, InnerSymbolFacts
<1>4. /\ span \in Nat \ {0} /\ begin \in Nat
      /\ begin = place[n] + offHere /\ begin + span = place[n] + offNext
      /\ begin + span <= place[n] + Length(given, Inner.rule)
      /\ span = Length(given, child) /\ size \in Nat \ {0} /\ Stands(begin, child)
      /\ offHere \in Nat
  <2>1. offHere \in Nat
    BY <1>1, <1>2, SymbolPlace
  <2> QED BY <1>1, <1>3, <2>1, InnerSymbolFacts
<1>5. PICK p \in Nat : p = begin
  BY <1>4
<1>6. PICK i \in Int : i = IF pc = "left" THEN Inner.index - 1 ELSE Inner.index + 1
  BY <1>2
<1>7. PICK j \in Int : j = IF pc = "left" THEN size - 1 ELSE 0
  BY <1>4
<1>8. PICK place2 : place2 = [k \in 0 .. (n + 1) |-> IF k = n + 1 THEN p ELSE place[k]]
  OBVIOUS
<1>9. place2[n + 1] = p /\ \A k \in 0 .. n : place2[k] = place[k]
  BY <1>2, <1>8
<1>10. Calling(n + 1)'.rule = child /\ Calling(n + 1)'.index = j
  <2>1. Calling(n + 1)' = writing'[n + 1]
    BY <1>2 DEF Calling
  <2> QED BY <1>3, <1>7, <2>1 DEF CallReverse, CallForward
<1>11. /\ i + Back \in 0 .. Size(given.rules[Inner.rule])
       /\ given.off[Inner.rule][i + Back] = IF pc = "left" THEN offHere ELSE offNext
  <2>1. i + Back = IF pc = "left" THEN Inner.index ELSE Inner.index + 1
    BY <1>2, <1>6 DEF Back
  <2> QED BY <1>2, <2>1
<1>12. /\ j + Back \in 0 .. Size(given.rules[child])
       /\ given.off[child][j + Back] = IF pc = "left" THEN span ELSE 0
  <2>1. j + Back = IF pc = "left" THEN size ELSE 0
    <3> HIDE DEF size
    <3> QED BY <1>4, <1>7 DEF Back
  <2>2. Length(given, child) = given.off[child][size] /\ given.off[child][0] = 0
    BY <1>1, <1>3, OffsetFacts
  <2> QED BY <1>3, <1>4, <2>1, <2>2
<1>13. p + given.off[child][j + Back] = cursor'.pos + Back
  <2>1. CASE pc = "left"
    <3>1. p = cursor.pos - span + 1 /\ given.off[child][j + Back] = span /\ Back = 1
      BY <1>5, <1>12, <2>1 DEF Back
    <3> HIDE DEF span
    <3> QED BY <1>1, <1>4, <3>1
  <2>2. CASE pc = "right"
    BY <1>1, <1>5, <1>12, <2>2 DEF Back
  <2> QED BY <2>1, <2>2
<1>14. place[n] + given.off[Inner.rule][i + Back]
         = p + (IF pc = "left" THEN 0 ELSE Length(given, child))
  <2>1. CASE pc = "left"
    <3>1. given.off[Inner.rule][i + Back] = offHere
      BY <1>11, <2>1
    <3>2. p = place[n] + offHere
      BY <1>4, <1>5
    <3> QED BY <2>1, <3>1, <3>2
  <2>2. CASE pc = "right"
    <3>1. given.off[Inner.rule][i + Back] = offNext
      BY <1>11, <2>2
    <3>2. p + Length(given, child) = place[n] + offNext
      BY <1>4, <1>5
    <3> QED BY <2>2, <3>1, <3>2
  <2> QED BY <2>1, <2>2
<1>15. CallsStand(place2)' /\ CallsNested(place2)'
  <2>1. Stands(p, child)
    BY <1>4, <1>5
  <2>2. Calling(n)'.index = i
    BY <1>6
  <2> HIDE DEF span, begin, size, offHere, offNext
  <2> QED BY ZenonT(40), <1>1, <1>9, <1>10, <1>11, <1>12, <1>13, <1>14, <2>1, <2>2, InnerCalls DEF ScanFrame
<1>16. CallsInRange(place2)'
  <2>1. /\ CallsInRange(place) /\ Len(writing) = n
        /\ pc' = pc /\ lo' = lo /\ hi' = hi
        /\ \A r : Length(given, r)' = Length(given, r)
    BY <1>1, StandsFixed DEF ScanInv, Depth, ScanFrame
  <2>2. cursor'.rule = cursor.rule
    <3>1. 0 \in 0 .. n
      BY <1>2
    <3>2. Calling(0)'.rule = Calling(0).rule
      BY <3>1
    <3> QED BY <3>2 DEF Calling
  <2>3. \A k \in 1 .. n : writing'[k].rule = writing[k].rule /\ place2[k] = place[k]
    <3> TAKE k \in 1 .. n
    <3>1. k \in 0 .. n /\ k # 0
      BY <1>2
    <3>2. Calling(k)'.rule = Calling(k).rule
      BY <3>1
    <3> QED BY <1>9, <3>1, <3>2 DEF Calling
  <2>4. place2[0] = place[0]
    BY <1>2, <1>9
  <2>5. ASSUME pc = "left" PROVE lo <= p
    <3>1. CASE n = 0
      BY <1>5, <2>5, <3>1
    <3>2. CASE n # 0
      <4>1. lo <= place[n]
        <5>1. n \in 1 .. n
          BY <1>2, <3>2
        <5> QED BY <2>1, <2>5, <5>1 DEF CallsInRange
      <4>2. p = place[n] + offHere
        BY <1>4, <1>5
      <4> HIDE DEF offHere
      <4> QED BY <1>1, <1>2, <1>4, <4>1, <4>2
    <3> QED BY <3>1, <3>2
  <2>6. ASSUME pc = "right" PROVE p + Length(given, child) <= hi
    <3>1. CASE n = 0
      <4>1. cursor.pos + span <= hi
        BY <2>6, <3>1
      <4>2. p = cursor.pos
        BY <1>5, <2>6
      <4> QED BY <1>4, <4>1, <4>2
    <3>2. CASE n # 0
      <4>1. place[n] + Length(given, Inner.rule) <= hi
        <5>1. n \in 1 .. n /\ Inner = writing[n]
          BY <1>2, <3>2 DEF Inner, Calling, Depth
        <5> QED BY <2>1, <2>6, <5>1 DEF CallsInRange
      <4>2. p + span <= place[n] + Length(given, Inner.rule)
        BY <1>4, <1>5
      <4>3. p + Length(given, child) = p + span
        BY <1>4
      <4> DEFINE end == place[n] + Length(given, Inner.rule)
      <4>4. end \in Nat /\ end <= hi /\ p + span <= end
        BY <1>2, <4>1, <4>2
      <4> HIDE DEF span, end
      <4> QED BY <1>1, <1>4, <4>3, <4>4
    <3> QED BY <3>1, <3>2
  <2>7. writing'[n + 1].rule = child
    BY <1>2, <1>10 DEF Calling
  <2>8. \A k \in 1 .. (n + 1) : k \in 1 .. n \/ k = n + 1
    BY <1>2
  <2>9. pc = "left" => place2[0] <= lo /\ \A k \in 1 .. (n + 1) : lo <= place2[k]
    BY <1>9, <2>1, <2>3, <2>4, <2>5, <2>8 DEF CallsInRange
  <2>10. pc = "right" => \A k \in 1 .. (n + 1) : place2[k] + Length(given, writing'[k].rule) <= hi
    BY <1>9, <2>1, <2>3, <2>6, <2>7, <2>8 DEF CallsInRange
  <2>11. pc = "right" => hi <= place2[0] + Length(given, cursor'.rule) /\ cursor'.pos <= hi
    BY <2>1, <2>2, <2>4 DEF CallsInRange
  <2> QED BY <2>1, <2>9, <2>10, <2>11 DEF CallsInRange
<1> QED BY <1>15, <1>16 DEF ScanInv

(* A call returns. *)
LEMMA CallReturns ==
  ASSUME NEW place, WalkInv, AtInv, SubstrInv(place), pc \in {"left", "right"}, ScanFrame,
         NEW n, n = Depth, n # 0, cursor' = cursor, writing' = Front(writing),
         Inner.index + Back = (IF pc = "left" THEN 0 ELSE Size(given.rules[Inner.rule]))
  PROVE  ScanInv(place)' /\ ScanType'
<1>1. ScanState(place) /\ ScanInv(place) /\ n \in Nat /\ n = Len(writing)
  BY RunningScan, InnerFacts DEF Depth
<1>2. /\ CallsStand(place)' /\ CallsNested(place)' /\ ScanType' /\ Len(writing') = n - 1
      /\ \A k \in 0 .. (n - 1) : Calling(k)' = Calling(k)
  BY <1>1, InnerReturns DEF ScanFrame
<1>3. CallsInRange(place)'
  <2>1. /\ CallsInRange(place) /\ pc' = pc /\ lo' = lo /\ hi' = hi
        /\ \A r : Length(given, r)' = Length(given, r)
    BY <1>1, StandsFixed DEF ScanInv, ScanFrame
  <2>2. \A k \in 1 .. (n - 1) : k \in 1 .. n /\ writing'[k] = writing[k]
    <3> TAKE k \in 1 .. (n - 1)
    <3>1. k \in 0 .. (n - 1) /\ k # 0 /\ k \in 1 .. n
      BY <1>1
    <3> QED BY <1>2, <3>1 DEF Calling
  <2> QED BY <1>1, <1>2, <2>1, <2>2 DEF CallsInRange
<1> QED BY <1>2, <1>3 DEF ScanInv

LEMMA LeftWriteRuleInv ==
  ASSUME NEW place, WalkInv, AtInv, SubstrInv(place), LeftWriteRule
  PROVE  \E place2 : SubstrInv(place2)'
<1> DEFINE child == RuleId(Symbol)
<1>1. /\ ScanLeft /\ lo <= SymbolStart /\ ScanFrame /\ IsNonTerminal(Symbol)
      /\ writing' = << CallReverse(child) >>
      /\ cursor' = [cursor EXCEPT !.index = @ - 1] /\ UNCHANGED << out, charStack >>
  BY DEF LeftWriteRule, ScanFrame
<1>2. /\ pc = "left" /\ SymbolStart = cursor.pos - SymbolLength(cursor.rule, cursor.index) + 1
      /\ Depth = 0 /\ Inner = cursor /\ InnerSymbol = Symbol
      /\ cursor.index \in 0 .. (Size(given.rules[cursor.rule]) - 1)
  BY <1>1, LeftSymbol
<1>3. /\ ScanState(place) /\ WrittenSoFar /\ ScanType /\ cursor.pos \in Int /\ cursor.index \in Int
      /\ cursor.rule \in Ids(given) /\ out \in Seq(Nat) /\ charStack \in Seq(Nat)
  BY <1>2, RunningScan
<1>4. child \in Ids(given) /\ Size(given.rules[child]) \in Nat
  BY <1>1, <1>2, <1>3, InnerSymbolFacts
<1>5. cursor' = [rule |-> cursor.rule, index |-> cursor.index - 1, pos |-> cursor.pos]
  <2>1. cursor \in [rule : Ids(given), index : Int, pos : Int]
    BY <1>3 DEF ScanType
  <2> QED BY <1>1, <2>1
<1>6. ScanType'
  <2>1. CallReverse(child) \in [rule : Ids(given), index : Int]
    BY <1>4 DEF CallReverse
  <2>2. writing' \in Seq([rule : Ids(given), index : Int])
    <3> DEFINE call == CallReverse(child)
               CallType == [rule : Ids(given), index : Int]
    <3>1. call \in CallType /\ writing' = << call >>
      BY <1>1, <2>1
    <3> HIDE DEF call, CallType
    <3>2. writing' \in Seq(CallType)
      BY <3>1
    <3> QED BY <3>2 DEF CallType
  <2>3. given' = given
    BY <1>1, Fixed DEF ScanFrame
  <2>4. cursor' \in [rule : Ids(given), index : Int, pos : Int]
    BY <1>3, <1>5
  <2> QED BY <2>2, <2>3, <2>4 DEF ScanType
<1>7. /\ Len(writing') = 0 + 1 /\ writing'[0 + 1] = CallReverse(child)
      /\ Calling(0)' = cursor' /\ Calling(0) = cursor
  BY <1>1 DEF Calling
<1>8. /\ \A k \in 0 .. 0 : Calling(k)'.rule = Calling(k).rule
      /\ \A k \in 0 .. (0 - 1) : Calling(k)'.index = Calling(k).index
      /\ Calling(0)'.index = cursor.index - 1
  <2>1. \A k \in 0 .. 0 : k = 0
    OBVIOUS
  <2>2. Calling(0)'.rule = Calling(0).rule /\ Calling(0)'.index = cursor.index - 1
    BY <1>5, <1>7
  <2> QED BY <2>1, <2>2
<1>9. \E place2 : ScanInv(place2)'
  <2> HIDE DEF child
  <2>1. /\ IsNonTerminal(InnerSymbol) /\ child = RuleId(InnerSymbol) /\ cursor'.pos = cursor.pos
        /\ Inner.index \in 0 .. (Size(given.rules[Inner.rule]) - 1)
    BY <1>1, <1>2, <1>5 DEF child
  <2>2. 0 = Depth /\ lo <= cursor.pos - SymbolLength(Inner.rule, Inner.index) + 1 /\ pc # "right"
    BY <1>1, <1>2
  <2> QED BY <1>1, <1>2, <1>6, <1>7, <1>8, <2>1, <2>2, CallMade
<1>10. WrittenSoFar'
  BY <1>1, <1>2, <1>3, <1>5, LeftWritten
<1> QED BY <1>1, <1>2, <1>3, <1>6, <1>9, <1>10, ScanGoesOn

(* write_expansion_reverse: the symbol it is at. *)
LEMMA ReverseSymbol ==
  ASSUME NEW place, WalkInv, AtInv, SubstrInv(place), WritesReverse
  PROVE  LET span  == SymbolLength(Inner.rule, Inner.index)
             begin == cursor.pos - span + 1
         IN  /\ pc = "left" /\ Depth # 0 /\ Inner = Writer /\ InnerSymbol = WriterSymbol
             /\ WriterSymbolLength = span
             /\ Inner.index \in 0 .. (Size(given.rules[Inner.rule]) - 1)
             /\ span \in Nat \ {0} /\ begin \in Nat /\ lo <= begin
             /\ begin + span <= SourceLength
             /\ IsTerminal(WriterSymbol) =>
                  span = 1 /\ given.text[given.start][begin] = WriterSymbol
<1> DEFINE span == SymbolLength(Inner.rule, Inner.index)
           begin == cursor.pos - span + 1
<1>1. /\ pc = "left" /\ writing # << >> /\ Writer.index >= 0
      /\ ScanState(place) /\ ScanType /\ ScanInv(place) /\ lo \in Nat /\ SourceLength \in Nat
      /\ cursor.pos \in Int
  BY RunningScan, SourceFacts DEF WritesReverse
<1>2. Depth # 0 /\ Depth \in Nat
  BY <1>1 DEF Depth, ScanType
<1>3. PICK n : n = Depth
  OBVIOUS
<1>4. /\ Inner = writing[n] /\ Inner = Writer /\ InnerSymbol = WriterSymbol
      /\ WriterSymbolLength = span
  <2>1. 0 \in Int /\ Moved(0) = Moved(0)
    OBVIOUS
  <2> QED BY <1>1, <1>2, <1>3 DEF Inner, Calling, Depth, Writer, InnerSymbol, WriterSymbol, WriterSymbolLength
<1>5. /\ Inner.index \in Int /\ Size(given.rules[Inner.rule]) \in Nat /\ place[n] \in Nat
      /\ Inner.index + 1 \in 0 .. Size(given.rules[Inner.rule])
      /\ Inner.rule \in Ids(given) /\ given \in Inputs
      /\ place[n] + Length(given, Inner.rule) <= SourceLength /\ Length(given, Inner.rule) \in Nat
  <2>1. Back = 1
    BY <1>1 DEF Back
  <2> QED BY <1>1, <1>3, <2>1, InnerFacts DEF ScanState
<1>6. Inner.index \in 0 .. (Size(given.rules[Inner.rule]) - 1)
  BY <1>1, <1>4, <1>5
<1>7. /\ span \in Nat \ {0} /\ begin \in Nat
      /\ begin = place[n] + given.off[Inner.rule][Inner.index]
      /\ begin + span <= place[n] + Length(given, Inner.rule)
      /\ IsTerminal(InnerSymbol) =>
           span = 1 /\ given.text[given.start][begin] = InnerSymbol
  BY <1>1, <1>3, <1>6, InnerSymbolFacts
<1>8. lo <= begin
  <2>1. lo <= place[n]
    <3>1. n \in 1 .. Len(writing)
      BY <1>2, <1>3 DEF Depth
    <3> QED BY <1>1, <3>1 DEF ScanInv, CallsInRange
  <2> DEFINE off == given.off[Inner.rule][Inner.index]
             p == place[n]
  <2>2. off \in Nat
    BY <1>5, <1>6, SymbolPlace
  <2>3. begin = p + off /\ p \in Nat /\ lo <= p
    BY <1>5, <1>7, <2>1
  <2> HIDE DEF begin, off, p
  <2> QED BY <1>1, <2>2, <2>3
<1>9. begin + span <= SourceLength
  <2> HIDE DEF begin, span
  <2> QED BY <1>1, <1>5, <1>7
<1> QED BY <1>1, <1>2, <1>4, <1>6, <1>7, <1>8, <1>9

LEMMA ReverseTerminalInv ==
  ASSUME NEW place, WalkInv, AtInv, SubstrInv(place), ReverseTerminal
  PROVE  SubstrInv(place)'
<1>1. /\ WritesReverse /\ ScanFrame /\ IsTerminal(WriterSymbol) /\ out' = out
      /\ charStack' = IF cursor.pos < hi THEN Append(charStack, WriterSymbol) ELSE charStack
      /\ cursor' = [cursor EXCEPT !.pos = @ - 1]
      /\ writing' = Moved(-1)
  BY DEF ReverseTerminal, ScanFrame
<1> DEFINE span == SymbolLength(Inner.rule, Inner.index)
<1>2. /\ pc = "left" /\ Depth # 0 /\ span = 1 /\ cursor.pos - span + 1 \in Nat
      /\ Inner.index \in 0 .. (Size(given.rules[Inner.rule]) - 1)
      /\ lo <= cursor.pos - span + 1
      /\ given.text[given.start][cursor.pos - span + 1] = WriterSymbol
  BY <1>1, ReverseSymbol
<1>3. /\ hi \in Nat /\ lo \in Nat /\ hi <= SourceLength
      /\ cursor.pos \in Int /\ WrittenSoFar
      /\ out \in Seq(Nat) /\ charStack \in Seq(Nat) /\ given \in Inputs /\ LengthsComputed
  BY <1>2, RunningScan
<1>4. cursor.pos - span + 1 = cursor.pos
  <2> HIDE DEF span
  <2> QED BY <1>2, <1>3
<1>5. cursor.pos \in Nat /\ lo <= cursor.pos /\ given.text[given.start][cursor.pos] = WriterSymbol
  BY <1>2, <1>4
<1>6. ScanInv(place)' /\ ScanType' /\ cursor'.pos = cursor.pos - 1
  <2>1. writing' = Moved(IF pc = "left" THEN -1 ELSE 1)
    BY <1>1, <1>2
  <2>2. cursor' = [cursor EXCEPT !.pos = IF pc = "left" THEN @ - 1 ELSE @ + 1]
    BY <1>1, <1>2
  <2>3. 1 = SymbolLength(Inner.rule, Inner.index)
    BY <1>2
  <2>4. PICK n : n = Depth
    OBVIOUS
  <2> HIDE DEF span
  <2>5. n # 0
    BY <1>2, <2>4
  <2>6. /\ ScanInv(place)' /\ ScanType'
        /\ cursor'.pos = IF pc = "left" THEN cursor.pos - 1 ELSE cursor.pos + 1
    BY <1>1, <1>2, <2>1, <2>2, <2>3, <2>4, <2>5, WriterPasses
  <2> QED BY <1>2, <2>6
<1>7. WrittenSoFar' /\ charStack' \in Seq(Nat)
  <2>1. CASE cursor.pos < hi
    BY <1>1, <1>2, <1>3, <1>5, <1>6, <2>1, CharacterLeft
  <2>2. CASE ~(cursor.pos < hi)
    <3>1. cursor'.pos + 1 = cursor.pos
      BY <1>3, <1>6
    <3>2. Min({cursor.pos + 1, hi}) = Min({cursor.pos, hi})
      <4> DEFINE p == cursor.pos
      <4>1. p \in Int /\ hi \in Int /\ hi <= p /\ p <= p + 1
        BY <1>3, <2>2
      <4> HIDE DEF p
      <4>2. Min({p + 1, hi}) = Min({p, hi})
        BY <4>1, MinBehind
      <4> QED BY <4>2 DEF p
    <3> QED BY <1>1, <1>2, <1>3, <2>2, <3>1, <3>2, LeftWritten
  <2> QED BY <2>1, <2>2
<1> QED BY <1>1, <1>2, <1>3, <1>6, <1>7, ScanGoesOn

LEMMA ReversePassInv ==
  ASSUME NEW place, WalkInv, AtInv, SubstrInv(place), ReversePass
  PROVE  SubstrInv(place)'
<1> DEFINE span == SymbolLength(Inner.rule, Inner.index)
<1>1. /\ WritesReverse /\ ScanFrame /\ UNCHANGED << out, charStack >>
      /\ cursor.pos - WriterSymbolLength + 1 >= hi
      /\ cursor' = [cursor EXCEPT !.pos = @ - WriterSymbolLength]
      /\ writing' = Moved(-1)
  BY DEF ReversePass, ScanFrame
<1>2. /\ pc = "left" /\ Depth # 0 /\ WriterSymbolLength = span /\ span \in Nat
      /\ Inner.index \in 0 .. (Size(given.rules[Inner.rule]) - 1)
  BY <1>1, ReverseSymbol
<1>3. /\ hi \in Nat /\ cursor.pos \in Int /\ WrittenSoFar
      /\ out \in Seq(Nat) /\ charStack \in Seq(Nat)
  BY <1>2, RunningScan
<1>4. ScanInv(place)' /\ ScanType' /\ cursor'.pos = cursor.pos - span
  <2>1. writing' = Moved(IF pc = "left" THEN -1 ELSE 1)
    BY <1>1, <1>2
  <2>2. cursor' = [cursor EXCEPT !.pos = IF pc = "left" THEN @ - span ELSE @ + span]
    BY <1>1, <1>2
  <2>3. PICK n : n = Depth
    OBVIOUS
  <2>4. PICK s : s = span
    OBVIOUS
  <2>5. n # 0
    BY <1>2, <2>3
  <2>6. /\ s = SymbolLength(Inner.rule, Inner.index)
        /\ cursor' = [cursor EXCEPT !.pos = IF pc = "left" THEN @ - s ELSE @ + s]
    BY <2>2, <2>4
  <2> HIDE DEF span
  <2>7. /\ ScanInv(place)' /\ ScanType'
        /\ cursor'.pos = IF pc = "left" THEN cursor.pos - s ELSE cursor.pos + s
    BY <1>1, <1>2, <2>1, <2>3, <2>5, <2>6, WriterPasses
  <2> QED BY <1>2, <2>4, <2>7
<1>5. Min({cursor.pos + 1, hi}) = Min({cursor'.pos + 1, hi})
  <2> DEFINE p == cursor.pos
             q == cursor'.pos + 1
  <2> HIDE DEF span
  <2>1. p \in Int /\ hi \in Int /\ q \in Int /\ hi <= q /\ q <= p + 1
    BY <1>1, <1>2, <1>3, <1>4
  <2> HIDE DEF p, q
  <2>2. Min({p + 1, hi}) = Min({q, hi})
    BY ZenonT(40), <2>1, MinBehind
  <2> QED BY <2>2 DEF p, q
<1>6. WrittenSoFar'
  BY <1>1, <1>2, <1>3, <1>5, LeftWritten
<1> QED BY <1>1, <1>2, <1>3, <1>4, <1>6, ScanGoesOn

(* write_expansion(_reverse) calls itself. *)
LEMMA WriterCalls ==
  ASSUME NEW place, WalkInv, AtInv, SubstrInv(place), pc \in {"left", "right"}, ScanFrame,
         NEW n, n = Depth, n # 0, cursor' = cursor,
         Inner.index \in 0 .. (Size(given.rules[Inner.rule]) - 1), IsNonTerminal(WriterSymbol),
         writing' = Append(Moved(IF pc = "left" THEN -1 ELSE 1),
                           IF pc = "left" THEN CallReverse(RuleId(WriterSymbol))
                           ELSE CallForward(RuleId(WriterSymbol)))
  PROVE  (\E place2 : ScanInv(place2)') /\ ScanType'
<1> DEFINE CallType == [rule : Ids(given), index : Int]
<1>1. PICK d \in Int : d = IF pc = "left" THEN -1 ELSE 1
  OBVIOUS
<1>2. /\ ScanState(place) /\ ScanType /\ given \in Inputs
  BY RunningScan
<1>3. /\ n \in Nat \ {0} /\ Inner = writing[n] /\ InnerSymbol = WriterSymbol
      /\ Moved(d) \in Seq(CallType) /\ Len(Moved(d)) = n
      /\ \A k \in 1 .. (n - 1) : Moved(d)[k] = writing[k]
      /\ Moved(d)[n].rule = Inner.rule /\ Moved(d)[n].index = Inner.index + d
  <2>1. /\ n \in Nat \ {0} /\ Inner = writing[n] /\ InnerSymbol = WriterSymbol
    BY <1>2, InnerMoved
  <2>2. /\ Moved(d) \in Seq([rule : Ids(given), index : Int]) /\ Len(Moved(d)) = n
        /\ \A k \in 1 .. (n - 1) : Moved(d)[k] = writing[k]
        /\ Moved(d)[n].rule = Inner.rule /\ Moved(d)[n].index = Inner.index + d
    BY <1>2, InnerMoved
  <2> QED BY <2>1, <2>2
<1> DEFINE call == IF pc = "left" THEN CallReverse(RuleId(WriterSymbol))
                   ELSE CallForward(RuleId(WriterSymbol))
<1>4. call \in CallType
  <2>1. RuleId(WriterSymbol) \in Ids(given) /\ Size(given.rules[RuleId(WriterSymbol)]) \in Nat
    BY <1>2, <1>3, InnerSymbolFacts
  <2> QED BY <2>1 DEF CallReverse, CallForward
<1>5. writing' = Append(Moved(d), call)
  BY <1>1
<1>6. /\ writing' \in Seq(CallType) /\ Len(writing') = n + 1
      /\ writing'[n + 1] = call /\ \A k \in 1 .. n : writing'[k] = Moved(d)[k]
  <2> DEFINE moved == Moved(d)
  <2>1. moved \in Seq(CallType) /\ Len(moved) = n /\ call \in CallType /\ writing' = Append(moved, call)
    BY <1>3, <1>4, <1>5
  <2> HIDE DEF moved, call, CallType
  <2>2. /\ writing' \in Seq(CallType) /\ Len(writing') = n + 1
        /\ writing'[n + 1] = call /\ \A k \in 1 .. n : writing'[k] = moved[k]
    <3>1. /\ Append(moved, call) \in Seq(CallType) /\ Len(Append(moved, call)) = Len(moved) + 1
          /\ Append(moved, call)[Len(moved) + 1] = call
          /\ \A k \in 1 .. Len(moved) : Append(moved, call)[k] = moved[k]
      BY <2>1, AppendProperties
    <3> QED BY <2>1, <3>1, Zenon
  <2> QED BY <2>2 DEF moved
<1>7. ScanType'
  <2>1. given' = given
    BY Fixed DEF ScanFrame
  <2> QED BY <1>2, <1>6, <2>1 DEF ScanType
<1>8. /\ \A k \in 0 .. n : Calling(k)'.rule = Calling(k).rule
      /\ \A k \in 0 .. (n - 1) : Calling(k)'.index = Calling(k).index
      /\ Calling(n)'.index = Inner.index + d
  <2>1. Calling(0)' = Calling(0)
    BY DEF Calling
  <2>2. Calling(n)'.rule = Calling(n).rule /\ Calling(n)'.index = Inner.index + d
    <3>1. n \in 1 .. n /\ n # 0
      BY <1>3
    <3>2. writing'[n] = Moved(d)[n]
      BY <1>6, <3>1
    <3> QED BY <1>3, <3>1, <3>2 DEF Calling
  <2>3. ASSUME NEW k \in 1 .. (n - 1) PROVE Calling(k)' = Calling(k)
    <3>1. k \in 1 .. n /\ k # 0
      BY <1>3
    <3> QED BY <1>3, <1>6, <3>1 DEF Calling
  <2>4. \A k \in 0 .. n : k = 0 \/ k = n \/ k \in 1 .. (n - 1)
    BY <1>3
  <2>5. \A k \in 0 .. (n - 1) : k = 0 \/ k \in 1 .. (n - 1)
    BY <1>3
  <2> QED BY <2>1, <2>2, <2>3, <2>4, <2>5
<1>9. Calling(n)'.index = (IF pc = "left" THEN Inner.index - 1 ELSE Inner.index + 1)
  <2>1. Inner.index \in Int
    BY <1>2, InnerFacts
  <2> QED BY <1>1, <1>8, <2>1
<1>10. writing'[n + 1] = (IF pc = "left" THEN CallReverse(RuleId(InnerSymbol))
                          ELSE CallForward(RuleId(InnerSymbol)))
  BY <1>3, <1>6
<1>11. \E place2 : ScanInv(place2)'
  <2> HIDE DEF call
  <2>1. cursor'.pos = cursor.pos /\ IsNonTerminal(InnerSymbol) /\ n # 0 /\ Len(writing') = n + 1
    BY <1>3, <1>6
  <2> QED BY <1>7, <1>8, <1>9, <1>10, <2>1, CallMade
<1> QED BY <1>7, <1>11

LEMMA ReverseCallInv ==
  ASSUME NEW place, WalkInv, AtInv, SubstrInv(place), ReverseCall
  PROVE  \E place2 : SubstrInv(place2)'
<1>1. /\ WritesReverse /\ ScanFrame /\ IsNonTerminal(WriterSymbol)
      /\ UNCHANGED << out, charStack, cursor >>
      /\ writing' = Append(Moved(-1), CallReverse(RuleId(WriterSymbol)))
  BY DEF ReverseCall, ScanFrame, samplesVars
<1>2. /\ pc = "left" /\ Depth # 0
      /\ Inner.index \in 0 .. (Size(given.rules[Inner.rule]) - 1)
  BY <1>1, ReverseSymbol
<1>3. WrittenSoFar /\ out \in Seq(Nat) /\ charStack \in Seq(Nat)
  BY <1>2, RunningScan
<1>4. (\E place2 : ScanInv(place2)') /\ ScanType'
  <2>1. PICK n : n = Depth
    OBVIOUS
  <2>2. writing' = Append(Moved(IF pc = "left" THEN -1 ELSE 1),
                          IF pc = "left" THEN CallReverse(RuleId(WriterSymbol))
                          ELSE CallForward(RuleId(WriterSymbol)))
    BY <1>1, <1>2
  <2>3. n # 0
    BY <1>2, <2>1
  <2> QED BY <1>1, <1>2, <2>1, <2>2, <2>3, WriterCalls
<1>5. WrittenSoFar'
  BY <1>1, <1>2, <1>3, LeftWritten
<1> QED BY <1>1, <1>2, <1>3, <1>4, <1>5, ScanGoesOn

LEMMA ReverseReturnInv ==
  ASSUME NEW place, WalkInv, AtInv, SubstrInv(place), ReverseReturn
  PROVE  SubstrInv(place)'
<1>1. /\ pc = "left" /\ writing # << >> /\ Writer.index < 0 /\ writing' = Front(writing)
      /\ ScanFrame /\ UNCHANGED << out, charStack, cursor >>
  BY DEF ReverseReturn, ScanFrame, samplesVars
<1>2. /\ ScanState(place) /\ ScanType /\ WrittenSoFar /\ out \in Seq(Nat) /\ charStack \in Seq(Nat)
  BY <1>1, RunningScan
<1>3. PICK n : n = Depth
  OBVIOUS
<1>4. n # 0 /\ Inner = Writer
  BY <1>1, <1>2, <1>3 DEF Depth, ScanType, Inner, Calling, Writer
<1>5. Inner.index + Back = (IF pc = "left" THEN 0 ELSE Size(given.rules[Inner.rule]))
  <2>1. /\ Inner.index \in Int /\ Back = 1
        /\ Inner.index + Back \in 0 .. Size(given.rules[Inner.rule])
        /\ Size(given.rules[Inner.rule]) \in Nat
    BY <1>1, <1>2, InnerFacts DEF Back
  <2> QED BY <1>1, <1>4, <2>1
<1>6. ScanInv(place)' /\ ScanType'
  BY <1>1, <1>3, <1>4, <1>5, CallReturns
<1>7. WrittenSoFar'
  BY <1>1, <1>2, LeftWritten
<1> QED BY <1>1, <1>2, <1>6, <1>7, ScanGoesOn

-----------------------------------------------------------------------------
(* scan_right *)

(* Going forward with no call running, there is a symbol at the edge. *)
LEMMA RightSymbol ==
  ASSUME NEW place, WalkInv, AtInv, SubstrInv(place), ScanRight
  PROVE  /\ Depth = 0 /\ Inner = cursor /\ InnerSymbol = Symbol /\ writing = << >>
         /\ Back = 0 /\ Calling(0) = cursor
         /\ cursor.index \in 0 .. (Size(given.rules[cursor.rule]) - 1) /\ cursor.index \in Nat
         /\ SymbolEnd = cursor.pos + SymbolLength(cursor.rule, cursor.index)
         /\ cursor.pos < hi /\ hi <= place[0] + Length(given, cursor.rule) /\ pc = "right"
<1>1. pc = "right" /\ writing = << >> /\ cursor.pos < hi /\ ScanState(place) /\ hi \in Nat
  BY RunningScan DEF ScanRight
<1>2. Depth = 0 /\ Inner = cursor /\ InnerSymbol = Symbol /\ Back = 0 /\ Calling(0) = cursor
  BY <1>1 DEF Depth, Inner, Calling, InnerSymbol, Symbol, Back
<1>3. hi <= place[0] + Length(given, cursor.rule)
  BY <1>1 DEF ScanState, ScanInv, CallsInRange
<1>4. SymbolEnd = cursor.pos + SymbolLength(cursor.rule, cursor.index)
  BY DEF SymbolEnd, SymbolLengthHere
<1>5. /\ cursor.index \in Int /\ Size(given.rules[cursor.rule]) \in Nat
      /\ place[0] \in Nat /\ cursor.index + 0 \in 0 .. Size(given.rules[cursor.rule])
      /\ place[0] + given.off[cursor.rule][cursor.index + 0] = cursor.pos + 0
      /\ cursor.pos \in Int /\ cursor.rule \in Ids(given) /\ given \in Inputs
  BY <1>1, <1>2, InnerFacts DEF ScanState
<1>6. cursor.index + 0 = cursor.index /\ cursor.pos + 0 = cursor.pos
  BY <1>5
<1>7. cursor.index # Size(given.rules[cursor.rule])
  <2>1. ASSUME cursor.index = Size(given.rules[cursor.rule]) PROVE FALSE
    <3>1. given.off[cursor.rule][cursor.index] = Length(given, cursor.rule)
      BY <2>1 DEF Length
    <3>2. place[0] + Length(given, cursor.rule) = cursor.pos
      BY <1>5, <1>6, <3>1
    <3> QED BY <1>1, <1>3, <1>5, <3>2
  <2> QED BY <2>1
<1>8. cursor.index \in 0 .. (Size(given.rules[cursor.rule]) - 1) /\ cursor.index \in Nat
  BY <1>5, <1>6, <1>7
<1> QED BY <1>1, <1>2, <1>3, <1>4, <1>8

(* A step of scan_right's own loop: the edge moves over the symbol. *)
LEMMA RightPasses ==
  ASSUME NEW place, WalkInv, AtInv, SubstrInv(place), ScanRight, ScanFrame,
         NEW span, span = SymbolLength(cursor.rule, cursor.index), cursor.pos + span <= hi,
         cursor' = [cursor EXCEPT !.index = @ + 1, !.pos = cursor.pos + span],
         writing' = writing
  PROVE  ScanInv(place)' /\ ScanType' /\ cursor'.pos = cursor.pos + span
<1> DEFINE i == cursor.index + 1
           offHere == given.off[cursor.rule][cursor.index]
           offNext == given.off[cursor.rule][i]
<1>1. /\ ScanState(place) /\ ScanType /\ ScanInv(place) /\ cursor.pos \in Int
      /\ cursor.rule \in Ids(given) /\ cursor.index \in Int /\ given \in Inputs
  BY RunningScan, RightSymbol
<1>2. /\ Depth = 0 /\ Inner = cursor /\ writing = << >> /\ Back = 0 /\ Calling(0) = cursor
      /\ cursor.index \in 0 .. (Size(given.rules[cursor.rule]) - 1) /\ pc = "right"
  BY RightSymbol
<1>3. span \in Nat \ {0} /\ cursor.pos + span = place[0] + offNext
  BY <1>1, <1>2, InnerSymbolFacts
<1>4. cursor' = [rule |-> cursor.rule, index |-> i, pos |-> cursor.pos + span] /\ i \in Int
  <2>1. cursor \in [rule : Ids(given), index : Int, pos : Int]
    BY <1>1 DEF ScanType
  <2>2. cursor' = [rule |-> cursor.rule, index |-> cursor.index + 1, pos |-> cursor.pos + span]
    BY <2>1
  <2>3. i \in Int
    BY <1>1
  <2> QED BY <2>2, <2>3
<1>5. ScanType'
  BY <1>1, <1>3, <1>4 DEF ScanType, ScanFrame, lengthVars
<1>6. i + Back = i /\ i \in 0 .. Size(given.rules[cursor.rule])
  BY <1>1, <1>2, OffsetFacts
<1>7. place[0] + given.off[cursor.rule][i + Back] = cursor'.pos + Back
  <2>1. cursor'.pos + Back = cursor.pos + span
    BY <1>1, <1>2, <1>3, <1>4
  <2> HIDE DEF i
  <2> QED BY <1>3, <1>6, <2>1
<1>8. Calling(0)' = cursor' /\ Len(writing') = 0
  BY <1>2 DEF Calling
<1>9. CallsStand(place)' /\ CallsNested(place)'
  <2>2. \A k \in 0 .. 0 : Calling(k)'.rule = Calling(k).rule
    <3>1. Calling(0)'.rule = Calling(0).rule
      BY <1>2, <1>4, <1>8
    <3>2. \A k \in 0 .. 0 : k = 0
      OBVIOUS
    <3> QED BY <3>1, <3>2
  <2>3. \A k \in 0 .. (0 - 1) : Calling(k)'.index = Calling(k).index
    OBVIOUS
  <2>4. Calling(0)'.index = i
    BY <1>4, <1>8
  <2>5. i + Back \in 0 .. Size(given.rules[cursor.rule])
    BY <1>6
  <2> HIDE DEF i
  <2> QED BY <1>1, <1>2, <1>4, <1>7, <1>8, <2>2, <2>3, <2>4, <2>5, InnerMoves DEF ScanFrame
<1>10. CallsInRange(place)'
  <2>1. /\ cursor'.rule = cursor.rule /\ cursor'.pos = cursor.pos + span
        /\ \A r : Length(given, r)' = Length(given, r)
    BY <1>4, StandsFixed DEF ScanFrame
  <2> QED BY <1>1, <1>2, <1>8, <2>1 DEF ScanInv, CallsInRange, ScanFrame
<1> QED BY <1>4, <1>5, <1>9, <1>10 DEF ScanInv

(* Symbols before the range do not change what is written. *)
LEMMA MaxBefore ==
  ASSUME NEW p \in Int, NEW q \in Int, NEW l \in Int, p <= q, q <= l
  PROVE  Max({l, p}) = Max({l, q})
<1>1. Max({l, p}) = l
  BY MaxOfTwo
<1>2. Max({l, q}) = l
  BY MaxOfTwo
<1> QED BY <1>1, <1>2

(* A character at pos, written out. *)
LEMMA CharacterRight ==
  ASSUME given \in Inputs, LengthsComputed, pc = "right", ScanFrame, WrittenSoFar,
         lo \in Nat, request[1].from \in Nat, request[1].from <= lo,
         cursor.pos \in Nat, cursor.pos < SourceLength,
         lo <= cursor.pos, cursor'.pos = cursor.pos + 1,
         out' = Append(out, given.text[given.start][cursor.pos])
  PROVE  WrittenSoFar' /\ out' \in Seq(Nat)
<1> DEFINE p == cursor.pos
           from == request[1].from
<1>1. /\ SourceLength \in Nat /\ p \in Nat /\ from \in Nat /\ from <= p /\ p < SourceLength
      /\ p + 1 \in Int /\ p + 1 <= SourceLength /\ lo <= p
  BY SourceFacts
<1>2. Max({lo, p}) = p
  <2> HIDE DEF p
  <2> QED BY <1>1, MaxOfTwo
<1>3. Max({lo, p + 1}) = p + 1
  <2> DEFINE q == p + 1
  <2>1. q \in Int /\ lo <= q
    BY <1>1
  <2> HIDE DEF q
  <2>2. Max({lo, q}) = q
    BY <2>1, MaxOfTwo
  <2> QED BY <2>2 DEF q
<1>4. out = Part(from, p)
  BY <1>2 DEF WrittenSoFar
<1>5. Part(from, p + 1) = Append(Part(from, p), given.text[given.start][p])
  <2> HIDE DEF p, from
  <2> QED BY <1>1, PartGrows
<1>6. Part(from, p + 1) \in Seq(Nat)
  <2> DEFINE q == p + 1
  <2>1. q \in Int /\ q <= SourceLength
    BY <1>1
  <2> HIDE DEF p, from, q
  <2>2. Part(from, q) \in Seq(Nat)
    BY <1>1, <2>1, PartIs
  <2> QED BY <2>2 DEF q
<1>7. out' = Part(from, p + 1)
  BY <1>4, <1>5
<1>8. out' = Part(request[1].from, Max({lo, cursor'.pos}))
  BY <1>3, <1>7
<1> QED BY <1>6, <1>7, <1>8, RightWritten

(* Nothing written, over symbols before the range. *)
LEMMA NothingRight ==
  ASSUME pc = "right", ScanFrame, WrittenSoFar, lo \in Nat,
         NEW p, p = cursor.pos, p \in Int, NEW q \in Int, q = cursor'.pos, p <= q, q <= lo,
         out' = out
  PROVE  WrittenSoFar'
<1>1. Max({lo, p}) = Max({lo, q})
  BY MaxBefore
<1>2. out = Part(request[1].from, Max({lo, p}))
  BY DEF WrittenSoFar
<1> QED BY <1>1, <1>2, RightWritten

LEMMA RightSkipInv ==
  ASSUME NEW place, WalkInv, AtInv, SubstrInv(place), RightSkip
  PROVE  SubstrInv(place)'
<1>1. PICK span : span = SymbolLength(cursor.rule, cursor.index)
  OBVIOUS
<1>2. /\ ScanRight /\ SymbolEnd <= lo /\ ScanFrame
      /\ cursor' = [cursor EXCEPT !.index = @ + 1, !.pos = SymbolEnd]
      /\ UNCHANGED << out, charStack, writing >>
  BY DEF RightSkip, queryVars, ScanFrame
<1>3. /\ pc = "right" /\ SymbolEnd = cursor.pos + span
      /\ Inner = cursor /\ cursor.index \in 0 .. (Size(given.rules[cursor.rule]) - 1)
  BY <1>1, <1>2, RightSymbol
<1>4. /\ ScanState(place) /\ lo \in Nat /\ hi \in Nat /\ lo < hi /\ cursor.pos \in Int
      /\ WrittenSoFar /\ out \in Seq(Nat) /\ charStack \in Seq(Nat)
  BY <1>3, RunningScan
<1>5. span \in Nat
  BY <1>1, <1>3, <1>4, InnerSymbolFacts
<1>6. cursor.pos + span <= hi
  BY <1>2, <1>3, <1>4, <1>5
<1>7. ScanInv(place)' /\ ScanType' /\ cursor'.pos = cursor.pos + span
  BY <1>1, <1>2, <1>3, <1>6, RightPasses
<1>8. WrittenSoFar'
  <2> DEFINE p == cursor.pos
             q == cursor'.pos
  <2>1. p \in Int /\ q \in Int /\ p <= q /\ q <= lo
    BY <1>2, <1>3, <1>4, <1>5, <1>7
  <2> QED BY <1>2, <1>3, <1>4, <2>1, NothingRight
<1> QED BY <1>2, <1>3, <1>4, <1>7, <1>8, ScanGoesOn

LEMMA RightWriteTerminalInv ==
  ASSUME NEW place, WalkInv, AtInv, SubstrInv(place), RightWriteTerminal
  PROVE  SubstrInv(place)'
<1> DEFINE span == SymbolLength(cursor.rule, cursor.index)
<1>1. /\ ScanRight /\ SymbolEnd > lo /\ SymbolEnd <= hi /\ ScanFrame /\ IsTerminal(Symbol)
      /\ out' = Append(out, Symbol)
      /\ cursor' = [cursor EXCEPT !.index = @ + 1, !.pos = @ + 1]
      /\ UNCHANGED << charStack, writing >>
  BY DEF RightWriteTerminal, ScanFrame
<1>2. /\ pc = "right" /\ SymbolEnd = cursor.pos + span /\ cursor.pos < hi
      /\ Inner = cursor /\ InnerSymbol = Symbol
      /\ cursor.index \in 0 .. (Size(given.rules[cursor.rule]) - 1)
  BY <1>1, RightSymbol
<1>3. /\ ScanState(place) /\ hi \in Nat /\ lo \in Nat /\ hi <= SourceLength
      /\ cursor.pos \in Int /\ WrittenSoFar /\ request[1].from \in Nat /\ request[1].from <= lo
      /\ out \in Seq(Nat) /\ charStack \in Seq(Nat) /\ given \in Inputs /\ LengthsComputed
      /\ SourceLength \in Nat
  BY <1>2, RunningScan, SourceFacts
<1>4. span = 1 /\ cursor.pos \in Nat /\ given.text[given.start][cursor.pos] = Symbol
  <2>1. pc # "left"
    BY <1>2
  <2> QED BY <1>1, <1>2, <1>3, <2>1, InnerSymbolFacts
<1>5. cursor.pos + 1 <= hi /\ lo <= cursor.pos /\ cursor.pos < SourceLength
  BY <1>1, <1>2, <1>3, <1>4
<1>6. ScanInv(place)' /\ ScanType' /\ cursor'.pos = cursor.pos + 1
  <2>1. cursor' = [cursor EXCEPT !.index = @ + 1, !.pos = cursor.pos + 1]
    BY <1>1
  <2>2. 1 = SymbolLength(cursor.rule, cursor.index)
    BY <1>4
  <2> HIDE DEF span
  <2> QED BY <1>1, <1>5, <2>1, <2>2, RightPasses
<1>7. WrittenSoFar' /\ out' \in Seq(Nat)
  BY <1>1, <1>2, <1>3, <1>4, <1>5, <1>6, CharacterRight
<1> QED BY <1>1, <1>2, <1>3, <1>6, <1>7, ScanGoesOn

LEMMA RightWriteRuleInv ==
  ASSUME NEW place, WalkInv, AtInv, SubstrInv(place), RightWriteRule
  PROVE  \E place2 : SubstrInv(place2)'
<1> DEFINE child == RuleId(Symbol)
<1>1. /\ ScanRight /\ SymbolEnd <= hi /\ ScanFrame /\ IsNonTerminal(Symbol)
      /\ writing' = << CallForward(child) >>
      /\ cursor' = [cursor EXCEPT !.index = @ + 1] /\ UNCHANGED << out, charStack >>
  BY DEF RightWriteRule, ScanFrame
<1>2. /\ pc = "right" /\ SymbolEnd = cursor.pos + SymbolLength(cursor.rule, cursor.index)
      /\ Depth = 0 /\ Inner = cursor /\ InnerSymbol = Symbol
      /\ cursor.index \in 0 .. (Size(given.rules[cursor.rule]) - 1)
  BY <1>1, RightSymbol
<1>3. /\ ScanState(place) /\ WrittenSoFar /\ ScanType /\ cursor.pos \in Int /\ cursor.index \in Int
      /\ cursor.rule \in Ids(given) /\ out \in Seq(Nat) /\ charStack \in Seq(Nat)
  BY <1>2, RunningScan
<1>4. child \in Ids(given)
  BY <1>1, <1>2, <1>3, InnerSymbolFacts
<1>5. cursor' = [rule |-> cursor.rule, index |-> cursor.index + 1, pos |-> cursor.pos]
  <2>1. cursor \in [rule : Ids(given), index : Int, pos : Int]
    BY <1>3 DEF ScanType
  <2> QED BY <1>1, <2>1
<1>6. ScanType'
  <2>1. CallForward(child) \in [rule : Ids(given), index : Int]
    BY <1>4 DEF CallForward
  <2>2. writing' \in Seq([rule : Ids(given), index : Int])
    <3> DEFINE call == CallForward(child)
               CallType == [rule : Ids(given), index : Int]
    <3>1. call \in CallType /\ writing' = << call >>
      BY <1>1, <2>1
    <3> HIDE DEF call, CallType
    <3>2. writing' \in Seq(CallType)
      BY <3>1
    <3> QED BY <3>2 DEF CallType
  <2>3. given' = given
    BY <1>1, Fixed DEF ScanFrame
  <2>4. cursor' \in [rule : Ids(given), index : Int, pos : Int]
    BY <1>3, <1>5
  <2> QED BY <2>2, <2>3, <2>4 DEF ScanType
<1>7. /\ Len(writing') = 0 + 1 /\ writing'[0 + 1] = CallForward(child)
      /\ Calling(0)' = cursor' /\ Calling(0) = cursor
  BY <1>1 DEF Calling
<1>8. /\ \A k \in 0 .. 0 : Calling(k)'.rule = Calling(k).rule
      /\ \A k \in 0 .. (0 - 1) : Calling(k)'.index = Calling(k).index
      /\ Calling(0)'.index = cursor.index + 1
  <2>1. \A k \in 0 .. 0 : k = 0
    OBVIOUS
  <2>2. Calling(0)'.rule = Calling(0).rule /\ Calling(0)'.index = cursor.index + 1
    BY <1>5, <1>7
  <2> QED BY <2>1, <2>2
<1>9. \E place2 : ScanInv(place2)'
  <2> HIDE DEF child
  <2>1. /\ IsNonTerminal(InnerSymbol) /\ child = RuleId(InnerSymbol) /\ cursor'.pos = cursor.pos
        /\ Inner.index \in 0 .. (Size(given.rules[Inner.rule]) - 1)
    BY <1>1, <1>2, <1>5 DEF child
  <2>2. 0 = Depth /\ cursor.pos + SymbolLength(Inner.rule, Inner.index) <= hi /\ pc # "left"
    BY <1>1, <1>2
  <2> QED BY <1>1, <1>2, <1>6, <1>7, <1>8, <2>1, <2>2, CallMade
<1>10. WrittenSoFar'
  BY <1>1, <1>2, <1>3, <1>5, RightWritten DEF WrittenSoFar
<1> QED BY <1>1, <1>2, <1>3, <1>6, <1>9, <1>10, ScanGoesOn

LEMMA RightEnterInv ==
  ASSUME NEW place, WalkInv, AtInv, SubstrInv(place), RightEnter
  PROVE  \E place2 : SubstrInv(place2)'
<1> DEFINE span == SymbolLength(cursor.rule, cursor.index)
           child == RuleId(Symbol)
           begin == cursor.pos
<1>1. /\ ScanRight /\ SymbolEnd > hi /\ ScanFrame
      /\ cursor' = EnterFront /\ UNCHANGED << out, charStack, writing >>
  BY DEF RightEnter, ScanFrame, queryVars
<1>2. /\ pc = "right" /\ SymbolEnd = cursor.pos + span /\ cursor.pos < hi
      /\ Inner = cursor /\ InnerSymbol = Symbol /\ writing = << >>
      /\ cursor.index \in 0 .. (Size(given.rules[cursor.rule]) - 1)
  BY <1>1, RightSymbol
<1>3. /\ ScanState(place) /\ hi \in Nat
      /\ cursor.pos \in Int /\ WrittenSoFar /\ ScanType
      /\ out \in Seq(Nat) /\ charStack \in Seq(Nat) /\ given \in Inputs /\ LengthsComputed
  BY <1>2, RunningScan
<1>4. /\ span \in Nat \ {0} /\ begin \in Nat
      /\ IsTerminal(Symbol) => span = 1
      /\ IsNonTerminal(Symbol) => child \in Ids(given) /\ span = Length(given, child)
                                  /\ Size(given.rules[child]) \in Nat \ {0} /\ Stands(begin, child)
  <2>1. pc # "left"
    BY <1>2
  <2> QED BY <1>2, <1>3, <2>1, InnerSymbolFacts
<1>5. IsNonTerminal(Symbol)
  <2>1. span # 1
    <3> HIDE DEF span
    <3> QED BY <1>1, <1>2, <1>3, <1>4
  <2> QED BY <1>4, <2>1 DEF IsNonTerminal
<1>6. cursor' = [rule |-> child, index |-> 0, pos |-> cursor.pos]
  <2>1. cursor \in [rule : Ids(given), index : Int, pos : Int]
    BY <1>3 DEF ScanType
  <2> QED BY <1>1, <2>1 DEF EnterFront
<1>7. ScanType'
  BY <1>1, <1>2, <1>3, <1>4, <1>5, <1>6 DEF ScanType, ScanFrame, lengthVars
<1>8. PICK place2 : place2 = [k \in {0} |-> begin]
  OBVIOUS
<1>9. place2[0] = begin
  BY <1>8
<1>10. Back' = 0
  BY <1>1, <1>2 DEF Back, ScanFrame
<1>11. begin + given.off[child][0 + Back'] = cursor'.pos + Back'
  <2>1. given.off[child][0 + Back'] = 0
    BY <1>3, <1>4, <1>5, <1>10, OffsetFacts
  <2>2. cursor'.pos = cursor.pos
    BY <1>6
  <2> QED BY <1>10, <2>1, <2>2
<1>12. CallsStand(place2)' /\ CallsNested(place2)'
  <2>1. UNCHANGED lengthVars /\ writing' = << >>
    BY <1>1, <1>2 DEF ScanFrame
  <2>2. /\ child \in Ids(given) /\ begin \in Nat /\ Stands(begin, child)
        /\ cursor'.rule = child /\ cursor'.index = 0
        /\ 0 + Back' \in 0 .. Size(given.rules[child])
    BY <1>4, <1>5, <1>6, <1>10
  <2> HIDE DEF child, begin
  <2> QED BY <1>9, <1>11, <2>1, <2>2, ScanAlone
<1>13. CallsInRange(place2)'
  <2>1. /\ hi <= place2[0] + Length(given, child) /\ pc' = "right" /\ hi' = hi /\ Len(writing') = 0
        /\ cursor'.rule = child /\ cursor'.pos = cursor.pos /\ cursor.pos <= hi
        /\ \A r : Length(given, r)' = Length(given, r)
    <3>1. hi <= begin + span /\ cursor.pos <= hi
      <4> HIDE DEF span
      <4> QED BY <1>1, <1>2, <1>3, <1>4
    <3>2. hi <= begin + Length(given, child)
      BY <1>4, <1>5, <3>1
    <3> QED BY <1>1, <1>2, <1>6, <1>9, <3>1, <3>2, StandsFixed DEF ScanFrame
  <2> HIDE DEF child
  <2> QED BY <2>1 DEF CallsInRange
<1>14. WrittenSoFar'
  <2>1. cursor'.pos = cursor.pos
    BY <1>6
  <2>2. out' = Part(request[1].from, Max({lo, cursor'.pos}))
    BY <1>1, <1>2, <1>3, <2>1 DEF WrittenSoFar
  <2> QED BY <1>1, <1>2, <2>2, RightWritten
<1>15. ScanInv(place2)' /\ out' \in Seq(Nat) /\ charStack' \in Seq(Nat)
  BY <1>1, <1>3, <1>12, <1>13 DEF ScanInv
<1> QED BY <1>1, <1>2, <1>7, <1>14, <1>15, ScanGoesOn

(* write_expansion: the symbol it is at. *)
LEMMA ExpandSymbol ==
  ASSUME NEW place, WalkInv, AtInv, SubstrInv(place), WritesForward
  PROVE  LET span == SymbolLength(Inner.rule, Inner.index)
         IN  /\ pc = "right" /\ Depth # 0 /\ Inner = Writer /\ InnerSymbol = WriterSymbol
             /\ WriterSymbolLength = span
             /\ Inner.index \in 0 .. (Size(given.rules[Inner.rule]) - 1)
             /\ span \in Nat \ {0} /\ cursor.pos \in Nat
             /\ cursor.pos + span <= SourceLength
             /\ IsTerminal(WriterSymbol) =>
                  span = 1 /\ given.text[given.start][cursor.pos] = WriterSymbol
<1> DEFINE span == SymbolLength(Inner.rule, Inner.index)
<1>1. /\ pc = "right" /\ writing # << >> /\ Writer.index < Size(given.rules[Writer.rule])
      /\ ScanState(place) /\ ScanType /\ SourceLength \in Nat /\ cursor.pos \in Int
  BY RunningScan, SourceFacts DEF WritesForward
<1>2. Depth # 0 /\ Depth \in Nat
  BY <1>1 DEF Depth, ScanType
<1>3. PICK n : n = Depth
  OBVIOUS
<1>4. /\ Inner = writing[n] /\ Inner = Writer /\ InnerSymbol = WriterSymbol
      /\ WriterSymbolLength = span
  BY <1>1, <1>2, <1>3 DEF Inner, Calling, Depth, Writer, InnerSymbol, WriterSymbol, WriterSymbolLength
<1>5. /\ Inner.index \in Int /\ Size(given.rules[Inner.rule]) \in Nat /\ place[n] \in Nat
      /\ Inner.index + Back \in 0 .. Size(given.rules[Inner.rule]) /\ Back = 0
      /\ place[n] + Length(given, Inner.rule) <= SourceLength /\ Length(given, Inner.rule) \in Nat
  BY <1>1, <1>3, InnerFacts DEF Back
<1>6. Inner.index \in 0 .. (Size(given.rules[Inner.rule]) - 1)
  BY <1>1, <1>4, <1>5
<1>7. /\ span \in Nat \ {0} /\ cursor.pos \in Nat
      /\ cursor.pos + span <= place[n] + Length(given, Inner.rule)
      /\ IsTerminal(InnerSymbol) =>
           span = 1 /\ given.text[given.start][cursor.pos] = InnerSymbol
  <2>1. pc # "left"
    BY <1>1
  <2> QED BY <1>1, <1>3, <1>6, <2>1, InnerSymbolFacts
<1>8. cursor.pos + span <= SourceLength
  <2> DEFINE end == place[n] + Length(given, Inner.rule)
  <2>1. end \in Nat /\ end <= SourceLength /\ cursor.pos + span <= end
    BY <1>5, <1>7
  <2> HIDE DEF end, span
  <2> QED BY <1>1, <1>7, <2>1
<1> QED BY <1>1, <1>2, <1>4, <1>6, <1>7, <1>8

(* The step of write_expansion over a symbol it does not call itself for. *)
LEMMA ExpandPasses ==
  ASSUME NEW place, WalkInv, AtInv, SubstrInv(place), WritesForward, ScanFrame,
         NEW span, span = SymbolLength(Inner.rule, Inner.index),
         cursor' = [cursor EXCEPT !.pos = @ + span], writing' = Moved(1)
  PROVE  ScanInv(place)' /\ ScanType' /\ cursor'.pos = cursor.pos + span
<1>1. /\ pc = "right" /\ Depth # 0
      /\ Inner.index \in 0 .. (Size(given.rules[Inner.rule]) - 1)
  BY ExpandSymbol
<1>2. writing' = Moved(IF pc = "left" THEN -1 ELSE 1)
  BY <1>1
<1>3. cursor' = [cursor EXCEPT !.pos = IF pc = "left" THEN @ - span ELSE @ + span]
  BY <1>1
<1>4. PICK n : n = Depth
  OBVIOUS
<1>5. n # 0
  BY <1>1, <1>4
<1>6. /\ ScanInv(place)' /\ ScanType'
      /\ cursor'.pos = IF pc = "left" THEN cursor.pos - span ELSE cursor.pos + span
  BY <1>1, <1>2, <1>3, <1>4, <1>5, WriterPasses
<1> QED BY <1>1, <1>6

LEMMA ExpandTerminalInv ==
  ASSUME NEW place, WalkInv, AtInv, SubstrInv(place), ExpandTerminal
  PROVE  SubstrInv(place)'
<1>1. /\ WritesForward /\ ScanFrame /\ IsTerminal(WriterSymbol) /\ charStack' = charStack
      /\ out' = IF cursor.pos >= lo THEN Append(out, WriterSymbol) ELSE out
      /\ cursor' = [cursor EXCEPT !.pos = @ + 1]
      /\ writing' = Moved(1)
  BY DEF ExpandTerminal, ScanFrame
<1>2. /\ pc = "right" /\ SymbolLength(Inner.rule, Inner.index) = 1 /\ cursor.pos \in Nat
      /\ cursor.pos + 1 <= SourceLength
      /\ given.text[given.start][cursor.pos] = WriterSymbol
  BY <1>1, ExpandSymbol
<1>3. /\ lo \in Nat /\ WrittenSoFar /\ request[1].from \in Nat /\ request[1].from <= lo
      /\ out \in Seq(Nat) /\ charStack \in Seq(Nat) /\ given \in Inputs /\ LengthsComputed
      /\ SourceLength \in Nat
  BY <1>2, RunningScan, SourceFacts
<1>4. ScanInv(place)' /\ ScanType' /\ cursor'.pos = cursor.pos + 1
  BY <1>1, <1>2, ExpandPasses
<1>5. WrittenSoFar' /\ out' \in Seq(Nat)
  <2>1. CASE cursor.pos >= lo
    <3>1. cursor.pos < SourceLength /\ lo <= cursor.pos /\ out' = Append(out, WriterSymbol)
      BY <1>1, <1>2, <1>3, <2>1
    <3> QED BY <1>1, <1>2, <1>3, <1>4, <3>1, CharacterRight
  <2>2. CASE ~(cursor.pos >= lo)
    <3> DEFINE p == cursor.pos
               q == cursor'.pos
    <3>1. p \in Int /\ q \in Int /\ p <= q /\ q <= lo /\ out' = out
      BY <1>1, <1>2, <1>3, <1>4, <2>2
    <3> QED BY <1>1, <1>2, <1>3, <3>1, NothingRight
  <2> QED BY <2>1, <2>2
<1> QED BY <1>1, <1>2, <1>3, <1>4, <1>5, ScanGoesOn

LEMMA ExpandPassInv ==
  ASSUME NEW place, WalkInv, AtInv, SubstrInv(place), ExpandPass
  PROVE  SubstrInv(place)'
<1>1. PICK span : span = SymbolLength(Inner.rule, Inner.index)
  OBVIOUS
<1>2. /\ WritesForward /\ ScanFrame /\ UNCHANGED << out, charStack >>
      /\ cursor.pos + WriterSymbolLength <= lo
      /\ cursor' = [cursor EXCEPT !.pos = @ + WriterSymbolLength]
      /\ writing' = Moved(1)
  BY DEF ExpandPass, ScanFrame
<1>3. pc = "right" /\ WriterSymbolLength = span /\ span \in Nat /\ cursor.pos \in Nat
  BY <1>1, <1>2, ExpandSymbol
<1>4. lo \in Nat /\ WrittenSoFar /\ out \in Seq(Nat) /\ charStack \in Seq(Nat)
  BY <1>3, RunningScan
<1>5. ScanInv(place)' /\ ScanType' /\ cursor'.pos = cursor.pos + span
  BY <1>1, <1>2, <1>3, ExpandPasses
<1>6. WrittenSoFar'
  <2> DEFINE p == cursor.pos
             q == cursor'.pos
  <2>1. p \in Int /\ q \in Int /\ p <= q /\ q <= lo
    BY <1>2, <1>3, <1>4, <1>5
  <2> QED BY <1>2, <1>3, <1>4, <2>1, NothingRight
<1> QED BY <1>2, <1>3, <1>4, <1>5, <1>6, ScanGoesOn

LEMMA ExpandCallInv ==
  ASSUME NEW place, WalkInv, AtInv, SubstrInv(place), ExpandCall
  PROVE  \E place2 : SubstrInv(place2)'
<1>1. /\ WritesForward /\ ScanFrame /\ IsNonTerminal(WriterSymbol)
      /\ UNCHANGED << out, charStack, cursor >>
      /\ writing' = Append(Moved(1), CallForward(RuleId(WriterSymbol)))
  BY DEF ExpandCall, ScanFrame, samplesVars
<1>2. /\ pc = "right" /\ Depth # 0
      /\ Inner.index \in 0 .. (Size(given.rules[Inner.rule]) - 1)
  BY <1>1, ExpandSymbol
<1>3. WrittenSoFar /\ out \in Seq(Nat) /\ charStack \in Seq(Nat)
  BY <1>2, RunningScan
<1>4. (\E place2 : ScanInv(place2)') /\ ScanType'
  <2>1. PICK n : n = Depth
    OBVIOUS
  <2>2. writing' = Append(Moved(IF pc = "left" THEN -1 ELSE 1),
                          IF pc = "left" THEN CallReverse(RuleId(WriterSymbol))
                          ELSE CallForward(RuleId(WriterSymbol)))
    BY <1>1, <1>2
  <2>3. n # 0
    BY <1>2, <2>1
  <2> QED BY <1>1, <1>2, <2>1, <2>2, <2>3, WriterCalls
<1>5. WrittenSoFar'
  BY <1>1, <1>2, <1>3, RightWritten DEF WrittenSoFar
<1> QED BY <1>1, <1>2, <1>3, <1>4, <1>5, ScanGoesOn

LEMMA ExpandReturnInv ==
  ASSUME NEW place, WalkInv, AtInv, SubstrInv(place), ExpandReturn
  PROVE  SubstrInv(place)'
<1>1. /\ pc = "right" /\ writing # << >> /\ Writer.index = Size(given.rules[Writer.rule])
      /\ writing' = Front(writing)
      /\ ScanFrame /\ UNCHANGED << out, charStack, cursor >>
  BY DEF ExpandReturn, ScanFrame, samplesVars
<1>2. /\ ScanState(place) /\ ScanType /\ WrittenSoFar /\ out \in Seq(Nat) /\ charStack \in Seq(Nat)
  BY <1>1, RunningScan
<1>3. PICK n : n = Depth
  OBVIOUS
<1>4. n # 0 /\ Inner = Writer
  BY <1>1, <1>2, <1>3 DEF Depth, ScanType, Inner, Calling, Writer
<1>5. Inner.index + Back = (IF pc = "left" THEN 0 ELSE Size(given.rules[Inner.rule]))
  <2>1. Inner.index \in Int /\ Back = 0 /\ Size(given.rules[Inner.rule]) \in Nat
    BY <1>1, <1>2, InnerFacts DEF Back
  <2> QED BY <1>1, <1>4, <2>1
<1>6. ScanInv(place)' /\ ScanType'
  BY <1>1, <1>3, <1>4, <1>5, CallReturns
<1>7. WrittenSoFar'
  BY <1>1, <1>2, RightWritten DEF WrittenSoFar
<1> QED BY <1>1, <1>2, <1>6, <1>7, ScanGoesOn

-----------------------------------------------------------------------------
(***************************************************************************)
(* The loop over the blocks                                                *)
(***************************************************************************)

(* A query of substr. *)
LEMMA QueryIs ==
  ASSUME NEW n \in Nat, NEW query \in Queries(n), query.op = "substr"
  PROVE  query.from \in Nat /\ query.len \in Nat
<1>1. ASSUME NEW i \in 0 .. (n - 1), query = AtQuery(i) PROVE FALSE
  <2>1. query.op = "at"
    BY <1>1 DEF AtQuery
  <2> QED BY <2>1
<1>2. PICK f \in 0 .. (n + 1), l \in 0 .. (n + 1) : query = SubstrQuery(f, l)
  BY <1>1 DEF Queries
<1> QED BY <1>2 DEF SubstrQuery

LEMMA EndIs ==
  ASSUME SourceLength \in Nat, NEW query, query.from \in Nat, query.len \in Nat
  PROVE  SubstrEnd(query) \in Nat /\ SubstrEnd(query) <= SourceLength
<1> DEFINE sum == query.from + query.len
<1>1. sum \in Nat /\ SubstrEnd(query) = Min({sum, SourceLength})
  BY DEF SubstrEnd
<1> HIDE DEF sum
<1>2. SubstrEnd(query) = IF sum <= SourceLength THEN sum ELSE SourceLength
  BY <1>1, MinOfInts
<1> QED BY <1>1, <1>2

LEMMA NothingBetween ==
  ASSUME NEW a \in Nat, NEW b \in Int, b <= a
  PROVE  Part(a, b) = << >>
<1>1. Max({0, b - a}) = 0
  <2> DEFINE d == b - a
  <2>1. d \in Int /\ d <= 0
    OBVIOUS
  <2> HIDE DEF d
  <2>2. Max({0, d}) = 0
    BY <2>1, MaxOfTwo
  <2> QED BY <2>2 DEF d
<1> DEFINE char(k) == given.text[given.start][a + k - 1]
<1>2. Part(a, b) = [k \in 1 .. 0 |-> char(k)]
  BY <1>1 DEF Part
<1> HIDE DEF char
<1> QED BY <1>2

(* Where block b begins and ends. *)
LEMMA NextBegins ==
  ASSUME NEW b \in Nat, Sampling \in Nat \ {0}
  PROVE  /\ BlockStart(b) \in Nat /\ BlockStart(b) = b * Sampling
         /\ BlockStart(b + 1) = BlockStart(b) + Sampling
         /\ (b + 1) * Sampling = BlockStart(b) + Sampling
         /\ ((b + 1) + 1) * Sampling = BlockStart(b) + Sampling + Sampling
BY DEF BlockStart

(* What is known while substr runs. *)
LEMMA RunningSubstr ==
  ASSUME NEW place, WalkInv, AtInv, SubstrInv(place), InSubstr
  PROVE  /\ given \in Inputs /\ LengthsComputed
         /\ Sampling \in Nat \ {0} /\ SourceLength \in Nat
         /\ request # << >> /\ request[1] \in Queries(SourceLength)
         /\ request[1].from \in Nat
         /\ SubstrEnd(request[1]) \in Nat /\ SubstrEnd(request[1]) <= SourceLength
         /\ block \in Nat /\ RangeInv
         /\ out \in Seq(Nat) /\ charStack \in Seq(Nat)
         /\ pc \in {"block", "leftDone"} => writing = << >>
<1>1. InSubstr /\ pc # "lengths"
  BY DEF InSubstr
<1>2. given \in Inputs /\ LengthsComputed
  BY <1>1 DEF WalkInv, BuildInv, WalkTypeOK
<1>3. request # << >> /\ request[1].op = "substr"
  BY <1>1 DEF AtInv, OneQuery, InSubstr
<1>4. SourceLength \in Nat /\ Sampling \in Nat \ {0}
  BY <1>2, SourceFacts
<1>5. request[1] \in Queries(SourceLength)
  BY <1>3 DEF SubstrInv
<1>6. request[1].from \in Nat /\ request[1].len \in Nat
  BY <1>3, <1>4, <1>5, QueryIs
<1>7. SubstrEnd(request[1]) \in Nat /\ SubstrEnd(request[1]) <= SourceLength
  BY <1>4, <1>6, EndIs
<1>8. RangeInv /\ block \in Nat
  BY <1>1 DEF SubstrInv, RangeInv
<1>9. out \in Seq(Nat) /\ charStack \in Seq(Nat) /\ (pc \in {"block", "leftDone"} => writing = << >>)
  BY DEF SubstrInv
<1> QED BY <1>2, <1>3, <1>4, <1>5, <1>6, <1>7, <1>8, <1>9

(* The block at hand has a sample. *)
LEMMA BlockAtHand ==
  ASSUME NEW place, WalkInv, AtInv, SubstrInv(place), InSubstr, block <= lastBlock
  PROVE  LET start == BlockStart(block)
             end   == SubstrEnd(request[1])
             pos   == SampleAt(block).pos
             next  == (block + 1) * Sampling
         IN  /\ block \in Blocks /\ SampleSound(block)
             /\ start \in Nat /\ next \in Nat /\ next = start + Sampling
             /\ start < end /\ start < next /\ request[1].from < next
             /\ pos \in Nat /\ pos = start + samples[block].rel /\ start <= pos
             /\ samples[block].rel \in Nat
             /\ \A h \in Int : h <= next /\ h <= end => h <= BlockEnd(block)
<1> DEFINE start == BlockStart(block)
           end   == SubstrEnd(request[1])
           pos   == SampleAt(block).pos
           next  == (block + 1) * Sampling
           q     == (end - 1) \div Sampling
<1>1. /\ given \in Inputs /\ LengthsComputed
      /\ Sampling \in Nat \ {0} /\ SourceLength \in Nat
      /\ request[1].from \in Nat /\ end \in Nat /\ end <= SourceLength
      /\ block \in Nat /\ RangeInv
  BY RunningSubstr
<1>2. lastBlock = (IF end = 0 THEN -1 ELSE q) /\ (end > 0 => request[1].from < next)
  BY <1>1 DEF RangeInv
<1>3. end > 0 /\ lastBlock = q
  <2> HIDE DEF end, next, q
  <2> QED BY <1>1, <1>2
<1>4. q \in Nat /\ q * Sampling <= end - 1
  <2> DEFINE x == end - 1
  <2>1. x \in Nat
    <3> HIDE DEF end
    <3> QED BY <1>1, <1>3
  <2> HIDE DEF x
  <2>2. x \div Sampling \in Nat /\ (x \div Sampling) * Sampling <= x
    BY <1>1, <2>1, DivBounds
  <2> QED BY <2>2 DEF x
<1>5. start \in Nat /\ start = block * Sampling /\ next = start + Sampling
  BY <1>1, NextBegins
<1>6. block * Sampling <= q * Sampling
  <2>1. block <= q
    BY <1>3
  <2> HIDE DEF q
  <2> QED BY <1>1, <1>4, <2>1, MulMono
<1>7. start < end
  <2> DEFINE l == q * Sampling
             s == block * Sampling
  <2>1. s = start /\ s <= l /\ l <= end - 1 /\ l \in Int
    <3> HIDE DEF q, end, start
    <3> QED BY <1>1, <1>4, <1>5, <1>6
  <2> HIDE DEF l, s, start, end
  <2> QED BY <1>1, <1>5, <2>1
<1>8. block \in Blocks
  <2>1. start < SourceLength
    <3> HIDE DEF start, end
    <3> QED BY <1>1, <1>5, <1>7
  <2> QED BY <1>1, <2>1, BlocksAre
<1>9. SampleSound(block)
  <2>1. SamplesSound
    BY WalkInvImplies
  <2> QED BY <1>8, <2>1 DEF SamplesSound, Building, InSubstr
<1>10. /\ BlockEnd(block) \in Nat
       /\ BlockEnd(block) = IF start + Sampling <= SourceLength THEN start + Sampling ELSE SourceLength
  BY <1>1, <1>8, BlockBounds
<1>11. samples[block].rel \in Nat
  <2>1. samples[block].rel \in 0 .. (BlockEnd(block) - BlockStart(block) - 1)
    BY <1>9 DEF SampleSound
  <2> QED BY <2>1
<1>12. pos = start + samples[block].rel
  BY DEF SampleAt, Cursor
<1>13. pos \in Nat /\ start <= pos
  <2> HIDE DEF pos, start
  <2> QED BY <1>5, <1>11, <1>12
<1>14. start < next /\ next \in Nat /\ request[1].from < next
  <2>1. request[1].from < next
    BY <1>2, <1>3
  <2> HIDE DEF start, next
  <2> QED BY <1>1, <1>5, <2>1
<1>15. \A h \in Int : h <= next /\ h <= end => h <= BlockEnd(block)
  <2> HIDE DEF start, next, end
  <2> QED BY <1>1, <1>5, <1>10
<1> QED BY <1>5, <1>7, <1>8, <1>9, <1>11, <1>12, <1>13, <1>14, <1>15

(* Between two scans. *)
LEMMA SubstrRests ==
  ASSUME UNCHANGED lengthVars, request # << >>, request[1] \in Queries(SourceLength), request' = request,
         out' \in Seq(Nat), charStack' \in Seq(Nat), writing' = << >>,
         pc' \in {"block", "leftDone"}, RangeInv', NEW place
  PROVE  SubstrInv(place)'
<1>1. SourceLength' = SourceLength /\ Queries(SourceLength)' = Queries(SourceLength)
  BY Fixed DEF Queries
<1>2. writing' \in Seq([rule : Ids(given'), index : Int])
  OBVIOUS
<1> QED BY <1>1, <1>2 DEF SubstrInv

(* The next block begins where this one ends. *)
LEMMA NextBlock ==
  ASSUME NEW place, WalkInv, AtInv, SubstrInv(place), InSubstr, block <= lastBlock,
         UNCHANGED << lengthVars, samples, request, lastBlock >>,
         hi = Min({(block + 1) * Sampling, SubstrEnd(request[1])}),
         block' = block + 1, pc' = "block", writing' = << >>, charStack' \in Seq(Nat),
         out' = Part(request[1].from, hi)
  PROVE  SubstrInv(place)'
<1> DEFINE from == request[1].from
           end  == SubstrEnd(request[1])
           next == (block + 1) * Sampling
           after == ((block + 1) + 1) * Sampling
<1>1. /\ given \in Inputs /\ LengthsComputed
      /\ Sampling \in Nat \ {0} /\ SourceLength \in Nat
      /\ request # << >> /\ request[1] \in Queries(SourceLength)
      /\ from \in Nat /\ end \in Nat /\ end <= SourceLength
      /\ block \in Nat /\ RangeInv
  BY RunningSubstr
<1>2. /\ next \in Nat /\ from < next /\ BlockStart(block) \in Nat /\ next = BlockStart(block) + Sampling
  BY BlockAtHand
<1>3. /\ BlockStart(block + 1) = next /\ after = next + Sampling
  <2>1. /\ BlockStart(block + 1) = BlockStart(block) + Sampling
        /\ after = BlockStart(block) + Sampling + Sampling
    BY <1>1, NextBegins
  <2> HIDE DEF next, after
  <2> QED BY <1>1, <1>2, <2>1
<1>4. Max({from, next}) = next
  <2> HIDE DEF from, next
  <2> QED BY <1>1, <1>2, MaxOfTwo
<1>5. hi = Min({end, next}) /\ hi \in Int /\ hi <= SourceLength
  <2>1. hi = Min({next, end})
    OBVIOUS
  <2> HIDE DEF end, next
  <2>2. Min({next, end}) = (IF next <= end THEN next ELSE end)
    BY <1>1, <1>2, MinOfInts
  <2>3. Min({end, next}) = (IF end <= next THEN end ELSE next)
    BY <1>1, <1>2, MinOfInts
  <2> QED BY <1>1, <1>2, <2>1, <2>2, <2>3
<1>6. out' \in Seq(Nat)
  <2> HIDE DEF from
  <2>1. Part(from, hi) \in Seq(Nat)
    BY <1>1, <1>5, PartIs
  <2> QED BY <2>1 DEF from
<1>7. /\ given' = given /\ SourceLength' = SourceLength
      /\ \A b : BlockStart(b)' = BlockStart(b)
      /\ \A a, b : Part(a, b)' = Part(a, b)
  BY Fixed DEF Part
<1>8. request' = request /\ SubstrEnd(request[1])' = end
  BY <1>7 DEF SubstrEnd
<1>9. RangeInv'
  <2>1. block' \in Nat
    BY <1>1
  <2>2. lastBlock' = IF end = 0 THEN -1 ELSE (end - 1) \div Sampling
    BY <1>1 DEF RangeInv
  <2>3. from < (block' + 1) * Sampling
    <3>1. from < after
      <4> HIDE DEF from, next, after
      <4> QED BY <1>1, <1>2, <1>3
    <3> QED BY <3>1
  <2>4. out' = Part(from, Min({end, Max({from, BlockStart(block')})}))
    <3>1. BlockStart(block') = next
      BY <1>3
    <3>2. Min({end, Max({from, BlockStart(block')})}) = hi
      BY <1>4, <1>5, <3>1
    <3> QED BY <3>2
  <2>5. BlockStart(block)' = BlockStart(block')
    BY <1>7
  <2> HIDE DEF end, next, after
  <2> QED BY <1>7, <1>8, <2>1, <2>2, <2>3, <2>4, <2>5 DEF RangeInv, Part, BlockStart
<1> QED BY <1>1, <1>6, <1>9, SubstrRests

(* The block goes on: its range stays. *)
LEMMA BlockGoesOn ==
  ASSUME NEW place, WalkInv, AtInv, SubstrInv(place), InSubstr, block <= lastBlock,
         UNCHANGED << lengthVars, samples, request, block, lastBlock >>, pc' # "block",
         lo' = Max({request[1].from, BlockStart(block)}),
         hi' = Min({(block + 1) * Sampling, SubstrEnd(request[1])}),
         pc' \in {"left", "right"} => lo' < hi',
         pc' = "left" => lo' < SampleAt(block).pos,
         pc' = "leftDone" => out' = Part(request[1].from, Max({lo', Min({hi', SampleAt(block).pos})}))
  PROVE  RangeInv'
<1> DEFINE from == request[1].from
           end  == SubstrEnd(request[1])
           pos  == SampleAt(block).pos
<1>1. RangeInv
  BY RunningSubstr
<1>2. /\ block' = block /\ lastBlock' = lastBlock /\ request' = request /\ given' = given
      /\ SubstrEnd(request[1])' = end /\ SampleAt(block)' = SampleAt(block)
      /\ BlockStart(block)' = BlockStart(block)
      /\ \A a, b : Part(a, b)' = Part(a, b)
  BY Fixed DEF SubstrEnd, SampleAt, Cursor, BlockStart, Part
<1>3. block' \in Nat /\ lastBlock' = (IF end = 0 THEN -1 ELSE (end - 1) \div Sampling)
  BY <1>1, <1>2 DEF RangeInv
<1>4. end > 0 => from < (block' + 1) * Sampling
  BY <1>1, <1>2 DEF RangeInv
<1>5. pc' = "leftDone" => out' = Part(from, Max({lo, Min({hi, pos})}))'
  <2>1. ASSUME pc' = "leftDone"
        PROVE  out' = Part(from, Max({lo', Min({hi', pos})}))
    BY <2>1
  <2> HIDE DEF pos
  <2>2. Part(from, Max({lo, Min({hi, pos})}))' = Part(from, Max({lo', Min({hi', pos})}))
    BY <1>2 DEF Part, pos
  <2> QED BY <1>2, <2>1, <2>2 DEF pos
<1>6. block' <= lastBlock' /\ lo' = Max({from, BlockStart(block)'})
      /\ hi' = Min({(block' + 1) * Sampling, end})
  BY <1>2
<1> HIDE DEF end
<1> QED BY <1>2, <1>3, <1>4, <1>5, <1>6 DEF RangeInv

(* BlockLo and BlockHi cut the range to the block. *)
LEMMA BlockRange ==
  ASSUME NEW place, WalkInv, AtInv, SubstrInv(place), InSubstr, block <= lastBlock
  PROVE  LET l == BlockLo(request[1])
             h == BlockHi(request[1])
             next == (block + 1) * Sampling
             end == SubstrEnd(request[1])
         IN  /\ l = Max({request[1].from, BlockStart(block)}) /\ l \in Nat
             /\ request[1].from <= l /\ BlockStart(block) <= l
             /\ l > BlockStart(block) => l = request[1].from
             /\ h = Min({next, end}) /\ h \in Nat /\ h <= next /\ h <= end
             /\ h \in {next, end} /\ h <= BlockEnd(block)
<1> DEFINE start == BlockStart(block)
           end   == SubstrEnd(request[1])
           next  == (block + 1) * Sampling
           from  == request[1].from
           l == BlockLo(request[1])
           h == BlockHi(request[1])
<1>1. /\ Sampling \in Nat \ {0} /\ from \in Nat /\ end \in Nat
  BY RunningSubstr
<1>2. /\ start \in Nat /\ next \in Nat /\ next = start + Sampling
      /\ \A k \in Int : k <= next /\ k <= end => k <= BlockEnd(block)
  BY BlockAtHand
<1>3. l = Max({from, start})
  BY DEF BlockLo
<1>4. l = IF from >= start THEN from ELSE start
  <2> HIDE DEF from, start, l
  <2> QED BY <1>1, <1>2, <1>3, MaxOfTwo
<1>5. l \in Nat /\ from <= l /\ start <= l /\ (l > start => l = from)
  <2> HIDE DEF from, start, l
  <2> QED BY <1>1, <1>2, <1>4
<1> DEFINE a == Sampling - (l - start)
           b == end - l
<1>6. h = l + Min({a, b})
  BY DEF BlockHi
<1>7. a \in Int /\ b \in Int /\ l + a = next /\ l + b = end
  <2> HIDE DEF l, start, next, end
  <2> QED BY <1>1, <1>2, <1>5
<1>8. h = IF a <= b THEN next ELSE end
  <2> HIDE DEF a, b, l, h, next, end
  <2>1. Min({a, b}) = IF a <= b THEN a ELSE b
    BY <1>7, MinOfInts
  <2> QED BY <1>5, <1>6, <1>7, <2>1
<1>9. h = IF next <= end THEN next ELSE end
  <2> HIDE DEF a, b, l, h, next, end
  <2>1. a <= b <=> next <= end
    BY <1>5, <1>7
  <2> QED BY <1>8, <2>1
<1>10. h = Min({next, end})
  <2> HIDE DEF h, next, end
  <2> QED BY <1>1, <1>2, <1>9, MinOfInts
<1>11. h \in Nat /\ h <= next /\ h <= end /\ h \in {next, end}
  <2> HIDE DEF h, next, end
  <2> QED BY <1>1, <1>2, <1>9
<1>12. h <= BlockEnd(block)
  <2> HIDE DEF h, next, end
  <2> QED BY <1>2, <1>11
<1> QED BY <1>3, <1>5, <1>10, <1>11, <1>12

(* At the start of a block everything before it has been written. *)
LEMMA WrittenBefore ==
  ASSUME NEW place, WalkInv, AtInv, SubstrInv(place), pc = "block", block <= lastBlock
  PROVE  out = Part(request[1].from, BlockLo(request[1]))
<1> DEFINE start == BlockStart(block)
           end   == SubstrEnd(request[1])
           from  == request[1].from
           l == BlockLo(request[1])
<1>0. InSubstr
  BY DEF InSubstr
<1>1. /\ from \in Nat /\ end \in Nat /\ RangeInv
  BY <1>0, RunningSubstr
<1>2. start \in Nat /\ start < end
  BY <1>0, BlockAtHand
<1>3. l \in Nat /\ from <= l /\ start <= l /\ (l > start => l = from)
  BY <1>0, BlockRange
<1>4. out = Part(from, Min({end, l}))
  BY <1>1 DEF RangeInv, BlockLo
<1>5. CASE l <= end
  <2> HIDE DEF l, end, from
  <2>1. Min({end, l}) = l
    BY <1>1, <1>3, <1>5, MinOfInts
  <2> QED BY <1>4, <2>1 DEF l, from
<1>6. CASE ~(l <= end)
  <2> HIDE DEF l, end, from, start
  <2>1. l = from /\ end <= from
    BY <1>1, <1>2, <1>3, <1>6
  <2>2. Min({end, l}) = end
    BY <1>1, <1>3, <1>6, MinOfInts
  <2>3. Part(from, end) = << >> /\ Part(from, from) = << >>
    BY <1>1, <2>1, NothingBetween
  <2> QED BY <1>4, <2>1, <2>2, <2>3 DEF l, from
<1> QED BY <1>5, <1>6

(* Where the rule of the sample stands, and the sampled symbol in it. *)
LEMMA SampleStands ==
  ASSUME given \in Inputs, LengthsComputed, NEW b \in Blocks, SampleSound(b),
         NEW p, p = SampledStart(b)
  PROVE  LET rule  == samples[b].rule
             index == samples[b].index
             pos   == BlockStart(b) + samples[b].rel
         IN  /\ rule \in Ids(given) /\ index \in Nat /\ Size(given.rules[rule]) \in Nat
             /\ index \in 0 .. (Size(given.rules[rule]) - 1) /\ index \in 0 .. Size(given.rules[rule])
             /\ given.off[rule][index] \in Nat /\ Length(given, rule) \in Nat
             /\ p \in Nat /\ Stands(p, rule) /\ pos \in Nat
             /\ p + given.off[rule][index] = pos
             /\ p <= BlockStart(b) /\ BlockEnd(b) <= p + Length(given, rule)
<1> DEFINE rule  == samples[b].rule
           index == samples[b].index
           pos   == BlockStart(b) + samples[b].rel
           off   == given.off[rule][index]
<1>1. /\ rule \in Ids(given)
      /\ index \in 0 .. (Size(given.rules[rule]) - 1)
      /\ samples[b].rel \in 0 .. (BlockEnd(b) - BlockStart(b) - 1)
      /\ Stands(p, rule) /\ p <= BlockStart(b) /\ p + Length(given, rule) >= BlockEnd(b)
      /\ p = pos - off
  <2>1. /\ rule \in Ids(given)
        /\ index \in 0 .. (Size(given.rules[rule]) - 1)
        /\ samples[b].rel \in 0 .. (BlockEnd(b) - BlockStart(b) - 1)
        /\ Stands(p, rule) /\ p <= BlockStart(b) /\ p + Length(given, rule) >= BlockEnd(b)
    BY DEF SampleSound
  <2>2. p = BlockStart(b) + (samples[b].rel - off)
    BY DEF SampledStart
  <2>3. off \in Nat /\ BlockStart(b) \in Nat /\ samples[b].rel \in Nat
    BY <2>1, SymbolPlace, OffsetFacts, BlockBounds
  <2>4. p = pos - off
    <3> HIDE DEF off
    <3> QED BY <2>2, <2>3
  <2> QED BY <2>1, <2>4
<1>2. /\ Size(given.rules[rule]) \in Nat /\ off \in Nat /\ Length(given, rule) \in Nat
      /\ BlockStart(b) \in Nat /\ BlockEnd(b) \in Nat
  BY <1>1, SymbolPlace, LengthNat, OffsetFacts, BlockBounds
<1>3. p \in Nat
  <2>1. p \in 0 .. (SourceLength - Length(given, rule))
    BY <1>1 DEF Stands
  <2> QED BY <2>1
<1>4. pos \in Nat /\ index \in Nat /\ index \in 0 .. Size(given.rules[rule])
  BY SMTT(30), <1>1, <1>2
<1>5. p + off = pos
  <2> HIDE DEF pos, off
  <2> QED BY <1>1, <1>2, <1>3, <1>4
<1>6. BlockEnd(b) <= p + Length(given, rule)
  <2> HIDE DEF rule
  <2> QED BY <1>1, <1>2, <1>3
<1> QED BY <1>1, <1>2, <1>3, <1>4, <1>5, <1>6

LEMMA StartLeftInv ==
  ASSUME NEW place, WalkInv, AtInv, SubstrInv(place), StartLeft
  PROVE  \E place2 : SubstrInv(place2)'
<1> DEFINE from == request[1].from
           end == SubstrEnd(request[1])
           l == BlockLo(request[1])
           h == BlockHi(request[1])
           pos == SampleAt(block).pos
           sample == samples[block]
<1>1. /\ pc = "block" /\ block <= lastBlock /\ lo' = l /\ hi' = h
      /\ cursor' = Cursor(sample.rule, sample.index - 1, BlockStart(block) + sample.rel - 1)
      /\ pc' = IF NothingLeft(sample, l, h) THEN "leftDone" ELSE "left"
      /\ charStack' = << >>
      /\ UNCHANGED << lengthVars, samples, request, reply, out, block, lastBlock, writing >>
  BY DEF StartLeft
<1>2. InSubstr
  BY <1>1 DEF InSubstr
<1>3. /\ given \in Inputs /\ LengthsComputed
      /\ request # << >> /\ request[1] \in Queries(SourceLength)
      /\ from \in Nat /\ end \in Nat /\ end <= SourceLength /\ SourceLength \in Nat
      /\ block \in Nat /\ RangeInv /\ out \in Seq(Nat) /\ writing = << >>
  BY <1>1, <1>2, RunningSubstr
<1>4. /\ block \in Blocks /\ SampleSound(block)
      /\ pos \in Nat /\ pos = BlockStart(block) + sample.rel /\ BlockStart(block) <= pos
      /\ BlockStart(block) \in Nat /\ sample.rel \in Nat
  BY <1>1, <1>2, BlockAtHand
<1>5. /\ l = Max({from, BlockStart(block)}) /\ l \in Nat /\ from <= l /\ BlockStart(block) <= l
      /\ h = Min({(block + 1) * Sampling, end}) /\ h \in Nat /\ h <= end
  BY <1>1, <1>2, BlockRange
<1>6. out = Part(from, l)
  BY <1>1, WrittenBefore
<1>7. /\ given' = given /\ SourceLength' = SourceLength
      /\ \A b : BlockStart(b)' = BlockStart(b)
      /\ \A a, b : Part(a, b)' = Part(a, b)
  BY <1>1, Fixed DEF Part
<1>8. SubstrEnd(request[1])' = end /\ SampleAt(block)' = SampleAt(block)
  BY <1>1, <1>7 DEF SubstrEnd, SampleAt, Cursor
<1>9. Min({h, pos}) = IF h <= pos THEN h ELSE pos
  <2>1. h \in Int /\ pos \in Int
    <3> HIDE DEF h, pos
    <3> QED BY <1>4, <1>5
  <2> HIDE DEF h, pos
  <2> QED BY <2>1, MinOfInts
<1>12. /\ UNCHANGED << lengthVars, samples, request, block, lastBlock >> /\ block <= lastBlock
       /\ lo' = Max({from, BlockStart(block)}) /\ hi' = Min({(block + 1) * Sampling, end})
  BY <1>1, <1>5
<1>10. CASE NothingLeft(sample, l, h)
  <2>1. l >= pos \/ h <= l
    <3>1. l > BlockStart(block) + sample.rel - 1 \/ h <= l \/ sample.rel = 0
      BY <1>10 DEF NothingLeft
    <3> HIDE DEF l, h, pos, sample
    <3> QED BY <1>4, <1>5, <3>1
  <2>2. Max({l, Min({h, pos})}) = l
    <3> DEFINE m == Min({h, pos})
    <3>1. m \in Int /\ m <= l
      <4> HIDE DEF h, pos, l
      <4> QED BY <1>4, <1>5, <1>9, <2>1
    <3>2. l \in Int
      <4> HIDE DEF l
      <4> QED BY <1>5
    <3> HIDE DEF m, l
    <3>3. Max({l, m}) = IF l >= m THEN l ELSE m
      BY <3>1, <3>2, MaxOfTwo
    <3>4. Max({l, m}) = l
      BY <3>1, <3>2, <3>3
    <3> QED BY <3>4 DEF m
  <2>3. pc' = "leftDone"
    BY <1>1, <1>10
  <2>4. RangeInv'
    <3>1. out' = Part(from, Max({lo', Min({hi', pos})}))
      BY <1>1, <1>6, <2>2
    <3> HIDE DEF l, h, end, sample
    <3>2. pc' # "block" /\ pc' \notin {"left", "right"} /\ pc' # "left"
      BY <2>3
    <3> QED BY <1>2, <1>12, <2>3, <3>1, <3>2, BlockGoesOn DEF end
  <2>5. SubstrInv(place)'
    <3> HIDE DEF l, h, end, sample
    <3> QED BY <1>1, <1>3, <2>3, <2>4, SubstrRests
  <2> QED BY <2>5
<1>11. CASE ~NothingLeft(sample, l, h)
  <2>1. l < pos /\ l < h
    <3>1. ~(l > BlockStart(block) + sample.rel - 1) /\ ~(h <= l)
      BY <1>11 DEF NothingLeft
    <3> HIDE DEF l, h, pos, sample
    <3> QED BY <1>4, <1>5, <3>1
  <2>2. pc' = "left"
    BY <1>1, <1>11
  <2>3. RangeInv'
    <3> HIDE DEF l, h, end, sample
    <3>1. pc' # "block" /\ pc' # "leftDone" /\ lo' < hi' /\ lo' < pos
      BY <1>1, <2>1, <2>2
    <3> QED BY <1>2, <1>12, <3>1, BlockGoesOn DEF end
  <2>4. PICK p : p = SampledStart(block)
    OBVIOUS
  <2>5. /\ sample.rule \in Ids(given) /\ sample.index \in Nat
        /\ sample.index \in 0 .. Size(given.rules[sample.rule])
        /\ p \in Nat /\ Stands(p, sample.rule)
        /\ p + given.off[sample.rule][sample.index] = BlockStart(block) + sample.rel
        /\ p <= BlockStart(block)
    BY <1>3, <1>4, <2>4, SampleStands
  <2>6. PICK place2 : place2 = [k \in {0} |-> p]
    OBVIOUS
  <2>7. PICK i \in Int : i = sample.index - 1
    BY <2>5
  <2>8. /\ cursor'.rule = sample.rule /\ cursor'.index = i /\ cursor'.pos = pos - 1
        /\ cursor' \in [rule : Ids(given), index : Int, pos : Int]
        /\ i + 1 = sample.index
    <3>1. pos - 1 \in Int /\ BlockStart(block) + sample.rel - 1 = pos - 1
      <4> HIDE DEF pos, sample
      <4> QED BY <1>4
    <3>2. cursor' = [rule |-> sample.rule, index |-> i, pos |-> pos - 1]
      BY <1>1, <2>7, <3>1 DEF Cursor
    <3>3. i + 1 = sample.index
      BY <2>5, <2>7
    <3> HIDE DEF pos, sample
    <3> QED BY <2>5, <3>1, <3>2, <3>3
  <2>9. Back' = 1
    BY <2>2 DEF Back
  <2>10. CallsStand(place2)' /\ CallsNested(place2)'
    <3>1. cursor'.pos + Back' = pos
      <4> HIDE DEF pos
      <4> QED BY <1>4, <2>8, <2>9
    <3>2. i + Back' = sample.index
      BY <2>8, <2>9
    <3>3. /\ i + Back' \in 0 .. Size(given.rules[sample.rule])
          /\ p + given.off[sample.rule][i + Back'] = cursor'.pos + Back'
      BY <1>4, <2>5, <3>1, <3>2
    <3>4. UNCHANGED lengthVars /\ writing' = << >> /\ place2[0] = p
      BY <1>1, <1>3, <2>6
    <3>5. sample.rule \in Ids(given) /\ Stands(p, sample.rule) /\ cursor'.rule = sample.rule
          /\ p \in Nat /\ cursor'.index = i
      BY <2>5, <2>8
    <3> HIDE DEF sample, pos
    <3> QED BY <3>3, <3>4, <3>5, ScanAlone
  <2>11. CallsInRange(place2)'
    <3>1. place2[0] <= l
      <4> HIDE DEF l
      <4> QED BY <1>4, <1>5, <2>5, <2>6
    <3>2. lo' = l /\ Len(writing') = 0 /\ pc' = "left"
      BY <1>1, <1>3, <2>2
    <3> HIDE DEF l
    <3> QED BY <3>1, <3>2 DEF CallsInRange
  <2>12. WrittenSoFar'
    <3> DEFINE m == Min({h, pos})
    <3>1. m \in Nat /\ l <= m /\ m <= SourceLength
      <4> HIDE DEF h, pos, l, end
      <4> QED BY <1>3, <1>4, <1>5, <1>9, <2>1
    <3>2. Min({cursor'.pos + 1, h}) = m
      <4>1. cursor'.pos + 1 = pos
        <5> HIDE DEF pos
        <5> QED BY <1>4, <2>8
      <4> HIDE DEF h, pos
      <4>2. {pos, h} = {h, pos}
        OBVIOUS
      <4> QED BY <4>1, <4>2
    <3>3. out \o Part(l, m) = Part(from, m)
      <4> HIDE DEF l, m, from
      <4>1. Part(from, l) \o Part(l, m) = Part(from, m)
        BY <1>3, <1>5, <3>1, PartsJoin
      <4> QED BY <1>6, <4>1 DEF l, from
    <3>4. Part(from, m) \in Seq(Nat)
      <4>1. m \in Int
        <5> HIDE DEF m
        <5> QED BY <3>1
      <4>2. from \in Nat /\ m <= SourceLength
        BY <1>3, <3>1
      <4> HIDE DEF m, from
      <4> QED BY <1>3, <4>1, <4>2, PartIs
    <3>5. Reverse(charStack') = << >>
      BY <1>1 DEF Reverse
    <3>6. out \o Part(l, m) \o Reverse(charStack') = Part(from, m)
      <4> DEFINE part == Part(from, m)
      <4>1. part \o << >> = part
        <5> HIDE DEF part
        <5> QED BY <3>4 DEF part
      <4> QED BY <3>3, <3>5, <4>1
    <3>7. out' \o Part(lo', Min({cursor'.pos + 1, hi'})) \o Reverse(charStack')
            = Part(request'[1].from, Min({hi', SampleAt(block').pos}))
      <4>1. SampleAt(block').pos = pos
        BY <1>1
      <4> QED BY <1>1, <3>2, <3>6, <4>1
    <3> HIDE DEF l, h, m, pos, from
    <3>8. SampleAt(block)' = SampleAt(block')
      BY <1>1, <1>8
    <3> QED BY <1>7, <2>2, <3>7, <3>8 DEF WrittenSoFar
  <2>13. SubstrInv(place2)'
    <3>1. InSubstr' /\ request' # << >> /\ request'[1] \in Queries(SourceLength)'
      BY <1>1, <1>3, <1>7, <2>2 DEF InSubstr, Queries
    <3>2. out' \in Seq(Nat) /\ charStack' \in Seq(Nat) /\ writing' \in Seq([rule : Ids(given'), index : Int])
      BY <1>1, <1>3
    <3>3. cursor' \in [rule : Ids(given'), index : Int, pos : Int]
      BY <1>7, <2>8
    <3> QED BY <2>2, <2>3, <2>10, <2>11, <2>12, <3>1, <3>2, <3>3 DEF SubstrInv, ScanInv
  <2> QED BY <2>13
<1> QED BY <1>10, <1>11

LEMMA LeftDoneInv ==
  ASSUME NEW place, WalkInv, AtInv, SubstrInv(place), LeftDone
  PROVE  SubstrInv(place)'
<1> DEFINE from == request[1].from
           pos  == SampleAt(block).pos
           m    == Min({hi, pos})
           q    == cursor.pos + 1
<1>1. /\ pc = "left" /\ writing = << >> /\ cursor.pos < lo
      /\ out' = out \o Reverse(charStack) /\ charStack' = << >> /\ pc' = "leftDone"
      /\ UNCHANGED << lengthVars, samples, request, lo, hi, block, lastBlock, writing >>
  BY DEF LeftDone, samplesVars
<1>2. /\ given \in Inputs /\ LengthsComputed /\ request # << >>
      /\ from \in Nat /\ lo \in Nat /\ hi \in Nat /\ lo < hi /\ hi <= SourceLength
      /\ from <= lo /\ cursor.pos \in Int /\ InSubstr /\ RangeInv /\ WrittenSoFar
      /\ out \in Seq(Nat) /\ charStack \in Seq(Nat)
  BY <1>1, RunningScan
<1>3. /\ block <= lastBlock /\ lo < pos
      /\ lo = Max({from, BlockStart(block)})
      /\ hi = Min({(block + 1) * Sampling, SubstrEnd(request[1])})
  BY <1>1, <1>2 DEF RangeInv
<1>4. pos \in Nat
  BY <1>2, <1>3, BlockAtHand
<1>5. SourceLength \in Nat /\ request[1] \in Queries(SourceLength)
  BY <1>2, RunningSubstr
<1>6. m = (IF hi <= pos THEN hi ELSE pos) /\ m \in Nat /\ lo < m /\ m <= SourceLength
  <2>1. pos \in Int /\ hi \in Int
    <3> HIDE DEF pos
    <3> QED BY <1>2, <1>4
  <2>2. m = (IF hi <= pos THEN hi ELSE pos)
    <3> HIDE DEF pos
    <3> QED BY <2>1, MinOfInts
  <2> HIDE DEF m, pos
  <2> QED BY <1>2, <1>3, <1>4, <1>5, <2>2
<1>7. Part(lo, Min({q, hi})) = << >>
  <2>1. q \in Int /\ q <= lo
    BY <1>1, <1>2
  <2> HIDE DEF q
  <2>2. Min({q, hi}) = IF q <= hi THEN q ELSE hi
    BY <1>2, <2>1, MinOfInts
  <2>3. Min({q, hi}) \in Int /\ Min({q, hi}) <= lo
    BY <1>2, <2>1, <2>2
  <2> QED BY <1>2, <2>3, NothingBetween
<1>8. out' = Part(from, m)
  <2>1. out \o Part(lo, Min({q, hi})) \o Reverse(charStack) = Part(from, m)
    BY <1>1, <1>2 DEF WrittenSoFar
  <2>2. out \o << >> = out
    BY <1>2
  <2> HIDE DEF from, m, q
  <2> QED BY <1>1, <1>7, <2>1, <2>2
<1>9. Max({lo, m}) = m
  <2>1. Max({lo, m}) = IF lo >= m THEN lo ELSE m
    <3> HIDE DEF m
    <3> QED BY <1>2, <1>6, MaxOfTwo
  <2> HIDE DEF m
  <2> QED BY <1>2, <1>6, <2>1
<1>10. out' \in Seq(Nat)
  <2> HIDE DEF from, m
  <2>1. m \in Int
    BY <1>6
  <2>2. Part(from, m) \in Seq(Nat)
    BY <1>2, <1>6, <2>1, PartIs
  <2> QED BY <1>8, <2>2
<1>11. RangeInv'
  <2>1. out' = Part(from, Max({lo', Min({hi', pos})}))
    BY <1>1, <1>8, <1>9
  <2>2. pc' # "block" /\ pc' \notin {"left", "right"} /\ pc' # "left"
    BY <1>1
  <2>3. lo' = Max({from, BlockStart(block)}) /\ hi' = Min({(block + 1) * Sampling, SubstrEnd(request[1])})
    BY <1>1, <1>3
  <2>4. UNCHANGED << lengthVars, samples, request, block, lastBlock >>
    BY <1>1
  <2> QED BY <1>2, <1>3, <2>1, <2>2, <2>3, <2>4, BlockGoesOn
<1> QED BY <1>1, <1>2, <1>5, <1>10, <1>11, SubstrRests

LEMMA StartRightInv ==
  ASSUME NEW place, WalkInv, AtInv, SubstrInv(place), StartRight
  PROVE  \E place2 : SubstrInv(place2)'
<1> DEFINE from == request[1].from
           end  == SubstrEnd(request[1])
           next == (block + 1) * Sampling
           pos  == SampleAt(block).pos
           m    == Min({hi, pos})
           sample == samples[block]
<1>1. /\ pc = "leftDone" /\ cursor' = SampleAt(block)
      /\ IF hi <= pos \/ hi <= lo
         THEN pc' = "block" /\ block' = block + 1
         ELSE pc' = "right" /\ UNCHANGED block
      /\ UNCHANGED << lengthVars, samples, request, out, lo, hi, lastBlock, charStack, writing >>
  BY DEF StartRight
<1>2. InSubstr
  BY <1>1 DEF InSubstr
<1>3. /\ given \in Inputs /\ LengthsComputed /\ SourceLength \in Nat
      /\ request # << >> /\ request[1] \in Queries(SourceLength) /\ from \in Nat
      /\ end \in Nat /\ end <= SourceLength
      /\ RangeInv /\ out \in Seq(Nat) /\ charStack \in Seq(Nat) /\ writing = << >>
  BY <1>1, <1>2, RunningSubstr
<1>4. /\ block <= lastBlock /\ lo = Max({from, BlockStart(block)}) /\ hi = Min({next, end})
      /\ out = Part(from, Max({lo, m}))
  BY <1>1, <1>3 DEF RangeInv
<1>5. /\ block \in Blocks /\ SampleSound(block)
      /\ pos \in Nat /\ pos = BlockStart(block) + sample.rel
      /\ BlockStart(block) \in Nat /\ BlockStart(block) < end
      /\ next \in Nat /\ BlockStart(block) < next /\ from < next
      /\ \A h \in Int : h <= next /\ h <= end => h <= BlockEnd(block)
  BY <1>2, <1>4, BlockAtHand
<1>6. hi = (IF next <= end THEN next ELSE end) /\ hi \in Nat /\ hi <= next /\ hi <= end
  <2> HIDE DEF next, end
  <2> QED BY <1>3, <1>4, <1>5, MinOfInts
<1>7. lo = (IF from >= BlockStart(block) THEN from ELSE BlockStart(block)) /\ lo \in Nat /\ from <= lo
  <2> DEFINE s == BlockStart(block)
  <2>1. from \in Int /\ s \in Int /\ from \in Nat /\ s \in Nat /\ lo = Max({from, s})
    BY <1>3, <1>4, <1>5
  <2> HIDE DEF from, s
  <2>2. Max({from, s}) = IF from >= s THEN from ELSE s
    BY <2>1, MaxOfTwo
  <2>3. lo = (IF from >= s THEN from ELSE s) /\ lo \in Nat /\ from <= lo
    BY <2>1, <2>2
  <2> QED BY <2>3 DEF s
<1>8. m = (IF hi <= pos THEN hi ELSE pos) /\ m \in Nat
  <2>1. pos \in Int /\ hi \in Int
    <3> HIDE DEF pos
    <3> QED BY <1>5, <1>6
  <2> HIDE DEF pos
  <2> QED BY <1>5, <1>6, <2>1, MinOfInts
<1>9. Max({lo, m}) = IF lo >= m THEN lo ELSE m
  <2> HIDE DEF m
  <2> QED BY <1>7, <1>8, MaxOfTwo
<1>10. CASE hi <= pos \/ hi <= lo
  <2>1. out' = Part(from, hi)
    <3>1. CASE hi <= lo
      <4>1. lo = from
        <5> HIDE DEF next, end, from
        <5> QED BY <1>3, <1>5, <1>6, <1>7, <3>1
      <4>2. Max({lo, m}) = lo
        <5> HIDE DEF m, pos
        <5> QED BY <1>5, <1>6, <1>7, <1>8, <1>9, <3>1
      <4>3. Part(from, from) = << >> /\ Part(from, hi) = << >>
        <5> HIDE DEF from
        <5> QED BY <1>3, <1>6, <3>1, <4>1, NothingBetween
      <4> QED BY <1>1, <1>4, <4>1, <4>2, <4>3
    <3>2. CASE hi <= pos /\ lo < hi
      <4>1. Max({lo, m}) = hi
        <5> HIDE DEF m, pos
        <5> QED BY <1>5, <1>6, <1>7, <1>8, <1>9, <3>2
      <4> QED BY <1>1, <1>4, <4>1
    <3> HIDE DEF pos
    <3> QED BY <1>6, <1>7, <1>10, <3>1, <3>2
  <2>2. block' = block + 1 /\ pc' = "block" /\ writing' = << >> /\ charStack' \in Seq(Nat)
    BY <1>1, <1>3, <1>10
  <2>3. UNCHANGED << lengthVars, samples, request, lastBlock >>
    BY <1>1
  <2>4. SubstrInv(place)'
    BY <1>2, <1>4, <2>1, <2>2, <2>3, NextBlock
  <2> QED BY <2>4
<1>11. CASE ~(hi <= pos \/ hi <= lo)
  <2>1. pos < hi /\ lo < hi /\ m = pos
    <3> HIDE DEF pos, m
    <3> QED BY <1>5, <1>6, <1>7, <1>8, <1>11
  <2>2. pc' = "right" /\ block' = block /\ Back' = 0
    BY <1>1, <1>11 DEF Back
  <2>3. RangeInv'
    <3>1. pc' # "block" /\ pc' # "leftDone" /\ pc' # "left" /\ lo' < hi'
      BY <1>1, <2>1, <2>2
    <3>2. lo' = Max({from, BlockStart(block)}) /\ hi' = Min({next, end})
      BY <1>1, <1>4
    <3>3. UNCHANGED << lengthVars, samples, request, block, lastBlock >>
      BY <1>1, <2>2
    <3> QED BY <1>2, <1>4, <3>1, <3>2, <3>3, BlockGoesOn
  <2>4. PICK p : p = SampledStart(block)
    OBVIOUS
  <2>5. /\ sample.rule \in Ids(given) /\ sample.index \in Nat
        /\ sample.index \in 0 .. Size(given.rules[sample.rule])
        /\ p \in Nat /\ Stands(p, sample.rule) /\ Length(given, sample.rule) \in Nat
        /\ p + given.off[sample.rule][sample.index] = BlockStart(block) + sample.rel
        /\ BlockEnd(block) <= p + Length(given, sample.rule)
    BY <1>3, <1>5, <2>4, SampleStands
  <2>6. PICK place2 : place2 = [k \in {0} |-> p]
    OBVIOUS
  <2>7. PICK i \in Int : i = sample.index
    BY <2>5
  <2>8. /\ cursor'.rule = sample.rule /\ cursor'.index = i /\ cursor'.pos = pos
        /\ cursor' \in [rule : Ids(given), index : Int, pos : Int]
    <3>1. cursor' = [rule |-> sample.rule, index |-> i, pos |-> pos] /\ pos \in Int
      <4>1. cursor' = [rule |-> sample.rule, index |-> i, pos |-> BlockStart(block) + sample.rel]
        BY <1>1, <2>7 DEF SampleAt, Cursor
      <4> HIDE DEF pos, sample
      <4> QED BY <1>5, <4>1
    <3> HIDE DEF pos, sample
    <3> QED BY <2>5, <3>1
  <2>9. given' = given /\ SourceLength' = SourceLength /\ \A a, b : Part(a, b)' = Part(a, b)
    BY <1>1, Fixed DEF Part
  <2>10. CallsStand(place2)' /\ CallsNested(place2)'
    <3>1. /\ i + Back' = sample.index /\ cursor'.pos + Back' = pos
      <4> HIDE DEF pos, sample
      <4> QED BY <1>5, <2>2, <2>7, <2>8
    <3>2. /\ i + Back' \in 0 .. Size(given.rules[sample.rule])
          /\ p + given.off[sample.rule][i + Back'] = cursor'.pos + Back'
      BY <1>5, <2>5, <3>1
    <3>3. UNCHANGED lengthVars /\ writing' = << >> /\ place2[0] = p
      BY <1>1, <1>3, <2>6
    <3>4. sample.rule \in Ids(given) /\ Stands(p, sample.rule) /\ cursor'.rule = sample.rule
          /\ p \in Nat /\ cursor'.index = i
      BY <2>5, <2>8
    <3> HIDE DEF sample, pos
    <3> QED BY <3>2, <3>3, <3>4, ScanAlone
  <2>11. CallsInRange(place2)'
    <3>1. hi <= BlockEnd(block)
      <4> HIDE DEF next, end
      <4> QED BY <1>5, <1>6
    <3>2. hi <= p + Length(given, sample.rule)
      <4>1. BlockEnd(block) \in Nat
        BY <1>3, <1>5, BlockBounds
      <4> DEFINE len == Length(given, sample.rule)
      <4>2. len \in Nat /\ BlockEnd(block) <= p + len /\ p \in Nat
        BY <2>5
      <4> HIDE DEF len
      <4>3. hi <= p + len
        BY <1>6, <3>1, <4>1, <4>2
      <4> QED BY <4>3 DEF len
    <3>3. Length(given', cursor'.rule) = Length(given, sample.rule)
      BY <2>8, <2>9
    <3>4. hi' = hi /\ Len(writing') = 0 /\ pc' = "right" /\ place2[0] = p
      BY <1>1, <1>3, <2>2, <2>6
    <3>5. cursor'.pos <= hi
      <4> HIDE DEF pos
      <4> QED BY <1>5, <1>6, <2>1, <2>8
    <3> HIDE DEF sample, pos
    <3> QED BY <3>2, <3>3, <3>4, <3>5 DEF CallsInRange
  <2>12. WrittenSoFar'
    <3>1. out' = Part(from, Max({lo, pos}))
      BY <1>1, <1>4, <2>1
    <3>2. out' = Part(request'[1].from, Max({lo', cursor'.pos}))
      BY <1>1, <2>8, <3>1
    <3> HIDE DEF pos, from
    <3> QED BY <2>2, <2>9, <3>2 DEF WrittenSoFar
  <2>13. SubstrInv(place2)'
    <3>1. InSubstr' /\ request' # << >> /\ request'[1] \in Queries(SourceLength)'
      BY <1>1, <1>3, <2>2, <2>9 DEF InSubstr, Queries
    <3>2. out' \in Seq(Nat) /\ charStack' \in Seq(Nat) /\ writing' \in Seq([rule : Ids(given'), index : Int])
      BY <1>1, <1>3
    <3>3. cursor' \in [rule : Ids(given'), index : Int, pos : Int]
      BY <2>8, <2>9
    <3> QED BY <2>2, <2>3, <2>10, <2>11, <2>12, <3>1, <3>2, <3>3 DEF SubstrInv, ScanInv
  <2> QED BY <2>13
<1> QED BY <1>10, <1>11

LEMMA RightDoneInv ==
  ASSUME NEW place, WalkInv, AtInv, SubstrInv(place), RightDone
  PROVE  SubstrInv(place)'
<1> DEFINE from == request[1].from
<1>1. /\ pc = "right" /\ writing = << >> /\ cursor.pos >= hi /\ pc' = "block" /\ block' = block + 1
      /\ UNCHANGED << lengthVars, samples, request, lastBlock >>
      /\ UNCHANGED << out, charStack, writing >>
  BY DEF RightDone, samplesVars
<1>2. /\ InSubstr /\ RangeInv /\ WrittenSoFar /\ ScanInv(place)
      /\ lo \in Nat /\ hi \in Nat /\ lo < hi /\ cursor.pos \in Int
      /\ out \in Seq(Nat) /\ charStack \in Seq(Nat)
  BY <1>1, RunningScan
<1>3. block <= lastBlock /\ hi = Min({(block + 1) * Sampling, SubstrEnd(request[1])})
  BY <1>1, <1>2 DEF RangeInv
<1>4. cursor.pos <= hi
  BY <1>1, <1>2 DEF ScanInv, CallsInRange
<1>5. cursor.pos = hi /\ Max({lo, cursor.pos}) = hi
  <2>1. cursor.pos = hi
    BY <1>1, <1>2, <1>4
  <2> QED BY <1>2, <2>1, MaxOfTwo
<1>6. out' = Part(from, hi)
  BY <1>1, <1>2, <1>5 DEF WrittenSoFar
<1>7. writing' = << >> /\ charStack' \in Seq(Nat)
  BY <1>1, <1>2
<1> QED BY <1>1, <1>2, <1>3, <1>6, <1>7, NextBlock

LEMMA AskSubstrInv ==
  ASSUME NEW place, WalkInv, AtInv, SubstrInv(place), AskSubstr
  PROVE  SubstrInv(place)'
<1>1. /\ pc = "ready" /\ request = << >> /\ pc' = "block"
      /\ UNCHANGED << lengthVars, samples, out, charStack, writing >>
  BY DEF AskSubstr, samplesVars
<1>2. PICK query \in Queries(SourceLength) :
        /\ query.op = "substr"
        /\ request' = << query >>
        /\ block' = IF SubstrEnd(query) = 0 THEN 0 ELSE query.from \div Sampling
        /\ lastBlock' = IF SubstrEnd(query) = 0 THEN -1 ELSE (SubstrEnd(query) - 1) \div Sampling
  BY DEF AskSubstr
<1> DEFINE from == query.from
           end  == SubstrEnd(query)
           start == block' * Sampling
<1>3. given \in Inputs /\ LengthsComputed
  BY <1>1 DEF WalkInv, BuildInv, WalkTypeOK
<1>4. Sampling \in Nat \ {0} /\ SourceLength \in Nat
  BY <1>3, SourceFacts
<1>5. from \in Nat /\ query.len \in Nat /\ end \in Nat /\ end <= SourceLength
  BY <1>2, <1>4, QueryIs, EndIs
<1>6. /\ out = << >> /\ charStack \in Seq(Nat) /\ writing = << >>
  BY <1>1 DEF SubstrInv
<1>7. block' \in Nat /\ (end > 0 => start <= from /\ from < start + Sampling)
  <2> DEFINE d == from \div Sampling
  <2>1. d \in Nat /\ d * Sampling <= from /\ from < d * Sampling + Sampling
    <3> HIDE DEF from
    <3> QED BY <1>4, <1>5, DivBounds
  <2>2. block' = IF end = 0 THEN 0 ELSE d
    BY <1>2
  <2> HIDE DEF d, end, from
  <2> QED BY <1>5, <2>1, <2>2
<1>8. start \in Nat /\ (block' + 1) * Sampling = start + Sampling
  <2>1. PICK b \in Nat : b = block'
    BY <1>7
  <2>2. BlockStart(b) \in Nat /\ BlockStart(b) = b * Sampling /\ (b + 1) * Sampling = BlockStart(b) + Sampling
    BY <1>4, NextBegins
  <2> QED BY <2>1, <2>2
<1>9. Part(from, Min({end, Max({from, start})})) = << >>
  <2> DEFINE m == Max({from, start})
  <2>1. m = IF from >= start THEN from ELSE start
    <3> HIDE DEF from, start
    <3> QED BY <1>5, <1>8, MaxOfTwo
  <2>2. m \in Nat /\ (end > 0 => m <= from)
    <3> HIDE DEF m, from, start, end
    <3> QED BY <1>5, <1>7, <1>8, <2>1
  <2>3. Min({end, m}) \in Int /\ Min({end, m}) <= from
    <3> HIDE DEF m, from, end
    <3>1. Min({end, m}) = IF end <= m THEN end ELSE m
      BY <1>5, <2>2, MinOfInts
    <3> QED BY <1>5, <2>2, <3>1
  <2> HIDE DEF m, end, from
  <2>4. Part(from, Min({end, m})) = << >>
    BY <1>5, <2>3, NothingBetween
  <2> QED BY <2>4 DEF m
<1>10. given' = given /\ SourceLength' = SourceLength /\ \A a, b : Part(a, b)' = Part(a, b)
  BY <1>1, Fixed DEF Part
<1>11. SubstrEnd(request[1])' = end /\ request'[1] = query /\ request' # << >>
  <2>1. request'[1] = query /\ request' # << >>
    BY <1>2
  <2> QED BY <1>10, <2>1 DEF SubstrEnd
<1>12. RangeInv'
  <2>1. lastBlock' = IF end = 0 THEN -1 ELSE (end - 1) \div Sampling
    BY <1>2
  <2>2. end > 0 => from < (block' + 1) * Sampling
    BY <1>7, <1>8
  <2>3. out' = Part(from, Min({end, Max({from, BlockStart(block')})}))
    BY <1>1, <1>6, <1>9 DEF BlockStart
  <2> HIDE DEF end
  <2> QED BY <1>1, <1>7, <1>10, <1>11, <2>1, <2>2, <2>3 DEF RangeInv, Part, BlockStart
<1>13. request'[1] \in Queries(SourceLength)'
  BY <1>2, <1>10, <1>11 DEF Queries
<1>14. out' \in Seq(Nat) /\ charStack' \in Seq(Nat) /\ writing' = << >>
       /\ writing' \in Seq([rule : Ids(given'), index : Int])
  BY <1>1, <1>6
<1> QED BY <1>1, <1>11, <1>12, <1>13, <1>14 DEF SubstrInv

LEMMA SubstrDoneInv ==
  ASSUME NEW place, WalkInv, AtInv, SubstrInv(place), SubstrDone
  PROVE  SubstrInv(place)'
<1> DEFINE from == request[1].from
           end  == SubstrEnd(request[1])
           start == BlockStart(block)
           q == (end - 1) \div Sampling
           m == Max({from, start})
<1>1. /\ pc = "block" /\ block > lastBlock /\ reply' = << out >> /\ pc' = "ready"
      /\ UNCHANGED << lengthVars, request, out, charStack, writing >>
  BY DEF SubstrDone
<1>2. InSubstr
  BY <1>1 DEF InSubstr
<1>3. /\ Sampling \in Nat \ {0} /\ SourceLength \in Nat
      /\ request # << >> /\ request[1] \in Queries(SourceLength) /\ from \in Nat
      /\ end \in Nat /\ block \in Nat
      /\ RangeInv /\ out \in Seq(Nat) /\ charStack \in Seq(Nat) /\ writing = << >>
  BY <1>1, <1>2, RunningSubstr
<1>4. /\ out = Part(from, Min({end, m}))
      /\ lastBlock = IF end = 0 THEN -1 ELSE q
  BY <1>1, <1>3 DEF RangeInv
<1>5. start \in Nat /\ start = block * Sampling
  BY <1>3, NextBegins
<1>6. m \in Nat /\ m >= start
  <2>1. m = IF from >= start THEN from ELSE start
    <3> HIDE DEF from, start
    <3> QED BY <1>3, <1>5, MaxOfTwo
  <2> HIDE DEF m, from, start
  <2> QED BY <1>3, <1>5, <2>1
<1>7. end <= m
  <2>1. CASE end = 0
    <3> HIDE DEF end, m
    <3> QED BY <1>6, <2>1
  <2>2. CASE end # 0
    <3> DEFINE x == end - 1
    <3>1. x \in Nat
      <4> HIDE DEF end
      <4> QED BY <1>3, <2>2
    <3>2. q \in Nat /\ x < q * Sampling + Sampling
      <4>1. x \div Sampling \in Nat /\ x < (x \div Sampling) * Sampling + Sampling
        <5> HIDE DEF x
        <5> QED BY <1>3, <3>1, DivBounds
      <4> QED BY <4>1
    <3>3. q + 1 <= block
      <4>1. q < block
        BY <1>1, <1>4, <2>2
      <4> HIDE DEF q
      <4> QED BY <1>3, <3>2, <4>1
    <3>4. (q + 1) * Sampling = q * Sampling + Sampling /\ q * Sampling \in Nat
      <4> HIDE DEF q
      <4> QED BY <1>3, <3>2
    <3>5. (q + 1) * Sampling <= block * Sampling
      <4>1. q + 1 \in Nat
        <5> HIDE DEF q
        <5> QED BY <3>2
      <4> HIDE DEF q
      <4> QED BY <1>3, <3>3, <4>1, MulMono
    <3> DEFINE qs == q * Sampling
    <3>6. qs \in Nat /\ end - 1 < qs + Sampling /\ qs + Sampling <= start
      <4>1. qs + Sampling = (q + 1) * Sampling
        BY <3>4
      <4>2. qs \in Nat /\ end - 1 < qs + Sampling
        BY <3>2, <3>4
      <4> HIDE DEF qs, q, start, end
      <4> QED BY <1>5, <3>5, <4>1, <4>2
    <3> HIDE DEF qs, m, end, start
    <3> QED BY <1>3, <1>5, <1>6, <3>6
  <2> QED BY <2>1, <2>2
<1>8. Min({end, m}) = end
  <2> HIDE DEF end, m
  <2> QED BY <1>3, <1>6, <1>7, MinOfInts
<1>9. reply' = << Part(from, end) >>
  BY <1>1, <1>4, <1>8
<1>10. given' = given /\ SourceLength' = SourceLength
       /\ \A a, b : Part(a, b)' = Part(a, b)
  BY <1>1, Fixed DEF Part
<1>11. SubstrEnd(request[1])' = end
  BY <1>1, <1>10 DEF SubstrEnd
<1>12. reply' = << Part(request[1].from, SubstrEnd(request[1]))' >>
  <2> HIDE DEF end
  <2> QED BY <1>1, <1>9, <1>10, <1>11 DEF Part
<1>13. request' # << >> /\ request'[1] \in Queries(SourceLength)'
  BY <1>1, <1>3, <1>10 DEF Queries
<1>14. out' \in Seq(Nat) /\ charStack' \in Seq(Nat) /\ writing' = << >>
       /\ writing' \in Seq([rule : Ids(given'), index : Int])
  BY <1>1, <1>3
<1>15. ~InSubstr'
  BY <1>1 DEF InSubstr
<1> QED BY <1>1, <1>12, <1>13, <1>14, <1>15 DEF SubstrInv

(* at, and what comes before and after a query, leaves nothing to write.   *)
LEMMA AtKeepsSubstr ==
  ASSUME NEW place, WalkInv, AtInv, SubstrInv(place), AskAt \/ AtStep
  PROVE  SubstrInv(place)'
<1>1. /\ UNCHANGED << lengthVars, out, charStack, writing >>
      /\ pc \in {"ready", "forward", "backward"} /\ pc' \in {"ready", "forward", "backward"}
      /\ pc = "ready" => request = << >>
  <2>1. CASE AskAt
    BY <2>1 DEF AskAt
  <2>2. CASE ForwardSkip \/ ForwardEnter
    BY <2>2 DEF ForwardSkip, ForwardEnter, queryVars
  <2>3. CASE BackwardSkipTerminal \/ BackwardSkip \/ BackwardEnter
    BY <2>3 DEF BackwardSkipTerminal, BackwardSkip, BackwardEnter, BackwardGoesOn, queryVars
  <2>4. CASE ForwardFound \/ BackwardFound
    BY <2>4 DEF ForwardFound, BackwardFound
  <2> QED BY <2>1, <2>2, <2>3, <2>4 DEF AtStep
<1>2. given' = given /\ SourceLength' = SourceLength
  BY <1>1, Fixed
<1>3. out = << >> /\ writing = << >> /\ charStack \in Seq(Nat)
  BY <1>1 DEF SubstrInv
<1>4. request' # << >> /\ request'[1] \in Queries(SourceLength)' /\ request'[1].op = "at"
  <2>1. ASSUME NEW i \in 0 .. (SourceLength - 1), request' = << AtQuery(i) >>
        PROVE  request' # << >> /\ request'[1] \in Queries(SourceLength) /\ request'[1].op = "at"
    <3>1. request'[1] = AtQuery(i) /\ request' # << >>
      BY <2>1
    <3>2. AtQuery(i).op = "at"
      BY DEF AtQuery
    <3> QED BY <3>1, <3>2 DEF Queries
  <2>2. \E i \in 0 .. (SourceLength - 1) : request' = << AtQuery(i) >>
    <3>1. CASE AskAt
      BY <3>1 DEF AskAt
    <3>2. CASE AtStep
      <4>1. request' = request /\ pc \in {"forward", "backward"}
        BY <3>2 DEF AtStep, ForwardSkip, ForwardEnter, ForwardFound, BackwardSkipTerminal,
                    BackwardSkip, BackwardEnter, BackwardFound, BackwardGoesOn, queryVars
      <4> QED BY <4>1 DEF AtInv, OneQuery
    <3> QED BY <3>1, <3>2
  <2>3. Queries(SourceLength)' = Queries(SourceLength)
    BY <1>2 DEF Queries
  <2> QED BY <2>1, <2>2, <2>3
<1>5. out' = << >> /\ writing' = << >> /\ out' \in Seq(Nat) /\ charStack' \in Seq(Nat)
      /\ writing' \in Seq([rule : Ids(given'), index : Int])
  BY <1>1, <1>3
<1>6. ~InSubstr' /\ pc' \notin {"left", "right"}
  BY <1>1 DEF InSubstr
<1> QED BY <1>4, <1>5, <1>6 DEF SubstrInv

LEMMA BuildKeepsSubstr ==
  ASSUME NEW place, WalkInv, AtInv, SubstrInv(place), Build
  PROVE  SubstrInv(place)'
<1>1. UNCHANGED << request, out, charStack, writing >> /\ Building
  BY BuildStepBuilds DEF Build, queryVars
<1>2. request = << >> /\ out = << >> /\ writing = << >> /\ charStack \in Seq(Nat)
  BY <1>1 DEF AtInv, OneQuery, SubstrInv, Building
<1>3. pc' \in {"lengths", "next", "scan", "corrupt", "ready"}
  BY <1>1 DEF Build, BuildStep, CalculateLengths, BeginSamples, Dequeue, DequeueSpill,
              ScanTerminal, ScanNonTerminal, FinishScan, FinishBuild, Building
<1>4. ~InSubstr' /\ pc' \notin {"left", "right"}
  BY <1>3 DEF InSubstr
<1>5. /\ out' = << >> /\ writing' = << >> /\ request' = << >>
      /\ out' \in Seq(Nat) /\ charStack' \in Seq(Nat)
      /\ writing' \in Seq([rule : Ids(given'), index : Int])
  BY <1>1, <1>2
<1> QED BY <1>4, <1>5 DEF SubstrInv

LEMMA TakeKeepsSubstr ==
  ASSUME NEW place, WalkInv, AtInv, SubstrInv(place), Take
  PROVE  SubstrInv(place)'
<1>1. /\ reply # << >> /\ pc' = pc /\ out' = << >> /\ writing' = << >> /\ charStack' = << >>
      /\ request' = << >>
  BY DEF Take
<1>2. pc' = "ready"
  BY <1>1 DEF AtInv, OneQuery
<1>3. ~InSubstr' /\ pc' \notin {"left", "right"}
  BY <1>2 DEF InSubstr
<1>4. /\ out' \in Seq(Nat) /\ charStack' \in Seq(Nat)
      /\ writing' \in Seq([rule : Ids(given'), index : Int])
  BY <1>1
<1> QED BY <1>1, <1>3, <1>4 DEF SubstrInv

LEMMA StutterKeepsSubstr ==
  ASSUME NEW place, SubstrInv(place), UNCHANGED vars
  PROVE  SubstrInv(place)'
<1>1. /\ UNCHANGED << request, reply, out, lo, hi, block, lastBlock, charStack, writing >>
      /\ UNCHANGED << lengthVars, samples, cursor, pc >>
  BY DEF vars, samplesVars
<1>2. /\ given' = given /\ SourceLength' = SourceLength
      /\ \A b : BlockStart(b)' = BlockStart(b)
      /\ \A q, c : Stands(q, c)' = Stands(q, c)
  BY <1>1, Fixed, StandsFixed
<1>3. Queries(SourceLength)' = Queries(SourceLength) /\ SampleAt(block)' = SampleAt(block)
      /\ SubstrEnd(request[1])' = SubstrEnd(request[1])
      /\ \A a, b : Part(a, b)' = Part(a, b)
  BY <1>1, <1>2 DEF Queries, SampleAt, Cursor, SubstrEnd, Part
<1>4. RangeInv' <=> RangeInv
  BY <1>1, <1>2, <1>3 DEF RangeInv, Part, BlockStart
<1>5. WrittenSoFar' <=> WrittenSoFar
  BY <1>1, <1>2, <1>3 DEF WrittenSoFar, Part
<1>6. ScanInv(place)' <=> ScanInv(place)
  <2>1. Back' = Back
    BY <1>1 DEF Back
  <2>2. \A k : Calling(k)' = Calling(k) /\ Edge(k)' = Edge(k)
    BY <1>1, <2>1 DEF Calling, Edge
  <2>3. CallsStand(place)' <=> CallsStand(place)
    BY <1>1, <1>2, <2>2 DEF CallsStand
  <2>4. \A k : EdgePlace(place, k)' = EdgePlace(place, k)
    BY <1>1, <1>2, <2>2 DEF EdgePlace
  <2>5. CallsNested(place)' <=> CallsNested(place)
    BY <1>1, <1>2, <2>1, <2>2, <2>4 DEF CallsNested
  <2>6. CallsInRange(place)' <=> CallsInRange(place)
    BY <1>1, <1>2 DEF CallsInRange
  <2> QED BY <2>3, <2>5, <2>6 DEF ScanInv
<1>7. InSubstr' <=> InSubstr
  BY <1>1 DEF InSubstr
<1> QED BY <1>1, <1>2, <1>3, <1>4, <1>5, <1>6, <1>7 DEF SubstrInv, Part

LEMMA SubstrStepInv ==
  ASSUME NEW place, WalkInv, AtInv, SubstrInv(place), [Next]_vars
  PROVE  \E place2 : SubstrInv(place2)'
<1>1. CASE LeftStep
  BY <1>1, StartLeftInv, LeftSkipInv, LeftWriteTerminalInv, LeftWriteRuleInv, LeftEnterInv, LeftDoneInv
     DEF LeftStep
<1>2. CASE RightStep
  BY <1>2, StartRightInv, RightSkipInv, RightWriteTerminalInv, RightWriteRuleInv, RightEnterInv, RightDoneInv
     DEF RightStep
<1>3. CASE WriteStep
  BY <1>3, ReverseTerminalInv, ReverseCallInv, ReversePassInv, ReverseReturnInv,
     ExpandTerminalInv, ExpandCallInv, ExpandPassInv, ExpandReturnInv DEF WriteStep
<1>4. CASE AskAt \/ AtStep
  BY <1>4, AtKeepsSubstr
<1>5. CASE AskSubstr \/ SubstrDone
  BY <1>5, AskSubstrInv, SubstrDoneInv
<1>6. CASE Build \/ Take
  BY <1>6, BuildKeepsSubstr, TakeKeepsSubstr
<1>7. CASE Ended \/ UNCHANGED vars
  BY <1>7, StutterKeepsSubstr DEF Ended
<1> QED BY <1>1, <1>2, <1>3, <1>4, <1>5, <1>6, <1>7 DEF Next, Compute

(* What is written is in order at every step of the constructor and of the *)
(* queries.                                                                *)
SubstrPlaced == \E place : SubstrInv(place)

THEOREM SubstrInvariance == Spec => [](WalkInv /\ AtInv /\ SubstrPlaced)
<1>1. Init => AtInv /\ SubstrPlaced
  <2> SUFFICES ASSUME Init PROVE AtInv /\ SubstrPlaced
    OBVIOUS
  <2>1. pc = "lengths" /\ request = << >> /\ reply = << >> /\ out = << >> /\ charStack = << >> /\ writing = << >>
    BY DEF Init, BuildInit
  <2>2. AtInv
    BY <2>1 DEF AtInv, OneQuery, AtFollowsText, Building
  <2>3. writing \in Seq([rule : Ids(given), index : Int])
    BY <2>1
  <2>4. SubstrInv(<< >>)
    BY <2>1, <2>3 DEF SubstrInv, InSubstr
  <2> QED BY <2>2, <2>4 DEF SubstrPlaced
<1>2. WalkInv /\ AtInv /\ SubstrPlaced /\ [Next]_vars => (AtInv /\ SubstrPlaced)'
  <2> SUFFICES ASSUME WalkInv, AtInv, SubstrPlaced, [Next]_vars PROVE (AtInv /\ SubstrPlaced)'
    OBVIOUS
  <2>1. PICK place : SubstrInv(place)
    BY DEF SubstrPlaced
  <2>2. SubstrPlaced'
    BY <2>1, SubstrStepInv DEF SubstrPlaced
  <2> QED BY <2>2, AtStepInv
<1> QED BY <1>1, <1>2, SamplesInvariance, PTL DEF Spec

(* At every step of scan_left and scan_right, and of the calls of          *)
(* write_expansion(_reverse) they make, what is written is the part of the *)
(* range that the scan has passed.                                         *)
THEOREM WrittenCorrectness == Spec => []WrittenSoFar
<1>1. ASSUME NEW place, SubstrInv(place) PROVE WrittenSoFar
  <2>1. pc \in {"left", "right"} => WrittenSoFar
    BY <1>1 DEF SubstrInv
  <2> QED BY <2>1 DEF WrittenSoFar
<1>2. SubstrPlaced => WrittenSoFar
  BY <1>1 DEF SubstrPlaced
<1> QED BY <1>2, SubstrInvariance, PTL

-----------------------------------------------------------------------------
(* The promise of random access *)

LEMMA TextFacts ==
  ASSUME given \in Inputs
  PROVE  /\ SourceText(given) \in Seq(0 .. (RuleOffset - 1))
         /\ Len(SourceText(given)) = Length(given, given.start)
         /\ \A k \in 0 .. (Length(given, given.start) - 1) :
              SourceText(given)[k + 1] = given.text[given.start][k]
<1> DEFINE t == SourceText(given)
           n == Length(given, given.start)
           chars == 0 .. (RuleOffset - 1)
<1>1. given.start \in Ids(given) /\ n \in Nat
  BY GivenFacts, LengthNat
<1>2. \A j \in 0 .. (n - 1) : given.text[given.start][j] \in chars
  BY <1>1, TextIsCharacters, AnnotatedGiven
<1>3. t = [k \in 1 .. n |-> given.text[given.start][k - 1]]
  BY DEF SourceText
<1> HIDE DEF t, n
<1>4. \A k \in 1 .. n : k - 1 \in 0 .. (n - 1)
  BY <1>1
<1>5. \A k \in 0 .. (n - 1) : k + 1 \in 1 .. n /\ (k + 1) - 1 = k
  BY <1>1
<1>6. t \in [1 .. n -> chars] /\ \A k \in 0 .. (n - 1) : t[k + 1] = given.text[given.start][k]
  BY <1>2, <1>3, <1>4, <1>5
<1> HIDE DEF chars
<1>7. t \in Seq(chars) /\ Len(t) = n
  BY <1>1, <1>6
<1> QED BY <1>6, <1>7 DEF t, n, chars

(* The part of the text asked for is the answer promised. *)
LEMMA SubstrAnswers ==
  ASSUME given \in Inputs, LengthsComputed, NEW query \in Queries(SourceLength), query.op = "substr"
  PROVE  Part(query.from, SubstrEnd(query)) = Promise!Answer(SourceText(given), query)
<1> DEFINE t == SourceText(given)
           end == SubstrEnd(query)
           from == query.from
           sum == query.from + query.len
           part == Part(from, end)
           sub == SubSeq(t, from + 1, end)
           chars == 0 .. (RuleOffset - 1)
<1>1. SourceLength \in Nat /\ SourceLength = Length(given, given.start)
  BY SourceFacts
<1>2. from \in Nat /\ query.len \in Nat /\ end \in Nat /\ end <= SourceLength
  BY <1>1, QueryIs, EndIs
<1>3. /\ t \in Seq(chars) /\ Len(t) = SourceLength
      /\ \A k \in 0 .. (SourceLength - 1) : t[k + 1] = given.text[given.start][k]
  BY <1>1, TextFacts
<1>4. end = IF sum < Len(t) THEN sum ELSE Len(t)
  <2>1. sum \in Nat /\ end = Min({sum, SourceLength})
    BY <1>2 DEF SubstrEnd
  <2> HIDE DEF t, end, sum
  <2> QED BY <1>1, <1>3, <2>1, MinOfInts
<1>5. Promise!Answer(t, query) = sub
  <2>1. Promise!Answer(t, query) = SubSeq(t, query.from + 1, IF sum < Len(t) THEN sum ELSE Len(t))
    BY DEF Promise!Answer
  <2> HIDE DEF t, end, sum
  <2> QED BY <1>4, <2>1
<1>6. /\ part \in Seq(Nat) /\ Len(part) = (IF from <= end THEN end - from ELSE 0)
      /\ \A k \in 1 .. (end - from) : part[k] = given.text[given.start][from + k - 1]
  <2>1. end \in Int
    <3> HIDE DEF end
    <3> QED BY <1>2
  <2> HIDE DEF from, end
  <2> QED BY <1>2, <2>1, PartIs
<1> HIDE DEF t, from, end, chars
<1>7. /\ sub \in Seq(chars) /\ Len(sub) = (IF from <= end THEN end - from ELSE 0)
      /\ \A k \in 1 .. (end - from) : sub[k] = t[from + k]
  BY <1>1, <1>2, <1>3
<1>8. \A k \in 1 .. (end - from) : sub[k] = part[k]
  <2> TAKE k \in 1 .. (end - from)
  <2>1. from + k - 1 \in 0 .. (SourceLength - 1) /\ (from + k - 1) + 1 = from + k
    BY <1>1, <1>2
  <2>2. t[from + k] = given.text[given.start][from + k - 1]
    BY <1>3, <2>1
  <2> QED BY <1>6, <1>7, <2>2
<1> HIDE DEF part, sub
<1>9. sub = part
  <2>1. \A k \in 1 .. Len(sub) : k \in 1 .. (end - from)
    BY <1>2, <1>7
  <2>2. Len(sub) = Len(part) /\ \A k \in 1 .. Len(sub) : sub[k] = part[k]
    BY <1>6, <1>7, <1>8, <2>1
  <2> QED BY <1>6, <1>7, <2>2
<1> QED BY <1>5, <1>9 DEF t, part, from, end

LEMMA PromiseInit == Init => Promise!Init
<1> SUFFICES ASSUME Init PROVE Promise!Init
  OBVIOUS
<1>1. given \in Inputs /\ request = << >> /\ reply = << >>
  BY DEF Init, BuildInit, LengthsInit
<1> QED BY <1>1, TextFacts DEF Promise!Init

(* A query is asked about places of the text. *)
LEMMA AskPromised ==
  ASSUME WalkInv, pc = "ready", request = << >>, NEW query \in Queries(SourceLength),
         request' = << query >>, UNCHANGED << given, reply >>
  PROVE  Promise!Ask
<1>1. given \in Inputs /\ LengthsComputed
  BY DEF WalkInv, BuildInv, WalkTypeOK
<1>2. Len(SourceText(given)) = SourceLength
  BY <1>1, TextFacts, SourceFacts
<1>3. query \in QueriesOf(SourceText(given))
  BY <1>2 DEF QueriesOf
<1>4. SourceText(given)' = SourceText(given)
  BY DEF SourceText, Length
<1> QED BY <1>3, <1>4 DEF Promise!Ask

LEMMA BuildGiven == BuildStep => given' = given
<1>1. LengthsStep => given' = given
  BY DEF LengthsStep, BeginRule, AddSymbol, FinishLength, Pack, PackNothing
<1> QED BY <1>1, BuildKeepsLengths DEF lengthVars

LEMMA PromiseStep ==
  ASSUME WalkInv, AtInv, AtInv', SubstrPlaced, SubstrPlaced', [Next]_vars
  PROVE  [Promise!Next]_Promise!vars
<1>1. given' = given => SourceText(given)' = SourceText(given)
  BY DEF SourceText, Length
<1>2. given \in Inputs
  BY DEF WalkInv
<1>3. CASE AskAt
  <2>1. PICK i \in 0 .. (SourceLength - 1) : request' = << AtQuery(i) >>
    BY <1>3 DEF AskAt
  <2>2. AtQuery(i) \in Queries(SourceLength)
    BY DEF Queries
  <2>3. pc = "ready" /\ request = << >> /\ UNCHANGED << given, reply >>
    BY <1>3 DEF AskAt, lengthVars
  <2> QED BY <2>1, <2>2, <2>3, AskPromised DEF Promise!Next
<1>4. CASE AskSubstr
  <2>1. PICK query \in Queries(SourceLength) : request' = << query >>
    BY <1>4 DEF AskSubstr
  <2>2. pc = "ready" /\ request = << >> /\ UNCHANGED << given, reply >>
    BY <1>4 DEF AskSubstr, lengthVars
  <2> QED BY <2>1, <2>2, AskPromised DEF Promise!Next
<1>5. CASE ForwardFound \/ BackwardFound
  <2>1. /\ pc \in {"forward", "backward"} /\ request' = request /\ given' = given /\ reply' # << >>
    BY <1>5 DEF ForwardFound, BackwardFound, lengthVars
  <2>2. PICK i \in 0 .. (SourceLength - 1) : request = << AtQuery(i) >>
    BY <2>1 DEF AtInv, OneQuery
  <2>3. request # << >> /\ request[1] = AtQuery(i) /\ reply = << >>
    BY <2>1, <2>2 DEF AtInv, OneQuery
  <2>4. request[1].op = "at" /\ request[1].from = i
    <3>1. AtQuery(i).op = "at" /\ AtQuery(i).from = i
      BY DEF AtQuery
    <3> QED BY <2>3, <3>1
  <2>5. reply' = << << given.text[given.start][i] >> >>
    BY <2>1, <2>4 DEF AtInv, AtFollowsText, Wanted
  <2>6. SourceText(given)[i + 1] = given.text[given.start][i]
    <3>1. LengthsComputed
      BY <2>1 DEF WalkInv, BuildInv, WalkTypeOK
    <3> QED BY <1>2, <3>1, TextFacts, SourceFacts
  <2>7. Promise!Answer(SourceText(given), request[1]) = << given.text[given.start][i] >>
    BY <2>4, <2>6 DEF Promise!Answer
  <2>8. Promise!Respond
    BY <1>1, <2>1, <2>3, <2>5, <2>7 DEF Promise!Respond
  <2> QED BY <2>8 DEF Promise!Next
<1>6. CASE SubstrDone
  <2>1. /\ pc = "block" /\ pc' = "ready" /\ request' = request /\ UNCHANGED lengthVars
    BY <1>6 DEF SubstrDone
  <2>2. request # << >> /\ reply = << >> /\ request[1].op = "substr"
    BY <2>1 DEF AtInv, OneQuery
  <2>3. PICK place : SubstrInv(place)'
    BY DEF SubstrPlaced
  <2>4. given' = given /\ SourceLength' = SourceLength /\ \A a, b : Part(a, b)' = Part(a, b)
    BY <2>1, Fixed DEF Part
  <2>5. SubstrEnd(request[1])' = SubstrEnd(request[1])
    BY <2>1, <2>4 DEF SubstrEnd
  <2>6. reply' = << Part(request[1].from, SubstrEnd(request[1])) >>
    <3>1. reply' = << Part(request[1].from, SubstrEnd(request[1]))' >>
      BY <2>1, <2>2, <2>3 DEF SubstrInv
    <3>2. Part(request[1].from, SubstrEnd(request[1]))' = Part(request[1].from, SubstrEnd(request[1]))
      BY <2>1, <2>4, <2>5 DEF Part
    <3> QED BY <3>1, <3>2
  <2>7. request[1] \in Queries(SourceLength) /\ LengthsComputed
    BY <2>1, <2>2 DEF SubstrPlaced, SubstrInv, WalkInv, BuildInv, WalkTypeOK
  <2>8. reply' = << Promise!Answer(SourceText(given), request[1]) >>
    BY <1>2, <2>2, <2>6, <2>7, SubstrAnswers
  <2>9. Promise!Respond
    BY <1>1, <2>1, <2>2, <2>4, <2>8 DEF Promise!Respond
  <2> QED BY <2>9 DEF Promise!Next
<1>7. CASE Take
  <2>1. Promise!Take
    BY <1>1, <1>7 DEF Take, lengthVars, Promise!Take
  <2> QED BY <2>1 DEF Promise!Next
<1>8. ASSUME UNCHANGED << given, request, reply >>
      PROVE  [Promise!Next]_Promise!vars
  BY <1>1, <1>8 DEF Promise!vars
<1>9. CASE Build
  <2>1. request' = request /\ reply' = reply /\ given' = given
    BY <1>9, BuildGiven DEF Build, queryVars
  <2> QED BY <1>8, <2>1
<1>10. CASE ForwardSkip \/ ForwardEnter \/ BackwardSkipTerminal \/ BackwardSkip \/ BackwardEnter
  BY <1>8, <1>10 DEF ForwardSkip, ForwardEnter, BackwardSkipTerminal, BackwardSkip, BackwardEnter,
                     lengthVars, queryVars
<1>11. CASE LeftStep
  BY <1>8, <1>11 DEF LeftStep, StartLeft, LeftSkip, LeftWriteTerminal, LeftWriteRule, LeftEnter, LeftDone,
                     lengthVars, queryVars
<1>12. CASE RightStep
  BY <1>8, <1>12 DEF RightStep, StartRight, RightSkip, RightWriteTerminal, RightWriteRule, RightEnter,
                     RightDone, lengthVars, queryVars
<1>13. CASE WriteStep
  BY <1>8, <1>13 DEF WriteStep, ReverseTerminal, ReverseCall, ReversePass, ReverseReturn,
                     ExpandTerminal, ExpandCall, ExpandPass, ExpandReturn, lengthVars
<1>14. CASE Ended \/ UNCHANGED vars
  BY <1>8, <1>14 DEF Ended, vars, lengthVars
<1> QED BY <1>3, <1>4, <1>5, <1>6, <1>7, <1>9, <1>10, <1>11, <1>12, <1>13, <1>14
        DEF Next, Compute, AtStep

(* SampledScanQueryGrammar implements RandomAccess as far as safety goes:  *)
(* at answers with the character asked for, and substr with the range      *)
(* asked for up to the end of the text, whatever the grammar, the sampling *)
(* and the queries.                                                        *)
THEOREM PromiseSafety == Spec => Promise!Init /\ [][Promise!Next]_Promise!vars
<1>1. ASSUME WalkInv, AtInv, AtInv', SubstrPlaced, SubstrPlaced', [Next]_vars
      PROVE  [Promise!Next]_Promise!vars
  BY <1>1, PromiseStep
<1>2. Spec => [](WalkInv /\ AtInv /\ SubstrPlaced)
  BY SubstrInvariance
<1> QED BY <1>1, <1>2, PromiseInit, PTL DEF Spec

-----------------------------------------------------------------------------
(* source_index is a size_t                                                *)

(* A call of write_expansion_reverse stands in the range. *)
LEMMA CallsStayBehind ==
  ASSUME WalkInv, AtInv, SubstrPlaced, pc = "left", writing # << >>
  PROVE  lo <= cursor.pos + 1
<1>1. PICK place : SubstrInv(place)
  BY DEF SubstrPlaced
<1>2. ScanState(place) /\ ScanInv(place) /\ ScanType /\ lo \in Nat
  BY <1>1, RunningScan
<1> DEFINE n == Depth
           off == given.off[Inner.rule][Inner.index + Back]
           p == place[n]
<1>3. /\ n \in Nat /\ p \in Nat /\ off \in Nat /\ p + off = cursor.pos + Back /\ cursor.pos \in Int
  BY <1>2, InnerFacts
<1>4. n # 0 /\ n = Len(writing)
  BY <1>2, <1>3 DEF Depth, ScanType
<1>5. lo <= p
  <2>1. n \in 1 .. Len(writing)
    <3> HIDE DEF n
    <3> QED BY <1>3, <1>4
  <2> QED BY <1>2, <2>1 DEF ScanInv, CallsInRange
<1>6. Back = 1
  BY DEF Back
<1> HIDE DEF p, off
<1> QED BY <1>2, <1>3, <1>5, <1>6

(* scan_left is only entered, and only goes on, above place 0. *)
AboveStart == pc = "left" => 0 < lo /\ lo <= cursor.pos + 1

(* The sample of the first block is at place 0. *)
LEMMA FirstSample ==
  ASSUME given \in Inputs, LengthsComputed, 0 \in Blocks, SampleSound(0), SampleDeepest(0)
  PROVE  SampleAt(0).pos = 0
<1> DEFINE rule  == samples[0].rule
           index == samples[0].index
           pos   == BlockStart(0) + samples[0].rel
           p     == SampledStart(0)
           place(k) == p + given.off[rule][k]
<1>1. /\ rule \in Ids(given) /\ index \in Nat
      /\ p \in Nat /\ p + given.off[rule][index] = pos /\ p <= BlockStart(0)
  BY SampleStands
<1>2. BlockStart(0) = 0
  BY SourceFacts DEF BlockStart
<1>3. p = 0
  <2> HIDE DEF p
  <2> QED BY <1>1, <1>2
<1>4. given.off[rule][0] = 0
  BY <1>1, OffsetFacts
<1>5. index = 0
  <2>1. ASSUME index # 0 PROVE FALSE
    <3>1. 0 \in 0 .. (index - 1)
      <4> HIDE DEF index
      <4> QED BY <1>1, <2>1
    <3>2. place(0) < BlockStart(0)
      BY <3>1 DEF SampleDeepest
    <3> HIDE DEF p
    <3> QED BY <1>2, <1>3, <1>4, <3>2
  <2> QED BY <2>1
<1>6. pos = 0
  <2> HIDE DEF p, pos
  <2> QED BY <1>1, <1>3, <1>4, <1>5
<1> QED BY <1>6 DEF SampleAt, Cursor

LEMMA AboveStartStep ==
  ASSUME WalkInv, AtInv, SubstrPlaced, AboveStart,
         (pc = "left" /\ writing # << >> => lo <= cursor.pos + 1)', [Next]_vars
  PROVE  AboveStart'
<1>1. PICK place : SubstrInv(place)
  BY DEF SubstrPlaced
<1>2. CASE StartLeft
  <2> DEFINE l == BlockLo(request[1])
             h == BlockHi(request[1])
             pos == SampleAt(block).pos
             sample == samples[block]
  <2>1. /\ pc = "block" /\ block <= lastBlock /\ lo' = l
        /\ cursor' = Cursor(sample.rule, sample.index - 1, BlockStart(block) + sample.rel - 1)
        /\ pc' = IF NothingLeft(sample, l, h) THEN "leftDone" ELSE "left"
    BY <1>2 DEF StartLeft
  <2>2. InSubstr
    BY <2>1 DEF InSubstr
  <2>3. /\ given \in Inputs /\ LengthsComputed /\ Sampling \in Nat \ {0} /\ block \in Nat
    BY <1>1, <2>2, RunningSubstr
  <2>4. /\ block \in Blocks /\ SampleSound(block)
        /\ pos \in Nat /\ pos = BlockStart(block) + sample.rel
        /\ BlockStart(block) \in Nat /\ sample.rel \in Nat
    BY <1>1, <2>1, <2>2, BlockAtHand
  <2>5. l \in Nat /\ BlockStart(block) <= l
    BY <1>1, <2>1, <2>2, BlockRange
  <2>6. CASE ~NothingLeft(sample, l, h)
    <3>1. l < pos
      <4>1. ~(l > BlockStart(block) + sample.rel - 1)
        BY <2>6 DEF NothingLeft
      <4> HIDE DEF l, pos, sample
      <4> QED BY <2>4, <2>5, <4>1
    <3>2. block # 0
      <4>1. ASSUME block = 0 PROVE FALSE
        <5>1. SampleDeepest(0)
          BY <2>2, <2>4, <4>1, WalkInvImplies DEF SamplesDeepest, InSubstr, Building
        <5>2. pos = 0
          BY <2>3, <2>4, <4>1, <5>1, FirstSample
        <5> HIDE DEF pos, l
        <5> QED BY <2>5, <3>1, <5>2
      <4> QED BY <4>1
    <3>3. BlockStart(block) > 0
      <4>1. 1 \in Nat /\ 1 <= block /\ 1 * Sampling = Sampling
        BY <2>3, <3>2
      <4>2. Sampling <= block * Sampling
        BY <2>3, <4>1, MulMono
      <4> QED BY <2>3, <2>4, <4>2 DEF BlockStart
    <3>4. cursor'.pos = BlockStart(block) + sample.rel - 1
      BY <2>1 DEF Cursor
    <3> HIDE DEF l, pos, sample
    <3>5. 0 < l /\ l <= cursor'.pos + 1
      BY <2>4, <2>5, <3>1, <3>3, <3>4
    <3> QED BY <2>1, <3>5 DEF AboveStart
  <2>7. CASE NothingLeft(sample, l, h)
    BY <2>1, <2>7 DEF AboveStart
  <2> QED BY <2>6, <2>7
<1>3. CASE LeftSkip
  <2>1. /\ pc = "left" /\ writing = << >> /\ lo' = lo
        /\ SymbolStart >= hi /\ cursor'.pos = cursor.pos - SymbolLengthHere
    <3>1. /\ pc = "left" /\ writing = << >> /\ lo' = lo /\ SymbolStart >= hi
          /\ cursor' = [cursor EXCEPT !.index = @ - 1, !.pos = @ - SymbolLengthHere]
      BY <1>3 DEF LeftSkip, ScanLeft, queryVars
    <3>2. cursor \in [rule : Ids(given), index : Int, pos : Int]
      BY <1>1, <3>1, RunningScan DEF ScanType
    <3> QED BY <3>1, <3>2
  <2>2. lo \in Nat /\ hi \in Nat /\ lo < hi /\ cursor.pos \in Int /\ ScanLeft
    BY <1>1, <1>3, <2>1, RunningScan DEF LeftSkip
  <2>3. SymbolLengthHere \in Nat
    <3>1. /\ Inner = cursor /\ ScanState(place)
          /\ cursor.index \in 0 .. (Size(given.rules[cursor.rule]) - 1)
      BY <1>1, <2>1, <2>2, LeftSymbol, RunningScan
    <3>2. Inner.index \in 0 .. (Size(given.rules[Inner.rule]) - 1)
      BY <3>1
    <3>3. SymbolLength(Inner.rule, Inner.index) \in Nat
      BY <3>1, <3>2, InnerSymbolFacts
    <3> QED BY <3>1, <3>3 DEF SymbolLengthHere
  <2>4. 0 < lo
    BY <2>1 DEF AboveStart
  <2> DEFINE len == SymbolLengthHere
  <2>5. cursor.pos - len + 1 >= hi
    BY <2>1 DEF SymbolStart
  <2> HIDE DEF len
  <2>6. lo <= cursor'.pos + 1
    <3>1. cursor'.pos = cursor.pos - len
      BY <2>1 DEF len
    <3> QED BY <2>2, <2>3, <2>5, <3>1 DEF len
  <2> QED BY <2>1, <2>4, <2>6 DEF AboveStart
<1>4. CASE LeftWriteTerminal
  <2>1. /\ pc = "left" /\ writing = << >> /\ lo' = lo /\ cursor.pos >= lo
        /\ cursor'.pos = cursor.pos - 1
    <3>1. /\ pc = "left" /\ writing = << >> /\ lo' = lo /\ cursor.pos >= lo
          /\ cursor' = [cursor EXCEPT !.index = @ - 1, !.pos = @ - 1]
      BY <1>4 DEF LeftWriteTerminal, ScanLeft
    <3>2. cursor \in [rule : Ids(given), index : Int, pos : Int]
      BY <1>1, <3>1, RunningScan DEF ScanType
    <3> QED BY <3>1, <3>2
  <2>2. lo \in Nat /\ cursor.pos \in Int
    BY <1>1, <2>1, RunningScan
  <2> QED BY <2>1, <2>2 DEF AboveStart
<1>5. CASE LeftWriteRule \/ LeftEnter \/ ReverseCall \/ ReverseReturn
  <2>1. pc = "left" /\ lo' = lo /\ cursor'.pos = cursor.pos
    <3>1. /\ pc = "left" /\ lo' = lo
          /\ \/ cursor' = cursor
             \/ cursor' = [cursor EXCEPT !.index = @ - 1]
             \/ cursor' = EnterBack
      BY <1>5 DEF LeftWriteRule, LeftEnter, ReverseCall, ReverseReturn, ScanLeft, WritesReverse,
                  samplesVars, queryVars
    <3>2. cursor \in [rule : Ids(given), index : Int, pos : Int]
      BY <1>1, <3>1, RunningScan DEF ScanType
    <3> QED BY <3>1, <3>2 DEF EnterBack
  <2> QED BY <2>1 DEF AboveStart
<1>6. CASE ReverseTerminal \/ ReversePass
  <2>1. pc = "left" /\ lo' = lo /\ writing # << >> /\ writing' = Moved(-1)
    BY <1>6 DEF ReverseTerminal, ReversePass, WritesReverse
  <2>2. writing' # << >>
    <3>1. writing \in Seq([rule : Ids(given), index : Int])
      BY <1>1, <2>1, RunningScan DEF ScanType
    <3>2. DOMAIN Moved(-1) = DOMAIN writing
      BY DEF Moved
    <3>3. 1 \in DOMAIN writing
      BY <2>1, <3>1
    <3> QED BY <2>1, <3>2, <3>3
  <2> QED BY <2>1, <2>2 DEF AboveStart
<1>7. ASSUME UNCHANGED << lo, cursor, pc >> PROVE AboveStart'
  BY <1>7 DEF AboveStart
<1>8. ASSUME pc' # "left" PROVE AboveStart'
  BY <1>8 DEF AboveStart
<1>9. CASE LeftDone \/ RightStep \/ AskSubstr \/ SubstrDone
  <2>1. pc' # "left"
    BY <1>9 DEF LeftDone, RightStep, StartRight, RightSkip, RightWriteTerminal, RightWriteRule,
                RightEnter, RightDone, ScanRight, AskSubstr, SubstrDone
  <2> QED BY <1>8, <2>1
<1>10. CASE AskAt \/ AtStep
  <2>1. pc' # "left"
    BY <1>10 DEF AskAt, AtStep, ForwardSkip, ForwardEnter, ForwardFound, BackwardSkipTerminal,
                 BackwardSkip, BackwardEnter, BackwardFound, BackwardGoesOn
  <2> QED BY <1>8, <2>1
<1>11. CASE ExpandTerminal \/ ExpandCall \/ ExpandPass \/ ExpandReturn
  <2>1. pc' # "left"
    BY <1>11 DEF ExpandTerminal, ExpandCall, ExpandPass, ExpandReturn, WritesForward
  <2> QED BY <1>8, <2>1
<1>12. CASE Build
  <2>1. pc' # "left"
    BY <1>12 DEF Build, BuildStep, CalculateLengths, BeginSamples, Dequeue, DequeueSpill,
              ScanTerminal, ScanNonTerminal, FinishScan, FinishBuild
  <2> QED BY <1>8, <2>1
<1>13. CASE Take
  <2>1. pc' # "left"
    BY <1>13 DEF Take, AtInv, OneQuery
  <2> QED BY <1>8, <2>1
<1>14. CASE Ended \/ UNCHANGED vars
  BY <1>7, <1>14 DEF Ended, vars, samplesVars
<1> QED BY <1>2, <1>3, <1>4, <1>5, <1>6, <1>9, <1>10, <1>11, <1>12, <1>13, <1>14
        DEF Next, Compute, LeftStep, WriteStep

(* scan_left compares and decreases source_index, a size_t, only above     *)
(* place 0: it never wraps around, although the loop has no end of its own *)
(* for a range that starts at place 0.  Such a range has nothing left of   *)
(* its sample, which is at place 0 itself.                                 *)
THEOREM NoWrapAround == Spec => []AboveStart
<1> DEFINE Behind == pc = "left" /\ writing # << >> => lo <= cursor.pos + 1
<1>1. Spec => [](WalkInv /\ AtInv /\ SubstrPlaced)
  BY SubstrInvariance
<1>2. WalkInv /\ AtInv /\ SubstrPlaced => Behind
  BY CallsStayBehind
<1>3. Init => AboveStart
  BY DEF Init, BuildInit, AboveStart
<1>4. WalkInv /\ AtInv /\ SubstrPlaced /\ AboveStart /\ Behind' /\ [Next]_vars => AboveStart'
  BY AboveStartStep
<1> HIDE DEF Behind
<1> QED BY <1>1, <1>2, <1>3, <1>4, PTL DEF Spec
=============================================================================
