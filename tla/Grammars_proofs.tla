--------------------------- MODULE Grammars_proofs ---------------------------
(***************************************************************************)
(* Facts about rules, grammars and derivations that the proofs about the   *)
(* programs share.                                                         *)
(***************************************************************************)
EXTENDS Grammars, SequenceTheorems, WellFoundedInduction, NaturalsInduction, TLAPS

(* A symbol of a rule at an index in range is a number, and, if it is a    *)
(* nonterminal, names a child of the rule.                                 *)
LEMMA SymbolAt ==
  ASSUME NEW rule \in RuleType, NEW idx \in 0 .. (Size(rule) - 1)
  PROVE  /\ At(rule, idx) \in Nat
         /\ IsNonTerminal(At(rule, idx)) => RuleId(At(rule, idx)) \in Children(rule)
BY DEF RuleType, Size, At, Children, NonTerminalsOf, ToSet

(* Every child of a rule is named by the symbol at some index. *)
LEMMA ChildAt ==
  ASSUME NEW rule \in RuleType, NEW c \in Children(rule)
  PROVE  \E idx \in 0 .. (Size(rule) - 1) :
           IsNonTerminal(At(rule, idx)) /\ RuleId(At(rule, idx)) = c
<1>1. PICK i \in 1 .. Len(rule.symbols) :
        IsNonTerminal(rule.symbols[i]) /\ RuleId(rule.symbols[i]) = c
  BY DEF RuleType, Children, NonTerminalsOf, ToSet
<1>2. i - 1 \in 0 .. (Size(rule) - 1) /\ At(rule, i - 1) = rule.symbols[i]
  BY DEF RuleType, Size, At
<1> QED BY <1>1, <1>2

(* In a derivation, the places where symbols begin are natural numbers;    *)
(* each symbol ends where the next one begins.                             *)
LEMMA Offsets ==
  ASSUME NEW g, IsDerivation(g), NEW r \in Ids(g), g.rules[r] \in RuleType,
         NEW k \in 0 .. Size(g.rules[r])
  PROVE  /\ g.off[r][k] \in Nat
         /\ g.off[r][0] = 0
         /\ k < Size(g.rules[r]) => g.off[r][k + 1] = g.off[r][k] + SymbolSpan(g, r, k)
<1>1. Size(g.rules[r]) \in Nat
  BY DEF RuleType, Size
<1>2. /\ g.off[r] \in [0 .. Size(g.rules[r]) -> Nat]
      /\ g.off[r][0] = 0
      /\ \A j \in 0 .. (Size(g.rules[r]) - 1) : g.off[r][j + 1] = g.off[r][j] + SymbolSpan(g, r, j)
  BY Zenon DEF IsDerivation
<1>3. k < Size(g.rules[r]) => k \in 0 .. (Size(g.rules[r]) - 1)
  BY <1>1
<1> QED BY <1>2, <1>3

(* The length of a rule is a natural number. *)
LEMMA LengthIsNat ==
  ASSUME NEW g, IsDerivation(g), NEW r \in Ids(g), g.rules[r] \in RuleType
  PROVE  Length(g, r) \in Nat
<1>1. Size(g.rules[r]) \in 0 .. Size(g.rules[r])
  BY DEF RuleType, Size
<1> QED BY <1>1, Offsets DEF Length

(* A nonempty set of natural numbers has a least element. *)
LEMMA LeastNatural ==
  ASSUME NEW S, S \subseteq Nat, S # {}
  PROVE  \E m \in S : \A n \in S : m <= n
<1> DEFINE less == OpToRel(<, Nat)
<1>1. IsWellFoundedOn(less, Nat)
  BY NatLessThanWellFounded
<1>2. \A m, n \in Nat : n < m => << n, m >> \in less
  BY DEF OpToRel
<1> HIDE DEF less
<1>3. PICK m \in S : \A n \in S : ~(<< n, m >> \in less)
  BY <1>1, WFMin
<1>4. ASSUME NEW n \in S PROVE m <= n
  <2>1. ~(n < m)
    BY <1>2, <1>3
  <2> QED BY <2>1
<1> QED BY <1>4

(* CeilLog2 yields the least width wide enough for every smaller value.    *)
LEMMA CeilLog2Wide ==
  ASSUME NEW v \in Nat, v <= 2^MaxWidth
  PROVE  /\ CeilLog2(v) \in 0 .. MaxWidth /\ 2^CeilLog2(v) >= v
         /\ \A c \in 0 .. (CeilLog2(v) - 1) : 2^c < v
<1> DEFINE wide == {b \in 0 .. MaxWidth : 2^b >= v}
<1>1. MaxWidth \in Nat /\ \A b \in 0 .. MaxWidth : 2^b \in Nat
  BY WidthAssumption
<1>2. MaxWidth \in wide
  BY <1>1
<1>3. PICK b \in wide : \A c \in wide : b <= c
  <2>1. wide \subseteq Nat /\ wide # {}
    BY <1>2
  <2> HIDE DEF wide
  <2> QED BY <2>1, LeastNatural
<1>4. b \in 0 .. MaxWidth /\ 2^b >= v /\ \A c \in 0 .. (b - 1) : 2^c < v
  BY <1>1, <1>3
<1> QED BY <1>4 DEF CeilLog2

-----------------------------------------------------------------------------
(***************************************************************************)
(* Derivations of ordered grammars: no rule goes by without a character    *)
(* once no body is empty.                                                  *)
(***************************************************************************)
IsAnnotated(g) == IsGrammar(g) /\ IsOrdered(g) /\ IsDerivation(g)

HasNoEmptyRule(g) == \A r \in Ids(g) : Size(g.rules[r]) > 0

(* A symbol of a rule is a character or a rule with a smaller id.          *)
LEMMA SymbolDescends ==
  ASSUME NEW g, IsAnnotated(g), NEW r \in Ids(g), NEW idx \in 0 .. (Size(g.rules[r]) - 1)
  PROVE  /\ At(g.rules[r], idx) \in Nat
         /\ IsNonTerminal(At(g.rules[r], idx)) =>
              /\ RuleId(At(g.rules[r], idx)) \in Ids(g)
              /\ RuleId(At(g.rules[r], idx)) < r
<1>1. g.rules[r] \in RuleType
  BY DEF IsAnnotated, IsGrammar, IsRuleSet
<1>2. At(g.rules[r], idx) \in Nat
  BY <1>1, SymbolAt
<1>3. ASSUME IsNonTerminal(At(g.rules[r], idx))
      PROVE  RuleId(At(g.rules[r], idx)) \in Children(g.rules[r])
  BY <1>1, <1>3, SymbolAt
<1>4. \A c \in Children(g.rules[r]) : c \in Ids(g) /\ c < r
  BY DEF IsAnnotated, IsGrammar, IsRuleSet, IsOrdered
<1> QED BY <1>2, <1>3, <1>4

LEMMA LengthInGrammar ==
  ASSUME NEW g, IsAnnotated(g), NEW r \in Ids(g)
  PROVE  Length(g, r) \in Nat
<1>1. IsDerivation(g) /\ g.rules[r] \in RuleType
  BY DEF IsAnnotated, IsGrammar, IsRuleSet
<1> QED BY <1>1, LengthIsNat

LEMMA SpanIsNat ==
  ASSUME NEW g, IsAnnotated(g), NEW r \in Ids(g), NEW k \in 0 .. (Size(g.rules[r]) - 1)
  PROVE  SymbolSpan(g, r, k) \in Nat
BY SymbolDescends, LengthInGrammar DEF SymbolSpan, IsNonTerminal

(* The offsets of a rule are numbers, and a symbol ends where the next one *)
(* begins.                                                                 *)
LEMMA OffsetsOf ==
  ASSUME NEW g, IsAnnotated(g), NEW r \in Ids(g)
  PROVE  /\ Size(g.rules[r]) \in Nat
         /\ g.off[r][0] = 0
         /\ Length(g, r) = g.off[r][Size(g.rules[r])]
         /\ \A k \in 0 .. Size(g.rules[r]) : g.off[r][k] \in Nat
         /\ \A k \in 0 .. (Size(g.rules[r]) - 1) :
              g.off[r][k + 1] = g.off[r][k] + SymbolSpan(g, r, k)
<1>1. IsDerivation(g) /\ g.rules[r] \in RuleType /\ Size(g.rules[r]) \in Nat
  BY DEF IsAnnotated, IsGrammar, IsRuleSet, RuleType, Size
<1>2. \A k \in 0 .. Size(g.rules[r]) :
        /\ g.off[r][k] \in Nat
        /\ g.off[r][0] = 0
        /\ k < Size(g.rules[r]) => g.off[r][k + 1] = g.off[r][k] + SymbolSpan(g, r, k)
  BY <1>1, Offsets
<1>3. 0 \in 0 .. Size(g.rules[r])
  BY <1>1
<1> QED BY <1>1, <1>2, <1>3 DEF Length

(* Offsets rise. *)
LEMMA OffsetsAscend ==
  ASSUME NEW g, IsAnnotated(g), NEW r \in Ids(g),
         NEW i \in 0 .. Size(g.rules[r]), NEW j \in 0 .. Size(g.rules[r]), i <= j
  PROVE  g.off[r][i] <= g.off[r][j]
<1> DEFINE falls == {m \in Nat : m \in i .. Size(g.rules[r]) /\ g.off[r][m] < g.off[r][i]}
<1>1. ASSUME falls # {} PROVE FALSE
  <2>1. PICK m \in falls : \A n \in falls : m <= n
    <3>1. falls \subseteq Nat
      OBVIOUS
    <3> HIDE DEF falls
    <3> QED BY <1>1, <3>1, LeastNatural
  <2>2. m # i /\ m \in Nat /\ m - 1 \in i .. (Size(g.rules[r]) - 1)
    BY <2>1, OffsetsOf
  <2>3. g.off[r][m - 1] >= g.off[r][i]
    <3>1. m - 1 \notin falls
      BY <2>1, <2>2
    <3>2. m - 1 \in Nat /\ m - 1 \in i .. Size(g.rules[r]) /\ m - 1 \in 0 .. Size(g.rules[r])
      BY <2>2, OffsetsOf
    <3> QED BY <3>1, <3>2, OffsetsOf
  <2>4. /\ m - 1 \in 0 .. (Size(g.rules[r]) - 1) /\ (m - 1) + 1 = m
        /\ m \in 0 .. Size(g.rules[r])
    BY <2>1, <2>2, OffsetsOf
  <2>5. g.off[r][m] = g.off[r][m - 1] + SymbolSpan(g, r, m - 1)
    BY <2>4, OffsetsOf
  <2>6. g.off[r][m - 1] \in Nat /\ g.off[r][m] \in Nat /\ g.off[r][i] \in Nat
    BY <2>4, OffsetsOf
  <2>7. g.off[r][m] < g.off[r][i]
    BY <2>1
  <2> QED BY <2>3, <2>4, <2>5, <2>6, <2>7, SpanIsNat
<1>2. j \in Nat /\ j \in i .. Size(g.rules[r])
  BY OffsetsOf
<1>3. ~(g.off[r][j] < g.off[r][i])
  BY <1>1, <1>2
<1> QED BY <1>3, OffsetsOf

(* No rule derives the empty string: none has an empty body.               *)
LEMMA LengthIsPositive ==
  ASSUME NEW g, IsAnnotated(g), HasNoEmptyRule(g), NEW r \in Ids(g)
  PROVE  Length(g, r) \in Nat \ {0}
<1> DEFINE empty == {s \in Ids(g) : Length(g, s) = 0}
<1>1. ASSUME empty # {} PROVE FALSE
  <2>1. PICK m \in empty : \A n \in empty : m <= n
    <3>1. empty \subseteq Nat
      BY DEF Ids
    <3> HIDE DEF empty
    <3> QED BY <1>1, <3>1, LeastNatural
  <2>2. m \in Ids(g) /\ Length(g, m) = 0 /\ m \in Nat
    BY <2>1 DEF Ids
  <2>3. Size(g.rules[m]) > 0 /\ Size(g.rules[m]) \in Nat
    BY <2>2, OffsetsOf DEF HasNoEmptyRule
  <2>4. /\ 0 \in 0 .. (Size(g.rules[m]) - 1) /\ 1 \in 0 .. Size(g.rules[m])
        /\ Size(g.rules[m]) \in 0 .. Size(g.rules[m])
    BY <2>3
  <2>5. g.off[m][1] = SymbolSpan(g, m, 0)
    <3>1. g.off[m][0 + 1] = g.off[m][0] + SymbolSpan(g, m, 0) /\ g.off[m][0] = 0
      BY <2>2, <2>4, OffsetsOf
    <3>2. SymbolSpan(g, m, 0) \in Nat
      BY <2>2, <2>4, SpanIsNat
    <3> QED BY <3>1, <3>2
  <2>6. g.off[m][1] <= 0
    BY <2>2, <2>3, <2>4, OffsetsAscend, OffsetsOf
  <2>7. SymbolSpan(g, m, 0) # 0
    <3>1. CASE IsTerminal(At(g.rules[m], 0))
      BY <3>1 DEF SymbolSpan
    <3>2. CASE IsNonTerminal(At(g.rules[m], 0))
      <4> DEFINE c == RuleId(At(g.rules[m], 0))
      <4>1. c \in Ids(g) /\ c < m /\ c \in Nat
        BY <2>2, <2>4, <3>2, SymbolDescends DEF Ids
      <4>2. ~(m <= c)
        BY <2>2, <4>1
      <4>3. c \notin empty
        BY <2>1, <4>2
      <4>4. Length(g, c) # 0
        BY <4>1, <4>3
      <4>5. SymbolSpan(g, m, 0) = Length(g, c)
        BY <3>2 DEF SymbolSpan, IsNonTerminal
      <4> QED BY <4>4, <4>5
    <3> QED BY <3>1, <3>2 DEF IsNonTerminal
  <2>8. SymbolSpan(g, m, 0) \in Nat
    BY <2>2, <2>4, SpanIsNat
  <2> QED BY <2>5, <2>6, <2>7, <2>8
<1> QED BY <1>1, LengthInGrammar

(* Every symbol spans a character at least, so offsets rise strictly.      *)
LEMMA SpanIsPositive ==
  ASSUME NEW g, IsAnnotated(g), HasNoEmptyRule(g), NEW r \in Ids(g), NEW k \in 0 .. (Size(g.rules[r]) - 1)
  PROVE  SymbolSpan(g, r, k) \in Nat \ {0}
BY SymbolDescends, LengthIsPositive DEF SymbolSpan, IsNonTerminal

LEMMA SymbolLies ==
  ASSUME NEW g, IsAnnotated(g), HasNoEmptyRule(g), NEW r \in Ids(g), NEW k \in 0 .. (Size(g.rules[r]) - 1)
  PROVE  /\ g.off[r][k] \in Nat /\ g.off[r][k + 1] \in Nat /\ k + 1 \in 0 .. Size(g.rules[r])
         /\ g.off[r][k + 1] = g.off[r][k] + SymbolSpan(g, r, k)
         /\ g.off[r][k] < g.off[r][k + 1]
         /\ g.off[r][k + 1] <= Length(g, r)
<1>1. /\ k \in 0 .. Size(g.rules[r]) /\ k + 1 \in 0 .. Size(g.rules[r])
      /\ Size(g.rules[r]) \in 0 .. Size(g.rules[r])
      /\ k + 1 <= Size(g.rules[r])
  BY OffsetsOf
<1>2. g.off[r][k + 1] <= g.off[r][Size(g.rules[r])]
  BY <1>1, OffsetsAscend
<1>3. /\ g.off[r][k] \in Nat /\ g.off[r][k + 1] \in Nat
      /\ g.off[r][k + 1] = g.off[r][k] + SymbolSpan(g, r, k)
  BY <1>1, OffsetsOf
<1> QED BY <1>1, <1>2, <1>3, SpanIsPositive, OffsetsOf

(* Every place of a rule's string lies in a symbol.                        *)
LEMMA SymbolAtPlace ==
  ASSUME NEW g, IsAnnotated(g), NEW r \in Ids(g), NEW j \in 0 .. (Length(g, r) - 1)
  PROVE  \E k \in 0 .. (Size(g.rules[r]) - 1) :
           j - g.off[r][k] \in 0 .. (SymbolSpan(g, r, k) - 1)
<1> DEFINE behind == {k \in 0 .. Size(g.rules[r]) : g.off[r][k] > j}
<1>1. /\ Size(g.rules[r]) \in Nat /\ g.off[r][0] = 0
      /\ Length(g, r) = g.off[r][Size(g.rules[r])]
      /\ \A k \in 0 .. Size(g.rules[r]) : g.off[r][k] \in Nat
      /\ \A k \in 0 .. (Size(g.rules[r]) - 1) : g.off[r][k + 1] = g.off[r][k] + SymbolSpan(g, r, k)
  BY OffsetsOf
<1>2. PICK m \in behind : \A n \in behind : m <= n
  <2>1. Length(g, r) > j /\ Size(g.rules[r]) \in 0 .. Size(g.rules[r])
    BY <1>1
  <2>2. Size(g.rules[r]) \in behind /\ behind \subseteq Nat
    BY <1>1, <2>1
  <2> HIDE DEF behind
  <2> QED BY <2>2, LeastNatural
<1>3. m \in 0 .. Size(g.rules[r]) /\ g.off[r][m] > j /\ m # 0
  BY <1>1, <1>2
<1>4. m - 1 \in 0 .. (Size(g.rules[r]) - 1) /\ m - 1 \in 0 .. Size(g.rules[r]) /\ (m - 1) + 1 = m
  BY <1>1, <1>3
<1>5. g.off[r][m - 1] <= j
  <2>1. m - 1 \notin behind
    BY <1>1, <1>2, <1>4
  <2> QED BY <1>1, <1>4, <2>1
<1>6. /\ g.off[r][m] = g.off[r][m - 1] + SymbolSpan(g, r, m - 1)
      /\ g.off[r][m - 1] \in Nat /\ SymbolSpan(g, r, m - 1) \in Nat
  BY <1>1, <1>4, SpanIsNat
<1> QED BY <1>3, <1>4, <1>5, <1>6

(* The strings of rules are made of characters.                            *)
LEMMA TextIsCharacters ==
  ASSUME NEW g, IsAnnotated(g), NEW r \in Ids(g), NEW j \in 0 .. (Length(g, r) - 1)
  PROVE  g.text[r][j] \in 0 .. (RuleOffset - 1)
<1> DEFINE bad == {s \in Ids(g) : \E i \in 0 .. (Length(g, s) - 1) : g.text[s][i] \notin 0 .. (RuleOffset - 1)}
<1>1. ASSUME bad # {} PROVE FALSE
  <2>1. PICK m \in bad : \A n \in bad : m <= n
    <3>1. bad \subseteq Nat
      BY DEF Ids
    <3> HIDE DEF bad
    <3> QED BY <1>1, <3>1, LeastNatural
  <2>2. PICK i \in 0 .. (Length(g, m) - 1) : g.text[m][i] \notin 0 .. (RuleOffset - 1)
    BY <2>1
  <2>3. m \in Ids(g) /\ m \in Nat
    BY <2>1 DEF Ids
  <2>4. PICK k \in 0 .. (Size(g.rules[m]) - 1) : i - g.off[m][k] \in 0 .. (SymbolSpan(g, m, k) - 1)
    BY <2>3, SymbolAtPlace
  <2> DEFINE s == At(g.rules[m], k)
             j0 == i - g.off[m][k]
  <2>5. g.text[m][g.off[m][k] + j0] = IF IsTerminal(s) THEN s ELSE g.text[RuleId(s)][j0]
    BY <2>3, <2>4, Zenon DEF IsAnnotated, IsDerivation
  <2>6. g.off[m][k] \in Nat /\ i \in Nat /\ g.off[m][k] + j0 = i
    <3>1. k \in 0 .. Size(g.rules[m])
      BY <2>3, OffsetsOf
    <3>2. g.off[m][k] \in Nat /\ Length(g, m) \in Nat
      BY <2>3, <3>1, OffsetsOf, LengthInGrammar
    <3> QED BY <3>2
  <2>7. s \in Nat
    BY <2>3, SymbolDescends
  <2>8. CASE IsTerminal(s)
    <3>1. g.text[m][i] = s
      BY <2>5, <2>6, <2>8
    <3> QED BY <2>2, <2>7, <2>8, <3>1, RuleOffsetAssumption DEF IsTerminal
  <2>9. CASE IsNonTerminal(s)
    <3>1. RuleId(s) \in Ids(g) /\ RuleId(s) < m /\ RuleId(s) \in Nat
      BY <2>3, <2>9, SymbolDescends DEF Ids
    <3>2. ~(m <= RuleId(s))
      BY <2>3, <3>1
    <3>3. RuleId(s) \notin bad
      BY <2>1, <3>2
    <3>4. j0 \in 0 .. (Length(g, RuleId(s)) - 1)
      BY <2>4, <2>9 DEF SymbolSpan, IsNonTerminal
    <3>5. g.text[m][i] = g.text[RuleId(s)][j0]
      BY <2>5, <2>6, <2>9 DEF IsNonTerminal
    <3>6. g.text[RuleId(s)][j0] \in 0 .. (RuleOffset - 1)
      BY <3>1, <3>3, <3>4
    <3> QED BY <2>2, <3>5, <3>6
  <2> QED BY <2>8, <2>9 DEF IsNonTerminal
<1>2. r \notin bad
  BY <1>1
<1> QED BY <1>2

LEMMA MinOfTwo ==
  ASSUME NEW m \in Nat, NEW n \in Nat
  PROVE  Min({m, n}) = IF m <= n THEN m ELSE n
<1> DEFINE l == IF m <= n THEN m ELSE n
<1>1. l \in {m, n} /\ \A y \in {m, n} : l <= y
  OBVIOUS
<1>2. Min({m, n}) \in {m, n} /\ \A y \in {m, n} : Min({m, n}) <= y
  BY <1>1 DEF Min
<1> HIDE DEF Min
<1> QED BY <1>2

(* The maximum of a set of numbers is the element no other exceeds. *)
LEMMA MaxIs ==
  ASSUME NEW S, S \subseteq Nat, NEW m \in S, \A n \in S : n <= m
  PROVE  Max(S) = m
<1>1. \E x \in S : \A y \in S : x >= y
  OBVIOUS
<1>2. Max(S) \in S /\ \A y \in S : Max(S) >= y
  BY <1>1 DEF Max
<1>3. Max(S) \in Nat /\ m \in Nat /\ Max(S) <= m /\ m <= Max(S)
  BY <1>2
<1> HIDE DEF Max
<1> QED BY <1>3

(* A bounded set has a maximum. *)
LEMMA MaxOfBounded ==
  ASSUME NEW b \in Nat, NEW S \in SUBSET (0 .. b), S # {}
  PROVE  Max(S) \in S /\ \A n \in S : n <= Max(S)
<1> DEFINE below == {b - n : n \in S}
<1>1. PICK d \in below : \A e \in below : d <= e
  <2>1. \A n \in S : b - n \in Nat
    OBVIOUS
  <2>2. below \subseteq Nat /\ below # {}
    BY <2>1
  <2> HIDE DEF below
  <2> QED BY <2>2, LeastNatural
<1>2. PICK m \in S : d = b - m
  BY <1>1
<1>3. ASSUME NEW n \in S PROVE m >= n
  <2>1. b - n \in below
    OBVIOUS
  <2>2. d <= b - n
    BY <1>1, <2>1
  <2> QED BY <1>2, <2>2
<1> HIDE DEF below
<1>4. Max(S) \in S /\ \A n \in S : Max(S) >= n
  BY <1>3 DEF Max
<1> HIDE DEF Max
<1> QED BY <1>4

-----------------------------------------------------------------------------
(* Sequences of sequences, laid end to end.  FlattenSeq is defined by      *)
(* recursion; as induction is out of reach, each fact is shown of the      *)
(* least length it could fail for.                                         *)

IsFlat(f, s, n) == f = [k \in 1 .. n |-> IF k = 1 THEN s[k] ELSE f[k - 1] \o s[k]]

LEMMA FlatExists ==
  ASSUME NEW s, NEW n \in Nat
  PROVE  \E f : IsFlat(f, s, n)
<1> DEFINE none == {m \in Nat : ~ \E f : IsFlat(f, s, m)}
<1> SUFFICES ASSUME none # {} PROVE FALSE
  BY DEF none
<1>1. PICK m \in none : \A k \in none : m <= k
  <2>1. none \subseteq Nat
    OBVIOUS
  <2> HIDE DEF none
  <2> QED BY <2>1, LeastNatural
<1>2. m \in Nat /\ ~ \E f : IsFlat(f, s, m)
  BY <1>1
<1>3. m # 0
  <2>1. IsFlat([k \in 1 .. 0 |-> s], s, 0)
    BY DEF IsFlat
  <2> QED BY <1>2, <2>1
<1>4. m - 1 \in Nat /\ m - 1 \notin none
  <2>1. m - 1 \in Nat /\ ~(m <= m - 1)
    BY <1>2, <1>3
  <2> HIDE DEF none
  <2> QED BY <1>1, <2>1
<1>5. PICK g : IsFlat(g, s, m - 1)
  BY <1>4
<1> DEFINE f == [k \in 1 .. m |-> IF k = 1 THEN s[k] ELSE g[k - 1] \o s[k]]
<1>6. /\ m \in Nat \ {0}
      /\ \A k \in 1 .. (m - 1) : g[k] = IF k = 1 THEN s[k] ELSE g[k - 1] \o s[k]
      /\ \A k \in 1 .. m : f[k] = IF k = 1 THEN s[k] ELSE g[k - 1] \o s[k]
      /\ f = [k \in 1 .. m |-> f[k]]
  BY <1>2, <1>3, <1>5 DEF IsFlat
<1> HIDE DEF none, f
<1>7. IsFlat(f, s, m)
  <2>1. ASSUME NEW k \in 1 .. (m - 1) PROVE f[k] = g[k]
    <3>1. k \in 1 .. m
      BY <1>6
    <3> QED BY <1>6, <3>1, Zenon
  <2>2. \A k \in 1 .. m : f[k] = IF k = 1 THEN s[k] ELSE f[k - 1] \o s[k]
    <3> SUFFICES ASSUME NEW k \in 1 .. m PROVE f[k] = IF k = 1 THEN s[k] ELSE f[k - 1] \o s[k]
      OBVIOUS
    <3>1. CASE k = 1
      BY <1>6, <3>1
    <3>2. CASE k # 1
      <4>1. k - 1 \in 1 .. (m - 1)
        BY <1>6, <3>2
      <4>2. f[k - 1] = g[k - 1]
        BY <2>1, <4>1
      <4> QED BY <1>6, <3>2, <4>2
    <3> QED BY <3>1, <3>2
  <2> QED BY <1>6, <2>2 DEF IsFlat
<1> QED BY <1>2, <1>7

LEMMA FlattenIsFlat ==
  ASSUME NEW S, NEW s \in Seq(S), s # << >>
  PROVE  \E f : IsFlat(f, s, Len(s)) /\ FlattenSeq(s) = f[Len(s)]
<1>1. Len(s) \in Nat /\ Len(s) # 0
  BY EmptySeq
<1>2. \E f : IsFlat(f, s, Len(s))
  BY <1>1, FlatExists
<1> QED BY <1>1, <1>2, Zenon DEF FlattenSeq, IsFlat

(* What is laid end to end depends on what comes before only. *)
LEMMA FlatAgree ==
  ASSUME NEW s, NEW t, NEW f, NEW g, NEW l \in Nat,
         IsFlat(f, s, l + 1), IsFlat(g, t, l), \A k \in 1 .. l : s[k] = t[k]
  PROVE  \A k \in 1 .. l : f[k] = g[k]
<1> DEFINE differ == {k \in 1 .. l : f[k] # g[k]}
<1> SUFFICES ASSUME differ # {} PROVE FALSE
  BY DEF differ
<1>1. PICK k \in differ : \A j \in differ : k <= j
  <2>1. differ \subseteq Nat
    OBVIOUS
  <2> HIDE DEF differ
  <2> QED BY <2>1, LeastNatural
<1>2. k \in 1 .. l /\ f[k] # g[k]
  BY <1>1
<1>3. k # 1 => k - 1 \in 1 .. l /\ f[k - 1] = g[k - 1]
  <2>1. k # 1 => k - 1 \in 1 .. l /\ ~(k <= k - 1)
    BY <1>2
  <2> QED BY <1>1, <2>1
<1>4. /\ f[k] = IF k = 1 THEN s[k] ELSE f[k - 1] \o s[k]
      /\ g[k] = IF k = 1 THEN t[k] ELSE g[k - 1] \o t[k]
  <2>1. /\ f = [j \in 1 .. (l + 1) |-> IF j = 1 THEN s[j] ELSE f[j - 1] \o s[j]]
        /\ g = [j \in 1 .. l |-> IF j = 1 THEN t[j] ELSE g[j - 1] \o t[j]]
    BY DEF IsFlat
  <2>2. k \in 1 .. l /\ k \in 1 .. (l + 1)
    BY <1>2
  <2> HIDE DEF differ
  <2>3. f[k] = IF k = 1 THEN s[k] ELSE f[k - 1] \o s[k]
    BY <2>1, <2>2, Zenon
  <2>4. g[k] = IF k = 1 THEN t[k] ELSE g[k - 1] \o t[k]
    BY <2>1, <2>2, Zenon
  <2> QED BY <2>3, <2>4
<1> QED BY <1>2, <1>3, <1>4

LEMMA FlattenEmpty == FlattenSeq(<< >>) = << >>
BY DEF FlattenSeq

LEMMA FlattenAppend ==
  ASSUME NEW S, NEW s \in Seq(Seq(S)), NEW a \in Seq(S)
  PROVE  FlattenSeq(Append(s, a)) = FlattenSeq(s) \o a
<1> DEFINE u == Append(s, a)
           n == Len(s)
<1>1. /\ u \in Seq(Seq(S)) /\ Len(u) = n + 1 /\ u # << >> /\ n \in Nat
      /\ \A k \in 1 .. n : u[k] = s[k]
      /\ u[n + 1] = a
  <2>1. n \in Nat /\ u \in Seq(Seq(S)) /\ Len(u) = n + 1
    OBVIOUS
  <2>2. /\ \A k \in 1 .. n : u[k] = s[k]
        /\ u[n + 1] = a
    OBVIOUS
  <2>3. u # << >>
    <3> HIDE DEF u, n
    <3> QED BY <2>1, EmptySeq
  <2> QED BY <2>1, <2>2, <2>3
<1> HIDE DEF u
<1>2. PICK f : IsFlat(f, u, Len(u)) /\ FlattenSeq(u) = f[Len(u)]
  BY <1>1, FlattenIsFlat
<1>3. CASE s = << >>
  <2>1. n = 0
    BY <1>3
  <2>2. f[1] = u[1]
    BY <1>1, <1>2, <2>1 DEF IsFlat
  <2>3. FlattenSeq(u) = a
    BY <1>1, <1>2, <2>1, <2>2
  <2>4. FlattenSeq(s) \o a = a
    BY <1>3, FlattenEmpty
  <2> QED BY <2>3, <2>4 DEF u
<1>4. CASE s # << >>
  <2>1. n # 0
    BY <1>4, EmptySeq
  <2>2. PICK g : IsFlat(g, s, n) /\ FlattenSeq(s) = g[n]
    BY <1>4, FlattenIsFlat
  <2>3. f[n + 1] = f[n] \o u[n + 1]
    <3> HIDE DEF n
    <3>1. n + 1 \in 1 .. (n + 1) /\ n + 1 # 1 /\ (n + 1) - 1 = n
      BY <1>1, <2>1
    <3>2. f = [k \in 1 .. (n + 1) |-> IF k = 1 THEN u[k] ELSE f[k - 1] \o u[k]]
      BY <1>1, <1>2 DEF IsFlat
    <3> QED BY <3>1, <3>2
  <2>4. f[n] = g[n]
    <3> HIDE DEF n
    <3>1. \A k \in 1 .. n : u[k] = s[k]
      BY <1>1
    <3>2. n \in Nat /\ n \in 1 .. n
      BY <1>1, <2>1
    <3>3. IsFlat(f, u, n + 1) /\ IsFlat(g, s, n)
      BY <1>1, <1>2, <2>2
    <3>4. \A k \in 1 .. n : f[k] = g[k]
      BY <3>1, <3>2, <3>3, FlatAgree
    <3> QED BY <3>2, <3>4
  <2> QED BY <1>1, <1>2, <2>2, <2>3, <2>4 DEF u
<1> QED BY <1>3, <1>4

LEMMA FlattenType ==
  ASSUME NEW S, NEW s \in Seq(Seq(S))
  PROVE  FlattenSeq(s) \in Seq(S)
<1> DEFINE wrong == {n \in Nat : \E r \in Seq(Seq(S)) : Len(r) = n /\ FlattenSeq(r) \notin Seq(S)}
<1> SUFFICES ASSUME wrong # {} PROVE FALSE
  BY DEF wrong
<1>1. PICK n \in wrong : \A m \in wrong : n <= m
  <2>1. wrong \subseteq Nat
    OBVIOUS
  <2> HIDE DEF wrong
  <2> QED BY <2>1, LeastNatural
<1>2. PICK r \in Seq(Seq(S)) : Len(r) = n /\ FlattenSeq(r) \notin Seq(S)
  BY <1>1
<1>3. r # << >>
  <2>1. << >> \in Seq(S)
    OBVIOUS
  <2> QED BY <1>2, <2>1, FlattenEmpty
<1> DEFINE f == Front(r)
           l == Last(r)
<1>4. f \in Seq(Seq(S)) /\ l \in Seq(S) /\ r = Append(f, l) /\ Len(f) = n - 1
  BY <1>2, <1>3 DEF Front, Last
<1> HIDE DEF f, l
<1>5. FlattenSeq(f) \in Seq(S)
  <2>1. n - 1 \in Nat /\ ~(n <= n - 1)
    BY <1>2, <1>3, EmptySeq
  <2>2. n - 1 \notin wrong
    <3> HIDE DEF wrong
    <3> QED BY <1>1, <2>1
  <2> QED BY <1>4, <2>1, <2>2
<1>6. FlattenSeq(r) = FlattenSeq(f) \o l
  BY <1>4, FlattenAppend
<1> QED BY <1>2, <1>4, <1>5, <1>6

(* The j-th element of the k-th piece lies j places behind the pieces      *)
(* before it.                                                              *)
Before(s, k) == FlattenSeq(SubSeq(s, 1, k))

LEMMA BeforeType ==
  ASSUME NEW S, NEW s \in Seq(Seq(S)), NEW k \in 0 .. Len(s)
  PROVE  /\ Before(s, k) \in Seq(S)
         /\ k < Len(s) => /\ s[k + 1] \in Seq(S)
                          /\ Before(s, k + 1) = Before(s, k) \o s[k + 1]
         /\ Before(s, Len(s)) = FlattenSeq(s)
<1>1. SubSeq(s, 1, k) \in Seq(Seq(S))
  OBVIOUS
<1>2. ASSUME k < Len(s)
      PROVE  s[k + 1] \in Seq(S) /\ SubSeq(s, 1, k + 1) = Append(SubSeq(s, 1, k), s[k + 1])
  BY <1>2
<1>3. SubSeq(s, 1, Len(s)) = s
  OBVIOUS
<1> QED BY <1>1, <1>2, <1>3, FlattenType, FlattenAppend DEF Before

LEMMA FlattenAt ==
  ASSUME NEW S, NEW s \in Seq(Seq(S)), NEW k \in 1 .. Len(s), NEW j \in 1 .. Len(s[k])
  PROVE  FlattenSeq(s)[Len(Before(s, k - 1)) + j] = s[k][j]
<1> DEFINE place == Len(Before(s, k - 1)) + j
           bad == {n \in k .. Len(s) : ~ (place \in 1 .. Len(Before(s, n)) /\ Before(s, n)[place] = s[k][j])}
<1>1. bad = {}
  <2> SUFFICES ASSUME bad # {} PROVE FALSE
    OBVIOUS
  <2>1. PICK n \in bad : \A m \in bad : n <= m
    <3>1. bad \subseteq Nat
      OBVIOUS
    <3> HIDE DEF bad
    <3> QED BY <3>1, LeastNatural
  <2>2. n \in k .. Len(s) /\ ~ (place \in 1 .. Len(Before(s, n)) /\ Before(s, n)[place] = s[k][j])
    BY <2>1
  <2>3. n - 1 \in 0 .. Len(s) /\ n - 1 < Len(s) /\ (n - 1) + 1 = n
    BY <2>2
  <2>4. /\ Before(s, n - 1) \in Seq(S) /\ s[n] \in Seq(S)
        /\ Before(s, n) = Before(s, n - 1) \o s[n]
    BY <2>3, BeforeType
  <2>5. CASE n = k
    <3>1. Len(Before(s, n - 1)) \in Nat /\ place = Len(Before(s, n - 1)) + j /\ j \in 1 .. Len(s[n])
      BY <2>4, <2>5
    <3> HIDE DEF place, bad
    <3> QED BY <2>2, <2>4, <2>5, <3>1
  <2>6. CASE n # k
    <3>1. n - 1 \in k .. Len(s) /\ ~(n <= n - 1)
      BY <2>2, <2>6
    <3>2. n - 1 \notin bad
      <4> HIDE DEF bad
      <4> QED BY <2>1, <3>1
    <3>3. place \in 1 .. Len(Before(s, n - 1)) /\ Before(s, n - 1)[place] = s[k][j]
      BY <3>1, <3>2
    <3> HIDE DEF place, bad
    <3>4. ASSUME NEW a \in Seq(S), NEW b \in Seq(S), NEW i \in 1 .. Len(a)
          PROVE  i \in 1 .. Len(a \o b) /\ (a \o b)[i] = a[i]
      OBVIOUS
    <3>5. place \in 1 .. Len(Before(s, n)) /\ Before(s, n)[place] = Before(s, n - 1)[place]
      BY ZenonT(40), <2>4, <3>3, <3>4
    <3> QED BY <2>2, <3>3, <3>5
  <2> QED BY <2>5, <2>6
<1>2. Len(s) \in k .. Len(s) /\ Len(s) \in 0 .. Len(s)
  OBVIOUS
<1> HIDE DEF place
<1>3. Before(s, Len(s))[place] = s[k][j]
  BY <1>1, <1>2
<1>4. Before(s, Len(s)) = FlattenSeq(s)
  BY <1>2, BeforeType
<1> QED BY <1>3, <1>4 DEF place
=============================================================================
