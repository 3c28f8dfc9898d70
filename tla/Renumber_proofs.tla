--------------------------- MODULE Renumber_proofs ---------------------------
(***************************************************************************)
(* Proofs about Renumber and GrammarOps, for every set of acyclic          *)
(* grammars, every RULE_OFFSET and every width.                            *)
(***************************************************************************)
EXTENDS GrammarOps, Grammars_proofs, FiniteSetTheorems, SequenceTheorems

-----------------------------------------------------------------------------
(* Facts about rules and grammars *)

(* The children of the rules of a given grammar are rules of the grammar,  *)
(* and ranks fall from a rule to its children.                             *)
LEMMA GivenGrammar ==
  ASSUME given \in Inputs
  PROVE  /\ given.count \in Nat
         /\ given.count # 0 => given.start \in Ids(given)
         /\ given.rules \in [Ids(given) -> RuleType]
         /\ \A r \in Ids(given) : Children(given.rules[r]) \subseteq Ids(given)
         /\ Rank \in [Ids(given) -> Ids(given)]
         /\ IsRank(given, Rank)
BY InputsAssumption DEF IsGrammar, IsRuleSet, Rank

(* Frames hold rule ids and indexes; a stack that is not empty has a top.  *)
LEMMA Frames ==
  ASSUME TypeOK
  PROVE  /\ Len(stack) \in Nat
         /\ \A k \in 1 .. Len(stack) :
              /\ stack[k] \in [rule : Ids(given), next : Nat]
              /\ stack[k].rule \in Ids(given)
              /\ stack[k].next \in Nat
         /\ stack # << >> => Len(stack) \in Nat \ {0}
<1>1. stack \in Seq([rule : Ids(given), next : Nat])
  BY DEF TypeOK
<1>2. \A k \in 1 .. Len(stack) : stack[k] \in [rule : Ids(given), next : Nat]
  BY <1>1, ElementOfSeq
<1>3. stack # << >> => Len(stack) \in Nat \ {0}
  BY <1>1, EmptySeq
<1> QED BY <1>1, <1>2, <1>3

-----------------------------------------------------------------------------
(* The inductive invariant holds initially and is kept by every step. *)

LEMMA InitInv == Init => Inv
<1> SUFFICES ASSUME Init PROVE Inv
  OBVIOUS
<1> USE DEF Init
<1>1. TypeOK
  <2>1. EmptyRule \in RuleType
    BY WidthAssumption DEF EmptyRule, RuleType
  <2>2. 0 \in 0 .. given.count
    BY GivenGrammar
  <2> QED BY <2>1, <2>2, GivenGrammar DEF TypeOK, Invalid, Ids
<1>2. Numbered = {}
  BY DEF Numbered
<1>3. Untouched /\ Passed /\ StackIsPath /\ RanksFall /\ PostOrder /\ StartLast /\ Moved
  BY <1>2 DEF Untouched, Passed, StackIsPath, RanksFall, PostOrder, StartLast, Moved
<1>4. DenseNumbers /\ Counted
  BY <1>2, FS_EmptySet DEF DenseNumbers, Counted, Issued
<1> QED BY <1>1, <1>3, <1>4 DEF Inv

LEMMA EnterEmptyInv == Inv /\ EnterEmpty => Inv'
<1> SUFFICES ASSUME Inv, EnterEmpty PROVE Inv'
  OBVIOUS
<1> USE DEF Inv, EnterEmpty
<1>1. Ids(given) = {} /\ stack = << >> /\ count = 0
  BY DEF Ids, StartLast
<1>2. Numbered = {} /\ Numbered' = {} /\ Issued = count /\ Issued' = count
  BY <1>1 DEF Numbered, Issued
<1>3. TypeOK' /\ Untouched' /\ Passed' /\ StackIsPath' /\ RanksFall' /\ PostOrder'
  BY <1>1, <1>2 DEF TypeOK, Untouched, Passed, StackIsPath, RanksFall, PostOrder
<1>4. DenseNumbers' /\ Counted' /\ StartLast' /\ Moved'
  BY <1>1, <1>2 DEF DenseNumbers, Counted, StartLast, Moved
<1> QED BY <1>3, <1>4

LEMMA EnterInv == Inv /\ Enter => Inv'
<1> SUFFICES ASSUME Inv, Enter PROVE Inv'
  OBVIOUS
<1> USE DEF Inv, Enter
<1>1. given \in Inputs /\ startRule = given.start /\ given.start \in Ids(given)
  BY GivenGrammar DEF TypeOK, Untouched
<1>2. Numbered' = Numbered /\ Issued' = Issued /\ Issued = count /\ Rank' = Rank
  BY DEF Numbered, Issued, Rank
<1>3. /\ Len(stack') = 1
      /\ stack'[1] = Frame(given.start, 0)
      /\ stack' \in Seq([rule : Ids(given), next : Nat])
  BY <1>1 DEF Frame
<1>4. count = 0 /\ Numbered = {}
  <2>1. count = 0
    BY DEF StartLast
  <2>2. {renumbering[r] : r \in Numbered} = 0 .. (-1)
    BY <1>2, <2>1 DEF DenseNumbers
  <2> QED BY <2>1, <2>2
<1>5. TypeOK'
  BY <1>3 DEF TypeOK
<1>6. Untouched' /\ PostOrder' /\ DenseNumbers' /\ Counted' /\ Moved'
  BY <1>2 DEF Untouched, PostOrder, DenseNumbers, Counted, Moved
<1>7. Passed' /\ RanksFall'
  BY <1>3 DEF Passed, RanksFall, Frame
<1>8. StackIsPath'
  BY <1>1, <1>2, <1>3, <1>4 DEF StackIsPath, Frame
<1>9. StartLast'
  BY <1>3 DEF StartLast, Frame
<1> QED BY <1>5, <1>6, <1>7, <1>8, <1>9

(* What Descend does to the stack: the place is saved in the top frame and *)
(* a frame for a child of its rule, still unnumbered, is put on it.        *)
LEMMA DescendStack ==
  ASSUME Inv, Descend
  PROVE  \E idx \in Nat, child \in Ids(given) :
           LET n == Len(stack)
           IN  /\ n \in Nat \ {0}
               /\ stack[n].rule \in Ids(given)
               /\ idx \in stack[n].next .. (Size(given.rules[stack[n].rule]) - 1)
               /\ At(given.rules[stack[n].rule], idx) = NonTerminal(child)
               /\ child \in Children(given.rules[stack[n].rule])
               /\ child \notin Numbered
               /\ \A j \in stack[n].next .. (idx - 1) :
                    LET s == At(given.rules[stack[n].rule], j)
                    IN  IsNonTerminal(s) => RuleId(s) \in Numbered
               /\ stack' \in Seq([rule : Ids(given), next : Nat])
               /\ Len(stack') = n + 1
               /\ \A k \in 1 .. (n - 1) : stack'[k] = stack[k]
               /\ stack'[n] = Frame(stack[n].rule, idx + 1)
               /\ stack'[n + 1] = Frame(child, 0)
<1> DEFINE n == Len(stack)
           rule == given.rules[stack[n].rule]
<1>1. given \in Inputs /\ rules = given.rules /\ stack \in Seq([rule : Ids(given), next : Nat])
  BY DEF Inv, Descend, TypeOK, Untouched
<1>2. n \in Nat \ {0} /\ stack[n] \in [rule : Ids(given), next : Nat]
  <2>1. stack # << >>
    BY DEF Descend
  <2> QED BY <2>1, Frames DEF Inv
<1>3. PICK idx \in Pending(Top) :
        /\ \A other \in Pending(Top) : idx <= other
        /\ stack' = Append([stack EXCEPT ![Len(stack)] = Frame(Top.rule, idx + 1)],
                           Frame(RuleId(At(rules[Top.rule], idx)), 0))
  BY DEF Descend
<1>4. rule \in RuleType /\ Size(rule) \in Nat
  BY <1>1, <1>2, GivenGrammar DEF RuleType, Size
<1>5. /\ idx \in stack[n].next .. (Size(rule) - 1)
      /\ IsPending(At(rule, idx))
  BY <1>1, <1>3 DEF Pending, Top
<1>6. idx \in Nat /\ idx \in 0 .. (Size(rule) - 1)
  BY <1>2, <1>4, <1>5
<1> DEFINE child == RuleId(At(rule, idx))
<1>7. child \in Children(rule) /\ child \in Ids(given) /\ At(rule, idx) = NonTerminal(child)
  <2>1. child \in Children(rule) /\ At(rule, idx) \in Nat
    BY <1>4, <1>5, <1>6, SymbolAt DEF IsPending
  <2>2. Children(rule) \subseteq Ids(given)
    BY <1>1, <1>2, GivenGrammar
  <2> QED BY <2>1, <2>2, RuleOffsetAssumption DEF NonTerminal, RuleId
<1>8. child \notin Numbered
  BY <1>5 DEF IsPending, Numbered
<1>9. ASSUME NEW j \in stack[n].next .. (idx - 1), IsNonTerminal(At(rule, j))
      PROVE  RuleId(At(rule, j)) \in Numbered
  <2>1. j \in 0 .. (Size(rule) - 1) /\ j < idx /\ j \in stack[n].next .. (Size(rule) - 1)
    BY <1>2, <1>4, <1>5
  <2>2. j \notin Pending(Top)
    BY <1>3, <1>6, <2>1
  <2>3. ~IsPending(At(rule, j))
    BY <1>1, <2>1, <2>2 DEF Pending, Top
  <2>4. RuleId(At(rule, j)) \in Ids(given)
    BY <1>1, <1>2, <1>4, <1>9, <2>1, SymbolAt, GivenGrammar
  <2> QED BY <1>9, <2>3, <2>4 DEF IsPending, Numbered
<1> DEFINE mid == [stack EXCEPT ![n] = Frame(stack[n].rule, idx + 1)]
<1>10. /\ mid \in Seq([rule : Ids(given), next : Nat])
       /\ Len(mid) = n
       /\ \A k \in 1 .. (n - 1) : mid[k] = stack[k]
       /\ mid[n] = Frame(stack[n].rule, idx + 1)
  BY <1>1, <1>2, <1>6 DEF Frame
<1>11. stack' = Append(mid, Frame(child, 0))
  BY <1>1, <1>3 DEF Top
<1>12. /\ stack' \in Seq([rule : Ids(given), next : Nat])
       /\ Len(stack') = n + 1
       /\ \A k \in 1 .. (n - 1) : stack'[k] = stack[k]
       /\ stack'[n] = Frame(stack[n].rule, idx + 1)
       /\ stack'[n + 1] = Frame(child, 0)
  <2>1. Frame(child, 0) \in [rule : Ids(given), next : Nat]
    BY <1>7 DEF Frame
  <2> HIDE DEF mid
  <2> QED BY <1>2, <1>10, <1>11, <2>1
<1> QED BY <1>2, <1>5, <1>6, <1>7, <1>8, <1>9, <1>12

LEMMA DescendInv == Inv /\ Descend => Inv'
<1> SUFFICES ASSUME Inv, Descend PROVE Inv'
  OBVIOUS
<1> DEFINE n == Len(stack)
           rule == given.rules[stack[n].rule]
<1>1. PICK idx \in Nat, child \in Ids(given) :
        /\ n \in Nat \ {0}
        /\ stack[n].rule \in Ids(given)
        /\ idx \in stack[n].next .. (Size(rule) - 1)
        /\ At(rule, idx) = NonTerminal(child)
        /\ child \in Children(rule)
        /\ child \notin Numbered
        /\ \A j \in stack[n].next .. (idx - 1) :
             IsNonTerminal(At(rule, j)) => RuleId(At(rule, j)) \in Numbered
        /\ stack' \in Seq([rule : Ids(given), next : Nat])
        /\ Len(stack') = n + 1
        /\ \A k \in 1 .. (n - 1) : stack'[k] = stack[k]
        /\ stack'[n] = Frame(stack[n].rule, idx + 1)
        /\ stack'[n + 1] = Frame(child, 0)
  BY DescendStack
<1>2. /\ given \in Inputs /\ given' = given /\ pc = "search" /\ pc' = "search"
      /\ \A k \in 1 .. n : stack[k].rule \in Ids(given) /\ stack[k].next \in Nat
  <2>1. given \in Inputs
    BY DEF Inv, TypeOK
  <2> QED BY <2>1, Frames DEF Inv, Descend
<1>3. Numbered' = Numbered /\ Issued' = Issued /\ Rank' = Rank
  BY DEF Descend, Numbered, Issued, Rank
<1>0. /\ n \in Nat \ {0}
      /\ \A k \in 1 .. n : stack'[k].rule = stack[k].rule
      /\ \A k \in 1 .. (n - 1) : stack'[k] = stack[k]
      /\ stack'[n].next = idx + 1
      /\ stack'[n + 1].rule = child
      /\ stack[n].next \in Nat
  <2>1. \A k \in 1 .. n : k = n \/ k \in 1 .. (n - 1)
    BY <1>1
  <2> QED BY <1>1, <1>2, <2>1 DEF Frame
<1>4. Size(rule) \in Nat
  <2>1. rule \in RuleType
    BY <1>1, <1>2, GivenGrammar
  <2> QED BY <2>1 DEF Size, RuleType
<1>5. TypeOK'
  BY <1>1 DEF Inv, Descend, TypeOK
<1>6. Untouched' /\ PostOrder' /\ DenseNumbers' /\ Counted' /\ Moved'
  BY <1>3 DEF Inv, Descend, Untouched, PostOrder, DenseNumbers, Counted, Moved
<1>7. Passed'
  <2> SUFFICES ASSUME NEW k \in 1 .. (n + 1), NEW j \in 0 .. (stack'[k].next - 1)
               PROVE  LET s == At(given.rules[stack'[k].rule], j)
                      IN  /\ j < Size(given.rules[stack'[k].rule])
                          /\ IsNonTerminal(s) =>
                               \/ RuleId(s) \in Numbered
                               \/ k < n + 1 /\ j = stack'[k].next - 1
    BY <1>1, <1>2, <1>3 DEF Passed
  <2>1. CASE k < n
    <3>1. k \in 1 .. n /\ stack'[k] = stack[k] /\ j \in 0 .. (stack[k].next - 1)
      BY SMTT(30), <1>1, <2>1
    <3> QED BY <1>1, <2>1, <3>1 DEF Inv, Passed
  <2>2. CASE k = n
    <3>1. stack'[k].rule = stack[n].rule /\ stack'[k].next = idx + 1
      BY <1>1, <2>2 DEF Frame
    <3>2. CASE j = idx
      BY <1>1, <1>4, <2>2, <3>1, <3>2
    <3>3. CASE j \in stack[n].next .. (idx - 1)
      BY <1>0, <1>1, <1>4, <3>1, <3>3
    <3>4. CASE j < stack[n].next
      <4>1. n \in 1 .. Len(stack) /\ j \in 0 .. (stack[n].next - 1)
        BY <1>1, <1>2, <3>4
      <4>2. /\ j < Size(rule)
            /\ IsNonTerminal(At(rule, j)) => RuleId(At(rule, j)) \in Numbered
        BY <4>1 DEF Inv, Passed
      <4> QED BY <3>1, <4>2
    <3> QED BY <1>0, <3>1, <3>2, <3>3, <3>4
  <2>3. CASE k = n + 1
    BY <1>1, <2>3 DEF Frame
  <2> QED BY <1>1, <2>1, <2>2, <2>3
<1>8. RanksFall'
  <2>1. Rank[child] < Rank[stack[n].rule]
    BY <1>1, <1>2, GivenGrammar DEF IsRank
  <2>2. Rank \in [Ids(given) -> Nat]
    BY <1>2, GivenGrammar DEF Ids
  <2> SUFFICES ASSUME NEW j \in 1 .. (n + 1), NEW k \in 1 .. (n + 1), j < k
               PROVE  Rank[stack'[k].rule] < Rank[stack'[j].rule]
    BY <1>1, <1>3 DEF RanksFall
  <2>3. stack'[j].rule = stack[j].rule /\ j \in 1 .. n
    BY <1>0
  <2>4. CASE k = n + 1
    <3>1. stack'[k].rule = child
      BY <1>1, <2>4 DEF Frame
    <3>2. CASE j = n
      BY <2>1, <2>3, <3>1, <3>2
    <3>3. CASE j < n
      <4>1. Rank[stack[n].rule] < Rank[stack[j].rule]
        BY <1>1, <2>3, <3>3 DEF Inv, RanksFall
      <4>2. /\ Rank[child] \in Nat /\ Rank[stack[n].rule] \in Nat
            /\ Rank[stack[j].rule] \in Nat
        BY <1>1, <1>2, <2>2, <2>3
      <4> QED BY <2>1, <2>3, <3>1, <4>1, <4>2
    <3> QED BY <1>1, <2>3, <3>2, <3>3
  <2>5. CASE k < n + 1
    <3>1. stack'[k].rule = stack[k].rule /\ k \in 1 .. n
      BY <1>0, <2>5
    <3> QED BY <2>3, <3>1 DEF Inv, RanksFall
  <2> QED BY <1>0, <2>4, <2>5
<1>9. StackIsPath'
  <2>1. ASSUME NEW k \in 1 .. (n + 1) PROVE stack'[k].rule \notin Numbered
    <3>1. CASE k = n + 1
      BY <1>1, <3>1 DEF Frame
    <3>2. CASE k \in 1 .. n
      <4>1. stack'[k].rule = stack[k].rule
        BY <1>0, <3>2
      <4> QED BY <1>2, <3>2, <4>1 DEF Inv, StackIsPath
    <3> QED BY <1>1, <3>1, <3>2
  <2>2. ASSUME NEW k \in 1 .. n
        PROVE  /\ stack'[k].next \in 1 .. Size(given.rules[stack'[k].rule])
               /\ At(given.rules[stack'[k].rule], stack'[k].next - 1) = NonTerminal(stack'[k + 1].rule)
    <3>1. CASE k = n
      <4>2. stack'[k].rule = stack[n].rule /\ stack'[k].next = idx + 1 /\ stack'[k + 1].rule = child
        BY <1>1, <3>1 DEF Frame
      <4> QED BY <1>0, <1>1, <1>4, <4>2
    <3>2. CASE k < n
      <4>1. stack'[k] = stack[k] /\ stack'[k + 1].rule = stack[k + 1].rule /\ k \in 1 .. (n - 1)
        BY <1>0, <3>2
      <4> QED BY <1>2, <4>1 DEF Inv, StackIsPath
    <3> QED BY <1>1, <3>1, <3>2
  <2>3. ASSUME NEW j \in 1 .. (n + 1), NEW k \in 1 .. (n + 1), stack'[j].rule = stack'[k].rule
        PROVE  j = k
    <3>1. stack'[j].rule \in Ids(given)
      <4>1. j = n + 1 \/ j \in 1 .. n
        BY <1>0
      <4> QED BY <1>0, <1>2, <4>1
    <3>2. Rank[stack'[j].rule] \in Int
      BY <1>2, <3>1, GivenGrammar DEF Ids
    <3>3. ~(j < k) /\ ~(k < j)
      BY <1>1, <1>3, <1>8, <2>3, <3>2 DEF RanksFall
    <3> QED BY <1>1, <3>3
  <2> QED BY <1>1, <1>2, <1>3, <2>1, <2>2, <2>3 DEF StackIsPath
<1>10. StartLast'
  BY <1>1, <1>2, <1>3 DEF Inv, StartLast, Frame
<1> QED BY <1>5, <1>6, <1>7, <1>8, <1>9, <1>10 DEF Inv

(* When no symbol of the top rule is pending, all its children have numbers. *)
LEMMA TopReady ==
  ASSUME Inv, pc = "search", stack # << >>, Pending(Top) = {}
  PROVE  /\ Top.rule \in Ids(given) /\ Top.rule \notin Numbered
         /\ \A c \in Children(given.rules[Top.rule]) : c \in Numbered
<1> DEFINE n == Len(stack)
           rule == given.rules[stack[n].rule]
<1>1. /\ given \in Inputs /\ rules = given.rules
      /\ n \in Nat \ {0} /\ stack[n].rule \in Ids(given) /\ stack[n].next \in Nat
  BY SMTT(30), Frames DEF Inv, TypeOK, Untouched
<1>2. rule \in RuleType /\ Children(rule) \subseteq Ids(given)
  BY <1>1, GivenGrammar
<1>3. stack[n].rule \notin Numbered
  BY <1>1 DEF Inv, StackIsPath
<1>4. ASSUME NEW c \in Children(rule) PROVE c \in Numbered
  <2>1. PICK idx \in 0 .. (Size(rule) - 1) :
          IsNonTerminal(At(rule, idx)) /\ RuleId(At(rule, idx)) = c
    BY <1>2, ChildAt
  <2>2. CASE idx < stack[n].next
    <3>1. idx \in 0 .. (stack[n].next - 1) /\ n \in 1 .. Len(stack)
      BY <1>1, <2>1, <2>2
    <3>2. RuleId(At(rule, idx)) \in Numbered \/ n < Len(stack)
      BY <2>1, <3>1 DEF Inv, Passed
    <3> QED BY <1>1, <2>1, <3>2
  <2>3. CASE idx >= stack[n].next
    <3>1. ~IsPending(At(rule, idx))
      BY <1>1, <2>1, <2>3 DEF Pending, Top
    <3> QED BY <1>2, <2>1, <3>1 DEF IsPending, Numbered
  <2> QED BY <1>1, <2>1, <2>2, <2>3
<1> QED BY <1>1, <1>3, <1>4 DEF Top

LEMMA NumberRuleInv == Inv /\ NumberRule => Inv'
<1> SUFFICES ASSUME Inv, NumberRule PROVE Inv'
  OBVIOUS
<1> DEFINE n == Len(stack)
           top == stack[n].rule
<1>1. /\ given \in Inputs /\ given' = given /\ pc = "search" /\ pc' = "search"
      /\ count \in Nat /\ count' = count + 1
      /\ renumbering \in [Ids(given) -> Nat \cup {Invalid}]
      /\ renumbering' = [renumbering EXCEPT ![top] = count]
  BY DEF Inv, NumberRule, TypeOK, Top
<1>2. /\ n \in Nat \ {0}
      /\ \A k \in 1 .. n : stack[k].rule \in Ids(given) /\ stack[k].next \in Nat
      /\ stack \in Seq([rule : Ids(given), next : Nat])
  BY Frames DEF Inv, NumberRule, TypeOK
<1>3. /\ top \in Ids(given) /\ top \notin Numbered
      /\ \A c \in Children(given.rules[top]) : c \in Numbered
  BY TopReady DEF NumberRule, Top
<1>4. /\ Len(stack') = n - 1
      /\ \A k \in 1 .. (n - 1) : stack'[k] = stack[k]
      /\ stack' \in Seq([rule : Ids(given), next : Nat])
      /\ stack' = << >> => n = 1
  <2> DEFINE S == [rule : Ids(given), next : Nat]
  <2>1. stack' = SubSeq(stack, 1, n - 1)
    BY DEF NumberRule, Front
  <2>2. \A k \in 1 .. (n - 1) : stack[k] \in S
    BY <1>2, Frames DEF Inv
  <2>3. 1 \in Int /\ n - 1 \in Int
    BY <1>2
  <2> HIDE DEF S
  <2>4. /\ stack' \in Seq(S)
        /\ Len(stack') = IF 1 <= n - 1 THEN n - 1 - 1 + 1 ELSE 0
        /\ \A k \in 1 .. (n - 1 - 1 + 1) : stack'[k] = stack[1 + k - 1]
    BY <2>1, <2>2, <2>3, SubSeqProperties
  <2>5. Len(stack') = n - 1
    <3>1. n \in Nat \ {0} /\ Len(stack') = IF 1 <= n - 1 THEN n - 1 - 1 + 1 ELSE 0
      BY <1>2, <2>4
    <3> HIDE DEF n
    <3> QED BY <3>1
  <2>6. \A k \in 1 .. (n - 1) : stack'[k] = stack[k]
    BY <1>2, <2>4
  <2>7. stack' = << >> => n = 1
    BY <1>2, <2>5, EmptySeq
  <2> QED BY <2>4, <2>5, <2>6, <2>7 DEF S
<1>5. /\ Numbered' = Numbered \cup {top}
      /\ \A r \in Numbered : renumbering'[r] = renumbering[r] /\ renumbering[r] \in Nat
      /\ renumbering'[top] = count
      /\ Numbered \subseteq Ids(given)
  BY <1>1, <1>3 DEF Numbered, Invalid
<1>6. Issued = count /\ Issued' = count + 1 /\ Rank' = Rank
  BY <1>1 DEF Issued, Rank
<1>7. TypeOK'
  <2>0. count' \in Nat
    BY <1>1
  <2>1. renumbering' \in [Ids(given) -> Nat \cup {Invalid}]
    <3>1. count \in Nat \cup {Invalid}
      BY <1>1
    <3> QED BY <1>1, <1>3, <3>1
  <2> QED BY <1>1, <1>4, <2>0, <2>1 DEF Inv, NumberRule, TypeOK
<1>8. Untouched' /\ Moved'
  BY <1>1 DEF Inv, NumberRule, Untouched, Moved
<1>9. DenseNumbers'
  <2>1. \A r \in Numbered : renumbering[r] \in 0 .. (count - 1)
    BY <1>6 DEF Inv, DenseNumbers
  <2>2. \A r, q \in Numbered' : renumbering'[r] = renumbering'[q] => r = q
    BY <1>1, <1>5, <2>1 DEF Inv, DenseNumbers
  <2>3. {renumbering'[r] : r \in Numbered'} = {renumbering[r] : r \in Numbered} \cup {count}
    BY <1>5
  <2>4. {renumbering'[r] : r \in Numbered'} = 0 .. (Issued' - 1)
    <3>1. {renumbering[r] : r \in Numbered} = 0 .. (count - 1)
      BY <1>6 DEF Inv, DenseNumbers
    <3>2. (0 .. (count - 1)) \cup {count} = 0 .. count
      BY <1>1
    <3>3. Issued' - 1 = count
      BY <1>1, <1>6
    <3> QED BY <2>3, <3>1, <3>2, <3>3
  <2> QED BY <2>2, <2>4 DEF DenseNumbers
<1>10. PostOrder'
  <2>1. \A r \in Numbered : renumbering[r] < count
    <3>1. \A r \in Numbered : renumbering[r] \in 0 .. (count - 1)
      BY <1>6 DEF Inv, DenseNumbers
    <3> QED BY <1>1, <3>1
  <2> SUFFICES ASSUME NEW r \in Numbered', NEW c \in Children(given.rules[r])
               PROVE  c \in Numbered' /\ renumbering'[c] < renumbering'[r]
    BY <1>1 DEF PostOrder
  <2>2. CASE r = top
    BY <1>3, <1>5, <2>1, <2>2
  <2>3. CASE r \in Numbered
    BY <1>5, <2>3 DEF Inv, PostOrder
  <2> QED BY <1>5, <2>2, <2>3
<1>11. Counted'
  <2>1. IsFiniteSet(Numbered)
    <3>1. IsFiniteSet(Ids(given))
      <4>1. given.count \in Nat
        BY <1>1, GivenGrammar
      <4> QED BY <4>1, FS_Interval DEF Ids
    <3> QED BY <1>5, <3>1, FS_Subset
  <2>2. Cardinality(Numbered') = Cardinality(Numbered) + 1
    BY <1>3, <1>5, <2>1, FS_AddElement
  <2> QED BY <1>6, <2>2 DEF Inv, Counted
<1>12. RanksFall'
  <2>1. \A j, k \in 1 .. (n - 1) : j < k => Rank[stack[k].rule] < Rank[stack[j].rule]
    BY <1>2 DEF Inv, RanksFall
  <2> SUFFICES ASSUME NEW j \in 1 .. (n - 1), NEW k \in 1 .. (n - 1), j < k
               PROVE  Rank[stack'[k].rule] < Rank[stack'[j].rule]
    BY <1>4, <1>6 DEF RanksFall
  <2>2. stack'[j] = stack[j] /\ stack'[k] = stack[k]
    BY <1>4
  <2> QED BY <2>1, <2>2
<1>13. StackIsPath'
  <2>0. /\ \A k \in 1 .. n : stack[k].rule \notin Numbered
        /\ \A j, k \in 1 .. n : stack[j].rule = stack[k].rule => j = k
    BY <1>1 DEF Inv, StackIsPath
  <2>1. \A k \in 1 .. (n - 1) : stack[k].rule \notin Numbered /\ stack[k].rule # top
    <3> SUFFICES ASSUME NEW k \in 1 .. (n - 1) PROVE stack[k].rule \notin Numbered /\ stack[k].rule # top
      OBVIOUS
    <3>1. k \in 1 .. n /\ n \in 1 .. n /\ k # n
      BY <1>2
    <3> QED BY <2>0, <3>1
  <2>2. \A k \in 1 .. (n - 1) : stack'[k].rule \notin Numbered'
    BY <1>4, <1>5, <2>1
  <2>3. \A k \in 1 .. (n - 2) :
          /\ stack[k].next \in 1 .. Size(given.rules[stack[k].rule])
          /\ At(given.rules[stack[k].rule], stack[k].next - 1) = NonTerminal(stack[k + 1].rule)
    <3>1. \A k \in 1 .. (n - 1) :
            /\ stack[k].next \in 1 .. Size(given.rules[stack[k].rule])
            /\ At(given.rules[stack[k].rule], stack[k].next - 1) = NonTerminal(stack[k + 1].rule)
      BY <1>1 DEF Inv, StackIsPath
    <3>2. \A k \in 1 .. (n - 2) : k \in 1 .. (n - 1)
      BY <1>2
    <3> HIDE DEF n
    <3> QED BY <3>1, <3>2
  <2>4. \A k \in 1 .. (n - 2) : k \in 1 .. (n - 1) /\ k + 1 \in 1 .. (n - 1)
    BY <1>2
  <2>5. \A j, k \in 1 .. (n - 1) : stack[j].rule = stack[k].rule => j = k
    BY <1>1, <1>2 DEF Inv, StackIsPath
  <2>6. \A k \in 1 .. (n - 2) :
          /\ stack'[k].next \in 1 .. Size(given.rules[stack'[k].rule])
          /\ At(given.rules[stack'[k].rule], stack'[k].next - 1) = NonTerminal(stack'[k + 1].rule)
    BY <1>4, <2>3, <2>4
  <2>7. \A j, k \in 1 .. (n - 1) : stack'[j].rule = stack'[k].rule => j = k
    BY <1>4, <2>5
  <2>8. Len(stack') - 1 = n - 2
    BY <1>2, <1>4
  <2> QED BY <1>1, <1>4, <2>2, <2>6, <2>7, <2>8 DEF StackIsPath
<1>14. Passed'
  <2> SUFFICES ASSUME NEW k \in 1 .. (n - 1), NEW idx \in 0 .. (stack[k].next - 1)
               PROVE  LET s == At(given.rules[stack[k].rule], idx)
                      IN  /\ idx < Size(given.rules[stack[k].rule])
                          /\ IsNonTerminal(s) =>
                               \/ RuleId(s) \in Numbered'
                               \/ k < n - 1 /\ idx = stack[k].next - 1
    BY <1>1, <1>4 DEF Passed
  <2> DEFINE s == At(given.rules[stack[k].rule], idx)
  <2>1. k \in 1 .. n /\ k < n
    BY <1>2
  <2>2. /\ idx < Size(given.rules[stack[k].rule])
        /\ IsNonTerminal(s) => RuleId(s) \in Numbered \/ idx = stack[k].next - 1
    BY <2>1 DEF Inv, Passed
  <2>3. CASE k = n - 1 /\ idx = stack[k].next - 1
    <3>1. s = NonTerminal(stack[k + 1].rule) /\ k + 1 = n
      BY <1>1, <1>2, <2>3 DEF Inv, StackIsPath
    <3>2. RuleId(s) = top
      BY <1>1, <1>3, <3>1, GivenGrammar, RuleOffsetAssumption DEF RuleId, NonTerminal, Ids
    <3> QED BY <1>5, <2>2, <3>2
  <2> QED BY <1>2, <1>5, <2>1, <2>2, <2>3
<1>15. StartLast'
  <2>1. given.count # 0 /\ stack[1].rule = given.start
    BY <1>1, <1>2 DEF Inv, NumberRule, StartLast
  <2>2. stack' # << >> => n # 1
    BY <1>2, <1>4
  <2> QED BY <1>1, <1>2, <1>4, <1>5, <1>6, <2>1, <2>2 DEF StartLast
<1> QED
  BY <1>7, <1>8, <1>9, <1>10, <1>11, <1>12, <1>13, <1>14, <1>15 DEF Inv

LEMMA BeginRewriteInv == Inv /\ BeginRewrite => Inv'
<1> SUFFICES ASSUME Inv, BeginRewrite PROVE Inv'
  OBVIOUS
<1>1. given \in Inputs /\ given' = given /\ given.count # 0 /\ count \in Nat
  BY DEF Inv, BeginRewrite, TypeOK, StartLast
<1>2. given.start \in Numbered /\ renumbering[given.start] = count - 1
  BY <1>1 DEF Inv, BeginRewrite, StartLast, Issued
<1>3. count - 1 \in Nat
  <2>1. renumbering[given.start] \in 0 .. (count - 1)
    BY <1>2 DEF Inv, BeginRewrite, DenseNumbers, Issued
  <2> QED BY <1>2, <2>1
<1>4. Numbered' = Numbered /\ Issued = count /\ Issued' = count /\ Rank' = Rank
  BY <1>1 DEF BeginRewrite, Numbered, Issued, Rank
<1>5. TypeOK'
  BY <1>3 DEF Inv, BeginRewrite, TypeOK
<1>6. /\ Untouched' /\ Passed' /\ StackIsPath' /\ RanksFall'
      /\ PostOrder' /\ DenseNumbers' /\ Counted'
  BY <1>4 DEF Inv, BeginRewrite, Untouched, Passed, StackIsPath, RanksFall,
              PostOrder, DenseNumbers, Counted
<1>7. StartLast'
  BY <1>1, <1>2, <1>4 DEF Inv, BeginRewrite, StartLast
<1>8. Moved'
  BY DEF Inv, BeginRewrite, Untouched, Moved, Ids
<1> QED BY <1>5, <1>6, <1>7, <1>8 DEF Inv

(* Numbers that have been given out are rule ids: there are as many rules  *)
(* with a number as numbers, so at most as many numbers as rules.          *)
LEMMA NumbersAreIds ==
  ASSUME Inv
  PROVE  /\ Issued <= given.count
         /\ \A r \in Numbered : renumbering[r] \in Ids(given)
         /\ Numbered = Ids(given) => Issued = given.count
<1>1. given \in Inputs /\ given.count \in Nat /\ count \in Nat
  BY GivenGrammar DEF Inv, TypeOK
<1>2. IsFiniteSet(Ids(given)) /\ Cardinality(Ids(given)) = given.count
  <2>1. 0 \in Int /\ given.count - 1 \in Int
    BY <1>1
  <2>2. /\ IsFiniteSet(0 .. (given.count - 1))
        /\ Cardinality(0 .. (given.count - 1)) =
             IF 0 > given.count - 1 THEN 0 ELSE given.count - 1 - 0 + 1
    BY <2>1, FS_Interval
  <2> QED BY <1>1, <2>2 DEF Ids
<1>3. Numbered \subseteq Ids(given)
  BY DEF Numbered
<1>4. Issued <= given.count /\ (Numbered = Ids(given) => Issued = given.count)
  BY <1>2, <1>3, FS_Subset DEF Inv, Counted
<1>5. \A r \in Numbered : renumbering[r] \in 0 .. (Issued - 1)
  BY DEF Inv, DenseNumbers
<1>6. Issued \in Nat
  BY <1>1 DEF Issued
<1> QED BY <1>1, <1>4, <1>5, <1>6 DEF Ids

(* A rewritten rule is a rule. *)
LEMMA RenumberedType ==
  ASSUME TypeOK, NEW rule \in RuleType, Children(rule) \subseteq Numbered
  PROVE  Renumbered(rule) \in RuleType
<1>1. ASSUME NEW i \in 1 .. Size(rule), ~IsTerminal(rule.symbols[i])
      PROVE  Packed(rule.width, NonTerminal(renumbering[RuleId(rule.symbols[i])])) \in Nat
  <2>1. RuleId(rule.symbols[i]) \in Children(rule)
    BY <1>1 DEF RuleType, Size, Children, NonTerminalsOf, IsNonTerminal, ToSet
  <2>2. renumbering[RuleId(rule.symbols[i])] \in Nat
    BY <2>1 DEF Numbered, TypeOK
  <2>3. NonTerminal(renumbering[RuleId(rule.symbols[i])]) \in Nat
    BY <2>2, RuleOffsetAssumption DEF NonTerminal
  <2>4. 2^rule.width \in Nat \ {0}
    BY WidthAssumption DEF RuleType
  <2> HIDE DEF NonTerminal
  <2> QED BY <2>3, <2>4 DEF Packed
<1>2. Size(rule) \in Nat /\ \A i \in 1 .. Size(rule) : rule.symbols[i] \in Nat
  BY DEF RuleType, Size
<1> DEFINE new == [i \in 1 .. Size(rule) |->
                     IF IsTerminal(rule.symbols[i]) THEN rule.symbols[i]
                     ELSE Packed(rule.width, NonTerminal(renumbering[RuleId(rule.symbols[i])]))]
<1>3. new \in Seq(Nat)
  <2>1. new \in [1 .. Size(rule) -> Nat]
    BY <1>1, <1>2
  <2> HIDE DEF new
  <2> QED BY <1>2, <2>1, SeqDef
<1>4. Renumbered(rule) = [rule EXCEPT !.symbols = new]
  BY DEF Renumbered
<1> HIDE DEF new
<1> QED BY <1>3, <1>4 DEF RuleType

LEMMA RewriteRuleInv == Inv /\ RewriteRule => Inv'
<1> SUFFICES ASSUME Inv, RewriteRule PROVE Inv'
  OBVIOUS
<1>1. /\ given \in Inputs /\ given' = given /\ given.count \in Nat
      /\ pc = "rewrite" /\ pc' = "rewrite"
      /\ oldId \in Ids(given) /\ oldId' = oldId + 1 /\ oldId \in Nat
      /\ renumbering' = renumbering /\ oldId \in Numbered
      /\ rules \in [Ids(given) -> RuleType] /\ newRules \in [Ids(given) -> RuleType]
  BY GivenGrammar DEF Inv, RewriteRule, TypeOK, Ids, Numbered
<1>2. Numbered' = Numbered /\ Issued' = Issued /\ Rank' = Rank
  BY DEF RewriteRule, Numbered, Issued, Rank
<1>3. renumbering[oldId] \in Ids(given)
  BY <1>1, NumbersAreIds
<1>4. rules[oldId] = given.rules[oldId]
  BY <1>1 DEF Inv, Moved
<1>5. Renumbered(rules[oldId]) \in RuleType
  <2>1. Children(rules[oldId]) \subseteq Numbered
    BY <1>1, <1>4 DEF Inv, PostOrder
  <2> QED BY <1>1, <2>1, RenumberedType DEF Inv
<1>6. TypeOK'
  <2>1. rules' \in [Ids(given) -> RuleType]
    <3>1. EmptyRule \in RuleType
      BY WidthAssumption DEF EmptyRule, RuleType
    <3> QED BY <1>1, <3>1 DEF RewriteRule
  <2>2. newRules' \in [Ids(given) -> RuleType]
    BY <1>1, <1>5 DEF RewriteRule
  <2>3. oldId' \in 0 .. given.count
    BY <1>1 DEF Ids
  <2> QED BY <2>1, <2>2, <2>3 DEF Inv, RewriteRule, TypeOK
<1>7. /\ Untouched' /\ Passed' /\ StackIsPath' /\ RanksFall'
      /\ PostOrder' /\ DenseNumbers' /\ Counted' /\ StartLast'
  BY <1>2 DEF Inv, RewriteRule, Untouched, Passed, StackIsPath, RanksFall,
              PostOrder, DenseNumbers, Counted, StartLast
<1>8. Moved'
  <2>1. \A r \in Ids(given) : r >= oldId' => rules'[r] = given.rules[r]
    BY <1>1 DEF Inv, RewriteRule, Moved, Ids
  <2>2. ASSUME NEW r \in Ids(given), r < oldId'
        PROVE  r \in Numbered /\ newRules'[renumbering[r]] = Renumbered(given.rules[r])
    <3>1. CASE r = oldId
      BY <1>1, <1>3, <1>4, <3>1 DEF RewriteRule
    <3>2. CASE r < oldId
      <4>1. r \in Numbered /\ newRules[renumbering[r]] = Renumbered(given.rules[r])
        BY <1>1, <3>2 DEF Inv, Moved
      <4>2. renumbering[r] # renumbering[oldId]
        BY <1>1, <3>2, <4>1 DEF Inv, DenseNumbers, Ids
      <4> QED BY <1>1, <1>3, <4>1, <4>2, NumbersAreIds DEF RewriteRule
    <3> QED BY <1>1, <2>2, <3>1, <3>2 DEF Ids
  <2>3. ASSUME NEW i \in Ids(given)
        PROVE  \/ newRules'[i] = EmptyRule
               \/ \E r \in Ids(given) : r < oldId' /\ renumbering[r] = i
    <3>1. CASE i = renumbering[oldId]
      BY <1>1, <3>1
    <3>2. CASE i # renumbering[oldId]
      <4>1. newRules'[i] = newRules[i]
        BY <1>1, <3>2 DEF RewriteRule
      <4>2. \/ newRules[i] = EmptyRule
            \/ \E r \in Ids(given) : r < oldId /\ renumbering[r] = i
        BY <1>1 DEF Inv, Moved
      <4> QED BY <1>1, <4>1, <4>2 DEF Ids
    <3> QED BY <3>1, <3>2
  <2>4. \A r \in Ids(given) : Renumbered(given.rules[r])' = Renumbered(given.rules[r])
    BY <1>1 DEF Renumbered
  <2> QED BY <1>1, <1>2, <2>1, <2>2, <2>3, <2>4 DEF Moved
<1> QED BY <1>6, <1>7, <1>8 DEF Inv

LEMMA WildMoveInv == Inv /\ WildMove => Inv'
<1> SUFFICES ASSUME Inv, WildMove PROVE Inv'
  OBVIOUS
<1>1. Numbered' = Numbered /\ Issued' = Issued /\ Rank' = Rank
  BY DEF WildMove, Numbered, Issued, Rank
<1>2. TypeOK'
  BY DEF Inv, WildMove, TypeOK
<1>3. /\ Untouched' /\ Passed' /\ StackIsPath' /\ RanksFall'
      /\ PostOrder' /\ DenseNumbers' /\ Counted' /\ StartLast'
  BY <1>1 DEF Inv, WildMove, Untouched, Passed, StackIsPath, RanksFall,
              PostOrder, DenseNumbers, Counted, StartLast
<1>4. Moved'
  <2>1. oldId \in Ids(given) \ Numbered
    BY GivenGrammar DEF Inv, WildMove, TypeOK, Ids, Numbered
  <2>2. \A r \in Ids(given) : Renumbered(given.rules[r])' = Renumbered(given.rules[r])
    BY DEF WildMove, Renumbered
  <2> QED BY <1>1, <2>1, <2>2 DEF Inv, WildMove, Moved
<1> QED BY <1>2, <1>3, <1>4 DEF Inv

LEMMA PublishInv == Inv /\ Publish => Inv'
<1> SUFFICES ASSUME Inv, Publish PROVE Inv'
  OBVIOUS
<1>1. Numbered' = Numbered /\ Issued' = Issued /\ Rank' = Rank
  BY DEF Publish, Numbered, Issued, Rank
<1>2. TypeOK'
  BY DEF Inv, Publish, TypeOK
<1>3. /\ Untouched' /\ Passed' /\ StackIsPath' /\ RanksFall'
      /\ PostOrder' /\ DenseNumbers' /\ Counted' /\ StartLast'
  BY <1>1 DEF Inv, Publish, Untouched, Passed, StackIsPath, RanksFall,
              PostOrder, DenseNumbers, Counted, StartLast
<1>4. Moved'
  BY <1>1 DEF Inv, Publish, Moved, Renumbered
<1> QED BY <1>2, <1>3, <1>4 DEF Inv

(* Without a cycle the rules on the stack and the one to be pushed differ, *)
(* so there are never as many frames as can be allocated.                  *)
LEMMA NoExhaustion == Inv => ~StackExhausted
<1> SUFFICES ASSUME Inv, StackExhausted PROVE FALSE
  OBVIOUS
<1> DEFINE n == Len(stack)
           rule == given.rules[stack[n].rule]
<1>1. /\ given \in Inputs /\ rules = given.rules /\ pc = "search"
      /\ n \in Nat \ {0} /\ n >= StackLimit
      /\ \A k \in 1 .. n : stack[k].rule \in Ids(given) /\ stack[k].next \in Nat
  BY Frames DEF Inv, TypeOK, Untouched, StackExhausted
<1>2. given.count \in Nat /\ StackLimit \in Nat /\ given.count <= StackLimit
  BY <1>1, GivenGrammar, StackAssumption
<1>3. PICK child \in Ids(given) : Rank[child] < Rank[stack[n].rule]
  <2>1. PICK idx \in Pending(Top) : TRUE
    BY DEF StackExhausted
  <2>2. rule \in RuleType /\ stack[n].rule \in Ids(given)
    BY <1>1, GivenGrammar
  <2>3. idx \in 0 .. (Size(rule) - 1) /\ IsNonTerminal(At(rule, idx))
    BY <1>1, <2>1 DEF Pending, Top, IsPending
  <2>4. RuleId(At(rule, idx)) \in Children(rule)
    <3>1. rule.symbols \in Seq(Nat)
      BY <2>2 DEF RuleType
    <3>2. At(rule, idx) \in ToSet(rule.symbols)
      BY <2>3, <3>1 DEF At, Size, ToSet
    <3> QED BY <2>3, <3>2 DEF Children, NonTerminalsOf
  <2> QED BY <1>1, <2>2, <2>4, GivenGrammar DEF IsRank
<1> DEFINE pushed == [k \in 0 .. n |-> IF k = 0 THEN child ELSE stack[k].rule]
<1>4. pushed \in [0 .. n -> Ids(given)]
  BY <1>1, <1>3
<1>5. /\ IsFiniteSet(0 .. n) /\ Cardinality(0 .. n) = n + 1
      /\ IsFiniteSet(Ids(given)) /\ Cardinality(Ids(given)) < n + 1
  <2> HIDE DEF n
  <2>1. n \in Nat /\ given.count \in Nat /\ given.count <= n
    BY <1>1, <1>2
  <2>2. IsFiniteSet(0 .. n) /\ Cardinality(0 .. n) = n + 1
    BY <2>1, FS_Interval
  <2> DEFINE last == given.count - 1
  <2>3. last \in Int /\ last + 1 = given.count /\ (0 > last => given.count = 0)
    BY <2>1
  <2>4. IsFiniteSet(0 .. last) /\ Cardinality(0 .. last) = given.count
    <3> HIDE DEF last
    <3>1. /\ IsFiniteSet(0 .. last)
          /\ Cardinality(0 .. last) = IF 0 > last THEN 0 ELSE last - 0 + 1
      BY <2>3, FS_Interval
    <3> QED BY <2>1, <2>3, <3>1
  <2> QED BY <2>1, <2>2, <2>4 DEF Ids
<1>6. PICK j \in 0 .. n, k \in 0 .. n : j # k /\ pushed[j] = pushed[k]
  <2> DEFINE S == 0 .. n
             T == Ids(given)
             f == pushed
  <2>1. IsFiniteSet(S) /\ IsFiniteSet(T) /\ Cardinality(T) < Cardinality(S) /\ f \in [S -> T]
    BY <1>1, <1>4, <1>5
  <2>2. \E j, k \in S : j # k /\ f[j] = f[k]
    <3> HIDE DEF S, T, f
    <3> QED BY <2>1, FS_PigeonHole
  <2> QED BY <2>2
<1>7. ASSUME NEW i \in 1 .. n PROVE stack[i].rule # child
  <2>1. Rank[stack[n].rule] \in Int /\ Rank[stack[i].rule] \in Int /\ Rank[child] \in Int
    <3>1. /\ Rank \in [Ids(given) -> Ids(given)]
          /\ stack[n].rule \in Ids(given) /\ stack[i].rule \in Ids(given)
      BY <1>1, GivenGrammar
    <3>2. Ids(given) \subseteq Int
      BY <1>2 DEF Ids
    <3> HIDE DEF n
    <3> QED BY <3>1, <3>2
  <2>2. i = n \/ Rank[stack[n].rule] < Rank[stack[i].rule]
    BY <1>1 DEF Inv, RanksFall
  <2> QED BY <1>3, <2>1, <2>2
<1>8. \A i, l \in 1 .. n : stack[i].rule = stack[l].rule => i = l
  BY <1>1 DEF Inv, StackIsPath
<1> QED BY <1>1, <1>6, <1>7, <1>8

LEMMA StepInv == Inv /\ [Next]_vars => Inv'
<1> SUFFICES ASSUME Inv, [Next]_vars PROVE Inv'
  OBVIOUS
<1>1. CASE UNCHANGED vars
  <2>1. Numbered' = Numbered /\ Issued' = Issued /\ Rank' = Rank
    BY <1>1 DEF vars, Numbered, Issued, Rank
  <2>2. \A r \in Ids(given) : Renumbered(given.rules[r])' = Renumbered(given.rules[r])
    BY <1>1 DEF vars, Renumbered
  <2>3. /\ TypeOK' /\ Untouched' /\ Passed' /\ StackIsPath' /\ RanksFall'
        /\ PostOrder' /\ DenseNumbers' /\ Counted' /\ StartLast'
    BY <1>1, <2>1 DEF vars, Inv, TypeOK, Untouched, Passed, StackIsPath, RanksFall,
                      PostOrder, DenseNumbers, Counted, StartLast
  <2>4. Moved'
    BY <1>1, <2>1, <2>2 DEF vars, Inv, Moved
  <2> QED BY <2>3, <2>4 DEF Inv
<1>2. CASE Step
  BY <1>2, EnterEmptyInv, EnterInv, DescendInv, NumberRuleInv, BeginRewriteInv,
     RewriteRuleInv, WildMoveInv, PublishInv, NoExhaustion DEF Step
<1> QED BY <1>1, <1>2 DEF Next, Terminated

-----------------------------------------------------------------------------
(* Theorems *)

(* The invariant holds in every state of every execution. *)
THEOREM Invariance == Spec => []Inv
<1>1. Init => Inv
  BY InitInv
<1>2. Inv /\ [Next]_vars => Inv'
  BY StepInv
<1> QED BY <1>1, <1>2, PTL DEF Spec

(* Type correctness: the search indexes m_rules and renumbering with rule  *)
(* ids only.                                                               *)
THEOREM TypeCorrectness == Spec => []TypeOK
<1>1. Inv => TypeOK
  BY DEF Inv
<1> QED BY <1>1, Invariance, PTL

(* The stack of renumber_internal never outgrows a memory that holds one   *)
(* frame for each rule.                                                    *)
THEOREM NeverExhaustedCorrectness == Spec => []NeverExhausted
<1>1. Init => NeverExhausted
  BY DEF Init, NeverExhausted
<1>2. Inv /\ NeverExhausted /\ [Next]_vars => NeverExhausted'
  BY NoExhaustion DEF NeverExhausted, Next, Step, EnterEmpty, Enter, Descend, NumberRule, BeginRewrite,
     RewriteRule, WildMove, Publish, Terminated, vars
<1> QED BY <1>1, <1>2, Invariance, PTL DEF Spec

(* Rules are numbered after the rules they depend on, with smaller         *)
(* dependencies.                                                           *)
THEOREM PostOrderCorrectness == Spec => [](PostOrder /\ DenseNumbers /\ StackIsPath)
<1>1. Inv => PostOrder /\ DenseNumbers /\ StackIsPath
  BY DEF Inv
<1> QED BY <1>1, Invariance, PTL

(* The rules with numbers are a closed set: once the start rule has one,   *)
(* every rule it reaches has.                                              *)
LEMMA ClosedNumbered ==
  ASSUME Inv, given.start \in Numbered
  PROVE  Reachable(given) \subseteq Numbered
<1>1. Numbered \in SUBSET Ids(given)
  BY DEF Numbered
<1>2. IsClosed(given, Numbered)
  BY <1>1 DEF IsClosed, Inv, PostOrder
<1> QED BY <1>1, <1>2 DEF Reachable

(* The assignment outside new_rules happens only for a grammar with a rule *)
(* out of the start rule's reach: the numbered rules are a closed set that *)
(* holds the start rule.                                                   *)
LEMMA WildMoveOnly == Inv => WildMoveOnlyIfUnreachable
<1> SUFFICES ASSUME Inv, pc = "wild" PROVE Reachable(given) # Ids(given)
  BY DEF WildMoveOnlyIfUnreachable
<1>1. Reachable(given) \subseteq Numbered
  BY ClosedNumbered DEF StartLast, Inv
<1>2. \E r \in Ids(given) : r \notin Numbered
  BY DEF Inv, Moved
<1> QED BY <1>1, <1>2

THEOREM WildMoveSafety == Spec => []WildMoveOnlyIfUnreachable
BY WildMoveOnly, Invariance, PTL

(* A symbol of a rewritten rule that names a rule names one with a smaller *)
(* number, even where the field was too narrow and cut the number short.   *)
LEMMA RenumberedChildren ==
  ASSUME Inv, NEW r \in Numbered, NEW c \in Children(Renumbered(given.rules[r]))
  PROVE  c < renumbering[r]
<1> DEFINE rule == given.rules[r]
           new == [i \in 1 .. Size(rule) |->
                     IF IsTerminal(rule.symbols[i]) THEN rule.symbols[i]
                     ELSE Packed(rule.width, NonTerminal(renumbering[RuleId(rule.symbols[i])]))]
<1>1. given \in Inputs /\ r \in Ids(given) /\ rule \in RuleType
  BY GivenGrammar DEF Inv, TypeOK, Numbered
<1>2. Renumbered(rule).symbols = new
  BY <1>1 DEF Renumbered, RuleType
<1>3. PICK i \in 1 .. Size(rule) : IsNonTerminal(new[i]) /\ c = RuleId(new[i])
  <2>1. DOMAIN new = 1 .. Size(rule)
    OBVIOUS
  <2> HIDE DEF new
  <2> QED BY <1>2, <2>1 DEF Children, NonTerminalsOf, ToSet
<1>4. ~IsTerminal(rule.symbols[i])
  BY <1>3 DEF IsNonTerminal
<1> DEFINE d == RuleId(rule.symbols[i])
<1>5. new[i] = Packed(rule.width, NonTerminal(renumbering[d]))
  BY <1>3, <1>4
<1>6. d \in Children(rule)
  <2> HIDE DEF rule
  <2>1. rule.symbols \in Seq(Nat) /\ i \in 1 .. Len(rule.symbols)
    BY <1>1, <1>3 DEF RuleType, Size
  <2>2. rule.symbols[i] \in ToSet(rule.symbols)
    BY <2>1 DEF ToSet
  <2> QED BY <1>4, <2>2 DEF Children, NonTerminalsOf, IsNonTerminal
<1>7. d \in Numbered /\ renumbering[d] < renumbering[r]
  BY <1>6 DEF Inv, PostOrder
<1>8. renumbering[d] \in Nat /\ renumbering[r] \in Nat
  BY <1>1, <1>7 DEF Inv, TypeOK, Numbered
<1>9. new[i] \in Nat /\ new[i] <= renumbering[d] + RuleOffset
  <2>1. 2^rule.width \in Nat \ {0}
    BY <1>1, WidthAssumption DEF RuleType
  <2>2. renumbering[d] + RuleOffset \in Nat
    BY <1>8, RuleOffsetAssumption
  <2>3. \A v \in Nat, m \in Nat \ {0} : v % m \in Nat /\ v % m <= v
    OBVIOUS
  <2> HIDE DEF d, new, rule
  <2> QED BY <1>5, <2>1, <2>2, <2>3 DEF Packed, NonTerminal
<1>10. c <= renumbering[d] /\ c \in Int
  <2> HIDE DEF d, new
  <2> QED BY <1>3, <1>8, <1>9, RuleOffsetAssumption DEF RuleId
<1> QED BY <1>7, <1>8, <1>10

(* The rules are in the order calculate_full_lengths relies on. *)
LEMMA DependencyOrderedDone == Inv => DependencyOrdered
<1> SUFFICES ASSUME Inv, pc = "done"
             PROVE  /\ \A i \in Ids(given) : \A c \in Children(rules[i]) : c < i
                    /\ given.count # 0 => startRule = given.count - 1
  BY DEF DependencyOrdered
<1>1. CASE given.count = 0
  BY <1>1 DEF Ids
<1>2. CASE given.count # 0
  <2>1. /\ rules = newRules /\ startRule = count /\ oldId = given.count
        /\ \A r \in Ids(given) : r < oldId => r \in Numbered
                                   /\ newRules[renumbering[r]] = Renumbered(given.rules[r])
    BY <1>2 DEF Inv, Moved
  <2>2. given \in Inputs /\ given.count \in Nat /\ count \in Nat
    BY GivenGrammar DEF Inv, TypeOK
  <2>3. ASSUME NEW i \in Ids(given), NEW c \in Children(rules[i]) PROVE c < i
    <3>1. CASE newRules[i] = EmptyRule
      BY <2>1, <2>3, <3>1 DEF EmptyRule, Children, NonTerminalsOf, ToSet
    <3>2. CASE \E r \in Ids(given) : r < oldId /\ renumbering[r] = i
      <4>1. PICK r \in Ids(given) : r < oldId /\ renumbering[r] = i
        BY <3>2
      <4> QED BY <2>1, <2>3, <4>1, RenumberedChildren
    <3> QED BY <3>1, <3>2 DEF Inv, Moved
  <2>4. Numbered = Ids(given)
    BY <2>1, <2>2 DEF Numbered, Ids
  <2>5. Issued = given.count /\ Issued = count + 1
    BY <1>2, <2>4, NumbersAreIds DEF Issued
  <2> QED BY <2>1, <2>2, <2>3, <2>5
<1> QED BY <1>1, <1>2

(* "Renumbers the rules in the grammar in such a way that rules with index *)
(* i only depend on rules with indices lesser than i", and the start rule  *)
(* comes last: for every grammar without a cycle.                          *)
THEOREM DependencyOrder == Spec => []DependencyOrdered
BY DependencyOrderedDone, Invariance, PTL

(* No rule is numbered twice. *)
THEOREM NumberedOnceCorrectness == Spec => NumberedOnce
<1>1. Inv /\ [Next]_vars =>
        [\A r \in Ids(given) : renumbering[r] # Invalid => renumbering'[r] = renumbering[r]]_vars
  <2> SUFFICES ASSUME Inv, Next, NEW r \in Ids(given), renumbering[r] # Invalid
               PROVE  renumbering'[r] = renumbering[r]
    OBVIOUS
  <2>1. CASE NumberRule
    <3>1. r \in Numbered
      BY DEF Numbered
    <3>2. Top.rule \notin Numbered
      BY <2>1, TopReady DEF NumberRule
    <3>3. renumbering \in [Ids(given) -> Nat \cup {Invalid}]
      BY DEF Inv, TypeOK
    <3> QED BY <2>1, <3>1, <3>2, <3>3 DEF NumberRule
  <2>2. CASE ~NumberRule
    BY <2>2 DEF Next, Step, EnterEmpty, Enter, Descend, StackExhausted, BeginRewrite,
                RewriteRule, WildMove, Publish, Terminated, vars
  <2> QED BY <2>1, <2>2
<1> QED BY <1>1, Invariance, PTL DEF Spec, NumberedOnce

-----------------------------------------------------------------------------
(* The strings of rules.  Expansions is defined by recursion: that there   *)
(* is such a function is shown rank by rank, of the least rank it could    *)
(* fail for.                                                               *)

(* What the symbols of a rule contribute to its string, if f are the       *)
(* strings of the rules.                                                   *)
Pieces(g, f, r) ==
  [i \in 1 .. Size(g.rules[r]) |->
     LET s == g.rules[r].symbols[i] IN IF IsTerminal(s) THEN << s >> ELSE f[RuleId(s)]]

IsExpansion(g, f) == f = [r \in Ids(g) |-> FlattenSeq(Pieces(g, f, r))]

(* Symbols of a rule that are not characters name rules of lesser rank.    *)
LEMMA SymbolFalls ==
  ASSUME NEW g, IsGrammar(g), NEW rank \in [Ids(g) -> Ids(g)], IsRank(g, rank),
         NEW r \in Ids(g), NEW i \in 1 .. Size(g.rules[r])
  PROVE  LET s == g.rules[r].symbols[i]
         IN  /\ s \in Nat
             /\ IsNonTerminal(s) => /\ RuleId(s) \in Children(g.rules[r]) /\ RuleId(s) \in Ids(g)
                                    /\ rank[RuleId(s)] < rank[r]
<1>1. g.rules[r] \in RuleType /\ Children(g.rules[r]) \subseteq Ids(g) /\ Size(g.rules[r]) \in Nat
  BY DEF IsGrammar, IsRuleSet, RuleType, Size
<1>2. i - 1 \in 0 .. (Size(g.rules[r]) - 1) /\ At(g.rules[r], i - 1) = g.rules[r].symbols[i]
  BY <1>1 DEF At
<1>3. /\ g.rules[r].symbols[i] \in Nat
      /\ IsNonTerminal(g.rules[r].symbols[i]) => RuleId(g.rules[r].symbols[i]) \in Children(g.rules[r])
  BY <1>1, <1>2, SymbolAt
<1> QED BY <1>1, <1>3 DEF IsRank

(* The pieces of a rule depend on the strings of its children only. *)
LEMMA PiecesAgree ==
  ASSUME NEW g, IsGrammar(g), NEW r \in Ids(g), NEW f, NEW h,
         \A c \in Children(g.rules[r]) : f[c] = h[c]
  PROVE  Pieces(g, f, r) = Pieces(g, h, r)
<1>1. PICK rank \in [Ids(g) -> Ids(g)] : IsRank(g, rank)
  BY DEF IsGrammar, IsRuleSet
<1>2. ASSUME NEW i \in 1 .. Size(g.rules[r]), IsNonTerminal(g.rules[r].symbols[i])
      PROVE  f[RuleId(g.rules[r].symbols[i])] = h[RuleId(g.rules[r].symbols[i])]
  BY <1>1, <1>2, SymbolFalls
<1> QED BY <1>2 DEF Pieces, IsNonTerminal

LEMMA ExpansionExists ==
  ASSUME NEW g, IsGrammar(g)
  PROVE  \E f : IsExpansion(g, f)
<1>1. PICK rank \in [Ids(g) -> Ids(g)] : IsRank(g, rank)
  BY DEF IsGrammar, IsRuleSet
<1> DEFINE right(f, n) == \A r \in Ids(g) : rank[r] < n => f[r] = FlattenSeq(Pieces(g, f, r))
           none == {n \in Nat : ~ \E f : right(f, n)}
<1>2. none = {}
  <2> SUFFICES ASSUME none # {} PROVE FALSE
    OBVIOUS
  <2>1. PICK n \in none : \A m \in none : n <= m
    <3>1. none \subseteq Nat
      OBVIOUS
    <3> HIDE DEF none
    <3> QED BY <3>1, LeastNatural
  <2>2. n \in Nat /\ ~ \E f : right(f, n)
    BY <2>1
  <2>3. n # 0
    <3>1. \A r \in Ids(g) : ~(rank[r] < 0)
      BY <1>1 DEF Ids
    <3>2. right(rank, 0)
      BY <3>1
    <3> HIDE DEF right
    <3> QED BY <2>2, <3>2
  <2>4. n - 1 \in Nat /\ n - 1 \notin none
    <3>1. n - 1 \in Nat /\ ~(n <= n - 1)
      BY <2>2, <2>3
    <3> HIDE DEF none
    <3> QED BY <2>1, <3>1
  <2>5. PICK h : right(h, n - 1)
    BY <2>4
  <2> DEFINE f == [r \in Ids(g) |-> FlattenSeq(Pieces(g, h, r))]
  <2>6. ASSUME NEW r \in Ids(g), rank[r] < n PROVE f[r] = FlattenSeq(Pieces(g, f, r))
    <3>1. ASSUME NEW c \in Children(g.rules[r]) PROVE f[c] = h[c]
      <4>1. c \in Ids(g) /\ rank[c] < rank[r] /\ rank[c] \in Nat /\ rank[r] \in Nat
        BY SMTT(30), <1>1 DEF IsGrammar, IsRuleSet, IsRank, Ids
      <4>2. rank[c] < n - 1
        BY <2>2, <2>6, <4>1
      <4>3. h[c] = FlattenSeq(Pieces(g, h, c))
        BY <2>5, <4>1, <4>2
      <4> QED BY <4>1, <4>3
    <3> HIDE DEF f
    <3>2. Pieces(g, f, r) = Pieces(g, h, r)
      BY <3>1, PiecesAgree
    <3> QED BY <3>2 DEF f
  <2>7. right(f, n)
    <3> HIDE DEF f
    <3> QED BY <2>6
  <2> HIDE DEF f, right
  <2> QED BY <2>2, <2>7
<1>3. g.count \in Nat /\ \A r \in Ids(g) : rank[r] < g.count
  BY <1>1 DEF IsGrammar, IsRuleSet, Ids
<1>4. PICK h : right(h, g.count)
  BY <1>2, <1>3
<1> DEFINE f == [r \in Ids(g) |-> h[r]]
<1>5. ASSUME NEW r \in Ids(g) PROVE f[r] = FlattenSeq(Pieces(g, f, r))
  <2>1. \A c \in Children(g.rules[r]) : f[c] = h[c]
    BY DEF IsGrammar, IsRuleSet
  <2> HIDE DEF f
  <2>2. Pieces(g, f, r) = Pieces(g, h, r)
    BY <2>1, PiecesAgree
  <2> QED BY <1>3, <1>4, <2>2 DEF f
<1> HIDE DEF right, none
<1>6. f = [r \in Ids(g) |-> f[r]]
  OBVIOUS
<1> HIDE DEF f
<1>7. IsExpansion(g, f)
  BY <1>5, <1>6 DEF IsExpansion
<1> QED BY <1>7

(* So Expansions is what its definition says. *)
LEMMA ExpansionsAre ==
  ASSUME NEW g, IsGrammar(g) PROVE IsExpansion(g, Expansions(g.rules))
<1>1. DOMAIN g.rules = Ids(g)
  BY DEF IsGrammar, IsRuleSet
<1>2. \E f : IsExpansion(g, f)
  BY ExpansionExists
<1> QED BY <1>1, <1>2, Zenon DEF Expansions, IsExpansion, Pieces

(* What follows from the ranks: a property of rules that a rule has when   *)
(* its children have it, all rules have.  The rules without it are given   *)
(* as a set, since a theorem cannot be about a predicate.                  *)
LEMMA NoLeastRule ==
  ASSUME NEW g, IsGrammar(g), NEW bad \in SUBSET Ids(g),
         \A r \in bad : Children(g.rules[r]) \cap bad # {}
  PROVE  bad = {}
<1> SUFFICES ASSUME bad # {} PROVE FALSE
  OBVIOUS
<1>1. PICK rank \in [Ids(g) -> Ids(g)] : IsRank(g, rank)
  BY DEF IsGrammar, IsRuleSet
<1> DEFINE low == {rank[r] : r \in bad}
<1>2. PICK m \in low : \A n \in low : m <= n
  <2>1. \A r \in bad : rank[r] \in Nat
    BY <1>1 DEF Ids
  <2>2. low \subseteq Nat /\ low # {}
    BY <2>1
  <2> HIDE DEF low
  <2> QED BY <2>2, LeastNatural
<1>3. PICK r \in bad : rank[r] = m
  BY <1>2
<1>4. PICK c \in Children(g.rules[r]) : c \in bad
  OBVIOUS
<1>5. rank[c] < rank[r] /\ rank[c] \in Nat /\ rank[r] \in Nat /\ rank[c] \in low
  BY <1>1, <1>4 DEF IsRank, Ids
<1>6. m <= rank[c]
  BY <1>2, <1>5
<1> HIDE DEF low
<1> QED BY <1>3, <1>5, <1>6

LEMMA ExpansionType ==
  ASSUME NEW g, IsGrammar(g), NEW r \in Ids(g)
  PROVE  /\ Expansions(g.rules)[r] \in Seq(Nat)
         /\ Expansions(g.rules)[r] = FlattenSeq(Pieces(g, Expansions(g.rules), r))
<1> DEFINE E == Expansions(g.rules)
           bad == {q \in Ids(g) : E[q] \notin Seq(Nat)}
<1>1. \A q \in Ids(g) : E[q] = FlattenSeq(Pieces(g, E, q))
  <2>1. E = [q \in Ids(g) |-> FlattenSeq(Pieces(g, E, q))]
    BY ExpansionsAre DEF IsExpansion
  <2> HIDE DEF E
  <2> QED BY <2>1, Zenon
<1> HIDE DEF E
<1>2. ASSUME NEW q \in Ids(g), Children(g.rules[q]) \cap bad = {} PROVE Pieces(g, E, q) \in Seq(Seq(Nat))
  <2>1. PICK rank \in [Ids(g) -> Ids(g)] : IsRank(g, rank)
    BY DEF IsGrammar, IsRuleSet
  <2>2. ASSUME NEW i \in 1 .. Size(g.rules[q])
        PROVE  LET s == g.rules[q].symbols[i]
               IN  (IF IsTerminal(s) THEN << s >> ELSE E[RuleId(s)]) \in Seq(Nat)
    BY <1>2, <2>1, SymbolFalls DEF IsNonTerminal
  <2>3. Size(g.rules[q]) \in Nat
    BY DEF IsGrammar, IsRuleSet, RuleType, Size
  <2> DEFINE p == Pieces(g, E, q)
  <2>4. p = [i \in 1 .. Size(g.rules[q]) |-> p[i]] /\ \A i \in 1 .. Size(g.rules[q]) : p[i] \in Seq(Nat)
    BY <2>2 DEF Pieces
  <2> HIDE DEF p
  <2>5. p \in Seq(Seq(Nat))
    BY <2>3, <2>4
  <2> QED BY <2>5 DEF p
<1>3. bad = {}
  <2>1. ASSUME NEW q \in bad PROVE Children(g.rules[q]) \cap bad # {}
    <3>1. SUFFICES ASSUME Children(g.rules[q]) \cap bad = {} PROVE FALSE
      OBVIOUS
    <3>2. q \in Ids(g) /\ E[q] \notin Seq(Nat)
      OBVIOUS
    <3> HIDE DEF bad
    <3>3. FlattenSeq(Pieces(g, E, q)) \in Seq(Nat)
      BY <1>2, <3>1, <3>2, FlattenType
    <3> QED BY <1>1, <3>2, <3>3
  <2>2. bad \in SUBSET Ids(g)
    OBVIOUS
  <2> HIDE DEF bad
  <2> QED BY <2>1, <2>2, NoLeastRule
<1> QED BY <1>1, <1>3 DEF E

LEMMA PiecesType ==
  ASSUME NEW g, IsGrammar(g), NEW r \in Ids(g)
  PROVE  /\ Pieces(g, Expansions(g.rules), r) \in Seq(Seq(Nat))
         /\ Len(Pieces(g, Expansions(g.rules), r)) = Size(g.rules[r])
<1>1. PICK rank \in [Ids(g) -> Ids(g)] : IsRank(g, rank)
  BY DEF IsGrammar, IsRuleSet
<1>2. ASSUME NEW i \in 1 .. Size(g.rules[r])
      PROVE  LET s == g.rules[r].symbols[i]
             IN  (IF IsTerminal(s) THEN << s >> ELSE Expansions(g.rules)[RuleId(s)]) \in Seq(Nat)
  <2>1. CASE IsTerminal(g.rules[r].symbols[i])
    BY <1>1, <2>1, SymbolFalls
  <2>2. CASE IsNonTerminal(g.rules[r].symbols[i])
    <3>1. RuleId(g.rules[r].symbols[i]) \in Ids(g)
      BY <1>1, <2>2, SymbolFalls
    <3> QED BY <2>2, <3>1, ExpansionType DEF IsNonTerminal
  <2> QED BY <2>1, <2>2 DEF IsNonTerminal
<1>3. Size(g.rules[r]) \in Nat
  BY DEF IsGrammar, IsRuleSet, RuleType, Size
<1> DEFINE p == Pieces(g, Expansions(g.rules), r)
<1>4. p = [i \in 1 .. Size(g.rules[r]) |-> p[i]] /\ \A i \in 1 .. Size(g.rules[r]) : p[i] \in Seq(Nat)
  BY <1>2 DEF Pieces
<1> HIDE DEF p
<1>5. p \in Seq(Seq(Nat)) /\ Len(p) = Size(g.rules[r])
  BY <1>3, <1>4
<1> QED BY <1>5 DEF p
-----------------------------------------------------------------------------
(* The length of the first n symbols of a rule. *)
PrefixLength(g, r, n) == Len(FlattenSeq(SubSeq(Pieces(g, Expansions(g.rules), r), 1, n)))

LEMMA PrefixLengths ==
  ASSUME NEW g, IsGrammar(g), NEW r \in Ids(g)
  PROVE  /\ PrefixLength(g, r, 0) = 0
         /\ \A n \in 0 .. Size(g.rules[r]) : PrefixLength(g, r, n) \in Nat
         /\ \A n \in 0 .. (Size(g.rules[r]) - 1) :
              PrefixLength(g, r, n + 1) =
                PrefixLength(g, r, n) +
                  (IF IsTerminal(At(g.rules[r], n)) THEN 1
                   ELSE Len(Expansions(g.rules)[RuleId(At(g.rules[r], n))]))
         /\ PrefixLength(g, r, Size(g.rules[r])) = Len(Expansions(g.rules)[r])
<1> DEFINE E == Expansions(g.rules)
           p == Pieces(g, E, r)
           size == Size(g.rules[r])
<1>1. size \in Nat /\ p \in Seq(Seq(Nat)) /\ Len(p) = size
  BY PiecesType DEF IsGrammar, IsRuleSet, RuleType, Size
<1>2. PrefixLength(g, r, 0) = 0
  <2>1. SubSeq(p, 1, 0) = << >>
    BY SubSeqEmpty
  <2> HIDE DEF p
  <2>2. FlattenSeq(SubSeq(p, 1, 0)) = << >>
    BY <2>1, FlattenEmpty
  <2>3. Len(FlattenSeq(SubSeq(p, 1, 0))) = 0
    BY <2>2
  <2> QED BY <2>3 DEF PrefixLength, p
<1>3. \A n \in 0 .. size : SubSeq(p, 1, n) \in Seq(Seq(Nat)) /\ FlattenSeq(SubSeq(p, 1, n)) \in Seq(Nat)
  <2> HIDE DEF p, size
  <2> SUFFICES ASSUME NEW n \in 0 .. size
               PROVE  SubSeq(p, 1, n) \in Seq(Seq(Nat)) /\ FlattenSeq(SubSeq(p, 1, n)) \in Seq(Nat)
    OBVIOUS
  <2>1. SubSeq(p, 1, n) \in Seq(Seq(Nat))
    BY <1>1
  <2> QED BY <2>1, FlattenType
<1>4. \A n \in 0 .. size : PrefixLength(g, r, n) \in Nat
  <2> SUFFICES ASSUME NEW n \in 0 .. size PROVE PrefixLength(g, r, n) \in Nat
    OBVIOUS
  <2>1. FlattenSeq(SubSeq(p, 1, n)) \in Seq(Nat)
    BY <1>3
  <2> QED BY <2>1 DEF PrefixLength
<1>5. ASSUME NEW n \in 0 .. (size - 1)
      PROVE  PrefixLength(g, r, n + 1) = PrefixLength(g, r, n) + Len(p[n + 1])
  <2> DEFINE s == SubSeq(p, 1, n)
  <2>1. n \in 0 .. size /\ n + 1 \in 1 .. size
    BY <1>1
  <2>2. SubSeq(p, 1, n + 1) = Append(s, p[n + 1]) /\ p[n + 1] \in Seq(Nat)
    <3> HIDE DEF p, size
    <3> QED BY <1>1, <2>1
  <2>3. s \in Seq(Seq(Nat)) /\ FlattenSeq(s) \in Seq(Nat)
    BY <1>3, <2>1
  <2> HIDE DEF s, p
  <2>4. FlattenSeq(Append(s, p[n + 1])) = FlattenSeq(s) \o p[n + 1]
    BY <2>2, <2>3, FlattenAppend
  <2>5. Len(FlattenSeq(s) \o p[n + 1]) = Len(FlattenSeq(s)) + Len(p[n + 1])
    BY <2>2, <2>3
  <2> QED BY <2>2, <2>4, <2>5 DEF PrefixLength, p, s, E
<1>6. ASSUME NEW n \in 0 .. (size - 1)
      PROVE  Len(p[n + 1]) = IF IsTerminal(At(g.rules[r], n)) THEN 1 ELSE Len(E[RuleId(At(g.rules[r], n))])
  <2>1. n + 1 \in 1 .. size
    BY <1>1
  <2> QED BY <2>1 DEF Pieces, At
<1>7. PrefixLength(g, r, size) = Len(E[r])
  <2>1. SubSeq(p, 1, size) = p
    <3> HIDE DEF p, size
    <3> QED BY <1>1
  <2> QED BY <2>1, ExpansionType DEF PrefixLength
<1> QED BY <1>2, <1>4, <1>5, <1>6, <1>7
-----------------------------------------------------------------------------
(* Derivations.  The programs that answer queries are given grammars with  *)
(* the strings of their rules as annotation (IsDerivation): there is one   *)
(* for every grammar, and it is the strings of Grammar::expand.            *)

(* The string of a rule, symbol by symbol. *)
LEMMA ExpansionAt ==
  ASSUME NEW g, IsGrammar(g), NEW r \in Ids(g), NEW k \in 0 .. (Size(g.rules[r]) - 1)
  PROVE  LET s == At(g.rules[r], k)
             E == Expansions(g.rules)
         IN  IF IsTerminal(s) THEN E[r][PrefixLength(g, r, k) + 1] = s
             ELSE /\ RuleId(s) \in Ids(g) /\ E[RuleId(s)] \in Seq(Nat)
                  /\ \A j \in 0 .. (Len(E[RuleId(s)]) - 1) :
                       E[r][PrefixLength(g, r, k) + j + 1] = E[RuleId(s)][j + 1]
<1> DEFINE E == Expansions(g.rules)
           p == Pieces(g, E, r)
           s == At(g.rules[r], k)
<1>1. /\ p \in Seq(Seq(Nat)) /\ Len(p) = Size(g.rules[r])
      /\ E[r] = FlattenSeq(p)
      /\ Size(g.rules[r]) \in Nat /\ g.rules[r] \in RuleType
      /\ Children(g.rules[r]) \subseteq Ids(g)
  BY PiecesType, ExpansionType DEF IsGrammar, IsRuleSet, RuleType, Size
<1>2. k + 1 \in 1 .. Len(p) /\ (k + 1) - 1 = k /\ k \in Nat
  BY <1>1
<1>3. p[k + 1] = IF IsTerminal(s) THEN << s >> ELSE E[RuleId(s)]
  BY <1>1, <1>2 DEF Pieces, At
<1>4. PrefixLength(g, r, k) = Len(Before(p, k)) /\ PrefixLength(g, r, k) \in Nat
  <2>1. k \in 0 .. Size(g.rules[r])
    BY <1>1
  <2> QED BY <2>1, PrefixLengths DEF PrefixLength, Before
<1>5. ASSUME NEW j \in 1 .. Len(p[k + 1])
      PROVE  E[r][PrefixLength(g, r, k) + j] = p[k + 1][j]
  <2> HIDE DEF p, E
  <2>1. FlattenSeq(p)[Len(Before(p, (k + 1) - 1)) + j] = p[k + 1][j]
    BY <1>1, <1>2, FlattenAt
  <2> QED BY <1>1, <1>2, <1>4, <2>1
<1>6. CASE IsTerminal(s)
  <2>1. p[k + 1] = << s >>
    BY <1>3, <1>6
  <2> HIDE DEF p, s, E
  <2>2. 1 \in 1 .. Len(p[k + 1]) /\ p[k + 1][1] = s
    BY <2>1
  <2>3. E[r][PrefixLength(g, r, k) + 1] = s
    BY <1>5, <2>2
  <2> QED BY <1>6, <2>3 DEF s, E
<1>7. CASE ~IsTerminal(s)
  <2>1. RuleId(s) \in Ids(g)
    BY <1>1, <1>7, SymbolAt DEF IsNonTerminal
  <2>2. E[RuleId(s)] \in Seq(Nat) /\ p[k + 1] = E[RuleId(s)]
    BY <1>3, <1>7, <2>1, ExpansionType
  <2> HIDE DEF p, s, E
  <2>3. ASSUME NEW j \in 0 .. (Len(E[RuleId(s)]) - 1)
        PROVE  E[r][PrefixLength(g, r, k) + j + 1] = E[RuleId(s)][j + 1]
    <3>1. j + 1 \in 1 .. Len(p[k + 1]) /\ PrefixLength(g, r, k) + (j + 1) = PrefixLength(g, r, k) + j + 1
      BY <1>4, <2>2
    <3>2. E[r][PrefixLength(g, r, k) + (j + 1)] = p[k + 1][j + 1]
      BY <1>5, <3>1
    <3> QED BY <2>2, <3>1, <3>2
  <2> QED BY <1>7, <2>1, <2>2, <2>3 DEF s, E
<1> QED BY <1>6, <1>7

(* No prefix is longer than the string. *)
LEMMA PrefixesFit ==
  ASSUME NEW g, IsGrammar(g), NEW r \in Ids(g), NEW k \in 0 .. Size(g.rules[r])
  PROVE  PrefixLength(g, r, k) \in Nat /\ PrefixLength(g, r, k) <= Len(Expansions(g.rules)[r])
<1> DEFINE size == Size(g.rules[r])
           short == {m \in k .. size : PrefixLength(g, r, m) < PrefixLength(g, r, k)}
<1>1. size \in Nat /\ \A m \in 0 .. size : PrefixLength(g, r, m) \in Nat
  BY SMTT(30), PrefixLengths DEF IsGrammar, IsRuleSet, RuleType, Size
<1>2. ASSUME short # {} PROVE FALSE
  <2>1. PICK m \in short : \A n \in short : m <= n
    <3>1. short \subseteq Nat
      OBVIOUS
    <3> HIDE DEF short
    <3> QED BY <1>2, <3>1, LeastNatural
  <2>2. m \in k .. size /\ PrefixLength(g, r, m) < PrefixLength(g, r, k) /\ m # k
    BY <1>1, <2>1
  <2>3. /\ m - 1 \in 0 .. (size - 1) /\ m - 1 \in k .. size /\ m - 1 \in 0 .. size /\ m \in 0 .. size
        /\ (m - 1) + 1 = m /\ ~(m <= m - 1)
    BY <1>1, <2>2
  <2>4. ~(PrefixLength(g, r, m - 1) < PrefixLength(g, r, k))
    BY <2>1, <2>3
  <2>5. PrefixLength(g, r, (m - 1) + 1) =
          PrefixLength(g, r, m - 1) +
            (IF IsTerminal(At(g.rules[r], m - 1)) THEN 1
             ELSE Len(Expansions(g.rules)[RuleId(At(g.rules[r], m - 1))]))
    BY <2>3, PrefixLengths
  <2>6. ~IsTerminal(At(g.rules[r], m - 1)) => Expansions(g.rules)[RuleId(At(g.rules[r], m - 1))] \in Seq(Nat)
    BY <2>3, ExpansionAt
  <2>7. PrefixLength(g, r, m) >= PrefixLength(g, r, m - 1)
    <3> DEFINE l == Len(Expansions(g.rules)[RuleId(At(g.rules[r], m - 1))])
    <3>1. ~IsTerminal(At(g.rules[r], m - 1)) => l \in Nat
      BY <2>6
    <3> HIDE DEF l, short, size
    <3> QED BY <1>1, <2>3, <2>5, <3>1 DEF l
  <2> QED BY <1>1, <2>2, <2>3, <2>4, <2>7
<1>3. size \in k .. size /\ size \in 0 .. size
  BY <1>1
<1>4. ~(PrefixLength(g, r, size) < PrefixLength(g, r, k))
  BY <1>2, <1>3
<1> QED BY <1>1, <1>3, <1>4, PrefixLengths

(* SymbolStarts is defined by recursion; the lengths of prefixes satisfy   *)
(* its equation, and nothing else does.                                    *)
IsStarts(g, f, r) ==
  f = [k \in 0 .. Size(g.rules[r]) |->
         IF k = 0 THEN 0
         ELSE LET s == At(g.rules[r], k - 1)
              IN  f[k - 1] + (IF IsTerminal(s) THEN 1 ELSE Len(Expansions(g.rules)[RuleId(s)]))]

LEMMA StartsAre ==
  ASSUME NEW g, IsGrammar(g), NEW r \in Ids(g)
  PROVE  IsStarts(g, SymbolStarts(g, Expansions(g.rules), r), r)
<1> DEFINE f == [k \in 0 .. Size(g.rules[r]) |-> PrefixLength(g, r, k)]
           size == Size(g.rules[r])
<1>1. size \in Nat
  BY DEF IsGrammar, IsRuleSet, RuleType, Size
<1>2. ASSUME NEW k \in 0 .. size
      PROVE  f[k] = IF k = 0 THEN 0
                    ELSE LET s == At(g.rules[r], k - 1)
                         IN  f[k - 1] + (IF IsTerminal(s) THEN 1 ELSE Len(Expansions(g.rules)[RuleId(s)]))
  <2>1. CASE k = 0
    BY <2>1, PrefixLengths
  <2>2. CASE k # 0
    <3>1. k - 1 \in 0 .. (size - 1) /\ k - 1 \in 0 .. size /\ (k - 1) + 1 = k
      BY <1>1, <2>2
    <3>2. f[k] = PrefixLength(g, r, k) /\ f[k - 1] = PrefixLength(g, r, k - 1)
      BY <3>1
    <3> HIDE DEF f, size
    <3>3. PrefixLength(g, r, (k - 1) + 1) =
            PrefixLength(g, r, k - 1) +
              (IF IsTerminal(At(g.rules[r], k - 1)) THEN 1
               ELSE Len(Expansions(g.rules)[RuleId(At(g.rules[r], k - 1))]))
      BY <3>1, PrefixLengths DEF size
    <3> QED BY <2>2, <3>1, <3>2, <3>3
  <2> QED BY <2>1, <2>2
<1>3. f = [k \in 0 .. size |-> f[k]]
  OBVIOUS
<1> HIDE DEF f
<1>4. IsStarts(g, f, r)
  BY <1>2, <1>3 DEF IsStarts
<1> QED BY <1>4, Zenon DEF SymbolStarts, IsStarts

LEMMA StartsArePrefixes ==
  ASSUME NEW g, IsGrammar(g), NEW r \in Ids(g), NEW k \in 0 .. Size(g.rules[r])
  PROVE  SymbolStarts(g, Expansions(g.rules), r)[k] = PrefixLength(g, r, k)
<1> DEFINE f == SymbolStarts(g, Expansions(g.rules), r)
           size == Size(g.rules[r])
           differ == {m \in 0 .. size : f[m] # PrefixLength(g, r, m)}
<1>1. size \in Nat
  BY DEF IsGrammar, IsRuleSet, RuleType, Size
<1>2. \A m \in 0 .. size :
        f[m] = IF m = 0 THEN 0
               ELSE LET s == At(g.rules[r], m - 1)
                    IN  f[m - 1] + (IF IsTerminal(s) THEN 1 ELSE Len(Expansions(g.rules)[RuleId(s)]))
  <2>1. IsStarts(g, f, r)
    BY StartsAre
  <2> HIDE DEF f
  <2> QED BY <2>1, Zenon DEF IsStarts
<1> HIDE DEF f
<1>3. ASSUME differ # {} PROVE FALSE
  <2>1. PICK m \in differ : \A n \in differ : m <= n
    <3>1. differ \subseteq Nat
      OBVIOUS
    <3> HIDE DEF differ
    <3> QED BY <1>3, <3>1, LeastNatural
  <2>2. m \in 0 .. size /\ f[m] # PrefixLength(g, r, m)
    BY <2>1
  <2>3. m # 0
    BY <1>2, <2>2, PrefixLengths
  <2>4. m - 1 \in 0 .. (size - 1) /\ m - 1 \in 0 .. size /\ (m - 1) + 1 = m /\ ~(m <= m - 1)
    BY <1>1, <2>2, <2>3
  <2>5. f[m - 1] = PrefixLength(g, r, m - 1)
    BY <2>1, <2>4
  <2>6. PrefixLength(g, r, (m - 1) + 1) =
          PrefixLength(g, r, m - 1) +
            (IF IsTerminal(At(g.rules[r], m - 1)) THEN 1
             ELSE Len(Expansions(g.rules)[RuleId(At(g.rules[r], m - 1))]))
    BY <2>4, PrefixLengths
  <2>7. f[m] = f[m - 1] + (IF IsTerminal(At(g.rules[r], m - 1)) THEN 1
                           ELSE Len(Expansions(g.rules)[RuleId(At(g.rules[r], m - 1))]))
    BY <1>2, <2>2, <2>3
  <2> HIDE DEF differ, size
  <2> QED BY <2>2, <2>4, <2>5, <2>6, <2>7
<1> QED BY <1>3 DEF f

(* What Derived computes, field by field. *)
LEMMA DerivedFields ==
  ASSUME NEW g, IsGrammar(g)
  PROVE  LET D == Derived(g)
             E == Expansions(g.rules)
         IN  /\ D.count = g.count /\ D.start = g.start /\ D.rules = g.rules /\ Ids(D) = Ids(g)
             /\ \A r \in Ids(g) :
                  /\ D.off[r] \in [0 .. Size(g.rules[r]) -> Nat]
                  /\ \A k \in 0 .. Size(g.rules[r]) : D.off[r][k] = PrefixLength(g, r, k)
                  /\ D.text[r] = [j \in 0 .. (Len(E[r]) - 1) |-> E[r][j + 1]]
                  /\ Length(D, r) = Len(E[r])
<1> DEFINE D == Derived(g)
           E == Expansions(g.rules)
<1>1. [r \in Ids(g) |-> E[r]] = E
  <2>1. E = [r \in Ids(g) |-> FlattenSeq(Pieces(g, E, r))]
    BY ExpansionsAre DEF IsExpansion
  <2> HIDE DEF E
  <2> QED BY <2>1
<1>2. /\ D.count = g.count /\ D.start = g.start /\ D.rules = g.rules
      /\ D.off = [r \in Ids(g) |-> SymbolStarts(g, E, r)]
      /\ D.text = [r \in Ids(g) |-> [j \in 0 .. (Len(E[r]) - 1) |-> E[r][j + 1]]]
  <2> DEFINE X == [r \in Ids(g) |-> E[r]]
  <2>1. /\ D.count = g.count /\ D.start = g.start /\ D.rules = g.rules
        /\ D.off = [r \in Ids(g) |-> SymbolStarts(g, X, r)]
        /\ D.text = [r \in Ids(g) |-> [j \in 0 .. (Len(X[r]) - 1) |-> X[r][j + 1]]]
    BY DEF Derived
  <2>2. X = E
    BY <1>1
  <2> HIDE DEF X, D, E
  <2> QED BY <2>1, <2>2
<1> HIDE DEF D, E
<1>3. Ids(D) = Ids(g)
  BY <1>2 DEF Ids
<1>4. ASSUME NEW r \in Ids(g)
      PROVE  /\ D.off[r] \in [0 .. Size(g.rules[r]) -> Nat]
             /\ \A k \in 0 .. Size(g.rules[r]) : D.off[r][k] = PrefixLength(g, r, k)
             /\ D.text[r] = [j \in 0 .. (Len(E[r]) - 1) |-> E[r][j + 1]]
             /\ Length(D, r) = Len(E[r])
  <2> DEFINE f == D.off[r]
  <2>1. Size(g.rules[r]) \in Nat /\ Size(g.rules[r]) \in 0 .. Size(g.rules[r])
    BY DEF IsGrammar, IsRuleSet, RuleType, Size
  <2>2. f = SymbolStarts(g, E, r) /\ D.text[r] = [j \in 0 .. (Len(E[r]) - 1) |-> E[r][j + 1]]
    BY <1>2
  <2>3. \A k \in 0 .. Size(g.rules[r]) : f[k] = PrefixLength(g, r, k) /\ PrefixLength(g, r, k) \in Nat
    BY <2>2, StartsArePrefixes, PrefixLengths DEF E
  <2>4. f = [k \in 0 .. Size(g.rules[r]) |-> f[k]]
    <3>1. IsStarts(g, f, r)
      BY <2>2, StartsAre DEF E
    <3> HIDE DEF f
    <3> QED BY <3>1 DEF IsStarts
  <2>5. f[Size(g.rules[r])] = Len(E[r])
    BY <2>1, <2>3, PrefixLengths DEF E
  <2> HIDE DEF f
  <2>6. f \in [0 .. Size(g.rules[r]) -> Nat]
    BY <2>3, <2>4
  <2> QED BY <1>2, <2>2, <2>3, <2>5, <2>6 DEF f, Length
<1> QED BY <1>2, <1>3, <1>4 DEF D, E

(* Every grammar has a derivation.  The theorems about queries assume one  *)
(* of the grammars they are given: it is there for all that the decoder    *)
(* delivers, and its strings are those that Grammar::expand puts together. *)
THEOREM DerivationExists ==
  ASSUME NEW g, IsGrammar(g)
  PROVE  /\ IsGrammar(Derived(g)) /\ IsDerivation(Derived(g))
         /\ Derived(g).count = g.count /\ Derived(g).start = g.start /\ Derived(g).rules = g.rules
<1> DEFINE D == Derived(g)
           E == Expansions(g.rules)
<1>1. /\ D.count = g.count /\ D.start = g.start /\ D.rules = g.rules /\ Ids(D) = Ids(g)
      /\ \A r \in Ids(g) :
           /\ D.off[r] \in [0 .. Size(g.rules[r]) -> Nat]
           /\ \A k \in 0 .. Size(g.rules[r]) : D.off[r][k] = PrefixLength(g, r, k)
           /\ D.text[r] = [j \in 0 .. (Len(E[r]) - 1) |-> E[r][j + 1]]
           /\ Length(D, r) = Len(E[r])
  BY DerivedFields
<1> HIDE DEF D
<1>2. IsGrammar(D)
  BY <1>1 DEF IsGrammar, IsRuleSet, IsRank
<1>3. ASSUME NEW r \in Ids(g)
      PROVE  LET size == Size(g.rules[r])
             IN  /\ D.off[r] \in [0 .. size -> Nat]
                 /\ D.off[r][0] = 0
                 /\ D.text[r] \in [0 .. (Length(D, r) - 1) -> Nat]
                 /\ \A k \in 0 .. (size - 1) :
                      LET s == At(g.rules[r], k)
                      IN  /\ D.off[r][k + 1] = D.off[r][k] + SymbolSpan(D, r, k)
                          /\ \A j \in 0 .. (SymbolSpan(D, r, k) - 1) :
                               D.text[r][D.off[r][k] + j] =
                                 IF IsTerminal(s) THEN s ELSE D.text[RuleId(s)][j]
  <2> DEFINE size == Size(g.rules[r])
  <2>1. size \in Nat /\ 0 \in 0 .. size /\ E[r] \in Seq(Nat)
    <3>1. size \in Nat
      BY DEF IsGrammar, IsRuleSet, RuleType, Size
    <3> HIDE DEF size
    <3> QED BY <3>1, ExpansionType
  <2>2. D.off[r][0] = 0
    BY <1>1, <2>1, PrefixLengths
  <2>3. D.text[r] \in [0 .. (Length(D, r) - 1) -> Nat]
    <3> HIDE DEF E
    <3>1. \A j \in 0 .. (Len(E[r]) - 1) : E[r][j + 1] \in Nat
      BY <2>1
    <3>2. D.text[r] = [j \in 0 .. (Length(D, r) - 1) |-> E[r][j + 1]] /\ Length(D, r) = Len(E[r])
      BY <1>1
    <3> QED BY <3>1, <3>2
  <2>4. ASSUME NEW k \in 0 .. (size - 1)
        PROVE  LET s == At(g.rules[r], k)
               IN  /\ D.off[r][k + 1] = D.off[r][k] + SymbolSpan(D, r, k)
                   /\ \A j \in 0 .. (SymbolSpan(D, r, k) - 1) :
                        D.text[r][D.off[r][k] + j] = IF IsTerminal(s) THEN s ELSE D.text[RuleId(s)][j]
    <3> DEFINE s == At(g.rules[r], k)
               at == PrefixLength(g, r, k)
    <3>1. k \in 0 .. size /\ k + 1 \in 0 .. size
      BY <2>1
    <3>2. D.off[r][k] = at /\ D.off[r][k + 1] = PrefixLength(g, r, k + 1) /\ at \in Nat
      BY <1>1, <3>1, PrefixLengths
    <3>3. PrefixLength(g, r, k + 1) = at + (IF IsTerminal(s) THEN 1 ELSE Len(E[RuleId(s)]))
      BY PrefixLengths
    <3>4. ~IsTerminal(s) => RuleId(s) \in Ids(g) /\ E[RuleId(s)] \in Seq(Nat)
      BY ExpansionAt
    <3>5. SymbolSpan(D, r, k) = IF IsTerminal(s) THEN 1 ELSE Len(E[RuleId(s)])
      BY <1>1, <3>4 DEF SymbolSpan
    <3>6. PrefixLength(g, r, k + 1) \in Nat /\ PrefixLength(g, r, k + 1) <= Len(E[r])
      BY <3>1, PrefixesFit
    <3>7. ASSUME NEW j \in 0 .. (SymbolSpan(D, r, k) - 1)
          PROVE  D.text[r][at + j] = IF IsTerminal(s) THEN s ELSE D.text[RuleId(s)][j]
      <4> HIDE DEF E, at
      <4>1. at + j \in 0 .. (Len(E[r]) - 1)
        BY <2>1, <3>2, <3>3, <3>4, <3>5, <3>6
      <4>2. D.text[r][at + j] = E[r][at + j + 1]
        BY <1>1, <4>1
      <4>3. CASE IsTerminal(s)
        <5>1. j = 0
          BY <3>5, <4>3
        <5>2. E[r][at + 1] = s
          BY <4>3, ExpansionAt DEF E, at
        <5> QED BY <3>2, <4>2, <4>3, <5>1, <5>2
      <4>4. CASE ~IsTerminal(s)
        <5>1. j \in 0 .. (Len(E[RuleId(s)]) - 1)
          BY <3>5, <4>4
        <5>2. E[r][at + j + 1] = E[RuleId(s)][j + 1]
          BY <4>4, <5>1, ExpansionAt DEF E, at
        <5>3. D.text[RuleId(s)][j] = E[RuleId(s)][j + 1]
          BY <1>1, <3>4, <4>4, <5>1
        <5> QED BY <4>2, <4>4, <5>2, <5>3
      <4> QED BY <4>3, <4>4
    <3> HIDE DEF at, E, size, s
    <3> QED BY <3>2, <3>3, <3>5, <3>7 DEF s
  <2>5. D.off[r] \in [0 .. size -> Nat]
    BY <1>1
  <2> HIDE DEF E
  <2> QED BY <2>2, <2>3, <2>4, <2>5, Zenon
<1>4. IsDerivation(D)
  <2>1. D.rules = g.rules /\ Ids(D) = Ids(g)
    BY <1>1
  <2> QED BY <1>3, <2>1 DEF IsDerivation
<1> QED BY <1>1, <1>2, <1>4 DEF D
(* A rule whose children are annotated with their strings begins its       *)
(* symbols where the prefixes of its string end.                           *)
LEMMA OffsetsArePrefixes ==
  ASSUME NEW g, IsAnnotated(g), NEW r \in Ids(g),
         \A c \in Children(g.rules[r]) : Length(g, c) = Len(Expansions(g.rules)[c])
  PROVE  \A k \in 0 .. Size(g.rules[r]) : g.off[r][k] = PrefixLength(g, r, k)
<1> DEFINE size == Size(g.rules[r])
           differ == {m \in 0 .. size : g.off[r][m] # PrefixLength(g, r, m)}
<1>1. IsGrammar(g) /\ size \in Nat /\ g.rules[r] \in RuleType
  BY DEF IsAnnotated, IsGrammar, IsRuleSet, RuleType, Size
<1>2. ASSUME differ # {} PROVE FALSE
  <2>1. PICK m \in differ : \A n \in differ : m <= n
    <3>1. differ \subseteq Nat
      OBVIOUS
    <3> HIDE DEF differ
    <3> QED BY <1>2, <3>1, LeastNatural
  <2>2. m \in 0 .. size /\ g.off[r][m] # PrefixLength(g, r, m)
    BY <2>1
  <2>3. m # 0
    BY <1>1, <2>2, OffsetsOf, PrefixLengths
  <2>4. m - 1 \in 0 .. (size - 1) /\ m - 1 \in 0 .. size /\ (m - 1) + 1 = m /\ ~(m <= m - 1)
    BY <1>1, <2>2, <2>3
  <2>5. g.off[r][m - 1] = PrefixLength(g, r, m - 1)
    BY <2>1, <2>4
  <2> DEFINE s == At(g.rules[r], m - 1)
  <2>6. PrefixLength(g, r, (m - 1) + 1) =
          PrefixLength(g, r, m - 1) + (IF IsTerminal(s) THEN 1 ELSE Len(Expansions(g.rules)[RuleId(s)]))
    BY <1>1, <2>4, PrefixLengths
  <2>7. g.off[r][(m - 1) + 1] = g.off[r][m - 1] + SymbolSpan(g, r, m - 1)
    BY <2>4, OffsetsOf
  <2>8. SymbolSpan(g, r, m - 1) = IF IsTerminal(s) THEN 1 ELSE Len(Expansions(g.rules)[RuleId(s)])
    <3>1. ~IsTerminal(s) => RuleId(s) \in Children(g.rules[r])
      BY <1>1, <2>4, SymbolAt DEF IsNonTerminal
    <3> QED BY <3>1 DEF SymbolSpan
  <2> HIDE DEF differ, size, s
  <2> QED BY <2>2, <2>4, <2>5, <2>6, <2>7, <2>8
<1> QED BY <1>2

(* Where the strings of its children are right, a rule's string is.        *)
LEMMA TextFromChildren ==
  ASSUME NEW g, IsAnnotated(g), NEW r \in Ids(g),
         \A c \in Children(g.rules[r]) :
           /\ Length(g, c) = Len(Expansions(g.rules)[c])
           /\ \A j \in 0 .. (Length(g, c) - 1) : g.text[c][j] = Expansions(g.rules)[c][j + 1]
  PROVE  /\ Length(g, r) = Len(Expansions(g.rules)[r])
         /\ \A j \in 0 .. (Length(g, r) - 1) : g.text[r][j] = Expansions(g.rules)[r][j + 1]
<1> DEFINE E == Expansions(g.rules)
           size == Size(g.rules[r])
<1>1. /\ IsGrammar(g) /\ IsDerivation(g) /\ g.rules[r] \in RuleType
      /\ size \in Nat /\ size \in 0 .. size
  BY DEF IsAnnotated, IsGrammar, IsRuleSet, RuleType, Size
<1>2. \A k \in 0 .. size : g.off[r][k] = PrefixLength(g, r, k)
  BY OffsetsArePrefixes
<1>3. Length(g, r) = Len(E[r])
  BY <1>1, <1>2, PrefixLengths DEF Length
<1>4. ASSUME NEW j \in 0 .. (Length(g, r) - 1)
      PROVE  g.text[r][j] = E[r][j + 1]
  <2>1. PICK k \in 0 .. (size - 1) : j - g.off[r][k] \in 0 .. (SymbolSpan(g, r, k) - 1)
    BY SymbolAtPlace
  <2> DEFINE s == At(g.rules[r], k)
             at == g.off[r][k]
             i == j - at
  <2>2. g.text[r][at + i] = IF IsTerminal(s) THEN s ELSE g.text[RuleId(s)][i]
    BY <1>1, <2>1, Zenon DEF IsDerivation
  <2>3. at \in Nat /\ j \in Nat /\ at = PrefixLength(g, r, k)
    <3>1. k \in 0 .. size /\ Length(g, r) \in Nat
      BY <1>1, LengthInGrammar
    <3> QED BY <1>2, <3>1, OffsetsOf
  <2>4. i \in 0 .. (SymbolSpan(g, r, k) - 1) /\ at + i = j /\ i \in Nat
    BY <2>1, <2>3, SpanIsNat
  <2> HIDE DEF E, at, i, size
  <2>5. CASE IsTerminal(s)
    <3>1. i = 0
      BY <2>4, <2>5 DEF SymbolSpan
    <3>2. E[r][at + 1] = s
      BY <1>1, <2>3, <2>5, ExpansionAt DEF E, size
    <3> QED BY <2>2, <2>3, <2>4, <2>5, <3>1, <3>2
  <2>6. CASE ~IsTerminal(s)
    <3>1. RuleId(s) \in Children(g.rules[r])
      <4>1. k \in 0 .. (Size(g.rules[r]) - 1)
        BY <2>1 DEF size
      <4> QED BY <1>1, <2>6, <4>1, SymbolAt DEF IsNonTerminal
    <3>2. i \in 0 .. (Length(g, RuleId(s)) - 1) /\ Length(g, RuleId(s)) = Len(E[RuleId(s)])
      BY <2>4, <2>6, <3>1 DEF SymbolSpan, E
    <3>3. g.text[RuleId(s)][i] = E[RuleId(s)][i + 1]
      BY <3>1, <3>2 DEF E
    <3>4. E[r][at + i + 1] = E[RuleId(s)][i + 1]
      <4>1. k \in 0 .. (Size(g.rules[r]) - 1)
        BY <2>1 DEF size
      <4>2. \A h \in 0 .. (Len(E[RuleId(s)]) - 1) :
              E[r][PrefixLength(g, r, k) + h + 1] = E[RuleId(s)][h + 1]
        BY <1>1, <2>6, <4>1, ExpansionAt DEF E
      <4>3. i \in 0 .. (Len(E[RuleId(s)]) - 1)
        BY <3>2
      <4> HIDE DEF s
      <4> QED BY <2>3, <4>2, <4>3
    <3> QED BY <2>2, <2>4, <2>6, <3>3, <3>4
  <2> QED BY <2>5, <2>6
<1> QED BY <1>3, <1>4

(* And only one: in every annotated grammar, the strings of rules are      *)
(* those Grammar::expand puts together.  So what at and substr are proved  *)
(* to answer, from text, is what reproduce is proved to return.            *)
THEOREM DerivationIsExpansion ==
  ASSUME NEW g, IsAnnotated(g), NEW r \in Ids(g)
  PROVE  /\ Length(g, r) = Len(Expansions(g.rules)[r])
         /\ \A j \in 0 .. (Length(g, r) - 1) : g.text[r][j] = Expansions(g.rules)[r][j + 1]
<1> DEFINE right(q) == /\ Length(g, q) = Len(Expansions(g.rules)[q])
                       /\ \A j \in 0 .. (Length(g, q) - 1) : g.text[q][j] = Expansions(g.rules)[q][j + 1]
           bad == {q \in Ids(g) : ~right(q)}
<1>1. IsGrammar(g) /\ \A q \in Ids(g) : Children(g.rules[q]) \subseteq Ids(g)
  BY DEF IsAnnotated, IsGrammar, IsRuleSet
<1>2. ASSUME NEW q \in bad PROVE Children(g.rules[q]) \cap bad # {}
  <2>1. SUFFICES ASSUME Children(g.rules[q]) \cap bad = {} PROVE FALSE
    OBVIOUS
  <2>2. q \in Ids(g) /\ ~right(q)
    OBVIOUS
  <2>3. \A c \in Children(g.rules[q]) : right(c)
    <3> HIDE DEF right
    <3> QED BY <1>1, <2>1, <2>2
  <2>4. right(q)
    BY <2>2, <2>3, TextFromChildren
  <2> QED BY <2>2, <2>4
<1>3. bad \in SUBSET Ids(g)
  OBVIOUS
<1> HIDE DEF bad
<1>4. bad = {}
  BY <1>1, <1>2, <1>3, NoLeastRule
<1>5. right(r)
  BY <1>4 DEF bad
<1> QED BY <1>5

-----------------------------------------------------------------------------
(* How deep rules nest: TrueDepth is defined by recursion, too.            *)
DepthsOf(f, r) == {f[c] : c \in Children(given.rules[r])}

IsDepth(f) == f = [r \in Ids(given) |-> 1 + Max({0} \cup DepthsOf(f, r))]

LEMMA DepthExists ==
  ASSUME IsGrammar(given) PROVE \E f : IsDepth(f)
<1>1. PICK rank \in [Ids(given) -> Ids(given)] : IsRank(given, rank)
  BY DEF IsGrammar, IsRuleSet
<1> DEFINE right(f, n) == \A r \in Ids(given) : rank[r] < n => f[r] = 1 + Max({0} \cup DepthsOf(f, r))
           none == {n \in Nat : ~ \E f : right(f, n)}
<1>2. none = {}
  <2> SUFFICES ASSUME none # {} PROVE FALSE
    OBVIOUS
  <2>1. PICK n \in none : \A m \in none : n <= m
    <3>1. none \subseteq Nat
      OBVIOUS
    <3> HIDE DEF none
    <3> QED BY <3>1, LeastNatural
  <2>2. n \in Nat /\ ~ \E f : right(f, n)
    BY <2>1
  <2>3. n # 0
    <3>1. \A r \in Ids(given) : ~(rank[r] < 0)
      BY <1>1 DEF Ids
    <3>2. right(rank, 0)
      BY <3>1
    <3> HIDE DEF right
    <3> QED BY <2>2, <3>2
  <2>4. n - 1 \in Nat /\ n - 1 \notin none
    <3>1. n - 1 \in Nat /\ ~(n <= n - 1)
      BY <2>2, <2>3
    <3> HIDE DEF none
    <3> QED BY <2>1, <3>1
  <2>5. PICK h : right(h, n - 1)
    BY <2>4
  <2> DEFINE f == [r \in Ids(given) |-> 1 + Max({0} \cup DepthsOf(h, r))]
  <2>6. ASSUME NEW r \in Ids(given), rank[r] < n PROVE f[r] = 1 + Max({0} \cup DepthsOf(f, r))
    <3>1. ASSUME NEW c \in Children(given.rules[r]) PROVE f[c] = h[c]
      <4>1. c \in Ids(given) /\ rank[c] < rank[r]
        BY <1>1 DEF IsGrammar, IsRuleSet, IsRank
      <4>2. rank[c] \in Nat /\ rank[r] \in Nat
        BY SMTT(30), <1>1, <4>1 DEF Ids
      <4>3. rank[c] < n - 1
        BY <2>2, <2>6, <4>1, <4>2
      <4>4. h[c] = 1 + Max({0} \cup DepthsOf(h, c))
        BY <2>5, <4>1, <4>3
      <4> QED BY <4>1, <4>4
    <3> HIDE DEF f
    <3>2. DepthsOf(f, r) = DepthsOf(h, r)
      BY <3>1 DEF DepthsOf
    <3> QED BY <3>2 DEF f
  <2>7. right(f, n)
    <3> HIDE DEF f
    <3> QED BY <2>6
  <2> HIDE DEF f, right
  <2> QED BY <2>2, <2>7
<1>3. given.count \in Nat /\ \A r \in Ids(given) : rank[r] < given.count
  BY <1>1 DEF IsGrammar, IsRuleSet, Ids
<1>4. PICK h : right(h, given.count)
  BY <1>2, <1>3
<1> DEFINE f == [r \in Ids(given) |-> h[r]]
<1>5. ASSUME NEW r \in Ids(given) PROVE f[r] = 1 + Max({0} \cup DepthsOf(f, r))
  <2>1. \A c \in Children(given.rules[r]) : f[c] = h[c]
    BY DEF IsGrammar, IsRuleSet
  <2> HIDE DEF f
  <2>2. DepthsOf(f, r) = DepthsOf(h, r)
    BY <2>1 DEF DepthsOf
  <2> QED BY <1>3, <1>4, <2>2 DEF f
<1> HIDE DEF right, none
<1>6. f = [r \in Ids(given) |-> f[r]]
  OBVIOUS
<1> HIDE DEF f
<1>7. IsDepth(f)
  BY <1>5, <1>6 DEF IsDepth
<1> QED BY <1>7

LEMMA DepthIs ==
  ASSUME IsGrammar(given) PROVE IsDepth(TrueDepth)
BY DepthExists, Zenon DEF TrueDepth, IsDepth, DepthsOf

(* No rule nests deeper than there are rules.                              *)
LEMMA DepthBounds ==
  ASSUME IsGrammar(given), NEW r \in Ids(given)
  PROVE  /\ TrueDepth[r] \in 1 .. given.count
         /\ TrueDepth[r] = 1 + Max({0} \cup DepthsOf(TrueDepth, r))
<1> DEFINE d == TrueDepth
<1>1. \A q \in Ids(given) : d[q] = 1 + Max({0} \cup DepthsOf(d, q))
  BY DepthIs DEF IsDepth
<1> HIDE DEF d
<1>2. PICK rank \in [Ids(given) -> Ids(given)] : IsRank(given, rank)
  BY DEF IsGrammar, IsRuleSet
<1> DEFINE bad == {q \in Ids(given) : d[q] \notin 1 .. (rank[q] + 1)}
<1>3. bad = {}
  <2>1. ASSUME NEW q \in bad, Children(given.rules[q]) \cap bad = {} PROVE FALSE
    <3>1. q \in Ids(given) /\ d[q] \notin 1 .. (rank[q] + 1) /\ rank[q] \in Nat
      BY <1>2 DEF Ids
    <3>2. ASSUME NEW c \in Children(given.rules[q]) PROVE d[c] \in 0 .. rank[q]
      <4>1. c \in Ids(given) /\ rank[c] < rank[q] /\ rank[c] \in Nat
        BY <1>2, <3>1 DEF IsGrammar, IsRuleSet, IsRank, Ids
      <4>2. d[c] \in 1 .. (rank[c] + 1)
        BY <2>1, <4>1
      <4> QED BY <3>1, <4>1, <4>2
    <3> DEFINE S == {0} \cup DepthsOf(d, q)
    <3>3. S \in SUBSET (0 .. rank[q]) /\ S # {}
      BY <3>1, <3>2 DEF DepthsOf
    <3> HIDE DEF S, bad
    <3>4. Max(S) \in S
      BY <3>1, <3>3, MaxOfBounded
    <3>5. d[q] = 1 + Max(S)
      BY <1>1, <3>1 DEF S
    <3>6. Max(S) \in 0 .. rank[q]
      BY <3>3, <3>4
    <3>7. d[q] \in 1 .. (rank[q] + 1)
      BY <3>1, <3>5, <3>6
    <3> QED BY <3>1, <3>7
  <2>2. bad \in SUBSET Ids(given)
    OBVIOUS
  <2> HIDE DEF bad
  <2> QED BY <2>1, <2>2, NoLeastRule
<1>4. d[r] \in 1 .. (rank[r] + 1) /\ rank[r] \in 0 .. (given.count - 1) /\ given.count \in Nat
  BY <1>2, <1>3 DEF Ids, IsGrammar, IsRuleSet
<1>5. d[r] \in 1 .. given.count
  BY <1>4
<1> QED BY <1>1, <1>5 DEF d

(* How deep the first n symbols of a rule nest. *)
PrefixDepths(r, n) ==
  {TrueDepth[RuleId(At(given.rules[r], j))] :
     j \in {k \in 0 .. (n - 1) : IsNonTerminal(At(given.rules[r], k))}}

PrefixDepth(r, n) == Max({0} \cup PrefixDepths(r, n))

LEMMA PrefixDepthIs ==
  ASSUME IsGrammar(given), NEW r \in Ids(given)
  PROVE  /\ PrefixDepth(r, 0) = 0
         /\ \A n \in 0 .. Size(given.rules[r]) : PrefixDepth(r, n) \in Nat
         /\ \A n \in 0 .. (Size(given.rules[r]) - 1) :
              PrefixDepth(r, n + 1) =
                IF IsTerminal(At(given.rules[r], n)) THEN PrefixDepth(r, n)
                ELSE Max({PrefixDepth(r, n), TrueDepth[RuleId(At(given.rules[r], n))]})
         /\ PrefixDepth(r, Size(given.rules[r])) + 1 = TrueDepth[r]
<1> DEFINE rule == given.rules[r]
           size == Size(rule)
           S(n) == {0} \cup PrefixDepths(r, n)
<1>1. rule \in RuleType /\ size \in Nat /\ given.count \in Nat /\ Children(rule) \subseteq Ids(given)
  BY DEF IsGrammar, IsRuleSet, RuleType, Size
<1>2. ASSUME NEW n \in 0 .. (size - 1), IsNonTerminal(At(rule, n))
      PROVE  TrueDepth[RuleId(At(rule, n))] \in 1 .. given.count /\ RuleId(At(rule, n)) \in Children(rule)
  <2>1. RuleId(At(rule, n)) \in Children(rule)
    BY <1>1, <1>2, SymbolAt
  <2> QED BY <1>1, <2>1, DepthBounds
<1>3. ASSUME NEW n \in 0 .. size PROVE S(n) \in SUBSET (0 .. given.count) /\ S(n) # {}
  BY <1>1, <1>2 DEF PrefixDepths
<1>4. ASSUME NEW n \in 0 .. size
      PROVE  PrefixDepth(r, n) \in S(n) /\ PrefixDepth(r, n) \in Nat /\ \A m \in S(n) : m <= PrefixDepth(r, n)
  <2>1. S(n) \in SUBSET (0 .. given.count) /\ S(n) # {}
    BY <1>3
  <2> HIDE DEF S
  <2>2. Max(S(n)) \in S(n) /\ \A m \in S(n) : m <= Max(S(n))
    BY <1>1, <2>1, MaxOfBounded
  <2> QED BY <2>1, <2>2 DEF PrefixDepth, S
<1>5. PrefixDepth(r, 0) = 0
  <2>1. S(0) = {0}
    BY DEF PrefixDepths
  <2>2. 0 \in 0 .. size
    BY <1>1
  <2> QED BY <1>4, <2>1, <2>2
<1>6. ASSUME NEW n \in 0 .. (size - 1)
      PROVE  PrefixDepth(r, n + 1) =
               IF IsTerminal(At(rule, n)) THEN PrefixDepth(r, n)
               ELSE Max({PrefixDepth(r, n), TrueDepth[RuleId(At(rule, n))]})
  <2>1. n \in 0 .. size /\ n + 1 \in 0 .. size /\ \A k : k \in 0 .. (n + 1 - 1) <=> k \in 0 .. (n - 1) \/ k = n
    BY <1>1
  <2>2. CASE IsTerminal(At(rule, n))
    <3>1. PrefixDepths(r, n + 1) = PrefixDepths(r, n)
      BY <2>1, <2>2 DEF PrefixDepths, IsNonTerminal
    <3> QED BY <2>2, <3>1 DEF PrefixDepth
  <2>3. CASE IsNonTerminal(At(rule, n))
    <3> DEFINE d == TrueDepth[RuleId(At(rule, n))]
               p == PrefixDepth(r, n)
    <3>1. PrefixDepths(r, n + 1) = PrefixDepths(r, n) \cup {d}
      BY <2>1, <2>3 DEF PrefixDepths
    <3>2. S(n + 1) = S(n) \cup {d}
      BY <3>1
    <3>3. d \in Nat /\ p \in Nat /\ p \in S(n) /\ \A m \in S(n) : m <= p
      BY <1>2, <1>4, <2>1, <2>3
    <3>4. S(n + 1) \subseteq Nat
      BY <1>3, <2>1
    <3> DEFINE top == IF p <= d THEN d ELSE p
    <3> HIDE DEF S, d, p
    <3>5. top \in S(n + 1) /\ \A m \in S(n + 1) : m <= top
      <4>1. \A m \in S(n) : m \in Nat
        BY <3>2, <3>4
      <4> QED BY <3>2, <3>3, <4>1
    <3>6. Max(S(n + 1)) = top
      BY <3>4, <3>5, MaxIs
    <3>7. Max({p, d}) = top
      <4>1. {p, d} \subseteq Nat /\ top \in {p, d} /\ \A m \in {p, d} : m <= top
        BY <3>3
      <4> QED BY <4>1, MaxIs
    <3>8. Max(S(n + 1)) = Max({p, d})
      BY <3>6, <3>7
    <3>9. ~IsTerminal(At(rule, n))
      BY <2>3 DEF IsNonTerminal
    <3> QED BY <3>8, <3>9 DEF PrefixDepth, S, p, d
  <2> QED BY <2>2, <2>3 DEF IsNonTerminal
<1>7. PrefixDepth(r, size) + 1 = TrueDepth[r]
  <2>1. PrefixDepths(r, size) = DepthsOf(TrueDepth, r)
    <3>1. ASSUME NEW c \in Children(rule)
          PROVE  \E j \in 0 .. (size - 1) : IsNonTerminal(At(rule, j)) /\ RuleId(At(rule, j)) = c
      BY <1>1, ChildAt
    <3> QED BY <1>2, <3>1 DEF PrefixDepths, DepthsOf
  <2>2. TrueDepth[r] = 1 + PrefixDepth(r, size)
    BY <2>1, DepthBounds DEF PrefixDepth
  <2>3. PrefixDepth(r, size) \in Nat
    <3>1. size \in 0 .. size
      BY <1>1
    <3> QED BY <1>4, <3>1
  <2> QED BY <2>2, <2>3
<1> QED BY <1>4, <1>5, <1>6, <1>7

-----------------------------------------------------------------------------
(* What a grammar is asked for.  Of the renumbering it only takes steps.   *)

LEMMA RenumberPart == [OpsNext]_allVars => [Next]_vars
<1>1. RenumberStep => Next
  BY DEF RenumberStep, Next
<1>2. ~RenumberStep /\ Work => UNCHANGED vars
  BY DEF Work, CountTerminal, CountKnown, CallUnknown, Return, Report, ExpandRule
<1>3. StartStats \/ StartStatsEmpty \/ Finished \/ UNCHANGED allVars => UNCHANGED vars
  BY DEF StartStats, StartStatsEmpty, Finished, allVars
<1> QED BY <1>1, <1>2, <1>3 DEF OpsNext

LEMMA OpsInv == OpsSpec => []Inv
<1>1. OpsInit => Inv
  BY InitInv DEF OpsInit
<1>2. Inv /\ [OpsNext]_allVars => Inv'
  BY StepInv, RenumberPart
<1> QED BY <1>1, <1>2, PTL DEF OpsSpec

(* Rules are numbered after the rules they depend on, also when statistics *)
(* may be asked for instead.                                               *)
THEOREM OpsPostOrder == OpsSpec => []PostOrder
<1>1. Inv => PostOrder
  BY DEF Inv
<1> QED BY <1>1, OpsInv, PTL

(* The assignment outside new_rules happens only for a grammar with a rule *)
(* out of reach, also when reproduce_ has the rules renumbered.            *)
THEOREM OpsWildMove == OpsSpec => []WildMoveOnlyIfUnreachable
BY WildMoveOnly, OpsInv, PTL

(* reproduce_ finds the rules in the order it relies on. *)
THEOREM OpsDependencyOrder == OpsSpec => []DependencyOrdered
BY DependencyOrderedDone, OpsInv, PTL

-----------------------------------------------------------------------------
(* reproduce_ *)

(* Where a rule that was put together is found, and what it is.            *)
ExpandInv ==
  /\ pc # "done" => expansions = << >>
  /\ pc = "done" => ~Running
  /\ (pc = "done" /\ NumbersFit) =>
       /\ job # "undefined"
       /\ expansions \in Seq(Seq(Nat)) /\ Len(expansions) <= given.count
       /\ \A r \in Ids(given) :
            renumbering[r] \in 0 .. (Len(expansions) - 1) =>
              expansions[renumbering[r] + 1] = Expansions(given.rules)[r]
       /\ job = "over" => Len(expansions) = given.count /\ given.count # 0

(* The rules after renumbering: each is a rewritten rule of the grammar.   *)
LEMMA RulesDone ==
  ASSUME Inv, pc = "done", given.count # 0
  PROVE  /\ given \in Inputs /\ given.count \in Nat /\ startRule = given.count - 1
         /\ \A r \in Ids(given) : r \in Numbered /\ renumbering[r] \in Ids(given)
         /\ \A r \in Ids(given) : rules[renumbering[r]] = Renumbered(given.rules[r])
         /\ \A i \in Ids(given) : \E r \in Ids(given) : renumbering[r] = i
         /\ \A r, q \in Ids(given) : renumbering[r] = renumbering[q] => r = q
         /\ given.start \in Ids(given) /\ renumbering[given.start] = given.count - 1
<1>1. /\ rules = newRules /\ startRule = count /\ oldId = given.count
      /\ \A r \in Ids(given) : r < oldId => r \in Numbered
                                 /\ newRules[renumbering[r]] = Renumbered(given.rules[r])
  BY DEF Inv, Moved
<1>2. given \in Inputs /\ given.count \in Nat /\ count \in Nat
  BY GivenGrammar DEF Inv, TypeOK
<1>3. Numbered = Ids(given)
  BY <1>1, <1>2 DEF Numbered, Ids
<1>4. Issued = given.count /\ Issued = count + 1
  BY <1>3, NumbersAreIds DEF Issued
<1>5. \A r \in Ids(given) : renumbering[r] \in Ids(given)
  BY <1>3, NumbersAreIds
<1>6. \A i \in Ids(given) : \E r \in Ids(given) : renumbering[r] = i
  BY <1>3, <1>4 DEF Inv, DenseNumbers, Ids
<1>7. \A r, q \in Ids(given) : renumbering[r] = renumbering[q] => r = q
  BY <1>3 DEF Inv, DenseNumbers
<1>8. given.start \in Numbered /\ renumbering[given.start] = Issued - 1
  BY DEF Inv, StartLast
<1>9. \A r \in Ids(given) : rules[renumbering[r]] = Renumbered(given.rules[r])
  BY <1>1, <1>2 DEF Ids
<1> QED BY <1>1, <1>2, <1>3, <1>4, <1>5, <1>6, <1>7, <1>8, <1>9

(* A symbol of a rewritten rule whose number fits its field.               *)
LEMMA RenumberedSymbol ==
  ASSUME Inv, pc = "done", NumbersFit, NEW r \in Ids(given),
         NEW i \in 1 .. Size(given.rules[r])
  PROVE  LET s == given.rules[r].symbols[i]
             t == Renumbered(given.rules[r]).symbols[i]
         IN  /\ s \in Nat
             /\ IsTerminal(s) => t = s
             /\ IsNonTerminal(s) => /\ RuleId(s) \in Ids(given)
                                    /\ RuleId(s) \in Children(given.rules[r])
                                    /\ t = NonTerminal(renumbering[RuleId(s)])
                                    /\ IsNonTerminal(t) /\ RuleId(t) = renumbering[RuleId(s)]
<1> DEFINE rule == given.rules[r]
           s == rule.symbols[i]
           t == Renumbered(rule).symbols[i]
<1>1. given.count # 0
  BY GivenGrammar DEF Inv, TypeOK, Ids
<1>2. IsGrammar(given) /\ rule \in RuleType
  BY <1>1, RulesDone, InputsAssumption, GivenGrammar
<1>3. s \in Nat /\ (IsNonTerminal(s) => RuleId(s) \in Children(rule) /\ RuleId(s) \in Ids(given))
  <2>1. PICK rank \in [Ids(given) -> Ids(given)] : IsRank(given, rank)
    BY <1>2 DEF IsGrammar, IsRuleSet
  <2> QED BY <1>2, <2>1, SymbolFalls
<1>4. t = IF IsTerminal(s) THEN s ELSE Packed(rule.width, NonTerminal(renumbering[RuleId(s)]))
  BY <1>2 DEF Renumbered, RuleType
<1>5. CASE IsTerminal(s)
  BY <1>3, <1>4, <1>5 DEF IsNonTerminal
<1>6. CASE IsNonTerminal(s)
  <2>1. Packed(rule.width, NonTerminal(renumbering[RuleId(s)])) = NonTerminal(renumbering[RuleId(s)])
    BY <1>3, <1>6 DEF NumbersFit
  <2>2. renumbering[RuleId(s)] \in Nat
    BY <1>1, <1>3, <1>6, RulesDone DEF Ids
  <2>3. t = NonTerminal(renumbering[RuleId(s)])
    BY <1>4, <1>6, <2>1 DEF IsNonTerminal
  <2>4. IsNonTerminal(t) /\ RuleId(t) = renumbering[RuleId(s)]
    <3> HIDE DEF t, s, rule
    <3> QED BY <2>2, <2>3, RuleOffsetAssumption DEF IsNonTerminal, IsTerminal, NonTerminal, RuleId
  <2> QED BY <1>3, <1>6, <2>3, <2>4 DEF IsNonTerminal
<1> QED BY <1>5, <1>6 DEF IsNonTerminal

(* The next rule is put together from what is there already, and becomes   *)
(* the string of the rule whose number it has.                             *)
LEMMA ExpandNext ==
  ASSUME Inv, ExpandInv, NumbersFit, Reproducing
  PROVE  \E r \in Ids(given) :
           /\ renumbering[r] = Len(expansions)
           /\ IsExpanded(NextRule)
           /\ Expanded(NextRule) = Expansions(given.rules)[r]
<1> DEFINE n == Len(expansions)
<1>1. /\ pc = "done" /\ expansions \in Seq(Seq(Nat)) /\ n \in Nat /\ n < given.count
      /\ \A r \in Ids(given) : renumbering[r] \in 0 .. (n - 1) =>
           expansions[renumbering[r] + 1] = Expansions(given.rules)[r]
  BY DEF ExpandInv, Reproducing
<1>2. given \in Inputs /\ given.count \in Nat /\ given.count # 0
  BY <1>1, GivenGrammar DEF Inv, TypeOK
<1>3. n \in Ids(given)
  BY <1>1, <1>2 DEF Ids
<1>4. PICK r \in Ids(given) : renumbering[r] = n
  BY <1>1, <1>2, <1>3, RulesDone
<1> DEFINE rule == given.rules[r]
<1>5. NextRule = Renumbered(rule) /\ r \in Numbered
  BY <1>1, <1>2, <1>4, RulesDone DEF NextRule
<1>6. \A c \in Children(NextRule) : c < n
  BY <1>4, <1>5, RenumberedChildren
<1>7. rule \in RuleType /\ Size(rule) \in Nat /\ Size(NextRule) = Size(rule)
  <2>1. rule \in RuleType /\ Size(rule) \in Nat
    BY <1>2, GivenGrammar DEF RuleType, Size
  <2>2. Renumbered(rule).symbols =
          [i \in 1 .. Size(rule) |->
             IF IsTerminal(rule.symbols[i]) THEN rule.symbols[i]
             ELSE Packed(rule.width, NonTerminal(renumbering[RuleId(rule.symbols[i])]))]
    BY <2>1 DEF Renumbered, RuleType
  <2> QED BY <1>5, <2>1, <2>2 DEF Size
<1>8. ASSUME NEW i \in 1 .. Size(rule)
      PROVE  LET s == rule.symbols[i]
                 t == NextRule.symbols[i]
             IN  (IF IsTerminal(t) THEN << t >> ELSE expansions[RuleId(t) + 1]) =
                 (IF IsTerminal(s) THEN << s >> ELSE Expansions(given.rules)[RuleId(s)])
  <2> DEFINE s == rule.symbols[i]
             t == NextRule.symbols[i]
  <2>1. /\ IsTerminal(s) => t = s
        /\ IsNonTerminal(s) => /\ RuleId(s) \in Ids(given)
                               /\ RuleId(s) \in Children(rule)
                               /\ IsNonTerminal(t) /\ RuleId(t) = renumbering[RuleId(s)]
    BY <1>1, <1>5, RenumberedSymbol
  <2>2. CASE IsTerminal(s)
    BY <2>1, <2>2
  <2>3. CASE IsNonTerminal(s)
    <3>1. renumbering[RuleId(s)] < n
      BY <1>4, <1>5, <2>1, <2>3 DEF Inv, PostOrder
    <3>2. renumbering[RuleId(s)] \in 0 .. (n - 1)
      <4>0. \A q \in Ids(given) : renumbering[q] \in Ids(given)
        BY <1>1, <1>2, RulesDone
      <4>1. renumbering[RuleId(s)] \in Nat
        <5>1. RuleId(s) \in Ids(given)
          BY <2>1, <2>3
        <5> HIDE DEF s
        <5>2. renumbering[RuleId(s)] \in Ids(given)
          BY <4>0, <5>1
        <5> QED BY <5>2 DEF Ids
      <4>2. renumbering[RuleId(s)] < n /\ n \in Nat
        BY <1>1, <3>1
      <4> HIDE DEF n, s
      <4> QED BY <4>1, <4>2
    <3> QED BY <1>1, <2>1, <2>3, <3>2 DEF IsNonTerminal
  <2> QED BY <2>2, <2>3 DEF IsNonTerminal
<1>9. Expanded(NextRule) = FlattenSeq(Pieces(given, Expansions(given.rules), r))
  BY <1>7, <1>8 DEF Expanded, Pieces
<1>10. Expanded(NextRule) = Expansions(given.rules)[r]
  BY <1>2, <1>9, InputsAssumption, ExpansionType
<1> QED BY <1>4, <1>6, <1>10 DEF IsExpanded

LEMMA ExpandInit == OpsInit => ExpandInv
BY DEF OpsInit, Init, ExpandInv

(* A step that leaves the new ids, the strings and the progress of         *)
(* reproduce_ alone.                                                       *)
LEMMA ExpandKept ==
  ASSUME ExpandInv, UNCHANGED << vars, expansions >>,
         pc = "done" => job' = job
  PROVE  ExpandInv'
<1>1. NumbersFit' = NumbersFit
  BY DEF NumbersFit, vars
<1> QED BY <1>1 DEF ExpandInv, Running, vars

LEMMA ExpandStep == Inv /\ ExpandInv /\ [OpsNext]_allVars => ExpandInv'
<1> SUFFICES ASSUME Inv, ExpandInv, [OpsNext]_allVars PROVE ExpandInv'
  OBVIOUS
<1>1. CASE RenumberStep
  <2>1. pc # "done" /\ job = "none" /\ job' = job /\ expansions = << >> /\ expansions' = << >>
    BY <1>1 DEF RenumberStep, Step, EnterEmpty, Enter, Descend, NumberRule, BeginRewrite,
                StackExhausted, RewriteRule, WildMove, Publish, ExpandInv, opsVars
  <2>2. given.count \in Nat /\ given' = given
    BY <1>1, GivenGrammar DEF RenumberStep, Step, EnterEmpty, Enter, Descend, NumberRule, BeginRewrite,
                StackExhausted, RewriteRule, WildMove, Publish, Inv, TypeOK
  <2> QED BY <2>1, <2>2 DEF ExpandInv, Running
<1>2. CASE ExpandRule
  <2>1. /\ UNCHANGED vars /\ pc = "done" /\ job = "none" /\ Reproducing
        /\ NumbersFit' = NumbersFit /\ Ids(given)' = Ids(given)
    BY <1>2 DEF ExpandRule, Reproducing, vars, NumbersFit, Ids
  <2>2. ~Running'
    BY <1>2, <2>1 DEF ExpandRule, Running
  <2>3. CASE ~NumbersFit
    BY <2>1, <2>2, <2>3 DEF ExpandInv, vars
  <2>4. CASE NumbersFit
    <3> DEFINE n == Len(expansions)
    <3>1. PICK r \in Ids(given) :
            /\ renumbering[r] = n
            /\ IsExpanded(NextRule)
            /\ Expanded(NextRule) = Expansions(given.rules)[r]
      BY <2>1, <2>4, ExpandNext
    <3>2. /\ expansions' = Append(expansions, Expansions(given.rules)[r])
          /\ job' = IF n = startRule THEN "over" ELSE job
      BY <1>2, <3>1 DEF ExpandRule
    <3>3. expansions \in Seq(Seq(Nat)) /\ n \in Nat /\ n < given.count
      BY <2>1, <2>4 DEF ExpandInv, Reproducing
    <3>4. given \in Inputs /\ given.count \in Nat /\ given.count # 0
      BY <3>3, GivenGrammar DEF Inv, TypeOK
    <3>5. Expansions(given.rules)[r] \in Seq(Nat)
      BY <3>4, InputsAssumption, ExpansionType
    <3>6. /\ expansions' \in Seq(Seq(Nat)) /\ Len(expansions') = n + 1
          /\ \A k \in 1 .. n : expansions'[k] = expansions[k]
          /\ expansions'[n + 1] = Expansions(given.rules)[r]
      BY <3>2, <3>3, <3>5
    <3>7. ASSUME NEW q \in Ids(given), renumbering[q] \in 0 .. n
          PROVE  expansions'[renumbering[q] + 1] = Expansions(given.rules)[q]
      <4>1. renumbering[q] \in Nat
        BY <2>1, <3>4, RulesDone DEF Ids
      <4>2. CASE renumbering[q] = n
        BY <2>1, <3>1, <3>4, <3>6, <4>2, RulesDone
      <4>3. CASE renumbering[q] < n
        <5>1. renumbering[q] \in 0 .. (n - 1) /\ renumbering[q] + 1 \in 1 .. n
          BY <3>3, <4>1, <4>3
        <5>2. expansions[renumbering[q] + 1] = Expansions(given.rules)[q]
          BY <2>1, <2>4, <5>1 DEF ExpandInv
        <5> QED BY <3>6, <5>1, <5>2
      <4> QED BY <3>3, <3>7, <4>1, <4>2, <4>3
    <3>8. job' = "over" => n + 1 = given.count
      BY <2>1, <3>2, <3>3, <3>4, RulesDone
    <3>9. job' # "undefined"
      BY <2>1, <3>2
    <3>10. Len(expansions') <= given.count
      BY <3>3, <3>4, <3>6
    <3> QED BY <2>1, <2>2, <3>4, <3>6, <3>7, <3>8, <3>9, <3>10 DEF ExpandInv, vars
  <2> QED BY <2>3, <2>4
<1>3. CASE StartStats \/ StartStatsEmpty
  BY <1>3, ExpandKept DEF StartStats, StartStatsEmpty
<1>4. CASE CountTerminal \/ CountKnown \/ CallUnknown \/ Return
  BY <1>4, ExpandKept DEF CountTerminal, CountKnown, CallUnknown, Return
<1>5. CASE Report
  BY <1>5, ExpandKept DEF Report, ExpandInv
<1>6. CASE Finished \/ UNCHANGED allVars
  BY <1>6, ExpandKept DEF Finished, allVars, opsVars
<1> QED BY <1>1, <1>2, <1>3, <1>4, <1>5, <1>6 DEF OpsNext, Work

(* "A nonterminal can only be the nonterminal of a rule that has already   *)
(* been fully expanded" (grammar.hpp:269): reproduce_ never reads what is  *)
(* not there, and what comes out is the text, for every grammar whose new  *)
(* numbers fit the fields of the old ones.                                 *)
THEOREM ReproducedCorrectness == OpsSpec => []Reproduced
<1>1. Inv /\ ExpandInv => Reproduced
  <2> SUFFICES ASSUME Inv, ExpandInv, NumbersFit, pc = "done", job = "over"
               PROVE  Last(expansions) = Text(given)
    BY DEF ExpandInv, Reproduced
  <2>1. /\ expansions \in Seq(Seq(Nat)) /\ Len(expansions) = given.count /\ given.count # 0
        /\ \A r \in Ids(given) :
            renumbering[r] \in 0 .. (Len(expansions) - 1) =>
              expansions[renumbering[r] + 1] = Expansions(given.rules)[r]
    BY DEF ExpandInv
  <2>2. given.start \in Ids(given) /\ renumbering[given.start] = given.count - 1 /\ given.count \in Nat
    BY <2>1, RulesDone
  <2>3. expansions[given.count] = Expansions(given.rules)[given.start]
    BY <2>1, <2>2
  <2> QED BY <2>1, <2>3 DEF Last, Text
<1>2. OpsInit => ExpandInv
  BY ExpandInit
<1>3. Inv /\ ExpandInv /\ [OpsNext]_allVars => ExpandInv'
  BY ExpandStep
<1> QED BY <1>1, <1>2, <1>3, OpsInv, PTL DEF OpsSpec

-----------------------------------------------------------------------------
(* Sums over a table.  FoldLeft goes from the last element to the first,   *)
(* over the sets 1 .. k; that there is a function of all sets of elements  *)
(* it can be read off from is shown, again, of the least bound on the      *)
(* elements it could fail for.                                             *)

SumOver(t, n) == FoldLeft(LAMBDA sum, k : sum + t[k - 1], 0, [k \in 1 .. n |-> k])

IsSum(f, t, n) ==
  f = [S \in SUBSET (1 .. n) |-> IF S = {} THEN 0 ELSE f[S \ {Max(S)}] + t[Max(S) - 1]]

LEMMA SumExists ==
  ASSUME NEW t, NEW n \in Nat
  PROVE  \E f : IsSum(f, t, n)
<1> DEFINE sum(f, S) == IF S = {} THEN 0 ELSE f[S \ {Max(S)}] + t[Max(S) - 1]
           right(f, m) == \A S \in SUBSET (1 .. n) : S \subseteq 0 .. m => f[S] = sum(f, S)
           none == {m \in Nat : ~ \E f : right(f, m)}
<1>1. ASSUME NEW S \in SUBSET (1 .. n), S # {}
      PROVE  Max(S) \in S /\ \A k \in S : k <= Max(S)
  <2>1. S \in SUBSET (0 .. n)
    OBVIOUS
  <2> QED BY <1>1, <2>1, MaxOfBounded
<1>2. none = {}
  <2> SUFFICES ASSUME none # {} PROVE FALSE
    OBVIOUS
  <2>1. PICK m \in none : \A k \in none : m <= k
    <3>1. none \subseteq Nat
      OBVIOUS
    <3> HIDE DEF none
    <3> QED BY <3>1, LeastNatural
  <2>2. m \in Nat /\ ~ \E f : right(f, m)
    BY <2>1
  <2>3. m # 0
    <3> DEFINE f == [S \in SUBSET (1 .. n) |-> 0]
    <3>1. \A S \in SUBSET (1 .. n) : S \subseteq 0 .. 0 => S = {}
      OBVIOUS
    <3>2. f[{}] = sum(f, {})
      OBVIOUS
    <3> HIDE DEF f, sum
    <3>3. right(f, 0)
      BY <3>1, <3>2
    <3> HIDE DEF right
    <3> QED BY <2>2, <3>3
  <2>4. m - 1 \in Nat /\ m - 1 \notin none
    <3>1. m - 1 \in Nat /\ ~(m <= m - 1)
      BY <2>2, <2>3
    <3> HIDE DEF none
    <3> QED BY <2>1, <3>1
  <2>5. PICK h : right(h, m - 1)
    BY <2>4
  <2> DEFINE f == [S \in SUBSET (1 .. n) |-> sum(h, S)]
  <2>6. ASSUME NEW S \in SUBSET (1 .. n), S \subseteq 0 .. m PROVE f[S] = sum(f, S)
    <3>1. CASE S = {}
      BY <3>1
    <3>2. CASE S # {}
      <4> DEFINE top == Max(S)
                 rest == S \ {top}
      <4>1. top \in S /\ \A k \in S : k <= top
        BY <1>1, <3>2
      <4> HIDE DEF top
      <4>2. rest \in SUBSET (1 .. n) /\ rest \subseteq 0 .. (m - 1)
        BY <2>2, <2>6, <4>1
      <4>3. h[rest] = sum(h, rest)
        BY <2>5, <4>2
      <4>4. f[rest] = sum(h, rest)
        <5> HIDE DEF sum, rest
        <5> QED BY <4>2
      <4>5. f[S] = h[rest] + t[top - 1]
        BY <3>2 DEF top
      <4>6. sum(f, S) = f[rest] + t[top - 1]
        <5> HIDE DEF f
        <5> QED BY <3>2 DEF top
      <4> QED BY <4>3, <4>4, <4>5, <4>6
    <3> QED BY <3>1, <3>2
  <2>7. right(f, m)
    <3> HIDE DEF f, sum
    <3> QED BY <2>6
  <2> HIDE DEF f, right
  <2> QED BY <2>2, <2>7
<1>3. PICK h : right(h, n)
  BY <1>2
<1> DEFINE f == [S \in SUBSET (1 .. n) |-> h[S]]
<1>4. ASSUME NEW S \in SUBSET (1 .. n) PROVE f[S] = sum(f, S)
  <2>1. S \subseteq 0 .. n
    OBVIOUS
  <2>2. f[S] = h[S] /\ h[S] = sum(h, S)
    <3> HIDE DEF sum
    <3> QED BY <1>3, <2>1
  <2>3. sum(f, S) = sum(h, S)
    OBVIOUS
  <2> QED BY <2>2, <2>3
<1> HIDE DEF right, none
<1>5. f = [S \in SUBSET (1 .. n) |-> f[S]]
  OBVIOUS
<1> HIDE DEF f
<1>6. IsSum(f, t, n)
  BY <1>4, <1>5 DEF IsSum
<1> QED BY <1>6

(* So a sum over a table is the last of its partial sums. *)
LEMMA PartialSums ==
  ASSUME NEW t, NEW n \in Nat
  PROVE  \E p : /\ p[0] = 0
                /\ \A k \in 0 .. (n - 1) : p[k + 1] = p[k] + t[k]
                /\ SumOver(t, n) = p[n]
<1> DEFINE seq == [k \in 1 .. n |-> k]
           IsFold(f) == f = [S \in SUBSET DOMAIN seq |->
                               IF S = {} THEN 0 ELSE f[S \ {Max(S)}] + t[seq[Max(S)] - 1]]
<1>1. ASSUME NEW S \in SUBSET (1 .. n), S # {}
      PROVE  Max(S) \in S /\ seq[Max(S)] = Max(S)
  <2>1. S \in SUBSET (0 .. n)
    OBVIOUS
  <2>2. Max(S) \in S
    BY <1>1, <2>1, MaxOfBounded
  <2> QED BY <2>2
<1>2. DOMAIN seq = 1 .. n
  OBVIOUS
<1>3. ASSUME NEW f PROVE IsFold(f) <=> IsSum(f, t, n)
  <2> HIDE DEF seq
  <2> QED BY <1>1, <1>2 DEF IsSum
<1>4. \E f : IsFold(f)
  <2> HIDE DEF IsFold
  <2> QED BY <1>3, SumExists
<1>5. \E f : IsFold(f) /\ SumOver(t, n) = f[DOMAIN seq]
  BY <1>4, Zenon DEF SumOver, FoldLeft, MapThenFoldSet
<1>6. PICK f : IsSum(f, t, n) /\ SumOver(t, n) = f[1 .. n]
  <2> HIDE DEF IsFold, seq
  <2> QED BY <1>2, <1>3, <1>5
<1> DEFINE p == [k \in 0 .. n |-> f[1 .. k]]
<1>7. ASSUME NEW S \in SUBSET (1 .. n)
      PROVE  f[S] = IF S = {} THEN 0 ELSE f[S \ {Max(S)}] + t[Max(S) - 1]
  <2>1. f = [R \in SUBSET (1 .. n) |-> IF R = {} THEN 0 ELSE f[R \ {Max(R)}] + t[Max(R) - 1]]
    BY <1>6 DEF IsSum
  <2> QED BY <2>1, Zenon
<1>8. p[0] = 0
  <2>1. 1 .. 0 = {} /\ {} \in SUBSET (1 .. n) /\ 0 \in 0 .. n
    OBVIOUS
  <2>2. f[{}] = 0
    BY <1>7, <2>1
  <2> QED BY <2>1, <2>2
<1>9. ASSUME NEW k \in 0 .. (n - 1) PROVE p[k + 1] = p[k] + t[k]
  <2> DEFINE S == 1 .. (k + 1)
  <2>1. /\ k \in Nat /\ S \in SUBSET (1 .. n) /\ k + 1 \in S /\ \A j \in S : j <= k + 1
        /\ S \subseteq Nat /\ S \ {k + 1} = 1 .. k /\ (k + 1) - 1 = k
        /\ k \in 0 .. n /\ k + 1 \in 0 .. n
    OBVIOUS
  <2>2. p[k] = f[1 .. k] /\ p[k + 1] = f[S]
    BY <2>1
  <2> HIDE DEF S, p
  <2>3. Max(S) = k + 1
    BY <2>1, MaxIs
  <2>4. f[S] = f[S \ {Max(S)}] + t[Max(S) - 1]
    BY <1>7, <2>1
  <2>5. f[S] = f[1 .. k] + t[k]
    BY <2>1, <2>3, <2>4
  <2> QED BY <2>2, <2>5
<1>10. SumOver(t, n) = p[n]
  BY <1>6
<1> QED BY <1>8, <1>9, <1>10

(* Of two tables, one nowhere smaller than the other, the sums are equal   *)
(* exactly if the tables are.                                              *)
LEMMA SumsCompare ==
  ASSUME NEW n \in Nat, NEW t, NEW u,
         \A k \in 0 .. (n - 1) : t[k] \in Nat /\ u[k] \in Nat /\ u[k] <= t[k]
  PROVE  /\ SumOver(t, n) \in Nat
         /\ SumOver(t, n) = SumOver(u, n) <=> \A k \in 0 .. (n - 1) : t[k] = u[k]
<1>1. PICK p : /\ p[0] = 0
               /\ \A k \in 0 .. (n - 1) : p[k + 1] = p[k] + t[k]
               /\ SumOver(t, n) = p[n]
  BY PartialSums
<1>2. PICK q : /\ q[0] = 0
               /\ \A k \in 0 .. (n - 1) : q[k + 1] = q[k] + u[k]
               /\ SumOver(u, n) = q[n]
  BY PartialSums
<1> DEFINE good(k) == /\ p[k] \in Nat /\ q[k] \in Nat /\ q[k] <= p[k]
                      /\ p[k] = q[k] <=> \A j \in 0 .. (k - 1) : t[j] = u[j]
           bad == {k \in 0 .. n : ~good(k)}
<1>3. bad = {}
  <2> SUFFICES ASSUME bad # {} PROVE FALSE
    OBVIOUS
  <2>1. PICK k \in bad : \A j \in bad : k <= j
    <3>1. bad \subseteq Nat
      OBVIOUS
    <3> HIDE DEF bad
    <3> QED BY <3>1, LeastNatural
  <2>2. k \in 0 .. n /\ ~good(k)
    BY <2>1
  <2>3. k # 0
    <3>1. good(0)
      BY <1>1, <1>2
    <3> HIDE DEF good
    <3> QED BY <2>2, <3>1
  <2> DEFINE i == k - 1
  <2>4. i \in 0 .. (n - 1) /\ i \in 0 .. n /\ i + 1 = k /\ ~(k <= i) /\ i \in Nat
    BY <2>2, <2>3
  <2> HIDE DEF i
  <2>5. good(i)
    <3>1. i \notin bad
      <4> HIDE DEF bad
      <4> QED BY <2>1, <2>4
    <3> HIDE DEF good
    <3> QED BY <2>4, <3>1
  <2>6. /\ p[k] = p[i] + t[i] /\ q[k] = q[i] + u[i]
        /\ t[i] \in Nat /\ u[i] \in Nat /\ u[i] <= t[i]
    BY <1>1, <1>2, <2>4
  <2>7. p[i] \in Nat /\ q[i] \in Nat /\ q[i] <= p[i]
    BY <2>5
  <2>8. p[k] \in Nat /\ q[k] \in Nat /\ q[k] <= p[k] /\ (p[k] = q[k] <=> p[i] = q[i] /\ t[i] = u[i])
    <3> DEFINE pi == p[i]
               qi == q[i]
               ti == t[i]
               ui == u[i]
    <3> HIDE DEF pi, qi, ti, ui
    <3>1. /\ p[k] = pi + ti /\ q[k] = qi + ui /\ ti \in Nat /\ ui \in Nat /\ ui <= ti
          /\ pi \in Nat /\ qi \in Nat /\ qi <= pi
      BY <2>6, <2>7 DEF pi, qi, ti, ui
    <3>2. p[k] \in Nat /\ q[k] \in Nat /\ q[k] <= p[k] /\ (p[k] = q[k] <=> pi = qi /\ ti = ui)
      BY <3>1
    <3> QED BY <3>2 DEF pi, qi, ti, ui
  <2>9. (\A j \in 0 .. (k - 1) : t[j] = u[j]) <=> (\A j \in 0 .. (i - 1) : t[j] = u[j]) /\ t[i] = u[i]
    <3>1. \A j : j \in 0 .. (k - 1) <=> j \in 0 .. (i - 1) \/ j = i
      BY <2>4
    <3> QED BY <3>1
  <2>10. p[i] = q[i] <=> \A j \in 0 .. (i - 1) : t[j] = u[j]
    BY <2>5
  <2> QED BY <2>2, <2>8, <2>9, <2>10
<1>4. good(n)
  <2>1. n \in 0 .. n
    OBVIOUS
  <2> HIDE DEF good
  <2> QED BY <1>3, <2>1
<1> QED BY <1>1, <1>2, <1>4

-----------------------------------------------------------------------------
(* The statistics: calls in progress, the table, and what is reported. *)

(* How much of a rule's length or depth its first n symbols make up.       *)
Partial(kind, r, n) == IF kind = "length" THEN PrefixLength(given, r, n) ELSE PrefixDepth(r, n)

(* What is to be computed depends on the grammar given only. *)
LEMMA TruthKept ==
  ASSUME given' = given
  PROVE  /\ Ids(given)' = Ids(given) /\ Reachable(given)' = Reachable(given)
         /\ \A kind, r : True(kind, r)' = True(kind, r)
         /\ \A kind, r, n : Partial(kind, r, n)' = Partial(kind, r, n)
<1>1. TrueDepth' = TrueDepth
  BY Zenon DEF TrueDepth
<1>2. \A kind, r : True(kind, r)' = True(kind, r)
  BY <1>1 DEF True, TrueLength
<1>3. \A r, n : PrefixDepth(r, n)' = PrefixDepth(r, n)
  BY <1>1 DEF PrefixDepth, PrefixDepths
<1>4. \A kind, r, n : Partial(kind, r, n)' = Partial(kind, r, n)
  BY <1>3 DEF Partial
<1> QED BY <1>2, <1>4

Known == {r \in Ids(given) : lookup[r] # Unknown}

CallType == [rule : Ids(given), next : Nat, value : Nat]

(* The value of a call in progress is right for the symbols it has passed, *)
(* and the rules these name are known.                                     *)
CallRight(call) ==
  LET rule == given.rules[call.rule]
  IN  /\ call.next <= Size(rule)
      /\ call.value = Partial(job, call.rule, call.next)
      /\ call.rule \in Reachable(given)
      /\ \A j \in 0 .. (call.next - 1) : IsNonTerminal(At(rule, j)) => RuleId(At(rule, j)) \in Known

(* The rules known have right values; they are in reach of the start rule, *)
(* and with a rule its children are known.                                 *)
TableRight ==
  \A r \in Known :
    lookup[r] = True(job, r) /\ r \in Reachable(given) /\ Children(given.rules[r]) \subseteq Known

RunInv ==
  Running =>
    /\ pc = "enter" /\ given.count # 0
    /\ frames \in Seq(CallType) /\ lookup \in [Ids(given) -> Nat]
    /\ \A k \in 1 .. Len(frames) : CallRight(frames[k])
    /\ TableRight
    /\ IF frames = << >> THEN given.start \in Known ELSE frames[1].rule = given.start

Truth(kind) == [r \in Ids(given) |-> True(kind, r)]

Reported(kind, entry) ==
  /\ entry.value = True(kind, given.start)
  /\ entry.total = SumOver(Truth(kind), given.count) <=> Reachable(given) = Ids(given)

ReportInv ==
  /\ report \in Seq([value : Nat, total : Nat])
  /\ \A k \in 1 .. Len(report) : Reported(IF k = 1 THEN "length" ELSE "depth", report[k])
  /\ job \in {"none", "length", "undefined"} => Len(report) = 0
  /\ job = "depth" => Len(report) = 1

StatsInv == RunInv /\ ReportInv

(* The last element of a sequence, and the rest of it. *)
LEMMA FrontAndLast ==
  ASSUME NEW S, NEW s \in Seq(S), s # << >>
  PROVE  /\ Len(s) \in Nat \ {0} /\ Last(s) = s[Len(s)] /\ Last(s) \in S
         /\ Front(s) \in Seq(S) /\ Len(Front(s)) = Len(s) - 1
         /\ \A k \in 1 .. (Len(s) - 1) : Front(s)[k] = s[k]
<1>1. Len(s) \in Nat \ {0}
  BY EmptySeq
<1>2. Front(s) = SubSeq(s, 1, Len(s) - 1) /\ Last(s) = s[Len(s)]
  BY DEF Front, Last
<1> DEFINE l == Len(s) - 1
<1>3. l \in Nat /\ Len(s) = l + 1 /\ \A k \in 1 .. Len(s) : s[k] \in S
  BY <1>1, ElementOfSeq
<1> HIDE DEF l
<1>4. 1 \in Int /\ l \in Int /\ \A k \in 1 .. l : s[k] \in S
  BY <1>3
<1>5. /\ SubSeq(s, 1, l) \in Seq(S) /\ Len(SubSeq(s, 1, l)) = IF 1 <= l THEN l - 1 + 1 ELSE 0
      /\ \A k \in 1 .. (l - 1 + 1) : SubSeq(s, 1, l)[k] = s[1 + k - 1]
  BY <1>4, SubSeqProperties
<1>6. Len(SubSeq(s, 1, l)) = l /\ \A k \in 1 .. l : SubSeq(s, 1, l)[k] = s[k]
  BY <1>3, <1>5
<1>7. s[Len(s)] \in S
  BY <1>1, <1>3
<1> QED BY <1>1, <1>2, <1>5, <1>6, <1>7 DEF l

(* While statistics are computed, the grammar is as it was given. *)
LEMMA GivenRunning ==
  ASSUME Inv, Running, RunInv
  PROVE  /\ given \in Inputs /\ IsGrammar(given) /\ rules = given.rules
         /\ startRule = given.start /\ given.start \in Ids(given) /\ given.count \in Nat
         /\ job \in {"length", "depth"}
BY InputsAssumption, GivenGrammar DEF Inv, TypeOK, Untouched, Running, RunInv

LEMMA TruthIs ==
  ASSUME given \in Inputs, NEW kind \in {"length", "depth"}, NEW r \in Ids(given)
  PROVE  True(kind, r) \in Nat /\ True(kind, r) < Unknown
<1>1. IsGrammar(given) /\ given.count \in Nat
  BY InputsAssumption DEF IsGrammar, IsRuleSet
<1>2. Unknown \in Int
  BY WidthAssumption DEF Unknown
<1>3. Len(Expansions(given.rules)[r]) \in Nat /\ Len(Expansions(given.rules)[r]) < Unknown
  <2>1. Expansions(given.rules)[r] \in Seq(Nat)
    BY <1>1, ExpansionType
  <2>2. Len(Expansions(given.rules)[r]) \in Nat
    BY <2>1
  <2> QED BY <2>2, SizesAssumption
<1>4. TrueDepth[r] \in Nat /\ TrueDepth[r] < Unknown
  <2>1. TrueDepth[r] \in 1 .. given.count
    BY <1>1, DepthBounds
  <2>2. given.count < Unknown
    BY SizesAssumption
  <2> QED BY <1>1, <1>2, <2>1, <2>2
<1> QED BY <1>3, <1>4 DEF True, TrueLength

(* How the value of a call grows from symbol to symbol, and what it is in  *)
(* the end.                                                                *)
LEMMA PartialIs ==
  ASSUME given \in Inputs, NEW kind \in {"length", "depth"}, NEW r \in Ids(given)
  PROVE  /\ Partial(kind, r, 0) = 0
         /\ \A n \in 0 .. Size(given.rules[r]) : Partial(kind, r, n) \in Nat
         /\ \A n \in 0 .. (Size(given.rules[r]) - 1) :
              LET s == At(given.rules[r], n)
                  p == Partial(kind, r, n)
              IN  Partial(kind, r, n + 1) =
                    IF IsTerminal(s) THEN (IF kind = "length" THEN p + 1 ELSE p)
                    ELSE IF kind = "length" THEN p + True(kind, RuleId(s))
                         ELSE Max({p, True(kind, RuleId(s))})
         /\ True(kind, r) = IF kind = "length" THEN Partial(kind, r, Size(given.rules[r]))
                            ELSE Partial(kind, r, Size(given.rules[r])) + 1
<1>1. IsGrammar(given)
  BY InputsAssumption
<1>2. CASE kind = "length"
  <2>1. \A n, q : Partial(kind, r, n) = PrefixLength(given, r, n) /\ True(kind, q) = Len(Expansions(given.rules)[q])
    BY <1>2 DEF Partial, True, TrueLength
  <2> QED BY <1>1, <1>2, <2>1, PrefixLengths
<1>3. CASE kind = "depth"
  <2>1. \A n, q : Partial(kind, r, n) = PrefixDepth(r, n) /\ True(kind, q) = TrueDepth[q]
    BY <1>3 DEF Partial, True
  <2>2. kind # "length"
    BY <1>3
  <2> QED BY <1>1, <2>1, <2>2, PrefixDepthIs
<1> QED BY <1>2, <1>3

(* The call on top. *)
LEMMA TopCall ==
  ASSUME Inv, RunInv, Running, frames # << >>
  PROVE  /\ Len(frames) \in Nat \ {0}
         /\ Frame1 = frames[Len(frames)] /\ Frame1 \in CallType /\ CallRight(Frame1)
         /\ Front(frames) \in Seq(CallType) /\ Len(Front(frames)) = Len(frames) - 1
         /\ \A k \in 1 .. (Len(frames) - 1) : Front(frames)[k] = frames[k]
         /\ Frame1.rule \in Ids(given) /\ Frame1.next \in Nat /\ Frame1.value \in Nat
         /\ rules[Frame1.rule] = given.rules[Frame1.rule]
         /\ given.rules[Frame1.rule] \in RuleType /\ Size(given.rules[Frame1.rule]) \in Nat
         /\ Children(given.rules[Frame1.rule]) \subseteq Ids(given)
<1>1. frames \in Seq(CallType)
  BY DEF RunInv
<1>2. /\ Len(frames) \in Nat \ {0} /\ Last(frames) = frames[Len(frames)] /\ Last(frames) \in CallType
      /\ Front(frames) \in Seq(CallType) /\ Len(Front(frames)) = Len(frames) - 1
      /\ \A k \in 1 .. (Len(frames) - 1) : Front(frames)[k] = frames[k]
  BY <1>1, FrontAndLast
<1>3. CallRight(Frame1)
  BY <1>2 DEF RunInv, Frame1
<1>4. Frame1.rule \in Ids(given) /\ Frame1.next \in Nat /\ Frame1.value \in Nat
  BY <1>2 DEF CallType, Frame1
<1>5. /\ rules = given.rules /\ given.rules[Frame1.rule] \in RuleType
      /\ Children(given.rules[Frame1.rule]) \subseteq Ids(given)
  BY <1>4, GivenRunning, GivenGrammar
<1> QED BY <1>2, <1>3, <1>4, <1>5 DEF Frame1, RuleType, Size

(* What was right stays right as more becomes known. *)
LEMMA CallKept ==
  ASSUME given' = given, job' = job, Known \subseteq Known'
  PROVE  \A call : CallRight(call) => CallRight(call)'
<1> SUFFICES ASSUME NEW call, CallRight(call) PROVE CallRight(call)'
  OBVIOUS
<1>1. Partial(job, call.rule, call.next)' = Partial(job, call.rule, call.next)
  BY TruthKept
<1>2. Reachable(given)' = Reachable(given)
  BY TruthKept
<1> QED BY <1>1, <1>2 DEF CallRight

LEMMA TableKept ==
  ASSUME given' = given, job' = job, lookup' = lookup, TableRight PROVE TableRight' /\ Known' = Known
<1>1. Known' = Known
  BY DEF Known
<1>2. \A r : True(job, r)' = True(job, r)
  BY TruthKept
<1>3. Reachable(given)' = Reachable(given)
  BY TruthKept
<1> QED BY <1>1, <1>2, <1>3 DEF TableRight

LEMMA ReportKept ==
  ASSUME ReportInv, UNCHANGED << given, job, report >> PROVE ReportInv'
<1>1. \A kind, entry : Reported(kind, entry)' = Reported(kind, entry)
  <2> SUFFICES ASSUME NEW kind, NEW entry PROVE Reported(kind, entry)' = Reported(kind, entry)
    OBVIOUS
  <2>1. Truth(kind)' = Truth(kind)
    BY TruthKept DEF Truth
  <2>2. True(kind, given.start)' = True(kind, given.start)
    BY TruthKept
  <2> QED BY <2>1, <2>2, TruthKept DEF Reported
<1> QED BY <1>1 DEF ReportInv

(* A call that has passed one more symbol. *)
LEMMA PassSymbol ==
  ASSUME Inv, RunInv, Running, frames # << >>, NEW new, new \in CallType, CallRight(new),
         new.rule = Frame1.rule, frames' = Append(Front(frames), new),
         UNCHANGED << pc, given, job, lookup >>
  PROVE  RunInv'
<1> DEFINE n == Len(frames)
<1>1. /\ n \in Nat \ {0} /\ Front(frames) \in Seq(CallType) /\ Len(Front(frames)) = n - 1
      /\ \A k \in 1 .. (n - 1) : Front(frames)[k] = frames[k]
  BY TopCall
<1>2. /\ frames' \in Seq(CallType) /\ Len(frames') = n /\ frames'[n] = new
      /\ \A k \in 1 .. (n - 1) : frames'[k] = frames[k]
  <2> DEFINE front == Front(frames)
  <2> HIDE DEF front, n
  <2>1. /\ n \in Nat \ {0} /\ front \in Seq(CallType) /\ Len(front) = n - 1
        /\ \A k \in 1 .. (n - 1) : front[k] = frames[k]
    BY <1>1 DEF front
  <2>2. /\ Append(front, new) \in Seq(CallType) /\ Len(Append(front, new)) = n /\ Append(front, new)[n] = new
        /\ \A k \in 1 .. (n - 1) : Append(front, new)[k] = front[k]
    BY <2>1
  <2> QED BY <2>1, <2>2 DEF front
<1>3. TableRight' /\ Known' = Known
  BY TableKept DEF RunInv
<1>4. \A call : CallRight(call) => CallRight(call)'
  BY <1>3, CallKept
<1>5. \A k \in 1 .. n : CallRight(frames[k])'
  <2> SUFFICES ASSUME NEW k \in 1 .. n PROVE CallRight(frames[k])'
    OBVIOUS
  <2>1. CallRight(frames'[k])
    <3>1. CASE k = n
      BY <1>2, <3>1
    <3>2. CASE k # n
      <4>1. k \in 1 .. (n - 1) /\ k \in 1 .. Len(frames)
        BY <1>1, <3>2
      <4> QED BY <1>2, <4>1 DEF RunInv
    <3> QED BY <3>1, <3>2
  <2>2. PICK call : call = frames'[k]
    OBVIOUS
  <2>3. CallRight(call)'
    BY <1>4, <2>1, <2>2
  <2> QED BY <2>2, <2>3 DEF CallRight
<1>6. frames' # << >> /\ frames'[1].rule = given.start
  <2>1. frames' # << >>
    BY <1>1, <1>2, EmptySeq
  <2>2. CASE n = 1
    BY <1>2, <2>2, TopCall DEF RunInv
  <2>3. CASE n # 1
    <3>1. 1 \in 1 .. (n - 1)
      BY <1>1, <2>3
    <3> QED BY <1>2, <3>1 DEF RunInv
  <2> QED BY <2>1, <2>2, <2>3
<1>7. Ids(given)' = Ids(given) /\ CallType' = CallType
  BY DEF Ids, CallType
<1>8. Len(frames') = n
  BY <1>2
<1> HIDE DEF n
<1> QED BY <1>2, <1>3, <1>5, <1>6, <1>7, <1>8 DEF RunInv, Running

(* The symbol the call on top looks at. *)
LEMMA SymbolNext ==
  ASSUME Inv, RunInv, MoreSymbols
  PROVE  /\ Frame1.next \in 0 .. (Size(given.rules[Frame1.rule]) - 1)
         /\ SymbolHere = At(given.rules[Frame1.rule], Frame1.next)
         /\ SymbolHere \in Nat
         /\ IsNonTerminal(SymbolHere) => /\ RuleId(SymbolHere) \in Ids(given)
                                         /\ RuleId(SymbolHere) \in Children(given.rules[Frame1.rule])
<1> DEFINE rule == given.rules[Frame1.rule]
<1>1. /\ Frame1.next \in Nat /\ rules[Frame1.rule] = rule /\ rule \in RuleType /\ Size(rule) \in Nat
      /\ Children(rule) \subseteq Ids(given) /\ Frame1.next < Size(rule)
  BY TopCall DEF MoreSymbols
<1>2. Frame1.next \in 0 .. (Size(rule) - 1)
  <2> HIDE DEF rule
  <2> QED BY <1>1
<1>3. SymbolHere = At(rule, Frame1.next)
  BY <1>1 DEF SymbolHere
<1>4. /\ At(rule, Frame1.next) \in Nat
      /\ IsNonTerminal(At(rule, Frame1.next)) => RuleId(At(rule, Frame1.next)) \in Children(rule)
  BY <1>1, <1>2, SymbolAt
<1> QED BY <1>1, <1>2, <1>3, <1>4

LEMMA CountedRight ==
  ASSUME Inv, RunInv, MoreSymbols, NEW value,
         value = Partial(job, Frame1.rule, Frame1.next + 1),
         IsNonTerminal(SymbolHere) => RuleId(SymbolHere) \in Known
  PROVE  /\ Counted1(value) \in CallType /\ CallRight(Counted1(value))
         /\ Counted1(value).rule = Frame1.rule
<1> DEFINE r == Frame1.rule
           n == Frame1.next
           rule == given.rules[r]
<1>1. /\ n \in 0 .. (Size(rule) - 1) /\ SymbolHere = At(rule, n)
  BY SymbolNext
<1>2. /\ Frame1 \in CallType /\ CallRight(Frame1) /\ r \in Ids(given) /\ Size(rule) \in Nat /\ n \in Nat
  BY TopCall DEF MoreSymbols
<1>4. n + 1 \in 0 .. Size(rule) /\ n + 1 \in Nat /\ n + 1 <= Size(rule)
  <2> HIDE DEF n, rule
  <2> QED BY <1>1, <1>2
<1>5. value \in Nat
  <2>1. given \in Inputs /\ job \in {"length", "depth"}
    BY GivenRunning DEF MoreSymbols
  <2>2. \A k \in 0 .. Size(rule) : Partial(job, r, k) \in Nat
    BY <1>2, <2>1, PartialIs
  <2> QED BY <1>4, <2>2
<1>6. ASSUME NEW j \in 0 .. n, IsNonTerminal(At(rule, j)) PROVE RuleId(At(rule, j)) \in Known
  <2>1. j \in 0 .. (n - 1) \/ j = n
    <3> HIDE DEF n
    <3> QED BY <1>2
  <2> QED BY <1>1, <1>2, <1>6, <2>1 DEF CallRight
<1> DEFINE call == Counted1(value)
<1>7. call \in CallType /\ call.rule = r /\ call.next = n + 1 /\ call.value = value
  <2>1. PICK old : old = Frame1
    OBVIOUS
  <2>2. call = [old EXCEPT !.next = @ + 1, !.value = value]
    BY <2>1 DEF Counted1
  <2>3. old \in [rule : Ids(given), next : Nat, value : Nat] /\ value \in Nat
    BY <1>2, <1>5, <2>1 DEF CallType
  <2> HIDE DEF call
  <2>4. PICK q \in Ids(given), m \in Nat, v \in Nat : old = [rule |-> q, next |-> m, value |-> v]
    BY <2>3
  <2>5. call = [rule |-> q, next |-> m + 1, value |-> value]
    BY <2>2, <2>4
  <2>6. /\ call \in [rule : Ids(given), next : Nat, value : Nat]
        /\ call.rule = old.rule /\ call.next = old.next + 1 /\ call.value = value
    BY <2>3, <2>4, <2>5
  <2> QED BY <2>1, <2>6 DEF CallType
<1>8. CallRight(call)
  <2>1. r \in Reachable(given)
    BY <1>2 DEF CallRight
  <2> HIDE DEF r, n, call, rule
  <2>2. call.value = Partial(job, call.rule, call.next)
    BY <1>7 DEF r, n
  <2>3. call.next <= Size(given.rules[call.rule])
    BY <1>4, <1>7 DEF rule
  <2>4. \A j \in 0 .. (call.next - 1) :
          IsNonTerminal(At(given.rules[call.rule], j)) => RuleId(At(given.rules[call.rule], j)) \in Known
    <3>1. n + 1 - 1 = n /\ call.next - 1 = n
      BY <1>2, <1>7
    <3> QED BY <1>6, <1>7, <3>1 DEF rule
  <2> QED BY <1>7, <2>1, <2>2, <2>3, <2>4 DEF CallRight
<1> QED BY <1>7, <1>8

LEMMA CountTerminalRuns == Inv /\ RunInv /\ CountTerminal => RunInv'
<1> SUFFICES ASSUME Inv, RunInv, CountTerminal PROVE RunInv'
  OBVIOUS
<1> DEFINE value == IF job = "length" THEN Frame1.value + 1 ELSE Frame1.value
<1>1. /\ MoreSymbols /\ Running /\ frames # << >> /\ IsTerminal(SymbolHere)
      /\ frames' = Append(Front(frames), Counted1(value))
      /\ UNCHANGED << pc, given, job, lookup >>
  BY DEF CountTerminal, MoreSymbols, vars
<1>2. /\ Frame1.next \in 0 .. (Size(given.rules[Frame1.rule]) - 1)
      /\ SymbolHere = At(given.rules[Frame1.rule], Frame1.next)
  BY <1>1, SymbolNext
<1>3. Frame1.rule \in Ids(given) /\ Frame1.value = Partial(job, Frame1.rule, Frame1.next)
  BY <1>1, TopCall DEF CallRight
<1>4. given \in Inputs /\ job \in {"length", "depth"}
  BY <1>1, GivenRunning
<1>5. value = Partial(job, Frame1.rule, Frame1.next + 1)
  BY <1>1, <1>2, <1>3, <1>4, PartialIs
<1> HIDE DEF value
<1>6. Counted1(value) \in CallType /\ CallRight(Counted1(value)) /\ Counted1(value).rule = Frame1.rule
  BY <1>1, <1>5, CountedRight DEF IsNonTerminal
<1> QED BY <1>1, <1>6, PassSymbol

LEMMA CountKnownRuns == Inv /\ RunInv /\ CountKnown => RunInv'
<1> SUFFICES ASSUME Inv, RunInv, CountKnown PROVE RunInv'
  OBVIOUS
<1> DEFINE known == lookup[RuleId(SymbolHere)]
           value == IF job = "length" THEN Frame1.value + known ELSE Max({Frame1.value, known})
<1>1. /\ MoreSymbols /\ Running /\ frames # << >> /\ IsNonTerminal(SymbolHere) /\ known # Unknown
      /\ frames' = Append(Front(frames), Counted1(value))
      /\ UNCHANGED << pc, given, job, lookup >>
  BY DEF CountKnown, MoreSymbols, vars
<1>2. /\ Frame1.next \in 0 .. (Size(given.rules[Frame1.rule]) - 1)
      /\ SymbolHere = At(given.rules[Frame1.rule], Frame1.next)
      /\ RuleId(SymbolHere) \in Ids(given)
  BY <1>1, SymbolNext
<1>3. Frame1.rule \in Ids(given) /\ Frame1.value = Partial(job, Frame1.rule, Frame1.next)
  BY <1>1, TopCall DEF CallRight
<1>4. given \in Inputs /\ job \in {"length", "depth"}
  BY <1>1, GivenRunning
<1>5. RuleId(SymbolHere) \in Known /\ known = True(job, RuleId(SymbolHere))
  BY <1>1, <1>2 DEF Known, RunInv, TableRight
<1>6. value = Partial(job, Frame1.rule, Frame1.next + 1)
  <2>1. ~IsTerminal(SymbolHere)
    BY <1>1 DEF IsNonTerminal
  <2> HIDE DEF known
  <2> QED BY <1>2, <1>3, <1>4, <1>5, <2>1, PartialIs
<1> HIDE DEF value
<1>7. Counted1(value) \in CallType /\ CallRight(Counted1(value)) /\ Counted1(value).rule = Frame1.rule
  BY <1>1, <1>5, <1>6, CountedRight
<1> QED BY <1>1, <1>7, PassSymbol

(* A rule begins to be computed. *)
LEMMA CallStarts ==
  ASSUME given \in Inputs, job \in {"length", "depth"}, NEW r \in Ids(given), r \in Reachable(given)
  PROVE  Call(r) \in CallType /\ CallRight(Call(r))
<1>1. Call(r).rule = r /\ Call(r).next = 0 /\ Call(r).value = 0 /\ Call(r) \in CallType
  BY DEF Call, CallType
<1>2. Partial(job, r, 0) = 0
  BY PartialIs
<1>3. Size(given.rules[r]) \in Nat
  BY GivenGrammar DEF RuleType, Size
<1> QED BY <1>1, <1>2, <1>3 DEF CallRight

(* What occurs in a rule in reach is in reach. *)
LEMMA ReachDown ==
  ASSUME given \in Inputs, NEW r \in Reachable(given), NEW c \in Children(given.rules[r])
  PROVE  c \in Reachable(given)
<1>1. r \in Ids(given) /\ c \in Ids(given)
  BY GivenGrammar DEF Reachable
<1>2. ASSUME NEW S \in SUBSET Ids(given), IsClosed(given, S) PROVE c \in S
  <2>1. r \in S
    BY <1>2 DEF Reachable
  <2> QED BY <1>2, <2>1 DEF IsClosed
<1> QED BY <1>1, <1>2 DEF Reachable

LEMMA CallUnknownRuns == Inv /\ RunInv /\ CallUnknown => RunInv'
<1> SUFFICES ASSUME Inv, RunInv, CallUnknown PROVE RunInv'
  OBVIOUS
<1> DEFINE n == Len(frames)
           c == RuleId(SymbolHere)
<1>1. /\ MoreSymbols /\ Running /\ frames # << >> /\ IsNonTerminal(SymbolHere)
      /\ frames' = Append(frames, Call(c))
      /\ UNCHANGED << pc, given, job, lookup >>
  BY DEF CallUnknown, MoreSymbols, vars
<1>2. c \in Ids(given) /\ c \in Children(given.rules[Frame1.rule])
  BY <1>1, SymbolNext
<1>3. given \in Inputs /\ job \in {"length", "depth"}
  BY <1>1, GivenRunning
<1>4. c \in Reachable(given)
  BY <1>1, <1>2, <1>3, TopCall, ReachDown DEF CallRight
<1>5. Call(c) \in CallType /\ CallRight(Call(c))
  BY <1>2, <1>3, <1>4, CallStarts
<1>6. n \in Nat \ {0} /\ frames \in Seq(CallType)
  BY <1>1, TopCall DEF RunInv
<1>7. /\ frames' \in Seq(CallType) /\ Len(frames') = n + 1 /\ frames'[n + 1] = Call(c)
      /\ \A k \in 1 .. n : frames'[k] = frames[k]
  BY <1>1, <1>5, <1>6
<1>8. TableRight' /\ Known' = Known
  BY <1>1, TableKept DEF RunInv
<1>9. \A call : CallRight(call) => CallRight(call)'
  BY <1>1, <1>8, CallKept
<1>10. ASSUME NEW k \in 1 .. (n + 1) PROVE CallRight(frames[k])'
  <2>1. CallRight(frames'[k])
    <3>1. CASE k = n + 1
      BY <1>5, <1>7, <3>1
    <3>2. CASE k # n + 1
      <4>1. k \in 1 .. n
        <5> HIDE DEF n
        <5> QED BY <1>6, <3>2
      <4> QED BY <1>1, <1>7, <4>1 DEF RunInv
    <3> QED BY <3>1, <3>2
  <2>2. PICK call : call = frames'[k]
    OBVIOUS
  <2>3. CallRight(call)'
    BY <1>9, <2>1, <2>2
  <2> QED BY <2>2, <2>3 DEF CallRight
<1>11. frames' # << >> /\ frames'[1].rule = given.start
  <2>1. 1 \in 1 .. n /\ n + 1 # 0
    BY <1>6
  <2>2. frames' # << >>
    BY <1>7, <2>1, EmptySeq
  <2> QED BY <1>1, <1>7, <2>1, <2>2 DEF RunInv
<1>12. Ids(given)' = Ids(given) /\ CallType' = CallType
  BY <1>1 DEF Ids, CallType
<1> HIDE DEF n
<1> QED BY <1>1, <1>7, <1>8, <1>10, <1>11, <1>12 DEF RunInv, Running

(* The value that is returned is the rule's, and not the one for unknown.  *)
LEMMA ReturnRuns == Inv /\ RunInv /\ Return => RunInv'
<1> SUFFICES ASSUME Inv, RunInv, Return PROVE RunInv'
  OBVIOUS
<1> DEFINE n == Len(frames)
           r == Frame1.rule
           rule == given.rules[r]
<1>1. /\ Running /\ frames # << >> /\ Frame1.next = Size(rules[r])
      /\ lookup' = [lookup EXCEPT ![r] = Returned]
      /\ frames' = Front(frames)
      /\ UNCHANGED << pc, given, job >>
  BY DEF Return, CallOver, vars
<1>2. /\ n \in Nat \ {0} /\ frames' \in Seq(CallType) /\ Len(frames') = n - 1
      /\ \A k \in 1 .. (n - 1) : frames'[k] = frames[k]
      /\ Frame1 = frames[n] /\ CallRight(Frame1) /\ r \in Ids(given)
      /\ rules[r] = rule /\ rule \in RuleType /\ Size(rule) \in Nat
  BY <1>1, TopCall
<1>3. given \in Inputs /\ job \in {"length", "depth"}
  BY <1>1, GivenRunning
<1>4. Returned = True(job, r)
  <2>1. Frame1.value = Partial(job, r, Size(rule))
    BY <1>1, <1>2 DEF CallRight
  <2>2. True(job, r) = IF job = "length" THEN Partial(job, r, Size(rule)) ELSE Partial(job, r, Size(rule)) + 1
    BY <1>2, <1>3, PartialIs
  <2> QED BY <2>1, <2>2 DEF Returned
<1>5. Returned \in Nat /\ Returned # Unknown
  <2>1. True(job, r) \in Nat /\ True(job, r) < Unknown
    BY <1>2, <1>3, TruthIs
  <2>2. Unknown \in Int
    BY WidthAssumption DEF Unknown
  <2> QED BY <1>4, <2>1, <2>2
<1>6. lookup' \in [Ids(given) -> Nat] /\ \A q \in Ids(given) : lookup'[q] = IF q = r THEN Returned ELSE lookup[q]
  <2>1. lookup \in [Ids(given) -> Nat]
    BY <1>1 DEF RunInv
  <2> HIDE DEF r
  <2> QED BY <1>1, <1>2, <1>5, <2>1
<1>7. Ids(given)' = Ids(given) /\ CallType' = CallType
  BY <1>1 DEF Ids, CallType
<1>8. Known' = Known \cup {r}
  <2>1. Known' = {q \in Ids(given) : lookup'[q] # Unknown}
    BY <1>7 DEF Known, Unknown
  <2> HIDE DEF r
  <2> QED BY <1>2, <1>5, <1>6, <2>1 DEF Known
<1>9. \A call : CallRight(call) => CallRight(call)'
  BY <1>1, <1>8, CallKept
<1>10. Children(rule) \subseteq Known
  <2> SUFFICES ASSUME NEW c \in Children(rule) PROVE c \in Known
    OBVIOUS
  <2>1. PICK j \in 0 .. (Size(rule) - 1) : IsNonTerminal(At(rule, j)) /\ RuleId(At(rule, j)) = c
    BY <1>2, ChildAt
  <2> QED BY <1>1, <1>2, <2>1 DEF CallRight
<1>11. TableRight'
  <2>1. /\ \A q : True(job, q)' = True(job, q)
        /\ Reachable(given)' = Reachable(given)
    BY <1>1, TruthKept
  <2>2. ASSUME NEW q \in Known'
        PROVE  /\ lookup'[q] = True(job, q) /\ q \in Reachable(given)
               /\ Children(given.rules[q]) \subseteq Known'
    <3>1. CASE q = r
      <4>1. r \in Reachable(given)
        BY <1>2 DEF CallRight
      <4> QED BY <1>2, <1>4, <1>6, <1>8, <1>10, <3>1, <4>1
    <3>2. CASE q # r
      <4>1. q \in Known /\ q \in Ids(given)
        BY <1>8, <3>2 DEF Known
      <4>2. lookup[q] = True(job, q) /\ q \in Reachable(given) /\ Children(given.rules[q]) \subseteq Known
        BY <1>1, <4>1 DEF RunInv, TableRight
      <4> QED BY <1>6, <1>8, <3>2, <4>1, <4>2
    <3> QED BY <3>1, <3>2
  <2> QED BY <1>1, <2>1, <2>2 DEF TableRight
<1>12. ASSUME NEW k \in 1 .. (n - 1) PROVE CallRight(frames[k])'
  <2>1. k \in 1 .. Len(frames)
    BY <1>2
  <2>2. CallRight(frames'[k])
    BY <1>1, <1>2, <2>1 DEF RunInv
  <2>3. PICK call : call = frames'[k]
    OBVIOUS
  <2>4. CallRight(call)'
    BY <1>9, <2>2, <2>3
  <2> QED BY <2>3, <2>4 DEF CallRight
<1>13. IF frames' = << >> THEN given.start \in Known' ELSE frames'[1].rule = given.start
  <2>1. frames[1].rule = given.start
    BY <1>1 DEF RunInv
  <2>2. CASE n = 1
    <3>1. r = given.start
      BY <1>2, <2>1, <2>2
    <3>2. frames' = << >>
      BY <1>2, <2>2, EmptySeq
    <3> QED BY <1>8, <3>1, <3>2
  <2>3. CASE n # 1
    <3>1. 1 \in 1 .. (n - 1) /\ n - 1 # 0
      BY <1>2, <2>3
    <3>2. frames' # << >>
      BY <1>2, <3>1, EmptySeq
    <3> QED BY <1>2, <2>1, <3>1, <3>2
  <2> QED BY <2>2, <2>3
<1> HIDE DEF n
<1> QED BY <1>1, <1>2, <1>6, <1>7, <1>11, <1>12, <1>13 DEF RunInv, Running

(* What was begun has the start rule to compute, and nothing is known. *)
LEMMA BeginRuns ==
  ASSUME given \in Inputs, given.count # 0, pc = "enter", startRule = given.start,
         NEW kind \in {"length", "depth"}, Begin(kind), UNCHANGED << given, pc >>
  PROVE  RunInv'
<1> DEFINE r == given.start
<1>1. r \in Ids(given) /\ given.rules \in [Ids(given) -> RuleType]
  BY GivenGrammar
<1>2. r \in Reachable(given)
  BY <1>1 DEF Reachable, IsClosed
<1>3. job' = kind /\ frames' = << Call(r) >> /\ lookup' = [q \in Ids(given) |-> Unknown]
  BY DEF Begin
<1>4. Ids(given)' = Ids(given) /\ CallType' = CallType /\ Known' = {}
  BY <1>3 DEF Ids, CallType, Known, Unknown
<1>5. Unknown \in Nat
  <2>1. 2^MaxWidth \in Nat \ {0}
    BY WidthAssumption
  <2> QED BY <2>1 DEF Unknown
<1>6. lookup' \in [Ids(given) -> Nat]
  BY <1>3, <1>5
<1>7. Call(r) \in CallType
  BY <1>1 DEF Call, CallType
<1>8. frames' \in Seq(CallType) /\ Len(frames') = 1 /\ frames'[1] = Call(r) /\ frames' # << >>
  BY <1>3, <1>7
<1>9. CallRight(frames[1])'
  <2>1. PICK call : call = Call(r)
    OBVIOUS
  <2>2. call.rule = r /\ call.next = 0 /\ call.value = 0
    BY <2>1 DEF Call
  <2>3. Partial(job, call.rule, call.next)' = Partial(kind, call.rule, call.next)
    BY <1>3, TruthKept
  <2>4. Partial(kind, r, 0) = 0
    BY <1>1, PartialIs
  <2>5. Size(given.rules[r]) \in Nat
    BY <1>1 DEF RuleType, Size
  <2>6. Reachable(given)' = Reachable(given)
    BY TruthKept
  <2> HIDE DEF r
  <2>7. CallRight(call)'
    BY <1>2, <2>2, <2>3, <2>4, <2>5, <2>6 DEF CallRight
  <2> QED BY <1>8, <2>1, <2>7 DEF CallRight
<1>10. TableRight'
  BY <1>4 DEF TableRight
<1>11. frames'[1].rule = given.start
  BY <1>8 DEF Call
<1> HIDE DEF r
<1> QED BY <1>4, <1>6, <1>8, <1>9, <1>10, <1>11 DEF RunInv, Running

LEMMA StartStatsKeeps == Inv /\ StatsInv /\ StartStats => StatsInv'
<1> SUFFICES ASSUME Inv, StatsInv, StartStats PROVE StatsInv'
  OBVIOUS
<1>1. /\ pc = "enter" /\ job = "none" /\ given.count # 0 /\ Begin("length")
      /\ UNCHANGED << given, pc, report >>
  BY DEF StartStats, vars
<1>2. given \in Inputs /\ startRule = given.start
  BY <1>1 DEF Inv, TypeOK, Untouched
<1>3. RunInv'
  BY <1>1, <1>2, BeginRuns
<1>4. ReportInv'
  BY <1>1 DEF StatsInv, ReportInv, Begin
<1> QED BY <1>3, <1>4 DEF StatsInv

(* The table when the start rule has returned: known are the rules in      *)
(* reach, and the total is right exactly if these are all.                 *)
LEMMA TotalReported ==
  ASSUME Inv, RunInv, Running, frames = << >>
  PROVE  /\ lookup[given.start] \in Nat /\ Total(lookup) \in Nat
         /\ Reported(job, [value |-> lookup[given.start], total |-> Total(lookup)])
<1> DEFINE truth == Truth(job)
           n == given.count
<1>1. given \in Inputs /\ given.start \in Ids(given) /\ n \in Nat /\ job \in {"length", "depth"}
  BY GivenRunning
<1>2. given.start \in Known /\ lookup \in [Ids(given) -> Nat] /\ TableRight
  BY DEF RunInv
<1>3. Known = Reachable(given)
  <2>1. Known \in SUBSET Ids(given) /\ Known \subseteq Reachable(given)
    BY <1>2 DEF Known, TableRight
  <2>2. IsClosed(given, Known)
    BY <1>2 DEF IsClosed, TableRight
  <2> QED BY <2>1, <2>2 DEF Reachable
<1>4. ASSUME NEW k \in 0 .. (n - 1)
      PROVE  /\ lookup[k] \in Nat /\ truth[k] \in Nat /\ truth[k] <= lookup[k]
             /\ lookup[k] = truth[k] <=> k \in Known
  <2>1. k \in Ids(given)
    BY DEF Ids
  <2>2. truth[k] = True(job, k) /\ True(job, k) \in Nat /\ True(job, k) < Unknown
    BY <1>1, <2>1, TruthIs DEF Truth
  <2>3. lookup[k] \in Nat
    BY <1>2, <2>1
  <2>4. CASE k \in Known
    BY <1>2, <2>2, <2>3, <2>4 DEF TableRight
  <2>5. CASE k \notin Known
    <3>1. lookup[k] = Unknown
      BY <2>1, <2>5 DEF Known
    <3> DEFINE l == lookup[k]
               t == truth[k]
    <3>2. l \in Nat /\ t \in Nat /\ t < l
      BY <2>2, <2>3, <3>1
    <3> HIDE DEF l, t, truth
    <3>3. t <= l /\ l # t
      BY <3>2
    <3> QED BY <2>5, <3>2, <3>3 DEF l, t
  <2> QED BY <2>4, <2>5
<1> HIDE DEF truth, n
<1>5. /\ SumOver(lookup, n) \in Nat
      /\ SumOver(lookup, n) = SumOver(truth, n) <=> \A k \in 0 .. (n - 1) : lookup[k] = truth[k]
  <2>1. \A k \in 0 .. (n - 1) : lookup[k] \in Nat /\ truth[k] \in Nat /\ truth[k] <= lookup[k]
    BY <1>4
  <2>2. PICK t, u : t = lookup /\ u = truth
    OBVIOUS
  <2>3. \A k \in 0 .. (n - 1) : t[k] \in Nat /\ u[k] \in Nat /\ u[k] <= t[k]
    BY <2>1, <2>2
  <2>4. SumOver(t, n) \in Nat /\ (SumOver(t, n) = SumOver(u, n) <=> \A k \in 0 .. (n - 1) : t[k] = u[k])
    BY ZenonT(40), <1>1, <2>3, SumsCompare
  <2> QED BY <2>2, <2>4
<1>6. (\A k \in 0 .. (n - 1) : lookup[k] = truth[k]) <=> Reachable(given) = Ids(given)
  <2>1. Ids(given) = 0 .. (n - 1) /\ Known \subseteq Ids(given)
    BY DEF Ids, n, Known
  <2> QED BY <1>3, <1>4, <2>1
<1>7. Total(lookup) = SumOver(lookup, n)
  BY DEF Total, SumOver, n
<1>8. lookup[given.start] = True(job, given.start) /\ lookup[given.start] \in Nat
  BY <1>1, <1>2 DEF TableRight
<1> QED BY <1>5, <1>6, <1>7, <1>8 DEF Reported, truth, n

LEMMA ReportKeeps == Inv /\ StatsInv /\ Report => StatsInv'
<1> SUFFICES ASSUME Inv, StatsInv, Report PROVE StatsInv'
  OBVIOUS
<1> DEFINE entry == [value |-> lookup[given.start], total |-> Total(lookup)]
<1>1. /\ Running /\ frames = << >> /\ RunInv /\ ReportInv
      /\ IF job = "length" THEN Begin("depth") ELSE job' = "over"
      /\ UNCHANGED << given, pc >>
  BY DEF Report, vars, StatsInv
<1>2. /\ given \in Inputs /\ startRule = given.start /\ job \in {"length", "depth"}
      /\ given.count # 0 /\ pc = "enter"
  BY <1>1, GivenRunning DEF RunInv
<1>3. report' = Append(report, entry)
  BY <1>2 DEF Report
<1>4. RunInv'
  <2>1. CASE job = "length"
    BY <1>1, <1>2, <2>1, BeginRuns
  <2>2. CASE job # "length"
    BY <1>1, <2>2 DEF RunInv, Running
  <2> QED BY <2>1, <2>2
<1>5. entry \in [value : Nat, total : Nat] /\ Reported(job, entry)
  BY <1>1, TotalReported
<1> DEFINE n == Len(report)
           kind(k) == IF k = 1 THEN "length" ELSE "depth"
<1>6. report \in Seq([value : Nat, total : Nat]) /\ n = IF job = "length" THEN 0 ELSE 1
  BY <1>1, <1>2 DEF ReportInv
<1> HIDE DEF entry
<1>7. /\ report' \in Seq([value : Nat, total : Nat]) /\ Len(report') = n + 1
      /\ report'[n + 1] = entry /\ \A k \in 1 .. n : report'[k] = report[k]
  <2> DEFINE S == [value : Nat, total : Nat]
  <2>1. report \in Seq(S) /\ entry \in S /\ n \in Nat
    BY <1>5, <1>6
  <2> HIDE DEF S
  <2>2. /\ Append(report, entry) \in Seq(S) /\ Len(Append(report, entry)) = n + 1
        /\ Append(report, entry)[n + 1] = entry /\ \A k \in 1 .. n : Append(report, entry)[k] = report[k]
    BY <2>1
  <2> QED BY <1>3, <2>2 DEF S
<1>8. \A k, e : Reported(k, e)' = Reported(k, e)
  <2> SUFFICES ASSUME NEW k, NEW e PROVE Reported(k, e)' = Reported(k, e)
    OBVIOUS
  <2>1. Truth(k)' = Truth(k) /\ True(k, given.start)' = True(k, given.start)
    BY <1>1, TruthKept DEF Truth
  <2> QED BY <1>1, <2>1, TruthKept DEF Reported
<1>9. ASSUME NEW k \in 1 .. (n + 1) PROVE Reported(kind(k), report[k])'
  <2>1. PICK e : e = report'[k]
    OBVIOUS
  <2>2. Reported(kind(k), e)
    <3>1. CASE k = n + 1
      <4>1. kind(k) = job
        BY <1>2, <1>6, <3>1
      <4> QED BY <1>5, <1>7, <2>1, <3>1, <4>1
    <3>2. CASE k # n + 1
      <4>1. k \in 1 .. n
        <5>1. n \in Nat
          BY <1>6
        <5> HIDE DEF n
        <5> QED BY <3>2, <5>1
      <4> QED BY <1>1, <1>7, <2>1, <4>1 DEF ReportInv
    <3> QED BY <3>1, <3>2
  <2>3. Reported(kind(k), e)'
    BY <1>8, <2>2
  <2> QED BY <2>1, <2>3 DEF Reported
<1>10. ReportInv'
  <2>1. job' = IF job = "length" THEN "depth" ELSE "over"
    BY <1>1 DEF Begin
  <2>2. \A k \in 1 .. Len(report') : Reported(kind(k), report[k])'
    BY <1>7, <1>9
  <2>3. job' = "depth" => Len(report') = 1
    BY <1>2, <1>6, <1>7, <2>1
  <2> QED BY <1>2, <1>7, <2>1, <2>2, <2>3 DEF ReportInv
<1> QED BY <1>4, <1>10 DEF StatsInv

LEMMA StatsInit == OpsInit => StatsInv
BY DEF OpsInit, StatsInv, RunInv, ReportInv, Running

LEMMA StatsStep == Inv /\ StatsInv /\ [OpsNext]_allVars => StatsInv'
<1> SUFFICES ASSUME Inv, StatsInv, [OpsNext]_allVars PROVE StatsInv'
  OBVIOUS
<1> USE DEF StatsInv
<1>1. CASE RenumberStep
  <2>1. job = "none" /\ job' = "none" /\ report' = report /\ given' = given
    BY <1>1 DEF RenumberStep, Step, EnterEmpty, Enter, Descend, NumberRule, BeginRewrite,
                StackExhausted, RewriteRule, WildMove, Publish, opsVars
  <2> QED BY <2>1 DEF RunInv, Running, ReportInv
<1>2. CASE CountTerminal \/ CountKnown \/ CallUnknown \/ Return
  <2>1. RunInv'
    BY <1>2, CountTerminalRuns, CountKnownRuns, CallUnknownRuns, ReturnRuns
  <2>2. UNCHANGED << given, job, report >>
    BY <1>2 DEF CountTerminal, CountKnown, CallUnknown, Return, vars
  <2> QED BY <2>1, <2>2, ReportKept
<1>3. CASE StartStats
  BY <1>3, StartStatsKeeps
<1>7. CASE StartStatsEmpty
  <2>1. /\ job = "none" /\ job' = "undefined" /\ report' = report /\ given' = given
    BY <1>7 DEF StartStatsEmpty, vars
  <2> QED BY <2>1 DEF RunInv, Running, ReportInv
<1>4. CASE Report
  BY <1>4, ReportKeeps
<1>5. CASE ExpandRule
  <2>1. /\ job = "none" /\ job' \in {"none", "over", "undefined"} /\ report' = report
    BY <1>5 DEF ExpandRule, Reproducing
  <2> QED BY <2>1 DEF RunInv, Running, ReportInv
<1>6. CASE Finished \/ UNCHANGED allVars
  <2>1. UNCHANGED << given, job, report, pc, frames, lookup >>
    BY <1>6 DEF Finished, allVars, vars, opsVars
  <2>2. ReportInv'
    BY <2>1, ReportKept
  <2>3. RunInv'
    <3> SUFFICES ASSUME Running' PROVE RunInv'
      BY DEF RunInv
    <3>1. Running
      BY <2>1 DEF Running
    <3>2. TableRight' /\ Known' = Known
      BY <2>1, <3>1, TableKept DEF RunInv
    <3>3. \A call : CallRight(call) => CallRight(call)'
      BY <2>1, <3>2, CallKept
    <3>4. \A k \in 1 .. Len(frames) : CallRight(frames[k])'
      <4> SUFFICES ASSUME NEW k \in 1 .. Len(frames) PROVE CallRight(frames[k])'
        OBVIOUS
      <4>1. PICK call : call = frames[k]
        OBVIOUS
      <4>2. CallRight(call)'
        BY <3>1, <3>3, <4>1 DEF RunInv
      <4> QED BY <2>1, <4>1, <4>2 DEF CallRight
    <3>5. Ids(given)' = Ids(given) /\ CallType' = CallType
      BY <2>1 DEF Ids, CallType
    <3> QED BY <2>1, <3>1, <3>2, <3>4, <3>5 DEF RunInv
  <2> QED BY <2>2, <2>3
<1> QED BY <1>1, <1>2, <1>3, <1>4, <1>5, <1>6, <1>7 DEF OpsNext, Work

THEOREM StatsInvariance == OpsSpec => []StatsInv
<1>1. OpsInit => StatsInv
  BY StatsInit
<1>2. Inv /\ StatsInv /\ [OpsNext]_allVars => StatsInv'
  BY StatsStep
<1> QED BY <1>1, <1>2, OpsInv, PTL DEF OpsSpec

(* While source_length and nonterminal_depth call themselves, their tables *)
(* never hold a wrong value, and what is reported is the length and the    *)
(* depth of the grammar.                                                   *)
THEOREM StatsCorrectness == OpsSpec => []StatsRight
<1>1. StatsInv => StatsRight
  <2> SUFFICES ASSUME StatsInv PROVE StatsRight
    OBVIOUS
  <2>1. ASSUME Running, NEW r \in Ids(given), lookup[r] # Unknown PROVE lookup[r] = True(job, r)
    BY <2>1 DEF StatsInv, RunInv, TableRight, Known
  <2>2. ASSUME NEW k \in 1 .. Len(report)
        PROVE  report[k].value = True(IF k = 1 THEN "length" ELSE "depth", given.start)
    BY DEF StatsInv, ReportInv, Reported
  <2> QED BY <2>1, <2>2 DEF StatsRight
<1> QED BY <1>1, StatsInvariance, PTL

(* The averages over the rules are right exactly for the grammars whose    *)
(* start rule reaches every rule.                                          *)
THEOREM AverageCorrectness == OpsSpec => []AverageIfReachable
<1>1. StatsInv => AverageIfReachable
  <2>1. \A kind : TrueTotal(kind) = SumOver(Truth(kind), given.count)
    BY Zenon DEF TrueTotal, SumOver, Truth
  <2> QED BY <2>1 DEF StatsInv, ReportInv, Reported, AverageIfReachable
<1> QED BY <1>1, StatsInvariance, PTL
=============================================================================
