------------------------- MODULE Permutation_proofs -------------------------
(***************************************************************************)
(* Proofs about Permutation, for every permutation of two elements or      *)
(* more: the shortcuts lead back, and previous finds the element before    *)
(* the one asked about within m_shortcut_spacing pointers.                 *)
(*                                                                         *)
(* What is true of After is shown without induction: of the walks that     *)
(* would refute it the shortest one is looked at (LeastNatural).           *)
(***************************************************************************)
EXTENDS Permutation, FiniteSetTheorems, WellFoundedInduction, NaturalsInduction, TLAPS

(* A nonempty set of natural numbers has a least element. *)
LEMMA LeastNatural ==
  ASSUME NEW S, S \subseteq Nat, S # {}
  PROVE  \E m \in S : \A n \in S : m <= n
<1> DEFINE less == OpToRel(<, Nat)
<1>1. IsWellFoundedOn(less, Nat)
  BY NatLessThanWellFounded
<1>2. \A m, n \in Nat : n < m => << n, m >> \in less
  BY DEF OpToRel
<1> HIDE DEF less
<1>3. PICK m \in S : \A n \in S : ~(<< n, m >> \in less)
  BY <1>1, WFMin
<1>4. ASSUME NEW n \in S PROVE m <= n
  <2>1. ~(n < m)
    BY <1>2, <1>3
  <2> QED BY <2>1
<1> QED BY <1>4

(* CeilLog2 yields the least width wide enough for every smaller value.    *)
LEMMA CeilLog2Wide ==
  ASSUME NEW v \in Nat, v <= 2^MaxWidth
  PROVE  /\ CeilLog2(v) \in 0 .. MaxWidth /\ 2^CeilLog2(v) >= v
         /\ \A c \in 0 .. (CeilLog2(v) - 1) : 2^c < v
<1> DEFINE wide == {b \in 0 .. MaxWidth : 2^b >= v}
<1>1. MaxWidth \in Nat /\ \A b \in 0 .. MaxWidth : 2^b \in Nat
  BY WidthAssumption
<1>2. MaxWidth \in wide
  BY <1>1
<1>3. PICK b \in wide : \A c \in wide : b <= c
  <2>1. wide \subseteq Nat /\ wide # {}
    BY <1>2
  <2> HIDE DEF wide
  <2> QED BY <2>1, LeastNatural
<1>4. b \in 0 .. MaxWidth /\ 2^b >= v /\ \A c \in 0 .. (b - 1) : 2^c < v
  BY <1>1, <1>3
<1> QED BY <1>4 DEF CeilLog2

(* select undoes rank on the ones of a bit vector. *)
LEMMA RankSelect ==
  ASSUME NEW S, S \subseteq Nat, IsFiniteSet(S), NEW m \in S
  PROVE  /\ Select(S, Rank(S, m + 1)) = m
         /\ Rank(S, m + 1) \in 1 .. Cardinality(S)
<1> DEFINE upTo(x) == {y \in S : y < x + 1}
<1>1. ASSUME NEW x \in S, NEW y \in S, x < y
      PROVE  Rank(S, x + 1) # Rank(S, y + 1)
  <2>1. upTo(x) \in SUBSET upTo(y) /\ upTo(y) \in SUBSET S
    <3>1. \A z \in S : z < x + 1 => z < y + 1
      BY <1>1
    <3> QED BY <3>1
  <2>2. y \in upTo(y) /\ y \notin upTo(x)
    BY <1>1
  <2> HIDE DEF upTo
  <2>3. IsFiniteSet(upTo(y))
    BY <2>1, FS_Subset
  <2>4. Cardinality(upTo(y)) = Cardinality(upTo(x)) => upTo(y) = upTo(x)
    BY <2>1, <2>3, FS_Subset
  <2>5. Cardinality(upTo(x)) # Cardinality(upTo(y))
    BY <2>2, <2>4
  <2> QED BY <2>5 DEF upTo, Rank
<1>2. \A x \in S : Rank(S, x + 1) = Rank(S, m + 1) => x = m
  <2> SUFFICES ASSUME NEW x \in S, Rank(S, x + 1) = Rank(S, m + 1), x # m PROVE FALSE
    OBVIOUS
  <2>1. x < m \/ m < x
    OBVIOUS
  <2> QED BY <1>1, <2>1
<1>3. Select(S, Rank(S, m + 1)) = m
  BY <1>2, Zenon DEF Select
<1>4. Rank(S, m + 1) \in 1 .. Cardinality(S)
  <2>1. upTo(m) \in SUBSET S /\ m \in upTo(m)
    OBVIOUS
  <2> HIDE DEF upTo
  <2>2. IsFiniteSet(upTo(m)) /\ Cardinality(upTo(m)) <= Cardinality(S)
    BY <2>1, FS_Subset
  <2>3. Cardinality(upTo(m)) \in Nat /\ Cardinality(upTo(m)) # 0 /\ Cardinality(S) \in Nat
    BY <2>1, <2>2, FS_EmptySet, FS_CardinalityType
  <2> QED BY <2>2, <2>3 DEF upTo, Rank
<1> QED BY <1>3, <1>4

-----------------------------------------------------------------------------
(* Walks along the cycles of a permutation *)

IsPermutation(p) ==
  /\ p \in [DOMAIN p -> DOMAIN p]
  /\ \A x, y \in DOMAIN p : p[x] = p[y] => x = y

IsWalk(w, p, x, k) == w = [n \in 0 .. k |-> IF n = 0 THEN x ELSE p[w[n - 1]]]

(* A walk of any length exists: the recursive function After is defined    *)
(* with has a value on its whole domain.                                   *)
LEMMA WalkExists ==
  ASSUME NEW p, NEW x, NEW k \in Nat
  PROVE  \E w : IsWalk(w, p, x, k)
<1> DEFINE none == {n \in Nat : ~ \E w : IsWalk(w, p, x, n)}
<1>1. ASSUME none # {} PROVE FALSE
  <2>1. PICK m \in none : \A n \in none : m <= n
    <3>1. none \subseteq Nat
      OBVIOUS
    <3> HIDE DEF none
    <3> QED BY <1>1, <3>1, LeastNatural
  <2>2. m \in Nat /\ ~ \E w : IsWalk(w, p, x, m)
    BY <2>1
  <2>3. CASE m = 0
    <3>1. IsWalk([n \in 0 .. 0 |-> x], p, x, 0)
      BY DEF IsWalk
    <3> QED BY <2>2, <2>3, <3>1
  <2>4. CASE m # 0
    <3>1. m - 1 \in Nat /\ m - 1 \notin none
      BY <2>1, <2>2, <2>4
    <3>2. PICK v : IsWalk(v, p, x, m - 1)
      BY <3>1
    <3> DEFINE w == [n \in 0 .. m |-> IF n = m THEN p[v[m - 1]] ELSE v[n]]
    <3>3. IsWalk(w, p, x, m)
      <4>1. ASSUME NEW n \in 0 .. m PROVE w[n] = IF n = 0 THEN x ELSE p[w[n - 1]]
        <5>1. \A j \in 0 .. (m - 1) : v[j] = IF j = 0 THEN x ELSE p[v[j - 1]]
          BY <3>2 DEF IsWalk
        <5>2. CASE n = m
          BY <2>2, <2>4, <5>2
        <5>3. CASE n # m /\ n = 0
          BY <2>2, <2>4, <5>1, <5>3
        <5>4. CASE n # m /\ n # 0
          <6>1. n \in 0 .. (m - 1) /\ n - 1 \in 0 .. m /\ n - 1 # m
            BY <2>2, <5>4
          <6> QED BY <2>2, <5>1, <5>4, <6>1
        <5> QED BY <5>2, <5>3, <5>4
      <4> HIDE DEF w
      <4>2. w = [n \in 0 .. m |-> w[n]]
        BY DEF w
      <4> QED BY <4>1, <4>2 DEF IsWalk
    <3> QED BY <2>2, <3>3
  <2> QED BY <2>3, <2>4
<1> QED BY <1>1

(* After(p, x, k) is where the walk of length k ends. *)
LEMMA AfterIsWalk ==
  ASSUME NEW p, NEW x, NEW k \in Nat
  PROVE  \E w : IsWalk(w, p, x, k) /\ After(p, x, k) = w[k]
<1>1. \E w : IsWalk(w, p, x, k)
  BY WalkExists
<1> QED BY <1>1, Zenon DEF After, IsWalk

(* A longer walk begins like a shorter one. *)
LEMMA WalksAgree ==
  ASSUME NEW p, NEW x, NEW k \in Nat, NEW v, NEW w,
         IsWalk(v, p, x, k), IsWalk(w, p, x, k + 1)
  PROVE  v[k] = w[k]
<1> DEFINE apart == {n \in 0 .. k : v[n] # w[n]}
<1>1. ASSUME apart # {} PROVE FALSE
  <2>1. PICK m \in apart : \A n \in apart : m <= n
    <3>1. apart \subseteq Nat
      OBVIOUS
    <3> HIDE DEF apart
    <3> QED BY <1>1, <3>1, LeastNatural
  <2>2. m \in 0 .. k /\ v[m] # w[m]
    BY <2>1
  <2>3. /\ v[m] = IF m = 0 THEN x ELSE p[v[m - 1]]
        /\ w[m] = IF m = 0 THEN x ELSE p[w[m - 1]]
    BY <2>2 DEF IsWalk
  <2>4. m # 0 => m - 1 \in 0 .. k /\ m - 1 \notin apart
    BY <2>1, <2>2
  <2> QED BY <2>2, <2>3, <2>4
<1>2. k \in 0 .. k
  OBVIOUS
<1> QED BY <1>1, <1>2

(* The recursion of After. *)
LEMMA AfterStep ==
  ASSUME NEW p, NEW x
  PROVE  /\ After(p, x, 0) = x
         /\ \A k \in Nat : After(p, x, k + 1) = p[After(p, x, k)]
<1>1. After(p, x, 0) = x
  <2>1. PICK w : IsWalk(w, p, x, 0) /\ After(p, x, 0) = w[0]
    BY AfterIsWalk
  <2> QED BY <2>1 DEF IsWalk
<1>2. ASSUME NEW k \in Nat PROVE After(p, x, k + 1) = p[After(p, x, k)]
  <2>1. PICK v : IsWalk(v, p, x, k) /\ After(p, x, k) = v[k]
    BY AfterIsWalk
  <2>2. k + 1 \in Nat
    OBVIOUS
  <2>3. PICK w : IsWalk(w, p, x, k + 1) /\ After(p, x, k + 1) = w[k + 1]
    BY <2>2, AfterIsWalk
  <2>4. v[k] = w[k]
    BY <2>1, <2>3, WalksAgree
  <2>5. w[k + 1] = p[w[k]]
    BY <2>3 DEF IsWalk
  <2> QED BY <2>1, <2>3, <2>4, <2>5
<1> QED BY <1>1, <1>2

(* The last step of a walk of at least one step. *)
LEMMA AfterBefore ==
  ASSUME NEW p, NEW x, NEW k \in Nat, k # 0
  PROVE  k - 1 \in Nat /\ After(p, x, k) = p[After(p, x, k - 1)]
<1> DEFINE j == k - 1
<1>1. j \in Nat /\ j + 1 = k
  OBVIOUS
<1> HIDE DEF j
<1>2. After(p, x, j + 1) = p[After(p, x, j)]
  BY <1>1, AfterStep
<1>3. After(p, x, k) = p[After(p, x, j)]
  BY <1>1, <1>2
<1> QED BY <1>1, <1>3 DEF j

(* A walk stays in the domain: the first step out of it would leave from   *)
(* an element of it.                                                       *)
LEMMA AfterStays ==
  ASSUME NEW p, IsPermutation(p), NEW x \in DOMAIN p, NEW k \in Nat
  PROVE  After(p, x, k) \in DOMAIN p
<1> DEFINE out == {n \in Nat : After(p, x, n) \notin DOMAIN p}
<1>1. ASSUME out # {} PROVE FALSE
  <2>1. PICK m \in out : \A n \in out : m <= n
    <3>1. out \subseteq Nat
      OBVIOUS
    <3> HIDE DEF out
    <3> QED BY <1>1, <3>1, LeastNatural
  <2>2. m \in Nat /\ After(p, x, m) \notin DOMAIN p
    BY <2>1
  <2>3. m # 0
    BY <2>2, AfterStep
  <2>4. m - 1 \in Nat /\ m - 1 \notin out
    BY <2>1, <2>2, <2>3
  <2>5. After(p, x, m - 1) \in DOMAIN p
    BY <2>4
  <2>6. After(p, x, m) = p[After(p, x, m - 1)]
    BY <2>2, <2>3, AfterBefore
  <2> QED BY <2>2, <2>5, <2>6 DEF IsPermutation
<1> QED BY <1>1

(* Walks compose. *)
LEMMA AfterSum ==
  ASSUME NEW p, NEW x, NEW a \in Nat, NEW b \in Nat
  PROVE  After(p, After(p, x, a), b) = After(p, x, a + b)
<1> DEFINE y == After(p, x, a)
           wrong == {n \in Nat : After(p, y, n) # After(p, x, a + n)}
<1> HIDE DEF y
<1>1. ASSUME wrong # {} PROVE FALSE
  <2>1. PICK m \in wrong : \A n \in wrong : m <= n
    <3>1. wrong \subseteq Nat
      OBVIOUS
    <3> HIDE DEF wrong
    <3> QED BY <1>1, <3>1, LeastNatural
  <2>2. m \in Nat /\ After(p, y, m) # After(p, x, a + m)
    BY <2>1
  <2>3. m # 0
    <3>1. a + 0 = a /\ After(p, y, 0) = y
      BY AfterStep
    <3> QED BY <2>2, <3>1 DEF y
  <2>4. m - 1 \in Nat /\ m - 1 \notin wrong
    BY <2>1, <2>2, <2>3
  <2>5. After(p, y, m - 1) = After(p, x, a + (m - 1)) /\ a + (m - 1) \in Nat
    BY <2>4
  <2>6. After(p, y, m) = p[After(p, y, m - 1)]
    BY <2>2, <2>3, AfterBefore
  <2>7. After(p, x, a + m) = p[After(p, x, a + (m - 1))]
    <3>1. a + m \in Nat /\ a + m # 0 /\ (a + m) - 1 = a + (m - 1)
      BY <2>2, <2>3
    <3> QED BY <3>1, AfterBefore
  <2> QED BY <2>2, <2>5, <2>6, <2>7
<1> QED BY <1>1 DEF y

(* Two walks of one length that meet began at the same element.            *)
LEMMA AfterInjective ==
  ASSUME NEW p, IsPermutation(p), NEW x \in DOMAIN p, NEW y \in DOMAIN p, NEW k \in Nat,
         After(p, x, k) = After(p, y, k)
  PROVE  x = y
<1> DEFINE meet == {n \in Nat : After(p, x, n) = After(p, y, n)}
<1>1. PICK m \in meet : \A n \in meet : m <= n
  <2>1. meet \subseteq Nat /\ k \in meet
    OBVIOUS
  <2> HIDE DEF meet
  <2> QED BY <2>1, LeastNatural
<1>2. m \in Nat /\ After(p, x, m) = After(p, y, m)
  BY <1>1
<1>3. ASSUME m # 0 PROVE FALSE
  <2>1. m - 1 \in Nat /\ m - 1 \notin meet
    BY <1>1, <1>2, <1>3
  <2>2. After(p, x, m - 1) # After(p, y, m - 1)
    BY <2>1
  <2>3. p[After(p, x, m - 1)] = p[After(p, y, m - 1)]
    BY <1>2, <1>3, AfterBefore
  <2>4. After(p, x, m - 1) \in DOMAIN p /\ After(p, y, m - 1) \in DOMAIN p
    BY <2>1, AfterStays
  <2> QED BY <2>2, <2>3, <2>4 DEF IsPermutation
<1> QED BY <1>2, <1>3, AfterStep

(* A walk that comes to a place where it has been began on that cycle.     *)
LEMMA AfterReturns ==
  ASSUME NEW p, IsPermutation(p), NEW x \in DOMAIN p, NEW a \in Nat, NEW b \in Nat, a <= b,
         NEW y \in DOMAIN p, After(p, y, a) = After(p, x, b)
  PROVE  b - a \in Nat /\ After(p, x, b - a) = y
<1>1. b - a \in Nat /\ (b - a) + a = b
  OBVIOUS
<1>2. After(p, After(p, x, b - a), a) = After(p, y, a)
  BY <1>1, AfterSum
<1>3. After(p, x, b - a) \in DOMAIN p
  BY <1>1, AfterStays
<1> QED BY <1>1, <1>2, <1>3, AfterInjective

(* What is closed under the permutation and its inverse is closed under    *)
(* walks.                                                                  *)
LEMMA AfterClosed ==
  ASSUME NEW p, IsPermutation(p), NEW C, \A z \in DOMAIN p : z \in C <=> p[z] \in C,
         NEW x \in DOMAIN p, NEW k \in Nat
  PROVE  After(p, x, k) \in C <=> x \in C
<1> DEFINE wrong == {n \in Nat : ~(After(p, x, n) \in C <=> x \in C)}
<1>1. ASSUME wrong # {} PROVE FALSE
  <2>1. PICK m \in wrong : \A n \in wrong : m <= n
    <3>1. wrong \subseteq Nat
      OBVIOUS
    <3> HIDE DEF wrong
    <3> QED BY <1>1, <3>1, LeastNatural
  <2>2. m \in Nat /\ ~(After(p, x, m) \in C <=> x \in C)
    BY <2>1
  <2>3. m # 0
    BY <2>2, AfterStep
  <2>4. m - 1 \in Nat /\ m - 1 \notin wrong
    BY <2>1, <2>2, <2>3
  <2>5. After(p, x, m - 1) \in C <=> x \in C
    BY <2>4
  <2>6. After(p, x, m) = p[After(p, x, m - 1)] /\ After(p, x, m - 1) \in DOMAIN p
    BY <2>2, <2>3, <2>4, AfterBefore, AfterStays
  <2> QED BY <2>2, <2>5, <2>6
<1> QED BY <1>1

-----------------------------------------------------------------------------
(* The invariant *)

Typed ==
  /\ given \in Inputs /\ perm = given
  /\ i \in Nat /\ space \in Nat /\ steps \in Nat
  /\ lastShortcut \in Elements /\ current \in Elements /\ asked \in Elements
  /\ processed \subseteq Elements /\ marked \subseteq Elements
  /\ dest \in [Elements -> Elements]
  /\ pc \in {"elements", "cycle", "ready", "seek", "search", "found"}

(* A walk from x meets a shortcut in time. *)
MarkAhead(x) == \E k \in 0 .. (Spacing - 1) : After(given, x, k) \in marked

(* The shortcut at m leads to the one before it. *)
Linked(m) ==
  /\ dest[m] \in marked
  /\ \E k \in 1 .. Spacing :
       /\ After(given, dest[m], k) = m
       /\ \A j \in 1 .. (k - 1) : After(given, dest[m], j) \notin marked

(* C is made of whole cycles, those of the elements gone by among them,    *)
(* and all of its shortcuts are there.                                     *)
Shortened(C) ==
  /\ C \subseteq Elements
  /\ \A x \in Elements : x \in C <=> given[x] \in C
  /\ \A x \in Elements : x < i => x \in C
  /\ \A x \in C : MarkAhead(x)
  /\ \A m \in marked : m \in C => Linked(m)

BetweenCycles ==
  pc = "elements" => Shortened(processed) /\ marked \subseteq processed

(* The place of the walk q steps after the one where the cycle was entered *)
Place(q) == After(given, given[i], q)

(* The shortcut q steps into the cycle goes k steps back. *)
LinkedWithin(m, q) ==
  /\ m = Place(q)
  /\ \E k \in 1 .. Spacing :
       /\ k <= q /\ dest[m] = Place(q - k)
       /\ q # k => dest[m] \in marked
       /\ \A r \in (q - k + 1) .. (q - 1) : Place(r) \notin marked

(* The walk is j steps into a cycle, C are the cycles before. *)
Walking(j, C) ==
  /\ i \in Elements \ C
  /\ Shortened(C)
  /\ processed = C \cup {Place(q) : q \in 1 .. j}
  /\ current = Place(j)
  /\ \A q \in 1 .. (j - 1) : Place(q) # given[i]
  /\ space \in 1 .. Spacing /\ space <= j
  /\ lastShortcut = Place(j - space)
  /\ j # space => lastShortcut \in marked
  /\ \A q \in (j - space + 1) .. (j - 1) : Place(q) \notin marked
  /\ \A m \in marked : m \in C \/ \E q \in 1 .. (j - 1) : LinkedWithin(m, q)
  /\ \A q \in 1 .. (j - space) : MarkAhead(Place(q))

InCycle == pc = "cycle" => \E j \in Nat \ {0} : \E C \in SUBSET Elements : Walking(j, C)

Constructed ==
  pc \notin {"elements", "cycle"} =>
    /\ \A x \in Elements : MarkAhead(x)
    /\ \A m \in marked : Linked(m)
    /\ shortcuts = [k \in 1 .. Cardinality(marked) |-> Packed(WordWidth, dest[Select(marked, k)])]

Seeking ==
  pc = "seek" =>
    /\ current = After(given, asked, steps)
    /\ \A j \in 0 .. (steps - 1) : After(given, asked, j) \notin marked

Searching ==
  pc = "search" =>
    \E r \in 1 .. Spacing : After(given, current, r) = asked /\ steps + r <= Spacing + 1

Finding == pc = "found" => given[current] = asked /\ steps <= Spacing

Inv ==
  /\ Typed /\ BetweenCycles /\ InCycle /\ Constructed
  /\ Seeking /\ Searching /\ Finding

-----------------------------------------------------------------------------
(* What the assumptions say of the range at hand: it is a permutation of   *)
(* the numbers below its size, and its elements fit their fields.          *)
LEMMA GivenFacts ==
  ASSUME given \in Inputs
  PROVE  /\ IsPermutation(given) /\ Elements = DOMAIN given
         /\ Cardinality(Elements) \in Nat /\ Elements = 0 .. (Cardinality(Elements) - 1)
         /\ 0 \in Elements /\ IsFiniteSet(Elements)
         /\ Spacing \in Nat \ {0}
         /\ \A x \in Elements : Packed(WordWidth, x) = x
<1> DEFINE n == Cardinality(Elements)
<1>1. /\ n \in 2 .. 2^MaxWidth /\ given \in [0 .. (n - 1) -> 0 .. (n - 1)]
      /\ IsInjective(given)
  BY InputsAssumption DEF Elements
<1>2. MaxWidth \in Nat /\ \A w \in 0 .. MaxWidth : 2^w \in Nat \ {0}
  BY WidthAssumption
<1>3. n \in Nat /\ n <= 2^MaxWidth /\ n >= 2
  <2>1. 2^MaxWidth \in Nat
    BY <1>2
  <2> HIDE DEF n
  <2> QED BY <1>1, <2>1
<1>4. Elements = 0 .. (n - 1)
  BY <1>1 DEF Elements
<1>5. IsPermutation(given)
  <2>1. DOMAIN given = 0 .. (n - 1)
    BY <1>1
  <2> HIDE DEF n
  <2> QED BY <1>1, <2>1 DEF IsPermutation, IsInjective
<1> HIDE DEF n
<1>6. WordWidth \in 0 .. MaxWidth /\ 2^WordWidth >= n
  BY <1>3, CeilLog2Wide DEF WordWidth, n
<1>7. Spacing \in Nat \ {0}
  BY <1>2, <1>6 DEF Spacing
<1>8. ASSUME NEW x \in Elements PROVE Packed(WordWidth, x) = x
  <2>1. x \in Nat /\ x < n
    BY <1>3, <1>4
  <2>2. 2^WordWidth \in Nat \ {0}
    BY <1>2, <1>6
  <2> DEFINE values == 2^WordWidth
  <2>3. values \in Nat \ {0} /\ x < values
    BY <1>3, <1>6, <2>1, <2>2
  <2> HIDE DEF values
  <2>4. x % values = x
    BY <2>1, <2>3
  <2> QED BY <2>4 DEF values, Packed
<1>9. IsFiniteSet(Elements)
  <2>1. 0 \in Int /\ n - 1 \in Int
    BY <1>3
  <2> QED BY <1>4, <2>1, FS_Interval
<1> QED BY <1>3, <1>4, <1>5, <1>7, <1>8, <1>9 DEF n, Elements

(* The permutation is not changed by construct or previous. *)
LEMMA Unmoved ==
  ASSUME given' = given
  PROVE  Elements' = Elements /\ Spacing' = Spacing /\ WordWidth' = WordWidth
BY DEF Elements, Spacing, WordWidth

(* One more shortcut shortens no walk to the next one ... *)
LEMMA MarkAheadGrows ==
  ASSUME given' = given, marked \subseteq marked', NEW x, MarkAhead(x)
  PROVE  MarkAhead(x)'
BY Unmoved DEF MarkAhead

(* ... and is not between the shortcuts of other cycles. *)
LEMMA LinkedKept ==
  ASSUME given \in Inputs, given' = given, dest \in [Elements -> Elements],
         NEW C, \A x \in Elements : x \in C <=> given[x] \in C,
         NEW c, c \notin C, marked' = marked \cup {c},
         NEW m \in C, Linked(m), dest'[m] = dest[m], m \in Elements
  PROVE  Linked(m)'
<1>1. IsPermutation(given) /\ Elements = DOMAIN given /\ Spacing \in Nat
  BY GivenFacts
<1>2. PICK k \in 1 .. Spacing :
        /\ After(given, dest[m], k) = m
        /\ \A j \in 1 .. (k - 1) : After(given, dest[m], j) \notin marked
  BY DEF Linked
<1>3. dest[m] \in marked /\ dest[m] \in Elements
  BY DEF Linked
<1>4. dest[m] \in C
  BY <1>1, <1>2, <1>3, AfterClosed
<1>5. ASSUME NEW j \in 1 .. (k - 1) PROVE After(given, dest[m], j) \notin marked'
  <2>1. j \in Nat
    BY <1>1
  <2>2. After(given, dest[m], j) \in C
    BY <1>1, <1>3, <1>4, <2>1, AfterClosed
  <2> QED BY <1>2, <2>2
<1> QED BY <1>2, <1>3, <1>5, Unmoved DEF Linked

(* The places of the walk through the cycle of i are elements, each        *)
(* follows the one before.                                                 *)
LEMMA Places ==
  ASSUME given \in Inputs, i \in Elements
  PROVE  /\ Place(0) = given[i] /\ given[i] \in Elements
         /\ \A q \in Nat : Place(q) \in Elements /\ Place(q + 1) = given[Place(q)]
         /\ \A q \in Nat : \A k \in Nat : After(given, Place(q), k) = Place(q + k)
<1>1. IsPermutation(given) /\ Elements = DOMAIN given /\ given[i] \in Elements
  BY GivenFacts DEF IsPermutation
<1>2. Place(0) = given[i]
  BY AfterStep DEF Place
<1>3. \A q \in Nat : Place(q) \in Elements /\ Place(q + 1) = given[Place(q)]
  BY <1>1, AfterStep, AfterStays DEF Place
<1>4. \A q \in Nat : \A k \in Nat : After(given, Place(q), k) = Place(q + k)
  BY AfterSum DEF Place
<1> QED BY <1>1, <1>2, <1>3, <1>4

(* Two places of a walk are the same only if it came by its start between. *)
LEMMA PlacesApart ==
  ASSUME given \in Inputs, i \in Elements, NEW a \in Nat, NEW b \in Nat, a <= b, Place(a) = Place(b)
  PROVE  b - a \in Nat /\ Place(b - a) = given[i]
<1>1. IsPermutation(given) /\ Elements = DOMAIN given /\ given[i] \in Elements
  BY GivenFacts DEF IsPermutation
<1> QED BY <1>1, AfterReturns DEF Place

(* No place of the walk is on a cycle that is done. *)
LEMMA PlacesOutside ==
  ASSUME given \in Inputs, i \in Elements, NEW C, i \notin C,
         \A x \in Elements : x \in C <=> given[x] \in C, NEW q \in Nat
  PROVE  Place(q) \notin C
<1>1. IsPermutation(given) /\ Elements = DOMAIN given /\ given[i] \in Elements
  BY GivenFacts DEF IsPermutation
<1>2. given[i] \notin C
  BY <1>1
<1> QED BY <1>1, <1>2, AfterClosed DEF Place

-----------------------------------------------------------------------------
(* construct preserves the invariant *)

(* The loop over the elements begins with no cycle shortened. *)
LEMMA InitInv == Init => Inv
<1> SUFFICES ASSUME Init PROVE Inv
  OBVIOUS
<1>1. given \in Inputs /\ Elements = DOMAIN given /\ 0 \in Elements
  BY GivenFacts DEF Init, Elements
<1>2. perm = given
  <2>1. \A k \in Elements : given[k] \in Elements /\ Packed(WordWidth, given[k]) = given[k]
    BY <1>1, GivenFacts DEF IsPermutation
  <2>2. perm = [k \in Elements |-> given[k]]
    BY <2>1 DEF Init
  <2>3. given = [k \in Elements |-> given[k]]
    BY <1>1, GivenFacts DEF IsPermutation
  <2> QED BY <2>2, <2>3
<1>3. Typed
  BY <1>1, <1>2 DEF Init, Typed
<1>4. BetweenCycles
  <2>1. \A x \in Elements : ~(x < 0)
    BY <1>1, GivenFacts
  <2> QED BY <2>1 DEF Init, BetweenCycles, Shortened
<1> QED BY <1>3, <1>4 DEF Init, Inv, InCycle, Constructed, Seeking, Searching, Finding

(* Marks and shortcuts are what they were: so are the cycles in C.         *)
LEMMA ShortenedFrame ==
  ASSUME UNCHANGED << given, dest, marked >>, NEW C, Shortened(C),
         \A x \in Elements : x < i' => x \in C
  PROVE  Shortened(C)'
BY Unmoved DEF Shortened, MarkAhead, Linked

(* An element passed already lies on a shortened cycle. *)
LEMMA SkipPreserves == Inv /\ SkipProcessed => Inv'
<1> SUFFICES ASSUME Inv, SkipProcessed PROVE Inv'
  OBVIOUS
<1>1. /\ i \in processed /\ i' = i + 1 /\ pc = "elements" /\ pc' = "elements"
      /\ UNCHANGED << given, perm, processed, space, lastShortcut, dest, marked,
                      shortcuts, current, asked, steps >>
  BY DEF SkipProcessed
<1>2. given \in Inputs /\ i \in Nat /\ Shortened(processed) /\ marked \subseteq processed
  BY <1>1 DEF Inv, Typed, BetweenCycles
<1>3. \A x \in Elements : x < i + 1 => x \in processed
  <2>1. \A x \in Elements : x \in Nat
    BY <1>2, GivenFacts
  <2>2. \A x \in Elements : x < i + 1 => x < i \/ x = i
    BY <1>2, <2>1
  <2> QED BY <1>1, <1>2, <2>2 DEF Shortened
<1>4. Shortened(processed)'
  <2>1. PICK C : C = processed
    OBVIOUS
  <2>2. Shortened(C)'
    BY <1>1, <1>2, <1>3, <2>1, ShortenedFrame DEF Shortened
  <2>3. processed' = C
    BY <1>1, <2>1
  <2> QED BY <2>2, <2>3 DEF Shortened
<1>5. Typed'
  <2>1. Elements' = Elements /\ i' \in Nat
    BY <1>1, <1>2, Unmoved
  <2> QED BY <1>1, <2>1 DEF Inv, Typed
<1> QED BY <1>1, <1>2, <1>4, <1>5 DEF Inv, BetweenCycles, InCycle, Constructed, Seeking, Searching, Finding

(* The walk enters a cycle none of whose elements were passed. *)
LEMMA EnterPreserves == Inv /\ EnterCycle => Inv'
<1> SUFFICES ASSUME Inv, EnterCycle PROVE Inv'
  OBVIOUS
<1>1. /\ pc = "elements" /\ i \in Elements \ processed
      /\ lastShortcut' = perm[i] /\ space' = 1 /\ current' = perm[perm[i]]
      /\ processed' = processed \cup {current'} /\ pc' = "cycle"
      /\ UNCHANGED << given, perm, i, dest, marked, shortcuts, asked, steps >>
  BY DEF EnterCycle
<1>2. /\ given \in Inputs /\ perm = given /\ processed \subseteq Elements
      /\ Shortened(processed) /\ marked \subseteq processed
  BY <1>1 DEF Inv, Typed, BetweenCycles
<1>3. /\ IsPermutation(given) /\ Elements = DOMAIN given /\ Spacing \in Nat \ {0}
      /\ Elements \subseteq Nat
  BY <1>2, GivenFacts
<1>4. Place(0) = given[i] /\ Place(1) = given[given[i]] /\ given[i] \in Elements /\ Place(1) \in Elements
  <2>1. 0 \in Nat /\ 1 \in Nat /\ 0 + 1 = 1
    OBVIOUS
  <2> QED BY <1>1, <1>2, <2>1, Places
<1>5. PICK C : C = processed
  OBVIOUS
<1>6. Walking(1, C)'
  <2>1. Shortened(C)'
    BY <1>1, <1>2, <1>5, ShortenedFrame DEF Shortened
  <2>2. given' = given /\ i' = i /\ Place(0)' = Place(0) /\ Place(1)' = Place(1) /\ Spacing' = Spacing
    BY <1>1, Unmoved DEF Place
  <2>3. processed' = C \cup {Place(q)' : q \in 1 .. 1}
    <3>1. processed' = C \cup {Place(1)}
      BY <1>1, <1>2, <1>4, <1>5
    <3>2. {Place(q)' : q \in 1 .. 1} = {Place(1)'}
      OBVIOUS
    <3> QED BY <2>2, <3>1, <3>2
  <2>4. current' = Place(1)' /\ lastShortcut' = Place(0)'
    BY <1>1, <1>2, <1>4, <2>2
  <2>5. i' \in Elements' \ C
    BY <1>1, <1>5, Unmoved
  <2>6. marked' = marked /\ marked \subseteq C
    BY <1>1, <1>2, <1>5
  <2>7. /\ space' \in 1 .. Spacing' /\ space' <= 1 /\ 1 - space' = 0
        /\ 1 .. (1 - 1) = {} /\ (1 - space' + 1) .. (1 - 1) = {} /\ 1 .. (1 - space') = {}
    BY <1>1, <1>3, <2>2
  <2> QED BY <2>1, <2>3, <2>4, <2>5, <2>6, <2>7 DEF Walking
<1>7. InCycle'
  <2>1. C \in SUBSET Elements' /\ 1 \in Nat \ {0}
    BY <1>1, <1>2, <1>5, Unmoved
  <2> QED BY <1>6, <2>1 DEF InCycle
<1>8. Typed'
  BY <1>1, <1>2, <1>3, <1>4, Unmoved DEF Inv, Typed
<1> QED BY <1>1, <1>7, <1>8 DEF Inv, BetweenCycles, Constructed, Seeking, Searching, Finding

(* A shortcut of the cycle at hand stays linked when the walk sets one     *)
(* ahead of it.                                                            *)
LEMMA LinkedWithinKept ==
  ASSUME given \in Inputs, UNCHANGED << given, i >>, i \in Elements,
         NEW j \in Nat \ {0}, NEW c, c = Place(j),
         \A a \in 1 .. (j - 1) : Place(a) # given[i],
         marked \subseteq marked', marked' \subseteq marked \cup {c},
         NEW m, NEW q \in 1 .. (j - 1), LinkedWithin(m, q),
         m # c => dest'[m] = dest[m]
  PROVE  LinkedWithin(m, q)'
<1>1. Spacing \in Nat \ {0}
  BY GivenFacts
<1>2. ASSUME NEW a \in 1 .. (j - 1) PROVE Place(a) # c
  <2>1. a \in Nat /\ a <= j /\ j - a \in 1 .. (j - 1)
    OBVIOUS
  <2>2. Place(a) = Place(j) => Place(j - a) = given[i]
    BY <2>1, PlacesApart
  <2> QED BY <2>1, <2>2
<1>3. PICK k \in 1 .. Spacing :
        /\ k <= q /\ dest[m] = Place(q - k)
        /\ q # k => dest[m] \in marked
        /\ \A r \in (q - k + 1) .. (q - 1) : Place(r) \notin marked
  BY DEF LinkedWithin
<1>4. m = Place(q) /\ m # c
  BY <1>2 DEF LinkedWithin
<1>5. ASSUME NEW r \in (q - k + 1) .. (q - 1) PROVE Place(r) \notin marked'
  <2>1. r \in 1 .. (j - 1)
    BY <1>1, <1>3
  <2> QED BY <1>2, <1>3, <2>1
<1>6. Spacing' = Spacing /\ \A a : Place(a)' = Place(a)
  BY Unmoved DEF Place
<1> QED BY <1>3, <1>4, <1>5, <1>6 DEF LinkedWithin

(* A turn of the walk: either a mark at most Spacing elements after the    *)
(* last one, or one more element since it.                                 *)
LEMMA WalkPreserves == Inv /\ Walk => Inv'
<1> SUFFICES ASSUME Inv, Walk PROVE Inv'
  OBVIOUS
<1>1. /\ pc = "cycle" /\ pc' = "cycle" /\ current # perm[i]
      /\ current' = perm[current] /\ processed' = processed \cup {current'}
      /\ UNCHANGED << given, perm, i, shortcuts, asked, steps >>
  BY DEF Walk
<1>2. PICK j \in Nat \ {0} : \E C \in SUBSET Elements : Walking(j, C)
  BY <1>1 DEF Inv, InCycle
<1>3. PICK C \in SUBSET Elements : Walking(j, C)
  BY <1>2
<1>4. /\ given \in Inputs /\ perm = given /\ processed \subseteq Elements /\ marked \subseteq Elements
      /\ dest \in [Elements -> Elements] /\ lastShortcut \in Elements /\ current \in Elements
      /\ space \in Nat
  BY DEF Inv, Typed
<1>5. /\ i \in Elements /\ i \notin C /\ Shortened(C)
      /\ processed = C \cup {Place(q) : q \in 1 .. j}
      /\ current = Place(j)
      /\ \A q \in 1 .. (j - 1) : Place(q) # given[i]
      /\ space \in 1 .. Spacing /\ space <= j
      /\ lastShortcut = Place(j - space)
      /\ j # space => lastShortcut \in marked
      /\ \A q \in (j - space + 1) .. (j - 1) : Place(q) \notin marked
  BY <1>3 DEF Walking
<1>6. /\ \A m \in marked : m \in C \/ \E q \in 1 .. (j - 1) : LinkedWithin(m, q)
      /\ \A q \in 1 .. (j - space) : MarkAhead(Place(q))
  BY <1>3 DEF Walking
<1>7. /\ IsPermutation(given) /\ Elements = DOMAIN given /\ Spacing \in Nat \ {0}
      /\ Elements \subseteq Nat
  BY <1>4, GivenFacts
<1>8. /\ \A q \in Nat : Place(q) \in Elements
      /\ current' = Place(j + 1) /\ current' \in Elements
  <2>1. j \in Nat /\ j + 1 \in Nat
    OBVIOUS
  <2> QED BY <1>1, <1>4, <1>5, <2>1, Places
<1>9. current # given[i]
  BY <1>1, <1>4
<1>10. Spacing' = Spacing /\ Elements' = Elements /\ \A q : Place(q)' = Place(q)
  BY <1>1, Unmoved DEF Place
<1>11. processed' = C \cup {Place(q) : q \in 1 .. (j + 1)}
  <2>1. 1 .. (j + 1) = (1 .. j) \cup {j + 1}
    OBVIOUS
  <2>2. {Place(q) : q \in 1 .. (j + 1)} = {Place(q) : q \in 1 .. j} \cup {Place(j + 1)}
    BY <2>1
  <2> QED BY <1>1, <1>5, <1>8, <2>2
<1>12. \A q \in 1 .. j : Place(q) # given[i]
  <2>1. \A q \in 1 .. j : q \in 1 .. (j - 1) \/ q = j
    OBVIOUS
  <2> QED BY <1>5, <1>9, <2>1
<1>13. /\ Place(j) \notin C
       /\ \A q \in 1 .. (j - 1) : Place(q) # Place(j)
  <2>1. Place(j) \notin C
    BY <1>4, <1>5, PlacesOutside DEF Shortened
  <2>2. ASSUME NEW q \in 1 .. (j - 1) PROVE Place(q) # Place(j)
    <3>1. q \in Nat /\ j \in Nat /\ q <= j /\ j - q \in 1 .. (j - 1)
      OBVIOUS
    <3>2. Place(q) = Place(j) => Place(j - q) = given[i]
      BY <1>4, <1>5, <3>1, PlacesApart
    <3> QED BY <1>5, <3>1, <3>2
  <2> QED BY <2>1, <2>2
<1>14. Place(j) \notin marked
  BY <1>6, <1>13 DEF LinkedWithin
<1>15. CASE space = Spacing
  <2>1. /\ dest' = [dest EXCEPT ![current] = lastShortcut]
        /\ marked' = marked \cup {current} /\ lastShortcut' = current /\ space' = 1
    BY <1>15 DEF Walk
  <2>2. Typed'
    BY <1>1, <1>4, <1>8, <1>10, <2>1 DEF Inv, Typed
  <2>3. dest'[current] = lastShortcut /\ \A m \in Elements : m # current => dest'[m] = dest[m]
    BY <1>4, <2>1
  <2>4. Shortened(C)'
    <3>1. ASSUME NEW x \in C PROVE MarkAhead(x)'
      BY <1>1, <1>5, <2>1, MarkAheadGrows DEF Shortened
    <3>2. ASSUME NEW m \in marked', m \in C PROVE Linked(m)'
      <4>1. m \in marked /\ m # current /\ m \in Elements
        BY <1>4, <1>5, <1>13, <2>1, <3>2
      <4>2. Linked(m)
        BY <1>5, <3>2, <4>1 DEF Shortened
      <4>3. \A x \in Elements : x \in C <=> given[x] \in C
        BY <1>5 DEF Shortened
      <4> QED BY <1>1, <1>4, <1>5, <1>13, <2>1, <2>3, <3>2, <4>1, <4>2, <4>3, LinkedKept
    <3> QED BY <1>1, <1>5, <1>10, <3>1, <3>2 DEF Shortened
  <2>5. ASSUME NEW m \in marked'
        PROVE  m \in C \/ \E q \in 1 .. j : LinkedWithin(m, q)'
    <3>1. CASE m = current
      <4> PICK k : k = space
        OBVIOUS
      <4>1. m = Place(j)'
        BY <1>5, <1>10, <3>1
      <4>2. /\ k \in 1 .. Spacing' /\ k <= j /\ dest'[m] = Place(j - k)'
            /\ j # k => dest'[m] \in marked'
        BY <1>5, <1>10, <2>1, <2>3, <3>1
      <4>3. ASSUME NEW r \in (j - k + 1) .. (j - 1) PROVE Place(r)' \notin marked'
        <5>1. r \in 1 .. (j - 1)
          BY <1>4, <1>5
        <5> QED BY <1>5, <1>10, <1>13, <2>1, <5>1
      <4>4. LinkedWithin(m, j)'
        BY <4>1, <4>2, <4>3 DEF LinkedWithin
      <4>5. j \in 1 .. j
        OBVIOUS
      <4> QED BY <4>4, <4>5
    <3>2. CASE m # current
      <4>1. m \in marked /\ m \in Elements /\ dest'[m] = dest[m]
        BY <1>4, <2>1, <2>3, <3>2
      <4>2. CASE m \in C
        BY <4>2
      <4>3. CASE \E q \in 1 .. (j - 1) : LinkedWithin(m, q)
        <5>1. PICK q \in 1 .. (j - 1) : LinkedWithin(m, q)
          BY <4>3
        <5>2. LinkedWithin(m, q)'
          BY <1>1, <1>4, <1>5, <2>1, <4>1, <5>1, LinkedWithinKept
        <5>3. q \in 1 .. j
          OBVIOUS
        <5> QED BY <5>2, <5>3
      <4> QED BY <1>6, <4>1, <4>2, <4>3
    <3> QED BY <3>1, <3>2
  <2>6. ASSUME NEW q \in 1 .. j PROVE MarkAhead(Place(q))'
    <3>1. CASE q \in 1 .. (j - space)
      <4>1. PICK x : x = Place(q)
        OBVIOUS
      <4>2. MarkAhead(x)'
        BY <1>1, <1>6, <2>1, <3>1, <4>1, MarkAheadGrows
      <4> QED BY <1>10, <4>1, <4>2 DEF MarkAhead
    <3>2. CASE q \notin 1 .. (j - space)
      <4>1. j - q \in 0 .. (Spacing - 1) /\ q \in Nat /\ j - q \in Nat /\ q + (j - q) = j
        BY <1>5, <1>7, <3>2
      <4>2. After(given, Place(q), j - q) = Place(j)
        BY <1>4, <1>5, <4>1, Places
      <4>3. After(given, Place(q), j - q) \in marked'
        BY <1>5, <2>1, <4>2
      <4> QED BY <1>1, <1>10, <4>1, <4>3 DEF MarkAhead
    <3> QED BY <3>1, <3>2
  <2>7. Walking(j + 1, C)'
    <3>1. /\ (j + 1) - 1 = j /\ (j + 1 - 1 + 1) .. (j + 1 - 1) = {} /\ 1 \in 1 .. Spacing /\ 1 <= j + 1
      BY <1>7
    <3>2. lastShortcut' = Place((j + 1) - 1)' /\ lastShortcut' \in marked'
      BY <1>5, <1>10, <2>1, <3>1
    <3> QED BY <1>1, <1>5, <1>8, <1>10, <1>11, <1>12, <2>1, <2>4, <2>5, <2>6, <3>1, <3>2 DEF Walking
  <2>8. InCycle'
    <3>1. j + 1 \in Nat \ {0} /\ C \in SUBSET Elements'
      BY <1>10
    <3> QED BY <2>7, <3>1 DEF InCycle
  <2> QED BY <1>1, <2>2, <2>8 DEF Inv, BetweenCycles, Constructed, Seeking, Searching, Finding
<1>16. CASE space # Spacing
  <2>1. UNCHANGED << dest, marked, lastShortcut >> /\ space' = space + 1
    BY <1>16 DEF Walk
  <2>2. Typed'
    BY <1>1, <1>4, <1>8, <1>10, <2>1 DEF Inv, Typed
  <2>3. Shortened(C)'
    BY <1>1, <1>5, <2>1, ShortenedFrame DEF Shortened
  <2>4. ASSUME NEW m \in marked'
        PROVE  m \in C \/ \E q \in 1 .. j : LinkedWithin(m, q)'
    <3>1. m \in marked
      BY <2>1
    <3>2. CASE m \in C
      BY <3>2
    <3>3. CASE \E q \in 1 .. (j - 1) : LinkedWithin(m, q)
      <4>1. PICK q \in 1 .. (j - 1) : LinkedWithin(m, q)
        BY <3>3
      <4>2. LinkedWithin(m, q)'
        BY <1>10, <2>1, <4>1 DEF LinkedWithin
      <4>3. q \in 1 .. j
        OBVIOUS
      <4> QED BY <4>2, <4>3
    <3> QED BY <1>6, <3>1, <3>2, <3>3
  <2>5. ASSUME NEW q \in 1 .. (j - space) PROVE MarkAhead(Place(q))'
    <3>1. PICK x : x = Place(q)
      OBVIOUS
    <3>2. MarkAhead(x)'
      BY <1>1, <1>6, <2>1, <3>1, MarkAheadGrows
    <3> QED BY <1>10, <3>1, <3>2 DEF MarkAhead
  <2>6. Walking(j + 1, C)'
    <3>1. /\ (j + 1) - 1 = j /\ (j + 1) - (space + 1) = j - space
          /\ space' \in 1 .. Spacing' /\ space' <= j + 1
          /\ j + 1 # space' => j # space
      BY <1>5, <1>7, <1>10, <1>16, <2>1
    <3>2. ASSUME NEW q \in ((j + 1) - space' + 1) .. ((j + 1) - 1) PROVE Place(q)' \notin marked'
      <4>1. q = j \/ q \in (j - space + 1) .. (j - 1)
        BY <1>4, <2>1
      <4> QED BY <1>5, <1>10, <1>14, <2>1, <4>1
    <3> PICK d : d = j - space
      OBVIOUS
    <3>3. lastShortcut' = Place(d)' /\ (j + 1 # space' => lastShortcut' \in marked')
      BY <1>5, <1>10, <2>1, <3>1
    <3>4. \A q \in 1 .. d : MarkAhead(Place(q))'
      BY <2>5
    <3>5. (j + 1) - space' = d
      BY <2>1, <3>1
    <3>6. /\ (lastShortcut = Place((j + 1) - space))'
          /\ (\A q \in 1 .. ((j + 1) - space) : MarkAhead(Place(q)))'
      BY <3>3, <3>4, <3>5 DEF Place
    <3>7. current' = Place(j + 1)' /\ processed' = C \cup {Place(q)' : q \in 1 .. (j + 1)}
      BY <1>8, <1>10, <1>11
    <3>8. \A q \in 1 .. ((j + 1) - 1) : Place(q)' # given[i]'
      BY <1>1, <1>10, <1>12, <3>1
    <3>9. \A m \in marked' : m \in C \/ \E q \in 1 .. ((j + 1) - 1) : LinkedWithin(m, q)'
      BY <2>4, <3>1
    <3>10. i' \in Elements' \ C
      BY <1>1, <1>5, <1>10
    <3>11. (\A q \in ((j + 1) - space + 1) .. ((j + 1) - 1) : Place(q) \notin marked)'
      BY <3>2
    <3>12. (space \in 1 .. Spacing /\ space <= j + 1 /\ (j + 1 # space => lastShortcut \in marked))'
      BY <3>1, <3>3
    <3>13. (current = Place(j + 1) /\ processed = C \cup {Place(q) : q \in 1 .. (j + 1)})'
      BY <3>7
    <3>14. (\A q \in 1 .. ((j + 1) - 1) : Place(q) # given[i])'
      BY <3>8
    <3>15. (\A m \in marked : m \in C \/ \E q \in 1 .. ((j + 1) - 1) : LinkedWithin(m, q))'
      BY <3>9
    <3>16. (i \in Elements \ C)' /\ Shortened(C)'
      BY <2>3, <3>10
    <3> QED BY <3>6, <3>11, <3>12, <3>13, <3>14, <3>15, <3>16, Zenon DEF Walking
  <2>7. InCycle'
    <3>1. j + 1 \in Nat \ {0} /\ C \in SUBSET Elements'
      BY <1>10
    <3> QED BY <2>6, <3>1 DEF InCycle
  <2> QED BY <1>1, <2>2, <2>7 DEF Inv, BetweenCycles, Constructed, Seeking, Searching, Finding
<1> QED BY <1>15, <1>16

(* The walk has come back: the cycle is whole, and i is one of its places. *)
LEMMA CyclesWhole ==
  ASSUME Inv, NEW j \in Nat \ {0}, NEW C \in SUBSET Elements, Walking(j, C), current = given[i]
  PROVE  /\ \A x \in Elements : x \in processed <=> given[x] \in processed
         /\ i \in processed
<1>1. /\ i \in Elements /\ i \notin C /\ Shortened(C)
      /\ processed = C \cup {Place(q) : q \in 1 .. j}
      /\ current = Place(j)
  BY DEF Walking
<1>2. /\ given \in Inputs /\ IsPermutation(given) /\ Elements = DOMAIN given
  BY GivenFacts DEF Inv, Typed
<1>3. /\ Place(0) = given[i] /\ Place(j) = Place(0)
      /\ \A q \in Nat : Place(q) \in Elements /\ Place(q + 1) = given[Place(q)]
  BY <1>1, <1>2, Places
<1>4. \A x, y \in Elements : given[x] = given[y] => x = y
  BY <1>2 DEF IsPermutation
<1>5. ASSUME NEW x \in Elements, NEW q \in 1 .. j, x = Place(q)
      PROVE  \E r \in 1 .. j : given[x] = Place(r)
  <2>1. CASE q = j
    <3>1. given[x] = Place(0 + 1) /\ 0 + 1 \in 1 .. j
      BY <1>3, <1>5, <2>1
    <3> QED BY <3>1
  <2>2. CASE q # j
    <3>1. q \in Nat /\ q + 1 \in 1 .. j
      BY <2>2
    <3>2. given[x] = Place(q + 1)
      BY <1>3, <1>5, <3>1
    <3> QED BY <3>1, <3>2
  <2> QED BY <2>1, <2>2
<1>6. ASSUME NEW x \in Elements, NEW q \in 1 .. j, given[x] = Place(q)
      PROVE  \E r \in 1 .. j : x = Place(r)
  <2> DEFINE r == q - 1
  <2>1. r \in Nat /\ r + 1 = q /\ (r # 0 => r \in 1 .. j) /\ j \in 1 .. j
    OBVIOUS
  <2> HIDE DEF r
  <2>2. given[x] = given[Place(r)] /\ Place(r) \in Elements
    BY <1>3, <1>6, <2>1
  <2>3. x = Place(r)
    BY <1>4, <2>2
  <2> QED BY <1>3, <2>1, <2>3
<1>7. \A x \in Elements : x \in C <=> given[x] \in C
  BY <1>1 DEF Shortened
<1>8. ASSUME NEW x \in Elements
      PROVE  x \in processed <=> given[x] \in processed
  <2>1. x \in {Place(q) : q \in 1 .. j} => \E q \in 1 .. j : x = Place(q)
    OBVIOUS
  <2>2. given[x] \in {Place(q) : q \in 1 .. j} => \E q \in 1 .. j : given[x] = Place(q)
    OBVIOUS
  <2>3. (\E q \in 1 .. j : x = Place(q)) => given[x] \in {Place(q) : q \in 1 .. j}
    BY <1>5
  <2>4. (\E q \in 1 .. j : given[x] = Place(q)) => x \in {Place(q) : q \in 1 .. j}
    BY <1>6
  <2> QED BY <1>1, <1>7, <2>1, <2>2, <2>3, <2>4
<1>9. i \in processed
  <2>1. j \in 1 .. j /\ given[i] = Place(j)
    BY <1>3
  <2>2. \E r \in 1 .. j : i = Place(r)
    BY <1>1, <1>6, <2>1
  <2> QED BY <1>1, <2>2
<1> QED BY <1>8, <1>9

(* The shortcut that closes the cycle shortens the whole of it.            *)
LEMMA ClosePreserves == Inv /\ CloseCycle => Inv'
<1> SUFFICES ASSUME Inv, CloseCycle PROVE Inv'
  OBVIOUS
<1>1. /\ pc = "cycle" /\ pc' = "elements" /\ current = perm[i] /\ i' = i + 1
      /\ dest' = [dest EXCEPT ![current] = lastShortcut]
      /\ marked' = marked \cup {current}
      /\ UNCHANGED << given, perm, processed, space, lastShortcut, shortcuts, current, asked, steps >>
  BY DEF CloseCycle
<1>2. PICK j \in Nat \ {0} : \E C \in SUBSET Elements : Walking(j, C)
  BY <1>1 DEF Inv, InCycle
<1>3. PICK C \in SUBSET Elements : Walking(j, C)
  BY <1>2
<1>4. /\ given \in Inputs /\ perm = given /\ processed \subseteq Elements /\ marked \subseteq Elements
      /\ dest \in [Elements -> Elements] /\ lastShortcut \in Elements /\ current \in Elements
      /\ space \in Nat /\ i \in Nat
  BY DEF Inv, Typed
<1>5. /\ i \in Elements /\ i \notin C /\ Shortened(C)
      /\ processed = C \cup {Place(q) : q \in 1 .. j}
      /\ current = Place(j)
      /\ \A q \in 1 .. (j - 1) : Place(q) # given[i]
      /\ space \in 1 .. Spacing /\ space <= j
      /\ lastShortcut = Place(j - space)
      /\ j # space => lastShortcut \in marked
      /\ \A q \in (j - space + 1) .. (j - 1) : Place(q) \notin marked
  BY <1>3 DEF Walking
<1>6. /\ \A m \in marked : m \in C \/ \E q \in 1 .. (j - 1) : LinkedWithin(m, q)
      /\ \A q \in 1 .. (j - space) : MarkAhead(Place(q))
  BY <1>3 DEF Walking
<1>7. /\ IsPermutation(given) /\ Elements = DOMAIN given /\ Spacing \in Nat \ {0}
      /\ Elements \subseteq Nat
  BY <1>4, GivenFacts
<1>8. current = given[i] /\ Place(0) = current /\ \A q \in Nat : Place(q) \in Elements
  BY <1>1, <1>4, <1>5, Places
<1>9. /\ \A x \in Elements : x \in processed <=> given[x] \in processed
      /\ i \in processed
  BY <1>3, <1>8, CyclesWhole
<1>10. Elements' = Elements /\ Spacing' = Spacing /\ marked \subseteq marked' /\ given' = given
  BY <1>1, Unmoved
<1>11. dest'[current] = lastShortcut /\ \A m \in Elements : m # current => dest'[m] = dest[m]
  BY <1>1, <1>4
<1>12. \A x \in Elements : x < i' => x \in processed
  <2>1. \A x \in Elements : x < i + 1 => x < i \/ x = i
    BY <1>4, <1>7
  <2>2. \A x \in Elements : x < i => x \in processed
    BY <1>5 DEF Shortened
  <2> QED BY <1>1, <1>9, <2>1, <2>2
<1>13. ASSUME NEW x \in processed PROVE MarkAhead(x)'
  <2>1. CASE x \in C
    BY <1>5, <1>10, <2>1, MarkAheadGrows DEF Shortened
  <2>2. CASE x \notin C
    <3>1. PICK q \in 1 .. j : x = Place(q)
      BY <1>5, <2>2
    <3>2. CASE q \in 1 .. (j - space)
      BY <1>6, <1>10, <3>1, <3>2, MarkAheadGrows
    <3>3. CASE q \notin 1 .. (j - space)
      <4>1. j - q \in 0 .. (Spacing - 1) /\ q \in Nat /\ j - q \in Nat /\ q + (j - q) = j
        BY <1>5, <1>7, <3>3
      <4>2. After(given, x, j - q) = Place(j)
        BY <1>4, <1>5, <3>1, <4>1, Places
      <4>3. After(given, x, j - q) \in marked'
        BY <1>1, <1>5, <4>2
      <4> QED BY <1>10, <4>1, <4>3 DEF MarkAhead
    <3> QED BY <3>2, <3>3
  <2> QED BY <2>1, <2>2
<1>14. current \notin C
  BY <1>4, <1>5, <1>8, PlacesOutside DEF Shortened
<1>15. ASSUME NEW q \in 1 .. (j - 1) PROVE Place(q) # current
  BY <1>5, <1>8
<1>16. ASSUME NEW q \in 1 .. j, NEW k \in 1 .. Spacing, k <= q, NEW m \in Elements, m = Place(q),
              dest'[m] = Place(q - k), dest'[m] \in marked',
              \A r \in (q - k + 1) .. (q - 1) : Place(r) \notin marked
       PROVE  Linked(m)'
  <2> DEFINE from == q - k
  <2>1. from \in Nat /\ from + k = q /\ k \in Nat
    BY <1>7, <1>16
  <2>2. dest'[m] = Place(from)
    BY <1>16
  <2>3. ASSUME NEW r \in 1 .. (k - 1) PROVE from + r \in (q - k + 1) .. (q - 1) /\ r \in Nat /\ from + r \in 1 .. (j - 1)
    BY <1>7, <1>16
  <2> HIDE DEF from
  <2>4. After(given, dest'[m], k) = m
    BY <1>4, <1>5, <1>16, <2>1, <2>2, Places
  <2>5. ASSUME NEW r \in 1 .. (k - 1) PROVE After(given, dest'[m], r) \notin marked'
    <3>1. After(given, dest'[m], r) = Place(from + r)
      BY <1>4, <1>5, <2>1, <2>2, <2>3, Places
    <3>2. Place(from + r) \notin marked /\ Place(from + r) # current
      BY <1>15, <1>16, <2>3
    <3> QED BY <1>1, <3>1, <3>2
  <2> QED BY <1>10, <1>16, <2>4, <2>5 DEF Linked
<1>17. ASSUME NEW m \in marked' PROVE Linked(m)'
  <2>1. CASE m = current
    <3>1. PICK k : k = space
      OBVIOUS
    <3>2. /\ j \in 1 .. j /\ k \in 1 .. Spacing /\ k <= j /\ m \in Elements /\ m = Place(j)
          /\ dest'[m] = Place(j - k)
          /\ \A r \in (j - k + 1) .. (j - 1) : Place(r) \notin marked
      BY <1>4, <1>5, <1>11, <2>1, <3>1
    <3>3. dest'[m] \in marked'
      <4>1. CASE j = space
        <5>1. j - space = 0
          BY <4>1
        <5>2. lastShortcut = current
          BY <1>5, <1>8, <5>1
        <5> QED BY <1>1, <1>11, <2>1, <5>2
      <4>2. CASE j # space
        BY <1>1, <1>5, <1>11, <2>1, <4>2
      <4> QED BY <4>1, <4>2
    <3> QED BY <1>16, <3>2, <3>3
  <2>2. CASE m # current /\ m \in C
    <3>1. m \in marked /\ m \in Elements /\ dest'[m] = dest[m]
      BY <1>1, <1>4, <1>11, <2>2
    <3>2. Linked(m)
      BY <1>5, <2>2, <3>1 DEF Shortened
    <3>3. \A x \in Elements : x \in C <=> given[x] \in C
      BY <1>5 DEF Shortened
    <3>4. PICK c : c = current
      OBVIOUS
    <3> QED BY <1>1, <1>4, <1>10, <1>14, <2>2, <3>1, <3>2, <3>3, <3>4, LinkedKept
  <2>3. CASE m # current /\ m \notin C
    <3>1. m \in marked /\ m \in Elements /\ dest'[m] = dest[m]
      BY <1>1, <1>4, <1>11, <2>3
    <3>2. PICK q \in 1 .. (j - 1) : LinkedWithin(m, q)
      BY <1>6, <2>3, <3>1
    <3>3. m = Place(q)
      BY <3>2 DEF LinkedWithin
    <3>4. PICK k \in 1 .. Spacing :
            /\ k <= q /\ dest[m] = Place(q - k)
            /\ q # k => dest[m] \in marked
            /\ \A r \in (q - k + 1) .. (q - 1) : Place(r) \notin marked
      BY <3>2 DEF LinkedWithin
    <3>5. dest'[m] \in marked'
      <4>1. CASE q = k
        <5>1. q - k = 0
          BY <4>1
        <5> QED BY <1>1, <1>8, <3>1, <3>4, <5>1
      <4>2. CASE q # k
        BY <1>1, <3>1, <3>4, <4>2
      <4> QED BY <4>1, <4>2
    <3>6. q \in 1 .. j
      OBVIOUS
    <3> QED BY <1>16, <3>1, <3>3, <3>4, <3>5, <3>6
  <2> QED BY <2>1, <2>2, <2>3
<1>18. BetweenCycles'
  <2>1. marked' \subseteq processed'
    <3>1. current \in processed
      <4>1. j \in 1 .. j
        OBVIOUS
      <4> QED BY <1>5, <4>1
    <3>2. ASSUME NEW m \in marked PROVE m \in processed
      <4>1. CASE m \in C
        BY <1>5, <4>1
      <4>2. CASE m \notin C
        <5>1. PICK q \in 1 .. (j - 1) : LinkedWithin(m, q)
          BY <1>6, <4>2
        <5>2. q \in 1 .. j /\ m = Place(q)
          BY <5>1 DEF LinkedWithin
        <5> QED BY <1>5, <5>2
      <4> QED BY <4>1, <4>2
    <3> QED BY <1>1, <3>1, <3>2
  <2>2. PICK D : D = processed
    OBVIOUS
  <2>3. Shortened(D)'
    <3>1. \A x \in D : MarkAhead(x)'
      BY <1>13, <2>2
    <3>2. \A x \in Elements' : x < i' => x \in D
      BY <1>10, <1>12, <2>2
    <3>3. \A x \in Elements' : x \in D <=> given'[x] \in D
      BY <1>9, <1>10, <2>2
    <3>4. D \subseteq Elements' /\ \A m \in marked' : Linked(m)'
      BY <1>4, <1>10, <1>17, <2>2
    <3> QED BY <3>1, <3>2, <3>3, <3>4 DEF Shortened
  <2>4. processed' = D
    BY <1>1, <2>2
  <2> QED BY <2>1, <2>3, <2>4 DEF BetweenCycles, Shortened
<1>19. Typed'
  BY <1>1, <1>4, <1>10 DEF Inv, Typed
<1> QED BY <1>1, <1>18, <1>19 DEF Inv, InCycle, Constructed, Seeking, Searching, Finding

(* When the loop ends every cycle is shortened, and the shortcut kept for  *)
(* a mark is the destination noted for it.                                 *)
LEMMA PackPreserves == Inv /\ PackShortcuts => Inv'
<1> SUFFICES ASSUME Inv, PackShortcuts PROVE Inv'
  OBVIOUS
<1>1. /\ pc = "elements" /\ pc' = "ready" /\ i = Cardinality(Elements)
      /\ shortcuts' = [k \in 1 .. Cardinality(marked) |-> Packed(WordWidth, dest[Select(marked, k)])]
      /\ UNCHANGED << given, perm, i, processed, space, lastShortcut, dest, marked, current, asked, steps >>
  BY DEF PackShortcuts
<1>2. given \in Inputs /\ Shortened(processed) /\ marked \subseteq processed
  BY <1>1 DEF Inv, Typed, BetweenCycles
<1>3. Elements' = Elements /\ WordWidth' = WordWidth /\ Spacing' = Spacing
  BY <1>1, Unmoved
<1>4. Elements \subseteq processed
  <2>1. \A x \in Elements : x < i
    BY <1>1, <1>2, GivenFacts
  <2> QED BY <1>2, <2>1 DEF Shortened
<1>5. /\ \A x \in Elements : MarkAhead(x)
      /\ \A m \in marked : Linked(m)
  BY <1>2, <1>4 DEF Shortened
<1>6. Constructed'
  BY <1>1, <1>3, <1>5 DEF Constructed, MarkAhead, Linked
<1>7. Typed'
  BY <1>1, <1>3 DEF Inv, Typed
<1> QED BY <1>1, <1>6, <1>7 DEF Inv, BetweenCycles, InCycle, Seeking, Searching, Finding

-----------------------------------------------------------------------------
(* previous preserves the invariant *)

(* A call of previous changes nothing construct has built. *)
LEMMA ConstructedFrame ==
  ASSUME UNCHANGED built, Constructed, pc \notin {"elements", "cycle"}
  PROVE  Constructed' /\ Elements' = Elements /\ Spacing' = Spacing /\ given' = given
<1>1. UNCHANGED << given, dest, marked, shortcuts >>
  BY DEF built
<1> QED BY <1>1, Unmoved DEF Constructed, MarkAhead, Linked

(* What is stored for a mark is where its shortcut leads.                  *)
LEMMA ShortcutIsDest ==
  ASSUME Typed, Constructed, pc \notin {"elements", "cycle"}, NEW m \in marked
  PROVE  ShortcutAt(m) = dest[m]
<1>1. given \in Inputs /\ marked \subseteq Elements /\ dest \in [Elements -> Elements]
  BY DEF Typed
<1>2. IsFiniteSet(marked) /\ marked \subseteq Nat
  BY <1>1, GivenFacts, FS_Subset
<1>3. Select(marked, Rank(marked, m + 1)) = m /\ Rank(marked, m + 1) \in 1 .. Cardinality(marked)
  BY <1>2, RankSelect
<1>4. shortcuts = [k \in 1 .. Cardinality(marked) |-> Packed(WordWidth, dest[Select(marked, k)])]
  BY DEF Constructed
<1>5. ShortcutAt(m) = Packed(WordWidth, dest[m])
  BY <1>3, <1>4 DEF ShortcutAt
<1>6. dest[m] \in Elements
  BY <1>1
<1> QED BY <1>1, <1>5, <1>6, GivenFacts

(* A call of previous begins where it asks. *)
LEMMA AskPreserves == Inv /\ AskPrevious => Inv'
<1> SUFFICES ASSUME Inv, AskPrevious PROVE Inv'
  OBVIOUS
<1>1. PICK k \in Elements : asked' = k /\ current' = k
  BY DEF AskPrevious
<1>2. pc \in {"ready", "found"} /\ steps' = 0 /\ pc' = "seek" /\ UNCHANGED built
  BY DEF AskPrevious
<1>3. Constructed' /\ Elements' = Elements /\ Spacing' = Spacing /\ given' = given
  BY <1>2, ConstructedFrame DEF Inv
<1>4. Typed'
  BY <1>1, <1>2, <1>3 DEF Inv, Typed, built
<1>5. Seeking'
  <2>1. After(given', k, 0) = k
    BY AfterStep
  <2>2. 0 .. (0 - 1) = {}
    OBVIOUS
  <2> QED BY <1>1, <1>2, <2>1, <2>2 DEF Seeking
<1> QED BY <1>2, <1>3, <1>4, <1>5 DEF Inv, BetweenCycles, InCycle, Searching, Finding

(* The walk to the next mark comes one element closer to it. *)
LEMMA SeekPreserves == Inv /\ Seek => Inv'
<1> SUFFICES ASSUME Inv, Seek PROVE Inv'
  OBVIOUS
<1>1. /\ pc = "seek" /\ pc' = "seek" /\ current \notin marked /\ current' = perm[current]
      /\ steps' = steps + 1 /\ asked' = asked /\ UNCHANGED built
  BY DEF Seek, Successor
<1>2. Constructed' /\ Elements' = Elements /\ Spacing' = Spacing /\ given' = given
  BY <1>1, ConstructedFrame DEF Inv
<1>3. /\ given \in Inputs /\ perm = given /\ current \in Elements /\ asked \in Elements /\ steps \in Nat
      /\ marked' = marked
  BY <1>1 DEF Inv, Typed, built
<1>4. given[current] \in Elements
  BY <1>3, GivenFacts DEF IsPermutation
<1>5. Typed'
  BY <1>1, <1>2, <1>3, <1>4 DEF Inv, Typed, built
<1>6. Seeking'
  <2>1. /\ current = After(given, asked, steps)
        /\ \A j \in 0 .. (steps - 1) : After(given, asked, j) \notin marked
    BY <1>1 DEF Inv, Seeking
  <2>2. current' = After(given', asked', steps')
    BY <1>1, <1>2, <1>3, <2>1, AfterStep
  <2>3. ASSUME NEW j \in 0 .. (steps' - 1) PROVE After(given', asked', j) \notin marked'
    <3>1. j \in 0 .. (steps - 1) \/ j = steps
      BY <1>1, <1>3
    <3> QED BY <1>1, <1>2, <1>3, <2>1, <3>1
  <2> QED BY <2>2, <2>3 DEF Seeking
<1> QED BY <1>1, <1>2, <1>5, <1>6 DEF Inv, BetweenCycles, InCycle, Searching, Finding

(* The shortcut goes back behind the element asked about: the walk to the  *)
(* mark saw no other one, so it began after where the shortcut leads.      *)
LEMMA TakePreserves == Inv /\ TakeShortcut => Inv'
<1> SUFFICES ASSUME Inv, TakeShortcut PROVE Inv'
  OBVIOUS
<1>1. /\ pc = "seek" /\ pc' = "search" /\ current \in marked /\ current' = ShortcutAt(current)
      /\ steps' = steps + 1 /\ asked' = asked /\ UNCHANGED built
  BY DEF TakeShortcut
<1>2. Constructed' /\ Elements' = Elements /\ Spacing' = Spacing /\ given' = given
  BY <1>1, ConstructedFrame DEF Inv
<1>3. /\ given \in Inputs /\ perm = given /\ current \in Elements /\ asked \in Elements /\ steps \in Nat
      /\ marked' = marked /\ marked \subseteq Elements
  BY <1>1 DEF Inv, Typed, built
<1>4. IsPermutation(given) /\ Elements = DOMAIN given /\ Spacing \in Nat \ {0}
  BY <1>3, GivenFacts
<1>5. /\ current = After(given, asked, steps)
      /\ \A j \in 0 .. (steps - 1) : After(given, asked, j) \notin marked
  BY <1>1 DEF Inv, Seeking
<1>6. current' = dest[current] /\ Linked(current)
  BY <1>1, ShortcutIsDest DEF Inv, Constructed
<1>7. dest[current] \in marked /\ dest[current] \in Elements
  BY <1>3, <1>6 DEF Linked
<1>8. PICK k \in 1 .. Spacing : After(given, dest[current], k) = current
  BY <1>6 DEF Linked
<1>9. k \in Nat /\ k >= 1 /\ k <= Spacing
  BY <1>4
<1>10. steps < k
  <2> SUFFICES ASSUME ~(steps < k) PROVE FALSE
    OBVIOUS
  <2>1. k <= steps
    BY <1>3, <1>9
  <2>2. After(given, asked, steps - k) = dest[current]
    BY <1>3, <1>4, <1>5, <1>7, <1>8, <1>9, <2>1, AfterReturns
  <2>3. steps - k \in 0 .. (steps - 1)
    BY <1>3, <1>9, <2>1
  <2> QED BY <1>5, <1>7, <2>2, <2>3
<1>11. After(given, dest[current], k - steps) = asked
  BY <1>3, <1>4, <1>5, <1>7, <1>8, <1>9, <1>10, AfterReturns
<1>12. Searching'
  <2>1. PICK r : r = k - steps
    OBVIOUS
  <2>2. r \in 1 .. Spacing /\ (steps + 1) + r <= Spacing + 1
    BY <1>3, <1>4, <1>9, <1>10, <2>1
  <2>3. After(given', current', r) = asked'
    BY <1>1, <1>2, <1>6, <1>11, <2>1
  <2> QED BY <1>1, <1>2, <2>2, <2>3 DEF Searching
<1>13. Typed'
  BY <1>1, <1>2, <1>3, <1>6, <1>7 DEF Inv, Typed, built
<1> QED BY <1>1, <1>2, <1>12, <1>13 DEF Inv, BetweenCycles, InCycle, Seeking, Finding

(* The walk from the destination of the shortcut comes one element closer  *)
(* to the element asked about.                                             *)
LEMMA SearchPreserves == Inv /\ Search => Inv'
<1> SUFFICES ASSUME Inv, Search PROVE Inv'
  OBVIOUS
<1>1. /\ pc = "search" /\ pc' = "search" /\ perm[current] # asked /\ current' = perm[current]
      /\ steps' = steps + 1 /\ asked' = asked /\ UNCHANGED built
  BY DEF Search, Successor
<1>2. Constructed' /\ Elements' = Elements /\ Spacing' = Spacing /\ given' = given
  BY <1>1, ConstructedFrame DEF Inv
<1>3. /\ given \in Inputs /\ perm = given /\ current \in Elements /\ asked \in Elements /\ steps \in Nat
  BY <1>1 DEF Inv, Typed
<1>4. /\ IsPermutation(given) /\ Elements = DOMAIN given /\ Spacing \in Nat \ {0}
      /\ given[current] \in Elements
  BY <1>3, GivenFacts DEF IsPermutation
<1>5. PICK r \in 1 .. Spacing : After(given, current, r) = asked /\ steps + r <= Spacing + 1
  BY <1>1 DEF Inv, Searching
<1>6. After(given, current, 0) = current /\ After(given, current, 1) = given[current]
  <2>1. PICK z \in Nat : z = 0
    OBVIOUS
  <2>2. After(given, current, z + 1) = given[After(given, current, z)]
    BY AfterStep
  <2>3. z + 1 = 1
    BY <2>1
  <2> QED BY <2>1, <2>2, <2>3, AfterStep
<1>7. r # 1 /\ r \in Nat
  BY <1>1, <1>3, <1>4, <1>5, <1>6
<1>8. After(given, given[current], r - 1) = asked
  <2>1. 1 \in Nat /\ r - 1 \in Nat /\ 1 + (r - 1) = r
    BY <1>4, <1>7
  <2>2. After(given, After(given, current, 1), r - 1) = After(given, current, r)
    BY <2>1, AfterSum
  <2> QED BY <1>5, <1>6, <2>2
<1>9. Searching'
  <2>1. r - 1 \in 1 .. Spacing /\ (steps + 1) + (r - 1) <= Spacing + 1
    BY <1>3, <1>4, <1>5, <1>7
  <2>2. After(given', current', r - 1) = asked'
    BY <1>1, <1>2, <1>3, <1>8
  <2> QED BY <1>1, <1>2, <2>1, <2>2 DEF Searching
<1>10. Typed'
  BY <1>1, <1>2, <1>3, <1>4 DEF Inv, Typed, built
<1> QED BY <1>1, <1>2, <1>9, <1>10 DEF Inv, BetweenCycles, InCycle, Seeking, Finding

(* The walk ends at the element before the one asked about. *)
LEMMA FoundPreserves == Inv /\ Found => Inv'
<1> SUFFICES ASSUME Inv, Found PROVE Inv'
  OBVIOUS
<1>1. /\ pc = "search" /\ pc' = "found" /\ perm[current] = asked
      /\ UNCHANGED << current, asked, steps >> /\ UNCHANGED built
  BY DEF Found, Successor
<1>2. Constructed' /\ Elements' = Elements /\ Spacing' = Spacing /\ given' = given
  BY <1>1, ConstructedFrame DEF Inv
<1>3. given \in Inputs /\ perm = given /\ steps \in Nat /\ Spacing \in Nat
  BY GivenFacts DEF Inv, Typed
<1>4. PICK r \in 1 .. Spacing : steps + r <= Spacing + 1
  BY <1>1 DEF Inv, Searching
<1>5. Finding'
  BY <1>1, <1>2, <1>3, <1>4 DEF Finding
<1>6. Typed'
  BY <1>1, <1>2 DEF Inv, Typed, built
<1> QED BY <1>1, <1>2, <1>5, <1>6 DEF Inv, BetweenCycles, InCycle, Seeking, Searching

-----------------------------------------------------------------------------
(* The theorems *)

(* In every reachable state of construct and previous, for every           *)
(* permutation: the cycles gone by have their shortcuts, the one at hand   *)
(* has those of the places gone by, and previous keeps count of its way.   *)
THEOREM Invariance == Spec => []Inv
<1>1. Init => Inv
  BY InitInv
<1>2. Inv /\ [Next]_vars => Inv'
  <2> SUFFICES ASSUME Inv, [Next]_vars PROVE Inv'
    OBVIOUS
  <2>1. CASE UNCHANGED vars
    <3>1. UNCHANGED << given, perm, i, processed, space, lastShortcut, dest, marked, shortcuts,
                       current, asked, steps, pc >>
      BY <2>1 DEF vars, built
    <3>2. Elements' = Elements /\ Spacing' = Spacing /\ WordWidth' = WordWidth
      BY <3>1, Unmoved
    <3>3. /\ \A C : Shortened(C) => Shortened(C)'
          /\ \A q : Place(q)' = Place(q)
          /\ \A x : MarkAhead(x)' = MarkAhead(x)
          /\ \A m, q : LinkedWithin(m, q)' = LinkedWithin(m, q)
      BY <3>1, <3>2 DEF Shortened, MarkAhead, Linked, Place, LinkedWithin
    <3>4. BetweenCycles'
      <4>1. PICK C : C = processed
        OBVIOUS
      <4>2. pc = "elements" => Shortened(C)' /\ marked' \subseteq C
        BY <3>1, <3>3, <4>1 DEF Inv, BetweenCycles
      <4> QED BY <3>1, <4>1, <4>2 DEF BetweenCycles, Shortened
    <3>5. InCycle'
      <4> SUFFICES ASSUME pc = "cycle" PROVE \E j \in Nat \ {0} : \E C \in SUBSET Elements' : Walking(j, C)'
        BY <3>1 DEF InCycle
      <4>1. PICK j \in Nat \ {0}, C \in SUBSET Elements : Walking(j, C)
        BY DEF Inv, InCycle
      <4>2. Walking(j, C)'
        BY <3>1, <3>2, <3>3, <4>1 DEF Walking, Place, MarkAhead
      <4> QED BY <3>2, <4>1, <4>2
    <3>6. Constructed'
      BY <3>1, <3>2, <3>3 DEF Inv, Constructed, Linked
    <3>7. Typed' /\ Seeking' /\ Searching' /\ Finding'
      BY <3>1, <3>2 DEF Inv, Typed, Seeking, Searching, Finding
    <3> QED BY <3>4, <3>5, <3>6, <3>7 DEF Inv
  <2> QED BY <2>1, SkipPreserves, EnterPreserves, WalkPreserves, ClosePreserves, PackPreserves,
             AskPreserves, SeekPreserves, TakePreserves, SearchPreserves, FoundPreserves DEF Next, Step
<1> QED BY <1>1, <1>2, PTL DEF Spec

(* Once construct is done, every shortcut leads to the shortcut before it  *)
(* on its cycle, at most m_shortcut_spacing elements back, and a shortcut  *)
(* is that near from everywhere.                                           *)
THEOREM ShortcutsCorrectness == Spec => []ShortcutsLeadBack
<1>1. Inv => ShortcutsLeadBack
  <2> SUFFICES ASSUME Inv, pc \notin {"elements", "cycle"}
               PROVE  /\ \A x \in Elements : \E k \in 0 .. (Spacing - 1) : After(given, x, k) \in marked
                      /\ \A m \in marked :
                           /\ ShortcutAt(m) \in marked
                           /\ \E k \in 1 .. Spacing :
                                /\ After(given, ShortcutAt(m), k) = m
                                /\ \A j \in 1 .. (k - 1) : After(given, ShortcutAt(m), j) \notin marked
    BY DEF ShortcutsLeadBack
  <2>1. \A m \in marked : ShortcutAt(m) = dest[m]
    BY ShortcutIsDest DEF Inv
  <2>2. (\A x \in Elements : MarkAhead(x)) /\ \A m \in marked : Linked(m)
    BY DEF Inv, Constructed
  <2> QED BY <2>1, <2>2 DEF MarkAhead, Linked
<1> QED BY <1>1, Invariance, PTL

(* previous inverts next, and follows at most m_shortcut_spacing pointers  *)
(* for it, in every permutation and however long its cycles are.           *)
THEOREM PreviousCorrectness == Spec => []PreviousInTime
<1>1. Inv => PreviousInTime
  <2> SUFFICES ASSUME Inv PROVE pc \in {"seek", "search"} => steps <= Spacing
    BY DEF PreviousInTime, Inv, Finding
  <2>1. given \in Inputs /\ steps \in Nat /\ asked \in Elements /\ Spacing \in Nat
    BY GivenFacts DEF Inv, Typed
  <2>2. CASE pc = "seek"
    <3>1. PICK k \in 0 .. (Spacing - 1) : After(given, asked, k) \in marked
      BY <2>1, <2>2 DEF Inv, Constructed, MarkAhead
    <3>2. k \notin 0 .. (steps - 1)
      BY <2>2, <3>1 DEF Inv, Seeking
    <3> QED BY <2>1, <3>2
  <2>3. CASE pc = "search"
    <3>1. PICK r \in 1 .. Spacing : steps + r <= Spacing + 1
      BY <2>3 DEF Inv, Searching
    <3> QED BY <2>1, <3>1
  <2> QED BY <2>2, <2>3
<1> QED BY <1>1, Invariance, PTL
=============================================================================
