---------------------------- MODULE LzEnd_proofs ----------------------------
(***************************************************************************)
(* Proofs about LzEnd, for every parsing of two phrases or more: the bit   *)
(* vectors and the packed map say of every phrase where its source is, at  *)
(* returns the character asked for, and what substr writes and has still   *)
(* to do always makes up the range asked for.                              *)
(***************************************************************************)
EXTENDS LzEnd, FiniteSetTheorems, SequenceTheorems, WellFoundedInduction, NaturalsInduction, TLAPS

-----------------------------------------------------------------------------
(* Numbers                                                                 *)

(* A nonempty set of natural numbers has a least element. *)
LEMMA LeastNatural ==
  ASSUME NEW S, S \subseteq Nat, S # {}
  PROVE  \E m \in S : \A n \in S : m <= n
<1> DEFINE less == OpToRel(<, Nat)
<1>1. IsWellFoundedOn(less, Nat)
  BY NatLessThanWellFounded
<1>2. \A m, n \in Nat : n < m => << n, m >> \in less
  BY DEF OpToRel
<1> HIDE DEF less
<1>3. PICK m \in S : \A n \in S : ~(<< n, m >> \in less)
  BY <1>1, WFMin
<1>4. ASSUME NEW n \in S PROVE m <= n
  <2>1. ~(n < m)
    BY <1>2, <1>3
  <2> QED BY <2>1
<1> QED BY <1>4

(* CeilLog2 yields the least width wide enough for every smaller value.    *)
LEMMA CeilLog2Wide ==
  ASSUME NEW v \in Nat, v <= 2^MaxWidth
  PROVE  /\ CeilLog2(v) \in 0 .. MaxWidth /\ 2^CeilLog2(v) >= v
         /\ \A c \in 0 .. (CeilLog2(v) - 1) : 2^c < v
<1> DEFINE wide == {b \in 0 .. MaxWidth : 2^b >= v}
<1>1. MaxWidth \in Nat /\ \A b \in 0 .. MaxWidth : 2^b \in Nat
  BY WidthAssumption
<1>2. MaxWidth \in wide
  BY <1>1
<1>3. PICK b \in wide : \A c \in wide : b <= c
  <2>1. wide \subseteq Nat /\ wide # {}
    BY <1>2
  <2> HIDE DEF wide
  <2> QED BY <2>1, LeastNatural
<1>4. b \in 0 .. MaxWidth /\ 2^b >= v /\ \A c \in 0 .. (b - 1) : 2^c < v
  BY <1>1, <1>3
<1> QED BY <1>4 DEF CeilLog2

(* A value below the number of values of a field is read back from it. *)
LEMMA PackedFits ==
  ASSUME NEW w \in 0 .. MaxWidth, NEW v \in Nat, v < 2^w
  PROVE  Packed(w, v) = v
<1> DEFINE values == 2^w
<1>1. values \in Nat \ {0}
  BY WidthAssumption
<1> HIDE DEF values
<1>2. v < values => v % values = v
  BY <1>1
<1> QED BY <1>2 DEF values, Packed

LEMMA MinOfInts ==
  ASSUME NEW m \in Int, NEW n \in Int
  PROVE  Min({m, n}) = IF m <= n THEN m ELSE n
<1> DEFINE l == IF m <= n THEN m ELSE n
<1>1. l \in {m, n} /\ \A y \in {m, n} : l <= y
  OBVIOUS
<1>2. Min({m, n}) \in {m, n} /\ \A y \in {m, n} : Min({m, n}) <= y
  BY <1>1 DEF Min
<1> HIDE DEF Min
<1> QED BY <1>2

(* Words and fields of s bits one after the other do not overlap. *)
LEMMA MulStrict ==
  ASSUME NEW a \in Nat, NEW b \in Nat, NEW s \in Nat \ {0}, a < b
  PROVE  a * s \in Nat /\ a * s + s <= b * s
<1>1. (a + 1) * s = a * s + s
  OBVIOUS
<1>2. PICK d \in Nat : b = (a + 1) + d
  <2>1. b - (a + 1) \in Nat /\ b = (a + 1) + (b - (a + 1))
    OBVIOUS
  <2> QED BY <2>1
<1>3. b * s = (a + 1) * s + d * s /\ d * s >= 0
  BY <1>2
<1>4. a * s \in Nat
  OBVIOUS
<1> QED BY <1>1, <1>3, <1>4

LEMMA MulMono ==
  ASSUME NEW a \in Nat, NEW s \in Nat, NEW t \in Nat, s <= t
  PROVE  a * s \in Nat /\ a * t \in Nat /\ a * s <= a * t
<1>1. PICK d \in Nat : t = s + d
  <2>1. t - s \in Nat /\ t = s + (t - s)
    OBVIOUS
  <2> QED BY <2>1
<1>2. a * t = a * s + a * d /\ a * d >= 0 /\ a * s \in Nat /\ a * t \in Nat
  BY <1>1
<1> QED BY <1>2

LEMMA DivBounds ==
  ASSUME NEW x \in Nat, NEW s \in Nat \ {0}
  PROVE  /\ x \div s \in Nat /\ (x \div s) * s <= x /\ x < (x \div s) * s + s
         /\ x % s = x - (x \div s) * s
OBVIOUS

(* The word and the place in it of a bit. *)
LEMMA DivMod ==
  ASSUME NEW b \in Nat, NEW s \in Nat \ {0}, NEW j \in 0 .. (s - 1)
  PROVE  (b * s + j) \div s = b /\ (b * s + j) % s = j
<1> DEFINE x == b * s + j
           q == x \div s
<1>1. b * s \in Nat /\ x \in Nat
  OBVIOUS
<1>2. q \in Nat /\ q * s <= x /\ x < q * s + s /\ x % s = x - q * s
  BY <1>1, DivBounds
<1>3. b * s <= x /\ x < b * s + s
  BY <1>1
<1> HIDE DEF q
<1>4. q = b
  <2>1. CASE q < b
    BY <1>1, <1>2, <1>3, <2>1, MulStrict
  <2>2. CASE b < q
    BY <1>1, <1>2, <1>3, <2>2, MulStrict
  <2> QED BY <1>2, <2>1, <2>2
<1>5. x % s = x - b * s
  BY <1>2, <1>4
<1>6. x % s = j
  BY <1>1, <1>5
<1> QED BY <1>4, <1>6 DEF q

-----------------------------------------------------------------------------
(* Bit vectors whose ones are given in order                               *)

Rising(f, n) == f \in [0 .. (n - 1) -> Nat] /\ \A a, b \in 0 .. (n - 1) : a < b => f[a] < f[b]

OnesOf(f, n) == {f[j] : j \in 0 .. (n - 1)}

(* As many ones lie before a place as there are values below it. *)
LEMMA RankIs ==
  ASSUME NEW n \in Nat, NEW f, Rising(f, n), NEW k \in 0 .. n, NEW p \in Int,
         \A j \in 0 .. (k - 1) : f[j] < p, \A j \in k .. (n - 1) : f[j] >= p
  PROVE  Rank(OnesOf(f, n), p) = k
<1> DEFINE S == {x \in OnesOf(f, n) : x < p}
           g == [m \in 1 .. k |-> f[m - 1]]
<1>1. f \in [0 .. (n - 1) -> Nat] /\ \A a, b \in 0 .. (n - 1) : a < b => f[a] < f[b]
  BY DEF Rising
<1>2. ASSUME NEW m \in 1 .. k
      PROVE  m - 1 \in 0 .. (n - 1) /\ m - 1 \in 0 .. (k - 1) /\ g[m] = f[m - 1] /\ g[m] \in S
  <2>1. m - 1 \in 0 .. (n - 1) /\ m - 1 \in 0 .. (k - 1)
    OBVIOUS
  <2> QED BY <2>1 DEF OnesOf
<1>3. ASSUME NEW x \in S PROVE \E m \in 1 .. k : g[m] = x
  <2>1. PICK j \in 0 .. (n - 1) : x = f[j] /\ f[j] < p
    BY DEF OnesOf
  <2>2. j < k
    <3>1. ASSUME j >= k PROVE FALSE
      <4>1. j \in k .. (n - 1) /\ f[j] \in Nat
        BY <1>1, <3>1
      <4> QED BY <2>1, <4>1
    <3> QED BY <3>1
  <2>3. j + 1 \in 1 .. k /\ (j + 1) - 1 = j
    BY <2>2
  <2>4. g[j + 1] = f[j]
    BY <2>3
  <2> QED BY <2>1, <2>3, <2>4
<1>4. ASSUME NEW a \in 1 .. k, NEW b \in 1 .. k, g[a] = g[b] PROVE a = b
  <2>1. a - 1 \in 0 .. (n - 1) /\ b - 1 \in 0 .. (n - 1) /\ f[a - 1] = f[b - 1]
    BY <1>2, <1>4
  <2>2. f[a - 1] \in Nat /\ ~(a - 1 < b - 1) /\ ~(b - 1 < a - 1)
    BY <1>1, <2>1
  <2> QED BY <2>2
<1> HIDE DEF S
<1>5. g \in [1 .. k -> S] /\ DOMAIN g = 1 .. k
  BY <1>2
<1> HIDE DEF g
<1>6. g \in Bijection(1 .. k, S)
  BY <1>3, <1>4, <1>5 DEF Bijection, Injection, Surjection, IsInjective
<1>7. Cardinality(S) = k
  BY <1>6, FS_CountingElements DEF ExistsBijection
<1> QED BY <1>7 DEF Rank, S

(* select finds the ones in their order. *)
LEMMA SelectIs ==
  ASSUME NEW n \in Nat, NEW f, Rising(f, n), NEW k \in 0 .. (n - 1)
  PROVE  Rank(OnesOf(f, n), f[k] + 1) = k + 1 /\ Select(OnesOf(f, n), k + 1) = f[k]
<1>1. f \in [0 .. (n - 1) -> Nat] /\ \A a, b \in 0 .. (n - 1) : a < b => f[a] < f[b]
  BY DEF Rising
<1>2. ASSUME NEW m \in 0 .. (n - 1) PROVE Rank(OnesOf(f, n), f[m] + 1) = m + 1
  <2>1. m + 1 \in 0 .. n /\ f[m] \in Nat /\ f[m] + 1 \in Int
    BY <1>1
  <2>2. ASSUME NEW j \in 0 .. (m + 1 - 1) PROVE f[j] < f[m] + 1
    <3>1. j \in 0 .. (n - 1) /\ (j < m \/ j = m)
      OBVIOUS
    <3>2. f[j] \in Nat /\ (j < m => f[j] < f[m])
      BY <1>1, <3>1
    <3> QED BY <2>1, <3>1, <3>2
  <2>3. ASSUME NEW j \in (m + 1) .. (n - 1) PROVE f[j] >= f[m] + 1
    <3>1. j \in 0 .. (n - 1) /\ m < j
      OBVIOUS
    <3>2. f[j] \in Nat /\ f[m] < f[j]
      BY <1>1, <3>1
    <3> QED BY <2>1, <3>2
  <2> QED BY <2>1, <2>2, <2>3, RankIs
<1>3. f[k] \in OnesOf(f, n)
  BY DEF OnesOf
<1>4. ASSUME NEW x \in OnesOf(f, n), Rank(OnesOf(f, n), x + 1) = k + 1 PROVE x = f[k]
  <2>1. PICK j \in 0 .. (n - 1) : x = f[j]
    BY DEF OnesOf
  <2>2. j + 1 = k + 1
    BY <1>2, <1>4, <2>1
  <2>3. j = k
    BY <2>2
  <2> QED BY <2>1, <2>3
<1> QED BY <1>2, <1>3, <1>4 DEF Select

-----------------------------------------------------------------------------
(* The parsing                                                             *)

Ends == OnesOf(given.end, given.count)

Begin(k) == PhraseBegin(given, k)

(* The value noted for the source of a phrase. *)
Start(k) == Source(given, k) + 1

LEMMA GivenFacts ==
  ASSUME given \in Inputs
  PROVE  /\ given.count \in Nat /\ given.count > 1 /\ Phrases(given) = 0 .. (given.count - 1)
         /\ given.count <= 2^WordBits /\ given.count <= 2^MaxWidth
         /\ given.end \in [Phrases(given) -> Nat]
         /\ Length(given) \in Nat \ {0} /\ Length(given) = given.end[given.count - 1] + 1
         /\ Length(given) <= 2^MaxWidth
         /\ given.text \in [0 .. (Length(given) - 1) -> Nat]
         /\ \A k \in Phrases(given) :
              /\ given.phrase[k].len \in Nat \ {0} /\ given.phrase[k].link \in Nat
              /\ given.phrase[k].char \in Nat
              /\ Begin(k) = given.end[k] - given.phrase[k].len + 1
              /\ Begin(k) = IF k = 0 THEN 0 ELSE given.end[k - 1] + 1
              /\ given.phrase[k].len > 1 => given.phrase[k].link \in 0 .. (k - 1) /\ Source(given, k) >= 0
              /\ \A j \in 0 .. (given.phrase[k].len - 2) :
                   given.text[Begin(k) + j] = given.text[Source(given, k) + j]
              /\ given.text[given.end[k]] = given.phrase[k].char
<1>1. /\ IsParsing(given) /\ given.count > 1 /\ Length(given) <= 2^MaxWidth
      /\ given.count <= 2^WordBits
  BY InputsAssumption, WordAssumption
<1>2. given.count \in Nat /\ Phrases(given) = 0 .. (given.count - 1)
  BY <1>1 DEF IsParsing, Phrases
<1>3. given.end \in [Phrases(given) -> Nat] /\ given.text \in [0 .. (Length(given) - 1) -> Nat]
  BY <1>1 DEF IsParsing
<1>4. Length(given) \in Nat \ {0} /\ Length(given) = given.end[given.count - 1] + 1
  <2>1. given.count - 1 \in Phrases(given)
    BY <1>1, <1>2
  <2> QED BY <1>3, <2>1 DEF Length
<1>5. WordBits \in 1 .. MaxWidth /\ MaxWidth \in Nat
  BY WordAssumption, WidthAssumption
<1>6. given.count <= 2^MaxWidth
  <2>1. 2^WordBits \in Nat /\ 2^MaxWidth \in Nat /\ 2^WordBits <= 2^MaxWidth
    <3>1. CASE WordBits = MaxWidth
      BY <1>5, <3>1, WidthAssumption
    <3>2. CASE WordBits # MaxWidth
      <4>1. WordBits \in 0 .. (MaxWidth - 1) /\ MaxWidth \in 0 .. MaxWidth /\ WordBits \in 0 .. MaxWidth
        BY <1>5, <3>2
      <4>2. 2^WordBits < 2^MaxWidth /\ 2^WordBits \in Nat /\ 2^MaxWidth \in Nat
        BY <4>1, WidthAssumption
      <4> QED BY <4>2
    <3> QED BY <3>1, <3>2
  <2> DEFINE a == 2^WordBits
             b == 2^MaxWidth
  <2>2. a \in Nat /\ b \in Nat /\ a <= b /\ given.count <= a
    BY <1>1, <2>1
  <2> HIDE DEF a, b
  <2>3. given.count <= b
    BY <1>2, <2>2
  <2> QED BY <2>3 DEF b
<1>7. ASSUME NEW k \in Phrases(given)
      PROVE  /\ given.phrase[k].len \in Nat \ {0} /\ given.phrase[k].link \in Nat
             /\ given.phrase[k].char \in Nat
             /\ Begin(k) = given.end[k] - given.phrase[k].len + 1
             /\ Begin(k) = IF k = 0 THEN 0 ELSE given.end[k - 1] + 1
             /\ given.phrase[k].len > 1 => given.phrase[k].link \in 0 .. (k - 1) /\ Source(given, k) >= 0
             /\ \A j \in 0 .. (given.phrase[k].len - 2) :
                  given.text[Begin(k) + j] = given.text[Source(given, k) + j]
             /\ given.text[given.end[k]] = given.phrase[k].char
  <2>1. given.phrase[k] \in [char : Nat, link : Nat, len : Nat \ {0}]
    BY <1>1 DEF IsParsing
  <2>2. /\ given.phrase[k].len \in Nat \ {0} /\ given.phrase[k].link \in Nat
        /\ given.phrase[k].char \in Nat
    BY <2>1
  <2>3. Begin(k) = given.end[k] - given.phrase[k].len + 1
    BY DEF Begin, PhraseBegin
  <2>4. /\ Begin(k) = IF k = 0 THEN 0 ELSE given.end[k - 1] + 1
        /\ given.phrase[k].len > 1 => given.phrase[k].link \in 0 .. (k - 1) /\ Source(given, k) >= 0
        /\ \A j \in 0 .. (given.phrase[k].len - 2) :
             given.text[Begin(k) + j] = given.text[Source(given, k) + j]
        /\ given.text[given.end[k]] = given.phrase[k].char
    BY <1>1 DEF IsParsing, Begin
  <2> QED BY <2>2, <2>3, <2>4
<1> QED BY <1>1, <1>2, <1>3, <1>4, <1>6, <1>7

(* The phrases end one after the other. *)
LEMMA EndsRise ==
  ASSUME given \in Inputs
  PROVE  Rising(given.end, given.count)
<1> DEFINE e == given.end
           n == given.count
<1>1. /\ n \in Nat /\ e \in [0 .. (n - 1) -> Nat] /\ Phrases(given) = 0 .. (n - 1)
  BY GivenFacts
<1>2. ASSUME NEW k \in 1 .. (n - 1) PROVE e[k - 1] < e[k]
  <2>1. k \in Phrases(given) /\ k # 0 /\ k - 1 \in Phrases(given)
    BY <1>1
  <2>2. e[k] \in Nat /\ e[k - 1] \in Nat /\ given.phrase[k].len \in Nat \ {0}
    BY <2>1, GivenFacts
  <2>3. e[k] - given.phrase[k].len + 1 = e[k - 1] + 1
    BY <2>1, GivenFacts
  <2> HIDE DEF e
  <2> QED BY <2>2, <2>3
<1>3. ASSUME NEW a \in 0 .. (n - 1), NEW b \in 0 .. (n - 1), a < b, ~(e[a] < e[b]) PROVE FALSE
  <2> DEFINE wrong == {m \in 0 .. (n - 1) : a < m /\ ~(e[a] < e[m])}
  <2>1. PICK m \in wrong : \A o \in wrong : m <= o
    <3>1. wrong \subseteq Nat /\ b \in wrong
      BY <1>3
    <3> HIDE DEF wrong
    <3> QED BY <3>1, LeastNatural
  <2>2. m \in 1 .. (n - 1) /\ a < m /\ ~(e[a] < e[m])
    BY <2>1
  <2>3. m - 1 \in 0 .. (n - 1) /\ m - 1 \notin wrong
    BY <1>1, <2>1, <2>2
  <2>4. a = m - 1 \/ e[a] < e[m - 1]
    BY <2>2, <2>3
  <2>5. e[m - 1] < e[m]
    BY <1>2, <2>2
  <2>6. e[a] \in Nat /\ e[m - 1] \in Nat /\ e[m] \in Nat
    BY <1>1, <2>2, <2>3
  <2> HIDE DEF e
  <2> QED BY <2>2, <2>4, <2>5, <2>6
<1> QED BY <1>1, <1>3 DEF Rising

(* Where a phrase lies in the text, and where its source does. *)
LEMMA PhraseFacts ==
  ASSUME given \in Inputs, NEW k \in Phrases(given)
  PROVE  /\ Begin(k) \in Nat /\ given.end[k] \in Nat
         /\ Begin(k) <= given.end[k] /\ given.end[k] < Length(given)
         /\ given.phrase[k].len = given.end[k] - Begin(k) + 1
         /\ Source(given, k) \in Int /\ Start(k) \in 0 .. (Length(given) - 1)
         /\ Start(k) = Source(given, k) + 1
         /\ given.phrase[k].len = 1 => Source(given, k) = -1
         /\ given.phrase[k].len > 1 =>
              Source(given, k) >= 0 /\ Source(given, k) + given.phrase[k].len - 1 < Length(given)
<1> DEFINE e == given.end
           n == given.count
           l == given.phrase[k].len
           link == given.phrase[k].link
<1>1. n \in Nat /\ n > 1 /\ k \in 0 .. (n - 1) /\ e \in [0 .. (n - 1) -> Nat] /\ Length(given) = e[n - 1] + 1
  BY GivenFacts
<1>2. l \in Nat \ {0} /\ link \in Nat /\ Begin(k) = e[k] - l + 1
  BY GivenFacts
<1>3. Begin(k) = IF k = 0 THEN 0 ELSE e[k - 1] + 1
  BY GivenFacts
<1>4. l > 1 => link \in 0 .. (k - 1) /\ Source(given, k) >= 0
  BY GivenFacts
<1>5. \A a, b \in 0 .. (n - 1) : a < b => e[a] < e[b]
  BY EndsRise DEF Rising
<1>6. Source(given, k) = IF l = 1 THEN -1 ELSE e[link] - l + 2
  BY DEF Source
<1> HIDE DEF e, n, l, link
<1>7. e[k] \in Nat /\ e[n - 1] \in Nat /\ e[k] <= e[n - 1]
  <2>1. n - 1 \in 0 .. (n - 1) /\ (k < n - 1 \/ k = n - 1)
    BY <1>1
  <2> QED BY <1>1, <1>5, <2>1
<1>8. Begin(k) \in Nat
  <2>1. CASE k = 0
    BY <1>3, <2>1
  <2>2. CASE k # 0
    <3>1. k - 1 \in 0 .. (n - 1)
      BY <1>1, <2>2
    <3> QED BY <1>1, <1>3, <2>2, <3>1
  <2> QED BY <2>1, <2>2
<1>9. /\ Begin(k) <= e[k] /\ e[k] < Length(given)
      /\ l = e[k] - Begin(k) + 1
  BY <1>1, <1>2, <1>7, <1>8
<1>10. CASE l = 1
  <2>1. Source(given, k) = -1 /\ Start(k) = 0
    BY <1>6, <1>10 DEF Start
  <2> QED BY SMTT(30), <1>1, <1>7, <1>8, <1>9, <1>10, <2>1 DEF e, l, Start
<1>11. CASE l > 1
  <2>1. link \in 0 .. (n - 1) /\ link < k
    BY <1>1, <1>4, <1>11
  <2>2. e[link] \in Nat /\ e[link] < e[k]
    BY <1>1, <1>5, <2>1
  <2>3. Source(given, k) = e[link] - l + 2
    BY <1>6, <1>11
  <2>4. Source(given, k) \in Int /\ Source(given, k) >= 0 /\ Source(given, k) + l - 1 < Length(given)
    BY <1>1, <1>2, <1>4, <1>7, <1>11, <2>2, <2>3
  <2>5. Start(k) \in 0 .. (Length(given) - 1)
    <3> DEFINE source == Source(given, k)
               size == Length(given)
    <3>1. source \in Int /\ source >= 0 /\ size \in Nat /\ e[k] < size /\ source = e[link] - l + 2
      BY <1>1, <1>7, <1>9, <2>3, <2>4
    <3> HIDE DEF source, size
    <3>2. source + 1 \in 0 .. (size - 1)
      BY <1>2, <1>7, <1>11, <2>2, <3>1
    <3> QED BY <3>2 DEF source, size, Start
  <2> QED BY <1>7, <1>8, <1>9, <1>11, <2>4, <2>5 DEF e, l, Start
<1> QED BY <1>2, <1>10, <1>11

(* The phrase of a place, as rank finds it. *)
LEMMA PhraseOf ==
  ASSUME given \in Inputs, NEW k \in Phrases(given), NEW p \in Begin(k) .. given.end[k]
  PROVE  Rank(Ends, p) = k /\ (p \in Ends <=> p = given.end[k])
<1> DEFINE e == given.end
           n == given.count
<1>1. n \in Nat /\ k \in 0 .. (n - 1) /\ e \in [0 .. (n - 1) -> Nat]
  BY GivenFacts
<1>2. \A a, b \in 0 .. (n - 1) : a < b => e[a] < e[b]
  BY EndsRise DEF Rising
<1>3. Begin(k) = IF k = 0 THEN 0 ELSE e[k - 1] + 1
  BY GivenFacts
<1>4. Begin(k) \in Nat /\ p \in Nat /\ p <= e[k] /\ Begin(k) <= p
  BY PhraseFacts
<1>5. Rising(e, n)
  BY EndsRise
<1>6. Ends = OnesOf(e, n)
  BY DEF Ends
<1> HIDE DEF e, n
<1>7. ASSUME NEW j \in 0 .. (k - 1) PROVE e[j] < p
  <2>1. k # 0 /\ j \in 0 .. (n - 1) /\ k - 1 \in 0 .. (n - 1) /\ (j < k - 1 \/ j = k - 1)
    BY <1>1
  <2>2. e[j] \in Nat /\ e[k - 1] \in Nat /\ e[j] <= e[k - 1]
    BY <1>1, <1>2, <2>1
  <2> QED BY <1>3, <1>4, <2>1, <2>2
<1>8. ASSUME NEW j \in k .. (n - 1) PROVE e[j] >= p
  <2>1. j \in 0 .. (n - 1) /\ (k < j \/ j = k)
    BY <1>1
  <2>2. e[j] \in Nat /\ e[k] \in Nat /\ e[k] <= e[j]
    BY <1>1, <1>2, <2>1
  <2> QED BY <1>4, <2>2
<1>9. Rank(Ends, p) = k
  <2>1. k \in 0 .. n /\ p \in Int
    BY <1>1, <1>4
  <2> QED BY <1>1, <1>5, <1>6, <1>7, <1>8, <2>1, RankIs
<1>10. ASSUME p \in Ends PROVE p = e[k]
  <2>1. PICK j \in 0 .. (n - 1) : p = e[j]
    BY <1>6, <1>10 DEF OnesOf
  <2>2. ~(j < k)
    BY <1>1, <1>4, <1>7, <2>1
  <2>3. k < j => e[k] < e[j]
    BY <1>1, <1>2
  <2> QED BY <1>1, <1>4, <2>1, <2>2, <2>3
<1>11. e[k] \in Ends
  BY <1>1, <1>6 DEF OnesOf
<1> QED BY <1>9, <1>10, <1>11 DEF e

(* Every place of the text lies in a phrase. *)
LEMMA InPhrase ==
  ASSUME given \in Inputs, NEW p \in 0 .. (Length(given) - 1)
  PROVE  /\ Rank(Ends, p) \in Phrases(given)
         /\ p \in Begin(Rank(Ends, p)) .. given.end[Rank(Ends, p)]
<1> DEFINE e == given.end
           n == given.count
           behind == {m \in 0 .. (n - 1) : p <= e[m]}
<1>1. /\ n \in Nat /\ n > 1 /\ Phrases(given) = 0 .. (n - 1) /\ e \in [0 .. (n - 1) -> Nat]
      /\ Length(given) = e[n - 1] + 1
  BY GivenFacts
<1>2. PICK k \in behind : \A m \in behind : k <= m
  <2>1. n - 1 \in 0 .. (n - 1) /\ e[n - 1] \in Nat
    BY <1>1
  <2>2. behind \subseteq Nat /\ n - 1 \in behind
    BY <1>1, <2>1
  <2> HIDE DEF behind
  <2> QED BY <2>2, LeastNatural
<1>3. k \in Phrases(given) /\ p <= e[k] /\ p \in Nat /\ e[k] \in Nat
  BY <1>1, <1>2
<1>4. Begin(k) \in Nat /\ Begin(k) <= p
  <2>1. Begin(k) = IF k = 0 THEN 0 ELSE e[k - 1] + 1
    BY <1>3, GivenFacts
  <2>2. CASE k = 0
    BY <1>3, <2>1, <2>2
  <2>3. CASE k # 0
    <3>1. k - 1 \in 0 .. (n - 1) /\ k - 1 \notin behind
      BY <1>1, <1>2, <1>3, <2>3
    <3>2. e[k - 1] \in Nat /\ ~(p <= e[k - 1])
      BY <1>1, <3>1
    <3> QED BY <1>3, <2>1, <2>3, <3>2
  <2> QED BY <2>2, <2>3
<1>5. p \in Begin(k) .. e[k]
  BY <1>3, <1>4
<1>6. Rank(Ends, p) = k
  BY <1>3, <1>5, PhraseOf
<1> QED BY <1>3, <1>5, <1>6

(* The bounds of a phrase, as select finds them. *)
LEMMA PhraseBounds ==
  ASSUME given \in Inputs, lastPos = Ends, NEW k \in Phrases(given)
  PROVE  PhraseStart(k) = Begin(k) /\ PhraseEnd(k) = given.end[k]
<1> DEFINE n == given.count
<1>1. n \in Nat /\ k \in 0 .. (n - 1) /\ Rising(given.end, n)
  BY GivenFacts, EndsRise
<1>2. ASSUME NEW j \in 0 .. (n - 1) PROVE Select(Ends, j + 1) = given.end[j]
  BY <1>1, <1>2, SelectIs DEF Ends
<1>3. PhraseEnd(k) = given.end[k]
  BY <1>1, <1>2 DEF PhraseEnd
<1>4. Begin(k) = IF k = 0 THEN 0 ELSE given.end[k - 1] + 1
  BY GivenFacts
<1>5. ASSUME k > 0 PROVE Select(Ends, k) = given.end[k - 1]
  <2>1. k - 1 \in 0 .. (n - 1) /\ (k - 1) + 1 = k
    BY <1>1, <1>5
  <2> QED BY <1>2, <2>1
<1>6. PhraseStart(k) = Begin(k)
  BY <1>1, <1>4, <1>5 DEF PhraseStart
<1> QED BY <1>3, <1>6

-----------------------------------------------------------------------------
(* The order of the sources                                                *)

(* The place of a phrase in the order of the sources. *)
OrderOf(k) == Cardinality({l \in Phrases(given) : Before(l, k)})

LEMMA PhrasesFinite ==
  ASSUME given \in Inputs
  PROVE  /\ IsFiniteSet(Phrases(given)) /\ Cardinality(Phrases(given)) = given.count
         /\ \A S : S \subseteq Phrases(given) => IsFiniteSet(S) /\ Cardinality(S) \in Nat
<1>1. given.count \in Nat /\ given.count > 1 /\ Phrases(given) = 0 .. (given.count - 1)
  BY GivenFacts
<1>2. IsFiniteSet(Phrases(given)) /\ Cardinality(Phrases(given)) = given.count
  <2>1. 0 \in Int /\ given.count - 1 \in Int
    BY <1>1
  <2>2. IsFiniteSet(0 .. (given.count - 1))
        /\ Cardinality(0 .. (given.count - 1)) = (IF 0 > given.count - 1 THEN 0 ELSE given.count - 1 - 0 + 1)
    BY <2>1, FS_Interval
  <2> QED BY <1>1, <2>2
<1>3. ASSUME NEW S, S \subseteq Phrases(given) PROVE IsFiniteSet(S) /\ Cardinality(S) \in Nat
  <2>1. IsFiniteSet(S)
    BY <1>2, <1>3, FS_Subset
  <2> QED BY <2>1, FS_CardinalityType
<1> QED BY <1>2, <1>3

(* A phrase before another one comes first. *)
LEMMA OrderRises ==
  ASSUME given \in Inputs, starts \in [Phrases(given) -> Nat],
         NEW k \in Phrases(given), NEW l \in Phrases(given), Before(k, l)
  PROVE  OrderOf(k) < OrderOf(l)
<1> DEFINE A == {m \in Phrases(given) : Before(m, k)}
           B == {m \in Phrases(given) : Before(m, l)}
<1>1. \A m \in Phrases(given) : starts[m] \in Nat /\ m \in Nat
  BY GivenFacts
<1>2. A \in SUBSET B
  BY <1>1 DEF Before
<1>3. k \in B /\ k \notin A
  BY <1>1 DEF Before
<1>4. A \subseteq Phrases(given) /\ B \subseteq Phrases(given)
  OBVIOUS
<1> HIDE DEF A, B
<1>5. IsFiniteSet(B) /\ Cardinality(A) \in Nat /\ Cardinality(B) \in Nat
  BY <1>4, PhrasesFinite
<1>6. Cardinality(A) <= Cardinality(B) /\ Cardinality(A) # Cardinality(B)
  BY <1>2, <1>3, <1>5, FS_Subset
<1>7. Cardinality(A) < Cardinality(B)
  BY <1>5, <1>6
<1> QED BY <1>7 DEF OrderOf, A, B

(* Every place of the order is that of one phrase. *)
LEMMA OrderIs ==
  ASSUME given \in Inputs, starts \in [Phrases(given) -> Nat]
  PROVE  /\ \A k \in Phrases(given) : OrderOf(k) \in Phrases(given) /\ Sorted(OrderOf(k)) = k
         /\ \A r \in Phrases(given) : Sorted(r) \in Phrases(given) /\ OrderOf(Sorted(r)) = r
<1> DEFINE P == Phrases(given)
           n == given.count
           f == [k \in P |-> OrderOf(k)]
<1>1. n \in Nat /\ n > 1 /\ P = 0 .. (n - 1) /\ IsFiniteSet(P) /\ Cardinality(P) = n
  BY GivenFacts, PhrasesFinite
<1>2. \A k \in P : starts[k] \in Nat /\ k \in Nat
  BY <1>1
<1>3. ASSUME NEW k \in P PROVE OrderOf(k) \in P
  <2> DEFINE A == {m \in P : Before(m, k)}
  <2>1. A \in SUBSET (P \ {k})
    BY <1>2 DEF Before
  <2> HIDE DEF A
  <2>2. IsFiniteSet(P \ {k}) /\ Cardinality(P \ {k}) = n - 1
    BY <1>1, FS_RemoveElement
  <2>3. IsFiniteSet(A) /\ Cardinality(A) <= n - 1
    BY <2>1, <2>2, FS_Subset
  <2>4. Cardinality(A) \in Nat
    BY <2>3, FS_CardinalityType
  <2>5. Cardinality(A) \in P
    BY <1>1, <2>3, <2>4
  <2> QED BY <2>5 DEF A, OrderOf
<1>4. ASSUME NEW k \in P, NEW l \in P, OrderOf(k) = OrderOf(l) PROVE k = l
  <2>1. ~Before(k, l) /\ ~Before(l, k)
    <3>1. OrderOf(k) \in Nat
      BY <1>1, <1>3
    <3> HIDE DEF P
    <3>2. Before(k, l) => OrderOf(k) < OrderOf(l)
      BY OrderRises DEF P
    <3>3. Before(l, k) => OrderOf(l) < OrderOf(k)
      BY OrderRises DEF P
    <3> QED BY <1>4, <3>1, <3>2, <3>3
  <2>2. starts[k] \in Nat /\ starts[l] \in Nat /\ k \in Nat /\ l \in Nat
    BY <1>2
  <2> HIDE DEF P
  <2> QED BY <2>1, <2>2 DEF Before
<1>5. f \in [P -> P] /\ \A k \in P : f[k] = OrderOf(k)
  BY <1>3
<1>6. f \in Surjection(P, P)
  <2> HIDE DEF P, f
  <2>1. f \in Injection(P, P)
    BY <1>4, <1>5 DEF Injection, IsInjective
  <2> QED BY <1>1, <2>1, FS_Injection
<1>7. ASSUME NEW r \in P PROVE \E k \in P : OrderOf(k) = r
  <2> HIDE DEF P, f
  <2> QED BY <1>5, <1>6 DEF Surjection
<1>8. ASSUME NEW r \in P PROVE Sorted(r) \in P /\ OrderOf(Sorted(r)) = r
  <2>1. PICK k \in P : OrderOf(k) = r
    BY <1>7
  <2>2. Sorted(r) \in P /\ Cardinality({l \in P : Before(l, Sorted(r))}) = r
    BY <2>1 DEF Sorted, OrderOf
  <2> QED BY <2>2 DEF OrderOf
<1>9. ASSUME NEW k \in P PROVE Sorted(OrderOf(k)) = k
  <2>1. OrderOf(k) \in P
    BY <1>3
  <2>2. Sorted(OrderOf(k)) \in P /\ OrderOf(Sorted(OrderOf(k))) = OrderOf(k)
    BY <1>8, <2>1
  <2> HIDE DEF P
  <2> QED BY <1>4, <2>2
<1> QED BY <1>3, <1>8, <1>9

(* The sources come in the order of their starts. *)
LEMMA SortedRises ==
  ASSUME given \in Inputs, starts \in [Phrases(given) -> Nat],
         NEW a \in Phrases(given), NEW b \in Phrases(given), a < b
  PROVE  starts[Sorted(a)] <= starts[Sorted(b)]
<1>1. /\ Sorted(a) \in Phrases(given) /\ OrderOf(Sorted(a)) = a
      /\ Sorted(b) \in Phrases(given) /\ OrderOf(Sorted(b)) = b
  BY OrderIs
<1>2. starts[Sorted(a)] \in Nat /\ starts[Sorted(b)] \in Nat /\ a \in Nat /\ b \in Nat
  BY <1>1, GivenFacts
<1>3. Before(Sorted(b), Sorted(a)) => b < a
  BY <1>1, OrderRises
<1>4. ~Before(Sorted(b), Sorted(a))
  BY <1>2, <1>3
<1> QED BY <1>2, <1>4 DEF Before

(* The ones of m_source_begin: behind the zeros of the places before its   *)
(* start, and behind the ones of the sources before it.                    *)
OneAt == [r \in Phrases(given) |-> starts[Sorted(r)] + r]

LEMMA OnesRise ==
  ASSUME given \in Inputs, starts \in [Phrases(given) -> Nat]
  PROVE  Rising(OneAt, given.count)
<1>1. Phrases(given) = 0 .. (given.count - 1) /\ given.count \in Nat
  BY GivenFacts
<1>2. \A r \in Phrases(given) : r \in Nat /\ starts[Sorted(r)] \in Nat /\ OneAt[r] = starts[Sorted(r)] + r
  BY <1>1, OrderIs DEF OneAt
<1>3. OneAt \in [Phrases(given) -> Nat]
  <2>1. \A r \in Phrases(given) : starts[Sorted(r)] + r \in Nat
    BY <1>2
  <2> QED BY <2>1 DEF OneAt
<1>4. ASSUME NEW a \in Phrases(given), NEW b \in Phrases(given), a < b PROVE OneAt[a] < OneAt[b]
  <2>1. starts[Sorted(a)] <= starts[Sorted(b)]
    BY <1>4, SortedRises
  <2> QED BY <1>2, <1>4, <2>1
<1> QED BY <1>1, <1>3, <1>4 DEF Rising

(* The sources that start before a place, and those of the first phrases   *)
(* that start there.                                                       *)
Below(t) == {l \in Phrases(given) : starts[l] < t}

At(t, k) == {l \in Phrases(given) : l < k /\ starts[l] = t}

LEMMA Counts ==
  ASSUME given \in Inputs, starts \in [Phrases(given) -> Nat], NEW t \in Nat
  PROVE  /\ Cardinality(Below(t)) \in Nat
         /\ \A k \in 0 .. given.count : Cardinality(At(t, k)) \in Nat
         /\ Cardinality(Below(0)) = 0 /\ Cardinality(At(t, 0)) = 0
         /\ Cardinality(Below(t + 1)) = Cardinality(Below(t)) + Cardinality(At(t, given.count))
         /\ \A k \in Phrases(given) :
              Cardinality(At(t, k + 1)) = Cardinality(At(t, k)) + (IF starts[k] = t THEN 1 ELSE 0)
<1>1. given.count \in Nat /\ Phrases(given) = 0 .. (given.count - 1)
  BY GivenFacts
<1>2. \A l \in Phrases(given) : l \in Nat /\ starts[l] \in Nat /\ l < given.count
  BY <1>1
<1>3. \A S : S \subseteq Phrases(given) => IsFiniteSet(S) /\ Cardinality(S) \in Nat
  BY PhrasesFinite
<1>4. \A s, k : Below(s) \subseteq Phrases(given) /\ At(s, k) \subseteq Phrases(given)
  BY DEF Below, At
<1>5. Below(0) = {} /\ At(t, 0) = {}
  BY <1>2 DEF Below, At
<1>6. Cardinality(Below(0)) = 0 /\ Cardinality(At(t, 0)) = 0
  BY <1>5, FS_EmptySet
<1>7. Cardinality(Below(t + 1)) = Cardinality(Below(t)) + Cardinality(At(t, given.count))
  <2> DEFINE A == Below(t)
             B == At(t, given.count)
  <2>1. Below(t + 1) = A \cup B /\ A \cap B = {}
    BY <1>2 DEF Below, At
  <2>2. IsFiniteSet(A) /\ IsFiniteSet(B) /\ Cardinality(A) \in Nat /\ Cardinality(B) \in Nat
    BY <1>3, <1>4
  <2> HIDE DEF A, B
  <2>3. Cardinality(A \cup B) = Cardinality(A) + Cardinality(B) - Cardinality(A \cap B)
    BY <2>2, FS_Union
  <2>4. Cardinality(A \cap B) = 0
    BY <2>1, FS_EmptySet
  <2>5. Cardinality(A \cup B) = Cardinality(A) + Cardinality(B)
    BY <2>2, <2>3, <2>4
  <2> QED BY <2>1, <2>5 DEF A, B
<1>8. ASSUME NEW k \in Phrases(given)
      PROVE  Cardinality(At(t, k + 1)) = Cardinality(At(t, k)) + (IF starts[k] = t THEN 1 ELSE 0)
  <2> DEFINE A == At(t, k)
  <2>1. IsFiniteSet(A) /\ Cardinality(A) \in Nat
    BY <1>3, <1>4
  <2>2. k \notin A
    BY <1>2 DEF At
  <2>3. At(t, k + 1) = IF starts[k] = t THEN A \cup {k} ELSE A
    BY <1>2 DEF At
  <2> HIDE DEF A
  <2>4. Cardinality(A \cup {k}) = Cardinality(A) + 1
    BY <2>1, <2>2, FS_AddElement
  <2>5. CASE starts[k] = t
    BY <2>3, <2>4, <2>5 DEF A
  <2>6. CASE starts[k] # t
    BY <2>1, <2>3, <2>6 DEF A
  <2> QED BY <2>5, <2>6
<1> QED BY <1>3, <1>4, <1>6, <1>7, <1>8

(* A source comes after those that start earlier, and after those of       *)
(* earlier phrases that start with it.                                     *)
LEMMA OrderSum ==
  ASSUME given \in Inputs, starts \in [Phrases(given) -> Nat], NEW k \in Phrases(given)
  PROVE  OrderOf(k) = Cardinality(Below(starts[k])) + Cardinality(At(starts[k], k))
<1> DEFINE A == Below(starts[k])
           B == At(starts[k], k)
<1>1. \A l \in Phrases(given) : l \in Nat /\ starts[l] \in Nat
  BY GivenFacts
<1>2. {l \in Phrases(given) : Before(l, k)} = A \cup B /\ A \cap B = {}
  BY <1>1 DEF Below, At, Before
<1>3. A \subseteq Phrases(given) /\ B \subseteq Phrases(given)
  BY DEF Below, At
<1> HIDE DEF A, B
<1>4. IsFiniteSet(A) /\ IsFiniteSet(B) /\ Cardinality(A) \in Nat /\ Cardinality(B) \in Nat
  BY <1>3, PhrasesFinite
<1>5. Cardinality(A \cup B) = Cardinality(A) + Cardinality(B) - Cardinality(A \cap B)
  BY <1>4, FS_Union
<1>6. Cardinality(A \cap B) = 0
  BY <1>2, FS_EmptySet
<1>7. Cardinality(A \cup B) = Cardinality(A) + Cardinality(B)
  BY <1>4, <1>5, <1>6
<1> QED BY <1>2, <1>7 DEF A, B, OrderOf

-----------------------------------------------------------------------------
(* The invariant of build_aux_ds                                           *)

(* A value stands in a field. *)
Holds(m, at, width, value) == \A j \in 0 .. (width - 1) : at + j \in DOMAIN m /\ m[at + j] = << value, j >>

HoldsWord(k, value) == Holds(memory, k * WordBits, WordBits, value)

HoldsEntry(k, value) == Holds(memory, k * PhraseBits, PhraseBits, value)

Ready == {"ready", "at", "substr"}

Building == {"ends", "starts", "sort", "mark", "count", "sum", "map", "pack", "resize"}

Typed ==
  /\ given \in Inputs /\ pc \in Building \cup Ready
  /\ starts \in [Phrases(given) -> Nat]
  /\ pc \in {"ends", "starts", "count", "map", "pack"} => i \in Phrases(given)
  /\ pc = "sort" => i = 0

(* m_last and m_last_pos hold what the phrases gone by end with. *)
EndsSet ==
  /\ pc = "ends" =>
       /\ lastPos = {given.end[k] : k \in 0 .. (i - 1)}
       /\ last = [k \in 1 .. i |-> given.phrase[k - 1].char]
       /\ position = Begin(i)
  /\ pc # "ends" =>
       /\ lastPos = Ends
       /\ last = [k \in 1 .. given.count |-> given.phrase[k - 1].char]

StartsSet ==
  \A k \in Phrases(given) : pc # "ends" /\ (pc = "starts" => k < i) => starts[k] = Start(k)

(* The sources marked are those before marked in the order; they start no  *)
(* later than the place at hand, the others no earlier.                    *)
Marking ==
  /\ pc \in {"ends", "starts", "sort"} => begin = {} /\ marked = 0
  /\ pc = "mark" =>
       /\ i \in 0 .. (Length(given) - 1) /\ marked \in 0 .. given.count
       /\ position = i + marked
       /\ begin = {OneAt[r] : r \in 0 .. (marked - 1)}
       /\ \A r \in Phrases(given) :
            /\ r < marked => starts[Sorted(r)] <= i
            /\ r >= marked => starts[Sorted(r)] >= i
  /\ pc \in {"count", "sum", "map", "pack", "resize"} \cup Ready =>
       marked = given.count /\ begin = OnesOf(OneAt, given.count)

(* The counts of the sources become the places of their ones. *)
Counting ==
  /\ pc \in {"ends", "starts", "sort", "mark"} => count = [t \in 0 .. Length(given) |-> 0]
  /\ pc \in {"count", "sum", "map"} => count \in [0 .. Length(given) -> Int]
  /\ pc = "count" =>
       count[0] = 0 /\ \A t \in 0 .. (Length(given) - 1) : count[t + 1] = Cardinality(At(t, i))
  /\ pc = "sum" =>
       /\ i \in 2 .. Length(given)
       /\ \A t \in 0 .. (i - 2) : count[t] = Cardinality(Below(t)) + t
       /\ count[i - 1] = Cardinality(Below(i - 1)) + (i - 2)
       /\ \A t \in i .. Length(given) : count[t] = Cardinality(At(t - 1, given.count))
  /\ pc = "map" =>
       \A t \in 0 .. (Length(given) - 1) :
         count[t] = Cardinality(Below(t)) + t + Cardinality(At(t, i))

(* What the words hold, and the fields packed into them. *)
Remembered ==
  /\ pc \in {"mark", "count", "sum", "map", "pack", "resize"} =>
       DOMAIN memory = 0 .. (given.count * WordBits - 1)
  /\ \A k \in Phrases(given) :
       /\ pc = "mark" => HoldsWord(k, Sorted(k))
       /\ pc = "map" /\ k < i => HoldsWord(k, OrderOf(k))
       /\ pc = "pack" /\ k < i => HoldsEntry(k, OrderOf(k))
       /\ pc = "pack" /\ k >= i => HoldsWord(k, OrderOf(k))
       /\ pc \in {"resize"} \cup Ready => HoldsEntry(k, OrderOf(k))

BuildInv == Typed /\ EndsSet /\ StartsSet /\ Marking /\ Counting /\ Remembered

-----------------------------------------------------------------------------
(* The invariant of the queries                                            *)

(* The part of the text that a task stands for. *)
TextOf(t) == IF t.task = "copy" THEN Part(t.from, t.len) ELSE << given.text[given.end[t.phrase]] >>

TextsOf(s) == [k \in 1 .. Len(s) |-> TextOf(s[k])]

(* What is still to be done stands for parts of the text. *)
Tasks ==
  {t \in [task : {"copy"}, from : Int, len : Nat] :
     t.len > 0 => t.from >= 0 /\ t.from + t.len <= Length(given)}
    \cup [task : {"last"}, phrase : Phrases(given)]

Wanted(q) == Part(q.from, Min({q.len, Length(given) - q.from}))

QueryInv ==
  /\ pc \in Building => request = << >> /\ reply = << >> /\ todo = << >> /\ out = << >>
  /\ pc = "ready" =>
       /\ todo = << >>
       /\ \/ request = << >> /\ reply = << >> /\ out = << >>
          \/ \E q \in Queries(Length(given)) :
               request = << q >> /\ reply = << Promise!Answer(Part(0, Length(given)), q) >>
  /\ pc = "at" =>
       /\ reply = << >> /\ todo = << >> /\ out = << >>
       /\ \E k \in 0 .. (Length(given) - 1) :
            /\ request = << AtQuery(k) >>
            /\ i \in 0 .. (Length(given) - 1) /\ given.text[i] = given.text[k]
  /\ pc = "substr" =>
       /\ reply = << >>
       /\ \E q \in Queries(Length(given)) :
            /\ q.op = "substr" /\ request = << q >>
            /\ out \in Seq(Nat) /\ todo \in Seq(Tasks)
            /\ out \o FlattenSeq(TextsOf(todo)) = Wanted(q)

Inv == BuildInv /\ QueryInv

-----------------------------------------------------------------------------
(* Fields of memory                                                        *)

LEMMA WordFacts ==
  ASSUME given \in Inputs
  PROVE  /\ WordBits \in Nat \ {0} /\ WordBits \in 0 .. MaxWidth
         /\ PhraseBits \in Nat \ {0} /\ PhraseBits \in 0 .. MaxWidth /\ PhraseBits <= WordBits
         /\ \A v \in Phrases(given) : v \in Nat /\ v < 2^WordBits /\ v < 2^PhraseBits
<1> DEFINE n == given.count
<1>1. /\ n \in Nat /\ n > 1 /\ n <= 2^MaxWidth /\ n <= 2^WordBits /\ Phrases(given) = 0 .. (n - 1)
  BY GivenFacts
<1>2. MaxWidth \in Nat /\ 2^0 = 1 /\ \A w \in 0 .. MaxWidth : 2^w \in Nat
  BY WidthAssumption
<1>3. WordBits \in 1 .. MaxWidth
  BY WordAssumption
<1>4. /\ PhraseBits \in 0 .. MaxWidth /\ 2^PhraseBits >= n
      /\ \A c \in 0 .. (PhraseBits - 1) : 2^c < n
  BY <1>1, CeilLog2Wide DEF PhraseBits
<1>5. PhraseBits # 0
  <2>1. ASSUME PhraseBits = 0 PROVE FALSE
    <3>1. 2^PhraseBits = 1
      BY <1>2, <2>1
    <3> QED BY <1>1, <1>4, <3>1
  <2> QED BY <2>1
<1>6. PhraseBits <= WordBits
  <2>1. ASSUME WordBits < PhraseBits PROVE FALSE
    <3>1. WordBits \in 0 .. (PhraseBits - 1) /\ 2^WordBits \in Nat
      BY <1>2, <1>3, <1>4, <2>1
    <3>2. 2^WordBits < n
      BY <1>4, <3>1
    <3> DEFINE words == 2^WordBits
    <3>3. words \in Nat /\ words < n /\ n <= words
      BY <1>1, <3>1, <3>2
    <3> HIDE DEF words
    <3> QED BY <1>1, <3>3
  <2> QED BY <1>3, <1>4, <2>1
<1>7. ASSUME NEW v \in Phrases(given), NEW w \in 0 .. MaxWidth, n <= 2^w PROVE v < 2^w
  <2> DEFINE values == 2^w
  <2>1. values \in Nat /\ n <= values
    BY <1>2, <1>7
  <2> HIDE DEF values
  <2>2. v < values
    BY <1>1, <2>1
  <2> QED BY <2>2 DEF values
<1>8. WordBits \in 0 .. MaxWidth /\ WordBits \in Nat \ {0} /\ PhraseBits \in Nat \ {0}
  BY <1>2, <1>3, <1>4, <1>5
<1>9. ASSUME NEW v \in Phrases(given) PROVE v \in Nat /\ v < 2^WordBits /\ v < 2^PhraseBits
  BY <1>1, <1>4, <1>7, <1>8
<1> QED BY <1>4, <1>6, <1>8, <1>9

(* What stands in a field is read from it. *)
LEMMA FieldHolds ==
  ASSUME NEW m, NEW at \in Nat, NEW w \in 0 .. MaxWidth, w # 0, NEW v \in Nat, v < 2^w,
         Holds(m, at, w, v)
  PROVE  Field(m, at, w) = v
<1>1. w \in Nat /\ 0 \in 0 .. (w - 1)
  BY WidthAssumption
<1>2. \A j \in 0 .. (w - 1) : at + j \in DOMAIN m /\ m[at + j] = << v, j >>
  BY DEF Holds
<1>3. m[at] = << v, 0 >>
  <2>1. at + 0 = at
    OBVIOUS
  <2> QED BY <1>1, <1>2, <2>1
<1>4. m[at][1] = v
  BY <1>3
<1>5. Field(m, at, w) = Packed(w, v)
  BY <1>2, <1>4 DEF Field
<1> QED BY <1>5, PackedFits

(* What is written stands in its field; fields elsewhere are kept. *)
LEMMA FieldWritten ==
  ASSUME NEW m, NEW at \in Nat, NEW w \in Nat, NEW v, \A j \in 0 .. (w - 1) : at + j \in DOMAIN m
  PROVE  Holds(WithField(m, at, w, v), at, w, v)
<1> DEFINE m2 == WithField(m, at, w, v)
<1>1. m2 = [b \in DOMAIN m |-> IF b \in at .. (at + w - 1) THEN << v, b - at >> ELSE m[b]]
  BY DEF WithField
<1> HIDE DEF m2
<1>2. ASSUME NEW j \in 0 .. (w - 1) PROVE at + j \in DOMAIN m2 /\ m2[at + j] = << v, j >>
  <2>1. at + j \in DOMAIN m /\ at + j \in at .. (at + w - 1) /\ (at + j) - at = j
    OBVIOUS
  <2> QED BY <1>1, <2>1
<1> QED BY <1>2 DEF Holds, m2

LEMMA FieldKept ==
  ASSUME NEW m, NEW at \in Nat, NEW w \in Nat, NEW v,
         NEW at2 \in Nat, NEW w2 \in Nat, NEW v2, Holds(m, at2, w2, v2),
         at2 + w2 <= at \/ at + w <= at2
  PROVE  Holds(WithField(m, at, w, v), at2, w2, v2)
<1> DEFINE m2 == WithField(m, at, w, v)
<1>1. m2 = [b \in DOMAIN m |-> IF b \in at .. (at + w - 1) THEN << v, b - at >> ELSE m[b]]
  BY DEF WithField
<1>2. \A j \in 0 .. (w2 - 1) : at2 + j \in DOMAIN m /\ m[at2 + j] = << v2, j >>
  BY DEF Holds
<1> HIDE DEF m2
<1>3. ASSUME NEW j \in 0 .. (w2 - 1) PROVE at2 + j \in DOMAIN m2 /\ m2[at2 + j] = << v2, j >>
  <2>1. at2 + j \notin at .. (at + w - 1)
    OBVIOUS
  <2> QED BY <1>1, <1>2, <2>1
<1> QED BY <1>3 DEF Holds, m2

(* What the words and the packed fields say. *)
LEMMA WordRead ==
  ASSUME given \in Inputs, NEW k \in Phrases(given), NEW v \in Phrases(given), HoldsWord(k, v)
  PROVE  Word(k) = v
<1>1. k \in Nat /\ WordBits \in Nat /\ k * WordBits \in Nat
  BY GivenFacts, WordFacts
<1>2. WordBits \in 0 .. MaxWidth /\ WordBits # 0 /\ v \in Nat /\ v < 2^WordBits
  BY WordFacts
<1> QED BY <1>1, <1>2, FieldHolds DEF HoldsWord, Word

LEMMA EntryRead ==
  ASSUME given \in Inputs, NEW k \in Phrases(given), NEW v \in Phrases(given), HoldsEntry(k, v)
  PROVE  Field(memory, k * PhraseBits, PhraseBits) = v
<1>1. k \in Nat /\ PhraseBits \in Nat /\ k * PhraseBits \in Nat
  <2>1. k \in Nat /\ PhraseBits \in Nat
    BY GivenFacts, WordFacts
  <2> QED BY <2>1
<1>2. PhraseBits \in 0 .. MaxWidth /\ PhraseBits # 0 /\ v \in Nat /\ v < 2^PhraseBits
  BY WordFacts
<1> HIDE DEF PhraseBits
<1> QED BY <1>1, <1>2, FieldHolds DEF HoldsEntry

(* What does not change while the parsing, and the starts, are kept. *)
LEMMA GivenKept ==
  ASSUME given' = given
  PROVE  /\ Ends' = Ends /\ PhraseBits' = PhraseBits /\ IndexBits' = IndexBits
         /\ \A k : Begin(k)' = Begin(k) /\ Start(k)' = Start(k)
BY DEF Ends, PhraseBits, IndexBits, Begin, Start

LEMMA StartsKept ==
  ASSUME given' = given, starts' = starts
  PROVE  /\ OneAt' = OneAt
         /\ \A k : OrderOf(k)' = OrderOf(k) /\ Sorted(k)' = Sorted(k)
         /\ \A k : Below(k)' = Below(k)
         /\ \A t, k : At(t, k)' = At(t, k)
<1>1. \A k, l : Before(k, l)' = Before(k, l)
  BY DEF Before
<1>2. \A k : OrderOf(k)' = OrderOf(k) /\ Sorted(k)' = Sorted(k)
  BY <1>1 DEF OrderOf, Sorted
<1>3. OneAt' = OneAt
  BY <1>2 DEF OneAt
<1> QED BY <1>2, <1>3 DEF Below, At

LEMMA MemoryKept ==
  ASSUME given' = given, memory' = memory
  PROVE  \A k, v : HoldsWord(k, v)' = HoldsWord(k, v) /\ HoldsEntry(k, v)' = HoldsEntry(k, v)
BY GivenKept DEF HoldsWord, HoldsEntry

-----------------------------------------------------------------------------
(* build_aux_ds, step by step                                              *)

LEMMA InitInv == Init => BuildInv
<1> SUFFICES ASSUME Init PROVE BuildInv
  OBVIOUS
<1>1. /\ given \in Inputs /\ last = << >> /\ lastPos = {} /\ begin = {}
      /\ starts = [k \in Phrases(given) |-> 0]
      /\ count = [k \in 0 .. Length(given) |-> 0]
      /\ i = 0 /\ position = 0 /\ marked = 0 /\ pc = "ends"
  BY DEF Init
<1>2. given.count \in Nat /\ given.count > 1 /\ Phrases(given) = 0 .. (given.count - 1)
  BY <1>1, GivenFacts
<1>3. 0 \in Phrases(given) /\ Begin(0) = 0
  <2>1. 0 \in Phrases(given)
    BY <1>2
  <2> QED BY <1>1, <2>1, GivenFacts
<1>4. Typed
  BY <1>1, <1>3 DEF Typed, Building
<1>5. EndsSet
  <2>1. {given.end[k] : k \in 0 .. (0 - 1)} = {} /\ [k \in 1 .. 0 |-> given.phrase[k - 1].char] = << >>
    OBVIOUS
  <2> QED BY <1>1, <1>3, <2>1 DEF EndsSet
<1>6. StartsSet
  BY <1>1 DEF StartsSet
<1>7. Marking
  BY <1>1 DEF Marking, Ready
<1>8. Counting
  BY <1>1 DEF Counting
<1>9. Remembered
  BY <1>1 DEF Remembered, Ready
<1> QED BY <1>4, <1>5, <1>6, <1>7, <1>8, <1>9 DEF BuildInv

LEMMA SetEndInv == BuildInv /\ SetEnd => BuildInv'
<1> SUFFICES ASSUME BuildInv, SetEnd PROVE BuildInv'
  OBVIOUS
<1>1. /\ pc = "ends" /\ last' = Append(last, given.phrase[i].char)
      /\ position' = position + given.phrase[i].len
      /\ lastPos' = lastPos \cup {position' - 1}
      /\ IF i + 1 < given.count THEN i' = i + 1 /\ pc' = "ends" ELSE i' = 0 /\ pc' = "starts"
      /\ given' = given /\ starts' = starts /\ begin' = begin /\ count' = count /\ marked' = marked
  BY DEF SetEnd, Advance
<1>2. /\ given \in Inputs /\ i \in Phrases(given) /\ starts \in [Phrases(given) -> Nat]
      /\ lastPos = {given.end[k] : k \in 0 .. (i - 1)}
      /\ last = [k \in 1 .. i |-> given.phrase[k - 1].char]
      /\ position = Begin(i)
  BY <1>1 DEF BuildInv, Typed, EndsSet
<1>3. /\ given.count \in Nat /\ Phrases(given) = 0 .. (given.count - 1) /\ i \in Nat /\ i < given.count
  BY <1>2, GivenFacts
<1>4. /\ Begin(i) \in Nat /\ given.end[i] \in Nat
      /\ given.phrase[i].len = given.end[i] - Begin(i) + 1
  BY <1>2, PhraseFacts
<1>5. position' = given.end[i] + 1 /\ position' - 1 = given.end[i]
  BY <1>1, <1>2, <1>4
<1>6. lastPos' = {given.end[k] : k \in 0 .. i}
  <2>1. 0 .. i = (0 .. (i - 1)) \cup {i}
    BY <1>3
  <2> QED BY <1>1, <1>2, <1>5, <2>1
<1>7. last' = [k \in 1 .. (i + 1) |-> given.phrase[k - 1].char]
  <2> DEFINE c(k) == given.phrase[k - 1].char
             s == [k \in 1 .. i |-> c(k)]
  <2>1. \A k \in 1 .. (i + 1) : c(k) \in Nat
    <3> TAKE k \in 1 .. (i + 1)
    <3>1. k - 1 \in Phrases(given)
      BY <1>3
    <3> QED BY <1>2, <3>1, GivenFacts
  <2>2. c(i + 1) = given.phrase[i].char
    BY <1>3
  <2> HIDE DEF c
  <2>3. s \in Seq(Nat) /\ Len(s) = i
    BY <1>3, <2>1
  <2>4. Append(s, c(i + 1)) = [k \in 1 .. (i + 1) |-> c(k)]
    BY <1>3, <2>1, <2>3
  <2>5. last = s /\ last' = Append(last, c(i + 1))
    BY <1>1, <1>2, <2>2 DEF c
  <2>6. last' = [k \in 1 .. (i + 1) |-> c(k)]
    BY <2>4, <2>5
  <2> QED BY <2>6 DEF c
<1>8. Typed'
  <2>1. i + 1 < given.count => i + 1 \in Phrases(given)
    BY <1>3
  <2>2. 0 \in Phrases(given)
    BY <1>3
  <2> QED BY <1>1, <1>2, <2>1, <2>2 DEF Typed, Building
<1>9. EndsSet'
  <2>1. CASE i + 1 < given.count
    <3>1. i' = i + 1 /\ pc' = "ends" /\ 0 .. i = 0 .. (i' - 1)
      BY <1>1, <1>3, <2>1
    <3>2. i + 1 \in Phrases(given) /\ i + 1 # 0 /\ (i + 1) - 1 = i
      BY <1>3, <2>1
    <3>3. Begin(i + 1) = given.end[i] + 1
      BY <1>2, <3>2, GivenFacts
    <3>4. Begin(i)' = given.end[i] + 1
      BY <1>1, <3>1, <3>3 DEF Begin
    <3> QED BY <1>1, <1>5, <1>6, <1>7, <3>1, <3>4 DEF EndsSet
  <2>2. CASE ~(i + 1 < given.count)
    <3>1. pc' = "starts" /\ i + 1 = given.count /\ 0 .. i = 0 .. (given.count - 1)
      BY <1>1, <1>3, <2>2
    <3>2. lastPos' = Ends /\ Ends' = Ends
      BY <1>1, <1>6, <3>1, GivenKept DEF Ends, OnesOf
    <3> QED BY <1>1, <1>7, <3>1, <3>2 DEF EndsSet
  <2> QED BY <2>1, <2>2
<1>10. StartsSet'
  <2>1. pc' = "starts" => i' = 0
    BY <1>1
  <2>2. \A k \in Phrases(given) : ~(k < 0)
    BY <1>3
  <2> QED BY <1>1, <2>1, <2>2 DEF StartsSet
<1>11. Marking'
  BY <1>1 DEF BuildInv, Marking, Ready
<1>12. Counting'
  BY <1>1 DEF BuildInv, Counting
<1>13. Remembered'
  BY <1>1 DEF Remembered, Ready
<1> QED BY <1>8, <1>9, <1>10, <1>11, <1>12, <1>13 DEF BuildInv

(* The start computed for a source fits its field. *)
LEMMA SourceValueIs ==
  ASSUME given \in Inputs, lastPos = Ends, NEW k \in Phrases(given)
  PROVE  Packed(IndexBits, SourceValue(given.phrase[k])) = Start(k)
<1>1. Start(k) \in 0 .. (Length(given) - 1) /\ Start(k) = Source(given, k) + 1
  BY PhraseFacts
<1>2. SourceValue(given.phrase[k]) = Start(k)
  <2>1. CASE given.phrase[k].len = 1
    BY <1>1, <2>1 DEF SourceValue, Source
  <2>2. CASE given.phrase[k].len # 1
    <3> DEFINE link == given.phrase[k].link
               len == given.phrase[k].len
    <3>1. len \in Nat \ {0} /\ link \in 0 .. (k - 1) /\ k \in 0 .. (given.count - 1) /\ given.count \in Nat
      <4>1. len \in Nat \ {0} /\ (len > 1 => link \in 0 .. (k - 1))
        BY GivenFacts
      <4>2. k \in 0 .. (given.count - 1) /\ given.count \in Nat
        BY GivenFacts
      <4> HIDE DEF link
      <4> QED BY <2>2, <4>1, <4>2
    <3>2. link \in 0 .. (given.count - 1) /\ given.end[link] \in Nat
      <4>1. link \in Phrases(given) /\ link \in 0 .. (given.count - 1)
        <5> HIDE DEF link
        <5> QED BY <3>1, GivenFacts
      <4> QED BY <4>1, GivenFacts
    <3>3. Select(Ends, link + 1) = given.end[link]
      BY <3>1, <3>2, EndsRise, SelectIs DEF Ends
    <3>4. SourceValue(given.phrase[k]) = given.end[link] - len + 3
      BY <2>2, <3>3 DEF SourceValue
    <3>5. Source(given, k) = given.end[link] - len + 2
      BY <2>2 DEF Source
    <3> DEFINE e == given.end[link]
    <3>6. e \in Nat /\ len \in Nat
      BY <3>1, <3>2
    <3>7. SourceValue(given.phrase[k]) = e - len + 3 /\ Source(given, k) = e - len + 2
      BY <3>4, <3>5
    <3> HIDE DEF link, len, e
    <3>8. e - len + 3 = (e - len + 2) + 1
      BY <3>6
    <3> QED BY <1>1, <3>7, <3>8
  <2> QED BY <2>1, <2>2
<1>3. Length(given) \in Nat /\ Length(given) <= 2^MaxWidth
  BY GivenFacts
<1>4. IndexBits \in 0 .. MaxWidth /\ 2^IndexBits >= Length(given) /\ 2^IndexBits \in Nat
  <2>1. IndexBits \in 0 .. MaxWidth /\ 2^IndexBits >= Length(given)
    BY <1>3, CeilLog2Wide DEF IndexBits
  <2> QED BY <2>1, WidthAssumption
<1>5. Start(k) \in Nat /\ Start(k) < 2^IndexBits
  <2> DEFINE s == Start(k)
             l == Length(given)
             values == 2^IndexBits
  <2>1. s \in 0 .. (l - 1) /\ l \in Nat /\ values \in Nat /\ values >= l
    BY <1>1, <1>3, <1>4
  <2> HIDE DEF s, l, values
  <2>2. s \in Nat /\ s < values
    BY <2>1
  <2> QED BY <2>2 DEF s, values
<1> QED BY <1>2, <1>4, <1>5, PackedFits

LEMMA SetStartInv == BuildInv /\ SetStart => BuildInv'
<1> SUFFICES ASSUME BuildInv, SetStart PROVE BuildInv'
  OBVIOUS
<1>1. /\ pc = "starts" /\ starts' = [starts EXCEPT ![i] = Packed(IndexBits, SourceValue(given.phrase[i]))]
      /\ IF i + 1 < given.count THEN i' = i + 1 /\ pc' = "starts" ELSE i' = 0 /\ pc' = "sort"
      /\ given' = given /\ last' = last /\ lastPos' = lastPos /\ begin' = begin
      /\ count' = count /\ marked' = marked
  BY DEF SetStart, Advance
<1>2. /\ given \in Inputs /\ i \in Phrases(given) /\ starts \in [Phrases(given) -> Nat]
      /\ lastPos = Ends
      /\ \A k \in Phrases(given) : k < i => starts[k] = Start(k)
  BY <1>1 DEF BuildInv, Typed, EndsSet, StartsSet
<1>3. given.count \in Nat /\ Phrases(given) = 0 .. (given.count - 1) /\ i \in Nat /\ i < given.count
  BY <1>2, GivenFacts
<1>4. starts' = [starts EXCEPT ![i] = Start(i)] /\ Start(i) \in Nat
  <2>1. Start(i) \in 0 .. (Length(given) - 1) /\ Length(given) \in Nat
    BY <1>2, PhraseFacts, GivenFacts
  <2>2. Start(i) \in Nat
    BY <2>1
  <2>3. Packed(IndexBits, SourceValue(given.phrase[i])) = Start(i)
    BY <1>2, SourceValueIs
  <2> QED BY <1>1, <2>2, <2>3
<1>5. starts' \in [Phrases(given) -> Nat]
  BY <1>2, <1>4
<1>6. \A k \in Phrases(given) : k < i + 1 => starts'[k] = Start(k)
  <2> TAKE k \in Phrases(given)
  <2>1. k < i + 1 => k < i \/ k = i
    BY <1>3
  <2> QED BY <1>2, <1>4, <2>1
<1>7. Typed'
  <2>1. i + 1 < given.count => i + 1 \in Phrases(given)
    BY <1>3
  <2> QED BY <1>1, <1>2, <1>5, <2>1 DEF Typed, Building
<1>8. EndsSet'
  BY <1>1, GivenKept DEF BuildInv, EndsSet
<1>9. StartsSet'
  <2>1. \A k \in Phrases(given) : k < i + 1 \/ i + 1 < given.count
    BY <1>3
  <2>2. \A k : Start(k)' = Start(k)
    BY <1>1, GivenKept
  <2> QED BY <1>1, <1>6, <2>1, <2>2 DEF StartsSet
<1>10. Marking'
  BY <1>1 DEF BuildInv, Marking, Ready
<1>11. Counting'
  BY <1>1 DEF BuildInv, Counting
<1>12. Remembered'
  BY <1>1 DEF Remembered, Ready
<1> QED BY <1>7, <1>8, <1>9, <1>10, <1>11, <1>12 DEF BuildInv

(* After the starts are computed they are kept. *)
LEMMA StartsAre ==
  ASSUME BuildInv, pc \notin {"ends", "starts"}
  PROVE  \A k \in Phrases(given) : starts[k] = Start(k) /\ starts[k] \in 0 .. (Length(given) - 1)
BY PhraseFacts DEF BuildInv, Typed, StartsSet

LEMMA SortInv == BuildInv /\ Sort => BuildInv'
<1> SUFFICES ASSUME BuildInv, Sort PROVE BuildInv'
  OBVIOUS
<1>1. /\ pc = "sort" /\ pc' = "mark" /\ position' = 0
      /\ memory' = [b \in 0 .. (given.count * WordBits - 1) |-> << Sorted(b \div WordBits), b % WordBits >>]
      /\ given' = given /\ last' = last /\ lastPos' = lastPos /\ starts' = starts /\ begin' = begin
      /\ count' = count /\ i' = i /\ marked' = marked
  BY DEF Sort
<1>2. /\ given \in Inputs /\ i = 0 /\ starts \in [Phrases(given) -> Nat] /\ begin = {} /\ marked = 0
  BY <1>1 DEF BuildInv, Typed, Marking
<1>3. /\ given.count \in Nat /\ Phrases(given) = 0 .. (given.count - 1) /\ Length(given) \in Nat \ {0}
      /\ WordBits \in Nat \ {0}
  BY <1>2, GivenFacts, WordFacts
<1>4. Typed'
  BY <1>1, <1>2 DEF Typed, Building
<1>5. EndsSet' /\ StartsSet'
  BY <1>1, GivenKept DEF BuildInv, EndsSet, StartsSet
<1>6. Marking'
  <2>1. 0 \in 0 .. (Length(given) - 1) /\ 0 \in 0 .. given.count /\ 0 = 0 + 0
    BY <1>3
  <2>2. {OneAt[r] : r \in 0 .. (0 - 1)} = {}
    OBVIOUS
  <2>3. \A r \in Phrases(given) : ~(r < 0) /\ starts[Sorted(r)] >= 0
    BY <1>2, <1>3, OrderIs
  <2> QED BY <1>1, <1>2, <2>1, <2>2, <2>3, StartsKept DEF Marking, Ready
<1>7. Counting'
  BY <1>1 DEF BuildInv, Counting
<1>8. Remembered'
  <2>1. ASSUME NEW k \in Phrases(given) PROVE Holds(memory', k * WordBits, WordBits, Sorted(k))
    <3>1. k \in Nat /\ k < given.count /\ k * WordBits \in Nat /\ k * WordBits + WordBits <= given.count * WordBits
      BY <1>3, MulStrict
    <3> DEFINE top == given.count * WordBits
    <3>2. top \in Nat /\ k * WordBits + WordBits <= top
      BY <1>3, <3>1
    <3> HIDE DEF top
    <3>3. ASSUME NEW j \in 0 .. (WordBits - 1)
          PROVE  k * WordBits + j \in 0 .. (top - 1)
      BY <1>3, <3>1, <3>2
    <3>4. ASSUME NEW j \in 0 .. (WordBits - 1)
          PROVE  (k * WordBits + j) \div WordBits = k /\ (k * WordBits + j) % WordBits = j
      BY <1>3, <3>1, DivMod
    <3>5. memory' = [b \in 0 .. (top - 1) |-> << Sorted(b \div WordBits), b % WordBits >>]
      BY <1>1 DEF top
    <3>6. ASSUME NEW j \in 0 .. (WordBits - 1)
          PROVE  k * WordBits + j \in DOMAIN memory' /\ memory'[k * WordBits + j] = << Sorted(k), j >>
      <4> DEFINE b == k * WordBits + j
      <4>1. b \in 0 .. (top - 1) /\ b \div WordBits = k /\ b % WordBits = j
        BY <3>3, <3>4
      <4> HIDE DEF b
      <4>2. b \in DOMAIN memory'
        BY <3>5, <4>1
      <4>3. memory'[b] = << Sorted(b \div WordBits), b % WordBits >>
        BY <3>5, <4>1
      <4>4. b \in DOMAIN memory' /\ memory'[b] = << Sorted(k), j >>
        BY <4>1, <4>2, <4>3
      <4> QED BY <4>4 DEF b
    <3> QED BY <3>6 DEF Holds
  <2>2. \A k \in Phrases(given) : HoldsWord(k, Sorted(k))'
    BY <1>1, <2>1, StartsKept DEF HoldsWord
  <2>3. DOMAIN memory' = 0 .. (given.count * WordBits - 1)
    BY <1>1
  <2> QED BY <1>1, <2>2, <2>3 DEF Remembered, Ready
<1> QED BY <1>4, <1>5, <1>6, <1>7, <1>8 DEF BuildInv

(* While m_source_begin is filled the words hold the phrases in order. *)
LEMMA MarkFacts ==
  ASSUME BuildInv, pc = "mark"
  PROVE  /\ given \in Inputs /\ starts \in [Phrases(given) -> Nat]
         /\ given.count \in Nat /\ given.count > 1 /\ Phrases(given) = 0 .. (given.count - 1)
         /\ Length(given) \in Nat /\ i \in 0 .. (Length(given) - 1) /\ marked \in 0 .. given.count
         /\ position = i + marked /\ begin = {OneAt[r] : r \in 0 .. (marked - 1)}
         /\ \A r \in Phrases(given) :
              /\ Word(r) = Sorted(r) /\ Sorted(r) \in Phrases(given)
              /\ starts[Sorted(r)] \in Nat /\ starts[Sorted(r)] <= Length(given) - 1
              /\ r < marked => starts[Sorted(r)] <= i
              /\ r >= marked => starts[Sorted(r)] >= i
              /\ OneAt[r] = starts[Sorted(r)] + r
<1>1. given \in Inputs /\ starts \in [Phrases(given) -> Nat]
  BY DEF BuildInv, Typed
<1>2. /\ given.count \in Nat /\ given.count > 1 /\ Phrases(given) = 0 .. (given.count - 1)
      /\ Length(given) \in Nat
  BY <1>1, GivenFacts
<1>3. /\ i \in 0 .. (Length(given) - 1) /\ marked \in 0 .. given.count
      /\ position = i + marked /\ begin = {OneAt[r] : r \in 0 .. (marked - 1)}
      /\ \A r \in Phrases(given) :
           /\ r < marked => starts[Sorted(r)] <= i
           /\ r >= marked => starts[Sorted(r)] >= i
  BY DEF BuildInv, Marking
<1>4. \A r \in Phrases(given) : HoldsWord(r, Sorted(r))
  BY DEF BuildInv, Remembered
<1>5. \A r \in Phrases(given) : Sorted(r) \in Phrases(given)
  BY <1>1, OrderIs
<1>6. \A r \in Phrases(given) : Word(r) = Sorted(r)
  BY <1>1, <1>4, <1>5, WordRead
<1>7. \A r \in Phrases(given) : starts[Sorted(r)] \in Nat /\ starts[Sorted(r)] <= Length(given) - 1
  <2>1. \A k \in Phrases(given) : starts[k] \in 0 .. (Length(given) - 1)
    BY StartsAre
  <2> QED BY <1>2, <1>5, <2>1
<1>8. \A r \in Phrases(given) : OneAt[r] = starts[Sorted(r)] + r
  BY DEF OneAt
<1> QED BY <1>1, <1>2, <1>3, <1>5, <1>6, <1>7, <1>8

LEMMA MarkSourceInv == BuildInv /\ MarkSource => BuildInv'
<1> SUFFICES ASSUME BuildInv, MarkSource PROVE BuildInv'
  OBVIOUS
<1>1. /\ pc = "mark" /\ pc' = "mark" /\ marked < given.count /\ starts[Word(marked)] = i
      /\ begin' = begin \cup {position} /\ position' = position + 1 /\ marked' = marked + 1
      /\ given' = given /\ last' = last /\ lastPos' = lastPos /\ starts' = starts
      /\ memory' = memory /\ count' = count /\ i' = i
  BY DEF MarkSource, SourceHere
<1>2. /\ given.count \in Nat /\ Phrases(given) = 0 .. (given.count - 1)
      /\ i \in 0 .. (Length(given) - 1) /\ marked \in 0 .. given.count
      /\ position = i + marked /\ begin = {OneAt[r] : r \in 0 .. (marked - 1)}
      /\ \A r \in Phrases(given) :
           /\ r < marked => starts[Sorted(r)] <= i
           /\ r >= marked => starts[Sorted(r)] >= i
  BY <1>1, MarkFacts
<1>3. marked \in Phrases(given) /\ marked + 1 \in 0 .. given.count
  BY <1>1, <1>2
<1>4. starts[Sorted(marked)] = i /\ OneAt[marked] = i + marked
  BY <1>1, <1>3, MarkFacts
<1>5. begin' = {OneAt[r] : r \in 0 .. ((marked + 1) - 1)}
  <2>1. 0 .. ((marked + 1) - 1) = (0 .. (marked - 1)) \cup {marked}
    BY <1>2
  <2> QED BY <1>1, <1>2, <1>4, <2>1
<1>6. \A r \in Phrases(given) :
        /\ r < marked + 1 => starts[Sorted(r)] <= i
        /\ r >= marked + 1 => starts[Sorted(r)] >= i
  <2> TAKE r \in Phrases(given)
  <2>1. r < marked + 1 => r < marked \/ r = marked
    BY <1>2
  <2>2. r >= marked + 1 => r >= marked
    BY <1>2
  <2>3. i <= i
    BY <1>2
  <2> QED BY <1>2, <1>4, <2>1, <2>2, <2>3
<1>7. Marking'
  <2>1. position' = i + (marked + 1)
    BY <1>1, <1>2
  <2> QED BY <1>1, <1>2, <1>3, <1>5, <1>6, <2>1, StartsKept DEF Marking, Ready
<1>8. Typed' /\ EndsSet' /\ StartsSet' /\ Counting'
  BY <1>1, GivenKept DEF BuildInv, Typed, EndsSet, StartsSet, Counting, Building
<1>9. Remembered'
  BY <1>1, MemoryKept, StartsKept DEF BuildInv, Remembered, Ready
<1> QED BY <1>7, <1>8, <1>9 DEF BuildInv

LEMMA MarkGapInv == BuildInv /\ MarkGap => BuildInv'
<1> SUFFICES ASSUME BuildInv, MarkGap PROVE BuildInv'
  OBVIOUS
<1>1. /\ pc = "mark" /\ ~(marked < given.count /\ starts[Word(marked)] = i)
      /\ position' = position + 1
      /\ IF i + 1 < Length(given) THEN i' = i + 1 /\ pc' = "mark" ELSE i' = 0 /\ pc' = "count"
      /\ given' = given /\ last' = last /\ lastPos' = lastPos /\ starts' = starts
      /\ begin' = begin /\ memory' = memory /\ count' = count /\ marked' = marked
  BY DEF MarkGap, SourceHere
<1>2. /\ given \in Inputs /\ given.count \in Nat /\ given.count > 1
      /\ starts \in [Phrases(given) -> Nat] /\ Phrases(given) = 0 .. (given.count - 1)
      /\ Length(given) \in Nat /\ i \in 0 .. (Length(given) - 1) /\ marked \in 0 .. given.count
      /\ position = i + marked /\ begin = {OneAt[r] : r \in 0 .. (marked - 1)}
  BY <1>1, MarkFacts
<1>3. \A r \in Phrases(given) :
        /\ Word(r) = Sorted(r)
        /\ starts[Sorted(r)] \in Nat /\ starts[Sorted(r)] <= Length(given) - 1
        /\ r < marked => starts[Sorted(r)] <= i
        /\ r >= marked => starts[Sorted(r)] >= i
  BY <1>1, MarkFacts
<1>4. ASSUME NEW r \in Phrases(given), r >= marked PROVE starts[Sorted(r)] >= i + 1
  <2>1. marked \in Phrases(given)
    BY <1>2, <1>4
  <2>2. starts[Sorted(marked)] >= i /\ starts[Sorted(marked)] # i /\ starts[Sorted(marked)] \in Nat
    <3>1. marked < given.count /\ marked >= marked
      BY <1>2, <2>1
    <3> QED BY <1>1, <1>3, <2>1, <3>1
  <2>3. starts[Sorted(marked)] <= starts[Sorted(r)]
    <3>1. CASE r = marked
      BY <2>2, <3>1
    <3>2. CASE r # marked
      <4>1. marked < r
        BY <1>2, <1>4, <3>2
      <4> QED BY <1>2, <2>1, <4>1, SortedRises
    <3> QED BY <3>1, <3>2
  <2>4. starts[Sorted(r)] \in Nat
    BY <1>3
  <2> QED BY <1>2, <2>2, <2>3, <2>4
<1>5. CASE i + 1 < Length(given)
  <2>1. i' = i + 1 /\ pc' = "mark"
    BY <1>1, <1>5
  <2>2. i + 1 \in 0 .. (Length(given) - 1) /\ position + 1 = (i + 1) + marked
    BY <1>2, <1>5
  <2>3. \A r \in Phrases(given) :
          /\ r < marked => starts[Sorted(r)] <= i + 1
          /\ r >= marked => starts[Sorted(r)] >= i + 1
    <3> TAKE r \in Phrases(given)
    <3>1. starts[Sorted(r)] \in Nat /\ (r < marked => starts[Sorted(r)] <= i)
      BY <1>3
    <3>2. r < marked => starts[Sorted(r)] <= i + 1
      BY <1>2, <3>1
    <3> QED BY <1>4, <3>2
  <2>4. Marking'
    BY <1>1, <1>2, <2>1, <2>2, <2>3, StartsKept DEF Marking, Ready
  <2>5. Typed' /\ EndsSet' /\ StartsSet' /\ Counting'
    BY <1>1, <2>1, GivenKept DEF BuildInv, Typed, EndsSet, StartsSet, Counting, Building
  <2>6. Remembered'
    BY <1>1, <2>1, MemoryKept, StartsKept DEF BuildInv, Remembered, Ready
  <2> QED BY <2>4, <2>5, <2>6 DEF BuildInv
<1>6. CASE ~(i + 1 < Length(given))
  <2>1. i' = 0 /\ pc' = "count" /\ 0 \in Phrases(given)
    BY <1>1, <1>2, <1>6
  <2>2. marked = given.count
    <3>1. ASSUME marked # given.count PROVE FALSE
      <4>1. marked \in Phrases(given) /\ marked >= marked
        BY <1>2, <3>1
      <4>2. starts[Sorted(marked)] >= i + 1 /\ starts[Sorted(marked)] \in Nat
            /\ starts[Sorted(marked)] <= Length(given) - 1
        BY <1>3, <1>4, <4>1
      <4> QED BY <1>2, <1>6, <4>2
    <3> QED BY <3>1
  <2>3. begin = OnesOf(OneAt, given.count)
    BY <1>2, <2>2 DEF OnesOf
  <2>4. Marking'
    BY <1>1, <2>1, <2>2, <2>3, StartsKept DEF Marking, Ready
  <2>5. Typed' /\ EndsSet' /\ StartsSet'
    BY <1>1, <2>1, GivenKept DEF BuildInv, Typed, EndsSet, StartsSet, Building
  <2>6. Counting'
    <3>1. count = [t \in 0 .. Length(given) |-> 0]
      BY <1>1 DEF BuildInv, Counting
    <3>2. count \in [0 .. Length(given) -> Int] /\ count[0] = 0
      BY <1>2, <3>1
    <3>3. ASSUME NEW t \in 0 .. (Length(given) - 1) PROVE count[t + 1] = Cardinality(At(t, 0))
      <4>1. t \in Nat /\ t + 1 \in 0 .. Length(given)
        BY <1>2
      <4>2. Cardinality(At(t, 0)) = 0
        BY <1>2, <4>1, Counts
      <4> QED BY <3>1, <4>1, <4>2
    <3> QED BY <1>1, <2>1, <3>2, <3>3, StartsKept DEF Counting
  <2>7. Remembered'
    BY <1>1, <2>1, MemoryKept, StartsKept DEF BuildInv, Remembered, Ready
  <2> QED BY <2>4, <2>5, <2>6, <2>7 DEF BuildInv
<1> QED BY <1>5, <1>6

(* What the loops over the counts, and those over the words, leave alone.  *)
LEMMA LoopKeeps ==
  ASSUME BuildInv, UNCHANGED << given, last, lastPos, starts, begin, marked >>,
         pc \in {"count", "sum", "map", "pack", "resize"},
         pc' \in {"count", "sum", "map", "pack", "resize"} \cup Ready,
         pc' \in {"count", "map", "pack"} => i' \in Phrases(given)
  PROVE  Typed' /\ EndsSet' /\ StartsSet' /\ Marking'
<1>1. pc' \notin {"ends", "starts", "sort", "mark"} /\ pc \notin {"ends", "starts", "sort", "mark"}
  BY DEF Ready
<1>2. Typed'
  BY <1>1 DEF BuildInv, Typed, Building
<1>3. EndsSet' /\ StartsSet'
  BY <1>1, GivenKept DEF BuildInv, EndsSet, StartsSet
<1>4. Marking'
  BY <1>1, StartsKept DEF BuildInv, Marking, Ready
<1> QED BY <1>2, <1>3, <1>4

LEMMA LoopFacts ==
  ASSUME BuildInv, pc \in {"count", "sum", "map", "pack", "resize"}
  PROVE  /\ given \in Inputs /\ starts \in [Phrases(given) -> Nat]
         /\ given.count \in Nat /\ given.count > 1 /\ Phrases(given) = 0 .. (given.count - 1)
         /\ Length(given) \in Nat /\ Length(given) >= 2
         /\ \A k \in Phrases(given) : starts[k] \in 0 .. (Length(given) - 1)
         /\ pc \in {"count", "map", "pack"} => i \in Phrases(given)
<1>1. given \in Inputs /\ starts \in [Phrases(given) -> Nat]
      /\ (pc \in {"count", "map", "pack"} => i \in Phrases(given))
  BY DEF BuildInv, Typed
<1>2. /\ given.count \in Nat /\ given.count > 1 /\ Phrases(given) = 0 .. (given.count - 1)
      /\ Length(given) \in Nat
  BY <1>1, GivenFacts
<1>3. \A k \in Phrases(given) : starts[k] \in 0 .. (Length(given) - 1)
  BY StartsAre
<1>4. Length(given) >= 2
  <2>1. 0 \in Phrases(given) /\ 1 \in Phrases(given) /\ 0 \in 0 .. (given.count - 1) /\ 1 \in 0 .. (given.count - 1)
    BY <1>2
  <2>2. given.end[0] < given.end[1]
    BY <1>1, <2>1, EndsRise DEF Rising
  <2>3. given.end[0] \in Nat /\ given.end[1] \in Nat /\ given.end[1] < Length(given)
    BY <1>1, <2>1, PhraseFacts
  <2> QED BY <1>2, <2>2, <2>3
<1> QED BY <1>1, <1>2, <1>3, <1>4

LEMMA CountSourceInv == BuildInv /\ CountSource => BuildInv'
<1> SUFFICES ASSUME BuildInv, CountSource PROVE BuildInv'
  OBVIOUS
<1>1. /\ pc = "count" /\ count' = [count EXCEPT ![starts[i] + 1] = @ + 1]
      /\ IF i + 1 < given.count THEN i' = i + 1 /\ pc' = "count" ELSE i' = 2 /\ pc' = "sum"
      /\ given' = given /\ last' = last /\ lastPos' = lastPos /\ starts' = starts
      /\ begin' = begin /\ memory' = memory /\ marked' = marked
  BY DEF CountSource, Advance
<1>2. /\ given \in Inputs /\ given.count \in Nat /\ given.count > 1
      /\ starts \in [Phrases(given) -> Nat] /\ Phrases(given) = 0 .. (given.count - 1)
      /\ Length(given) \in Nat /\ Length(given) >= 2 /\ i \in Phrases(given)
      /\ starts[i] \in 0 .. (Length(given) - 1)
  BY <1>1, LoopFacts
<1>3. /\ count \in [0 .. Length(given) -> Int] /\ count[0] = 0
      /\ \A t \in 0 .. (Length(given) - 1) : count[t + 1] = Cardinality(At(t, i))
  BY <1>1 DEF BuildInv, Counting
<1>4. Typed' /\ EndsSet' /\ StartsSet' /\ Marking'
  <2>1. pc' = "count" => i' \in Phrases(given)
    BY <1>1, <1>2
  <2> QED BY <1>1, <2>1, LoopKeeps
<1>5. count' \in [0 .. Length(given) -> Int] /\ count'[0] = 0
  <2> DEFINE s == starts[i]
  <2>1. s + 1 \in 0 .. Length(given) /\ s + 1 # 0
    BY <1>2
  <2>2. count' = [count EXCEPT ![s + 1] = count[s + 1] + 1]
    BY <1>1
  <2> HIDE DEF s
  <2>3. count[s + 1] + 1 \in Int
    BY <1>3, <2>1
  <2>4. 0 \in 0 .. Length(given)
    BY <1>2
  <2> QED BY <1>3, <2>1, <2>2, <2>3, <2>4
<1>6. ASSUME NEW t \in 0 .. (Length(given) - 1) PROVE count'[t + 1] = Cardinality(At(t, i + 1))
  <2>1. t \in Nat /\ t + 1 \in 0 .. Length(given)
    BY <1>2
  <2>2. count[t + 1] = Cardinality(At(t, i)) /\ count[t + 1] \in Int
    BY <1>3, <2>1
  <2>3. Cardinality(At(t, i + 1)) = Cardinality(At(t, i)) + (IF starts[i] = t THEN 1 ELSE 0)
    BY <1>2, <2>1, Counts
  <2>4. CASE starts[i] = t
    BY <1>1, <1>3, <2>1, <2>2, <2>3, <2>4
  <2>5. CASE starts[i] # t
    <3>1. starts[i] + 1 # t + 1
      BY <1>2, <2>1, <2>5
    <3>2. count'[t + 1] = count[t + 1]
      BY <1>1, <1>3, <2>1, <3>1
    <3> QED BY <2>2, <2>3, <2>5, <3>2
  <2> QED BY <2>4, <2>5
<1>7. CASE i + 1 < given.count
  <2>1. i' = i + 1 /\ pc' = "count"
    BY <1>1, <1>7
  <2>2. Counting'
    BY <1>1, <1>5, <1>6, <2>1, StartsKept DEF Counting
  <2>3. Remembered'
    BY <1>1, <2>1, MemoryKept, StartsKept DEF BuildInv, Remembered, Ready
  <2> QED BY <1>4, <2>2, <2>3 DEF BuildInv
<1>8. CASE ~(i + 1 < given.count)
  <2>1. i' = 2 /\ pc' = "sum" /\ i + 1 = given.count
    BY <1>1, <1>2, <1>8
  <2>2. 2 \in 2 .. Length(given)
    BY <1>2
  <2>3. Cardinality(Below(0)) = 0
    BY <1>2, Counts
  <2>4. ASSUME NEW t \in 0 .. (2 - 2) PROVE count'[t] = Cardinality(Below(t)) + t
    <3>1. t = 0
      BY <2>4
    <3> QED BY <1>5, <2>3, <3>1
  <2>5. count'[2 - 1] = Cardinality(Below(2 - 1)) + (2 - 2)
    <3>1. 0 \in 0 .. (Length(given) - 1)
      BY <1>2
    <3>2. count'[0 + 1] = Cardinality(At(0, given.count))
      BY <1>6, <2>1, <3>1
    <3>3. Cardinality(Below(0 + 1)) = Cardinality(Below(0)) + Cardinality(At(0, given.count))
      BY <1>2, Counts
    <3>4. Cardinality(At(0, given.count)) \in Nat
      <4>1. given.count \in 0 .. given.count
        BY <1>2
      <4> QED BY <1>2, <4>1, Counts
    <3> DEFINE c == Cardinality(At(0, given.count))
    <3>5. count'[1] = c /\ Cardinality(Below(1)) = 0 + c /\ c \in Nat
      BY <2>3, <3>2, <3>3, <3>4
    <3> HIDE DEF c
    <3> QED BY <3>5
  <2>6. ASSUME NEW t \in 2 .. Length(given) PROVE count'[t] = Cardinality(At(t - 1, given.count))
    <3>1. t - 1 \in 0 .. (Length(given) - 1) /\ (t - 1) + 1 = t
      BY <1>2
    <3>2. count'[(t - 1) + 1] = Cardinality(At(t - 1, i + 1))
      BY <1>6, <3>1
    <3> QED BY <2>1, <3>1, <3>2
  <2>7. Counting'
    BY <1>1, <1>5, <2>1, <2>2, <2>4, <2>5, <2>6, StartsKept DEF Counting
  <2>8. Remembered'
    BY <1>1, <2>1, MemoryKept, StartsKept DEF BuildInv, Remembered, Ready
  <2> QED BY <1>4, <2>7, <2>8 DEF BuildInv
<1> QED BY <1>7, <1>8

LEMMA SumCountsInv == BuildInv /\ SumCounts => BuildInv'
<1> SUFFICES ASSUME BuildInv, SumCounts PROVE BuildInv'
  OBVIOUS
<1> DEFINE L == Length(given)
           B(t) == Cardinality(Below(t))
<1>1. /\ pc = "sum" /\ count' = [count EXCEPT ![i] = @ + count[i - 1] + 1, ![i - 1] = @ + 1]
      /\ IF i < L THEN i' = i + 1 /\ pc' = "sum" ELSE i' = 0 /\ pc' = "map"
      /\ given' = given /\ last' = last /\ lastPos' = lastPos /\ starts' = starts
      /\ begin' = begin /\ memory' = memory /\ marked' = marked
  BY DEF SumCounts
<1>2. /\ given \in Inputs /\ starts \in [Phrases(given) -> Nat] /\ L \in Nat /\ L >= 2
      /\ given.count \in Nat /\ given.count > 1 /\ Phrases(given) = 0 .. (given.count - 1)
  BY <1>1, LoopFacts
<1>3. /\ count \in [0 .. L -> Int] /\ i \in 2 .. L
      /\ \A t \in 0 .. (i - 2) : count[t] = B(t) + t
      /\ count[i - 1] = B(i - 1) + (i - 2)
      /\ \A t \in i .. L : count[t] = Cardinality(At(t - 1, given.count))
  BY <1>1 DEF BuildInv, Counting
<1>4. Typed' /\ EndsSet' /\ StartsSet' /\ Marking'
  <2>1. pc' \in {"sum", "map"} /\ (pc' = "map" => i' \in Phrases(given))
    BY <1>1, <1>2
  <2> QED BY <1>1, <2>1, LoopKeeps
<1>5. \A t \in Nat : B(t) \in Nat
  BY <1>2, Counts
<1>6. B(i) = B(i - 1) + Cardinality(At(i - 1, given.count))
  <2>1. i - 1 \in Nat /\ (i - 1) + 1 = i
    BY <1>2, <1>3
  <2>2. Cardinality(Below((i - 1) + 1)) = Cardinality(Below(i - 1)) + Cardinality(At(i - 1, given.count))
    BY <1>2, <2>1, Counts
  <2> QED BY <2>1, <2>2
<1>7. i \in 0 .. L /\ i - 1 \in 0 .. L /\ i # i - 1 /\ i \in i .. L
  BY <1>2, <1>3
<1>8. count[i] = Cardinality(At(i - 1, given.count))
  BY <1>3, <1>7
<1> HIDE DEF L, B
<1>9. count[i] \in Int /\ count[i - 1] \in Int
  BY <1>3, <1>7
<1>10. /\ count' \in [0 .. L -> Int]
       /\ count'[i] = count[i] + count[i - 1] + 1 /\ count'[i - 1] = count[i - 1] + 1
       /\ \A t \in 0 .. L : t # i /\ t # i - 1 => count'[t] = count[t]
  <2> DEFINE a == count[i] + count[i - 1] + 1
             b == count[i - 1] + 1
             one == [count EXCEPT ![i] = a]
  <2>1. a \in Int /\ b \in Int
    BY <1>9
  <2>2. count' = [count EXCEPT ![i] = a, ![i - 1] = b]
    BY <1>1
  <2>3. /\ one \in [0 .. L -> Int] /\ one[i] = a /\ \A t \in 0 .. L : t # i => one[t] = count[t]
    <3> HIDE DEF a
    <3> QED BY <1>3, <1>7, <2>1
  <2>4. count' = [one EXCEPT ![i - 1] = b]
    <3> HIDE DEF a, b
    <3> QED BY <2>2
  <2> HIDE DEF a, b, one
  <2> QED BY <1>7, <2>1, <2>3, <2>4 DEF a, b
<1>11. ASSUME NEW t \in 0 .. (i - 1) PROVE count'[t] = B(t) + t
  <2>1. CASE t = i - 1
    <3>1. B(i - 1) \in Nat
      BY <1>3, <1>5
    <3> QED BY <1>3, <1>10, <2>1, <3>1
  <2>2. CASE t # i - 1
    <3>1. t \in 0 .. (i - 2) /\ t \in 0 .. L /\ t # i
      BY <1>2, <1>3, <2>2
    <3> QED BY <1>3, <1>10, <2>2, <3>1
  <2> QED BY <2>1, <2>2
<1>12. count'[i] = B(i) + (i - 1)
  <2> DEFINE c == Cardinality(At(i - 1, given.count))
  <2>1. c \in Int /\ B(i - 1) \in Nat /\ i \in Nat
    <3>1. i - 1 \in Nat
      BY <1>3
    <3> QED BY <1>3, <1>5, <1>8, <1>9, <3>1
  <2>2. count'[i] = c + (B(i - 1) + (i - 2)) + 1
    <3>1. count[i] = c /\ count[i - 1] = B(i - 1) + (i - 2)
      BY <1>3, <1>8
    <3> HIDE DEF c
    <3>2. count'[i] = count[i] + count[i - 1] + 1
      BY <1>10
    <3> QED BY <2>1, <3>1, <3>2
  <2>3. B(i) = B(i - 1) + c
    BY <1>6
  <2> HIDE DEF c
  <2> QED BY <2>1, <2>2, <2>3
<1>13. ASSUME NEW t \in (i + 1) .. L PROVE count'[t] = Cardinality(At(t - 1, given.count))
  <2>1. t \in i .. L /\ t \in 0 .. L /\ t # i /\ t # i - 1
    BY <1>2, <1>3
  <2> QED BY <1>3, <1>10, <2>1
<1>14. CASE i < L
  <2>1. i' = i + 1 /\ pc' = "sum"
    BY <1>1, <1>14
  <2>2. i + 1 \in 2 .. L /\ (i + 1) - 2 = i - 1 /\ (i + 1) - 1 = i
    BY <1>2, <1>3, <1>14
  <2>3. /\ count' \in [0 .. L -> Int] /\ i' \in 2 .. L
        /\ \A t \in 0 .. (i' - 2) : count'[t] = B(t) + t
        /\ count'[i' - 1] = B(i' - 1) + (i' - 2)
        /\ \A t \in i' .. L : count'[t] = Cardinality(At(t - 1, given.count))
    BY <1>10, <1>11, <1>12, <1>13, <2>1, <2>2
  <2>4. L' = L /\ \A t : B(t)' = B(t)
    BY <1>1, StartsKept DEF L, B
  <2>5. Counting'
    <3>1. /\ count' \in [0 .. Length(given) -> Int] /\ i' \in 2 .. Length(given)
          /\ \A t \in 0 .. (i' - 2) : count'[t] = Cardinality(Below(t)) + t
          /\ count'[i' - 1] = Cardinality(Below(i' - 1)) + (i' - 2)
          /\ \A t \in i' .. Length(given) : count'[t] = Cardinality(At(t - 1, given.count))
      BY <2>3 DEF L, B
    <3>2. Below(i - 1)' = Below(i' - 1) /\ \A t : At(t, given.count)' = At(t, given.count)
      BY <1>1 DEF Below, At
    <3>3. \A t : At(t - 1, given.count)' = At(t - 1, given.count)
      BY <3>2
    <3> QED BY <1>1, <2>1, <3>1, <3>2, <3>3, StartsKept DEF Counting
  <2>6. Remembered'
    BY <1>1, <2>1, MemoryKept, StartsKept DEF BuildInv, Remembered, Ready
  <2> QED BY <1>4, <2>5, <2>6 DEF BuildInv
<1>15. CASE ~(i < L)
  <2>1. i' = 0 /\ pc' = "map" /\ i = L
    BY <1>1, <1>2, <1>3, <1>15
  <2>2. ASSUME NEW t \in 0 .. (L - 1) PROVE count'[t] = B(t) + t + Cardinality(At(t, 0))
    <3>1. t \in Nat /\ t \in 0 .. (i - 1)
      BY <1>2, <2>1
    <3>2. Cardinality(At(t, 0)) = 0
      BY <1>2, <3>1, Counts
    <3>3. count'[t] = B(t) + t /\ B(t) \in Nat
      BY <1>5, <1>11, <3>1
    <3> QED BY <3>1, <3>2, <3>3
  <2>3. Counting'
    BY ZenonT(40), <1>1, <1>10, <2>1, <2>2, StartsKept DEF Counting, L, B
  <2>4. Remembered'
    <3>1. \A k \in Phrases(given) : ~(k < 0)
      BY <1>2
    <3> QED BY <1>1, <2>1, <3>1, MemoryKept, StartsKept DEF BuildInv, Remembered, Ready
  <2> QED BY <1>4, <2>3, <2>4 DEF BuildInv
<1> QED BY <1>14, <1>15

(* The bits of a word are bits of memory. *)
LEMMA WordBounds ==
  ASSUME given \in Inputs, NEW k \in Phrases(given)
  PROVE  /\ k \in Nat /\ k * WordBits \in Nat /\ k * PhraseBits \in Nat
         /\ k * PhraseBits <= k * WordBits
         /\ k * PhraseBits + PhraseBits <= k * WordBits + WordBits
         /\ \A j \in 0 .. (WordBits - 1) : k * WordBits + j \in 0 .. (given.count * WordBits - 1)
         /\ \A j \in 0 .. (PhraseBits - 1) : k * PhraseBits + j \in 0 .. (given.count * PhraseBits - 1)
         /\ given.count * PhraseBits <= given.count * WordBits
         /\ given.count * PhraseBits \in Nat
<1> DEFINE W == WordBits
           B == PhraseBits
           n == given.count
<1>1. n \in Nat /\ k \in Nat /\ k < n
  BY GivenFacts
<1>2. W \in Nat \ {0} /\ B \in Nat \ {0} /\ B <= W
  BY WordFacts
<1> HIDE DEF W, B, n
<1>3. k * W \in Nat /\ k * B \in Nat /\ k * B <= k * W
  BY <1>1, <1>2, MulMono
<1>4. n * W \in Nat /\ n * B \in Nat /\ n * B <= n * W
  BY <1>1, <1>2, MulMono
<1>5. k * W + W <= n * W /\ k * B + B <= n * B
  BY <1>1, <1>2, MulStrict
<1>6. k * B + B <= k * W + W
  BY <1>2, <1>3
<1>7. \A j \in 0 .. (W - 1) : k * W + j \in 0 .. (n * W - 1)
  <2> DEFINE a == k * W
             b == n * W
  <2>1. a \in Nat /\ b \in Nat /\ a + W <= b
    BY <1>3, <1>4, <1>5
  <2> HIDE DEF a, b
  <2>2. \A j \in 0 .. (W - 1) : a + j \in 0 .. (b - 1)
    BY <1>2, <2>1
  <2> QED BY <2>2 DEF a, b
<1>8. \A j \in 0 .. (B - 1) : k * B + j \in 0 .. (n * B - 1)
  <2> DEFINE a == k * B
             b == n * B
  <2>1. a \in Nat /\ b \in Nat /\ a + B <= b
    BY <1>3, <1>4, <1>5
  <2> HIDE DEF a, b
  <2>2. \A j \in 0 .. (B - 1) : a + j \in 0 .. (b - 1)
    BY <1>2, <2>1
  <2> QED BY <2>2 DEF a, b
<1> QED BY <1>1, <1>3, <1>4, <1>6, <1>7, <1>8 DEF W, B, n

(* The one of the source of a phrase. *)
LEMMA OneOf ==
  ASSUME given \in Inputs, starts \in [Phrases(given) -> Nat], NEW k \in Phrases(given)
  PROVE  /\ OrderOf(k) \in Phrases(given) /\ OrderOf(k) \in Nat
         /\ OneAt[OrderOf(k)] = starts[k] + OrderOf(k)
         /\ Rank(OnesOf(OneAt, given.count), starts[k] + OrderOf(k) + 1) = OrderOf(k) + 1
         /\ Select(OnesOf(OneAt, given.count), OrderOf(k) + 1) = starts[k] + OrderOf(k)
<1> DEFINE r == OrderOf(k)
<1>1. r \in Phrases(given) /\ Sorted(r) = k
  BY OrderIs
<1>2. given.count \in Nat /\ Phrases(given) = 0 .. (given.count - 1)
  BY GivenFacts
<1>3. OneAt[r] = starts[k] + r
  <2> HIDE DEF r
  <2> QED BY <1>1 DEF OneAt
<1>4. r \in Nat /\ starts[k] \in Nat
  BY <1>1, <1>2
<1> HIDE DEF r
<1>5. /\ Rank(OnesOf(OneAt, given.count), OneAt[r] + 1) = r + 1
      /\ Select(OnesOf(OneAt, given.count), r + 1) = OneAt[r]
  BY <1>1, <1>2, OnesRise, SelectIs
<1>6. OneAt[r] + 1 = starts[k] + r + 1
  BY <1>3, <1>4
<1> QED BY <1>1, <1>3, <1>4, <1>5, <1>6 DEF r

LEMMA MapSourceInv == BuildInv /\ MapSource => BuildInv'
<1> SUFFICES ASSUME BuildInv, MapSource PROVE BuildInv'
  OBVIOUS
<1>1. /\ pc = "map" /\ memory' = WithField(memory, i * WordBits, WordBits, SourceIndex(i))
      /\ count' = [count EXCEPT ![starts[i]] = @ + 1]
      /\ IF i + 1 < given.count THEN i' = i + 1 /\ pc' = "map" ELSE i' = 0 /\ pc' = "pack"
      /\ given' = given /\ last' = last /\ lastPos' = lastPos /\ starts' = starts
      /\ begin' = begin /\ marked' = marked
  BY DEF MapSource, Advance
<1>2. /\ given \in Inputs /\ starts \in [Phrases(given) -> Nat] /\ i \in Phrases(given)
      /\ given.count \in Nat /\ given.count > 1 /\ Phrases(given) = 0 .. (given.count - 1)
      /\ Length(given) \in Nat /\ starts[i] \in 0 .. (Length(given) - 1)
  BY <1>1, LoopFacts
<1>3. /\ count \in [0 .. Length(given) -> Int]
      /\ \A t \in 0 .. (Length(given) - 1) : count[t] = Cardinality(Below(t)) + t + Cardinality(At(t, i))
  BY <1>1 DEF BuildInv, Counting
<1>4. begin = OnesOf(OneAt, given.count)
  BY <1>1 DEF BuildInv, Marking
<1>5. DOMAIN memory = 0 .. (given.count * WordBits - 1)
      /\ \A k \in Phrases(given) : k < i => HoldsWord(k, OrderOf(k))
  BY <1>1 DEF BuildInv, Remembered
<1>6. Typed' /\ EndsSet' /\ StartsSet' /\ Marking'
  <2>1. pc' \in {"map", "pack"} /\ i' \in Phrases(given)
    BY <1>1, <1>2
  <2> QED BY <1>1, <2>1, LoopKeeps
<1>7. SourceIndex(i) = OrderOf(i)
  <2> DEFINE s == starts[i]
             a == Cardinality(Below(s))
             b == Cardinality(At(s, i))
             r == OrderOf(i)
  <2>1. s \in Nat /\ r \in Nat
    BY <1>2, OneOf
  <2>2. count[s] = a + s + b
    BY <1>2, <1>3
  <2>3. r = a + b
    BY <1>2, OrderSum
  <2>4. a \in Nat /\ b \in Nat
    <3>1. i \in 0 .. given.count
      BY <1>2
    <3> HIDE DEF s
    <3> QED BY <1>2, <2>1, <3>1, Counts
  <2>5. Rank(begin, s + r + 1) = r + 1
    BY <1>2, <1>4, OneOf
  <2>6. SourceIndex(i) = Rank(begin, count[s] + 1) - 1
    BY DEF SourceIndex
  <2> HIDE DEF s, a, b, r
  <2>7. count[s] + 1 = s + r + 1
    BY <2>1, <2>2, <2>3, <2>4
  <2>8. SourceIndex(i) = r
    BY <2>1, <2>5, <2>6, <2>7
  <2> QED BY <2>8 DEF r
<1>8. count' \in [0 .. Length(given) -> Int]
      /\ \A t \in 0 .. (Length(given) - 1) : count'[t] = Cardinality(Below(t)) + t + Cardinality(At(t, i + 1))
  <2>1. starts[i] \in 0 .. Length(given) /\ count[starts[i]] \in Int
    BY <1>2, <1>3
  <2>2. count' \in [0 .. Length(given) -> Int]
    BY <1>1, <1>3, <2>1
  <2>3. ASSUME NEW t \in 0 .. (Length(given) - 1)
        PROVE  count'[t] = Cardinality(Below(t)) + t + Cardinality(At(t, i + 1))
    <3> DEFINE a == Cardinality(Below(t))
               b == Cardinality(At(t, i))
               c == Cardinality(At(t, i + 1))
    <3>1. t \in Nat /\ t \in 0 .. Length(given) /\ i \in 0 .. given.count
      BY <1>2
    <3>2. a \in Nat /\ b \in Nat
      BY <1>2, <3>1, Counts
    <3>3. c = b + (IF starts[i] = t THEN 1 ELSE 0)
      BY <1>2, <3>1, Counts
    <3>4. count[t] = a + t + b
      BY <1>3
    <3> HIDE DEF a, b, c
    <3>5. CASE starts[i] = t
      <4>1. count'[t] = count[t] + 1
        BY <1>1, <1>3, <3>1, <3>5
      <4>2. count'[t] = a + t + c
        BY <3>1, <3>2, <3>3, <3>4, <3>5, <4>1
      <4> QED BY <4>2 DEF a, c
    <3>6. CASE starts[i] # t
      <4>1. count'[t] = count[t]
        BY <1>1, <1>3, <3>1, <3>6
      <4>2. count'[t] = a + t + c
        BY <3>1, <3>2, <3>3, <3>4, <3>6, <4>1
      <4> QED BY <4>2 DEF a, c
    <3> QED BY <3>5, <3>6
  <2> QED BY <2>2, <2>3
<1>9. DOMAIN memory' = 0 .. (given.count * WordBits - 1)
  BY <1>1, <1>5 DEF WithField
<1>10. ASSUME NEW k \in Phrases(given), k < i + 1
       PROVE  Holds(memory', k * WordBits, WordBits, OrderOf(k))
  <2>1. /\ WordBits \in Nat \ {0} /\ k \in Nat /\ i \in Nat
        /\ k * WordBits \in Nat /\ i * WordBits \in Nat
        /\ \A j \in 0 .. (WordBits - 1) : i * WordBits + j \in 0 .. (given.count * WordBits - 1)
    BY <1>2, WordFacts, WordBounds
  <2>2. CASE k = i
    <3>1. \A j \in 0 .. (WordBits - 1) : i * WordBits + j \in DOMAIN memory
      BY <1>5, <2>1
    <3>2. Holds(WithField(memory, i * WordBits, WordBits, OrderOf(i)), i * WordBits, WordBits, OrderOf(i))
      BY <2>1, <3>1, FieldWritten
    <3> QED BY <1>1, <1>7, <2>2, <3>2
  <2>3. CASE k # i
    <3>1. k < i
      BY <1>10, <2>1, <2>3
    <3>2. Holds(memory, k * WordBits, WordBits, OrderOf(k))
      BY <1>5, <3>1 DEF HoldsWord
    <3>3. k * WordBits + WordBits <= i * WordBits
      BY <2>1, <3>1, MulStrict
    <3>4. Holds(WithField(memory, i * WordBits, WordBits, OrderOf(i)), k * WordBits, WordBits, OrderOf(k))
      BY <2>1, <3>2, <3>3, FieldKept
    <3> QED BY <1>1, <1>7, <3>4
  <2> QED BY <2>2, <2>3
<1>11. \A k \in Phrases(given) : k < i + 1 => HoldsWord(k, OrderOf(k))'
  BY <1>1, <1>10, StartsKept DEF HoldsWord
<1>12. Counting'
  <2>1. CASE i + 1 < given.count
    <3>1. i' = i + 1 /\ pc' = "map"
      BY <1>1, <2>1
    <3>2. \A t : At(t, i)' = At(t, i + 1)
      BY <1>1, <3>1 DEF At
    <3> QED BY <1>1, <1>8, <3>1, <3>2, StartsKept DEF Counting
  <2>2. CASE ~(i + 1 < given.count)
    BY <1>1, <2>2 DEF Counting
  <2> QED BY <2>1, <2>2
<1>13. Remembered'
  <2>1. CASE i + 1 < given.count
    <3>1. i' = i + 1 /\ pc' = "map"
      BY <1>1, <2>1
    <3> QED BY <1>1, <1>9, <1>11, <3>1 DEF Remembered, Ready
  <2>2. CASE ~(i + 1 < given.count)
    <3>1. i' = 0 /\ pc' = "pack"
      BY <1>1, <2>2
    <3>2. \A k \in Phrases(given) : k < i + 1 /\ ~(k < 0)
      BY <1>2, <2>2
    <3> QED BY <1>1, <1>9, <1>11, <3>1, <3>2 DEF Remembered, Ready
  <2> QED BY <2>1, <2>2
<1> QED BY <1>6, <1>12, <1>13 DEF BuildInv

(* Packing the map into its own memory: a field is written behind the      *)
(* fields packed and before the words that are still to be read.           *)
LEMMA PackSourceInv == BuildInv /\ PackSource => BuildInv'
<1> SUFFICES ASSUME BuildInv, PackSource PROVE BuildInv'
  OBVIOUS
<1>1. /\ pc = "pack" /\ memory' = WithField(memory, i * PhraseBits, PhraseBits, Word(i))
      /\ IF i + 1 < given.count THEN i' = i + 1 /\ pc' = "pack" ELSE i' = 0 /\ pc' = "resize"
      /\ given' = given /\ last' = last /\ lastPos' = lastPos /\ starts' = starts
      /\ begin' = begin /\ count' = count /\ marked' = marked
  BY DEF PackSource, Advance
<1>2. /\ given \in Inputs /\ starts \in [Phrases(given) -> Nat] /\ i \in Phrases(given)
      /\ given.count \in Nat /\ given.count > 1 /\ Phrases(given) = 0 .. (given.count - 1)
  BY <1>1, LoopFacts
<1>3. /\ DOMAIN memory = 0 .. (given.count * WordBits - 1)
      /\ \A k \in Phrases(given) :
           /\ k < i => HoldsEntry(k, OrderOf(k))
           /\ k >= i => HoldsWord(k, OrderOf(k))
  BY <1>1 DEF BuildInv, Remembered
<1>4. Typed' /\ EndsSet' /\ StartsSet' /\ Marking'
  <2>1. pc' \in {"pack", "resize"} /\ (pc' = "pack" => i' \in Phrases(given))
    BY <1>1, <1>2
  <2> QED BY <1>1, <2>1, LoopKeeps
<1>5. Word(i) = OrderOf(i)
  <2>1. i >= i
    BY <1>2
  <2>2. HoldsWord(i, OrderOf(i)) /\ OrderOf(i) \in Phrases(given)
    BY <1>2, <1>3, <2>1, OneOf
  <2> QED BY <1>2, <2>2, WordRead
<1> DEFINE B == PhraseBits
<1>6. memory' = WithField(memory, i * B, B, OrderOf(i))
  BY <1>1, <1>5
<1>7. DOMAIN memory' = 0 .. (given.count * WordBits - 1)
  BY <1>1, <1>3 DEF WithField
<1>8. /\ B \in Nat \ {0} /\ WordBits \in Nat \ {0} /\ i \in Nat /\ i * B \in Nat
      /\ i * B + B <= i * WordBits + WordBits
      /\ \A j \in 0 .. (B - 1) : i * B + j \in DOMAIN memory
  <2>1. /\ B \in Nat \ {0} /\ WordBits \in Nat \ {0} /\ i \in Nat /\ i * B \in Nat
        /\ i * B + B <= i * WordBits + WordBits
    BY <1>2, WordFacts, WordBounds
  <2> DEFINE a == i * B
             b == given.count * B
             c == given.count * WordBits
  <2>2. \A j \in 0 .. (B - 1) : a + j \in 0 .. (b - 1)
    BY <1>2, WordBounds
  <2>3. b <= c /\ b \in Nat /\ c \in Nat
    <3>1. c \in Nat
      BY <1>2, <2>1
    <3> QED BY <1>2, <3>1, WordBounds
  <2>4. DOMAIN memory = 0 .. (c - 1)
    BY <1>3
  <2> HIDE DEF a, b, c
  <2>5. \A j \in 0 .. (B - 1) : a + j \in DOMAIN memory
    BY <2>2, <2>3, <2>4
  <2> QED BY <2>1, <2>5 DEF a
<1> HIDE DEF B
<1>9. ASSUME NEW k \in Phrases(given), k < i + 1
      PROVE  Holds(memory', k * B, B, OrderOf(k))
  <2>1. k \in Nat /\ k * B \in Nat
    BY <1>2, WordBounds DEF B
  <2>2. CASE k = i
    BY <1>6, <1>8, <2>2, FieldWritten
  <2>3. CASE k # i
    <3>1. k < i
      BY <1>8, <1>9, <2>1, <2>3
    <3>2. Holds(memory, k * B, B, OrderOf(k))
      BY <1>3, <3>1 DEF HoldsEntry, B
    <3>3. k * B + B <= i * B
      BY <1>8, <2>1, <3>1, MulStrict
    <3> QED BY <1>6, <1>8, <2>1, <3>2, <3>3, FieldKept
  <2> QED BY <2>2, <2>3
<1>10. ASSUME NEW k \in Phrases(given), k >= i + 1
       PROVE  Holds(memory', k * WordBits, WordBits, OrderOf(k))
  <2>1. k \in Nat /\ k * WordBits \in Nat /\ i * WordBits \in Nat /\ k >= i /\ i < k
    BY <1>2, <1>8, <1>10, WordBounds
  <2>2. Holds(memory, k * WordBits, WordBits, OrderOf(k))
    BY <1>3, <2>1 DEF HoldsWord
  <2>3. i * WordBits + WordBits <= k * WordBits
    BY <1>8, <2>1, MulStrict
  <2>4. i * B + B <= k * WordBits
    <3> DEFINE a == i * B
               b == i * WordBits
               c == k * WordBits
    <3>1. a \in Nat /\ b \in Nat /\ c \in Nat /\ a + B <= b + WordBits /\ b + WordBits <= c
      BY <1>8, <2>1, <2>3
    <3> HIDE DEF a, b, c
    <3>2. a + B <= c
      BY <1>8, <3>1
    <3> QED BY <3>2 DEF a, c
  <2> QED BY <1>6, <1>8, <2>1, <2>2, <2>4, FieldKept
<1>11. B' = B
  BY <1>1, GivenKept DEF B
<1>12. \A k \in Phrases(given) :
         /\ k < i + 1 => HoldsEntry(k, OrderOf(k))'
         /\ k >= i + 1 => HoldsWord(k, OrderOf(k))'
  BY <1>1, <1>9, <1>10, <1>11, StartsKept DEF HoldsWord, HoldsEntry, B
<1>13. Counting'
  BY <1>1 DEF Counting
<1>14. Remembered'
  <2>1. CASE i + 1 < given.count
    <3>1. i' = i + 1 /\ pc' = "pack"
      BY <1>1, <2>1
    <3> QED BY <1>1, <1>7, <1>12, <3>1 DEF Remembered, Ready
  <2>2. CASE ~(i + 1 < given.count)
    <3>1. pc' = "resize"
      BY <1>1, <2>2
    <3>2. \A k \in Phrases(given) : k < i + 1
      BY <1>2, <2>2
    <3> QED BY <1>1, <1>7, <1>12, <3>1, <3>2 DEF Remembered, Ready
  <2> QED BY <2>1, <2>2
<1> QED BY <1>4, <1>13, <1>14 DEF BuildInv

(* The words kept hold all the fields. *)
LEMMA ResizeInv == BuildInv /\ Resize => BuildInv'
<1> SUFFICES ASSUME BuildInv, Resize PROVE BuildInv'
  OBVIOUS
<1> DEFINE bits == given.count * PhraseBits
           words == (bits + WordBits - 1) \div WordBits
<1>1. /\ pc = "resize" /\ pc' = "ready"
      /\ memory' = [b \in 0 .. (words * WordBits - 1) |-> memory[b]]
      /\ given' = given /\ last' = last /\ lastPos' = lastPos /\ starts' = starts
      /\ begin' = begin /\ count' = count /\ i' = i /\ marked' = marked
  BY DEF Resize
<1>2. given \in Inputs /\ given.count \in Nat /\ given.count > 1 /\ Phrases(given) = 0 .. (given.count - 1)
  BY <1>1, LoopFacts
<1>3. \A k \in Phrases(given) : HoldsEntry(k, OrderOf(k))
  BY <1>1 DEF BuildInv, Remembered
<1>4. Typed' /\ EndsSet' /\ StartsSet' /\ Marking'
  BY <1>1, LoopKeeps DEF Ready
<1>5. bits \in Nat /\ WordBits \in Nat \ {0}
  <2>1. 0 \in Phrases(given)
    BY <1>2
  <2> QED BY <1>2, <2>1, WordFacts, WordBounds
<1>6. words * WordBits \in Nat /\ bits <= words * WordBits
  <2> HIDE DEF bits
  <2>1. bits + WordBits - 1 \in Nat
    BY <1>5
  <2>2. words \in Nat /\ bits + WordBits - 1 < words * WordBits + WordBits
    BY <1>5, <2>1, DivBounds
  <2> HIDE DEF words
  <2>3. words * WordBits \in Nat
    BY <1>5, <2>2
  <2> QED BY <1>5, <2>2, <2>3
<1>7. ASSUME NEW k \in Phrases(given) PROVE Holds(memory', k * PhraseBits, PhraseBits, OrderOf(k))
  <2> DEFINE top == words * WordBits
             a == k * PhraseBits
             B == PhraseBits
  <2>1. \A j \in 0 .. (B - 1) : a + j \in 0 .. (bits - 1)
    BY <1>2, WordBounds
  <2>2. top \in Nat /\ bits <= top
    BY <1>6
  <2>3. \A j \in 0 .. (B - 1) : memory[a + j] = << OrderOf(k), j >>
    BY <1>3 DEF HoldsEntry, Holds
  <2>4. memory' = [b \in 0 .. (top - 1) |-> memory[b]]
    BY <1>1
  <2> HIDE DEF top, a, B, bits
  <2>5. \A j \in 0 .. (B - 1) : a + j \in 0 .. (top - 1)
    BY <1>5, <2>1, <2>2
  <2>6. \A j \in 0 .. (B - 1) : a + j \in DOMAIN memory' /\ memory'[a + j] = << OrderOf(k), j >>
    BY <2>3, <2>4, <2>5
  <2> QED BY <2>6 DEF Holds, a, B
<1>8. \A k \in Phrases(given) : HoldsEntry(k, OrderOf(k))'
  BY <1>1, <1>7, GivenKept, StartsKept DEF HoldsEntry
<1>9. Counting' /\ Remembered'
  BY <1>1, <1>8 DEF Counting, Remembered, Ready
<1> QED BY <1>4, <1>9 DEF BuildInv

-----------------------------------------------------------------------------
(* Building and answering                                                  *)

(* A query changes nothing that was built. *)
LEMMA ReadyKeeps ==
  ASSUME BuildInv, pc \in Ready, pc' \in Ready, UNCHANGED << given, built >>
  PROVE  BuildInv'
<1>1. /\ given' = given /\ last' = last /\ lastPos' = lastPos /\ starts' = starts
      /\ begin' = begin /\ memory' = memory /\ count' = count /\ marked' = marked
  BY DEF built
<1>2. pc # "ends" /\ pc # "starts" /\ pc' # "ends" /\ pc' # "starts"
  BY DEF Ready
<1>3. Typed'
  BY <1>1, <1>2 DEF BuildInv, Typed, Ready
<1>4. EndsSet'
  BY <1>1, <1>2, GivenKept DEF BuildInv, EndsSet
<1>5. StartsSet'
  BY <1>1, <1>2, GivenKept DEF BuildInv, StartsSet
<1>6. Marking'
  BY <1>1, StartsKept DEF BuildInv, Marking, OnesOf, Ready
<1>7. Counting'
  BY <1>1 DEF BuildInv, Counting, Ready
<1>8. Remembered'
  BY <1>1, StartsKept, MemoryKept DEF BuildInv, Remembered, Ready
<1> QED BY <1>3, <1>4, <1>5, <1>6, <1>7, <1>8 DEF BuildInv

LEMMA BuildKeeps == BuildInv /\ UNCHANGED vars => BuildInv'
<1> SUFFICES ASSUME BuildInv, UNCHANGED vars PROVE BuildInv'
  OBVIOUS
<1>1. /\ given' = given /\ last' = last /\ lastPos' = lastPos /\ starts' = starts
      /\ begin' = begin /\ memory' = memory /\ count' = count /\ marked' = marked
      /\ i' = i /\ position' = position /\ pc' = pc
  BY DEF vars, built
<1>2. Typed' /\ EndsSet' /\ StartsSet'
  BY <1>1, GivenKept DEF BuildInv, Typed, EndsSet, StartsSet
<1>3. Marking'
  BY <1>1, StartsKept DEF BuildInv, Marking, OnesOf
<1>4. Counting'
  BY <1>1, StartsKept DEF BuildInv, Counting
<1>5. Remembered'
  BY <1>1, StartsKept, MemoryKept DEF BuildInv, Remembered
<1> QED BY <1>2, <1>3, <1>4, <1>5 DEF BuildInv

(* Of the query, all that keeps the structure as it is needs to know. *)
LEMMA QueryPlace ==
  ASSUME BuildInv, QueryInv
  PROVE  /\ AskAt \/ AskSubstr \/ Answer \/ Take => pc \in Ready /\ pc' \in Ready
         /\ AskAt \/ AskSubstr \/ Answer \/ Take => UNCHANGED << given, built >>
<1>1. AskAt \/ AskSubstr \/ Answer => pc \in Ready /\ pc' \in Ready /\ UNCHANGED << given, built >>
  BY DEF AskAt, AskSubstr, Answer, AtFollow, AtFound, CopyNothing, CopyWithin, CopyAcross,
         Called, WriteLast, SubstrDone, Ready
<1>2. Take => pc \in Ready /\ pc' \in Ready /\ UNCHANGED << given, built >>
  BY DEF Take, BuildInv, Typed, QueryInv
<1> QED BY <1>1, <1>2

LEMMA BuildStep == BuildInv /\ QueryInv /\ [Next]_vars => BuildInv'
<1>1. ASSUME BuildInv, Build PROVE BuildInv'
  BY <1>1, SetEndInv, SetStartInv, SortInv, MarkSourceInv, MarkGapInv, CountSourceInv,
     SumCountsInv, MapSourceInv, PackSourceInv, ResizeInv DEF Build
<1>2. ASSUME BuildInv, QueryInv, AskAt \/ AskSubstr \/ Answer \/ Take PROVE BuildInv'
  BY <1>2, QueryPlace, ReadyKeeps
<1> QED BY <1>1, <1>2, BuildKeeps DEF Next

(* The ones of m_source_begin are as many as the sources marked, and a     *)
(* source that starts before the place at hand is among them.              *)
LEMMA NoSourceMissedInv == BuildInv => NoSourceMissed
<1> SUFFICES ASSUME BuildInv PROVE NoSourceMissed
  OBVIOUS
<1>1. ASSUME pc = "mark"
      PROVE  /\ position = i + marked /\ Cardinality(begin) = marked
             /\ \A k \in Phrases(given) : starts[k] < i => \E j \in 0 .. (marked - 1) : Word(j) = k
  <2>1. /\ given \in Inputs /\ starts \in [Phrases(given) -> Nat]
        /\ given.count \in Nat /\ given.count > 1 /\ Phrases(given) = 0 .. (given.count - 1)
        /\ i \in Nat /\ marked \in 0 .. given.count
        /\ position = i + marked /\ begin = {OneAt[r] : r \in 0 .. (marked - 1)}
        /\ \A r \in Phrases(given) :
             /\ Word(r) = Sorted(r) /\ Sorted(r) \in Phrases(given)
             /\ r >= marked => starts[Sorted(r)] >= i
    BY <1>1, MarkFacts
  <2>2. Cardinality(begin) = marked
    <3>1. Rising(OneAt, given.count)
      BY <2>1, OnesRise
    <3> DEFINE S == 0 .. (marked - 1)
               f == [r \in S |-> OneAt[r]]
    <3>2. S \subseteq 0 .. (given.count - 1) /\ marked \in Nat
      BY <2>1
    <3>3. \A a, b \in S : a # b => OneAt[a] # OneAt[b]
      <4> SUFFICES ASSUME NEW a \in S, NEW b \in S, a # b PROVE OneAt[a] # OneAt[b]
        OBVIOUS
      <4>1. OneAt[a] \in Nat /\ OneAt[b] \in Nat
        BY <3>1, <3>2 DEF Rising
      <4>2. a < b => OneAt[a] < OneAt[b]
        BY <3>1, <3>2 DEF Rising
      <4>3. b < a => OneAt[b] < OneAt[a]
        BY <3>1, <3>2 DEF Rising
      <4> QED BY <4>1, <4>2, <4>3, <3>2
    <3>4. IsFiniteSet(S) /\ Cardinality(S) = marked
      <4>1. IsFiniteSet(0 .. (marked - 1)) /\ Cardinality(0 .. (marked - 1)) = IF 0 > marked - 1 THEN 0 ELSE (marked - 1) - 0 + 1
        BY <3>2, FS_Interval
      <4> QED BY <3>2, <4>1
    <3>5. f \in Bijection(S, begin)
      <4> HIDE DEF S
      <4>1. f \in [S -> begin] /\ \A a, b \in S : f[a] = f[b] => a = b
        BY <2>1, <3>3 DEF S
      <4>2. \A y \in begin : \E a \in S : f[a] = y
        BY <2>1 DEF S
      <4> QED BY <4>1, <4>2 DEF Bijection, Injection, Surjection, IsInjective
    <3>6. Cardinality(begin) = Cardinality(S)
      <4> HIDE DEF S, f
      <4>1. ExistsBijection(S, begin)
        BY <3>5 DEF ExistsBijection
      <4> QED BY <3>4, <4>1, FS_Bijection
    <3> QED BY <3>4, <3>6
  <2>3. ASSUME NEW k \in Phrases(given), starts[k] < i PROVE \E j \in 0 .. (marked - 1) : Word(j) = k
    <3>1. OrderOf(k) \in Phrases(given) /\ Sorted(OrderOf(k)) = k
      BY <2>1, OrderIs
    <3>2. PICK j \in Phrases(given) : Sorted(j) = k
      BY <3>1
    <3>3. ~(j >= marked)
      <4>1. starts[k] \in Nat
        BY <2>1
      <4> QED BY <2>1, <2>3, <3>2, <4>1
    <3>4. j \in 0 .. (marked - 1)
      BY <2>1, <3>3
    <3> QED BY <2>1, <3>2, <3>4
  <2> QED BY <2>1, <2>2, <2>3
<1>2. pc \in {"count", "sum", "map", "pack", "resize", "ready", "at", "substr"} => marked = given.count
  BY DEF BuildInv, Marking, Ready
<1> QED BY <1>1, <1>2 DEF NoSourceMissed

(* What a field of the map says. *)
LEMMA EntryFinds ==
  ASSUME BuildInv, NEW k \in Phrases(given), pc \in {"map", "pack", "resize"} \cup Ready
  PROVE  /\ OrderOf(k) \in Phrases(given)
         /\ Select(begin, OrderOf(k) + 1) - OrderOf(k) - 1 = Source(given, k)
<1>1. given \in Inputs /\ starts \in [Phrases(given) -> Nat] /\ begin = OnesOf(OneAt, given.count)
  BY DEF BuildInv, Typed, Marking
<1>2. starts[k] = Start(k)
  BY StartsAre DEF Ready
<1>3. /\ OrderOf(k) \in Phrases(given) /\ OrderOf(k) \in Nat
      /\ Select(begin, OrderOf(k) + 1) = starts[k] + OrderOf(k)
  BY <1>1, OneOf
<1>4. Source(given, k) \in Int /\ Start(k) = Source(given, k) + 1
  BY <1>1, PhraseFacts
<1> QED BY <1>2, <1>3, <1>4

LEMMA SourcesFoundInv == BuildInv => SourcesFound
<1> SUFFICES ASSUME BuildInv, NEW k \in Mapped
             PROVE  /\ Entry(k) \in Phrases(given)
                    /\ Select(begin, Entry(k) + 1) - Entry(k) - 1 = Source(given, k)
  BY DEF SourcesFound
<1>1. given \in Inputs /\ k \in Phrases(given) /\ pc \in {"map", "pack", "resize"} \cup Ready
  BY DEF Mapped, Ready, BuildInv, Typed
<1>2. OrderOf(k) \in Phrases(given)
  BY <1>1, EntryFinds
<1>3. Entry(k) = OrderOf(k)
  <2>1. CASE pc = "map" \/ (pc = "pack" /\ k >= i)
    <3>1. HoldsWord(k, OrderOf(k))
      BY <1>1, <2>1 DEF Mapped, BuildInv, Remembered
    <3> QED BY <1>1, <1>2, <2>1, <3>1, WordRead DEF Entry
  <2>2. CASE ~(pc = "map" \/ (pc = "pack" /\ k >= i))
    <3>1. pc = "pack" => k < i
      <4>1. given.count \in Nat /\ Phrases(given) = 0 .. (given.count - 1)
        BY <1>1, GivenFacts
      <4>2. pc = "pack" => i \in Phrases(given)
        BY DEF BuildInv, Typed
      <4> QED BY <1>1, <2>2, <4>1, <4>2
    <3>2. HoldsEntry(k, OrderOf(k))
      BY <1>1, <2>2, <3>1 DEF BuildInv, Remembered, Ready
    <3> QED BY <1>1, <1>2, <2>2, <3>2, EntryRead DEF Entry
  <2> QED BY <2>1, <2>2
<1> QED BY <1>1, <1>2, <1>3, EntryFinds

-----------------------------------------------------------------------------
(* Sequences of sequences, laid end to end.  FlattenSeq is defined by      *)
(* recursion; as induction is out of reach, each fact is shown of the      *)
(* least length it could fail for.                                         *)

IsFlat(f, s, n) == f = [k \in 1 .. n |-> IF k = 1 THEN s[k] ELSE f[k - 1] \o s[k]]

LEMMA FlatExists ==
  ASSUME NEW s, NEW n \in Nat
  PROVE  \E f : IsFlat(f, s, n)
<1> DEFINE none == {m \in Nat : ~ \E f : IsFlat(f, s, m)}
<1> SUFFICES ASSUME none # {} PROVE FALSE
  BY DEF none
<1>1. PICK m \in none : \A k \in none : m <= k
  <2>1. none \subseteq Nat
    OBVIOUS
  <2> HIDE DEF none
  <2> QED BY <2>1, LeastNatural
<1>2. m \in Nat /\ ~ \E f : IsFlat(f, s, m)
  BY <1>1
<1>3. m # 0
  <2>1. IsFlat([k \in 1 .. 0 |-> s], s, 0)
    BY DEF IsFlat
  <2> QED BY <1>2, <2>1
<1>4. m - 1 \in Nat /\ m - 1 \notin none
  <2>1. m - 1 \in Nat /\ ~(m <= m - 1)
    BY <1>2, <1>3
  <2> HIDE DEF none
  <2> QED BY <1>1, <2>1
<1>5. PICK g : IsFlat(g, s, m - 1)
  BY <1>4
<1> DEFINE f == [k \in 1 .. m |-> IF k = 1 THEN s[k] ELSE g[k - 1] \o s[k]]
<1>6. /\ m \in Nat \ {0}
      /\ \A k \in 1 .. (m - 1) : g[k] = IF k = 1 THEN s[k] ELSE g[k - 1] \o s[k]
      /\ \A k \in 1 .. m : f[k] = IF k = 1 THEN s[k] ELSE g[k - 1] \o s[k]
      /\ f = [k \in 1 .. m |-> f[k]]
  BY <1>2, <1>3, <1>5 DEF IsFlat
<1> HIDE DEF none, f
<1>7. IsFlat(f, s, m)
  <2>1. ASSUME NEW k \in 1 .. (m - 1) PROVE f[k] = g[k]
    <3>1. k \in 1 .. m
      BY <1>6
    <3> QED BY <1>6, <3>1, Zenon
  <2>2. \A k \in 1 .. m : f[k] = IF k = 1 THEN s[k] ELSE f[k - 1] \o s[k]
    <3> SUFFICES ASSUME NEW k \in 1 .. m PROVE f[k] = IF k = 1 THEN s[k] ELSE f[k - 1] \o s[k]
      OBVIOUS
    <3>1. CASE k = 1
      BY <1>6, <3>1
    <3>2. CASE k # 1
      <4>1. k - 1 \in 1 .. (m - 1)
        BY <1>6, <3>2
      <4>2. f[k - 1] = g[k - 1]
        BY <2>1, <4>1
      <4> QED BY <1>6, <3>2, <4>2
    <3> QED BY <3>1, <3>2
  <2> QED BY <1>6, <2>2 DEF IsFlat
<1> QED BY <1>2, <1>7

LEMMA FlattenIsFlat ==
  ASSUME NEW S, NEW s \in Seq(S), s # << >>
  PROVE  \E f : IsFlat(f, s, Len(s)) /\ FlattenSeq(s) = f[Len(s)]
<1>1. Len(s) \in Nat /\ Len(s) # 0
  BY EmptySeq
<1>2. \E f : IsFlat(f, s, Len(s))
  BY <1>1, FlatExists
<1> QED BY <1>1, <1>2, Zenon DEF FlattenSeq, IsFlat

(* What is laid end to end depends on what comes before only. *)
LEMMA FlatAgree ==
  ASSUME NEW s, NEW t, NEW f, NEW g, NEW l \in Nat,
         IsFlat(f, s, l + 1), IsFlat(g, t, l), \A k \in 1 .. l : s[k] = t[k]
  PROVE  \A k \in 1 .. l : f[k] = g[k]
<1> DEFINE differ == {k \in 1 .. l : f[k] # g[k]}
<1> SUFFICES ASSUME differ # {} PROVE FALSE
  BY DEF differ
<1>1. PICK k \in differ : \A j \in differ : k <= j
  <2>1. differ \subseteq Nat
    OBVIOUS
  <2> HIDE DEF differ
  <2> QED BY <2>1, LeastNatural
<1>2. k \in 1 .. l /\ f[k] # g[k]
  BY <1>1
<1>3. k # 1 => k - 1 \in 1 .. l /\ f[k - 1] = g[k - 1]
  <2>1. k # 1 => k - 1 \in 1 .. l /\ ~(k <= k - 1)
    BY <1>2
  <2> QED BY <1>1, <2>1
<1>4. /\ f[k] = IF k = 1 THEN s[k] ELSE f[k - 1] \o s[k]
      /\ g[k] = IF k = 1 THEN t[k] ELSE g[k - 1] \o t[k]
  <2>1. /\ f = [j \in 1 .. (l + 1) |-> IF j = 1 THEN s[j] ELSE f[j - 1] \o s[j]]
        /\ g = [j \in 1 .. l |-> IF j = 1 THEN t[j] ELSE g[j - 1] \o t[j]]
    BY DEF IsFlat
  <2>2. k \in 1 .. l /\ k \in 1 .. (l + 1)
    BY <1>2
  <2> HIDE DEF differ
  <2>3. f[k] = IF k = 1 THEN s[k] ELSE f[k - 1] \o s[k]
    BY <2>1, <2>2, Zenon
  <2>4. g[k] = IF k = 1 THEN t[k] ELSE g[k - 1] \o t[k]
    BY <2>1, <2>2, Zenon
  <2> QED BY <2>3, <2>4
<1> QED BY <1>2, <1>3, <1>4

LEMMA FlattenEmpty == FlattenSeq(<< >>) = << >>
BY DEF FlattenSeq

LEMMA FlattenAppend ==
  ASSUME NEW S, NEW s \in Seq(Seq(S)), NEW a \in Seq(S)
  PROVE  FlattenSeq(Append(s, a)) = FlattenSeq(s) \o a
<1> DEFINE u == Append(s, a)
           n == Len(s)
<1>1. /\ u \in Seq(Seq(S)) /\ Len(u) = n + 1 /\ u # << >> /\ n \in Nat
      /\ \A k \in 1 .. n : u[k] = s[k]
      /\ u[n + 1] = a
  <2>1. n \in Nat /\ u \in Seq(Seq(S)) /\ Len(u) = n + 1
    OBVIOUS
  <2>2. /\ \A k \in 1 .. n : u[k] = s[k]
        /\ u[n + 1] = a
    OBVIOUS
  <2>3. u # << >>
    <3> HIDE DEF u, n
    <3> QED BY <2>1, EmptySeq
  <2> QED BY <2>1, <2>2, <2>3
<1> HIDE DEF u
<1>2. PICK f : IsFlat(f, u, Len(u)) /\ FlattenSeq(u) = f[Len(u)]
  BY <1>1, FlattenIsFlat
<1>3. CASE s = << >>
  <2>1. n = 0
    BY <1>3
  <2>2. f[1] = u[1]
    BY <1>1, <1>2, <2>1 DEF IsFlat
  <2>3. FlattenSeq(u) = a
    BY <1>1, <1>2, <2>1, <2>2
  <2>4. FlattenSeq(s) \o a = a
    BY <1>3, FlattenEmpty
  <2> QED BY <2>3, <2>4 DEF u
<1>4. CASE s # << >>
  <2>1. n # 0
    BY <1>4, EmptySeq
  <2>2. PICK g : IsFlat(g, s, n) /\ FlattenSeq(s) = g[n]
    BY <1>4, FlattenIsFlat
  <2>3. f[n + 1] = f[n] \o u[n + 1]
    <3> HIDE DEF n
    <3>1. n + 1 \in 1 .. (n + 1) /\ n + 1 # 1 /\ (n + 1) - 1 = n
      BY <1>1, <2>1
    <3>2. f = [k \in 1 .. (n + 1) |-> IF k = 1 THEN u[k] ELSE f[k - 1] \o u[k]]
      BY <1>1, <1>2 DEF IsFlat
    <3> QED BY <3>1, <3>2
  <2>4. f[n] = g[n]
    <3> HIDE DEF n
    <3>1. \A k \in 1 .. n : u[k] = s[k]
      BY <1>1
    <3>2. n \in Nat /\ n \in 1 .. n
      BY <1>1, <2>1
    <3>3. IsFlat(f, u, n + 1) /\ IsFlat(g, s, n)
      BY <1>1, <1>2, <2>2
    <3>4. \A k \in 1 .. n : f[k] = g[k]
      BY <3>1, <3>2, <3>3, FlatAgree
    <3> QED BY <3>2, <3>4
  <2> QED BY <1>1, <1>2, <2>2, <2>3, <2>4 DEF u
<1> QED BY <1>3, <1>4

LEMMA FlattenOne ==
  ASSUME NEW S, NEW a \in Seq(S)
  PROVE  FlattenSeq(<< a >>) = a
<1>1. << >> \in Seq(Seq(S)) /\ Append(<< >>, a) = << a >>
  OBVIOUS
<1>2. FlattenSeq(<< a >>) = FlattenSeq(<< >>) \o a
  BY <1>1, FlattenAppend
<1> QED BY <1>2, FlattenEmpty

LEMMA FlattenType ==
  ASSUME NEW S, NEW s \in Seq(Seq(S))
  PROVE  FlattenSeq(s) \in Seq(S)
<1> DEFINE wrong == {n \in Nat : \E r \in Seq(Seq(S)) : Len(r) = n /\ FlattenSeq(r) \notin Seq(S)}
<1> SUFFICES ASSUME wrong # {} PROVE FALSE
  BY DEF wrong
<1>1. PICK n \in wrong : \A m \in wrong : n <= m
  <2>1. wrong \subseteq Nat
    OBVIOUS
  <2> HIDE DEF wrong
  <2> QED BY <2>1, LeastNatural
<1>2. PICK r \in Seq(Seq(S)) : Len(r) = n /\ FlattenSeq(r) \notin Seq(S)
  BY <1>1
<1>3. r # << >>
  <2>1. << >> \in Seq(S)
    OBVIOUS
  <2> QED BY <1>2, <2>1, FlattenEmpty
<1> DEFINE f == Front(r)
           l == Last(r)
<1>4. f \in Seq(Seq(S)) /\ l \in Seq(S) /\ r = Append(f, l) /\ Len(f) = n - 1
  BY <1>2, <1>3 DEF Front, Last
<1> HIDE DEF f, l
<1>5. FlattenSeq(f) \in Seq(S)
  <2>1. n - 1 \in Nat /\ ~(n <= n - 1)
    BY <1>2, <1>3, EmptySeq
  <2>2. n - 1 \notin wrong
    <3> HIDE DEF wrong
    <3> QED BY <1>1, <2>1
  <2> QED BY <1>4, <2>1, <2>2
<1>6. FlattenSeq(r) = FlattenSeq(f) \o l
  BY <1>4, FlattenAppend
<1> QED BY <1>2, <1>4, <1>5, <1>6

LEMMA ConcatAppend ==
  ASSUME NEW S, NEW s \in Seq(S), NEW t \in Seq(S), NEW a \in S
  PROVE  s \o Append(t, a) = Append(s \o t, a) /\ s \o t \in Seq(S)
<1>1. /\ << a >> \in Seq(S) /\ Append(t, a) = t \o << a >>
      /\ Append(s \o t, a) = (s \o t) \o << a >>
      /\ s \o t \in Seq(S)
  OBVIOUS
<1>2. (s \o t) \o << a >> = s \o (t \o << a >>)
  BY <1>1, ConcatAssociative
<1> QED BY <1>1, <1>2

LEMMA FlattenConcat ==
  ASSUME NEW S, NEW s \in Seq(Seq(S)), NEW t \in Seq(Seq(S))
  PROVE  FlattenSeq(s \o t) = FlattenSeq(s) \o FlattenSeq(t)
<1> DEFINE fails(r) == FlattenSeq(s \o r) # FlattenSeq(s) \o FlattenSeq(r)
           wrong == {n \in Nat : \E r \in Seq(Seq(S)) : Len(r) = n /\ fails(r)}
<1> SUFFICES ASSUME wrong # {} PROVE FALSE
  <2>1. Len(t) \in Nat
    OBVIOUS
  <2> QED BY <2>1, Zenon DEF wrong
<1>1. PICK n \in wrong : \A m \in wrong : n <= m
  <2>1. wrong \subseteq Nat
    OBVIOUS
  <2> HIDE DEF wrong
  <2> QED BY <2>1, LeastNatural
<1>2. PICK r \in Seq(Seq(S)) : Len(r) = n /\ fails(r)
  BY <1>1
<1>3. FlattenSeq(s) \in Seq(S)
  BY FlattenType
<1>4. r # << >>
  <2>1. s \o << >> = s
    BY ConcatEmptySeq
  <2>2. FlattenSeq(s) \o << >> = FlattenSeq(s)
    BY <1>3, ConcatEmptySeq
  <2> QED BY <1>2, <2>1, <2>2, FlattenEmpty
<1> DEFINE f == Front(r)
           l == Last(r)
<1>5. f \in Seq(Seq(S)) /\ l \in Seq(S) /\ r = Append(f, l) /\ Len(f) = n - 1
  <2> HIDE DEF fails, wrong
  <2> QED BY <1>2, <1>4 DEF Front, Last
<1> HIDE DEF f, l
<1>6. ~fails(f)
  <2>1. n - 1 \in Nat /\ ~(n <= n - 1)
    BY <1>2, <1>4, EmptySeq
  <2>2. n - 1 \notin wrong
    <3> HIDE DEF wrong
    <3> QED BY <1>1, <2>1
  <2> HIDE DEF fails
  <2> QED BY <1>5, <2>1, <2>2 DEF wrong
<1>7. s \o r = Append(s \o f, l) /\ s \o f \in Seq(Seq(S))
  <2>1. s \o Append(f, l) = Append(s \o f, l) /\ s \o f \in Seq(Seq(S))
    BY <1>5, ConcatAppend
  <2> QED BY <1>5, <2>1
<1>8. FlattenSeq(s \o r) = (FlattenSeq(s) \o FlattenSeq(f)) \o l
  <2>1. FlattenSeq(Append(s \o f, l)) = FlattenSeq(s \o f) \o l
    BY <1>5, <1>7, FlattenAppend
  <2> QED BY <1>6, <1>7, <2>1
<1>9. FlattenSeq(r) = FlattenSeq(f) \o l /\ FlattenSeq(f) \in Seq(S)
  BY <1>5, FlattenAppend, FlattenType
<1>10. (FlattenSeq(s) \o FlattenSeq(f)) \o l = FlattenSeq(s) \o (FlattenSeq(f) \o l)
  <2> DEFINE a == FlattenSeq(s)
             b == FlattenSeq(f)
  <2>1. a \in Seq(S) /\ b \in Seq(S)
    BY <1>3, <1>9
  <2> HIDE DEF a, b, fails, wrong
  <2>2. (a \o b) \o l = a \o (b \o l)
    BY SMTT(30), <1>5, <2>1, ConcatAssociative
  <2> QED BY <2>2 DEF a, b
<1> QED BY <1>2, <1>8, <1>9, <1>10

-----------------------------------------------------------------------------
(* Parts of the text                                                       *)

(* A range that lies in the text, or is empty. *)
Within(from, len) ==
  from \in Int /\ len \in Nat /\ (len > 0 => from >= 0 /\ from + len <= Length(given))

LEMMA PartIs ==
  ASSUME given \in Inputs, NEW from, NEW len, Within(from, len)
  PROVE  /\ Part(from, len) \in Seq(Nat) /\ Len(Part(from, len)) = len
         /\ \A k \in 1 .. len : Part(from, len)[k] = given.text[from + k - 1]
<1>1. from \in Int /\ len \in Nat /\ (len > 0 => from >= 0 /\ from + len <= Length(given))
  BY DEF Within
<1>2. Length(given) \in Nat /\ given.text \in [0 .. (Length(given) - 1) -> Nat]
  BY GivenFacts
<1>3. ASSUME NEW k \in 1 .. len PROVE given.text[from + k - 1] \in Nat
  <2>1. from + k - 1 \in 0 .. (Length(given) - 1)
    BY <1>1, <1>2
  <2> QED BY <1>2, <2>1
<1>4. Part(from, len) \in [1 .. len -> Nat]
  BY <1>3 DEF Part
<1>5. Part(from, len) \in Seq(Nat) /\ Len(Part(from, len)) = len
  <2> DEFINE part == Part(from, len)
  <2>1. part \in [1 .. len -> Nat]
    BY <1>4
  <2> HIDE DEF part
  <2>2. part \in Seq(Nat) /\ Len(part) = len
    BY <1>1, <2>1
  <2> QED BY <2>2 DEF part
<1> QED BY <1>5 DEF Part

LEMMA PartJoin ==
  ASSUME given \in Inputs, NEW a, NEW x, NEW y,
         Within(a, x), Within(a + x, y), Within(a, x + y)
  PROVE  Part(a, x) \o Part(a + x, y) = Part(a, x + y)
<1> DEFINE s == Part(a, x)
           t == Part(a + x, y)
           u == Part(a, x + y)
           char(k) == given.text[k]
<1>1. a \in Int /\ x \in Nat /\ y \in Nat
  BY DEF Within
<1>2. /\ s \in Seq(Nat) /\ Len(s) = x /\ \A k \in 1 .. x : s[k] = char(a + k - 1)
  BY PartIs
<1>3. /\ t \in Seq(Nat) /\ Len(t) = y /\ \A k \in 1 .. y : t[k] = char(a + x + k - 1)
  BY PartIs
<1>4. /\ u \in Seq(Nat) /\ Len(u) = x + y /\ \A k \in 1 .. (x + y) : u[k] = char(a + k - 1)
  BY PartIs
<1> HIDE DEF s, t, u, char
<1>5. /\ s \o t \in Seq(Nat) /\ Len(s \o t) = x + y
      /\ \A k \in 1 .. (x + y) : (s \o t)[k] = IF k <= x THEN s[k] ELSE t[k - x]
  <2>1. /\ s \o t \in Seq(Nat) /\ Len(s \o t) = Len(s) + Len(t)
        /\ \A k \in 1 .. Len(s) + Len(t) : (s \o t)[k] = IF k <= Len(s) THEN s[k] ELSE t[k - Len(s)]
    BY <1>2, <1>3, ConcatProperties
  <2> QED BY <1>2, <1>3, <2>1
<1>6. ASSUME NEW k \in 1 .. (x + y) PROVE (s \o t)[k] = u[k]
  <2>1. CASE k <= x
    <3>1. k \in 1 .. x
      BY <1>1, <2>1
    <3> QED BY <1>2, <1>4, <1>5, <2>1, <3>1
  <2>2. CASE ~(k <= x)
    <3>1. k - x \in 1 .. y /\ a + x + (k - x) - 1 = a + k - 1
      BY <1>1, <2>2
    <3> QED BY <1>3, <1>4, <1>5, <2>2, <3>1
  <2> QED BY <2>1, <2>2
<1>7. s \o t = u
  BY <1>4, <1>5, <1>6, SeqEqual
<1> QED BY <1>7 DEF s, t, u

(* Equal characters make equal parts. *)
LEMMA PartsEqual ==
  ASSUME given \in Inputs, NEW a, NEW b, NEW len, Within(a, len), Within(b, len),
         \A j \in 0 .. (len - 1) : given.text[a + j] = given.text[b + j]
  PROVE  Part(a, len) = Part(b, len)
<1>1. a \in Int /\ b \in Int /\ len \in Nat
  BY DEF Within
<1>2. ASSUME NEW k \in 1 .. len PROVE given.text[a + k - 1] = given.text[b + k - 1]
  <2>1. k - 1 \in 0 .. (len - 1) /\ a + (k - 1) = a + k - 1 /\ b + (k - 1) = b + k - 1
    BY <1>1
  <2> QED BY <2>1
<1> QED BY <1>2 DEF Part

LEMMA PartEmpty ==
  ASSUME NEW from
  PROVE  Part(from, 0) = << >>
BY DEF Part

LEMMA PartOne ==
  ASSUME given \in Inputs, NEW p \in 0 .. (Length(given) - 1)
  PROVE  Part(p, 1) = << given.text[p] >> /\ given.text[p] \in Nat
<1>1. Length(given) \in Nat /\ given.text \in [0 .. (Length(given) - 1) -> Nat]
  BY GivenFacts
<1>2. given.text[p] \in Nat
  BY <1>1
<1>3. Within(p, 1)
  BY <1>1 DEF Within
<1>4. /\ Part(p, 1) \in Seq(Nat) /\ Len(Part(p, 1)) = 1
      /\ \A k \in 1 .. 1 : Part(p, 1)[k] = given.text[p + k - 1]
  BY <1>3, PartIs
<1>5. Part(p, 1)[1] = given.text[p]
  <2>1. 1 \in 1 .. 1 /\ p + 1 - 1 = p
    OBVIOUS
  <2> QED BY <1>4, <2>1
<1> QED BY <1>2, <1>4, <1>5

-----------------------------------------------------------------------------
(* The text that work to be done stands for                                *)

WorkText(s) == FlattenSeq(TextsOf(s))

LEMMA TaskFacts ==
  ASSUME given \in Inputs, NEW t \in Tasks
  PROVE  /\ TextOf(t) \in Seq(Nat)
         /\ t.task \in {"copy", "last"}
         /\ t.task = "copy" => Within(t.from, t.len) /\ TextOf(t) = Part(t.from, t.len)
         /\ t.task = "last" => t.phrase \in Phrases(given) /\ TextOf(t) = << given.text[given.end[t.phrase]] >>
<1>1. CASE t \in {u \in [task : {"copy"}, from : Int, len : Nat] :
                    u.len > 0 => u.from >= 0 /\ u.from + u.len <= Length(given)}
  <2>1. t.task = "copy" /\ Within(t.from, t.len)
    BY <1>1 DEF Within
  <2>2. TextOf(t) = Part(t.from, t.len)
    BY <2>1 DEF TextOf
  <2> QED BY <2>1, <2>2, PartIs
<1>2. CASE t \in [task : {"last"}, phrase : Phrases(given)]
  <2>1. t.task = "last" /\ t.task # "copy" /\ t.phrase \in Phrases(given)
    BY <1>2
  <2>2. TextOf(t) = << given.text[given.end[t.phrase]] >>
    BY <2>1 DEF TextOf
  <2>3. given.end[t.phrase] \in 0 .. (Length(given) - 1)
    BY SMTT(30), <2>1, PhraseFacts, GivenFacts
  <2>4. given.text[given.end[t.phrase]] \in Nat
    BY <2>3, PartOne
  <2> QED BY <2>1, <2>2, <2>4
<1> QED BY <1>1, <1>2 DEF Tasks

LEMMA CopyTask ==
  ASSUME given \in Inputs, NEW from, NEW len, Within(from, len)
  PROVE  Copy(from, len) \in Tasks /\ TextOf(Copy(from, len)) = Part(from, len)
<1>1. Copy(from, len) \in Tasks
  BY DEF Copy, Tasks, Within
<1>2. TextOf(Copy(from, len)) = Part(from, len)
  BY DEF Copy, TextOf
<1> QED BY <1>1, <1>2

LEMMA LastTask ==
  ASSUME given \in Inputs, NEW k \in Phrases(given)
  PROVE  LastOf(k) \in Tasks /\ TextOf(LastOf(k)) = << given.text[given.end[k]] >>
<1>1. LastOf(k) \in Tasks
  BY DEF LastOf, Tasks
<1>2. LastOf(k).task # "copy" /\ LastOf(k).phrase = k
  BY DEF LastOf
<1>3. TextOf(LastOf(k)) = << given.text[given.end[k]] >>
  BY <1>2 DEF TextOf
<1> QED BY <1>1, <1>3

LEMMA TextsType ==
  ASSUME given \in Inputs, NEW s \in Seq(Tasks)
  PROVE  /\ TextsOf(s) \in Seq(Seq(Nat)) /\ Len(TextsOf(s)) = Len(s)
         /\ \A k \in 1 .. Len(s) : TextsOf(s)[k] = TextOf(s[k])
<1> DEFINE n == Len(s)
           u == TextsOf(s)
<1>1. n \in Nat /\ \A k \in 1 .. n : s[k] \in Tasks
  <2> HIDE DEF u
  <2> QED BY ElementOfSeq, LenProperties
<1>2. \A k \in 1 .. n : TextOf(s[k]) \in Seq(Nat)
  BY <1>1, TaskFacts
<1>3. u = [k \in 1 .. n |-> TextOf(s[k])]
  BY DEF TextsOf
<1> HIDE DEF n, u
<1>4. u \in [1 .. n -> Seq(Nat)] /\ \A k \in 1 .. n : u[k] = TextOf(s[k])
  BY <1>2, <1>3
<1>5. u \in Seq(Seq(Nat)) /\ Len(u) = n
  BY <1>1, <1>4
<1> QED BY <1>4, <1>5 DEF n, u

LEMMA TextsConcat ==
  ASSUME given \in Inputs, NEW s \in Seq(Tasks), NEW t \in Seq(Tasks)
  PROVE  TextsOf(s \o t) = TextsOf(s) \o TextsOf(t)
<1> DEFINE m == Len(s)
           n == Len(t)
           u == TextsOf(s)
           v == TextsOf(t)
           w == TextsOf(s \o t)
           c == s \o t
<1>1. /\ c \in Seq(Tasks) /\ Len(c) = m + n /\ m \in Nat /\ n \in Nat
      /\ \A k \in 1 .. (m + n) : c[k] = IF k <= m THEN s[k] ELSE t[k - m]
  <2> HIDE DEF u, v, w
  <2> QED BY ConcatProperties, LenProperties
<1>2. /\ u \in Seq(Seq(Nat)) /\ Len(u) = m /\ \A k \in 1 .. m : u[k] = TextOf(s[k])
  BY TextsType
<1>3. /\ v \in Seq(Seq(Nat)) /\ Len(v) = n /\ \A k \in 1 .. n : v[k] = TextOf(t[k])
  BY TextsType
<1>4. /\ w \in Seq(Seq(Nat)) /\ Len(w) = m + n /\ \A k \in 1 .. (m + n) : w[k] = TextOf(c[k])
  BY <1>1, TextsType
<1> HIDE DEF m, n, u, v, w, c
<1>5. /\ u \o v \in Seq(Seq(Nat)) /\ Len(u \o v) = m + n
      /\ \A k \in 1 .. (m + n) : (u \o v)[k] = IF k <= m THEN u[k] ELSE v[k - m]
  <2>1. /\ u \o v \in Seq(Seq(Nat)) /\ Len(u \o v) = Len(u) + Len(v)
        /\ \A k \in 1 .. Len(u) + Len(v) : (u \o v)[k] = IF k <= Len(u) THEN u[k] ELSE v[k - Len(u)]
    BY <1>2, <1>3, ConcatProperties
  <2> QED BY <1>2, <1>3, <2>1
<1>6. ASSUME NEW k \in 1 .. (m + n) PROVE (u \o v)[k] = w[k]
  <2>1. CASE k <= m
    <3>1. k \in 1 .. m
      BY <1>1, <2>1
    <3> QED BY <1>1, <1>2, <1>4, <1>5, <2>1, <3>1
  <2>2. CASE ~(k <= m)
    <3>1. k - m \in 1 .. n
      BY <1>1, <2>2
    <3> QED BY <1>1, <1>3, <1>4, <1>5, <2>2, <3>1
  <2> QED BY <2>1, <2>2
<1>7. u \o v = w
  BY <1>1, <1>4, <1>5, <1>6, SeqEqual
<1> QED BY <1>7 DEF u, v, w, c

LEMMA WorkConcat ==
  ASSUME given \in Inputs, NEW s \in Seq(Tasks), NEW t \in Seq(Tasks)
  PROVE  /\ WorkText(s) \in Seq(Nat) /\ s \o t \in Seq(Tasks)
         /\ WorkText(s \o t) = WorkText(s) \o WorkText(t)
<1>1. TextsOf(s) \in Seq(Seq(Nat)) /\ TextsOf(t) \in Seq(Seq(Nat))
  BY TextsType
<1>2. s \o t \in Seq(Tasks)
  BY ConcatProperties
<1> QED BY <1>1, <1>2, TextsConcat, FlattenConcat, FlattenType DEF WorkText

LEMMA WorkOne ==
  ASSUME given \in Inputs, NEW t \in Tasks
  PROVE  << t >> \in Seq(Tasks) /\ WorkText(<< t >>) = TextOf(t)
<1> DEFINE s == << t >>
           a == TextOf(t)
<1>1. s \in Seq(Tasks) /\ Len(s) = 1 /\ s[1] = t
  OBVIOUS
<1>2. a \in Seq(Nat)
  BY TaskFacts
<1>3. TextsOf(s) = << a >>
  <2>1. /\ TextsOf(s) \in Seq(Seq(Nat)) /\ Len(TextsOf(s)) = 1
        /\ \A k \in 1 .. 1 : TextsOf(s)[k] = TextOf(s[k])
    BY <1>1, TextsType
  <2>2. TextsOf(s)[1] = a
    BY <1>1, <2>1
  <2> HIDE DEF s, a
  <2> DEFINE u == TextsOf(s)
  <2>3. u \in Seq(Seq(Nat)) /\ Len(u) = 1 /\ u[1] = a
    BY <2>1, <2>2
  <2> HIDE DEF u
  <2>4. u = << a >>
    BY <2>3
  <2> QED BY <2>4 DEF u
<1> QED BY <1>1, <1>2, <1>3, FlattenOne DEF WorkText

LEMMA WorkEmpty == WorkText(<< >>) = << >>
<1>1. TextsOf(<< >>) = << >>
  BY DEF TextsOf
<1> QED BY <1>1, FlattenEmpty DEF WorkText

-----------------------------------------------------------------------------
(* What the structure built says                                           *)

LEMMA ReadyFacts ==
  ASSUME BuildInv, pc \in Ready
  PROVE  /\ given \in Inputs /\ lastPos = Ends
         /\ last = [k \in 1 .. given.count |-> given.phrase[k - 1].char]
         /\ \A k \in Phrases(given) :
              SourceStart(k) = Source(given, k) /\ PhraseStart(k) = Begin(k) /\ PhraseEnd(k) = given.end[k]
<1>1. /\ given \in Inputs /\ lastPos = Ends
      /\ last = [k \in 1 .. given.count |-> given.phrase[k - 1].char]
  BY DEF BuildInv, Typed, EndsSet, Ready
<1>2. ASSUME NEW k \in Phrases(given) PROVE SourceStart(k) = Source(given, k)
  <2>1. /\ OrderOf(k) \in Phrases(given)
        /\ Select(begin, OrderOf(k) + 1) - OrderOf(k) - 1 = Source(given, k)
    BY EntryFinds
  <2>2. HoldsEntry(k, OrderOf(k))
    BY DEF BuildInv, Remembered
  <2>3. Field(memory, k * PhraseBits, PhraseBits) = OrderOf(k)
    BY <1>1, <2>1, <2>2, EntryRead
  <2> QED BY <2>1, <2>3 DEF SourceStart
<1> QED BY <1>1, <1>2, PhraseBounds

(* m_last says what a phrase ends with. *)
LEMMA LastIs ==
  ASSUME BuildInv, pc \in Ready, NEW k \in Phrases(given)
  PROVE  /\ last[k + 1] = given.text[given.end[k]] /\ given.text[given.end[k]] \in Nat
         /\ given.end[k] \in 0 .. (Length(given) - 1)
<1>1. given \in Inputs /\ last = [l \in 1 .. given.count |-> given.phrase[l - 1].char]
  BY ReadyFacts
<1>2. /\ given.count \in Nat /\ Phrases(given) = 0 .. (given.count - 1)
      /\ given.text[given.end[k]] = given.phrase[k].char /\ given.phrase[k].char \in Nat
      /\ Length(given) \in Nat
  BY <1>1, GivenFacts
<1>3. k + 1 \in 1 .. given.count /\ (k + 1) - 1 = k
  BY <1>2
<1>4. last[k + 1] = given.phrase[k].char
  BY <1>1, <1>3
<1>5. given.end[k] \in 0 .. (Length(given) - 1)
  BY <1>1, <1>2, PhraseFacts
<1> QED BY <1>2, <1>4, <1>5

(* A range that a phrase copies is the text, and stands where it says. *)
LEMMA Copied ==
  ASSUME BuildInv, pc \in Ready, NEW k \in Phrases(given), NEW p \in Begin(k) .. given.end[k],
         NEW len \in Nat, p + len - 1 < given.end[k]
  PROVE  /\ Within(CopiedFrom(k, p), len)
         /\ \A j \in 0 .. (len - 1) : given.text[p + j] = given.text[CopiedFrom(k, p) + j]
<1> DEFINE c == CopiedFrom(k, p)
           b == Begin(k)
           e == given.end[k]
           s == Source(given, k)
           L == Length(given)
           n == given.phrase[k].len
           text(j) == given.text[j]
<1>1. given \in Inputs /\ c = s + p - b
  BY ReadyFacts DEF CopiedFrom
<1>2. /\ b \in Nat /\ e \in Nat /\ n = e - b + 1 /\ s \in Int /\ L \in Nat
      /\ n = 1 => s = -1
      /\ n > 1 => s >= 0 /\ s + n - 1 < L
  BY <1>1, PhraseFacts, GivenFacts
<1>3. \A j \in 0 .. (n - 2) : text(b + j) = text(s + j)
  BY <1>1, GivenFacts
<1>4. p \in b .. e /\ p + len - 1 < e
  OBVIOUS
<1> HIDE DEF c, b, e, s, L, n, text
<1>5. c \in Int
  BY <1>1, <1>2, <1>4
<1>6. len > 0 => c >= 0 /\ c + len <= L
  <2> SUFFICES ASSUME len > 0 PROVE c >= 0 /\ c + len <= L
    OBVIOUS
  <2>1. n > 1
    BY <1>2, <1>4
  <2>2. s \in Nat /\ s + n - 1 < L
    BY <1>2, <2>1
  <2> QED BY <1>1, <1>2, <1>4, <2>2
<1>7. ASSUME NEW j \in 0 .. (len - 1) PROVE text(p + j) = text(c + j)
  <2> DEFINE m == p + j - b
  <2>1. m \in 0 .. (n - 2) /\ b + m = p + j /\ s + m = c + j
    BY <1>1, <1>2, <1>4
  <2> HIDE DEF m
  <2>2. text(b + m) = text(s + m)
    BY <1>3, <2>1
  <2> QED BY <2>1, <2>2
<1>8. Within(c, len)
  BY <1>5, <1>6 DEF Within, L
<1> QED BY <1>7, <1>8 DEF c, text

-----------------------------------------------------------------------------
(* at                                                                      *)

LEMMA TextIs ==
  ASSUME given \in Inputs
  PROVE  /\ Part(0, Length(given)) \in Seq(Nat) /\ Len(Part(0, Length(given))) = Length(given)
         /\ Length(given) \in Nat \ {0}
         /\ \A k \in 0 .. (Length(given) - 1) : Part(0, Length(given))[k + 1] = given.text[k]
<1> DEFINE L == Length(given)
           part == Part(0, L)
<1>1. L \in Nat \ {0}
  BY GivenFacts
<1>2. Within(0, L)
  BY <1>1 DEF Within
<1>3. part \in Seq(Nat) /\ Len(part) = L /\ \A k \in 1 .. L : part[k] = given.text[0 + k - 1]
  BY <1>2, PartIs
<1> HIDE DEF L, part
<1>4. ASSUME NEW k \in 0 .. (L - 1) PROVE part[k + 1] = given.text[k]
  <2>1. k + 1 \in 1 .. L /\ 0 + (k + 1) - 1 = k
    BY <1>1
  <2> QED BY <1>3, <2>1
<1> QED BY <1>1, <1>3, <1>4 DEF L, part

LEMMA AskAtInv == BuildInv /\ QueryInv /\ AskAt => QueryInv'
<1> SUFFICES ASSUME BuildInv, QueryInv, AskAt PROVE QueryInv'
  OBVIOUS
<1>1. /\ pc = "ready" /\ request = << >> /\ pc' = "at"
      /\ given' = given /\ reply' = reply /\ todo' = todo /\ out' = out
  BY DEF AskAt
<1>2. PICK k \in 0 .. (Length(given) - 1) : request' = << AtQuery(k) >> /\ i' = k
  BY DEF AskAt
<1>3. reply = << >> /\ todo = << >> /\ out = << >>
  <2>1. \A q : << >> # << q >>
    OBVIOUS
  <2> QED BY <1>1, <2>1 DEF QueryInv
<1>4. /\ reply' = << >> /\ todo' = << >> /\ out' = << >>
      /\ \E l \in 0 .. (Length(given) - 1) :
           /\ request' = << AtQuery(l) >>
           /\ i' \in 0 .. (Length(given) - 1) /\ given.text[i'] = given.text[l]
  BY <1>1, <1>2, <1>3
<1> QED BY <1>1, <1>4 DEF QueryInv, Building

LEMMA AtFollowInv == BuildInv /\ QueryInv /\ AtFollow => QueryInv'
<1> SUFFICES ASSUME BuildInv, QueryInv, AtFollow PROVE QueryInv'
  OBVIOUS
<1> DEFINE L == Length(given)
           k == Rank(lastPos, i)
<1>1. /\ pc = "at" /\ i \notin lastPos /\ pc' = pc /\ i' = CopiedFrom(k, i) /\ pc \in Ready
      /\ given' = given /\ request' = request /\ reply' = reply /\ todo' = todo /\ out' = out
  BY DEF AtFollow, query, Ready
<1>2. given \in Inputs /\ lastPos = Ends /\ L \in Nat
  BY <1>1, ReadyFacts, GivenFacts
<1>3. PICK l \in 0 .. (L - 1) :
        /\ request = << AtQuery(l) >> /\ i \in 0 .. (L - 1) /\ given.text[i] = given.text[l]
  BY <1>1 DEF QueryInv
<1>4. k \in Phrases(given) /\ i \in Begin(k) .. given.end[k]
  BY <1>2, <1>3, InPhrase
<1> HIDE DEF k
<1>5. i + 1 - 1 < given.end[k]
  <2>1. i \in Ends <=> i = given.end[k]
    BY <1>2, <1>4, PhraseOf
  <2>2. Begin(k) \in Nat /\ given.end[k] \in Nat
    BY <1>2, <1>4, PhraseFacts
  <2> QED BY <1>1, <1>2, <1>4, <2>1, <2>2
<1>6. /\ Within(CopiedFrom(k, i), 1)
      /\ \A j \in 0 .. (1 - 1) : given.text[i + j] = given.text[CopiedFrom(k, i) + j]
  BY <1>1, <1>4, <1>5, Copied
<1>7. i' \in 0 .. (L - 1) /\ given.text[i'] = given.text[i]
  <2> DEFINE c == CopiedFrom(k, i)
  <2>1. c \in Int /\ c >= 0 /\ c + 1 <= L
    BY <1>6 DEF Within
  <2>2. given.text[i + 0] = given.text[c + 0]
    BY <1>6
  <2> HIDE DEF c
  <2>3. i + 0 = i /\ c + 0 = c
    BY <1>2, <1>3, <2>1
  <2>4. c \in 0 .. (L - 1) /\ given.text[c] = given.text[i]
    BY <1>2, <2>1, <2>2, <2>3
  <2> QED BY <1>1, <2>4 DEF c
<1>8. /\ reply' = << >> /\ todo' = << >> /\ out' = << >>
      /\ \E m \in 0 .. (L - 1) :
           /\ request' = << AtQuery(m) >>
           /\ i' \in 0 .. (L - 1) /\ given.text[i'] = given.text[m]
  BY <1>1, <1>3, <1>7 DEF QueryInv
<1> QED BY <1>1, <1>8 DEF QueryInv, Building

LEMMA AtFoundInv == BuildInv /\ QueryInv /\ AtFound => QueryInv'
<1> SUFFICES ASSUME BuildInv, QueryInv, AtFound PROVE QueryInv'
  OBVIOUS
<1> DEFINE L == Length(given)
           k == Rank(lastPos, i)
           text == Part(0, L)
<1>1. /\ pc = "at" /\ i \in lastPos /\ pc' = "ready" /\ pc \in Ready
      /\ reply' = << << last[k + 1] >> >>
      /\ given' = given /\ request' = request /\ todo' = todo /\ out' = out
  BY DEF AtFound, Ready
<1>2. given \in Inputs /\ lastPos = Ends /\ L \in Nat
  BY <1>1, ReadyFacts, GivenFacts
<1>3. PICK l \in 0 .. (L - 1) :
        /\ request = << AtQuery(l) >> /\ i \in 0 .. (L - 1) /\ given.text[i] = given.text[l]
  BY <1>1 DEF QueryInv
<1>4. k \in Phrases(given) /\ i \in Begin(k) .. given.end[k]
  BY <1>2, <1>3, InPhrase
<1> HIDE DEF k
<1>5. i = given.end[k]
  BY <1>1, <1>2, <1>4, PhraseOf
<1>6. last[k + 1] = given.text[l]
  BY <1>1, <1>3, <1>4, <1>5, LastIs
<1>7. Promise!Answer(text, AtQuery(l)) = << given.text[l] >>
  <2>1. AtQuery(l).op = "at" /\ AtQuery(l).from = l
    BY DEF AtQuery
  <2>2. text[l + 1] = given.text[l]
    BY <1>2, TextIs
  <2> QED BY <2>1, <2>2 DEF Promise!Answer
<1>8. AtQuery(l) \in Queries(L)
  BY DEF Queries
<1>9. todo' = << >>
  BY <1>1 DEF QueryInv
<1>10. \E q \in Queries(L) : request' = << q >> /\ reply' = << Promise!Answer(text, q) >>
  BY <1>1, <1>3, <1>6, <1>7, <1>8
<1>11. L' = L /\ text' = text
  BY <1>1 DEF Part
<1>12. \E q \in Queries(L)' : request' = << q >> /\ reply' = << Promise!Answer(text, q)' >>
  <2>1. Queries(L)' = Queries(L)
    BY <1>11
  <2>2. \A q : Promise!Answer(text, q)' = Promise!Answer(text, q)
    BY <1>11 DEF Promise!Answer
  <2> QED BY <1>10, <2>1, <2>2
<1> QED BY <1>1, <1>9, <1>12 DEF QueryInv, Building

-----------------------------------------------------------------------------
(* substr                                                                  *)

(* The range that a query asks for, as far as the text goes. *)
LEMMA WantedIs ==
  ASSUME given \in Inputs, NEW q \in Queries(Length(given)), q.op = "substr"
  PROVE  /\ q.from \in 0 .. Length(given) /\ q.len \in 0 .. (Length(given) + 1)
         /\ Within(q.from, Min({q.len, Length(given) - q.from}))
         /\ Wanted(q) \in Seq(Nat)
         /\ Promise!Answer(Part(0, Length(given)), q) = Wanted(q)
<1> DEFINE L == Length(given)
           f == q.from
           l == q.len
           m == Min({l, L - f})
           text == Part(0, L)
<1>1. L \in Nat \ {0}
  BY GivenFacts
<1>2. f \in 0 .. L /\ l \in 0 .. (L + 1)
  <2>1. q \in {AtQuery(k) : k \in 0 .. (L - 1)}
          \/ q \in {SubstrQuery(from, len) : from \in 0 .. L, len \in 0 .. (L + 1)}
    BY DEF Queries
  <2>2. \A k : AtQuery(k).op # "substr"
    BY DEF AtQuery
  <2>3. PICK from \in 0 .. L, len \in 0 .. (L + 1) : q = SubstrQuery(from, len)
    BY <2>1, <2>2
  <2>4. q.from = from /\ q.len = len
    BY <2>3 DEF SubstrQuery
  <2> QED BY <2>4
<1> HIDE DEF L, f, l
<1>3. m = (IF l <= L - f THEN l ELSE L - f) /\ m \in Nat /\ f + m <= L
  <2>1. l \in Int /\ L - f \in Int
    BY <1>1, <1>2
  <2>2. m = IF l <= L - f THEN l ELSE L - f
    BY <2>1, MinOfInts
  <2> HIDE DEF m
  <2> QED BY <1>1, <1>2, <2>2
<1> HIDE DEF m
<1>4. Within(f, m)
  BY <1>1, <1>2, <1>3 DEF Within, L
<1>5. /\ Part(f, m) \in Seq(Nat) /\ Len(Part(f, m)) = m
      /\ \A k \in 1 .. m : Part(f, m)[k] = given.text[f + k - 1]
  BY <1>4, PartIs
<1>6. /\ text \in Seq(Nat) /\ Len(text) = L
      /\ \A k \in 0 .. (L - 1) : text[k + 1] = given.text[k]
  BY TextIs DEF L
<1>7. Promise!Answer(text, q) = Part(f, m)
  <2> DEFINE end == IF f + l < Len(text) THEN f + l ELSE Len(text)
             s == SubSeq(text, f + 1, end)
             p == Part(f, m)
  <2> HIDE DEF text
  <2>1. Promise!Answer(text, q) = s
    <3>1. ~(q.op = "at")
      OBVIOUS
    <3> QED BY <3>1 DEF Promise!Answer, f, l
  <2>2. end = f + m /\ end \in Nat
    BY <1>1, <1>2, <1>3, <1>6
  <2> HIDE DEF end
  <2>3. \A k \in (f + 1) .. end : text[k] \in Nat
    BY <1>1, <1>2, <1>3, <1>6, <2>2
  <2>4. /\ s \in Seq(Nat) /\ Len(s) = IF f + 1 <= end THEN end - (f + 1) + 1 ELSE 0
        /\ \A k \in 1 .. end - (f + 1) + 1 : s[k] = text[(f + 1) + k - 1]
    BY <1>2, <2>2, <2>3, SubSeqProperties
  <2> HIDE DEF s
  <2>5. Len(s) = m
    BY <1>2, <1>3, <2>2, <2>4
  <2>6. ASSUME NEW k \in 1 .. m PROVE s[k] = p[k]
    <3>1. k \in 1 .. end - (f + 1) + 1 /\ (f + 1) + k - 1 = f + k /\ f + k - 1 \in 0 .. (L - 1)
          /\ (f + k - 1) + 1 = f + k
      BY <1>1, <1>2, <1>3, <2>2
    <3>2. s[k] = text[f + k]
      BY <2>4, <3>1
    <3>3. text[f + k] = given.text[f + k - 1]
      BY <1>6, <3>1
    <3> QED BY <1>5, <3>2, <3>3
  <2> HIDE DEF p
  <2>7. s = p
    BY <1>5, <2>4, <2>5, <2>6, SeqEqual DEF p
  <2> QED BY <2>1, <2>7 DEF p
<1>8. Wanted(q) = Part(f, m)
  BY DEF Wanted, f, m, l, L
<1> QED BY <1>2, <1>4, <1>5, <1>7, <1>8 DEF text, f, l, m, L

(* A step of substr keeps the invariant if what is written and what is     *)
(* still to be done make up the same text after it as before.              *)
LEMMA SubstrKeeps ==
  ASSUME QueryInv, pc = "substr", pc' = "substr",
         UNCHANGED << given, request, reply >>,
         out' \in Seq(Nat), todo' \in Seq(Tasks),
         out' \o WorkText(todo') = out \o WorkText(todo)
  PROVE  QueryInv'
<1>1. reply = << >>
  BY DEF QueryInv
<1>2. PICK q \in Queries(Length(given)) :
        q.op = "substr" /\ request = << q >> /\ out \o FlattenSeq(TextsOf(todo)) = Wanted(q)
  BY DEF QueryInv
<1>3. given' = given /\ request' = request /\ reply' = reply
  OBVIOUS
<1>4. /\ Queries(Length(given))' = Queries(Length(given)) /\ Wanted(q)' = Wanted(q) /\ Tasks' = Tasks
      /\ TextsOf(todo)' = TextsOf(todo')
  <2>1. Length(given)' = Length(given) /\ \A a, b : Part(a, b)' = Part(a, b)
    BY <1>3 DEF Part
  <2>2. TextsOf(todo)' = TextsOf(todo')
    BY <1>3, <2>1 DEF TextsOf, TextOf
  <2> QED BY <1>3, <2>1, <2>2 DEF Wanted, Tasks
<1>5. (out \o FlattenSeq(TextsOf(todo)))' = Wanted(q)
  BY <1>2, <1>4 DEF WorkText
<1>6. \E r \in Queries(Length(given))' :
        /\ r.op = "substr" /\ request' = << r >>
        /\ out' \in Seq(Nat) /\ todo' \in Seq(Tasks)'
        /\ (out \o FlattenSeq(TextsOf(todo)))' = Wanted(r)'
  BY <1>2, <1>3, <1>4, <1>5
<1> QED BY <1>1, <1>3, <1>6 DEF QueryInv, Building

LEMMA AskSubstrInv == BuildInv /\ QueryInv /\ AskSubstr => QueryInv'
<1> SUFFICES ASSUME BuildInv, QueryInv, AskSubstr PROVE QueryInv'
  OBVIOUS
<1> DEFINE L == Length(given)
<1>1. /\ pc = "ready" /\ request = << >> /\ pc' = "substr" /\ pc \in Ready
      /\ given' = given /\ reply' = reply /\ out' = out
  BY DEF AskSubstr, Ready
<1>2. PICK q \in Queries(L) :
        /\ q.op = "substr" /\ request' = << q >>
        /\ todo' = << Copy(q.from, Min({q.len, L - q.from})) >>
  BY DEF AskSubstr
<1>3. reply = << >> /\ out = << >>
  <2>1. \A r : << >> # << r >>
    OBVIOUS
  <2> QED BY <1>1, <2>1 DEF QueryInv
<1>4. given \in Inputs
  BY <1>1, ReadyFacts
<1> DEFINE t == Copy(q.from, Min({q.len, L - q.from}))
<1>5. t \in Tasks /\ TextOf(t) = Wanted(q) /\ Wanted(q) \in Seq(Nat)
  BY <1>2, <1>4, WantedIs, CopyTask DEF Wanted
<1> HIDE DEF t
<1>6. todo' \in Seq(Tasks) /\ WorkText(todo') = Wanted(q)
  BY <1>2, <1>4, <1>5, WorkOne DEF t
<1>7. << >> \o WorkText(todo') = Wanted(q)
  BY <1>5, <1>6, ConcatEmptySeq
<1>8. /\ Queries(L)' = Queries(L) /\ Wanted(q)' = Wanted(q) /\ Tasks' = Tasks
      /\ TextsOf(todo)' = TextsOf(todo')
  <2>1. L' = L /\ \A a, b : Part(a, b)' = Part(a, b)
    BY <1>1 DEF Part
  <2>2. TextsOf(todo)' = TextsOf(todo')
    BY <1>1, <2>1 DEF TextsOf, TextOf
  <2> QED BY <1>1, <2>1, <2>2 DEF Wanted, Tasks
<1>9. (out \o FlattenSeq(TextsOf(todo)))' = Wanted(q)
  BY <1>1, <1>3, <1>7, <1>8 DEF WorkText
<1>10. \E r \in Queries(L)' :
         /\ r.op = "substr" /\ request' = << r >>
         /\ out' \in Seq(Nat) /\ todo' \in Seq(Tasks)'
         /\ (out \o FlattenSeq(TextsOf(todo)))' = Wanted(r)'
  <2>1. out' \in Seq(Nat)
    BY <1>1, <1>3
  <2> QED BY <1>2, <1>6, <1>8, <1>9, <2>1
<1> QED BY <1>1, <1>3, <1>10 DEF QueryInv, Building

(* The first task, and what comes after it. *)
LEMMA SubstrFacts ==
  ASSUME BuildInv, QueryInv, pc = "substr", todo # << >>
  PROVE  /\ given \in Inputs /\ pc \in Ready /\ out \in Seq(Nat)
         /\ Head1 \in Tasks /\ TextOf(Head1) \in Seq(Nat)
         /\ Tail(todo) \in Seq(Tasks) /\ WorkText(Tail(todo)) \in Seq(Nat)
         /\ WorkText(todo) = TextOf(Head1) \o WorkText(Tail(todo))
<1>1. given \in Inputs /\ pc \in Ready
  BY ReadyFacts DEF Ready
<1>2. out \in Seq(Nat) /\ todo \in Seq(Tasks)
  BY DEF QueryInv
<1> DEFINE h == Head1
           t == Tail(todo)
<1>3. h \in Tasks /\ t \in Seq(Tasks) /\ todo = << h >> \o t
  BY <1>2 DEF Head1
<1>4. TextOf(h) \in Seq(Nat)
  BY <1>1, <1>3, TaskFacts
<1>5. << h >> \in Seq(Tasks) /\ WorkText(<< h >>) = TextOf(h)
  BY <1>1, <1>3, WorkOne
<1> HIDE DEF h, t
<1>6. /\ WorkText(<< h >> \o t) = WorkText(<< h >>) \o WorkText(t)
      /\ WorkText(t) \in Seq(Nat)
  BY <1>1, <1>3, <1>5, WorkConcat
<1> QED BY <1>1, <1>2, <1>3, <1>4, <1>5, <1>6 DEF h, t

(* A call of substr_internal gives way to work that stands for its text. *)
LEMMA CallReplaced ==
  ASSUME BuildInv, QueryInv, pc = "substr", todo # << >>, pc' = pc,
         UNCHANGED << given, request, reply, out >>,
         NEW new \in Seq(Tasks), WorkText(new) = TextOf(Head1), todo' = new \o Tail(todo)
  PROVE  QueryInv'
<1>1. /\ given \in Inputs /\ out \in Seq(Nat) /\ Tail(todo) \in Seq(Tasks)
      /\ WorkText(todo) = TextOf(Head1) \o WorkText(Tail(todo))
  BY SubstrFacts
<1>2. todo' \in Seq(Tasks) /\ WorkText(todo') = TextOf(Head1) \o WorkText(Tail(todo))
  BY <1>1, WorkConcat
<1>3. out' \o WorkText(todo') = out \o WorkText(todo) /\ out' \in Seq(Nat)
  BY <1>1, <1>2
<1> QED BY <1>2, <1>3, SubstrKeeps

LEMMA CopyNothingInv == BuildInv /\ QueryInv /\ CopyNothing => QueryInv'
<1> SUFFICES ASSUME BuildInv, QueryInv, CopyNothing PROVE QueryInv'
  OBVIOUS
<1>1. /\ pc = "substr" /\ todo # << >> /\ pc' = pc /\ Head1.task = "copy" /\ Head1.len = 0
      /\ todo' = Tail(todo) /\ UNCHANGED << given, request, reply, out >>
  BY DEF CopyNothing, Called
<1>2. given \in Inputs /\ Head1 \in Tasks /\ Tail(todo) \in Seq(Tasks)
  BY <1>1, SubstrFacts
<1>3. TextOf(Head1) = << >>
  BY <1>1, <1>2, TaskFacts, PartEmpty
<1>4. << >> \in Seq(Tasks) /\ << >> \o Tail(todo) = Tail(todo)
  BY <1>2, ConcatEmptySeq
<1> QED BY <1>1, <1>3, <1>4, WorkEmpty, CallReplaced

LEMMA WriteLastInv == BuildInv /\ QueryInv /\ WriteLast => QueryInv'
<1> SUFFICES ASSUME BuildInv, QueryInv, WriteLast PROVE QueryInv'
  OBVIOUS
<1> DEFINE k == Head1.phrase
           c == given.text[given.end[k]]
           w == WorkText(Tail(todo))
<1>1. /\ pc = "substr" /\ todo # << >> /\ pc' = pc /\ Head1.task = "last"
      /\ out' = Append(out, last[k + 1])
      /\ todo' = Tail(todo) /\ UNCHANGED << given, request, reply >>
  BY DEF WriteLast
<1>2. /\ given \in Inputs /\ pc \in Ready /\ out \in Seq(Nat) /\ Head1 \in Tasks
      /\ Tail(todo) \in Seq(Tasks) /\ w \in Seq(Nat) /\ WorkText(todo) = TextOf(Head1) \o w
  BY <1>1, SubstrFacts
<1>3. k \in Phrases(given) /\ TextOf(Head1) = << c >>
  BY <1>1, <1>2, TaskFacts
<1>4. last[k + 1] = c /\ c \in Nat
  BY <1>2, <1>3, LastIs
<1> HIDE DEF k, c, w
<1>5. out' = out \o << c >> /\ out' \in Seq(Nat) /\ << c >> \in Seq(Nat)
  BY <1>1, <1>2, <1>4, AppendIsConcat
<1>6. (out \o << c >>) \o w = out \o (<< c >> \o w)
  BY <1>2, <1>5, ConcatAssociative
<1>7. out' \o WorkText(todo') = out \o WorkText(todo)
  BY <1>1, <1>2, <1>3, <1>5, <1>6 DEF w
<1> QED BY <1>1, <1>2, <1>5, <1>7, SubstrKeeps

LEMMA SubstrDoneInv == BuildInv /\ QueryInv /\ SubstrDone => QueryInv'
<1> SUFFICES ASSUME BuildInv, QueryInv, SubstrDone PROVE QueryInv'
  OBVIOUS
<1> DEFINE L == Length(given)
           text == Part(0, L)
<1>1. /\ pc = "substr" /\ todo = << >> /\ reply' = << out >> /\ pc' = "ready" /\ pc \in Ready
      /\ given' = given /\ request' = request /\ todo' = todo
  BY DEF SubstrDone, Ready
<1>2. given \in Inputs
  BY <1>1, ReadyFacts
<1>3. PICK q \in Queries(L) :
        /\ q.op = "substr" /\ request = << q >> /\ out \in Seq(Nat)
        /\ out \o FlattenSeq(TextsOf(todo)) = Wanted(q)
  BY <1>1 DEF QueryInv
<1>4. out = Wanted(q)
  <2>1. FlattenSeq(TextsOf(todo)) = << >>
    BY <1>1, WorkEmpty DEF WorkText
  <2>2. out \o << >> = out
    BY <1>3, ConcatEmptySeq
  <2> QED BY <1>3, <2>1, <2>2
<1>5. reply' = << Promise!Answer(text, q) >>
  BY <1>1, <1>2, <1>3, <1>4, WantedIs
<1>6. \E r \in Queries(L) : request' = << r >> /\ reply' = << Promise!Answer(text, r) >>
  BY <1>1, <1>3, <1>5
<1>7. L' = L /\ text' = text
  BY <1>1 DEF Part
<1>8. \E r \in Queries(L)' : request' = << r >> /\ reply' = << Promise!Answer(text, r)' >>
  <2>1. Queries(L)' = Queries(L)
    BY <1>7
  <2>2. \A r : Promise!Answer(text, r)' = Promise!Answer(text, r)
    BY <1>7 DEF Promise!Answer
  <2> QED BY <1>6, <2>1, <2>2
<1> QED BY <1>1, <1>8 DEF QueryInv, Building

(* What a call does with a phrase stands for the part wanted of it. *)
LEMMA PartsText ==
  ASSUME BuildInv, pc \in Ready, NEW k \in Phrases(given), NEW p \in Begin(k) .. given.end[k],
         NEW len \in Nat \ {0}, p + len - 1 <= given.end[k]
  PROVE  /\ Parts(k, p, len) \in Seq(Tasks)
         /\ WorkText(Parts(k, p, len)) = Part(p, len)
<1> DEFINE c == CopiedFrom(k, p)
           e == given.end[k]
           L == Length(given)
<1>1. given \in Inputs /\ PhraseEnd(k) = e /\ e \in Nat /\ e < L /\ L \in Nat /\ Begin(k) \in Nat
  BY ReadyFacts, PhraseFacts, GivenFacts
<1>2. p \in Nat /\ p <= e /\ p + len - 1 <= e
  BY <1>1
<1>3. Within(p, len) /\ Within(p, len - 1)
  BY <1>1, <1>2 DEF Within
<1>4. CASE p + len - 1 < e
  <2>1. /\ Within(c, len) /\ \A j \in 0 .. (len - 1) : given.text[p + j] = given.text[c + j]
    BY <1>4, Copied
  <2>2. Parts(k, p, len) = << Copy(c, len) >>
    BY <1>1, <1>4 DEF Parts
  <2> HIDE DEF c
  <2>3. Part(p, len) = Part(c, len)
    BY <1>1, <1>3, <2>1, PartsEqual
  <2>4. Copy(c, len) \in Tasks /\ TextOf(Copy(c, len)) = Part(c, len)
    BY <1>1, <2>1, CopyTask
  <2> QED BY <1>1, <2>2, <2>3, <2>4, WorkOne
<1>5. CASE ~(p + len - 1 < e)
  <2> DEFINE m == len - 1
             a == << Copy(c, m) >>
             b == << LastOf(k) >>
  <2>1. m \in Nat /\ p + m - 1 < e /\ p + m = e /\ m + 1 = len
    BY <1>1, <1>2, <1>5
  <2>2. Parts(k, p, len) = << Copy(c, m), LastOf(k) >>
    BY <1>1, <1>5 DEF Parts
  <2> HIDE DEF m
  <2>3. /\ Within(c, m) /\ \A j \in 0 .. (m - 1) : given.text[p + j] = given.text[c + j]
    BY <2>1, Copied
  <2> HIDE DEF c
  <2>4. Within(p, m)
    BY <1>3 DEF m
  <2>5. Part(p, m) = Part(c, m)
    BY <1>1, <2>3, <2>4, PartsEqual
  <2>6. a \in Seq(Tasks) /\ WorkText(a) = Part(p, m)
    BY <1>1, <2>3, <2>5, CopyTask, WorkOne
  <2>7. b \in Seq(Tasks) /\ WorkText(b) = << given.text[e] >>
    BY <1>1, LastTask, WorkOne
  <2>8. Parts(k, p, len) = a \o b
    BY <2>2
  <2>9. Part(e, 1) = << given.text[e] >>
    BY <1>1, PartOne
  <2>10. Part(p, m) \o Part(e, 1) = Part(p, len)
    <3>1. Within(p + m, 1) /\ Within(p, m + 1)
      BY <1>1, <1>3, <2>1 DEF Within
    <3>2. Part(p, m) \o Part(p + m, 1) = Part(p, m + 1)
      BY <1>1, <2>4, <3>1, PartJoin
    <3> QED BY <2>1, <3>2
  <2> HIDE DEF a, b
  <2> QED BY <1>1, <2>6, <2>7, <2>8, <2>9, <2>10, WorkConcat
<1> QED BY <1>4, <1>5

(* The text of a call, and the phrases of its two ends. *)
LEMMA CallFacts ==
  ASSUME BuildInv, QueryInv, Called, Head1.len > 0
  PROVE  /\ given \in Inputs /\ pc = "substr" /\ pc \in Ready /\ todo # << >>
         /\ Head1.from \in Nat /\ Head1.len \in Nat \ {0}
         /\ Head1.from + Head1.len <= Length(given) /\ Length(given) \in Nat
         /\ TextOf(Head1) = Part(Head1.from, Head1.len)
         /\ StartPhrase \in Phrases(given) /\ EndPhrase \in Phrases(given)
         /\ Head1.from \in Begin(StartPhrase) .. given.end[StartPhrase]
         /\ Head1.from + Head1.len - 1 \in Begin(EndPhrase) .. given.end[EndPhrase]
<1>1. pc = "substr" /\ todo # << >> /\ Head1.task = "copy"
  BY DEF Called
<1>2. given \in Inputs /\ pc \in Ready /\ Head1 \in Tasks
  BY <1>1, SubstrFacts
<1> DEFINE f == Head1.from
           n == Head1.len
           L == Length(given)
<1>3. Within(f, n) /\ TextOf(Head1) = Part(f, n)
  BY <1>1, <1>2, TaskFacts
<1>4. L \in Nat /\ f \in Nat /\ n \in Nat \ {0} /\ f + n <= L
  BY <1>2, <1>3, GivenFacts DEF Within
<1>5. f \in 0 .. (L - 1) /\ f + n - 1 \in 0 .. (L - 1)
  BY <1>4
<1>6. lastPos = Ends
  BY <1>2, ReadyFacts
<1> HIDE DEF L
<1>7. StartPhrase \in Phrases(given) /\ f \in Begin(StartPhrase) .. given.end[StartPhrase]
  BY <1>2, <1>5, <1>6, InPhrase DEF StartPhrase, L
<1>8. EndPhrase \in Phrases(given) /\ f + n - 1 \in Begin(EndPhrase) .. given.end[EndPhrase]
  BY <1>2, <1>5, <1>6, InPhrase DEF EndPhrase, L
<1> QED BY <1>1, <1>2, <1>3, <1>4, <1>7, <1>8 DEF L

LEMMA CopyWithinInv == BuildInv /\ QueryInv /\ CopyWithin => QueryInv'
<1> SUFFICES ASSUME BuildInv, QueryInv, CopyWithin PROVE QueryInv'
  OBVIOUS
<1> DEFINE k == StartPhrase
           f == Head1.from
           n == Head1.len
<1>1. /\ Called /\ n > 0 /\ k = EndPhrase /\ pc' = pc
      /\ todo' = Parts(k, f, n) \o Tail(todo)
      /\ UNCHANGED << given, request, reply, out >>
  BY DEF CopyWithin
<1>2. /\ pc = "substr" /\ pc \in Ready /\ todo # << >>
      /\ n \in Nat \ {0} /\ TextOf(Head1) = Part(f, n) /\ k \in Phrases(given)
      /\ f \in Begin(k) .. given.end[k] /\ f + n - 1 \in Begin(k) .. given.end[k]
  BY <1>1, CallFacts
<1> HIDE DEF k, f, n
<1>3. f + n - 1 <= given.end[k]
  BY <1>2
<1>4. Parts(k, f, n) \in Seq(Tasks) /\ WorkText(Parts(k, f, n)) = Part(f, n)
  BY <1>2, <1>3, PartsText
<1> QED BY <1>1, <1>2, <1>4, CallReplaced

(* A call that spans several phrases divides its text among them.          *)
PieceFrom(k) == IF k = StartPhrase THEN Head1.from ELSE Begin(k)

PieceTo(k) == IF k = EndPhrase THEN Head1.from + Head1.len ELSE given.end[k] + 1

LEMMA Pieces ==
  ASSUME BuildInv, QueryInv, Called, Head1.len > 0, StartPhrase # EndPhrase
  PROVE  /\ StartPhrase \in Nat /\ EndPhrase \in Nat /\ StartPhrase < EndPhrase
         /\ PieceTo(EndPhrase) = Head1.from + Head1.len
         /\ PieceFrom(StartPhrase) = Head1.from
         /\ \A k \in StartPhrase .. EndPhrase :
              /\ PieceFrom(k) \in Nat /\ PieceTo(k) \in Nat
              /\ Head1.from <= PieceFrom(k) /\ PieceFrom(k) < PieceTo(k)
              /\ PieceTo(k) <= Head1.from + Head1.len
              /\ k # StartPhrase => PieceFrom(k) = PieceTo(k - 1)
              /\ PartOf(k) \in Seq(Tasks)
              /\ WorkText(PartOf(k)) = Part(PieceFrom(k), PieceTo(k) - PieceFrom(k))
<1> DEFINE s == StartPhrase
           e == EndPhrase
           f == Head1.from
           n == Head1.len
           to == f + n
           end(k) == given.end[k]
           first(k) == Begin(k)
<1>1. /\ given \in Inputs /\ pc \in Ready /\ f \in Nat /\ n \in Nat \ {0}
      /\ s \in Phrases(given) /\ e \in Phrases(given)
      /\ f \in first(s) .. end(s) /\ f + n - 1 \in first(e) .. end(e)
  BY CallFacts
<1>2. /\ given.count \in Nat /\ Phrases(given) = 0 .. (given.count - 1)
      /\ \A k \in Phrases(given) : first(k) = IF k = 0 THEN 0 ELSE end(k - 1) + 1
  BY <1>1, GivenFacts
<1>3. /\ \A k \in Phrases(given) : end(k) \in Nat /\ first(k) \in Nat /\ first(k) <= end(k)
      /\ \A k, l \in Phrases(given) : k < l => end(k) < end(l)
  <2>1. \A k \in Phrases(given) : end(k) \in Nat /\ first(k) \in Nat /\ first(k) <= end(k)
    BY <1>1, PhraseFacts
  <2>2. \A k, l \in Phrases(given) : k < l => end(k) < end(l)
    BY <1>1, <1>2, EndsRise DEF Rising
  <2> QED BY <2>1, <2>2
<1>4. \A k \in Phrases(given) : PhraseStart(k) = first(k) /\ PhraseEnd(k) = end(k)
  BY <1>1, ReadyFacts
<1>5. s # e
  OBVIOUS
<1>6. \A k : /\ PieceFrom(k) = IF k = s THEN f ELSE first(k)
             /\ PieceTo(k) = IF k = e THEN to ELSE end(k) + 1
  BY DEF PieceFrom, PieceTo
<1>7. \A k : PartOf(k) =
        IF k = s THEN Parts(k, f, PhraseEnd(k) - f + 1)
        ELSE IF k = e THEN Parts(k, PhraseStart(k), f + n - 1 - PhraseEnd(k - 1))
        ELSE Parts(k, PhraseStart(k), PhraseEnd(k) - PhraseEnd(k - 1))
  BY DEF PartOf
<1>8. \A k \in Phrases(given) : \A p \in first(k) .. end(k) : \A len \in Nat \ {0} :
        p + len - 1 <= end(k) =>
          Parts(k, p, len) \in Seq(Tasks) /\ WorkText(Parts(k, p, len)) = Part(p, len)
  BY <1>1, PartsText
<1> HIDE DEF s, e, f, n, end, first, to
<1>9. \A k, l \in Phrases(given) : k < l => end(k) < first(l)
  <2> SUFFICES ASSUME NEW k \in Phrases(given), NEW l \in Phrases(given), k < l PROVE end(k) < first(l)
    OBVIOUS
  <2>1. l - 1 \in Phrases(given) /\ l # 0 /\ k <= l - 1
    BY <1>2
  <2>2. first(l) = end(l - 1) + 1
    BY <1>2, <2>1
  <2>3. end(k) <= end(l - 1)
    <3>1. CASE k = l - 1
      BY <1>3, <2>1, <3>1
    <3>2. CASE k # l - 1
      <4>1. k < l - 1
        BY <1>2, <2>1, <3>2
      <4> QED BY <1>3, <2>1, <4>1
    <3> QED BY <3>1, <3>2
  <2> QED BY <1>3, <2>1, <2>2, <2>3
<1>10. s \in Nat /\ e \in Nat /\ s < e
  <2>1. s \in Nat /\ e \in Nat
    BY <1>1, <1>2
  <2>2. ~(e < s)
    <3> SUFFICES ASSUME e < s PROVE FALSE
      OBVIOUS
    <3>1. end(e) < first(s)
      BY <1>1, <1>9
    <3> QED BY <1>1, <1>3, <3>1
  <2> QED BY <1>5, <2>1, <2>2
<1>11. to \in Nat /\ to = f + n
  BY <1>1 DEF to
<1>12. ASSUME NEW k \in s .. e
       PROVE  /\ PieceFrom(k) \in Nat /\ PieceTo(k) \in Nat
              /\ f <= PieceFrom(k) /\ PieceFrom(k) < PieceTo(k) /\ PieceTo(k) <= to
              /\ k # s => PieceFrom(k) = PieceTo(k - 1)
              /\ PartOf(k) \in Seq(Tasks)
              /\ WorkText(PartOf(k)) = Part(PieceFrom(k), PieceTo(k) - PieceFrom(k))
  <2>1. k \in Phrases(given) /\ k \in Nat /\ s <= k /\ k <= e
    BY <1>1, <1>2, <1>10
  <2>2. /\ first(k) \in Nat /\ end(k) \in Nat /\ first(k) <= end(k)
        /\ first(s) \in Nat /\ end(s) \in Nat /\ first(e) \in Nat /\ end(e) \in Nat
    BY <1>1, <1>3, <2>1
  <2>3. k # s => /\ k - 1 \in Phrases(given) /\ k - 1 # e
                 /\ first(k) = end(k - 1) + 1 /\ f < first(k) /\ end(k - 1) \in Nat
                 /\ PhraseEnd(k - 1) = end(k - 1)
    <3> SUFFICES ASSUME k # s
                 PROVE  /\ k - 1 \in Phrases(given) /\ k - 1 # e
                        /\ first(k) = end(k - 1) + 1 /\ f < first(k) /\ end(k - 1) \in Nat
                        /\ PhraseEnd(k - 1) = end(k - 1)
      OBVIOUS
    <3>1. s < k /\ k # 0 /\ k - 1 \in Phrases(given) /\ k - 1 # e
      BY <1>2, <1>10, <2>1
    <3>2. end(s) < first(k)
      BY <1>1, <1>9, <2>1, <3>1
    <3>3. first(k) = end(k - 1) + 1
      BY <1>2, <2>1, <3>1
    <3> QED BY <1>1, <1>3, <1>4, <2>2, <3>1, <3>2, <3>3
  <2>4. k # e => end(k) + 1 < to
    <3> SUFFICES ASSUME k # e PROVE end(k) + 1 < to
      OBVIOUS
    <3>1. end(k) < first(e)
      BY <1>1, <1>9, <1>10, <2>1
    <3> QED BY <1>1, <1>11, <2>2, <3>1
  <2> DEFINE a == PieceFrom(k)
             b == PieceTo(k)
  <2>5. a = (IF k = s THEN f ELSE first(k)) /\ b = (IF k = e THEN to ELSE end(k) + 1)
    BY <1>6
  <2>6. k # s => PieceTo(k - 1) = end(k - 1) + 1
    BY <1>6, <2>3
  <2> HIDE DEF a, b
  <2>7. a \in Nat /\ b \in Nat /\ f <= a /\ a < b /\ b <= to /\ (k # s => a = end(k - 1) + 1)
    BY <1>1, <1>5, <1>10, <1>11, <2>1, <2>2, <2>3, <2>4, <2>5
  <2>8. a \in first(k) .. end(k) /\ b - a \in Nat \ {0} /\ a + (b - a) - 1 <= end(k)
    BY <1>1, <1>5, <1>11, <2>2, <2>3, <2>4, <2>5, <2>7
  <2>9. PartOf(k) = Parts(k, a, b - a)
    <3>1. CASE k = s
      <4>1. PartOf(k) = Parts(k, f, end(k) - f + 1)
        BY <1>4, <1>7, <2>1, <3>1
      <4>2. a = f /\ end(k) - f + 1 = b - a
        BY <1>1, <1>5, <2>2, <2>5, <3>1
      <4> QED BY <4>1, <4>2
    <3>2. CASE k # s /\ k = e
      <4>1. PartOf(k) = Parts(k, first(k), f + n - 1 - end(k - 1))
        BY <1>4, <1>7, <2>1, <2>3, <3>2
      <4>2. a = first(k) /\ f + n - 1 - end(k - 1) = b - a
        BY <1>1, <1>11, <2>2, <2>3, <2>5, <3>2
      <4> QED BY <4>1, <4>2
    <3>3. CASE k # s /\ k # e
      <4>1. PartOf(k) = Parts(k, first(k), end(k) - end(k - 1))
        BY <1>4, <1>7, <2>1, <2>3, <3>3
      <4>2. a = first(k) /\ end(k) - end(k - 1) = b - a
        BY <2>2, <2>3, <2>5, <3>3
      <4> QED BY <4>1, <4>2
    <3> QED BY <3>1, <3>2, <3>3
  <2>10. PartOf(k) \in Seq(Tasks) /\ WorkText(PartOf(k)) = Part(a, b - a)
    BY <1>8, <2>1, <2>8, <2>9
  <2> QED BY <2>6, <2>7, <2>10 DEF a, b
<1>13. PieceTo(e) = to /\ PieceFrom(s) = f
  BY <1>6
<1> QED BY <1>10, <1>12, <1>13 DEF s, e, f, n, to

LEMMA CopyAcrossInv == BuildInv /\ QueryInv /\ CopyAcross => QueryInv'
<1> SUFFICES ASSUME BuildInv, QueryInv, CopyAcross PROVE QueryInv'
  OBVIOUS
<1> DEFINE s == StartPhrase
           e == EndPhrase
           f == Head1.from
           n == e - s + 1
           to == f + Head1.len
           piece(m) == PartOf(s + m - 1)
           upTo(m) == [k \in 1 .. m |-> piece(k)]
           stop(m) == PieceTo(s + m - 1)
           done(m) == FlattenSeq(upTo(m)) \in Seq(Tasks)
                        /\ WorkText(FlattenSeq(upTo(m))) = Part(f, stop(m) - f)
<1>1. /\ Called /\ Head1.len > 0 /\ s # e /\ pc' = pc
      /\ todo' = FlattenSeq(upTo(n)) \o Tail(todo)
      /\ UNCHANGED << given, request, reply, out >>
  BY DEF CopyAcross
<1>2. /\ given \in Inputs /\ pc = "substr" /\ pc \in Ready /\ todo # << >>
      /\ f \in Nat /\ Head1.len \in Nat \ {0} /\ to <= Length(given) /\ Length(given) \in Nat
      /\ TextOf(Head1) = Part(f, Head1.len)
  BY <1>1, CallFacts
<1>3. s \in Nat /\ e \in Nat /\ s < e /\ PieceTo(e) = to /\ PieceFrom(s) = f
  BY <1>1, Pieces
<1>4. n \in Nat /\ n >= 2 /\ s + n - 1 = e
  BY <1>3
<1>5. ASSUME NEW m \in 1 .. n
      PROVE  /\ PieceFrom(s + m - 1) \in Nat /\ stop(m) \in Nat
             /\ f <= PieceFrom(s + m - 1) /\ PieceFrom(s + m - 1) < stop(m) /\ stop(m) <= to
             /\ m # 1 => PieceFrom(s + m - 1) = stop(m - 1)
             /\ m = 1 => PieceFrom(s + m - 1) = f
             /\ piece(m) \in Seq(Tasks)
             /\ WorkText(piece(m)) = Part(PieceFrom(s + m - 1), stop(m) - PieceFrom(s + m - 1))
  <2> DEFINE k == s + m - 1
  <2>1. k \in s .. e /\ (m = 1 => k = s) /\ (m # 1 => k # s /\ k - 1 = s + (m - 1) - 1)
    BY <1>3, <1>4
  <2>2. /\ PieceFrom(k) \in Nat /\ PieceTo(k) \in Nat
        /\ f <= PieceFrom(k) /\ PieceFrom(k) < PieceTo(k) /\ PieceTo(k) <= to
        /\ k # s => PieceFrom(k) = PieceTo(k - 1)
        /\ PartOf(k) \in Seq(Tasks)
        /\ WorkText(PartOf(k)) = Part(PieceFrom(k), PieceTo(k) - PieceFrom(k))
    BY <1>1, <2>1, Pieces
  <2>3. m # 1 => PieceFrom(k) = PieceTo(s + (m - 1) - 1)
    <3> HIDE DEF k, s
    <3> QED BY <2>1, <2>2
  <2>4. m = 1 => PieceFrom(k) = f
    <3> HIDE DEF k, s
    <3> QED BY <1>3, <2>1
  <2> QED BY <2>2, <2>3, <2>4
<1> HIDE DEF s, e, f, n, to, piece, stop
<1>6. ASSUME NEW m \in 1 .. n
      PROVE  upTo(m) \in Seq(Seq(Tasks)) /\ Len(upTo(m)) = m /\ \A k \in 1 .. m : upTo(m)[k] = piece(k)
  <2>1. m \in Nat /\ \A k \in 1 .. m : piece(k) \in Seq(Tasks)
    BY <1>4, <1>5
  <2> DEFINE u == upTo(m)
  <2>2. u \in [1 .. m -> Seq(Tasks)] /\ \A k \in 1 .. m : u[k] = piece(k)
    BY <2>1
  <2> HIDE DEF u
  <2>3. u \in Seq(Seq(Tasks)) /\ Len(u) = m
    BY <2>1, <2>2
  <2> QED BY <2>2, <2>3 DEF u
<1>7. ASSUME NEW m \in 1 .. n, m # 1 => done(m - 1) PROVE done(m)
  <2> DEFINE a == PieceFrom(s + m - 1)
             p == piece(m)
             b == stop(m)
  <2>1. /\ a \in Nat /\ b \in Nat /\ f <= a /\ a < b /\ b <= to
        /\ m # 1 => a = stop(m - 1)
        /\ m = 1 => a = f
        /\ p \in Seq(Tasks) /\ WorkText(p) = Part(a, b - a)
    BY <1>5
  <2> HIDE DEF a
  <2>2. CASE m = 1
    <3>1. upTo(m) = << p >>
      <4> DEFINE u == upTo(m)
      <4>1. u \in Seq(Seq(Tasks)) /\ Len(u) = 1 /\ u[1] = p
        <5> HIDE DEF upTo
        <5>1. u \in Seq(Seq(Tasks)) /\ Len(u) = m /\ \A k \in 1 .. m : u[k] = piece(k)
          BY <1>6
        <5> HIDE DEF u, p
        <5>2. m \in 1 .. m
          BY <2>2
        <5>3. u[m] = piece(m)
          BY <5>1, <5>2
        <5> QED BY <2>2, <5>1, <5>3 DEF p
      <4> HIDE DEF u, p
      <4>2. u = << p >>
        BY <4>1
      <4> QED BY <4>2 DEF u
    <3>2. FlattenSeq(upTo(m)) = p
      <4> HIDE DEF p, upTo
      <4> QED BY <2>1, <3>1, FlattenOne
    <3> HIDE DEF upTo, p
    <3> QED BY <2>1, <2>2, <3>2
  <2>3. CASE m # 1
    <3> DEFINE l == m - 1
               before == FlattenSeq(upTo(l))
    <3>1. l \in 1 .. n /\ l \in Nat /\ m = l + 1
      BY <1>4, <2>3
    <3>2. before \in Seq(Tasks) /\ WorkText(before) = Part(f, a - f)
      BY <2>1, <2>3, <1>7
    <3>3. upTo(m) = Append(upTo(l), p)
      <4> DEFINE u == upTo(l)
                 v == upTo(m)
                 w == Append(u, p)
      <4>1. u \in Seq(Seq(Tasks)) /\ Len(u) = l /\ \A k \in 1 .. l : u[k] = piece(k)
        BY <1>6, <3>1
      <4>2. v \in Seq(Seq(Tasks)) /\ Len(v) = l + 1 /\ \A k \in 1 .. (l + 1) : v[k] = piece(k)
        BY <1>6, <3>1
      <4> HIDE DEF u, v, l
      <4>3. /\ w \in Seq(Seq(Tasks)) /\ Len(w) = l + 1 /\ w[l + 1] = p
            /\ \A k \in 1 .. l : w[k] = u[k]
        <5>1. /\ w \in Seq(Seq(Tasks)) /\ Len(w) = Len(u) + 1 /\ w[Len(u) + 1] = p
              /\ \A k \in 1 .. Len(u) : w[k] = u[k]
          <6> HIDE DEF p
          <6> QED BY <2>1, <4>1, AppendProperties
        <5> QED BY <4>1, <5>1
      <4> HIDE DEF w
      <4>4. ASSUME NEW k \in 1 .. (l + 1) PROVE v[k] = w[k]
        <5>1. CASE k = l + 1
          BY <3>1, <4>2, <4>3, <5>1
        <5>2. CASE k # l + 1
          <6>1. k \in 1 .. l
            BY <3>1, <5>2
          <6> QED BY <4>1, <4>2, <4>3, <6>1
        <5> QED BY <5>1, <5>2
      <4>5. v = w
        BY <4>2, <4>3, <4>4, SeqEqual
      <4> QED BY <4>5 DEF u, v, w, l
    <3>4. FlattenSeq(upTo(m)) = before \o p
      <4>1. upTo(l) \in Seq(Seq(Tasks))
        BY <1>6, <3>1
      <4> HIDE DEF p, l
      <4>2. FlattenSeq(Append(upTo(l), p)) = FlattenSeq(upTo(l)) \o p
        <5> HIDE DEF upTo
        <5> QED BY <2>1, <4>1, FlattenAppend
      <4> HIDE DEF upTo
      <4> QED BY <3>3, <4>2
    <3>5. Part(f, a - f) \o Part(a, b - a) = Part(f, b - f)
      <4> DEFINE x == a - f
                 y == b - a
      <4>1. x \in Nat /\ y \in Nat /\ f + x = a /\ x + y = b - f
        BY <1>2, <2>1
      <4> HIDE DEF x, y
      <4>2. Within(f, x) /\ Within(f + x, y) /\ Within(f, x + y)
        <5> DEFINE L == Length(given)
        <5>1. L \in Nat /\ to \in Nat /\ f \in Nat /\ a \in Nat /\ b \in Nat /\ b <= to /\ to <= L
          BY <1>2, <2>1 DEF to
        <5> HIDE DEF L
        <5>2. f + x <= L /\ (f + x) + y <= L /\ f + (x + y) <= L /\ f + x >= 0 /\ x + y \in Nat
          BY <4>1, <5>1
        <5>3. f \in Int /\ f + x \in Int /\ f >= 0
          BY <4>1, <5>1
        <5> QED BY <4>1, <5>2, <5>3 DEF Within, L
      <4>3. Part(f, x) \o Part(f + x, y) = Part(f, x + y)
        BY <1>2, <4>2, PartJoin
      <4> QED BY <4>1, <4>3 DEF x, y
    <3> HIDE DEF before, p, upTo
    <3>6. before \o p \in Seq(Tasks) /\ WorkText(before \o p) = WorkText(before) \o WorkText(p)
      BY <1>2, <2>1, <3>2, WorkConcat
    <3> QED BY <2>1, <3>2, <3>4, <3>5, <3>6
  <2> QED BY <2>2, <2>3
<1> HIDE DEF upTo, done
<1>8. done(n)
  <2> DEFINE wrong == {m \in 1 .. n : ~done(m)}
  <2> SUFFICES ASSUME wrong # {} PROVE FALSE
    BY <1>4 DEF wrong
  <2>1. PICK m \in wrong : \A l \in wrong : m <= l
    <3>1. wrong \subseteq Nat
      BY <1>4
    <3> HIDE DEF wrong
    <3> QED BY <3>1, LeastNatural
  <2>2. m \in 1 .. n /\ ~done(m)
    BY <2>1
  <2>3. m # 1 => done(m - 1)
    <3> SUFFICES ASSUME m # 1 PROVE done(m - 1)
      OBVIOUS
    <3>1. m - 1 \in 1 .. n /\ ~(m <= m - 1)
      BY <1>4, <2>2
    <3>2. m - 1 \notin wrong
      BY <2>1, <3>1
    <3> QED BY <3>1, <3>2
  <2> QED BY <1>7, <2>2, <2>3
<1>9. FlattenSeq(upTo(n)) \in Seq(Tasks) /\ WorkText(FlattenSeq(upTo(n))) = TextOf(Head1)
  <2>1. stop(n) = to
    BY <1>3, <1>4 DEF stop
  <2>2. to - f = Head1.len
    BY <1>2 DEF to
  <2> QED BY <1>2, <1>8, <2>1, <2>2 DEF done
<1> QED BY <1>1, <1>2, <1>9, CallReplaced

-----------------------------------------------------------------------------
(* The invariant                                                           *)

LEMMA StartsQuiet == Init => QueryInv
<1>1. Init => pc = "ends" /\ request = << >> /\ reply = << >> /\ todo = << >> /\ out = << >>
  BY DEF Init
<1> QED BY <1>1 DEF QueryInv

(* Nobody asks while the structure is built. *)
LEMMA BuildQuiet == BuildInv /\ QueryInv /\ Build => QueryInv'
<1>1. Build => pc \in Building /\ pc' \in Building \cup {"ready"} /\ query' = query
  <2>1. SetEnd \/ SetStart \/ Sort \/ MarkSource \/ MarkGap
          => pc \in Building /\ pc' \in Building \cup {"ready"} /\ query' = query
    BY DEF SetEnd, SetStart, Sort, MarkSource, MarkGap, Advance, Building, query
  <2>2. CountSource \/ SumCounts \/ MapSource \/ PackSource \/ Resize
          => pc \in Building /\ pc' \in Building \cup {"ready"} /\ query' = query
    BY DEF CountSource, SumCounts, MapSource, PackSource, Resize, Advance, Building, query
  <2> QED BY <2>1, <2>2 DEF Build
<1>2. ASSUME QueryInv, pc \in Building, pc' \in Building \cup {"ready"}, query' = query PROVE QueryInv'
  <2>1. request' = << >> /\ reply' = << >> /\ todo' = << >> /\ out' = << >>
    BY <1>2 DEF QueryInv, query
  <2>2. pc' # "at" /\ pc' # "substr"
    BY <1>2 DEF Building
  <2> QED BY <2>1, <2>2 DEF QueryInv
<1> QED BY <1>1, <1>2

(* Only an answer is there to take. *)
LEMMA TakeInv == BuildInv /\ QueryInv /\ Take => QueryInv'
<1> SUFFICES ASSUME BuildInv, QueryInv, Take PROVE QueryInv'
  OBVIOUS
<1>1. /\ reply # << >> /\ request' = << >> /\ reply' = << >> /\ out' = << >> /\ todo' = todo /\ pc' = pc
  BY DEF Take
<1>2. pc = "ready" /\ todo = << >>
  BY <1>1 DEF QueryInv, BuildInv, Typed, Ready
<1> QED BY <1>1, <1>2 DEF QueryInv, Building

LEMMA QueryKept == QueryInv /\ UNCHANGED vars => QueryInv'
<1> SUFFICES ASSUME QueryInv, UNCHANGED vars PROVE QueryInv'
  OBVIOUS
<1>1. given' = given /\ i' = i /\ pc' = pc /\ request' = request /\ reply' = reply /\ todo' = todo /\ out' = out
  BY DEF vars, query
<1>2. /\ Length(given)' = Length(given) /\ Queries(Length(given))' = Queries(Length(given))
      /\ Tasks' = Tasks /\ Part(0, Length(given))' = Part(0, Length(given))
      /\ \A q : Wanted(q)' = Wanted(q)
      /\ \A q : Promise!Answer(Part(0, Length(given)), q)' = Promise!Answer(Part(0, Length(given)), q)
  BY <1>1 DEF Part, Tasks, Wanted, Promise!Answer
<1>3. TextsOf(todo)' = TextsOf(todo)
  BY <1>1 DEF TextsOf, TextOf, Part
<1>4. FlattenSeq(TextsOf(todo))' = FlattenSeq(TextsOf(todo))
  BY <1>3
<1>5. (pc = "ready" => /\ todo = << >>
                       /\ \/ request = << >> /\ reply = << >> /\ out = << >>
                          \/ \E q \in Queries(Length(given)) :
                               request = << q >> /\ reply = << Promise!Answer(Part(0, Length(given)), q) >>)'
  BY <1>1, <1>2 DEF QueryInv
<1>6. (pc = "substr" =>
         /\ reply = << >>
         /\ \E q \in Queries(Length(given)) :
              /\ q.op = "substr" /\ request = << q >>
              /\ out \in Seq(Nat) /\ todo \in Seq(Tasks)
              /\ out \o FlattenSeq(TextsOf(todo)) = Wanted(q))'
  BY <1>1, <1>2, <1>4 DEF QueryInv
<1>7. (/\ pc \in Building => request = << >> /\ reply = << >> /\ todo = << >> /\ out = << >>
       /\ pc = "at" =>
            /\ reply = << >> /\ todo = << >> /\ out = << >>
            /\ \E k \in 0 .. (Length(given) - 1) :
                 /\ request = << AtQuery(k) >>
                 /\ i \in 0 .. (Length(given) - 1) /\ given.text[i] = given.text[k])'
  BY <1>1 DEF QueryInv
<1> QED BY <1>5, <1>6, <1>7 DEF QueryInv

LEMMA QueryStep == BuildInv /\ QueryInv /\ [Next]_vars => QueryInv'
<1>1. BuildInv /\ QueryInv /\ Answer => QueryInv'
  BY AtFollowInv, AtFoundInv, CopyNothingInv, CopyWithinInv, CopyAcrossInv, WriteLastInv, SubstrDoneInv
     DEF Answer
<1> QED BY <1>1, BuildQuiet, AskAtInv, AskSubstrInv, TakeInv, QueryKept DEF Next

(* While it is built, the structure says what build_aux_ds has come to;    *)
(* once it is built it stays, and each query is on its way to its answer.  *)
THEOREM Invariance == Spec => []Inv
<1>1. Init => Inv
  BY InitInv, StartsQuiet DEF Inv
<1>2. Inv /\ [Next]_vars => Inv'
  BY BuildStep, QueryStep DEF Inv
<1> QED BY <1>1, <1>2, PTL DEF Spec

(* build_aux_ds passes over no source while it writes m_source_begin.      *)
THEOREM MarkingCorrectness == Spec => []NoSourceMissed
<1>1. Inv => NoSourceMissed
  BY NoSourceMissedInv DEF Inv
<1> QED BY <1>1, Invariance, PTL

(* Each entry of m_source_map leads to the source of its phrase, while the *)
(* map is filled, while it is packed into its own memory, and ever after.  *)
THEOREM MapCorrectness == Spec => []SourcesFound
<1>1. Inv => SourcesFound
  BY SourcesFoundInv DEF Inv
<1> QED BY <1>1, Invariance, PTL

(* What substr_internal has written and what its calls have still to do    *)
(* make up the range asked for.                                            *)
THEOREM WorkCorrectness == Spec => []WorkFollowsText
<1>1. Inv => WorkFollowsText
  <2> SUFFICES ASSUME Inv, pc = "substr"
               PROVE  out \o FlattenSeq([k \in 1 .. Len(todo) |->
                                IF todo[k].task = "copy" THEN Part(todo[k].from, todo[k].len)
                                ELSE << given.text[given.end[todo[k].phrase]] >>])
                        = Part(request[1].from, Min({request[1].len, Length(given) - request[1].from}))
    BY DEF WorkFollowsText
  <2>1. PICK q \in Queries(Length(given)) :
          request = << q >> /\ out \o FlattenSeq(TextsOf(todo)) = Wanted(q)
    BY DEF Inv, QueryInv
  <2>2. request[1] = q
    BY <2>1
  <2> QED BY <2>1, <2>2 DEF TextsOf, TextOf, Wanted
<1> QED BY <1>1, Invariance, PTL

-----------------------------------------------------------------------------
(* The promise of random access                                            *)

LEMMA PromiseInit == Init => Promise!Init
<1> SUFFICES ASSUME Init PROVE Promise!Init
  OBVIOUS
<1>1. given \in Inputs /\ request = << >> /\ reply = << >>
  BY DEF Init
<1> QED BY <1>1, TextIs DEF Promise!Init

(* A query is asked about places of the text. *)
LEMMA AskPromised ==
  ASSUME given \in Inputs, request = << >>, NEW q \in Queries(Length(given)),
         request' = << q >>, UNCHANGED << given, reply >>
  PROVE  Promise!Ask
<1>1. q \in QueriesOf(Part(0, Length(given)))
  BY TextIs DEF QueriesOf
<1>2. Part(0, Length(given))' = Part(0, Length(given))
  BY DEF Part
<1> QED BY <1>1, <1>2 DEF Promise!Ask

(* An answer is the one promised. *)
LEMMA AnswerPromised ==
  ASSUME QueryInv', pc \in {"at", "substr"}, QueryInv, pc' = "ready", reply' # << >>,
         UNCHANGED << given, request >>
  PROVE  Promise!Respond
<1> DEFINE text == Part(0, Length(given))
<1>1. reply = << >> /\ request # << >>
  BY DEF QueryInv
<1>2. text' = text /\ \A q : Promise!Answer(text, q)' = Promise!Answer(text, q)
  BY DEF Part, Promise!Answer
<1>3. \E q : request' = << q >> /\ reply' = << Promise!Answer(text, q)' >>
  BY DEF QueryInv
<1>4. PICK q : request' = << q >> /\ reply' = << Promise!Answer(text, q) >>
  BY <1>2, <1>3
<1>5. request[1] = q /\ request' = request
  BY <1>4
<1> QED BY <1>1, <1>2, <1>4, <1>5 DEF Promise!Respond

LEMMA PromiseStep ==
  ASSUME Inv, Inv', [Next]_vars
  PROVE  [Promise!Next]_Promise!vars
<1>1. given' = given => Part(0, Length(given))' = Part(0, Length(given))
  BY DEF Part
<1>2. BuildInv /\ QueryInv /\ QueryInv' /\ given \in Inputs
  BY DEF Inv, BuildInv, Typed
<1>3. ASSUME UNCHANGED << given, request, reply >> PROVE [Promise!Next]_Promise!vars
  BY <1>1, <1>3 DEF Promise!vars
<1>4. CASE Build
  <2>1. UNCHANGED << given, request, reply >>
    BY <1>4 DEF Build, SetEnd, SetStart, Sort, MarkSource, MarkGap, CountSource, SumCounts, MapSource,
                PackSource, Resize, query
  <2> QED BY <1>3, <2>1
<1>5. CASE AskAt
  <2>1. PICK k \in 0 .. (Length(given) - 1) : request' = << AtQuery(k) >>
    BY <1>5 DEF AskAt
  <2>2. AtQuery(k) \in Queries(Length(given))
    BY DEF Queries
  <2>3. request = << >> /\ UNCHANGED << given, reply >>
    BY <1>5 DEF AskAt
  <2> QED BY <1>2, <2>1, <2>2, <2>3, AskPromised DEF Promise!Next
<1>6. CASE AskSubstr
  <2>1. PICK q \in Queries(Length(given)) : request' = << q >>
    BY <1>6 DEF AskSubstr
  <2>2. request = << >> /\ UNCHANGED << given, reply >>
    BY <1>6 DEF AskSubstr
  <2> QED BY <1>2, <2>1, <2>2, AskPromised DEF Promise!Next
<1>7. CASE AtFound \/ SubstrDone
  <2>1. /\ pc \in {"at", "substr"} /\ pc' = "ready" /\ reply' # << >>
        /\ UNCHANGED << given, request >>
    BY <1>7 DEF AtFound, SubstrDone
  <2> QED BY <1>2, <2>1, AnswerPromised DEF Promise!Next
<1>8. CASE AtFollow \/ CopyNothing \/ CopyWithin \/ CopyAcross \/ WriteLast
  <2>1. UNCHANGED << given, request, reply >>
    BY <1>8 DEF AtFollow, CopyNothing, CopyWithin, CopyAcross, WriteLast, query
  <2> QED BY <1>3, <2>1
<1>9. CASE Take
  <2>1. Promise!Take
    BY <1>1, <1>9 DEF Take, Promise!Take
  <2> QED BY <2>1 DEF Promise!Next
<1>10. CASE UNCHANGED vars
  <2>1. UNCHANGED << given, request, reply >>
    BY <1>10 DEF vars, query
  <2> QED BY <1>3, <2>1
<1> QED BY <1>4, <1>5, <1>6, <1>7, <1>8, <1>9, <1>10 DEF Next, Answer

(* LzEnd implements RandomAccess as far as safety goes: at answers with    *)
(* the character asked for, and substr with the range asked for up to the  *)
(* end of the text, whatever the parsing and the queries.                  *)
THEOREM PromiseSafety == Spec => Promise!Init /\ [][Promise!Next]_Promise!vars
<1>1. ASSUME Inv, Inv', [Next]_vars PROVE [Promise!Next]_Promise!vars
  BY <1>1, PromiseStep
<1> QED BY <1>1, Invariance, PromiseInit, PTL DEF Spec
=============================================================================
