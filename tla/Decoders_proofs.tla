--------------------------- MODULE Decoders_proofs ---------------------------
(***************************************************************************)
(* Proofs about the BitIStream and the two decoders, for every size of     *)
(* bytes and of integers and for all contents of files.  Whatever was read *)
(* before and in whichever way, the buffers hold the bytes around the      *)
(* place in the file; so the decoders find the rules and the phrases that  *)
(* the encoders wrote.                                                     *)
(***************************************************************************)
EXTENDS Decoders, Grammars_proofs

-----------------------------------------------------------------------------
(* Numbers *)

(* Induction: a set of natural numbers that does not lack a number without *)
(* lacking a smaller one lacks none.                                       *)
LEMMA NoLeast ==
  ASSUME NEW bad, bad \subseteq Nat, \A n \in bad : n # 0 /\ n - 1 \in bad
  PROVE  bad = {}
<1> SUFFICES ASSUME bad # {} PROVE FALSE
  OBVIOUS
<1>1. PICK m \in bad : \A n \in bad : m <= n
  BY LeastNatural
<1>2. m - 1 \in bad /\ m \in Nat
  OBVIOUS
<1>3. m <= m - 1
  BY <1>1, <1>2
<1> QED BY <1>2, <1>3

LEMMA MulStrict ==
  ASSUME NEW a \in Nat, NEW b \in Nat, NEW s \in Nat \ {0}, a < b
  PROVE  a * s \in Nat /\ a * s + s <= b * s
<1>1. (a + 1) * s = a * s + s
  OBVIOUS
<1>2. PICK d \in Nat : b = (a + 1) + d
  <2>1. b - (a + 1) \in Nat /\ b = (a + 1) + (b - (a + 1))
    OBVIOUS
  <2> QED BY <2>1
<1>3. b * s = (a + 1) * s + d * s /\ d * s >= 0
  BY <1>2
<1>4. a * s \in Nat
  OBVIOUS
<1> QED BY <1>1, <1>3, <1>4

LEMMA DivBounds ==
  ASSUME NEW x \in Nat, NEW s \in Nat \ {0}
  PROVE  /\ x \div s \in Nat /\ (x \div s) * s <= x /\ x < (x \div s) * s + s
         /\ x % s = x - (x \div s) * s /\ x % s \in 0 .. (s - 1)
OBVIOUS

LEMMA DivMod ==
  ASSUME NEW b \in Nat, NEW s \in Nat \ {0}, NEW j \in 0 .. (s - 1)
  PROVE  (b * s + j) \div s = b /\ (b * s + j) % s = j
<1> DEFINE x == b * s + j
           q == x \div s
<1>1. b * s \in Nat /\ x \in Nat
  OBVIOUS
<1>2. q \in Nat /\ q * s <= x /\ x < q * s + s /\ x % s = x - q * s
  BY <1>1, DivBounds
<1>3. b * s <= x /\ x < b * s + s
  BY <1>1
<1> HIDE DEF q
<1>4. q = b
  <2>1. CASE q < b
    BY <1>1, <1>2, <1>3, <2>1, MulStrict
  <2>2. CASE b < q
    BY <1>1, <1>2, <1>3, <2>2, MulStrict
  <2> QED BY <1>2, <2>1, <2>2
<1>5. x % s = x - b * s
  BY <1>2, <1>4
<1>6. x % s = j
  BY <1>1, <1>5
<1> QED BY <1>4, <1>6 DEF q

(* Powers of two *)

LEMMA PowType ==
  ASSUME NEW n \in 0 .. LongestInt
  PROVE  2^n \in Nat \ {0}
<1> DEFINE bad == {m \in 0 .. LongestInt : 2^m \notin Nat \ {0}}
<1>1. ASSUME NEW m \in bad PROVE m # 0 /\ m - 1 \in bad
  <2>1. m \in 0 .. LongestInt /\ 2^m \notin Nat \ {0}
    OBVIOUS
  <2>2. m # 0
    <3>1. 2^0 = 1
      BY PowersAssumption
    <3>2. CASE m = 0
      <4>1. 2^m = 1
        BY <3>1, <3>2, Zenon
      <4> QED BY <2>1, <4>1
    <3> QED BY <3>2
  <2>3. m - 1 \in 0 .. (LongestInt - 1) /\ (m - 1) + 1 = m /\ m - 1 \in 0 .. LongestInt
    BY <2>1, <2>2, TrailerAssumption
  <2>4. 2^m = 2 * 2^(m - 1)
    BY <2>3, PowersAssumption
  <2>5. ~(2^(m - 1) \in Nat \ {0})
    BY <2>1, <2>4
  <2> QED BY <2>2, <2>3, <2>5
<1>2. bad \subseteq Nat
  OBVIOUS
<1> HIDE DEF bad
<1>3. bad = {}
  BY <1>1, <1>2, NoLeast
<1> QED BY <1>3 DEF bad

LEMMA PowSum ==
  ASSUME NEW a \in Nat, NEW b \in Nat, a + b <= LongestInt
  PROVE  2^(a + b) = 2^a * 2^b
<1> DEFINE bad == {c \in 0 .. b : 2^(a + c) # 2^a * 2^c}
<1>1. 2^a \in Nat \ {0}
  BY PowType, TrailerAssumption
<1>2. ASSUME NEW m \in bad PROVE m # 0 /\ m - 1 \in bad
  <2>1. m \in 0 .. b /\ 2^(a + m) # 2^a * 2^m
    OBVIOUS
  <2>2. m # 0
    <3>1. a + 0 = a /\ 2^a * 1 = 2^a
      BY <1>1
    <3> QED BY <2>1, <3>1, PowersAssumption
  <2>3. /\ m - 1 \in 0 .. (LongestInt - 1) /\ (m - 1) + 1 = m /\ m - 1 \in 0 .. b
        /\ a + (m - 1) \in 0 .. (LongestInt - 1) /\ (a + (m - 1)) + 1 = a + m
        /\ m - 1 \in 0 .. LongestInt /\ a + (m - 1) \in 0 .. LongestInt
    BY <2>1, <2>2, TrailerAssumption
  <2>4. 2^m = 2 * 2^(m - 1) /\ 2^(a + m) = 2 * 2^(a + (m - 1))
    BY <2>3, PowersAssumption
  <2>5. 2^(m - 1) \in Nat /\ 2^(a + (m - 1)) \in Nat
    BY <2>3, PowType
  <2>6. ASSUME 2^(a + (m - 1)) = 2^a * 2^(m - 1) PROVE FALSE
    <3>1. 2 * (2^a * 2^(m - 1)) = 2^a * (2 * 2^(m - 1))
      BY <1>1, <2>5
    <3> QED BY <2>1, <2>4, <2>6, <3>1
  <2> QED BY <2>2, <2>3, <2>6
<1>3. bad \subseteq Nat
  OBVIOUS
<1> HIDE DEF bad
<1>4. bad = {}
  BY <1>2, <1>3, NoLeast
<1> QED BY <1>4 DEF bad

LEMMA PowRises ==
  ASSUME NEW a \in Nat, NEW b \in Nat, a <= b, b <= LongestInt
  PROVE  2^a <= 2^b
<1>1. b - a \in 0 .. LongestInt /\ a + (b - a) = b /\ a \in 0 .. LongestInt
  BY TrailerAssumption
<1>2. 2^b = 2^a * 2^(b - a)
  BY <1>1, PowSum
<1>3. 2^a \in Nat /\ 2^(b - a) \in Nat \ {0}
  BY <1>1, PowType
<1>4. ASSUME NEW x \in Nat, NEW y \in Nat \ {0} PROVE x <= x * y
  <2>1. PICK d \in Nat : y = 1 + d
    <3>1. y - 1 \in Nat /\ y = 1 + (y - 1)
      OBVIOUS
    <3> QED BY <3>1
  <2>2. x * y = x + x * d /\ x * d \in Nat
    BY <2>1
  <2> QED BY <2>2
<1> QED BY <1>2, <1>3, <1>4

(* A trailer says how many bits of a byte count. *)
LEMMA Widths ==
  /\ ByteBits \in Nat \ {0} /\ ByteBits \in 0 .. LongestInt /\ TrailerBits \in 0 .. LongestInt
  /\ LongestInt \in Nat /\ TrailerBits + 2 <= ByteBits
<1>1. LongestInt \in Nat /\ TrailerBits \in 0 .. LongestInt
  BY TrailerAssumption, PowersAssumption
<1>2. ByteBits \in Nat \ {0} /\ ByteBits \in 0 .. LongestInt
  BY <1>1, PowType, PowersAssumption DEF ByteBits
<1> DEFINE bad == {n \in Nat : n + 2 <= TrailerBits /\ ~((n + 2) + 2 <= 2^(n + 2))}
<1>3. ASSUME NEW n \in bad PROVE n # 0 /\ n - 1 \in bad
  <2>1. n \in Nat /\ n + 2 <= TrailerBits /\ ~((n + 2) + 2 <= 2^(n + 2))
    OBVIOUS
  <2>2. n # 0
    <3>1. 2^(0 + 1) = 2 * 1 /\ 2^(1 + 1) = 2 * 2^1
      <4>1. 0 \in 0 .. (LongestInt - 1) /\ 1 \in 0 .. (LongestInt - 1)
        BY <1>1, TrailerAssumption
      <4> QED BY <4>1, PowersAssumption
    <3>2. 0 + 1 = 1 /\ 1 + 1 = 2
      OBVIOUS
    <3>3. 2^1 = 2 /\ 2^2 = 4
      BY <3>1, <3>2
    <3>4. CASE n = 0
      <4>1. n + 2 = 2
        BY <3>4
      <4>2. 2^(n + 2) = 4
        BY <3>3, <4>1
      <4> QED BY <2>1, <4>1, <4>2
    <3> QED BY <3>4
  <2>3. /\ n + 1 \in 0 .. (LongestInt - 1) /\ (n + 1) + 1 = n + 2 /\ n + 1 \in 0 .. LongestInt
        /\ n - 1 \in Nat /\ (n - 1) + 2 = n + 1 /\ n + 1 <= TrailerBits
    BY <1>1, <2>1, <2>2
  <2>4. 2^(n + 2) = 2 * 2^(n + 1) /\ 2^(n + 1) \in Nat \ {0}
    BY <2>3, PowersAssumption, PowType
  <2>5. ~((n + 1) + 2 <= 2^(n + 1))
    BY <2>1, <2>4
  <2> QED BY <2>2, <2>3, <2>5
<1>4. bad \subseteq Nat
  OBVIOUS
<1> HIDE DEF bad
<1>5. bad = {}
  BY <1>3, <1>4, NoLeast
<1>6. TrailerBits - 2 \in Nat /\ (TrailerBits - 2) + 2 = TrailerBits
  BY TrailerAssumption
<1>7. TrailerBits + 2 <= 2^TrailerBits
  <2>1. TrailerBits - 2 \notin bad
    BY <1>5
  <2> QED BY <1>6, <2>1, TrailerAssumption DEF bad
<1> QED BY <1>1, <1>2, <1>7 DEF ByteBits

-----------------------------------------------------------------------------
(* Numbers from digits.  InBase is defined by recursion: that there is     *)
(* such a function, and that it is computed digit by digit, is shown of    *)
(* the least length it could fail for.                                     *)

IsInBase(f, base, s, n) == f = [k \in 0 .. n |-> IF k = 0 THEN 0 ELSE base * f[k - 1] + s[k]]

LEMMA InBaseExists ==
  ASSUME NEW base, NEW s, NEW n \in Nat
  PROVE  \E f : IsInBase(f, base, s, n)
<1> DEFINE none == {m \in Nat : ~ \E f : IsInBase(f, base, s, m)}
<1>1. ASSUME NEW m \in none PROVE m # 0 /\ m - 1 \in none
  <2>1. m \in Nat /\ ~ \E f : IsInBase(f, base, s, m)
    OBVIOUS
  <2>2. m # 0
    <3>1. IsInBase([k \in 0 .. 0 |-> 0], base, s, 0)
      BY DEF IsInBase
    <3> QED BY <2>1, <3>1
  <2>3. ASSUME NEW g, IsInBase(g, base, s, m - 1) PROVE FALSE
    <3> DEFINE f == [k \in 0 .. m |-> IF k = 0 THEN 0 ELSE base * g[k - 1] + s[k]]
    <3>1. /\ \A k \in 0 .. (m - 1) : g[k] = IF k = 0 THEN 0 ELSE base * g[k - 1] + s[k]
          /\ \A k \in 0 .. m : f[k] = IF k = 0 THEN 0 ELSE base * g[k - 1] + s[k]
          /\ f = [k \in 0 .. m |-> f[k]]
      BY <2>3 DEF IsInBase
    <3> HIDE DEF f, none
    <3>2. ASSUME NEW k \in 0 .. (m - 1) PROVE f[k] = g[k]
      <4>1. k \in 0 .. m
        BY <2>1
      <4> QED BY <3>1, <4>1, Zenon
    <3>3. \A k \in 0 .. m : f[k] = IF k = 0 THEN 0 ELSE base * f[k - 1] + s[k]
      <4> SUFFICES ASSUME NEW k \in 0 .. m PROVE f[k] = IF k = 0 THEN 0 ELSE base * f[k - 1] + s[k]
        OBVIOUS
      <4>1. CASE k = 0
        BY <3>1, <4>1
      <4>2. CASE k # 0
        <5>1. k - 1 \in 0 .. (m - 1)
          BY <2>1, <4>2
        <5>2. f[k - 1] = g[k - 1]
          BY <3>2, <5>1
        <5> QED BY <3>1, <4>2, <5>2
      <4> QED BY <4>1, <4>2
    <3>4. IsInBase(f, base, s, m)
      BY <3>1, <3>3 DEF IsInBase
    <3> QED BY <2>1, <3>4
  <2>4. m - 1 \in Nat
    BY <2>1, <2>2
  <2> QED BY <2>2, <2>3, <2>4
<1>2. none \subseteq Nat
  OBVIOUS
<1> HIDE DEF none
<1>3. none = {}
  BY <1>1, <1>2, NoLeast
<1> QED BY <1>3 DEF none

LEMMA InBaseIs ==
  ASSUME NEW base, NEW s, Len(s) \in Nat
  PROVE  \E f : IsInBase(f, base, s, Len(s)) /\ InBase(base, s) = f[Len(s)]
<1>1. \E f : IsInBase(f, base, s, Len(s))
  BY InBaseExists
<1> QED BY <1>1, Zenon DEF InBase, IsInBase

LEMMA InBaseEmpty == ASSUME NEW base PROVE InBase(base, << >>) = 0
<1>1. Len(<< >>) = 0
  OBVIOUS
<1>2. PICK f : IsInBase(f, base, << >>, Len(<< >>)) /\ InBase(base, << >>) = f[Len(<< >>)]
  BY <1>1, InBaseIs
<1> QED BY <1>1, <1>2 DEF IsInBase

LEMMA InBaseAppend ==
  ASSUME NEW base, NEW S, NEW s \in Seq(S), NEW a \in S
  PROVE  InBase(base, Append(s, a)) = base * InBase(base, s) + a
<1> DEFINE u == Append(s, a)
           n == Len(s)
<1>1. n \in Nat /\ Len(u) = n + 1 /\ u[n + 1] = a /\ \A k \in 1 .. n : u[k] = s[k]
  OBVIOUS
<1> HIDE DEF u, n
<1>2. PICK f : IsInBase(f, base, u, n + 1) /\ InBase(base, u) = f[n + 1]
  <2>1. Len(u) \in Nat
    BY <1>1
  <2>2. \E f : IsInBase(f, base, u, Len(u)) /\ InBase(base, u) = f[Len(u)]
    BY <2>1, InBaseIs
  <2> QED BY <1>1, <2>2
<1>3. PICK g : IsInBase(g, base, s, n) /\ InBase(base, s) = g[n]
  BY <1>1, InBaseIs DEF n
<1>4. /\ \A k \in 0 .. (n + 1) : f[k] = IF k = 0 THEN 0 ELSE base * f[k - 1] + u[k]
      /\ \A k \in 0 .. n : g[k] = IF k = 0 THEN 0 ELSE base * g[k - 1] + s[k]
  <2>1. f = [k \in 0 .. (n + 1) |-> IF k = 0 THEN 0 ELSE base * f[k - 1] + u[k]]
    BY <1>2 DEF IsInBase
  <2>2. g = [k \in 0 .. n |-> IF k = 0 THEN 0 ELSE base * g[k - 1] + s[k]]
    BY <1>3 DEF IsInBase
  <2>3. \A k \in 0 .. (n + 1) : f[k] = IF k = 0 THEN 0 ELSE base * f[k - 1] + u[k]
    BY <2>1, Zenon
  <2>4. \A k \in 0 .. n : g[k] = IF k = 0 THEN 0 ELSE base * g[k - 1] + s[k]
    BY <2>2, Zenon
  <2> QED BY <2>3, <2>4
<1> DEFINE differ == {k \in 0 .. n : f[k] # g[k]}
<1>5. ASSUME NEW k \in differ PROVE k # 0 /\ k - 1 \in differ
  <2>1. k \in 0 .. n /\ k \in 0 .. (n + 1) /\ f[k] # g[k]
    BY <1>1
  <2>2. k # 0
    BY <1>4, <2>1
  <2>3. k - 1 \in 0 .. n /\ k \in 1 .. n
    BY <1>1, <2>1, <2>2
  <2>4. f[k] = base * f[k - 1] + s[k] /\ g[k] = base * g[k - 1] + s[k]
    BY <1>1, <1>4, <2>1, <2>2, <2>3
  <2> QED BY <2>1, <2>2, <2>3, <2>4
<1>6. differ \subseteq Nat
  BY <1>1
<1> HIDE DEF differ
<1>7. differ = {}
  BY <1>5, <1>6, NoLeast
<1>8. n \in 0 .. n /\ n + 1 \in 0 .. (n + 1) /\ n + 1 # 0 /\ (n + 1) - 1 = n
  BY <1>1
<1>9. f[n] = g[n]
  BY <1>7, <1>8 DEF differ
<1>10. f[n + 1] = base * f[n] + u[n + 1]
  BY <1>4, <1>8
<1> QED BY <1>1, <1>2, <1>3, <1>9, <1>10 DEF u

(* Any sequence but the empty one ends. *)
LEMMA LastOff ==
  ASSUME NEW S, NEW s \in Seq(S), NEW n \in Nat, Len(s) = n + 1
  PROVE  /\ SubSeq(s, 1, n) \in Seq(S) /\ Len(SubSeq(s, 1, n)) = n /\ s[n + 1] \in S
         /\ s = Append(SubSeq(s, 1, n), s[n + 1])
OBVIOUS

(* Bits. *)
LEMMA NumberBit ==
  ASSUME NEW s \in Seq({0, 1}), NEW a \in {0, 1}
  PROVE  Number(Append(s, a)) = 2 * Number(s) + a
BY InBaseAppend DEF Number

LEMMA NumberEmpty == Number(<< >>) = 0
BY InBaseEmpty DEF Number

LEMMA NumberType ==
  ASSUME NEW s \in Seq({0, 1})
  PROVE  Number(s) \in Nat
<1> DEFINE bad == {n \in Nat : \E t \in Seq({0, 1}) : Len(t) = n /\ Number(t) \notin Nat}
<1>1. ASSUME NEW n \in bad PROVE n # 0 /\ n - 1 \in bad
  <2>1. PICK t \in Seq({0, 1}) : Len(t) = n /\ Number(t) \notin Nat
    OBVIOUS
  <2>2. n # 0
    <3>1. t # << >>
      BY <2>1, NumberEmpty
    <3> QED BY <2>1, <3>1, EmptySeq
  <2>3. n - 1 \in Nat /\ (n - 1) + 1 = n
    BY <2>2
  <2> DEFINE f == SubSeq(t, 1, n - 1)
  <2>4. f \in Seq({0, 1}) /\ Len(f) = n - 1 /\ t[n] \in {0, 1} /\ t = Append(f, t[n])
    BY <2>1, <2>3, LastOff
  <2> HIDE DEF f, bad
  <2>5. Number(t) = 2 * Number(f) + t[n]
    BY <2>4, NumberBit
  <2>6. Number(f) \notin Nat
    BY <2>1, <2>4, <2>5
  <2> QED BY <2>2, <2>3, <2>4, <2>6 DEF bad
<1>2. bad \subseteq Nat
  OBVIOUS
<1> HIDE DEF bad
<1>3. bad = {}
  BY <1>1, <1>2, NoLeast
<1> QED BY <1>3 DEF bad

(* Bits one after the other: the first ones weigh the more.                *)
LEMMA NumberConcat ==
  ASSUME NEW s \in Seq({0, 1}), NEW t \in Seq({0, 1}), Len(t) <= LongestInt
  PROVE  /\ Number(t) \in 0 .. (2^Len(t) - 1)
         /\ Number(s \o t) = Number(s) * 2^Len(t) + Number(t)
<1> DEFINE right(u) == /\ Number(u) \in 0 .. (2^Len(u) - 1)
                       /\ Number(s \o u) = Number(s) * 2^Len(u) + Number(u)
           bad == {n \in 0 .. LongestInt : \E u \in Seq({0, 1}) : Len(u) = n /\ ~right(u)}
<1>1. ASSUME NEW n \in bad PROVE n # 0 /\ n - 1 \in bad
  <2>1. PICK u \in Seq({0, 1}) : Len(u) = n /\ ~right(u)
    OBVIOUS
  <2>2. n # 0
    <3>1. CASE u = << >>
      <4>1. Len(u) = 0 /\ s \o u = s /\ 2^0 = 1 /\ Number(u) = 0
        BY <3>1, PowersAssumption, NumberEmpty
      <4>2. 2^Len(u) = 1
        BY <4>1
      <4>3. Number(s) * 1 + 0 = Number(s)
        BY NumberType
      <4>4. right(u)
        BY <4>1, <4>2, <4>3
      <4> QED BY <2>1, <4>4
    <3> QED BY <2>1, <3>1, EmptySeq
  <2>3. n - 1 \in Nat /\ (n - 1) + 1 = n /\ n - 1 \in 0 .. (LongestInt - 1) /\ n - 1 \in 0 .. LongestInt
    BY <2>2, Widths
  <2> DEFINE f == SubSeq(u, 1, n - 1)
  <2>4. f \in Seq({0, 1}) /\ Len(f) = n - 1 /\ u[n] \in {0, 1} /\ u = Append(f, u[n])
    BY <2>1, <2>3, LastOff
  <2> HIDE DEF f
  <2>5. Number(u) = 2 * Number(f) + u[n]
    BY <2>4, NumberBit
  <2>6. s \o u = Append(s \o f, u[n]) /\ s \o f \in Seq({0, 1})
    <3>1. ASSUME NEW v \in Seq({0, 1}), NEW a \in {0, 1}
          PROVE  s \o Append(v, a) = Append(s \o v, a) /\ s \o v \in Seq({0, 1})
      OBVIOUS
    <3>2. s \o Append(f, u[n]) = Append(s \o f, u[n]) /\ s \o f \in Seq({0, 1})
      BY <2>4, <3>1
    <3> QED BY <2>4, <3>2
  <2>7. Number(s \o u) = 2 * Number(s \o f) + u[n]
    BY <2>4, <2>6, NumberBit
  <2>8. 2^n = 2 * 2^(n - 1) /\ 2^(n - 1) \in Nat
    BY <2>3, PowersAssumption, PowType
  <2>9. ~right(f)
    <3> SUFFICES ASSUME right(f) PROVE FALSE
      OBVIOUS
    <3> DEFINE x == Number(s)
               p == 2^(n - 1)
    <3>1. Number(f) \in 0 .. (p - 1) /\ Number(s \o f) = x * p + Number(f) /\ x \in Nat /\ p \in Nat
      BY <2>4, <2>8, NumberType
    <3> HIDE DEF x, p
    <3>2. 2 * (x * p + Number(f)) + u[n] = x * (2 * p) + (2 * Number(f) + u[n])
      BY <2>4, <3>1
    <3>3. 2 * Number(f) + u[n] \in 0 .. (2 * p - 1)
      BY <2>4, <3>1
    <3>4. 2^Len(u) = 2 * p
      BY <2>1, <2>8 DEF p
    <3>5. Number(u) \in 0 .. (2^Len(u) - 1)
      BY <2>5, <3>3, <3>4
    <3>6. Number(s \o u) = x * 2^Len(u) + Number(u)
      BY <2>5, <2>7, <3>1, <3>2, <3>4
    <3> QED BY <2>1, <3>5, <3>6 DEF x
  <2> HIDE DEF right
  <2> QED BY <2>2, <2>3, <2>4, <2>9 DEF bad
<1>2. bad \subseteq Nat
  OBVIOUS
<1> HIDE DEF bad, right
<1>3. bad = {}
  BY <1>1, <1>2, NoLeast
<1>4. Len(t) \in 0 .. LongestInt
  BY Widths
<1>5. right(t)
  BY <1>3, <1>4 DEF bad
<1> QED BY <1>5 DEF right

-----------------------------------------------------------------------------
(* Slices of the content and their numbers.                                *)

Slice(s, p, n) == SubSeq(s, p + 1, p + n)

Value(s, p, n) == Number(Slice(s, p, n))

LEMMA SliceType ==
  ASSUME NEW s \in Seq({0, 1}), NEW p \in Nat, NEW n \in Nat, p + n <= Len(s)
  PROVE  /\ Slice(s, p, n) \in Seq({0, 1}) /\ Len(Slice(s, p, n)) = n
         /\ \A k \in 1 .. n : Slice(s, p, n)[k] = s[p + k]
BY DEF Slice

LEMMA ValueType ==
  ASSUME NEW s \in Seq({0, 1}), NEW p \in Nat, NEW n \in Nat, p + n <= Len(s)
  PROVE  /\ Value(s, p, n) \in Nat
         /\ n <= LongestInt => Value(s, p, n) \in 0 .. (2^n - 1)
<1>1. Slice(s, p, n) \in Seq({0, 1}) /\ Len(Slice(s, p, n)) = n
  BY SliceType
<1>2. Value(s, p, n) \in Nat
  BY <1>1, NumberType DEF Value
<1>3. n <= LongestInt => Value(s, p, n) \in 0 .. (2^n - 1)
  BY <1>1, NumberConcat DEF Value
<1> QED BY <1>2, <1>3

LEMMA ConcatIs ==
  ASSUME NEW a \in Seq({0, 1}), NEW b \in Seq({0, 1})
  PROVE  /\ a \o b \in Seq({0, 1}) /\ Len(a \o b) = Len(a) + Len(b)
         /\ \A k \in 1 .. Len(a) : (a \o b)[k] = a[k]
         /\ \A k \in 1 .. Len(b) : (a \o b)[Len(a) + k] = b[k]
OBVIOUS

LEMMA ValueSplit ==
  ASSUME NEW s \in Seq({0, 1}), NEW p \in Nat, NEW m \in Nat, NEW n \in Nat,
         p + m + n <= Len(s), n <= LongestInt
  PROVE  Value(s, p, m + n) = Value(s, p, m) * 2^n + Value(s, p + m, n)
<1> DEFINE a == Slice(s, p, m)
           b == Slice(s, p + m, n)
           c == Slice(s, p, m + n)
<1>1. /\ a \in Seq({0, 1}) /\ Len(a) = m /\ \A k \in 1 .. m : a[k] = s[p + k]
      /\ b \in Seq({0, 1}) /\ Len(b) = n /\ \A k \in 1 .. n : b[k] = s[p + m + k]
      /\ c \in Seq({0, 1}) /\ Len(c) = m + n /\ \A k \in 1 .. (m + n) : c[k] = s[p + k]
  <2> DEFINE q == p + m
             o == m + n
  <2>1. q \in Nat /\ o \in Nat /\ p + m <= Len(s) /\ q + n <= Len(s) /\ p + o <= Len(s)
    OBVIOUS
  <2> HIDE DEF q, o, a, b, c
  <2>2. a \in Seq({0, 1}) /\ Len(a) = m /\ \A k \in 1 .. m : a[k] = s[p + k]
    BY <2>1, SliceType DEF a
  <2>3. b \in Seq({0, 1}) /\ Len(b) = n /\ \A k \in 1 .. n : b[k] = s[q + k]
    BY <2>1, SliceType DEF b, q
  <2>4. c \in Seq({0, 1}) /\ Len(c) = o /\ \A k \in 1 .. o : c[k] = s[p + k]
    BY <2>1, SliceType DEF c, o
  <2> QED BY <2>2, <2>3, <2>4 DEF q, o
<1> HIDE DEF a, b, c
<1>2. c = a \o b
  <2> DEFINE d == a \o b
  <2>1. /\ d \in Seq({0, 1}) /\ Len(d) = m + n
        /\ \A k \in 1 .. m : d[k] = a[k]
        /\ \A k \in 1 .. n : d[m + k] = b[k]
    <3>1. a \in Seq({0, 1}) /\ b \in Seq({0, 1}) /\ Len(a) = m /\ Len(b) = n
      BY <1>1
    <3>2. /\ d \in Seq({0, 1}) /\ Len(d) = Len(a) + Len(b)
          /\ \A k \in 1 .. Len(a) : d[k] = a[k]
          /\ \A k \in 1 .. Len(b) : d[Len(a) + k] = b[k]
      BY <3>1, ConcatIs
    <3> HIDE DEF d
    <3> QED BY <3>1, <3>2
  <2> HIDE DEF d
  <2>2. ASSUME NEW k \in 1 .. (m + n) PROVE c[k] = d[k]
    <3>1. CASE k \in 1 .. m
      BY <1>1, <2>1, <3>1
    <3>2. CASE k - m \in 1 .. n
      <4>1. m + (k - m) = k /\ p + m + (k - m) = p + k
        OBVIOUS
      <4>2. b[k - m] = s[p + m + (k - m)] /\ d[m + (k - m)] = b[k - m]
        BY <1>1, <2>1, <3>2
      <4> QED BY <1>1, <4>1, <4>2
    <3> QED BY <3>1, <3>2
  <2>3. c = d
    BY <1>1, <2>1, <2>2, SeqEqual
  <2> QED BY <2>3 DEF d
<1>3. Number(c) = Number(a) * 2^n + Number(b)
  BY <1>1, <1>2, NumberConcat
<1> QED BY <1>3 DEF Value, a, b, c

LEMMA ValueEmpty ==
  ASSUME NEW s \in Seq({0, 1}), NEW p \in Nat, p <= Len(s)
  PROVE  Value(s, p, 0) = 0
<1>1. Slice(s, p, 0) \in Seq({0, 1}) /\ Len(Slice(s, p, 0)) = 0
  BY SliceType
<1>2. Slice(s, p, 0) = << >>
  BY <1>1, EmptySeq
<1> QED BY <1>2, NumberEmpty DEF Value

LEMMA ValueBit ==
  ASSUME NEW s \in Seq({0, 1}), NEW p \in Nat, p < Len(s)
  PROVE  Value(s, p, 1) = s[p + 1] /\ s[p + 1] \in {0, 1}
<1>1. Slice(s, p, 1) \in Seq({0, 1}) /\ Len(Slice(s, p, 1)) = 1 /\ Slice(s, p, 1)[1] = s[p + 1]
      /\ s[p + 1] \in {0, 1}
  <2> DEFINE one == 1
             a == Slice(s, p, one)
  <2>1. p + one <= Len(s) /\ one \in Nat /\ one \in 1 .. one /\ s[p + one] \in {0, 1}
    OBVIOUS
  <2> HIDE DEF one
  <2>2. a \in Seq({0, 1}) /\ Len(a) = one /\ \A k \in 1 .. one : a[k] = s[p + k]
    BY <2>1, SliceType
  <2> HIDE DEF a
  <2>3. a[one] = s[p + one]
    BY <2>1, <2>2
  <2> QED BY <2>1, <2>2, <2>3 DEF one, a
<1>2. << >> \in Seq({0, 1}) /\ Slice(s, p, 1) = Append(<< >>, s[p + 1])
  BY <1>1, SeqEqual
<1>3. Number(Slice(s, p, 1)) = 2 * 0 + s[p + 1]
  BY <1>1, <1>2, NumberBit, NumberEmpty
<1> QED BY <1>1, <1>3 DEF Value

(* A bit more.                                                             *)
LEMMA ValueNext ==
  ASSUME NEW s \in Seq({0, 1}), NEW p \in Nat, NEW n \in Nat, p + n < Len(s)
  PROVE  Value(s, p, n + 1) = 2 * Value(s, p, n) + s[p + n + 1]
<1>1. 1 \in Nat /\ p + n + 1 <= Len(s) /\ p + n \in Nat /\ 1 <= LongestInt /\ Value(s, p, n) \in Nat
  BY ValueType, TrailerAssumption
<1>2. Value(s, p, n + 1) = Value(s, p, n) * 2^1 + Value(s, p + n, 1)
  <2> DEFINE one == 1
  <2>1. one \in Nat /\ p + n + one <= Len(s) /\ one <= LongestInt
    BY <1>1
  <2> HIDE DEF one
  <2>2. Value(s, p, n + one) = Value(s, p, n) * 2^one + Value(s, p + n, one)
    BY <2>1, ValueSplit
  <2> QED BY <2>2 DEF one
<1>3. 2^1 = 2
  <2>1. 0 \in 0 .. (LongestInt - 1) /\ 0 + 1 = 1
    BY <1>1, Widths
  <2>2. 2^(0 + 1) = 2 * 2^0 /\ 2^0 = 1
    BY <2>1, PowersAssumption
  <2> QED BY <2>1, <2>2
<1>4. Value(s, p + n, 1) = s[p + n + 1] /\ s[p + n + 1] \in {0, 1}
  BY <1>1, ValueBit
<1> QED BY <1>1, <1>2, <1>3, <1>4

LEMMA NumberZeros ==
  ASSUME NEW n \in Nat
  PROVE  Zeros(n) \in Seq({0, 1}) /\ Len(Zeros(n)) = n /\ Number(Zeros(n)) = 0
<1>1. \A m \in Nat : Zeros(m) \in Seq({0, 1}) /\ Len(Zeros(m)) = m
  BY DEF Zeros
<1> DEFINE bad == {m \in Nat : Number(Zeros(m)) # 0}
<1>2. ASSUME NEW m \in bad PROVE m # 0 /\ m - 1 \in bad
  <2>1. m \in Nat /\ Number(Zeros(m)) # 0
    OBVIOUS
  <2>2. m # 0
    <3>1. Zeros(0) = << >>
      BY <1>1, EmptySeq
    <3> QED BY <2>1, <3>1, NumberEmpty
  <2>3. m - 1 \in Nat /\ Zeros(m) = Append(Zeros(m - 1), 0)
    <3>1. m - 1 \in Nat
      BY <2>1, <2>2
    <3>2. Append(Zeros(m - 1), 0) = Zeros(m)
      BY <2>1, <3>1 DEF Zeros
    <3> QED BY <3>1, <3>2
  <2>4. Number(Zeros(m)) = 2 * Number(Zeros(m - 1)) + 0
    BY <1>1, <2>3, NumberBit
  <2>5. Number(Zeros(m - 1)) # 0
    BY <2>1, <2>4
  <2> QED BY <2>2, <2>3, <2>5
<1>3. bad \subseteq Nat
  OBVIOUS
<1> HIDE DEF bad
<1>4. bad = {}
  BY <1>2, <1>3, NoLeast
<1> QED BY <1>1, <1>4 DEF bad

-----------------------------------------------------------------------------
(* Files with a trailer: whole bytes, and a last one that may be cut off.  *)

Whole(data) == Len(data) \div ByteBits

Tail1(data) == Len(data) % ByteBits

Fits(data) == Tail1(data) <= ByteBits - TrailerBits

IsFile(data, bs) ==
  /\ bs \in Seq(Nat)
  /\ Len(bs) = IF Fits(data) THEN Whole(data) + 1 ELSE Whole(data) + 2
  /\ \A q \in 0 .. (Whole(data) - 1) : bs[q + 1] = Value(data, q * ByteBits, ByteBits)
  /\ bs[Whole(data) + 1] =
       Value(data, Whole(data) * ByteBits, Tail1(data)) * 2^(ByteBits - Tail1(data))
         + (IF Fits(data) THEN Tail1(data) ELSE 0)
  /\ ~Fits(data) => bs[Whole(data) + 2] = Tail1(data)

LEMMA Parts ==
  ASSUME NEW data \in Seq({0, 1})
  PROVE  /\ Whole(data) \in Nat /\ Tail1(data) \in 0 .. (ByteBits - 1)
         /\ Len(data) = Whole(data) * ByteBits + Tail1(data)
         /\ Whole(data) * ByteBits \in Nat
         /\ \A q \in 0 .. (Whole(data) - 1) : q * ByteBits \in Nat /\ q * ByteBits + ByteBits <= Whole(data) * ByteBits
<1>1. Len(data) \in Nat /\ ByteBits \in Nat \ {0}
  BY Widths
<1>2. /\ Whole(data) \in Nat /\ Tail1(data) \in 0 .. (ByteBits - 1)
      /\ Whole(data) * ByteBits <= Len(data)
      /\ Tail1(data) = Len(data) - Whole(data) * ByteBits
  BY <1>1, DivBounds DEF Whole, Tail1
<1>3. \A q \in 0 .. (Whole(data) - 1) : q * ByteBits \in Nat /\ q * ByteBits + ByteBits <= Whole(data) * ByteBits
  BY <1>1, <1>2, MulStrict
<1>4. Whole(data) * ByteBits \in Nat
  BY <1>1, <1>2
<1>5. Len(data) = Whole(data) * ByteBits + Tail1(data)
  <2>1. ASSUME NEW a \in Int, NEW b \in Int, NEW c \in Int, a = b - c PROVE b = c + a
    BY <2>1
  <2>2. Tail1(data) \in Int /\ Len(data) \in Int /\ Whole(data) * ByteBits \in Int
    BY <1>1, <1>2, <1>4
  <2> QED BY <1>2, <2>1, <2>2
<1> QED BY <1>2, <1>3, <1>4, <1>5, Zenon

(* What is appended to bits does not change their slices. *)
LEMMA ValueOfFront ==
  ASSUME NEW s \in Seq({0, 1}), NEW t \in Seq({0, 1}), NEW p \in Nat, NEW n \in Nat, p + n <= Len(s)
  PROVE  Value(s \o t, p, n) = Value(s, p, n)
<1> DEFINE c == s \o t
           a == Slice(c, p, n)
           b == Slice(s, p, n)
<1>1. c \in Seq({0, 1}) /\ Len(c) = Len(s) + Len(t) /\ \A k \in 1 .. Len(s) : c[k] = s[k]
  BY ConcatIs
<1> HIDE DEF c
<1>2. p + n <= Len(c)
  BY <1>1
<1>3. /\ a \in Seq({0, 1}) /\ Len(a) = n /\ \A k \in 1 .. n : a[k] = c[p + k]
      /\ b \in Seq({0, 1}) /\ Len(b) = n /\ \A k \in 1 .. n : b[k] = s[p + k]
  BY <1>1, <1>2, SliceType
<1> HIDE DEF a, b
<1>4. \A k \in 1 .. n : p + k \in 1 .. Len(s)
  OBVIOUS
<1>5. a = b
  BY <1>1, <1>3, <1>4, SeqEqual
<1> QED BY <1>5 DEF Value, a, b, c

LEMMA ValueOfZeros ==
  ASSUME NEW s \in Seq({0, 1}), NEW n \in Nat
  PROVE  Value(s \o Zeros(n), Len(s), n) = 0
<1> DEFINE c == s \o Zeros(n)
           a == Slice(c, Len(s), n)
           z == Zeros(n)
<1>1. z \in Seq({0, 1}) /\ Len(z) = n /\ Number(z) = 0
  BY NumberZeros
<1>2. c \in Seq({0, 1}) /\ Len(c) = Len(s) + n /\ \A k \in 1 .. n : c[Len(s) + k] = z[k]
  <2> HIDE DEF z
  <2>1. s \o z \in Seq({0, 1}) /\ Len(s \o z) = Len(s) + Len(z) /\ \A k \in 1 .. Len(z) : (s \o z)[Len(s) + k] = z[k]
    BY SMTT(30), <1>1, ConcatIs
  <2> QED BY <1>1, <2>1 DEF z
<1> HIDE DEF c, z
<1>3. Len(s) \in Nat /\ Len(s) + n <= Len(c)
  BY <1>2
<1>4. a \in Seq({0, 1}) /\ Len(a) = n /\ \A k \in 1 .. n : a[k] = c[Len(s) + k]
  BY <1>2, <1>3, SliceType
<1> HIDE DEF a
<1>5. a = z
  BY <1>1, <1>2, <1>4, SeqEqual
<1> QED BY <1>1, <1>5 DEF Value, a, c

LEMMA EncodedIs ==
  ASSUME NEW data \in Seq({0, 1})
  PROVE  IsFile(data, Encoded(data))
<1> DEFINE B == ByteBits
           N == Len(data)
           tail == N % ByteBits
           Q == N \div ByteBits
           pad == IF tail = 0 THEN 0 ELSE B - tail
           padded == data \o Zeros(pad)
           count == IF tail = 0 THEN Q ELSE Q + 1
           chunks == [k \in 1 .. count |-> Value(padded, (k - 1) * B, B)]
<1>1. /\ B \in Nat \ {0} /\ N \in Nat /\ Q \in Nat /\ tail \in 0 .. (B - 1) /\ N = Q * B + tail
      /\ Q * B \in Nat /\ B <= LongestInt
      /\ \A q \in 0 .. (Q - 1) : q * B \in Nat /\ q * B + B <= Q * B
  <2>1. Q = Whole(data) /\ tail = Tail1(data)
    BY DEF Whole, Tail1
  <2> HIDE DEF Q, tail
  <2>2. /\ Q \in Nat /\ tail \in 0 .. (B - 1) /\ N = Q * B + tail /\ Q * B \in Nat
        /\ \A q \in 0 .. (Q - 1) : q * B \in Nat /\ q * B + B <= Q * B
    BY <2>1, Parts
  <2>3. B \in Nat \ {0} /\ N \in Nat /\ B <= LongestInt
    BY Widths
  <2> QED BY <2>2, <2>3, Zenon
<1> HIDE DEF Q, tail
<1>2. pad \in Nat /\ padded \in Seq({0, 1}) /\ Len(padded) = N + pad
  <2>1. pad \in Nat
    BY <1>1
  <2> DEFINE z == Zeros(pad)
  <2>2. z \in Seq({0, 1}) /\ Len(z) = pad
    BY <2>1, NumberZeros
  <2> HIDE DEF z, pad
  <2>3. data \o z \in Seq({0, 1}) /\ Len(data \o z) = Len(data) + Len(z)
    BY <2>2, ConcatIs
  <2> QED BY <2>1, <2>2, <2>3 DEF z
<1>3. count \in Nat /\ Len(padded) = count * B /\ Len(padded) \div B = count
  <2>1. count \in Nat /\ N + pad = count * B
    <3>1. (Q + 1) * B = Q * B + B
      BY <1>1
    <3> HIDE DEF B, N
    <3>2. CASE tail = 0
      BY <1>1, <3>2
    <3>3. CASE tail # 0
      BY <1>1, <3>1, <3>3
    <3> QED BY <3>2, <3>3
  <2> HIDE DEF count, pad, padded
  <2>2. Len(padded) = count * B + 0 /\ 0 \in 0 .. (B - 1) /\ Len(padded) = count * B
    BY <1>1, <1>2, <2>1
  <2>3. (count * B + 0) \div B = count
    BY <1>1, <2>1, <2>2, DivMod
  <2> QED BY <2>1, <2>2, <2>3
<1>4. ASSUME NEW k \in 1 .. count
      PROVE  /\ (k - 1) * B \in Nat /\ (k - 1) * B + B <= Len(padded)
             /\ Number(SubSeq(padded, (k - 1) * B + 1, k * B)) = Value(padded, (k - 1) * B, B)
  <2>1. k - 1 \in Nat /\ k - 1 < count
    BY <1>3
  <2>2. (k - 1) * B \in Nat /\ (k - 1) * B + B <= count * B /\ (k - 1) * B + B = k * B
    BY <1>1, <1>3, <2>1, MulStrict
  <2> HIDE DEF count, padded
  <2> QED BY <1>3, <2>2 DEF Value, Slice
<1>5. Encoded(data) =
        IF tail <= B - TrailerBits /\ tail > 0 THEN Front(chunks) \o << Last(chunks) + tail >>
        ELSE Append(chunks, tail)
  <2> DEFINE raw == [k \in 1 .. (Len(padded) \div B) |-> Number(SubSeq(padded, (k - 1) * B + 1, k * B))]
  <2>1. raw = chunks
    <3> HIDE DEF padded, count
    <3> QED BY <1>3, <1>4
  <2>2. Encoded(data) =
          IF tail <= B - TrailerBits /\ tail > 0 THEN Front(raw) \o << Last(raw) + tail >>
          ELSE Append(raw, tail)
    BY Zenon DEF Encoded, tail
  <2> HIDE DEF raw, chunks, tail, B
  <2> QED BY <2>1, <2>2
<1>6. /\ chunks \in Seq(Nat) /\ Len(chunks) = count
      /\ \A k \in 1 .. count : chunks[k] = Value(padded, (k - 1) * B, B)
  <2>1. \A k \in 1 .. count : Value(padded, (k - 1) * B, B) \in Nat
    <3> HIDE DEF count, padded
    <3> QED BY <1>1, <1>2, <1>4, ValueType
  <2> HIDE DEF count, padded
  <2> QED BY <1>3, <2>1
<1> HIDE DEF chunks
<1>7. ASSUME NEW q \in 0 .. (Q - 1)
      PROVE  chunks[q + 1] = Value(data, q * B, B)
  <2>1. q + 1 \in 1 .. count /\ (q + 1) - 1 = q /\ q * B \in Nat /\ q * B + B <= N
    <3>1. q * B \in Nat /\ q * B + B <= Q * B
      BY <1>1
    <3>2. q + 1 \in 1 .. count /\ (q + 1) - 1 = q
      BY <1>1
    <3>3. Q * B <= N
      BY <1>1
    <3> HIDE DEF B, N, count
    <3> QED BY <1>1, <3>1, <3>2, <3>3
  <2>2. Value(padded, q * B, B) = Value(data, q * B, B)
    <3>1. Zeros(pad) \in Seq({0, 1})
      BY <1>2, NumberZeros
    <3> HIDE DEF pad
    <3> QED BY <1>1, <2>1, <3>1, ValueOfFront
  <2> HIDE DEF count, padded
  <2> QED BY <1>6, <2>1, <2>2
<1>8. ASSUME tail # 0
      PROVE  count = Q + 1 /\ chunks[Q + 1] = Value(data, Q * B, tail) * 2^(B - tail)
  <2>1. count = Q + 1 /\ Q + 1 \in 1 .. count /\ (Q + 1) - 1 = Q /\ pad = B - tail /\ tail + pad = B
    BY <1>1, <1>8
  <2>2. Q * B + tail + pad <= Len(padded) /\ pad <= LongestInt /\ tail \in Nat
    <3> HIDE DEF padded, pad, B, N
    <3> QED BY <1>1, <1>2, <2>1, Widths
  <2>3. Value(padded, Q * B, tail + pad) = Value(padded, Q * B, tail) * 2^pad + Value(padded, Q * B + tail, pad)
    <3> HIDE DEF padded, pad, tail
    <3> QED BY <1>1, <1>2, <2>2, ValueSplit
  <2>4. Value(padded, Q * B + tail, pad) = 0
    <3> HIDE DEF pad
    <3> QED BY <1>1, <1>2, ValueOfZeros
  <2>5. Value(padded, Q * B, tail) = Value(data, Q * B, tail)
    <3>1. Zeros(pad) \in Seq({0, 1}) /\ Q * B + tail <= N
      BY <1>1, <1>2, NumberZeros
    <3> HIDE DEF pad, tail
    <3> QED BY <1>1, <2>2, <3>1, ValueOfFront
  <2>6. Value(data, Q * B, tail) * 2^pad \in Nat
    <3>1. Value(data, Q * B, tail) \in Nat
      <4>1. tail \in Nat /\ Q * B + tail <= Len(data)
        BY <1>1
      <4> QED BY <1>1, <4>1, ValueType
    <3>2. 2^pad \in Nat
      <4> HIDE DEF pad
      <4> QED BY <1>2, <2>2, PowType
    <3> HIDE DEF pad
    <3> QED BY <3>1, <3>2
  <2>7. chunks[Q + 1] = Value(padded, Q * B, B)
    <3> HIDE DEF count, padded
    <3> QED BY <1>6, <2>1
  <2> HIDE DEF pad, padded, tail, count
  <2> QED BY <2>1, <2>3, <2>4, <2>5, <2>6, <2>7
<1> HIDE DEF padded, pad
<1>9. CASE tail <= B - TrailerBits /\ tail > 0
  <2> DEFINE x == Last(chunks) + tail
             bs == Front(chunks) \o << x >>
  <2>1. count = Q + 1 /\ Last(chunks) = chunks[Q + 1] /\ x \in Nat
    BY <1>1, <1>3, <1>6, <1>9 DEF Last
  <2>2. /\ Front(chunks) \in Seq(Nat) /\ Len(Front(chunks)) = Q
        /\ \A k \in 1 .. Q : Front(chunks)[k] = chunks[k]
    <3> HIDE DEF count
    <3> QED BY <1>1, <1>6, <2>1 DEF Front
  <2> HIDE DEF x
  <2>3. bs \in Seq(Nat) /\ Len(bs) = Q + 1 /\ bs[Q + 1] = x /\ \A k \in 1 .. Q : bs[k] = chunks[k]
    <3>1. ASSUME NEW f \in Seq(Nat), NEW y \in Nat
          PROVE  /\ f \o << y >> \in Seq(Nat) /\ Len(f \o << y >>) = Len(f) + 1
                 /\ (f \o << y >>)[Len(f) + 1] = y /\ \A k \in 1 .. Len(f) : (f \o << y >>)[k] = f[k]
      OBVIOUS
    <3> DEFINE f == Front(chunks)
    <3>2. f \in Seq(Nat) /\ Len(f) = Q /\ \A k \in 1 .. Q : f[k] = chunks[k]
      BY <2>2
    <3> HIDE DEF f
    <3>3. /\ f \o << x >> \in Seq(Nat) /\ Len(f \o << x >>) = Q + 1
          /\ (f \o << x >>)[Q + 1] = x /\ \A k \in 1 .. Q : (f \o << x >>)[k] = f[k]
      BY <2>1, <3>1, <3>2
    <3> QED BY <3>2, <3>3 DEF f
  <2>4. Encoded(data) = bs
    BY <1>5, <1>9 DEF x
  <2> HIDE DEF bs, tail
  <2>5. \A q \in 0 .. (Q - 1) : bs[q + 1] = Value(data, q * B, B)
    <3>1. Q \in Nat
      BY <1>1
    <3>2. \A q \in 0 .. (Q - 1) : q + 1 \in 1 .. Q
      BY <3>1
    <3> QED BY <1>7, <2>3, <3>2
  <2>6. bs[Q + 1] = Value(data, Q * B, tail) * 2^(B - tail) + tail
    BY <1>8, <1>9, <2>1, <2>3 DEF x
  <2> QED BY <1>9, <2>3, <2>4, <2>5, <2>6 DEF IsFile, Whole, Tail1, Fits, Q, tail
<1>10. CASE ~(tail <= B - TrailerBits /\ tail > 0)
  <2> DEFINE bs == Append(chunks, tail)
  <2>1. bs \in Seq(Nat) /\ Len(bs) = count + 1 /\ bs[count + 1] = tail /\ \A k \in 1 .. count : bs[k] = chunks[k]
    <3> HIDE DEF count
    <3> QED BY <1>1, <1>3, <1>6
  <2>2. Encoded(data) = bs
    BY <1>5, <1>10
  <2>3. \A q \in 0 .. (Q - 1) : bs[q + 1] = Value(data, q * B, B)
    <3>1. \A q \in 0 .. (Q - 1) : q + 1 \in 1 .. count
      BY <1>1
    <3> HIDE DEF bs, count
    <3> QED BY <1>7, <2>1, <3>1
  <2>4. CASE tail = 0
    <3>1. count = Q /\ TrailerBits + 2 <= B /\ TrailerBits \in Nat /\ tail <= B - TrailerBits
      BY <1>1, <2>4, Widths
    <3>2. Value(data, Q * B, tail) * 2^(B - tail) = 0
      <4>1. Value(data, Q * B, tail) = 0
        <5>1. Q * B <= Len(data)
          BY <1>1
        <5> HIDE DEF Q
        <5>2. Value(data, Q * B, 0) = 0
          BY <1>1, <5>1, ValueEmpty
        <5> QED BY <2>4, <5>2
      <4>2. 2^(B - tail) \in Nat
        <5>1. B - tail \in 0 .. LongestInt
          BY <1>1, Widths
        <5> QED BY <5>1, PowType
      <4> HIDE DEF tail, Q, B
      <4> QED BY <4>1, <4>2
    <3>3. bs[Q + 1] = Value(data, Q * B, tail) * 2^(B - tail) + tail
      <4> HIDE DEF bs, count
      <4> QED BY <2>1, <2>4, <3>1, <3>2
    <3> HIDE DEF bs, count
    <3> QED BY <2>1, <2>2, <2>3, <3>1, <3>3 DEF IsFile, Whole, Tail1, Fits, Q, tail
  <2>5. CASE tail # 0
    <3>1. count = Q + 1 /\ ~(tail <= B - TrailerBits)
      BY <1>1, <1>10, <2>5
    <3>2. Q + 1 \in 1 .. count
      BY <1>1, <3>1
    <3> HIDE DEF bs, count
    <3>3. bs[Q + 1] = Value(data, Q * B, tail) * 2^(B - tail) /\ bs[Q + 2] = tail /\ Len(bs) = Q + 2
      <4>1. count + 1 = Q + 2
        BY <1>1, <3>1
      <4>2. chunks[Q + 1] = Value(data, Q * B, tail) * 2^(B - tail)
        BY <1>8, <2>5
      <4> QED BY <2>1, <3>1, <3>2, <4>1, <4>2
    <3>4. Value(data, Q * B, tail) * 2^(B - tail) = Value(data, Q * B, tail) * 2^(B - tail) + 0
      <4>1. bs[Q + 1] \in Nat
        BY <1>1, <2>1, <3>3
      <4> QED BY <3>3, <4>1
    <3> QED BY <2>1, <2>2, <2>3, <3>1, <3>3, <3>4 DEF IsFile, Whole, Tail1, Fits, Q, tail
  <2> QED BY <2>4, <2>5
<1> QED BY <1>9, <1>10

-----------------------------------------------------------------------------
(* What a byte of a file says of the content. *)

(* Two digits of a number in a mixed base. *)
LEMMA Mixed ==
  ASSUME NEW x \in Nat, NEW m \in Nat \ {0}, NEW n \in Nat \ {0},
         NEW y \in 0 .. (m - 1), NEW z \in 0 .. (n - 1)
  PROVE  (x * m + y) * n + z = x * (m * n) + (y * n + z) /\ y * n + z \in 0 .. (m * n - 1)
<1>1. (x * m + y) * n + z = x * (m * n) + (y * n + z)
  OBVIOUS
<1>2. y * n \in Nat /\ y * n + n <= m * n
  BY MulStrict
<1>3. m * n \in Nat
  OBVIOUS
<1>4. y * n + z \in 0 .. (m * n - 1)
  BY <1>2, <1>3
<1> QED BY <1>1, <1>4

LEMMA ByteHead ==
  ASSUME NEW data \in Seq({0, 1}), NEW bs, IsFile(data, bs),
         NEW q \in 0 .. Whole(data), NEW o \in 0 .. ByteBits, q * ByteBits + o <= Len(data)
  PROVE  /\ bs[q + 1] \div 2^(ByteBits - o) = Value(data, q * ByteBits, o)
         /\ q < Whole(data) => bs[q + 1] % 2^(ByteBits - o) = Value(data, q * ByteBits + o, ByteBits - o)
<1> DEFINE B == ByteBits
           p == q * B
           w == Whole(data)
           t == Tail1(data)
<1>1. /\ B \in Nat \ {0} /\ B <= LongestInt /\ w \in Nat /\ t \in 0 .. (B - 1) /\ Len(data) = w * B + t
      /\ w * B \in Nat /\ p \in Nat /\ TrailerBits \in Nat /\ TrailerBits + 2 <= B
  <2>1. p \in Nat
    <3>1. q \in Nat /\ B \in Nat
      BY Parts, Widths
    <3> QED BY <3>1
  <2> QED BY <2>1, Parts, Widths
<1>2. B - o \in 0 .. LongestInt /\ o <= LongestInt /\ o \in Nat /\ o + (B - o) = B /\ p + o <= Len(data)
  <2>1. p + o <= Len(data)
    OBVIOUS
  <2>2. o \in 0 .. B /\ B \in Nat /\ B <= LongestInt /\ LongestInt \in Nat
    BY Widths
  <2> HIDE DEF p, B
  <2> QED BY <2>1, <2>2
<1>3. Value(data, p, o) \in Nat /\ 2^(B - o) \in Nat \ {0}
  <2>1. 2^(B - o) \in Nat \ {0}
    BY <1>2, PowType
  <2> HIDE DEF p
  <2> QED BY <1>1, <1>2, <2>1, ValueType
<1> HIDE DEF p, w, t
<1>4. CASE q < w
  <2>1. bs[q + 1] = Value(data, p, B) /\ p + B <= Len(data)
    <3>1. q \in 0 .. (w - 1)
      BY <1>1, <1>4 DEF w
    <3>2. q * B + B <= w * B
      BY <3>1, Parts DEF w
    <3> QED BY <1>1, <3>1, <3>2 DEF IsFile, w, p
  <2>2. Value(data, p, o + (B - o)) = Value(data, p, o) * 2^(B - o) + Value(data, p + o, B - o)
    <3>1. p + o + (B - o) <= Len(data)
      BY <1>1, <1>2, <2>1
    <3> HIDE DEF B
    <3> QED BY <1>1, <1>2, <3>1, ValueSplit
  <2>3. Value(data, p + o, B - o) \in 0 .. (2^(B - o) - 1)
    <3>1. p + o \in Nat /\ p + o + (B - o) <= Len(data) /\ B - o \in Nat /\ B - o <= LongestInt
      BY <1>1, <1>2, <2>1
    <3> HIDE DEF B
    <3> QED BY <3>1, ValueType
  <2>4. bs[q + 1] = Value(data, p, o) * 2^(B - o) + Value(data, p + o, B - o)
    BY <1>2, <2>1, <2>2
  <2>5. bs[q + 1] \div 2^(B - o) = Value(data, p, o) /\ bs[q + 1] % 2^(B - o) = Value(data, p + o, B - o)
    <3> DEFINE x == Value(data, p, o)
               m == 2^(B - o)
               y == Value(data, p + o, B - o)
    <3>1. x \in Nat /\ m \in Nat \ {0} /\ y \in 0 .. (m - 1) /\ bs[q + 1] = x * m + y
      BY <1>3, <2>3, <2>4
    <3> HIDE DEF x, m, y
    <3>2. (x * m + y) \div m = x /\ (x * m + y) % m = y
      BY <3>1, DivMod
    <3>3. bs[q + 1] \div m = x /\ bs[q + 1] % m = y
      BY <3>1, <3>2
    <3> QED BY <3>3 DEF x, m, y
  <2> QED BY <2>5 DEF p
<1>5. CASE q = w
  <2> DEFINE z == IF Fits(data) THEN t ELSE 0
             v == Value(data, p, t)
  <2>1. bs[q + 1] = v * 2^(B - t) + z
    BY <1>5 DEF IsFile, w, t, p
  <2>2. o <= t /\ t - o \in 0 .. LongestInt /\ B - t \in 0 .. LongestInt /\ (t - o) + (B - t) = B - o
        /\ o + (t - o) = t /\ t \in Nat /\ p + t = Len(data)
    <3>1. p + t = Len(data)
      BY <1>1, <1>5 DEF p
    <3>2. t \in 0 .. (B - 1) /\ B \in Nat \ {0} /\ B <= LongestInt /\ LongestInt \in Nat /\ p \in Nat
      BY <1>1, Widths
    <3> HIDE DEF B
    <3>3. o <= t
      BY <1>2, <3>1, <3>2
    <3> QED BY <1>2, <3>1, <3>2, <3>3
  <2>3. 2^(t - o) \in Nat \ {0} /\ 2^(B - t) \in Nat \ {0} /\ 2^(B - o) = 2^(t - o) * 2^(B - t)
    <3>1. 2^(t - o) \in Nat \ {0} /\ 2^(B - t) \in Nat \ {0}
      BY <2>2, PowType
    <3>2. 2^((t - o) + (B - t)) = 2^(t - o) * 2^(B - t)
      <4>1. t - o \in Nat /\ B - t \in Nat /\ (t - o) + (B - t) <= LongestInt
        BY <1>2, <2>2
      <4> QED BY <4>1, PowSum
    <3> QED BY <2>2, <3>1, <3>2
  <2>4. z \in 0 .. (2^(B - t) - 1)
    <3>1. CASE Fits(data)
      <4>1. t <= B - TrailerBits
        BY <3>1 DEF Fits, t
      <4>2. TrailerBits <= B - t /\ B - t <= LongestInt /\ B - t \in Nat
        BY <1>1, <2>2, <4>1
      <4>3. 2^TrailerBits <= 2^(B - t)
        BY <1>1, <4>2, PowRises
      <4>4. B <= 2^(B - t)
        BY <4>3 DEF ByteBits
      <4> HIDE DEF B
      <4> QED BY <1>1, <2>3, <3>1, <4>4
    <3>2. CASE ~Fits(data)
      BY <2>3, <3>2
    <3> QED BY <3>1, <3>2
  <2>5. Value(data, p, o + (t - o)) = Value(data, p, o) * 2^(t - o) + Value(data, p + o, t - o)
    <3>1. p + o + (t - o) <= Len(data) /\ t - o \in Nat /\ t - o <= LongestInt
      BY <1>1, <2>2
    <3> QED BY <1>1, <1>2, <3>1, ValueSplit
  <2>6. Value(data, p + o, t - o) \in 0 .. (2^(t - o) - 1)
    <3>1. p + o \in Nat /\ p + o + (t - o) <= Len(data) /\ t - o \in Nat /\ t - o <= LongestInt
      BY <1>1, <1>2, <2>2
    <3> QED BY <3>1, ValueType
  <2> DEFINE x == Value(data, p, o)
             y == Value(data, p + o, t - o)
             m == 2^(t - o)
             n == 2^(B - t)
  <2>7. v = x * m + y
    BY <2>2, <2>5
  <2> HIDE DEF v, x, y, m, n, z
  <2>8. /\ x \in Nat /\ m \in Nat \ {0} /\ n \in Nat \ {0}
        /\ y \in 0 .. (m - 1) /\ z \in 0 .. (n - 1) /\ 2^(B - o) = m * n
    BY <1>3, <2>3, <2>4, <2>6 DEF x, y, m, n
  <2>9. bs[q + 1] = x * (m * n) + (y * n + z) /\ y * n + z \in 0 .. (m * n - 1)
    <3>1. bs[q + 1] = (x * m + y) * n + z
      BY <2>1, <2>7 DEF n
    <3> QED BY <2>8, <3>1, Mixed
  <2>10. bs[q + 1] \div 2^(B - o) = x
    <3> DEFINE k == m * n
               r == y * n + z
    <3>1. k \in Nat \ {0}
      BY <1>3, <2>8
    <3>2. r \in 0 .. (k - 1) /\ bs[q + 1] = x * k + r
      BY <2>9
    <3> HIDE DEF k, r
    <3>3. bs[q + 1] \div k = x
      BY <2>8, <3>1, <3>2, DivMod
    <3> QED BY <2>8, <3>3 DEF k
  <2>11. ~(q < w)
    BY <1>1, <1>5
  <2> QED BY <2>10, <2>11 DEF x, w, p
<1> QED BY <1>1, <1>4, <1>5 DEF w

(* The trailer of the last byte. *)
LEMMA Trailer ==
  ASSUME NEW data \in Seq({0, 1}), NEW bs, IsFile(data, bs)
  PROVE  /\ Fits(data) => bs[Whole(data) + 1] % 2^TrailerBits = Tail1(data)
         /\ Tail1(data) % 2^TrailerBits = Tail1(data)
<1> DEFINE B == ByteBits
           w == Whole(data)
           t == Tail1(data)
           v == Value(data, w * B, t)
           m == 2^TrailerBits
<1>1. /\ B \in Nat \ {0} /\ B <= LongestInt /\ w \in Nat /\ t \in 0 .. (B - 1) /\ Len(data) = w * B + t
      /\ w * B \in Nat /\ TrailerBits \in Nat /\ TrailerBits + 2 <= B
  BY Parts, Widths
<1>2. m = B /\ m \in Nat \ {0} /\ t \in 0 .. (m - 1)
  BY <1>1 DEF ByteBits
<1>3. v \in Nat
  <2>1. t \in Nat /\ w * B + t <= Len(data)
    BY <1>1
  <2> HIDE DEF w, t
  <2> QED BY <1>1, <2>1, ValueType
<1> HIDE DEF v, m
<1>4. t % m = t
  <2>1. (0 * m + t) % m = t
    <3> HIDE DEF t
    <3> QED BY <1>2, DivMod
  <2>2. 0 * m + t = t
    BY <1>1, <1>2
  <2> QED BY <2>1, <2>2
<1>5. ASSUME Fits(data) PROVE bs[w + 1] % m = t
  <2>1. bs[w + 1] = v * 2^(B - t) + t
    BY <1>5 DEF IsFile, v, w, t
  <2>2. B - t - TrailerBits \in Nat /\ (B - t - TrailerBits) + TrailerBits = B - t /\ B - t <= LongestInt
    <3>1. t <= B - TrailerBits
      BY <1>5 DEF Fits
    <3>2. t \in 0 .. (B - 1) /\ B \in Nat \ {0} /\ B <= LongestInt /\ TrailerBits \in Nat /\ LongestInt \in Nat
      BY <1>1, Widths
    <3> HIDE DEF B, t
    <3> QED BY <3>1, <3>2
  <2>3. 2^(B - t) = 2^(B - t - TrailerBits) * m /\ 2^(B - t - TrailerBits) \in Nat
    <3>1. B - t - TrailerBits \in 0 .. LongestInt
      <4>1. B - t - TrailerBits \in Nat /\ B - t - TrailerBits <= LongestInt /\ LongestInt \in Nat
        <5>1. t \in 0 .. (B - 1) /\ B \in Nat \ {0} /\ TrailerBits \in Nat /\ LongestInt \in Nat
          BY <1>1, Widths
        <5> HIDE DEF B, t
        <5> QED BY <2>2, <5>1
      <4> HIDE DEF B, t
      <4> QED BY <4>1
    <3>2. 2^((B - t - TrailerBits) + TrailerBits) = 2^(B - t - TrailerBits) * m
      BY <1>1, <2>2, PowSum DEF m
    <3> QED BY <2>2, <3>1, <3>2, PowType
  <2> DEFINE k == 2^(B - t - TrailerBits)
             x == v * k
  <2>4. x \in Nat /\ bs[w + 1] = x * m + t
    <3> HIDE DEF k, w, t
    <3>1. k \in Nat /\ bs[w + 1] = v * (k * m) + t
      BY <2>1, <2>3 DEF k
    <3>2. v * (k * m) = (v * k) * m
      BY <1>2, <1>3, <3>1
    <3> QED BY <1>3, <3>1, <3>2
  <2> HIDE DEF x, w, t
  <2>5. (x * m + t) % m = t
    BY <1>2, <2>4, DivMod
  <2> QED BY <2>4, <2>5
<1> QED BY <1>4, <1>5 DEF m

-----------------------------------------------------------------------------
(* The buffers.  Ahead: byte q (from 0) is in m_next and will be loaded by *)
(* read_next; Loaded: it is in m_current.                                  *)

InType(s) ==
  s \in [pos : Nat, good : BOOLEAN, current : Nat, next : Nat,
         final : BOOLEAN, finalBits : Nat, cursor : Nat]

Ahead(s, q) ==
  /\ ~s.final
  /\ s.pos = q + 1
  /\ s.next = bytes[q + 1]
  /\ q + 1 < Len(bytes) => s.good

Loaded(s, q) ==
  /\ s.current = bytes[q + 1]
  /\ q < Whole(content) => Ahead(s, q + 1)
  /\ q = Whole(content) => s.final /\ s.finalBits = Tail1(content) /\ s.next = 0

(* The next bit to be read is bit p (from 0) of the content.               *)
Placed(s, p) ==
  /\ InType(s)
  /\ p \in 0 .. Len(content)
  /\ Loaded(s, p \div ByteBits)
  /\ s.cursor = MSB - (p % ByteBits)

(* The file at hand. *)
TrailedFile == content \in Seq({0, 1}) /\ IsFile(content, bytes)

LEMMA FileFacts ==
  ASSUME TrailedFile
  PROVE  /\ bytes \in Seq(Nat) /\ Len(bytes) \in Nat
         /\ Whole(content) \in Nat /\ Whole(content) + 1 <= Len(bytes)
         /\ Fits(content) => Len(bytes) = Whole(content) + 1
         /\ ~Fits(content) => /\ Len(bytes) = Whole(content) + 2
                              /\ bytes[Whole(content) + 2] = Tail1(content)
                              /\ Tail1(content) > ByteBits - TrailerBits
         /\ Fits(content) => Tail1(content) <= ByteBits - TrailerBits
         /\ Fits(content) => bytes[Whole(content) + 1] % 2^TrailerBits = Tail1(content)
         /\ Tail1(content) % 2^TrailerBits = Tail1(content)
         /\ Tail1(content) \in Nat
         /\ \A q \in 0 .. Whole(content) : bytes[q + 1] \in Nat /\ q + 1 <= Len(bytes)
<1>1. content \in Seq({0, 1}) /\ IsFile(content, bytes)
  BY DEF TrailedFile
<1>2. bytes \in Seq(Nat) /\ Len(bytes) \in Nat
  BY <1>1 DEF IsFile
<1>3. Whole(content) \in Nat /\ Tail1(content) \in Nat
  BY <1>1, Parts
<1>4. /\ Fits(content) => bytes[Whole(content) + 1] % 2^TrailerBits = Tail1(content)
      /\ Tail1(content) % 2^TrailerBits = Tail1(content)
  BY <1>1, Trailer
<1>5. /\ Len(bytes) = IF Fits(content) THEN Whole(content) + 1 ELSE Whole(content) + 2
      /\ ~Fits(content) => bytes[Whole(content) + 2] = Tail1(content)
  BY <1>1 DEF IsFile
<1>6. \A q \in 0 .. Whole(content) : bytes[q + 1] \in Nat /\ q + 1 <= Len(bytes)
  BY <1>2, <1>3, <1>5
<1>7. /\ Fits(content) => Tail1(content) <= ByteBits - TrailerBits
      /\ ~Fits(content) => Tail1(content) > ByteBits - TrailerBits
  BY <1>3, Widths DEF Fits
<1> QED BY <1>2, <1>3, <1>4, <1>5, <1>6, <1>7

(* The next byte in m_next. *)
Moved(s, byte) == [s EXCEPT !.pos = @ + 1, !.next = byte]

LEMMA MovedIs ==
  ASSUME NEW s, InType(s), NEW byte \in Nat
  PROVE  /\ InType(Moved(s, byte))
         /\ Moved(s, byte).pos = s.pos + 1 /\ Moved(s, byte).next = byte
         /\ Moved(s, byte).good = s.good /\ Moved(s, byte).final = s.final
         /\ Moved(s, byte).current = s.current /\ Moved(s, byte).cursor = s.cursor
<1>1. s.pos \in Nat
  BY DEF InType
<1>2. s.pos + 1 \in Nat
  BY <1>1
<1>3. ASSUME NEW x \in Nat PROVE InType([s EXCEPT !.pos = x, !.next = byte])
  BY DEF InType
<1>4. Moved(s, byte) = [s EXCEPT !.pos = s.pos + 1, !.next = byte]
  BY DEF Moved
<1>5. InType(Moved(s, byte))
  BY <1>2, <1>3, <1>4
<1> QED BY <1>5 DEF InType, Moved

(* read_next_from_stream in front of a byte that holds data.               *)
LEMMA NextLooks ==
  ASSUME TrailedFile, NEW s, InType(s), NEW q \in 0 .. Whole(content),
         ~s.final, s.good, s.pos = q
  PROVE  InType(NextFromStream(s)) /\ Ahead(NextFromStream(s), q)
<1> DEFINE W == Whole(content)
           byte == bytes[q + 1]
           trailer == byte % 2^TrailerBits
<1>1. bytes[q + 1] \in Nat /\ q + 1 <= Len(bytes) /\ Len(bytes) \in Nat
  BY FileFacts
<1>2. trailer \in Nat
  <2>1. 2^TrailerBits \in Nat \ {0}
    BY Widths, PowType
  <2> QED BY <1>1, <2>1
<1>3. CanGet(s)
  BY <1>1 DEF CanGet
<1>4. CASE q + 1 < Len(bytes)
  <2>1. NextFromStream(s) = Moved(s, byte)
    <3>1. s.pos + 1 < Len(bytes) /\ bytes[s.pos + 1] = byte
      BY <1>4
    <3>2. NextFromStream(s) = Moved(s, bytes[s.pos + 1])
      BY <1>3, <3>1, Zenon DEF NextFromStream, Moved
    <3> QED BY <3>1, <3>2
  <2> DEFINE m == Moved(s, byte)
  <2>2. InType(m) /\ m.pos = q + 1 /\ m.next = byte /\ m.final = s.final /\ m.good = s.good
    BY <1>1, MovedIs
  <2> HIDE DEF m
  <2>3. Ahead(m, q)
    BY <2>2 DEF Ahead
  <2> QED BY <2>1, <2>2, <2>3 DEF m
<1>5. CASE q + 1 = Len(bytes)
  <2>1. q = Whole(content) /\ Fits(content) /\ trailer <= ByteBits - TrailerBits
    <3>1. q = Whole(content) /\ Fits(content)
      BY <1>5, FileFacts
    <3> QED BY <3>1, FileFacts
  <2>2. ~(trailer > ByteBits - TrailerBits)
    <3> HIDE DEF trailer
    <3> QED BY <1>2, <2>1, Widths
  <2>3. NextFromStream(s) = [Moved(s, byte) EXCEPT !.good = FALSE, !.finalBits = trailer]
    <3>1. ~(s.pos + 1 < Len(bytes)) /\ bytes[s.pos + 1] = byte
      BY <1>1, <1>5
    <3>2. ~(bytes[s.pos + 1] % 2^TrailerBits > ByteBits - TrailerBits)
      BY <2>2, <3>1
    <3>3. NextFromStream(s) = [Moved(s, bytes[s.pos + 1]) EXCEPT !.good = FALSE, !.finalBits = bytes[s.pos + 1] % 2^TrailerBits]
      BY <1>3, <3>1, <3>2, Zenon DEF NextFromStream, Moved
    <3> QED BY <3>1, <3>3
  <2> HIDE DEF trailer
  <2> DEFINE m == Moved(s, byte)
             v == [m EXCEPT !.good = FALSE, !.finalBits = trailer]
  <2>4. InType(m) /\ m.pos = q + 1 /\ m.next = byte /\ m.final = s.final
    BY <1>1, MovedIs
  <2> HIDE DEF m
  <2>5. InType(v) /\ v.pos = m.pos /\ v.next = m.next /\ v.final = m.final
    BY <1>2, <2>4 DEF InType
  <2>6. NextFromStream(s) = v
    BY <2>3 DEF m
  <2> HIDE DEF v
  <2> QED BY <1>5, <2>4, <2>5, <2>6 DEF Ahead
<1> QED BY <1>1, <1>4, <1>5

LEMMA ReadNextLoads ==
  ASSUME TrailedFile, NEW s, InType(s), NEW q \in 0 .. Whole(content), Ahead(s, q)
  PROVE  InType(ReadNext(s)) /\ Loaded(ReadNext(s), q) /\ ReadNext(s).cursor = MSB
<1> DEFINE W == Whole(content)
           u == [s EXCEPT !.current = s.next, !.cursor = MSB]
           v == NextFromStream(u)
<1>1. MSB \in Nat
  BY Widths DEF MSB
<1>2. /\ InType(u) /\ u.current = bytes[q + 1] /\ u.cursor = MSB /\ u.pos = q + 1 /\ ~u.final
      /\ q + 1 < Len(bytes) => u.good
  BY <1>1 DEF InType, Ahead
<1>3. ReadNext(s) = v
  BY DEF ReadNext
<1> HIDE DEF u
<1>4. v.current = u.current /\ v.cursor = u.cursor
  <2> QED BY <1>2 DEF InType, NextFromStream
<1>5. CASE q < W
  <2>1. q + 1 \in 0 .. W /\ q + 1 < Len(bytes)
    BY <1>5, FileFacts
  <2>2. InType(v) /\ Ahead(v, q + 1)
    BY <1>2, <2>1, NextLooks
  <2> HIDE DEF v
  <2> QED BY <1>2, <1>3, <1>4, <1>5, <2>2 DEF Loaded
<1>6. CASE q = W /\ Fits(content)
  <2>1. q + 1 = Len(bytes) /\ bytes[q + 1] % 2^TrailerBits = Tail1(content) /\ Tail1(content) \in Nat
    BY <1>6, FileFacts
  <2>2. ~CanGet(u)
    BY <1>2, <2>1 DEF CanGet
  <2>3. v = [u EXCEPT !.good = FALSE, !.final = TRUE, !.finalBits = Tail1(content), !.next = 0]
    <3>1. u.current % 2^TrailerBits = Tail1(content)
      BY <1>2, <2>1
    <3>2. v = [u EXCEPT !.good = FALSE, !.final = TRUE, !.finalBits = u.current % 2^TrailerBits, !.next = 0]
      BY <2>2, Zenon DEF NextFromStream
    <3> HIDE DEF v
    <3> QED BY <3>1, <3>2
  <2> HIDE DEF v
  <2>4. InType(v) /\ v.final /\ v.finalBits = Tail1(content) /\ v.next = 0
    BY <1>2, <2>1, <2>3 DEF InType
  <2> QED BY <1>2, <1>3, <1>4, <1>6, <2>4 DEF Loaded
<1>7. CASE q = W /\ ~Fits(content)
  <2>1. /\ q + 1 < Len(bytes) /\ (q + 1) + 1 = Len(bytes) /\ bytes[(q + 1) + 1] = Tail1(content)
        /\ Tail1(content) \in Nat /\ Tail1(content) > ByteBits - TrailerBits
        /\ Tail1(content) % 2^TrailerBits = Tail1(content)
    BY <1>7, FileFacts
  <2>2. CanGet(u)
    BY <1>2, <2>1 DEF CanGet
  <2> DEFINE t == Tail1(content)
             m == Moved(u, t)
  <2>3. v = [m EXCEPT !.good = FALSE, !.finalBits = t, !.final = TRUE, !.next = 0]
    <3>1. bytes[u.pos + 1] = t /\ ~(u.pos + 1 < Len(bytes)) /\ t % 2^TrailerBits = t /\ t > ByteBits - TrailerBits
      BY <1>2, <2>1
    <3> HIDE DEF t
    <3>2. v = [Moved(u, bytes[u.pos + 1]) EXCEPT !.good = FALSE, !.finalBits = bytes[u.pos + 1] % 2^TrailerBits, !.final = TRUE, !.next = 0]
      BY <2>2, <3>1, Zenon DEF NextFromStream, Moved
    <3> HIDE DEF v
    <3> QED BY <3>1, <3>2
  <2>4. InType(v) /\ v.final /\ v.finalBits = Tail1(content) /\ v.next = 0
    <3>1. InType(m) /\ t \in Nat
      BY <1>2, <2>1, MovedIs
    <3> HIDE DEF m, t, v
    <3>2. InType(v) /\ v.final /\ v.finalBits = t /\ v.next = 0
      BY <2>3, <3>1 DEF InType
    <3> QED BY <3>2 DEF t
  <2> HIDE DEF v
  <2> QED BY <1>2, <1>3, <1>4, <1>7, <2>4 DEF Loaded
<1>8. W \in Nat
  BY FileFacts
<1> QED BY <1>5, <1>6, <1>7, <1>8

-----------------------------------------------------------------------------
(* Reading bits *)

(* Place p of the content is in byte q, behind r of its bits. *)
LEMMA Place ==
  ASSUME content \in Seq({0, 1}), NEW p \in 0 .. Len(content)
  PROVE  LET q == p \div ByteBits
             r == p % ByteBits
         IN  /\ q \in 0 .. Whole(content) /\ r \in 0 .. MSB /\ p = q * ByteBits + r
             /\ q * ByteBits \in Nat
             /\ q = Whole(content) => r <= Tail1(content) /\ (r = Tail1(content) <=> p = Len(content))
             /\ q < Whole(content) => p < Len(content)
<1> DEFINE B == ByteBits
           N == Len(content)
           W == Whole(content)
           T == Tail1(content)
           q == p \div B
           r == p % B
<1>1. /\ B \in Nat \ {0} /\ W \in Nat /\ W * B \in Nat /\ T \in 0 .. (B - 1) /\ N = W * B + T
      /\ p \in Nat /\ N \in Nat /\ p <= N
  BY Parts, Widths
<1>2. q \in Nat /\ r \in 0 .. (B - 1) /\ q * B <= p /\ r = p - q * B /\ p < q * B + B
  BY <1>1, DivBounds
<1> HIDE DEF q, r, W, T, N, B
<1>3. q * B \in Nat /\ p = q * B + r
  <2>1. q * B \in Nat
    BY <1>1, <1>2
  <2> QED BY <1>1, <1>2, <2>1
<1>4. r \in 0 .. MSB
  BY <1>2 DEF MSB, B
<1>5. ~(W < q)
  <2> SUFFICES ASSUME W < q PROVE FALSE
    OBVIOUS
  <2>1. W * B + B <= q * B
    BY <1>1, <1>2, MulStrict
  <2> QED BY <1>1, <1>2, <1>3, <2>1
<1>6. q = W => r <= T /\ (r = T <=> p = N)
  BY <1>1, <1>2, <1>3
<1>7. q < W => p < N
  <2> SUFFICES ASSUME q < W PROVE p < N
    OBVIOUS
  <2>1. q * B + B <= W * B
    BY <1>1, <1>2, MulStrict
  <2> QED BY <1>1, <1>2, <1>3, <2>1
<1>8. q \in 0 .. W
  BY <1>1, <1>2, <1>5
<1> QED BY <1>3, <1>4, <1>6, <1>7, <1>8 DEF q, r, W, T, N, B

(* A place given by a byte and the bits of it. *)
LEMMA PlaceOf ==
  ASSUME NEW q \in Nat, NEW r \in 0 .. MSB
  PROVE  /\ (q * ByteBits + r) \div ByteBits = q /\ (q * ByteBits + r) % ByteBits = r
         /\ q * ByteBits + r \in Nat
<1>1. ByteBits \in Nat \ {0} /\ r \in 0 .. (ByteBits - 1)
  BY Widths DEF MSB
<1>2. q * ByteBits + r \in Nat
  BY <1>1
<1> QED BY <1>1, <1>2, DivMod

LEMMA PlacedAt ==
  ASSUME NEW s, InType(s), NEW q \in Nat, NEW r \in 0 .. MSB, NEW p, p = q * ByteBits + r,
         p <= Len(content), content \in Seq({0, 1}), Loaded(s, q), s.cursor = MSB - r
  PROVE  Placed(s, p)
<1>1. p \div ByteBits = q /\ p % ByteBits = r /\ p \in Nat
  BY PlaceOf
<1>2. p \in 0 .. Len(content)
  BY <1>1
<1>3. \A d, e : d = q /\ e = r => Loaded(s, d) /\ s.cursor = MSB - e
  OBVIOUS
<1>4. Loaded(s, p \div ByteBits) /\ s.cursor = MSB - (p % ByteBits)
  BY <1>1, <1>3, Zenon
<1> QED BY <1>2, <1>4, Zenon DEF Placed

LEMMA EofIs ==
  ASSUME TrailedFile, NEW s, NEW p, Placed(s, p)
  PROVE  Eof(s) <=> p = Len(content)
<1> DEFINE q == p \div ByteBits
           r == p % ByteBits
<1>1. /\ q \in 0 .. Whole(content) /\ r \in 0 .. MSB
      /\ q = Whole(content) => r <= Tail1(content) /\ (r = Tail1(content) <=> p = Len(content))
      /\ q < Whole(content) => p < Len(content)
  <2>1. p \in 0 .. Len(content) /\ content \in Seq({0, 1})
    BY DEF Placed, TrailedFile
  <2> QED BY <2>1, Place
<1>2. Loaded(s, q) /\ s.cursor = MSB - r
  BY Zenon DEF Placed
<1>3. p \in Nat /\ Len(content) \in Nat /\ MSB \in Nat /\ Tail1(content) \in Nat /\ Whole(content) \in Nat
  BY FileFacts, Widths DEF Placed, TrailedFile, MSB
<1> HIDE DEF q, r
<1>4. CASE q < Whole(content)
  BY <1>1, <1>2, <1>3, <1>4 DEF Loaded, Ahead, Eof
<1>5. CASE q = Whole(content)
  BY <1>1, <1>2, <1>3, <1>5 DEF Loaded, Eof
<1> QED BY <1>1, <1>3, <1>4, <1>5

LEMMA BitRead ==
  ASSUME TrailedFile, NEW s, NEW p, Placed(s, p), p < Len(content)
  PROVE  ReadBit(s).value = content[p + 1] /\ Placed(ReadBit(s).in, p + 1)
<1> DEFINE B == ByteBits
           N == Len(content)
           W == Whole(content)
           q == p \div B
           r == p % B
           c == s.cursor
           bit == content[p + 1]
<1>1. content \in Seq({0, 1}) /\ p \in 0 .. N /\ InType(s) /\ Loaded(s, q) /\ c = MSB - r
      /\ IsFile(content, bytes) /\ N \in Nat
  <2>1. p \in 0 .. N /\ InType(s) /\ Loaded(s, q) /\ c = MSB - r
    BY Zenon DEF Placed
  <2>2. content \in Seq({0, 1}) /\ IsFile(content, bytes) /\ N \in Nat
    BY DEF TrailedFile
  <2> QED BY <2>1, <2>2
<1>2. /\ q \in 0 .. W /\ r \in 0 .. MSB /\ p = q * B + r /\ q * B \in Nat
      /\ q = W => r <= Tail1(content) /\ (r = Tail1(content) <=> p = N)
  BY <1>1, Place
<1>3. B \in Nat \ {0} /\ MSB = B - 1 /\ MSB \in Nat /\ B <= LongestInt /\ W \in Nat /\ LongestInt \in Nat
  BY <1>1, Parts, Widths DEF MSB
<1> HIDE DEF q, r, N, W
<1>4. ~Eof(s)
  BY EofIs DEF N
<1>5. /\ ReadBit(s).value = (s.current \div 2^c) % 2
      /\ ReadBit(s).in = IF c > 0 THEN [s EXCEPT !.cursor = @ - 1] ELSE ReadNext(s)
  BY <1>4 DEF ReadBit
<1>6. (s.current \div 2^c) % 2 = bit
  <2>1. r + 1 \in 0 .. B /\ B - (r + 1) = c /\ r \in Nat
    BY <1>1, <1>2, <1>3
  <2>2. q * B + (r + 1) = p + 1 /\ q * B + (r + 1) <= N
    BY <1>1, <1>2, <2>1 DEF N
  <2>3. bytes[q + 1] \div 2^(B - (r + 1)) = Value(content, q * B, r + 1)
    BY <1>1, <1>2, <2>1, <2>2, ByteHead DEF W, N
  <2>4. Value(content, q * B, r + 1) = 2 * Value(content, q * B, r) + content[q * B + r + 1]
    BY <1>1, <1>2, <2>1, <2>2, ValueNext DEF N
  <2>5. Value(content, q * B, r) \in Nat /\ bit \in {0, 1}
    <3>1. Value(content, q * B, r) \in Nat
      <4>1. q * B + r <= Len(content)
        BY <1>1, <1>2 DEF N
      <4> QED BY <1>1, <1>2, <2>1, <4>1, ValueType
    <3>2. bit \in {0, 1}
      BY <1>1, ValueBit DEF N
    <3> QED BY <3>1, <3>2
  <2>6. s.current = bytes[q + 1]
    BY <1>1 DEF Loaded
  <2>7. s.current \div 2^c = 2 * Value(content, q * B, r) + bit
    BY <1>2, <2>1, <2>3, <2>4, <2>6
  <2> HIDE DEF bit
  <2>8. \A x \in Nat : (2 * x + bit) % 2 = bit
    BY <2>5
  <2> QED BY <2>5, <2>7, <2>8
<1>7. CASE c > 0
  <2> DEFINE u == [s EXCEPT !.cursor = @ - 1]
  <2>1. c - 1 \in Nat
    BY <1>1, <1>2, <1>3, <1>7
  <2>2. InType(u) /\ u.cursor = c - 1 /\ Loaded(u, q)
    <3>1. ASSUME NEW x \in Nat PROVE LET v == [s EXCEPT !.cursor = x] IN InType(v) /\ v.cursor = x /\ Loaded(v, q)
      BY <1>1 DEF InType, Loaded, Ahead
    <3>2. u = [s EXCEPT !.cursor = c - 1]
      OBVIOUS
    <3> QED BY <2>1, <3>1, <3>2
  <2>3. r + 1 \in 0 .. MSB /\ c - 1 = MSB - (r + 1) /\ p + 1 = q * B + (r + 1)
    BY <1>1, <1>2, <1>3, <1>7
  <2>4. q \in Nat /\ p + 1 <= Len(content)
    BY <1>1, <1>2, <1>3 DEF N
  <2> HIDE DEF u
  <2>5. u.cursor = MSB - (r + 1)
    BY <2>2, <2>3
  <2>6. Placed(u, p + 1)
    BY <1>1, <2>2, <2>3, <2>4, <2>5, PlacedAt
  <2> QED BY <1>5, <1>6, <1>7, <2>6 DEF u
<1>8. CASE c = 0
  <2>1. r = B - 1
    BY <1>1, <1>2, <1>3, <1>8
  <2>2. q < W
    <3>1. Tail1(content) \in 0 .. (B - 1)
      BY <1>1, Parts
    <3> QED BY <1>1, <1>2, <1>3, <2>1, <3>1 DEF N
  <2>3. Ahead(s, q + 1) /\ q + 1 \in 0 .. W
    BY <1>1, <1>2, <1>3, <2>2 DEF Loaded, W
  <2>4. InType(ReadNext(s)) /\ Loaded(ReadNext(s), q + 1) /\ ReadNext(s).cursor = MSB
    BY <1>1, <2>3, ReadNextLoads DEF W
  <2>5. p + 1 = (q + 1) * B + 0 /\ 0 \in 0 .. MSB /\ q + 1 \in Nat
    <3>1. (q + 1) * B = q * B + B /\ q \in Nat
      BY <1>2, <1>3
    <3> QED BY <1>2, <1>3, <2>1, <3>1
  <2>7. p + 1 <= Len(content) /\ ReadNext(s).cursor = MSB - 0
    BY <1>1, <1>3, <2>4 DEF N
  <2>8. Placed(ReadNext(s), p + 1)
    <3> DEFINE u == ReadNext(s)
               z == 0
    <3>1. InType(u) /\ Loaded(u, q + 1) /\ u.cursor = MSB - z /\ z \in 0 .. MSB /\ p + 1 = (q + 1) * B + z
      BY <2>4, <2>5, <2>7
    <3> HIDE DEF u, z
    <3>2. Placed(u, p + 1)
      BY <1>1, <2>5, <2>7, <3>1, PlacedAt
    <3> QED BY <3>2 DEF u
  <2> QED BY <1>5, <1>6, <1>8, <2>8
<1> QED BY <1>1, <1>2, <1>3, <1>7, <1>8

(* Bits one after the other: ReadBits is recursive, as InBase is.          *)
IsRead(f, s, n) == f = [k \in 0 .. n |-> IF k = 0 THEN [value |-> 0, in |-> s] ELSE OneMore(f[k - 1])]

LEMMA ReadExists ==
  ASSUME NEW s, NEW n \in Nat
  PROVE  \E f : IsRead(f, s, n)
<1> DEFINE none == {m \in Nat : ~ \E f : IsRead(f, s, m)}
           start == [value |-> 0, in |-> s]
<1>1. ASSUME NEW m \in none PROVE m # 0 /\ m - 1 \in none
  <2>1. m \in Nat /\ ~ \E f : IsRead(f, s, m)
    OBVIOUS
  <2>2. m # 0
    <3>1. IsRead([k \in 0 .. 0 |-> start], s, 0)
      BY DEF IsRead
    <3> QED BY <2>1, <3>1
  <2>3. ASSUME NEW g, IsRead(g, s, m - 1) PROVE FALSE
    <3> DEFINE f == [k \in 0 .. m |-> IF k = 0 THEN start ELSE OneMore(g[k - 1])]
    <3>1. /\ \A k \in 0 .. (m - 1) : g[k] = IF k = 0 THEN start ELSE OneMore(g[k - 1])
          /\ \A k \in 0 .. m : f[k] = IF k = 0 THEN start ELSE OneMore(g[k - 1])
          /\ f = [k \in 0 .. m |-> f[k]]
      BY <2>3 DEF IsRead
    <3> HIDE DEF f, none, start
    <3>2. ASSUME NEW k \in 0 .. (m - 1) PROVE f[k] = g[k]
      <4>1. k \in 0 .. m
        BY <2>1
      <4> QED BY <3>1, <4>1, Zenon
    <3>3. \A k \in 0 .. m : f[k] = IF k = 0 THEN start ELSE OneMore(f[k - 1])
      <4> SUFFICES ASSUME NEW k \in 0 .. m PROVE f[k] = IF k = 0 THEN start ELSE OneMore(f[k - 1])
        OBVIOUS
      <4>1. CASE k = 0
        BY <3>1, <4>1
      <4>2. CASE k # 0
        <5>1. k - 1 \in 0 .. (m - 1)
          BY <2>1, <4>2
        <5>2. f[k - 1] = g[k - 1]
          BY <3>2, <5>1
        <5> QED BY <3>1, <4>2, <5>2
      <4> QED BY <4>1, <4>2
    <3>4. IsRead(f, s, m)
      BY <3>1, <3>3 DEF IsRead, start
    <3> QED BY <2>1, <3>4
  <2>4. m - 1 \in Nat
    BY <2>1, <2>2
  <2> QED BY <2>2, <2>3, <2>4
<1>2. none \subseteq Nat
  OBVIOUS
<1> HIDE DEF none
<1>3. none = {}
  BY <1>1, <1>2, NoLeast
<1> QED BY <1>3 DEF none

LEMMA ReadBitsIs ==
  ASSUME NEW s, NEW n \in Nat
  PROVE  \E f : IsRead(f, s, n) /\ ReadBits(s, n) = f[n]
<1>1. \E f : IsRead(f, s, n)
  BY ReadExists
<1> QED BY <1>1, Zenon DEF ReadBits, IsRead

LEMMA BitsRead ==
  ASSUME TrailedFile, NEW s, NEW p, Placed(s, p), NEW n \in Nat, p + n <= Len(content)
  PROVE  ReadBits(s, n).value = Value(content, p, n) /\ Placed(ReadBits(s, n).in, p + n)
<1>1. content \in Seq({0, 1}) /\ p \in Nat /\ p <= Len(content) /\ Len(content) \in Nat
  BY DEF TrailedFile, Placed
<1>2. PICK f : IsRead(f, s, n) /\ ReadBits(s, n) = f[n]
  BY ReadBitsIs
<1>3. \A k \in 0 .. n : f[k] = IF k = 0 THEN [value |-> 0, in |-> s] ELSE OneMore(f[k - 1])
  <2>1. f = [k \in 0 .. n |-> IF k = 0 THEN [value |-> 0, in |-> s] ELSE OneMore(f[k - 1])]
    BY <1>2 DEF IsRead
  <2> QED BY <2>1, Zenon
<1> DEFINE right(k) == f[k].value = Value(content, p, k) /\ Placed(f[k].in, p + k)
           bad == {k \in 0 .. n : ~right(k)}
<1>4. ASSUME NEW k \in bad PROVE k # 0 /\ k - 1 \in bad
  <2>1. k \in 0 .. n /\ ~right(k)
    OBVIOUS
  <2>2. k # 0
    <3>1. CASE k = 0
      <4>1. f[k] = [value |-> 0, in |-> s]
        BY <1>3, <2>1, <3>1
      <4>2. f[k].value = 0 /\ f[k].in = s
        BY <4>1
      <4>3. Value(content, p, k) = 0 /\ p + k = p
        BY <1>1, <3>1, ValueEmpty
      <4> QED BY <2>1, <4>2, <4>3
    <3> QED BY <3>1
  <2>3. k - 1 \in 0 .. n /\ (k - 1) + 1 = k /\ k - 1 \in Nat /\ p + (k - 1) < Len(content)
        /\ p + (k - 1) + 1 = p + k
    BY <1>1, <2>1, <2>2
  <2> SUFFICES ASSUME right(k - 1) PROVE FALSE
    BY <2>2, <2>3
  <2> DEFINE g == f[k - 1]
             bit == ReadBit(g.in)
             d == p + (k - 1)
  <2>4. f[k] = [value |-> 2 * g.value + bit.value, in |-> bit.in]
    <3>1. f[k] = OneMore(g)
      BY <1>3, <2>1, <2>2
    <3> QED BY <3>1 DEF OneMore
  <2>5. Placed(g.in, d) /\ d < Len(content) /\ d + 1 = p + k
    BY <2>3
  <2>6. bit.value = content[d + 1] /\ Placed(bit.in, d + 1)
    <3> HIDE DEF d, g
    <3> QED BY <2>5, BitRead
  <2>7. Value(content, p, k) = 2 * Value(content, p, k - 1) + content[d + 1]
    BY <1>1, <2>3, ValueNext
  <2>8. f[k].value = 2 * g.value + bit.value /\ f[k].in = bit.in
    <3> HIDE DEF g, bit
    <3> QED BY <2>4
  <2>9. g.value = Value(content, p, k - 1)
    OBVIOUS
  <2> HIDE DEF g, bit, d
  <2>10. f[k].value = Value(content, p, k) /\ Placed(f[k].in, p + k)
    BY <2>5, <2>6, <2>7, <2>8, <2>9
  <2> QED BY <2>1, <2>10
<1>5. bad \subseteq Nat
  OBVIOUS
<1> HIDE DEF bad, right
<1>6. bad = {}
  BY <1>4, <1>5, NoLeast
<1>7. n \in 0 .. n
  OBVIOUS
<1>8. right(n)
  BY <1>6, <1>7 DEF bad
<1> QED BY <1>2, <1>8 DEF right

-----------------------------------------------------------------------------
(* Reading integers *)

(* Whole bytes of data make the number that their bits make.               *)
LEMMA JoinedIs ==
  ASSUME TrailedFile, NEW j \in Nat, NEW n \in Nat, j + n <= Whole(content),
         n * ByteBits <= LongestInt,
         NEW raw \in Seq(Nat), Len(raw) = n, \A k \in 1 .. n : raw[k] = bytes[j + k]
  PROVE  InBase(2^ByteBits, raw) = Value(content, j * ByteBits, n * ByteBits)
<1> DEFINE B == ByteBits
           N == Len(content)
           W == Whole(content)
           p == j * B
           base == 2^B
           wrong(t, m) == /\ Len(t) = m /\ \A k \in 1 .. m : t[k] = bytes[j + k]
                          /\ InBase(base, t) # Value(content, p, m * B)
           bad == {m \in 0 .. n : \E t \in Seq(Nat) : wrong(t, m)}
<1>1. /\ content \in Seq({0, 1}) /\ IsFile(content, bytes) /\ N \in Nat /\ W \in Nat
      /\ B \in Nat \ {0} /\ B <= LongestInt /\ W * B \in Nat /\ W * B <= N /\ p \in Nat
  <2>1. content \in Seq({0, 1}) /\ IsFile(content, bytes)
    BY DEF TrailedFile
  <2>2. /\ W \in Nat /\ W * B \in Nat /\ Tail1(content) \in 0 .. (B - 1) /\ N = W * B + Tail1(content)
        /\ B \in Nat \ {0} /\ B <= LongestInt
    BY <2>1, Parts, Widths
  <2>3. W * B <= N /\ N \in Nat
    <3> HIDE DEF W, N
    <3> DEFINE x == W * B
    <3>1. x \in Nat /\ Tail1(content) \in Nat /\ N = x + Tail1(content)
      BY <2>2
    <3> HIDE DEF x
    <3>2. x <= N /\ N \in Nat
      BY <3>1
    <3> QED BY <3>2 DEF x
  <2>4. p \in Nat
    BY <2>2
  <2> QED BY <2>1, <2>2, <2>3, <2>4
<1>2. ASSUME NEW m \in bad PROVE m # 0 /\ m - 1 \in bad
  <2>1. m \in 0 .. n
    OBVIOUS
  <2>2. PICK t \in Seq(Nat) : wrong(t, m)
    OBVIOUS
  <2> HIDE DEF p, base, bad
  <2>3. m # 0
    <3>1. CASE m = 0
      <4>1. t = << >> /\ m * B = 0
        BY <1>1, <2>2, <3>1, EmptySeq
      <4>2. p <= N
        <5>1. j <= W /\ j * B <= W * B
          <6>1. j <= W
            BY <1>1
          <6>2. CASE j = W
            BY <1>1, <6>2
          <6>3. CASE j < W
            <7>1. j * B + B <= W * B /\ j * B \in Nat
              BY <1>1, <6>3, MulStrict
            <7> HIDE DEF W
            <7> QED BY <1>1, <6>1, <7>1
          <6> QED BY <1>1, <6>1, <6>2, <6>3
        <5> QED BY <1>1, <5>1 DEF p
      <4>3. Value(content, p, m * B) = 0
        BY <1>1, <4>1, <4>2, ValueEmpty
      <4>4. InBase(base, t) = 0
        BY <4>1, InBaseEmpty
      <4> QED BY <2>2, <4>3, <4>4
    <3> QED BY <3>1
  <2>4. m - 1 \in Nat /\ (m - 1) + 1 = m /\ m - 1 \in 0 .. n /\ m \in Nat
    BY <2>1, <2>3
  <2> DEFINE f == SubSeq(t, 1, m - 1)
             a == (m - 1) * B
  <2>5. f \in Seq(Nat) /\ Len(f) = m - 1 /\ t[m] \in Nat /\ t = Append(f, t[m])
        /\ \A k \in 1 .. (m - 1) : f[k] = t[k]
    <3>1. f \in Seq(Nat) /\ Len(f) = m - 1 /\ t[m] \in Nat /\ t = Append(f, t[m])
      BY <2>2, <2>4, LastOff
    <3>2. \A k \in 1 .. (m - 1) : f[k] = t[k]
      BY <2>2, <2>4
    <3> QED BY <3>1, <3>2
  <2> HIDE DEF f
  <2>6. InBase(base, t) = base * InBase(base, f) + t[m]
    <3>1. InBase(base, Append(f, t[m])) = base * InBase(base, f) + t[m]
      BY <2>5, InBaseAppend
    <3> QED BY <2>5, <3>1
  <2>7. a \in Nat /\ m * B = a + B /\ a + B <= LongestInt /\ p + a + B <= W * B /\ (j + (m - 1)) * B = p + a
        /\ j + (m - 1) \in 0 .. (W - 1)
    <3>1. a \in Nat /\ m * B = a + B /\ (j + (m - 1)) * B = p + a
      <4>1. \A b \in Nat, e \in Nat : /\ e * b \in Nat /\ (e + 1) * b = e * b + b
                                      /\ (j + e) * b = j * b + e * b
        OBVIOUS
      <4> QED BY <1>1, <2>4, <4>1 DEF p
    <3>2. j + (m - 1) < W
      BY <1>1, <2>1, <2>4
    <3>3. (j + (m - 1)) * B + B <= W * B
      <4>1. j + (m - 1) \in Nat
        BY <2>4
      <4> HIDE DEF W
      <4> QED BY <1>1, <3>2, <4>1, MulStrict
    <3>4. m * B <= n * B
      <4>1. CASE m = n
        BY <1>1, <2>4, <4>1
      <4>2. CASE m < n
        <5>1. m * B + B <= n * B /\ m * B \in Nat
          BY <1>1, <2>4, <4>2, MulStrict
        <5>2. n * B \in Nat
          BY <1>1
        <5> QED BY <1>1, <5>1, <5>2
      <4> QED BY <2>1, <4>1, <4>2
    <3>5. n * B \in Nat /\ LongestInt \in Nat
      BY <1>1, Widths
    <3>6. a + B <= LongestInt
      <4> DEFINE x == n * B
                 y == m * B
      <4>1. x \in Nat /\ y = a + B /\ y <= x /\ x <= LongestInt
        BY <3>1, <3>4, <3>5
      <4> HIDE DEF x, y, a
      <4> QED BY <1>1, <3>1, <3>5, <4>1
    <3>7. j + (m - 1) \in 0 .. (W - 1)
      <4> HIDE DEF W
      <4> QED BY <1>1, <2>4, <3>2
    <3>8. p + a + B <= W * B
      <4> HIDE DEF a
      <4> QED BY <1>1, <3>1, <3>3
    <3> QED BY <3>1, <3>6, <3>7, <3>8
  <2> HIDE DEF a
  <2>8. t[m] = Value(content, p + a, B)
    <3>1. t[m] = bytes[j + m]
      BY <2>2, <2>3, <2>4
    <3>2. bytes[(j + (m - 1)) + 1] = Value(content, (j + (m - 1)) * B, B)
      BY <1>1, <2>7 DEF IsFile
    <3>3. (j + (m - 1)) + 1 = j + m
      BY <2>4
    <3> QED BY <2>7, <3>1, <3>2, <3>3
  <2>9. Value(content, p, a + B) = Value(content, p, a) * base + Value(content, p + a, B)
    <3>1. p + a + B <= N
      <4> DEFINE x == W * B
      <4>1. x \in Nat /\ p + a + B <= x /\ x <= N
        BY <1>1, <2>7
      <4> HIDE DEF x, N
      <4> QED BY <1>1, <2>7, <4>1
    <3> QED BY SMTT(30), <1>1, <2>7, <3>1, ValueSplit DEF base
  <2>10. Value(content, p, a) \in Nat /\ base \in Nat
    <3>1. base \in Nat
      BY <1>1, Widths, PowType DEF base
    <3>2. p + a <= N
      <4> DEFINE x == W * B
      <4>1. x \in Nat /\ p + a + B <= x /\ x <= N
        BY <1>1, <2>7
      <4> HIDE DEF x, N
      <4> QED BY <1>1, <2>7, <4>1
    <3> QED BY <1>1, <2>7, <3>1, <3>2, ValueType
  <2>11. InBase(base, f) # Value(content, p, a)
    <3> SUFFICES ASSUME InBase(base, f) = Value(content, p, a) PROVE FALSE
      OBVIOUS
    <3> DEFINE x == Value(content, p, a)
    <3>1. x * base = base * x
      BY <2>10
    <3> HIDE DEF x
    <3>2. InBase(base, t) = base * x + Value(content, p + a, B)
      BY <2>6, <2>8 DEF x
    <3>3. Value(content, p, m * B) = x * base + Value(content, p + a, B)
      <4>1. Value(content, p, m * B) = Value(content, p, a + B)
        BY <2>7
      <4> QED BY <2>9, <4>1 DEF x
    <3>4. InBase(base, t) = Value(content, p, m * B)
      BY <3>1, <3>2, <3>3
    <3> QED BY <2>2, <3>4
  <2>12. ASSUME NEW k \in 1 .. (m - 1) PROVE f[k] = bytes[j + k]
    <3>1. k \in 1 .. m
      BY <2>4
    <3>2. \A i \in 1 .. m : t[i] = bytes[j + i]
      BY <2>2
    <3>3. f[k] = t[k]
      BY <2>5
    <3> QED BY <3>1, <3>2, <3>3
  <2>13. m - 1 \in bad
    BY <2>4, <2>5, <2>11, <2>12 DEF bad, a
  <2> QED BY <2>3, <2>13
<1>3. bad \subseteq Nat
  OBVIOUS
<1> HIDE DEF bad
<1>4. bad = {}
  BY <1>2, <1>3, NoLeast
<1>5. n \in 0 .. n /\ n \notin bad
  BY <1>4
<1> QED BY <1>5 DEF bad

(* The whole bytes, if they and what is left of the integer are data.      *)
LEMMA WholeBytesRead ==
  ASSUME TrailedFile, NEW s, InType(s), NEW j \in 0 .. Whole(content), Ahead(s, j),
         NEW m \in Nat, NEW e \in 0 .. MSB, NEW rest, rest = m * ByteBits + e, rest <= LongestInt,
         j * ByteBits + rest <= Len(content)
  PROVE  /\ WholeBytes(s, rest).value = Value(content, j * ByteBits, m * ByteBits) * 2^e
         /\ InType(WholeBytes(s, rest).in) /\ Ahead(WholeBytes(s, rest).in, j + m)
         /\ j + m \in 0 .. Whole(content)
<1> DEFINE B == ByteBits
           N == Len(content)
           W == Whole(content)
           p == j * B
           whole == WholeBytes(s, rest)
<1>1. /\ content \in Seq({0, 1}) /\ IsFile(content, bytes) /\ N \in Nat /\ W \in Nat
      /\ B \in Nat \ {0} /\ B <= LongestInt /\ LongestInt \in Nat /\ MSB = B - 1
      /\ j \in Nat /\ p \in Nat /\ m * B \in Nat /\ rest \in Nat /\ e \in 0 .. (B - 1)
  <2>1. content \in Seq({0, 1}) /\ IsFile(content, bytes) /\ N \in Nat
    BY DEF TrailedFile
  <2>2. W \in Nat /\ B \in Nat \ {0} /\ B <= LongestInt /\ LongestInt \in Nat /\ MSB = B - 1
    BY <2>1, Parts, Widths DEF MSB
  <2>3. j \in Nat /\ p \in Nat /\ m * B \in Nat
    BY <2>2
  <2>4. e \in 0 .. (B - 1) /\ rest \in Nat
    BY <2>2, <2>3
  <2> QED BY <2>1, <2>2, <2>3, <2>4
<1>2. rest \div B = m /\ rest % B = e
  BY <1>1, DivMod
<1>3. m * B <= rest /\ p + rest <= N
  BY <1>1
<1>4. j + m <= W /\ (m > 0 => j + m - 1 < W)
  <2> DEFINE k == j + m
  <2>1. k * B = p + m * B /\ k \in Nat
    BY <1>1
  <2>2. W * B \in Nat /\ Tail1(content) \in 0 .. (B - 1) /\ N = W * B + Tail1(content)
    BY <1>1, Parts
  <2>3. ASSUME W < k PROVE FALSE
    <3>1. W * B + B <= k * B
      BY <1>1, <2>1, <2>3, MulStrict
    <3> DEFINE x == W * B
               y == m * B
               z == k * B
    <3>2. /\ x \in Nat /\ y \in Nat /\ y <= rest /\ z = p + y /\ x + B <= z
          /\ N = x + Tail1(content) /\ Tail1(content) < B /\ Tail1(content) \in Nat
      BY <1>1, <1>3, <2>1, <2>2, <3>1
    <3> HIDE DEF x, y, z, N, p
    <3> QED BY <1>1, <1>3, <3>2
  <2> HIDE DEF W
  <2> QED BY <1>1, <2>1, <2>3
<1>5. j + m \in 0 .. W
  BY <1>1, <1>4
<1>6. ASSUME m > 0
      PROVE  /\ j < W /\ s.good /\ s.pos = j + 1 /\ ~s.final
             /\ s.next = Value(content, p, B) /\ p + B <= N
  <2>1. j < W
    BY <1>1, <1>4, <1>6
  <2>2. j + 1 < Len(bytes)
    BY <1>1, <2>1, FileFacts
  <2>3. bytes[j + 1] = Value(content, p, B)
    BY <1>1, <2>1 DEF IsFile
  <2>4. p + B <= N
    <3>1. B <= m * B
      <4>1. 0 < m
        BY <1>6
      <4>2. 0 * B + B <= m * B
        BY <1>1, <4>1, MulStrict
      <4> QED BY <1>1, <4>2
    <3> HIDE DEF p, N, B
    <3> QED BY <1>1, <1>3, <3>1
  <2> QED BY <2>1, <2>2, <2>3, <2>4 DEF Ahead
<1>7. CASE m = 0
  <2>1. rest = e /\ e < B /\ m * B = 0
    BY <1>1, <1>7
  <2>2. ~(rest >= 2 * B) /\ ~(rest >= B)
    BY <1>1, <2>1
  <2>3. whole = [value |-> 0, in |-> s]
    BY <2>2 DEF WholeBytes
  <2>4. Value(content, p, 0) = 0
    BY <1>1, <1>3, ValueEmpty
  <2>5. 2^e \in Nat
    BY <1>1, PowType
  <2>6. Value(content, p, m * B) * 2^e = 0
    BY <2>1, <2>4, <2>5
  <2>7. j + m = j
    BY <1>1, <1>7
  <2> HIDE DEF whole
  <2>8. whole.value = 0 /\ whole.in = s
    BY <2>3
  <2> QED BY <1>5, <2>6, <2>7, <2>8 DEF whole
<1>8. CASE m = 1
  <2>1. m * B = B /\ rest = B + e
    BY <1>1, <1>8
  <2>2. ~(rest >= 2 * B) /\ rest >= B /\ rest - B = e
    BY <1>1, <2>1
  <2> DEFINE moved == ReadNext(s)
  <2>3. whole = [value |-> moved.current * 2^(rest - B), in |-> moved]
    BY <2>2 DEF WholeBytes
  <2>4. InType(moved) /\ Loaded(moved, j)
    BY ReadNextLoads
  <2>5. moved.current = s.next /\ Ahead(moved, j + 1)
    BY <1>6, <1>8, <2>4 DEF Loaded, Ahead
  <2> HIDE DEF moved, whole
  <2>6. whole.value = s.next * 2^e /\ whole.in = moved
    BY <2>2, <2>3, <2>5
  <2>7. s.next = Value(content, p, m * B)
    BY <1>6, <1>8, <2>1
  <2> QED BY <1>5, <1>8, <2>4, <2>5, <2>6, <2>7 DEF whole
<1>9. CASE m > 1
  <2> DEFINE n == m - 1
             raw == RawBytes(s, n)
             after == AfterRaw(s, n)
             v == NextFromStream(after)
  <2>1. /\ n \in Nat /\ n > 0 /\ m * B = B + n * B /\ n * B \in Nat /\ B * n = n * B
        /\ (j + 1) * B = p + B /\ j + 1 \in Nat /\ (j + 1) + n = j + m /\ 2 * B <= m * B
    <3>1. n \in Nat /\ n > 0 /\ j + 1 \in Nat /\ (j + 1) + n = j + m /\ m = n + 1
      BY <1>1, <1>9
    <3>2. \A b \in Nat, k \in Nat : (k + 1) * b = b + k * b /\ k * b \in Nat /\ b * k = k * b
      OBVIOUS
    <3>3. (j + 1) * B = B + p
      BY <1>1, <3>2
    <3>4. m * B = B + n * B
      <4> HIDE DEF n
      <4> QED BY <1>1, <3>1, <3>2
    <3>5. 2 * B <= m * B
      <4>1. 1 * B + B <= m * B
        BY <1>1, <1>9, MulStrict
      <4> QED BY <1>1, <4>1
    <3> HIDE DEF n
    <3> QED BY <1>1, <3>1, <3>2, <3>3, <3>4, <3>5
  <2>2. rest >= 2 * B /\ n * B <= LongestInt /\ B + n * B <= LongestInt /\ p + (B + n * B) <= N
    <3> DEFINE x == n * B
               y == m * B
    <3>1. x \in Nat /\ y = B + x /\ y <= rest /\ rest <= LongestInt /\ p + rest <= N /\ 2 * B <= y
      BY <1>3, <2>1
    <3> HIDE DEF x, y, p, N, n
    <3>2. rest >= 2 * B /\ x <= LongestInt /\ B + x <= LongestInt /\ p + (B + x) <= N
      BY <1>1, <3>1
    <3> QED BY <3>2 DEF x
  <2>3. whole = [value |-> (s.next * 2^(B * n) + Joined(raw)) * 2^e, in |-> v]
    BY <1>2, <2>2 DEF WholeBytes
  <2>4. /\ s.good /\ s.pos = j + 1 /\ ~s.final
        /\ s.next = Value(content, p, B) /\ \A k \in 1 .. n : s.pos + k <= Len(bytes)
        /\ s.pos + n <= Len(bytes)
    <3>1. s.good /\ s.pos = j + 1 /\ ~s.final /\ s.next = Value(content, p, B)
      BY <1>6, <1>9
    <3>2. (j + 1) + n <= Len(bytes)
      BY <1>1, <1>4, <2>1, FileFacts
    <3>3. \A k \in 1 .. n : s.pos + k <= Len(bytes)
      BY <1>1, <2>1, <3>1, <3>2, FileFacts
    <3> QED BY <3>1, <3>2, <3>3
  <2>5. raw \in Seq(Nat) /\ Len(raw) = n /\ \A k \in 1 .. n : raw[k] = bytes[(j + 1) + k]
    <3>1. \A k \in 1 .. n : (j + 1) + k \in 1 .. Len(bytes)
      BY <1>1, <2>1, <2>4, FileFacts
    <3>2. \A k \in 1 .. n : bytes[(j + 1) + k] \in Nat
      <4>1. \A i \in 1 .. Len(bytes) : bytes[i] \in Nat
        <5>1. bytes \in Seq(Nat)
          BY FileFacts
        <5> QED BY <5>1
      <4> HIDE DEF n
      <4> QED BY <3>1, <4>1
    <3>3. raw = [k \in 1 .. n |-> bytes[(j + 1) + k]]
      <4> HIDE DEF n
      <4> QED BY <2>4 DEF RawBytes
    <3> HIDE DEF raw, n
    <3> QED BY <2>1, <3>2, <3>3
  <2>6. after = [s EXCEPT !.pos = @ + n]
    BY <2>4 DEF AfterRaw
  <2>7. InType(after) /\ after.pos = j + m /\ after.good /\ ~after.final
    <3>1. s.pos + n = j + m /\ j + m \in Nat
      BY <1>1, <2>1, <2>4
    <3>2. after = [s EXCEPT !.pos = j + m]
      BY <2>6, <3>1
    <3> HIDE DEF after, n
    <3> QED BY <2>4, <3>1, <3>2 DEF InType
  <2> HIDE DEF raw, after, n
  <2>8. InType(v) /\ Ahead(v, j + m)
    BY <1>5, <2>7, NextLooks
  <2> HIDE DEF v, whole
  <2>9. Joined(raw) = Value(content, p + B, n * B)
    <3>1. (j + 1) + n <= W
      BY <1>4, <2>1
    <3>2. InBase(2^B, raw) = Value(content, (j + 1) * B, n * B)
      BY <2>1, <2>2, <2>5, <3>1, JoinedIs
    <3> QED BY <2>1, <3>2 DEF Joined
  <2>10. Value(content, p, B + n * B) = Value(content, p, B) * 2^(n * B) + Value(content, p + B, n * B)
    <3> DEFINE x == n * B
    <3>1. x \in Nat /\ x <= LongestInt /\ p + B + x <= N
      <4>1. x \in Nat /\ x <= LongestInt /\ p + (B + x) <= N
        BY <2>1, <2>2
      <4> HIDE DEF x, p, N
      <4> QED BY <1>1, <4>1
    <3> HIDE DEF x
    <3>2. Value(content, p, B + x) = Value(content, p, B) * 2^x + Value(content, p + B, x)
      BY <1>1, <3>1, ValueSplit
    <3> QED BY <3>2 DEF x
  <2>11. s.next * 2^(B * n) + Joined(raw) = Value(content, p, m * B)
    BY <2>1, <2>4, <2>9, <2>10
  <2>12. whole.value = Value(content, p, m * B) * 2^e /\ whole.in = v
    BY <2>3, <2>11
  <2> QED BY <1>5, <2>8, <2>12 DEF whole
<1> QED BY <1>7, <1>8, <1>9

(* An integer is read as its bits are, and leaves the same buffers.        *)
LEMMA IntRead ==
  ASSUME TrailedFile, NEW s, NEW p, Placed(s, p),
         NEW width \in Nat, width <= LongestInt, p + width <= Len(content)
  PROVE  ReadInt(s, width).value = Value(content, p, width) /\ Placed(ReadInt(s, width).in, p + width)
<1> DEFINE B == ByteBits
           N == Len(content)
           W == Whole(content)
           q == p \div B
           r == p % B
           head == B - r
           rest == width - head
           m == rest \div B
           e == rest % B
           whole == WholeBytes(s, rest)
           moved == ReadNext(whole.in)
           high == s.current % 2^head
           o == p + head
<1>1. /\ content \in Seq({0, 1}) /\ IsFile(content, bytes) /\ p \in 0 .. N /\ N \in Nat
      /\ InType(s) /\ Loaded(s, q) /\ s.cursor = MSB - r
  <2>1. p \in 0 .. N /\ InType(s) /\ Loaded(s, q) /\ s.cursor = MSB - r
    BY Zenon DEF Placed
  <2>2. content \in Seq({0, 1}) /\ IsFile(content, bytes) /\ N \in Nat
    BY DEF TrailedFile
  <2> QED BY <2>1, <2>2
<1>2. q \in 0 .. W /\ r \in 0 .. MSB /\ p = q * B + r /\ q * B \in Nat
  BY <1>1, Place
<1>3. B \in Nat \ {0} /\ MSB = B - 1 /\ B <= LongestInt /\ LongestInt \in Nat /\ W \in Nat
  BY <1>1, Parts, Widths DEF MSB
<1> HIDE DEF q, r, N, W, B
<1>4. s.cursor + 1 = head /\ head \in 1 .. B /\ r + head = B
  BY <1>1, <1>2, <1>3
<1>5. CASE width < head
  <2>1. ReadInt(s, width) = ReadBits(s, width)
    BY <1>4, <1>5 DEF ReadInt
  <2> QED BY <2>1, BitsRead
<1>6. CASE ~(width < head)
  <2>1. rest \in Nat /\ width = head + rest /\ rest <= LongestInt /\ o + rest = p + width
        /\ o \in Nat /\ o = (q + 1) * B /\ q + 1 \in Nat /\ o + rest <= N
    <3>1. rest \in Nat /\ width = head + rest
      BY <1>3, <1>4, <1>6
    <3>2. (q + 1) * B = q * B + B /\ q + 1 \in Nat
      BY <1>2, <1>3
    <3>3. rest <= LongestInt /\ o + rest = p + width
      BY <1>1, <1>3, <1>4, <3>1
    <3>4. o = q * B + B
      <4> DEFINE x == q * B
      <4>1. x \in Nat /\ p = x + r /\ r + head = B /\ head \in Nat /\ r \in Nat
        BY <1>2, <1>3, <1>4
      <4> HIDE DEF x, head
      <4>2. o = x + B
        BY <1>3, <4>1
      <4> QED BY <4>2 DEF x
    <3>5. o \in Nat
      BY <1>2, <1>3, <3>4
    <3>6. p + width <= N
      BY DEF N
    <3> HIDE DEF rest, o
    <3> QED BY <3>1, <3>2, <3>3, <3>4, <3>5, <3>6
  <2>2. m \in Nat /\ e \in 0 .. MSB /\ rest = m * B + e /\ m * B \in Nat
    <3>1. m \in Nat /\ m * B <= rest /\ e = rest - m * B /\ e \in 0 .. (B - 1)
      <4> HIDE DEF rest
      <4> QED BY <1>3, <2>1, DivBounds
    <3> HIDE DEF rest, m, e
    <3>2. m * B \in Nat
      BY <1>3, <3>1
    <3> QED BY <1>3, <2>1, <3>1, <3>2
  <2> HIDE DEF rest, m, e, head, o
  <2>3. q < W
    <3> SUFFICES ASSUME q = W PROVE FALSE
      BY <1>2, <1>3
    <3>1. Tail1(content) \in 0 .. (B - 1) /\ N = W * B + Tail1(content) /\ W * B \in Nat
      BY <1>1, Parts DEF N, W, B
    <3>2. o = W * B + B
      <4>1. (W + 1) * B = W * B + B
        BY <1>3
      <4> QED BY <2>1, <4>1
    <3> DEFINE x == W * B
    <3>3. x \in Nat /\ o = x + B /\ N = x + Tail1(content)
      BY <3>1, <3>2
    <3> HIDE DEF x
    <3> QED BY <1>1, <1>3, <2>1, <3>1, <3>3
  <2>4. Ahead(s, q + 1) /\ q + 1 \in 0 .. W /\ s.current = bytes[q + 1]
    <3>1. Ahead(s, q + 1) /\ s.current = bytes[q + 1]
      BY <1>1, <2>3 DEF Loaded, W
    <3>2. q + 1 \in 0 .. W
      BY <1>2, <1>3, <2>3
    <3> QED BY <3>1, <3>2
  <2>5. high = Value(content, p, head)
    <3>1. q * B + r <= N /\ r \in 0 .. B
      BY <1>1, <1>2, <1>3
    <3>2. bytes[q + 1] % 2^(B - r) = Value(content, q * B + r, B - r)
      BY <1>1, <1>2, <2>3, <3>1, ByteHead DEF N, W, B
    <3> QED BY <1>2, <2>4, <3>2 DEF head
  <2>6. /\ whole.value = Value(content, o, m * B) * 2^e
        /\ InType(whole.in) /\ Ahead(whole.in, q + 1 + m) /\ q + 1 + m \in 0 .. W
    <3> DEFINE j == q + 1
    <3>1. /\ j * B + rest <= N /\ j \in 0 .. W /\ Ahead(s, j) /\ InType(s) /\ m \in Nat /\ e \in 0 .. MSB
          /\ rest = m * B + e /\ rest <= LongestInt
      BY <1>1, <2>1, <2>2, <2>4
    <3> HIDE DEF j
    <3>3. /\ whole.value = Value(content, j * B, m * B) * 2^e
          /\ InType(whole.in) /\ Ahead(whole.in, j + m) /\ j + m \in 0 .. W
      BY <3>1, WholeBytesRead DEF N, W, B
    <3>2. /\ whole.value = Value(content, (q + 1) * B, m * B) * 2^e
          /\ InType(whole.in) /\ Ahead(whole.in, (q + 1) + m) /\ (q + 1) + m \in 0 .. W
      BY <3>3 DEF j
    <3> HIDE DEF whole
    <3> QED BY <2>1, <3>2
  <2>7. InType(moved) /\ Loaded(moved, q + 1 + m) /\ moved.cursor = MSB
    BY <2>6, ReadNextLoads DEF W
  <2>8. p + width = (q + 1 + m) * B + e /\ q + 1 + m \in Nat /\ (q + 1 + m) * B = o + m * B
    <3>1. (q + 1 + m) * B = (q + 1) * B + m * B
      BY <1>3, <2>1, <2>2
    <3>2. q + 1 + m \in Nat
      BY <2>1, <2>2
    <3> QED BY <2>1, <2>2, <3>1, <3>2
  <2>9. ReadInt(s, width) =
          LET value == high * 2^rest + whole.value
          IN  IF e = 0 THEN [value |-> value, in |-> moved]
              ELSE [value |-> value + moved.current \div 2^(B - e), in |-> [moved EXCEPT !.cursor = MSB - e]]
    <3>1. ~(width < s.cursor + 1) /\ width - (s.cursor + 1) = rest /\ s.cursor + 1 = head
      BY <1>4, <1>6 DEF rest
    <3>2. ReadInt(s, width) =
            LET u == width - (s.cursor + 1)
                w == WholeBytes(s, u)
                v == ReadNext(w.in)
                x == u % ByteBits
                y == (s.current % 2^(s.cursor + 1)) * 2^u + w.value
            IN  IF x = 0 THEN [value |-> y, in |-> v]
                ELSE [value |-> y + v.current \div 2^(ByteBits - x), in |-> [v EXCEPT !.cursor = MSB - x]]
      BY <3>1, Zenon DEF ReadInt
    <3> QED BY <3>1, <3>2 DEF B, e
  <2> HIDE DEF high, whole, moved
  <2>10. Value(content, p, width) = high * 2^rest + Value(content, o, rest)
    <3>1. p \in Nat /\ head \in Nat /\ p + head + rest <= N /\ p + head = o
      BY <1>1, <1>4, <2>1 DEF o
    <3> QED BY <1>1, <2>1, <2>5, <3>1, ValueSplit DEF N
  <2>11. /\ Value(content, o, rest) = Value(content, o, m * B) * 2^e + Value(content, o + m * B, e)
         /\ e <= B /\ o + m * B + e <= N /\ e \in Nat
    <3> DEFINE x == m * B
    <3>1. x \in Nat /\ rest = x + e /\ e \in Nat /\ o + x + e <= N /\ e <= LongestInt /\ e <= B
      <4>1. x \in Nat /\ rest = x + e /\ e \in 0 .. (B - 1)
        BY <1>3, <2>2
      <4> HIDE DEF x
      <4> QED BY <1>1, <1>3, <2>1, <4>1
    <3> HIDE DEF x
    <3>2. Value(content, o, x + e) = Value(content, o, x) * 2^e + Value(content, o + x, e)
      BY <1>1, <2>1, <3>1, ValueSplit DEF N
    <3> QED BY <3>1, <3>2 DEF x
  <2>12. p + width <= Len(content) /\ Value(content, o, m * B) * 2^e \in Nat /\ high * 2^rest \in Nat
    <3>1. Value(content, o, m * B) \in Nat
      <4> DEFINE x == m * B
      <4>1. x \in Nat /\ o + x <= N
        <5>1. x \in Nat /\ o + x + e <= N /\ e \in Nat
          BY <2>2, <2>11
        <5> HIDE DEF x
        <5> QED BY <1>1, <2>1, <5>1
      <4> HIDE DEF x
      <4>2. Value(content, o, x) \in Nat
        BY <1>1, <2>1, <4>1, ValueType DEF N
      <4> QED BY <4>2 DEF x
    <3>2. high \in Nat
      <4>1. p \in Nat /\ head \in Nat /\ p + head <= N
        BY <1>1, <1>4, <2>1 DEF o
      <4> QED BY <1>1, <2>5, <4>1, ValueType DEF N
    <3>3. 2^e \in Nat /\ 2^rest \in Nat
      <4>1. e \in 0 .. LongestInt /\ rest \in 0 .. LongestInt
        BY <1>3, <2>1, <2>11
      <4> QED BY <4>1, PowType
    <3>4. \A x \in Nat, y \in Nat : x * y \in Nat
      OBVIOUS
    <3> QED BY <3>1, <3>2, <3>3, <3>4
  <2>13. CASE e = 0
    <3>1. ReadInt(s, width) = [value |-> high * 2^rest + whole.value, in |-> moved]
      BY <2>9, <2>13
    <3>2. Value(content, o + m * B, e) = 0
      <4> DEFINE x == o + m * B
      <4>1. x \in Nat /\ x <= N
        <5>1. x \in Nat
          BY <2>1, <2>2
        <5>2. x + e <= N
          BY <2>11
        <5> HIDE DEF x
        <5> QED BY <1>1, <2>13, <5>1, <5>2
      <4> HIDE DEF x
      <4>2. Value(content, x, 0) = 0
        BY <1>1, <4>1, ValueEmpty DEF N
      <4> QED BY <2>13, <4>2 DEF x
    <3>3. whole.value = Value(content, o, rest)
      BY <2>6, <2>11, <2>12, <3>2
    <3>4. ReadInt(s, width).value = Value(content, p, width) /\ ReadInt(s, width).in = moved
      BY <2>10, <3>1, <3>3
    <3>5. Placed(moved, p + width)
      <4>1. moved.cursor = MSB - e /\ e \in 0 .. MSB
        BY <1>3, <2>7, <2>13, <2>2
      <4> HIDE DEF N
      <4> QED BY <1>1, <2>7, <2>8, <2>12, <4>1, PlacedAt DEF B
    <3> QED BY <3>4, <3>5
  <2>14. CASE e # 0
    <3> DEFINE u == [moved EXCEPT !.cursor = MSB - e]
    <3>1. ReadInt(s, width) = [value |-> high * 2^rest + whole.value + moved.current \div 2^(B - e), in |-> u]
      BY <2>9, <2>14
    <3>2. moved.current \div 2^(B - e) = Value(content, o + m * B, e)
      <4>1. (q + 1 + m) * B + e <= N /\ e \in 0 .. B
        BY <2>8, <2>11, <1>3
      <4>2. bytes[(q + 1 + m) + 1] \div 2^(B - e) = Value(content, (q + 1 + m) * B, e)
        BY <1>1, <2>6, <4>1, ByteHead DEF N, W, B
      <4> QED BY <2>7, <2>8, <4>2 DEF Loaded
    <3>3. high * 2^rest + whole.value + Value(content, o + m * B, e) = Value(content, p, width)
      <4> DEFINE x == high * 2^rest
                 y == Value(content, o, m * B) * 2^e
                 z == Value(content, o + m * B, e)
      <4>1. z \in Nat
        <5> DEFINE k == o + m * B
        <5>1. k \in Nat /\ k + e <= N
          BY SMTT(30), <2>1, <2>2, <2>11
        <5> HIDE DEF k
        <5>2. Value(content, k, e) \in Nat
          BY <1>1, <2>11, <5>1, ValueType DEF N
        <5> QED BY <5>2 DEF k
      <4>2. x \in Nat /\ y \in Nat /\ whole.value = y /\ Value(content, o, rest) = y + z
        BY <2>6, <2>11, <2>12
      <4>3. Value(content, p, width) = x + Value(content, o, rest)
        BY <2>10
      <4> HIDE DEF x, y, z
      <4>4. x + whole.value + z = Value(content, p, width)
        BY <4>1, <4>2, <4>3
      <4> QED BY <4>4 DEF x, z
    <3>4. InType(u) /\ u.cursor = MSB - e /\ Loaded(u, q + 1 + m)
      <4>1. ASSUME NEW x \in Nat PROVE LET v == [moved EXCEPT !.cursor = x] IN InType(v) /\ v.cursor = x /\ Loaded(v, q + 1 + m)
        BY <2>7 DEF InType, Loaded, Ahead
      <4>2. MSB - e \in Nat
        BY <1>3, <2>2
      <4> QED BY <4>1, <4>2
    <3> HIDE DEF u
    <3>5. ReadInt(s, width).value = Value(content, p, width) /\ ReadInt(s, width).in = u
      BY <3>1, <3>2, <3>3
    <3>6. Placed(u, p + width)
      <4> HIDE DEF N
      <4> QED BY <1>1, <2>2, <2>8, <2>12, <3>4, PlacedAt DEF B
    <3> QED BY <3>5, <3>6
  <2> QED BY <2>13, <2>14
<1> QED BY <1>5, <1>6

-----------------------------------------------------------------------------
(* A file of plain bits, read in any way. *)

LEMMA SoughtIs ==
  ASSUME NEW b \in Nat, NEW n \in Nat
  PROVE  SubSeq(content, (b + n) - n + 1, b + n) = Slice(content, b, n)
<1>1. (b + n) - n + 1 = b + 1
  OBVIOUS
<1> QED BY <1>1 DEF Slice

(* The constructor is placed at the first bit. *)
LEMMA OpenedIs ==
  ASSUME TrailedFile
  PROVE  Placed(Opened, 0)
<1> DEFINE s == [Fresh EXCEPT !.pos = 1, !.next = bytes[1]]
           z == 0
<1>1. /\ content \in Seq({0, 1}) /\ Whole(content) \in Nat /\ bytes[z + 1] \in Nat
      /\ Len(bytes) \in Nat /\ 1 <= Len(bytes) /\ bytes \in Seq(Nat)
  <2>1. Whole(content) \in Nat /\ Whole(content) + 1 <= Len(bytes) /\ Len(bytes) \in Nat /\ bytes \in Seq(Nat)
    BY FileFacts
  <2>2. z \in 0 .. Whole(content)
    BY <2>1
  <2>3. bytes[z + 1] \in Nat
    <3> HIDE DEF z
    <3> QED BY <2>2, FileFacts
  <2> QED BY <2>1, <2>3 DEF TrailedFile
<1>2. bytes # << >>
  BY <1>1
<1>3. Opened = ReadNext(s)
  BY <1>2 DEF Opened
<1>4. InType(s) /\ Ahead(s, z)
  <2>1. z + 1 = 1
    OBVIOUS
  <2>2. bytes[1] \in Nat
    BY <1>1, <2>1
  <2>3. InType(Fresh) /\ Fresh.good /\ ~Fresh.final /\ Fresh.pos = 0
    BY DEF Fresh, InType
  <2>4. s = Moved(Fresh, bytes[1])
    <3>1. Fresh.pos + 1 = 1
      BY <2>3
    <3>2. Moved(Fresh, bytes[1]) = [Fresh EXCEPT !.pos = Fresh.pos + 1, !.next = bytes[1]]
      BY DEF Moved
    <3> QED BY <3>1, <3>2
  <2>5. InType(s) /\ s.pos = 1 /\ s.good /\ ~s.final /\ s.next = bytes[1]
    <3> DEFINE x == bytes[1]
               m == Moved(Fresh, x)
    <3>1. x \in Nat /\ s = m
      BY <2>2, <2>4
    <3> HIDE DEF s, x
    <3>2. /\ InType(m) /\ m.pos = Fresh.pos + 1 /\ m.next = x
          /\ m.good = Fresh.good /\ m.final = Fresh.final
      BY <2>3, <3>1, MovedIs
    <3> HIDE DEF m
    <3>3. InType(m) /\ m.pos = 1 /\ m.good /\ ~m.final /\ m.next = x
      BY <2>3, <3>2
    <3> QED BY <3>1, <3>3 DEF x
  <2> HIDE DEF s
  <2> QED BY <2>5 DEF Ahead
<1>5. z \in 0 .. Whole(content) /\ z \in 0 .. MSB /\ z \in Nat /\ MSB \in Nat
  BY <1>1, Widths DEF MSB
<1> DEFINE u == ReadNext(s)
<1> HIDE DEF s, z
<1>6. InType(u) /\ Loaded(u, z) /\ u.cursor = MSB
  BY <1>4, <1>5, ReadNextLoads
<1> HIDE DEF u
<1>7. 0 = z * ByteBits + z /\ 0 <= Len(content) /\ MSB = MSB - z
  BY <1>1, <1>5, Widths DEF z
<1>8. Placed(u, 0)
  BY <1>1, <1>5, <1>6, <1>7, PlacedAt
<1> QED BY <1>3, <1>8 DEF u

(* What a read of n bits leaves. *)
LEMMA ReadLeaves ==
  ASSUME TrailedFile, NEW p, Placed(in, p), NEW n \in Nat, n <= LongestInt, p + n <= Len(content)
  PROVE  /\ ReadInt(in, n).value = Value(content, p, n) /\ Placed(ReadInt(in, n).in, p + n)
         /\ ReadBits(in, n).value = Value(content, p, n) /\ Placed(ReadBits(in, n).in, p + n)
BY IntRead, BitsRead

(* Two placements at the same bit have the same buffers. *)
LEMMA PlacedSame ==
  ASSUME TrailedFile, NEW s, NEW t, NEW p, Placed(s, p), Placed(t, p)
  PROVE  s.cursor = t.cursor /\ s.current = t.current /\ s.next = t.next /\ s.final = t.final
<1> DEFINE q == p \div ByteBits
<1>1. q \in 0 .. Whole(content) /\ Whole(content) \in Nat
  <2>1. content \in Seq({0, 1}) /\ p \in 0 .. Len(content)
    BY DEF TrailedFile, Placed
  <2> QED BY <2>1, Place, FileFacts
<1>2. Loaded(s, q) /\ Loaded(t, q) /\ s.cursor = t.cursor /\ InType(s) /\ InType(t)
  BY Zenon DEF Placed
<1> HIDE DEF q
<1>3. s.final \in BOOLEAN /\ t.final \in BOOLEAN
  BY <1>2 DEF InType
<1>4. CASE q < Whole(content)
  BY <1>2, <1>3, <1>4 DEF Loaded, Ahead
<1>5. CASE q = Whole(content)
  BY <1>2, <1>3, <1>5 DEF Loaded
<1> QED BY <1>1, <1>4, <1>5

(* An integer that is there and that read_int takes. *)
LEMMA WidthFits ==
  ASSUME bitsRead \in Nat, Len(content) \in Nat, NEW width \in 1 .. Min({Remaining, LongestInt})
  PROVE  width \in Nat /\ width <= LongestInt /\ bitsRead + width <= Len(content)
<1> DEFINE x == IF Remaining <= LongestInt THEN Remaining ELSE LongestInt
           m == Min({Remaining, LongestInt})
<1>1. Remaining \in Int /\ LongestInt \in Int /\ Remaining = Len(content) - bitsRead
  BY Widths DEF Remaining
<1>2. x \in {Remaining, LongestInt} /\ \A y \in {Remaining, LongestInt} : x <= y
  BY <1>1
<1>3. m \in {Remaining, LongestInt} /\ \A y \in {Remaining, LongestInt} : m <= y
  BY <1>2, Zenon DEF Min
<1> HIDE DEF m
<1>4. m \in Int /\ m <= Remaining /\ m <= LongestInt
  BY <1>1, <1>3
<1>5. width \in 1 .. m
  BY DEF m
<1> QED BY <1>1, <1>4, <1>5

(* A trailed file and a stream at bitsRead have the properties about them. *)
StreamIsPlaced == TrailedFile /\ Placed(in, bitsRead)

LEMMA PlacedIsExact ==
  ASSUME StreamIsPlaced
  PROVE  EofExact /\ IntIsItsBits
<1>1. /\ TrailedFile /\ Placed(in, bitsRead) /\ bitsRead \in 0 .. Len(content) /\ Len(content) \in Nat
      /\ Remaining = Len(content) - bitsRead
  BY DEF StreamIsPlaced, Placed, TrailedFile, Remaining
<1>2. EofExact
  <2>1. Eof(in) <=> bitsRead = Len(content)
    BY <1>1, EofIs
  <2> QED BY <1>1, <2>1 DEF EofExact
<1>3. ASSUME NEW width \in 1 .. Min({Remaining, LongestInt})
      PROVE  LET int  == ReadInt(in, width)
                 bits == ReadBits(in, width)
             IN  /\ int.value = bits.value
                 /\ int.in.cursor = bits.in.cursor /\ int.in.current = bits.in.current
                 /\ int.in.next = bits.in.next /\ int.in.final = bits.in.final
  <2>1. width \in Nat /\ width <= LongestInt /\ bitsRead + width <= Len(content)
    <3>1. bitsRead \in Nat /\ Len(content) \in Nat
      BY <1>1
    <3> QED BY <3>1, WidthFits
  <2> DEFINE i == ReadInt(in, width)
             b == ReadBits(in, width)
  <2>2. i.value = b.value /\ Placed(i.in, bitsRead + width) /\ Placed(b.in, bitsRead + width)
    BY <1>1, <2>1, ReadLeaves
  <2> HIDE DEF i, b
  <2>3. /\ i.in.cursor = b.in.cursor /\ i.in.current = b.in.current
        /\ i.in.next = b.in.next /\ i.in.final = b.in.final
    BY <1>1, <2>2, PlacedSame
  <2> QED BY <2>2, <2>3 DEF i, b
<1> QED BY <1>2, <1>3 DEF IntIsItsBits

(* The last integer read is what the file holds. *)
ResultRight ==
  /\ result.width \in 0 .. bitsRead
  /\ result.value = Number(SubSeq(content, bitsRead - result.width + 1, bitsRead))

LEMMA TrailedStarts ==
  ASSUME StreamInit, TrailedFile
  PROVE  StreamIsPlaced /\ ResultRight
<1>1. in = Opened /\ bitsRead = 0 /\ result.value = 0 /\ result.width = 0
  BY DEF StreamInit
<1>2. StreamIsPlaced
  BY <1>1, OpenedIs DEF StreamIsPlaced
<1>3. Number(SubSeq(content, 0 - 0 + 1, 0)) = 0
  <2> DEFINE z == 0
  <2>1. content \in Seq({0, 1}) /\ z \in Nat /\ z <= Len(content)
    BY DEF TrailedFile
  <2>2. SubSeq(content, (z + z) - z + 1, z + z) = Slice(content, z, z)
    <3> HIDE DEF z
    <3> QED BY <2>1, SoughtIs
  <2>3. Number(Slice(content, z, z)) = 0
    <3>1. Value(content, z, 0) = 0
      <4> HIDE DEF z
      <4> QED BY <2>1, ValueEmpty
    <3> QED BY <3>1 DEF Value
  <2>4. (z + z) - z + 1 = 0 - 0 + 1 /\ z + z = 0
    OBVIOUS
  <2> QED BY <2>2, <2>3, <2>4
<1>4. 0 \in 0 .. 0
  OBVIOUS
<1> QED BY <1>1, <1>2, <1>3, <1>4 DEF ResultRight

(* A placement does not depend on anything but the file. *)
LEMMA PlacedStays ==
  ASSUME NEW s, NEW p, Placed(s, p), UNCHANGED file
  PROVE  Placed(s, p)'
<1>1. content' = content /\ bytes' = bytes
  BY DEF file
<1> QED BY <1>1 DEF Placed, Loaded, Ahead, InType, Whole, Tail1

LEMMA ReadMoves ==
  ASSUME TrailedFile, NEW s, NEW p \in Nat, NEW n \in Nat, Placed(s, p + n), UNCHANGED file,
         in' = s, bitsRead' = p + n, result' = [value |-> Value(content, p, n), width |-> n]
  PROVE  StreamIsPlaced' /\ ResultRight'
<1>1. content' = content /\ bytes' = bytes
  BY DEF file
<1>2. TrailedFile'
  BY <1>1 DEF TrailedFile, IsFile, Whole, Tail1, Fits, Value, Slice
<1>3. Placed(s, p + n)'
  <2> DEFINE q == p + n
  <2>1. Placed(s, q)
    OBVIOUS
  <2> HIDE DEF q
  <2>2. Placed(s, q)'
    BY <2>1, PlacedStays
  <2> QED BY <2>2 DEF q
<1>4. StreamIsPlaced'
  BY <1>2, <1>3 DEF StreamIsPlaced
<1>5. result'.width = n /\ result'.value = Value(content, p, n)
  <2> DEFINE x == Value(content, p, n)
  <2>1. result' = [value |-> x, width |-> n]
    OBVIOUS
  <2> HIDE DEF x
  <2>2. result'.width = n /\ result'.value = x
    BY <2>1
  <2> QED BY <2>2 DEF x
<1>6. SubSeq(content, (p + n) - n + 1, p + n) = Slice(content, p, n)
  BY SoughtIs
<1>7. n \in 0 .. (p + n)
  OBVIOUS
<1> QED BY <1>1, <1>4, <1>5, <1>6, <1>7 DEF ResultRight, Value

-----------------------------------------------------------------------------
(* Plain bits, read in any way. *)

BitsInv == given.kind = "bits" => pc = "bits" /\ trailed /\ StreamIsPlaced /\ ResultRight

LEMMA BitsInit == ASSUME Init PROVE BitsInv
<1> SUFFICES ASSUME given.kind = "bits" PROVE pc = "bits" /\ trailed /\ StreamIsPlaced /\ ResultRight
  BY DEF BitsInv
<1>1. content = given.data /\ bytes = Encoded(content) /\ StreamInit /\ pc = "bits" /\ trailed
  BY DEF Init
<1>2. given.data \in Seq({0, 1})
  <2>1. IsInput(given)
    BY DecodersAssumption DEF Init
  <2> QED BY <2>1 DEF IsInput
<1>3. TrailedFile
  BY <1>1, <1>2, EncodedIs DEF TrailedFile
<1> QED BY <1>1, <1>3, TrailedStarts

LEMMA BitsNext == ASSUME BitsInv, [Next]_vars PROVE BitsInv'
<1>1. CASE UNCHANGED vars
  <2>1. /\ given' = given /\ pc' = pc /\ content' = content /\ bytes' = bytes /\ trailed' = trailed
        /\ in' = in /\ bitsRead' = bitsRead /\ result' = result
    BY <1>1 DEF vars, file, streamVars
  <2> QED BY <2>1 DEF BitsInv, StreamIsPlaced, ResultRight, TrailedFile, IsFile, Placed, Loaded,
                     Ahead, InType, Whole, Tail1, Fits, Value, Slice
<1>2. CASE Next
  <2> SUFFICES ASSUME given'.kind = "bits"
               PROVE  pc' = "bits" /\ trailed' /\ StreamIsPlaced' /\ ResultRight'
    BY DEF BitsInv
  <2>1. CASE TakeAny
    <3>1. given' = given /\ pc' = pc /\ Take
      BY <2>1 DEF TakeAny
    <3>2. /\ pc = "bits" /\ trailed /\ TrailedFile /\ Placed(in, bitsRead) /\ ResultRight
          /\ bitsRead \in Nat /\ Len(content) \in Nat /\ content \in Seq({0, 1})
      BY <3>1 DEF BitsInv, StreamIsPlaced, Placed, TrailedFile
    <3>3. CASE TakeBit
      <4>1. /\ Remaining > 0 /\ result' = [value |-> ReadBit(in).value, width |-> 1]
            /\ in' = ReadBit(in).in /\ bitsRead' = bitsRead + 1 /\ UNCHANGED file
        BY <3>3 DEF TakeBit
      <4>2. bitsRead < Len(content)
        BY <3>2, <4>1 DEF Remaining
      <4>3. ReadBit(in).value = content[bitsRead + 1] /\ Placed(ReadBit(in).in, bitsRead + 1)
        BY <3>2, <4>2, BitRead
      <4>4. Value(content, bitsRead, 1) = content[bitsRead + 1]
        BY <3>2, <4>2, ValueBit
      <4>5. result' = [value |-> Value(content, bitsRead, 1), width |-> 1]
        BY <4>1, <4>3, <4>4
      <4> DEFINE one == 1
                 s == ReadBit(in).in
                 p == bitsRead
      <4>6. /\ one \in Nat /\ Placed(s, p + one) /\ in' = s /\ bitsRead' = p + one
            /\ result' = [value |-> Value(content, p, one), width |-> one]
        BY <4>1, <4>3, <4>5
      <4> HIDE DEF one, s, p
      <4>7. p \in Nat
        BY <3>2 DEF p
      <4>8. StreamIsPlaced' /\ ResultRight'
        BY <3>2, <4>1, <4>6, <4>7, ReadMoves
      <4> QED BY <3>1, <3>2, <4>1, <4>8 DEF file
    <3>4. CASE TakeInt
      <4>1. PICK width \in 1 .. Min({Remaining, LongestInt}) :
              /\ result' = [value |-> ReadInt(in, width).value, width |-> width]
              /\ in' = ReadInt(in, width).in /\ bitsRead' = bitsRead + width
        BY <3>4 DEF TakeInt
      <4>2. UNCHANGED file
        BY <3>4 DEF TakeInt
      <4>3. width \in Nat /\ width <= LongestInt /\ bitsRead + width <= Len(content)
        BY <3>2, <4>1, WidthFits
      <4> DEFINE s == ReadInt(in, width).in
                 p == bitsRead
      <4>4. ReadInt(in, width).value = Value(content, p, width) /\ Placed(s, p + width)
        BY <3>2, <4>3, IntRead
      <4>5. p \in Nat /\ in' = s /\ bitsRead' = p + width /\ result' = [value |-> Value(content, p, width), width |-> width]
        BY <3>2, <4>1, <4>4
      <4> HIDE DEF s, p
      <4>6. StreamIsPlaced' /\ ResultRight'
        BY <3>2, <4>2, <4>3, <4>4, <4>5, ReadMoves
      <4> QED BY <3>1, <3>2, <4>2, <4>6 DEF file
    <3>5. CASE TakeBitAtEnd
      <4>1. /\ Remaining = 0 /\ result' = [value |-> ReadBit(in).value, width |-> 0]
            /\ in' = ReadBit(in).in /\ UNCHANGED << file, bitsRead >>
        BY <3>5 DEF TakeBitAtEnd
      <4>2. bitsRead = Len(content)
        BY <3>2, <4>1 DEF Remaining
      <4>3. Eof(in)
        BY <3>2, <4>2, EofIs
      <4>4. ReadBit(in).value = 0 /\ ReadBit(in).in = in
        BY <4>3 DEF ReadBit
      <4>5. Value(content, bitsRead, 0) = 0
        BY <3>2, <4>2, ValueEmpty
      <4> DEFINE z == 0
                 p == bitsRead
      <4>6. /\ z \in Nat /\ p \in Nat /\ p + z = p /\ in' = in /\ bitsRead' = p + z
            /\ result' = [value |-> Value(content, p, z), width |-> z] /\ Placed(in, p)
        BY <3>2, <4>1, <4>4, <4>5
      <4> HIDE DEF z, p
      <4>7. Placed(in, p + z)
        BY <4>6
      <4>8. UNCHANGED file
        BY <4>1
      <4>9. StreamIsPlaced' /\ ResultRight'
        BY <3>2, <4>6, <4>7, <4>8, ReadMoves
      <4> QED BY <3>1, <3>2, <4>8, <4>9 DEF file
    <3> QED BY <3>1, <3>3, <3>4, <3>5 DEF Take
  <2>2. CASE Decode
    <3>1. given' = given /\ pc # "bits"
      BY <2>2 DEF Decode, ReadGrammarHeader, ReadRuleLength, ReadSymbol, EndRule, EndRuleUndefined,
                  EndGrammar, ReadParsingHeader, ReadPhrase, EndParsing
    <3> QED BY <3>1 DEF BitsInv
  <2>3. CASE Terminated
    <3>1. given' = given /\ pc # "bits"
      BY <2>3 DEF Terminated, vars
    <3> QED BY <3>1 DEF BitsInv
  <2> QED BY <1>2, <2>1, <2>2, <2>3 DEF Next
<1> QED BY <1>1, <1>2

LEMMA RightReads == ASSUME ResultRight PROVE ReadsContent
BY DEF ResultRight, ReadsContent

-----------------------------------------------------------------------------
(* The bits of numbers: what the files of the encoder are made of. *)

LEMMA DivTwice ==
  ASSUME NEW n \in Nat, NEW m \in Nat \ {0}
  PROVE  n \div (2 * m) = (n \div 2) \div m /\ n \div 2 \in Nat /\ n % 2 \in {0, 1} /\ n = 2 * (n \div 2) + (n % 2)
<1> DEFINE h == n \div 2
           q == h \div m
           j == n - q * (2 * m)
<1>1. h \in Nat /\ 2 * h <= n /\ n < 2 * h + 2 /\ n % 2 = n - 2 * h /\ n % 2 \in {0, 1}
  OBVIOUS
<1> HIDE DEF h
<1>2. q \in Nat /\ q * m <= h /\ h < q * m + m
  BY <1>1, DivBounds
<1> HIDE DEF q
<1>3. q * (2 * m) = 2 * (q * m) /\ q * m \in Nat /\ 2 * m \in Nat \ {0}
  BY <1>2
<1>4. j \in 0 .. (2 * m - 1) /\ n = q * (2 * m) + j
  <2> DEFINE x == q * m
             y == q * (2 * m)
  <2>1. x \in Nat /\ y = 2 * x /\ x <= h /\ h < x + m /\ j = n - y
    BY <1>2, <1>3
  <2> HIDE DEF x, y, j
  <2> QED BY <1>1, <2>1 DEF y
<1> HIDE DEF j
<1>5. (q * (2 * m) + j) \div (2 * m) = q
  <2> DEFINE s == 2 * m
  <2>1. s \in Nat \ {0} /\ j \in 0 .. (s - 1)
    BY <1>3, <1>4
  <2> HIDE DEF s
  <2>2. (q * s + j) \div s = q
    BY <1>2, <2>1, DivMod
  <2> QED BY <2>2 DEF s
<1>6. n \div (2 * m) = q
  BY <1>4, <1>5
<1>7. n % 2 \in {0, 1} /\ n = 2 * h + (n % 2)
  <2> DEFINE e == n % 2
  <2>1. e = n - 2 * h /\ e \in {0, 1}
    BY <1>1
  <2> HIDE DEF e
  <2>2. n = 2 * h + e
    BY <1>1, <2>1
  <2> QED BY <2>1, <2>2 DEF e
<1> HIDE DEF j
<1>8. n \div (2 * m) = h \div m /\ h \in Nat
  BY <1>1, <1>6 DEF q
<1> QED BY <1>7, <1>8 DEF h

LEMMA BitsType ==
  ASSUME NEW n \in Nat, NEW w \in 0 .. LongestInt
  PROVE  Bits(n, w) \in Seq({0, 1}) /\ Len(Bits(n, w)) = w
<1>1. LongestInt \in Nat /\ w \in Nat
  BY Widths
<1>2. ASSUME NEW k \in 1 .. w PROVE (n \div 2^(w - k)) % 2 \in {0, 1}
  <2>1. w - k \in 0 .. LongestInt
    BY <1>1
  <2> DEFINE m == 2^(w - k)
  <2>2. m \in Nat \ {0}
    BY <2>1, PowType
  <2> HIDE DEF m
  <2>3. n \div m \in Nat
    BY <2>2, DivBounds
  <2>4. (n \div m) % 2 \in {0, 1}
    BY <2>3
  <2> QED BY <2>4 DEF m
<1>3. [k \in 1 .. w |-> (n \div 2^(w - k)) % 2] \in [1 .. w -> {0, 1}]
  BY <1>2
<1> DEFINE b == [k \in 1 .. w |-> (n \div 2^(w - k)) % 2]
<1> HIDE DEF b
<1>4. b \in Seq({0, 1}) /\ Len(b) = w
  <2>1. b \in [1 .. w -> {0, 1}]
    BY <1>3 DEF b
  <2> QED BY <1>1, <2>1
<1> QED BY <1>4 DEF Bits, b

(* The last bit is the remainder, those before it are the half. *)
LEMMA BitsLast ==
  ASSUME NEW n \in Nat, NEW w \in 1 .. LongestInt
  PROVE  Bits(n, w) = Append(Bits(n \div 2, w - 1), n % 2)
<1>1. /\ LongestInt \in Nat /\ w \in Nat /\ w - 1 \in 0 .. LongestInt /\ w \in 0 .. LongestInt
      /\ n \div 2 \in Nat /\ n % 2 \in {0, 1}
  <2>1. LongestInt \in Nat
    BY Widths
  <2> QED BY <2>1, DivTwice
<1> DEFINE h == n \div 2
           b == Bits(n, w)
           f == Bits(h, w - 1)
           d == Append(f, n % 2)
<1>2. b \in Seq({0, 1}) /\ Len(b) = w
  BY <1>1, BitsType
<1>3. f \in Seq({0, 1}) /\ Len(f) = w - 1
  <2> HIDE DEF h
  <2>1. h \in Nat
    BY <1>1 DEF h
  <2> QED BY <1>1, <2>1, BitsType
<1>4. /\ \A k \in 1 .. w : b[k] = (n \div 2^(w - k)) % 2
      /\ \A k \in 1 .. (w - 1) : f[k] = (h \div 2^((w - 1) - k)) % 2
  BY DEF Bits
<1> HIDE DEF b, f
<1>5. d \in Seq({0, 1}) /\ Len(d) = w /\ d[w] = n % 2 /\ \A k \in 1 .. (w - 1) : d[k] = f[k]
  <2> DEFINE e == n % 2
  <2>1. e \in {0, 1}
    BY <1>1
  <2> HIDE DEF e
  <2>2. /\ Append(f, e) \in Seq({0, 1}) /\ Len(Append(f, e)) = w /\ Append(f, e)[w] = e
        /\ \A k \in 1 .. (w - 1) : Append(f, e)[k] = f[k]
    BY <1>1, <1>3, <2>1
  <2> QED BY <2>2 DEF e
<1>6. ASSUME NEW k \in 1 .. w PROVE b[k] = d[k]
  <2>1. CASE k = w
    <3>1. w - k = 0 /\ k \in 1 .. w
      BY <1>1, <2>1
    <3>2. b[k] = (n \div 2^0) % 2 /\ 2^0 = 1
      BY <1>4, <3>1, PowersAssumption
    <3>3. n \div 1 = n
      OBVIOUS
    <3> QED BY <1>5, <2>1, <3>2, <3>3
  <2>2. CASE k # w
    <3>1. k \in 1 .. (w - 1) /\ (w - 1) - k \in 0 .. (LongestInt - 1) /\ ((w - 1) - k) + 1 = w - k
          /\ (w - 1) - k \in 0 .. LongestInt
      BY <1>1, <2>2
    <3>2. 2^(w - k) = 2 * 2^((w - 1) - k) /\ 2^((w - 1) - k) \in Nat \ {0}
      BY <3>1, PowersAssumption, PowType
    <3>3. n \div (2 * 2^((w - 1) - k)) = h \div 2^((w - 1) - k)
      <4> DEFINE m == 2^((w - 1) - k)
      <4>1. m \in Nat \ {0}
        BY <3>2
      <4> HIDE DEF m
      <4>2. n \div (2 * m) = (n \div 2) \div m
        BY <4>1, DivTwice
      <4> QED BY <4>2 DEF m
    <3>4. b[k] = (n \div 2^(w - k)) % 2 /\ f[k] = (h \div 2^((w - 1) - k)) % 2
      BY <1>4, <3>1
    <3>5. d[k] = f[k]
      BY <1>5, <3>1
    <3> HIDE DEF h, d
    <3> QED BY <3>2, <3>3, <3>4, <3>5, Zenon
  <2> QED BY <2>1, <2>2
<1> HIDE DEF d
<1>7. b = d
  BY <1>2, <1>5, <1>6, SeqEqual
<1> QED BY <1>7 DEF b, d, f, h

LEMMA NumberOfBits ==
  ASSUME NEW w \in 0 .. LongestInt, NEW n \in 0 .. (2^w - 1)
  PROVE  Number(Bits(n, w)) = n
<1> DEFINE bad == {v \in 0 .. LongestInt : \E m \in 0 .. (2^v - 1) : Number(Bits(m, v)) # m}
<1>1. ASSUME NEW v \in bad PROVE v # 0 /\ v - 1 \in bad
  <2>1. PICK m \in 0 .. (2^v - 1) : Number(Bits(m, v)) # m
    OBVIOUS
  <2>2. v \in 0 .. LongestInt /\ 2^v \in Nat \ {0} /\ LongestInt \in Nat
    BY PowType, Widths
  <2>3. m \in Nat /\ m < 2^v
    BY <2>2
  <2>4. v # 0
    <3>1. CASE v = 0
      <4>1. 2^v = 1
        BY <3>1, PowersAssumption, Zenon
      <4>2. m = 0
        BY <2>3, <4>1
      <4>3. Bits(m, v) = << >>
        BY <2>2, <2>3, <3>1, BitsType, EmptySeq
      <4> QED BY <2>1, <4>2, <4>3, NumberEmpty
    <3> QED BY <3>1
  <2>5. v \in 1 .. LongestInt /\ v - 1 \in 0 .. (LongestInt - 1) /\ (v - 1) + 1 = v /\ v - 1 \in 0 .. LongestInt
    BY <2>2, <2>4
  <2> DEFINE h == m \div 2
  <2>6. h \in Nat /\ m % 2 \in {0, 1} /\ m = 2 * h + (m % 2) /\ 2^v = 2 * 2^(v - 1) /\ 2^(v - 1) \in Nat
    BY <2>3, <2>5, DivTwice, PowersAssumption, PowType
  <2>7. Bits(m, v) = Append(Bits(h, v - 1), m % 2) /\ Bits(h, v - 1) \in Seq({0, 1})
    <3>1. Bits(m, v) = Append(Bits(h, v - 1), m % 2)
      BY <2>3, <2>5, BitsLast
    <3> HIDE DEF h
    <3> QED BY <2>5, <2>6, <3>1, BitsType
  <2> DEFINE e == m % 2
  <2> HIDE DEF h, bad, e
  <2>8. Number(Bits(m, v)) = 2 * Number(Bits(h, v - 1)) + e /\ m = 2 * h + e /\ e \in {0, 1}
    <3>1. e \in {0, 1} /\ m = 2 * h + e /\ Bits(m, v) = Append(Bits(h, v - 1), e)
      BY <2>6, <2>7, Zenon DEF e
    <3> QED BY <2>7, <3>1, NumberBit
  <2>9. Number(Bits(h, v - 1)) # h
    BY <2>1, <2>8
  <2>10. h \in 0 .. (2^(v - 1) - 1)
    BY <2>3, <2>6, <2>8
  <2> QED BY <2>4, <2>5, <2>9, <2>10 DEF bad
<1>2. bad \subseteq Nat
  OBVIOUS
<1> HIDE DEF bad
<1>3. bad = {}
  BY <1>1, <1>2, NoLeast
<1> QED BY <1>3 DEF bad

-----------------------------------------------------------------------------
(* Pieces of the content: at bit p it holds the bits of s. *)

Holds(p, s) == p + Len(s) <= Len(content) /\ \A k \in 1 .. Len(s) : content[p + k] = s[k]

LEMMA HoldsParts ==
  ASSUME NEW p \in Nat, NEW a \in Seq({0, 1}), NEW b \in Seq({0, 1}), content \in Seq({0, 1}),
         Holds(p, a \o b)
  PROVE  Holds(p, a) /\ Holds(p + Len(a), b)
<1> DEFINE c == a \o b
<1>1. /\ c \in Seq({0, 1}) /\ Len(c) = Len(a) + Len(b)
      /\ \A k \in 1 .. Len(a) : c[k] = a[k]
      /\ \A k \in 1 .. Len(b) : c[Len(a) + k] = b[k]
  BY ConcatIs
<1>2. p + Len(c) <= Len(content) /\ \A k \in 1 .. Len(c) : content[p + k] = c[k]
  BY DEF Holds
<1> HIDE DEF c
<1>3. Len(a) \in Nat /\ Len(b) \in Nat /\ Len(content) \in Nat
  OBVIOUS
<1>4. ASSUME NEW k \in 1 .. Len(a) PROVE content[p + k] = a[k]
  <2>1. k \in 1 .. Len(c)
    BY <1>1, <1>3
  <2> QED BY <1>1, <1>2, <2>1
<1>5. ASSUME NEW k \in 1 .. Len(b) PROVE content[p + Len(a) + k] = b[k]
  <2>1. Len(a) + k \in 1 .. Len(c) /\ p + (Len(a) + k) = p + Len(a) + k
    BY <1>1, <1>3
  <2>2. content[p + (Len(a) + k)] = c[Len(a) + k]
    BY <1>2, <2>1
  <2> QED BY <1>1, <2>1, <2>2
<1> QED BY <1>1, <1>2, <1>3, <1>4, <1>5 DEF Holds

(* What lies before a piece is not longer than all pieces. *)
LEMMA BeforeWithin ==
  ASSUME NEW S, NEW s \in Seq(Seq(S)), NEW k \in 0 .. Len(s)
  PROVE  Len(Before(s, k)) \in Nat /\ Len(Before(s, k)) <= Len(FlattenSeq(s))
<1> DEFINE n == Len(s)
           bad == {d \in 0 .. n : ~(Len(Before(s, n - d)) <= Len(FlattenSeq(s)))}
<1>1. n \in Nat /\ \A j \in 0 .. n : Before(s, j) \in Seq(S)
  BY BeforeType
<1>2. ASSUME NEW d \in bad PROVE d # 0 /\ d - 1 \in bad
  <2>1. d \in 0 .. n /\ ~(Len(Before(s, n - d)) <= Len(FlattenSeq(s)))
    OBVIOUS
  <2>2. Before(s, n) = FlattenSeq(s) /\ Len(Before(s, n)) \in Nat
    BY <1>1, BeforeType
  <2>3. d # 0
    <3>1. CASE d = 0
      <4>1. n - d = n
        BY <1>1, <3>1
      <4> QED BY <2>1, <2>2, <4>1
    <3> QED BY <3>1
  <2>4. n - d \in 0 .. n /\ n - d < n /\ (n - d) + 1 = n - (d - 1) /\ n - (d - 1) \in 0 .. n /\ d - 1 \in 0 .. n
    BY <1>1, <2>1, <2>3
  <2> DEFINE a == Before(s, n - d)
             b == s[(n - d) + 1]
             c == Before(s, n - (d - 1))
  <2>5. a \in Seq(S) /\ b \in Seq(S) /\ c = a \o b
    <3> DEFINE j == n - d
    <3>1. j \in 0 .. n /\ j < n
      BY <2>4
    <3> HIDE DEF j
    <3>2. Before(s, j) \in Seq(S) /\ s[j + 1] \in Seq(S) /\ Before(s, j + 1) = Before(s, j) \o s[j + 1]
      BY <3>1, BeforeType DEF n
    <3> QED BY <2>4, <3>2 DEF j
  <2> HIDE DEF a, b, c, bad
  <2>6. Len(a) <= Len(c) /\ Len(a) \in Nat /\ Len(c) \in Nat
    BY <2>5
  <2>7. ~(Len(c) <= Len(FlattenSeq(s)))
    <3>1. Len(FlattenSeq(s)) \in Nat
      BY <2>2
    <3> QED BY <2>1, <2>6, <3>1 DEF a
  <2> QED BY <2>3, <2>4, <2>7 DEF bad, c
<1>3. bad \subseteq Nat
  OBVIOUS
<1> HIDE DEF bad
<1>4. bad = {}
  BY <1>2, <1>3, NoLeast
<1>5. n - k \in 0 .. n /\ n - (n - k) = k
  BY <1>1
<1>6. Len(Before(s, n - (n - k))) <= Len(FlattenSeq(s))
  BY <1>4, <1>5 DEF bad
<1>7. Len(Before(s, k)) \in Nat
  BY <1>1
<1> QED BY <1>5, <1>6, <1>7

LEMMA HoldsPiece ==
  ASSUME NEW p \in Nat, NEW s \in Seq(Seq({0, 1})), content \in Seq({0, 1}), Holds(p, FlattenSeq(s)),
         NEW k \in 0 .. (Len(s) - 1)
  PROVE  /\ Holds(p + Len(Before(s, k)), s[k + 1]) /\ s[k + 1] \in Seq({0, 1})
         /\ Len(Before(s, k)) \in Nat
         /\ Len(Before(s, k + 1)) = Len(Before(s, k)) + Len(s[k + 1])
<1> DEFINE a == Before(s, k)
           b == s[k + 1]
           c == Before(s, k + 1)
           f == FlattenSeq(s)
<1>1. k \in 0 .. Len(s) /\ k < Len(s) /\ k + 1 \in 0 .. Len(s) /\ k + 1 \in 1 .. Len(s) /\ (k + 1) - 1 = k
  OBVIOUS
<1>2. a \in Seq({0, 1}) /\ b \in Seq({0, 1}) /\ c = a \o b
  BY <1>1, BeforeType
<1>3. Len(c) <= Len(f) /\ f \in Seq({0, 1})
  BY <1>1, BeforeWithin, FlattenType
<1>4. ASSUME NEW j \in 1 .. Len(b) PROVE f[Len(a) + j] = b[j]
  <2> DEFINE i == k + 1
  <2>1. i \in 1 .. Len(s) /\ j \in 1 .. Len(s[i]) /\ i - 1 = k
    BY <1>1
  <2> HIDE DEF i
  <2>2. FlattenSeq(s)[Len(Before(s, i - 1)) + j] = s[i][j]
    BY <2>1, FlattenAt
  <2> QED BY <2>1, <2>2 DEF i
<1>5. p + Len(f) <= Len(content) /\ \A j \in 1 .. Len(f) : content[p + j] = f[j]
  BY DEF Holds
<1> HIDE DEF a, b, c, f
<1>6. Len(a) \in Nat /\ Len(b) \in Nat /\ Len(c) = Len(a) + Len(b) /\ Len(f) \in Nat /\ Len(content) \in Nat
  BY <1>2, <1>3
<1>7. ASSUME NEW j \in 1 .. Len(b) PROVE content[p + Len(a) + j] = b[j]
  <2>1. Len(a) + j \in 1 .. Len(f) /\ p + (Len(a) + j) = p + Len(a) + j
    BY <1>3, <1>6
  <2>2. content[p + (Len(a) + j)] = f[Len(a) + j]
    BY <1>5, <2>1
  <2> QED BY <1>4, <2>1, <2>2
<1>8. Holds(p + Len(a), b)
  BY SMTT(30), <1>3, <1>5, <1>6, <1>7 DEF Holds
<1> QED BY <1>2, <1>6, <1>8 DEF a, b, c

(* A number of the file is there to be read. *)
LEMMA HoldsNumber ==
  ASSUME content \in Seq({0, 1}), NEW p \in Nat, NEW w \in 0 .. LongestInt, NEW n \in 0 .. (2^w - 1),
         Holds(p, Bits(n, w))
  PROVE  p + w <= Len(content) /\ Value(content, p, w) = n
<1> DEFINE b == Bits(n, w)
<1>1. n \in Nat /\ w \in Nat /\ LongestInt \in Nat
  <2>1. LongestInt \in Nat /\ 2^w \in Nat
    BY Widths, PowType
  <2> QED BY <2>1
<1>2. b \in Seq({0, 1}) /\ Len(b) = w /\ Number(b) = n
  BY <1>1, BitsType, NumberOfBits
<1>3. p + Len(b) <= Len(content) /\ \A k \in 1 .. Len(b) : content[p + k] = b[k]
  BY DEF Holds
<1> HIDE DEF b
<1>4. p + w <= Len(content)
  BY <1>2, <1>3
<1> DEFINE s == Slice(content, p, w)
<1>5. s \in Seq({0, 1}) /\ Len(s) = w /\ \A k \in 1 .. w : s[k] = content[p + k]
  BY <1>1, <1>4, SliceType
<1> HIDE DEF s
<1>6. \A k \in 1 .. w : s[k] = b[k]
  BY <1>2, <1>3, <1>5
<1>7. s = b
  BY <1>2, <1>5, <1>6, SeqEqual
<1> QED BY <1>2, <1>4, <1>7 DEF s, Value

-----------------------------------------------------------------------------
(* Where the rules and the symbols of a grammar lie in its file. *)

LEMMA IntWidthIs ==
  /\ IntWidth \in Nat \ {0} /\ IntWidth \in 0 .. LongestInt
  /\ 2^IntWidth \in Nat \ {0} /\ Fitting \subseteq Nat /\ 0 \in Fitting
  /\ 2^ByteBits \in Nat \ {0} /\ RuleOffset = 2^ByteBits
<1>1. ByteBits \in Nat \ {0} /\ ByteBits \in 0 .. LongestInt /\ LongestInt \in Nat
  BY Widths
<1>2. IntBytes \in Nat \ {0} /\ IntWidth < LongestInt /\ RuleOffset = 2^ByteBits
  BY DecodersAssumption
<1>3. IntWidth \in Nat \ {0}
  BY <1>1, <1>2 DEF IntWidth
<1>4. IntWidth \in 0 .. LongestInt
  BY <1>1, <1>2, <1>3
<1>5. 2^IntWidth \in Nat \ {0} /\ 2^ByteBits \in Nat \ {0}
  BY <1>1, <1>4, PowType
<1> QED BY <1>2, <1>3, <1>4, <1>5 DEF Fitting

SymbolWidth(s) == IF IsTerminal(s) THEN ByteBits ELSE IntWidth

SymbolFlag(s) == IF IsTerminal(s) THEN 0 ELSE 1

SymbolValue(s) == IF IsTerminal(s) THEN s ELSE RuleId(s)

LEMMA SymbolBitsAre ==
  ASSUME NEW s \in Fitting
  PROVE  /\ SymbolBits(s) = << SymbolFlag(s) >> \o Bits(SymbolValue(s), SymbolWidth(s))
         /\ SymbolFlag(s) \in {0, 1} /\ SymbolWidth(s) \in 0 .. LongestInt
         /\ SymbolWidth(s) = (IF SymbolFlag(s) = 1 THEN IntWidth ELSE ByteBits)
         /\ SymbolValue(s) \in 0 .. (2^SymbolWidth(s) - 1) /\ SymbolValue(s) \in Nat
         /\ s = (IF SymbolFlag(s) = 1 THEN NonTerminal(SymbolValue(s)) % 2^IntWidth ELSE SymbolValue(s))
         /\ Bits(SymbolValue(s), SymbolWidth(s)) \in Seq({0, 1})
         /\ Len(Bits(SymbolValue(s), SymbolWidth(s))) = SymbolWidth(s)
         /\ SymbolBits(s) \in Seq({0, 1}) /\ Len(SymbolBits(s)) = 1 + SymbolWidth(s)
<1> DEFINE m == 2^IntWidth
<1>1. /\ s \in Nat /\ m \in Nat \ {0} /\ s \in 0 .. (m - 1) /\ RuleOffset \in Nat
      /\ RuleOffset = 2^ByteBits /\ IntWidth \in 0 .. LongestInt /\ ByteBits \in 0 .. LongestInt
  BY IntWidthIs, Widths DEF Fitting
<1>2. CASE IsTerminal(s)
  <2>1. SymbolFlag(s) = 0 /\ SymbolWidth(s) = ByteBits /\ SymbolValue(s) = s
        /\ SymbolBits(s) = << 0 >> \o Bits(s, ByteBits)
    BY <1>2 DEF SymbolFlag, SymbolWidth, SymbolValue, SymbolBits
  <2>2. s \in 0 .. (2^ByteBits - 1)
    BY <1>1, <1>2 DEF IsTerminal
  <2>3. Bits(s, ByteBits) \in Seq({0, 1}) /\ Len(Bits(s, ByteBits)) = ByteBits
    BY <1>1, BitsType
  <2>4. << 0 >> \o Bits(s, ByteBits) \in Seq({0, 1}) /\ Len(<< 0 >> \o Bits(s, ByteBits)) = 1 + ByteBits
    <3> DEFINE b == Bits(s, ByteBits)
    <3> HIDE DEF b
    <3>1. b \in Seq({0, 1}) /\ Len(b) = ByteBits
      BY <2>3 DEF b
    <3>2. << 0 >> \in Seq({0, 1}) /\ Len(<< 0 >>) = 1
      OBVIOUS
    <3>3. << 0 >> \o b \in Seq({0, 1}) /\ Len(<< 0 >> \o b) = 1 + ByteBits
      BY <3>1, <3>2, ConcatIs
    <3> QED BY <3>3 DEF b
  <2> QED BY <1>1, <2>1, <2>2, <2>3, <2>4
<1>3. CASE ~IsTerminal(s)
  <2> DEFINE d == RuleId(s)
  <2>1. SymbolFlag(s) = 1 /\ SymbolWidth(s) = IntWidth /\ SymbolValue(s) = d
        /\ SymbolBits(s) = << 1 >> \o Bits(d, IntWidth)
    BY <1>3 DEF SymbolFlag, SymbolWidth, SymbolValue, SymbolBits
  <2>2. d \in 0 .. (m - 1) /\ d \in Nat /\ NonTerminal(d) = s
    <3> HIDE DEF m
    <3> QED BY <1>1, <1>3 DEF IsTerminal, RuleId, NonTerminal
  <2> HIDE DEF d
  <2>3. Bits(d, IntWidth) \in Seq({0, 1}) /\ Len(Bits(d, IntWidth)) = IntWidth
    BY <1>1, <2>2, BitsType
  <2>4. << 1 >> \o Bits(d, IntWidth) \in Seq({0, 1}) /\ Len(<< 1 >> \o Bits(d, IntWidth)) = 1 + IntWidth
    <3> DEFINE b == Bits(d, IntWidth)
    <3> HIDE DEF b
    <3>1. b \in Seq({0, 1}) /\ Len(b) = IntWidth
      BY <2>3 DEF b
    <3>2. << 1 >> \in Seq({0, 1}) /\ Len(<< 1 >>) = 1
      OBVIOUS
    <3>3. << 1 >> \o b \in Seq({0, 1}) /\ Len(<< 1 >> \o b) = 1 + IntWidth
      BY <3>1, <3>2, ConcatIs
    <3> QED BY <3>3 DEF b
  <2>5. NonTerminal(d) % m = s
    <3> HIDE DEF m
    <3> QED BY <1>1, <2>2
  <2> HIDE DEF m
  <2>6. SymbolValue(s) \in 0 .. (2^SymbolWidth(s) - 1)
    BY <2>1, <2>2 DEF m
  <2>7. s = NonTerminal(SymbolValue(s)) % 2^IntWidth
    BY <2>1, <2>5 DEF m
  <2> QED BY <1>1, <2>1, <2>2, <2>3, <2>4, <2>6, <2>7
<1> QED BY <1>2, <1>3

(* Rules as the decoder takes them: a sequence of sequences of symbols. *)
AreRules(rs) ==
  /\ rs \in Seq(Seq(Fitting)) /\ Len(rs) \in Fitting
  /\ \A k \in 1 .. Len(rs) : Len(rs[k]) \in Fitting

LEMMA ShortestIs ==
  ASSUME NEW rs, AreRules(rs)
  PROVE  /\ Shortest(rs) \in Fitting /\ Longest(rs) \in Nat
         /\ \A k \in 1 .. Len(rs) : Len(rs[k]) - Shortest(rs) \in Fitting
<1>1. /\ rs \in Seq(Seq(Fitting)) /\ Len(rs) \in Nat /\ 2^IntWidth \in Nat \ {0}
      /\ \A k \in 1 .. Len(rs) : Len(rs[k]) \in Fitting
  BY IntWidthIs DEF AreRules
<1> DEFINE S == RuleLengths(rs)
<1>2. S = {Len(rs[k]) : k \in 1 .. Len(rs)}
  BY <1>1 DEF RuleLengths, ToSet
<1>3. S \in SUBSET Fitting /\ S \subseteq Nat
  <2>1. S \subseteq Fitting
    BY <1>1, <1>2
  <2> QED BY <2>1, IntWidthIs
<1>4. CASE rs = << >>
  BY <1>1, <1>4, IntWidthIs DEF Shortest, Longest
<1>5. CASE rs # << >>
  <2>1. S # {}
    <3>1. 1 \in 1 .. Len(rs)
      BY <1>1, <1>5, EmptySeq
    <3> QED BY <1>2, <3>1
  <2> HIDE DEF S
  <2>2. Shortest(rs) = Min(S) /\ Longest(rs) = Max(S)
    BY <1>5 DEF Shortest, Longest, S
  <2>3. Min(S) \in S /\ \A n \in S : Min(S) <= n
    <3>1. \E m \in S : \A n \in S : m <= n
      BY <1>3, <2>1, LeastNatural
    <3> QED BY <3>1, Zenon DEF Min
  <2>4. Max(S) \in S
    <3> DEFINE b == 2^IntWidth - 1
    <3>1. b \in Nat /\ S \in SUBSET (0 .. b)
      BY <1>1, <1>3 DEF Fitting
    <3> HIDE DEF b
    <3> QED BY <2>1, <3>1, MaxOfBounded
  <2>5. ASSUME NEW k \in 1 .. Len(rs) PROVE Len(rs[k]) - Shortest(rs) \in Fitting
    <3> DEFINE x == Len(rs[k])
               y == Shortest(rs)
               m == 2^IntWidth
    <3>1. x \in S
      BY <1>2
    <3>2. x \in 0 .. (m - 1) /\ y \in 0 .. (m - 1) /\ y <= x /\ m \in Nat
      BY <1>1, <1>3, <2>2, <2>3, <3>1 DEF Fitting
    <3> HIDE DEF x, y, m
    <3>3. x - y \in 0 .. (m - 1)
      BY <3>2
    <3> QED BY <3>3 DEF x, y, m, Fitting
  <2> QED BY <1>3, <2>2, <2>3, <2>4, <2>5
<1> QED BY <1>4, <1>5

SymbolSeq(r) == [j \in 1 .. Len(r) |-> SymbolBits(r[j])]

RuleSeq(rs) ==
  [k \in 1 .. Len(rs) |-> Bits(Len(rs[k]) - Shortest(rs), IntWidth) \o FlattenSeq(SymbolSeq(rs[k]))]

(* Where the k-th rule (from 0) begins, and the j-th symbol of a rule.     *)
RuleStart(rs, k) == 3 * IntWidth + Len(Before(RuleSeq(rs), k))

SymbolStart(rs, k, j) == RuleStart(rs, k) + IntWidth + Len(Before(SymbolSeq(rs[k + 1]), j))

LEMMA SymbolSeqType ==
  ASSUME NEW r \in Seq(Fitting)
  PROVE  /\ SymbolSeq(r) \in Seq(Seq({0, 1})) /\ Len(SymbolSeq(r)) = Len(r)
         /\ FlattenSeq(SymbolSeq(r)) \in Seq({0, 1})
         /\ \A j \in 1 .. Len(r) : SymbolSeq(r)[j] = SymbolBits(r[j])
<1>1. \A j \in 1 .. Len(r) : r[j] \in Fitting
  OBVIOUS
<1>2. \A j \in 1 .. Len(r) : SymbolBits(r[j]) \in Seq({0, 1})
  BY <1>1, SymbolBitsAre
<1>3. SymbolSeq(r) \in Seq(Seq({0, 1})) /\ Len(SymbolSeq(r)) = Len(r)
  BY <1>2 DEF SymbolSeq
<1>4. FlattenSeq(SymbolSeq(r)) \in Seq({0, 1})
  BY <1>3, FlattenType
<1> QED BY <1>3, <1>4 DEF SymbolSeq

LEMMA RuleSeqType ==
  ASSUME NEW rs, AreRules(rs)
  PROVE  /\ RuleSeq(rs) \in Seq(Seq({0, 1})) /\ Len(RuleSeq(rs)) = Len(rs)
         /\ FlattenSeq(RuleSeq(rs)) \in Seq({0, 1})
         /\ \A k \in 1 .. Len(rs) :
              /\ Bits(Len(rs[k]) - Shortest(rs), IntWidth) \in Seq({0, 1})
              /\ Len(Bits(Len(rs[k]) - Shortest(rs), IntWidth)) = IntWidth
              /\ rs[k] \in Seq(Fitting)
              /\ RuleSeq(rs)[k] = Bits(Len(rs[k]) - Shortest(rs), IntWidth) \o FlattenSeq(SymbolSeq(rs[k]))
<1>1. rs \in Seq(Seq(Fitting))
  BY DEF AreRules
<1>2. ASSUME NEW k \in 1 .. Len(rs)
      PROVE  /\ rs[k] \in Seq(Fitting)
             /\ Bits(Len(rs[k]) - Shortest(rs), IntWidth) \in Seq({0, 1})
             /\ Len(Bits(Len(rs[k]) - Shortest(rs), IntWidth)) = IntWidth
             /\ Bits(Len(rs[k]) - Shortest(rs), IntWidth) \o FlattenSeq(SymbolSeq(rs[k])) \in Seq({0, 1})
  <2>1. rs[k] \in Seq(Fitting)
    BY <1>1
  <2> DEFINE d == Len(rs[k]) - Shortest(rs)
             b == Bits(d, IntWidth)
             f == FlattenSeq(SymbolSeq(rs[k]))
  <2>2. d \in Nat
    BY ShortestIs, IntWidthIs
  <2>3. f \in Seq({0, 1})
    BY <2>1, SymbolSeqType
  <2> HIDE DEF d, f
  <2>4. b \in Seq({0, 1}) /\ Len(b) = IntWidth
    BY <2>2, BitsType, IntWidthIs
  <2> HIDE DEF b
  <2>5. b \o f \in Seq({0, 1})
    BY <2>3, <2>4, ConcatIs
  <2> QED BY <2>1, <2>4, <2>5 DEF b, f, d
<1>3. RuleSeq(rs) \in Seq(Seq({0, 1})) /\ Len(RuleSeq(rs)) = Len(rs)
  <2> DEFINE e(k) == Bits(Len(rs[k]) - Shortest(rs), IntWidth) \o FlattenSeq(SymbolSeq(rs[k]))
             n == Len(rs)
             t == [k \in 1 .. n |-> e(k)]
  <2>1. n \in Nat /\ \A k \in 1 .. n : e(k) \in Seq({0, 1})
    BY <1>1, <1>2
  <2> HIDE DEF n, e
  <2>2. t \in Seq(Seq({0, 1})) /\ Len(t) = n
    BY <2>1
  <2> QED BY <2>2 DEF RuleSeq, n, e
<1>4. FlattenSeq(RuleSeq(rs)) \in Seq({0, 1})
  BY <1>3, FlattenType
<1> QED BY <1>2, <1>3, <1>4 DEF RuleSeq

LEMMA FourParts ==
  ASSUME NEW u \in Seq({0, 1}), NEW v \in Seq({0, 1}), NEW x \in Seq({0, 1}), NEW y \in Seq({0, 1}),
         content = u \o v \o x \o y
  PROVE  /\ content \in Seq({0, 1}) /\ Holds(0, u) /\ Holds(Len(u), v)
         /\ Holds(Len(u) + Len(v), x) /\ Holds(Len(u) + Len(v) + Len(x), y)
         /\ Len(content) = Len(u) + Len(v) + Len(x) + Len(y)
<1> DEFINE uv == u \o v
           uvx == uv \o x
           all == uvx \o y
           z == 0
<1>1. uv \in Seq({0, 1}) /\ Len(uv) = Len(u) + Len(v)
  BY ConcatIs
<1>2. uvx \in Seq({0, 1}) /\ Len(uvx) = Len(uv) + Len(x)
  <2> HIDE DEF uv
  <2> QED BY <1>1, ConcatIs
<1>3. all \in Seq({0, 1}) /\ Len(all) = Len(uvx) + Len(y) /\ content = all
  <2>1. content = all
    OBVIOUS
  <2> HIDE DEF uvx
  <2> QED BY <1>2, <2>1, ConcatIs
<1>4. Holds(z, all) /\ z \in Nat
  <2> HIDE DEF all
  <2> QED BY <1>3 DEF Holds
<1>5. Holds(z, uvx) /\ Holds(z + Len(uvx), y)
  <2>1. content \in Seq({0, 1})
    BY <1>3
  <2> HIDE DEF uvx, z
  <2> QED BY <1>2, <1>4, <2>1, HoldsParts
<1>6. Holds(z, uv) /\ Holds(z + Len(uv), x)
  <2>1. content \in Seq({0, 1})
    BY <1>3
  <2> HIDE DEF uv, z
  <2> QED BY <1>1, <1>4, <1>5, <2>1, HoldsParts
<1>7. Holds(z, u) /\ Holds(z + Len(u), v)
  <2>1. content \in Seq({0, 1})
    BY <1>3
  <2> HIDE DEF z
  <2> QED BY <1>4, <1>6, <2>1, HoldsParts
<1>8. z + Len(u) = Len(u) /\ z + Len(uv) = Len(u) + Len(v) /\ z + Len(uvx) = Len(u) + Len(v) + Len(x)
  <2> HIDE DEF uv, uvx
  <2> QED BY <1>1, <1>2
<1> QED BY <1>1, <1>2, <1>3, <1>5, <1>6, <1>7, <1>8

LEMMA GrammarParts ==
  ASSUME NEW rs, AreRules(rs), content = GrammarBits(rs)
  PROVE  /\ content \in Seq({0, 1})
         /\ Value(content, 0, IntWidth) = Len(rs) /\ Value(content, IntWidth, IntWidth) = Shortest(rs)
         /\ 3 * IntWidth <= Len(content)
         /\ Holds(3 * IntWidth, FlattenSeq(RuleSeq(rs)))
         /\ Len(content) = 3 * IntWidth + Len(FlattenSeq(RuleSeq(rs)))
<1> DEFINE w == IntWidth
           a == Bits(Len(rs), w)
           b == Bits(Shortest(rs), w)
           c == Bits(Longest(rs), w)
           f == FlattenSeq(RuleSeq(rs))
           z == 0
<1>1. /\ w \in Nat \ {0} /\ w \in 0 .. LongestInt /\ Len(rs) \in Fitting /\ Shortest(rs) \in Fitting
      /\ Len(rs) \in Nat /\ Shortest(rs) \in Nat /\ Longest(rs) \in Nat
  BY IntWidthIs, ShortestIs DEF AreRules
<1>2. Len(rs) \in 0 .. (2^w - 1) /\ Shortest(rs) \in 0 .. (2^w - 1)
  BY <1>1 DEF Fitting
<1>3. content = a \o b \o c \o f
  BY Zenon DEF GrammarBits, RuleSeq, SymbolSeq
<1> HIDE DEF w
<1>4. /\ a \in Seq({0, 1}) /\ Len(a) = w /\ b \in Seq({0, 1}) /\ Len(b) = w
      /\ c \in Seq({0, 1}) /\ Len(c) = w
  BY <1>1, BitsType
<1>5. f \in Seq({0, 1})
  BY RuleSeqType
<1> HIDE DEF f
<1>7. /\ content \in Seq({0, 1}) /\ Holds(z, a) /\ Holds(Len(a), b)
      /\ Holds(Len(a) + Len(b) + Len(c), f)
      /\ Len(content) = Len(a) + Len(b) + Len(c) + Len(f)
  <2> HIDE DEF a, b, c, z
  <2>1. a \in Seq({0, 1}) /\ b \in Seq({0, 1}) /\ c \in Seq({0, 1}) /\ f \in Seq({0, 1})
    BY <1>4, <1>5
  <2>2. z \in Nat
    BY DEF z
  <2>3. content = a \o b \o c \o f
    BY <1>3
  <2>4. content \in Seq({0, 1}) /\ Holds(0, a) /\ Holds(Len(a), b)
    BY <2>1, <2>3, FourParts, Zenon
  <2>5. Holds(Len(a) + Len(b) + Len(c), f)
    BY <2>1, <2>3, FourParts, Zenon
  <2>6. Len(content) = Len(a) + Len(b) + Len(c) + Len(f)
    BY <2>1, <2>3
  <2> QED BY <2>4, <2>5, <2>6 DEF z
<1>8. Len(a) + Len(b) + Len(c) = 3 * w /\ Len(f) \in Nat
  <2> HIDE DEF a, b, c
  <2> QED BY <1>1, <1>4, <1>5
<1>9. Value(content, z, w) = Len(rs)
  <2> DEFINE n == Len(rs)
  <2>1. z \in Nat /\ n \in 0 .. (2^w - 1) /\ Holds(z, Bits(n, w))
    BY <1>2, <1>7
  <2> HIDE DEF n, z
  <2> QED BY <1>1, <1>7, <2>1, HoldsNumber DEF n
<1>10. Value(content, w, w) = Shortest(rs)
  <2>1. w \in Nat /\ Holds(w, Bits(Shortest(rs), w))
    BY <1>1, <1>4, <1>7
  <2> QED BY <1>1, <1>2, <1>7, <2>1, HoldsNumber
<1>11. 3 * w <= Len(content)
  BY <1>1, <1>7, <1>8
<1> HIDE DEF a, b, c
<1>12. Holds(3 * w, f) /\ Len(content) = 3 * w + Len(f)
  <2>1. Holds(Len(a) + Len(b) + Len(c), f) /\ Len(content) = Len(a) + Len(b) + Len(c) + Len(f)
    BY <1>7
  <2> QED BY <1>8, <2>1
<1> QED BY <1>7, <1>9, <1>10, <1>11, <1>12 DEF w, f

LEMMA BeforeNone ==
  ASSUME NEW S, NEW s \in Seq(Seq(S))
  PROVE  Len(Before(s, 0)) = 0
<1>1. SubSeq(s, 1, 0) = << >>
  BY EmptySeq
<1>2. Before(s, 0) = << >>
  BY <1>1, FlattenEmpty DEF Before
<1> QED BY <1>2

LEMMA RuleEnds ==
  ASSUME NEW rs, AreRules(rs), content = GrammarBits(rs)
  PROVE  RuleStart(rs, 0) = 3 * IntWidth /\ RuleStart(rs, Len(rs)) = Len(content)
<1> DEFINE s == RuleSeq(rs)
<1>1. s \in Seq(Seq({0, 1})) /\ Len(s) = Len(rs) /\ Len(s) \in Nat
  BY RuleSeqType
<1>2. Len(content) = 3 * IntWidth + Len(FlattenSeq(s)) /\ IntWidth \in Nat
  BY GrammarParts, IntWidthIs
<1> HIDE DEF s
<1>3. Len(Before(s, 0)) = 0
  BY <1>1, BeforeNone
<1>4. Before(s, Len(s)) = FlattenSeq(s)
  <2> DEFINE n == Len(s)
  <2>1. n \in 0 .. Len(s)
    BY <1>1
  <2> HIDE DEF n
  <2>2. Before(s, Len(s)) = FlattenSeq(s)
    BY <1>1, <2>1, BeforeType
  <2> QED BY <2>2
<1>5. RuleStart(rs, 0) = 3 * IntWidth + 0
  BY <1>3 DEF RuleStart, s
<1>6. RuleStart(rs, Len(rs)) = 3 * IntWidth + Len(FlattenSeq(s))
  BY <1>1, <1>4 DEF RuleStart, s
<1> QED BY <1>2, <1>5, <1>6

LEMMA RuleStored ==
  ASSUME NEW rs, AreRules(rs), content = GrammarBits(rs), NEW k \in 0 .. (Len(rs) - 1)
  PROVE  /\ RuleStart(rs, k) \in Nat /\ RuleStart(rs, k) + IntWidth <= Len(content)
         /\ Value(content, RuleStart(rs, k), IntWidth) = Len(rs[k + 1]) - Shortest(rs)
         /\ Holds(RuleStart(rs, k) + IntWidth, FlattenSeq(SymbolSeq(rs[k + 1])))
         /\ rs[k + 1] \in Seq(Fitting)
         /\ SymbolStart(rs, k, 0) = RuleStart(rs, k) + IntWidth
         /\ SymbolStart(rs, k, Len(rs[k + 1])) = RuleStart(rs, k + 1)
<1> DEFINE s == RuleSeq(rs)
           r == rs[k + 1]
           d == Len(r) - Shortest(rs)
           b == Bits(d, IntWidth)
           t == SymbolSeq(r)
           f == FlattenSeq(t)
           h == 3 * IntWidth
           p == RuleStart(rs, k)
<1>1. /\ s \in Seq(Seq({0, 1})) /\ Len(s) = Len(rs) /\ k + 1 \in 1 .. Len(rs)
      /\ b \in Seq({0, 1}) /\ Len(b) = IntWidth /\ r \in Seq(Fitting) /\ s[k + 1] = b \o f
  <2>1. k + 1 \in 1 .. Len(rs)
    BY DEF AreRules
  <2> QED BY <2>1, RuleSeqType
<1>2. /\ d \in Fitting /\ d \in Nat /\ IntWidth \in Nat /\ IntWidth \in 0 .. LongestInt /\ h \in Nat
      /\ d \in 0 .. (2^IntWidth - 1)
  <2>1. d \in Fitting
    BY <1>1, ShortestIs
  <2> QED BY <2>1, IntWidthIs DEF Fitting
<1>3. t \in Seq(Seq({0, 1})) /\ f \in Seq({0, 1}) /\ Len(t) = Len(r)
  <2> HIDE DEF r
  <2> QED BY <1>1, SymbolSeqType
<1>4. content \in Seq({0, 1}) /\ Holds(h, FlattenSeq(s))
  BY GrammarParts
<1> HIDE DEF s, h
<1>5. /\ Holds(h + Len(Before(s, k)), s[k + 1]) /\ Len(Before(s, k)) \in Nat
      /\ Len(Before(s, k + 1)) = Len(Before(s, k)) + Len(s[k + 1])
  <2>1. k \in 0 .. (Len(s) - 1)
    BY <1>1
  <2> QED BY <1>1, <1>2, <1>4, <2>1, HoldsPiece
<1>6. p = h + Len(Before(s, k)) /\ p \in Nat /\ RuleStart(rs, k + 1) = h + Len(Before(s, k + 1))
  <2>1. p = h + Len(Before(s, k)) /\ RuleStart(rs, k + 1) = h + Len(Before(s, k + 1))
    BY DEF RuleStart, s, h
  <2> HIDE DEF p
  <2> QED BY <1>2, <1>5, <2>1
<1> HIDE DEF p, b, f
<1>7. Holds(p, b \o f) /\ Len(b \o f) = IntWidth + Len(f)
  <2>1. Len(b \o f) = Len(b) + Len(f)
    BY <1>1, <1>3, ConcatIs
  <2> QED BY <1>1, <1>5, <1>6, <2>1
<1>8. Holds(p, b) /\ Holds(p + IntWidth, f)
  BY <1>1, <1>3, <1>4, <1>6, <1>7, HoldsParts
<1>9. p + IntWidth <= Len(content) /\ Value(content, p, IntWidth) = d
  <2> HIDE DEF d
  <2>1. Holds(p, Bits(d, IntWidth))
    BY <1>8 DEF b
  <2> QED BY <1>2, <1>4, <1>6, <2>1, HoldsNumber
<1>10. \A j : SymbolStart(rs, k, j) = p + IntWidth + Len(Before(t, j))
  BY DEF SymbolStart, p
<1> HIDE DEF t
<1>11. Len(Before(t, 0)) = 0
  BY <1>3, BeforeNone
<1>12. SymbolStart(rs, k, 0) = p + IntWidth
  BY <1>2, <1>6, <1>10, <1>11
<1>13. SymbolStart(rs, k, Len(r)) = RuleStart(rs, k + 1)
  <2>1. Before(t, Len(t)) = f
    <3>1. Len(t) \in 0 .. Len(t)
      BY <1>3
    <3>2. Before(t, Len(t)) = FlattenSeq(t)
      BY <1>3, <3>1, BeforeType
    <3> QED BY <3>2 DEF f
  <2>2. SymbolStart(rs, k, Len(r)) = p + IntWidth + Len(f)
    BY <1>3, <1>10, <2>1
  <2>3. RuleStart(rs, k + 1) = h + (Len(Before(s, k)) + Len(b \o f))
    BY <1>1, <1>5, <1>6
  <2>4. Len(f) \in Nat
    BY <1>3
  <2> HIDE DEF r
  <2> QED BY <1>2, <1>5, <1>6, <1>7, <2>2, <2>3, <2>4
<1>14. Holds(p + IntWidth, FlattenSeq(SymbolSeq(r)))
  BY <1>8 DEF f, t
<1> QED BY <1>1, <1>6, <1>9, <1>12, <1>13, <1>14 DEF p

LEMMA SymbolStored ==
  ASSUME NEW rs, AreRules(rs), content = GrammarBits(rs), NEW k \in 0 .. (Len(rs) - 1),
         NEW j \in 0 .. (Len(rs[k + 1]) - 1)
  PROVE  LET s == rs[k + 1][j + 1]
             p == SymbolStart(rs, k, j)
         IN  /\ s \in Fitting /\ p \in Nat /\ p + 1 \in Nat /\ p < Len(content)
             /\ content[p + 1] = SymbolFlag(s)
             /\ p + 1 + SymbolWidth(s) <= Len(content)
             /\ Value(content, p + 1, SymbolWidth(s)) = SymbolValue(s)
             /\ SymbolStart(rs, k, j + 1) = p + 1 + SymbolWidth(s)
<1> DEFINE r == rs[k + 1]
           s == r[j + 1]
           t == SymbolSeq(r)
           q == RuleStart(rs, k) + IntWidth
           p == SymbolStart(rs, k, j)
           flag == SymbolFlag(s)
           w == SymbolWidth(s)
           v == SymbolValue(s)
           b == Bits(v, w)
<1>1. RuleStart(rs, k) \in Nat /\ Holds(q, FlattenSeq(t)) /\ r \in Seq(Fitting)
  BY RuleStored
<1>2. content \in Seq({0, 1}) /\ q \in Nat
  BY <1>1, GrammarParts, IntWidthIs
<1>3. /\ t \in Seq(Seq({0, 1})) /\ Len(t) = Len(r) /\ \A i \in 1 .. Len(r) : t[i] = SymbolBits(r[i])
      /\ j + 1 \in 1 .. Len(r) /\ s \in Fitting /\ j \in 0 .. (Len(t) - 1)
  <2> HIDE DEF r
  <2>1. t \in Seq(Seq({0, 1})) /\ Len(t) = Len(r) /\ \A i \in 1 .. Len(r) : t[i] = SymbolBits(r[i])
    BY <1>1, SymbolSeqType
  <2>2. j \in 0 .. (Len(r) - 1)
    BY DEF r
  <2>3. j + 1 \in 1 .. Len(r) /\ s \in Fitting
    BY <1>1, <2>2
  <2> QED BY <2>1, <2>2, <2>3
<1>4. p = q + Len(Before(t, j)) /\ SymbolStart(rs, k, j + 1) = q + Len(Before(t, j + 1))
  BY DEF SymbolStart
<1>5. t[j + 1] = SymbolBits(s)
  BY <1>3
<1> HIDE DEF t, q, s, p
<1>6. /\ Holds(q + Len(Before(t, j)), t[j + 1]) /\ Len(Before(t, j)) \in Nat
      /\ Len(Before(t, j + 1)) = Len(Before(t, j)) + Len(t[j + 1])
  BY <1>1, <1>2, <1>3, HoldsPiece
<1>7. /\ SymbolBits(s) = << flag >> \o b /\ flag \in {0, 1} /\ w \in 0 .. LongestInt
      /\ v \in 0 .. (2^w - 1) /\ v \in Nat /\ b \in Seq({0, 1}) /\ Len(b) = w
      /\ Len(SymbolBits(s)) = 1 + w
  BY <1>3, SymbolBitsAre
<1> HIDE DEF flag, w, v
<1>8. p \in Nat /\ Holds(p, << flag >> \o b) /\ w \in Nat /\ p + 1 \in Nat
  <2>1. w \in Nat
    BY <1>7, Widths
  <2> QED BY SMTT(30), <1>2, <1>4, <1>5, <1>6, <1>7, <2>1
<1>9. Holds(p, << flag >>) /\ Holds(p + 1, b)
  <2> HIDE DEF b
  <2>1. << flag >> \in Seq({0, 1}) /\ Len(<< flag >>) = 1
    BY <1>7
  <2> QED BY <1>2, <1>7, <1>8, <2>1, HoldsParts
<1>10. p + 1 <= Len(content) /\ content[p + 1] = flag
  <2> DEFINE a == << flag >>
  <2>1. Len(a) = 1 /\ a[1] = flag
    OBVIOUS
  <2>2. p + Len(a) <= Len(content) /\ \A i \in 1 .. Len(a) : content[p + i] = a[i]
    BY <1>9 DEF Holds
  <2> HIDE DEF a
  <2> QED BY <2>1, <2>2
<1>11. p + 1 + w <= Len(content) /\ Value(content, p + 1, w) = v
  <2> DEFINE x == p + 1
  <2>1. x \in Nat /\ Holds(x, Bits(v, w))
    BY <1>8, <1>9
  <2> HIDE DEF x
  <2>2. x + w <= Len(content) /\ Value(content, x, w) = v
    BY <1>2, <1>7, <2>1, HoldsNumber
  <2> QED BY <2>2 DEF x
<1>12. SymbolStart(rs, k, j + 1) = p + 1 + w
  <2>1. SymbolStart(rs, k, j + 1) = q + (Len(Before(t, j)) + (1 + w))
    BY <1>4, <1>5, <1>6, <1>7
  <2>2. p = q + Len(Before(t, j))
    BY <1>4
  <2> QED BY <1>2, <1>6, <1>8, <2>1, <2>2
<1>13. p < Len(content)
  BY <1>2, <1>8, <1>10
<1> QED BY <1>3, <1>8, <1>10, <1>11, <1>12, <1>13 DEF p, s, flag, w, v

-----------------------------------------------------------------------------
(* Integers one after the other: Read is recursive, too. *)
IsReadInts(f, s, ws, n) ==
  f = [k \in 0 .. n |-> IF k = 0 THEN [values |-> << >>, in |-> s, bits |-> 0] ELSE OneMoreInt(f[k - 1], ws[k])]

LEMMA ReadIntsExist ==
  ASSUME NEW s, NEW ws, NEW n \in Nat
  PROVE  \E f : IsReadInts(f, s, ws, n)
<1> DEFINE none == {m \in Nat : ~ \E f : IsReadInts(f, s, ws, m)}
           start == [values |-> << >>, in |-> s, bits |-> 0]
<1>1. ASSUME NEW m \in none PROVE m # 0 /\ m - 1 \in none
  <2>1. m \in Nat /\ ~ \E f : IsReadInts(f, s, ws, m)
    OBVIOUS
  <2>2. m # 0
    <3>1. IsReadInts([k \in 0 .. 0 |-> start], s, ws, 0)
      BY DEF IsReadInts
    <3> QED BY <2>1, <3>1
  <2>3. ASSUME NEW g, IsReadInts(g, s, ws, m - 1) PROVE FALSE
    <3> DEFINE f == [k \in 0 .. m |-> IF k = 0 THEN start ELSE OneMoreInt(g[k - 1], ws[k])]
    <3>1. /\ \A k \in 0 .. (m - 1) : g[k] = IF k = 0 THEN start ELSE OneMoreInt(g[k - 1], ws[k])
          /\ \A k \in 0 .. m : f[k] = IF k = 0 THEN start ELSE OneMoreInt(g[k - 1], ws[k])
          /\ f = [k \in 0 .. m |-> f[k]]
      BY <2>3 DEF IsReadInts
    <3> HIDE DEF f, none, start
    <3>2. ASSUME NEW k \in 0 .. (m - 1) PROVE f[k] = g[k]
      <4>1. k \in 0 .. m
        BY <2>1
      <4> QED BY <3>1, <4>1, Zenon
    <3>3. \A k \in 0 .. m : f[k] = IF k = 0 THEN start ELSE OneMoreInt(f[k - 1], ws[k])
      <4> SUFFICES ASSUME NEW k \in 0 .. m PROVE f[k] = IF k = 0 THEN start ELSE OneMoreInt(f[k - 1], ws[k])
        OBVIOUS
      <4>1. CASE k = 0
        BY <3>1, <4>1
      <4>2. CASE k # 0
        <5>1. k - 1 \in 0 .. (m - 1)
          BY <2>1, <4>2
        <5>2. f[k - 1] = g[k - 1]
          BY <3>2, <5>1
        <5> QED BY <3>1, <4>2, <5>2
      <4> QED BY <4>1, <4>2
    <3>4. IsReadInts(f, s, ws, m)
      BY <3>1, <3>3 DEF IsReadInts, start
    <3> QED BY <2>1, <3>4
  <2>4. m - 1 \in Nat
    BY <2>1, <2>2
  <2> QED BY <2>2, <2>3, <2>4
<1>2. none \subseteq Nat
  OBVIOUS
<1> HIDE DEF none
<1>3. none = {}
  BY <1>1, <1>2, NoLeast
<1> QED BY <1>3 DEF none

LEMMA ReadIs ==
  ASSUME NEW s, NEW ws, Len(ws) \in Nat
  PROVE  \E f : IsReadInts(f, s, ws, Len(ws)) /\ Read(s, ws) = f[Len(ws)]
<1>1. \E f : IsReadInts(f, s, ws, Len(ws))
  BY ReadIntsExist
<1> QED BY <1>1, Zenon DEF Read, IsReadInts

LEMMA ReadNone ==
  ASSUME NEW s
  PROVE  Read(s, << >>) = [values |-> << >>, in |-> s, bits |-> 0]
<1>1. Len(<< >>) = 0
  OBVIOUS
<1>2. PICK f : IsReadInts(f, s, << >>, Len(<< >>)) /\ Read(s, << >>) = f[Len(<< >>)]
  BY <1>1, ReadIs
<1>3. 0 \in 0 .. 0
  OBVIOUS
<1>4. f = [k \in 0 .. 0 |-> IF k = 0 THEN [values |-> << >>, in |-> s, bits |-> 0]
                                     ELSE OneMoreInt(f[k - 1], << >>[k])]
  BY <1>1, <1>2 DEF IsReadInts
<1>5. f[0] = [values |-> << >>, in |-> s, bits |-> 0]
  BY <1>3, <1>4, Zenon
<1> QED BY <1>1, <1>2, <1>5

LEMMA ReadMore ==
  ASSUME NEW s, NEW S, NEW ws \in Seq(S), NEW w \in S
  PROVE  Read(s, Append(ws, w)) = OneMoreInt(Read(s, ws), w)
<1> DEFINE u == Append(ws, w)
           n == Len(ws)
           start == [values |-> << >>, in |-> s, bits |-> 0]
<1>1. n \in Nat /\ Len(u) = n + 1 /\ u[n + 1] = w /\ \A k \in 1 .. n : u[k] = ws[k]
  OBVIOUS
<1> HIDE DEF u, n
<1>2. PICK f : IsReadInts(f, s, u, n + 1) /\ Read(s, u) = f[n + 1]
  <2>1. Len(u) \in Nat
    BY <1>1
  <2>2. \E f : IsReadInts(f, s, u, Len(u)) /\ Read(s, u) = f[Len(u)]
    BY <2>1, ReadIs
  <2> QED BY <1>1, <2>2
<1>3. PICK g : IsReadInts(g, s, ws, n) /\ Read(s, ws) = g[n]
  BY <1>1, ReadIs DEF n
<1>4. /\ \A k \in 0 .. (n + 1) : f[k] = IF k = 0 THEN start ELSE OneMoreInt(f[k - 1], u[k])
      /\ \A k \in 0 .. n : g[k] = IF k = 0 THEN start ELSE OneMoreInt(g[k - 1], ws[k])
  <2>1. f = [k \in 0 .. (n + 1) |-> IF k = 0 THEN start ELSE OneMoreInt(f[k - 1], u[k])]
    BY <1>2 DEF IsReadInts
  <2>2. g = [k \in 0 .. n |-> IF k = 0 THEN start ELSE OneMoreInt(g[k - 1], ws[k])]
    BY <1>3 DEF IsReadInts
  <2> HIDE DEF start
  <2>3. \A k \in 0 .. (n + 1) : f[k] = IF k = 0 THEN start ELSE OneMoreInt(f[k - 1], u[k])
    BY <2>1, Zenon
  <2>4. \A k \in 0 .. n : g[k] = IF k = 0 THEN start ELSE OneMoreInt(g[k - 1], ws[k])
    BY <2>2, Zenon
  <2> QED BY <2>3, <2>4
<1> DEFINE differ == {k \in 0 .. n : f[k] # g[k]}
<1> HIDE DEF start
<1>5. ASSUME NEW k \in differ PROVE k # 0 /\ k - 1 \in differ
  <2>1. k \in 0 .. n /\ k \in 0 .. (n + 1) /\ f[k] # g[k]
    BY <1>1
  <2>2. k # 0
    BY <1>4, <2>1
  <2>3. k - 1 \in 0 .. n /\ k \in 1 .. n
    BY <1>1, <2>1, <2>2
  <2>4. f[k] = OneMoreInt(f[k - 1], ws[k]) /\ g[k] = OneMoreInt(g[k - 1], ws[k])
    BY <1>1, <1>4, <2>1, <2>2, <2>3
  <2> QED BY <2>1, <2>2, <2>3, <2>4
<1>6. differ \subseteq Nat
  BY <1>1
<1> HIDE DEF differ
<1>7. differ = {}
  BY <1>5, <1>6, NoLeast
<1>8. n \in 0 .. n /\ n + 1 \in 0 .. (n + 1) /\ n + 1 # 0 /\ (n + 1) - 1 = n
  BY <1>1
<1>9. f[n] = g[n]
  BY <1>7, <1>8 DEF differ
<1>10. f[n + 1] = OneMoreInt(f[n], u[n + 1])
  BY <1>4, <1>8
<1> QED BY <1>1, <1>2, <1>3, <1>9, <1>10 DEF u

LEMMA Appends ==
  ASSUME NEW S, NEW x \in S, NEW y \in S, NEW z \in S
  PROVE  /\ << >> \in Seq(S) /\ << x >> \in Seq(S) /\ << x, y >> \in Seq(S)
         /\ << x >> = Append(<< >>, x) /\ << x, y >> = Append(<< x >>, y)
         /\ << x, y, z >> = Append(<< x, y >>, z)
OBVIOUS

(* One integer, and three. *)
LEMMA OneRead ==
  ASSUME NEW s, NEW w \in Nat
  PROVE  Read(s, << w >>) = [values |-> << ReadInt(s, w).value >>, in |-> ReadInt(s, w).in, bits |-> w]
<1>1. << >> \in Seq(Nat) /\ << w >> = Append(<< >>, w)
  OBVIOUS
<1>2. Read(s, << w >>) = OneMoreInt([values |-> << >>, in |-> s, bits |-> 0], w)
  <2> DEFINE e == << >>
  <2>1. e \in Seq(Nat) /\ << w >> = Append(e, w) /\ Read(s, e) = [values |-> << >>, in |-> s, bits |-> 0]
    BY <1>1, ReadNone
  <2> HIDE DEF e
  <2>2. Read(s, Append(e, w)) = OneMoreInt(Read(s, e), w)
    BY <2>1, ReadMore
  <2> QED BY <2>1, <2>2
<1> DEFINE v == ReadInt(s, w).value
           t == ReadInt(s, w).in
<1>3. OneMoreInt([values |-> << >>, in |-> s, bits |-> 0], w) = [values |-> Append(<< >>, v), in |-> t, bits |-> 0 + w]
  BY DEF OneMoreInt
<1> HIDE DEF v, t
<1>4. Append(<< >>, v) = << v >> /\ 0 + w = w
  OBVIOUS
<1>5. Read(s, << w >>) = [values |-> << v >>, in |-> t, bits |-> w]
  BY <1>2, <1>3, <1>4
<1> QED BY <1>5 DEF v, t

LEMMA ThreeRead ==
  ASSUME NEW s, NEW w \in Nat
  PROVE  LET a == ReadInt(s, w)
             b == ReadInt(a.in, w)
             c == ReadInt(b.in, w)
         IN  Read(s, << w, w, w >>) =
               [values |-> << a.value, b.value, c.value >>, in |-> c.in, bits |-> 3 * w]
<1> DEFINE a == ReadInt(s, w)
           b == ReadInt(a.in, w)
           c == ReadInt(b.in, w)
<1>1. /\ << w >> \in Seq(Nat) /\ << w, w >> \in Seq(Nat)
      /\ << w, w >> = Append(<< w >>, w) /\ << w, w, w >> = Append(<< w, w >>, w)
  OBVIOUS
<1>2. ASSUME NEW r, NEW vs, NEW t, NEW n, r = [values |-> vs, in |-> t, bits |-> n]
      PROVE  OneMoreInt(r, w) = [values |-> Append(vs, ReadInt(t, w).value), in |-> ReadInt(t, w).in, bits |-> n + w]
  <2>1. r.values = vs /\ r.in = t /\ r.bits = n
    BY <1>2
  <2> QED BY <2>1 DEF OneMoreInt
<1>3. Read(s, << w >>) = [values |-> << a.value >>, in |-> a.in, bits |-> w]
  BY OneRead
<1>4. Read(s, << w, w >>) = [values |-> Append(<< a.value >>, b.value), in |-> b.in, bits |-> w + w]
  <2>1. Read(s, << w, w >>) = OneMoreInt(Read(s, << w >>), w)
    <3> DEFINE ws == << w >>
    <3>1. ws \in Seq(Nat) /\ << w, w >> = Append(ws, w)
      BY <1>1
    <3> HIDE DEF ws
    <3>2. Read(s, Append(ws, w)) = OneMoreInt(Read(s, ws), w)
      BY <3>1, ReadMore
    <3> QED BY <3>1, <3>2 DEF ws
  <2> DEFINE vs == << a.value >>
             t == a.in
  <2>2. Read(s, << w >>) = [values |-> vs, in |-> t, bits |-> w] /\ b = ReadInt(t, w)
    BY <1>3
  <2> HIDE DEF vs, t, b
  <2>3. OneMoreInt(Read(s, << w >>), w) = [values |-> Append(vs, ReadInt(t, w).value), in |-> ReadInt(t, w).in, bits |-> w + w]
    BY <1>2, <2>2
  <2> QED BY <2>1, <2>2, <2>3 DEF vs
<1>5. Read(s, << w, w, w >>) =
        [values |-> Append(Append(<< a.value >>, b.value), c.value), in |-> c.in, bits |-> w + w + w]
  <2>1. Read(s, << w, w, w >>) = OneMoreInt(Read(s, << w, w >>), w)
    <3> DEFINE ws == << w, w >>
    <3>1. ws \in Seq(Nat) /\ << w, w, w >> = Append(ws, w)
      BY <1>1
    <3> HIDE DEF ws
    <3>2. Read(s, Append(ws, w)) = OneMoreInt(Read(s, ws), w)
      BY <3>1, ReadMore
    <3> QED BY <3>1, <3>2 DEF ws
  <2> DEFINE vs == Append(<< a.value >>, b.value)
             t == b.in
             n == w + w
  <2>2. Read(s, << w, w >>) = [values |-> vs, in |-> t, bits |-> n] /\ c = ReadInt(t, w)
    BY <1>4
  <2> HIDE DEF vs, t, c, n
  <2>3. OneMoreInt(Read(s, << w, w >>), w) = [values |-> Append(vs, ReadInt(t, w).value), in |-> ReadInt(t, w).in, bits |-> n + w]
    BY <1>2, <2>2
  <2> QED BY <2>1, <2>2, <2>3 DEF vs, n
<1>6. ASSUME NEW x, NEW y, NEW z PROVE Append(Append(<< x >>, y), z) = << x, y, z >>
  <2> DEFINE S == {x, y, z}
  <2>1. x \in S /\ y \in S /\ z \in S
    OBVIOUS
  <2> HIDE DEF S
  <2>2. << x, y >> = Append(<< x >>, y) /\ << x, y, z >> = Append(<< x, y >>, z)
    BY <2>1, Appends
  <2> QED BY <2>2
<1>7. w + w + w = 3 * w
  OBVIOUS
<1> HIDE DEF a, b, c
<1>8. Read(s, << w, w, w >>) = [values |-> << a.value, b.value, c.value >>, in |-> c.in, bits |-> 3 * w]
  BY <1>5, <1>6, <1>7
<1> QED BY <1>8 DEF a, b, c

-----------------------------------------------------------------------------
(* A missing file: nothing but zeros is read, and the stream stays at its  *)
(* end.                                                                    *)

Dead(s) ==
  /\ InType(s) /\ ~s.good /\ s.final
  /\ s.current = 0 /\ s.next = 0 /\ s.finalBits = 0 /\ s.cursor \in 0 .. MSB

LEMMA DeadEof == ASSUME NEW s, Dead(s) PROVE Eof(s)
<1>1. MSB \in Nat
  BY Widths DEF MSB
<1> QED BY <1>1 DEF Eof, Dead

LEMMA DeadNext ==
  ASSUME NEW s, Dead(s)
  PROVE  /\ Dead(NextFromStream(s)) /\ NextFromStream(s).cursor = s.cursor
         /\ Dead(ReadNext(s)) /\ ReadNext(s).cursor = MSB
<1>1. MSB \in Nat /\ 2^TrailerBits \in Nat \ {0}
  BY Widths, PowType DEF MSB
<1>2. 0 % 2^TrailerBits = 0
  <2> DEFINE m == 2^TrailerBits
  <2>1. m \in Nat \ {0}
    BY <1>1
  <2> HIDE DEF m
  <2>2. 0 % m = 0
    BY <2>1
  <2> QED BY <2>2 DEF m
<1>3. ASSUME NEW t, Dead(t) PROVE Dead(NextFromStream(t)) /\ NextFromStream(t).cursor = t.cursor
  <2> DEFINE e == [t EXCEPT !.good = FALSE, !.final = TRUE, !.finalBits = 0, !.next = 0]
  <2>1. ~CanGet(t) /\ t.current % 2^TrailerBits = 0
    BY <1>2, <1>3 DEF CanGet, Dead
  <2>2. NextFromStream(t) = e
    BY <2>1, Zenon DEF NextFromStream
  <2>3. Dead(e) /\ e.cursor = t.cursor
    BY <1>3 DEF Dead, InType
  <2> QED BY <2>2, <2>3
<1>4. Dead([s EXCEPT !.current = s.next, !.cursor = MSB]) /\ [s EXCEPT !.current = s.next, !.cursor = MSB].cursor = MSB
  <2> DEFINE x == s.next
             c == MSB
  <2>1. x = 0 /\ x \in Nat /\ c \in Nat /\ c \in 0 .. MSB
    BY <1>1 DEF Dead
  <2> HIDE DEF x, c
  <2>2. Dead([s EXCEPT !.current = x, !.cursor = c]) /\ [s EXCEPT !.current = x, !.cursor = c].cursor = c
    BY <2>1 DEF Dead, InType
  <2> QED BY <2>2 DEF x, c
<1>5. Dead(ReadNext(s)) /\ ReadNext(s).cursor = MSB
  <2> DEFINE t == [s EXCEPT !.current = s.next, !.cursor = MSB]
  <2>1. Dead(t) /\ t.cursor = MSB /\ ReadNext(s) = NextFromStream(t)
    BY <1>4 DEF ReadNext
  <2> HIDE DEF t
  <2> QED BY <1>3, <2>1
<1> QED BY <1>3, <1>5

LEMMA ZerosJoined ==
  ASSUME NEW base \in Nat, NEW n \in Nat
  PROVE  InBase(base, Zeros(n)) = 0
<1> DEFINE bad == {m \in Nat : InBase(base, Zeros(m)) # 0}
<1>1. ASSUME NEW m \in bad PROVE m # 0 /\ m - 1 \in bad
  <2>1. m \in Nat /\ InBase(base, Zeros(m)) # 0
    OBVIOUS
  <2>2. m # 0
    <3>1. Zeros(0) = << >>
      BY NumberZeros, EmptySeq
    <3> QED BY <2>1, <3>1, InBaseEmpty
  <2>3. m - 1 \in Nat /\ Zeros(m) = Append(Zeros(m - 1), 0)
    <3>1. m - 1 \in Nat
      BY <2>1, <2>2
    <3>2. Append(Zeros(m - 1), 0) = Zeros(m)
      BY <2>1, <3>1 DEF Zeros
    <3> QED BY <3>1, <3>2
  <2>4. Zeros(m - 1) \in Seq({0, 1})
    BY <2>3, NumberZeros
  <2>5. InBase(base, Zeros(m)) = base * InBase(base, Zeros(m - 1)) + 0
    BY <2>3, <2>4, InBaseAppend
  <2>6. InBase(base, Zeros(m - 1)) # 0
    BY <2>1, <2>5
  <2> QED BY <2>2, <2>3, <2>6
<1>2. bad \subseteq Nat
  OBVIOUS
<1> HIDE DEF bad
<1>3. bad = {}
  BY <1>1, <1>2, NoLeast
<1> QED BY <1>3 DEF bad

LEMMA DeadWhole ==
  ASSUME NEW s, Dead(s), NEW rest \in Nat, rest <= LongestInt
  PROVE  WholeBytes(s, rest).value = 0 /\ Dead(WholeBytes(s, rest).in)
<1> DEFINE B == ByteBits
           d == rest \div B
           e == rest % B
<1>1. B \in Nat \ {0} /\ d \in Nat /\ d * B <= rest /\ rest < d * B + B /\ e \in 0 .. (B - 1) /\ B <= LongestInt
      /\ LongestInt \in Nat
  <2>1. B \in Nat \ {0} /\ B <= LongestInt /\ LongestInt \in Nat
    BY Widths
  <2> HIDE DEF B
  <2> QED BY <2>1, DivBounds
<1> HIDE DEF B, d, e
<1>2. 2^e \in Nat
  BY <1>1, PowType
<1>3. CASE rest >= 2 * B
  <2> DEFINE n == d - 1
             raw == RawBytes(s, n)
             t == AfterRaw(s, n)
             x == B * n
  <2>1. n \in Nat /\ x \in Nat /\ x <= LongestInt
    <3>1. d # 0
      <4>1. CASE d = 0
        <5>1. d * B = 0
          BY <1>1, <4>1
        <5> QED BY <1>1, <1>3, <5>1
      <4> QED BY <4>1
    <3>2. n \in Nat /\ d = n + 1 /\ d * B = B * n + B /\ B * n \in Nat
      BY <1>1, <3>1
    <3> HIDE DEF n
    <3> QED BY <1>1, <3>2
  <2> HIDE DEF n
  <2>2. raw = Zeros(n)
    BY DEF RawBytes, Zeros, Dead
  <2>3. Joined(raw) = 0
    <3>1. 2^ByteBits \in Nat
      BY Widths, PowType
    <3> HIDE DEF raw
    <3> QED BY <2>1, <2>2, <3>1, ZerosJoined DEF Joined
  <2>4. Dead(t)
    <3> DEFINE u == [s EXCEPT !.pos = Len(bytes), !.good = FALSE]
               v == [s EXCEPT !.good = FALSE]
    <3>1. t = u
      BY Zenon DEF AfterRaw, Dead
    <3>2. CASE Len(bytes) \in Nat
      <4> DEFINE l == Len(bytes)
      <4> HIDE DEF l
      <4>1. Dead([s EXCEPT !.pos = l, !.good = FALSE])
        BY <3>2 DEF Dead, InType, l
      <4> QED BY <3>1, <4>1 DEF l
    <3> QED BY <3>2
  <2>5. 2^x \in Nat
    BY <2>1, PowType
  <2>6. WholeBytes(s, rest) = [value |-> (s.next * 2^x + Joined(raw)) * 2^e, in |-> NextFromStream(t)]
    BY <1>3, Zenon DEF WholeBytes, B, d, e, n
  <2> HIDE DEF t, raw, x
  <2>7. (s.next * 2^x + Joined(raw)) * 2^e = 0
    <3>1. ASSUME NEW y \in Nat, NEW z \in Nat PROVE (0 * y + 0) * z = 0
      OBVIOUS
    <3>2. s.next = 0
      BY DEF Dead
    <3> QED BY <1>2, <2>3, <2>5, <3>1, <3>2
  <2>8. Dead(NextFromStream(t))
    BY <2>4, DeadNext
  <2> QED BY <2>6, <2>7, <2>8
<1>4. CASE rest < 2 * B /\ rest >= B
  <2> DEFINE t == ReadNext(s)
             y == 2^(rest - B)
  <2>1. WholeBytes(s, rest) = [value |-> t.current * y, in |-> t]
    <3>1. ~(rest >= 2 * B)
      BY <1>1, <1>4
    <3> QED BY <1>4, <3>1, Zenon DEF WholeBytes, B
  <2>2. Dead(t)
    BY DeadNext
  <2>3. y \in Nat
    <3>1. rest - B \in 0 .. LongestInt
      BY <1>1, <1>4
    <3> QED BY <3>1, PowType
  <2> HIDE DEF t, y
  <2>4. t.current * y = 0
    BY <2>2, <2>3 DEF Dead
  <2> QED BY <2>1, <2>2, <2>4
<1>5. CASE rest < B
  <2>1. ~(rest >= 2 * B) /\ ~(rest >= B)
    BY <1>1, <1>5
  <2>2. WholeBytes(s, rest) = [value |-> 0, in |-> s]
    BY <2>1, Zenon DEF WholeBytes, B
  <2> QED BY <2>2
<1> QED BY <1>1, <1>3, <1>4, <1>5

(* read_int of a whole number of bytes. *)
LEMMA DeadInt ==
  ASSUME NEW s, Dead(s), s.cursor = 0
  PROVE  /\ ReadInt(s, IntWidth).value = 0
         /\ Dead(ReadInt(s, IntWidth).in) /\ ReadInt(s, IntWidth).in.cursor = 0
<1> DEFINE B == ByteBits
           b == IntBytes - 1
           w == IntWidth
           rest == w - (s.cursor + 1)
           remain == rest % B
           whole == WholeBytes(s, rest)
           moved == ReadNext(whole.in)
           value == (s.current % 2^(s.cursor + 1)) * 2^rest + whole.value
<1>1. /\ B \in Nat \ {0} /\ b \in Nat /\ w \in Nat \ {0} /\ w <= LongestInt /\ LongestInt \in Nat
      /\ MSB = B - 1 /\ B <= LongestInt /\ 1 <= LongestInt
  <2>1. b \in Nat
    BY DecodersAssumption
  <2>2. LongestInt \in Nat /\ w <= LongestInt /\ w \in Nat \ {0}
    BY IntWidthIs, Widths
  <2> QED BY <2>1, <2>2, Widths DEF MSB
<1>2. w = b * B + B
  <2>1. IntBytes = b + 1 /\ IntBytes \in Nat
    BY DecodersAssumption
  <2>2. (b + 1) * B = b * B + B
    BY <1>1
  <2> QED BY <2>1, <2>2 DEF IntWidth
<1>3. rest = b * B + (B - 1) /\ rest \in Nat /\ rest <= LongestInt /\ b * B \in Nat
  <2>1. b * B \in Nat
    BY <1>1
  <2>2. rest = w - 1
    BY <1>1
  <2> HIDE DEF rest, w, b
  <2> QED BY <1>1, <1>2, <2>1, <2>2
<1>4. remain = B - 1
  <2> DEFINE j == B - 1
  <2>1. j \in 0 .. (B - 1) /\ rest = b * B + j
    BY <1>1, <1>3
  <2> HIDE DEF j, rest, b, B
  <2>2. (b * B + j) % B = j
    BY <1>1, <2>1, DivMod
  <2> QED BY <2>1, <2>2 DEF j
<1>5. ~(w < s.cursor + 1)
  <2> HIDE DEF w
  <2> QED BY <1>1
<1> HIDE DEF rest
<1>6. whole.value = 0 /\ Dead(whole.in)
  BY <1>3, DeadWhole
<1> HIDE DEF whole
<1>7. Dead(moved)
  BY <1>6, DeadNext
<1> HIDE DEF moved
<1>8. value = 0
  <2>1. s.current = 0 /\ s.cursor + 1 = 1
    BY DEF Dead
  <2>2. 2^1 \in Nat \ {0} /\ 2^rest \in Nat
    <3>1. 1 \in 0 .. LongestInt
      BY <1>1
    <3> QED BY <1>1, <1>3, <3>1, PowType
  <2>3. ASSUME NEW x \in Nat \ {0}, NEW y \in Nat PROVE (0 % x) * y + 0 = 0
    <3>1. 0 % x = 0
      OBVIOUS
    <3> QED BY <3>1
  <2>4. (0 % 2^1) * 2^rest + 0 = 0
    BY <2>2, <2>3
  <2> QED BY <1>6, <2>1, <2>4
<1> DEFINE u == [moved EXCEPT !.cursor = MSB - remain]
           v == value + moved.current \div 2^(B - remain)
<1> HIDE DEF value
<1>9. v = 0
  <2>1. B - remain = 1
    <3> HIDE DEF remain
    <3> QED BY <1>1, <1>4
  <2>2. 2^1 \in Nat \ {0}
    <3>1. 1 \in 0 .. LongestInt
      BY <1>1
    <3> QED BY <3>1, PowType
  <2>3. moved.current = 0
    BY <1>7 DEF Dead
  <2>4. ASSUME NEW x \in Nat \ {0} PROVE 0 + 0 \div x = 0
    <3>1. 0 \div x = 0
      OBVIOUS
    <3> QED BY <3>1
  <2>5. 0 + 0 \div 2^1 = 0
    BY <2>2, <2>4
  <2> HIDE DEF remain
  <2> QED BY <1>8, <2>1, <2>3, <2>5
<1>10. Dead(u) /\ u.cursor = 0
  <2> DEFINE c == MSB - remain
  <2>1. c = 0 /\ c \in Nat /\ c \in 0 .. MSB
    <3> HIDE DEF remain
    <3> QED BY <1>1, <1>4
  <2> HIDE DEF c
  <2>2. Dead([moved EXCEPT !.cursor = c]) /\ [moved EXCEPT !.cursor = c].cursor = c
    BY <1>7, <2>1 DEF Dead, InType
  <2> QED BY <2>1, <2>2 DEF c
<1>11. ReadInt(s, w) = IF remain = 0 THEN [value |-> value, in |-> moved] ELSE [value |-> v, in |-> u]
  <2> HIDE DEF w
  <2> QED BY <1>5, Zenon DEF ReadInt, rest, whole, moved, value, remain, B, v, u
<1>12. remain = 0 => moved.cursor = 0
  <2>1. moved.cursor = MSB
    BY <1>6, DeadNext DEF moved
  <2> HIDE DEF remain
  <2> QED BY <1>1, <1>4, <2>1
<1> HIDE DEF v, u, w, remain
<1>13. ReadInt(s, w).value = 0 /\ Dead(ReadInt(s, w).in) /\ ReadInt(s, w).in.cursor = 0
  <2>1. CASE remain = 0
    BY <1>7, <1>8, <1>11, <1>12, <2>1
  <2>2. CASE remain # 0
    BY <1>9, <1>10, <1>11, <2>2
  <2> QED BY <2>1, <2>2
<1> QED BY <1>13 DEF w

LEMMA DeadOpened ==
  ASSUME bytes = << >>
  PROVE  Dead(Opened) /\ Opened.cursor = 0
<1>1. MSB \in Nat
  BY Widths DEF MSB
<1>2. Opened = [Fresh EXCEPT !.good = FALSE, !.final = TRUE]
  BY DEF Opened
<1>3. Fresh.cursor = 0 /\ Fresh.current = 0 /\ Fresh.next = 0 /\ Fresh.finalBits = 0 /\ InType(Fresh)
  BY DEF Fresh, InType
<1>4. ASSUME NEW t, InType(t), t.cursor = 0, t.current = 0, t.next = 0, t.finalBits = 0
      PROVE  LET u == [t EXCEPT !.good = FALSE, !.final = TRUE] IN Dead(u) /\ u.cursor = 0
  <2> DEFINE u == [t EXCEPT !.good = FALSE, !.final = TRUE]
  <2>1. InType(u)
    BY <1>4 DEF InType
  <2>2. u.good = FALSE /\ u.final = TRUE
    BY <1>4 DEF InType
  <2>3. u.cursor = 0 /\ u.current = 0 /\ u.next = 0 /\ u.finalBits = 0
    BY <1>4 DEF InType
  <2> HIDE DEF u
  <2>4. 0 \in 0 .. MSB
    BY <1>1
  <2>5. Dead(u) /\ u.cursor = 0
    BY <2>1, <2>2, <2>3, <2>4 DEF Dead
  <2> QED BY <2>5 DEF u
<1> QED BY <1>2, <1>3, <1>4

-----------------------------------------------------------------------------
(* decode returns the rules of the file. *)

(* A rule keeps its symbols when it is packed. *)
LEMMA PackedKeeps ==
  ASSUME NEW r \in Seq(Fitting), r # << >>, Max(ToSet(r)) > 0
  PROVE  [k \in 1 .. Len(r) |-> Packed(CoderWidth(r), r[k])] = r
<1> DEFINE S == ToSet(r)
           m == Max(S)
           top == 2^IntWidth
           w == CoderWidth(r)
<1>1. /\ IntWidth \in 0 .. (LongestInt - 1) /\ IntWidth \in 0 .. LongestInt /\ IntWidth \in Nat
      /\ IntWidth < MaxWidth /\ top \in Nat \ {0} /\ MaxWidth \in Nat /\ LongestInt \in Nat
  BY IntWidthIs, DecodersAssumption, WidthAssumption, Widths
<1>2. S \in SUBSET Fitting /\ S # {} /\ S = {r[k] : k \in 1 .. Len(r)}
  <2>1. S = {r[k] : k \in 1 .. Len(r)} /\ S \in SUBSET Fitting
    BY DEF ToSet
  <2>2. 1 \in 1 .. Len(r)
    BY EmptySeq
  <2> QED BY <2>1, <2>2
<1> HIDE DEF S
<1>3. m \in S /\ \A n \in S : n <= m
  <2> DEFINE b == top - 1
  <2>1. b \in Nat /\ S \in SUBSET (0 .. b)
    <3> HIDE DEF top
    <3> QED BY <1>1, <1>2 DEF Fitting, top
  <2> HIDE DEF b
  <2> QED BY <1>2, <2>1, MaxOfBounded
<1>4. m \in 0 .. (top - 1) /\ m > 0
  BY <1>2, <1>3 DEF Fitting, S
<1> HIDE DEF m, top
<1>5. 2 * m \in Nat /\ 2 * m <= 2^MaxWidth
  <2> DEFINE next == IntWidth + 1
             y == 2^next
             z == 2^MaxWidth
  <2>1. y = 2 * top
    BY <1>1, PowersAssumption DEF top
  <2>2. z \in Nat /\ y <= z
    <3>1. MaxWidth \in 0 .. MaxWidth
      BY <1>1
    <3>2. z \in Nat \ {0} /\ \A v \in 0 .. (MaxWidth - 1) : 2^v < z
      BY <3>1, WidthAssumption
    <3>3. CASE next = MaxWidth
      <4>1. y = z
        BY <3>3
      <4> HIDE DEF y, z
      <4> QED BY <3>2, <4>1
    <3>4. CASE next # MaxWidth
      <4>1. next \in 0 .. (MaxWidth - 1)
        BY <1>1, <3>4
      <4>2. y < z
        BY <3>2, <4>1
      <4>3. y \in Nat
        <5>1. next \in 0 .. LongestInt
          BY <1>1
        <5> HIDE DEF next
        <5> QED BY <5>1, PowType
      <4> HIDE DEF y, z
      <4> QED BY <3>2, <4>2, <4>3
    <3> QED BY <3>3, <3>4
  <2> HIDE DEF y, z
  <2>3. 2 * m \in Nat /\ 2 * m <= z
    BY <1>1, <1>4, <2>1, <2>2
  <2> QED BY <2>3 DEF z
<1>6. w \in 0 .. MaxWidth /\ 2^w >= 2 * m
  <2> DEFINE v == 2 * m
  <2>1. v \in Nat /\ v <= 2^MaxWidth /\ w = CeilLog2(v)
    BY <1>5 DEF CoderWidth, m, S
  <2> HIDE DEF v, w
  <2>2. w \in 0 .. MaxWidth /\ 2^w >= v
    BY <2>1, CeilLog2Wide
  <2> QED BY <2>2 DEF v
<1>7. 2^w \in Nat \ {0}
  BY <1>6, WidthAssumption
<1> DEFINE size == 2^w
<1>8. ASSUME NEW k \in 1 .. Len(r) PROVE r[k] % size = r[k]
  <2>1. r[k] \in S /\ r[k] \in Nat
    BY <1>2, IntWidthIs
  <2>2. r[k] <= m
    BY <1>3, <2>1 DEF m
  <2>3. size \in Nat \ {0} /\ size >= 2 * m /\ m \in Nat /\ m > 0
    BY <1>1, <1>4, <1>6, <1>7
  <2> DEFINE x == r[k]
  <2> HIDE DEF size, x
  <2>4. x \in 0 .. (size - 1)
    BY <2>1, <2>2, <2>3 DEF x
  <2>5. x % size = x
    BY <2>3, <2>4
  <2> QED BY <2>5 DEF x
<1> HIDE DEF size
<1>9. \A k \in 1 .. Len(r) : Packed(w, r[k]) = r[k]
  BY <1>8 DEF Packed, size
<1> HIDE DEF w
<1>10. [k \in 1 .. Len(r) |-> Packed(w, r[k])] = [k \in 1 .. Len(r) |-> r[k]]
  BY <1>9
<1>11. [k \in 1 .. Len(r) |-> r[k]] = r
  OBVIOUS
<1> QED BY <1>10, <1>11 DEF w

(* Where decode is, and what it has. *)
RulesSoFar ==
  LET rs == given.rules
      n  == Len(rules)
      r  == rs[n + 1]
      j  == Len(rule)
  IN  /\ n \in 0 .. Len(rs) /\ rules = SubSeq(rs, 1, n)
      /\ pc \in {"grammar", "rules", "symbols", "done", "undefined"}
      /\ pc = "grammar" => bitsRead = 0 /\ n = 0
      /\ pc # "grammar" => header = [ruleCount |-> Len(rs), minRuleLen |-> Shortest(rs)]
      /\ pc = "rules" => bitsRead = RuleStart(rs, n)
      /\ pc = "symbols" =>
           /\ n < Len(rs) /\ j \in 0 .. Len(r) /\ rule = SubSeq(r, 1, j) /\ left = Len(r) - j
           /\ bitsRead = SymbolStart(rs, n, j)
      /\ pc = "done" => n = Len(rs) /\ bitsRead = Len(content)
      /\ pc = "undefined" => n < Len(rs) /\ ToSet(r) \subseteq {0}

GrammarState ==
  /\ trailed /\ StreamIsPlaced /\ ResultRight
  /\ AreRules(given.rules) /\ content = GrammarBits(given.rules)
  /\ RulesSoFar

GrammarInv == given.kind = "grammar" => GrammarState

MissingInv ==
  given.kind = "missing" =>
    /\ ~trailed /\ bytes = << >> /\ given.rules = << >> /\ rules = << >>
    /\ Dead(in) /\ in.cursor = 0
    /\ pc \in {"grammar", "rules", "done"}
    /\ pc # "grammar" => header.ruleCount = 0

LEMMA StreamStays ==
  ASSUME StreamIsPlaced, ResultRight, UNCHANGED << file, streamVars >>
  PROVE  StreamIsPlaced' /\ ResultRight'
<1>1. /\ content' = content /\ bytes' = bytes /\ in' = in /\ bitsRead' = bitsRead /\ result' = result
  BY DEF file, streamVars
<1> QED BY <1>1 DEF StreamIsPlaced, ResultRight, TrailedFile, IsFile, Placed, Loaded,
                    Ahead, InType, Whole, Tail1, Fits, Value, Slice

LEMMA GrammarStays ==
  ASSUME GrammarState, UNCHANGED << file, given >>
  PROVE  AreRules(given.rules)' /\ content' = GrammarBits(given.rules)' /\ trailed'
<1>1. content' = content /\ trailed' = trailed /\ given' = given
  BY DEF file
<1>2. trailed /\ AreRules(given.rules) /\ content = GrammarBits(given.rules)
  BY DEF GrammarState
<1>3. AreRules(given.rules)'
  BY <1>1, <1>2
<1>4. GrammarBits(given.rules)' = GrammarBits(given.rules)
  BY <1>1
<1> QED BY <1>1, <1>2, <1>3, <1>4

LEMMA HeaderKeeps == ASSUME GrammarState, ReadGrammarHeader PROVE GrammarState'
<1> DEFINE w == IntWidth
           rs == given.rules
           a == ReadInt(in, w)
           b == ReadInt(a.in, w)
           c == ReadInt(b.in, w)
           read == Read(in, << w, w, w >>)
           z == 0
           p == 2 * w
<1>1. /\ TrailedFile /\ Placed(in, bitsRead) /\ AreRules(rs) /\ content = GrammarBits(rs)
      /\ RulesSoFar /\ content \in Seq({0, 1})
  BY DEF GrammarState, StreamIsPlaced, TrailedFile
<1>2. /\ pc = "grammar" /\ Consume(read, << w, w, w >>)
      /\ header' = [ruleCount |-> read.values[1], minRuleLen |-> read.values[2]]
      /\ pc' = "rules" /\ UNCHANGED << file, given, rule, left, rules, parsing, sourceLen >>
  BY DEF ReadGrammarHeader
<1>3. bitsRead = 0 /\ Len(rules) = 0 /\ rules = SubSeq(rs, 1, Len(rules))
  BY <1>1, <1>2 DEF RulesSoFar
<1>4. /\ w \in Nat \ {0} /\ w <= LongestInt /\ LongestInt \in Nat /\ 3 * w <= Len(content) /\ Len(content) \in Nat
      /\ Value(content, z, w) = Len(rs) /\ Value(content, w, w) = Shortest(rs) /\ RuleStart(rs, 0) = 3 * w
  BY <1>1, IntWidthIs, Widths, GrammarParts, RuleEnds
<1> HIDE DEF w
<1>5. a.value = Len(rs) /\ Placed(a.in, w)
  <2>1. Placed(in, z) /\ z \in Nat /\ z + w = w /\ w \in Nat /\ w <= Len(content)
    BY <1>1, <1>3, <1>4
  <2> HIDE DEF z
  <2>2. z + w <= Len(content)
    BY <2>1
  <2>3. a.value = Value(content, z, w) /\ Placed(a.in, z + w)
    BY <1>1, <1>4, <2>1, <2>2, IntRead
  <2> QED BY <1>4, <2>1, <2>3
<1> HIDE DEF a
<1>6. b.value = Shortest(rs) /\ Placed(b.in, p)
  <2>1. w \in Nat /\ w + w <= Len(content) /\ w + w = p
    BY <1>4
  <2>2. b.value = Value(content, w, w) /\ Placed(b.in, w + w)
    BY <1>1, <1>4, <1>5, <2>1, IntRead
  <2> QED BY <1>4, <2>1, <2>2
<1> HIDE DEF b
<1>7. c.value = Value(content, p, w) /\ Placed(c.in, p + w) /\ p \in Nat /\ p + w = 3 * w
  <2>1. p \in Nat /\ w \in Nat /\ p + w <= Len(content) /\ p + w = 3 * w
    BY <1>4
  <2> HIDE DEF p
  <2>2. c.value = Value(content, p, w) /\ Placed(c.in, p + w)
    BY <1>1, <1>4, <1>6, <2>1, IntRead
  <2> QED BY <2>1, <2>2
<1> HIDE DEF c, p
<1>8. read = [values |-> << a.value, b.value, c.value >>, in |-> c.in, bits |-> 3 * w]
  BY <1>4, ThreeRead DEF a, b, c
<1>9. /\ read.in = c.in /\ read.bits = 3 * w /\ read.values[1] = a.value /\ read.values[2] = b.value
      /\ Last(read.values) = c.value /\ Last(<< w, w, w >>) = w
  <2> HIDE DEF read
  <2> QED BY <1>8 DEF Last
<1> HIDE DEF read
<1>10. in' = c.in /\ bitsRead' = p + w /\ result' = [value |-> Value(content, p, w), width |-> w]
  BY <1>2, <1>3, <1>4, <1>7, <1>9 DEF Consume
<1>11. StreamIsPlaced' /\ ResultRight'
  <2> DEFINE s == c.in
  <2>1. Placed(s, p + w) /\ in' = s /\ w \in Nat /\ UNCHANGED file
    BY <1>2, <1>4, <1>7, <1>10
  <2> HIDE DEF s
  <2> QED BY <1>1, <1>7, <1>10, <2>1, ReadMoves
<1>12. header' = [ruleCount |-> Len(rs), minRuleLen |-> Shortest(rs)]
  BY <1>2, <1>5, <1>6, <1>9
<1>13. RulesSoFar'
  <2>1. given' = given /\ rules' = rules /\ pc' = "rules" /\ bitsRead' = RuleStart(rs, 0) /\ rs' = rs
    BY <1>2, <1>4, <1>7, <1>10
  <2>2. Len(rules) \in 0 .. Len(rs)
    BY <1>1 DEF RulesSoFar
  <2> HIDE DEF rs
  <2> QED BY <1>3, <1>12, <2>1, <2>2 DEF RulesSoFar, rs
<1> QED BY <1>2, <1>11, <1>13, GrammarStays DEF GrammarState

LEMMA LengthKeeps == ASSUME GrammarState, ReadRuleLength PROVE GrammarState'
<1> DEFINE w == IntWidth
           rs == given.rules
           n == Len(rules)
           r == rs[n + 1]
           p == RuleStart(rs, n)
           a == ReadInt(in, w)
           read == Read(in, << w >>)
           d == Len(r) - Shortest(rs)
<1>1. /\ TrailedFile /\ Placed(in, bitsRead) /\ AreRules(rs) /\ content = GrammarBits(rs)
      /\ RulesSoFar /\ content \in Seq({0, 1})
  BY DEF GrammarState, StreamIsPlaced, TrailedFile
<1>2. /\ pc = "rules" /\ n < header.ruleCount /\ Consume(read, << w >>)
      /\ left' = (read.values[1] + header.minRuleLen) % 2^w /\ rule' = << >> /\ pc' = "symbols"
      /\ UNCHANGED << file, given, header, rules, parsing, sourceLen >>
  BY DEF ReadRuleLength
<1>3. /\ header = [ruleCount |-> Len(rs), minRuleLen |-> Shortest(rs)] /\ bitsRead = p
      /\ n \in 0 .. Len(rs) /\ rules = SubSeq(rs, 1, n)
  BY <1>1, <1>2 DEF RulesSoFar
<1>4. n \in 0 .. (Len(rs) - 1) /\ n \in Nat /\ n < Len(rs) /\ n + 1 \in 1 .. Len(rs) /\ Len(rs) \in Nat
  <2>1. Len(rs) \in Nat
    BY <1>1, IntWidthIs DEF AreRules
  <2> QED BY <1>2, <1>3, <2>1
<1> HIDE DEF n
<1>5. /\ w \in Nat \ {0} /\ w <= LongestInt /\ 2^w \in Nat \ {0}
      /\ p \in Nat /\ p + w <= Len(content) /\ Value(content, p, w) = d
      /\ SymbolStart(rs, n, 0) = p + w
  <2>1. w \in Nat \ {0} /\ w <= LongestInt /\ 2^w \in Nat \ {0}
    BY IntWidthIs, Widths
  <2> QED BY <1>1, <1>4, <2>1, RuleStored
<1>6. Len(r) \in Nat /\ Shortest(rs) \in Nat /\ (d + Shortest(rs)) % 2^w = Len(r) /\ d \in Nat
  <2> DEFINE m == 2^w
             x == Len(r)
             y == Shortest(rs)
  <2>1. x \in 0 .. (m - 1) /\ y \in Nat /\ d \in Nat
    <3>1. x \in Fitting
      BY <1>1, <1>4 DEF AreRules
    <3>2. y \in Fitting /\ d \in Fitting
      BY <1>1, <1>4, ShortestIs
    <3> QED BY <3>1, <3>2, IntWidthIs DEF Fitting
  <2>2. m \in Nat \ {0}
    BY <1>5
  <2> HIDE DEF m, x, y
  <2>3. ((x - y) + y) % m = x
    <3>1. (x - y) + y = x
      BY <2>1
    <3> QED BY <2>1, <2>2, <3>1
  <2> QED BY <2>1, <2>3 DEF m, x, y
<1>7. a.value = d /\ Placed(a.in, p + w)
  <2>1. Placed(in, p) /\ w \in Nat
    BY <1>1, <1>3, <1>5
  <2> HIDE DEF w, p
  <2>2. a.value = Value(content, p, w) /\ Placed(a.in, p + w)
    BY <1>1, <1>5, <2>1, IntRead
  <2> QED BY <1>5, <2>2
<1> HIDE DEF w, p, d
<1>8. read = [values |-> << a.value >>, in |-> a.in, bits |-> w]
  BY <1>5, OneRead
<1> HIDE DEF a
<1>9. /\ read.in = a.in /\ read.bits = w /\ read.values[1] = a.value
      /\ Last(read.values) = a.value /\ Last(<< w >>) = w
  <2> HIDE DEF read
  <2> QED BY <1>8 DEF Last
<1> HIDE DEF read
<1>10. in' = a.in /\ bitsRead' = p + w /\ result' = [value |-> Value(content, p, w), width |-> w]
  BY <1>2, <1>3, <1>5, <1>7, <1>9 DEF Consume
<1>11. StreamIsPlaced' /\ ResultRight'
  <2> DEFINE s == a.in
  <2>1. Placed(s, p + w) /\ in' = s /\ w \in Nat /\ UNCHANGED file
    BY <1>2, <1>5, <1>7, <1>10
  <2> HIDE DEF s
  <2> QED BY <1>1, <1>5, <1>10, <2>1, ReadMoves
<1>12. left' = Len(r)
  <2>1. left' = (d + Shortest(rs)) % 2^w
    BY <1>2, <1>3, <1>7, <1>9
  <2> QED BY <1>6, <2>1
<1>13. RulesSoFar'
  <2>1. /\ given' = given /\ rules' = rules /\ pc' = "symbols" /\ header' = header /\ rule' = << >>
        /\ bitsRead' = SymbolStart(rs, n, 0) /\ left' = Len(r) - 0
    BY <1>2, <1>5, <1>6, <1>10, <1>12
  <2>2. Len(<< >>) = 0 /\ << >> = SubSeq(r, 1, 0) /\ 0 \in 0 .. Len(r)
    <3>1. SubSeq(r, 1, 0) = << >>
      BY EmptySeq
    <3> QED BY <1>6, <3>1
  <2>3. Len(rule') = 0 /\ rule' = SubSeq(r, 1, 0)
    BY <2>1, <2>2
  <2>4. rs' = rs /\ Len(rules') = n /\ rs'[Len(rules') + 1] = r
    BY <2>1 DEF n
  <2> HIDE DEF r
  <2>5. Len(rules') \in 0 .. Len(rs') /\ rules' = SubSeq(rs', 1, Len(rules'))
    BY <1>3, <2>1, <2>4
  <2>6. header' = [ruleCount |-> Len(rs'), minRuleLen |-> Shortest(rs')]
    BY <1>3, <2>1, <2>4
  <2> HIDE DEF rs
  <2>7. /\ Len(rules') < Len(rs') /\ Len(rule') \in 0 .. Len(r) /\ rule' = SubSeq(r, 1, Len(rule'))
        /\ left' = Len(r) - Len(rule') /\ bitsRead' = SymbolStart(rs', Len(rules'), Len(rule'))
    BY <1>4, <2>1, <2>2, <2>3, <2>4
  <2> QED BY <2>1, <2>4, <2>5, <2>6, <2>7 DEF RulesSoFar, rs
<1> QED BY <1>2, <1>11, <1>13, GrammarStays DEF GrammarState

LEMMA SymbolKeeps == ASSUME GrammarState, ReadSymbol PROVE GrammarState'
<1> DEFINE rs == given.rules
           n == Len(rules)
           r == rs[n + 1]
           j == Len(rule)
           s == r[j + 1]
           q == SymbolStart(rs, n, j)
           p == q + 1
           flag == ReadBit(in)
           w == IF flag.value = 1 THEN IntWidth ELSE ByteBits
           a == ReadInt(flag.in, w)
           read == Read(flag.in, << w >>)
           value == read.values[1]
<1>1. /\ TrailedFile /\ Placed(in, bitsRead) /\ AreRules(rs) /\ content = GrammarBits(rs)
      /\ RulesSoFar /\ content \in Seq({0, 1})
  BY DEF GrammarState, StreamIsPlaced, TrailedFile
<1>2. /\ pc = "symbols" /\ left > 0
      /\ in' = read.in /\ bitsRead' = bitsRead + 1 + w /\ result' = [value |-> value, width |-> w]
      /\ rule' = Append(rule, IF flag.value = 1 THEN NonTerminal(value) % 2^IntWidth ELSE value)
      /\ left' = left - 1
      /\ UNCHANGED << file, given, header, rules, parsing, sourceLen, pc >>
  BY DEF ReadSymbol
<1>3. /\ header = [ruleCount |-> Len(rs), minRuleLen |-> Shortest(rs)] /\ bitsRead = q
      /\ n \in 0 .. Len(rs) /\ rules = SubSeq(rs, 1, n) /\ n < Len(rs)
      /\ j \in 0 .. Len(r) /\ rule = SubSeq(r, 1, j) /\ left = Len(r) - j
  BY <1>1, <1>2 DEF RulesSoFar
<1>4. n \in 0 .. (Len(rs) - 1) /\ n + 1 \in 1 .. Len(rs) /\ Len(rs) \in Nat /\ r \in Seq(Fitting) /\ Len(r) \in Nat
  <2>1. Len(rs) \in Nat /\ rs \in Seq(Seq(Fitting))
    BY <1>1, IntWidthIs DEF AreRules
  <2>2. n \in 0 .. (Len(rs) - 1) /\ n + 1 \in 1 .. Len(rs)
    BY <1>3, <2>1
  <2>3. r \in Seq(Fitting)
    BY <2>1, <2>2
  <2> QED BY <2>1, <2>2, <2>3
<1>5. j \in 0 .. (Len(r) - 1) /\ j \in Nat /\ j + 1 \in 1 .. Len(r)
  <2> HIDE DEF r, j
  <2> QED BY SMTT(30), <1>2, <1>3, <1>4
<1>6. /\ s \in Fitting /\ q \in Nat /\ p \in Nat /\ q < Len(content) /\ content[q + 1] = SymbolFlag(s)
      /\ p + SymbolWidth(s) <= Len(content) /\ Value(content, p, SymbolWidth(s)) = SymbolValue(s)
      /\ SymbolStart(rs, n, j + 1) = p + SymbolWidth(s)
  BY <1>1, <1>4, <1>5, SymbolStored
<1> HIDE DEF q
<1>7. flag.value = SymbolFlag(s) /\ Placed(flag.in, p)
  <2>1. Placed(in, q)
    BY <1>1, <1>3
  <2>2. flag.value = content[q + 1] /\ Placed(flag.in, q + 1)
    BY <1>1, <1>6, <2>1, BitRead
  <2> QED BY <1>6, <2>2
<1> HIDE DEF flag, s, p
<1>8. w = SymbolWidth(s) /\ w \in Nat /\ w <= LongestInt
  <2>1. w = SymbolWidth(s) /\ SymbolWidth(s) \in 0 .. LongestInt /\ LongestInt \in Nat
    BY <1>6, <1>7, SymbolBitsAre, Widths
  <2> HIDE DEF w
  <2> QED BY <2>1
<1> HIDE DEF w
<1>9. a.value = SymbolValue(s) /\ a.value = Value(content, p, w) /\ Placed(a.in, p + w)
  <2> DEFINE t == flag.in
  <2>1. Placed(t, p) /\ p + w <= Len(content)
    BY <1>6, <1>7, <1>8
  <2> HIDE DEF t
  <2>2. ReadInt(t, w).value = Value(content, p, w) /\ Placed(ReadInt(t, w).in, p + w)
    BY <1>1, <1>6, <1>8, <2>1, IntRead
  <2> QED BY <1>6, <1>8, <2>2 DEF t
<1>10. read = [values |-> << a.value >>, in |-> a.in, bits |-> w]
  BY <1>8, OneRead
<1> HIDE DEF a
<1>11. read.in = a.in /\ value = a.value
  <2> HIDE DEF read
  <2> QED BY <1>10
<1> HIDE DEF read, value
<1>12. in' = a.in /\ bitsRead' = p + w /\ result' = [value |-> Value(content, p, w), width |-> w]
  BY <1>2, <1>3, <1>9, <1>11 DEF p
<1>13. StreamIsPlaced' /\ ResultRight'
  <2> DEFINE t == a.in
  <2>1. Placed(t, p + w) /\ in' = t /\ UNCHANGED file
    BY <1>2, <1>9, <1>12
  <2> HIDE DEF t
  <2> QED BY <1>1, <1>6, <1>8, <1>12, <2>1, ReadMoves
<1>14. rule' = Append(rule, s)
  <2>1. s = IF SymbolFlag(s) = 1 THEN NonTerminal(SymbolValue(s)) % 2^IntWidth ELSE SymbolValue(s)
    BY <1>6, SymbolBitsAre
  <2>2. flag.value = SymbolFlag(s) /\ value = SymbolValue(s)
    BY <1>7, <1>9, <1>11
  <2>3. (IF flag.value = 1 THEN NonTerminal(value) % 2^IntWidth ELSE value) = s
    BY <2>1, <2>2
  <2> QED BY <1>2, <2>3
<1>15. Len(rule') = j + 1 /\ rule' = SubSeq(r, 1, j + 1)
  <2> HIDE DEF r, j
  <2>1. SubSeq(r, 1, j) \in Seq(Fitting) /\ Len(SubSeq(r, 1, j)) = j
    BY <1>4, <1>5
  <2>2. Append(SubSeq(r, 1, j), r[j + 1]) = SubSeq(r, 1, j + 1)
    BY <1>4, <1>5
  <2>3. Len(SubSeq(r, 1, j + 1)) = j + 1
    BY <1>4, <1>5
  <2>4. rule' = Append(SubSeq(r, 1, j), r[j + 1])
    BY <1>3, <1>14 DEF s
  <2> QED BY <2>2, <2>3, <2>4
<1>16. RulesSoFar'
  <2>1. /\ given' = given /\ rules' = rules /\ pc' = "symbols" /\ header' = header
        /\ rs' = rs /\ Len(rules') = n /\ rs'[Len(rules') + 1] = r
    BY <1>2
  <2>2. bitsRead' = SymbolStart(rs, n, Len(rule'))
    BY <1>6, <1>8, <1>12, <1>15
  <2>3. left' = Len(r) - Len(rule')
    <3>1. left' = (Len(r) - j) - 1
      BY <1>2, <1>3
    <3> HIDE DEF r, j
    <3> QED BY <1>4, <1>5, <1>15, <3>1
  <2>4. Len(rule') \in 0 .. Len(r) /\ rule' = SubSeq(r, 1, Len(rule'))
    <3> HIDE DEF r, j
    <3> QED BY <1>4, <1>5, <1>15
  <2> HIDE DEF r, n
  <2>5. Len(rules') \in 0 .. Len(rs') /\ rules' = SubSeq(rs', 1, Len(rules'))
    BY <1>3, <2>1
  <2>6. header' = [ruleCount |-> Len(rs'), minRuleLen |-> Shortest(rs')]
    BY <1>3, <2>1
  <2> HIDE DEF rs
  <2>7. Len(rules') < Len(rs') /\ bitsRead' = SymbolStart(rs', Len(rules'), Len(rule'))
    BY <1>3, <2>1, <2>2
  <2> QED BY <2>1, <2>3, <2>4, <2>5, <2>6, <2>7 DEF RulesSoFar, rs
<1> QED BY <1>2, <1>13, <1>16, GrammarStays DEF GrammarState

(* At the end of a rule it is the rule of the file. *)
LEMMA RuleWhole ==
  ASSUME GrammarState, pc = "symbols", left = 0
  PROVE  LET rs == given.rules
             n  == Len(rules)
         IN  /\ n \in 0 .. (Len(rs) - 1) /\ n + 1 \in 1 .. Len(rs) /\ Len(rs) \in Nat
             /\ rs[n + 1] \in Seq(Fitting) /\ rule = rs[n + 1]
             /\ bitsRead = RuleStart(rs, n + 1) /\ rules = SubSeq(rs, 1, n)
             /\ header = [ruleCount |-> Len(rs), minRuleLen |-> Shortest(rs)]
<1> DEFINE rs == given.rules
           n == Len(rules)
           r == rs[n + 1]
           j == Len(rule)
<1>1. AreRules(rs) /\ content = GrammarBits(rs) /\ RulesSoFar
  BY DEF GrammarState
<1>2. /\ n \in 0 .. Len(rs) /\ n < Len(rs) /\ j \in 0 .. Len(r) /\ rule = SubSeq(r, 1, j)
      /\ left = Len(r) - j /\ bitsRead = SymbolStart(rs, n, j) /\ rules = SubSeq(rs, 1, n)
      /\ header = [ruleCount |-> Len(rs), minRuleLen |-> Shortest(rs)]
  BY <1>1 DEF RulesSoFar
<1>3. n \in 0 .. (Len(rs) - 1) /\ n + 1 \in 1 .. Len(rs) /\ Len(rs) \in Nat /\ r \in Seq(Fitting) /\ Len(r) \in Nat
  <2>1. Len(rs) \in Nat /\ rs \in Seq(Seq(Fitting))
    BY <1>1, IntWidthIs DEF AreRules
  <2>2. n \in 0 .. (Len(rs) - 1) /\ n + 1 \in 1 .. Len(rs)
    BY <1>2, <2>1
  <2>3. r \in Seq(Fitting)
    BY <2>1, <2>2
  <2> QED BY <2>1, <2>2, <2>3
<1>4. j = Len(r) /\ rule = r
  <2> HIDE DEF r, j
  <2>1. j = Len(r)
    BY <1>2, <1>3
  <2>2. SubSeq(r, 1, Len(r)) = r
    BY <1>3
  <2> QED BY <1>2, <2>1, <2>2
<1>5. SymbolStart(rs, n, Len(r)) = RuleStart(rs, n + 1)
  BY <1>1, <1>3, RuleStored
<1>6. bitsRead = RuleStart(rs, n + 1)
  BY <1>2, <1>4, <1>5
<1> QED BY <1>2, <1>3, <1>4, <1>6

LEMMA RuleKeeps == ASSUME GrammarState, EndRule PROVE GrammarState'
<1> DEFINE rs == given.rules
           n == Len(rules)
           r == rs[n + 1]
<1>1. /\ pc = "symbols" /\ left = 0 /\ rule # << >> /\ Max(ToSet(rule)) > 0
      /\ rules' = Append(rules, [k \in 1 .. Len(rule) |-> Packed(CoderWidth(rule), rule[k])])
      /\ pc' = "rules"
      /\ UNCHANGED << file, streamVars, given, header, rule, left, parsing, sourceLen >>
  BY DEF EndRule
<1>2. /\ n \in 0 .. (Len(rs) - 1) /\ n + 1 \in 1 .. Len(rs) /\ Len(rs) \in Nat
      /\ r \in Seq(Fitting) /\ rule = r
      /\ bitsRead = RuleStart(rs, n + 1) /\ rules = SubSeq(rs, 1, n)
      /\ header = [ruleCount |-> Len(rs), minRuleLen |-> Shortest(rs)]
  BY <1>1, RuleWhole
<1>3. [k \in 1 .. Len(r) |-> Packed(CoderWidth(r), r[k])] = r
  BY <1>1, <1>2, PackedKeeps
<1>4. rules' = Append(rules, r)
  BY <1>1, <1>2, <1>3
<1>5. Len(rules') = n + 1 /\ rules' = SubSeq(rs, 1, n + 1)
  <2>1. rs \in Seq(Seq(Fitting))
    BY DEF GrammarState, AreRules
  <2> HIDE DEF n, rs
  <2>2. Append(SubSeq(rs, 1, n), rs[n + 1]) = SubSeq(rs, 1, n + 1) /\ Len(SubSeq(rs, 1, n + 1)) = n + 1
    BY <1>2, <2>1
  <2>3. rules' = Append(SubSeq(rs, 1, n), rs[n + 1])
    BY <1>2, <1>4
  <2> QED BY <2>2, <2>3
<1>6. StreamIsPlaced' /\ ResultRight'
  BY <1>1, StreamStays DEF GrammarState
<1>7. RulesSoFar'
  <2>1. /\ given' = given /\ header' = header /\ pc' = "rules" /\ bitsRead' = bitsRead /\ rs' = rs
        /\ Len(rules') = n + 1
    BY <1>1, <1>5 DEF streamVars
  <2> HIDE DEF n
  <2>2. Len(rules') \in 0 .. Len(rs') /\ rules' = SubSeq(rs', 1, Len(rules')) /\ bitsRead' = RuleStart(rs', Len(rules'))
        /\ header' = [ruleCount |-> Len(rs'), minRuleLen |-> Shortest(rs')]
    BY <1>2, <1>5, <2>1
  <2> HIDE DEF rs
  <2> QED BY <2>1, <2>2 DEF RulesSoFar, rs
<1> QED BY <1>1, <1>6, <1>7, GrammarStays DEF GrammarState

LEMMA UndefinedKeeps == ASSUME GrammarState, EndRuleUndefined PROVE GrammarState'
<1> DEFINE rs == given.rules
           n == Len(rules)
<1>1. /\ pc = "symbols" /\ left = 0 /\ ToSet(rule) \subseteq {0} /\ pc' = "undefined"
      /\ UNCHANGED << file, streamVars, given, decoded >>
  BY DEF EndRuleUndefined
<1>2. /\ n \in 0 .. (Len(rs) - 1) /\ Len(rs) \in Nat /\ rule = rs[n + 1] /\ rules = SubSeq(rs, 1, n)
      /\ header = [ruleCount |-> Len(rs), minRuleLen |-> Shortest(rs)]
  BY <1>1, RuleWhole
<1>3. StreamIsPlaced' /\ ResultRight'
  BY <1>1, StreamStays DEF GrammarState
<1>4. RulesSoFar'
  <2>1. given' = given /\ header' = header /\ rules' = rules /\ rs' = rs /\ Len(rules') = n
    BY <1>1 DEF decoded
  <2>2. ToSet(rs'[Len(rules') + 1]) \subseteq {0}
    BY <1>1, <1>2, <2>1
  <2> HIDE DEF n
  <2>3. Len(rules') \in 0 .. Len(rs') /\ rules' = SubSeq(rs', 1, Len(rules')) /\ Len(rules') < Len(rs')
        /\ header' = [ruleCount |-> Len(rs'), minRuleLen |-> Shortest(rs')]
    BY <1>2, <2>1
  <2> HIDE DEF rs
  <2> QED BY <1>1, <2>2, <2>3 DEF RulesSoFar, rs
<1> QED BY <1>1, <1>3, <1>4, GrammarStays DEF GrammarState

LEMMA EndKeeps == ASSUME GrammarState, EndGrammar PROVE GrammarState'
<1> DEFINE rs == given.rules
<1>1. /\ pc = "rules" /\ Len(rules) = header.ruleCount /\ pc' = "done"
      /\ UNCHANGED << file, streamVars, given, decoded >>
  BY DEF EndGrammar
<1>2. AreRules(rs) /\ content = GrammarBits(rs) /\ RulesSoFar
  BY DEF GrammarState
<1>3. /\ header = [ruleCount |-> Len(rs), minRuleLen |-> Shortest(rs)]
      /\ bitsRead = RuleStart(rs, Len(rules)) /\ rules = SubSeq(rs, 1, Len(rules))
  BY <1>1, <1>2 DEF RulesSoFar
<1>4. Len(rules) = Len(rs) /\ Len(rs) \in Nat
  BY <1>1, <1>2, <1>3, IntWidthIs DEF AreRules
<1>5. bitsRead = Len(content)
  BY <1>2, <1>3, <1>4, RuleEnds
<1>6. StreamIsPlaced' /\ ResultRight'
  BY <1>1, StreamStays DEF GrammarState
<1>7. RulesSoFar'
  <2>1. /\ given' = given /\ header' = header /\ rules' = rules /\ rs' = rs /\ pc' = "done"
        /\ bitsRead' = bitsRead /\ content' = content
    BY <1>1 DEF decoded, streamVars, file
  <2>2. /\ Len(rules') \in 0 .. Len(rs') /\ rules' = SubSeq(rs', 1, Len(rules'))
        /\ Len(rules') = Len(rs') /\ bitsRead' = Len(content')
        /\ header' = [ruleCount |-> Len(rs'), minRuleLen |-> Shortest(rs')]
    BY <1>3, <1>4, <1>5, <2>1
  <2> HIDE DEF rs
  <2> QED BY <2>1, <2>2 DEF RulesSoFar, rs
<1> QED BY <1>1, <1>6, <1>7, GrammarStays DEF GrammarState

LEMMA GrammarInit == ASSUME Init PROVE GrammarInv
<1> SUFFICES ASSUME given.kind = "grammar" PROVE GrammarState
  BY DEF GrammarInv
<1> DEFINE rs == given.rules
<1>1. /\ content = GrammarBits(rs) /\ bytes = Encoded(content) /\ StreamInit /\ pc = "grammar" /\ trailed
      /\ rules = << >>
  BY DEF Init
<1>2. AreRules(rs)
  <2>1. IsInput(given)
    BY DecodersAssumption DEF Init
  <2> QED BY <2>1 DEF IsInput, AreRules
<1>3. content \in Seq({0, 1})
  BY <1>1, <1>2, GrammarParts
<1>4. TrailedFile
  BY <1>1, <1>3, EncodedIs DEF TrailedFile
<1>5. StreamIsPlaced /\ ResultRight
  BY <1>1, <1>4, TrailedStarts
<1>6. RulesSoFar
  <2>1. bitsRead = 0 /\ Len(rules) = 0
    BY <1>1 DEF StreamInit
  <2>2. Len(rs) \in Nat /\ rules = SubSeq(rs, 1, 0)
    <3>1. Len(rs) \in Nat
      BY <1>2, IntWidthIs DEF AreRules
    <3>2. SubSeq(rs, 1, 0) = << >>
      <4>1. rs \in Seq(Seq(Fitting))
        BY <1>2 DEF AreRules
      <4> QED BY <4>1, EmptySeq
    <3> QED BY <1>1, <3>1, <3>2
  <2> HIDE DEF rs
  <2> QED BY <1>1, <2>1, <2>2 DEF RulesSoFar, rs
<1> QED BY <1>1, <1>2, <1>5, <1>6 DEF GrammarState

LEMMA GrammarNext == ASSUME GrammarInv, [Next]_vars PROVE GrammarInv'
<1> SUFFICES ASSUME given'.kind = "grammar" PROVE GrammarState'
  BY DEF GrammarInv
<1>1. given' = given
  BY DEF Next, vars, TakeAny, Terminated, Decode, ReadGrammarHeader, ReadRuleLength, ReadSymbol, EndRule,
         EndRuleUndefined, EndGrammar, ReadParsingHeader, ReadPhrase, EndParsing
<1>2. GrammarState
  BY <1>1 DEF GrammarInv
<1>3. pc \in {"grammar", "rules", "symbols", "done", "undefined"}
  BY <1>2 DEF GrammarState, RulesSoFar
<1>4. CASE UNCHANGED vars
  <2>1. /\ UNCHANGED << file, streamVars >> /\ given' = given /\ pc' = pc /\ header' = header /\ rule' = rule
        /\ left' = left /\ rules' = rules /\ bitsRead' = bitsRead /\ content' = content
    BY <1>4 DEF vars, decoded, streamVars, file
  <2>2. StreamIsPlaced' /\ ResultRight'
    BY <1>2, <2>1, StreamStays DEF GrammarState
  <2>3. RulesSoFar'
    <3>1. RulesSoFar
      BY <1>2 DEF GrammarState
    <3> QED BY <2>1, <3>1 DEF RulesSoFar
  <2> QED BY <1>2, <2>1, <2>2, <2>3, GrammarStays DEF GrammarState
<1>5. CASE TakeAny \/ ReadParsingHeader \/ ReadPhrase \/ EndParsing
  BY <1>3, <1>5 DEF TakeAny, ReadParsingHeader, ReadPhrase, EndParsing
<1>6. CASE ReadGrammarHeader
  BY <1>2, <1>6, HeaderKeeps
<1>7. CASE ReadRuleLength
  BY <1>2, <1>7, LengthKeeps
<1>8. CASE ReadSymbol
  BY <1>2, <1>8, SymbolKeeps
<1>9. CASE EndRule
  BY <1>2, <1>9, RuleKeeps
<1>10. CASE EndRuleUndefined
  BY <1>2, <1>10, UndefinedKeeps
<1>11. CASE EndGrammar
  BY <1>2, <1>11, EndKeeps
<1>12. CASE Terminated
  BY <1>4, <1>12 DEF Terminated
<1> QED BY <1>4, <1>5, <1>6, <1>7, <1>8, <1>9, <1>10, <1>11, <1>12 DEF Next, Decode

LEMMA MissingInit == ASSUME Init PROVE MissingInv
<1> SUFFICES ASSUME given.kind = "missing"
             PROVE  /\ ~trailed /\ bytes = << >> /\ given.rules = << >> /\ rules = << >>
                    /\ Dead(in) /\ in.cursor = 0
                    /\ pc \in {"grammar", "rules", "done"}
                    /\ pc # "grammar" => header.ruleCount = 0
  BY DEF MissingInv
<1>1. bytes = << >> /\ StreamInit /\ pc = "grammar" /\ ~trailed /\ rules = << >>
  BY DEF Init
<1>2. given.rules = << >>
  <2>1. IsInput(given)
    BY DecodersAssumption DEF Init
  <2> QED BY <2>1 DEF IsInput
<1>3. Dead(in) /\ in.cursor = 0
  BY <1>1, DeadOpened DEF StreamInit
<1> QED BY <1>1, <1>2, <1>3

LEMMA MissingHeader ==
  ASSUME Dead(in), in.cursor = 0, ReadGrammarHeader
  PROVE  Dead(in') /\ in'.cursor = 0 /\ header'.ruleCount = 0
<1> DEFINE w == IntWidth
           a == ReadInt(in, w)
           b == ReadInt(a.in, w)
           c == ReadInt(b.in, w)
           read == Read(in, << w, w, w >>)
<1>1. in' = read.in /\ header' = [ruleCount |-> read.values[1], minRuleLen |-> read.values[2]]
  BY DEF ReadGrammarHeader, Consume
<1>2. w \in Nat
  BY IntWidthIs
<1>3. a.value = 0 /\ Dead(a.in) /\ a.in.cursor = 0
  BY DeadInt
<1> HIDE DEF a
<1>4. b.value = 0 /\ Dead(b.in) /\ b.in.cursor = 0
  BY <1>3, DeadInt
<1> HIDE DEF b
<1>5. c.value = 0 /\ Dead(c.in) /\ c.in.cursor = 0
  BY <1>4, DeadInt
<1> HIDE DEF c, w
<1>6. read = [values |-> << a.value, b.value, c.value >>, in |-> c.in, bits |-> 3 * w]
  BY <1>2, ThreeRead DEF a, b, c
<1> HIDE DEF read
<1>7. read.in = c.in /\ read.values[1] = 0
  BY <1>3, <1>6
<1> QED BY <1>1, <1>5, <1>7

LEMMA MissingNext == ASSUME MissingInv, [Next]_vars PROVE MissingInv'
<1> SUFFICES ASSUME given'.kind = "missing"
             PROVE  /\ ~trailed' /\ bytes' = << >> /\ given'.rules = << >> /\ rules' = << >>
                    /\ Dead(in)' /\ in'.cursor = 0
                    /\ pc' \in {"grammar", "rules", "done"}
                    /\ pc' # "grammar" => header'.ruleCount = 0
  BY DEF MissingInv
<1>1. given' = given /\ UNCHANGED file
  BY DEF Next, vars, TakeAny, Take, TakeBit, TakeInt, TakeBitAtEnd, Terminated, Decode, ReadGrammarHeader,
         ReadRuleLength, ReadSymbol, EndRule, EndRuleUndefined, EndGrammar, ReadParsingHeader, ReadPhrase, EndParsing
<1>2. /\ ~trailed /\ bytes = << >> /\ given.rules = << >> /\ rules = << >> /\ Dead(in) /\ in.cursor = 0
      /\ pc \in {"grammar", "rules", "done"} /\ (pc # "grammar" => header.ruleCount = 0)
  BY <1>1 DEF MissingInv
<1>3. trailed' = trailed /\ bytes' = bytes
  BY <1>1 DEF file
<1>4. ASSUME NEW s, Dead(s) PROVE Dead(s)'
  BY <1>3, <1>4 DEF Dead, InType
<1>5. CASE ReadGrammarHeader
  <2>1. Dead(in') /\ in'.cursor = 0 /\ header'.ruleCount = 0
    BY <1>2, <1>5, MissingHeader
  <2>2. pc' = "rules" /\ rules' = rules
    BY <1>5 DEF ReadGrammarHeader
  <2>3. Dead(in)'
    BY <1>3, <2>1 DEF Dead, InType
  <2> QED BY <1>1, <1>2, <1>3, <2>1, <2>2, <2>3
<1>6. CASE EndGrammar
  <2>1. pc = "rules" /\ pc' = "done" /\ in' = in /\ header' = header /\ rules' = rules
    BY <1>6 DEF EndGrammar, streamVars, decoded
  <2>2. Dead(in)'
    BY <1>2, <1>3, <2>1 DEF Dead, InType
  <2> QED BY <1>1, <1>2, <1>3, <2>1, <2>2
<1>7. CASE UNCHANGED vars \/ Terminated
  <2>1. pc' = pc /\ in' = in /\ header' = header /\ rules' = rules
    BY <1>7 DEF Terminated, vars, streamVars, decoded
  <2>2. Dead(in)'
    BY <1>2, <1>3, <2>1 DEF Dead, InType
  <2> QED BY <1>1, <1>2, <1>3, <2>1, <2>2
<1>8. CASE ReadRuleLength
  <2>1. pc = "rules" /\ Len(rules) < header.ruleCount
    BY <1>8 DEF ReadRuleLength
  <2>2. Len(rules) = 0 /\ header.ruleCount = 0
    BY <1>2, <2>1
  <2> QED BY <2>1, <2>2
<1>9. CASE TakeAny \/ ReadSymbol \/ EndRule \/ EndRuleUndefined \/ ReadParsingHeader \/ ReadPhrase \/ EndParsing
  BY <1>2, <1>9 DEF TakeAny, ReadSymbol, EndRule, EndRuleUndefined, ReadParsingHeader, ReadPhrase, EndParsing
<1> QED BY <1>5, <1>6, <1>7, <1>8, <1>9 DEF Next, Decode

-----------------------------------------------------------------------------
(* The invariants of the files that are not parsings, together. *)

CoderInv ==
  /\ BitsInv /\ GrammarInv /\ MissingInv
  /\ trailed => given.kind \in {"bits", "grammar"}

LEMMA CoderInit == ASSUME Init PROVE CoderInv
<1>1. trailed => given.kind \in {"bits", "grammar"}
  BY DEF Init
<1> QED BY <1>1, BitsInit, GrammarInit, MissingInit DEF CoderInv

LEMMA CoderNext == ASSUME CoderInv, [Next]_vars PROVE CoderInv'
<1>1. given' = given /\ trailed' = trailed
  BY DEF Next, vars, file, TakeAny, Take, TakeBit, TakeInt, TakeBitAtEnd, Terminated, Decode, ReadGrammarHeader,
         ReadRuleLength, ReadSymbol, EndRule, EndRuleUndefined, EndGrammar, ReadParsingHeader, ReadPhrase, EndParsing
<1>2. BitsInv' /\ GrammarInv' /\ MissingInv'
  BY BitsNext, GrammarNext, MissingNext DEF CoderInv
<1> QED BY <1>1, <1>2 DEF CoderInv

LEMMA CoderAlways == Spec => []CoderInv
<1>1. Init => CoderInv
  BY CoderInit
<1>2. CoderInv /\ [Next]_vars => CoderInv'
  BY CoderNext
<1> QED BY <1>1, <1>2, PTL DEF Spec

(* Of a file with a trailer the stream is at bitsRead, and what was read   *)
(* last is right.                                                          *)
LEMMA TrailedIsPlaced == ASSUME CoderInv, trailed PROVE StreamIsPlaced /\ ResultRight
BY DEF CoderInv, BitsInv, GrammarInv, GrammarState

(***************************************************************************)
(* The end of a file with a trailer is reported when its last bit is read  *)
(* and not before, whoever reads it: the decoder of grammars or a caller   *)
(* that mixes bits and integers of any width.                              *)
(***************************************************************************)
THEOREM EofCorrectness == Spec => []EofExact
<1>1. CoderInv => EofExact
  BY TrailedIsPlaced, PlacedIsExact DEF EofExact
<1> QED BY <1>1, CoderAlways, PTL

(***************************************************************************)
(* Wherever a reader is in a file with a trailer, read_int returns what    *)
(* read_bit would, bit by bit, and leaves the same buffers behind.         *)
(***************************************************************************)
THEOREM IntCorrectness == Spec => []IntIsItsBits
<1>1. CoderInv => IntIsItsBits
  BY TrailedIsPlaced, PlacedIsExact DEF IntIsItsBits
<1> QED BY <1>1, CoderAlways, PTL

(* No rule decoded consists of the character 0 only.                       *)
NoBlankRule ==
  given.kind = "grammar" => \A k \in 1 .. Len(rules) : ~IsBlank(given.rules[k])

LEMMA BlankNext == ASSUME CoderInv, NoBlankRule, [Next]_vars PROVE NoBlankRule'
<1>1. given' = given
  BY DEF Next, vars, TakeAny, Terminated, Decode, ReadGrammarHeader, ReadRuleLength, ReadSymbol, EndRule,
         EndRuleUndefined, EndGrammar, ReadParsingHeader, ReadPhrase, EndParsing
<1>2. CASE given.kind # "grammar"
  BY <1>1, <1>2 DEF NoBlankRule
<1>3. CASE rules' = rules
  BY <1>1, <1>3 DEF NoBlankRule
<1>4. CASE given.kind = "grammar" /\ EndRule
  <2> DEFINE rs == given.rules
             n == Len(rules)
             r == rs[n + 1]
  <2>1. GrammarState
    BY <1>4 DEF CoderInv, GrammarInv
  <2>2. /\ pc = "symbols" /\ left = 0 /\ rule # << >> /\ Max(ToSet(rule)) > 0
        /\ rules' = Append(rules, [k \in 1 .. Len(rule) |-> Packed(CoderWidth(rule), rule[k])])
    BY <1>4 DEF EndRule
  <2>3. n \in 0 .. (Len(rs) - 1) /\ Len(rs) \in Nat /\ r \in Seq(Fitting) /\ rule = r /\ rules = SubSeq(rs, 1, n)
    BY <2>1, <2>2, RuleWhole
  <2>4. Len(rules') = n + 1 /\ n \in Nat
    <3>1. [k \in 1 .. Len(r) |-> Packed(CoderWidth(r), r[k])] = r
      BY <2>2, <2>3, PackedKeeps
    <3>2. rules' = Append(SubSeq(rs, 1, n), r)
      BY <2>2, <2>3, <3>1
    <3>3. rs \in Seq(Seq(Fitting))
      BY <2>1 DEF GrammarState, AreRules
    <3> HIDE DEF n, rs
    <3>4. Len(Append(SubSeq(rs, 1, n), rs[n + 1])) = n + 1 /\ n \in Nat
      BY <2>3, <3>3
    <3> QED BY <3>2, <3>4
  <2>5. ~IsBlank(r)
    <3> DEFINE S == ToSet(r)
               b == 2^IntWidth - 1
    <3>1. S = {r[k] : k \in 1 .. Len(r)} /\ S \in SUBSET Fitting
      BY <2>3 DEF ToSet
    <3>2. b \in Nat /\ S \in SUBSET (0 .. b)
      <4>1. 2^IntWidth \in Nat \ {0}
        BY IntWidthIs, DecodersAssumption, WidthAssumption, Widths
      <4> DEFINE top == 2^IntWidth
      <4> HIDE DEF top
      <4>2. top - 1 \in Nat
        BY <4>1 DEF top
      <4> QED BY <3>1, <4>2 DEF Fitting, top
    <3>3. S # {}
      <4>1. 1 \in 1 .. Len(r)
        BY <2>2, <2>3, EmptySeq
      <4> HIDE DEF r
      <4> QED BY <3>1, <4>1
    <3>4. Max(S) > 0
      BY <2>2, <2>3
    <3> HIDE DEF S, b
    <3>5. Max(S) \in S
      BY <3>2, <3>3, MaxOfBounded
    <3> DEFINE m == Max(S)
    <3> HIDE DEF m
    <3>6. m \in S /\ m # 0
      BY <3>4, <3>5 DEF m
    <3> QED BY <3>6 DEF IsBlank, S
  <2>6. \A k \in 1 .. n : ~IsBlank(rs[k])
    BY <1>4 DEF NoBlankRule
  <2> HIDE DEF n, rs
  <2>7. \A k \in 1 .. (n + 1) : ~IsBlank(rs[k])
    BY <2>4, <2>5, <2>6
  <2> QED BY <1>1, <2>4, <2>7 DEF NoBlankRule, rs
<1> QED BY <1>2, <1>3, <1>4 DEF Next, vars, TakeAny, Terminated, Decode, ReadGrammarHeader, ReadRuleLength,
           ReadSymbol, EndRuleUndefined, EndGrammar, ReadParsingHeader, ReadPhrase, EndParsing, decoded

LEMMA BlankAlways == Spec => []NoBlankRule
<1>1. Init => NoBlankRule
  BY DEF Init, NoBlankRule
<1>2. CoderInv /\ NoBlankRule /\ [Next]_vars => NoBlankRule'
  BY BlankNext
<1> QED BY <1>1, <1>2, CoderAlways, PTL DEF Spec

(* What decode has at the end, and on the way. *)
LEMMA RulesAreDecoded ==
  ASSUME GrammarState
  PROVE  /\ IsPrefix(rules, given.rules)
         /\ pc = "symbols" =>
              /\ IsPrefix(rule, given.rules[Len(rules) + 1])
              /\ left = Len(given.rules[Len(rules) + 1]) - Len(rule)
         /\ pc = "done" => rules = given.rules /\ Eof(in)
         /\ pc = "undefined" => IsBlank(given.rules[Len(rules) + 1])
<1> DEFINE rs == given.rules
           n == Len(rules)
           r == rs[n + 1]
<1>1. RulesSoFar /\ rs \in Seq(Seq(Fitting)) /\ StreamIsPlaced
  BY DEF GrammarState, AreRules
<1>2. Len(rs) \in Nat
  BY <1>1
<1>3. ASSUME NEW T, NEW t \in Seq(T), NEW u, NEW m, m = Len(u), m \in 0 .. Len(t), u = SubSeq(t, 1, m)
      PROVE  IsPrefix(u, t)
  <2>1. u \in Seq(T) /\ Len(t) \in Nat /\ m \in Nat
    BY <1>3
  <2>2. m <= Len(t)
    BY <1>3, <2>1
  <2>3. u = SubSeq(t, 1, Len(u))
    BY <1>3
  <2> QED BY <1>3, <2>2, <2>3 DEF IsPrefix
<1>4. IsPrefix(rules, rs)
  BY <1>1, <1>3 DEF RulesSoFar
<1>5. pc = "symbols" => IsPrefix(rule, r) /\ left = Len(r) - Len(rule)
  <2> SUFFICES ASSUME pc = "symbols" PROVE IsPrefix(rule, r) /\ left = Len(r) - Len(rule)
    OBVIOUS
  <2>1. n \in 0 .. Len(rs) /\ n < Len(rs) /\ Len(rule) \in 0 .. Len(r) /\ rule = SubSeq(r, 1, Len(rule))
        /\ left = Len(r) - Len(rule)
    BY <1>1 DEF RulesSoFar
  <2>2. n + 1 \in 1 .. Len(rs)
    <3> HIDE DEF n, rs
    <3> QED BY <1>2, <2>1
  <2>3. r \in Seq(Fitting)
    BY <1>1, <2>2
  <2> HIDE DEF r
  <2> QED BY <1>3, <2>1, <2>3
<1>6. pc = "done" => rules = rs /\ Eof(in)
  <2> SUFFICES ASSUME pc = "done" PROVE rules = rs /\ Eof(in)
    OBVIOUS
  <2>1. rules = SubSeq(rs, 1, n) /\ n = Len(rs) /\ bitsRead = Len(content)
    BY <1>1 DEF RulesSoFar
  <2>2. SubSeq(rs, 1, Len(rs)) = rs
    BY <1>1
  <2>3. Eof(in)
    BY <1>1, <2>1, EofIs DEF StreamIsPlaced
  <2> QED BY <2>1, <2>2, <2>3
<1>7. pc = "undefined" => IsBlank(r)
  BY <1>1 DEF RulesSoFar, IsBlank
<1> QED BY <1>4, <1>5, <1>6, <1>7

(***************************************************************************)
(* GrammarTupleCoder::decode returns the rules of the file, whatever their *)
(* number, lengths and symbols: what is decoded is always a beginning of   *)
(* them, it is undefined for a rule of nothing but the character 0 and no  *)
(* other, and at the end the whole file is read.  A missing file has no    *)
(* rules.                                                                  *)
(***************************************************************************)
THEOREM RulesCorrectness == Spec => []RulesDecoded
<1>1. CoderInv /\ NoBlankRule => RulesDecoded
  <2> SUFFICES ASSUME CoderInv, NoBlankRule PROVE RulesDecoded
    OBVIOUS
  <2>1. CASE given.kind = "grammar"
    <3>1. GrammarState
      BY <2>1 DEF CoderInv, GrammarInv
    <3>2. \A k \in 1 .. Len(rules) : ~IsBlank(given.rules[k])
      BY <2>1 DEF NoBlankRule
    <3> QED BY <3>1, <3>2, RulesAreDecoded DEF RulesDecoded
  <2>2. CASE given.kind = "missing"
    <3>1. rules = << >> /\ given.rules = << >> /\ Dead(in) /\ pc \in {"grammar", "rules", "done"}
      BY <2>2 DEF CoderInv, MissingInv
    <3>2. IsPrefix(<< >>, << >>)
      <4>1. SubSeq(<< >>, 1, 0) = << >>
        BY EmptySeq
      <4> QED BY <4>1 DEF IsPrefix
    <3>3. Eof(in)
      BY <3>1, DeadEof
    <3>4. \A k \in 1 .. Len(rules) : ~IsBlank(given.rules[k])
      <4>1. Len(rules) = 0
        BY <3>1
      <4> QED BY <4>1
    <3> QED BY <2>2, <3>1, <3>2, <3>3, <3>4 DEF RulesDecoded
  <2> QED BY <2>1, <2>2 DEF RulesDecoded
<1> QED BY <1>1, CoderAlways, BlankAlways, PTL

-----------------------------------------------------------------------------
(* Files without a trailer.  Byte k (from 1) as the stream hands it out:   *)
(* zero behind the end, and if it is the last one and looks like the       *)
(* trailer of an empty byte.                                               *)

PlainFile ==
  /\ ~trailed /\ bytes \in Seq(0 .. (2^ByteBits - 1)) /\ Len(bytes) \in Nat /\ Len(bytes) > 1

Byte(k) == IF k \in 1 .. Len(bytes) /\ (k = Len(bytes) => LastByteKept) THEN bytes[k] ELSE 0

LEMMA BytesAre ==
  ASSUME PlainFile
  PROVE  /\ Len(bytes) \in Nat /\ Len(bytes) > 1 /\ bytes \in Seq(Nat) /\ ~trailed
         /\ 2^ByteBits \in Nat \ {0}
         /\ \A j \in 1 .. Len(bytes) : bytes[j] \in Nat /\ bytes[j] < 2^ByteBits
<1> DEFINE m == 2^ByteBits
<1>1. m \in Nat \ {0}
  BY Widths, PowType
<1>2. bytes \in Seq(0 .. (m - 1)) /\ Len(bytes) \in Nat /\ Len(bytes) > 1 /\ ~trailed
  BY DEF PlainFile
<1> HIDE DEF m
<1>3. bytes \in Seq(Nat) /\ \A j \in 1 .. Len(bytes) : bytes[j] \in Nat /\ bytes[j] < m
  BY <1>1, <1>2
<1> QED BY <1>1, <1>2, <1>3 DEF m

LEMMA ByteType ==
  ASSUME PlainFile, NEW k \in Nat
  PROVE  Byte(k) \in Nat /\ Byte(k) < 2^ByteBits
<1> DEFINE m == 2^ByteBits
<1>1. m \in Nat \ {0} /\ \A j \in 1 .. Len(bytes) : bytes[j] \in Nat /\ bytes[j] < m
  BY BytesAre
<1> HIDE DEF m
<1>2. Byte(k) \in Nat /\ Byte(k) < m
  BY <1>1 DEF Byte
<1> QED BY <1>2 DEF m

LEMMA LowBits ==
  ASSUME NEW x \in Nat
  PROVE  x % 2^TrailerBits \in Nat
<1> DEFINE m == 2^TrailerBits
<1>1. m \in Nat \ {0}
  BY Widths, PowType
<1> HIDE DEF m
<1>2. x % m \in Nat
  BY <1>1
<1> QED BY <1>2 DEF m

(* What the last byte says of the end. *)
LEMMA LastSeen ==
  ASSUME PlainFile
  PROVE  LET t == bytes[Len(bytes)] % 2^TrailerBits
         IN  t \in Nat /\ (LastByteKept <=> ~(t > ByteBits - TrailerBits)) /\ (~LastByteKept => t > 0)
<1> DEFINE n == Len(bytes)
           t == bytes[n] % 2^TrailerBits
<1>1. n \in 1 .. n /\ bytes[n] \in Nat /\ bytes # << >> /\ Last(bytes) = bytes[n] /\ ~trailed
  <2>1. n \in Nat /\ n > 1 /\ bytes \in Seq(Nat) /\ ~trailed
    BY BytesAre
  <2> QED BY <2>1 DEF Last
<1>3. t \in Nat
  BY <1>1, LowBits
<1>4. LastByteKept <=> t <= ByteBits - TrailerBits
  BY <1>1 DEF LastByteKept
<1> HIDE DEF t
<1>5. TrailerBits + 2 <= ByteBits /\ TrailerBits \in Nat /\ ByteBits \in Nat
  BY Widths, TrailerAssumption
<1> QED BY <1>3, <1>4, <1>5 DEF t

(* The buffers: byte q is in m_next. *)
Shown(s, q) ==
  /\ s.next = Byte(q)
  /\ q < Len(bytes) => s.good /\ ~s.final /\ s.pos = q
  /\ q >= Len(bytes) => ~s.good
  /\ q = Len(bytes) => IF LastByteKept THEN ~s.final ELSE s.final /\ s.finalBits > 0
  /\ q > Len(bytes) => s.final

(* q bytes have been read, and no bit of the next one. *)
AtByte(s, q) ==
  /\ InType(s)
  /\ s.cursor = MSB
  /\ s.current = Byte(q + 1)
  /\ Shown(s, q + 2)
  /\ q >= Len(bytes) => s.finalBits = 0

LEMMA ShowsNext ==
  ASSUME PlainFile, NEW s, InType(s), NEW q \in 1 .. Len(bytes), s.good, ~s.final, s.pos = q - 1
  PROVE  LET v == NextFromStream(s)
         IN  InType(v) /\ Shown(v, q) /\ v.current = s.current /\ v.cursor = s.cursor
<1> DEFINE n == Len(bytes)
           byte == bytes[q]
           t == byte % 2^TrailerBits
           m == Moved(s, byte)
           v == NextFromStream(s)
<1>1. n \in Nat /\ q \in Nat /\ byte \in Nat /\ s.pos + 1 = q
  <2>1. n \in Nat /\ bytes \in Seq(Nat)
    BY BytesAre
  <2> QED BY <2>1
<1>2. t \in Nat
  BY <1>1, LowBits
<1>3. CanGet(s) /\ bytes[s.pos + 1] = byte
  BY <1>1 DEF CanGet
<1>4. /\ InType(m) /\ m.pos = q /\ m.next = byte /\ m.good /\ ~m.final
      /\ m.current = s.current /\ m.cursor = s.cursor
  BY ZenonT(60), <1>1, MovedIs
<1>5. v = IF s.pos + 1 < n THEN m
          ELSE IF t > ByteBits - TrailerBits
          THEN [m EXCEPT !.good = FALSE, !.finalBits = t, !.final = TRUE, !.next = 0]
          ELSE [m EXCEPT !.good = FALSE, !.finalBits = t]
  BY <1>3, Zenon DEF NextFromStream, Moved
<1>6. CASE q < n
  <2>1. v = m
    BY <1>1, <1>5, <1>6
  <2>2. Byte(q) = byte
    BY <1>1, <1>6 DEF Byte
  <2> HIDE DEF m, v, byte
  <2> QED BY <1>1, <1>4, <1>6, <2>1, <2>2 DEF Shown, v
<1>7. CASE q = n
  <2>1. LastByteKept <=> ~(t > ByteBits - TrailerBits)
    BY <1>7, LastSeen
  <2>2. ~LastByteKept => t > 0
    BY <1>7, LastSeen
  <2>3. ~(s.pos + 1 < n)
    BY <1>1, <1>7
  <2>4. CASE LastByteKept
    <3>1. v = [m EXCEPT !.good = FALSE, !.finalBits = t]
      BY <1>5, <2>1, <2>3, <2>4
    <3>2. Byte(q) = byte
      BY <2>4 DEF Byte
    <3> HIDE DEF m, v, t, byte
    <3>3. InType(v) /\ v.next = byte /\ ~v.good /\ ~v.final /\ v.current = m.current /\ v.cursor = m.cursor
      BY <1>2, <1>4, <3>1 DEF InType
    <3> QED BY <1>1, <1>4, <1>7, <2>4, <3>2, <3>3 DEF Shown, v
  <2>5. CASE ~LastByteKept
    <3>1. v = [m EXCEPT !.good = FALSE, !.finalBits = t, !.final = TRUE, !.next = 0]
      BY <1>5, <2>1, <2>3, <2>5
    <3>2. Byte(q) = 0
      BY <1>7, <2>5 DEF Byte
    <3> HIDE DEF m, v, t, byte
    <3>3. /\ InType(v) /\ v.next = 0 /\ ~v.good /\ v.final /\ v.finalBits = t
          /\ v.current = m.current /\ v.cursor = m.cursor
      BY <1>2, <1>4, <3>1 DEF InType
    <3> QED BY <1>1, <1>2, <1>4, <1>7, <2>2, <2>5, <3>2, <3>3 DEF Shown, v
  <2> QED BY <2>4, <2>5
<1> QED BY <1>1, <1>6, <1>7

LEMMA ShowsEnd ==
  ASSUME PlainFile, NEW s, InType(s), NEW q \in Nat, q > Len(bytes), ~CanGet(s)
  PROVE  LET v == NextFromStream(s)
         IN  /\ InType(v) /\ Shown(v, q) /\ v.current = s.current /\ v.cursor = s.cursor
             /\ v.finalBits = s.current % 2^TrailerBits
<1> DEFINE t == s.current % 2^TrailerBits
           v == NextFromStream(s)
<1>1. Len(bytes) \in Nat /\ s.current \in Nat
  BY DEF PlainFile, InType
<1>2. t \in Nat
  BY <1>1, LowBits
<1>3. v = [s EXCEPT !.good = FALSE, !.final = TRUE, !.finalBits = t, !.next = 0]
  BY Zenon DEF NextFromStream
<1>4. Byte(q) = 0
  BY <1>1 DEF Byte
<1> HIDE DEF t, v
<1>5. /\ InType(v) /\ v.next = 0 /\ ~v.good /\ v.final /\ v.finalBits = t
      /\ v.current = s.current /\ v.cursor = s.cursor
  BY <1>2, <1>3 DEF InType
<1>6. Shown(v, q)
  BY <1>1, <1>4, <1>5 DEF Shown
<1> QED BY <1>5, <1>6 DEF v, t

(* read_next *)
LEMMA NextByte ==
  ASSUME PlainFile, NEW s, InType(s), NEW q \in Nat, Shown(s, q + 1)
  PROVE  AtByte(ReadNext(s), q)
<1> DEFINE n == Len(bytes)
           x == s.next
           c == MSB
           u == [s EXCEPT !.current = x, !.cursor = c]
           v == NextFromStream(u)
<1>1. n \in Nat /\ x \in Nat /\ c \in Nat /\ x = Byte(q + 1)
  BY Widths DEF PlainFile, InType, MSB, Shown
<1>2. ReadNext(s) = v
  BY DEF ReadNext
<1> HIDE DEF x, c
<1>3. /\ InType(u) /\ u.current = x /\ u.cursor = c /\ u.pos = s.pos /\ u.good = s.good /\ u.final = s.final
  BY <1>1 DEF InType
<1> HIDE DEF u
<1>4. CASE q + 1 < n
  <2>1. s.good /\ ~s.final /\ s.pos = q + 1
    BY <1>4 DEF Shown
  <2> DEFINE r == q + 2
  <2>2. r \in 1 .. Len(bytes) /\ u.pos = r - 1
    BY <1>1, <1>3, <1>4, <2>1
  <2> HIDE DEF r
  <2>3. InType(v) /\ Shown(v, r) /\ v.current = u.current /\ v.cursor = u.cursor
    BY <1>3, <2>1, <2>2, ShowsNext
  <2>4. ~(q >= n)
    BY <1>1, <1>4
  <2> HIDE DEF v
  <2> QED BY <1>1, <1>2, <1>3, <2>3, <2>4 DEF AtByte, r, c
<1>5. CASE q + 1 >= n
  <2>1. ~s.good
    BY <1>5 DEF Shown
  <2>2. ~CanGet(u)
    BY <1>3, <2>1 DEF CanGet
  <2> DEFINE r == q + 2
  <2>3. r \in Nat /\ r > Len(bytes)
    BY <1>1, <1>5
  <2> HIDE DEF r
  <2>4. /\ InType(v) /\ Shown(v, r) /\ v.current = u.current /\ v.cursor = u.cursor
        /\ v.finalBits = u.current % 2^TrailerBits
    BY <1>3, <2>2, <2>3, ShowsEnd
  <2>5. q >= n => v.finalBits = 0
    <3> SUFFICES ASSUME q >= n PROVE v.finalBits = 0
      OBVIOUS
    <3>1. Byte(q + 1) = 0
      <4>1. q + 1 \notin 1 .. Len(bytes)
        BY <1>1
      <4> QED BY <4>1 DEF Byte
    <3>2. ASSUME NEW d \in Nat \ {0} PROVE 0 % d = 0
      OBVIOUS
    <3>3. 0 % 2^TrailerBits = 0
      BY <3>2, Widths, PowType
    <3> QED BY <1>1, <1>3, <2>4, <3>1, <3>3
  <2> HIDE DEF v
  <2> QED BY <1>1, <1>2, <1>3, <2>4, <2>5 DEF AtByte, r, c
<1> QED BY <1>1, <1>4, <1>5

LEMMA FirstByte == ASSUME PlainFile PROVE AtByte(Opened, 0)
<1> DEFINE x == bytes[1]
           s == [Fresh EXCEPT !.pos = 1, !.next = x]
           z == 0
           r == 1
<1>1. Len(bytes) \in Nat /\ Len(bytes) > 1 /\ x \in Nat /\ bytes # << >>
  <2>1. Len(bytes) \in Nat /\ Len(bytes) > 1 /\ bytes \in Seq(Nat)
    BY BytesAre
  <2> QED BY <2>1
<1>2. Opened = ReadNext(s)
  BY <1>1 DEF Opened
<1>3. Byte(r) = x
  <2>1. r \in 1 .. Len(bytes) /\ r # Len(bytes) /\ bytes[r] = x
    BY <1>1
  <2> HIDE DEF r
  <2> QED BY <2>1 DEF Byte
<1> HIDE DEF x
<1>4. InType(s) /\ s.pos = 1 /\ s.next = x /\ s.good /\ ~s.final
  BY <1>1 DEF InType, Fresh
<1> HIDE DEF s
<1>5. Shown(s, r)
  <2>1. r < Len(bytes) /\ s.pos = r
    BY <1>1, <1>4
  <2>2. r \in Nat
    OBVIOUS
  <2> HIDE DEF r
  <2> QED BY <1>1, <1>3, <1>4, <2>1, <2>2 DEF Shown
<1>6. z \in Nat /\ z + 1 = r
  OBVIOUS
<1> HIDE DEF z, r
<1>7. AtByte(ReadNext(s), z)
  BY <1>4, <1>5, <1>6, NextByte
<1> QED BY <1>2, <1>7 DEF z

LEMMA EofAt ==
  ASSUME PlainFile, NEW s, NEW q \in Nat, AtByte(s, q)
  PROVE  /\ q + 2 <= Len(bytes) => ~Eof(s)
         /\ q >= Len(bytes) => Eof(s)
<1>1. MSB \in Nat /\ Len(bytes) \in Nat
  BY BytesAre, Widths DEF MSB
<1>2. s.cursor = MSB /\ Shown(s, q + 2) /\ InType(s)
  BY DEF AtByte
<1>3. q + 2 <= Len(bytes) => (s.final => s.finalBits > 0)
  BY <1>1, <1>2 DEF Shown
<1>4. q >= Len(bytes) => s.final /\ s.finalBits = 0
  BY <1>1, <1>2 DEF Shown, AtByte
<1>5. s.finalBits \in Nat
  BY <1>2 DEF InType
<1> QED BY <1>1, <1>2, <1>3, <1>4, <1>5 DEF Eof

(* read_int of whole bytes, from the beginning of one. *)
LEMMA IntOfBytes ==
  ASSUME PlainFile, NEW s, NEW q \in Nat, AtByte(s, q), NEW d \in Nat
  PROVE  LET rest  == d * ByteBits
             whole == WholeBytes(s, rest)
         IN  ReadInt(s, d * ByteBits + ByteBits) =
               [value |-> s.current * 2^rest + whole.value, in |-> ReadNext(whole.in)]
<1> DEFINE B == ByteBits
           rest == d * B
           width == rest + B
           whole == WholeBytes(s, rest)
           moved == ReadNext(whole.in)
<1>1. B \in Nat \ {0} /\ s.cursor + 1 = B /\ rest \in Nat
  <2>1. B \in Nat \ {0} /\ MSB = B - 1 /\ s.cursor = MSB
    BY Widths DEF MSB, AtByte
  <2> HIDE DEF B
  <2> QED BY <2>1
<1>2. s.current % 2^B = s.current
  <2> DEFINE m == 2^B
             x == s.current
  <2>1. x \in Nat /\ x < m /\ m \in Nat \ {0}
    <3>1. s.current = Byte(q + 1) /\ q + 1 \in Nat
      BY DEF AtByte
    <3>2. m \in Nat \ {0}
      BY BytesAre
    <3> HIDE DEF m
    <3> QED BY <3>1, <3>2, ByteType DEF m
  <2> HIDE DEF m, x
  <2>2. x % m = x
    BY <2>1
  <2> QED BY <2>2 DEF m, x
<1>3. rest % B = 0
  <2> DEFINE z == 0
  <2>1. z \in 0 .. (B - 1) /\ rest = d * B + z
    BY <1>1
  <2> HIDE DEF z, B, rest
  <2>2. (d * B + z) % B = z
    BY <1>1, <2>1, DivMod
  <2> QED BY <2>1, <2>2 DEF z
<1>4. ~(width < s.cursor + 1) /\ width - (s.cursor + 1) = rest
  <2> HIDE DEF rest, B
  <2> QED BY <1>1
<1> HIDE DEF rest, width, B
<1>5. ReadInt(s, width) = [value |-> (s.current % 2^B) * 2^rest + whole.value, in |-> moved]
  BY <1>1, <1>3, <1>4, Zenon DEF ReadInt, B
<1>6. ReadInt(s, width) = [value |-> s.current * 2^rest + whole.value, in |-> moved]
  BY <1>2, <1>5
<1> QED BY <1>6 DEF width, rest, B

LEMMA ByteRead ==
  ASSUME PlainFile, NEW s, NEW q \in Nat, AtByte(s, q)
  PROVE  ReadInt(s, ByteBits).value = Byte(q + 1) /\ AtByte(ReadInt(s, ByteBits).in, q + 1)
<1> DEFINE B == ByteBits
           z == 0
           rest == z * B
           r == q + 1
<1>1. B \in Nat \ {0}
  BY Widths
<1> HIDE DEF B
<1>2. z \in Nat /\ rest = 0 /\ rest + B = B
  BY <1>1
<1>3. WholeBytes(s, 0) = [value |-> 0, in |-> s]
  <2>1. ~(0 >= 2 * B) /\ ~(0 >= B)
    BY <1>1
  <2> QED BY <2>1, Zenon DEF WholeBytes, B
<1> HIDE DEF z
<1>4. ReadInt(s, rest + B) = [value |-> s.current * 2^rest + WholeBytes(s, rest).value, in |-> ReadNext(WholeBytes(s, rest).in)]
  BY <1>2, IntOfBytes DEF B
<1> HIDE DEF rest
<1>5. ReadInt(s, B) = [value |-> s.current * 2^0 + 0, in |-> ReadNext(s)]
  BY <1>2, <1>3, <1>4
<1>6. s.current * 2^0 + 0 = s.current
  <2>1. 2^0 = 1 /\ s.current \in Nat
    BY PowersAssumption DEF AtByte, InType
  <2> QED BY <2>1
<1>7. InType(s) /\ Shown(s, r + 1) /\ r \in Nat /\ s.current = Byte(r)
  <2>1. r + 1 = q + 2 /\ r \in Nat
    OBVIOUS
  <2> HIDE DEF r
  <2> QED BY <2>1 DEF AtByte, r
<1> HIDE DEF r
<1>8. AtByte(ReadNext(s), r)
  BY <1>7, NextByte
<1>9. ReadInt(s, B).value = Byte(r) /\ AtByte(ReadInt(s, B).in, r)
  BY <1>5, <1>6, <1>7, <1>8
<1> QED BY <1>9 DEF B, r

(* A header of zeros, which goes past the buffers if it is long. *)
LEMMA ZerosRead ==
  ASSUME PlainFile, NEW s, NEW q \in Nat, AtByte(s, q), NEW h \in Nat \ {0},
         h * ByteBits <= LongestInt, q + h <= Len(bytes), \A k \in 1 .. h : bytes[q + k] = 0
  PROVE  /\ ReadInt(s, h * ByteBits).value = 0
         /\ AtByte(ReadInt(s, h * ByteBits).in, q + h)
<1> DEFINE B == ByteBits
           d == h - 1
           rest == d * B
           whole == WholeBytes(s, rest)
           n == Len(bytes)
<1>1. /\ B \in Nat \ {0} /\ d \in Nat /\ h = d + 1 /\ n \in Nat /\ rest \in Nat /\ h * B = rest + B
      /\ rest <= LongestInt /\ LongestInt \in Nat /\ B <= LongestInt
  <2>1. B \in Nat \ {0} /\ n \in Nat /\ LongestInt \in Nat /\ B <= LongestInt
    BY Widths, BytesAre
  <2>2. d \in Nat /\ h = d + 1
    OBVIOUS
  <2>3. h * B <= LongestInt
    OBVIOUS
  <2> HIDE DEF B, d
  <2>4. (d + 1) * B = d * B + B /\ d * B \in Nat
    BY <2>1, <2>2
  <2>5. rest \in Nat /\ h * B = rest + B
    BY <2>2, <2>4
  <2> DEFINE x == h * B
  <2> HIDE DEF rest, x
  <2>6. rest <= LongestInt
    BY <2>1, <2>3, <2>5 DEF x
  <2> QED BY <2>1, <2>2, <2>5, <2>6 DEF x
<1>2. \A k \in 1 .. h : Byte(q + k) = 0
  BY DEF Byte
<1>3. ReadInt(s, h * B) = [value |-> s.current * 2^rest + whole.value, in |-> ReadNext(whole.in)]
  <2>1. ReadInt(s, rest + B) = [value |-> s.current * 2^rest + whole.value, in |-> ReadNext(whole.in)]
    BY <1>1, IntOfBytes DEF B
  <2> HIDE DEF rest, whole, B
  <2> QED BY <1>1, <2>1
<1>4. s.current = 0
  <2>1. 1 \in 1 .. h
    OBVIOUS
  <2>2. Byte(q + 1) = 0
    BY <1>2, <2>1
  <2> QED BY <2>2 DEF AtByte
<1>5. s.current * 2^rest = 0
  <2>1. 2^rest \in Nat
    <3> HIDE DEF rest
    <3>1. rest \in 0 .. LongestInt
      BY <1>1
    <3> QED BY <3>1, PowType
  <2> DEFINE y == 2^rest
  <2> HIDE DEF y
  <2>2. 0 * y = 0
    BY <2>1 DEF y
  <2> QED BY <1>4, <2>2 DEF y
<1>6. whole.value = 0 /\ InType(whole.in) /\ Shown(whole.in, q + h + 1)
  <2>1. CASE d = 0
    <3>1. rest = 0 /\ ~(0 >= 2 * B) /\ ~(0 >= B)
      BY <1>1, <2>1
    <3>2. WholeBytes(s, 0) = [value |-> 0, in |-> s]
      BY <3>1, Zenon DEF WholeBytes, B
    <3>3. q + h + 1 = q + 2
      BY <1>1, <2>1
    <3>4. InType(s) /\ Shown(s, q + 2)
      BY DEF AtByte
    <3>5. whole = [value |-> 0, in |-> s]
      BY <3>1, <3>2
    <3> HIDE DEF whole
    <3> QED BY <3>3, <3>4, <3>5
  <2>2. CASE d = 1
    <3>1. rest = B /\ ~(B >= 2 * B) /\ B >= B /\ B - B = 0
      BY <1>1, <2>2
    <3> DEFINE m == ReadNext(s)
    <3>2. WholeBytes(s, B) = [value |-> m.current * 2^(B - B), in |-> m]
      BY <3>1, Zenon DEF WholeBytes, B
    <3> DEFINE r == q + 1
    <3>3. InType(s) /\ Shown(s, r + 1) /\ r \in Nat
      <4>1. r + 1 = q + 2 /\ r \in Nat
        OBVIOUS
      <4> HIDE DEF r
      <4> QED BY <4>1 DEF AtByte
    <3> HIDE DEF r
    <3>4. AtByte(m, r)
      BY <3>3, NextByte
    <3> HIDE DEF m
    <3>5. r + 1 = q + 2 /\ q + h + 1 = r + 2
      BY <1>1, <2>2 DEF r
    <3>6. m.current = 0
      <4>1. 2 \in 1 .. h
        BY <1>1, <2>2
      <4>2. Byte(q + 2) = 0
        BY <1>2, <4>1
      <4> QED BY <3>4, <3>5, <4>2 DEF AtByte
    <3>7. 0 * 2^0 = 0
      BY PowersAssumption
    <3>8. whole = [value |-> 0, in |-> m]
      BY <3>1, <3>2, <3>6, <3>7
    <3>9. InType(m) /\ Shown(m, r + 2)
      BY <3>4 DEF AtByte
    <3> HIDE DEF whole
    <3> QED BY <3>5, <3>8, <3>9
  <2>3. CASE d >= 2
    <3> DEFINE j == d - 1
               raw == RawBytes(s, j)
               t == AfterRaw(s, j)
               x == B * j
               e == 0
               r == q + h + 1
    <3>1. /\ j \in Nat \ {0} /\ x \in Nat /\ x <= LongestInt /\ rest >= 2 * B /\ rest \div B = d
          /\ rest % B = e
      <4>1. j \in Nat \ {0} /\ d = j + 1
        BY <1>1, <2>3
      <4> HIDE DEF j
      <4>2. d * B = B * j + B /\ B * j \in Nat /\ 2 * B <= d * B
        <5>1. (j + 1) * B = B * j + B /\ B * j \in Nat /\ B <= B * j
          <6>1. PICK c \in Nat : j = c + 1
            <7>1. j - 1 \in Nat /\ j = (j - 1) + 1
              BY <4>1
            <7> QED BY <7>1
          <6> HIDE DEF B
          <6>2. B * (c + 1) = B * c + B /\ B * c \in Nat
            BY <1>1
          <6>3. B * j \in Nat /\ B <= B * j
            BY <1>1, <6>1, <6>2
          <6>4. (j + 1) * B = B * j + B
            BY <1>1, <4>1
          <6> QED BY <6>3, <6>4
        <5> HIDE DEF B
        <5> QED BY <1>1, <4>1, <5>1
      <4>3. e \in 0 .. (B - 1) /\ rest = d * B + e
        BY <1>1
      <4> HIDE DEF e, d, B
      <4>4. (d * B + e) \div B = d /\ (d * B + e) % B = e
        BY ZenonT(60), <1>1, <4>3, DivMod
      <4> HIDE DEF rest
      <4>5. rest \div B = d /\ rest % B = e
        BY <4>3, <4>4
      <4>6. x <= LongestInt /\ x \in Nat /\ rest >= 2 * B
        <5>1. rest = x + B /\ x \in Nat /\ rest >= 2 * B
          BY <4>2 DEF rest
        <5> HIDE DEF x
        <5> QED BY <1>1, <5>1
      <4> QED BY <4>1, <4>5, <4>6
    <3>2. s.good /\ ~s.final /\ s.pos = q + 2 /\ InType(s) /\ s.next = Byte(q + 2)
      <4>1. q + 2 < Len(bytes)
        BY <1>1, <2>3
      <4>2. Shown(s, q + 2) /\ InType(s)
        BY DEF AtByte
      <4> QED BY <4>1, <4>2 DEF Shown
    <3>3. s.next = 0
      <4>1. 2 \in 1 .. h
        BY <1>1, <2>3
      <4> QED BY <1>2, <3>2, <4>1
    <3>4. s.pos + j <= Len(bytes) /\ s.pos + j = q + h
      BY <1>1, <3>2
    <3>5. raw = Zeros(j)
      <4>1. ASSUME NEW k \in 1 .. j
            PROVE  (IF s.good /\ s.pos + k <= Len(bytes) THEN bytes[s.pos + k] ELSE 0) = 0
        <5>1. s.pos + k = q + (k + 2) /\ k + 2 \in 1 .. h
          BY <1>1, <3>1, <3>2
        <5>2. bytes[q + (k + 2)] = 0
          BY <5>1
        <5> QED BY <5>1, <5>2
      <4> QED BY <4>1, Zenon DEF RawBytes, Zeros
    <3>6. Joined(raw) = 0
      <4>1. 2^ByteBits \in Nat /\ j \in Nat
        BY <3>1, BytesAre
      <4> HIDE DEF raw, j
      <4> QED BY <3>5, <4>1, ZerosJoined DEF Joined
    <3>7. InType(t) /\ t.good /\ ~t.final /\ t.pos = q + h
      <4> DEFINE p == s.pos + j
      <4>1. t = [s EXCEPT !.pos = p]
        BY <3>2, <3>4, Zenon DEF AfterRaw
      <4>2. p \in Nat /\ p = q + h
        BY <3>4
      <4> HIDE DEF p, t
      <4>3. InType(t) /\ t.good = s.good /\ t.final = s.final /\ t.pos = p
        BY <3>2, <4>1, <4>2 DEF InType
      <4> QED BY <3>2, <4>2, <4>3
    <3> HIDE DEF t
    <3>8. InType(NextFromStream(t)) /\ Shown(NextFromStream(t), r)
      <4>1. CASE q + h < n
        <5>1. r \in 1 .. Len(bytes) /\ t.pos = r - 1
          BY <1>1, <3>7, <4>1
        <5> HIDE DEF r
        <5> QED BY <3>7, <5>1, ShowsNext
      <4>2. CASE q + h = n
        <5>1. r \in Nat /\ r > Len(bytes)
          BY <1>1, <4>2
        <5>2. ~CanGet(t)
          BY <1>1, <3>7, <4>2 DEF CanGet
        <5> HIDE DEF r
        <5> QED BY <3>7, <5>1, <5>2, ShowsEnd
      <4> QED BY <1>1, <4>1, <4>2
    <3>9. whole = [value |-> (s.next * 2^x + Joined(raw)) * 2^e, in |-> NextFromStream(t)]
      BY <3>1, Zenon DEF WholeBytes, B, t
    <3>10. (s.next * 2^x + Joined(raw)) * 2^e = 0
      <4>1. ASSUME NEW y \in Nat, NEW z \in Nat PROVE (0 * y + 0) * z = 0
        OBVIOUS
      <4>2. 2^x \in Nat /\ 2^e \in Nat
        <5>1. x \in 0 .. LongestInt /\ e \in 0 .. LongestInt
          BY <1>1, <3>1
        <5> HIDE DEF x, e
        <5> QED BY <5>1, PowType
      <4> HIDE DEF x, e, raw
      <4> QED BY <3>3, <3>6, <4>1, <4>2
    <3> HIDE DEF whole, x, e, raw
    <3> QED BY <3>8, <3>9, <3>10
  <2> QED BY <1>1, <2>1, <2>2, <2>3
<1> HIDE DEF whole
<1>7. AtByte(ReadNext(whole.in), q + h)
  <2> DEFINE r == q + h
  <2>1. r \in Nat /\ Shown(whole.in, r + 1)
    BY <1>6
  <2> HIDE DEF r
  <2>2. AtByte(ReadNext(whole.in), r)
    BY <1>6, <2>1, NextByte
  <2> QED BY <2>2 DEF r
<1> HIDE DEF rest
<1>8. ReadInt(s, h * B) = [value |-> 0, in |-> ReadNext(whole.in)]
  BY <1>3, <1>5, <1>6
<1>9. ReadInt(s, h * B).value = 0 /\ ReadInt(s, h * B).in = ReadNext(whole.in)
  BY <1>8
<1> QED BY <1>7, <1>9

(* Bytes read one after the other. *)
Octets(m) == [k \in 1 .. m |-> ByteBits]

BytesFrom(q, m) == [k \in 1 .. m |-> Byte(q + k)]

LEMMA OctetsMore ==
  ASSUME NEW m \in Nat
  PROVE  Octets(m) \in Seq(Nat) /\ Len(Octets(m)) = m /\ Octets(m + 1) = Append(Octets(m), ByteBits)
<1> DEFINE B == ByteBits
<1>1. B \in Nat
  BY Widths
<1> HIDE DEF B
<1>2. \A j \in Nat : Octets(j) \in Seq(Nat) /\ Len(Octets(j)) = j /\ \A k \in 1 .. j : Octets(j)[k] = B
  BY <1>1 DEF Octets, B
<1> DEFINE a == Octets(m)
           b == Octets(m + 1)
           c == Append(a, B)
<1>3. /\ a \in Seq(Nat) /\ Len(a) = m /\ (\A k \in 1 .. m : a[k] = B)
      /\ b \in Seq(Nat) /\ Len(b) = m + 1 /\ \A k \in 1 .. (m + 1) : b[k] = B
  BY <1>2
<1> HIDE DEF a, b
<1>4. c \in Seq(Nat) /\ Len(c) = m + 1 /\ \A k \in 1 .. (m + 1) : c[k] = B
  BY <1>1, <1>3
<1> HIDE DEF c
<1>5. b = c
  BY <1>3, <1>4, SeqEqual
<1> QED BY <1>3, <1>5 DEF a, b, c, B

LEMMA BytesFromMore ==
  ASSUME PlainFile, NEW q \in Nat, NEW m \in Nat
  PROVE  /\ BytesFrom(q, m) \in Seq(Nat) /\ Len(BytesFrom(q, m)) = m
         /\ BytesFrom(q, m + 1) = Append(BytesFrom(q, m), Byte(q + m + 1))
<1> DEFINE a == BytesFrom(q, m)
           b == BytesFrom(q, m + 1)
           x == Byte(q + m + 1)
           c == Append(a, x)
<1>1. ASSUME NEW j \in Nat
      PROVE  /\ BytesFrom(q, j) \in Seq(Nat) /\ Len(BytesFrom(q, j)) = j
             /\ \A k \in 1 .. j : BytesFrom(q, j)[k] = Byte(q + k)
  <2>1. \A k \in 1 .. j : Byte(q + k) \in Nat
    BY ByteType
  <2> QED BY <2>1 DEF BytesFrom
<1>2. /\ a \in Seq(Nat) /\ Len(a) = m /\ (\A k \in 1 .. m : a[k] = Byte(q + k))
      /\ b \in Seq(Nat) /\ Len(b) = m + 1 /\ \A k \in 1 .. (m + 1) : b[k] = Byte(q + k)
  BY <1>1
<1>3. x \in Nat /\ x = Byte(q + (m + 1))
  <2>1. q + m + 1 = q + (m + 1) /\ q + m + 1 \in Nat
    OBVIOUS
  <2> QED BY <2>1, ByteType
<1> HIDE DEF a, b, x
<1>4. c \in Seq(Nat) /\ Len(c) = m + 1 /\ \A k \in 1 .. (m + 1) : c[k] = Byte(q + k)
  BY <1>2, <1>3
<1> HIDE DEF c
<1>5. b = c
  BY <1>2, <1>4, SeqEqual
<1> QED BY <1>2, <1>5 DEF a, b, c, x

LEMMA OneMoreIs ==
  ASSUME NEW r, NEW w
  PROVE  LET more == OneMoreInt(r, w)
             int  == ReadInt(r.in, w)
         IN  more.values = Append(r.values, int.value) /\ more.in = int.in /\ more.bits = r.bits + w
<1> DEFINE int == ReadInt(r.in, w)
           vs == Append(r.values, int.value)
           t == int.in
           n == r.bits + w
<1>1. OneMoreInt(r, w) = [values |-> vs, in |-> t, bits |-> n]
  BY DEF OneMoreInt
<1> HIDE DEF vs, t, n
<1>2. OneMoreInt(r, w).values = vs /\ OneMoreInt(r, w).in = t /\ OneMoreInt(r, w).bits = n
  BY <1>1
<1> QED BY <1>2 DEF vs, t, n

LEMMA BytesRead ==
  ASSUME PlainFile, NEW s, NEW q \in Nat, AtByte(s, q), NEW m \in Nat
  PROVE  LET read == Read(s, Octets(m))
         IN  read.values = BytesFrom(q, m) /\ AtByte(read.in, q + m) /\ read.bits = m * ByteBits
<1> DEFINE B == ByteBits
           Right(j) == LET read == Read(s, Octets(j))
                       IN  read.values = BytesFrom(q, j) /\ AtByte(read.in, q + j) /\ read.bits = j * B
           bad == {j \in Nat : ~Right(j)}
<1>1. B \in Nat
  BY Widths
<1>2. Right(0)
  <2>1. Octets(0) = << >>
    BY OctetsMore, EmptySeq
  <2>2. BytesFrom(q, 0) = << >>
    BY BytesFromMore, EmptySeq
  <2>3. Read(s, << >>).values = << >> /\ Read(s, << >>).in = s /\ Read(s, << >>).bits = 0
    BY ReadNone
  <2>4. q + 0 = q /\ 0 * B = 0
    BY <1>1
  <2> QED BY <2>1, <2>2, <2>3, <2>4
<1>3. ASSUME NEW j \in Nat, Right(j) PROVE Right(j + 1)
  <2> DEFINE r == Read(s, Octets(j))
             u == Read(s, Octets(j + 1))
             int == ReadInt(r.in, B)
             i == q + j
  <2>1. Octets(j) \in Seq(Nat) /\ Octets(j + 1) = Append(Octets(j), B)
    BY OctetsMore
  <2>2. r.values = BytesFrom(q, j) /\ AtByte(r.in, i) /\ r.bits = j * B /\ i \in Nat
    BY <1>3
  <2>3. u = OneMoreInt(r, B)
    <3> DEFINE ws == Octets(j)
    <3>1. ws \in Seq(Nat) /\ Octets(j + 1) = Append(ws, B)
      BY <2>1
    <3> HIDE DEF ws, B
    <3>2. Read(s, Append(ws, B)) = OneMoreInt(Read(s, ws), B)
      BY <1>1, <3>1, ReadMore
    <3> QED BY <3>1, <3>2 DEF ws
  <2> HIDE DEF r, u, i
  <2>4. int.value = Byte(i + 1) /\ AtByte(int.in, i + 1)
    BY <2>2, ByteRead
  <2> HIDE DEF int
  <2>5. u.values = Append(r.values, int.value) /\ u.in = int.in /\ u.bits = r.bits + B
    BY <2>3, OneMoreIs DEF int
  <2>6. i + 1 = q + j + 1 /\ i + 1 = q + (j + 1) /\ j * B + B = (j + 1) * B
    BY <1>1 DEF i
  <2>7. u.values = BytesFrom(q, j + 1)
    <3>1. BytesFrom(q, j + 1) = Append(BytesFrom(q, j), Byte(q + j + 1))
      BY BytesFromMore
    <3>2. int.value = Byte(q + j + 1)
      BY <2>4, <2>6
    <3> QED BY <2>2, <2>5, <3>1, <3>2
  <2>8. AtByte(u.in, q + (j + 1)) /\ u.bits = (j + 1) * B
    BY <2>2, <2>4, <2>5, <2>6
  <2> QED BY <2>7, <2>8 DEF u
<1> HIDE DEF Right
<1>4. ASSUME NEW j \in bad PROVE j # 0 /\ j - 1 \in bad
  <2>1. j \in Nat /\ ~Right(j)
    OBVIOUS
  <2>2. j # 0
    BY <1>2, <2>1
  <2>3. j - 1 \in Nat /\ (j - 1) + 1 = j
    BY <2>1, <2>2
  <2>4. ~Right(j - 1)
    BY <1>3, <2>1, <2>3
  <2> QED BY <2>2, <2>3, <2>4
<1>5. bad \subseteq Nat
  OBVIOUS
<1> HIDE DEF bad
<1>6. bad = {}
  BY <1>4, <1>5, NoLeast
<1>7. Right(m)
  BY <1>6 DEF bad
<1> QED BY <1>7 DEF Right

-----------------------------------------------------------------------------
(* Where the phrases lie in the file of a parsing.                         *)

Octet == 0 .. (2^ByteBits - 1)

IsParsing(g) ==
  /\ g.intBytes \in Nat \ {0}
  /\ ByteBits * g.intBytes <= LongestInt /\ ByteBits * g.intBytes <= 2^ByteBits
  /\ g.phrases \in Seq([char : Octet, link : 0 .. (2^(ByteBits * g.intBytes) - 1),
                        len : 1 .. (2^(ByteBits * g.intBytes) - 1)])

PhraseBytes(g, k) ==
  << g.phrases[k].char >> \o LittleBytes(g.phrases[k].link, g.intBytes)
    \o LittleBytes(g.phrases[k].len, g.intBytes)

PhraseSize(g) == 2 * g.intBytes + 1

PhraseStart(g, k) == 2 + HeaderBytes + k * PhraseSize(g)

LEMMA OctetIs ==
  /\ Octet \subseteq Nat /\ 0 \in Octet
  /\ \A x \in Octet : x < 2^ByteBits
  /\ \A x \in Nat : x < 2^ByteBits => x \in Octet
<1> DEFINE m == 2^ByteBits
<1>1. m \in Nat \ {0}
  BY Widths, PowType
<1>2. Octet = 0 .. (m - 1)
  BY DEF Octet
<1> HIDE DEF m
<1>3. /\ Octet \subseteq Nat /\ 0 \in Octet
      /\ \A x \in Octet : x < m
      /\ \A x \in Nat : x < m => x \in Octet
  BY <1>1, <1>2
<1> QED BY <1>3 DEF m

LEMMA LittleType ==
  ASSUME NEW v \in Nat, NEW n \in Nat, ByteBits * n <= LongestInt
  PROVE  /\ LittleBytes(v, n) \in Seq(Octet) /\ Len(LittleBytes(v, n)) = n
         /\ \A k \in 1 .. n : LittleBytes(v, n)[k] = (v \div 2^(ByteBits * (k - 1))) % 2^ByteBits
<1> DEFINE B == ByteBits
<1>1. B \in Nat /\ LongestInt \in Nat
  BY Widths
<1>2. ASSUME NEW k \in 1 .. n PROVE (v \div 2^(B * (k - 1))) % 2^B \in Octet
  <2> DEFINE e == B * (k - 1)
             m == 2^e
             b == 2^B
  <2>1. e \in 0 .. LongestInt
    <3>1. PICK d \in Nat : n = (k - 1) + d
      <4>1. n - (k - 1) \in Nat /\ n = (k - 1) + (n - (k - 1))
        OBVIOUS
      <4> QED BY <4>1
    <3>2. B * n <= LongestInt
      OBVIOUS
    <3> DEFINE i == k - 1
    <3>3. i \in Nat
      OBVIOUS
    <3> HIDE DEF B, i
    <3>4. B * (i + d) = B * i + B * d /\ B * i \in Nat /\ B * d \in Nat
      BY <1>1, <3>3
    <3>5. B * n = B * i + B * d
      BY <3>1, <3>4 DEF i
    <3> DEFINE x == B * i
               y == B * d
    <3> HIDE DEF x, y
    <3>6. x \in 0 .. LongestInt
      BY <1>1, <3>2, <3>4, <3>5 DEF x, y
    <3> QED BY <3>6 DEF x, i
  <2> HIDE DEF e
  <2>2. m \in Nat \ {0} /\ b \in Nat \ {0}
    BY <2>1, PowType, Widths
  <2> HIDE DEF m, b
  <2>3. v \div m \in Nat
    BY <2>2, DivBounds
  <2>4. (v \div m) % b \in Nat /\ (v \div m) % b < b
    BY <2>2, <2>3
  <2> QED BY <2>4, OctetIs DEF m, b, e
<1> DEFINE F(k) == (v \div 2^(B * (k - 1))) % 2^B
           f == [k \in 1 .. n |-> F(k)]
<1>3. LittleBytes(v, n) = f
  BY DEF LittleBytes
<1>4. \A k \in 1 .. n : F(k) \in Octet
  BY <1>2
<1> HIDE DEF F
<1>5. f \in Seq(Octet) /\ Len(f) = n /\ \A k \in 1 .. n : f[k] = F(k)
  BY <1>4
<1> HIDE DEF f
<1> QED BY <1>3, <1>5 DEF F

(* Three parts of a sequence. *)
LEMMA Thirds ==
  ASSUME NEW S, NEW a \in Seq(S), NEW b \in Seq(S), NEW c \in Seq(S)
  PROVE  LET d == a \o b \o c
         IN  /\ d \in Seq(S) /\ Len(d) = Len(a) + Len(b) + Len(c)
             /\ \A k \in 1 .. Len(a) : d[k] = a[k]
             /\ \A k \in 1 .. Len(b) : d[Len(a) + k] = b[k]
             /\ \A k \in 1 .. Len(c) : d[Len(a) + Len(b) + k] = c[k]
<1>1. ASSUME NEW x \in Seq(S), NEW y \in Seq(S)
      PROVE  /\ x \o y \in Seq(S) /\ Len(x \o y) = Len(x) + Len(y)
             /\ \A k \in 1 .. Len(x) : (x \o y)[k] = x[k]
             /\ \A k \in 1 .. Len(y) : (x \o y)[Len(x) + k] = y[k]
  OBVIOUS
<1> DEFINE e == a \o b
           d == e \o c
<1>2. /\ e \in Seq(S) /\ Len(e) = Len(a) + Len(b)
      /\ (\A k \in 1 .. Len(a) : e[k] = a[k])
      /\ \A k \in 1 .. Len(b) : e[Len(a) + k] = b[k]
  BY <1>1
<1> HIDE DEF e
<1>3. /\ d \in Seq(S) /\ Len(d) = Len(e) + Len(c)
      /\ (\A k \in 1 .. Len(e) : d[k] = e[k])
      /\ \A k \in 1 .. Len(c) : d[Len(e) + k] = c[k]
  BY <1>1, <1>2
<1> HIDE DEF d
<1>4. Len(a) \in Nat /\ Len(b) \in Nat /\ Len(c) \in Nat
  OBVIOUS
<1>5. \A k \in 1 .. Len(a) : k \in 1 .. Len(e)
  BY <1>2, <1>4
<1>6. \A k \in 1 .. Len(b) : Len(a) + k \in 1 .. Len(e)
  BY <1>2, <1>4
<1>7. /\ (\A k \in 1 .. Len(a) : d[k] = a[k])
      /\ \A k \in 1 .. Len(b) : d[Len(a) + k] = b[k]
  BY <1>2, <1>3, <1>5, <1>6
<1> QED BY <1>2, <1>3, <1>7 DEF d, e

LEMMA UniformBefore ==
  ASSUME NEW S, NEW s \in Seq(Seq(S)), NEW l \in Nat, \A k \in 1 .. Len(s) : Len(s[k]) = l,
         NEW n \in 0 .. Len(s)
  PROVE  Len(Before(s, n)) = n * l
<1> DEFINE bad == {k \in 0 .. Len(s) : Len(Before(s, k)) # k * l}
<1>1. ASSUME NEW k \in bad PROVE k # 0 /\ k - 1 \in bad
  <2>1. k \in 0 .. Len(s) /\ Len(Before(s, k)) # k * l
    OBVIOUS
  <2>2. k # 0
    <3>1. CASE k = 0
      <4>1. Len(Before(s, 0)) = 0 /\ 0 * l = 0
        BY BeforeNone
      <4> QED BY <2>1, <3>1, <4>1
    <3> QED BY <3>1
  <2> DEFINE j == k - 1
  <2>3. j \in 0 .. Len(s) /\ j < Len(s) /\ j + 1 = k /\ j + 1 \in 1 .. Len(s)
    BY <2>1, <2>2
  <2> HIDE DEF j, bad
  <2>4. Before(s, j) \in Seq(S) /\ s[j + 1] \in Seq(S) /\ Before(s, j + 1) = Before(s, j) \o s[j + 1]
    BY <2>3, BeforeType
  <2>5. Len(Before(s, j + 1)) = Len(Before(s, j)) + l
    <3>1. ASSUME NEW a \in Seq(S), NEW b \in Seq(S) PROVE Len(a \o b) = Len(a) + Len(b)
      OBVIOUS
    <3> QED BY <2>3, <2>4, <3>1
  <2>6. (j + 1) * l = j * l + l
    BY <2>3
  <2>7. Len(Before(s, j)) # j * l
    BY <2>1, <2>3, <2>5, <2>6
  <2> QED BY <2>2, <2>3, <2>7 DEF bad, j
<1>2. bad \subseteq Nat
  OBVIOUS
<1> HIDE DEF bad
<1>3. bad = {}
  BY <1>1, <1>2, NoLeast
<1> QED BY <1>3 DEF bad

LEMMA PhraseIs ==
  ASSUME NEW g, IsParsing(g), NEW k \in 1 .. Len(g.phrases)
  PROVE  LET f == g.phrases[k]
             n == g.intBytes
         IN  /\ n \in Nat \ {0} /\ ByteBits * n <= LongestInt /\ 2^(ByteBits * n) \in Nat \ {0}
             /\ f.char \in Octet /\ f.char \in Nat
             /\ f.link \in Nat /\ f.link < 2^(ByteBits * n)
             /\ f.len \in Nat /\ f.len < 2^(ByteBits * n) /\ f.len > 0
             /\ f = [char |-> f.char, link |-> f.link, len |-> f.len]
<1> DEFINE f == g.phrases[k]
           n == g.intBytes
           m == 2^(ByteBits * n)
           x == ByteBits * n
<1>1. /\ n \in Nat \ {0} /\ x <= LongestInt
      /\ g.phrases \in Seq([char : Octet, link : 0 .. (m - 1), len : 1 .. (m - 1)])
  BY DEF IsParsing
<1>2. x \in 0 .. LongestInt
  <2>1. ByteBits \in Nat /\ LongestInt \in Nat
    BY Widths
  <2>2. x \in Nat
    BY <1>1, <2>1
  <2> HIDE DEF x
  <2> QED BY <1>1, <2>1, <2>2
<1>3. m \in Nat \ {0}
  <2> HIDE DEF x
  <2>1. 2^x \in Nat \ {0}
    BY <1>2, PowType
  <2> QED BY <2>1 DEF x
<1> HIDE DEF m, n, x
<1>4. f \in [char : Octet, link : 0 .. (m - 1), len : 1 .. (m - 1)]
  <2> DEFINE S == [char : Octet, link : 0 .. (m - 1), len : 1 .. (m - 1)]
             fs == g.phrases
  <2>1. fs \in Seq(S) /\ k \in 1 .. Len(fs)
    BY <1>1
  <2> HIDE DEF S, fs
  <2>2. fs[k] \in S
    BY <2>1
  <2> QED BY <2>2 DEF S, fs
<1> HIDE DEF f
<1>5. f.char \in Octet /\ f.link \in 0 .. (m - 1) /\ f.len \in 1 .. (m - 1)
      /\ f = [char |-> f.char, link |-> f.link, len |-> f.len]
  BY <1>4
<1>6. f.char \in Nat
  BY <1>5, OctetIs
<1>7. f.link \in Nat /\ f.link < m /\ f.len \in Nat /\ f.len < m /\ f.len > 0
  BY <1>3, <1>5
<1> QED BY <1>1, <1>3, <1>5, <1>6, <1>7, Zenon DEF f, m, n, x

LEMMA PhraseBytesAre ==
  ASSUME NEW g, IsParsing(g), NEW k \in 1 .. Len(g.phrases)
  PROVE  LET f == g.phrases[k]
             n == g.intBytes
             b == PhraseBytes(g, k)
         IN  /\ b \in Seq(Octet) /\ Len(b) = PhraseSize(g)
             /\ b[1] = f.char
             /\ \A i \in 1 .. n : b[1 + i] = LittleBytes(f.link, n)[i]
             /\ \A i \in 1 .. n : b[1 + n + i] = LittleBytes(f.len, n)[i]
<1> DEFINE f == g.phrases[k]
           n == g.intBytes
           c == << f.char >>
           x == LittleBytes(f.link, n)
           y == LittleBytes(f.len, n)
           b == c \o x \o y
<1>1. n \in Nat \ {0} /\ ByteBits * n <= LongestInt /\ f.char \in Octet /\ f.link \in Nat /\ f.len \in Nat
  BY PhraseIs
<1>2. PhraseBytes(g, k) = b
  BY DEF PhraseBytes
<1>3. PhraseSize(g) = 2 * n + 1
  BY DEF PhraseSize
<1>4. c \in Seq(Octet) /\ Len(c) = 1 /\ c[1] = f.char
  BY <1>1
<1> HIDE DEF c, f, n
<1>5. x \in Seq(Octet) /\ Len(x) = n /\ y \in Seq(Octet) /\ Len(y) = n
  BY <1>1, LittleType
<1> HIDE DEF x, y
<1>6. /\ b \in Seq(Octet) /\ Len(b) = Len(c) + Len(x) + Len(y)
      /\ (\A i \in 1 .. Len(c) : b[i] = c[i])
      /\ (\A i \in 1 .. Len(x) : b[Len(c) + i] = x[i])
      /\ \A i \in 1 .. Len(y) : b[Len(c) + Len(x) + i] = y[i]
  <2>1. c \in Seq(Octet) /\ x \in Seq(Octet) /\ y \in Seq(Octet)
    BY <1>4, <1>5
  <2>2. b = c \o x \o y
    OBVIOUS
  <2> HIDE DEF b
  <2> QED BY <2>1, <2>2, Thirds
<1> HIDE DEF b
<1>7. /\ Len(b) = 2 * n + 1 /\ b[1] = f.char
      /\ (\A i \in 1 .. n : b[1 + i] = x[i])
      /\ \A i \in 1 .. n : b[1 + n + i] = y[i]
  BY <1>1, <1>4, <1>5, <1>6
<1> QED BY <1>2, <1>3, <1>6, <1>7 DEF b, x, y, f, n

PhraseSeq(g) == [k \in 1 .. Len(g.phrases) |-> PhraseBytes(g, k)]

LEMMA PhraseSeqIs ==
  ASSUME NEW g, IsParsing(g)
  PROVE  /\ Len(g.phrases) \in Nat /\ PhraseSize(g) \in Nat
         /\ PhraseSeq(g) \in Seq(Seq(Octet)) /\ Len(PhraseSeq(g)) = Len(g.phrases)
         /\ \A k \in 1 .. Len(g.phrases) :
              PhraseSeq(g)[k] = PhraseBytes(g, k) /\ Len(PhraseBytes(g, k)) = PhraseSize(g)
         /\ FlattenSeq(PhraseSeq(g)) \in Seq(Octet)
         /\ Len(FlattenSeq(PhraseSeq(g))) = Len(g.phrases) * PhraseSize(g)
         /\ \A k \in 0 .. (Len(g.phrases) - 1) : \A i \in 1 .. PhraseSize(g) :
              FlattenSeq(PhraseSeq(g))[k * PhraseSize(g) + i] = PhraseBytes(g, k + 1)[i]
<1> DEFINE p == Len(g.phrases)
           l == PhraseSize(g)
           s == PhraseSeq(g)
           F(k) == PhraseBytes(g, k)
<1>1. p \in Nat /\ l \in Nat
  <2>1. p \in Nat
    BY DEF IsParsing
  <2>2. g.intBytes \in Nat
    BY DEF IsParsing
  <2> QED BY <2>1, <2>2 DEF PhraseSize
<1>2. \A k \in 1 .. p : F(k) \in Seq(Octet) /\ Len(F(k)) = l
  BY PhraseBytesAre
<1> HIDE DEF l
<1>3. s = [k \in 1 .. p |-> F(k)]
  BY DEF PhraseSeq
<1> HIDE DEF p, s, F
<1>4. s \in Seq(Seq(Octet)) /\ Len(s) = p /\ \A k \in 1 .. p : s[k] = F(k)
  BY <1>1, <1>2, <1>3
<1>5. \A k \in 1 .. Len(s) : Len(s[k]) = l
  BY <1>2, <1>4
<1>6. \A k \in 0 .. Len(s) : Len(Before(s, k)) = k * l
  BY <1>1, <1>4, <1>5, UniformBefore
<1>7. FlattenSeq(s) \in Seq(Octet) /\ Len(FlattenSeq(s)) = p * l
  <2>1. p \in 0 .. Len(s)
    BY <1>1, <1>4
  <2>2. Before(s, Len(s)) = FlattenSeq(s) /\ Before(s, Len(s)) \in Seq(Octet)
    BY <1>4, <2>1, BeforeType
  <2> QED BY <1>4, <1>6, <2>1, <2>2
<1>8. ASSUME NEW k \in 0 .. (p - 1), NEW i \in 1 .. l PROVE FlattenSeq(s)[k * l + i] = F(k + 1)[i]
  <2> DEFINE j == k + 1
  <2>1. j \in 1 .. Len(s) /\ j - 1 = k /\ k \in 0 .. Len(s)
    BY <1>1, <1>4
  <2> HIDE DEF j
  <2>2. i \in 1 .. Len(s[j])
    BY <1>5, <2>1
  <2>3. FlattenSeq(s)[Len(Before(s, j - 1)) + i] = s[j][i]
    BY <1>4, <2>1, <2>2, FlattenAt
  <2>4. Len(Before(s, k)) = k * l
    BY <1>6, <2>1
  <2> DEFINE z == k * l
  <2> HIDE DEF z
  <2>5. FlattenSeq(s)[z + i] = s[j][i]
    BY <2>1, <2>3, <2>4 DEF z
  <2>6. s[j] = F(j)
    BY <1>4, <2>1
  <2> QED BY <2>5, <2>6 DEF z, j
<1> QED BY <1>1, <1>2, <1>4, <1>7, <1>8 DEF p, l, s, F

LEMMA ParsingLies ==
  ASSUME NEW g, IsParsing(g), bytes = ParsingBytes(g), ~trailed
  PROVE  /\ PlainFile
         /\ Len(bytes) = PhraseStart(g, Len(g.phrases))
         /\ bytes[1] = ByteBits - 1 /\ bytes[2] = g.intBytes * ByteBits - 1
         /\ \A k \in 1 .. HeaderBytes : bytes[2 + k] = 0
         /\ \A k \in 0 .. (Len(g.phrases) - 1) : \A i \in 1 .. PhraseSize(g) :
              bytes[PhraseStart(g, k) + i] = PhraseBytes(g, k + 1)[i]
<1> DEFINE x == ByteBits - 1
           y == g.intBytes * ByteBits - 1
           a == << x, y >>
           b == Zeros(HeaderBytes)
           c == FlattenSeq(PhraseSeq(g))
           l == PhraseSize(g)
           p == Len(g.phrases)
           h == HeaderBytes
           d == a \o b \o c
<1>1. h \in Nat \ {0}
  BY DecodersAssumption
<1>2. x \in Octet /\ y \in Octet
  <2> DEFINE B == ByteBits
             n == g.intBytes
             m == 2^B
  <2>1. B \in Nat \ {0} /\ n \in Nat \ {0} /\ m \in Nat /\ B * n <= m
    BY Widths, PowType DEF IsParsing
  <2> HIDE DEF B, n, m
  <2>2. B * n = n * B /\ n * B \in Nat /\ B <= n * B
    <3>1. PICK e \in Nat : n = e + 1
      <4>1. n - 1 \in Nat /\ n = (n - 1) + 1
        BY <2>1
      <4> QED BY <4>1
    <3>2. (e + 1) * B = e * B + B /\ e * B \in Nat
      BY <2>1
    <3>3. B * n = n * B /\ n * B \in Nat
      BY <2>1
    <3> QED BY <2>1, <3>1, <3>2, <3>3
  <2>3. B - 1 \in Nat /\ B - 1 < m /\ n * B - 1 \in Nat /\ n * B - 1 < m
    <3> DEFINE z == n * B
    <3>1. z <= m /\ z \in Nat /\ B <= z
      BY <2>1, <2>2
    <3> HIDE DEF z
    <3>2. B - 1 \in Nat /\ B - 1 < m /\ z - 1 \in Nat /\ z - 1 < m
      BY <2>1, <3>1
    <3> QED BY <3>2 DEF z
  <2> QED BY <2>3, OctetIs DEF B, n, m
<1>3. a \in Seq(Octet) /\ Len(a) = 2 /\ a[1] = x /\ a[2] = y
  <2> HIDE DEF x, y
  <2> QED BY <1>2
<1>4. b \in Seq(Octet) /\ Len(b) = h /\ \A k \in 1 .. h : b[k] = 0
  BY <1>1, OctetIs DEF Zeros
<1>5. /\ c \in Seq(Octet) /\ Len(c) = p * l /\ l \in Nat /\ p \in Nat
      /\ \A k \in 0 .. (p - 1) : \A i \in 1 .. l : c[k * l + i] = PhraseBytes(g, k + 1)[i]
  BY PhraseSeqIs
<1>6. bytes = d
  BY Zenon DEF ParsingBytes, PhraseSeq, PhraseBytes
<1> HIDE DEF a, b, c, l, p, h, x, y
<1>7. /\ d \in Seq(Octet) /\ Len(d) = Len(a) + Len(b) + Len(c)
      /\ (\A i \in 1 .. Len(a) : d[i] = a[i])
      /\ (\A i \in 1 .. Len(b) : d[Len(a) + i] = b[i])
      /\ \A i \in 1 .. Len(c) : d[Len(a) + Len(b) + i] = c[i]
  <2>1. a \in Seq(Octet) /\ b \in Seq(Octet) /\ c \in Seq(Octet)
    BY <1>3, <1>4, <1>5
  <2>2. d = a \o b \o c
    OBVIOUS
  <2> HIDE DEF d
  <2> QED BY <2>1, <2>2, Thirds
<1> HIDE DEF d
<1>8. d[1] = x /\ d[2] = y /\ \A k \in 1 .. h : d[2 + k] = 0
  <2>1. 1 \in 1 .. Len(a) /\ 2 \in 1 .. Len(a)
    BY <1>3
  <2>2. d[1] = a[1] /\ d[2] = a[2]
    BY <1>7, <2>1
  <2> QED BY <1>3, <1>4, <1>7, <2>2
<1>9. Len(d) = 2 + h + p * l /\ p * l \in Nat
  BY <1>3, <1>4, <1>5, <1>7
<1>10. ASSUME NEW k \in 0 .. (p - 1), NEW i \in 1 .. l PROVE d[2 + h + k * l + i] = PhraseBytes(g, k + 1)[i]
  <2> DEFINE z == k * l
             e == p * l
  <2>1. z \in Nat /\ z + i <= e /\ e \in Nat
    <3>1. PICK t \in Nat : p = k + 1 + t
      <4>1. p - k - 1 \in Nat /\ p = k + 1 + (p - k - 1)
        BY <1>5
      <4> QED BY <4>1
    <3>2. (k + 1 + t) * l = k * l + l + t * l /\ k * l \in Nat /\ t * l \in Nat
      BY <1>5
    <3>3. e = z + l + t * l
      BY <3>1, <3>2
    <3> DEFINE w == t * l
    <3> HIDE DEF w, z, e
    <3>4. z \in Nat /\ w \in Nat /\ e = z + l + w
      BY <3>2, <3>3 DEF w, z, e
    <3> QED BY <1>5, <3>4
  <2> HIDE DEF z, e
  <2>2. z + i \in 1 .. Len(c)
    BY <1>5, <2>1 DEF e
  <2>3. d[Len(a) + Len(b) + (z + i)] = c[z + i]
    BY <1>7, <2>2
  <2>4. Len(a) + Len(b) + (z + i) = 2 + h + z + i
    BY <1>1, <1>3, <1>4, <1>5, <2>1
  <2>5. c[z + i] = PhraseBytes(g, k + 1)[i]
    BY <1>5 DEF z
  <2>6. d[2 + h + z + i] = PhraseBytes(g, k + 1)[i]
    BY <2>3, <2>4, <2>5
  <2> QED BY <2>6 DEF z
<1>11. PlainFile
  <2>1. Len(d) \in Nat /\ Len(d) > 1
    <3> DEFINE z == p * l
    <3> HIDE DEF z
    <3> QED BY <1>1, <1>9 DEF z
  <2> QED BY <1>6, <1>7, <2>1 DEF PlainFile, Octet
<1> QED BY <1>6, <1>8, <1>9, <1>10, <1>11 DEF PhraseStart, x, y, h, p, l

-----------------------------------------------------------------------------
(* The content of a file without a trailer: the bits of its bytes.         *)

PlainContent == content = FlattenSeq([k \in 1 .. Len(bytes) |-> Bits(bytes[k], ByteBits)])

LEMMA ContentOfBytes ==
  ASSUME PlainFile, PlainContent
  PROVE  /\ content \in Seq({0, 1}) /\ Len(content) = Len(bytes) * ByteBits
         /\ \A q \in 0 .. (Len(bytes) - 1) :
              /\ q * ByteBits \in Nat /\ q * ByteBits + ByteBits <= Len(content)
              /\ Value(content, q * ByteBits, ByteBits) = bytes[q + 1]
<1> DEFINE B == ByteBits
           n == Len(bytes)
           F(k) == Bits(bytes[k], B)
           s == [k \in 1 .. n |-> F(k)]
<1>1. /\ B \in Nat \ {0} /\ B \in 0 .. LongestInt /\ n \in Nat /\ bytes \in Seq(Nat)
      /\ \A j \in 1 .. n : bytes[j] \in Nat /\ bytes[j] < 2^B
  BY Widths, BytesAre
<1>2. content = FlattenSeq(s)
  BY DEF PlainContent
<1>3. \A k \in 1 .. n : F(k) \in Seq({0, 1}) /\ Len(F(k)) = B
  BY <1>1, BitsType
<1> HIDE DEF F, n, B
<1>4. s \in Seq(Seq({0, 1})) /\ Len(s) = n /\ \A k \in 1 .. n : s[k] = F(k)
  BY <1>1, <1>3
<1> HIDE DEF s
<1>5. \A k \in 1 .. Len(s) : Len(s[k]) = B
  BY <1>3, <1>4
<1>6. \A k \in 0 .. Len(s) : Len(Before(s, k)) = k * B
  BY <1>1, <1>4, <1>5, UniformBefore
<1>7. content \in Seq({0, 1}) /\ Len(content) = n * B
  <2>1. n \in 0 .. Len(s)
    BY <1>1, <1>4
  <2>2. Before(s, Len(s)) = FlattenSeq(s) /\ Before(s, Len(s)) \in Seq({0, 1})
    BY <1>4, <2>1, BeforeType
  <2> QED BY <1>2, <1>4, <1>6, <2>1, <2>2
<1>8. Holds(0, FlattenSeq(s))
  BY <1>2, <1>7 DEF Holds
<1>9. ASSUME NEW q \in 0 .. (n - 1)
      PROVE  q * B \in Nat /\ q * B + B <= Len(content) /\ Value(content, q * B, B) = bytes[q + 1]
  <2> DEFINE z == 0
             x == q * B
             v == bytes[q + 1]
  <2>1. q \in 0 .. (Len(s) - 1) /\ q \in 0 .. Len(s) /\ z \in Nat /\ x \in Nat /\ q + 1 \in 1 .. n
    BY <1>1, <1>4
  <2>2. v \in Nat /\ v < 2^B
    BY <1>1, <2>1
  <2> HIDE DEF z
  <2>3. Holds(z, FlattenSeq(s))
    BY <1>8 DEF z
  <2>4. Holds(z + Len(Before(s, q)), s[q + 1])
    BY <1>4, <1>7, <2>1, <2>3, HoldsPiece
  <2>5. z + Len(Before(s, q)) = x
    BY <1>6, <2>1 DEF z
  <2>6. s[q + 1] = Bits(v, B)
    BY <1>4, <2>1 DEF F
  <2> HIDE DEF x, v
  <2>7. Holds(x, Bits(v, B))
    BY <2>4, <2>5, <2>6
  <2>8. v \in 0 .. (2^B - 1)
    <3> DEFINE m == 2^B
    <3>1. m \in Nat
      BY <1>1, PowType
    <3> HIDE DEF m
    <3>2. v < m
      BY <2>2 DEF m
    <3>3. v \in 0 .. (m - 1)
      BY <2>2, <3>1, <3>2
    <3> QED BY <3>3 DEF m
  <2>9. x + B <= Len(content) /\ Value(content, x, B) = v
    BY <1>1, <1>7, <2>1, <2>7, <2>8, HoldsNumber
  <2> QED BY <2>1, <2>9 DEF x, v
<1> QED BY <1>7, <1>9 DEF B, n

LEMMA ZeroBytes ==
  ASSUME PlainFile, PlainContent, NEW q \in Nat, NEW h \in Nat, q + h <= Len(bytes),
         \A k \in 1 .. h : bytes[q + k] = 0
  PROVE  Value(content, q * ByteBits, h * ByteBits) = 0
<1> DEFINE B == ByteBits
           n == Len(bytes)
           p == q * B
           bad == {j \in 0 .. h : Value(content, p, j * B) # 0}
<1>1. B \in Nat \ {0} /\ B <= LongestInt /\ n \in Nat /\ content \in Seq({0, 1}) /\ Len(content) = n * B
  BY Widths, BytesAre, ContentOfBytes
<1>2. ASSUME NEW j \in 0 .. h
      PROVE  j * B \in Nat /\ p \in Nat /\ p + j * B = (q + j) * B /\ (q + j) * B <= Len(content)
  <2>1. PICK d \in Nat : n = (q + j) + d
    <3>1. n - (q + j) \in Nat /\ n = (q + j) + (n - (q + j))
      BY <1>1
    <3> QED BY <3>1
  <2> DEFINE i == q + j
  <2>2. i \in Nat
    OBVIOUS
  <2>3. p + j * B = i * B /\ j * B \in Nat /\ p \in Nat
    BY <1>1
  <2> HIDE DEF i, p, B
  <2>4. (i + d) * B = i * B + d * B /\ i * B \in Nat /\ d * B \in Nat
    BY <1>1, <2>2
  <2>5. Len(content) = i * B + d * B
    BY <1>1, <2>1, <2>4 DEF i
  <2> DEFINE x == i * B
             y == d * B
  <2> HIDE DEF x, y
  <2>6. x <= Len(content)
    BY <2>4, <2>5 DEF x, y
  <2> QED BY <2>3, <2>6 DEF x, i
<1>3. ASSUME NEW j \in bad PROVE j # 0 /\ j - 1 \in bad
  <2>1. j \in 0 .. h /\ Value(content, p, j * B) # 0
    OBVIOUS
  <2>2. j # 0
    <3>1. CASE j = 0
      <4>1. 0 \in 0 .. h /\ 0 * B = 0 /\ q + 0 = q
        BY <1>1
      <4>2. p \in Nat /\ p <= Len(content)
        BY <1>2, <4>1
      <4> HIDE DEF p
      <4>3. Value(content, p, 0) = 0
        BY <1>1, <4>2, ValueEmpty
      <4> QED BY <2>1, <3>1, <4>1, <4>3
    <3> QED BY <3>1
  <2> DEFINE i == j - 1
             m == i * B
             r == q + i
             t == r * B
  <2>3. i \in 0 .. h /\ i + 1 = j /\ i + 1 \in 1 .. h /\ i \in Nat /\ r \in Nat
    BY <2>1, <2>2
  <2>4. j * B = m + B
    BY <1>1, <2>3
  <2>5. m \in Nat /\ p \in Nat /\ p + m = t /\ p + j * B <= Len(content)
    <3>1. m \in Nat /\ p \in Nat /\ p + m = t
      BY <1>2, <2>3
    <3>2. p + j * B = (q + j) * B /\ (q + j) * B <= Len(content)
      BY <1>2, <2>1
    <3> QED BY <3>1, <3>2
  <2> HIDE DEF p, m, t, bad
  <2>6. p + m + B <= Len(content)
    BY <1>1, <2>4, <2>5
  <2>7. Value(content, p, m + B) = Value(content, p, m) * 2^B + Value(content, p + m, B)
    BY <1>1, <2>5, <2>6, ValueSplit
  <2>8. Value(content, p + m, B) = 0
    <3>1. r \in 0 .. (n - 1) /\ bytes[r + 1] = 0
      <4>1. r + 1 = q + (i + 1) /\ r \in 0 .. (n - 1)
        BY <1>1, <2>3
      <4>2. bytes[q + (i + 1)] = 0
        BY <2>3
      <4> QED BY <4>1, <4>2
    <3>2. Value(content, r * B, B) = bytes[r + 1]
      BY <3>1, ContentOfBytes
    <3> QED BY <2>5, <3>1, <3>2 DEF t
  <2>9. Value(content, p, m) # 0
    <3>1. CASE Value(content, p, m) = 0
      <4>1. 2^B \in Nat
        BY BytesAre
      <4> DEFINE y == 2^B
      <4> HIDE DEF y
      <4>2. 0 * y + 0 = 0
        BY <4>1 DEF y
      <4>3. Value(content, p, m + B) = 0
        BY <2>7, <2>8, <3>1, <4>2 DEF y
      <4> QED BY <2>1, <2>4, <4>3
    <3> QED BY <3>1
  <2> QED BY <2>2, <2>3, <2>9 DEF bad, m
<1>4. bad \subseteq Nat
  OBVIOUS
<1> HIDE DEF bad
<1>5. bad = {}
  BY <1>3, <1>4, NoLeast
<1>6. h \in 0 .. h
  OBVIOUS
<1> QED BY <1>5, <1>6 DEF bad

-----------------------------------------------------------------------------
(* Numbers from their bytes, the least significant one first.              *)

LEMMA DivParts ==
  ASSUME NEW x \in Nat, NEW s \in Nat \ {0}
  PROVE  /\ x \div s \in Nat /\ x = (x \div s) * s + (x % s) /\ x % s \in 0 .. (s - 1)
         /\ x % s \in Nat /\ x % s < s
<1> DEFINE q == x \div s
           p == q * s
<1>1. q \in Nat /\ p \in Nat /\ x % s = x - p /\ x % s \in 0 .. (s - 1)
  <2>1. x \div s \in Nat /\ x % s = x - (x \div s) * s /\ x % s \in 0 .. (s - 1)
    BY DivBounds, Zenon
  <2> HIDE DEF q
  <2>2. q \in Nat /\ x % s = x - q * s /\ x % s \in 0 .. (s - 1)
    BY <2>1 DEF q
  <2> QED BY <2>2
<1> DEFINE r == x % s
<1> HIDE DEF r, p, q
<1>2. q \in Nat /\ x = p + r /\ r \in 0 .. (s - 1) /\ r \in Nat /\ r < s
  BY <1>1 DEF r
<1> QED BY <1>2, Zenon DEF p, q, r

LEMMA DivProduct ==
  ASSUME NEW n \in Nat, NEW a \in Nat \ {0}, NEW m \in Nat \ {0}
  PROVE  /\ n \div (a * m) = (n \div a) \div m
         /\ n % (a * m) = a * ((n \div a) % m) + (n % a)
         /\ n \div a \in Nat
<1> DEFINE h == n \div a
           r == n % a
           q == h \div m
           z == h % m
           s == m * a
           j == z * a + r
<1>1. h \in Nat /\ n = h * a + r /\ r \in 0 .. (a - 1)
  BY DivParts, Zenon
<1> HIDE DEF h, r
<1>2. q \in Nat /\ h = q * m + z /\ z \in 0 .. (m - 1)
  BY <1>1, DivParts, Zenon
<1> HIDE DEF q, z
<1>3. (q * m + z) * a + r = q * (m * a) + (z * a + r) /\ z * a + r \in 0 .. (m * a - 1)
  BY <1>1, <1>2, Mixed
<1>4. m * a = a * m /\ m * a \in Nat \ {0} /\ z * a = a * z
  BY <1>2
<1>5. n = q * s + j /\ j \in 0 .. (s - 1) /\ s \in Nat \ {0}
  BY <1>1, <1>2, <1>3, <1>4
<1> HIDE DEF s, j
<1>6. (q * s + j) \div s = q /\ (q * s + j) % s = j
  BY <1>2, <1>5, DivMod
<1>7. n \div s = q /\ n % s = j
  BY <1>5, <1>6
<1>8. n \div (a * m) = q /\ n % (a * m) = a * z + r
  BY <1>4, <1>7 DEF s, j
<1> QED BY <1>1, <1>8 DEF q, h, z, r

LEMMA ReverseIs ==
  ASSUME NEW S, NEW s \in Seq(S)
  PROVE  /\ Reverse(s) \in Seq(S) /\ Len(Reverse(s)) = Len(s)
         /\ \A j \in 1 .. Len(s) : Reverse(s)[j] = s[(Len(s) - j) + 1]
<1> DEFINE n == Len(s)
           f == [j \in 1 .. n |-> s[(n - j) + 1]]
<1>1. Reverse(s) = f
  BY DEF Reverse
<1>2. n \in Nat /\ \A j \in 1 .. n : s[(n - j) + 1] \in S
  OBVIOUS
<1> HIDE DEF n
<1>3. f \in Seq(S) /\ Len(f) = n /\ \A j \in 1 .. n : f[j] = s[(n - j) + 1]
  BY <1>2
<1> QED BY <1>1, <1>3 DEF n

LEMMA SeqWider ==
  ASSUME NEW S, NEW T, S \subseteq T, NEW s \in Seq(S)
  PROVE  s \in Seq(T)
  OBVIOUS

LEMMA LittlePower ==
  ASSUME NEW n \in Nat, NEW d \in 1 .. n, ByteBits * n <= LongestInt
  PROVE  /\ 2^(ByteBits * d) = 2^ByteBits * 2^(ByteBits * (d - 1))
         /\ 2^(ByteBits * (d - 1)) \in Nat \ {0} /\ 2^ByteBits \in Nat \ {0}
         /\ ByteBits * d <= LongestInt /\ ByteBits * (d - 1) <= LongestInt
<1> DEFINE B == ByteBits
           e == d - 1
           x == B * e
<1>1. B \in Nat \ {0} /\ LongestInt \in Nat /\ B * n <= LongestInt /\ 2^B \in Nat \ {0}
  BY Widths, PowType
<1>2. PICK c \in Nat : n = d + c
  <2>1. n - d \in Nat /\ n = d + (n - d)
    OBVIOUS
  <2> QED BY <2>1
<1>3. e \in Nat /\ d = e + 1
  OBVIOUS
<1> HIDE DEF B, e
<1>4. B * (e + 1 + c) = B * e + B + B * c /\ B * (e + 1) = B * e + B /\ B * e \in Nat /\ B * c \in Nat
  BY <1>1, <1>2, <1>3
<1>5. B * d = B + x /\ x \in Nat /\ B * n = B + x + B * c
  BY <1>1, <1>2, <1>3, <1>4
<1> DEFINE y == B * c
<1> HIDE DEF x, y
<1>6. B + x <= LongestInt /\ x <= LongestInt
  <2>1. y \in Nat /\ B + x + y <= LongestInt
    BY <1>1, <1>4, <1>5 DEF y
  <2> QED BY <1>1, <1>5, <2>1
<1>7. 2^(B + x) = 2^B * 2^x
  BY <1>1, <1>5, <1>6, PowSum
<1>8. 2^x \in Nat \ {0}
  <2>1. x \in 0 .. LongestInt
    BY <1>1, <1>5, <1>6
  <2> QED BY <2>1, PowType
<1> QED BY <1>1, <1>5, <1>6, <1>7, <1>8, Zenon DEF x, B, e

LEMMA LittleLow ==
  ASSUME NEW v \in Nat, NEW n \in Nat \ {0}, ByteBits * n <= LongestInt
  PROVE  Reverse(LittleBytes(v, n)) =
           Append(Reverse(LittleBytes(v \div 2^ByteBits, n - 1)), v % 2^ByteBits)
<1> DEFINE B == ByteBits
           b == 2^B
           w == v \div b
           d == n - 1
           s == LittleBytes(v, n)
           t == LittleBytes(w, d)
           r == Reverse(s)
           u == Reverse(t)
           e == v % b
           a == Append(u, e)
<1>1. b \in Nat \ {0} /\ B * d <= LongestInt /\ B \in Nat /\ d \in Nat
  <2>1. n \in 1 .. n /\ d \in Nat
    OBVIOUS
  <2> QED BY <2>1, LittlePower, Widths
<1>2. w \in Nat /\ e \in Nat /\ e < b
  <2>1. v \div b \in Nat /\ v % b \in Nat /\ v % b < b
    <3> HIDE DEF b
    <3> QED BY <1>1, DivParts, Zenon
  <2> QED BY <2>1
<1>3. s \in Seq(Octet) /\ Len(s) = n /\ \A k \in 1 .. n : s[k] = (v \div 2^(B * (k - 1))) % b
  BY LittleType
<1> HIDE DEF w, d
<1>4. t \in Seq(Octet) /\ Len(t) = d /\ \A k \in 1 .. d : t[k] = (w \div 2^(B * (k - 1))) % b
  BY <1>1, <1>2, LittleType
<1> HIDE DEF s, t, e
<1>5. r \in Seq(Octet) /\ Len(r) = n /\ \A j \in 1 .. n : r[j] = s[(n - j) + 1]
  BY <1>3, ReverseIs
<1>6. u \in Seq(Octet) /\ Len(u) = d /\ \A j \in 1 .. d : u[j] = t[(d - j) + 1]
  BY <1>4, ReverseIs
<1>7. e \in Octet
  BY <1>2, OctetIs DEF b
<1> HIDE DEF r, u
<1>8. a \in Seq(Octet) /\ Len(a) = n /\ a[n] = e /\ \A j \in 1 .. d : a[j] = u[j]
  BY <1>6, <1>7 DEF d
<1>9. ASSUME NEW j \in 1 .. n PROVE r[j] = a[j]
  <2> DEFINE k == (n - j) + 1
  <2>1. k \in 1 .. n /\ k \in Nat
    OBVIOUS
  <2>2. r[j] = (v \div 2^(B * (k - 1))) % b
    <3>1. r[j] = s[k]
      BY <1>5
    <3> HIDE DEF k
    <3> QED BY <1>3, <2>1, <3>1
  <2>3. CASE j = n
    <3>1. k - 1 = 0
      BY <2>3
    <3> HIDE DEF k
    <3>2. B * 0 = 0
      BY <1>1
    <3>3. r[j] = (v \div 2^0) % b
      BY <2>2, <3>1, <3>2
    <3>4. 2^0 = 1 /\ v \div 1 = v
      BY PowersAssumption
    <3> QED BY <1>8, <2>3, <3>3, <3>4 DEF e
  <2>4. CASE j # n
    <3> DEFINE i == k - 1
               m == 2^(B * (i - 1))
    <3>1. j \in 1 .. d /\ i \in 1 .. d /\ i = (d - j) + 1 /\ i \in 1 .. n
      BY <2>4 DEF d
    <3>2. a[j] = (w \div m) % b
      <4>1. a[j] = t[i]
        BY <1>6, <1>8, <3>1
      <4> HIDE DEF i
      <4> QED BY <1>4, <3>1, <4>1
    <3> HIDE DEF i
    <3>3. 2^(B * i) = b * m /\ m \in Nat \ {0}
      BY <3>1, LittlePower
    <3>4. r[j] = (v \div (b * m)) % b
      BY <2>2, <3>3 DEF i
    <3> HIDE DEF m
    <3>5. v \div (b * m) = (v \div b) \div m
      <4> HIDE DEF b
      <4> QED BY <1>1, <3>3, DivProduct
    <3> QED BY <3>2, <3>4, <3>5 DEF w
  <2> QED BY <2>3, <2>4
<1> HIDE DEF a
<1>10. r = a
  BY <1>5, <1>8, <1>9, SeqEqual
<1> QED BY <1>10 DEF r, s, a, u, t, e, w, d

LEMMA LittleIs ==
  ASSUME NEW v \in Nat, NEW n \in Nat, ByteBits * n <= LongestInt
  PROVE  LittleEndian(LittleBytes(v, n)) = v % 2^(ByteBits * n)
<1> DEFINE B == ByteBits
           base == 2^B
           Right(m, x) == InBase(base, Reverse(LittleBytes(x, m))) = x % 2^(B * m)
           bad == {m \in Nat : B * m <= LongestInt /\ \E x \in Nat : ~Right(m, x)}
<1>1. ASSUME NEW m \in bad PROVE m # 0 /\ m - 1 \in bad
  <2>1. m \in Nat /\ B * m <= LongestInt
    OBVIOUS
  <2>2. PICK x \in Nat : ~Right(m, x)
    OBVIOUS
  <2>3. m # 0
    <3>1. CASE m = 0
      <4>1. B \in Nat /\ B * 0 = 0
        BY Widths
      <4>2. LittleBytes(x, 0) = << >>
        <5>1. LittleBytes(x, 0) \in Seq(Octet) /\ Len(LittleBytes(x, 0)) = 0
          BY <2>1, <3>1, LittleType
        <5> QED BY <5>1, EmptySeq
      <4>3. Reverse(<< >>) = << >>
        <5>1. << >> \in Seq(Octet) /\ Len(<< >>) = 0
          OBVIOUS
        <5>2. Reverse(<< >>) \in Seq(Octet) /\ Len(Reverse(<< >>)) = 0
          BY <5>1, ReverseIs
        <5> QED BY <5>2, EmptySeq
      <4>4. InBase(base, << >>) = 0
        BY InBaseEmpty
      <4>5. x % 2^0 = 0
        <5>1. 2^0 = 1 /\ x % 1 = 0
          BY PowersAssumption
        <5> QED BY <5>1
      <4>6. Right(0, x)
        BY <4>1, <4>2, <4>3, <4>4, <4>5
      <4> QED BY <2>2, <3>1, <4>6
    <3> QED BY <3>1
  <2> DEFINE d == m - 1
             w == x \div base
             high == 2^(B * d)
  <2>4. m \in Nat \ {0} /\ d \in Nat /\ m \in 1 .. m
    BY <2>1, <2>3
  <2>5. 2^(B * m) = base * high /\ base \in Nat \ {0} /\ high \in Nat \ {0} /\ B * d <= LongestInt
    BY <2>1, <2>4, LittlePower
  <2>6. Reverse(LittleBytes(x, m)) = Append(Reverse(LittleBytes(w, d)), x % base)
    BY <2>1, <2>4, LittleLow
  <2> HIDE DEF d, high
  <2>7. w \in Nat /\ x % (base * high) = base * (w % high) + (x % base) /\ x % base \in Nat
    <3> HIDE DEF base
    <3>1. x % base \in Nat
      BY <2>5
    <3> QED BY <2>5, <3>1, DivProduct
  <2> HIDE DEF w
  <2> DEFINE u == Reverse(LittleBytes(w, d))
             e == x % base
  <2>8. u \in Seq(Nat) /\ e \in Nat
    <3>1. LittleBytes(w, d) \in Seq(Octet)
      BY <2>4, <2>5, <2>7, LittleType
    <3>2. u \in Seq(Octet)
      BY <3>1, ReverseIs
    <3> HIDE DEF u
    <3>3. u \in Seq(Nat)
      BY <3>2, OctetIs, SeqWider
    <3> QED BY <2>7, <3>3
  <2>9. InBase(base, Append(u, e)) = base * InBase(base, u) + e
    <3> HIDE DEF u, e, base
    <3> QED BY <2>8, InBaseAppend
  <2>10. ~Right(d, w)
    <3>1. CASE Right(d, w)
      <4>1. InBase(base, u) = w % high
        BY <3>1 DEF high
      <4>2. InBase(base, Reverse(LittleBytes(x, m))) = base * (w % high) + e
        BY <2>6, <2>9, <4>1
      <4>3. InBase(base, Reverse(LittleBytes(x, m))) = x % 2^(B * m)
        BY <2>5, <2>7, <4>2
      <4> QED BY <2>2, <4>3
    <3> QED BY <3>1
  <2> HIDE DEF Right
  <2> QED BY <2>3, <2>4, <2>5, <2>7, <2>10 DEF d
<1>2. bad \subseteq Nat
  OBVIOUS
<1> HIDE DEF Right
<1>3. bad = {}
  <2> HIDE DEF bad
  <2> QED BY <1>1, <1>2, NoLeast
<1>4. Right(n, v)
  BY <1>3
<1> QED BY <1>4 DEF Right, LittleEndian, Joined

(* A leading zero counts nothing. *)
LEMMA LeadingZero ==
  ASSUME NEW base \in Nat, NEW s \in Seq(Nat)
  PROVE  InBase(base, << 0 >> \o s) = InBase(base, s)
<1> DEFINE Right(t) == InBase(base, << 0 >> \o t) = InBase(base, t)
           bad == {n \in Nat : \E t \in Seq(Nat) : Len(t) = n /\ ~Right(t)}
<1>1. ASSUME NEW n \in bad PROVE n # 0 /\ n - 1 \in bad
  <2>1. n \in Nat
    OBVIOUS
  <2>2. PICK t \in Seq(Nat) : Len(t) = n /\ ~Right(t)
    OBVIOUS
  <2>3. n # 0
    <3>1. CASE n = 0
      <4> DEFINE e == << >>
      <4>1. t = e /\ e \in Seq(Nat) /\ 0 \in Nat /\ << 0 >> \o e = Append(e, 0) /\ InBase(base, e) = 0
        <5>1. t = << >>
          BY <2>2, <3>1, EmptySeq
        <5>2. << >> \in Seq(Nat) /\ << 0 >> \o << >> = Append(<< >>, 0)
          OBVIOUS
        <5> QED BY <5>1, <5>2, InBaseEmpty
      <4> HIDE DEF e
      <4>2. InBase(base, Append(e, 0)) = base * InBase(base, e) + 0
        BY <4>1, InBaseAppend
      <4>3. base * 0 + 0 = 0
        OBVIOUS
      <4> QED BY <2>2, <4>1, <4>2, <4>3
    <3> QED BY <3>1
  <2>4. PICK m \in Nat : n = m + 1
    <3>1. n - 1 \in Nat /\ n = (n - 1) + 1
      BY <2>1, <2>3
    <3> QED BY <3>1
  <2> DEFINE u == SubSeq(t, 1, m)
             a == t[m + 1]
             z == << 0 >> \o u
  <2>5. u \in Seq(Nat) /\ Len(u) = m /\ a \in Nat /\ t = Append(u, a)
    BY <2>2, <2>4, LastOff
  <2> HIDE DEF u, a
  <2>6. z \in Seq(Nat) /\ << 0 >> \o Append(u, a) = Append(z, a)
    BY <2>5
  <2> HIDE DEF z
  <2>7. InBase(base, Append(z, a)) = base * InBase(base, z) + a
    BY <2>5, <2>6, InBaseAppend
  <2>8. InBase(base, Append(u, a)) = base * InBase(base, u) + a
    BY <2>5, InBaseAppend
  <2>9. ~Right(u)
    BY <2>2, <2>5, <2>6, <2>7, <2>8 DEF z
  <2>10. n - 1 = m
    BY <2>4
  <2> HIDE DEF Right
  <2> QED BY <2>3, <2>4, <2>5, <2>9, <2>10
<1>2. bad \subseteq Nat
  OBVIOUS
<1> HIDE DEF Right
<1>3. bad = {}
  <2> HIDE DEF bad
  <2> QED BY <1>1, <1>2, NoLeast
<1>4. Len(s) \in Nat
  OBVIOUS
<1>5. Right(s)
  BY <1>3, <1>4
<1> QED BY <1>5 DEF Right

LEMMA ReverseAppend ==
  ASSUME NEW S, NEW s \in Seq(S), NEW a \in S
  PROVE  Reverse(Append(s, a)) = << a >> \o Reverse(s)
<1> DEFINE n == Len(s)
           u == Append(s, a)
           r == Reverse(s)
           v == Reverse(u)
           w == << a >> \o r
<1>1. n \in Nat /\ u \in Seq(S) /\ Len(u) = n + 1 /\ u[n + 1] = a /\ \A k \in 1 .. n : u[k] = s[k]
  OBVIOUS
<1>2. r \in Seq(S) /\ Len(r) = n /\ \A j \in 1 .. n : r[j] = s[(n - j) + 1]
  BY ReverseIs
<1> HIDE DEF n, u, r
<1>3. v \in Seq(S) /\ Len(v) = n + 1 /\ \A j \in 1 .. (n + 1) : v[j] = u[((n + 1) - j) + 1]
  BY <1>1, ReverseIs
<1>4. w \in Seq(S) /\ Len(w) = n + 1 /\ w[1] = a /\ \A j \in 1 .. n : w[j + 1] = r[j]
  BY <1>1, <1>2
<1> HIDE DEF v, w
<1>5. ASSUME NEW j \in 1 .. (n + 1) PROVE v[j] = w[j]
  <2>1. CASE j = 1
    <3>1. v[1] = u[n + 1]
      <4>1. ((n + 1) - 1) + 1 = n + 1 /\ 1 \in 1 .. (n + 1)
        BY <1>1
      <4> QED BY <1>3, <4>1
    <3> QED BY <1>1, <1>4, <2>1, <3>1
  <2>2. CASE j # 1
    <3> DEFINE i == j - 1
    <3>1. i \in 1 .. n /\ j = i + 1 /\ ((n + 1) - j) + 1 = (n - i) + 1 /\ (n - i) + 1 \in 1 .. n
      BY <1>1, <2>2
    <3> HIDE DEF i
    <3>2. v[j] = s[(n - i) + 1]
      BY <1>1, <1>3, <3>1
    <3> QED BY <1>2, <1>4, <3>1, <3>2
  <2> QED BY <2>1, <2>2
<1>6. v = w
  BY <1>3, <1>4, <1>5, SeqEqual
<1> QED BY <1>6 DEF v, w, u, r

(* The value if the most significant byte is read as zero. *)
LEMMA LittleShort ==
  ASSUME NEW v \in Nat, NEW n \in Nat, ByteBits * n <= LongestInt
  PROVE  LittleEndian(Append(LittleBytes(v, n), 0)) = v % 2^(ByteBits * n)
<1> DEFINE s == LittleBytes(v, n)
           r == Reverse(s)
           base == 2^ByteBits
<1>1. s \in Seq(Octet) /\ base \in Nat
  BY LittleType, Widths, PowType
<1>2. LittleEndian(s) = v % 2^(ByteBits * n)
  BY LittleIs
<1> HIDE DEF s, base
<1>3. r \in Seq(Octet)
  BY <1>1, ReverseIs
<1>4. Reverse(Append(s, 0)) = << 0 >> \o r
  <2>1. 0 \in Octet
    BY OctetIs
  <2> QED BY <1>1, <2>1, ReverseAppend
<1> HIDE DEF r
<1>5. r \in Seq(Nat)
  BY <1>3, OctetIs, SeqWider
<1>6. InBase(base, << 0 >> \o r) = InBase(base, r)
  BY <1>1, <1>5, LeadingZero
<1> QED BY <1>2, <1>4, <1>6 DEF LittleEndian, Joined, base, r, s

-----------------------------------------------------------------------------
(* The length of a text. *)

IsTextLength(f, ps, n) == f = [k \in 0 .. n |-> IF k = 0 THEN 0 ELSE f[k - 1] + ps[k].len]

LEMMA TextLengthExists ==
  ASSUME NEW ps, NEW n \in Nat
  PROVE  \E f : IsTextLength(f, ps, n)
<1> DEFINE none == {m \in Nat : ~ \E f : IsTextLength(f, ps, m)}
<1>1. ASSUME NEW m \in none PROVE m # 0 /\ m - 1 \in none
  <2>1. m \in Nat /\ ~ \E f : IsTextLength(f, ps, m)
    OBVIOUS
  <2>2. m # 0
    <3>1. IsTextLength([k \in 0 .. 0 |-> 0], ps, 0)
      BY DEF IsTextLength
    <3> QED BY <2>1, <3>1
  <2>3. ASSUME NEW g, IsTextLength(g, ps, m - 1) PROVE FALSE
    <3> DEFINE f == [k \in 0 .. m |-> IF k = 0 THEN 0 ELSE g[k - 1] + ps[k].len]
    <3>1. /\ \A k \in 0 .. (m - 1) : g[k] = IF k = 0 THEN 0 ELSE g[k - 1] + ps[k].len
          /\ \A k \in 0 .. m : f[k] = IF k = 0 THEN 0 ELSE g[k - 1] + ps[k].len
          /\ f = [k \in 0 .. m |-> f[k]]
      BY <2>3 DEF IsTextLength
    <3> HIDE DEF f, none
    <3>2. ASSUME NEW k \in 0 .. (m - 1) PROVE f[k] = g[k]
      <4>1. k \in 0 .. m
        BY <2>1
      <4> QED BY <3>1, <4>1, Zenon
    <3>3. \A k \in 0 .. m : f[k] = IF k = 0 THEN 0 ELSE f[k - 1] + ps[k].len
      <4> SUFFICES ASSUME NEW k \in 0 .. m PROVE f[k] = IF k = 0 THEN 0 ELSE f[k - 1] + ps[k].len
        OBVIOUS
      <4>1. CASE k = 0
        BY <3>1, <4>1
      <4>2. CASE k # 0
        <5>1. k - 1 \in 0 .. (m - 1)
          BY <2>1, <4>2
        <5>2. f[k - 1] = g[k - 1]
          BY <3>2, <5>1
        <5> QED BY <3>1, <4>2, <5>2
      <4> QED BY <4>1, <4>2
    <3>4. IsTextLength(f, ps, m)
      BY <3>1, <3>3 DEF IsTextLength
    <3> QED BY <2>1, <3>4
  <2>4. m - 1 \in Nat
    BY <2>1, <2>2
  <2> QED BY <2>2, <2>3, <2>4
<1>2. none \subseteq Nat
  OBVIOUS
<1> HIDE DEF none
<1>3. none = {}
  BY <1>1, <1>2, NoLeast
<1> QED BY <1>3 DEF none

LEMMA TextLengthIs ==
  ASSUME NEW ps, Len(ps) \in Nat
  PROVE  \E f : IsTextLength(f, ps, Len(ps)) /\ TextLength(ps) = f[Len(ps)]
<1>1. \E f : IsTextLength(f, ps, Len(ps))
  BY TextLengthExists
<1> QED BY <1>1, Zenon DEF TextLength, IsTextLength

(* Of the first phrases. *)
LEMMA TextLengthNone == TextLength(<< >>) = 0
<1>1. Len(<< >>) = 0
  OBVIOUS
<1>2. PICK f : IsTextLength(f, << >>, Len(<< >>)) /\ TextLength(<< >>) = f[Len(<< >>)]
  BY <1>1, TextLengthIs
<1> QED BY <1>1, <1>2 DEF IsTextLength

LEMMA TextLengthAppend ==
  ASSUME NEW S, NEW s \in Seq(S), NEW p \in S
  PROVE  TextLength(Append(s, p)) = TextLength(s) + p.len
<1> DEFINE u == Append(s, p)
           n == Len(s)
<1>1. n \in Nat /\ Len(u) = n + 1 /\ Len(s) = n /\ u[n + 1] = p /\ \A k \in 1 .. n : u[k] = s[k]
  OBVIOUS
<1> HIDE DEF u, n
<1>2. PICK f : IsTextLength(f, u, n + 1) /\ TextLength(u) = f[n + 1]
  <2>1. Len(u) \in Nat
    BY <1>1
  <2>2. \E f : IsTextLength(f, u, Len(u)) /\ TextLength(u) = f[Len(u)]
    BY <2>1, TextLengthIs
  <2> QED BY <1>1, <2>2
<1>3. PICK g : IsTextLength(g, s, n) /\ TextLength(s) = g[n]
  <2>1. Len(s) \in Nat
    BY <1>1
  <2>2. \E g : IsTextLength(g, s, Len(s)) /\ TextLength(s) = g[Len(s)]
    BY <2>1, TextLengthIs
  <2> QED BY <1>1, <2>2
<1>4. /\ \A k \in 0 .. (n + 1) : f[k] = IF k = 0 THEN 0 ELSE f[k - 1] + u[k].len
      /\ \A k \in 0 .. n : g[k] = IF k = 0 THEN 0 ELSE g[k - 1] + s[k].len
  <2>1. f = [k \in 0 .. (n + 1) |-> IF k = 0 THEN 0 ELSE f[k - 1] + u[k].len]
    BY <1>2 DEF IsTextLength
  <2>2. g = [k \in 0 .. n |-> IF k = 0 THEN 0 ELSE g[k - 1] + s[k].len]
    BY <1>3 DEF IsTextLength
  <2>3. \A k \in 0 .. (n + 1) : f[k] = IF k = 0 THEN 0 ELSE f[k - 1] + u[k].len
    BY <2>1, Zenon
  <2>4. \A k \in 0 .. n : g[k] = IF k = 0 THEN 0 ELSE g[k - 1] + s[k].len
    BY <2>2, Zenon
  <2> QED BY <2>3, <2>4
<1> DEFINE differ == {k \in 0 .. n : f[k] # g[k]}
<1>5. ASSUME NEW k \in differ PROVE k # 0 /\ k - 1 \in differ
  <2>1. k \in 0 .. n /\ k \in 0 .. (n + 1) /\ f[k] # g[k]
    BY <1>1
  <2>2. k # 0
    BY <1>4, <2>1
  <2>3. k - 1 \in 0 .. n /\ k \in 1 .. n
    BY <1>1, <2>1, <2>2
  <2>4. f[k] = f[k - 1] + s[k].len /\ g[k] = g[k - 1] + s[k].len
    BY <1>1, <1>4, <2>1, <2>2, <2>3
  <2> QED BY <2>1, <2>2, <2>3, <2>4
<1>6. differ \subseteq Nat
  BY <1>1
<1> HIDE DEF differ
<1>7. differ = {}
  BY <1>5, <1>6, NoLeast
<1>8. n \in 0 .. n /\ n + 1 \in 0 .. (n + 1) /\ n + 1 # 0 /\ (n + 1) - 1 = n
  BY <1>1
<1>9. f[n] = g[n]
  BY <1>7, <1>8 DEF differ
<1>10. f[n + 1] = f[n] + u[n + 1].len
  BY <1>4, <1>8
<1> QED BY <1>1, <1>2, <1>3, <1>9, <1>10 DEF u

LEMMA TextLengthSame ==
  ASSUME NEW s, NEW t, Len(s) \in Nat, Len(t) = Len(s), \A k \in 1 .. Len(s) : s[k].len = t[k].len
  PROVE  TextLength(s) = TextLength(t)
<1> DEFINE n == Len(s)
<1>1. PICK f : IsTextLength(f, s, n) /\ TextLength(s) = f[n]
  BY TextLengthIs
<1>2. PICK g : IsTextLength(g, t, n) /\ TextLength(t) = g[n]
  <2>1. \E g : IsTextLength(g, t, Len(t)) /\ TextLength(t) = g[Len(t)]
    BY TextLengthIs
  <2> QED BY <2>1
<1>3. n \in Nat /\ \A k \in 1 .. n : s[k].len = t[k].len
  OBVIOUS
<1> HIDE DEF n
<1>4. /\ \A k \in 0 .. n : f[k] = IF k = 0 THEN 0 ELSE f[k - 1] + s[k].len
      /\ \A k \in 0 .. n : g[k] = IF k = 0 THEN 0 ELSE g[k - 1] + t[k].len
  <2>1. f = [k \in 0 .. n |-> IF k = 0 THEN 0 ELSE f[k - 1] + s[k].len]
    BY <1>1 DEF IsTextLength
  <2>2. g = [k \in 0 .. n |-> IF k = 0 THEN 0 ELSE g[k - 1] + t[k].len]
    BY <1>2 DEF IsTextLength
  <2>3. \A k \in 0 .. n : f[k] = IF k = 0 THEN 0 ELSE f[k - 1] + s[k].len
    BY <2>1, Zenon
  <2>4. \A k \in 0 .. n : g[k] = IF k = 0 THEN 0 ELSE g[k - 1] + t[k].len
    BY <2>2, Zenon
  <2> QED BY <2>3, <2>4
<1> DEFINE differ == {k \in 0 .. n : f[k] # g[k]}
<1>5. ASSUME NEW k \in differ PROVE k # 0 /\ k - 1 \in differ
  <2>1. k \in 0 .. n /\ f[k] # g[k]
    OBVIOUS
  <2>2. k # 0
    BY <1>4, <2>1
  <2>3. k - 1 \in 0 .. n /\ k \in 1 .. n
    BY <1>3, <2>1, <2>2
  <2>4. f[k] = f[k - 1] + s[k].len /\ g[k] = g[k - 1] + t[k].len /\ s[k].len = t[k].len
    BY <1>3, <1>4, <2>1, <2>2, <2>3
  <2> QED BY <2>1, <2>2, <2>3, <2>4
<1>6. differ \subseteq Nat
  BY <1>3
<1> HIDE DEF differ
<1>7. differ = {}
  BY <1>5, <1>6, NoLeast
<1>8. n \in 0 .. n
  BY <1>3
<1>9. f[n] = g[n]
  BY <1>7, <1>8 DEF differ
<1> QED BY <1>1, <1>2, <1>9

LEMMA TextLengthType ==
  ASSUME NEW s, Len(s) \in Nat, \A k \in 1 .. Len(s) : s[k].len \in Nat
  PROVE  TextLength(s) \in Nat
<1> DEFINE n == Len(s)
<1>1. PICK f : IsTextLength(f, s, n) /\ TextLength(s) = f[n]
  BY TextLengthIs
<1>2. n \in Nat /\ \A k \in 1 .. n : s[k].len \in Nat
  OBVIOUS
<1> HIDE DEF n
<1>3. \A k \in 0 .. n : f[k] = IF k = 0 THEN 0 ELSE f[k - 1] + s[k].len
  <2>1. f = [k \in 0 .. n |-> IF k = 0 THEN 0 ELSE f[k - 1] + s[k].len]
    BY <1>1 DEF IsTextLength
  <2> QED BY <2>1, Zenon
<1> DEFINE bad == {k \in 0 .. n : f[k] \notin Nat}
<1>4. ASSUME NEW k \in bad PROVE k # 0 /\ k - 1 \in bad
  <2>1. k \in 0 .. n /\ f[k] \notin Nat
    OBVIOUS
  <2>2. k # 0
    BY <1>3, <2>1
  <2>3. k - 1 \in 0 .. n /\ k \in 1 .. n
    BY <1>2, <2>1, <2>2
  <2>4. f[k] = f[k - 1] + s[k].len /\ s[k].len \in Nat
    BY <1>2, <1>3, <2>1, <2>2, <2>3
  <2> QED BY <2>1, <2>2, <2>3, <2>4
<1>5. bad \subseteq Nat
  BY <1>2
<1> HIDE DEF bad
<1>6. bad = {}
  BY <1>4, <1>5, NoLeast
<1>7. n \in 0 .. n
  BY <1>2
<1> QED BY <1>1, <1>6, <1>7 DEF bad

-----------------------------------------------------------------------------
(* What is read of a phrase. *)

LEMMA PieceIs ==
  ASSUME NEW S, NEW v \in Seq(S), NEW a \in Nat, NEW m \in Nat, a + m <= Len(v),
         NEW t \in Seq(S), Len(t) = m, \A i \in 1 .. m : v[a + i] = t[i]
  PROVE  SubSeq(v, a + 1, a + m) = t
<1> DEFINE u == SubSeq(v, a + 1, a + m)
<1>1. u \in Seq(S) /\ Len(u) = m
  OBVIOUS
<1>2. ASSUME NEW i \in 1 .. m PROVE u[i] = t[i]
  <2>1. u[i] = v[a + i]
    OBVIOUS
  <2> QED BY <2>1
<1> HIDE DEF u
<1>3. u = t
  BY <1>1, <1>2, SeqEqual
<1> QED BY <1>3 DEF u

LEMMA PhrasePlaces ==
  ASSUME NEW g, IsParsing(g), NEW j \in Nat, j < Len(g.phrases)
  PROVE  LET size == PhraseSize(g)
             q    == PhraseStart(g, j)
             end  == PhraseStart(g, Len(g.phrases))
         IN  /\ size \in Nat /\ size > 2 /\ q \in Nat /\ end \in Nat
             /\ PhraseStart(g, j + 1) = q + size
             /\ q + size <= end /\ (q + size = end <=> j + 1 = Len(g.phrases))
<1> DEFINE size == PhraseSize(g)
           total == Len(g.phrases)
           h == HeaderBytes
<1>1. g.intBytes \in Nat \ {0} /\ total \in Nat /\ h \in Nat
  <2>1. total \in Nat
    BY PhraseSeqIs
  <2> QED BY <2>1, DecodersAssumption DEF IsParsing
<1>2. size \in Nat /\ size > 2
  BY <1>1 DEF PhraseSize
<1>8. j < total
  OBVIOUS
<1> HIDE DEF size, total, h
<1>3. PICK c \in Nat : total = j + 1 + c
  <2>1. total - (j + 1) \in Nat /\ total = j + 1 + (total - (j + 1))
    BY <1>1, <1>8
  <2> QED BY <2>1
<1> DEFINE x == j * size
           y == c * size
<1>4. x \in Nat /\ y \in Nat /\ (j + 1) * size = x + size /\ (j + 1 + c) * size = x + size + y
  BY <1>2, <1>3
<1>5. y = 0 <=> c = 0
  <2>1. CASE c = 0
    BY <1>2, <2>1
  <2>2. CASE c # 0
    <3>1. y >= size
      <4>1. PICK d \in Nat : c = d + 1
        <5>1. c - 1 \in Nat /\ c = (c - 1) + 1
          BY <1>3, <2>2
        <5> QED BY <5>1
      <4>2. y = d * size + size /\ d * size \in Nat
        BY <1>2, <4>1
      <4> DEFINE z == d * size
      <4> HIDE DEF z, y
      <4>3. y = z + size /\ z \in Nat
        BY <4>2 DEF z
      <4> QED BY <1>2, <4>3
    <3> HIDE DEF y
    <3> QED BY <1>2, <1>4, <2>2, <3>1
  <2> QED BY <2>1, <2>2
<1>6. /\ PhraseStart(g, j) = 2 + h + x /\ PhraseStart(g, j + 1) = 2 + h + (x + size)
      /\ PhraseStart(g, total) = 2 + h + (x + size + y)
  BY <1>3, <1>4 DEF PhraseStart, size, h
<1> HIDE DEF x, y
<1>7. /\ 2 + h + x \in Nat /\ 2 + h + (x + size + y) \in Nat
      /\ 2 + h + (x + size) = (2 + h + x) + size
      /\ (2 + h + x) + size <= 2 + h + (x + size + y)
      /\ ((2 + h + x) + size = 2 + h + (x + size + y)) <=> (j + 1 = total)
  BY <1>1, <1>2, <1>3, <1>4, <1>5
<1> QED BY <1>2, <1>6, <1>7 DEF size, total

LEMMA PhraseBytesRead ==
  ASSUME NEW g, IsParsing(g), bytes = ParsingBytes(g), ~trailed,
         NEW j \in Nat, j < Len(g.phrases), NEW i \in 1 .. PhraseSize(g)
  PROVE  Byte(PhraseStart(g, j) + i) =
           IF i = PhraseSize(g) /\ j + 1 = Len(g.phrases) /\ ~LastByteKept THEN 0
           ELSE PhraseBytes(g, j + 1)[i]
<1> DEFINE size == PhraseSize(g)
           q == PhraseStart(g, j)
           end == PhraseStart(g, Len(g.phrases))
           total == Len(g.phrases)
<1>1. /\ size \in Nat /\ q \in Nat /\ end \in Nat /\ q + size <= end
      /\ (q + size = end <=> j + 1 = total)
  BY PhrasePlaces
<1>2. Len(bytes) = end /\ bytes[q + i] = PhraseBytes(g, j + 1)[i]
  <2>1. j \in 0 .. (total - 1)
    <3>1. total \in Nat
      BY PhraseSeqIs
    <3> QED BY <3>1
  <2> QED BY <2>1, ParsingLies
<1>3. i \in 1 .. size
  OBVIOUS
<1> HIDE DEF size, q, end, total
<1>4. q + i \in 1 .. end /\ (q + i = end <=> i = size /\ j + 1 = total)
  BY <1>1, <1>3
<1>5. Byte(q + i) = IF q + i = end /\ ~LastByteKept THEN 0 ELSE bytes[q + i]
  <2>1. q + i \in 1 .. Len(bytes)
    BY <1>2, <1>4
  <2> DEFINE k == q + i
  <2> HIDE DEF k
  <2>2. k \in 1 .. Len(bytes)
    BY <2>1 DEF k
  <2>3. Byte(k) = IF k = end /\ ~LastByteKept THEN 0 ELSE bytes[k]
    BY <1>2, <2>2, Zenon DEF Byte
  <2> QED BY <2>3 DEF k
<1>6. Byte(q + i) = IF i = size /\ j + 1 = total /\ ~LastByteKept THEN 0 ELSE PhraseBytes(g, j + 1)[i]
  BY <1>2, <1>4, <1>5
<1> QED BY <1>6 DEF q, size, total

LEMMA PhraseValues ==
  ASSUME NEW g, IsParsing(g), bytes = ParsingBytes(g), ~trailed,
         NEW j \in Nat, j < Len(g.phrases)
  PROVE  LET n == g.intBytes
             f == g.phrases[j + 1]
             v == BytesFrom(PhraseStart(g, j), PhraseSize(g))
         IN  /\ v[1] = f.char
             /\ LittleEndian(SubSeq(v, 2, n + 1)) = f.link
             /\ LittleEndian(SubSeq(v, n + 2, 2 * n + 1)) =
                  IF j + 1 = Len(g.phrases) /\ ~LastByteKept THEN f.len % 2^(ByteBits * (n - 1)) ELSE f.len
<1> DEFINE n == g.intBytes
           f == g.phrases[j + 1]
           q == PhraseStart(g, j)
           size == PhraseSize(g)
           v == BytesFrom(q, size)
           b == PhraseBytes(g, j + 1)
           lost == j + 1 = Len(g.phrases) /\ ~LastByteKept
           lk == LittleBytes(f.link, n)
           ln == LittleBytes(f.len, n)
<1>1. j + 1 \in 1 .. Len(g.phrases)
  <2>1. Len(g.phrases) \in Nat
    BY PhraseSeqIs
  <2> QED BY <2>1
<1>2. /\ n \in Nat \ {0} /\ ByteBits * n <= LongestInt /\ 2^(ByteBits * n) \in Nat \ {0}
      /\ f.link \in Nat /\ f.link < 2^(ByteBits * n) /\ f.len \in Nat /\ f.len < 2^(ByteBits * n)
  BY <1>1, PhraseIs
<1>3. /\ b \in Seq(Octet) /\ Len(b) = size /\ b[1] = f.char
      /\ \A i \in 1 .. n : b[1 + i] = lk[i]
      /\ \A i \in 1 .. n : b[1 + n + i] = ln[i]
  BY <1>1, PhraseBytesAre
<1>4. lk \in Seq(Octet) /\ Len(lk) = n /\ ln \in Seq(Octet) /\ Len(ln) = n
  BY <1>2, LittleType
<1>5. size = 2 * n + 1 /\ q \in Nat
  BY PhrasePlaces DEF PhraseSize
<1>6. v \in Seq(Nat) /\ Len(v) = size
  <2>1. PlainFile
    BY ParsingLies
  <2>2. size \in Nat
    BY <1>2, <1>5
  <2> HIDE DEF q, size
  <2> QED BY <1>5, <2>1, <2>2, BytesFromMore
<1>7. ASSUME NEW i \in 1 .. size PROVE v[i] = IF i = size /\ lost THEN 0 ELSE b[i]
  <2>1. v[i] = Byte(q + i)
    BY DEF BytesFrom
  <2>2. Byte(q + i) = IF i = size /\ lost THEN 0 ELSE b[i]
    BY PhraseBytesRead
  <2> QED BY <2>1, <2>2
<1> HIDE DEF n, f, q, size, v, b, lost, lk, ln
<1>8. v[1] = f.char
  <2>1. 1 \in 1 .. size /\ 1 # size
    BY <1>2, <1>5
  <2> QED BY <1>3, <1>7, <2>1
<1>9. LittleEndian(SubSeq(v, 2, n + 1)) = f.link
  <2>1. ASSUME NEW i \in 1 .. n PROVE v[1 + i] = lk[i]
    <3>1. 1 + i \in 1 .. size /\ 1 + i # size
      BY <1>2, <1>5
    <3> QED BY <1>3, <1>7, <3>1
  <2>2. 1 + n <= Len(v) /\ n \in Nat /\ 1 + 1 = 2 /\ 1 + n = n + 1
    BY <1>2, <1>5, <1>6
  <2>3. lk \in Seq(Nat)
    BY <1>4, OctetIs, SeqWider
  <2>4. SubSeq(v, 1 + 1, 1 + n) = lk
    BY <1>4, <1>6, <2>1, <2>2, <2>3, PieceIs
  <2>5. LittleEndian(lk) = f.link % 2^(ByteBits * n)
    BY <1>2, LittleIs DEF lk
  <2>6. f.link % 2^(ByteBits * n) = f.link
    <3> DEFINE m == 2^(ByteBits * n)
               x == f.link
    <3>1. m \in Nat \ {0} /\ x \in Nat /\ x < m
      BY <1>2
    <3> HIDE DEF m, x
    <3>2. x % m = x
      BY <3>1
    <3> QED BY <3>2 DEF m, x
  <2> QED BY <2>2, <2>4, <2>5, <2>6
<1>10. n + 2 = (n + 1) + 1 /\ 2 * n + 1 = (n + 1) + n /\ (n + 1) + n <= Len(v) /\ n + 1 \in Nat
  BY <1>2, <1>5, <1>6
<1>11. ASSUME NEW i \in 1 .. n, ~(i = n /\ lost) PROVE v[(n + 1) + i] = ln[i]
  <2>1. (n + 1) + i \in 1 .. size /\ ((n + 1) + i = size <=> i = n) /\ (n + 1) + i = 1 + n + i
    BY <1>2, <1>5
  <2> QED BY <1>3, <1>7, <1>11, <2>1
<1>12. CASE ~lost
  <2>1. ln \in Seq(Nat)
    BY <1>4, OctetIs, SeqWider
  <2>2. \A i \in 1 .. n : v[(n + 1) + i] = ln[i]
    BY <1>11, <1>12
  <2>3. SubSeq(v, (n + 1) + 1, (n + 1) + n) = ln
    <3> DEFINE a == n + 1
    <3>1. a \in Nat /\ a + n <= Len(v) /\ \A i \in 1 .. n : v[a + i] = ln[i]
      BY <1>10, <2>2
    <3> HIDE DEF a
    <3>2. SubSeq(v, a + 1, a + n) = ln
      BY <1>2, <1>4, <1>6, <2>1, <3>1, PieceIs
    <3> QED BY <3>2 DEF a
  <2>4. LittleEndian(ln) = f.len % 2^(ByteBits * n)
    BY <1>2, LittleIs DEF ln
  <2>5. f.len % 2^(ByteBits * n) = f.len
    <3> DEFINE m == 2^(ByteBits * n)
               x == f.len
    <3>1. m \in Nat \ {0} /\ x \in Nat /\ x < m
      BY <1>2
    <3> HIDE DEF m, x
    <3>2. x % m = x
      BY <3>1
    <3> QED BY <3>2 DEF m, x
  <2>6. LittleEndian(SubSeq(v, n + 2, 2 * n + 1)) = f.len
    BY <1>10, <2>3, <2>4, <2>5
  <2> QED BY <1>8, <1>9, <1>12, <2>6, Zenon DEF v, n, f, q, size, lost
<1>13. CASE lost
  <2>1. PICK d \in Nat : n = d + 1
    <3>1. n - 1 \in Nat /\ n = (n - 1) + 1
      BY <1>2
    <3> QED BY <3>1
  <2>2. n - 1 = d /\ ByteBits * d <= LongestInt
    <3>1. n \in Nat /\ n \in 1 .. n /\ n - 1 = d
      BY <1>2, <2>1
    <3>2. ByteBits * (n - 1) <= LongestInt
      BY <1>2, <3>1, LittlePower
    <3> QED BY <3>1, <3>2
  <2> DEFINE sh == LittleBytes(f.len, d)
             t == Append(sh, 0)
  <2>3. sh \in Seq(Octet) /\ Len(sh) = d /\ \A i \in 1 .. d : sh[i] = ln[i]
    <3>1. /\ sh \in Seq(Octet) /\ Len(sh) = d
          /\ \A k \in 1 .. d : sh[k] = (f.len \div 2^(ByteBits * (k - 1))) % 2^ByteBits
      BY <1>2, <2>2, LittleType
    <3>2. \A k \in 1 .. n : ln[k] = (f.len \div 2^(ByteBits * (k - 1))) % 2^ByteBits
      BY <1>2, LittleType DEF ln
    <3>3. \A k \in 1 .. d : k \in 1 .. n
      BY <2>1
    <3> HIDE DEF sh
    <3> QED BY <3>1, <3>2, <3>3
  <2>4. LittleEndian(t) = f.len % 2^(ByteBits * d)
    BY <1>2, <2>2, LittleShort
  <2>5. sh \in Seq(Nat)
    <3> HIDE DEF sh
    <3> QED BY <2>3, OctetIs, SeqWider
  <2> HIDE DEF sh
  <2>6. t \in Seq(Nat) /\ Len(t) = n /\ t[n] = 0 /\ \A i \in 1 .. d : t[i] = sh[i]
    BY <2>1, <2>3, <2>5
  <2> HIDE DEF t
  <2>7. ASSUME NEW i \in 1 .. n PROVE v[(n + 1) + i] = t[i]
    <3>1. CASE i = n
      <4>1. (n + 1) + i = size /\ size \in 1 .. size
        BY <1>2, <1>5, <3>1
      <4> QED BY <1>7, <1>13, <2>6, <3>1, <4>1
    <3>2. CASE i # n
      <4>1. i \in 1 .. d
        BY <2>1, <3>2
      <4> QED BY <1>11, <2>3, <2>6, <3>2, <4>1
    <3> QED BY <3>1, <3>2
  <2>8. SubSeq(v, (n + 1) + 1, (n + 1) + n) = t
    <3> DEFINE a == n + 1
    <3>1. a \in Nat /\ a + n <= Len(v) /\ \A i \in 1 .. n : v[a + i] = t[i]
      BY <1>10, <2>7
    <3> HIDE DEF a
    <3>2. SubSeq(v, a + 1, a + n) = t
      BY <1>2, <1>6, <2>6, <3>1, PieceIs
    <3> QED BY <3>2 DEF a
  <2>9. LittleEndian(SubSeq(v, n + 2, 2 * n + 1)) = f.len % 2^(ByteBits * (n - 1))
    BY <1>10, <2>2, <2>4, <2>8
  <2> QED BY <1>8, <1>9, <1>13, <2>9, Zenon DEF v, n, f, q, size, lost
<1> QED BY <1>12, <1>13

-----------------------------------------------------------------------------
(* Where lz::decode is, and what it has. *)

Phrases == [char : Nat, link : Nat, len : Nat]

ParsingSoFar ==
  LET j == Len(parsing)
      q == PhraseStart(given, j)
  IN  /\ parsing \in Seq(Phrases) /\ j \in 0 .. Len(given.phrases)
      /\ \A k \in 1 .. j : parsing[k] = Expected(k)
      /\ sourceLen = TextLength(parsing)
      /\ pc \in {"lzend", "phrases", "done"}
      /\ pc = "lzend" => j = 0 /\ bitsRead = 0 /\ AtByte(in, 0)
      /\ pc # "lzend" =>
           /\ header = [charWidth |-> ByteBits, intBytes |-> given.intBytes]
           /\ bitsRead = q * ByteBits /\ AtByte(in, q)
      /\ pc = "done" => j = Len(given.phrases)

ParsingState ==
  /\ ~trailed /\ IsParsing(given) /\ bytes = ParsingBytes(given) /\ PlainContent
  /\ LastByteKept => ResultRight
  /\ ParsingSoFar

ParsingInv == given.kind = "lzend" => ParsingState

(* The weight of the most significant byte of a number. *)
LEMMA HighIs ==
  ASSUME NEW g, IsParsing(g)
  PROVE  2^(ByteBits * (g.intBytes - 1)) \in Nat \ {0}
<1> DEFINE n == g.intBytes
<1>1. n \in Nat /\ n \in 1 .. n /\ ByteBits * n <= LongestInt
  BY DEF IsParsing
<1> QED BY <1>1, LittlePower

(* The phrase the tests expect (decode_test). *)
LEMMA ExpectedIs ==
  ASSUME IsParsing(given), NEW k \in 1 .. Len(given.phrases)
  PROVE  LET f   == given.phrases[k]
             len == IF k = Len(given.phrases) /\ ~LastByteKept
                    THEN f.len % 2^(ByteBits * (given.intBytes - 1)) ELSE f.len
         IN  /\ Expected(k) = [char |-> f.char, link |-> IF len > 1 THEN f.link ELSE 0, len |-> len]
             /\ Expected(k) \in Phrases /\ Expected(k).len = len /\ f.len \in Nat
<1> DEFINE f == given.phrases[k]
           high == 2^(ByteBits * (given.intBytes - 1))
           len == IF k = Len(given.phrases) /\ ~LastByteKept THEN f.len % high ELSE f.len
           e == [char |-> f.char, link |-> IF len > 1 THEN f.link ELSE 0, len |-> len]
<1>1. Expected(k) = e
  BY Zenon DEF Expected
<1>2. f.char \in Nat /\ f.link \in Nat /\ f.len \in Nat
  BY PhraseIs
<1>3. high \in Nat \ {0}
  BY HighIs
<1>4. len \in Nat
  <2> HIDE DEF high, f
  <2> QED BY <1>2, <1>3
<1> HIDE DEF len, f
<1>5. e \in Phrases /\ e.len = len
  BY <1>2, <1>4 DEF Phrases
<1> QED BY <1>1, <1>2, <1>5, Zenon DEF f, len, high

(* If the last byte is lost, so is some of the last length. *)
LEMMA LengthLost ==
  ASSUME NEW g, IsParsing(g), bytes = ParsingBytes(g), ~trailed, ~LastByteKept
  PROVE  LET p == Len(g.phrases)
             f == g.phrases[p]
         IN  p \in Nat \ {0} /\ f.len \in Nat /\ f.len % 2^(ByteBits * (g.intBytes - 1)) < f.len
<1> DEFINE p == Len(g.phrases)
           n == g.intBytes
           f == g.phrases[p]
           high == 2^(ByteBits * (n - 1))
           b == 2^ByteBits
           z == bytes[Len(bytes)]
           low == 2^TrailerBits
<1>1. p \in Nat /\ PlainFile
  BY PhraseSeqIs, ParsingLies
<1>2. low \in Nat \ {0} /\ z % low > 0
  <2>1. z % low > 0
    BY <1>1, LastSeen
  <2> QED BY <2>1, Widths, PowType
<1>3. z # 0
  <2> HIDE DEF low, z
  <2>1. 0 % low = 0
    BY <1>2
  <2> QED BY <1>2, <2>1
<1>4. p # 0
  <2>1. CASE p = 0
    <3>1. HeaderBytes \in Nat \ {0} /\ PhraseSize(g) \in Nat
      BY DecodersAssumption, PhraseSeqIs
    <3>2. 0 * PhraseSize(g) = 0
      BY <3>1
    <3>3. Len(bytes) = 2 + HeaderBytes
      BY <2>1, <3>1, <3>2, ParsingLies DEF PhraseStart
    <3>4. HeaderBytes \in 1 .. HeaderBytes
      BY <3>1
    <3>5. z = 0
      BY <3>3, <3>4, ParsingLies
    <3> QED BY <1>3, <3>5
  <2> QED BY <2>1
<1>5. PICK j \in Nat : p = j + 1
  <2>1. p - 1 \in Nat /\ p = (p - 1) + 1
    BY <1>1, <1>4
  <2> QED BY <2>1
<1>6. /\ n \in Nat \ {0} /\ ByteBits * n <= LongestInt /\ f.len \in Nat
      /\ p \in 1 .. p
  <2>1. p \in 1 .. p
    BY <1>1, <1>4
  <2> QED BY <2>1, PhraseIs
<1> DEFINE size == PhraseSize(g)
           q == PhraseStart(g, j)
<1>7. z = LittleBytes(f.len, n)[n]
  <2>1. j < p /\ j \in 0 .. (p - 1)
    BY <1>5
  <2>2. size \in Nat /\ size > 2 /\ q \in Nat /\ Len(bytes) = q + size
    BY <1>5, <2>1, PhrasePlaces, ParsingLies
  <2>3. size \in 1 .. size /\ size = 1 + n + n
    BY <1>6, <2>2 DEF PhraseSize
  <2>4. bytes[q + size] = PhraseBytes(g, p)[size]
    BY <1>5, <2>1, <2>3, ParsingLies
  <2>5. n \in 1 .. n
    BY <1>6
  <2>6. PhraseBytes(g, p)[1 + n + n] = LittleBytes(f.len, n)[n]
    BY <1>6, <2>5, PhraseBytesAre
  <2> QED BY <2>2, <2>3, <2>4, <2>6
<1>8. LittleBytes(f.len, n)[n] = (f.len \div high) % b
  <2>1. n \in 1 .. n
    BY <1>6
  <2> QED BY <1>6, <2>1, LittleType
<1>9. high \in Nat \ {0} /\ b \in Nat \ {0}
  BY HighIs, Widths, PowType
<1> DEFINE v == f.len
           w == v \div high
           r == v % high
<1>10. v \in Nat /\ w % b # 0
  BY <1>3, <1>6, <1>7, <1>8
<1> HIDE DEF high, b, v
<1>11. w \in Nat /\ v = w * high + r /\ r \in Nat /\ r < high
  BY <1>9, <1>10, DivParts, Zenon
<1> HIDE DEF w, r
<1>12. w # 0
  <2>1. 0 % b = 0
    BY <1>9
  <2> QED BY <1>10, <2>1
<1>13. r < v
  <2>1. PICK c \in Nat : w = c + 1
    <3>1. w - 1 \in Nat /\ w = (w - 1) + 1
      BY <1>11, <1>12
    <3> QED BY <3>1
  <2>2. w * high = c * high + high /\ c * high \in Nat
    BY <1>9, <2>1
  <2> DEFINE x == c * high
  <2> HIDE DEF x
  <2>3. v = x + high + r /\ x \in Nat
    <3>1. w * high = x + high /\ x \in Nat
      BY <2>2 DEF x
    <3> DEFINE y == w * high
    <3> HIDE DEF y
    <3>2. y = x + high /\ v = y + r
      BY <1>11, <3>1 DEF y
    <3> QED BY <1>11, <3>1, <3>2
  <2> QED BY <1>9, <1>11, <2>3
<1> QED BY <1>1, <1>4, <1>6, <1>13 DEF v, r, high

-----------------------------------------------------------------------------
(* What is read of the header and of a phrase. *)

LEMMA HeaderRead ==
  ASSUME NEW g, IsParsing(g), bytes = ParsingBytes(g), ~trailed, NEW s, AtByte(s, 0)
  PROVE  LET h    == HeaderBytes * ByteBits
             read == Read(s, << ByteBits, ByteBits, h >>)
         IN  /\ read.values[1] = ByteBits - 1 /\ read.values[2] = g.intBytes * ByteBits - 1
             /\ Last(read.values) = 0 /\ AtByte(read.in, 2 + HeaderBytes) /\ read.bits = 2 * ByteBits + h
<1> DEFINE B == ByteBits
           h == HeaderBytes * B
           two == Read(s, Octets(2))
           v == BytesFrom(0, 2)
           read == Read(s, << B, B, h >>)
           int == ReadInt(two.in, h)
<1>1. PlainFile /\ HeaderBytes \in Nat \ {0} /\ B \in Nat /\ h \in Nat /\ h <= LongestInt
  <2>1. HeaderBytes \in Nat \ {0} /\ h <= LongestInt /\ B \in Nat
    BY DecodersAssumption, Widths
  <2> QED BY <2>1, ParsingLies
<1>2. 2 + HeaderBytes <= Len(bytes) /\ Len(bytes) \in Nat
  <2>1. Len(g.phrases) \in Nat /\ PhraseSize(g) \in Nat
    BY PhraseSeqIs
  <2>2. Len(g.phrases) * PhraseSize(g) \in Nat
    BY <2>1
  <2>3. Len(bytes) = 2 + HeaderBytes + Len(g.phrases) * PhraseSize(g)
    BY ParsingLies DEF PhraseStart
  <2> QED BY <1>1, <2>2, <2>3
<1>3. two.values = v /\ AtByte(two.in, 2) /\ two.bits = 2 * B
  <2>1. two.values = v /\ AtByte(two.in, 0 + 2) /\ two.bits = 2 * B
    BY <1>1, BytesRead
  <2>2. 0 + 2 = 2
    OBVIOUS
  <2> QED BY <2>1, <2>2
<1>4. v = << bytes[1], bytes[2] >>
  <2>1. v \in Seq(Nat) /\ Len(v) = 2
    BY <1>1, BytesFromMore
  <2>2. v[1] = Byte(1) /\ v[2] = Byte(2)
    <3>1. \A k \in 1 .. 2 : v[k] = Byte(0 + k)
      BY Zenon DEF BytesFrom
    <3>2. 1 \in 1 .. 2 /\ 2 \in 1 .. 2 /\ 0 + 1 = 1 /\ 0 + 2 = 2
      OBVIOUS
    <3> HIDE DEF v
    <3>3. v[1] = Byte(0 + 1) /\ v[2] = Byte(0 + 2)
      BY <3>1, <3>2, Zenon
    <3> QED BY <3>2, <3>3, Zenon
  <2>3. 1 \in 1 .. Len(bytes) /\ 2 \in 1 .. Len(bytes) /\ 1 # Len(bytes) /\ 2 # Len(bytes)
    <3> DEFINE l == Len(bytes)
               e == HeaderBytes
    <3>1. e \in Nat \ {0} /\ l \in Nat /\ 2 + e <= l
      BY <1>1, <1>2
    <3> HIDE DEF l, e
    <3>2. 1 \in 1 .. l /\ 2 \in 1 .. l /\ 1 # l /\ 2 # l
      BY <3>1
    <3> QED BY <3>2 DEF l
  <2>4. Byte(1) = bytes[1] /\ Byte(2) = bytes[2]
    BY <2>3 DEF Byte
  <2> HIDE DEF v
  <2> QED BY <2>1, <2>2, <2>4
<1>5. Octets(2) = << B, B >>
  <2>1. Octets(2) \in Seq(Nat) /\ Len(Octets(2)) = 2
    BY OctetsMore
  <2>2. Octets(2)[1] = B /\ Octets(2)[2] = B
    BY DEF Octets
  <2> QED BY <2>1, <2>2
<1> HIDE DEF v
<1>6. read = OneMoreInt(two, h)
  <2> DEFINE ws == Octets(2)
  <2>1. ws \in Seq(Nat) /\ << B, B, h >> = Append(ws, h)
    <3>1. ws \in Seq(Nat)
      BY OctetsMore
    <3> HIDE DEF B, h
    <3>2. << B, B, h >> = Append(<< B, B >>, h)
      OBVIOUS
    <3> QED BY <1>5, <3>1, <3>2
  <2> HIDE DEF ws, h
  <2>2. Read(s, Append(ws, h)) = OneMoreInt(Read(s, ws), h)
    BY <1>1, <2>1, ReadMore
  <2> QED BY <2>1, <2>2 DEF ws
<1>7. int.value = 0 /\ AtByte(int.in, 2 + HeaderBytes)
  <2> DEFINE t == two.in
  <2>1. AtByte(t, 2) /\ \A k \in 1 .. HeaderBytes : bytes[2 + k] = 0
    BY <1>3, ParsingLies
  <2> HIDE DEF t
  <2>2. ReadInt(t, HeaderBytes * ByteBits).value = 0 /\ AtByte(ReadInt(t, HeaderBytes * ByteBits).in, 2 + HeaderBytes)
    BY <1>1, <1>2, <2>1, ZerosRead
  <2> QED BY <2>2 DEF t
<1> HIDE DEF two, int, h
<1>8. read.values = Append(two.values, int.value) /\ read.in = int.in /\ read.bits = two.bits + h
  BY <1>6, OneMoreIs DEF int
<1> HIDE DEF read
<1>9. read.values = << bytes[1], bytes[2], 0 >>
  <2> DEFINE x == bytes[1]
             y == bytes[2]
             S == {x, y, 0}
  <2>1. read.values = Append(<< x, y >>, 0)
    BY <1>3, <1>4, <1>7, <1>8
  <2>2. x \in S /\ y \in S /\ 0 \in S
    OBVIOUS
  <2> HIDE DEF x, y, S
  <2>3. << x, y, 0 >> = Append(<< x, y >>, 0)
    BY <2>2, Appends
  <2> QED BY <2>1, <2>3 DEF x, y
<1>10. read.values[1] = bytes[1] /\ read.values[2] = bytes[2] /\ Last(read.values) = 0
  BY <1>9 DEF Last
<1>11. bytes[1] = B - 1 /\ bytes[2] = g.intBytes * B - 1
  BY ParsingLies
<1> QED BY <1>3, <1>7, <1>8, <1>10, <1>11, Zenon DEF read, h

LEMMA PhraseRead ==
  ASSUME NEW g, IsParsing(g), bytes = ParsingBytes(g), ~trailed,
         NEW j \in Nat, j < Len(g.phrases), NEW s, AtByte(s, PhraseStart(g, j))
  PROVE  LET n    == g.intBytes
             ws   == << ByteBits >> \o [k \in 1 .. 2 * n |-> ByteBits]
             read == Read(s, ws)
             end  == PhraseStart(g, j + 1)
         IN  /\ read.values = BytesFrom(PhraseStart(g, j), PhraseSize(g))
             /\ Last(read.values) = Byte(end) /\ Last(ws) = ByteBits
             /\ AtByte(read.in, end) /\ read.bits = PhraseSize(g) * ByteBits
<1> DEFINE n == g.intBytes
           B == ByteBits
           ws == << B >> \o [k \in 1 .. 2 * n |-> B]
           size == PhraseSize(g)
           q == PhraseStart(g, j)
           end == PhraseStart(g, j + 1)
           v == BytesFrom(q, size)
           read == Read(s, Octets(size))
<1>1. PlainFile /\ n \in Nat \ {0} /\ size \in Nat /\ size = 2 * n + 1 /\ q \in Nat /\ end = q + size /\ B \in Nat
  BY ParsingLies, PhrasePlaces, Widths DEF IsParsing, PhraseSize
<1>2. read.values = v /\ AtByte(read.in, q + size) /\ read.bits = size * B
  <2> HIDE DEF size, q
  <2> QED BY <1>1, BytesRead DEF q
<1>3. ws = Octets(size) /\ Last(ws) = B
  <2> DEFINE m == 2 * n
             c == [k \in 1 .. m |-> B]
             o == Octets(size)
  <2>1. m \in Nat /\ size = m + 1
    BY <1>1
  <2>2. o \in Seq(Nat) /\ Len(o) = size /\ \A k \in 1 .. size : o[k] = B
    <3> HIDE DEF size, B
    <3>1. o \in Seq(Nat) /\ Len(o) = size
      BY <1>1, OctetsMore
    <3>2. \A k \in 1 .. size : o[k] = B
      BY DEF Octets, B
    <3> QED BY <3>1, <3>2
  <2> HIDE DEF B, m, o
  <2>3. c \in Seq(Nat) /\ Len(c) = m /\ \A k \in 1 .. m : c[k] = B
    BY <1>1, <2>1
  <2> HIDE DEF c, size
  <2>4. << B >> \o c \in Seq(Nat) /\ Len(<< B >> \o c) = size /\ \A k \in 1 .. size : (<< B >> \o c)[k] = B
    BY <1>1, <2>1, <2>3
  <2> DEFINE d == << B >> \o c
  <2> HIDE DEF d
  <2>5. d \in Seq(Nat) /\ Len(d) = size /\ \A k \in 1 .. size : d[k] = B
    BY <2>4 DEF d
  <2>6. d = o
    BY <2>2, <2>5, SeqEqual
  <2>7. size \in 1 .. size
    BY <2>1
  <2>8. Last(d) = B
    BY <2>5, <2>7 DEF Last
  <2> QED BY <2>6, <2>8 DEF d, c, m, o
<1>4. Last(v) = Byte(end)
  <2>1. v \in Seq(Nat) /\ Len(v) = size
    <3> HIDE DEF size, q
    <3> QED BY <1>1, BytesFromMore
  <2>2. size \in 1 .. size
    BY <1>1
  <2>3. v[size] = Byte(q + size)
    BY <2>2 DEF BytesFrom
  <2> HIDE DEF v
  <2> QED BY <1>1, <2>1, <2>3 DEF Last
<1> HIDE DEF read, v, ws
<1>5. LET r == Read(s, ws)
      IN  r.values = v /\ Last(r.values) = Byte(end) /\ AtByte(r.in, end) /\ r.bits = size * B
  <2>1. Read(s, ws) = read
    BY <1>3 DEF read
  <2> HIDE DEF end, size, B
  <2> QED BY <1>1, <1>2, <1>4, <2>1
<1> QED BY <1>3, <1>5, Zenon DEF ws, v

-----------------------------------------------------------------------------
(* The steps of lz::decode.                                                 *)

LEMMA AtByteStays ==
  ASSUME NEW s, NEW q, AtByte(s, q), UNCHANGED file
  PROVE  AtByte(s, q)'
<1>1. bytes' = bytes /\ trailed' = trailed
  BY DEF file
<1> QED BY <1>1 DEF AtByte, Shown, Byte, LastByteKept, InType

LEMMA MovesTo ==
  ASSUME NEW s, NEW q, AtByte(s, q), UNCHANGED file, in' = s, PhraseStart(given', Len(parsing')) = q
  PROVE  AtByte(in, PhraseStart(given, Len(parsing)))'
<1>1. AtByte(s, q)'
  BY AtByteStays
<1> QED BY <1>1

LEMMA StaysAt ==
  ASSUME NEW q, AtByte(in, q), UNCHANGED file, in' = in
  PROVE  AtByte(in, q)'
<1>1. bytes' = bytes /\ trailed' = trailed
  BY DEF file
<1> QED BY <1>1 DEF AtByte, Shown, Byte, LastByteKept, InType

LEMMA ParsingStays ==
  ASSUME ParsingState, UNCHANGED << file, given >>
  PROVE  /\ ~trailed' /\ IsParsing(given)' /\ bytes' = ParsingBytes(given)' /\ PlainContent'
         /\ given' = given /\ LastByteKept' = LastByteKept
         /\ \A k : Expected(k)' = Expected(k)
<1>1. bytes' = bytes /\ trailed' = trailed /\ content' = content /\ given' = given
  BY DEF file
<1>2. ~trailed /\ IsParsing(given) /\ bytes = ParsingBytes(given) /\ PlainContent
  BY DEF ParsingState
<1>3. LastByteKept' = LastByteKept
  BY <1>1 DEF LastByteKept
<1>4. ASSUME NEW k PROVE Expected(k)' = Expected(k)
  BY <1>1, <1>3 DEF Expected
<1>5. IsParsing(given)' /\ ParsingBytes(given)' = ParsingBytes(given) /\ PlainContent'
  <2>1. PlainContent'
    BY <1>1, <1>2 DEF PlainContent
  <2>2. IsParsing(given)'
    BY <1>1, <1>2
  <2>3. ParsingBytes(given)' = ParsingBytes(given)
    BY <1>1
  <2> QED BY <2>1, <2>2, <2>3
<1> QED BY <1>1, <1>2, <1>3, <1>4, <1>5

LEMMA RightValue ==
  ASSUME NEW p \in Nat, NEW n \in Nat, UNCHANGED file,
         bitsRead' = p + n, result' = [value |-> Value(content, p, n), width |-> n]
  PROVE  ResultRight'
<1>1. content' = content
  BY DEF file
<1>2. result'.width = n /\ result'.value = Value(content, p, n)
  <2> DEFINE x == Value(content, p, n)
  <2>1. result' = [value |-> x, width |-> n]
    OBVIOUS
  <2> HIDE DEF x
  <2>2. result'.width = n /\ result'.value = x
    BY <2>1
  <2> QED BY <2>2 DEF x
<1>3. SubSeq(content, (p + n) - n + 1, p + n) = Slice(content, p, n)
  BY SoughtIs
<1>4. n \in 0 .. (p + n)
  OBVIOUS
<1> QED BY <1>1, <1>2, <1>3, <1>4 DEF ResultRight, Value

LEMMA HeaderStart ==
  ASSUME NEW g, IsParsing(g)
  PROVE  /\ PhraseStart(g, 0) = 2 + HeaderBytes /\ HeaderBytes \in Nat \ {0}
         /\ Len(g.phrases) \in Nat
         /\ 2 + HeaderBytes <= PhraseStart(g, Len(g.phrases))
<1> DEFINE p == Len(g.phrases)
           size == PhraseSize(g)
           h == HeaderBytes
<1>1. p \in Nat /\ size \in Nat /\ h \in Nat \ {0}
  BY PhraseSeqIs, DecodersAssumption
<1>2. PhraseStart(g, 0) = 2 + h + 0 * size /\ PhraseStart(g, p) = 2 + h + p * size
  BY DEF PhraseStart, size, p, h
<1> HIDE DEF size, p, h
<1>3. 0 * size = 0 /\ p * size \in Nat
  BY <1>1
<1> DEFINE y == p * size
           z == 0 * size
<1> HIDE DEF y, z
<1>4. 2 + h + z = 2 + h /\ 2 + h <= 2 + h + y
  BY <1>1, <1>3 DEF y, z
<1> QED BY <1>1, <1>2, <1>4 DEF y, z, h, p

LEMMA ParsingHeaderKeeps == ASSUME ParsingState, ReadParsingHeader PROVE ParsingState'
<1> DEFINE B == ByteBits
           h == HeaderBytes * B
           ws == << B, B, h >>
           read == Read(in, ws)
           n == given.intBytes
           start == PhraseStart(given, 0)
<1>1. /\ ~trailed /\ IsParsing(given) /\ bytes = ParsingBytes(given) /\ PlainContent /\ ParsingSoFar
  BY DEF ParsingState
<1>2. /\ pc = "lzend" /\ Consume(read, ws) /\ pc' = "phrases"
      /\ header' = [charWidth |-> read.values[1] + 1, intBytes |-> (read.values[2] + 1) \div B]
      /\ UNCHANGED << file, given, rule, left, rules, parsing, sourceLen >>
  BY DEF ReadParsingHeader
<1>3. /\ parsing \in Seq(Phrases) /\ Len(parsing) = 0 /\ bitsRead = 0 /\ AtByte(in, 0)
      /\ sourceLen = TextLength(parsing) /\ Len(given.phrases) \in Nat
  BY <1>1, <1>2, HeaderStart DEF ParsingSoFar
<1>4. /\ read.values[1] = B - 1 /\ read.values[2] = n * B - 1 /\ Last(read.values) = 0
      /\ AtByte(read.in, 2 + HeaderBytes) /\ read.bits = 2 * B + h
  BY <1>1, <1>3, HeaderRead
<1>5. start = 2 + HeaderBytes /\ HeaderBytes \in Nat \ {0} /\ B \in Nat \ {0} /\ n \in Nat \ {0} /\ h \in Nat
  <2>1. HeaderBytes \in Nat \ {0} /\ B \in Nat \ {0} /\ n \in Nat \ {0}
    BY <1>1, HeaderStart, Widths DEF IsParsing
  <2> QED BY <1>1, <2>1, HeaderStart
<1>6. Last(ws) = h
  <2> HIDE DEF B, h
  <2> QED BY DEF Last
<1> HIDE DEF read, ws
<1>7. in' = read.in /\ bitsRead' = read.bits /\ result' = [value |-> 0, width |-> h]
  <2>1. in' = read.in /\ bitsRead' = bitsRead + read.bits /\ result' = [value |-> Last(read.values), width |-> Last(ws)]
    BY <1>2 DEF Consume
  <2>2. read.bits \in Nat
    BY <1>4, <1>5
  <2> HIDE DEF h
  <2> QED BY <1>3, <1>4, <1>6, <2>1, <2>2
<1>8. header' = [charWidth |-> B, intBytes |-> n]
  <2>1. (B - 1) + 1 = B /\ (n * B - 1) + 1 = n * B + 0
    BY <1>5
  <2>2. (n * B + 0) \div B = n
    <3>1. 0 \in 0 .. (B - 1)
      BY <1>5
    <3> HIDE DEF B, n
    <3> QED BY <1>5, <3>1, DivMod
  <2> HIDE DEF B, n
  <2> QED BY <1>2, <1>4, <2>1, <2>2
<1>9. bitsRead' = start * B /\ bitsRead' = 2 * B + h /\ 2 * B \in Nat
  <2>1. 2 * B + HeaderBytes * B = (2 + HeaderBytes) * B /\ 2 * B \in Nat
    BY <1>5
  <2> QED BY <1>4, <1>5, <1>7, <2>1
<1>10. ResultRight'
  <2>1. PlainFile /\ 2 + HeaderBytes <= Len(bytes) /\ \A k \in 1 .. HeaderBytes : bytes[2 + k] = 0
    <3>1. Len(bytes) = PhraseStart(given, Len(given.phrases))
      BY <1>1, ParsingLies
    <3>2. 2 + HeaderBytes <= PhraseStart(given, Len(given.phrases))
      BY <1>1, HeaderStart
    <3>3. 2 + HeaderBytes <= Len(bytes)
      BY <3>1, <3>2
    <3> QED BY <1>1, <3>3, ParsingLies
  <2>2. Value(content, 2 * B, h) = 0
    <3>1. 2 \in Nat /\ HeaderBytes \in Nat
      BY <1>5
    <3> QED BY <1>1, <2>1, <3>1, ZeroBytes
  <2> DEFINE p == 2 * B
  <2> HIDE DEF p, h
  <2>3. p \in Nat /\ h \in Nat /\ bitsRead' = p + h /\ UNCHANGED file /\ result' = [value |-> Value(content, p, h), width |-> h]
    BY <1>2, <1>5, <1>7, <1>9, <2>2 DEF p
  <2> QED BY <2>3, RightValue
<1>11. AtByte(in, PhraseStart(given, Len(parsing)))'
  <2> DEFINE s == read.in
  <2>1. in' = s /\ AtByte(s, start) /\ UNCHANGED file
    BY <1>2, <1>4, <1>5, <1>7
  <2>2. PhraseStart(given', Len(parsing')) = start
    BY <1>2, <1>3
  <2> HIDE DEF s, start
  <2> QED BY <2>1, <2>2, MovesTo
<1>12. ParsingSoFar'
  <2>1. /\ parsing' = parsing /\ given' = given /\ sourceLen' = sourceLen /\ pc' = "phrases"
        /\ PhraseStart(given', Len(parsing')) = start
    BY <1>2, <1>3
  <2>2. 0 \in 0 .. Len(given.phrases)
    BY <1>3
  <2> HIDE DEF start, B, n
  <2>3. Len(parsing') = 0 /\ parsing' \in Seq(Phrases) /\ sourceLen' = TextLength(parsing)'
    BY <1>3, <2>1
  <2>4. header' = [charWidth |-> ByteBits, intBytes |-> given'.intBytes]
    BY <1>8, <2>1 DEF B, n
  <2>5. bitsRead' = PhraseStart(given', Len(parsing')) * ByteBits
    BY <1>9, <2>1 DEF B
  <2> QED BY <1>11, <2>1, <2>2, <2>3, <2>4, <2>5 DEF ParsingSoFar
<1> QED BY <1>2, <1>10, <1>12, ParsingStays DEF ParsingState

(* There is a phrase to be read as long as eof does not say otherwise.     *)
LEMMA PhrasesLeft ==
  ASSUME ParsingState, pc = "phrases"
  PROVE  Eof(in) <=> Len(parsing) = Len(given.phrases)
<1> DEFINE j == Len(parsing)
           total == Len(given.phrases)
           q == PhraseStart(given, j)
           end == PhraseStart(given, total)
           size == PhraseSize(given)
<1>1. /\ IsParsing(given) /\ PlainFile /\ Len(bytes) = end /\ AtByte(in, q) /\ j \in 0 .. total /\ total \in Nat
  BY ParsingLies, PhraseSeqIs DEF ParsingState, ParsingSoFar
<1>2. CASE j = total
  <2>1. end \in Nat
    BY <1>1 DEF PlainFile
  <2>2. Eof(in)
    <3>1. q = end /\ q \in Nat /\ q >= Len(bytes)
      <4>1. q = end
        BY <1>2
      <4> HIDE DEF q, end
      <4> QED BY <1>1, <2>1, <4>1
    <3> HIDE DEF q
    <3> QED BY <1>1, <3>1, EofAt
  <2> QED BY <1>2, <2>2
<1>3. CASE j # total
  <2>1. j \in Nat /\ j < total
    BY <1>1, <1>3
  <2>2. size \in Nat /\ size > 2 /\ q \in Nat /\ end \in Nat /\ q + size <= end
    BY <1>1, <2>1, PhrasePlaces
  <2> HIDE DEF q, end, size
  <2>3. q + 2 <= Len(bytes)
    BY <1>1, <2>2
  <2>4. ~Eof(in)
    BY <1>1, <2>2, <2>3, EofAt
  <2> QED BY <1>3, <2>4
<1> QED BY <1>2, <1>3

LEMMA PhraseKeeps == ASSUME ParsingState, ReadPhrase PROVE ParsingState'
<1> DEFINE B == ByteBits
           n == given.intBytes
           j == Len(parsing)
           total == Len(given.phrases)
           f == given.phrases[j + 1]
           size == PhraseSize(given)
           q == PhraseStart(given, j)
           end == PhraseStart(given, j + 1)
           v == BytesFrom(q, size)
           ws == << B >> \o [k \in 1 .. 2 * n |-> B]
           read == Read(in, ws)
           e == Expected(j + 1)
           link == LittleEndian(SubSeq(v, 2, n + 1))
           len == LittleEndian(SubSeq(v, n + 2, 2 * n + 1))
<1>1. /\ ~trailed /\ IsParsing(given) /\ bytes = ParsingBytes(given) /\ PlainContent /\ ParsingSoFar
  BY DEF ParsingState
<1>2. pc = "phrases" /\ ~Eof(in) /\ pc' = pc /\ UNCHANGED << file, given, header, rule, left, rules >>
  BY DEF ReadPhrase
<1>3. /\ parsing \in Seq(Phrases) /\ j \in Nat /\ j < total /\ total \in Nat /\ j + 1 \in 1 .. total
      /\ j + 1 \in 0 .. total
      /\ (\A k \in 1 .. j : parsing[k] = Expected(k))
      /\ sourceLen = TextLength(parsing) /\ AtByte(in, q) /\ bitsRead = q * B
      /\ header = [charWidth |-> B, intBytes |-> n]
  <2>1. j \in 0 .. total /\ total \in Nat
    BY <1>1, PhraseSeqIs DEF ParsingSoFar
  <2>2. j # total
    BY <1>2, PhrasesLeft
  <2>3. j \in Nat /\ j < total /\ j + 1 \in 1 .. total /\ j + 1 \in 0 .. total
    BY <2>1, <2>2
  <2>4. /\ parsing \in Seq(Phrases) /\ (\A k \in 1 .. j : parsing[k] = Expected(k))
        /\ sourceLen = TextLength(parsing) /\ AtByte(in, q) /\ bitsRead = q * B
        /\ header = [charWidth |-> B, intBytes |-> n]
    BY <1>1, <1>2 DEF ParsingSoFar
  <2> QED BY <2>1, <2>3, <2>4
<1>4. header.charWidth = B /\ header.intBytes = n
  BY <1>3
<1>5. /\ read.values = v /\ Last(read.values) = Byte(end) /\ Last(ws) = B
      /\ AtByte(read.in, end) /\ read.bits = size * B
  BY <1>1, <1>3, PhraseRead
<1>6. /\ Consume(read, ws)
      /\ parsing' = Append(parsing, [char |-> v[1], link |-> IF len > 1 THEN link ELSE 0, len |-> len])
      /\ sourceLen' = sourceLen + len
  <2>1. LET m == header.intBytes
            us == << header.charWidth >> \o [k \in 1 .. 2 * m |-> B]
            r == Read(in, us)
            lk == LittleEndian(SubSeq(r.values, 2, m + 1))
            ln == LittleEndian(SubSeq(r.values, m + 2, 2 * m + 1))
        IN  /\ Consume(r, us)
            /\ parsing' = Append(parsing, [char |-> r.values[1], link |-> IF ln > 1 THEN lk ELSE 0, len |-> ln])
            /\ sourceLen' = sourceLen + ln
    BY Zenon DEF ReadPhrase
  <2>2. /\ Consume(read, ws)
        /\ parsing' = Append(parsing, [char |-> read.values[1],
             link |-> IF LittleEndian(SubSeq(read.values, n + 2, 2 * n + 1)) > 1
                      THEN LittleEndian(SubSeq(read.values, 2, n + 1)) ELSE 0,
             len |-> LittleEndian(SubSeq(read.values, n + 2, 2 * n + 1))])
        /\ sourceLen' = sourceLen + LittleEndian(SubSeq(read.values, n + 2, 2 * n + 1))
    <3> HIDE DEF n, B
    <3> QED BY <1>4, <2>1, Zenon
  <2> HIDE DEF read, ws, v
  <2> QED BY <1>5, <2>2
<1>7. /\ v[1] = f.char /\ link = f.link
      /\ len = IF j + 1 = total /\ ~LastByteKept THEN f.len % 2^(B * (n - 1)) ELSE f.len
  BY <1>1, <1>3, PhraseValues
<1> HIDE DEF link, len, v, read, ws
<1>8. /\ e = [char |-> f.char, link |-> IF len > 1 THEN f.link ELSE 0, len |-> len]
      /\ e \in Phrases /\ e.len = len
  <2> DEFINE l == IF j + 1 = total /\ ~LastByteKept THEN f.len % 2^(B * (n - 1)) ELSE f.len
  <2>1. /\ e = [char |-> f.char, link |-> IF l > 1 THEN f.link ELSE 0, len |-> l]
        /\ e \in Phrases /\ e.len = l
    BY <1>1, <1>3, ExpectedIs
  <2>2. len = l
    BY <1>7
  <2> HIDE DEF l, e, f
  <2> QED BY <2>1, <2>2
<1> HIDE DEF e
<1>9. parsing' = Append(parsing, e) /\ sourceLen' = sourceLen + e.len
  <2> HIDE DEF f
  <2> QED BY <1>6, <1>7, <1>8
<1> HIDE DEF f
<1>10. /\ parsing' \in Seq(Phrases) /\ Len(parsing') = j + 1
       /\ (\A k \in 1 .. (j + 1) : parsing'[k] = Expected(k))
       /\ sourceLen' = TextLength(parsing')
  <2>1. TextLength(Append(parsing, e)) = TextLength(parsing) + e.len
    BY <1>3, <1>8, TextLengthAppend
  <2>2. /\ Append(parsing, e) \in Seq(Phrases) /\ Len(Append(parsing, e)) = j + 1
        /\ Append(parsing, e)[j + 1] = e /\ \A k \in 1 .. j : Append(parsing, e)[k] = parsing[k]
    BY <1>3, <1>8
  <2>3. ASSUME NEW k \in 1 .. (j + 1) PROVE Append(parsing, e)[k] = Expected(k)
    <3>1. CASE k = j + 1
      BY <2>2, <3>1 DEF e
    <3>2. CASE k # j + 1
      <4>1. k \in 1 .. j
        BY <1>3, <3>2
      <4> QED BY <1>3, <2>2, <4>1
    <3> QED BY <3>1, <3>2
  <2> QED BY <1>3, <1>9, <2>1, <2>2, <2>3
<1>11. /\ size \in Nat /\ size > 2 /\ q \in Nat /\ end = q + size /\ B \in Nat \ {0}
       /\ end <= Len(bytes) /\ Len(bytes) \in Nat /\ PlainFile
  <2>1. B \in Nat \ {0} /\ Len(bytes) = PhraseStart(given, total) /\ PlainFile
    BY <1>1, Widths, ParsingLies
  <2>2. /\ size \in Nat /\ size > 2 /\ q \in Nat /\ end = q + size /\ q + size <= PhraseStart(given, total)
        /\ PhraseStart(given, total) \in Nat
    BY <1>1, <1>3, PhrasePlaces
  <2> HIDE DEF q, end, size, total, B
  <2> QED BY <2>1, <2>2
<1>12. in' = read.in /\ bitsRead' = bitsRead + read.bits /\ result' = [value |-> Byte(end), width |-> B]
  <2>1. result' = [value |-> Last(read.values), width |-> Last(ws)] /\ in' = read.in /\ bitsRead' = bitsRead + read.bits
    BY <1>6 DEF Consume
  <2> HIDE DEF B, end
  <2> QED BY <1>5, <2>1
<1> HIDE DEF q, end, size, B, total
<1>13. bitsRead' = end * B
  <2>1. q * B + size * B = (q + size) * B
    BY <1>11
  <2> QED BY <1>3, <1>5, <1>11, <1>12, <2>1
<1>14. ASSUME LastByteKept PROVE ResultRight'
  <2> DEFINE c == end - 1
  <2>1. c \in 0 .. (Len(bytes) - 1) /\ c + 1 = end /\ end \in 1 .. Len(bytes) /\ c \in Nat
    BY <1>11
  <2> HIDE DEF c
  <2>2. c * B \in Nat /\ Value(content, c * B, B) = bytes[end]
    BY <1>1, <1>11, <2>1, ContentOfBytes DEF B
  <2>3. Byte(end) = bytes[end]
    BY <1>14, <2>1 DEF Byte
  <2>4. bitsRead' = c * B + B
    <3>1. (c + 1) * B = c * B + B
      BY <1>11, <2>1
    <3> QED BY <1>13, <2>1, <3>1
  <2> DEFINE p == c * B
  <2> HIDE DEF p
  <2>5. p \in Nat /\ B \in Nat /\ bitsRead' = p + B /\ UNCHANGED file /\ result' = [value |-> Value(content, p, B), width |-> B]
    BY <1>2, <1>11, <1>12, <2>2, <2>3, <2>4 DEF p
  <2> QED BY <2>5, RightValue
<1>15. AtByte(in, PhraseStart(given, Len(parsing)))'
  <2> DEFINE s == read.in
  <2>1. in' = s /\ AtByte(s, end) /\ UNCHANGED file
    BY <1>2, <1>5, <1>12
  <2>2. PhraseStart(given', Len(parsing')) = end
    BY <1>2, <1>10 DEF end
  <2> HIDE DEF s
  <2> QED BY <2>1, <2>2, MovesTo
<1>16. ParsingSoFar'
  <2>1. given' = given /\ header' = header /\ pc' = "phrases" /\ PhraseStart(given', Len(parsing')) = end
    BY <1>2, <1>10 DEF end
  <2>2. Len(parsing') \in 0 .. Len(given'.phrases)
    BY <1>3, <1>10, <2>1 DEF total
  <2>3. \A k \in 1 .. Len(parsing') : parsing'[k] = Expected(k)'
    BY <1>2, <1>10, ParsingStays
  <2>4. header' = [charWidth |-> ByteBits, intBytes |-> given'.intBytes]
    BY <1>3, <2>1 DEF B
  <2>5. bitsRead' = PhraseStart(given', Len(parsing')) * ByteBits
    BY <1>13, <2>1 DEF B
  <2> QED BY <1>10, <1>15, <2>1, <2>2, <2>3, <2>4, <2>5 DEF ParsingSoFar
<1> QED BY <1>2, <1>14, <1>16, ParsingStays DEF ParsingState

(* A step that reads nothing and decodes nothing. *)
LEMMA ParsingQuiet ==
  ASSUME ParsingState, UNCHANGED << file, streamVars, given, decoded >>,
         \/ pc' = pc
         \/ pc = "phrases" /\ pc' = "done" /\ Len(parsing) = Len(given.phrases)
  PROVE  ParsingState'
<1> DEFINE q == PhraseStart(given, Len(parsing))
<1>1. /\ given' = given /\ header' = header /\ parsing' = parsing /\ sourceLen' = sourceLen
      /\ in' = in /\ bitsRead' = bitsRead /\ result' = result /\ content' = content /\ UNCHANGED file
  BY DEF decoded, streamVars, file
<1>2. /\ parsing \in Seq(Phrases) /\ Len(parsing) \in 0 .. Len(given.phrases)
      /\ (\A k \in 1 .. Len(parsing) : parsing[k] = Expected(k))
      /\ sourceLen = TextLength(parsing) /\ pc \in {"lzend", "phrases", "done"}
      /\ (pc = "lzend" => Len(parsing) = 0 /\ bitsRead = 0 /\ AtByte(in, 0))
      /\ (pc # "lzend" => /\ header = [charWidth |-> ByteBits, intBytes |-> given.intBytes]
                          /\ bitsRead = q * ByteBits /\ AtByte(in, q))
      /\ (pc = "done" => Len(parsing) = Len(given.phrases))
  BY DEF ParsingState, ParsingSoFar
<1>3. pc' = "lzend" <=> pc = "lzend"
  BY <1>2
<1>4. pc = "lzend" => AtByte(in, 0)'
  <2> SUFFICES ASSUME pc = "lzend" PROVE AtByte(in, 0)'
    OBVIOUS
  <2>1. AtByte(in, 0)
    BY <1>2
  <2> QED BY <1>1, <2>1, StaysAt
<1>5. pc # "lzend" => AtByte(in, PhraseStart(given, Len(parsing)))'
  <2> SUFFICES ASSUME pc # "lzend" PROVE AtByte(in, PhraseStart(given, Len(parsing)))'
    OBVIOUS
  <2>1. AtByte(in, q) /\ PhraseStart(given', Len(parsing')) = q
    BY <1>1, <1>2
  <2> DEFINE s == in
  <2>2. AtByte(s, q) /\ in' = s
    BY <1>1, <2>1
  <2> HIDE DEF q, s
  <2> QED BY <1>1, <2>1, <2>2, MovesTo
<1>6. ParsingSoFar'
  <2>1. \A k \in 1 .. Len(parsing') : parsing'[k] = Expected(k)'
    BY <1>1, <1>2, ParsingStays
  <2>2. PhraseStart(given', Len(parsing')) = q /\ TextLength(parsing') = TextLength(parsing)
    BY <1>1
  <2>3. pc' \in {"lzend", "phrases", "done"} /\ (pc' = "done" => Len(parsing') = Len(given'.phrases))
    BY <1>1, <1>2
  <2>4. pc' # "lzend" => /\ header' = [charWidth |-> ByteBits, intBytes |-> given'.intBytes]
                         /\ bitsRead' = PhraseStart(given', Len(parsing')) * ByteBits
    <3> HIDE DEF q
    <3> QED BY <1>1, <1>2, <1>3, <2>2
  <2>5. pc' = "lzend" => Len(parsing') = 0 /\ bitsRead' = 0
    BY <1>1, <1>2, <1>3
  <2>6. parsing' \in Seq(Phrases) /\ Len(parsing') \in 0 .. Len(given'.phrases) /\ sourceLen' = TextLength(parsing')
    BY <1>1, <1>2
  <2> QED BY <1>3, <1>4, <1>5, <2>1, <2>3, <2>4, <2>5, <2>6 DEF ParsingSoFar
<1>7. LastByteKept => ResultRight'
  <2> SUFFICES ASSUME LastByteKept PROVE ResultRight'
    OBVIOUS
  <2>1. ResultRight
    BY DEF ParsingState
  <2> QED BY <1>1, <2>1 DEF ResultRight
<1> QED BY <1>1, <1>6, <1>7, ParsingStays DEF ParsingState

LEMMA ParsingInit == ASSUME Init PROVE ParsingInv
<1> SUFFICES ASSUME given.kind = "lzend" PROVE ParsingState
  BY DEF ParsingInv
<1>1. /\ ~trailed /\ bytes = ParsingBytes(given) /\ PlainContent /\ pc = "lzend"
      /\ parsing = << >> /\ sourceLen = 0
      /\ in = Opened /\ bitsRead = 0 /\ result = [value |-> 0, width |-> 0]
  BY DEF Init, StreamInit, PlainContent
<1>2. IsParsing(given)
  <2>1. IsInput(given)
    BY DecodersAssumption DEF Init
  <2>2. /\ given.intBytes \in Nat \ {0}
        /\ ByteBits * given.intBytes <= LongestInt /\ ByteBits * given.intBytes <= 2^ByteBits
        /\ LET sizes == 2^(ByteBits * given.intBytes)
           IN  given.phrases \in Seq([char : 0 .. (2^ByteBits - 1), link : 0 .. (sizes - 1), len : 1 .. (sizes - 1)])
    BY <2>1, Zenon DEF IsInput
  <2> QED BY <2>2, Zenon DEF IsParsing, Octet
<1>3. PlainFile /\ Len(given.phrases) \in Nat
  BY <1>1, <1>2, ParsingLies, PhraseSeqIs
<1>4. AtByte(in, 0)
  BY <1>1, <1>3, FirstByte
<1>5. ResultRight
  <2>1. SubSeq(content, 0 - 0 + 1, 0) = << >>
    BY <1>1, <1>3, ContentOfBytes, EmptySeq
  <2>2. result.value = 0 /\ result.width = 0 /\ 0 \in 0 .. 0
    BY <1>1
  <2> QED BY <1>1, <2>1, <2>2, NumberEmpty DEF ResultRight
<1>6. ParsingSoFar
  <2>1. << >> \in Seq(Phrases) /\ Len(<< >>) = 0
    OBVIOUS
  <2>2. parsing \in Seq(Phrases) /\ Len(parsing) = 0 /\ sourceLen = TextLength(parsing)
    BY <1>1, <2>1, TextLengthNone
  <2>3. Len(parsing) \in 0 .. Len(given.phrases) /\ \A k \in 1 .. Len(parsing) : parsing[k] = Expected(k)
    BY <1>3, <2>2
  <2> QED BY <1>1, <1>4, <2>2, <2>3 DEF ParsingSoFar
<1> QED BY <1>1, <1>2, <1>5, <1>6 DEF ParsingState

LEMMA ParsingNext == ASSUME ParsingInv, [Next]_vars PROVE ParsingInv'
<1> SUFFICES ASSUME given'.kind = "lzend" PROVE ParsingState'
  BY DEF ParsingInv
<1>1. given' = given
  BY DEF Next, vars, TakeAny, Terminated, Decode, ReadGrammarHeader, ReadRuleLength, ReadSymbol, EndRule,
         EndRuleUndefined, EndGrammar, ReadParsingHeader, ReadPhrase, EndParsing
<1>2. ParsingState
  BY <1>1 DEF ParsingInv
<1>3. pc \in {"lzend", "phrases", "done"}
  BY <1>2 DEF ParsingState, ParsingSoFar
<1>4. CASE UNCHANGED vars
  <2>1. UNCHANGED << file, streamVars, given, decoded >> /\ pc' = pc
    BY <1>4 DEF vars
  <2> QED BY <1>2, <2>1, ParsingQuiet
<1>5. CASE \/ TakeAny \/ ReadGrammarHeader \/ ReadRuleLength \/ ReadSymbol \/ EndRule \/ EndRuleUndefined
           \/ EndGrammar
  BY <1>3, <1>5 DEF TakeAny, ReadGrammarHeader, ReadRuleLength, ReadSymbol, EndRule, EndRuleUndefined, EndGrammar
<1>6. CASE ReadParsingHeader
  BY <1>2, <1>6, ParsingHeaderKeeps
<1>7. CASE ReadPhrase
  BY <1>2, <1>7, PhraseKeeps
<1>8. CASE EndParsing
  <2>1. pc = "phrases" /\ Eof(in) /\ pc' = "done" /\ UNCHANGED << file, streamVars, given, decoded >>
    BY <1>8 DEF EndParsing
  <2>2. Len(parsing) = Len(given.phrases)
    BY <1>2, <2>1, PhrasesLeft
  <2> QED BY <1>2, <2>1, <2>2, ParsingQuiet
<1>9. CASE Terminated
  BY <1>4, <1>9 DEF Terminated
<1> QED BY <1>4, <1>5, <1>6, <1>7, <1>8, <1>9 DEF Next, Decode

(* What is decoded, and that the length of the text is lost with the last  *)
(* byte and not otherwise.                                                 *)
LEMMA SourceLength ==
  ASSUME ParsingState, Len(parsing) = Len(given.phrases)
  PROVE  sourceLen = TextLength(given.phrases) <=> LastByteKept
<1> DEFINE fs == given.phrases
           n == Len(fs)
           high == 2^(ByteBits * (given.intBytes - 1))
<1>1. /\ ~trailed /\ IsParsing(given) /\ bytes = ParsingBytes(given)
      /\ parsing \in Seq(Phrases) /\ Len(parsing) = n /\ sourceLen = TextLength(parsing) /\ n \in Nat
      /\ \A k \in 1 .. n : parsing[k] = Expected(k)
  BY PhraseSeqIs DEF ParsingState, ParsingSoFar
<1>2. ASSUME NEW k \in 1 .. n
      PROVE  /\ parsing[k].len = IF k = n /\ ~LastByteKept THEN fs[k].len % high ELSE fs[k].len
             /\ fs[k].len \in Nat /\ parsing[k].len \in Nat
  <2>1. parsing[k] = Expected(k)
    BY <1>1
  <2>2. /\ Expected(k).len = IF k = n /\ ~LastByteKept THEN fs[k].len % high ELSE fs[k].len
        /\ fs[k].len \in Nat /\ Expected(k) \in Phrases
    BY <1>1, ExpectedIs
  <2>3. Expected(k).len \in Nat
    BY <2>2 DEF Phrases
  <2> QED BY <2>1, <2>2, <2>3
<1> HIDE DEF high
<1>3. CASE LastByteKept
  <2>1. \A k \in 1 .. n : parsing[k].len = fs[k].len
    BY <1>2, <1>3
  <2>2. TextLength(parsing) = TextLength(fs)
    BY <1>1, <2>1, TextLengthSame
  <2> QED BY <1>1, <1>3, <2>2
<1>4. CASE ~LastByteKept
  <2>1. n \in Nat \ {0} /\ fs[n].len \in Nat /\ fs[n].len % high < fs[n].len
    BY <1>1, <1>4, LengthLost DEF high
  <2>2. PICK m \in Nat : n = m + 1
    <3>1. n - 1 \in Nat /\ n = (n - 1) + 1
      BY <2>1
    <3> QED BY <3>1
  <2> DEFINE s == SubSeq(parsing, 1, m)
             t == SubSeq(fs, 1, m)
             S == {fs[k] : k \in 1 .. n}
             a == parsing[m + 1]
             b == fs[m + 1]
  <2>3. s \in Seq(Phrases) /\ Len(s) = m /\ a \in Phrases /\ parsing = Append(s, a)
    BY <1>1, <2>2, LastOff
  <2>4. fs \in Seq(S)
    <3>1. fs \in Seq([char : Octet, link : 0 .. (2^(ByteBits * given.intBytes) - 1),
                      len : 1 .. (2^(ByteBits * given.intBytes) - 1)])
      BY <1>1 DEF IsParsing
    <3> DEFINE T == [char : Octet, link : 0 .. (2^(ByteBits * given.intBytes) - 1),
                     len : 1 .. (2^(ByteBits * given.intBytes) - 1)]
    <3> HIDE DEF T
    <3>2. fs \in Seq(T)
      BY <3>1 DEF T
    <3> QED BY <3>2
  <2>5. t \in Seq(S) /\ Len(t) = m /\ b \in S /\ fs = Append(t, b)
    <3> HIDE DEF S, fs
    <3> QED BY <2>2, <2>4, LastOff DEF n
  <2>6. \A k \in 1 .. m : s[k] = parsing[k] /\ t[k] = fs[k] /\ k \in 1 .. n /\ k # n
    <3>1. \A k \in 1 .. m : k \in 1 .. n /\ k # n
      BY <2>2
    <3>2. \A k \in 1 .. m : s[k] = parsing[k]
      BY <1>1, <2>2
    <3>3. \A k \in 1 .. m : t[k] = fs[k]
      <4> HIDE DEF S, fs
      <4> QED BY <2>2, <2>4 DEF n
    <3> QED BY <3>1, <3>2, <3>3
  <2>7. TextLength(s) = TextLength(t) /\ TextLength(s) \in Nat
    <3>1. \A k \in 1 .. m : s[k].len = t[k].len /\ s[k].len \in Nat
      BY <1>2, <2>6
    <3> HIDE DEF s, t
    <3>2. Len(s) \in Nat /\ Len(t) = Len(s) /\ \A k \in 1 .. Len(s) : s[k].len = t[k].len /\ s[k].len \in Nat
      BY <2>3, <2>5, <3>1
    <3> QED BY <3>2, TextLengthSame, TextLengthType
  <2> HIDE DEF s, t, a, b, S
  <2>8. TextLength(parsing) = TextLength(s) + a.len /\ TextLength(fs) = TextLength(t) + b.len
    <3>1. TextLength(Append(s, a)) = TextLength(s) + a.len
      BY <2>3, TextLengthAppend
    <3>2. TextLength(Append(t, b)) = TextLength(t) + b.len
      BY <2>5, TextLengthAppend
    <3> QED BY <2>3, <2>5, <3>1, <3>2
  <2>9. a.len \in Nat /\ b.len \in Nat /\ a.len < b.len
    <3>1. n \in 1 .. n
      BY <2>1
    <3>2. parsing[n].len = fs[n].len % high /\ parsing[n].len \in Nat
      BY <1>2, <1>4, <3>1
    <3> QED BY <2>1, <2>2, <3>2 DEF a, b
  <2> HIDE DEF fs, n
  <2>10. TextLength(parsing) # TextLength(fs)
    BY <2>7, <2>8, <2>9
  <2> QED BY <1>1, <1>4, <2>10 DEF fs
<1> QED BY <1>3, <1>4

LEMMA ParsingAlways == Spec => []ParsingInv
<1>1. Init => ParsingInv
  BY ParsingInit
<1>2. ParsingInv /\ [Next]_vars => ParsingInv'
  BY ParsingNext
<1> QED BY <1>1, <1>2, PTL DEF Spec

(***************************************************************************)
(* lz::decode finds the phrases of the file, one after the other, and      *)
(* nothing behind them, though the file has no trailer and eof is made for *)
(* one: the first n phrases decoded are the first n encoded, but that the  *)
(* link of a phrase of one character is 0, and that the last length loses  *)
(* its most significant byte if this looks like a trailer.  source_len is  *)
(* the length of the text if and only if that does not happen.             *)
(***************************************************************************)
THEOREM ParsingCorrectness == Spec => []ParsingDecoded
<1>1. ParsingInv => ParsingDecoded
  <2> SUFFICES ASSUME ParsingInv, given.kind = "lzend"
               PROVE  /\ Len(parsing) <= Len(given.phrases)
                      /\ \A k \in 1 .. Len(parsing) : parsing[k] = Expected(k)
                      /\ pc = "done" =>
                           /\ Len(parsing) = Len(given.phrases)
                           /\ sourceLen = TextLength(given.phrases) <=> LastByteKept
    BY DEF ParsingDecoded
  <2>1. ParsingState
    BY DEF ParsingInv
  <2>2. /\ Len(parsing) \in 0 .. Len(given.phrases) /\ Len(given.phrases) \in Nat
        /\ (\A k \in 1 .. Len(parsing) : parsing[k] = Expected(k))
        /\ (pc = "done" => Len(parsing) = Len(given.phrases))
    BY <2>1, PhraseSeqIs DEF ParsingState, ParsingSoFar
  <2>3. pc = "done" => (sourceLen = TextLength(given.phrases) <=> LastByteKept)
    BY <2>1, <2>2, SourceLength
  <2> QED BY <2>2, <2>3
<1> QED BY <1>1, ParsingAlways, PTL

(* The kinds of files. *)
GivenInv == given.kind \in {"bits", "missing", "grammar", "lzend"}

LEMMA GivenAlways == Spec => []GivenInv
<1>1. Init => GivenInv
  <2> SUFFICES ASSUME Init PROVE GivenInv
    OBVIOUS
  <2>1. IsInput(given)
    BY DecodersAssumption DEF Init
  <2> QED BY <2>1, Zenon DEF IsInput, GivenInv
<1>2. GivenInv /\ [Next]_vars => GivenInv'
  <2> SUFFICES ASSUME GivenInv, [Next]_vars PROVE GivenInv'
    OBVIOUS
  <2>1. given' = given
    BY DEF Next, vars, TakeAny, Terminated, Decode, ReadGrammarHeader, ReadRuleLength, ReadSymbol, EndRule,
           EndRuleUndefined, EndGrammar, ReadParsingHeader, ReadPhrase, EndParsing
  <2> QED BY <2>1 DEF GivenInv
<1> QED BY <1>1, <1>2, PTL DEF Spec

(***************************************************************************)
(* Every bit and every integer read of a file, in whichever order of the   *)
(* two and of whatever width, is what the file holds at that place, with a *)
(* trailer or without one (unless its last byte looks like one): no bit is *)
(* lost or read twice.                                                     *)
(***************************************************************************)
THEOREM ReadsCorrectness == Spec => []ReadsContent
<1>1. CoderInv /\ ParsingInv /\ GivenInv => ReadsContent
  <2> SUFFICES ASSUME CoderInv, ParsingInv, GivenInv PROVE ReadsContent
    OBVIOUS
  <2>1. CASE given.kind = "bits"
    BY <2>1, RightReads DEF CoderInv, BitsInv
  <2>2. CASE given.kind = "missing"
    BY <2>2 DEF CoderInv, MissingInv, ReadsContent
  <2>3. CASE given.kind = "grammar"
    BY <2>3, RightReads DEF CoderInv, GrammarInv, GrammarState
  <2>4. CASE given.kind = "lzend"
    <3>1. LastByteKept => ResultRight
      BY <2>4 DEF ParsingInv, ParsingState
    <3> QED BY <3>1, RightReads DEF ReadsContent
  <2> QED BY <2>1, <2>2, <2>3, <2>4 DEF GivenInv
<1> QED BY <1>1, CoderAlways, ParsingAlways, GivenAlways, PTL
=============================================================================
