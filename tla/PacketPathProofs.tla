-------------------------- MODULE PacketPathProofs --------------------------
(***************************************************************************)
(* The way of a packet, for words of any width, any traffic, any TCP       *)
(* options and any short list of skipped ports.                            *)
(*                                                                         *)
(* The library's induction theorems take an operator and cannot be         *)
(* instantiated here, but that every non-empty set of naturals has a least *)
(* element takes none: Induction below follows from it, and carries the    *)
(* proofs about what the recursive definitions compute.                    *)
(***************************************************************************)
EXTENDS PacketPath, SequenceTheorems, FiniteSetTheorems, TLAPS

\* A set of naturals that is not empty has a least element.
LEMMA Least ==
  ASSUME NEW T \in SUBSET Nat, T # {}
  PROVE  \E n \in T : \A m \in T : n <= m
<1> DEFINE R == OpToRel(<, Nat)
<1>1. IsWellFoundedOn(R, Nat)
  BY NatLessThanWellFounded
<1>2. \A m, n \in Nat : m < n => <<m, n>> \in R
  BY DEF OpToRel
<1> HIDE DEF R
<1>3. PICK n \in T : \A m \in T : ~ (<<m, n>> \in R)
  BY <1>1, WFMin
<1>4. ASSUME NEW m \in T PROVE n <= m
  <2>1. m \in Nat /\ n \in Nat /\ ~(m < n)
    BY <1>2, <1>3
  <2> QED BY <2>1
<1> QED BY <1>4

\* Induction, with the property as a set.
LEMMA Induction ==
  ASSUME NEW T \in SUBSET Nat, 0 \in T, \A n \in T : n + 1 \in T
  PROVE  T = Nat
<1> SUFFICES ASSUME Nat \ T # {} PROVE FALSE
  OBVIOUS
<1>1. PICK n \in Nat \ T : \A m \in Nat \ T : n <= m
  BY Least
<1>2. n # 0 /\ n - 1 \in Nat /\ ~(n <= n - 1)
  BY <1>1
<1>3. n - 1 \in T
  BY <1>1, <1>2
<1> QED BY <1>1, <1>2, <1>3

(***************************************************************************)
(* Words added with end-around carry: equality modulo Base - 1.            *)
(***************************************************************************)

\* a and b differ by a multiple of the modulus.
Cong(a, b) == \E q \in Int : a = b + q * (Base - 1)

\* The base is larger than the protocol numbers.
LEMMA BaseLarge == Base \in Int /\ Base > 17
BY PathAssumption DEF Base, Udp

\* Equal numbers, sums and differences of congruent numbers are congruent.
LEMMA CongEq ==
  ASSUME NEW a \in Int
  PROVE  Cong(a, a)
<1>1. a = a + 0 * (Base - 1)
  BY BaseLarge
<1> QED BY <1>1 DEF Cong

\* Congruences may be added,
LEMMA CongAdd ==
  ASSUME NEW a \in Int, NEW b \in Int, NEW c \in Int, NEW d \in Int, Cong(a, b), Cong(c, d)
  PROVE  Cong(a + c, b + d)
<1> DEFINE m == Base - 1
<1>1. m \in Int
  BY BaseLarge
<1>2. PICK q \in Int : a = b + q * m
  BY DEF Cong
<1>3. PICK r \in Int : c = d + r * m
  BY DEF Cong
<1> HIDE DEF m
<1>4. q * m \in Int /\ r * m \in Int /\ (q + r) * m = q * m + r * m
  BY <1>1
<1>5. a + c = b + d + (q + r) * m /\ q + r \in Int
  BY <1>2, <1>3, <1>4
<1> QED BY <1>5 DEF Cong, m

\* subtracted,
LEMMA CongSub ==
  ASSUME NEW a \in Int, NEW b \in Int, NEW c \in Int, NEW d \in Int, Cong(a, b), Cong(c, d)
  PROVE  Cong(a - c, b - d)
<1> DEFINE m == Base - 1
<1>1. m \in Int
  BY BaseLarge
<1>2. PICK q \in Int : a = b + q * m
  BY DEF Cong
<1>3. PICK r \in Int : c = d + r * m
  BY DEF Cong
<1> HIDE DEF m
<1>4. q * m \in Int /\ r * m \in Int /\ (q - r) * m = q * m - r * m
  BY <1>1
<1>5. a - c = b - d + (q - r) * m /\ q - r \in Int
  BY <1>2, <1>3, <1>4
<1> QED BY <1>5 DEF Cong, m

\* and put one after the other,
LEMMA CongTrans ==
  ASSUME NEW a \in Int, NEW b \in Int, NEW c \in Int, Cong(a, b), Cong(b, c)
  PROVE  Cong(a, c)
<1>1. Cong(a + b, b + c)
  BY CongAdd
<1>2. Cong(b, b)
  BY CongEq
<1>3. Cong(a + b - b, b + c - b)
  BY <1>1, <1>2, CongSub
<1> QED BY <1>3

\* and read from either side.
LEMMA CongSym ==
  ASSUME NEW a \in Int, NEW b \in Int, Cong(a, b)
  PROVE  Cong(b, a)
<1>1. Cong(a, a) /\ Cong(b, b)
  BY CongEq
<1>2. Cong(a - a, a - b)
  BY <1>1, CongSub
<1>3. Cong((a - a) + b, (a - b) + b)
  BY <1>1, <1>2, CongAdd
<1> QED BY <1>3

\* Division with remainder.
LEMMA DivMod ==
  ASSUME NEW m \in Int, m > 0, NEW v \in Int
  PROVE  v % m \in 0..(m - 1) /\ v \div m \in Int /\ v = m * (v \div m) + (v % m)
<1>1. v % m \in 0..(m - 1)
  OBVIOUS
<1>2. v \div m \in Int
  OBVIOUS
<1>3. v = m * (v \div m) + (v % m)
  OBVIOUS
<1> QED BY <1>1, <1>2, <1>3

\* A word's bytes are found again.
LEMMA WordBytes ==
  ASSUME NEW hi \in Byte, NEW lo \in Byte
  PROVE  /\ WordOf(hi, lo) \in Word
         /\ WordOf(hi, lo) \div Radix = hi /\ WordOf(hi, lo) % Radix = lo
<1>1. /\ Radix \in Nat /\ Radix > 0 /\ hi \in 0..(Radix - 1) /\ lo \in 0..(Radix - 1)
  BY PathAssumption DEF Byte
<1>2. (hi * Radix + lo) \div Radix = hi /\ (hi * Radix + lo) % Radix = lo
  BY <1>1
<1>3. hi * Radix + lo \in Nat /\ hi * Radix + lo <= Radix * Radix - 1
  <2>1. hi * Radix <= (Radix - 1) * Radix /\ hi * Radix \in Nat
    BY <1>1
  <2>2. (Radix - 1) * Radix = Radix * Radix - Radix /\ Radix * Radix \in Nat
    BY <1>1
  <2> QED BY <1>1, <2>1, <2>2
<1> QED BY <1>2, <1>3 DEF WordOf, Word, Base

\* A word is made of two bytes.
LEMMA BytesWord ==
  ASSUME NEW w \in Word
  PROVE  /\ w \div Radix \in Byte /\ w % Radix \in Byte
         /\ WordOf(w \div Radix, w % Radix) = w
<1>1. Radix \in Int /\ Radix > 0 /\ w \in Nat /\ w < Radix * Radix
  BY PathAssumption, BaseLarge DEF Word, Base
<1> DEFINE q == w \div Radix
           r == w % Radix
<1>2. r \in 0..(Radix - 1) /\ q \in Int /\ w = Radix * q + r
  BY <1>1, DivMod
<1> HIDE DEF q, r
<1>3. q * Radix = Radix * q
  BY <1>1, <1>2
<1>4. ~(q < 0)
  <2> SUFFICES ASSUME q <= -1 PROVE FALSE
    BY <1>2
  <2>1. Radix * q <= -Radix
    BY <1>1, <1>2
  <2> QED BY <1>1, <1>2, <2>1
<1>5. ~(q >= Radix)
  <2> SUFFICES ASSUME q >= Radix PROVE FALSE
    OBVIOUS
  <2>1. Radix * q >= Radix * Radix
    BY <1>1, <1>2
  <2> QED BY <1>1, <1>2, <2>1
<1> QED BY <1>1, <1>2, <1>3, <1>4, <1>5 DEF Byte, WordOf, q, r

\* Adding the carries back keeps a sum's class, and makes zero of zero only.
LEMMA EndAroundCong ==
  ASSUME NEW v \in Int
  PROVE  EndAround(v) \in 0..(Base - 1) /\ Cong(EndAround(v), v) /\ (v # 0 => EndAround(v) # 0)
<1> DEFINE m == Base - 1
           e == (v - 1) % m
           q == (v - 1) \div m
<1>1. m \in Int /\ m > 0
  BY BaseLarge
<1> HIDE DEF m
<1>2. /\ e \in Int /\ 0 <= e /\ e < m /\ q \in Int
      /\ v - 1 = m * q + e
  <2>1. v - 1 \in Int
    OBVIOUS
  <2>2. e \in 0..(m - 1) /\ q \in Int /\ v - 1 = m * q + e
    BY <1>1, <2>1, DivMod
  <2> HIDE DEF e, q
  <2> QED BY <1>1, <2>2
<1> HIDE DEF e, q
<1>3. CASE v = 0
  <2>1. EndAround(v) = 0
    BY <1>3 DEF EndAround
  <2>2. Cong(0, 0)
    BY CongEq
  <2> QED BY <1>1, <1>3, <2>1, <2>2 DEF m
<1>4. CASE v # 0
  <2>1. EndAround(v) = e + 1
    BY <1>4 DEF EndAround, e, m
  <2>2. -q \in Int /\ (-q) * m = -(m * q) /\ m * q \in Int
    BY <1>1, <1>2
  <2> DEFINE z == m * q
  <2>3. z \in Int /\ v - 1 = z + e /\ (-q) * m = -z
    BY <1>2, <2>2
  <2> HIDE DEF z
  <2>4. e + 1 = v + (-q) * m
    BY <1>2, <2>3
  <2> QED BY <1>1, <1>2, <2>1, <2>2, <2>4 DEF Cong, m
<1> QED BY <1>3, <1>4

\* A sum in the class of zero, other than zero, has all bits set.
LEMMA EndAroundFull ==
  ASSUME NEW v \in Int, v # 0, Cong(v, 0)
  PROVE  EndAround(v) = Base - 1
<1> DEFINE m == Base - 1
           e == EndAround(v)
<1>1. m \in Int /\ m > 0
  BY BaseLarge
<1>2. e \in 1..m /\ Cong(e, v)
  BY <1>1, EndAroundCong
<1> HIDE DEF e
<1>3. Cong(e, 0)
  BY <1>2, CongTrans
<1>4. PICK q \in Int : e = 0 + q * m
  BY <1>3 DEF Cong
<1> HIDE DEF m
<1>5. CASE q <= 0
  <2>1. q * m <= 0
    BY <1>1, <1>5
  <2> QED BY <1>1, <1>2, <1>4, <2>1
<1>6. CASE q >= 2
  <2>1. (q - 1) * m >= m /\ q * m = (q - 1) * m + m
    BY <1>1, <1>6
  <2> QED BY <1>1, <1>2, <1>4, <1>6, <2>1
<1>7. CASE q = 1
  BY <1>1, <1>4, <1>7 DEF e, m
<1> QED BY <1>5, <1>6, <1>7

\* The complement of a word is a word, and its negative.
LEMMA NotCong ==
  ASSUME NEW x \in Word
  PROVE  Not(x) \in Word /\ Cong(Not(x), 0 - x)
<1>1. x \in Int /\ Not(x) \in Word /\ Not(x) = (0 - x) + 1 * (Base - 1)
  BY BaseLarge DEF Not, Word
<1> QED BY <1>1 DEF Cong

(***************************************************************************)
(* What Total computes.                                                    *)
(***************************************************************************)

\* g holds the sums of the first words of w, up to the n-th.
Adds(g, w, n) == g[0] = 0 /\ \A k \in 1..n : g[k] = g[k - 1] + w[k]

\* The sums go on with one more word.
LEMMA SumsGrow ==
  ASSUME NEW w, NEW n \in Nat, NEW f \in [0..n -> Nat], Adds(f, w, n), w[n + 1] \in Nat
  PROVE  \E g \in [0..(n + 1) -> Nat] : Adds(g, w, n + 1)
<1> DEFINE g == [k \in 0..(n + 1) |-> IF k <= n THEN f[k] ELSE f[n] + w[n + 1]]
<1>1. g \in [0..(n + 1) -> Nat]
  OBVIOUS
<1>2. g[0] = 0
  BY DEF Adds
<1>3. ASSUME NEW k \in 1..(n + 1) PROVE g[k] = g[k - 1] + w[k]
  <2>1. CASE k <= n
    <3>1. f[k] = f[k - 1] + w[k]
      BY <2>1 DEF Adds
    <3> QED BY <2>1, <3>1
  <2>2. CASE k = n + 1
    BY <2>2
  <2> QED BY <2>1, <2>2
<1> HIDE DEF g
<1>4. Adds(g, w, n + 1)
  BY <1>2, <1>3 DEF Adds
<1> QED BY <1>1, <1>4

\* There are such sums.
LEMMA SumsExist ==
  ASSUME NEW w \in Seq(Nat)
  PROVE  \E g \in [0..Len(w) -> Nat] : Adds(g, w, Len(w))
<1> DEFINE Has(n) == \E g \in [0..n -> Nat] : Adds(g, w, n)
           T == {n \in Nat : n <= Len(w) => Has(n)}
<1>1. Has(0)
  <2>1. [k \in 0..0 |-> 0] \in [0..0 -> Nat] /\ Adds([k \in 0..0 |-> 0], w, 0)
    BY DEF Adds
  <2> QED BY <2>1
<1>2. ASSUME NEW n \in Nat, n + 1 <= Len(w), Has(n) PROVE Has(n + 1)
  <2>1. w[n + 1] \in Nat
    BY <1>2, ElementOfSeq
  <2> QED BY <1>2, <2>1, SumsGrow
<1> HIDE DEF Has
<1>3. 0 \in T /\ T \in SUBSET Nat
  BY <1>1
<1>4. ASSUME NEW n \in T PROVE n + 1 \in T
  BY <1>2
<1>5. T = Nat
  <2> HIDE DEF T
  <2> QED BY <1>3, <1>4, Induction
<1>6. Has(Len(w))
  BY <1>5
<1> QED BY <1>6 DEF Has

\* The sums are determined by the words.
LEMMA SumsUnique ==
  ASSUME NEW w, NEW n \in Nat, NEW f, NEW g, Adds(f, w, n), Adds(g, w, n)
  PROVE  f[n] = g[n]
<1> DEFINE T == {k \in Nat : k <= n => f[k] = g[k]}
<1>1. 0 \in T
  BY DEF Adds
<1>2. ASSUME NEW k \in T PROVE k + 1 \in T
  BY DEF Adds
<1>3. T = Nat
  <2>1. T \in SUBSET Nat
    OBVIOUS
  <2> HIDE DEF T
  <2> QED BY <1>1, <1>2, <2>1, Induction
<1> QED BY <1>3

\* Total is the last of the sums.
LEMMA TotalIs ==
  ASSUME NEW w \in Seq(Nat), NEW f, Adds(f, w, Len(w))
  PROVE  Total(w) = f[Len(w)]
<1> DEFINE n == Len(w)
           Obeys(g) == g = [k \in 0..n |-> IF k = 0 THEN 0 ELSE g[k - 1] + w[k]]
           sum == CHOOSE g : Obeys(g)
<1>1. n \in Nat
  OBVIOUS
<1>2. ASSUME NEW g, Obeys(g) PROVE Adds(g, w, n)
  <2>1. g[0] = 0
    BY <1>1, <1>2
  <2>2. ASSUME NEW k \in 1..n PROVE g[k] = g[k - 1] + w[k]
    <3>1. k \in 0..n /\ k # 0
      BY <1>1
    <3> QED BY <1>2, <3>1
  <2> QED BY <2>1, <2>2 DEF Adds
<1>3. PICK h \in [0..n -> Nat] : Adds(h, w, n)
  BY SumsExist
<1>4. Obeys(h)
  BY <1>1, <1>3 DEF Adds
<1>5. Obeys(sum)
  <2> HIDE DEF Obeys
  <2> QED BY <1>4
<1>6. Adds(sum, w, n)
  <2> HIDE DEF Obeys, sum
  <2> QED BY <1>2, <1>5
<1>7. Total(w) = sum[n]
  BY DEF Total
<1> HIDE DEF sum, n
<1> QED BY <1>1, <1>6, <1>7, SumsUnique DEF n

\* The total of words is a number.
LEMMA TotalNat ==
  ASSUME NEW w \in Seq(Nat)
  PROVE  Total(w) \in Nat
<1>1. PICK g \in [0..Len(w) -> Nat] : Adds(g, w, Len(w))
  BY SumsExist
<1> QED BY <1>1, TotalIs

\* w is u followed by v.
Joins(w, u, a, v, b) ==
  /\ \A k \in 1..b : v[k] \in Nat
  /\ \A k \in 1..(a + b) : w[k] = IF k <= a THEN u[k] ELSE v[k - a]

\* The first n words of w add up to s.
AddsUp(w, n, s) == \E g : Adds(g, w, n) /\ g[n] = s

\* Sums of one list, then of another.
LEMMA SumsConcat ==
  ASSUME NEW a \in Nat, NEW b \in Nat, NEW u, NEW v, NEW w,
         NEW f \in [0..a -> Nat], NEW h \in [0..b -> Nat], Adds(f, u, a), Adds(h, v, b),
         Joins(w, u, a, v, b)
  PROVE  AddsUp(w, a + b, f[a] + h[b])
<1> DEFINE g == [k \in 0..(a + b) |-> IF k <= a THEN f[k] ELSE f[a] + h[k - a]]
<1>1. g[0] = 0 /\ h[0] = 0
  BY DEF Adds
<1>2. ASSUME NEW k \in 1..(a + b) PROVE g[k] = g[k - 1] + w[k]
  <2>1. CASE k <= a
    <3>1. f[k] = f[k - 1] + u[k]
      BY <2>1 DEF Adds
    <3> QED BY <2>1, <3>1 DEF Joins
  <2>2. CASE k > a
    <3>1. k - a \in 1..b /\ k - a - 1 \in 0..b /\ f[a] \in Nat /\ v[k - a] \in Nat
      BY <2>2 DEF Joins
    <3>2. h[k - a] = h[k - a - 1] + v[k - a]
      BY <3>1 DEF Adds
    <3>3. g[k] = f[a] + h[k - a] /\ w[k] = v[k - a]
      BY <2>2 DEF Joins
    <3>4. g[k - 1] = f[a] + h[k - a - 1]
      <4>1. CASE k = a + 1
        BY <1>1, <3>1, <4>1
      <4>2. CASE k > a + 1
        BY <4>2
      <4> QED BY <2>2, <4>1, <4>2
    <3>5. h[k - a - 1] \in Nat
      BY <3>1
    <3> HIDE DEF g
    <3> QED BY <3>1, <3>2, <3>3, <3>4, <3>5
  <2> QED BY <2>1, <2>2
<1>3. g[a + b] = f[a] + h[b]
  <2>1. f[a] \in Nat
    OBVIOUS
  <2>2. CASE b = 0
    BY <1>1, <2>1, <2>2
  <2>3. CASE b # 0
    BY <2>3
  <2> QED BY <2>2, <2>3
<1> HIDE DEF g
<1>4. Adds(g, w, a + b)
  BY <1>1, <1>2 DEF Adds
<1> QED BY <1>3, <1>4 DEF AddsUp

\* Totals of parts add up.
LEMMA TotalConcat ==
  ASSUME NEW u \in Seq(Nat), NEW v \in Seq(Nat)
  PROVE  u \o v \in Seq(Nat) /\ Total(u \o v) = Total(u) + Total(v)
<1> DEFINE w == u \o v
           a == Len(u)
           b == Len(v)
<1>1. /\ w \in Seq(Nat) /\ Len(w) = a + b /\ a \in Nat /\ b \in Nat
      /\ \A k \in 1..(a + b) : w[k] = IF k <= a THEN u[k] ELSE v[k - a]
  BY ConcatProperties
<1>2. PICK f \in [0..a -> Nat] : Adds(f, u, a)
  BY SumsExist
<1>3. PICK h \in [0..b -> Nat] : Adds(h, v, b)
  BY SumsExist
<1>4. Joins(w, u, a, v, b)
  <2>1. \A k \in 1..b : v[k] \in Nat
    BY ElementOfSeq
  <2> HIDE DEF w, a, b
  <2> QED BY <1>1, <2>1 DEF Joins
<1>5. Total(u) = f[a] /\ Total(v) = h[b]
  BY <1>2, <1>3, TotalIs
<1> HIDE DEF w, a, b
<1>6. AddsUp(w, a + b, f[a] + h[b])
  <2>1. /\ a \in Nat /\ b \in Nat /\ f \in [0..a -> Nat] /\ h \in [0..b -> Nat]
        /\ Adds(f, u, a) /\ Adds(h, v, b)
    BY <1>1, <1>2, <1>3
  <2> QED BY ONLY <1>4, <2>1, SumsConcat
<1>7. PICK g : Adds(g, w, a + b) /\ g[a + b] = f[a] + h[b]
  BY <1>6 DEF AddsUp
<1>8. Total(w) = g[Len(w)]
  BY <1>1, <1>7, TotalIs
<1> QED BY <1>1, <1>5, <1>7, <1>8 DEF w

\* Another word at one place changes the total by the difference.
LEMMA TotalReplace ==
  ASSUME NEW u \in Seq(Nat), NEW v \in Seq(Nat), Len(v) = Len(u), NEW j \in 1..Len(u),
         \A k \in 1..Len(u) : k # j => v[k] = u[k]
  PROVE  Total(v) = Total(u) - u[j] + v[j]
<1>1. PICK f \in [0..Len(u) -> Nat] : Adds(f, u, Len(u))
  BY SumsExist
<1> DEFINE n == Len(u)
           d == v[j] - u[j]
           g == [k \in 0..n |-> IF k < j THEN f[k] ELSE f[k] + d]
<1>2. n \in Nat /\ j \in 1..n /\ u[j] \in Nat /\ v[j] \in Nat /\ d \in Int
  BY ElementOfSeq
<1>3. \A k \in 1..n : f[k] = f[k - 1] + u[k] /\ u[k] \in Nat /\ v[k] \in Nat
  BY <1>1, ElementOfSeq DEF Adds
<1>4. f \in [0..n -> Nat] /\ f[0] = 0 /\ \A k \in 1..n : k # j => v[k] = u[k]
  BY <1>1 DEF Adds
<1>5. v[j] = u[j] + d
  BY <1>2
<1> HIDE DEF n, d
<1>6. g[0] = 0
  BY <1>2, <1>4
<1>7. ASSUME NEW k \in 1..n PROVE g[k] = g[k - 1] + v[k]
  <2>1. k \in 0..n /\ k - 1 \in 0..n /\ j \in Nat /\ k \in Nat
    BY <1>2
  <2>2. f[k] = f[k - 1] + u[k] /\ f[k - 1] \in Nat /\ u[k] \in Nat /\ v[k] \in Nat
    BY <1>3, <1>4, <2>1
  <2>3. CASE k < j
    <3>1. g[k] = f[k] /\ g[k - 1] = f[k - 1] /\ v[k] = u[k]
      BY <1>4, <2>1, <2>3
    <3> QED BY <2>2, <3>1
  <2>4. CASE k = j
    <3>1. g[k] = f[k] + d /\ g[k - 1] = f[k - 1] /\ v[k] = u[k] + d
      BY <1>5, <2>1, <2>4
    <3>2. d \in Int
      BY <1>2
    <3> HIDE DEF g
    <3> QED BY ONLY <2>2, <3>1, <3>2
  <2>5. CASE k > j
    <3>1. g[k] = f[k] + d /\ g[k - 1] = f[k - 1] + d /\ v[k] = u[k]
      BY <1>4, <2>1, <2>5
    <3> HIDE DEF g
    <3> QED BY <1>2, <2>2, <3>1
  <2> QED BY <2>1, <2>3, <2>4, <2>5
<1>8. g[n] = f[n] + d /\ f[n] \in Nat
  BY <1>2, <1>4
<1> HIDE DEF g
<1>9. Adds(g, v, n)
  BY <1>6, <1>7 DEF Adds
<1>10. Total(v) = g[n]
  BY <1>9, TotalIs DEF n
<1>11. Total(u) = f[n]
  BY <1>1, TotalIs DEF n
<1> QED BY <1>2, <1>8, <1>10, <1>11, <1>5

\* Totals of short lists.
LEMMA TotalOne ==
  ASSUME NEW a \in Nat
  PROVE  <<a>> \in Seq(Nat) /\ Total(<<a>>) = a
<1> DEFINE g == [k \in 0..1 |-> IF k = 0 THEN 0 ELSE a]
<1>1. <<a>> \in Seq(Nat) /\ Len(<<a>>) = 1 /\ <<a>>[1] = a
  OBVIOUS
<1>2. Adds(g, <<a>>, 1)
  BY DEF Adds
<1>3. g[1] = a
  OBVIOUS
<1> HIDE DEF g
<1> QED BY <1>1, <1>2, <1>3, TotalIs

\* The total of two words.
LEMMA TotalTwo ==
  ASSUME NEW a \in Nat, NEW b \in Nat
  PROVE  <<a, b>> \in Seq(Nat) /\ Total(<<a, b>>) = a + b
<1> DEFINE g == [k \in 0..2 |-> IF k = 0 THEN 0 ELSE IF k = 1 THEN a ELSE a + b]
           w == <<a, b>>
<1>1. w \in Seq(Nat) /\ Len(w) = 2 /\ w[1] = a /\ w[2] = b
  OBVIOUS
<1>2. g[0] = 0 /\ g[1] = a /\ g[2] = a + b
  OBVIOUS
<1> HIDE DEF g, w
<1>3. Adds(g, w, 2)
  BY <1>1, <1>2 DEF Adds
<1>4. Total(w) = g[2]
  BY <1>1, <1>3, TotalIs
<1> QED BY <1>1, <1>2, <1>4 DEF w

\* The total of four words, as in a pseudo header.
LEMMA TotalFour ==
  ASSUME NEW a \in Nat, NEW b \in Nat, NEW c \in Nat, NEW d \in Nat
  PROVE  <<a, b, c, d>> \in Seq(Nat) /\ Total(<<a, b, c, d>>) = a + b + c + d
<1> DEFINE g == [k \in 0..4 |-> IF k = 0 THEN 0 ELSE IF k = 1 THEN a ELSE IF k = 2 THEN a + b
                                ELSE IF k = 3 THEN a + b + c ELSE a + b + c + d]
           w == <<a, b, c, d>>
<1>1. w \in Seq(Nat) /\ Len(w) = 4 /\ w[1] = a /\ w[2] = b /\ w[3] = c /\ w[4] = d
  OBVIOUS
<1>2. g[0] = 0 /\ g[1] = a /\ g[2] = a + b /\ g[3] = a + b + c /\ g[4] = a + b + c + d
  OBVIOUS
<1> HIDE DEF g, w
<1>3. Adds(g, w, 4)
  BY <1>1, <1>2 DEF Adds
<1>4. Total(w) = g[4]
  BY <1>1, <1>3, TotalIs
<1> QED BY <1>1, <1>2, <1>4 DEF w

(***************************************************************************)
(* Segments and their checksums.                                           *)
(***************************************************************************)

Segment == [sport : Word, dport : Word, sum : Word, opts : Seq(Byte), body : Word]

\* Words are numbers.
LEMMA WordNat == /\ \A x \in Word : x \in Nat /\ x \in Int
                 /\ \A x \in Byte : x \in Nat
                 /\ 0 \in Word /\ Tcp \in Word /\ Udp \in Word
BY BaseLarge, PathAssumption DEF Word, Byte, Tcp, Udp

\* The words of a list of bytes.
LEMMA WordsOfTyped ==
  ASSUME NEW o \in Seq(Byte)
  PROVE  /\ WordsOf(o) \in Seq(Nat) /\ Len(WordsOf(o)) = Len(o) \div 2
         /\ \A k \in 1..(Len(o) \div 2) :
              2 * k \in 1..Len(o) /\ 2 * k - 1 \in 1..Len(o)
              /\ WordsOf(o)[k] = WordOf(o[2 * k - 1], o[2 * k])
<1> DEFINE n == Len(o) \div 2
<1>1. Len(o) \in Nat /\ n \in Nat /\ 2 * n <= Len(o)
  OBVIOUS
<1> HIDE DEF n
<1>2. ASSUME NEW k \in 1..n
      PROVE  /\ 2 * k \in 1..Len(o) /\ 2 * k - 1 \in 1..Len(o)
             /\ WordOf(o[2 * k - 1], o[2 * k]) \in Nat
  <2>1. 2 * k \in 1..Len(o) /\ 2 * k - 1 \in 1..Len(o)
    BY <1>1
  <2>2. o[2 * k - 1] \in Byte /\ o[2 * k] \in Byte
    BY <2>1, ElementOfSeq
  <2>3. WordOf(o[2 * k - 1], o[2 * k]) \in Word
    BY <2>2, WordBytes
  <2> QED BY <2>1, <2>3, WordNat
<1>3. WordsOf(o) = [k \in 1..n |-> WordOf(o[2 * k - 1], o[2 * k])]
  BY DEF WordsOf, n
<1>4. WordsOf(o) \in [1..n -> Nat]
  BY <1>2, <1>3
<1>5. WordsOf(o) \in Seq(Nat) /\ Len(WordsOf(o)) = n
  BY <1>1, <1>4, SeqDef, LenProperties
<1> QED BY <1>2, <1>3, <1>5 DEF n

\* The length of a segment is a word.
LEMMA SegLenWord ==
  ASSUME NEW t \in Segment
  PROVE  SegLen(t) \in Word
<1> DEFINE n == 10 + Len(t.opts)
<1>1. n \in Int /\ Base \in Int /\ Base > 0
  BY BaseLarge DEF Segment
<1> HIDE DEF n
<1>2. n % Base \in 0..(Base - 1)
  BY <1>1, DivMod
<1> QED BY <1>2 DEF SegLen, Word, n

\* The sum over the words of a segment.
WordTotal(t) == t.sport + t.dport + SegLen(t) + t.sum + Total(WordsOf(t.opts)) + t.body

\* The words of a segment add up to the sum of its parts.
LEMMA SegWordsTotal ==
  ASSUME NEW t \in Segment
  PROVE  /\ SegWords(t) \in Seq(Nat) /\ Total(SegWords(t)) = WordTotal(t)
         /\ Total(SegWords(t)) \in Nat
<1> DEFINE a == t.sport
           b == t.dport
           c == SegLen(t)
           d == t.sum
           e == t.body
           w == WordsOf(t.opts)
<1>1. a \in Nat /\ b \in Nat /\ c \in Nat /\ d \in Nat /\ e \in Nat
  BY SegLenWord, WordNat DEF Segment
<1>2. w \in Seq(Nat)
  BY WordsOfTyped DEF Segment
<1>3. SegWords(t) = (<<a, b, c, d>> \o w) \o <<e>>
  BY DEF SegWords
<1>4. WordTotal(t) = a + b + c + d + Total(w) + e
  BY DEF WordTotal
<1> HIDE DEF a, b, c, d, e, w
<1>5. <<a, b, c, d>> \in Seq(Nat) /\ Total(<<a, b, c, d>>) = a + b + c + d
  BY <1>1, TotalFour
<1>6. <<e>> \in Seq(Nat) /\ Total(<<e>>) = e
  BY <1>1, TotalOne
<1>7. /\ <<a, b, c, d>> \o w \in Seq(Nat)
      /\ Total(<<a, b, c, d>> \o w) = a + b + c + d + Total(w)
  BY <1>2, <1>5, TotalConcat
<1>8. /\ SegWords(t) \in Seq(Nat)
      /\ Total(SegWords(t)) = a + b + c + d + Total(w) + e
  BY <1>3, <1>6, <1>7, TotalConcat
<1> QED BY <1>4, <1>8, TotalNat

\* The sum that the receiver of a segment forms, carries not added back.
SegTotal(proto, src, dst, t) == proto + src + dst + SegLen(t) + WordTotal(t)

\* A segment whose checksum is right.
Balanced(proto, src, dst, t) == Cong(SegTotal(proto, src, dst, t), 0)

\* The pseudo header adds addresses, protocol and length.
LEMMA PseudoCong ==
  ASSUME NEW proto \in Word, NEW src \in Word, NEW dst \in Word, NEW t \in Segment
  PROVE  /\ PseudoHeaderChecksum(proto, src, dst, t) \in Word
         /\ Cong(PseudoHeaderChecksum(proto, src, dst, t), proto + src + dst + SegLen(t))
         /\ proto # 0 => PseudoHeaderChecksum(proto, src, dst, t) # 0
<1> DEFINE c == SegLen(t)
           v == proto + src + dst + c
<1>1. proto \in Nat /\ src \in Nat /\ dst \in Nat /\ c \in Nat
  BY WordNat, SegLenWord
<1> HIDE DEF c
<1>2. Total(<<proto, src, dst, c>>) = v /\ v \in Nat /\ (proto # 0 => v # 0)
  BY <1>1, TotalFour
<1>3. PseudoHeaderChecksum(proto, src, dst, t) = EndAround(0 + Total(<<proto, src, dst, c>>))
  BY DEF PseudoHeaderChecksum, Checksum, c
<1> HIDE DEF v
<1>4. PseudoHeaderChecksum(proto, src, dst, t) = EndAround(v) /\ v \in Int
  BY <1>2, <1>3
<1>5. EndAround(v) \in Word /\ Cong(EndAround(v), v) /\ (v # 0 => EndAround(v) # 0)
  BY <1>4, EndAroundCong DEF Word
<1> QED BY <1>2, <1>4, <1>5 DEF v, c

\* What is added up before the carries are.
LEMMA ChecksumCong ==
  ASSUME NEW proto \in Word, NEW src \in Word, NEW dst \in Word, NEW t \in Segment
  PROVE  \E v \in Nat :
           /\ Checksum(SegWords(t), PseudoHeaderChecksum(proto, src, dst, t)) = EndAround(v)
           /\ Cong(v, SegTotal(proto, src, dst, t))
           /\ proto # 0 => v # 0
<1> DEFINE p == PseudoHeaderChecksum(proto, src, dst, t)
           w == Total(SegWords(t))
           h == proto + src + dst + SegLen(t)
<1>1. p \in Word /\ Cong(p, h) /\ (proto # 0 => p # 0)
  BY PseudoCong
<1>2. w \in Nat /\ w = WordTotal(t)
  BY SegWordsTotal
<1>3. h \in Int
  <2>1. SegLen(t) \in Nat /\ proto \in Nat /\ src \in Nat /\ dst \in Nat
    BY WordNat, SegLenWord
  <2> QED BY <2>1
<1>4. SegTotal(proto, src, dst, t) = h + w
  BY <1>2 DEF SegTotal
<1>5. Checksum(SegWords(t), p) = EndAround(p + w)
  BY DEF Checksum
<1> HIDE DEF p, w, h
<1>6. p \in Nat
  BY <1>1, WordNat
<1>7. Cong(w, w)
  BY <1>2, CongEq
<1>8. Cong(p + w, h + w)
  BY <1>1, <1>2, <1>3, <1>6, <1>7, CongAdd
<1>9. p + w \in Nat /\ (proto # 0 => p + w # 0)
  BY <1>1, <1>2, <1>6
<1> QED BY <1>4, <1>5, <1>8, <1>9 DEF p

\* A receiver accepts what is balanced.
LEMMA BalancedVerifies ==
  ASSUME NEW proto \in Word, NEW src \in Word, NEW dst \in Word, NEW t \in Segment,
         proto # 0, Balanced(proto, src, dst, t)
  PROVE  Checksum(SegWords(t), PseudoHeaderChecksum(proto, src, dst, t)) = Base - 1
<1>1. PICK v \in Nat : /\ Checksum(SegWords(t), PseudoHeaderChecksum(proto, src, dst, t)) = EndAround(v)
                       /\ Cong(v, SegTotal(proto, src, dst, t))
                       /\ v # 0
  BY ChecksumCong
<1>2. SegTotal(proto, src, dst, t) \in Int
  <2>1. SegLen(t) \in Nat /\ WordTotal(t) \in Nat /\ proto \in Nat /\ src \in Nat /\ dst \in Nat
    BY SegWordsTotal, WordNat, SegLenWord
  <2> QED BY <2>1 DEF SegTotal
<1>3. Cong(v, 0)
  BY <1>1, <1>2, CongTrans DEF Balanced
<1>4. EndAround(v) = Base - 1
  BY <1>1, <1>3, EndAroundFull
<1> QED BY <1>1, <1>4

\* Another checksum in the same segment.
LEMMA SumReplaced ==
  ASSUME NEW proto \in Word, NEW src \in Word, NEW dst \in Word, NEW t \in Segment, NEW x \in Word
  PROVE  /\ [t EXCEPT !.sum = x] \in Segment
         /\ SegTotal(proto, src, dst, [t EXCEPT !.sum = x]) = SegTotal(proto, src, dst, t) - t.sum + x
         /\ SegTotal(proto, src, dst, t) \in Int
<1> DEFINE u == [t EXCEPT !.sum = x]
<1>1. /\ u \in Segment /\ u.sum = x /\ u.sport = t.sport /\ u.dport = t.dport /\ u.opts = t.opts
      /\ u.body = t.body
  BY DEF Segment
<1> HIDE DEF u
<1>2. SegLen(u) = SegLen(t)
  BY <1>1 DEF SegLen
<1>3. /\ t.sport \in Int /\ t.dport \in Int /\ t.sum \in Int /\ t.body \in Int /\ x \in Int
      /\ proto \in Int /\ src \in Int /\ dst \in Int
  BY WordNat DEF Segment
<1>4. SegLen(t) \in Int
  BY SegLenWord, WordNat
<1>5. Total(WordsOf(t.opts)) \in Int
  BY WordsOfTyped, TotalNat DEF Segment
<1>6. SegTotal(proto, src, dst, u) = SegTotal(proto, src, dst, t) - t.sum + x
  BY <1>1, <1>2, <1>3, <1>4, <1>5 DEF SegTotal, WordTotal
<1>7. SegTotal(proto, src, dst, t) \in Int
  BY <1>3, <1>4, <1>5 DEF SegTotal, WordTotal
<1> QED BY <1>1, <1>6, <1>7 DEF u

\* The checksum that is computed over a segment balances it.
LEMMA SegSumBalances ==
  ASSUME NEW proto \in Word, NEW src \in Word, NEW dst \in Word, NEW t \in Segment
  PROVE  /\ SegSum(proto, src, dst, t) \in Word
         /\ [t EXCEPT !.sum = SegSum(proto, src, dst, t)] \in Segment
         /\ Balanced(proto, src, dst, [t EXCEPT !.sum = SegSum(proto, src, dst, t)])
<1> DEFINE u == [t EXCEPT !.sum = 0]
           s == SegTotal(proto, src, dst, u)
           c == Checksum(SegWords(u), PseudoHeaderChecksum(proto, src, dst, u))
           x == SegSum(proto, src, dst, t)
<1>1. u \in Segment /\ u.sum = 0 /\ s \in Int
  <2>1. u \in Segment /\ u.sum = 0
    BY WordNat DEF Segment
  <2> HIDE DEF u
  <2> QED BY <2>1, SumReplaced, WordNat
<1>2. x = Not(c)
  BY DEF SegSum, PseudoHeaderChecksum, SegLen
<1>3. [t EXCEPT !.sum = x] = [u EXCEPT !.sum = x]
  BY DEF Segment
<1> HIDE DEF u, x
<1>4. PICK v \in Nat : c = EndAround(v) /\ Cong(v, s)
  BY <1>1, ChecksumCong
<1> HIDE DEF c
<1>5. c \in Word /\ Cong(c, v) /\ c \in Int
  BY <1>4, EndAroundCong, WordNat DEF Word
<1> HIDE DEF s
<1>6. Cong(c, s)
  BY <1>1, <1>4, <1>5, CongTrans
<1>7. x \in Word /\ Cong(x, 0 - c) /\ x \in Int
  BY <1>2, <1>5, NotCong, WordNat
<1>8. Cong(s + x, 0)
  <2>1. Cong(s, c)
    BY <1>1, <1>5, <1>6, CongSym
  <2>2. Cong(s + x, c + (0 - c))
    BY <1>1, <1>5, <1>7, <2>1, CongAdd
  <2> QED BY <1>5, <2>2
<1>9. [u EXCEPT !.sum = x] \in Segment /\ SegTotal(proto, src, dst, [u EXCEPT !.sum = x]) = s - 0 + x
  BY <1>1, <1>7, SumReplaced DEF s
<1>10. SegTotal(proto, src, dst, [u EXCEPT !.sum = x]) = s + x
  BY <1>1, <1>7, <1>9
<1> QED BY <1>3, <1>7, <1>8, <1>9, <1>10 DEF Balanced, x

\* An IP packet whose checksums are right.
Right(p) == p.hsum = HdrSum(p) /\ Balanced(p.proto, p.src, p.dst, p.seg)

Packet == [proto : Word, src : Word, dst : Word, seg : Segment, hsum : Int]

\* A receiver accepts it.
LEMMA RightVerifies ==
  ASSUME NEW p \in Packet, p.proto # 0, Right(p)
  PROVE  Verifies(p)
<1>1. p.proto \in Word /\ p.src \in Word /\ p.dst \in Word /\ p.seg \in Segment
  BY DEF Packet
<1>2. Checksum(SegWords(p.seg), PseudoHeaderChecksum(p.proto, p.src, p.dst, p.seg)) = Base - 1
  BY <1>1, BalancedVerifies DEF Right
<1> QED BY <1>2 DEF Verifies, Right

\* The header of an IP packet is filled in with its own checksum.
LEMMA IPTyped ==
  ASSUME NEW proto \in Word, NEW src \in Word, NEW dst \in Word, NEW t \in Segment
  PROVE  LET p == IP(proto, src, dst, t) IN
         /\ p \in Packet /\ p.hsum = HdrSum(p)
         /\ p.proto = proto /\ p.src = src /\ p.dst = dst /\ p.seg = t
<1> DEFINE q == [proto |-> proto, src |-> src, dst |-> dst, seg |-> t, hsum |-> 0]
           x == HdrSum(q)
           p == [q EXCEPT !.hsum = x]
<1>1. x = Not(EndAround(0 + Total(<<proto, src, dst, SegLen(t)>>)))
  BY DEF HdrSum, Checksum
<1>2. SegLen(t) \in Nat /\ proto \in Nat /\ src \in Nat /\ dst \in Nat
  BY SegLenWord, WordNat
<1>3. Total(<<proto, src, dst, SegLen(t)>>) \in Nat
  BY <1>2, TotalFour, TotalNat
<1>4. x \in Int
  <2>1. EndAround(0 + Total(<<proto, src, dst, SegLen(t)>>)) \in Int
    BY <1>3, EndAroundCong
  <2> HIDE DEF x
  <2> QED BY <1>1, <2>1, BaseLarge DEF Not
<1>5. IP(proto, src, dst, t) = p
  BY DEF IP
<1>6. x = HdrSum(p)
  BY DEF HdrSum
<1> HIDE DEF x
<1>7. /\ p \in Packet /\ p.hsum = x
      /\ p.proto = proto /\ p.src = src /\ p.dst = dst /\ p.seg = t
  BY <1>4 DEF Packet
<1> QED BY <1>5, <1>6, <1>7

\* checksum.Server turns a sum that was computed without source address and port
\* into the one with the server's.
LEMMA ServerSumBalances ==
  ASSUME NEW proto \in Word, NEW dst \in Word, NEW t \in Segment, NEW port \in Word,
         Balanced(proto, Unspecified, dst, [t EXCEPT !.sport = 0])
  PROVE  ServerSum(t, port) \in Segment /\ Balanced(proto, ServerAddr, dst, ServerSum(t, port))
<1> DEFINE u == [t EXCEPT !.sport = 0]
           z == SegTotal(proto, Unspecified, dst, u)
           a == Checksum(<<ServerAddr>>, port)
           c == Combine(a, Not(t.sum))
           x == Not(c)
           r == [t EXCEPT !.sum = x, !.sport = port]
<1>1. /\ t.sum \in Word /\ t.sport \in Word /\ t.dport \in Word /\ t.body \in Word /\ t.opts \in Seq(Byte)
      /\ ServerAddr \in Word
  BY PathAssumption DEF Segment
<1>2. /\ t.sum \in Int /\ t.sport \in Int /\ t.dport \in Int /\ t.body \in Int
      /\ ServerAddr \in Nat /\ port \in Nat /\ proto \in Int /\ dst \in Int
  BY <1>1, WordNat
<1>3. SegLen(t) \in Int /\ Total(WordsOf(t.opts)) \in Int
  BY <1>1, SegLenWord, WordsOfTyped, TotalNat, WordNat
<1>4. /\ u.sport = 0 /\ u.dport = t.dport /\ u.sum = t.sum /\ u.opts = t.opts /\ u.body = t.body
      /\ SegLen(u) = SegLen(t)
  BY DEF Segment, SegLen
<1> HIDE DEF u
<1>5. z = proto + 0 + dst + SegLen(t) + (0 + t.dport + SegLen(t) + t.sum + Total(WordsOf(t.opts)) + t.body)
  BY <1>4 DEF SegTotal, WordTotal, Unspecified
<1>6. z \in Int /\ Cong(z, 0)
  BY <1>2, <1>3, <1>5 DEF Balanced, u
<1>7. a = EndAround(port + Total(<<ServerAddr>>)) /\ Total(<<ServerAddr>>) = ServerAddr
  BY <1>2, TotalOne DEF Checksum
<1> HIDE DEF z, a
<1>8. a \in Int /\ Cong(a, port + ServerAddr)
  <2>1. port + ServerAddr \in Int
    BY <1>2
  <2> QED BY <1>7, <2>1, EndAroundCong
<1>9. Not(t.sum) \in Int /\ Cong(Not(t.sum), 0 - t.sum)
  BY <1>1, NotCong, WordNat
<1>10. c \in Word /\ Cong(c, a + Not(t.sum))
  <2>1. a + Not(t.sum) \in Int
    BY <1>8, <1>9
  <2> QED BY <2>1, EndAroundCong DEF Combine, Word
<1> HIDE DEF c
<1>11. c \in Int /\ x \in Word /\ x \in Int /\ Cong(x, 0 - c)
  BY <1>10, NotCong, WordNat
<1> HIDE DEF x
<1>12. Cong(c, port + ServerAddr + (0 - t.sum))
  <2>1. Cong(a + Not(t.sum), port + ServerAddr + (0 - t.sum))
    BY <1>2, <1>8, <1>9, CongAdd
  <2>2. a + Not(t.sum) \in Int /\ port + ServerAddr + (0 - t.sum) \in Int
    BY <1>2, <1>8, <1>9
  <2> QED BY <1>10, <1>11, <2>1, <2>2, CongTrans
<1>13. Cong(x + c, 0)
  <2>1. Cong(c, c)
    BY <1>11, CongEq
  <2>2. Cong(x + c, (0 - c) + c)
    BY <1>11, <2>1, CongAdd
  <2> QED BY <1>11, <2>2
<1>14. /\ r \in Segment /\ r.sport = port /\ r.dport = t.dport /\ r.sum = x /\ r.opts = t.opts
       /\ r.body = t.body /\ SegLen(r) = SegLen(t)
  BY <1>11 DEF Segment, SegLen
<1>15. ServerSum(t, port) = r
  BY DEF ServerSum, x, c, a
<1> HIDE DEF r
<1>16. SegTotal(proto, ServerAddr, dst, r) = z - t.sum + port + ServerAddr + x
  <2>1. SegTotal(proto, ServerAddr, dst, r)
        = proto + ServerAddr + dst + SegLen(t) + (port + t.dport + SegLen(t) + x + Total(WordsOf(t.opts)) + t.body)
    BY <1>14 DEF SegTotal, WordTotal
  <2> QED BY <1>2, <1>3, <1>5, <1>11, <2>1
<1>17. Cong((z + (x + c)) - (c - (port + ServerAddr + (0 - t.sum))), 0)
  <2> DEFINE y == port + ServerAddr + (0 - t.sum)
  <2>1. y \in Int
    BY <1>2
  <2> HIDE DEF y
  <2>2. Cong(z + (x + c), 0 + 0)
    BY <1>6, <1>11, <1>13, CongAdd
  <2>3. Cong(y, y)
    BY <2>1, CongEq
  <2>4. Cong(c - y, y - y)
    BY <1>11, <1>12, <2>1, <2>3, CongSub DEF y
  <2>5. z + (x + c) \in Int /\ c - y \in Int /\ y - y = 0 /\ 0 + 0 = 0
    BY <1>6, <1>11, <2>1
  <2>6. Cong((z + (x + c)) - (c - y), 0 - 0)
    BY <2>2, <2>4, <2>5, CongSub
  <2> QED BY <2>6 DEF y
<1>18. (z + (x + c)) - (c - (port + ServerAddr + (0 - t.sum))) = z - t.sum + port + ServerAddr + x
  BY <1>2, <1>6, <1>11
<1> QED BY <1>14, <1>15, <1>16, <1>17, <1>18 DEF Balanced

(***************************************************************************)
(* UpdateTcpMssOption keeps the checksum right wherever the option lies.   *)
(***************************************************************************)

\* Another byte changes the word it lies in, and the total by that.
LEMMA ByteReplaced ==
  ASSUME NEW o \in Seq(Byte), NEW j \in 1..Len(o), NEW b \in Byte, NEW k \in 1..(Len(o) \div 2),
         j = 2 * k \/ j = 2 * k - 1
  PROVE  LET n == [o EXCEPT ![j] = b] IN
         /\ n \in Seq(Byte) /\ Len(n) = Len(o) /\ n[j] = b
         /\ \A h \in 1..Len(o) : h # j => n[h] = o[h]
         /\ \A h \in 1..(Len(o) \div 2) : h # k => WordsOf(n)[h] = WordsOf(o)[h]
         /\ Total(WordsOf(n)) = Total(WordsOf(o)) - WordsOf(o)[k] + WordsOf(n)[k]
<1> DEFINE n == [o EXCEPT ![j] = b]
           m == Len(o) \div 2
<1>1. /\ n \in Seq(Byte) /\ Len(n) = Len(o) /\ n[j] = b
      /\ \A h \in 1..Len(o) : h # j => n[h] = o[h]
  BY ExceptSeq
<1> HIDE DEF n
<1>2. /\ WordsOf(o) \in Seq(Nat) /\ Len(WordsOf(o)) = m
      /\ WordsOf(n) \in Seq(Nat) /\ Len(WordsOf(n)) = m
  BY <1>1, WordsOfTyped
<1>3. ASSUME NEW h \in 1..m, h # k PROVE WordsOf(n)[h] = WordsOf(o)[h]
  <2>1. /\ 2 * h \in 1..Len(o) /\ 2 * h - 1 \in 1..Len(o)
        /\ WordsOf(o)[h] = WordOf(o[2 * h - 1], o[2 * h])
        /\ WordsOf(n)[h] = WordOf(n[2 * h - 1], n[2 * h])
    BY <1>1, WordsOfTyped
  <2>2. 2 * h # j /\ 2 * h - 1 # j
    BY <1>3
  <2> QED BY <1>1, <2>1, <2>2
<1>4. Total(WordsOf(n)) = Total(WordsOf(o)) - WordsOf(o)[k] + WordsOf(n)[k]
  <2>1. k \in 1..Len(WordsOf(o)) /\ Len(WordsOf(n)) = Len(WordsOf(o))
    BY <1>2
  <2>2. \A h \in 1..Len(WordsOf(o)) : h # k => WordsOf(n)[h] = WordsOf(o)[h]
    BY <1>2, <1>3
  <2> QED BY <1>2, <2>1, <2>2, TotalReplace
<1> QED BY <1>1, <1>3, <1>4 DEF n

\* The checksum after the update, of a change from words that add up to a to
\* words that add up to b.
Updated(sum, a, b) == Not(Combine(Combine(Not(sum), Not(a)), b))

\* UpdateTcpMssOption's update changes the checksum by what the words change by,
\* modulo Base - 1.
LEMMA UpdatedCong ==
  ASSUME NEW s \in Word, NEW a \in Word, NEW b \in Word
  PROVE  Updated(s, a, b) \in Word /\ Cong(Updated(s, a, b), s + a - b)
<1> DEFINE c == Combine(Not(s), Not(a))
           d == Combine(c, b)
           x == Not(d)
<1>1. s \in Int /\ a \in Int /\ b \in Int
  BY WordNat
<1>2. /\ Not(s) \in Int /\ Cong(Not(s), 0 - s)
      /\ Not(a) \in Int /\ Cong(Not(a), 0 - a)
  BY NotCong, WordNat
<1>3. c \in Int /\ Cong(c, Not(s) + Not(a))
  <2>1. Not(s) + Not(a) \in Int
    BY <1>2
  <2> QED BY <2>1, EndAroundCong DEF Combine
<1>4. Cong(c, (0 - s) + (0 - a))
  <2>1. Cong(Not(s) + Not(a), (0 - s) + (0 - a))
    BY <1>1, <1>2, CongAdd
  <2>2. Not(s) + Not(a) \in Int /\ (0 - s) + (0 - a) \in Int
    BY <1>1, <1>2
  <2> HIDE DEF c
  <2> QED BY <1>3, <2>1, <2>2, CongTrans
<1> HIDE DEF c
<1>5. d \in Word /\ Cong(d, c + b)
  <2>1. c + b \in Int
    BY <1>1, <1>3
  <2> QED BY <2>1, EndAroundCong DEF Combine, Word
<1> HIDE DEF d
<1>6. d \in Int /\ x \in Word /\ x \in Int /\ Cong(x, 0 - d)
  BY <1>5, NotCong, WordNat
<1>7. Updated(s, a, b) = x
  BY DEF Updated, x, d, c
<1> HIDE DEF x
<1>8. Cong(d, (0 - s) + (0 - a) + b)
  <2>1. Cong(b, b)
    BY <1>1, CongEq
  <2>2. Cong(c + b, (0 - s) + (0 - a) + b)
    BY <1>1, <1>3, <1>4, <2>1, CongAdd
  <2>3. c + b \in Int /\ (0 - s) + (0 - a) + b \in Int
    BY <1>1, <1>3
  <2> QED BY <1>5, <1>6, <2>2, <2>3, CongTrans
<1>9. Cong(0 - d, s + a - b)
  <2>1. Cong(0, 0)
    BY CongEq
  <2>2. Cong(0 - d, 0 - ((0 - s) + (0 - a) + b))
    BY <1>1, <1>6, <1>8, <2>1, CongSub
  <2>3. 0 - ((0 - s) + (0 - a) + b) = s + a - b
    BY <1>1
  <2> QED BY <2>2, <2>3
<1>10. Cong(x, s + a - b)
  BY <1>1, <1>6, <1>9, CongTrans
<1> QED BY <1>6, <1>7, <1>10

\* Other options of the same length, and a checksum that makes up for them.
LEMMA OptsReplaced ==
  ASSUME NEW proto \in Word, NEW src \in Word, NEW dst \in Word, NEW t \in Segment,
         Balanced(proto, src, dst, t),
         NEW o \in Seq(Byte), Len(o) = Len(t.opts), NEW x \in Word, NEW a \in Int, NEW b \in Int,
         Total(WordsOf(o)) = Total(WordsOf(t.opts)) - a + b,
         Cong(x, t.sum + a - b)
  PROVE  LET u == [t EXCEPT !.opts = o, !.sum = x] IN
         u \in Segment /\ SegLen(u) = SegLen(t) /\ Balanced(proto, src, dst, u)
<1> DEFINE u == [t EXCEPT !.opts = o, !.sum = x]
           z == SegTotal(proto, src, dst, t)
           y == SegTotal(proto, src, dst, u)
           w == Total(WordsOf(t.opts))
           c == SegLen(t)
<1>1. /\ u \in Segment /\ u.sport = t.sport /\ u.dport = t.dport /\ u.body = t.body
      /\ u.opts = o /\ u.sum = x
  BY DEF Segment
<1> HIDE DEF u
<1>2. SegLen(u) = c
  BY <1>1 DEF SegLen
<1>3. /\ t.sport \in Int /\ t.dport \in Int /\ t.body \in Int /\ t.sum \in Int /\ x \in Int
      /\ proto \in Int /\ src \in Int /\ dst \in Int
  BY WordNat DEF Segment
<1>4. c \in Int /\ w \in Int
  BY SegLenWord, WordNat, WordsOfTyped, TotalNat DEF Segment
<1>5. z = proto + src + dst + c + (t.sport + t.dport + c + t.sum + w + t.body)
  BY DEF SegTotal, WordTotal
<1>6. y = proto + src + dst + c + (t.sport + t.dport + c + x + (w - a + b) + t.body)
  BY <1>1, <1>2 DEF SegTotal, WordTotal
<1>7. Cong(z, 0)
  BY DEF Balanced
<1> HIDE DEF z, y, w, c
<1>8. z \in Int /\ y \in Int /\ y = z + (x - (t.sum + a - b))
  <2>1. a \in Int /\ b \in Int
    OBVIOUS
  <2>2. z \in Int
    BY ONLY <1>3, <1>4, <1>5
  <2>3. y \in Int
    BY ONLY <1>3, <1>4, <1>6, <2>1
  <2> DEFINE r == proto + src + dst + c
             q == t.sport + t.dport + c
             e == t.sum
             f == t.body
  <2>4. r \in Int /\ q \in Int /\ e \in Int /\ f \in Int
    BY ONLY <1>3, <1>4
  <2>5. z = r + (q + e + w + f) /\ y = r + (q + x + (w - a + b) + f)
    BY ONLY <1>5, <1>6
  <2> HIDE DEF r, q, e, f
  <2>6. y = z + (x - (e + a - b))
    BY ONLY <1>3, <1>4, <2>1, <2>4, <2>5
  <2> QED BY <2>2, <2>3, <2>6 DEF e
<1>9. Cong(x - (t.sum + a - b), 0)
  <2> DEFINE v == t.sum + a - b
  <2>1. v \in Int
    BY <1>3
  <2> HIDE DEF v
  <2>2. Cong(v, v)
    BY <2>1, CongEq
  <2>3. Cong(x - v, v - v)
    BY <1>3, <2>1, <2>2, CongSub DEF v
  <2> QED BY <2>1, <2>3 DEF v
<1>10. Cong(y, 0 + 0)
  <2>1. x - (t.sum + a - b) \in Int
    BY <1>3
  <2> QED BY <1>7, <1>8, <1>9, <2>1, CongAdd
<1> QED BY <1>1, <1>2, <1>10 DEF Balanced, u, y, c

\* The two words an option of odd offset straddles.
Two(o, j) == Checksum(WordsOf(SubSeq(o, j + 2, j + 5)), 0)

\* The checksum of the straddled words is congruent to their sum.
LEMMA TwoCong ==
  ASSUME NEW o \in Seq(Byte), NEW j \in Nat, j + 5 <= Len(o)
  PROVE  Two(o, j) \in Word /\ Cong(Two(o, j), WordOf(o[j + 2], o[j + 3]) + WordOf(o[j + 4], o[j + 5]))
<1> DEFINE s == SubSeq(o, j + 2, j + 5)
           w == WordsOf(s)
           a == WordOf(o[j + 2], o[j + 3])
           b == WordOf(o[j + 4], o[j + 5])
<1>1. /\ j + 2 \in 1..Len(o) /\ j + 3 \in 1..Len(o) /\ j + 4 \in 1..Len(o) /\ j + 5 \in 1..Len(o)
      /\ Len(o) \in Nat
  OBVIOUS
<1>2. /\ s \in Seq(Byte) /\ Len(s) = 4
      /\ s[1] = o[j + 2] /\ s[2] = o[j + 3] /\ s[3] = o[j + 4] /\ s[4] = o[j + 5]
  <2>1. \A k \in (j + 2)..(j + 5) : o[k] \in Byte
    BY <1>1, ElementOfSeq
  <2> DEFINE x == j + 2
             y == j + 5
  <2>2. x \in Int /\ y \in Int /\ x \in 1..Len(o) /\ y \in 1..Len(o)
    BY <1>1
  <2> HIDE DEF x, y
  <2>3. /\ SubSeq(o, x, y) \in Seq(Byte)
        /\ Len(SubSeq(o, x, y)) = IF x <= y THEN y - x + 1 ELSE 0
        /\ \A k \in 1..(y - x + 1) : SubSeq(o, x, y)[k] = o[x + k - 1]
    BY <2>2, <2>1, SubSeqProperties DEF x, y
  <2>4. y - x + 1 = 4 /\ x <= y /\ s = SubSeq(o, x, y) /\ x = j + 2
    BY DEF x, y
  <2> HIDE DEF s
  <2>5. s \in Seq(Byte) /\ Len(s) = 4 /\ \A k \in 1..4 : s[k] = o[(j + 2) + k - 1]
    BY <2>3, <2>4
  <2>6. /\ s[1] = o[(j + 2) + 1 - 1] /\ s[2] = o[(j + 2) + 2 - 1]
        /\ s[3] = o[(j + 2) + 3 - 1] /\ s[4] = o[(j + 2) + 4 - 1]
    <3>1. 1 \in 1..4 /\ 2 \in 1..4 /\ 3 \in 1..4 /\ 4 \in 1..4
      OBVIOUS
    <3> QED BY ONLY <2>5, <3>1
  <2>7. /\ (j + 2) + 1 - 1 = j + 2 /\ (j + 2) + 2 - 1 = j + 3
        /\ (j + 2) + 3 - 1 = j + 4 /\ (j + 2) + 4 - 1 = j + 5
    OBVIOUS
  <2> QED BY <2>6, <2>7, <2>5
<1> HIDE DEF s
<1>3. /\ w \in Seq(Nat) /\ Len(w) = 2
      /\ w[1] = WordOf(s[1], s[2]) /\ w[2] = WordOf(s[3], s[4])
  <2>1. Len(s) \div 2 = 2
    BY <1>2
  <2>2. /\ w \in Seq(Nat) /\ Len(w) = 2
        /\ \A k \in 1..2 : w[k] = WordOf(s[2 * k - 1], s[2 * k])
    BY <1>2, <2>1, WordsOfTyped
  <2>3. 2 * 1 - 1 = 1 /\ 2 * 1 = 2 /\ 2 * 2 - 1 = 3 /\ 2 * 2 = 4
    OBVIOUS
  <2> HIDE DEF w
  <2> QED BY <2>2, <2>3
<1>4. a \in Nat /\ b \in Nat
  <2>1. o[j + 2] \in Byte /\ o[j + 3] \in Byte /\ o[j + 4] \in Byte /\ o[j + 5] \in Byte
    BY <1>1, ElementOfSeq
  <2> QED BY <2>1, WordBytes, WordNat
<1>5. w[1] = a /\ w[2] = b
  BY <1>2, <1>3
<1> HIDE DEF w, a, b
<1>6. w = <<a, b>>
  <2>1. <<a, b>> \in Seq(Nat) /\ Len(<<a, b>>) = 2 /\ <<a, b>>[1] = a /\ <<a, b>>[2] = b
    BY <1>4
  <2> QED BY <1>3, <1>5, <2>1, SeqEqual
<1>7. Total(w) = a + b
  BY <1>4, <1>6, TotalTwo
<1>8. Two(o, j) = EndAround(0 + Total(w))
  BY DEF Two, Checksum, w, s
<1>9. Two(o, j) = EndAround(a + b) /\ a + b \in Int
  BY <1>4, <1>7, <1>8
<1> QED BY <1>9, EndAroundCong DEF Word, a, b

\* What the update writes: the two bytes of the new value.
Written(o, j, v) == [o EXCEPT ![j + 3] = v \div Radix, ![j + 4] = v % Radix]

\* Writing the new value changes the total of the words by one word if the offset
\* is even, and by the two words it straddles if it is odd.
LEMMA MssBytes ==
  ASSUME NEW o \in Seq(Byte), NEW j \in Nat, j + 4 <= Len(o), NEW v \in Word
  PROVE  LET n == Written(o, j, v) IN
         /\ n \in Seq(Byte) /\ Len(n) = Len(o) /\ WordOf(n[j + 3], n[j + 4]) = v
         /\ \A h \in 1..Len(o) : h \notin {j + 3, j + 4} => n[h] = o[h]
         /\ j % 2 = 0 => Total(WordsOf(n)) = Total(WordsOf(o)) - WordOf(o[j + 3], o[j + 4]) + v
         /\ j % 2 # 0 /\ j + 5 <= Len(o) =>
              Total(WordsOf(n)) = Total(WordsOf(o))
                                  - (WordOf(o[j + 2], o[j + 3]) + WordOf(o[j + 4], o[j + 5]))
                                  + (WordOf(n[j + 2], n[j + 3]) + WordOf(n[j + 4], n[j + 5]))
<1> DEFINE hi == v \div Radix
           lo == v % Radix
           m == [o EXCEPT ![j + 3] = hi]
           n == [m EXCEPT ![j + 4] = lo]
<1>1. hi \in Byte /\ lo \in Byte /\ WordOf(hi, lo) = v
  BY BytesWord
<1>2. j + 3 \in 1..Len(o) /\ j + 4 \in 1..Len(o) /\ Len(o) \in Nat
  OBVIOUS
<1>3. Written(o, j, v) = n
  BY DEF Written
<1> HIDE DEF hi, lo
<1>4. /\ m \in Seq(Byte) /\ Len(m) = Len(o) /\ m[j + 3] = hi
      /\ \A h \in 1..Len(o) : h # j + 3 => m[h] = o[h]
  BY <1>1, <1>2, ExceptSeq
<1> HIDE DEF m
<1>5. /\ n \in Seq(Byte) /\ Len(n) = Len(o) /\ n[j + 4] = lo
      /\ \A h \in 1..Len(o) : h # j + 4 => n[h] = m[h]
  BY <1>1, <1>2, <1>4, ExceptSeq
<1>6. n[j + 3] = hi /\ \A h \in 1..Len(o) : h \notin {j + 3, j + 4} => n[h] = o[h]
  <2> HIDE DEF n
  <2> QED BY <1>2, <1>4, <1>5
<1>7. ASSUME j % 2 = 0
      PROVE  Total(WordsOf(n)) = Total(WordsOf(o)) - WordOf(o[j + 3], o[j + 4]) + v
  <2> DEFINE k == j \div 2 + 2
  <2>1. k \in 1..(Len(o) \div 2) /\ j + 3 = 2 * k - 1 /\ j + 4 = 2 * k
    BY <1>2, <1>7
  <2> HIDE DEF k
  <2>2. Total(WordsOf(m)) = Total(WordsOf(o)) - WordsOf(o)[k] + WordsOf(m)[k]
    BY <1>1, <1>2, <2>1, ByteReplaced DEF m
  <2>3. Total(WordsOf(n)) = Total(WordsOf(m)) - WordsOf(m)[k] + WordsOf(n)[k]
    BY <1>1, <1>2, <1>4, <2>1, ByteReplaced
  <2> HIDE DEF n
  <2>4. /\ WordsOf(o)[k] = WordOf(o[j + 3], o[j + 4])
        /\ WordsOf(n)[k] = WordOf(n[j + 3], n[j + 4])
    <3>1. \A h \in 1..(Len(o) \div 2) : /\ WordsOf(o)[h] = WordOf(o[2 * h - 1], o[2 * h])
                                         /\ WordsOf(n)[h] = WordOf(n[2 * h - 1], n[2 * h])
      BY <1>5, WordsOfTyped
    <3> QED BY <2>1, <3>1
  <2>5. WordsOf(n)[k] = v
    BY <1>1, <1>5, <1>6, <2>4
  <2>6. /\ WordsOf(o) \in Seq(Nat) /\ Len(WordsOf(o)) = Len(o) \div 2
        /\ WordsOf(m) \in Seq(Nat) /\ Len(WordsOf(m)) = Len(o) \div 2
    BY <1>4, WordsOfTyped
  <2>7. WordsOf(o)[k] \in Nat /\ WordsOf(m)[k] \in Nat /\ v \in Nat
    BY <2>1, <2>6, ElementOfSeq, WordNat
  <2>8. Total(WordsOf(o)) \in Int /\ Total(WordsOf(m)) \in Int
    BY <2>6, TotalNat
  <2> QED BY <2>2, <2>3, <2>4, <2>5, <2>7, <2>8
<1>8. ASSUME j % 2 # 0, j + 5 <= Len(o)
      PROVE  Total(WordsOf(n)) = Total(WordsOf(o))
                                 - (WordOf(o[j + 2], o[j + 3]) + WordOf(o[j + 4], o[j + 5]))
                                 + (WordOf(n[j + 2], n[j + 3]) + WordOf(n[j + 4], n[j + 5]))
  <2> DEFINE k == (j + 3) \div 2
             l == k + 1
  <2>1. /\ k \in 1..(Len(o) \div 2) /\ j + 3 = 2 * k /\ j + 2 = 2 * k - 1
        /\ l \in 1..(Len(o) \div 2) /\ j + 4 = 2 * l - 1 /\ j + 5 = 2 * l /\ k # l
    BY <1>2, <1>8
  <2> HIDE DEF k, l
  <2>2. /\ Total(WordsOf(m)) = Total(WordsOf(o)) - WordsOf(o)[k] + WordsOf(m)[k]
        /\ WordsOf(m)[l] = WordsOf(o)[l]
    BY <1>1, <1>2, <2>1, ByteReplaced DEF m
  <2>3. /\ Total(WordsOf(n)) = Total(WordsOf(m)) - WordsOf(m)[l] + WordsOf(n)[l]
        /\ WordsOf(n)[k] = WordsOf(m)[k]
    BY <1>1, <1>2, <1>4, <2>1, ByteReplaced
  <2> HIDE DEF n
  <2>4. /\ WordsOf(o)[k] = WordOf(o[j + 2], o[j + 3]) /\ WordsOf(o)[l] = WordOf(o[j + 4], o[j + 5])
        /\ WordsOf(n)[k] = WordOf(n[j + 2], n[j + 3]) /\ WordsOf(n)[l] = WordOf(n[j + 4], n[j + 5])
    <3>1. \A h \in 1..(Len(o) \div 2) : /\ WordsOf(o)[h] = WordOf(o[2 * h - 1], o[2 * h])
                                         /\ WordsOf(n)[h] = WordOf(n[2 * h - 1], n[2 * h])
      BY <1>5, WordsOfTyped
    <3> QED BY <2>1, <3>1
  <2>5. /\ WordsOf(o) \in Seq(Nat) /\ Len(WordsOf(o)) = Len(o) \div 2
        /\ WordsOf(n) \in Seq(Nat) /\ Len(WordsOf(n)) = Len(o) \div 2
    BY <1>5, WordsOfTyped
  <2>6. /\ WordsOf(o)[k] \in Int /\ WordsOf(o)[l] \in Int
        /\ WordsOf(n)[k] \in Int /\ WordsOf(n)[l] \in Int
    BY <2>1, <2>5, ElementOfSeq
  <2>7. Total(WordsOf(o)) \in Int
    BY <2>5, TotalNat
  <2>8. Total(WordsOf(n)) = Total(WordsOf(o)) - (WordsOf(o)[k] + WordsOf(o)[l]) + (WordsOf(n)[k] + WordsOf(n)[l])
    BY ONLY <2>2, <2>3, <2>6, <2>7
  <2> QED BY <2>4, <2>8
<1> HIDE DEF n
<1> QED BY <1>1, <1>3, <1>5, <1>6, <1>7, <1>8

\* A congruence survives a sum and a difference.
LEMMA CongShift ==
  ASSUME NEW s \in Int, NEW a \in Int, NEW b \in Int, NEW c \in Int, NEW d \in Int,
         Cong(c, a), Cong(d, b)
  PROVE  Cong(s + c - d, s + a - b)
<1>1. Cong(s, s)
  BY CongEq
<1>2. Cong(s + c, s + a)
  BY <1>1, CongAdd
<1>3. s + c \in Int /\ s + a \in Int
  OBVIOUS
<1> QED BY <1>2, <1>3, CongSub

\* What UpdateTcpMssOption returns of a packet whose checksums are right has
\* right ones too.
LEMMA MssUpdateRight ==
  ASSUME pkt \in Packet, Right(pkt), i \in Nat, WellFormed, New > 0, i % 2 = 0 \/ i + 5 <= N
  PROVE  LET p == [pkt EXCEPT !.seg.opts = NewOpts, !.seg.sum = MssSum] IN
         /\ p \in Packet /\ Right(p)
         /\ p.proto = pkt.proto /\ p.src = pkt.src /\ p.dst = pkt.dst
         /\ p.seg.sport = pkt.seg.sport /\ p.seg.dport = pkt.seg.dport
         /\ p.seg.opts = NewOpts /\ p.seg.body = pkt.seg.body
<1> DEFINE t == pkt.seg
           o == t.opts
           n == NewOpts
           x == MssSum
           u == [t EXCEPT !.opts = n, !.sum = x]
           p == [pkt EXCEPT !.seg.opts = n, !.seg.sum = x]
           a == IF i % 2 = 0 THEN Old
                ELSE WordOf(o[i + 2], o[i + 3]) + WordOf(o[i + 4], o[i + 5])
           b == IF i % 2 = 0 THEN New
                ELSE WordOf(n[i + 2], n[i + 3]) + WordOf(n[i + 4], n[i + 5])
<1>1. /\ pkt.proto \in Word /\ pkt.src \in Word /\ pkt.dst \in Word /\ t \in Segment
      /\ o \in Seq(Byte) /\ t.sum \in Word /\ pkt.hsum \in Int
  BY DEF Packet, Segment
<1>2. i + 4 <= Len(o) /\ Len(o) \in Nat
  BY <1>1 DEF WellFormed, N
<1>3. Old = WordOf(o[i + 3], o[i + 4]) /\ Old \in Word
  <2>1. Opt(i + 2) = o[i + 3] /\ Opt(i + 3) = o[i + 4]
    <3>1. (i + 2) + 1 = i + 3 /\ (i + 3) + 1 = i + 4
      OBVIOUS
    <3> QED BY <3>1 DEF Opt
  <2>2. i + 3 \in 1..Len(o) /\ i + 4 \in 1..Len(o)
    BY <1>2
  <2>3. o[i + 3] \in Byte /\ o[i + 4] \in Byte
    BY <1>1, <2>2, ElementOfSeq
  <2> QED BY <2>1, <2>3, WordBytes DEF Old
<1>4. New \in Word
  <2>1. Old \in Int /\ Old <= Base - 1 /\ Base \in Int
    BY <1>3, BaseLarge DEF Word
  <2>2. New = Old - Overhead /\ Overhead \in Nat
    BY PathAssumption DEF New
  <2> QED BY <2>1, <2>2 DEF Word
<1>5. /\ n \in Seq(Byte) /\ Len(n) = Len(o)
      /\ i % 2 = 0 => Total(WordsOf(n)) = Total(WordsOf(o)) - WordOf(o[i + 3], o[i + 4]) + New
      /\ i % 2 # 0 /\ i + 5 <= Len(o) =>
              Total(WordsOf(n)) = Total(WordsOf(o))
                                  - (WordOf(o[i + 2], o[i + 3]) + WordOf(o[i + 4], o[i + 5]))
                                  + (WordOf(n[i + 2], n[i + 3]) + WordOf(n[i + 4], n[i + 5]))
  <2> DEFINE v == New
  <2>1. n = Written(o, i, v) /\ v \in Word
    BY <1>4 DEF NewOpts, Written
  <2>2. o \in Seq(Byte) /\ i \in Nat /\ i + 4 <= Len(o)
    BY <1>1, <1>2
  <2> HIDE DEF n, v, o
  <2>3. LET m == Written(o, i, v) IN
        /\ m \in Seq(Byte) /\ Len(m) = Len(o)
        /\ i % 2 = 0 => Total(WordsOf(m)) = Total(WordsOf(o)) - WordOf(o[i + 3], o[i + 4]) + v
        /\ i % 2 # 0 /\ i + 5 <= Len(o) =>
              Total(WordsOf(m)) = Total(WordsOf(o))
                                  - (WordOf(o[i + 2], o[i + 3]) + WordOf(o[i + 4], o[i + 5]))
                                  + (WordOf(m[i + 2], m[i + 3]) + WordOf(m[i + 4], m[i + 5]))
    BY ONLY <2>1, <2>2, MssBytes
  <2> QED BY <2>1, <2>3 DEF v
<1>6. i % 2 # 0 => i + 5 <= Len(o)
  BY DEF N
<1>7. /\ x \in Word /\ a \in Int /\ b \in Int /\ Cong(x, t.sum + a - b)
      /\ Total(WordsOf(n)) = Total(WordsOf(o)) - a + b
  <2>1. CASE i % 2 = 0
    <3>1. x = Updated(t.sum, Old, New)
      BY <2>1 DEF MssSum, Updated
    <3>2. a = Old /\ b = New
      BY <2>1
    <3> HIDE DEF a, b, x, n, o
    <3>3. Total(WordsOf(n)) = Total(WordsOf(o)) - a + b
      BY <1>3, <1>5, <2>1, <3>2
    <3> QED BY <1>1, <1>3, <1>4, <3>1, <3>2, <3>3, UpdatedCong, WordNat
  <2>2. CASE i % 2 # 0
    <3>1. x = Updated(t.sum, Two(o, i), Two(n, i))
      BY <2>2 DEF MssSum, Updated, Two
    <3>2. /\ a = WordOf(o[i + 2], o[i + 3]) + WordOf(o[i + 4], o[i + 5])
          /\ b = WordOf(n[i + 2], n[i + 3]) + WordOf(n[i + 4], n[i + 5])
      BY <2>2
    <3> HIDE DEF x, n, a, b
    <3>3. Two(o, i) \in Word /\ Cong(Two(o, i), a)
      BY <1>1, <1>6, <2>2, <3>2, TwoCong
    <3>4. Two(n, i) \in Word /\ Cong(Two(n, i), b)
      BY <1>5, <1>6, <2>2, <3>2, TwoCong
    <3>5. a \in Int /\ b \in Int
      <4>1. \A k \in 1..Len(o) : o[k] \in Byte /\ n[k] \in Byte
        BY <1>1, <1>5, ElementOfSeq
      <4>2. i + 2 \in 1..Len(o) /\ i + 3 \in 1..Len(o) /\ i + 4 \in 1..Len(o) /\ i + 5 \in 1..Len(o)
        BY <1>2, <1>6, <2>2
      <4>3. /\ WordOf(o[i + 2], o[i + 3]) \in Int /\ WordOf(o[i + 4], o[i + 5]) \in Int
            /\ WordOf(n[i + 2], n[i + 3]) \in Int /\ WordOf(n[i + 4], n[i + 5]) \in Int
        BY <4>1, <4>2, WordBytes, WordNat
      <4> QED BY ONLY <3>2, <4>3
    <3>6. /\ x \in Word /\ x \in Int
          /\ Cong(x, t.sum + Two(o, i) - Two(n, i))
      BY <1>1, <3>1, <3>3, <3>4, UpdatedCong, WordNat
    <3>7. t.sum \in Int /\ Two(o, i) \in Int /\ Two(n, i) \in Int
      BY <1>1, <3>3, <3>4, WordNat
    <3>8. Cong(t.sum + Two(o, i) - Two(n, i), t.sum + a - b)
      <4> DEFINE y == t.sum
                 c == Two(o, i)
                 d == Two(n, i)
      <4>1. y \in Int /\ c \in Int /\ d \in Int /\ Cong(c, a) /\ Cong(d, b)
        BY <3>3, <3>4, <3>7
      <4> HIDE DEF y, c, d
      <4>2. Cong(y + c - d, y + a - b)
        BY ONLY <3>5, <4>1, CongShift
      <4> QED BY <4>2 DEF y, c, d
    <3>9. t.sum + Two(o, i) - Two(n, i) \in Int /\ t.sum + a - b \in Int
      BY <3>5, <3>7
    <3>10. Cong(x, t.sum + a - b)
      BY <3>6, <3>8, <3>9, CongTrans
    <3>11. Total(WordsOf(n)) = Total(WordsOf(o)) - a + b
      BY <1>5, <1>6, <2>2, <3>2
    <3> QED BY <3>5, <3>6, <3>10, <3>11
  <2> QED BY <2>1, <2>2
<1> HIDE DEF a, b, n, x
<1>8. u \in Segment /\ SegLen(u) = SegLen(t) /\ Balanced(pkt.proto, pkt.src, pkt.dst, u)
  <2>1. Balanced(pkt.proto, pkt.src, pkt.dst, t)
    BY DEF Right
  <2> QED BY <1>1, <1>5, <1>7, <2>1, OptsReplaced
<1>9. /\ p = [pkt EXCEPT !.seg = u]
      /\ u.sport = t.sport /\ u.dport = t.dport /\ u.opts = n /\ u.body = t.body
  BY <1>1 DEF Packet, Segment
<1> HIDE DEF u, p
<1>10. /\ p \in Packet /\ p.seg = u /\ p.proto = pkt.proto /\ p.src = pkt.src /\ p.dst = pkt.dst
       /\ p.hsum = pkt.hsum
  BY <1>1, <1>8, <1>9 DEF Packet
<1>11. HdrSum(p) = HdrSum(pkt)
  BY <1>8, <1>10 DEF HdrSum
<1>12. Right(p)
  BY <1>8, <1>10, <1>11 DEF Right
<1> QED BY <1>9, <1>10, <1>12 DEF p, n, x

(***************************************************************************)
(* The filter that bpfSkipPorts compiles.                                  *)
(***************************************************************************)

\* The members of S can be listed in increasing order.
Orders(r, S) == /\ r \in [1..Cardinality(S) -> S] /\ Range(r) = S
                /\ \A j, k \in DOMAIN r : j < k => r[j] < r[k]
Orderable(S) == \E r : Orders(r, S)

\* The least first, then the others.
LEMMA LeastFirst ==
  ASSUME NEW S \in SUBSET Nat, IsFiniteSet(S), NEW n \in Nat, Cardinality(S) = n + 1,
         NEW m \in S, \A x \in S : m <= x, Cardinality(S \ {m}) = n, Orderable(S \ {m})
  PROVE  Orderable(S)
<1> DEFINE U == S \ {m}
<1>1. PICK q : Orders(q, U)
  BY DEF Orderable
<1> DEFINE r == [k \in 1..(n + 1) |-> IF k = 1 THEN m ELSE q[k - 1]]
<1>2. q \in [1..n -> U] /\ Range(q) = U /\ \A j, k \in 1..n : j < k => q[j] < q[k]
  BY <1>1 DEF Orders
<1>3. \A x \in U : x \in S /\ x # m /\ x \in Nat /\ m < x
  OBVIOUS
<1> HIDE DEF U
<1>4. ASSUME NEW k \in 1..(n + 1)
      PROVE  r[k] \in S /\ (k = 1 => r[k] = m) /\ (k # 1 => k - 1 \in 1..n /\ r[k] = q[k - 1] /\ r[k] \in U)
  <2>1. CASE k = 1
    BY <2>1
  <2>2. CASE k # 1
    <3>1. k - 1 \in 1..n
      BY <2>2
    <3>2. q[k - 1] \in U
      BY <1>2, <3>1
    <3> QED BY <1>3, <2>2, <3>1, <3>2
  <2> QED BY <2>1, <2>2
<1>5. r \in [1..(n + 1) -> S] /\ DOMAIN r = 1..(n + 1)
  BY <1>4
<1>6. ASSUME NEW x \in S PROVE \E k \in 1..(n + 1) : r[k] = x
  <2>1. CASE x = m
    <3>1. 1 \in 1..(n + 1)
      OBVIOUS
    <3> QED BY <1>4, <2>1, <3>1
  <2>2. CASE x # m
    <3>1. x \in U
      BY <2>2 DEF U
    <3>2. PICK k \in 1..n : q[k] = x
      BY <1>2, <3>1 DEF Range
    <3>3. k + 1 \in 1..(n + 1) /\ k + 1 # 1 /\ (k + 1) - 1 = k
      OBVIOUS
    <3>4. r[k + 1] = q[k]
      BY <1>4, <3>3
    <3> QED BY <3>2, <3>3, <3>4
  <2> QED BY <2>1, <2>2
<1> HIDE DEF r
<1>7. Range(r) = S
  BY <1>5, <1>6 DEF Range
<1>8. ASSUME NEW j \in 1..(n + 1), NEW k \in 1..(n + 1), j < k PROVE r[j] < r[k]
  <2>1. k # 1 /\ k - 1 \in 1..n /\ r[k] = q[k - 1] /\ r[k] \in U
    BY <1>4, <1>8
  <2>2. CASE j = 1
    BY <1>3, <1>4, <2>1, <2>2
  <2>3. CASE j # 1
    <3>1. j - 1 \in 1..n /\ r[j] = q[j - 1] /\ j - 1 < k - 1
      BY <1>4, <1>8, <2>3
    <3> QED BY <1>2, <2>1, <3>1
  <2> QED BY <2>2, <2>3
<1>9. Orders(r, S)
  BY <1>5, <1>7, <1>8 DEF Orders
<1> QED BY <1>9 DEF Orderable

\* Every finite set of numbers can be put in ascending order: what SortCompact
\* chooses exists.
LEMMA FiniteOrderable ==
  ASSUME NEW S \in SUBSET Nat, IsFiniteSet(S)
  PROVE  Orderable(S)
<1> DEFINE T == {n \in Nat : \A U \in SUBSET Nat : IsFiniteSet(U) /\ Cardinality(U) = n => Orderable(U)}
<1>1. 0 \in T
  <2>1. ASSUME NEW U \in SUBSET Nat, IsFiniteSet(U), Cardinality(U) = 0 PROVE Orderable(U)
    <3>1. U = {}
      BY <2>1, FS_EmptySet
    <3> DEFINE r == [k \in 1..0 |-> 0]
    <3>2. 1..0 = {}
      OBVIOUS
    <3>3. r \in [1..0 -> {}] /\ Range(r) = {} /\ DOMAIN r = {}
      BY <3>2 DEF Range
    <3> HIDE DEF r
    <3>4. Orders(r, U)
      BY <2>1, <3>1, <3>3 DEF Orders
    <3> QED BY <3>4 DEF Orderable
  <2> QED BY <2>1
<1>2. ASSUME NEW n \in T PROVE n + 1 \in T
  <2>1. ASSUME NEW U \in SUBSET Nat, IsFiniteSet(U), Cardinality(U) = n + 1 PROVE Orderable(U)
    <3>1. U # {} /\ n \in Nat
      BY <2>1, FS_EmptySet
    <3>2. PICK m \in U : \A x \in U : m <= x
      BY <3>1, Least
    <3>3. IsFiniteSet(U \ {m}) /\ Cardinality(U \ {m}) = n
      <4>1. IsFiniteSet(U \ {m}) /\ Cardinality(U \ {m}) = Cardinality(U) - 1
        BY <2>1, FS_RemoveElement
      <4> QED BY <2>1, <3>1, <4>1
    <3>4. Orderable(U \ {m})
      BY <1>2, <3>3
    <3> HIDE DEF T
    <3> QED BY <2>1, <3>1, <3>2, <3>3, <3>4, LeastFirst
  <2> QED BY <2>1
<1>3. T = Nat
  <2>1. T \in SUBSET Nat
    OBVIOUS
  <2> HIDE DEF T
  <2> QED BY <1>1, <1>2, <2>1, Induction
<1>4. Cardinality(S) \in Nat
  BY FS_CardinalityType
<1> QED BY <1>3, <1>4

\* Sorting and compacting a list of ports leaves the ports in it.
LEMMA SortCompactPorts ==
  ASSUME NEW list \in Seq(Word)
  PROVE  /\ SortCompact(list) \in Seq(Word) /\ Range(SortCompact(list)) = Range(list)
         /\ Len(SortCompact(list)) = Cardinality(Range(list)) /\ Cardinality(Range(list)) \in Nat
<1> DEFINE S == Range(list)
           n == Cardinality(S)
<1>1. list \in [1..Len(list) -> Word] /\ Len(list) \in Nat
  BY LenProperties
<1>2. IsFiniteSet(S)
  <2>1. list \in Surjection(1..Len(list), S)
    BY <1>1 DEF Surjection, Range
  <2>2. IsFiniteSet(1..Len(list))
    BY <1>1, FS_Interval
  <2> QED BY <2>1, <2>2, FS_Surjection
<1>3. S \subseteq Word /\ S \in SUBSET Nat
  BY <1>1, WordNat DEF Range
<1>4. PICK r : Orders(r, S)
  BY <1>2, <1>3, FiniteOrderable DEF Orderable
<1>5. n \in Nat
  BY <1>2, FS_CardinalityType
<1> DEFINE P(q) == Range(q) = S /\ \A j, k \in DOMAIN q : j < k => q[j] < q[k]
<1>6. SortCompact(list) = CHOOSE q \in [1..n -> S] : P(q)
  BY DEF SortCompact
<1>7. r \in [1..n -> S] /\ P(r)
  BY <1>4 DEF Orders
<1>8. SortCompact(list) \in [1..n -> S] /\ Range(SortCompact(list)) = S
  <2> HIDE DEF S, n, P
  <2>1. SortCompact(list) \in [1..n -> S] /\ P(SortCompact(list))
    BY <1>6, <1>7, Zenon
  <2> QED BY <2>1 DEF P
<1> HIDE DEF S, n
<1>9. SortCompact(list) \in [1..n -> Word]
  BY <1>3, <1>8
<1> QED BY <1>5, <1>8, <1>9, SeqDef, LenProperties DEF S, n

\* Instructions, and the place of a list in another.
Ins == [op : {"proto", "x", "port", "jne", "ret"}, val : Nat, skip : Nat]

\* The instructions of two lists joined.
LEMMA ConcatAt ==
  ASSUME NEW u \in Seq(Ins), NEW v \in Seq(Ins)
  PROVE  /\ u \o v \in Seq(Ins) /\ Len(u \o v) = Len(u) + Len(v) /\ Len(u) \in Nat /\ Len(v) \in Nat
         /\ \A k \in 1..Len(u) : (u \o v)[k] = u[k]
         /\ \A k \in 1..Len(v) : (u \o v)[Len(u) + k] = v[k]
<1>1. /\ u \o v \in Seq(Ins) /\ Len(u \o v) = Len(u) + Len(v) /\ Len(u) \in Nat /\ Len(v) \in Nat
      /\ \A k \in 1..(Len(u) + Len(v)) : (u \o v)[k] = IF k <= Len(u) THEN u[k] ELSE v[k - Len(u)]
  BY ConcatProperties
<1>2. ASSUME NEW k \in 1..Len(u) PROVE (u \o v)[k] = u[k]
  <2>1. k \in 1..(Len(u) + Len(v)) /\ k <= Len(u)
    BY <1>1
  <2> QED BY <1>1, <2>1
<1>3. ASSUME NEW k \in 1..Len(v) PROVE (u \o v)[Len(u) + k] = v[k]
  <2>1. Len(u) + k \in 1..(Len(u) + Len(v)) /\ ~(Len(u) + k <= Len(u)) /\ (Len(u) + k) - Len(u) = k
    BY <1>1
  <2> QED BY <1>1, <2>1
<1> QED BY <1>1, <1>2, <1>3

\* The instructions f has after the first o are those for `ports' of `proto'.
BlockAt(f, o, proto, ports) ==
  LET n == Len(ports) IN
  /\ f[o + 1] = LoadProto
  /\ f[o + 2] = [op |-> "jne", val |-> proto, skip |-> 3 * n + 2]
  /\ f[o + 3] = LoadX
  /\ f[o + 3 * n + 4] = Ret(1)
  /\ \A j \in 1..n : /\ f[o + 3 * j + 1] = LoadPort
                     /\ f[o + 3 * j + 2] = [op |-> "jne", val |-> ports[j], skip |-> 1]
                     /\ f[o + 3 * j + 3] = Ret(0)

\* The three instructions bpfSkipPorts emits for a port.
LEMMA ChecksAt ==
  ASSUME NEW ports \in Seq(Word)
  PROVE  /\ Checks(ports) \in Seq(Ins) /\ Len(Checks(ports)) = 3 * Len(ports)
         /\ \A j \in 1..Len(ports) :
              /\ Checks(ports)[3 * j - 2] = LoadPort
              /\ Checks(ports)[3 * j - 1] = [op |-> "jne", val |-> ports[j], skip |-> 1]
              /\ Checks(ports)[3 * j] = Ret(0)
<1> DEFINE n == Len(ports)
           c == Checks(ports)
           e(j) == CASE j % 3 = 1 -> LoadPort
                     [] j % 3 = 2 -> JumpNotEqual(ports[(j + 1) \div 3], 1)
                     [] j % 3 = 0 -> Ret(0)
<1>1. n \in Nat /\ 3 * n \in Nat /\ \A j \in 1..n : ports[j] \in Nat
  BY LenProperties, ElementOfSeq, WordNat
<1>2. c = [j \in 1..(3 * n) |-> e(j)]
  BY DEF Checks
<1>3. /\ LoadPort \in Ins /\ Ret(0) \in Ins
      /\ \A v \in Nat : JumpNotEqual(v, 1) = [op |-> "jne", val |-> v, skip |-> 1] /\ JumpNotEqual(v, 1) \in Ins
  <2>1. 1 % 256 = 1
    OBVIOUS
  <2> QED BY <2>1 DEF Ins, LoadPort, Ret, JumpNotEqual
<1> HIDE DEF n
<1>4. ASSUME NEW j \in 1..(3 * n) PROVE e(j) \in Ins
  <2>1. CASE j % 3 = 1
    BY <1>3, <2>1
  <2>2. CASE j % 3 = 2
    <3>1. (j + 1) \div 3 \in 1..n
      BY <1>1, <2>2
    <3> QED BY <1>1, <1>3, <2>2, <3>1
  <2>3. CASE j % 3 = 0
    BY <1>3, <2>3
  <2>4. j % 3 = 0 \/ j % 3 = 1 \/ j % 3 = 2
    BY <1>1
  <2> QED BY <2>1, <2>2, <2>3, <2>4
<1>5. c \in Seq(Ins) /\ Len(c) = 3 * n
  <2>1. c \in [1..(3 * n) -> Ins]
    <3> HIDE DEF e
    <3> QED BY <1>2, <1>4
  <2> HIDE DEF c
  <2> QED BY <1>1, <2>1, SeqDef, LenProperties
<1>6. ASSUME NEW j \in 1..n
      PROVE  /\ c[3 * j - 2] = LoadPort
             /\ c[3 * j - 1] = [op |-> "jne", val |-> ports[j], skip |-> 1]
             /\ c[3 * j] = Ret(0)
  <2>1. /\ 3 * j - 2 \in 1..(3 * n) /\ 3 * j - 1 \in 1..(3 * n) /\ 3 * j \in 1..(3 * n)
        /\ (3 * j - 2) % 3 = 1 /\ (3 * j - 1) % 3 = 2 /\ (3 * j) % 3 = 0
        /\ ((3 * j - 1) + 1) \div 3 = j
    BY <1>1
  <2> DEFINE k == 3 * j - 2
             l == 3 * j - 1
             m == 3 * j
  <2>2. k % 3 = 1 /\ l % 3 = 2 /\ m % 3 = 0 /\ (l + 1) \div 3 = j
    BY <2>1
  <2> HIDE DEF k, l, m
  <2>3. e(k) = LoadPort
    BY <2>2
  <2>4. e(l) = JumpNotEqual(ports[j], 1)
    BY <2>2
  <2>5. e(m) = Ret(0)
    BY <2>2
  <2> USE DEF k, l, m
  <2> HIDE DEF e, c
  <2>6. c[3 * j - 2] = e(3 * j - 2) /\ c[3 * j - 1] = e(3 * j - 1) /\ c[3 * j] = e(3 * j)
    BY <1>2, <2>1
  <2> QED BY <1>1, <1>3, <2>3, <2>4, <2>6, <2>5
<1> QED BY <1>5, <1>6 DEF n

\* What bpfSkipPorts returns of a list of no more than 84 ports.
LEMMA BpfSkipPortsAt ==
  ASSUME NEW proto \in Word, NEW list \in Seq(Word), Cardinality(Range(list)) <= 84
  PROVE  LET ports == SortCompact(list)
             b == BpfSkipPorts(proto, list)
         IN  b \in Seq(Ins) /\ Len(b) = 3 * Len(ports) + 4 /\ BlockAt(b, 0, proto, ports)
<1> DEFINE ports == SortCompact(list)
           n == Len(ports)
           c == Checks(ports)
           p == <<LoadX>>
           q == <<Ret(1)>>
           d == p \o c
           s == d \o q
           h == <<LoadProto, JumpNotEqual(proto, Len(s))>>
           b == h \o s
<1>1. ports \in Seq(Word) /\ n \in Nat /\ n <= 84
  BY SortCompactPorts
<1>2. BpfSkipPorts(proto, list) = b
  BY DEF BpfSkipPorts
<1>3. /\ c \in Seq(Ins) /\ Len(c) = 3 * n
      /\ \A j \in 1..n : /\ c[3 * j - 2] = LoadPort
                         /\ c[3 * j - 1] = [op |-> "jne", val |-> ports[j], skip |-> 1]
                         /\ c[3 * j] = Ret(0)
  BY <1>1, ChecksAt
<1>4. /\ p \in Seq(Ins) /\ Len(p) = 1 /\ p[1] = LoadX
      /\ q \in Seq(Ins) /\ Len(q) = 1 /\ q[1] = Ret(1)
  <2>1. LoadX \in Ins /\ Ret(1) \in Ins
    BY DEF Ins, LoadX, Ret
  <2> QED BY <2>1
<1> HIDE DEF ports, n, c, p, q
<1>5. /\ d \in Seq(Ins) /\ Len(d) = 3 * n + 1
      /\ d[1] = LoadX
      /\ \A k \in 1..(3 * n) : d[1 + k] = c[k]
  <2>1. /\ d \in Seq(Ins) /\ Len(d) = 1 + 3 * n
        /\ \A k \in 1..1 : d[k] = p[k]
        /\ \A k \in 1..(3 * n) : d[1 + k] = c[k]
    <3>1. /\ d \in Seq(Ins) /\ Len(d) = Len(p) + Len(c)
          /\ \A k \in 1..Len(p) : d[k] = p[k]
          /\ \A k \in 1..Len(c) : d[Len(p) + k] = c[k]
      BY <1>3, <1>4, ConcatAt
    <3> HIDE DEF d
    <3> QED BY <1>3, <1>4, <3>1
  <2> HIDE DEF d
  <2> QED BY <1>1, <1>4, <2>1
<1> HIDE DEF d
<1>6. /\ s \in Seq(Ins) /\ Len(s) = 3 * n + 2
      /\ s[1] = LoadX /\ s[3 * n + 2] = Ret(1)
      /\ \A k \in 1..(3 * n) : s[1 + k] = c[k]
  <2>1. /\ s \in Seq(Ins) /\ Len(s) = (3 * n + 1) + 1
        /\ \A k \in 1..(3 * n + 1) : s[k] = d[k]
        /\ \A k \in 1..1 : s[(3 * n + 1) + k] = q[k]
    <3>1. /\ s \in Seq(Ins) /\ Len(s) = Len(d) + Len(q)
          /\ \A k \in 1..Len(d) : s[k] = d[k]
          /\ \A k \in 1..Len(q) : s[Len(d) + k] = q[k]
      BY <1>4, <1>5, ConcatAt
    <3> HIDE DEF s
    <3> QED BY <1>4, <1>5, <3>1
  <2> HIDE DEF s
  <2>2. s[1] = LoadX
    BY <1>1, <1>5, <2>1
  <2>3. s[3 * n + 2] = Ret(1)
    <3>1. 1 \in 1..1 /\ (3 * n + 1) + 1 = 3 * n + 2
      BY <1>1
    <3>2. s[(3 * n + 1) + 1] = q[1]
      BY <2>1, <3>1
    <3> QED BY <1>4, <3>1, <3>2
  <2>4. ASSUME NEW k \in 1..(3 * n) PROVE s[1 + k] = c[k]
    <3>1. 1 + k \in 1..(3 * n + 1)
      BY <1>1
    <3> QED BY <1>5, <2>1, <3>1
  <2>5. (3 * n + 1) + 1 = 3 * n + 2
    BY <1>1
  <2> QED BY <2>1, <2>2, <2>3, <2>4, <2>5
<1>7. /\ h \in Seq(Ins) /\ Len(h) = 2 /\ h[1] = LoadProto
      /\ h[2] = [op |-> "jne", val |-> proto, skip |-> 3 * n + 2]
  <2>1. (3 * n + 2) % 256 = 3 * n + 2 /\ 3 * n + 2 \in Nat
    BY <1>1
  <2>2. JumpNotEqual(proto, Len(s)) = [op |-> "jne", val |-> proto, skip |-> 3 * n + 2]
    BY <1>6, <2>1 DEF JumpNotEqual
  <2>3. LoadProto \in Ins /\ JumpNotEqual(proto, Len(s)) \in Ins
    BY <2>1, <2>2, WordNat DEF Ins, LoadProto
  <2> HIDE DEF s
  <2> QED BY <2>2, <2>3
<1> HIDE DEF s, h
<1>8. /\ b \in Seq(Ins) /\ Len(b) = 2 + (3 * n + 2)
      /\ \A k \in 1..2 : b[k] = h[k]
      /\ \A k \in 1..(3 * n + 2) : b[2 + k] = s[k]
  <2>1. /\ b \in Seq(Ins) /\ Len(b) = Len(h) + Len(s)
        /\ \A k \in 1..Len(h) : b[k] = h[k]
        /\ \A k \in 1..Len(s) : b[Len(h) + k] = s[k]
    BY <1>6, <1>7, ConcatAt
  <2> HIDE DEF b
  <2> QED BY <1>6, <1>7, <2>1
<1> HIDE DEF b
<1>9. Len(b) = 3 * n + 4 /\ b[0 + 1] = LoadProto /\ b[0 + 2] = [op |-> "jne", val |-> proto, skip |-> 3 * n + 2]
  <2>1. 2 + (3 * n + 2) = 3 * n + 4 /\ 0 + 1 = 1 /\ 0 + 2 = 2 /\ 1 \in 1..2 /\ 2 \in 1..2
    BY <1>1
  <2>2. b[1] = h[1] /\ b[2] = h[2]
    BY <1>8, <2>1
  <2> QED BY <1>7, <1>8, <2>1, <2>2
<1>10. b[0 + 3] = LoadX /\ b[0 + 3 * n + 4] = Ret(1)
  <2>1. /\ 2 + 1 = 0 + 3 /\ 2 + (3 * n + 2) = 0 + 3 * n + 4
        /\ 1 \in 1..(3 * n + 2) /\ 3 * n + 2 \in 1..(3 * n + 2)
    BY <1>1
  <2>2. b[2 + 1] = s[1] /\ b[2 + (3 * n + 2)] = s[3 * n + 2]
    BY <1>8, <2>1
  <2> QED BY <1>6, <2>1, <2>2
<1>11. ASSUME NEW k \in 1..(3 * n) PROVE b[3 + k] = c[k]
  <2>1. 1 + k \in 1..(3 * n + 2) /\ 2 + (1 + k) = 3 + k
    BY <1>1
  <2>2. b[2 + (1 + k)] = s[1 + k]
    BY <1>8, <2>1
  <2> QED BY <1>6, <2>1, <2>2
<1>12. ASSUME NEW j \in 1..n
       PROVE  /\ b[0 + 3 * j + 1] = LoadPort
              /\ b[0 + 3 * j + 2] = [op |-> "jne", val |-> ports[j], skip |-> 1]
              /\ b[0 + 3 * j + 3] = Ret(0)
  <2>1. /\ 3 * j - 2 \in 1..(3 * n) /\ 3 + (3 * j - 2) = 0 + 3 * j + 1
        /\ 3 * j - 1 \in 1..(3 * n) /\ 3 + (3 * j - 1) = 0 + 3 * j + 2
        /\ 3 * j \in 1..(3 * n) /\ 3 + 3 * j = 0 + 3 * j + 3
    BY <1>1
  <2>2. /\ b[3 + (3 * j - 2)] = c[3 * j - 2] /\ b[3 + (3 * j - 1)] = c[3 * j - 1]
        /\ b[3 + 3 * j] = c[3 * j]
    BY <1>11, <2>1
  <2> QED BY <1>3, <2>1, <2>2
<1>13. BlockAt(b, 0, proto, ports)
  BY <1>9, <1>10, <1>12 DEF BlockAt, n
<1> QED BY <1>2, <1>8, <1>9, <1>13 DEF ports, n

\* Where bpfSkipPorts puts what it returned for one protocol.
LEMMA BlockMoves ==
  ASSUME NEW f, NEW g, NEW o \in Nat, NEW proto, NEW ports \in Seq(Word), BlockAt(g, 0, proto, ports),
         \A k \in 1..(3 * Len(ports) + 4) : f[o + k] = g[k]
  PROVE  BlockAt(f, o, proto, ports)
<1> DEFINE n == Len(ports)
<1>1. n \in Nat
  BY LenProperties
<1> HIDE DEF n
<1>2. /\ g[0 + 1] = LoadProto
      /\ g[0 + 2] = [op |-> "jne", val |-> proto, skip |-> 3 * n + 2]
      /\ g[0 + 3] = LoadX
      /\ g[0 + 3 * n + 4] = Ret(1)
      /\ \A j \in 1..n : /\ g[0 + 3 * j + 1] = LoadPort
                         /\ g[0 + 3 * j + 2] = [op |-> "jne", val |-> ports[j], skip |-> 1]
                         /\ g[0 + 3 * j + 3] = Ret(0)
  BY DEF BlockAt, n
<1>3. \A k \in 1..(3 * n + 4) : f[o + k] = g[k]
  BY DEF n
<1>4. /\ f[o + 1] = LoadProto /\ f[o + 3] = LoadX
      /\ f[o + 2] = [op |-> "jne", val |-> proto, skip |-> 3 * n + 2]
  BY <1>1, <1>2, <1>3
<1>5. f[o + 3 * n + 4] = Ret(1)
  <2>1. 3 * n + 4 \in 1..(3 * n + 4) /\ o + (3 * n + 4) = o + 3 * n + 4 /\ 0 + 3 * n + 4 = 3 * n + 4
    BY <1>1
  <2> QED BY <1>2, <1>3, <2>1
<1>6. ASSUME NEW j \in 1..n
      PROVE  /\ f[o + 3 * j + 1] = LoadPort
             /\ f[o + 3 * j + 2] = [op |-> "jne", val |-> ports[j], skip |-> 1]
             /\ f[o + 3 * j + 3] = Ret(0)
  <2>1. /\ 3 * j + 1 \in 1..(3 * n + 4) /\ o + (3 * j + 1) = o + 3 * j + 1 /\ 0 + 3 * j + 1 = 3 * j + 1
        /\ 3 * j + 2 \in 1..(3 * n + 4) /\ o + (3 * j + 2) = o + 3 * j + 2 /\ 0 + 3 * j + 2 = 3 * j + 2
        /\ 3 * j + 3 \in 1..(3 * n + 4) /\ o + (3 * j + 3) = o + 3 * j + 3 /\ 0 + 3 * j + 3 = 3 * j + 3
    BY <1>1
  <2> QED BY <1>2, <1>3, <2>1
<1> QED BY <1>4, <1>5, <1>6 DEF BlockAt, n

\* The instruction at k returns, or goes on behind k and not behind the last.
GoesOn(f, last, k) ==
  \/ f[k].op = "ret"
  \/ k < last /\ f[k].op \in {"proto", "x", "port"}
  \/ k < last /\ f[k].op = "jne" /\ f[k].skip \in Nat /\ k + 1 + f[k].skip <= last

\* A machine inside the block of one protocol goes on, and never beyond the filter.
LEMMA BlockGoesOn ==
  ASSUME NEW f, NEW o \in Nat, NEW proto, NEW ports \in Seq(Word), BlockAt(f, o, proto, ports),
         NEW last \in Nat, o + 3 * Len(ports) + 4 < last,
         NEW k \in (o + 1)..(o + 3 * Len(ports) + 4)
  PROVE  GoesOn(f, last, k)
<1> DEFINE n == Len(ports)
<1>1. n \in Nat
  BY LenProperties
<1>2. /\ f[o + 1] = LoadProto
      /\ f[o + 2] = [op |-> "jne", val |-> proto, skip |-> 3 * n + 2]
      /\ f[o + 3] = LoadX
      /\ f[o + 3 * n + 4] = Ret(1)
      /\ \A j \in 1..n : /\ f[o + 3 * j + 1] = LoadPort
                         /\ f[o + 3 * j + 2] = [op |-> "jne", val |-> ports[j], skip |-> 1]
                         /\ f[o + 3 * j + 3] = Ret(0)
  BY DEF BlockAt
<1>3. k < last /\ k \in Int
  BY <1>1
<1> HIDE DEF n
<1>4. CASE k = o + 1
  BY <1>2, <1>3, <1>4 DEF GoesOn, LoadProto
<1>5. CASE k = o + 2
  <2>1. f[k].op = "jne" /\ f[k].skip = 3 * n + 2 /\ 3 * n + 2 \in Nat
    BY <1>1, <1>2, <1>5
  <2>2. k + 1 + (3 * n + 2) <= last
    BY <1>1, <1>5 DEF n
  <2> QED BY <1>3, <2>1, <2>2 DEF GoesOn
<1>6. CASE k = o + 3
  BY <1>2, <1>3, <1>6 DEF GoesOn, LoadX
<1>7. CASE k = o + 3 * n + 4
  BY <1>2, <1>7 DEF GoesOn, Ret
<1>8. CASE k \notin {o + 1, o + 2, o + 3, o + 3 * n + 4}
  <2> DEFINE d == k - o - 1
             j == d \div 3
  <2>1. d \in 3..(3 * n + 2) /\ d \in Int
    BY <1>1, <1>8 DEF n
  <2>2. k = o + d + 1
    BY <1>3
  <2> HIDE DEF d
  <2>3. j \in 1..n /\ (d = 3 * j \/ d = 3 * j + 1 \/ d = 3 * j + 2)
    BY <1>1, <2>1
  <2> HIDE DEF j
  <2>4. k = o + 3 * j + 1 \/ k = o + 3 * j + 2 \/ k = o + 3 * j + 3
    BY <2>2, <2>3
  <2>5. /\ f[o + 3 * j + 1] = LoadPort
        /\ f[o + 3 * j + 2] = [op |-> "jne", val |-> ports[j], skip |-> 1]
        /\ f[o + 3 * j + 3] = Ret(0)
    BY ONLY <1>2, <2>3
  <2>6. CASE k = o + 3 * j + 1
    <3>1. f[k] = LoadPort
      BY ONLY <2>6, <2>5
    <3> QED BY <1>3, <3>1 DEF GoesOn, LoadPort
  <2>7. CASE k = o + 3 * j + 2
    <3>1. f[k] = [op |-> "jne", val |-> ports[j], skip |-> 1]
      BY ONLY <2>7, <2>5
    <3>2. f[k].op = "jne" /\ f[k].skip = 1
      BY <3>1
    <3>3. k + 1 + 1 <= last
      BY <1>1, <2>3, <2>7 DEF n
    <3> QED BY <1>3, <3>2, <3>3 DEF GoesOn
  <2>8. CASE k = o + 3 * j + 3
    <3>1. f[k] = Ret(0)
      BY ONLY <2>8, <2>5
    <3> QED BY <3>1 DEF GoesOn, Ret
  <2> QED BY <2>4, <2>6, <2>7, <2>8
<1> QED BY <1>4, <1>5, <1>6, <1>7, <1>8

\* No list of skipped ports is too long for a jump over its checks, whose
\* distance is a uint8.
ShortSkipPorts == \A proto \in Transports : Cardinality(Range(SkipPorts[proto])) <= 84

\* The ports that are skipped, in the order of the filter, and the instructions for them.
Skipped(proto) == SortCompact(SkipPorts[proto])
BlockLen(proto) == 3 * Len(Skipped(proto)) + 4

\* Sorting and compacting keeps the set of ports.
LEMMA SkippedPorts ==
  ASSUME NEW proto \in Transports
  PROVE  /\ Skipped(proto) \in Seq(Word) /\ Range(Skipped(proto)) = Range(SkipPorts[proto])
         /\ BlockLen(proto) \in Nat /\ BlockLen(proto) >= 4
<1>1. SkipPorts[proto] \in Seq(Word)
  BY PathAssumption
<1>2. /\ Skipped(proto) \in Seq(Word) /\ Range(Skipped(proto)) = Range(SkipPorts[proto])
      /\ Len(Skipped(proto)) \in Nat
  BY <1>1, SortCompactPorts DEF Skipped
<1> QED BY <1>2 DEF BlockLen

\* The filter: TCP, then UDP, then everything else.
LEMMA FilterAt ==
  ASSUME ShortSkipPorts
  PROVE  /\ Len(Filter) = BlockLen(Tcp) + BlockLen(Udp) + 1
         /\ BlockAt(Filter, 0, Tcp, Skipped(Tcp))
         /\ BlockAt(Filter, BlockLen(Tcp), Udp, Skipped(Udp))
         /\ Filter[Len(Filter)] = Ret(0)
<1> DEFINE b == BpfSkipPorts(Tcp, SkipPorts[Tcp])
           c == BpfSkipPorts(Udp, SkipPorts[Udp])
           r == <<Ret(0)>>
           d == b \o c
           m == BlockLen(Tcp)
           n == BlockLen(Udp)
<1>1. /\ Tcp \in Transports /\ Udp \in Transports /\ Tcp \in Word /\ Udp \in Word
      /\ SkipPorts[Tcp] \in Seq(Word) /\ SkipPorts[Udp] \in Seq(Word)
  BY WordNat, PathAssumption DEF Transports
<1>2. /\ b \in Seq(Ins) /\ Len(b) = m /\ BlockAt(b, 0, Tcp, Skipped(Tcp))
      /\ c \in Seq(Ins) /\ Len(c) = n /\ BlockAt(c, 0, Udp, Skipped(Udp))
  BY <1>1, BpfSkipPortsAt DEF ShortSkipPorts, Skipped, BlockLen
<1>3. r \in Seq(Ins) /\ Len(r) = 1 /\ r[1] = Ret(0)
  <2>1. Ret(0) \in Ins
    BY DEF Ins, Ret
  <2> QED BY <2>1
<1>4. Filter = d \o r
  BY DEF Filter
<1>5. m \in Nat /\ n \in Nat
  BY <1>1, SkippedPorts
<1> HIDE DEF b, c, r
<1>6. /\ d \in Seq(Ins) /\ Len(d) = Len(b) + Len(c)
      /\ \A k \in 1..Len(b) : d[k] = b[k]
      /\ \A k \in 1..Len(c) : d[Len(b) + k] = c[k]
  BY <1>2, ConcatAt
<1> HIDE DEF d
<1>7. /\ Len(Filter) = Len(d) + Len(r)
      /\ \A k \in 1..Len(d) : Filter[k] = d[k]
      /\ \A k \in 1..Len(r) : Filter[Len(d) + k] = r[k]
  BY <1>3, <1>4, <1>6, ConcatAt
<1> HIDE DEF m, n
<1>8. Len(Filter) = m + n + 1 /\ Len(d) = m + n
  BY <1>2, <1>3, <1>6, <1>7
<1>9. Filter[Len(Filter)] = Ret(0)
  <2>1. Len(Filter) = Len(d) + 1 /\ 1 \in 1..1
    BY <1>3, <1>7
  <2> QED BY <1>3, <1>7, <2>1
<1>10. \A k \in 1..m : Filter[0 + k] = b[k]
  <2>1. ASSUME NEW k \in 1..m PROVE Filter[0 + k] = b[k]
    <3>1. k \in 1..Len(d) /\ 0 + k = k /\ k \in 1..Len(b)
      BY <1>2, <1>5, <1>8
    <3> QED BY <1>6, <1>7, <3>1
  <2> QED BY <2>1
<1>11. \A k \in 1..n : Filter[m + k] = c[k]
  <2>1. ASSUME NEW k \in 1..n PROVE Filter[m + k] = c[k]
    <3>1. m + k \in 1..Len(d) /\ k \in 1..Len(c)
      BY <1>2, <1>5, <1>8
    <3> QED BY <1>2, <1>6, <1>7, <3>1
  <2> QED BY <2>1
<1>12. BlockAt(Filter, 0, Tcp, Skipped(Tcp))
  <2>1. Skipped(Tcp) \in Seq(Word) /\ \A k \in 1..(3 * Len(Skipped(Tcp)) + 4) : Filter[0 + k] = b[k]
    BY <1>1, <1>10, SkippedPorts DEF m, BlockLen
  <2> QED BY <1>2, <2>1, BlockMoves
<1>13. BlockAt(Filter, m, Udp, Skipped(Udp))
  <2>1. Skipped(Udp) \in Seq(Word) /\ \A k \in 1..(3 * Len(Skipped(Udp)) + 4) : Filter[m + k] = c[k]
    BY <1>1, <1>11, SkippedPorts DEF n, BlockLen
  <2> QED BY <1>2, <1>5, <2>1, BlockMoves
<1> QED BY <1>8, <1>9, <1>12, <1>13 DEF m, n

\* The machine goes on at every instruction of the filter.
LEMMA FilterGoesOn ==
  ASSUME ShortSkipPorts, NEW k \in 1..Len(Filter)
  PROVE  GoesOn(Filter, Len(Filter), k) /\ Len(Filter) \in Nat
<1> DEFINE m == BlockLen(Tcp)
           n == BlockLen(Udp)
           last == Len(Filter)
<1>1. /\ m \in Nat /\ n \in Nat /\ Skipped(Tcp) \in Seq(Word) /\ Skipped(Udp) \in Seq(Word)
      /\ Len(Skipped(Tcp)) \in Nat /\ Len(Skipped(Udp)) \in Nat
  BY SkippedPorts, LenProperties DEF Transports
<1>2. /\ last = m + n + 1 /\ Filter[last] = Ret(0)
      /\ BlockAt(Filter, 0, Tcp, Skipped(Tcp)) /\ BlockAt(Filter, m, Udp, Skipped(Udp))
  BY FilterAt
<1>3. /\ m = 0 + 3 * Len(Skipped(Tcp)) + 4
      /\ m + n = m + 3 * Len(Skipped(Udp)) + 4
  BY <1>1 DEF BlockLen
<1> HIDE DEF m, n, last
<1>4. last \in Nat
  BY <1>1, <1>2
<1>5. CASE k <= m
  <2>1. k \in (0 + 1)..(0 + 3 * Len(Skipped(Tcp)) + 4) /\ 0 + 3 * Len(Skipped(Tcp)) + 4 < last
    BY <1>1, <1>2, <1>3, <1>5
  <2> QED BY <1>1, <1>2, <1>4, <2>1, BlockGoesOn DEF last
<1>6. CASE k > m /\ k <= m + n
  <2>1. k \in (m + 1)..(m + 3 * Len(Skipped(Udp)) + 4) /\ m + 3 * Len(Skipped(Udp)) + 4 < last
    BY <1>1, <1>2, <1>3, <1>6
  <2> QED BY <1>1, <1>2, <1>4, <2>1, BlockGoesOn DEF last
<1>7. CASE k = last
  BY <1>2, <1>4, <1>7 DEF GoesOn, Ret, last
<1>8. k <= m \/ (k > m /\ k <= m + n) \/ k = last
  BY <1>1, <1>2 DEF last
<1> QED BY <1>4, <1>5, <1>6, <1>7, <1>8 DEF last

\* What the machine makes of one instruction, r being what it makes of those behind.
Step(p, r, k) ==
  [a \in {0, p.proto, p.seg.dport} |->
     LET ins == Filter[k] IN
     CASE ins.op = "proto" -> r[k + 1][p.proto]
       [] ins.op = "x"     -> r[k + 1][a]
       [] ins.op = "port"  -> r[k + 1][p.seg.dport]
       [] ins.op = "jne"   -> r[k + 1 + (IF a # ins.val THEN ins.skip ELSE 0)][a]
       [] ins.op = "ret"   -> ins.val]

\* r has the machine's results from instruction k on.
From(p, r, k) == \A l \in 1..Len(Filter) : l >= k => r[l] = Step(p, r, l)

\* What an instruction yields depends only on those after it.
LEMMA StepSame ==
  ASSUME NEW p, NEW r, NEW s, NEW k \in 1..Len(Filter), GoesOn(Filter, Len(Filter), k), Len(Filter) \in Nat,
         \A l \in 1..Len(Filter) : l > k => r[l] = s[l]
  PROVE  Step(p, r, k) = Step(p, s, k)
<1> DEFINE f == Filter
           last == Len(Filter)
<1>1. CASE f[k].op = "ret"
  BY <1>1 DEF Step
<1>2. CASE k < last /\ f[k].op \in {"proto", "x", "port"}
  <2>1. r[k + 1] = s[k + 1]
    BY <1>2
  <2> QED BY <1>2, <2>1 DEF Step
<1>3. CASE k < last /\ f[k].op = "jne" /\ f[k].skip \in Nat /\ k + 1 + f[k].skip <= last
  <2>1. r[k + 1 + f[k].skip] = s[k + 1 + f[k].skip] /\ r[k + 1 + 0] = s[k + 1 + 0]
    <3>1. k + 1 + f[k].skip \in 1..last /\ k + 1 + f[k].skip > k /\ k + 1 + 0 \in 1..last /\ k + 1 + 0 > k
      BY <1>3
    <3> QED BY <3>1
  <2>2. ASSUME NEW a PROVE r[k + 1 + (IF a # f[k].val THEN f[k].skip ELSE 0)]
                           = s[k + 1 + (IF a # f[k].val THEN f[k].skip ELSE 0)]
    <3>1. CASE a # f[k].val
      BY <2>1, <3>1
    <3>2. CASE a = f[k].val
      BY <2>1, <3>2
    <3> QED BY <3>1, <3>2
  <2> QED BY <1>3, <2>2 DEF Step
<1> QED BY <1>1, <1>2, <1>3 DEF GoesOn

\* The machine ends whatever the packet, and Run is what it ends with.
LEMMA RunIs ==
  ASSUME ShortSkipPorts, NEW p
  PROVE  \E r : From(p, r, 1) /\ Run(p) = r[1][0]
<1> DEFINE last == Len(Filter)
           Ends(n) == \E r : From(p, r, last + 1 - n)
           T == {n \in Nat : Ends(n)}
           Obeys(r) == r = [k \in 1..last |-> Step(p, r, k)]
           run == CHOOSE r : Obeys(r)
<1>1. last \in Nat /\ last >= 1
  BY FilterAt, SkippedPorts DEF Transports
<1>2. 0 \in T
  <2>1. From(p, <<>>, last + 1 - 0)
    BY <1>1 DEF From
  <2> QED BY <2>1
<1>3. ASSUME NEW n \in T PROVE n + 1 \in T
  <2>1. PICK r : From(p, r, last + 1 - n)
    OBVIOUS
  <2>2. n \in Nat
    OBVIOUS
  <2> DEFINE m == last + 1 - n
             s == [k \in 1..last |-> IF k >= m THEN r[k] ELSE Step(p, r, k)]
  <2>3. ASSUME NEW k \in 1..last, k >= last + 1 - (n + 1) PROVE s[k] = Step(p, s, k)
    <3>1. \A l \in 1..last : l > k => r[l] = s[l]
      BY <1>1, <2>2, <2>3
    <3>2. s[k] = Step(p, r, k)
      BY <2>1 DEF From
    <3>3. GoesOn(Filter, last, k)
      BY FilterGoesOn
    <3> HIDE DEF s
    <3>4. Step(p, r, k) = Step(p, s, k)
      BY <1>1, <3>1, <3>3, StepSame
    <3> QED BY <3>2, <3>4
  <2> HIDE DEF s
  <2>4. From(p, s, last + 1 - (n + 1))
    BY <2>3 DEF From
  <2> QED BY <2>2, <2>4
<1>4. T = Nat
  <2>1. T \in SUBSET Nat
    OBVIOUS
  <2> HIDE DEF T
  <2> QED BY <1>2, <1>3, <2>1, Induction
<1>5. PICK r : From(p, r, last + 1 - last)
  <2>1. last \in T
    BY <1>1, <1>4
  <2> QED BY <2>1
<1> DEFINE s == [k \in 1..last |-> r[k]]
<1>6. Obeys(s)
  <2>1. ASSUME NEW k \in 1..last PROVE s[k] = Step(p, s, k)
    <3>1. s[k] = Step(p, r, k)
      BY <1>1, <1>5 DEF From
    <3>2. GoesOn(Filter, last, k)
      BY FilterGoesOn
    <3>3. \A l \in 1..last : l > k => r[l] = s[l]
      OBVIOUS
    <3> HIDE DEF s
    <3>4. Step(p, r, k) = Step(p, s, k)
      BY <1>1, <3>2, <3>3, StepSame
    <3> QED BY <3>1, <3>4
  <2> DEFINE u == [k \in 1..last |-> Step(p, s, k)]
  <2>2. \A k \in 1..last : s[k] = u[k]
    BY <2>1
  <2>3. s = u
    <3>1. DOMAIN s = 1..last /\ DOMAIN u = 1..last
      OBVIOUS
    <3> QED BY <2>2, <3>1
  <2> QED BY <2>3
<1>7. Obeys(run)
  <2> HIDE DEF Obeys, s
  <2> QED BY <1>6, Zenon DEF run
<1>8. From(p, run, 1)
  <2> HIDE DEF run
  <2> QED BY <1>7 DEF From
<1>9. Run(p) = run[1][0]
  BY DEF Run, Step
<1> QED BY <1>8, <1>9

\* One instruction at a time.
LEMMA StepOf ==
  ASSUME NEW p, NEW r, NEW k \in 1..Len(Filter), Len(Filter) \in Nat, r[k] = Step(p, r, k),
         NEW a \in {0, p.proto, p.seg.dport}
  PROVE  /\ Filter[k] = LoadProto => r[k][a] = r[k + 1][p.proto]
         /\ Filter[k] = LoadX => r[k][a] = r[k + 1][a]
         /\ Filter[k] = LoadPort => r[k][a] = r[k + 1][p.seg.dport]
         /\ \A v : Filter[k] = Ret(v) => r[k][a] = v
<1>1. Filter[k] = LoadProto => r[k][a] = r[k + 1][p.proto]
  BY DEF Step, LoadProto
<1>2. Filter[k] = LoadX => r[k][a] = r[k + 1][a]
  BY DEF Step, LoadX
<1>3. Filter[k] = LoadPort => r[k][a] = r[k + 1][p.seg.dport]
  BY DEF Step, LoadPort
<1>4. ASSUME NEW v, Filter[k] = Ret(v) PROVE r[k][a] = v
  BY <1>4 DEF Step, Ret
<1> QED BY <1>1, <1>2, <1>3, <1>4

\* A conditional jump, with the accumulator a.
LEMMA StepJump ==
  ASSUME NEW p, NEW r, NEW k \in Nat, r[k] = Step(p, r, k), NEW a \in {0, p.proto, p.seg.dport},
         NEW v \in Nat, NEW d \in Nat, Filter[k] = [op |-> "jne", val |-> v, skip |-> d]
  PROVE  r[k][a] = IF a # v THEN r[k + 1 + d][a] ELSE r[k + 1][a]
<1>1. r[k][a] = r[k + 1 + (IF a # v THEN d ELSE 0)][a]
  BY DEF Step
<1>2. k + 1 + 0 = k + 1
  OBVIOUS
<1> QED BY <1>1, <1>2

\* The checks for the last m ports.
LEMMA ChecksRun ==
  ASSUME NEW p, p.proto \in Word, p.seg.dport \in Word, NEW r, From(p, r, 1), Len(Filter) \in Nat,
         NEW o \in Nat, NEW proto \in Word, NEW ports \in Seq(Word), BlockAt(Filter, o, proto, ports),
         o + 3 * Len(ports) + 4 < Len(Filter), NEW a \in {0, p.proto, p.seg.dport}
  PROVE  r[o + 4][a] = IF p.seg.dport \in Range(ports) THEN 0 ELSE 1
<1> DEFINE n == Len(ports)
           x == p.seg.dport
           last == Len(Filter)
           A == {0, p.proto, x}
           Left(m) == \E j \in 1..n : j > n - m /\ ports[j] = x
           After(m) == \A b \in A : r[o + 3 * (n - m) + 4][b] = IF Left(m) THEN 0 ELSE 1
           T == {m \in Nat : m <= n => After(m)}
<1>1. n \in Nat /\ x \in Nat /\ \A j \in 1..n : ports[j] \in Nat
  BY LenProperties, ElementOfSeq, WordNat
<1>2. /\ Filter[o + 3 * n + 4] = Ret(1)
      /\ \A j \in 1..n : /\ Filter[o + 3 * j + 1] = LoadPort
                         /\ Filter[o + 3 * j + 2] = [op |-> "jne", val |-> ports[j], skip |-> 1]
                         /\ Filter[o + 3 * j + 3] = Ret(0)
  BY DEF BlockAt
<1>3. \A k \in 1..last : r[k] = Step(p, r, k)
  BY DEF From
<1>4. last \in Nat /\ o + 3 * n + 4 < last
  OBVIOUS
<1>5. ASSUME NEW k \in 1..last, NEW b \in A
       PROVE  /\ Filter[k] = LoadPort => r[k][b] = r[k + 1][x]
              /\ \A v : Filter[k] = Ret(v) => r[k][b] = v
  <2>1. r[k] = Step(p, r, k)
    BY <1>3
  <2> QED BY ONLY <1>4, <1>5, <2>1, StepOf
<1> HIDE DEF n, x, last
<1>6. 0 \in T
  <2>1. ASSUME NEW b \in A PROVE r[o + 3 * (n - 0) + 4][b] = 1
    <3>1. o + 3 * n + 4 \in 1..last /\ o + 3 * (n - 0) + 4 = o + 3 * n + 4
      BY <1>1, <1>4
    <3> QED BY <1>2, <1>5, <3>1
  <2>2. ~ Left(0)
    BY <1>1
  <2> QED BY <2>1, <2>2
<1>7. ASSUME NEW m \in T PROVE m + 1 \in T
  <2> SUFFICES ASSUME m + 1 <= n PROVE After(m + 1)
    BY <1>1
  <2> DEFINE j == n - m
             k == o + 3 * j + 1
  <2>1. m \in Nat /\ After(m) /\ j \in 1..n /\ n - (m + 1) = j - 1
    BY <1>1
  <2>2. /\ o + 3 * (n - (m + 1)) + 4 = k /\ k + 1 = o + 3 * j + 2 /\ k + 2 = o + 3 * j + 3
        /\ k + 3 = o + 3 * j + 4 /\ (k + 1) + 1 = k + 2 /\ (k + 1) + 1 + 1 = k + 3
        /\ k \in 1..last /\ k + 1 \in 1..last /\ k + 2 \in 1..last
    BY <1>1, <1>4, <2>1
  <2>3. \A b \in A : r[k + 3][b] = IF Left(m) THEN 0 ELSE 1
    BY <2>1, <2>2
  <2>4. Left(m + 1) <=> ports[j] = x \/ Left(m)
    <3>1. \A h \in 1..n : h > n - (m + 1) <=> h = j \/ h > n - m
      BY <1>1, <2>1
    <3> QED BY <2>1, <3>1
  <2>5. /\ Filter[k] = LoadPort /\ Filter[k + 1] = [op |-> "jne", val |-> ports[j], skip |-> 1]
        /\ Filter[k + 2] = Ret(0) /\ ports[j] \in Nat
    BY <1>1, <1>2, <2>1, <2>2
  <2>6. x \in A
    OBVIOUS
  <2> HIDE DEF j, k, After, Left, A, T
  <2>7. r[k + 2][x] = 0
    BY ONLY <1>5, <2>2, <2>5, <2>6
  <2>8. r[k + 1][x] = IF x # ports[j] THEN r[k + 3][x] ELSE r[k + 2][x]
    <3>1. r[k + 1][x] = IF x # ports[j] THEN r[(k + 1) + 1 + 1][x] ELSE r[(k + 1) + 1][x]
      <4>1. 1 \in Nat /\ k + 1 \in Nat /\ r[k + 1] = Step(p, r, k + 1)
        BY <1>3, <2>2
      <4>2. x \in {0, p.proto, p.seg.dport}
        BY DEF x
      <4> QED BY ONLY <2>5, <4>1, <4>2, StepJump
    <3> QED BY <2>2, <3>1
  <2>9. ASSUME NEW b \in A PROVE r[k][b] = r[k + 1][x]
    BY ONLY <1>5, <2>2, <2>5, <2>9
  <2>10. ASSUME NEW b \in A PROVE r[k][b] = IF Left(m + 1) THEN 0 ELSE 1
    BY <2>3, <2>4, <2>6, <2>7, <2>8, <2>9
  <2> QED BY <2>2, <2>10 DEF After
<1>8. T = Nat
  <2>1. T \in SUBSET Nat
    OBVIOUS
  <2> HIDE DEF T
  <2> QED BY <1>6, <1>7, <2>1, Induction
<1>9. After(n)
  <2>1. n <= n
    BY <1>1
  <2> HIDE DEF After
  <2>2. \A m \in Nat : m <= n => After(m)
    BY <1>8
  <2> QED BY <1>1, <2>1, <2>2
<1>10. o + 3 * (n - n) + 4 = o + 4
  BY <1>1
<1>11. Left(n) <=> x \in Range(ports)
  <2>1. DOMAIN ports = 1..n
    BY LenProperties DEF n
  <2>2. \A j \in 1..n : j > n - n
    BY <1>1
  <2> QED BY <2>1, <2>2 DEF Range
<1> QED BY <1>9, <1>10, <1>11 DEF x

\* The instructions for one protocol: another protocol is passed on behind them.
LEMMA BlockRuns ==
  ASSUME NEW p, p.proto \in Word, p.seg.dport \in Word, NEW r, From(p, r, 1), Len(Filter) \in Nat,
         NEW o \in Nat, NEW proto \in Word, NEW ports \in Seq(Word), BlockAt(Filter, o, proto, ports),
         o + 3 * Len(ports) + 4 < Len(Filter), NEW a \in {0, p.proto, p.seg.dport}
  PROVE  r[o + 1][a] = IF p.proto # proto THEN r[(o + 3 * Len(ports) + 4) + 1][p.proto]
                       ELSE IF p.seg.dport \in Range(ports) THEN 0 ELSE 1
<1> DEFINE n == Len(ports)
           last == Len(Filter)
           y == p.proto
<1>1. n \in Nat /\ y \in Nat /\ proto \in Nat
  BY LenProperties, WordNat
<1>2. /\ Filter[o + 1] = LoadProto
      /\ Filter[o + 2] = [op |-> "jne", val |-> proto, skip |-> 3 * n + 2]
      /\ Filter[o + 3] = LoadX
  BY DEF BlockAt
<1>3. last \in Nat /\ o + 3 * n + 4 < last
  OBVIOUS
<1>4. \A k \in 1..last : r[k] = Step(p, r, k)
  BY DEF From
<1>5. /\ o + 1 \in 1..last /\ o + 2 \in 1..last /\ o + 3 \in 1..last
      /\ (o + 1) + 1 = o + 2 /\ (o + 2) + 1 = o + 3 /\ (o + 3) + 1 = o + 4
      /\ (o + 2) + 1 + (3 * n + 2) = (o + 3 * n + 4) + 1 /\ o + 2 \in Nat /\ 3 * n + 2 \in Nat
  <2> HIDE DEF n, last
  <2>1. o \in Nat /\ n \in Nat
    BY <1>1
  <2>2. /\ (o + 1) + 1 = o + 2 /\ (o + 2) + 1 = o + 3 /\ (o + 3) + 1 = o + 4
        /\ (o + 2) + 1 + (3 * n + 2) = (o + 3 * n + 4) + 1 /\ o + 2 \in Nat /\ 3 * n + 2 \in Nat
    BY ONLY <2>1
  <2>3. o + 1 \in 1..last /\ o + 2 \in 1..last /\ o + 3 \in 1..last
    BY ONLY <1>3, <2>1
  <2> QED BY <2>2, <2>3
<1>6. r[o + 1] = Step(p, r, o + 1) /\ r[o + 2] = Step(p, r, o + 2) /\ r[o + 3] = Step(p, r, o + 3)
  <2> HIDE DEF last
  <2> QED BY ONLY <1>5, <1>4
<1>7. y \in {0, p.proto, p.seg.dport}
  OBVIOUS
<1>8. r[o + 4][y] = IF p.seg.dport \in Range(ports) THEN 0 ELSE 1
  BY <1>7, ChecksRun
<1>9. r[o + 1][a] = r[(o + 1) + 1][y]
  BY <1>2, <1>5, <1>6, StepOf
<1>10. r[o + 3][y] = r[(o + 3) + 1][y]
  BY <1>2, <1>5, <1>6, <1>7, StepOf
<1> HIDE DEF n
<1>11. r[o + 2][y] = IF y # proto THEN r[(o + 2) + 1 + (3 * n + 2)][y] ELSE r[(o + 2) + 1][y]
  <2> DEFINE k == o + 2
             d == 3 * n + 2
  <2>1. /\ k \in Nat /\ d \in Nat /\ r[k] = Step(p, r, k)
        /\ Filter[k] = [op |-> "jne", val |-> proto, skip |-> d]
    BY <1>2, <1>5, <1>6
  <2> HIDE DEF k, d
  <2>2. r[k][y] = IF y # proto THEN r[k + 1 + d][y] ELSE r[k + 1][y]
    BY ONLY <1>1, <1>7, <2>1, StepJump
  <2> QED BY <2>2 DEF k, d
<1>12. r[o + 1][a] = IF y # proto THEN r[(o + 3 * n + 4) + 1][y]
                     ELSE IF p.seg.dport \in Range(ports) THEN 0 ELSE 1
  BY <1>5, <1>8, <1>9, <1>10, <1>11
<1> QED BY <1>12 DEF n

\* What the filter lets through.
Passes(p) == p.proto \in Transports /\ p.seg.dport \notin Range(SkipPorts[p.proto])

\* The kernel, running what bpfSkipPorts compiled, lets a packet through if and
\* only if it is TCP or UDP and its port is not to be skipped.
LEMMA RunExact ==
  ASSUME ShortSkipPorts, NEW p, p.proto \in Word, p.seg.dport \in Word
  PROVE  Run(p) # 0 <=> Passes(p)
<1> DEFINE m == BlockLen(Tcp)
           n == BlockLen(Udp)
           last == Len(Filter)
           y == p.proto
           A == {0, p.proto, p.seg.dport}
           Skips(proto) == p.seg.dport \in Range(SkipPorts[proto])
<1>1. /\ m \in Nat /\ n \in Nat /\ Skipped(Tcp) \in Seq(Word) /\ Skipped(Udp) \in Seq(Word)
      /\ Range(Skipped(Tcp)) = Range(SkipPorts[Tcp]) /\ Range(Skipped(Udp)) = Range(SkipPorts[Udp])
  BY SkippedPorts DEF Transports
<1>2. /\ last = m + n + 1 /\ Filter[last] = Ret(0)
      /\ BlockAt(Filter, 0, Tcp, Skipped(Tcp)) /\ BlockAt(Filter, m, Udp, Skipped(Udp))
  BY FilterAt
<1>3. /\ m = 0 + 3 * Len(Skipped(Tcp)) + 4
      /\ m + n = m + 3 * Len(Skipped(Udp)) + 4
  <2>1. Len(Skipped(Tcp)) \in Nat /\ Len(Skipped(Udp)) \in Nat
    BY <1>1, LenProperties
  <2> QED BY <1>1, <2>1 DEF BlockLen
<1>4. last \in Nat /\ last \in 1..last /\ m < last /\ m + n < last
  BY <1>1, <1>2
<1>5. PICK r : From(p, r, 1) /\ Run(p) = r[1][0]
  BY RunIs
<1>6. 0 \in A /\ y \in A /\ Tcp \in Word /\ Udp \in Word /\ 0 \in Nat
  BY WordNat
<1> HIDE DEF m, n
<1>7. r[0 + 1][0] = IF y # Tcp THEN r[m + 1][y] ELSE IF Skips(Tcp) THEN 0 ELSE 1
  <2>1. 0 + 3 * Len(Skipped(Tcp)) + 4 < Len(Filter)
    BY <1>3, <1>4
  <2>2. r[0 + 1][0] = IF p.proto # Tcp THEN r[(0 + 3 * Len(Skipped(Tcp)) + 4) + 1][p.proto]
                      ELSE IF p.seg.dport \in Range(Skipped(Tcp)) THEN 0 ELSE 1
    BY ONLY <1>1, <1>2, <1>4, <1>5, <1>6, <2>1, p.proto \in Word, p.seg.dport \in Word, BlockRuns
  <2> QED BY <1>1, <1>3, <2>2
<1>8. r[m + 1][y] = IF y # Udp THEN r[m + n + 1][y] ELSE IF Skips(Udp) THEN 0 ELSE 1
  <2>1. m + 3 * Len(Skipped(Udp)) + 4 < Len(Filter)
    BY <1>3, <1>4
  <2>2. r[m + 1][y] = IF p.proto # Udp THEN r[(m + 3 * Len(Skipped(Udp)) + 4) + 1][p.proto]
                      ELSE IF p.seg.dport \in Range(Skipped(Udp)) THEN 0 ELSE 1
    BY ONLY <1>1, <1>2, <1>4, <1>5, <1>6, <2>1, p.proto \in Word, p.seg.dport \in Word, BlockRuns
  <2> QED BY <1>1, <1>3, <2>2
<1>9. r[m + n + 1][y] = 0
  <2>1. r[last] = Step(p, r, last)
    BY <1>4, <1>5 DEF From
  <2>2. r[last][y] = 0
    BY <1>2, <1>4, <1>6, <2>1, StepOf
  <2> QED BY <1>2, <2>2
<1>10. 0 + 1 = 1 /\ Tcp # Udp /\ y \in Nat
  BY WordNat DEF Tcp, Udp
<1> HIDE DEF y
<1>11. Run(p) = IF y = Tcp THEN (IF Skips(Tcp) THEN 0 ELSE 1)
                ELSE IF y = Udp THEN (IF Skips(Udp) THEN 0 ELSE 1) ELSE 0
  BY <1>5, <1>7, <1>8, <1>9, <1>10
<1>12. Passes(p) <=> (y = Tcp /\ ~Skips(Tcp)) \/ (y = Udp /\ ~Skips(Udp))
  BY DEF Passes, Transports, y
<1> HIDE DEF Skips
<1> QED BY <1>10, <1>11, <1>12

(***************************************************************************)
(* The inductive invariant: what is where on the way.                      *)
(***************************************************************************)

\* What processes send and, once it was answered, what the remote did.
Message ==
  {s \in [client : Clients, proto : Transports, sport : Word, dst : Word \ {Unspecified},
          dport : Word, options : Options, body : Word, name : STRING] :
     Marked(s.options) /\ (s.proto = Udp => s.options.mss = None)}

Links == [shard : Int, conn : Clients \X Nat, proc : Word \X Word, proto : Transports,
          server : Word \X Word, port : Ports]

\* A link is in the shard of its remote, leads to the client that added it with a
\* tunnel it has or had, and no other has its port at its remote.
LinksInv ==
  /\ links \subseteq Links
  /\ epoch \in [Clients -> Nat]
  /\ \A l \in links : /\ l.shard = Get(l.server[1])
                      /\ l.proc[1] = ClientAddr[l.conn[1]]
                      /\ l.conn[2] <= epoch[l.conn[1]]
  /\ \A l, m \in links : l.proto = m.proto /\ l.server = m.server /\ l.port = m.port => l = m

\* The link of what was sent, at a port of the server.
Its(l) == l.proc = <<ClientAddr[sent.client], sent.sport>> /\ l.server = <<sent.dst, sent.dport>>
Linked(port) == \E l \in links : Its(l) /\ l.proto = sent.proto /\ l.port = port

\* An IP packet with right checksums that carries what was sent in options o.
Carries(o) == /\ sent \in Message /\ pkt \in Packet /\ Right(pkt)
              /\ pkt.proto = sent.proto /\ pkt.seg.body = sent.body /\ pkt.seg.opts = o

\* UpdateTcpMssOption is where a reader of the options is, or has passed them all.
OnWalk ==
  \/ \E walk \in SUBSET (0..Len(sent.options.bytes)) :
       i \in walk /\ \A k \in walk : ReadAt(sent.options, k, walk)
  \/ i > Len(sent.options.bytes) /\ sent.options.mss = None

\* A packet from the process, and one to it.
ToRemote == pkt.dst = sent.dst /\ pkt.seg.dport = sent.dport
FromProcess == ToRemote /\ pkt.seg.sport = sent.sport
ToProcess == /\ pkt.src = sent.dst /\ pkt.seg.sport = sent.dport
             /\ pkt.dst = ClientAddr[sent.client] /\ pkt.seg.dport = sent.sport

\* A datagram of the tunnel: of its own TCP, with what was sent, or with an answer.
Datagrams == [client : Clients, proto : Transports, peer : Word, seg : Segment]

Own == sent = None /\ IsBuiltin(pkt)
Tunnelled ==
  /\ sent \in Message /\ pkt \in Datagrams
  /\ pkt.client = sent.client /\ pkt.proto = sent.proto /\ pkt.peer = sent.dst
  /\ pkt.seg.sport = sent.sport /\ pkt.seg.dport = sent.dport
  /\ pkt.seg.body = sent.body /\ pkt.seg.opts = Lowered(sent.options)
  /\ Balanced(pkt.proto, Unspecified, pkt.peer, [pkt.seg EXCEPT !.sport = 0])
Returned ==
  /\ sent \in Message /\ pkt \in Datagrams
  /\ ClientAddr[pkt.client] = ClientAddr[sent.client] /\ pkt.proto = sent.proto /\ pkt.peer = sent.dst
  /\ pkt.seg.sport = sent.dport /\ pkt.seg.dport = sent.sport
  /\ pkt.seg.body = sent.body /\ pkt.seg.opts = sent.options.bytes

\* What arrives at the server's interface: the answer, or another packet.
Answer ==
  /\ sent \in Message /\ pkt \in Packet
  /\ pkt.proto = sent.proto /\ pkt.src = sent.dst /\ pkt.seg.sport = sent.dport
  /\ pkt.seg.body = sent.body /\ pkt.seg.opts = sent.options.bytes
  /\ Linked(pkt.seg.dport)
Stranger ==
  /\ sent = None /\ pkt \in Packet
  /\ pkt.proto \in Transports => pkt.seg.dport \notin Ports

\* The link of what was sent is one of a tunnel that was given up.
Stale == \E l \in links : Its(l) /\ l.conn[2] < epoch[l.conn[1]]

PathInv ==
  /\ LinksInv
  /\ i \in Nat /\ (~InMss => i = 0)
  /\ at \in {"idle", "stack"} => sent = None
  /\ at = "capture" => Carries(sent.options.bytes) /\ FromProcess /\ OnWalk
  /\ at = "captured" => Carries(Lowered(sent.options)) /\ FromProcess
  /\ at = "up" => Own \/ Tunnelled
  /\ at = "serve" => Tunnelled
  /\ at = "wire" => /\ Carries(Lowered(sent.options)) /\ ToRemote /\ pkt.src = ServerAddr
                    /\ Linked(pkt.seg.sport)
  /\ at \in {"eth", "recv", "filtered", "dropped"} => Stranger \/ Answer
  /\ at = "dropped" => sent = None \/ Stale
  /\ at = "down" => Own \/ Returned
  /\ at = "inbound" => Returned
  /\ at = "inject" => Carries(sent.options.bytes) /\ ToProcess /\ OnWalk
  /\ at = "injected" => Carries(Lowered(sent.options)) /\ ToProcess

\* LinksInv is about links and tunnels alone.
LEMMA LinksSame ==
  ASSUME LinksInv, UNCHANGED <<links, epoch>>
  PROVE  LinksInv'
BY DEF LinksInv

\* At the start there is no packet and no link.
LEMMA InitInv == Init => PathInv
<1> SUFFICES ASSUME Init PROVE PathInv
  OBVIOUS
<1>1. LinksInv
  BY DEF Init, LinksInv
<1>2. i \in Nat /\ i = 0 /\ at = "idle" /\ sent = None
  BY DEF Init
<1> QED BY <1>1, <1>2 DEF PathInv

\* PathInv is about the variables alone.
LEMMA StutterInv ==
  ASSUME PathInv, UNCHANGED vars
  PROVE  PathInv'
<1>1. at' = at /\ pkt' = pkt /\ i' = i /\ sent' = sent /\ links' = links /\ epoch' = epoch
  BY DEF vars
<1>2. LinksInv'
  BY <1>1, LinksSame DEF PathInv
<1> QED BY <1>1, <1>2 DEF PathInv, InMss, Carries, FromProcess, ToRemote, OnWalk, Own, IsBuiltin, Tunnelled,
           Returned, Answer, Stranger, Stale, ToProcess, Linked, Its

\* A packet that is done with leaves nothing behind.
LEMMA ForgetInv ==
  ASSUME PathInv, Forget, ~InMss
  PROVE  PathInv'
<1>1. LinksInv'
  BY LinksSame DEF PathInv, Forget
<1>2. at' = "idle" /\ sent' = None /\ i' = 0
  BY DEF PathInv, Forget
<1> QED BY <1>1, <1>2 DEF PathInv

\* Where one packet of several kinds goes on.
LEMMA GoesIdle ==
  ASSUME PathInv, ~InMss, at' = "idle", sent' = None, UNCHANGED <<i, epoch, links>>
  PROVE  PathInv'
<1>1. LinksInv'
  BY LinksSame DEF PathInv
<1>2. i' = 0
  BY DEF PathInv
<1> QED BY <1>1, <1>2 DEF PathInv

\* The packet a process sends.
LEMMA CaptureInv ==
  ASSUME PathInv, Capture
  PROVE  PathInv'
<1>1. PICK s \in Sends :
        LET t == [sport |-> s.sport, dport |-> s.dport, sum |-> 0,
                  opts |-> s.options.bytes, body |-> s.body]
            src == ClientAddr[s.client]
            p == IP(s.proto, src, s.dst, [t EXCEPT !.sum = SegSum(s.proto, src, s.dst, t)])
        IN  /\ pkt' = p /\ sent' = s /\ at' \in {"passed", "capture"}
            /\ UNCHANGED <<i, links, epoch>> /\ at = "idle"
  BY DEF Capture
<1> DEFINE t == [sport |-> s.sport, dport |-> s.dport, sum |-> 0,
                 opts |-> s.options.bytes, body |-> s.body]
           src == ClientAddr[s.client]
           u == [t EXCEPT !.sum = SegSum(s.proto, src, s.dst, t)]
           p == IP(s.proto, src, s.dst, u)
<1>2. s \in Message
  <2>1. s.options \in {x.options : x \in Sends \cup Replies} /\ s \in Sends \cup Replies
    OBVIOUS
  <2> QED BY <2>1, TrafficAssumption DEF Message
<1>3. /\ s.client \in Clients /\ s.proto \in Transports /\ s.sport \in Word /\ s.dst \in Word
      /\ s.dport \in Word /\ s.options \in Options /\ s.body \in Word /\ Marked(s.options)
  BY <1>2 DEF Message
<1>4. src \in Word /\ s.proto \in Word /\ s.options.bytes \in Seq(Byte)
  BY <1>3, PathAssumption, WordNat DEF Transports, Options
<1>5. t \in Segment
  BY <1>3, <1>4, WordNat DEF Segment
<1>6. u \in Segment /\ Balanced(s.proto, src, s.dst, u)
  <2> HIDE DEF t, src
  <2> QED BY <1>3, <1>4, <1>5, SegSumBalances
<1>7. u.sport = s.sport /\ u.dport = s.dport /\ u.opts = s.options.bytes /\ u.body = s.body
  OBVIOUS
<1>8. pkt' = p /\ sent' = s /\ at' \in {"passed", "capture"} /\ UNCHANGED <<i, links, epoch>> /\ at = "idle"
  BY <1>1
<1> HIDE DEF t, src, u
<1>9. p \in Packet /\ p.hsum = HdrSum(p) /\ p.proto = s.proto /\ p.src = src /\ p.dst = s.dst /\ p.seg = u
  BY <1>3, <1>4, <1>6, IPTyped
<1> HIDE DEF p
<1>10. Right(p)
  BY <1>6, <1>9 DEF Right
<1>11. (Carries(sent.options.bytes) /\ FromProcess)'
  BY <1>2, <1>7, <1>8, <1>9, <1>10 DEF Carries, FromProcess, ToRemote
<1>12. i' = 0 /\ LinksInv'
  BY <1>8, LinksSame DEF PathInv, InMss
<1>13. OnWalk'
  <2>1. PICK walk \in SUBSET (0..Len(s.options.bytes)) : 0 \in walk /\ \A k \in walk : ReadAt(s.options, k, walk)
    BY <1>3 DEF Marked
  <2> QED BY <1>8, <1>12, <2>1 DEF OnWalk
<1>14. at' = "passed" \/ at' = "capture"
  BY <1>8
<1>15. CASE at' = "passed"
  BY <1>12, <1>15 DEF PathInv
<1>16. CASE at' = "capture"
  BY <1>11, <1>12, <1>13, <1>16 DEF PathInv, InMss
<1> QED BY <1>14, <1>15, <1>16

(***************************************************************************)
(* The walk over the options.                                              *)
(***************************************************************************)

\* Options without an MSS, or with one that is not above the overhead, are not
\* changed, and nothing is when there is no overhead.
LEMMA LoweredSame ==
  ASSUME NEW o \in Options,
         \/ o.mss = None
         \/ WordOf(o.bytes[o.mss + 3], o.bytes[o.mss + 4]) <= Overhead
         \/ Overhead = 0 /\ o.mss + 4 <= Len(o.bytes)
  PROVE  Lowered(o) = o.bytes
<1> DEFINE k == o.mss
           b == o.bytes
           mss == WordOf(b[k + 3], b[k + 4])
<1>1. CASE k = None \/ mss <= Overhead
  BY <1>1 DEF Lowered
<1>2. CASE k # None /\ ~(mss <= Overhead) /\ Overhead = 0 /\ k + 4 <= Len(b)
  <2>1. k \in Nat /\ b \in Seq(Byte) /\ k + 3 \in 1..Len(b) /\ k + 4 \in 1..Len(b)
    BY <1>2 DEF Options
  <2>2. b[k + 3] \in Byte /\ b[k + 4] \in Byte
    BY <2>1, ElementOfSeq
  <2>3. mss \in Int /\ mss \div Radix = b[k + 3] /\ mss % Radix = b[k + 4]
    BY <2>2, WordBytes, WordNat
  <2>4. Lowered(o) = [b EXCEPT ![k + 3] = (mss - Overhead) \div Radix, ![k + 4] = (mss - Overhead) % Radix]
    BY <1>2 DEF Lowered
  <2> HIDE DEF mss, b, k
  <2>5. mss - Overhead = mss
    BY <1>2, <2>3
  <2>6. Lowered(o) = [b EXCEPT ![k + 3] = b[k + 3], ![k + 4] = b[k + 4]]
    BY <2>3, <2>4, <2>5
  <2> QED BY <2>1, <2>6 DEF b
<1> QED BY <1>1, <1>2

\* A packet in UpdateTcpMssOption, and what is known of it.
LEMMA InMssFacts ==
  ASSUME PathInv, InMss
  PROVE  /\ i \in Nat /\ Carries(sent.options.bytes) /\ OnWalk /\ sent.options \in Options
         /\ Marked(sent.options) /\ (sent.proto = Udp => sent.options.mss = None)
         /\ sent.proto \in Transports
         /\ N = Len(sent.options.bytes) /\ N \in Nat /\ N % 4 = 0
<1>1. i \in Nat /\ Carries(sent.options.bytes) /\ OnWalk
  BY DEF PathInv, InMss
<1>2. /\ sent.options \in Options /\ Marked(sent.options) /\ sent.proto \in Transports
      /\ sent.proto = Udp => sent.options.mss = None
  BY <1>1 DEF Carries, Message
<1>3. N = Len(sent.options.bytes) /\ Len(sent.options.bytes) \in Nat /\ Len(sent.options.bytes) % 4 = 0
  <2>1. N = Len(sent.options.bytes)
    BY <1>1 DEF Carries, N
  <2>2. sent.options.bytes \in Seq(Byte)
    BY <1>2 DEF Options
  <2>3. Len(sent.options.bytes) % 4 = 0
    BY <1>2 DEF Marked
  <2> QED BY <2>1, <2>2, <2>3, LenProperties
<1> QED BY <1>1, <1>2, <1>3

\* UpdateTcpMssOption returns with the options as they are to be.
LEMMA ReturnInv ==
  ASSUME PathInv, InMss, NEW p \in Packet, Return(p), Right(p),
         p.proto = pkt.proto, p.src = pkt.src, p.dst = pkt.dst,
         p.seg.sport = pkt.seg.sport, p.seg.dport = pkt.seg.dport, p.seg.body = pkt.seg.body,
         p.seg.opts = Lowered(sent.options)
  PROVE  PathInv'
<1>1. /\ pkt' = p /\ sent' = sent /\ i' = 0 /\ links' = links /\ epoch' = epoch
      /\ at' = (IF at = "capture" THEN "captured" ELSE "injected")
  BY DEF Return
<1>2. LinksInv'
  BY <1>1, LinksSame DEF PathInv
<1>3. Carries(Lowered(sent.options))'
  BY <1>1, InMssFacts DEF Carries, Lowered
<1>4. CASE at = "capture"
  <2>1. FromProcess'
    BY <1>1, <1>4 DEF PathInv, FromProcess, ToRemote
  <2>2. at' = "captured"
    BY <1>1, <1>4
  <2> QED BY <1>1, <1>2, <1>3, <2>1, <2>2 DEF PathInv
<1>5. CASE at = "inject"
  <2>1. ToProcess'
    BY <1>1, <1>5 DEF PathInv, ToProcess
  <2>2. at' = "injected"
    BY <1>1, <1>5
  <2> QED BY <1>1, <1>2, <1>3, <2>1, <2>2 DEF PathInv
<1> QED BY <1>4, <1>5 DEF InMss

\* It returns what it was given: there is nothing to lower.
LEMMA ReturnSame ==
  ASSUME PathInv, InMss, Return(pkt), Lowered(sent.options) = sent.options.bytes
  PROVE  PathInv'
<1>1. pkt \in Packet /\ Right(pkt) /\ pkt.seg.opts = Lowered(sent.options)
  BY InMssFacts DEF Carries
<1> QED BY <1>1, ReturnInv

\* It goes on.
LEMMA AdvanceInv ==
  ASSUME PathInv, InMss, NEW k \in Nat, Advance(k),
         \/ \E walk \in SUBSET (0..N) : i + k \in walk /\ \A x \in walk : ReadAt(sent.options, x, walk)
         \/ i + k > N /\ sent.options.mss = None
  PROVE  PathInv'
<1>1. i' = i + k /\ pkt' = pkt /\ sent' = sent /\ at' = at /\ links' = links /\ epoch' = epoch
  BY DEF Advance
<1>2. LinksInv'
  BY <1>1, LinksSame DEF PathInv
<1>3. i' \in Nat /\ InMss'
  BY <1>1, InMssFacts DEF InMss
<1>4. OnWalk'
  BY <1>1, InMssFacts DEF OnWalk
<1>5. Carries(sent.options.bytes)'
  BY <1>1, InMssFacts DEF Carries
<1>6. CASE at = "capture"
  <2>1. FromProcess'
    BY <1>1, <1>6 DEF PathInv, FromProcess, ToRemote
  <2> QED BY <1>1, <1>2, <1>3, <1>4, <1>5, <1>6, <2>1 DEF PathInv
<1>7. CASE at = "inject"
  <2>1. ToProcess'
    BY <1>1, <1>7 DEF PathInv, ToProcess
  <2> QED BY <1>1, <1>2, <1>3, <1>4, <1>5, <1>7, <2>1 DEF PathInv
<1> QED BY <1>6, <1>7 DEF InMss

\* In the loop the reader is at the same option, and both step over it alike.
LEMMA LoopWalk ==
  ASSUME PathInv, InLoop
  PROVE  /\ \E walk \in SUBSET (0..N) : /\ \A x \in walk : ReadAt(sent.options, x, walk)
                                        /\ i \in walk /\ ReadAt(sent.options, i, walk)
         /\ InMss /\ i \in Nat /\ i < N /\ Opt(i) = sent.options.bytes[i + 1]
         /\ i + 1 < N => Opt(i + 1) = sent.options.bytes[i + 2] /\ Opt(i + 1) \in Byte
<1>1. InMss /\ i < N
  BY DEF InLoop
<1>2. /\ i \in Nat /\ N \in Nat /\ N = Len(sent.options.bytes) /\ OnWalk
      /\ pkt.seg.opts = sent.options.bytes /\ sent.options.bytes \in Seq(Byte)
  BY <1>1, InMssFacts DEF Carries, Options
<1>3. PICK walk \in SUBSET (0..N) : i \in walk /\ \A x \in walk : ReadAt(sent.options, x, walk)
  BY <1>1, <1>2 DEF OnWalk
<1>4. Opt(i) = sent.options.bytes[i + 1]
  BY <1>2 DEF Opt
<1>5. ASSUME i + 1 < N PROVE Opt(i + 1) = sent.options.bytes[i + 2] /\ Opt(i + 1) \in Byte
  <2>1. (i + 1) + 1 = i + 2 /\ i + 2 \in 1..N
    BY <1>2, <1>5
  <2>2. sent.options.bytes[i + 2] \in Byte
    BY <1>2, <2>1, ElementOfSeq
  <2> QED BY <1>2, <2>1, <2>2 DEF Opt
<1> QED BY <1>1, <1>2, <1>3, <1>4, <1>5

\* A packet that UpdateTcpMssOption leaves alone has nothing to lower, unless the
\* overhead is zero.
LEMMA MssSkipInv ==
  ASSUME PathInv, MssSkip
  PROVE  PathInv'
<1> DEFINE o == sent.options
<1>1. InMss /\ Return(pkt) /\ (pkt.proto # Tcp \/ Overhead = 0 \/ i >= N)
  BY DEF MssSkip
<1>2. /\ i \in Nat /\ N = Len(o.bytes) /\ N \in Nat /\ o \in Options /\ Marked(o) /\ OnWalk
      /\ pkt.proto = sent.proto /\ sent.proto \in Transports
      /\ sent.proto = Udp => o.mss = None
  BY <1>1, InMssFacts DEF Carries
<1>3. Lowered(o) = o.bytes
  <2>1. CASE pkt.proto # Tcp
    <3>1. o.mss = None
      BY <1>2, <2>1 DEF Transports
    <3> QED BY <1>2, <3>1, LoweredSame
  <2>2. CASE Overhead = 0
    <3>1. o.mss = None \/ o.mss + 4 <= Len(o.bytes)
      BY <1>2 DEF Marked
    <3> QED BY <1>2, <2>2, <3>1, LoweredSame
  <2>3. CASE i >= N
    <3>1. o.mss = None
      <4>1. CASE i > N
        <5>1. i \notin 0..N
          BY <1>2, <4>1
        <5> QED BY <1>2, <5>1 DEF OnWalk
      <4>2. CASE i = N
        <5>1. PICK walk \in SUBSET (0..N) : i \in walk /\ ReadAt(o, i, walk)
          BY <1>2, <4>2 DEF OnWalk
        <5>2. ReadAt(o, N, walk)
          BY <4>2, <5>1
        <5> QED BY <1>2, <5>2 DEF ReadAt
      <4> QED BY <1>2, <2>3, <4>1, <4>2
    <3> QED BY <1>2, <3>1, LoweredSame
  <2> QED BY <1>1, <2>1, <2>2, <2>3
<1> QED BY <1>1, <1>3, ReturnSame

\* A NOP brings the index to the next place of the walk.
LEMMA MssNopInv ==
  ASSUME PathInv, MssNop
  PROVE  PathInv'
<1>1. InLoop /\ Opt(i) = NOP /\ Advance(1)
  BY DEF MssNop
<1>2. PICK walk \in SUBSET (0..N) : /\ \A x \in walk : ReadAt(sent.options, x, walk)
                                    /\ i \in walk /\ ReadAt(sent.options, i, walk)
  BY <1>1, LoopWalk
<1>3. InMss /\ i \in Nat /\ i < N /\ Opt(i) = sent.options.bytes[i + 1] /\ N = Len(sent.options.bytes)
  BY <1>1, LoopWalk, InMssFacts
<1>4. i + 1 \in walk
  BY <1>1, <1>2, <1>3 DEF ReadAt, EOL, NOP, MSS
<1> QED BY <1>1, <1>2, <1>3, <1>4, AdvanceInv

\* Behind an EOL there is no MSS option to lower.
LEMMA MssEolInv ==
  ASSUME PathInv, MssEol
  PROVE  PathInv'
<1>1. InLoop /\ Opt(i) = EOL /\ Return(pkt)
  BY DEF MssEol
<1>2. PICK walk \in SUBSET (0..N) : i \in walk /\ ReadAt(sent.options, i, walk)
  BY <1>1, LoopWalk
<1>3. /\ InMss /\ i \in Nat /\ i < N /\ Opt(i) = sent.options.bytes[i + 1] /\ N = Len(sent.options.bytes)
      /\ sent.options \in Options
  BY <1>1, LoopWalk, InMssFacts
<1>4. sent.options.mss = None
  BY <1>1, <1>2, <1>3 DEF ReadAt, EOL, NOP, MSS
<1>5. Lowered(sent.options) = sent.options.bytes
  BY <1>3, <1>4, LoweredSame
<1> QED BY <1>1, <1>3, <1>5, ReturnSame

\* Another option brings the index to the next place of the walk, or beyond the end
\* of options without an MSS option.
LEMMA MssOtherInv ==
  ASSUME PathInv, MssOther
  PROVE  PathInv'
<1>1. InLoop /\ Opt(i) \notin {EOL, NOP, MSS} /\ (IF i + 1 < N THEN Advance(Opt(i + 1)) ELSE Return(pkt))
  BY DEF MssOther
<1>2. PICK walk \in SUBSET (0..N) : /\ \A x \in walk : ReadAt(sent.options, x, walk)
                                    /\ i \in walk /\ ReadAt(sent.options, i, walk)
  BY <1>1, LoopWalk
<1>3. /\ InMss /\ i \in Nat /\ i < N /\ Opt(i) = sent.options.bytes[i + 1] /\ N = Len(sent.options.bytes)
      /\ i + 1 < N => Opt(i + 1) = sent.options.bytes[i + 2] /\ Opt(i + 1) \in Byte
      /\ N \in Nat /\ sent.options \in Options
  BY <1>1, LoopWalk, InMssFacts
<1>4. CASE i + 1 < N
  <2>1. Opt(i + 1) \in Nat
    BY <1>3, <1>4, WordNat
  <2>2. i + Opt(i + 1) \in walk \/ (i + Opt(i + 1) > N /\ sent.options.mss = None)
    BY <1>1, <1>2, <1>3, <1>4 DEF ReadAt, EOL, NOP, MSS
  <2>3. Advance(Opt(i + 1))
    BY <1>1, <1>4
  <2> QED BY <1>2, <1>3, <2>1, <2>2, <2>3, AdvanceInv
<1>5. CASE ~(i + 1 < N)
  <2>1. i + 1 = N
    BY <1>3, <1>5
  <2>2. sent.options.mss = None
    BY <1>1, <1>2, <1>3, <2>1 DEF ReadAt, EOL, NOP, MSS
  <2>3. Lowered(sent.options) = sent.options.bytes
    BY <1>3, <2>2, LoweredSame
  <2> QED BY <1>1, <1>3, <1>5, <2>3, ReturnSame
<1> QED BY <1>4, <1>5

\* The option is lowered where it is, under a checksum that makes up for it.
LEMMA MssUpdateInv ==
  ASSUME PathInv, MssUpdate
  PROVE  PathInv'
<1> DEFINE o == sent.options
<1>1. InLoop /\ Opt(i) = MSS
  BY DEF MssUpdate
<1>2. PICK walk \in SUBSET (0..N) : i \in walk /\ ReadAt(o, i, walk)
  BY <1>1, LoopWalk
<1>3. /\ InMss /\ i \in Nat /\ i < N /\ Opt(i) = o.bytes[i + 1] /\ N = Len(o.bytes) /\ N \in Nat /\ N % 4 = 0
      /\ o \in Options /\ (i + 1 < N => Opt(i + 1) = o.bytes[i + 2])
      /\ pkt \in Packet /\ Right(pkt) /\ pkt.seg.opts = o.bytes
  BY <1>1, LoopWalk, InMssFacts DEF Carries
<1>4. o.mss = IF WellFormed THEN i ELSE None
  <2>1. o.mss = IF i + 4 <= N /\ o.bytes[i + 2] = 4 THEN i ELSE None
    BY <1>1, <1>2, <1>3 DEF ReadAt, EOL, NOP, MSS
  <2>2. WellFormed <=> i + 4 <= N /\ o.bytes[i + 2] = 4
    BY <1>3 DEF WellFormed
  <2> QED BY <2>1, <2>2
<1>5. CASE WellFormed
  <2>1. o.mss = i /\ i # None
    BY <1>3, <1>4, <1>5, PathAssumption
  <2>2. i % 2 = 0 \/ i + 5 <= N
    <3>1. i + 4 <= N
      BY <1>5 DEF WellFormed
    <3> DEFINE n == N
    <3>2. n \in Nat /\ i \in Nat /\ n % 4 = 0 /\ i + 4 <= n
      BY <1>3, <3>1
    <3> HIDE DEF n
    <3>3. n = 4 * (n \div 4) /\ n \div 4 \in Int
      BY ONLY <3>2
    <3>4. i % 2 # 0 => i + 4 # n
      BY ONLY <3>2, <3>3
    <3>5. i % 2 = 0 \/ i + 5 <= n
      BY ONLY <3>2, <3>4
    <3> QED BY <3>5 DEF n
  <2>3. Old = WordOf(o.bytes[i + 3], o.bytes[i + 4]) /\ Old \in Int
    <3>1. (i + 2) + 1 = i + 3 /\ (i + 3) + 1 = i + 4 /\ i + 3 \in 1..N /\ i + 4 \in 1..N
      BY <1>3, <1>5 DEF WellFormed
    <3>2. o.bytes[i + 3] \in Byte /\ o.bytes[i + 4] \in Byte
      BY <1>3, <3>1, ElementOfSeq DEF Options
    <3> QED BY <1>3, <3>1, <3>2, WordBytes, WordNat DEF Old, Opt
  <2>4. New = Old - Overhead /\ Overhead \in Nat
    BY PathAssumption DEF New
  <2>5. CASE New > 0
    <3> DEFINE p == [pkt EXCEPT !.seg.opts = NewOpts, !.seg.sum = MssSum]
    <3>1. /\ p \in Packet /\ Right(p)
          /\ p.proto = pkt.proto /\ p.src = pkt.src /\ p.dst = pkt.dst
          /\ p.seg.sport = pkt.seg.sport /\ p.seg.dport = pkt.seg.dport
          /\ p.seg.opts = NewOpts /\ p.seg.body = pkt.seg.body
      BY <1>3, <1>5, <2>2, <2>5, MssUpdateRight
    <3>2. NewOpts = Lowered(o)
      <4>1. ~(Old <= Overhead)
        BY <2>3, <2>4, <2>5
      <4> QED BY <1>3, <2>1, <2>3, <4>1 DEF NewOpts, New, Lowered
    <3>3. Return(p)
      BY <1>5, <2>2, <2>5 DEF MssUpdate
    <3> HIDE DEF p
    <3> QED BY <1>3, <3>1, <3>2, <3>3, ReturnInv
  <2>6. CASE ~(New > 0)
    <3>1. Old <= Overhead
      BY <2>3, <2>4, <2>6
    <3>2. Lowered(o) = o.bytes
      BY <1>3, <2>1, <2>3, <3>1, LoweredSame
    <3>3. Return(pkt)
      BY <2>6 DEF MssUpdate
    <3> QED BY <1>3, <3>2, <3>3, ReturnSame
  <2> QED BY <2>5, <2>6
<1>6. CASE ~WellFormed
  <2>1. Lowered(o) = o.bytes
    BY <1>3, <1>4, <1>6, LoweredSame
  <2>2. Return(pkt)
    BY <1>6 DEF MssUpdate
  <2> QED BY <1>3, <2>1, <2>2, ReturnSame
<1> QED BY <1>5, <1>6

(***************************************************************************)
(* Uplink.                                                                 *)
(***************************************************************************)

\* The checksum that the server expects: source address and port are zero.
LEMMA ClientSumBalances ==
  ASSUME NEW proto \in Word, NEW dst \in Word, NEW t \in Segment
  PROVE  LET u == ClientSum(t, proto, dst) IN
         /\ u \in Segment /\ u.sport = t.sport /\ u.dport = t.dport /\ u.opts = t.opts /\ u.body = t.body
         /\ Balanced(proto, Unspecified, dst, [u EXCEPT !.sport = 0])
<1> DEFINE z == [t EXCEPT !.sport = 0]
           x == SegSum(proto, Unspecified, dst, z)
           u == [t EXCEPT !.sum = x]
<1>1. z \in Segment /\ Unspecified \in Word
  BY WordNat DEF Segment, Unspecified
<1>2. [u EXCEPT !.sport = 0] = [z EXCEPT !.sum = x]
  BY DEF Segment
<1>3. ClientSum(t, proto, dst) = u
  BY DEF ClientSum
<1> HIDE DEF z
<1>4. x \in Word /\ Balanced(proto, Unspecified, dst, [z EXCEPT !.sum = x])
  BY <1>1, SegSumBalances
<1> HIDE DEF x
<1>5. u \in Segment /\ u.sport = t.sport /\ u.dport = t.dport /\ u.opts = t.opts /\ u.body = t.body
  BY <1>4 DEF Segment
<1> QED BY <1>2, <1>3, <1>4, <1>5

\* uplinkService leaves the sum the segment would have from address and port zero.
LEMMA UplinkServiceInv ==
  ASSUME PathInv, UplinkService
  PROVE  PathInv'
<1> DEFINE u == ClientSum(pkt.seg, pkt.proto, pkt.dst)
           d == Datagram(sent.client, pkt.proto, pkt.dst, u)
<1>1. at = "captured" /\ at' = "up" /\ pkt' = d /\ UNCHANGED <<i, sent, links, epoch>>
  BY DEF UplinkService, Goto
<1>2. Carries(Lowered(sent.options)) /\ FromProcess
  BY <1>1 DEF PathInv
<1>3. /\ sent \in Message /\ sent.client \in Clients /\ sent.proto \in Transports /\ pkt.proto = sent.proto
      /\ pkt.proto \in Word /\ pkt.dst \in Word /\ pkt.seg \in Segment /\ pkt.dst = sent.dst
      /\ pkt.seg.sport = sent.sport /\ pkt.seg.dport = sent.dport
      /\ pkt.seg.opts = Lowered(sent.options) /\ pkt.seg.body = sent.body
  BY <1>2 DEF Carries, FromProcess, ToRemote, Message, Packet
<1>4. /\ u \in Segment /\ u.sport = sent.sport /\ u.dport = sent.dport /\ u.opts = Lowered(sent.options)
      /\ u.body = sent.body
      /\ Balanced(sent.proto, Unspecified, sent.dst, [u EXCEPT !.sport = 0])
  BY <1>3, ClientSumBalances
<1> HIDE DEF u
<1>5. /\ d.client = sent.client /\ d.proto = sent.proto /\ d.peer = sent.dst /\ d.seg = u
      /\ d \in Datagrams
  BY <1>3, <1>4 DEF Datagram, Datagrams
<1> HIDE DEF d
<1>6. Tunnelled'
  BY <1>1, <1>3, <1>4, <1>5 DEF Tunnelled, Lowered
<1>7. LinksInv' /\ i' = 0
  BY <1>1, LinksSame DEF PathInv, InMss
<1> QED BY <1>1, <1>6, <1>7 DEF PathInv, InMss

\* The user-mode stack's own packets carry the unspecified address.
LEMMA OutboundServiceInv ==
  ASSUME PathInv, OutboundService
  PROVE  PathInv'
<1>1. /\ at = "idle" /\ at' \in {"up", "down"} /\ UNCHANGED <<i, sent, links, epoch>>
      /\ IsBuiltin(pkt')
  BY DEF OutboundService, Datagram, IsBuiltin
<1>2. LinksInv' /\ i' = 0 /\ sent' = None
  BY <1>1, LinksSame DEF PathInv, InMss
<1>3. Own'
  BY <1>1, <1>2 DEF Own, IsBuiltin
<1> QED BY <1>1, <1>2, <1>3 DEF PathInv, InMss

\* Recv tells the stack's packets from those of the program.
LEMMA RecvInv ==
  ASSUME PathInv, Recv
  PROVE  PathInv'
<1>1. /\ at \in {"up", "down"} /\ pkt' = pkt /\ UNCHANGED <<i, sent, links, epoch>>
      /\ at' = IF IsBuiltin(pkt) THEN "stack" ELSE IF at = "up" THEN "serve" ELSE "inbound"
  BY DEF Recv, Goto
<1>2. LinksInv' /\ i' = 0
  BY <1>1, LinksSame DEF PathInv, InMss
<1>3. (at = "up" => Own \/ Tunnelled) /\ (at = "down" => Own \/ Returned)
  BY DEF PathInv
<1>4. Tunnelled \/ Returned => ~IsBuiltin(pkt)
  BY DEF Tunnelled, Returned, IsBuiltin, Message
<1>5. CASE IsBuiltin(pkt)
  <2>1. sent' = None /\ at' = "stack"
    BY <1>1, <1>3, <1>4, <1>5 DEF Own
  <2> QED BY <1>2, <2>1 DEF PathInv
<1>6. CASE ~IsBuiltin(pkt) /\ at = "up"
  <2>1. Tunnelled' /\ at' = "serve"
    BY <1>1, <1>3, <1>6 DEF Own, Tunnelled, Lowered
  <2> QED BY <1>2, <2>1 DEF PathInv
<1>7. CASE ~IsBuiltin(pkt) /\ at = "down"
  <2>1. Returned' /\ at' = "inbound"
    BY <1>1, <1>3, <1>7 DEF Own, Returned
  <2> QED BY <1>2, <2>1 DEF PathInv
<1> QED BY <1>1, <1>5, <1>6, <1>7

(***************************************************************************)
(* The server.                                                             *)
(***************************************************************************)

\* What the fields of a link are.
LEMMA LinkFields ==
  ASSUME NEW l \in Links
  PROVE  /\ l.conn[1] \in Clients /\ l.conn[2] \in Nat /\ l.proc = <<l.proc[1], l.proc[2]>>
         /\ l.proc[2] \in Word /\ l.proto \in Transports /\ l.server[1] \in Word /\ l.server[2] \in Word
         /\ l.port \in Ports /\ l.port \in Word
BY PathAssumption DEF Links

\* What serveConn sends: the sum the client left is made up to the server's.
LEMMA WireInv ==
  ASSUME PathInv, at = "serve", NEW port \in Word, at' = "wire", LinksInv', Linked(port)',
         pkt' = IP(pkt.proto, ServerAddr, pkt.peer, ServerSum(pkt.seg, port)),
         UNCHANGED <<sent, i>>
  PROVE  PathInv'
<1> DEFINE t == ServerSum(pkt.seg, port)
           p == IP(pkt.proto, ServerAddr, pkt.peer, t)
<1>1. Tunnelled
  BY DEF PathInv
<1>2. /\ sent \in Message /\ pkt.proto = sent.proto /\ pkt.peer = sent.dst /\ pkt.seg \in Segment
      /\ pkt.proto \in Word /\ pkt.peer \in Word /\ ServerAddr \in Word
      /\ Balanced(pkt.proto, Unspecified, pkt.peer, [pkt.seg EXCEPT !.sport = 0])
  BY <1>1, PathAssumption, WordNat DEF Tunnelled, Datagrams, Transports
<1>3. t \in Segment /\ Balanced(pkt.proto, ServerAddr, pkt.peer, t)
  BY <1>2, ServerSumBalances
<1>4. t.sport = port /\ t.dport = sent.dport /\ t.opts = Lowered(sent.options) /\ t.body = sent.body
  BY <1>1, <1>2 DEF ServerSum, Tunnelled, Segment
<1> HIDE DEF t
<1>5. /\ p \in Packet /\ p.hsum = HdrSum(p)
      /\ p.proto = pkt.proto /\ p.src = ServerAddr /\ p.dst = pkt.peer /\ p.seg = t
  BY <1>2, <1>3, IPTyped
<1>6. pkt' = p
  BY DEF t
<1> HIDE DEF p
<1>7. Right(p)
  BY <1>3, <1>5 DEF Right
<1>8. Carries(Lowered(sent.options))'
  BY <1>2, <1>4, <1>5, <1>6, <1>7 DEF Carries, Lowered
<1>9. ToRemote' /\ pkt'.src = ServerAddr /\ pkt'.seg.sport = port
  BY <1>2, <1>4, <1>5, <1>6 DEF ToRemote
<1>10. i' = 0
  BY DEF PathInv, InMss
<1>11. Linked(pkt.seg.sport)'
  BY <1>9
<1> QED BY <1>8, <1>9, <1>10, <1>11 DEF PathInv

\* A link is added at a port that no other link to the remote has.
LEMMA AddLink ==
  ASSUME LinksInv, NEW c \in Clients, NEW sport \in Word, NEW proto \in Transports,
         NEW server \in Word \X Word, NEW p \in Leasable(proto, server),
         links' = links \cup {Link(c, <<ClientAddr[c], sport>>, proto, server, p)}, epoch' = epoch
  PROVE  LinksInv'
<1> DEFINE k == Link(c, <<ClientAddr[c], sport>>, proto, server, p)
<1>1. /\ k.shard = Get(server[1]) /\ k.conn = <<c, epoch[c]>> /\ k.proc = <<ClientAddr[c], sport>>
      /\ k.proto = proto /\ k.server = server /\ k.port = p
  BY DEF Link
<1>2. /\ p \in Ports /\ \A l \in links : ~(l.proto = proto /\ l.server = server /\ l.port = p)
      /\ ClientAddr[c] \in Word /\ epoch[c] \in Nat
  BY PathAssumption DEF Leasable, LinksInv
<1>3. Get(server[1]) \in Int
  <2>1. server[1] \in Int /\ Radix \in Int /\ Radix > 0 /\ Mutx \in Int /\ Mutx > 0
    BY PathAssumption, WordNat
  <2>2. server[1] % Radix \in Int
    BY <2>1, DivMod
  <2>3. (server[1] % Radix) % Mutx \in Int
    BY <2>1, <2>2, DivMod
  <2> QED BY <2>3 DEF Get
<1>4. k \in Links
  BY <1>2, <1>3 DEF Link, Links
<1> HIDE DEF k
<1>5. links' \subseteq Links
  BY <1>4 DEF LinksInv, k
<1>6. ASSUME NEW l \in links'
      PROVE  l.shard = Get(l.server[1]) /\ l.proc[1] = ClientAddr[l.conn[1]] /\ l.conn[2] <= epoch'[l.conn[1]]
  <2>1. CASE l \in links
    BY <2>1 DEF LinksInv
  <2>2. CASE l = k
    BY <1>1, <1>2, <2>2
  <2> QED BY <1>6, <2>1, <2>2 DEF k
<1>7. ASSUME NEW l \in links', NEW m \in links', l.proto = m.proto, l.server = m.server, l.port = m.port
      PROVE  l = m
  <2>1. (l \in links \/ l = k) /\ (m \in links \/ m = k)
    BY DEF k
  <2> QED BY <1>1, <1>2, <1>7, <2>1 DEF LinksInv
<1>8. epoch' \in [Clients -> Nat]
  BY DEF LinksInv
<1> QED BY <1>5, <1>6, <1>7, <1>8 DEF LinksInv

\* serveConn finds the link of the packet's process or makes one, on a leased port.
LEMMA ServeConnInv ==
  ASSUME PathInv, ServeConn
  PROVE  PathInv'
<1> DEFINE proc == <<ClientAddr[pkt.client], pkt.seg.sport>>
           server == <<pkt.peer, pkt.seg.dport>>
<1>1. at = "serve" /\ UNCHANGED <<i, epoch>>
  BY DEF ServeConn
<1>2. Tunnelled /\ LinksInv
  BY <1>1 DEF PathInv
<1>3. /\ sent \in Message /\ pkt.client = sent.client /\ pkt.proto = sent.proto /\ pkt.peer = sent.dst
      /\ pkt.seg.sport = sent.sport /\ pkt.seg.dport = sent.dport
      /\ sent.client \in Clients /\ sent.proto \in Transports /\ sent.dst \in Word /\ sent.dport \in Word
      /\ sent.sport \in Word
  BY <1>2 DEF Tunnelled, Message
<1>4. proc = <<ClientAddr[sent.client], sent.sport>> /\ server = <<sent.dst, sent.dport>>
  BY <1>3
<1> DEFINE Send(port) == /\ at' = "wire"
                         /\ pkt' = IP(pkt.proto, ServerAddr, pkt.peer, ServerSum(pkt.seg, port))
                         /\ UNCHANGED sent
<1>5. \/ \E l \in Uplinks(proc, pkt.proto, server) : Send(l.port) /\ UNCHANGED links
      \/ \E p \in Leasable(pkt.proto, server) :
           links' = links \cup {Link(pkt.client, proc, pkt.proto, server, p)} /\ Send(p)
      \/ at' = "idle" /\ pkt' = None /\ sent' = None /\ UNCHANGED links
  BY DEF ServeConn
<1>6. ASSUME NEW l \in Uplinks(proc, pkt.proto, server), Send(l.port), UNCHANGED links
      PROVE  PathInv'
  <2>1. l \in links /\ l.proc = proc /\ l.proto = sent.proto /\ l.server = server
    BY <1>3 DEF Uplinks
  <2>2. l.port \in Word
    BY <1>2, <2>1, LinkFields DEF LinksInv
  <2>3. Linked(l.port)'
    BY <1>4, <1>6, <2>1 DEF Linked, Its
  <2>4. LinksInv'
    BY <1>1, <1>2, <1>6, LinksSame
  <2> QED BY <1>1, <1>6, <2>2, <2>3, <2>4, WireInv
<1>7. ASSUME NEW p \in Leasable(pkt.proto, server),
             links' = links \cup {Link(pkt.client, proc, pkt.proto, server, p)}, Send(p)
      PROVE  PathInv'
  <2>1. server \in Word \X Word /\ pkt.client \in Clients /\ pkt.proto \in Transports /\ pkt.seg.sport \in Word
    BY <1>3
  <2>2. LinksInv'
    BY <1>1, <1>2, <1>7, <2>1, AddLink
  <2>3. p \in Word
    BY PathAssumption DEF Leasable
  <2> DEFINE k == Link(pkt.client, proc, pkt.proto, server, p)
  <2>4. k.proc = proc /\ k.proto = pkt.proto /\ k.server = server /\ k.port = p /\ k \in links'
    BY <1>7 DEF Link
  <2> HIDE DEF k
  <2>5. Linked(p)'
    BY <1>3, <1>4, <1>7, <2>4 DEF Linked, Its
  <2> QED BY <1>1, <1>7, <2>2, <2>3, <2>5, WireInv
<1>8. ASSUME at' = "idle", sent' = None, UNCHANGED links
      PROVE  PathInv'
  BY <1>1, <1>8, GoesIdle DEF InMss
<1> QED BY <1>5, <1>6, <1>7, <1>8

\* The answer goes back to the port that the packet came from.
LEMMA ReplyInv ==
  ASSUME PathInv, Reply
  PROVE  PathInv'
<1>1. at = "wire" /\ UNCHANGED <<i, links, epoch>>
  BY DEF Reply
<1>2. CASE at' = "idle" /\ sent' = None
  BY <1>1, <1>2, GoesIdle DEF InMss
<1>3. ASSUME NEW r \in Replies,
             LET t == [sport |-> pkt.seg.dport, dport |-> pkt.seg.sport, sum |-> 0,
                       opts |-> r.options.bytes, body |-> r.body]
             IN  /\ r.proto = pkt.proto
                 /\ pkt' = IP(pkt.proto, pkt.dst, ServerAddr,
                              [t EXCEPT !.sum = SegSum(pkt.proto, pkt.dst, ServerAddr, t)])
                 /\ sent' = [sent EXCEPT !.options = r.options, !.body = r.body]
                 /\ at' = "eth"
      PROVE  PathInv'
  <2> DEFINE t == [sport |-> pkt.seg.dport, dport |-> pkt.seg.sport, sum |-> 0,
                   opts |-> r.options.bytes, body |-> r.body]
             u == [t EXCEPT !.sum = SegSum(pkt.proto, pkt.dst, ServerAddr, t)]
             p == IP(pkt.proto, pkt.dst, ServerAddr, u)
  <2>1. Carries(Lowered(sent.options)) /\ ToRemote /\ Linked(pkt.seg.sport)
    BY <1>1 DEF PathInv
  <2>2. /\ sent \in Message /\ pkt \in Packet /\ pkt.proto = sent.proto /\ pkt.dst = sent.dst
        /\ pkt.seg.dport = sent.dport
    BY <2>1 DEF Carries, ToRemote
  <2>3. /\ pkt.proto \in Word /\ pkt.dst \in Word /\ pkt.seg.sport \in Word /\ pkt.seg.dport \in Word
        /\ ServerAddr \in Word
    BY <2>2, PathAssumption DEF Packet, Segment
  <2>4. r.options \in Options /\ r.body \in Word /\ Marked(r.options) /\ (r.proto = Udp => r.options.mss = None)
    <3>1. r.options \in {s.options : s \in Sends \cup Replies} /\ r \in Sends \cup Replies
      OBVIOUS
    <3> QED BY <3>1, TrafficAssumption
  <2>5. t \in Segment
    BY <2>3, <2>4, WordNat DEF Segment, Options
  <2>6. u \in Segment
    <3> HIDE DEF t
    <3> QED BY <2>3, <2>5, SegSumBalances
  <2>7. /\ u.sport = sent.dport /\ u.dport = pkt.seg.sport /\ u.opts = r.options.bytes /\ u.body = r.body
    BY <2>2
  <2>8. pkt' = p /\ sent' = [sent EXCEPT !.options = r.options, !.body = r.body] /\ at' = "eth" /\ r.proto = pkt.proto
    BY <1>3
  <2> HIDE DEF t, u
  <2>9. p \in Packet /\ p.proto = pkt.proto /\ p.src = pkt.dst /\ p.seg = u
    BY <2>3, <2>6, IPTyped
  <2> HIDE DEF p
  <2>10. /\ sent' \in Message /\ sent'.client = sent.client /\ sent'.proto = sent.proto /\ sent'.sport = sent.sport
         /\ sent'.dst = sent.dst /\ sent'.dport = sent.dport
         /\ sent'.options = r.options /\ sent'.body = r.body
    BY <2>2, <2>4, <2>8 DEF Message
  <2>11. Linked(pkt.seg.dport)'
    BY <1>1, <2>1, <2>7, <2>8, <2>9, <2>10 DEF Linked, Its
  <2>12. Answer'
    BY <2>2, <2>7, <2>8, <2>9, <2>10, <2>11 DEF Answer
  <2>13. LinksInv' /\ i' = 0
    BY <1>1, LinksSame DEF PathInv, InMss
  <2> QED BY <2>8, <2>12, <2>13 DEF PathInv
<1> QED BY <1>2, <1>3 DEF Reply

\* Other traffic of the host is for none of the leased ports.
LEMMA ArriveInv ==
  ASSUME PathInv, Arrive
  PROVE  PathInv'
<1>1. /\ at = "idle" /\ at' = "eth" /\ UNCHANGED <<i, sent, links, epoch>>
  BY DEF Arrive
<1>2. PICK f \in Foreign :
        pkt' = IP(f.proto, f.src, ServerAddr,
                  [sport |-> f.sport, dport |-> f.dport, sum |-> 0, opts |-> <<>>, body |-> 0])
  BY DEF Arrive
<1> DEFINE t == [sport |-> f.sport, dport |-> f.dport, sum |-> 0, opts |-> <<>>, body |-> 0]
           p == IP(f.proto, f.src, ServerAddr, t)
<1>3. /\ f.proto \in Word /\ f.src \in Word /\ f.sport \in Word /\ f.dport \in Word /\ ServerAddr \in Word
      /\ f.proto \in Transports => f.dport \notin Ports
  BY PathAssumption, TrafficAssumption
<1>4. t \in Segment /\ t.dport = f.dport
  BY <1>3, WordNat DEF Segment
<1>5. pkt' = p
  BY <1>2
<1> HIDE DEF t
<1>6. p \in Packet /\ p.proto = f.proto /\ p.seg = t
  BY <1>3, <1>4, IPTyped
<1> HIDE DEF p
<1>7. Stranger'
  BY <1>1, <1>3, <1>4, <1>5, <1>6 DEF Stranger, PathInv
<1>8. LinksInv' /\ i' = 0
  BY <1>1, LinksSame DEF PathInv, InMss
<1> QED BY <1>1, <1>7, <1>8 DEF PathInv

\* The filter changes no packet.
LEMMA EthRecvInv ==
  ASSUME PathInv, EthRecv
  PROVE  PathInv'
<1>1. at = "eth" /\ at' \in {"filtered", "recv"} /\ UNCHANGED <<pkt, i, sent, links, epoch>>
  BY DEF EthRecv, Goto
<1>2. LinksInv' /\ i' = 0
  BY <1>1, LinksSame DEF PathInv, InMss
<1>3. Stranger \/ Answer
  BY <1>1 DEF PathInv
<1>4. (Stranger \/ Answer)'
  BY <1>1, <1>3 DEF Stranger, Answer, Linked, Its
<1> QED BY <1>1, <1>2, <1>4 DEF PathInv

\* The link an answer is for is the one its packet went out by.
LEMMA AnswerLink ==
  ASSUME LinksInv, Answer, NEW l \in Downlinks(pkt.proto, <<pkt.src, pkt.seg.sport>>, pkt.seg.dport)
  PROVE  l \in links /\ Its(l)
<1>1. /\ l \in links /\ l.proto = pkt.proto /\ l.server = <<pkt.src, pkt.seg.sport>> /\ l.port = pkt.seg.dport
  BY DEF Downlinks
<1>2. PICK m \in links : Its(m) /\ m.proto = sent.proto /\ m.port = pkt.seg.dport
  BY DEF Answer, Linked
<1>3. m.proto = l.proto /\ m.server = l.server /\ m.port = l.port
  BY <1>1, <1>2 DEF Answer, Its
<1>4. l = m
  BY <1>1, <1>2, <1>3 DEF LinksInv
<1> QED BY <1>1, <1>2, <1>4

\* recvService sends an answer along the link of its port, and drops what has none.
LEMMA RecvServiceInv ==
  ASSUME PathInv, RecvService
  PROVE  PathInv'
<1> DEFINE found == Downlinks(pkt.proto, <<pkt.src, pkt.seg.sport>>, pkt.seg.dport)
           live == {l \in found : l.conn[2] = epoch[l.conn[1]]}
<1>1. /\ at = "recv" /\ UNCHANGED <<i, sent, links, epoch>>
      /\ \/ \E l \in live : /\ at' = "down"
                            /\ pkt' = Datagram(l.conn[1], pkt.proto, pkt.src, [pkt.seg EXCEPT !.dport = l.proc[2]])
         \/ live = {} /\ at' = "dropped" /\ pkt' = pkt
  BY DEF RecvService, StripIP, Goto
<1>2. LinksInv /\ (Stranger \/ Answer)
  BY <1>1 DEF PathInv
<1>3. LinksInv' /\ i' = 0
  BY <1>1, LinksSame DEF PathInv, InMss
<1>4. ASSUME Stranger, NEW l \in found PROVE FALSE
  <2>1. l \in links /\ l.proto = pkt.proto /\ l.port = pkt.seg.dport
    BY DEF Downlinks
  <2>2. l.proto \in Transports /\ l.port \in Ports
    BY <1>2, <2>1, LinkFields DEF LinksInv
  <2> QED BY <1>4, <2>1, <2>2 DEF Stranger
<1>5. ASSUME NEW l \in live, at' = "down",
             pkt' = Datagram(l.conn[1], pkt.proto, pkt.src, [pkt.seg EXCEPT !.dport = l.proc[2]])
      PROVE  PathInv'
  <2>1. Answer
    BY <1>2, <1>4
  <2>2. l \in links /\ Its(l)
    BY <1>2, <2>1, AnswerLink
  <2>3. /\ l.conn[1] \in Clients /\ l.proc[2] \in Word /\ l.proc[1] = ClientAddr[l.conn[1]]
    BY <1>2, <2>2, LinkFields DEF LinksInv
  <2>4. l.proc[2] = sent.sport /\ ClientAddr[l.conn[1]] = ClientAddr[sent.client]
    BY <2>2, <2>3 DEF Its
  <2> DEFINE t == [pkt.seg EXCEPT !.dport = l.proc[2]]
  <2>5. /\ t \in Segment /\ t.sport = sent.dport /\ t.dport = sent.sport /\ t.body = sent.body
        /\ t.opts = sent.options.bytes /\ pkt.src \in Word /\ pkt.proto \in Transports
    BY <2>1, <2>3, <2>4 DEF Answer, Packet, Segment, Message
  <2>6. pkt' = Datagram(l.conn[1], pkt.proto, pkt.src, t)
    BY <1>5
  <2> HIDE DEF t
  <2>7. /\ pkt' \in Datagrams /\ pkt'.client = l.conn[1] /\ pkt'.proto = pkt.proto /\ pkt'.peer = pkt.src
        /\ pkt'.seg = t
    BY <2>3, <2>5, <2>6 DEF Datagram, Datagrams
  <2>8. Returned'
    BY <1>1, <2>1, <2>4, <2>5, <2>7 DEF Returned, Answer
  <2> QED BY <1>3, <1>5, <2>8 DEF PathInv
<1>6. ASSUME live = {}, at' = "dropped", pkt' = pkt PROVE PathInv'
  <2>1. (Stranger \/ Answer)'
    BY <1>1, <1>2, <1>6 DEF Stranger, Answer, Linked, Its
  <2>2. ASSUME Answer PROVE Stale'
    <3>1. PICK m \in links : Its(m) /\ m.proto = sent.proto /\ m.port = pkt.seg.dport
      BY <2>2 DEF Answer, Linked
    <3>2. /\ m.shard = Get(m.server[1]) /\ m.conn[2] <= epoch[m.conn[1]] /\ m \in Links
          /\ epoch \in [Clients -> Nat]
      BY <1>2, <3>1 DEF LinksInv
    <3>3. m.server = <<pkt.src, pkt.seg.sport>> /\ m.proto = pkt.proto
      BY <2>2, <3>1 DEF Answer, Its
    <3>4. m \in found
      BY <3>1, <3>2, <3>3 DEF Downlinks
    <3>5. m.conn[2] # epoch[m.conn[1]]
      BY <1>6, <3>4
    <3>6. m.conn[1] \in Clients /\ m.conn[2] \in Nat
      BY <3>2, LinkFields
    <3>7. m.conn[2] < epoch[m.conn[1]]
      BY <3>2, <3>5, <3>6
    <3> QED BY <1>1, <3>1, <3>7 DEF Stale, Its
  <2>3. sent' = None \/ Stale'
    BY <1>1, <1>2, <2>2 DEF Stranger
  <2> QED BY <1>3, <1>6, <2>1, <2>3 DEF PathInv
<1> QED BY <1>1, <1>5, <1>6

\* A client that reconnects makes its links stale and changes no packet.
LEMMA ReconnectInv ==
  ASSUME PathInv, Reconnect
  PROVE  PathInv'
<1>1. at \in {"idle", "wire", "eth", "recv"} /\ UNCHANGED <<at, pkt, i, sent, links>>
  BY DEF Reconnect
<1>2. PICK c \in Clients : epoch' = [epoch EXCEPT ![c] = @ + 1]
  BY DEF Reconnect
<1>3. /\ links \subseteq Links /\ epoch \in [Clients -> Nat]
      /\ \A l \in links : /\ l.shard = Get(l.server[1])
                          /\ l.proc[1] = ClientAddr[l.conn[1]]
                          /\ l.conn[2] <= epoch[l.conn[1]]
      /\ \A l, m \in links : l.proto = m.proto /\ l.server = m.server /\ l.port = m.port => l = m
  BY DEF PathInv, LinksInv
<1>4. epoch' \in [Clients -> Nat] /\ \A d \in Clients : epoch[d] <= epoch'[d]
  BY <1>2, <1>3
<1>5. ASSUME NEW l \in links PROVE l.conn[2] <= epoch'[l.conn[1]]
  <2>1. l.conn[1] \in Clients /\ l.conn[2] \in Nat
    BY <1>3, LinkFields
  <2>2. epoch[l.conn[1]] \in Nat /\ epoch'[l.conn[1]] \in Nat /\ epoch[l.conn[1]] <= epoch'[l.conn[1]]
    BY <1>3, <1>4, <2>1
  <2> QED BY <1>3, <2>1, <2>2
<1>6. LinksInv'
  BY <1>1, <1>3, <1>4, <1>5 DEF LinksInv
<1>7. i' = 0
  BY <1>1 DEF PathInv, InMss
<1> QED BY <1>1, <1>6, <1>7 DEF PathInv, Carries, ToRemote, Stranger, Answer, Linked, Its

(***************************************************************************)
(* Downlink, on the client.                                                *)
(***************************************************************************)

\* downlinkServic builds the header and the sums of an answer anew.
LEMMA DownlinkServicInv ==
  ASSUME PathInv, DownlinkServic
  PROVE  PathInv'
<1> DEFINE dst == ClientAddr[pkt.client]
           u == [pkt.seg EXCEPT !.sum = SegSum(pkt.proto, pkt.peer, dst, pkt.seg)]
           p == IP(pkt.proto, pkt.peer, dst, u)
<1>1. at = "inbound" /\ at' = "inject" /\ pkt' = p /\ UNCHANGED <<i, sent, links, epoch>>
  BY DEF DownlinkServic, Goto
<1>2. Returned
  BY <1>1 DEF PathInv
<1>3. /\ sent \in Message /\ pkt.proto = sent.proto /\ pkt.peer = sent.dst /\ dst = ClientAddr[sent.client]
      /\ pkt.proto \in Word /\ pkt.peer \in Word /\ dst \in Word /\ pkt.seg \in Segment
      /\ Marked(sent.options)
  BY <1>2, PathAssumption, WordNat DEF Returned, Datagrams, Transports, Message
<1> HIDE DEF dst
<1>4. u \in Segment /\ Balanced(pkt.proto, pkt.peer, dst, u)
  BY <1>3, SegSumBalances
<1>5. /\ u.sport = sent.dport /\ u.dport = sent.sport /\ u.body = sent.body /\ u.opts = sent.options.bytes
  BY <1>2, <1>3 DEF Returned, Segment
<1> HIDE DEF u
<1>6. /\ p \in Packet /\ p.hsum = HdrSum(p)
      /\ p.proto = pkt.proto /\ p.src = pkt.peer /\ p.dst = dst /\ p.seg = u
  BY <1>3, <1>4, IPTyped
<1> HIDE DEF p
<1>7. Right(p)
  BY <1>4, <1>6 DEF Right
<1>8. (Carries(sent.options.bytes) /\ ToProcess)'
  BY <1>1, <1>3, <1>5, <1>6, <1>7 DEF Carries, ToProcess
<1>9. LinksInv' /\ i' = 0
  BY <1>1, LinksSame DEF PathInv, InMss
<1>10. OnWalk'
  <2>1. PICK walk \in SUBSET (0..Len(sent.options.bytes)) :
          0 \in walk /\ \A k \in walk : ReadAt(sent.options, k, walk)
    BY <1>3 DEF Marked
  <2> QED BY <1>1, <1>9, <2>1 DEF OnWalk
<1> QED BY <1>1, <1>8, <1>9, <1>10 DEF PathInv, InMss

\* Every step keeps PathInv.
LEMMA NextInv ==
  ASSUME PathInv, [Next]_vars
  PROVE  PathInv'
<1>1. ASSUME CapturePass \/ Inbound \/ Filtered \/ Dropped \/ Deliver PROVE PathInv'
  <2>1. Forget /\ ~InMss
    BY <1>1 DEF CapturePass, Inbound, Filtered, Dropped, Deliver, InMss
  <2> QED BY <2>1, ForgetInv
<1>2. CASE Capture
  BY <1>2, CaptureInv
<1>3. CASE UpdateTcpMssOption
  BY <1>3, MssSkipInv, MssNopInv, MssEolInv, MssOtherInv, MssUpdateInv DEF UpdateTcpMssOption
<1>4. CASE UplinkService \/ OutboundService \/ Recv
  BY <1>4, UplinkServiceInv, OutboundServiceInv, RecvInv
<1>5. CASE ServeConn
  BY <1>5, ServeConnInv
<1>6. CASE Reply \/ Arrive \/ EthRecv
  BY <1>6, ReplyInv, ArriveInv, EthRecvInv
<1>7. CASE RecvService
  BY <1>7, RecvServiceInv
<1>8. CASE DownlinkServic \/ Reconnect
  BY <1>8, DownlinkServicInv, ReconnectInv
<1>9. CASE UNCHANGED vars
  BY <1>9, StutterInv
<1> QED BY <1>1, <1>2, <1>3, <1>4, <1>5, <1>6, <1>7, <1>8, <1>9 DEF Next

\* Whatever is sent, answered and dropped on the way: every packet is where and
\* what PathInv says.
THEOREM PathCorrect == Spec => []PathInv
<1>1. Init => PathInv
  BY InitInv
<1>2. PathInv /\ [Next]_vars => PathInv'
  BY NextInv
<1> QED BY <1>1, <1>2, PTL DEF Spec

(***************************************************************************)
(* The properties.                                                         *)
(***************************************************************************)

\* Every client comes from an address of its own: a link is found by the address
\* and port of the process, without the tunnel.
DistinctAddrs == \A c, d \in Clients : ClientAddr[c] = ClientAddr[d] => c = d

\* No port the server leases is in the list of ports to skip.
LeasedNotSkipped == \A proto \in Transports : Range(SkipPorts[proto]) \cap Ports = {}

\* What carries the sent message under right checksums is intact.
LEMMA CarriesIntact ==
  ASSUME Carries(Lowered(sent.options))
  PROVE  Intact
<1>1. pkt \in Packet /\ Right(pkt) /\ pkt.proto # 0
  BY DEF Carries, Message, Transports, Tcp, Udp
<1>2. Verifies(pkt)
  BY <1>1, RightVerifies
<1> QED BY <1>2 DEF Carries, Intact

\* With clients at addresses of their own, what the remote gets is what the
\* process sent, intact, and the link it is answered by leads back to the process.
THEOREM UplinkCorrect ==
  ASSUME DistinctAddrs
  PROVE  Spec => []UplinkArrives
<1>1. ASSUME PathInv PROVE UplinkArrives
  <2>1. ASSUME at = "stack" PROVE sent = None
    BY <1>1, <2>1 DEF PathInv
  <2>2. ASSUME at = "wire"
        PROVE  /\ Intact
               /\ <<pkt.proto, pkt.src, pkt.dst, pkt.seg.dport>> = <<sent.proto, ServerAddr, sent.dst, sent.dport>>
               /\ \A l \in Downlinks(pkt.proto, <<pkt.dst, pkt.seg.dport>>, pkt.seg.sport) :
                    l.conn[1] = sent.client /\ l.proc[2] = sent.sport
    <3>1. Carries(Lowered(sent.options)) /\ ToRemote /\ pkt.src = ServerAddr /\ Linked(pkt.seg.sport) /\ LinksInv
      BY <1>1, <2>2 DEF PathInv
    <3>2. ASSUME NEW l \in Downlinks(pkt.proto, <<pkt.dst, pkt.seg.dport>>, pkt.seg.sport)
          PROVE  l.conn[1] = sent.client /\ l.proc[2] = sent.sport
      <4>1. /\ l \in links /\ l.proto = sent.proto /\ l.server = <<sent.dst, sent.dport>>
            /\ l.port = pkt.seg.sport
        BY <3>1 DEF Downlinks, Carries, ToRemote
      <4>2. PICK m \in links : Its(m) /\ m.proto = sent.proto /\ m.port = pkt.seg.sport
        BY <3>1 DEF Linked
      <4>3. l = m
        BY <3>1, <4>1, <4>2 DEF LinksInv, Its
      <4>4. l.proc = <<ClientAddr[sent.client], sent.sport>> /\ l.proc[1] = ClientAddr[l.conn[1]] /\ l \in Links
        BY <3>1, <4>1, <4>2, <4>3 DEF LinksInv, Its
      <4>5. l.conn[1] \in Clients /\ sent.client \in Clients
        BY <3>1, <4>4, LinkFields DEF Carries, Message
      <4> QED BY <4>4, <4>5 DEF DistinctAddrs
    <3> QED BY <3>1, <3>2, CarriesIntact DEF Carries, ToRemote
  <2> QED BY <2>1, <2>2 DEF UplinkArrives
<1> QED BY <1>1, PathCorrect, PTL

\* EthRecv sorts packets as RunExact says, and no other step touches them there.
LEMMA FilterStep ==
  ASSUME ShortSkipPorts, PathInv, FilterExact, [Next]_vars
  PROVE  FilterExact'
<1> SUFFICES ASSUME at' \in {"recv", "filtered"}
             PROVE  at' = "recv" <=> Passes(pkt')
  BY DEF FilterExact, Passes
<1>1. CASE EthRecv
  <2>1. at = "eth" /\ pkt' = pkt /\ at' = IF Run(pkt) = 0 THEN "filtered" ELSE "recv"
    BY <1>1 DEF EthRecv, Goto
  <2>2. pkt \in Packet
    BY <2>1 DEF PathInv, Stranger, Answer
  <2>3. pkt.proto \in Word /\ pkt.seg.dport \in Word
    BY <2>2 DEF Packet, Segment
  <2>4. Run(pkt) # 0 <=> Passes(pkt)
    BY <2>3, RunExact
  <2> QED BY <2>1, <2>4
<1>2. CASE UNCHANGED <<at, pkt>>
  BY <1>2 DEF FilterExact, Passes
<1>3. CASE Reconnect
  BY <1>2, <1>3 DEF Reconnect
<1>4. CASE UNCHANGED vars
  BY <1>2, <1>4 DEF vars
<1>5. CASE UpdateTcpMssOption
  BY <1>2, <1>5 DEF UpdateTcpMssOption, MssSkip, MssNop, MssEol, MssOther, MssUpdate, Advance, Return, InLoop, InMss
<1>6. CASE \/ Capture \/ CapturePass \/ UplinkService \/ OutboundService \/ Recv \/ Inbound \/ ServeConn
           \/ Reply \/ Arrive \/ Filtered \/ RecvService \/ Dropped \/ DownlinkServic \/ Deliver
  BY <1>6 DEF Capture, CapturePass, UplinkService, OutboundService, Recv, Inbound, ServeConn, Reply, Arrive,
              Filtered, RecvService, Dropped, DownlinkServic, Deliver, Goto, Forget
<1> QED BY <1>1, <1>3, <1>4, <1>5, <1>6 DEF Next

\* With no list of skipped ports that a jump does not reach over, the compiled
\* filter lets through exactly what it is to.
THEOREM FilterCorrect ==
  ASSUME ShortSkipPorts
  PROVE  Spec => []FilterExact
<1>1. Init => FilterExact
  BY DEF Init, FilterExact
<1>2. PathInv /\ FilterExact /\ [Next]_vars => FilterExact'
  BY FilterStep
<1> QED BY <1>1, <1>2, PathCorrect, PTL DEF Spec

\* With that, and clients at addresses of their own, and no leased port among
\* the skipped ones: an answer reaches the process that it is for, intact, unless
\* its link is one of a tunnel that the client has given up.
THEOREM DownlinkCorrect ==
  ASSUME DistinctAddrs, ShortSkipPorts, LeasedNotSkipped
  PROVE  Spec => []DownlinkArrives
<1>1. ASSUME PathInv, FilterExact PROVE DownlinkArrives
  <2>1. ASSUME at = "injected"
        PROVE  /\ Intact
               /\ <<pkt.proto, pkt.src, pkt.seg.sport>> = <<sent.proto, sent.dst, sent.dport>>
               /\ <<pkt.dst, pkt.seg.dport>> = <<ClientAddr[sent.client], sent.sport>>
    <3>1. Carries(Lowered(sent.options)) /\ ToProcess
      BY <1>1, <2>1 DEF PathInv
    <3> QED BY <3>1, CarriesIntact DEF Carries, ToProcess
  <2>2. ASSUME at \in {"filtered", "dropped"}, sent # None
        PROVE  \E l \in links : /\ l.proc = <<ClientAddr[sent.client], sent.sport>>
                                /\ l.server = <<sent.dst, sent.dport>>
                                /\ l.conn[2] < epoch[sent.client]
    <3>1. Answer /\ LinksInv /\ (at = "dropped" => Stale)
      BY <1>1, <2>2 DEF PathInv, Stranger
    <3>2. at # "filtered"
      <4>1. PICK m \in links : Its(m) /\ m.proto = sent.proto /\ m.port = pkt.seg.dport
        BY <3>1 DEF Answer, Linked
      <4>2. m.port \in Ports /\ pkt.proto \in Transports
        BY <3>1, <4>1, LinkFields DEF LinksInv, Answer, Message
      <4>3. pkt.seg.dport \notin Range(SkipPorts[pkt.proto])
        BY <4>1, <4>2 DEF LeasedNotSkipped
      <4> QED BY <1>1, <4>2, <4>3 DEF FilterExact
    <3>3. PICK l \in links : Its(l) /\ l.conn[2] < epoch[l.conn[1]]
      BY <2>2, <3>1, <3>2 DEF Stale
    <3>4. l.proc[1] = ClientAddr[l.conn[1]] /\ l.conn[1] \in Clients /\ sent.client \in Clients
      BY <3>1, <3>3, LinkFields DEF LinksInv, Answer, Message
    <3>5. l.conn[1] = sent.client
      BY <3>3, <3>4 DEF Its, DistinctAddrs
    <3> QED BY <3>3, <3>5 DEF Its
  <2> QED BY <2>1, <2>2 DEF DownlinkArrives
<1> QED BY <1>1, PathCorrect, FilterCorrect, PTL
=============================================================================
