--------------------------- MODULE Numbers_proofs ---------------------------
(***************************************************************************)
(* Facts about natural numbers that the proofs of several components need: *)
(* least numbers and induction from one number to another, which is how    *)
(* what a recursive function computes is proved, quotients and remainders. *)
(***************************************************************************)
EXTENDS Integers, NaturalsInduction, WellFoundedInduction, TLAPS

(* A set of numbers has a least one, so what holds of one number and, with *)
(* a number, of the next holds of all that follow.                         *)
LEMMA LeastNumber ==
  ASSUME NEW T, T \subseteq Nat, T # {}
  PROVE  \E x \in T : \A y \in T : x <= y
<1> DEFINE R == {ss \in Nat \X Nat : ss[1] < ss[2]}
<1>1. IsWellFoundedOn(R, Nat)
  BY NatLessThanWellFounded DEF OpToRel
<1>2. \A x, y \in Nat : <<y, x>> \in R <=> y < x
  OBVIOUS
<1> HIDE DEF R
<1>3. PICK x \in T : \A y \in T : <<y, x>> \notin R
  BY <1>1, WFMin
<1>4. ASSUME NEW y \in T PROVE x <= y
  <2>1. x \in Nat /\ y \in Nat /\ ~(y < x)
    BY <1>2, <1>3
  <2> QED
    BY <2>1
<1> QED
  BY <1>4

LEMMA FromTo ==
  ASSUME NEW a \in Nat, NEW b \in Nat, NEW P, a \in P, \A i \in a..(b - 1) : i \in P => i + 1 \in P
  PROVE  \A i \in a..b : i \in P
<1> DEFINE T == {i \in a..b : i \notin P}
<1>1. SUFFICES ASSUME T # {} PROVE FALSE
  OBVIOUS
<1> HIDE DEF T
<1>2. PICK x \in T : \A y \in T : x <= y
  <2>1. T \subseteq Nat
    BY DEF T
  <2> QED
    BY <1>1, <2>1, LeastNumber
<1>3. x \in a..b /\ x # a /\ x \notin P
  BY DEF T
<1>4. x - 1 \in a..(b - 1) /\ x - 1 \in a..b /\ ~(x <= x - 1) /\ (x - 1) + 1 = x
  BY <1>3
<1>5. x - 1 \in P
  BY <1>2, <1>4 DEF T
<1> QED
  BY <1>3, <1>4, <1>5

-----------------------------------------------------------------------------
(* Quotients: the remainder is less than the divisor ...                   *)
LEMMA Quot ==
  ASSUME NEW a \in Nat, NEW b \in Nat \ {0}
  PROVE  a \div b \in Nat /\ b * (a \div b) <= a /\ a < b * (a \div b) + b
OBVIOUS

LEMMA TimesLeq ==
  ASSUME NEW a \in Nat, NEW b \in Nat, NEW c \in Nat, a <= b
  PROVE  c * a <= c * b
OBVIOUS

LEMMA TimesLess ==
  ASSUME NEW a \in Nat, NEW b \in Nat, NEW c \in Nat, a < b
  PROVE  c * a + c <= c * b
OBVIOUS

(* ... and there is one such quotient.                                     *)
LEMMA QuotIs ==
  ASSUME NEW a \in Nat, NEW b \in Nat \ {0}, NEW q \in Nat, b * q <= a, a < b * q + b
  PROVE  a \div b = q
<1>1. a \div b \in Nat /\ b * (a \div b) <= a /\ a < b * (a \div b) + b
  BY Quot
<1>2. PICK r \in Nat : r = a \div b
  BY <1>1
<1>3. b * r <= a /\ a < b * r + b /\ b * r \in Nat /\ b * q \in Nat
  BY <1>1, <1>2
<1>4. ~(r < q)
  BY <1>3, TimesLess
<1>5. ~(q < r)
  BY <1>3, TimesLess
<1> QED
  BY <1>2, <1>4, <1>5

LEMMA QuotLeq ==
  ASSUME NEW a \in Nat, NEW c \in Nat, NEW b \in Nat \ {0}, a <= c
  PROVE  a \div b <= c \div b
<1>1. PICK r \in Nat, s \in Nat : r = a \div b /\ s = c \div b
  BY Quot
<1>2. b * r <= a /\ c < b * s + b /\ b * r \in Nat /\ b * s \in Nat
  BY <1>1, Quot
<1>3. ~(s < r)
  BY <1>2, TimesLess
<1> QED
  BY <1>1, <1>3

LEMMA QuotQuot ==
  ASSUME NEW a \in Nat, NEW b \in Nat \ {0}, NEW c \in Nat \ {0}
  PROVE  a \div (b * c) = (a \div b) \div c
<1>1. PICK r \in Nat : r = a \div b
  BY Quot
<1>2. PICK s \in Nat : s = r \div c
  BY Quot
<1>3. b * r <= a /\ a < b * r + b
  BY <1>1, Quot
<1>4. c * s <= r /\ r < c * s + c
  BY <1>2, Quot
<1>5. b * (c * s) <= b * r /\ b * r + b <= b * (c * s + c)
  BY <1>4, TimesLeq, TimesLess
<1>6. b * (c * s) = (b * c) * s /\ b * (c * s + c) = (b * c) * s + b * c
  OBVIOUS
<1>7. b * c \in Nat \ {0} /\ (b * c) * s \in Nat /\ b * r \in Nat
  OBVIOUS
<1>8. (b * c) * s <= a /\ a < (b * c) * s + b * c
  BY <1>3, <1>5, <1>6, <1>7
<1>9. a \div (b * c) = s
  BY <1>7, <1>8, QuotIs
<1> QED
  BY <1>1, <1>2, <1>9

-----------------------------------------------------------------------------
(* Remainders.                                                             *)
LEMMA ModIs ==
  ASSUME NEW c \in Nat \ {0}, NEW y \in 0..(c - 1), NEW k \in Int
  PROVE  (y + k * c) % c = y
OBVIOUS

LEMMA ModOf ==
  ASSUME NEW c \in Nat \ {0}, NEW x \in Int
  PROVE  x \div c \in Int /\ x % c \in 0..(c - 1) /\ x = (x % c) + (x \div c) * c
OBVIOUS

\* Numbers that differ by multiples of c have one remainder.
LEMMA SameMod ==
  ASSUME NEW c \in Nat \ {0}, NEW s \in Nat, NEW k \in Int, NEW t \in Nat, t = s + k * c
  PROVE  s % c = t % c
<1>1. PICK r \in 0..(c - 1), q \in Int : r = s % c /\ s = r + q * c
  <2>1. PICK x \in Int : x = s
    OBVIOUS
  <2>2. x \div c \in Int /\ x % c \in 0..(c - 1) /\ x = (x % c) + (x \div c) * c
    BY ModOf
  <2> QED
    BY <2>1, <2>2
<1>2. t = r + (q + k) * c
  <2>1. PICK x \in Int, y \in Int : x = q * c /\ y = k * c
    OBVIOUS
  <2>2. (q + k) * c = x + y
    BY <2>1
  <2> QED
    BY <1>1, <2>1, <2>2
<1>3. PICK j \in Int : j = q + k
  OBVIOUS
<1>4. (r + j * c) % c = r
  BY ModIs
<1> QED
  BY <1>1, <1>2, <1>3, <1>4

-----------------------------------------------------------------------------
(* The sums of a sequence of numbers exist, and equal terms have equal sums.*)
SumsTo(f, g, n) == f = [i \in 0..n |-> IF i = 0 THEN 0 ELSE f[i - 1] + g[i]]

LEMMA SumsExist ==
  ASSUME NEW n \in Nat, NEW g
  PROVE  \E f : SumsTo(f, g, n)
<1> DEFINE P == {k \in Nat : \E f : SumsTo(f, g, k)}
<1>1. 0 \in P
  <2> DEFINE f == [i \in 0..0 |-> 0]
  <2>1. f = [i \in 0..0 |-> IF i = 0 THEN 0 ELSE f[i - 1] + g[i]]
    OBVIOUS
  <2> QED
    BY <2>1 DEF SumsTo
<1>2. ASSUME NEW k \in 0..(n - 1), k \in P
      PROVE  k + 1 \in P
  <2>1. PICK f : SumsTo(f, g, k)
    BY <1>2
  <2> DEFINE h == [i \in 0..(k + 1) |-> IF i = k + 1 THEN f[k] + g[k + 1] ELSE f[i]]
  <2>2. ASSUME NEW i \in 0..(k + 1)
        PROVE  h[i] = IF i = 0 THEN 0 ELSE h[i - 1] + g[i]
    <3>1. CASE i = 0
      BY <2>1, <3>1 DEF SumsTo
    <3>2. CASE i = k + 1
      <4>1. k \in 0..(k + 1) /\ k # k + 1 /\ i - 1 = k /\ i # 0
        BY <3>2
      <4>2. h[k] = f[k] /\ h[i] = f[k] + g[i]
        BY <3>2, <4>1
      <4> QED
        BY <4>1, <4>2
    <3>3. CASE i # 0 /\ i # k + 1
      <4>1. i \in 0..k /\ i - 1 \in 0..(k + 1) /\ i - 1 # k + 1
        BY <3>3
      <4>2. h[i] = f[i] /\ h[i - 1] = f[i - 1]
        BY <3>3, <4>1
      <4>3. f[i] = f[i - 1] + g[i]
        BY <2>1, <3>3, <4>1 DEF SumsTo
      <4> QED
        BY <3>3, <4>2, <4>3
    <3> QED
      BY <3>1, <3>2, <3>3
  <2>3. h = [i \in 0..(k + 1) |-> h[i]]
    OBVIOUS
  <2> HIDE DEF h
  <2>4. SumsTo(h, g, k + 1)
    BY <2>2, <2>3 DEF SumsTo
  <2> QED
    BY <2>4
<1> HIDE DEF P
<1>3. n \in P
  BY <1>1, <1>2, FromTo
<1> QED
  BY <1>3 DEF P

LEMMA SumsAgree ==
  ASSUME NEW n \in Nat, NEW g, NEW k \in Nat, NEW h, NEW f, NEW e, k <= n,
         SumsTo(f, g, n), SumsTo(e, h, k), \A i \in 1..k : g[i] = h[i]
  PROVE  f[k] = e[k]
<1> DEFINE P == {i \in 0..k : f[i] = e[i]}
<1>1. 0 \in P
  <2>1. 0 \in 0..k /\ 0 \in 0..n
    OBVIOUS
  <2>2. f[0] = 0 /\ e[0] = 0
    BY <2>1 DEF SumsTo
  <2> QED
    BY <2>1, <2>2
<1>2. ASSUME NEW i \in 0..(k - 1), i \in P
      PROVE  i + 1 \in P
  <2>1. i + 1 \in 0..k /\ i + 1 \in 0..n /\ i + 1 # 0 /\ i + 1 \in 1..k /\ (i + 1) - 1 = i
    OBVIOUS
  <2>2. f[i + 1] = f[i] + g[i + 1] /\ e[i + 1] = e[i] + h[i + 1]
    BY <2>1 DEF SumsTo
  <2> QED
    BY <1>2, <2>1, <2>2
<1> HIDE DEF P
<1>3. \A i \in 0..k : i \in P
  <2>1. 0 \in Nat
    OBVIOUS
  <2> QED
    BY <1>1, <1>2, <2>1, FromTo
<1> QED
  BY <1>3 DEF P
=============================================================================
