-------------------------- MODULE KcFormat_proofs --------------------------
(***************************************************************************)
(* The arithmetic of the length code, for every width of a byte: powers of *)
(* two, what a shift leaves of a number, the place of its leading one, and *)
(* the rotation of the payload and back; and the walk over a table that    *)
(* gives what is written of it.                                            *)
(***************************************************************************)
EXTENDS Parsing, FiniteSetTheorems, WellFoundedInduction, TLAPS

(***************************************************************************)
(* What holds for 0, and from each number below n for the next, holds for  *)
(* all numbers up to n.  The set stands for the property.                  *)
(***************************************************************************)
LEMMA SetInduction ==
  ASSUME NEW n \in Nat, NEW S, 0 \in S, \A k \in 0 .. n - 1 : k \in S => k + 1 \in S
  PROVE  \A k \in 0 .. n : k \in S
<1> DEFINE missing == {k \in 0 .. n : k \notin S}
           R == OpToRel(<, Nat)
<1>1. SUFFICES ASSUME missing # {} PROVE FALSE
  OBVIOUS
<1>2. IsWellFoundedOn(R, Nat)
  BY NatLessThanWellFounded
<1>3. \A x, y \in Nat : y < x => <<y, x>> \in R
  BY DEF OpToRel
<1> HIDE DEF R
<1>4. missing \subseteq Nat
  OBVIOUS
<1>5. PICK x \in missing : \A y \in missing : ~ (<<y, x>> \in R)
  BY <1>1, <1>2, <1>4, WFMin
<1>6. x \in 1 .. n /\ x \notin S
  BY <1>5
<1>7. x - 1 \in 0 .. n - 1 /\ x - 1 < x
  BY <1>6
<1>8. x - 1 \notin missing
  BY <1>3, <1>4, <1>5, <1>6, <1>7
<1>9. x - 1 \in S
  BY <1>7, <1>8
<1>10. (x - 1) + 1 \in S
  BY <1>7, <1>9
<1>11. QED
  BY <1>6, <1>10

-----------------------------------------------------------------------------
(***************************************************************************)
(* Division.                                                               *)
(***************************************************************************)
LEMMA DivBounds ==
  ASSUME NEW a \in Nat, NEW b \in Nat \ {0}
  PROVE  /\ a \div b \in Nat /\ a % b \in 0 .. b - 1
         /\ a = (a \div b) * b + (a % b)
  OBVIOUS

LEMMA ProductOrder ==
  ASSUME NEW a \in Int, NEW c \in Int, NEW b \in Nat, a <= c
  PROVE  a * b <= c * b /\ a * b \in Int /\ c * b \in Int
<1>1. c - a \in Nat
  OBVIOUS
<1>2. (c - a) * b \in Nat
  BY <1>1
<1>3. c * b = a * b + (c - a) * b
  BY <1>1
<1>4. a * b \in Int /\ c * b \in Int
  OBVIOUS
<1>5. QED
  BY <1>2, <1>3, <1>4

(* The quotient is the number whose multiples enclose a. *)
LEMMA Quotient ==
  ASSUME NEW a \in Nat, NEW b \in Nat \ {0}, NEW q \in Nat, NEW r \in 0 .. b - 1,
         a = q * b + r
  PROVE  a \div b = q /\ a % b = r
<1> DEFINE d == a \div b
           e == a % b
<1>1. d \in Nat /\ e \in 0 .. b - 1 /\ a = d * b + e
  BY DivBounds
<1> HIDE DEF d, e
<1>2. CASE d < q
  <2>1. (d + 1) * b <= q * b /\ (d + 1) * b \in Int /\ q * b \in Int
    BY <1>1, <1>2, ProductOrder
  <2>2. (d + 1) * b = d * b + b
    BY <1>1
  <2>3. d * b \in Int
    BY <1>1
  <2>4. QED
    BY <1>1, <2>1, <2>2, <2>3
<1>3. CASE q < d
  <2>1. (q + 1) * b <= d * b /\ (q + 1) * b \in Int /\ d * b \in Int
    BY <1>1, <1>3, ProductOrder
  <2>2. (q + 1) * b = q * b + b
    OBVIOUS
  <2>3. q * b \in Int
    OBVIOUS
  <2>4. QED
    BY <1>1, <2>1, <2>2, <2>3
<1>4. CASE q = d
  <2>1. d * b \in Int
    BY <1>1
  <2>2. e = r
    BY <1>1, <1>4, <2>1
  <2>3. QED
    BY <1>4, <2>2 DEF d, e
<1>5. QED
  BY <1>1, <1>2, <1>3, <1>4

(* One shift more: the bit that falls off is the lowest. *)
LEMMA HalfStep ==
  ASSUME NEW v \in Nat, NEW p \in Nat \ {0}
  PROVE  v \div p = 2 * (v \div (2 * p)) + ((v \div p) % 2)
<1> DEFINE q == v \div p
           h == q \div 2
           b == q % 2
           r == v % p
<1>1. q \in Nat /\ r \in 0 .. p - 1 /\ v = q * p + r
  BY DivBounds
<1> HIDE DEF q, r
<1>2. h \in Nat /\ b \in {0, 1} /\ q = 2 * h + b
  BY <1>1
<1> HIDE DEF h, b
<1>3. b * p \in 0 .. p
  BY <1>2
<1>4. b * p + r \in 0 .. (2 * p) - 1
  <2>1. CASE b = 0
    BY <1>1, <2>1
  <2>2. CASE b = 1
    BY <1>1, <2>2
  <2>3. QED
    BY <1>2, <2>1, <2>2
<1>5. v = h * (2 * p) + (b * p + r)
  <2>1. q * p = h * (2 * p) + b * p
    BY <1>2
  <2>2. h * (2 * p) \in Nat
    BY <1>2
  <2>3. QED
    BY <1>1, <1>3, <2>1, <2>2
<1>6. v \div (2 * p) = h
  BY <1>2, <1>4, <1>5, Quotient
<1>7. QED
  BY <1>2, <1>6 DEF q, h, b

-----------------------------------------------------------------------------
(***************************************************************************)
(* Powers of two.                                                          *)
(***************************************************************************)
LEMMA PowerZero == 2 ^ 0 = 1
  OBVIOUS

LEMMA PowerStep ==
  ASSUME NEW k \in 0 .. 2 * ByteBits
  PROVE  2 ^ k \in Nat \ {0} /\ 2 ^ (k + 1) \in Nat \ {0} /\ 2 ^ (k + 1) = 2 * 2 ^ k
<1>1. 2 ^ k \in Nat \ {0} /\ 2 ^ (k + 1) = 2 * 2 ^ k
  BY PowerAssumption
<1>2. QED
  BY <1>1

LEMMA PowerType ==
  ASSUME NEW k \in 0 .. 2 * ByteBits + 1
  PROVE  2 ^ k \in Nat \ {0}
<1>1. CASE k = 0
  BY <1>1, PowerZero
<1>2. CASE k # 0
  <2>1. k - 1 \in 0 .. 2 * ByteBits /\ (k - 1) + 1 = k
    BY <1>2, FormatAssumption
  <2>2. 2 ^ ((k - 1) + 1) \in Nat \ {0}
    BY <2>1, PowerStep
  <2>3. QED
    BY <2>1, <2>2
<1>3. QED
  BY <1>1, <1>2

LEMMA PowerSum ==
  ASSUME NEW j \in Nat, NEW k \in Nat, j + k <= 2 * ByteBits + 1
  PROVE  2 ^ (j + k) = 2 ^ j * 2 ^ k
<1> DEFINE S == {n \in 0 .. k : 2 ^ (j + n) = 2 ^ j * 2 ^ n}
<1>1. j \in 0 .. 2 * ByteBits + 1
  BY FormatAssumption
<1>2. 2 ^ j \in Nat \ {0}
  BY <1>1, PowerType
<1>3. 0 \in S
  <2>1. j + 0 = j
    OBVIOUS
  <2>2. 2 ^ j * 2 ^ 0 = 2 ^ j
    BY <1>2, PowerZero
  <2>3. QED
    BY <2>1, <2>2
<1>4. ASSUME NEW n \in 0 .. k - 1, n \in S
      PROVE  n + 1 \in S
  <2>1. /\ n \in 0 .. 2 * ByteBits /\ j + n \in 0 .. 2 * ByteBits
        /\ j + (n + 1) = (j + n) + 1 /\ n + 1 \in 0 .. k
    BY <1>4, FormatAssumption
  <2>2. 2 ^ n \in Nat /\ 2 ^ (n + 1) = 2 * 2 ^ n
    BY <2>1, PowerStep
  <2>3. 2 ^ ((j + n) + 1) = 2 * 2 ^ (j + n)
    BY <2>1, PowerStep
  <2>4. 2 ^ (j + n) = 2 ^ j * 2 ^ n
    BY <1>4
  <2> DEFINE x == 2 ^ j
             y == 2 ^ n
  <2>5. x \in Nat /\ y \in Nat
    BY <1>2, <2>2
  <2>6. 2 ^ ((j + n) + 1) = 2 * (x * y) /\ 2 ^ (n + 1) = 2 * y
    BY <2>2, <2>3, <2>4
  <2> HIDE DEF x, y
  <2>7. 2 * (x * y) = x * (2 * y)
    BY <2>5
  <2>8. 2 ^ ((j + n) + 1) = x * 2 ^ (n + 1)
    BY <2>6, <2>7
  <2>9. 2 ^ (j + (n + 1)) = 2 ^ j * 2 ^ (n + 1)
    BY <2>1, <2>8 DEF x
  <2>10. QED
    BY <2>1, <2>9
<1> HIDE DEF S
<1>5. \A n \in 0 .. k - 1 : n \in S => n + 1 \in S
  BY <1>4
<1>6. k \in S
  <2>1. \A n \in 0 .. k : n \in S
    BY <1>3, <1>5, SetInduction
  <2>2. QED
    BY <2>1
<1>7. QED
  BY <1>6 DEF S

LEMMA PowerOrder ==
  ASSUME NEW j \in Nat, NEW k \in Nat, j <= k, k <= 2 * ByteBits + 1
  PROVE  2 ^ j <= 2 ^ k
<1>1. k - j \in 0 .. 2 * ByteBits + 1 /\ j \in 0 .. 2 * ByteBits + 1 /\ j + (k - j) = k
  BY FormatAssumption
<1>2. 2 ^ j \in Nat \ {0} /\ 2 ^ (k - j) \in Nat \ {0}
  BY <1>1, PowerType
<1>3. 2 ^ (j + (k - j)) = 2 ^ j * 2 ^ (k - j)
  BY <1>1, PowerSum
<1> DEFINE x == 2 ^ j
           y == 2 ^ (k - j)
<1>4. 2 ^ k = x * y /\ x \in Nat /\ y \in Nat \ {0}
  BY <1>1, <1>2, <1>3
<1> HIDE DEF x, y
<1>5. x * y >= x
  BY <1>4
<1>6. QED
  BY <1>4, <1>5 DEF x

-----------------------------------------------------------------------------
(***************************************************************************)
(* The leading one of a number of at most two bytes, or of one more.       *)
(***************************************************************************)
LEMMA LeadingOne ==
  ASSUME NEW v \in Nat \ {0}, v <= 2 ^ (2 * ByteBits)
  PROVE  \E n \in 0 .. 2 * ByteBits : 2 ^ n <= v /\ v < 2 ^ (n + 1)
<1> DEFINE S == {k \in 0 .. 2 * ByteBits : 2 ^ k <= v}
<1>1. SUFFICES ASSUME \A n \in 0 .. 2 * ByteBits : 2 ^ n <= v => ~(v < 2 ^ (n + 1))
               PROVE  FALSE
  OBVIOUS
<1>2. 2 * ByteBits \in Nat
  BY FormatAssumption
<1>3. 0 \in S
  BY <1>2, PowerZero
<1>4. ASSUME NEW k \in 0 .. 2 * ByteBits - 1, k \in S
      PROVE  k + 1 \in S
  <2>1. k \in 0 .. 2 * ByteBits /\ k + 1 \in 0 .. 2 * ByteBits
    BY <1>2
  <2>2. 2 ^ (k + 1) \in Nat
    BY <2>1, PowerStep
  <2>3. 2 ^ (k + 1) <= v
    BY <1>1, <1>4, <2>1, <2>2
  <2>4. QED
    BY <2>1, <2>3
<1>5. \A k \in 0 .. 2 * ByteBits - 1 : k \in S => k + 1 \in S
  BY <1>4
<1> HIDE DEF S
<1>6. \A k \in 0 .. 2 * ByteBits : k \in S
  BY <1>2, <1>3, <1>5, SetInduction
<1>7. 2 * ByteBits \in 0 .. 2 * ByteBits
  BY <1>2
<1>8. 2 ^ (2 * ByteBits) <= v
  BY <1>6, <1>7 DEF S
<1>9. /\ 2 ^ (2 * ByteBits) \in Nat \ {0}
      /\ 2 ^ (2 * ByteBits + 1) = 2 * 2 ^ (2 * ByteBits)
  BY <1>7, PowerStep
<1>10. v < 2 ^ (2 * ByteBits + 1)
  BY <1>9
<1>11. QED
  BY <1>1, <1>7, <1>8, <1>10

LEMMA NotShiftedOut ==
  ASSUME NEW v \in Nat, NEW p \in Nat \ {0}
  PROVE  v \div p # 0 <=> p <= v
<1>1. CASE v < p
  <2>1. v = 0 * p + v /\ v \in 0 .. p - 1
    BY <1>1
  <2>2. v \div p = 0
    BY <2>1, Quotient
  <2>3. QED
    BY <1>1, <2>2
<1>2. CASE p <= v
  <2>1. v \div p \in Nat /\ v % p \in 0 .. p - 1 /\ v = (v \div p) * p + (v % p)
    BY DivBounds
  <2>2. CASE v \div p = 0
    BY <1>2, <2>1, <2>2
  <2>3. QED
    BY <1>2, <2>2
<1>3. QED
  BY <1>1, <1>2

LEMMA FloorLogIs ==
  ASSUME NEW v \in Nat, NEW n \in 0 .. 2 * ByteBits, 2 ^ n <= v, v < 2 ^ (n + 1)
  PROVE  kc_floor_log2(v) = n
<1> DEFINE shifts == {k \in 1 .. 2 * ByteBits : v \div 2 ^ k # 0}
<1>1. ASSUME NEW k \in 1 .. 2 * ByteBits
      PROVE  v \div 2 ^ k # 0 <=> k <= n
  <2>1. 2 ^ k \in Nat \ {0} /\ 2 ^ n \in Nat \ {0} /\ 2 ^ (n + 1) \in Nat \ {0}
    BY PowerType, FormatAssumption
  <2>2. v \div 2 ^ k # 0 <=> 2 ^ k <= v
    BY <2>1, NotShiftedOut
  <2>3. CASE k <= n
    <3>1. 2 ^ k <= 2 ^ n
      BY <2>3, PowerOrder, FormatAssumption
    <3>2. QED
      BY <2>1, <2>2, <2>3, <3>1
  <2>4. CASE ~(k <= n)
    <3>1. n + 1 \in Nat /\ k \in Nat /\ n + 1 <= k /\ k <= 2 * ByteBits + 1
      BY <2>4, FormatAssumption
    <3>2. 2 ^ (n + 1) <= 2 ^ k
      BY <3>1, PowerOrder
    <3>3. QED
      BY <2>1, <2>2, <2>4, <3>2
  <2>5. QED
    BY <2>3, <2>4
<1>2. shifts = 1 .. n
  BY <1>1, FormatAssumption
<1>3. Cardinality(1 .. n) = n
  BY FS_Interval
<1>4. QED
  BY <1>2, <1>3 DEF kc_floor_log2

LEMMA FloorLog ==
  ASSUME NEW v \in Nat \ {0}, v <= 2 ^ (2 * ByteBits)
  PROVE  /\ kc_floor_log2(v) \in 0 .. 2 * ByteBits
         /\ 2 ^ kc_floor_log2(v) <= v
         /\ v < 2 ^ (kc_floor_log2(v) + 1)
<1>1. PICK n \in 0 .. 2 * ByteBits : 2 ^ n <= v /\ v < 2 ^ (n + 1)
  BY LeadingOne
<1>2. kc_floor_log2(v) = n
  BY <1>1, FloorLogIs
<1>3. QED
  BY <1>1, <1>2

-----------------------------------------------------------------------------
(***************************************************************************)
(* The rotation moves the payload's low byte to its other end, within the  *)
(* same number of bits, and back.                                          *)
(***************************************************************************)
LEMMA Swapped ==
  ASSUME NEW w \in Nat \ {0}, NEW b \in Nat \ {0}, NEW hi \in 0 .. w - 1, NEW lo \in 0 .. b - 1
  PROVE  /\ hi + lo * w \in 0 .. w * b - 1
         /\ (hi + lo * w) \div w = lo /\ (hi + lo * w) % w = hi
<1> DEFINE a == hi + lo * w
<1>1. lo * w \in Nat /\ a \in Nat /\ a = lo * w + hi
  OBVIOUS
<1>2. a \div w = lo /\ a % w = hi
  <2> HIDE DEF a
  <2>1. QED
    BY <1>1, Quotient
<1>3. lo * w <= (b - 1) * w
  BY ProductOrder
<1>4. (b - 1) * w = w * b - w /\ w * b \in Nat
  OBVIOUS
<1>5. a \in 0 .. w * b - 1
  BY <1>1, <1>3, <1>4
<1>6. QED
  BY <1>2, <1>5

LEMMA ByteShift ==
  ASSUME NEW bits \in ByteBits .. 2 * ByteBits
  PROVE  /\ bits - ByteBits \in 0 .. 2 * ByteBits
         /\ 2 ^ (bits - ByteBits) \in Nat \ {0}
         /\ 2 ^ bits = 2 ^ (bits - ByteBits) * ByteValues
         /\ ByteValues <= 2 ^ bits
         /\ 2 ^ bits \div ByteValues = 2 ^ (bits - ByteBits)
<1> DEFINE k == bits - ByteBits
           w == 2 ^ k
           p == 2 ^ bits
<1>1. /\ k \in Nat /\ ByteBits \in Nat /\ bits \in Nat
      /\ k \in 0 .. 2 * ByteBits /\ k \in 0 .. 2 * ByteBits + 1
      /\ k + ByteBits <= 2 * ByteBits + 1 /\ k + ByteBits = bits
      /\ bits <= 2 * ByteBits + 1
  BY FormatAssumption
<1>2. w \in Nat \ {0}
  BY <1>1, PowerType
<1>3. 2 ^ (k + ByteBits) = 2 ^ k * 2 ^ ByteBits
  <2> HIDE DEF k
  <2>1. QED
    BY <1>1, PowerSum
<1>4. p = w * ByteValues
  BY <1>1, <1>3, FormatAssumption
<1>5. 2 ^ ByteBits <= 2 ^ bits
  <2>1. ByteBits <= bits
    OBVIOUS
  <2>2. QED
    BY <1>1, <2>1, PowerOrder
<1>6. ByteValues <= p
  BY <1>5, FormatAssumption
<1>7. ByteValues \in Nat \ {0}
  BY FormatAssumption
<1> HIDE DEF w, p
<1>8. p \div ByteValues = w
  <2>1. p \in Nat /\ p = w * ByteValues + 0 /\ 0 \in 0 .. ByteValues - 1
    BY <1>2, <1>4, <1>7
  <2>2. QED
    BY <1>2, <1>7, <2>1, Quotient
<1>9. QED
  BY <1>1, <1>2, <1>4, <1>6, <1>8 DEF w, p

LEMMA ShortShift ==
  ASSUME NEW bits \in 0 .. ByteBits - 1
  PROVE  2 ^ bits < ByteValues
<1>1. bits \in Nat /\ bits + 1 \in Nat /\ bits + 1 <= ByteBits /\ ByteBits \in Nat
      /\ ByteBits <= 2 * ByteBits + 1 /\ bits \in 0 .. 2 * ByteBits
  BY FormatAssumption
<1>2. 2 ^ (bits + 1) <= 2 ^ ByteBits
  BY <1>1, PowerOrder
<1>3. 2 ^ bits \in Nat \ {0} /\ 2 ^ (bits + 1) = 2 * 2 ^ bits
  BY <1>1, PowerStep
<1>4. QED
  BY <1>2, <1>3, FormatAssumption

LEMMA RotationUndone ==
  ASSUME NEW bits \in 0 .. 2 * ByteBits, NEW v \in Nat, 2 ^ bits <= v, v < 2 ^ (bits + 1)
  PROVE  /\ Rotated(v, bits) \in 0 .. 2 ^ bits - 1
         /\ Unrotated(2 ^ bits + Rotated(v, bits), 2 ^ bits) = v
<1> DEFINE m == 2 ^ bits
           p == v - m
<1>1. m \in Nat \ {0} /\ p \in 0 .. m - 1 /\ v = m + p
  BY PowerStep
<1>2. CASE bits < ByteBits
  <2>1. Rotated(v, bits) = p
    BY <1>2 DEF Rotated
  <2>2. m < ByteValues
    <3>1. bits \in 0 .. ByteBits - 1
      BY <1>2, FormatAssumption
    <3>2. QED
      BY <3>1, ShortShift
  <2>3. Unrotated(m + p, m) = m + p
    BY <2>2 DEF Unrotated
  <2>4. QED
    BY <1>1, <2>1, <2>3
<1>3. CASE ~(bits < ByteBits)
  <2> DEFINE w == 2 ^ (bits - ByteBits)
             hi == p \div ByteValues
             lo == p % ByteValues
             r == hi + lo * w
  <2>1. bits \in ByteBits .. 2 * ByteBits
    BY <1>3, FormatAssumption
  <2>2. /\ w \in Nat \ {0} /\ m = w * ByteValues
        /\ ByteValues <= m /\ m \div ByteValues = w
    BY <2>1, ByteShift
  <2>3. ByteValues \in Nat \ {0} /\ p \in Nat
    BY <1>1, FormatAssumption
  <2>4. hi \in Nat /\ lo \in 0 .. ByteValues - 1 /\ p = hi * ByteValues + lo
    <3> HIDE DEF p
    <3>1. QED
      BY <2>3, DivBounds
  <2>5. Rotated(v, bits) = r
    BY <1>3 DEF Rotated
  <2>6. Unrotated(m + r, m) = m + (((m + r) - m) % w) * ByteValues + ((m + r) - m) \div w
    BY <2>2, FormatAssumption DEF Unrotated
  <2> HIDE DEF hi, lo, w, m, p
  <2>7. hi \in 0 .. w - 1
    <3>1. CASE w <= hi
      <4>1. w * ByteValues <= hi * ByteValues
        BY <2>2, <2>3, <2>4, <3>1, ProductOrder
      <4>2. hi * ByteValues \in Nat /\ w * ByteValues \in Nat
        BY <2>2, <2>3, <2>4
      <4>3. QED
        BY <1>1, <2>2, <2>4, <4>1, <4>2
    <3>2. QED
      BY <2>2, <2>4, <3>1
  <2>8. r \in 0 .. w * ByteValues - 1 /\ r \div w = lo /\ r % w = hi
    BY <2>2, <2>3, <2>4, <2>7, Swapped
  <2> HIDE DEF r
  <2>9. r \in 0 .. m - 1 /\ m \in Nat
    BY <1>1, <2>2, <2>8
  <2>10. (m + r) - m = r
    BY <2>9
  <2>11. Unrotated(m + r, m) = m + hi * ByteValues + lo
    BY <2>6, <2>8, <2>10
  <2>12. m + hi * ByteValues + lo = v
    <3>1. hi * ByteValues \in Nat
      BY <2>3, <2>4
    <3>2. QED
      BY <1>1, <2>4, <3>1
  <2>13. Rotated(v, bits) \in 0 .. m - 1 /\ Unrotated(m + Rotated(v, bits), m) = v
    BY <2>5, <2>9, <2>11, <2>12
  <2>14. QED
    BY <2>13 DEF m
<1>4. QED
  BY <1>2, <1>3

-----------------------------------------------------------------------------
(***************************************************************************)
(* Reading a number bit by bit.  Behind j payload bits its reader holds a  *)
(* leading one and the upper j bits of the rotated payload; the numbers    *)
(* are those of at most two bytes, and Dali's end of data above them.      *)
(***************************************************************************)
Encodable == 1 .. ByteValues * ByteValues

Payload(v) == Rotated(v, kc_floor_log2(v))

Gathered(v, j) == 2 ^ j + Payload(v) \div 2 ^ (kc_floor_log2(v) - j)

LEMMA TwoBytes ==
  /\ ByteValues * ByteValues = 2 ^ (2 * ByteBits)
  /\ \A v \in Encodable : v \in Nat \ {0} /\ v <= 2 ^ (2 * ByteBits)
<1>1. ByteBits \in Nat /\ ByteBits + ByteBits = 2 * ByteBits
      /\ ByteBits + ByteBits <= 2 * ByteBits + 1
  BY FormatAssumption
<1>2. 2 ^ (ByteBits + ByteBits) = 2 ^ ByteBits * 2 ^ ByteBits
  BY <1>1, PowerSum
<1>3. ByteValues * ByteValues = 2 ^ (2 * ByteBits)
  BY <1>1, <1>2, FormatAssumption
<1>4. QED
  BY <1>3, FormatAssumption DEF Encodable

LEMMA PayloadRange ==
  ASSUME NEW v \in Encodable
  PROVE  /\ kc_floor_log2(v) \in 0 .. 2 * ByteBits
         /\ Payload(v) \in 0 .. 2 ^ kc_floor_log2(v) - 1
         /\ Unrotated(2 ^ kc_floor_log2(v) + Payload(v), 2 ^ kc_floor_log2(v)) = v
<1>1. v \in Nat \ {0} /\ v <= 2 ^ (2 * ByteBits)
  BY TwoBytes
<1>2. /\ kc_floor_log2(v) \in 0 .. 2 * ByteBits
      /\ 2 ^ kc_floor_log2(v) <= v /\ v < 2 ^ (kc_floor_log2(v) + 1)
  BY <1>1, FloorLog
<1>3. QED
  BY <1>1, <1>2, RotationUndone DEF Payload

LEMMA GatheredStart ==
  ASSUME NEW v \in Encodable
  PROVE  Gathered(v, 0) = 1
<1> DEFINE n == kc_floor_log2(v)
           p == Payload(v)
<1>1. n \in 0 .. 2 * ByteBits /\ p \in 0 .. 2 ^ n - 1
  BY PayloadRange
<1>2. 2 ^ n \in Nat \ {0} /\ n - 0 = n
  BY <1>1, PowerStep
<1>3. p \div 2 ^ n = 0
  <2>1. p \in Nat /\ p = 0 * 2 ^ n + p
    BY <1>1, <1>2
  <2>2. QED
    BY <1>1, <1>2, <2>1, Quotient
<1>4. QED
  BY <1>2, <1>3, PowerZero DEF Gathered

LEMMA GatheredAll ==
  ASSUME NEW v \in Encodable
  PROVE  Unrotated(Gathered(v, kc_floor_log2(v)), 2 ^ kc_floor_log2(v)) = v
<1> DEFINE n == kc_floor_log2(v)
           p == Payload(v)
<1>1. n \in 0 .. 2 * ByteBits /\ p \in 0 .. 2 ^ n - 1 /\ Unrotated(2 ^ n + p, 2 ^ n) = v
  BY PayloadRange
<1>2. n - n = 0 /\ 2 ^ n \in Nat
  BY <1>1, PowerStep
<1>3. p \div 1 = p
  BY <1>1, <1>2
<1>4. Gathered(v, n) = 2 ^ n + p
  BY <1>2, <1>3, PowerZero DEF Gathered
<1>5. QED
  BY <1>1, <1>4

LEMMA GatheredNext ==
  ASSUME NEW v \in Encodable, NEW j \in 0 .. kc_floor_log2(v) - 1
  PROVE  /\ Bit(Payload(v), kc_floor_log2(v) - j - 1) \in {0, 1}
         /\ Gathered(v, j + 1) = 2 * Gathered(v, j) + Bit(Payload(v), kc_floor_log2(v) - j - 1)
<1> DEFINE n == kc_floor_log2(v)
           p == Payload(v)
           k == n - j - 1
           w == 2 ^ k
           q == p \div w
           h == p \div (2 * w)
<1>1. n \in 0 .. 2 * ByteBits /\ p \in 0 .. 2 ^ n - 1
  BY PayloadRange
<1>2. /\ k \in 0 .. 2 * ByteBits /\ j \in 0 .. 2 * ByteBits
      /\ n - (j + 1) = k /\ n - j = k + 1
  BY <1>1, FormatAssumption
<1>3. /\ w \in Nat \ {0} /\ 2 ^ (k + 1) = 2 * w
      /\ 2 ^ j \in Nat /\ 2 ^ (j + 1) = 2 * 2 ^ j /\ 2 ^ n \in Nat
  <2> HIDE DEF k, n
  <2>1. QED
    BY <1>1, <1>2, PowerStep
<1>4. p \in Nat
  BY <1>1, <1>3
<1>5. q = 2 * h + (q % 2)
  <2> HIDE DEF p, w
  <2>1. QED
    BY <1>3, <1>4, HalfStep
<1>6. q \in Nat /\ h \in Nat
  <2> HIDE DEF p, w
  <2>1. 2 * w \in Nat \ {0}
    BY <1>3
  <2>2. QED
    BY <1>3, <1>4, <2>1, DivBounds
<1>7. Bit(p, k) = q % 2 /\ q % 2 \in {0, 1}
  <2>1. q % 2 \in {0, 1}
    <3> HIDE DEF q
    <3>1. QED
      BY <1>6
  <2>2. Bit(p, k) = IF q % 2 # 0 THEN 1 ELSE 0
    BY DEF Bit
  <2>3. QED
    BY <2>1, <2>2
<1>8. Gathered(v, j + 1) = 2 ^ (j + 1) + q
  BY <1>2 DEF Gathered
<1>9. Gathered(v, j) = 2 ^ j + h
  BY <1>2, <1>3 DEF Gathered
<1> HIDE DEF q, h
<1>10. 2 ^ (j + 1) + q = 2 * (2 ^ j + h) + (q % 2)
  BY <1>3, <1>5, <1>6
<1>11. QED
  BY <1>7, <1>8, <1>9, <1>10

(***************************************************************************)
(* The test against overflow in the reader never ends a number.            *)
(***************************************************************************)
LEMMA GatheredSmall ==
  ASSUME NEW v \in Encodable, NEW j \in 0 .. kc_floor_log2(v)
  PROVE  /\ Gathered(v, j) \in Nat \ {0}
         /\ j < kc_floor_log2(v) => Gathered(v, j) <= UINT32_MAX_HALF
<1> DEFINE n == kc_floor_log2(v)
           p == Payload(v)
           a == 2 ^ j
           b == 2 ^ (n - j)
           q == p \div b
<1>1. n \in 0 .. 2 * ByteBits /\ p \in 0 .. 2 ^ n - 1
  BY PayloadRange
<1>2. j \in 0 .. 2 * ByteBits /\ n - j \in 0 .. 2 * ByteBits /\ j \in Nat /\ n - j \in Nat
      /\ j + (n - j) = n /\ j + (n - j) <= 2 * ByteBits + 1
  BY <1>1, FormatAssumption
<1>3. a \in Nat \ {0} /\ b \in Nat \ {0} /\ 2 ^ n \in Nat
  BY <1>1, <1>2, PowerStep
<1>4. 2 ^ n = a * b
  <2>1. 2 ^ (j + (n - j)) = 2 ^ j * 2 ^ (n - j)
    <3> HIDE DEF n
    <3>1. QED
      BY <1>2, PowerSum
  <2>2. QED
    BY <1>2, <2>1
<1>5. p \in Nat /\ p < a * b
  BY <1>1, <1>3, <1>4
<1>6. Gathered(v, j) = a + q
  BY DEF Gathered
<1>7. q \in Nat /\ q * b <= p
  <2> HIDE DEF p, b
  <2>1. q \in Nat /\ p % b \in 0 .. b - 1 /\ p = q * b + (p % b)
    BY <1>3, <1>5, DivBounds
  <2> HIDE DEF q
  <2>2. q * b \in Nat
    BY <1>3, <2>1
  <2>3. QED
    BY <1>3, <2>1, <2>2
<1> HIDE DEF a, b, p, q
<1>8. q < a
  <2>1. CASE a <= q
    <3>1. a * b <= q * b /\ a * b \in Int /\ q * b \in Int
      BY <1>3, <1>7, <2>1, ProductOrder
    <3>2. QED
      BY <1>5, <1>7, <3>1
  <2>2. QED
    BY <1>3, <1>7, <2>1
<1>9. Gathered(v, j) \in Nat \ {0} /\ Gathered(v, j) < 2 * a
  BY <1>3, <1>6, <1>7, <1>8
<1>10. ASSUME j < n PROVE Gathered(v, j) <= UINT32_MAX_HALF
  <2>1. 2 ^ (j + 1) = 2 * a
    BY <1>2, PowerStep DEF a
  <2>2. 2 ^ (j + 1) <= 2 ^ (2 * ByteBits)
    <3>1. j + 1 \in Nat /\ 2 * ByteBits \in Nat /\ j + 1 <= 2 * ByteBits
          /\ 2 * ByteBits <= 2 * ByteBits + 1
      BY <1>1, <1>2, <1>10, FormatAssumption
    <3>2. QED
      BY <3>1, PowerOrder
  <2>3. 2 * a <= ByteValues * ByteValues
    BY <2>1, <2>2, TwoBytes
  <2> DEFINE square == ByteValues * ByteValues
             top == square * LowOffsets
  <2>4. square \in Nat \ {0} /\ LowOffsets \in Nat /\ LowOffsets >= 2
    BY FormatAssumption DEF LowOffsets
  <2> HIDE DEF square
  <2>5. top \in Nat /\ top >= square
    BY <2>4
  <2>6. UINT32_MAX_HALF = top * (ByteValues - 1) + (top - 1)
    BY DEF UINT32_MAX_HALF, square
  <2> HIDE DEF top
  <2>7. top * (ByteValues - 1) >= top /\ top * (ByteValues - 1) \in Nat
    BY <2>5, FormatAssumption
  <2>8. square <= UINT32_MAX_HALF /\ UINT32_MAX_HALF \in Int
    BY <2>4, <2>5, <2>6, <2>7
  <2>9. QED
    BY <1>3, <1>9, <2>3, <2>4, <2>8 DEF square
<1>11. QED
  BY <1>9, <1>10 DEF n

-----------------------------------------------------------------------------
(***************************************************************************)
(* Every number is written in an odd number of bits, one less without the  *)
(* first.                                                                  *)
(***************************************************************************)
LEMMA FloorLogType == \A value : kc_floor_log2(value) \in Nat
<1> TAKE value
<1> DEFINE shifts == {k \in 1 .. 2 * ByteBits : value \div 2 ^ k # 0}
<1>1. IsFiniteSet(1 .. 2 * ByteBits)
  BY FS_Interval, FormatAssumption
<1>2. IsFiniteSet(shifts)
  BY <1>1, FS_Subset
<1>3. Cardinality(shifts) \in Nat
  BY <1>2, FS_CardinalityType
<1>4. QED
  BY <1>3 DEF kc_floor_log2

LEMMA CodeLength ==
  ASSUME NEW value
  PROVE  /\ kc_write_dali_length(value, FALSE) \in Seq({0, 1})
         /\ Len(kc_write_dali_length(value, FALSE)) = 2 * kc_floor_log2(value) + 1
         /\ Len(kc_write_dali_length(value, TRUE)) = 2 * kc_floor_log2(value)
<1> DEFINE bits == kc_floor_log2(value)
           payload == Rotated(value, bits)
           code == [n \in 1 .. 2 * bits + 1 |->
                      IF n = 2 * bits + 1 THEN 1
                      ELSE IF n % 2 = 1 THEN 0
                      ELSE Bit(payload, bits - n \div 2)]
<1>1. bits \in Nat
  BY FloorLogType
<1>2. kc_write_dali_length(value, FALSE) = code /\ kc_write_dali_length(value, TRUE) = Tail(code)
  BY DEF kc_write_dali_length
<1> HIDE DEF bits
<1>3. \A n \in 1 .. 2 * bits + 1 : code[n] \in {0, 1}
  BY DEF Bit
<1>4. code \in Seq({0, 1})
  BY <1>1, <1>3
<1>5. Len(code) = 2 * bits + 1
  BY <1>1
<1> HIDE DEF code
<1>6. code # <<>>
  BY <1>1, <1>4, <1>5
<1>7. Len(Tail(code)) = 2 * bits
  BY <1>1, <1>4, <1>5, <1>6
<1>8. QED
  BY <1>2, <1>4, <1>5, <1>7 DEF bits

(* With its command bit in front a number takes an even number of bits. *)
LEMMA CommandLength ==
  ASSUME NEW value, NEW bit \in {0, 1}
  PROVE  /\ Len(<<bit>> \o kc_write_dali_length(value, FALSE)) \in Nat
         /\ Len(<<bit>> \o kc_write_dali_length(value, FALSE)) % 2 = 0
         /\ Len(<<>> \o kc_write_dali_length(value, FALSE)) \in Nat
         /\ Len(<<>> \o kc_write_dali_length(value, FALSE)) % 2 = 1
         /\ Len(kc_write_dali_length(value, TRUE)) \in Nat
         /\ Len(kc_write_dali_length(value, TRUE)) % 2 = 0
<1> DEFINE code == kc_write_dali_length(value, FALSE)
           log == kc_floor_log2(value)
<1>1. log \in Nat
  BY FloorLogType
<1>2. code \in Seq({0, 1}) /\ Len(code) = 2 * log + 1
  BY CodeLength
<1>3. Len(kc_write_dali_length(value, TRUE)) = 2 * log
  BY CodeLength
<1> HIDE DEF code, log
<1>4. Len(<<bit>> \o code) = 2 * log + 2 /\ Len(<<>> \o code) = 2 * log + 1
  BY <1>1, <1>2
<1>5. /\ 2 * log \in Nat /\ (2 * log) % 2 = 0
      /\ 2 * log + 1 \in Nat /\ (2 * log + 1) % 2 = 1
      /\ 2 * log + 2 \in Nat /\ (2 * log + 2) % 2 = 0
  BY <1>1
<1>6. Len(<<bit>> \o code) \in Nat /\ Len(<<bit>> \o code) % 2 = 0
  BY <1>4, <1>5
<1>7. Len(<<>> \o code) \in Nat /\ Len(<<>> \o code) % 2 = 1
  BY <1>4, <1>5
<1>8. QED
  BY <1>3, <1>5, <1>6, <1>7 DEF code

(***************************************************************************)
(* The bits of a code: a 0 in front of each payload bit, and a closing 1.  *)
(***************************************************************************)
LEMMA CodeClose ==
  ASSUME NEW v
  PROVE  kc_write_dali_length(v, FALSE)[2 * kc_floor_log2(v) + 1] = 1
<1>1. kc_floor_log2(v) \in Nat
  BY FloorLogType
<1>2. 2 * kc_floor_log2(v) + 1 \in 1 .. 2 * kc_floor_log2(v) + 1
  BY <1>1
<1>3. QED
  BY <1>2 DEF kc_write_dali_length

LEMMA CodePair ==
  ASSUME NEW v, NEW j \in 0 .. kc_floor_log2(v) - 1
  PROVE  /\ kc_write_dali_length(v, FALSE)[2 * j + 1] = 0
         /\ kc_write_dali_length(v, FALSE)[2 * j + 2] = Bit(Payload(v), kc_floor_log2(v) - j - 1)
<1> DEFINE bits == kc_floor_log2(v)
           payload == Rotated(v, bits)
           code == [i \in 1 .. 2 * bits + 1 |->
                      IF i = 2 * bits + 1 THEN 1
                      ELSE IF i % 2 = 1 THEN 0
                      ELSE Bit(payload, bits - i \div 2)]
<1>1. kc_write_dali_length(v, FALSE) = code
  BY DEF kc_write_dali_length
<1>2. bits \in Nat
  BY FloorLogType
<1> HIDE DEF bits
<1>3. /\ 2 * j + 1 \in 1 .. 2 * bits + 1 /\ 2 * j + 2 \in 1 .. 2 * bits + 1
      /\ 2 * j + 1 # 2 * bits + 1 /\ 2 * j + 2 # 2 * bits + 1
      /\ (2 * j + 1) % 2 = 1 /\ (2 * j + 2) % 2 = 0
      /\ bits - (2 * j + 2) \div 2 = bits - j - 1
  BY <1>2 DEF bits
<1>4. code[2 * j + 1] = 0
  BY <1>3
<1>5. code[2 * j + 2] = Bit(payload, bits - (2 * j + 2) \div 2)
  BY <1>3
<1>6. QED
  BY <1>1, <1>3, <1>4, <1>5 DEF Payload, bits

LEMMA CodeSkipped ==
  ASSUME NEW v
  PROVE  /\ kc_write_dali_length(v, TRUE) \in Seq({0, 1})
         /\ \A i \in 1 .. 2 * kc_floor_log2(v) :
              kc_write_dali_length(v, TRUE)[i] = kc_write_dali_length(v, FALSE)[i + 1]
<1> DEFINE code == kc_write_dali_length(v, FALSE)
           n == kc_floor_log2(v)
<1>1. n \in Nat /\ code \in Seq({0, 1}) /\ Len(code) = 2 * n + 1
  BY CodeLength, FloorLogType
<1>2. kc_write_dali_length(v, TRUE) = Tail(code)
  BY DEF kc_write_dali_length
<1> HIDE DEF code, n
<1>3. code # <<>>
  BY <1>1
<1>4. Tail(code) \in Seq({0, 1}) /\ \A i \in 1 .. 2 * n : Tail(code)[i] = code[i + 1]
  BY <1>1, <1>3
<1>5. QED
  BY <1>2, <1>4 DEF code, n

-----------------------------------------------------------------------------
(***************************************************************************)
(* The bits of a byte.                                                     *)
(***************************************************************************)
LEMMA ByteIsNat == \A x \in Byte : x \in Nat /\ x < ByteValues
  BY FormatAssumption DEF Byte

LEMMA ShiftPowers ==
  ASSUME NEW shift \in 0 .. ByteBits - 1
  PROVE  /\ 2 ^ shift \in Nat \ {0} /\ 2 ^ (shift + 1) \in Nat \ {0}
         /\ 2 ^ (shift + 1) = 2 * 2 ^ shift
         /\ 2 ^ (ByteBits - (shift + 1)) \in Nat \ {0}
         /\ 2 ^ (ByteBits - (shift + 1)) * 2 ^ (shift + 1) = ByteValues
<1>1. shift \in 0 .. 2 * ByteBits
  BY FormatAssumption
<1>2. 2 ^ shift \in Nat \ {0} /\ 2 ^ (shift + 1) \in Nat \ {0} /\ 2 ^ (shift + 1) = 2 * 2 ^ shift
  BY <1>1, PowerStep
<1> DEFINE j == ByteBits - (shift + 1)
           k == shift + 1
<1>3. /\ j \in Nat /\ k \in Nat /\ j + k <= 2 * ByteBits + 1 /\ j + k = ByteBits
      /\ j \in 0 .. 2 * ByteBits + 1
  BY FormatAssumption
<1> HIDE DEF j, k
<1>4. 2 ^ j \in Nat \ {0} /\ 2 ^ (j + k) = 2 ^ j * 2 ^ k
  BY <1>3, PowerSum, PowerType
<1>5. 2 ^ j * 2 ^ k = ByteValues
  BY <1>3, <1>4, FormatAssumption
<1>6. QED
  BY <1>2, <1>4, <1>5 DEF j, k

(***************************************************************************)
(* A bit is added to a byte whose bits from there on are zero.             *)
(***************************************************************************)
LEMMA BitAdded ==
  ASSUME NEW old \in Byte, NEW shift \in 0 .. ByteBits - 1, NEW bit \in {0, 1},
         old % 2 ^ (shift + 1) = 0
  PROVE  LET new == old + bit * 2 ^ shift
         IN  /\ new \in Byte /\ new % 2 ^ shift = 0
             /\ new \div 2 ^ (shift + 1) = old \div 2 ^ (shift + 1)
             /\ (new \div 2 ^ shift) % 2 = bit
<1> DEFINE w == 2 ^ shift
           u == 2 ^ (shift + 1)
           c == 2 ^ (ByteBits - (shift + 1))
           q == old \div u
           new == old + bit * w
<1>1. /\ w \in Nat \ {0} /\ u \in Nat \ {0} /\ u = 2 * w /\ c \in Nat \ {0}
      /\ c * u = ByteValues
  BY ShiftPowers
<1>2. old \in Nat /\ old < ByteValues /\ old % u = 0
  BY FormatAssumption DEF Byte
<1> HIDE DEF w, u, c
<1>3. q \in Nat /\ old = q * u + (old % u)
  BY <1>1, <1>2, DivBounds
<1> HIDE DEF q
<1>4. q * u \in Nat /\ old = q * u
  BY <1>1, <1>2, <1>3
<1>5. q + 1 <= c
  <2>1. CASE c <= q
    <3>1. c * u <= q * u
      BY <1>1, <1>3, <2>1, ProductOrder
    <3>2. QED
      BY <1>1, <1>2, <1>4, <3>1, FormatAssumption
  <2>2. QED
    BY <1>1, <1>3, <2>1
<1>6. (q + 1) * u <= ByteValues /\ (q + 1) * u = q * u + u
  <2>1. (q + 1) * u <= c * u
    BY <1>1, <1>3, <1>5, ProductOrder
  <2>2. QED
    BY <1>1, <1>3, <2>1
<1>7. bit * w \in 0 .. u - 1
  <2>1. CASE bit = 0
    BY <1>1, <2>1
  <2>2. CASE bit = 1
    BY <1>1, <2>2
  <2>3. QED
    BY <2>1, <2>2
<1>8. new \in Byte /\ new \in Nat
  <2>1. new < ByteValues /\ new \in Nat
    BY <1>1, <1>4, <1>6, <1>7, FormatAssumption
  <2>2. QED
    BY <2>1, FormatAssumption DEF Byte
<1>9. new \div u = q
  <2> DEFINE r == bit * w
  <2>1. new = q * u + r /\ r \in 0 .. u - 1
    BY <1>4, <1>7
  <2>2. new \in Nat /\ u \in Nat \ {0} /\ q \in Nat
    BY <1>1, <1>3, <1>8
  <2> HIDE DEF r, new
  <2>3. QED
    BY <2>1, <2>2, Quotient
<1>10. new \div w = 2 * q + bit /\ new % w = 0
  <2>1. q * u = (2 * q) * w
    BY <1>1, <1>3
  <2>2. (2 * q) * w + bit * w = (2 * q + bit) * w
    BY <1>1, <1>3
  <2>3. (2 * q + bit) * w \in Nat
    BY <1>1, <1>3
  <2>4. new = (2 * q + bit) * w + 0
    BY <1>4, <2>1, <2>2, <2>3
  <2>5. 2 * q + bit \in Nat /\ 0 \in 0 .. w - 1
    BY <1>1, <1>3
  <2> DEFINE d == 2 * q + bit
  <2> HIDE DEF d, new
  <2>6. QED
    BY <1>1, <1>8, <2>4, <2>5, Quotient DEF d
<1>11. (2 * q + bit) % 2 = bit
  BY <1>3
<1>12. QED
  BY <1>8, <1>9, <1>10, <1>11 DEF w, u, q

LEMMA DivDiv ==
  ASSUME NEW x \in Nat, NEW a \in Nat \ {0}, NEW b \in Nat \ {0}
  PROVE  x \div (a * b) = (x \div a) \div b
<1> DEFINE q == x \div a
           r == x % a
           d == q \div b
           e == q % b
           rest == e * a + r
<1>1. q \in Nat /\ r \in 0 .. a - 1 /\ x = q * a + r
  BY DivBounds
<1> HIDE DEF q, r
<1>2. d \in Nat /\ e \in 0 .. b - 1 /\ q = d * b + e
  BY <1>1, DivBounds
<1> HIDE DEF d, e
<1>3. x = d * (a * b) + rest
  <2>1. q * a = (d * b) * a + e * a /\ (d * b) * a = d * (a * b)
    BY <1>2
  <2>2. d * (a * b) \in Nat /\ e * a \in Nat
    BY <1>2
  <2>3. QED
    BY <1>1, <2>1, <2>2
<1>4. rest \in 0 .. a * b - 1
  <2>1. e * a <= (b - 1) * a /\ e * a \in Nat
    BY <1>2, ProductOrder
  <2>2. (b - 1) * a = a * b - a /\ a * b \in Nat
    OBVIOUS
  <2>3. QED
    BY <1>1, <2>1, <2>2
<1>5. a * b \in Nat \ {0}
  OBVIOUS
<1> HIDE DEF rest
<1> DEFINE m == a * b
<1>6. m \in Nat \ {0} /\ rest \in 0 .. m - 1 /\ x = d * m + rest
  BY <1>3, <1>4, <1>5
<1> HIDE DEF m
<1>7. x \div m = d
  BY <1>2, <1>6, Quotient
<1>8. QED
  BY <1>7 DEF m, d, q
LEMMA Joined ==
  ASSUME NEW S, NEW a \in Seq(S), NEW b \in Seq(S)
  PROVE  /\ a \o b \in Seq(S)
         /\ Len(a \o b) = Len(a) + Len(b)
         /\ \A k \in 1 .. Len(a) : (a \o b)[k] = a[k]
         /\ \A k \in 1 .. Len(b) : (a \o b)[Len(a) + k] = b[k]
  OBVIOUS

-----------------------------------------------------------------------------
(***************************************************************************)
(* The walk of the writer, a position at a time.                           *)
(***************************************************************************)
Walked(table, from, to, format, walk) ==
  walk = [pos \in from .. to |->
            IF pos = from THEN StartOfWalk(from)
            ELSE IF table[pos - 1].length = 0 THEN walk[pos - 1]
            ELSE WalkOn(walk[pos - 1], pos - 1, table[pos - 1], format)]

Onward(walk, pos, table, format) ==
  IF table[pos].length = 0 THEN walk ELSE WalkOn(walk, pos, table[pos], format)

LEMMA WalkExists ==
  ASSUME NEW table, NEW from \in Nat, NEW to \in Nat, from <= to, NEW format
  PROVE  \E walk : Walked(table, from, to, format, walk)
<1> DEFINE n == to - from
           S == {k \in Nat : \E walk : Walked(table, from, from + k, format, walk)}
<1>1. 0 \in S
  <2>1. Walked(table, from, from + 0, format, [pos \in from .. from + 0 |-> StartOfWalk(from)])
    BY DEF Walked
  <2>2. QED
    BY <2>1
<1>2. ASSUME NEW k \in 0 .. n - 1, k \in S PROVE k + 1 \in S
  <2>1. PICK walk : Walked(table, from, from + k, format, walk)
    BY <1>2
  <2> DEFINE last == from + k + 1
             more == [pos \in from .. last |->
                        IF pos = last THEN Onward(walk[from + k], from + k, table, format)
                        ELSE walk[pos]]
  <2>2. ASSUME NEW pos \in from .. last
        PROVE  more[pos] = IF pos = from THEN StartOfWalk(from)
                           ELSE IF table[pos - 1].length = 0 THEN more[pos - 1]
                           ELSE WalkOn(more[pos - 1], pos - 1, table[pos - 1], format)
    <3>1. CASE pos = last
      <4>1. more[pos] = Onward(walk[from + k], from + k, table, format)
            /\ more[pos - 1] = walk[from + k] /\ pos - 1 = from + k /\ pos # from
        BY <3>1
      <4> HIDE DEF more
      <4>2. QED
        BY <4>1 DEF Onward
    <3>2. CASE pos # last
      <4>1. pos \in from .. from + k /\ more[pos] = walk[pos]
            /\ (pos # from => more[pos - 1] = walk[pos - 1])
        BY <3>2
      <4> HIDE DEF more
      <4>2. walk[pos] = IF pos = from THEN StartOfWalk(from)
                        ELSE IF table[pos - 1].length = 0 THEN walk[pos - 1]
                        ELSE WalkOn(walk[pos - 1], pos - 1, table[pos - 1], format)
        BY <2>1, <4>1 DEF Walked
      <4>3. QED
        BY <4>1, <4>2
    <3>3. QED
      BY <3>1, <3>2
  <2>3. more = [pos \in from .. last |-> more[pos]]
    OBVIOUS
  <2> HIDE DEF more
  <2>4. Walked(table, from, last, format, more)
    BY <2>2, <2>3 DEF Walked
  <2>5. last = from + (k + 1) /\ k + 1 \in Nat
    OBVIOUS
  <2> HIDE DEF last
  <2>6. QED
    BY <2>4, <2>5
<1>3. n \in Nat /\ n \in 0 .. n /\ from + n = to
  OBVIOUS
<1>4. \A k \in 0 .. n : k \in S
  <2> HIDE DEF S, n
  <2>1. QED
    BY <1>1, <1>2, <1>3, SetInduction
<1>5. QED
  BY <1>3, <1>4

LEMMA WalksAgree ==
  ASSUME NEW table, NEW from \in Nat, NEW to \in Nat, NEW last \in Nat, from <= to, to <= last,
         NEW format,
         NEW v, Walked(table, from, to, format, v),
         NEW w, Walked(table, from, last, format, w)
  PROVE  v[to] = w[to]
<1> DEFINE k == to - from
           S == {j \in Nat : v[from + j] = w[from + j]}
<1>1. \A pos \in from .. to :
        v[pos] = IF pos = from THEN StartOfWalk(from)
                 ELSE IF table[pos - 1].length = 0 THEN v[pos - 1]
                 ELSE WalkOn(v[pos - 1], pos - 1, table[pos - 1], format)
  BY DEF Walked
<1>2. \A pos \in from .. last :
        w[pos] = IF pos = from THEN StartOfWalk(from)
                 ELSE IF table[pos - 1].length = 0 THEN w[pos - 1]
                 ELSE WalkOn(w[pos - 1], pos - 1, table[pos - 1], format)
  BY DEF Walked
<1>3. 0 \in S
  BY <1>1, <1>2
<1>4. ASSUME NEW j \in 0 .. k - 1, j \in S PROVE j + 1 \in S
  <2> DEFINE pos == from + (j + 1)
  <2>1. pos \in from .. to /\ pos \in from .. last /\ pos # from
        /\ pos - 1 = from + j /\ j \in Nat
    OBVIOUS
  <2>2. v[pos - 1] = w[pos - 1]
    BY <1>4, <2>1
  <2> HIDE DEF pos
  <2>3. v[pos] = w[pos]
    BY <1>1, <1>2, <2>1, <2>2
  <2>4. QED
    BY <2>3 DEF pos
<1>5. k \in Nat /\ k \in 0 .. k /\ from + k = to
  OBVIOUS
<1>6. \A j \in 0 .. k : j \in S
  <2> HIDE DEF S, k
  <2>1. QED
    BY <1>3, <1>4, <1>5, SetInduction
<1>7. QED
  BY <1>5, <1>6

LEMMA WalkIs ==
  ASSUME NEW table, NEW from \in Nat, NEW to \in Nat, NEW last \in Nat, from <= to, to <= last,
         NEW format, NEW walk, Walked(table, from, last, format, walk)
  PROVE  Walk(table, from, to, format) = walk[to]
<1> DEFINE P(w) == w = [pos \in from .. to |->
                          IF pos = from THEN StartOfWalk(from)
                          ELSE IF table[pos - 1].length = 0 THEN w[pos - 1]
                          ELSE WalkOn(w[pos - 1], pos - 1, table[pos - 1], format)]
           v == CHOOSE w : P(w)
<1>1. PICK u : Walked(table, from, to, format, u)
  BY WalkExists
<1>2. P(u)
  BY <1>1 DEF Walked
<1>3. P(v)
  <2> HIDE DEF P
  <2>1. QED
    BY <1>2
<1>4. Walk(table, from, to, format) = v[to]
  BY DEF Walk
<1>5. Walked(table, from, to, format, v)
  BY <1>3 DEF Walked
<1> HIDE DEF v, P
<1>6. v[to] = walk[to]
  BY <1>5, WalksAgree
<1>7. QED
  BY <1>4, <1>6

(* One position on, and over positions without a match. *)
LEMMA WalkStart ==
  ASSUME NEW table, NEW from \in Nat, NEW format
  PROVE  Walk(table, from, from, format) = StartOfWalk(from)
<1>1. PICK walk : Walked(table, from, from, format, walk)
  BY WalkExists
<1>2. walk[from] = StartOfWalk(from)
  BY <1>1 DEF Walked
<1>3. Walk(table, from, from, format) = walk[from]
  BY <1>1, WalkIs
<1>4. QED
  BY <1>2, <1>3

LEMMA WalkStep ==
  ASSUME NEW table, NEW from \in Nat, NEW pos \in Nat, from <= pos, NEW format
  PROVE  Walk(table, from, pos + 1, format)
           = Onward(Walk(table, from, pos, format), pos, table, format)
<1> DEFINE last == pos + 1
<1>1. last \in Nat /\ from <= last /\ pos <= last /\ last # from /\ last - 1 = pos
      /\ last \in from .. last
  OBVIOUS
<1> HIDE DEF last
<1>2. PICK walk : Walked(table, from, last, format, walk)
  BY <1>1, WalkExists
<1>3. Walk(table, from, pos, format) = walk[pos]
  BY <1>1, <1>2, WalkIs
<1>4. Walk(table, from, last, format) = walk[last]
  BY <1>1, <1>2, WalkIs
<1>5. walk[last] = Onward(walk[pos], pos, table, format)
  BY <1>1, <1>2 DEF Walked, Onward
<1>6. QED
  BY <1>3, <1>4, <1>5 DEF last

LEMMA WalkOver ==
  ASSUME NEW table, NEW from \in Nat, NEW pos \in Nat, NEW to \in Nat, from <= pos, pos <= to,
         NEW format, \A q \in pos .. to - 1 : table[q].length = 0
  PROVE  Walk(table, from, to, format) = Walk(table, from, pos, format)
<1> DEFINE n == to - pos
           S == {k \in Nat : Walk(table, from, pos + k, format) = Walk(table, from, pos, format)}
<1>1. 0 \in S
  OBVIOUS
<1>2. ASSUME NEW k \in 0 .. n - 1, k \in S PROVE k + 1 \in S
  <2> DEFINE x == pos + k
  <2>1. k \in Nat /\ x \in pos .. to - 1 /\ x \in Nat /\ from <= x /\ x + 1 = pos + (k + 1)
    OBVIOUS
  <2>2. Walk(table, from, x, format) = Walk(table, from, pos, format)
    BY <1>2
  <2> HIDE DEF x
  <2>3. Walk(table, from, x + 1, format) = Onward(Walk(table, from, x, format), x, table, format)
    BY <2>1, WalkStep
  <2>4. table[x].length = 0
    BY <2>1
  <2>5. Walk(table, from, x + 1, format) = Walk(table, from, pos, format)
    BY <2>2, <2>3, <2>4 DEF Onward
  <2>6. QED
    BY <2>1, <2>5
<1>3. n \in Nat /\ n \in 0 .. n /\ pos + n = to
  OBVIOUS
<1>4. \A k \in 0 .. n : k \in S
  <2> HIDE DEF S, n
  <2>1. QED
    BY <1>1, <1>2, <1>3, SetInduction
<1>5. QED
  BY <1>3, <1>4

=============================================================================
