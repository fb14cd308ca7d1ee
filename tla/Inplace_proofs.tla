---------------------------- MODULE Inplace_proofs ----------------------------
(***************************************************************************)
(* What holds of the length code for every width of a byte and every       *)
(* number of up to two bytes, and for Dali's end of data; and, resting on  *)
(* it and on the promise of a packed file, that a file cut and laid out    *)
(* for in-place decompression decompresses over itself, for every window,  *)
(* every choice of matches and every page the file may be loaded to.       *)
(***************************************************************************)
EXTENDS Inplace, Codec, Verify_proofs

(***************************************************************************)
(* The inductive invariant.  CodeInv: what is read is the beginning of the *)
(* number's code.  ReadInv: behind j pairs of bits the reader holds the    *)
(* upper j bits of the payload, and a pair is left for every bit that is   *)
(* still to come; so a code ends where its writer ended it.                *)
(***************************************************************************)
Skipped == IF skip THEN 1 ELSE 0

CodeInv ==
  rpc # "idle" =>
    /\ number \in Encodable /\ skip \in BOOLEAN /\ (skip => number > 1) /\ lost \in Nat
    /\ code \in Seq({0, 1}) /\ Len(code) \in Nat
    /\ Len(code) + lost = (2 * kc_floor_log2(number) + 1) - Skipped
    /\ \A k \in 1 .. Len(code) : code[k] = kc_write_dali_length(number, FALSE)[k + Skipped]
    /\ pos \in 0 .. Len(code)

Holds(j) == so_far = Gathered(number, j) /\ leading = 2 ^ j

ReadInv ==
  /\ rpc \in {"idle", "control", "payload", "done", "error"}
  /\ rpc = "control" =>
       \E j \in 0 .. kc_floor_log2(number) : pos + Skipped = 2 * j /\ Holds(j)
  /\ rpc = "payload" =>
       \E j \in 0 .. kc_floor_log2(number) - 1 : pos + Skipped = 2 * j + 1 /\ Holds(j)

IInv == CodeInv /\ ReadInv /\ RoundTrip

LEMMA InitIInv == CodecInit => IInv
  BY DEF CodecInit, IInv, CodeInv, ReadInv, RoundTrip

LEMMA NumbersEncodable == Numbers \subseteq Encodable
  BY CodecAssumption DEF Encodable, EodHigh

LEMMA PayloadLeft ==
  ASSUME NEW n \in Encodable, n > 1
  PROVE  kc_floor_log2(n) >= 1
<1>1. n \in Nat \ {0} /\ n <= 2 ^ (2 * ByteBits)
  BY TwoBytes
<1>2. /\ kc_floor_log2(n) \in 0 .. 2 * ByteBits
      /\ n < 2 ^ (kc_floor_log2(n) + 1)
  BY <1>1, FloorLog
<1>3. CASE kc_floor_log2(n) = 0
  <2>1. 0 \in 0 .. 2 * ByteBits
    BY FormatAssumption
  <2>2. 2 ^ (0 + 1) = 2 * 2 ^ 0
    BY <2>1, PowerStep
  <2>3. 2 ^ (kc_floor_log2(n) + 1) = 2
    BY <1>3, <2>2, PowerZero
  <2>4. QED
    BY <1>1, <1>2, <2>3
<1>4. QED
  BY <1>2, <1>3

(* The code as it is handed over, with its end missing. *)
LEMMA Prefix ==
  ASSUME NEW n, NEW s \in BOOLEAN, NEW l \in Nat,
         l <= Len(kc_write_dali_length(n, s))
  PROVE  LET bits == kc_write_dali_length(n, s)
             c    == SubSeq(bits, 1, Len(bits) - l)
             d    == IF s THEN 1 ELSE 0
         IN  /\ c \in Seq({0, 1})
             /\ Len(c) \in Nat /\ Len(c) + l = (2 * kc_floor_log2(n) + 1) - d
             /\ \A k \in 1 .. Len(c) : c[k] = kc_write_dali_length(n, FALSE)[k + d]
<1> DEFINE bits == kc_write_dali_length(n, s)
           c == SubSeq(bits, 1, Len(bits) - l)
           d == IF s THEN 1 ELSE 0
           log == kc_floor_log2(n)
           full == kc_write_dali_length(n, FALSE)
<1>1. log \in Nat
  BY FloorLogType
<1>2. /\ bits \in Seq({0, 1}) /\ Len(bits) = (2 * log + 1) - d
      /\ \A k \in 1 .. Len(bits) : bits[k] = full[k + d]
  <2>1. CASE s
    <3>1. bits = kc_write_dali_length(n, TRUE) /\ d = 1
      BY <2>1
    <3>2. Len(bits) = 2 * log
      BY <3>1, CodeLength
    <3>3. bits \in Seq({0, 1}) /\ \A k \in 1 .. 2 * log : bits[k] = full[k + 1]
      BY <3>1, CodeSkipped
    <3> HIDE DEF bits, full, d, log
    <3>4. Len(bits) = (2 * log + 1) - d
      <4>1. d = 1
        BY <3>1
      <4>2. QED
        BY <1>1, <3>2, <4>1
    <3>5. \A k \in 1 .. Len(bits) : bits[k] = full[k + d]
      BY <1>1, <3>1, <3>2, <3>3
    <3>6. QED
      BY <3>3, <3>4, <3>5
  <2>2. CASE ~s
    <3>1. bits = full /\ d = 0
      BY <2>2
    <3>2. bits \in Seq({0, 1}) /\ Len(bits) = 2 * log + 1
      BY <3>1, CodeLength
    <3> HIDE DEF bits, full, d, log
    <3>3. QED
      BY <1>1, <3>1, <3>2
  <2>3. QED
    BY <2>1, <2>2
<1>3. l <= Len(bits) /\ d \in {0, 1}
  OBVIOUS
<1> HIDE DEF bits, full, d, log
<1>4. Len(c) = Len(bits) - l /\ \A k \in 1 .. Len(c) : c[k] = bits[k]
  BY <1>2, <1>3
<1>5. c \in Seq({0, 1})
  BY <1>2, <1>3
<1> HIDE DEF c
<1>6. Len(c) \in Nat /\ Len(c) + l = (2 * log + 1) - d
  BY <1>1, <1>2, <1>3, <1>4
<1>7. \A k \in 1 .. Len(c) : c[k] = full[k + d]
  BY <1>1, <1>2, <1>3, <1>4
<1>8. QED
  BY <1>5, <1>6, <1>7 DEF bits, full, d, log, c

LEMMA NumberStep == IInv /\ WriteNumber => IInv'
<1> SUFFICES ASSUME WriteNumber PROVE IInv'
  OBVIOUS
<1>1. PICK n \in Numbers, s \in BOOLEAN, l \in 0 .. MaxLost :
        /\ s => n > 1
        /\ number' = n /\ skip' = s /\ lost' = l
        /\ l <= Len(kc_write_dali_length(n, s))
        /\ code' = SubSeq(kc_write_dali_length(n, s), 1, Len(kc_write_dali_length(n, s)) - l)
        /\ pos' = 0 /\ so_far' = 1 /\ leading' = 1
        /\ rpc' = IF s THEN "payload" ELSE "control"
  BY DEF WriteNumber
<1>2. n \in Encodable /\ l \in Nat
  BY NumbersEncodable
<1> DEFINE d == IF s THEN 1 ELSE 0
<1>3. CodeInv'
  <2>1. /\ code' \in Seq({0, 1})
        /\ Len(code') \in Nat /\ Len(code') + l = (2 * kc_floor_log2(n) + 1) - d
        /\ \A k \in 1 .. Len(code') : code'[k] = kc_write_dali_length(n, FALSE)[k + d]
    BY <1>1, <1>2, Prefix
  <2>2. Skipped' = d
    BY <1>1 DEF Skipped
  <2> HIDE DEF d
  <2>3. 0 \in 0 .. Len(code')
    BY <2>1
  <2>4. QED
    BY <1>1, <1>2, <2>1, <2>2, <2>3 DEF CodeInv
<1>4. Holds(0)'
  BY <1>1, <1>2, GatheredStart, PowerZero DEF Holds
<1>5. ReadInv'
  <2>1. kc_floor_log2(n) \in Nat
    BY FloorLogType
  <2>2. CASE s
    <3>1. 0 \in 0 .. kc_floor_log2(n) - 1
      BY <1>1, <1>2, <2>1, <2>2, PayloadLeft
    <3>2. pos' + Skipped' = 2 * 0 + 1
      BY <1>1, <2>2 DEF Skipped
    <3>3. QED
      BY <1>1, <1>4, <2>2, <3>1, <3>2 DEF ReadInv
  <2>3. CASE ~s
    <3>1. pos' + Skipped' = 2 * 0 /\ 0 \in 0 .. kc_floor_log2(n)
      BY <1>1, <2>1, <2>3 DEF Skipped
    <3>2. QED
      BY <1>1, <1>4, <2>3, <3>1 DEF ReadInv
  <2>4. QED
    BY <2>2, <2>3
<1>6. RoundTrip'
  BY <1>1 DEF RoundTrip
<1>7. QED
  BY <1>3, <1>5, <1>6 DEF IInv

LEMMA TakeBitStep ==
  ASSUME CodeInv, TakeBit, rpc # "idle"
  PROVE  /\ CodeInv' /\ Skipped' = Skipped /\ Skipped \in {0, 1}
         /\ pos \in Nat /\ number' = number
         /\ code[pos + 1] = kc_write_dali_length(number, FALSE)[pos + Skipped + 1]
<1>1. pos < Len(code) /\ pos' = pos + 1 /\ UNCHANGED <<number, skip, lost, code>>
  BY DEF TakeBit
<1>2. Skipped' = Skipped /\ Skipped \in {0, 1}
  BY <1>1 DEF Skipped
<1>3. pos + 1 \in 1 .. Len(code) /\ pos \in Nat
  BY <1>1 DEF CodeInv
<1>4. CodeInv'
  <2>1. pos' \in 0 .. Len(code')
    BY <1>1, <1>3 DEF CodeInv
  <2>2. QED
    BY <1>1, <1>2, <2>1 DEF CodeInv
<1>5. code[pos + 1] = kc_write_dali_length(number, FALSE)[pos + 1 + Skipped]
  BY <1>3 DEF CodeInv
<1>6. pos + 1 + Skipped = pos + Skipped + 1
  BY <1>2, <1>3
<1>7. QED
  BY <1>1, <1>2, <1>3, <1>4, <1>5, <1>6

LEMMA ReadControlStep == IInv /\ ReadControl => IInv'
<1> SUFFICES ASSUME IInv, ReadControl PROVE IInv'
  OBVIOUS
<1> DEFINE n == kc_floor_log2(number)
           full == kc_write_dali_length(number, FALSE)
<1>1. rpc = "control" /\ TakeBit /\ CodeInv /\ leading' = leading
  BY DEF ReadControl, IInv
<1>2. /\ CodeInv' /\ Skipped' = Skipped /\ Skipped \in {0, 1} /\ pos \in Nat
      /\ number' = number /\ pos' = pos + 1 /\ code' = code /\ lost' = lost
      /\ code[pos + 1] = full[pos + Skipped + 1]
  BY <1>1, TakeBitStep DEF TakeBit
<1>3. PICK j \in 0 .. n : pos + Skipped = 2 * j /\ Holds(j)
  BY <1>1 DEF IInv, ReadInv
<1>4. n \in Nat /\ number \in Encodable /\ Len(code) + lost = (2 * n + 1) - Skipped
      /\ lost \in Nat /\ Len(code) \in Nat /\ pos < Len(code)
  BY <1>1, FloorLogType DEF CodeInv, TakeBit
<1>5. CASE j = n
  <2>1. full[2 * n + 1] = 1
    BY CodeClose
  <2>2. code[pos + 1] = 1
    BY <1>2, <1>3, <1>5, <2>1
  <2>3. rpc' = "done" /\ so_far' = Unrotated(so_far, leading)
    BY <2>2 DEF ReadControl
  <2>4. so_far' = number
    BY <1>3, <1>4, <1>5, <2>3, GatheredAll DEF Holds
  <2>5. pos' + Skipped = 2 * n + 1
    BY <1>2, <1>3, <1>5
  <2> HIDE DEF n
  <2>6. lost = 0 /\ pos' = Len(code)
    BY <1>2, <1>4, <2>5
  <2>7. RoundTrip' /\ ReadInv'
    BY <1>2, <2>3, <2>4, <2>6 DEF RoundTrip, ReadInv
  <2>8. QED
    BY <1>2, <2>7 DEF IInv
<1>6. CASE j # n
  <2>1. j \in 0 .. n - 1
    BY <1>4, <1>6
  <2>2. full[2 * j + 1] = 0
    BY <2>1, CodePair
  <2>3. code[pos + 1] = 0
    BY <1>2, <1>3, <2>2
  <2>4. rpc' = "payload" /\ so_far' = so_far
    BY <2>3 DEF ReadControl
  <2>5. pos' + Skipped' = 2 * j + 1
    BY <1>2, <1>3
  <2>6. Holds(j)'
    BY <1>1, <1>2, <1>3, <2>4 DEF Holds
  <2>7. RoundTrip' /\ ReadInv'
    BY <1>2, <2>1, <2>4, <2>5, <2>6 DEF RoundTrip, ReadInv
  <2>8. QED
    BY <1>2, <2>7 DEF IInv
<1>7. QED
  BY <1>5, <1>6

LEMMA ReadPayloadStep == IInv /\ ReadPayload => IInv'
<1> SUFFICES ASSUME IInv, ReadPayload PROVE IInv'
  OBVIOUS
<1> DEFINE n == kc_floor_log2(number)
           full == kc_write_dali_length(number, FALSE)
<1>1. rpc = "payload" /\ CodeInv /\ number \in Encodable /\ n \in Nat
  BY FloorLogType DEF ReadPayload, IInv, CodeInv
<1>2. PICK j \in 0 .. n - 1 : pos + Skipped = 2 * j + 1 /\ Holds(j)
  BY <1>1 DEF IInv, ReadInv
<1>3. Gathered(number, j) <= UINT32_MAX_HALF /\ Gathered(number, j) \in Nat
  BY <1>1, <1>2, GatheredSmall
<1>4. UINT32_MAX_HALF \in Int
  BY FormatAssumption DEF UINT32_MAX_HALF, LowOffsets
<1>5. ~(so_far > UINT32_MAX_HALF)
  BY <1>2, <1>3, <1>4 DEF Holds
<1>6. /\ TakeBit /\ so_far' = 2 * so_far + code[pos + 1]
      /\ leading' = 2 * leading /\ rpc' = "control"
  BY <1>5 DEF ReadPayload
<1>7. /\ CodeInv' /\ Skipped' = Skipped /\ Skipped \in {0, 1} /\ pos \in Nat
      /\ number' = number /\ pos' = pos + 1
      /\ code[pos + 1] = full[pos + Skipped + 1]
  BY <1>1, <1>6, TakeBitStep DEF TakeBit
<1>8. full[2 * j + 2] = Bit(Payload(number), n - j - 1)
  BY <1>2, CodePair
<1>9. pos + Skipped + 1 = 2 * j + 2
  BY <1>2, <1>7
<1>10. code[pos + 1] = Bit(Payload(number), n - j - 1)
  BY <1>7, <1>8, <1>9
<1>11. Gathered(number, j + 1) = 2 * Gathered(number, j) + Bit(Payload(number), n - j - 1)
  BY <1>1, <1>2, GatheredNext
<1>12. 2 ^ (j + 1) = 2 * 2 ^ j
  <2>1. n \in 0 .. 2 * ByteBits
    BY <1>1, PayloadRange
  <2>2. j \in 0 .. 2 * ByteBits
    <3> HIDE DEF n
    <3>1. QED
      BY <1>2, <2>1, FormatAssumption
  <2>3. QED
    BY <2>2, PowerStep
<1>13. Holds(j + 1)'
  BY <1>2, <1>6, <1>7, <1>10, <1>11, <1>12 DEF Holds
<1>14. pos' + Skipped' = 2 * (j + 1) /\ j + 1 \in 0 .. n
  BY <1>1, <1>2, <1>7
<1>15. RoundTrip' /\ ReadInv'
  BY <1>6, <1>7, <1>13, <1>14 DEF RoundTrip, ReadInv
<1>16. QED
  BY <1>7, <1>15 DEF IInv

(***************************************************************************)
(* A reader that comes to the end is in front of a bit that was written.   *)
(***************************************************************************)
LEMMA StarveStep == IInv /\ Starve => IInv'
<1> SUFFICES ASSUME IInv, Starve PROVE IInv'
  OBVIOUS
<1> DEFINE n == kc_floor_log2(number)
<1>1. /\ rpc \in {"control", "payload"} /\ pos = Len(code) /\ rpc' = "error"
      /\ UNCHANGED <<number, skip, lost, code, pos, so_far, leading>>
  BY DEF Starve
<1>2. /\ n \in Nat /\ pos \in Nat /\ lost \in Nat /\ Skipped \in {0, 1}
      /\ pos + lost = (2 * n + 1) - Skipped
  BY <1>1, FloorLogType DEF IInv, CodeInv, Skipped
<1>3. pos + Skipped <= 2 * n
  <2>1. CASE rpc = "control"
    <3>1. PICK j \in 0 .. n : pos + Skipped = 2 * j
      BY <2>1 DEF IInv, ReadInv
    <3> HIDE DEF n
    <3>2. QED
      BY <1>2, <3>1
  <2>2. CASE rpc = "payload"
    <3>1. PICK j \in 0 .. n - 1 : pos + Skipped = 2 * j + 1
      BY <2>2 DEF IInv, ReadInv
    <3> HIDE DEF n
    <3>2. QED
      BY <1>2, <3>1
  <2>3. QED
    BY <1>1, <2>1, <2>2
<1> HIDE DEF n
<1>4. lost > 0
  BY <1>2, <1>3
<1>5. CodeInv' /\ RoundTrip' /\ ReadInv'
  BY <1>1, <1>4 DEF IInv, CodeInv, RoundTrip, ReadInv, Skipped
<1>6. QED
  BY <1>5 DEF IInv

LEMMA CodecStutter == IInv /\ UNCHANGED codecVars => IInv'
<1> SUFFICES ASSUME IInv, UNCHANGED codecVars PROVE IInv'
  OBVIOUS
<1>1. UNCHANGED <<number, skip, lost, code, pos, so_far, leading, rpc>> /\ Skipped' = Skipped
  BY DEF codecVars, Skipped
<1>2. CodeInv'
  BY <1>1 DEF IInv, CodeInv
<1>3. ReadInv' /\ RoundTrip'
  BY <1>1 DEF IInv, ReadInv, RoundTrip, Holds
<1>4. QED
  BY <1>2, <1>3 DEF IInv

LEMMA InvariantHolds == CodecSpec => []IInv
<1>1. IInv /\ [CodecNext]_codecVars => IInv'
  BY NumberStep, ReadControlStep, ReadPayloadStep, StarveStep, CodecStutter DEF CodecNext
<1>2. QED
  BY <1>1, InitIInv, PTL DEF CodecSpec

-----------------------------------------------------------------------------
(***************************************************************************)
(* The bits in bytes.                                                      *)
(***************************************************************************)
Plus(x, bits, n, k) == x + BitOfByte(bits, n, k) * 2 ^ (ByteBits - k)

Sums(bits, n, m, f) ==
  f = [k \in 0 .. m |-> IF k = 0 THEN 0 ELSE Plus(f[k - 1], bits, n, k)]

LEMMA SumsExist ==
  ASSUME NEW bits, NEW n, NEW m \in Nat
  PROVE  \E f : Sums(bits, n, m, f)
<1> DEFINE S == {k \in Nat : \E f : Sums(bits, n, k, f)}
<1>1. 0 \in S
  <2>1. Sums(bits, n, 0, [k \in 0 .. 0 |-> 0])
    BY DEF Sums
  <2>2. QED
    BY <2>1
<1>2. ASSUME NEW l \in S PROVE l + 1 \in S
  <2>1. l \in Nat
    OBVIOUS
  <2>2. PICK f : Sums(bits, n, l, f)
    OBVIOUS
  <2> DEFINE g == [k \in 0 .. l + 1 |-> IF k = l + 1 THEN Plus(f[l], bits, n, l + 1) ELSE f[k]]
  <2>3. ASSUME NEW k \in 0 .. l + 1
        PROVE  g[k] = IF k = 0 THEN 0 ELSE Plus(g[k - 1], bits, n, k)
    <3>1. CASE k = l + 1
      <4>1. g[k] = Plus(f[l], bits, n, l + 1) /\ g[k - 1] = f[l] /\ k # 0
        BY <2>1, <3>1
      <4>2. QED
        BY <3>1, <4>1
    <3>2. CASE k # l + 1
      <4>1. k \in 0 .. l /\ g[k] = f[k] /\ (k # 0 => g[k - 1] = f[k - 1])
        BY <2>1, <3>2
      <4>2. f[k] = IF k = 0 THEN 0 ELSE Plus(f[k - 1], bits, n, k)
        BY <2>2, <4>1 DEF Sums
      <4>3. QED
        BY <4>1, <4>2
    <3>3. QED
      BY <3>1, <3>2
  <2>4. g = [k \in 0 .. l + 1 |-> g[k]]
    OBVIOUS
  <2> HIDE DEF g
  <2>5. Sums(bits, n, l + 1, g)
    BY <2>3, <2>4 DEF Sums
  <2>6. QED
    BY <2>1, <2>5
<1>3. m \in S
  <2> HIDE DEF S
  <2>1. QED
    BY <1>1, <1>2, SetInduction
<1>4. QED
  BY <1>3

LEMMA BitIsBit ==
  ASSUME NEW bits \in Seq({0, 1}), NEW n \in Nat \ {0}, NEW k \in Nat \ {0}
  PROVE  BitOfByte(bits, n, k) \in {0, 1}
<1> DEFINE p == (n - 1) * ByteBits + k
<1>1. p \in Nat \ {0}
  <2>1. (n - 1) * ByteBits \in Nat
    BY FormatAssumption
  <2>2. QED
    BY <2>1
<1> HIDE DEF p
<1>2. p <= Len(bits) => bits[p] \in {0, 1}
  BY <1>1
<1>3. BitOfByte(bits, n, k) = IF p <= Len(bits) THEN bits[p] ELSE 0
  BY DEF BitOfByte, p
<1>4. QED
  BY <1>2, <1>3

(* What of the byte is there after k of its bits. *)
HasBits(x, bits, n, k) ==
  /\ x \in Byte /\ x % 2 ^ (ByteBits - k) = 0
  /\ \A j \in 1 .. k : Bit(x, ByteBits - j) = BitOfByte(bits, n, j)

LEMMA NextBit ==
  ASSUME NEW bits \in Seq({0, 1}), NEW n \in Nat \ {0}, NEW k \in 0 .. ByteBits - 1,
         NEW x, HasBits(x, bits, n, k)
  PROVE  HasBits(Plus(x, bits, n, k + 1), bits, n, k + 1)
<1> DEFINE shift == ByteBits - (k + 1)
           bit == BitOfByte(bits, n, k + 1)
           new == x + bit * 2 ^ shift
<1>1. shift \in 0 .. ByteBits - 1 /\ shift + 1 = ByteBits - k /\ k + 1 \in Nat \ {0}
      /\ ByteBits \in Nat
  BY FormatAssumption
<1>2. bit \in {0, 1}
  BY <1>1, BitIsBit
<1>3. x \in Byte /\ x % 2 ^ (shift + 1) = 0
  BY <1>1 DEF HasBits
<1> HIDE DEF bit
<1>4. new = Plus(x, bits, n, k + 1)
  BY DEF Plus, bit
<1> HIDE DEF shift
<1>5. /\ new \in Byte /\ new % 2 ^ shift = 0
      /\ new \div 2 ^ (shift + 1) = x \div 2 ^ (shift + 1)
      /\ (new \div 2 ^ shift) % 2 = bit
  BY <1>1, <1>2, <1>3, BitAdded
<1> HIDE DEF new
<1>6. Bit(new, shift) = bit
  BY <1>2, <1>5 DEF Bit
<1>7. ASSUME NEW j \in 1 .. k
      PROVE  Bit(new, ByteBits - j) = BitOfByte(bits, n, j)
  <2> DEFINE u == shift + 1
             d == (ByteBits - j) - (shift + 1)
  <2>1. u \in Nat /\ d \in Nat /\ u + d = ByteBits - j /\ u + d <= 2 * ByteBits + 1
        /\ u \in 0 .. 2 * ByteBits + 1 /\ d \in 0 .. 2 * ByteBits + 1
    BY <1>1
  <2>2. new \div 2 ^ u = x \div 2 ^ u
    BY <1>5
  <2> HIDE DEF u, d
  <2>3. 2 ^ (u + d) = 2 ^ u * 2 ^ d /\ 2 ^ u \in Nat \ {0} /\ 2 ^ d \in Nat \ {0}
    BY <2>1, PowerSum, PowerType
  <2>4. new \in Nat /\ x \in Nat
    BY <1>3, <1>5, ByteIsNat
  <2>5. /\ new \div (2 ^ u * 2 ^ d) = (new \div 2 ^ u) \div 2 ^ d
        /\ x \div (2 ^ u * 2 ^ d) = (x \div 2 ^ u) \div 2 ^ d
    BY <2>3, <2>4, DivDiv, SMTT(30)
  <2>6. new \div 2 ^ (ByteBits - j) = x \div 2 ^ (ByteBits - j)
    BY <2>1, <2>2, <2>3, <2>5
  <2>7. Bit(new, ByteBits - j) = Bit(x, ByteBits - j)
    BY <2>6 DEF Bit
  <2>8. QED
    BY <2>7 DEF HasBits
<1>8. \A j \in 1 .. k + 1 : Bit(new, ByteBits - j) = BitOfByte(bits, n, j)
  <2>1. ASSUME NEW j \in 1 .. k + 1
        PROVE  Bit(new, ByteBits - j) = BitOfByte(bits, n, j)
    <3>1. CASE j = k + 1
      BY <1>6, <3>1 DEF shift, bit
    <3>2. CASE j # k + 1
      <4>1. j \in 1 .. k
        BY <3>2
      <4>2. QED
        BY <1>7, <4>1
    <3>3. QED
      BY <3>1, <3>2
  <2>2. QED
    BY <2>1
<1>9. new % 2 ^ (ByteBits - (k + 1)) = 0
  BY <1>5 DEF shift
<1>10. HasBits(new, bits, n, k + 1)
  BY <1>5, <1>8, <1>9 DEF HasBits
<1>11. QED
  BY <1>4, <1>10

LEMMA ByteHasBits ==
  ASSUME NEW bits \in Seq({0, 1}), NEW n \in Nat \ {0}, NEW f, Sums(bits, n, ByteBits, f)
  PROVE  HasBits(f[ByteBits], bits, n, ByteBits)
<1> DEFINE S == {k \in Nat : HasBits(f[k], bits, n, k)}
<1>1. /\ f[0] = 0
      /\ \A k \in 0 .. ByteBits - 1 : f[k + 1] = Plus(f[k], bits, n, k + 1)
  BY FormatAssumption DEF Sums
<1>2. 0 \in S
  <2>1. 0 \in Byte /\ ByteBits - 0 \in 0 .. 2 * ByteBits + 1
    BY FormatAssumption DEF Byte
  <2>2. 2 ^ (ByteBits - 0) \in Nat \ {0}
    BY <2>1, PowerType
  <2> DEFINE w == 2 ^ (ByteBits - 0)
  <2>3. w \in Nat \ {0}
    BY <2>2
  <2> HIDE DEF w
  <2>4. 0 % w = 0
    BY <2>3
  <2>5. \A j \in 1 .. 0 : FALSE
    OBVIOUS
  <2>6. HasBits(0, bits, n, 0)
    BY <2>1, <2>4, <2>5 DEF HasBits, w
  <2>7. QED
    BY <1>1, <2>6
<1>3. \A k \in 0 .. ByteBits - 1 : k \in S => k + 1 \in S
  <2> SUFFICES ASSUME NEW k \in 0 .. ByteBits - 1, HasBits(f[k], bits, n, k)
               PROVE  HasBits(f[k + 1], bits, n, k + 1)
    OBVIOUS
  <2>1. HasBits(Plus(f[k], bits, n, k + 1), bits, n, k + 1)
    BY NextBit
  <2>2. QED
    BY <1>1, <2>1
<1>4. ByteBits \in Nat /\ ByteBits \in 0 .. ByteBits
  BY FormatAssumption
<1>5. ByteBits \in S
  <2> HIDE DEF S
  <2>1. QED
    BY <1>2, <1>3, <1>4, SetInduction
<1>6. QED
  BY <1>5

LEMMA PackedBits ==
  ASSUME NEW bits \in Seq({0, 1})
  PROVE  /\ Len(Packed(bits)) = (Len(bits) + ByteBits - 1) \div ByteBits
         /\ Len(Packed(bits)) \in Nat
         /\ \A n \in 1 .. Len(Packed(bits)) : HasBits(Packed(bits)[n], bits, n, ByteBits)
<1> DEFINE size == (Len(bits) + ByteBits - 1) \div ByteBits
           P(n, f) == f = [k \in 0 .. ByteBits |->
                             IF k = 0 THEN 0
                             ELSE f[k - 1] + BitOfByte(bits, n, k) * 2 ^ (ByteBits - k)]
           h(n) == CHOOSE f : P(n, f)
<1>1. Packed(bits) = [n \in 1 .. size |-> h(n)[ByteBits]]
  BY DEF Packed
<1>2. \A n, f : P(n, f) <=> Sums(bits, n, ByteBits, f)
  BY DEF Sums, Plus
<1>3. size \in Nat /\ ByteBits \in Nat
  BY FormatAssumption
<1> HIDE DEF size, P
<1>4. ASSUME NEW n \in 1 .. size
      PROVE  HasBits(h(n)[ByteBits], bits, n, ByteBits)
  <2>1. \E f : P(n, f)
    BY <1>2, <1>3, SumsExist
  <2>2. P(n, h(n))
    BY <2>1
  <2>3. Sums(bits, n, ByteBits, h(n))
    BY <1>2, <2>2
  <2> HIDE DEF h
  <2>4. QED
    BY <1>3, <2>3, ByteHasBits
<1> HIDE DEF h
<1>5. Len(Packed(bits)) = size /\ \A n \in 1 .. size : Packed(bits)[n] = h(n)[ByteBits]
  BY <1>1, <1>3
<1>6. QED
  BY <1>3, <1>4, <1>5 DEF size

(***************************************************************************)
(* The m-th bit from the start, and from a cursor behind shift of them.    *)
(***************************************************************************)
BitOrZero(bits, p) == IF p <= Len(bits) THEN bits[p] ELSE 0

LEMMA Positioned ==
  ASSUME NEW m \in Nat, NEW b \in Nat \ {0}
  PROVE  /\ m \div b \in Nat /\ m % b \in 0 .. b - 1
         /\ (((m \div b) + 1) - 1) * b + ((m % b) + 1) = m + 1
<1> DEFINE q == m \div b
           r == m % b
<1>1. q \in Nat /\ r \in 0 .. b - 1 /\ m = q * b + r
  BY DivBounds
<1> HIDE DEF q, r
<1>2. (q + 1) - 1 = q
  BY <1>1
<1>3. q * b \in Nat
  BY <1>1
<1>4. ((q + 1) - 1) * b + (r + 1) = m + 1
  BY <1>1, <1>2, <1>3
<1>5. QED
  BY <1>1, <1>4 DEF q, r

LEMMA BitInByte ==
  ASSUME NEW bits \in Seq({0, 1}), NEW m \in Nat, m \div ByteBits < Len(Packed(bits))
  PROVE  Bit(Packed(bits)[(m \div ByteBits) + 1], ByteBits - 1 - (m % ByteBits))
           = BitOrZero(bits, m + 1)
<1> DEFINE n == (m \div ByteBits) + 1
           k == (m % ByteBits) + 1
<1>1. ByteBits \in Nat \ {0}
  BY FormatAssumption
<1>2. /\ m \div ByteBits \in Nat /\ m % ByteBits \in 0 .. ByteBits - 1
      /\ (n - 1) * ByteBits + k = m + 1
  BY <1>1, Positioned
<1>3. k \in 1 .. ByteBits /\ ByteBits - 1 - (m % ByteBits) = ByteBits - k
  BY <1>1, <1>2
<1>4. n \in 1 .. Len(Packed(bits))
  BY <1>2, PackedBits
<1> HIDE DEF n, k
<1>5. Bit(Packed(bits)[n], ByteBits - k) = BitOfByte(bits, n, k)
  BY <1>3, <1>4, PackedBits DEF HasBits
<1>6. BitOfByte(bits, n, k) = BitOrZero(bits, m + 1)
  BY <1>2 DEF BitOfByte, BitOrZero
<1>7. QED
  BY <1>3, <1>5, <1>6 DEF n

LEMMA WithinBytes ==
  ASSUME NEW m \in Nat, NEW b \in Nat \ {0}, NEW size \in Nat, m < b * size
  PROVE  m \div b < size
<1> DEFINE q == m \div b
           r == m % b
<1>1. q \in Nat /\ r \in Nat /\ m = q * b + r
  BY DivBounds
<1> HIDE DEF q, r
<1>2. CASE size <= q
  <2>1. size * b <= q * b /\ q * b \in Nat
    BY <1>1, <1>2, ProductOrder
  <2>2. size * b = b * size
    OBVIOUS
  <2>3. QED
    BY <1>1, <2>1, <2>2
<1>3. CASE ~(size <= q)
  <2>1. q < size
    BY <1>1, <1>3
  <2>2. QED
    BY <2>1 DEF q
<1>4. QED
  BY <1>2, <1>3

LEMMA CursorBehind ==
  ASSUME NEW bytes, NEW shift \in 0 .. ByteBits - 1
  PROVE  LET c == AfterBits(bytes, Cursor(0), shift)
         IN  IF shift = 0
             THEN c.src = 0 /\ c.left = 0
             ELSE c.src = 1 /\ c.left = ByteBits - shift /\ c.byte = ByteAt(bytes, 0)
<1>1. ByteBits \in Nat /\ ByteBits >= 2
  BY FormatAssumption
<1>2. CASE shift = 0
  BY <1>1, <1>2 DEF AfterBits, Cursor
<1>3. CASE shift # 0
  <2>1. shift \in 1 .. ByteBits - 1 /\ shift - 0 = shift
    BY <1>1, <1>3
  <2> DEFINE x == shift + ByteBits - 1
  <2>2. x = 1 * ByteBits + (shift - 1) /\ shift - 1 \in 0 .. ByteBits - 1 /\ x \in Nat
        /\ ByteBits \in Nat \ {0}
    BY <1>1, <2>1
  <2>3. x \div ByteBits = 1
    <3> HIDE DEF x
    <3>1. QED
      BY <2>2, Quotient
  <2>4. (shift - 0 + ByteBits - 1) \div ByteBits = 1
    BY <2>1, <2>3
  <2>5. ~(shift <= 0)
    BY <2>1
  <2>6. 1 * ByteBits - (shift - 0) = ByteBits - shift /\ 0 + 1 = 1 /\ 0 + 1 - 1 = 0
    BY <1>1, <2>1
  <2>7. AfterBits(bytes, Cursor(0), shift)
          = [src |-> 0 + 1, byte |-> ByteAt(bytes, 0 + 1 - 1),
             left |-> 1 * ByteBits - (shift - 0)]
    BY <2>4, <2>5 DEF AfterBits, Cursor
  <2>8. QED
    BY <1>3, <2>6, <2>7
<1>4. QED
  BY <1>2, <1>3

LEMMA BitBehind ==
  ASSUME NEW bits \in Seq({0, 1}), NEW shift \in 0 .. ByteBits - 1,
         NEW bytes, bytes = Packed(bits),
         NEW c, c = AfterBits(bytes, Cursor(0), shift),
         NEW m \in 1 .. ByteBits * Len(bytes) - shift
  PROVE  BitAt(bytes, c, m) = BitOrZero(bits, shift + m)
<1> DEFINE x == shift + m - 1
<1>1. ByteBits \in Nat \ {0} /\ Len(bytes) \in Nat /\ ByteBits * Len(bytes) \in Nat
  BY FormatAssumption, PackedBits
<1>2. x \in Nat /\ x < ByteBits * Len(bytes) /\ x + 1 = shift + m /\ m \in Nat \ {0}
  BY <1>1
<1> HIDE DEF x
<1>3. x \div ByteBits < Len(bytes) /\ x \div ByteBits \in Nat /\ x % ByteBits \in 0 .. ByteBits - 1
  BY <1>1, <1>2, WithinBytes, Positioned
<1>4. Bit(bytes[(x \div ByteBits) + 1], ByteBits - 1 - (x % ByteBits)) = BitOrZero(bits, shift + m)
  BY <1>2, <1>3, BitInByte
<1>5. ByteAt(bytes, x \div ByteBits) = bytes[(x \div ByteBits) + 1]
  <2> DEFINE q == x \div ByteBits
  <2>1. q \in Nat /\ q < Len(bytes)
    BY <1>3
  <2> HIDE DEF q
  <2>2. q \in 0 .. Len(bytes) - 1
    BY <1>1, <2>1
  <2>3. ByteAt(bytes, q) = bytes[q + 1]
    BY <2>2 DEF ByteAt
  <2>4. QED
    BY <2>3 DEF q
<1>6. BitAt(bytes, c, m)
        = Bit(ByteAt(bytes, x \div ByteBits), ByteBits - 1 - (x % ByteBits))
  <2>1. CASE shift = 0
    <3>1. c.src = 0 /\ c.left = 0
      BY <2>1, CursorBehind
    <3>2. m - c.left - 1 = x /\ ~(m <= c.left)
      <4>1. m - 0 - 1 = 0 + m - 1 /\ ~(m <= 0)
        BY <1>2
      <4>2. QED
        BY <2>1, <3>1, <4>1 DEF x
    <3> DEFINE q == x \div ByteBits
               r == x % ByteBits
    <3>3. BitAt(bytes, c, m) = Bit(ByteAt(bytes, c.src + q), ByteBits - 1 - r)
      <4>1. BitAt(bytes, c, m)
              = Bit(ByteAt(bytes, c.src + ((m - c.left - 1) \div ByteBits)),
                    ByteBits - 1 - ((m - c.left - 1) % ByteBits))
        BY <3>2 DEF BitAt
      <4>2. QED
        BY <3>2, <4>1
    <3>4. q \in Nat
      BY <1>3
    <3> HIDE DEF q, r
    <3>5. c.src + q = q
      BY <3>1, <3>4
    <3>6. BitAt(bytes, c, m) = Bit(ByteAt(bytes, q), ByteBits - 1 - r)
      BY <3>3, <3>5
    <3>7. QED
      BY <3>6 DEF q, r
  <2>2. CASE shift # 0 /\ m <= ByteBits - shift
    <3>1. c.left = ByteBits - shift /\ c.byte = ByteAt(bytes, 0)
      BY <2>2, CursorBehind
    <3>2. x \in 0 .. ByteBits - 1 /\ x = 0 * ByteBits + x
      BY <1>1, <1>2, <2>2
    <3>3. x \div ByteBits = 0 /\ x % ByteBits = x
      BY <1>1, <1>2, <3>2, Quotient
    <3>4. c.left - m = ByteBits - 1 - x
      BY <1>1, <1>2, <3>1
    <3>5. BitAt(bytes, c, m) = Bit(c.byte, c.left - m)
      BY <2>2, <3>1 DEF BitAt
    <3>6. QED
      BY <3>1, <3>3, <3>4, <3>5
  <2>3. CASE shift # 0 /\ ~(m <= ByteBits - shift)
    <3>1. c.src = 1 /\ c.left = ByteBits - shift
      BY <2>3, CursorBehind
    <3> DEFINE k == m - c.left - 1
    <3>2. k \in Nat /\ x = k + ByteBits
      BY <1>1, <1>2, <2>3, <3>1, SMTT(30)
    <3>3. ~(m <= c.left)
      BY <2>3, <3>1
    <3>4. BitAt(bytes, c, m)
            = Bit(ByteAt(bytes, c.src + (k \div ByteBits)), ByteBits - 1 - (k % ByteBits))
      BY <3>3 DEF BitAt
    <3> HIDE DEF k
    <3> DEFINE q == k \div ByteBits
               r == k % ByteBits
    <3>5. q \in Nat /\ r \in 0 .. ByteBits - 1 /\ k = q * ByteBits + r
      BY <1>1, <3>2, DivBounds
    <3>6. ByteAt(bytes, c.src + q) = ByteAt(bytes, q + 1)
      <4> HIDE DEF q, r
      <4>1. c.src + q = q + 1
        BY <3>1, <3>5
      <4>2. QED
        BY <4>1
    <3>7. BitAt(bytes, c, m) = Bit(ByteAt(bytes, q + 1), ByteBits - 1 - r)
      BY <3>4, <3>6
    <3> HIDE DEF q, r
    <3>8. x = (q + 1) * ByteBits + r
      BY <1>1, <3>2, <3>5
    <3> DEFINE p == q + 1
    <3>9. p \in Nat /\ x = p * ByteBits + r /\ r \in 0 .. ByteBits - 1
      BY <3>5, <3>8
    <3>10. x \div ByteBits = q + 1 /\ x % ByteBits = r
      <4>1. x \in Nat /\ ByteBits \in Nat \ {0}
        BY <1>1, <1>2
      <4> HIDE DEF p
      <4>2. x \div ByteBits = p /\ x % ByteBits = r
        BY <3>9, <4>1, Quotient
      <4>3. QED
        BY <4>2 DEF p
    <3>11. QED
      BY <3>7, <3>10
  <2>4. QED
    BY <2>1, <2>2, <2>3
<1>7. QED
  BY <1>4, <1>5, <1>6

(***************************************************************************)
(* The other reader.  It finds the end of the code and the payload's bits  *)
(* where they were written.                                                *)
(***************************************************************************)
Skips(s) == IF s THEN 1 ELSE 0

(* A complete code, with or without its first bit. *)
Whole(n, s, bits) ==
  /\ n \in Encodable /\ s \in BOOLEAN /\ bits \in Seq({0, 1})
  /\ Len(bits) = (2 * kc_floor_log2(n) + 1) - Skips(s)
  /\ \A k \in 1 .. Len(bits) : bits[k] = kc_write_dali_length(n, FALSE)[k + Skips(s)]

Carries(bytes, c, bits) ==
  /\ Len(bits) <= c.left + ByteBits * (Len(bytes) - c.src)
  /\ c.left + ByteBits * (Len(bytes) - c.src) \in Nat
  /\ \A m \in 1 .. Len(bits) : BitAt(bytes, c, m) = bits[m]

LEMMA EndFound ==
  ASSUME NEW n, NEW s, NEW bits, Whole(n, s, bits), kc_floor_log2(n) # 0 \/ ~s,
         NEW bytes, NEW c, Carries(bytes, c, bits)
  PROVE  CodeBits(bytes, c, s) = Len(bits)
<1> DEFINE log == kc_floor_log2(n)
           d == Skips(s)
           all == c.left + ByteBits * (Len(bytes) - c.src)
           parity == IF s THEN 0 ELSE 1
           ends == {m \in 1 .. all : m % 2 = parity /\ BitAt(bytes, c, m) = 1}
           full == kc_write_dali_length(n, FALSE)
<1>1. /\ log \in Nat /\ d \in {0, 1} /\ parity = 1 - d
  BY FloorLogType DEF Skips
<1>2. /\ Len(bits) = (2 * log + 1) - d /\ Len(bits) <= all /\ all \in Nat
      /\ \A m \in 1 .. Len(bits) : BitAt(bytes, c, m) = full[m + d]
  <2>1. /\ Len(bits) = (2 * log + 1) - d
        /\ \A m \in 1 .. Len(bits) : bits[m] = full[m + d]
    BY DEF Whole
  <2>2. /\ Len(bits) <= all /\ all \in Nat
        /\ \A m \in 1 .. Len(bits) : BitAt(bytes, c, m) = bits[m]
    BY DEF Carries
  <2> HIDE DEF log, d, all, full
  <2>3. QED
    BY <2>1, <2>2
<1>3. full[2 * log + 1] = 1
  BY CodeClose
<1>4. \A j \in 0 .. log - 1 : full[2 * j + 1] = 0
  BY CodePair
<1>5. Len(bits) >= 1
  <2>1. s => d = 1 /\ log # 0
    BY DEF Skips
  <2>2. ~s => d = 0
    BY DEF Skips
  <2>3. CASE s
    <3> HIDE DEF log, d
    <3>1. QED
      BY <1>1, <1>2, <2>1, <2>3
  <2>4. CASE ~s
    <3> HIDE DEF log, d
    <3>1. QED
      BY <1>1, <1>2, <2>2, <2>4
  <2>5. QED
    BY <2>3, <2>4
<1>6. CodeBits(bytes, c, s) = IF ends = {} THEN all + 1
                              ELSE CHOOSE m \in ends : \A k \in ends : m <= k
  BY DEF CodeBits
<1> DEFINE L == Len(bits)
<1> HIDE DEF log, d, all, full, parity
<1>7. L \in 1 .. all /\ L \in Nat
  BY <1>1, <1>2, <1>5
<1>8. L \in ends
  <2>1. L % 2 = parity
    <3>1. CASE d = 0
      <4>1. L = 2 * log + 1 /\ parity = 1
        BY <1>1, <1>2, <3>1
      <4>2. QED
        BY <1>1, <4>1
    <3>2. CASE d = 1
      <4>1. L = 2 * log /\ parity = 0
        BY <1>1, <1>2, <3>2
      <4>2. QED
        BY <1>1, <4>1
    <3>3. QED
      BY <1>1, <3>1, <3>2
  <2>2. L + d = 2 * log + 1 /\ L \in 1 .. Len(bits)
    BY <1>1, <1>2, <1>7
  <2>3. BitAt(bytes, c, L) = 1
    BY <1>2, <1>3, <2>2
  <2>4. QED
    BY <1>7, <2>1, <2>3
<1>9. ASSUME NEW m \in ends PROVE L <= m
  <2>1. m \in 1 .. all /\ m % 2 = parity /\ BitAt(bytes, c, m) = 1
    OBVIOUS
  <2>2. CASE m < L
    <3>1. (m + d) % 2 = 1
      <4>1. CASE d = 0
        BY <1>1, <2>1, <4>1
      <4>2. CASE d = 1
        BY <1>1, <2>1, <4>2
      <4>3. QED
        BY <1>1, <4>1, <4>2
    <3>2. m + d < 2 * log + 1 /\ m + d \in Nat
      BY <1>1, <1>2, <2>1, <2>2
    <3>3. PICK j \in 0 .. log - 1 : m + d = 2 * j + 1
      <4>1. (m + d) \div 2 \in 0 .. log - 1 /\ m + d = 2 * ((m + d) \div 2) + 1
        BY <1>1, <3>1, <3>2
      <4>2. QED
        BY <4>1
    <3>4. full[m + d] = 0
      BY <1>4, <3>3
    <3>5. m \in 1 .. Len(bits)
      BY <1>7, <2>1, <2>2
    <3>6. BitAt(bytes, c, m) = full[m + d]
      BY <1>2, <3>5
    <3>7. FALSE
      BY <2>1, <3>4, <3>6
    <3>8. QED
      BY <3>7
  <2>3. QED
    BY <1>7, <2>1, <2>2
<1> DEFINE e == CHOOSE m \in ends : \A k \in ends : m <= k
<1>10. e \in ends /\ \A k \in ends : e <= k
  BY <1>8, <1>9
<1>11. ends # {} /\ e \in Nat
  BY <1>8, <1>10
<1> HIDE DEF ends, e
<1>12. e <= L /\ L <= e
  BY <1>8, <1>9, <1>10
<1>13. e = L
  BY <1>7, <1>11, <1>12
<1>14. QED
  BY <1>6, <1>11, <1>13 DEF e

LEMMA NumberFound ==
  ASSUME NEW n, NEW s, NEW bits, Whole(n, s, bits), kc_floor_log2(n) # 0 \/ ~s,
         NEW bytes, NEW c, Carries(bytes, c, bits)
  PROVE  Number(bytes, c, s) = n
<1> DEFINE log == kc_floor_log2(n)
           d == Skips(s)
           full == kc_write_dali_length(n, FALSE)
           Payload1(k) == BitAt(bytes, c, IF s THEN 2 * k - 1 ELSE 2 * k)
           P(f) == f = [k \in 0 .. log |-> IF k = 0 THEN 1 ELSE 2 * f[k - 1] + Payload1(k)]
           h == CHOOSE f : P(f)
           g == [k \in 0 .. log |-> Gathered(n, k)]
<1>1. log \in Nat /\ d \in {0, 1} /\ n \in Encodable
  BY FloorLogType DEF Skips, Whole
<1>2. /\ Len(bits) = (2 * log + 1) - d
      /\ \A m \in 1 .. Len(bits) : BitAt(bytes, c, m) = full[m + d]
  BY DEF Whole, Carries
<1>3. CodeBits(bytes, c, s) \div 2 = log
  <2>1. CodeBits(bytes, c, s) = (2 * log + 1) - d
    BY <1>2, EndFound
  <2> HIDE DEF log, d
  <2>2. ((2 * log + 1) - d) \div 2 = log
    <3>1. CASE d = 0
      BY <1>1, <3>1
    <3>2. CASE d = 1
      BY <1>1, <3>2
    <3>3. QED
      BY <1>1, <3>1, <3>2
  <2>3. QED
    BY <2>1, <2>2
<1>4. ASSUME NEW k \in 1 .. log
      PROVE  /\ Payload1(k) = Bit(Payload(n), log - k)
             /\ Gathered(n, k) = 2 * Gathered(n, k - 1) + Payload1(k)
  <2>1. k - 1 \in 0 .. log - 1
    BY <1>1
  <2>2. /\ full[2 * (k - 1) + 2] = Bit(Payload(n), log - (k - 1) - 1)
        /\ Gathered(n, (k - 1) + 1) = 2 * Gathered(n, k - 1) + Bit(Payload(n), log - (k - 1) - 1)
    BY <1>1, <2>1, CodePair, GatheredNext
  <2>3. Payload1(k) = full[2 * k]
    <3>1. CASE s
      <4>1. d = 1
        BY <3>1 DEF Skips
      <4>2. Payload1(k) = BitAt(bytes, c, 2 * k - 1)
        BY <3>1
      <4> HIDE DEF log, d, full, Payload1
      <4>3. 2 * k - 1 \in 1 .. Len(bits) /\ (2 * k - 1) + d = 2 * k
        BY <1>1, <1>2, <4>1
      <4>4. BitAt(bytes, c, 2 * k - 1) = full[2 * k]
        BY <1>2, <4>3
      <4>5. QED
        BY <4>2, <4>4
    <3>2. CASE ~s
      <4>1. d = 0
        BY <3>2 DEF Skips
      <4>2. Payload1(k) = BitAt(bytes, c, 2 * k)
        BY <3>2
      <4> HIDE DEF log, d, full, Payload1
      <4>3. 2 * k \in 1 .. Len(bits) /\ 2 * k + d = 2 * k
        BY <1>1, <1>2, <4>1
      <4>4. BitAt(bytes, c, 2 * k) = full[2 * k]
        BY <1>2, <4>3
      <4>5. QED
        BY <4>2, <4>4
    <3>3. QED
      BY <3>1, <3>2
  <2> HIDE DEF log, full, Payload1
  <2>4. 2 * (k - 1) + 2 = 2 * k /\ (log - (k - 1)) - 1 = log - k /\ (k - 1) + 1 = k
    BY <1>1
  <2>5. QED
    BY <1>1, <2>2, <2>3, <2>4
<1> HIDE DEF Payload1
<1>5. P(g)
  <2>1. ASSUME NEW k \in 0 .. log
        PROVE  Gathered(n, k) = IF k = 0 THEN 1 ELSE 2 * g[k - 1] + Payload1(k)
    <3>1. CASE k = 0
      BY <1>1, <3>1, GatheredStart
    <3>2. CASE k # 0
      <4>1. k \in 1 .. log /\ k - 1 \in 0 .. log
        BY <1>1, <3>2
      <4>2. g[k - 1] = Gathered(n, k - 1)
        BY <4>1
      <4>3. QED
        BY <1>4, <3>2, <4>1, <4>2
    <3>3. QED
      BY <3>1, <3>2
  <2>2. g = [k \in 0 .. log |-> IF k = 0 THEN 1 ELSE 2 * g[k - 1] + Payload1(k)]
    BY <2>1
  <2>3. QED
    BY <2>2
<1>6. P(h)
  <2> HIDE DEF P
  <2>1. QED
    BY <1>5
<1>7. \A k \in 0 .. log : h[k] = IF k = 0 THEN 1 ELSE 2 * h[k - 1] + Payload1(k)
  BY <1>6
<1>8. Number(bytes, c, s) = Unrotated(h[log], 2 ^ log)
  BY <1>3 DEF Number, Payload1
<1> HIDE DEF h, P, g
<1> DEFINE S == {k \in Nat : h[k] = Gathered(n, k)}
<1>9. 0 \in S
  BY <1>1, <1>7, GatheredStart
<1>10. \A k \in 0 .. log - 1 : k \in S => k + 1 \in S
  <2> SUFFICES ASSUME NEW k \in 0 .. log - 1, h[k] = Gathered(n, k)
               PROVE  h[k + 1] = Gathered(n, k + 1)
    OBVIOUS
  <2>1. k + 1 \in 1 .. log /\ (k + 1) - 1 = k /\ k + 1 \in 0 .. log /\ k + 1 # 0
    BY <1>1
  <2>2. Gathered(n, k + 1) = 2 * Gathered(n, k) + Payload1(k + 1)
    BY <1>4, <2>1
  <2>3. h[k + 1] = 2 * h[k] + Payload1(k + 1)
    BY <1>7, <2>1
  <2>4. QED
    BY <2>2, <2>3
<1>11. log \in S
  <2> HIDE DEF S
  <2>1. QED
    BY <1>1, <1>9, <1>10, SetInduction
<1>12. h[log] = Gathered(n, log)
  BY <1>11
<1>13. QED
  BY <1>1, <1>8, <1>12, GatheredAll

(* The code in the bytes, at any alignment. *)
LEMMA CodeCarried ==
  ASSUME NEW bits \in Seq({0, 1}), NEW shift \in 0 .. ByteBits - 1,
         NEW bytes, bytes = Packed([k \in 1 .. shift |-> 1] \o bits)
  PROVE  Carries(bytes, AfterBits(bytes, Cursor(0), shift), bits)
<1> DEFINE ones == [k \in 1 .. shift |-> 1]
           both == ones \o bits
           c == AfterBits(bytes, Cursor(0), shift)
<1>1. ByteBits \in Nat \ {0} /\ shift \in Nat /\ shift < ByteBits /\ Len(bits) \in Nat
  BY FormatAssumption
<1>2. ones \in Seq({0, 1}) /\ Len(ones) = shift
  BY <1>1
<1> HIDE DEF ones
<1>3. /\ both \in Seq({0, 1}) /\ Len(both) = shift + Len(bits)
      /\ \A m \in 1 .. Len(bits) : both[shift + m] = bits[m]
  <2>1. /\ ones \o bits \in Seq({0, 1})
        /\ Len(ones \o bits) = Len(ones) + Len(bits)
        /\ \A m \in 1 .. Len(bits) : (ones \o bits)[Len(ones) + m] = bits[m]
    BY <1>2, Joined
  <2>2. QED
    BY <1>2, <2>1
<1>4. bytes = Packed(both)
  BY DEF ones
<1> HIDE DEF both
<1>5. /\ Len(bytes) = (Len(both) + ByteBits - 1) \div ByteBits /\ Len(bytes) \in Nat
  BY <1>3, <1>4, PackedBits
<1>6. ByteBits * Len(bytes) \in Nat /\ shift + Len(bits) <= ByteBits * Len(bytes)
  <2> DEFINE x == Len(both) + ByteBits - 1
             q == x \div ByteBits
             rest == x % ByteBits
  <2>1. x \in Nat /\ x = shift + Len(bits) + ByteBits - 1
    BY <1>1, <1>3
  <2> HIDE DEF x
  <2>2. q \in Nat /\ rest \in 0 .. ByteBits - 1 /\ x = q * ByteBits + rest
    BY <1>1, <2>1, DivBounds
  <2>3. Len(bytes) = q
    BY <1>5 DEF x
  <2> HIDE DEF q, rest
  <2>4. q * ByteBits = ByteBits * q /\ q * ByteBits \in Nat
    BY <1>1, <2>2
  <2>5. shift + Len(bits) <= q * ByteBits
    BY <1>1, <2>1, <2>2, <2>4
  <2>6. QED
    BY <2>3, <2>4, <2>5
<1>7. IF shift = 0 THEN c.src = 0 /\ c.left = 0 ELSE c.src = 1 /\ c.left = ByteBits - shift
  BY CursorBehind
<1>8. c.left + ByteBits * (Len(bytes) - c.src) = ByteBits * Len(bytes) - shift
  <2>1. CASE shift = 0
    <3>1. Len(bytes) - 0 = Len(bytes)
      BY <1>5
    <3>2. c.left = 0 /\ c.src = 0
      BY <1>7, <2>1
    <3> HIDE DEF c
    <3>3. c.left + ByteBits * (Len(bytes) - c.src) = 0 + ByteBits * Len(bytes)
      BY <3>1, <3>2
    <3>4. QED
      BY <1>6, <2>1, <3>3
  <2>2. CASE shift # 0
    <3>1. ByteBits * (Len(bytes) - 1) = ByteBits * Len(bytes) - ByteBits
      BY <1>1, <1>5
    <3>2. c.left = ByteBits - shift /\ c.src = 1
      BY <1>7, <2>2
    <3> HIDE DEF c
    <3>3. c.left + ByteBits * (Len(bytes) - c.src)
            = (ByteBits - shift) + (ByteBits * Len(bytes) - ByteBits)
      BY <3>1, <3>2
    <3> DEFINE y == ByteBits * Len(bytes)
    <3>4. y \in Nat
      BY <1>6
    <3> HIDE DEF y
    <3>5. (ByteBits - shift) + (y - ByteBits) = y - shift
      BY <1>1, <3>4
    <3>6. QED
      BY <3>3, <3>5 DEF y
  <2>3. QED
    BY <2>1, <2>2
<1>9. ASSUME NEW m \in 1 .. Len(bits)
      PROVE  BitAt(bytes, c, m) = bits[m]
  <2>1. m \in 1 .. ByteBits * Len(bytes) - shift
    BY <1>1, <1>6
  <2>2. BitAt(bytes, c, m) = BitOrZero(both, shift + m)
    BY <1>3, <1>4, <2>1, BitBehind
  <2>3. shift + m <= Len(both)
    BY <1>1, <1>3
  <2>4. QED
    BY <1>3, <2>2, <2>3 DEF BitOrZero
<1>10. ByteBits * Len(bytes) - shift \in Nat /\ Len(bits) <= ByteBits * Len(bytes) - shift
  BY <1>1, <1>6
<1> HIDE DEF c
<1>11. Carries(bytes, c, bits)
  BY <1>8, <1>9, <1>10 DEF Carries
<1>12. QED
  BY <1>11 DEF c

-----------------------------------------------------------------------------
(***************************************************************************)
(* kc_read_dali_length gives back every number kc_write_dali_length was    *)
(* given, rotated or not, and takes no beginning of a code for a code.     *)
(***************************************************************************)
THEOREM NumbersComeBack == CodecSpec => []RoundTrip
<1>1. IInv => RoundTrip
  BY DEF IInv
<1>2. QED
  BY <1>1, InvariantHolds, PTL

(***************************************************************************)
(* What the parser weighs is what is written, for every number.            *)
(***************************************************************************)
THEOREM CostsAreExact == CodecSpec => []CostIsExact
<1>1. IInv => CostIsExact
  <2>1. SUFFICES ASSUME IInv, rpc # "idle"
                 PROVE  Len(code) + lost = kc_dali_length_bit_cost(number) - Skipped
    BY DEF CostIsExact, Skipped
  <2>2. /\ number \in Encodable
        /\ Len(code) + lost = (2 * kc_floor_log2(number) + 1) - Skipped
    BY <2>1 DEF IInv, CodeInv
  <2>3. number # 0
    BY <2>2, TwoBytes
  <2>4. kc_dali_length_bit_cost(number) = 2 * kc_floor_log2(number) + 1
    BY <2>3 DEF kc_dali_length_bit_cost
  <2>5. QED
    BY <2>2, <2>4
<1>2. QED
  BY <1>1, InvariantHolds, PTL

(***************************************************************************)
(* The reader of kcrunch.c gets every number as kc_read_dali_length does,  *)
(* at every alignment in the bytes, and stops at the same bit.             *)
(***************************************************************************)
THEOREM OtherReaderAgrees == CodecSpec => []ReadersAgree
<1>1. IInv => ReadersAgree
  <2> SUFFICES ASSUME IInv, rpc = "done", NEW shift \in 0 .. ByteBits - 1
               PROVE  LET bytes == Packed([k \in 1 .. shift |-> 1] \o code)
                          c     == AfterBits(bytes, Cursor(0), shift)
                      IN  /\ Number(bytes, c, skip) = so_far
                          /\ CodeBits(bytes, c, skip) = pos
    BY DEF ReadersAgree
  <2>1. /\ number \in Encodable /\ skip \in BOOLEAN /\ (skip => number > 1)
        /\ code \in Seq({0, 1}) /\ Len(code) + lost = (2 * kc_floor_log2(number) + 1) - Skipped
        /\ \A k \in 1 .. Len(code) : code[k] = kc_write_dali_length(number, FALSE)[k + Skipped]
    BY DEF IInv, CodeInv
  <2>2. lost = 0 /\ so_far = number /\ pos = Len(code)
    BY DEF IInv, RoundTrip
  <2>3. Skips(skip) = Skipped
    BY DEF Skips, Skipped
  <2>4. Len(code) = (2 * kc_floor_log2(number) + 1) - Skipped
    <3>1. Len(code) \in Nat
      BY <2>1
    <3>2. Len(code) + 0 = Len(code)
      BY <3>1
    <3>3. QED
      BY <2>1, <2>2, <3>2
  <2>5. Whole(number, skip, code)
    BY <2>1, <2>3, <2>4 DEF Whole
  <2>6. kc_floor_log2(number) # 0 \/ ~skip
    <3>1. skip => kc_floor_log2(number) >= 1
      BY <2>1, PayloadLeft
    <3>2. QED
      BY <3>1
  <2> DEFINE bytes == Packed([k \in 1 .. shift |-> 1] \o code)
             c == AfterBits(bytes, Cursor(0), shift)
  <2>7. Carries(bytes, c, code)
    BY <2>1, CodeCarried
  <2> HIDE DEF bytes, c
  <2>8. Number(bytes, c, skip) = number
    BY <2>5, <2>6, <2>7, NumberFound
  <2>9. CodeBits(bytes, c, skip) = Len(code)
    BY <2>5, <2>6, <2>7, EndFound
  <2>10. QED
    BY <2>2, <2>8, <2>9 DEF bytes, c
<1>2. QED
  BY <1>1, InvariantHolds, PTL

-----------------------------------------------------------------------------

(***************************************************************************)
(* A reader of bytes that hold the stream full, or the part of it from lo  *)
(* up to hi, behind d others.  It stands where the stream s ended once.    *)
(***************************************************************************)
CursorOK(c) == c \in [src : Nat, byte : Byte, left : 0 .. ByteBits - 1]

Stands(full, d, s, c) ==
  /\ CursorOK(c)
  /\ c.src = d + Len(s.data) /\ c.left = s.bit_shift + 1
  /\ s.bit_shift >= 0 => c.byte = full.data[Place(s)]

Fed(bytes, d, full, lo, hi) ==
  /\ bytes \in Seq(Byte) /\ d \in Nat /\ lo \in Nat /\ hi \in Nat /\ StreamOK(full)
  /\ d + hi <= Len(bytes) /\ hi <= Len(full.data)
  /\ \A k \in lo + 1 .. hi : bytes[d + k] = full.data[k]

LEMMA ByteIs ==
  ASSUME NEW bytes \in Seq(Byte), NEW src \in Nat
  PROVE  /\ ByteAt(bytes, src) \in Byte
         /\ src < Len(bytes) => ByteAt(bytes, src) = bytes[src + 1]
<1>1. 0 \in Byte
  BY FormatAssumption DEF Byte
<1>2. CASE src < Len(bytes)
  <2>1. src \in 0 .. Len(bytes) - 1 /\ src + 1 \in 1 .. Len(bytes)
    BY <1>2
  <2>2. QED
    BY <1>2, <2>1 DEF ByteAt
<1>3. CASE ~(src < Len(bytes))
  <2>1. src \notin 0 .. Len(bytes) - 1
    BY <1>3
  <2>2. QED
    BY <1>1, <1>3, <2>1 DEF ByteAt
<1>4. QED
  BY <1>2, <1>3

(* One bit from a cursor, with and without a control byte at hand. *)
LEMMA AtHand ==
  ASSUME NEW bytes, NEW c, CursorOK(c), c.left >= 1
  PROVE  /\ BitAt(bytes, c, 1) = Bit(c.byte, c.left - 1)
         /\ AfterBits(bytes, c, 1) = [src |-> c.src, byte |-> c.byte, left |-> c.left - 1]
<1>1. BitAt(bytes, c, 1) = Bit(c.byte, c.left - 1)
  BY DEF BitAt
<1>2. c = [src |-> c.src, byte |-> c.byte, left |-> c.left]
  BY DEF CursorOK
<1>3. AfterBits(bytes, c, 1) = [c EXCEPT !.left = c.left - 1]
  BY DEF AfterBits
<1>4. QED
  BY <1>1, <1>2, <1>3

LEMMA Fetched ==
  ASSUME NEW bytes, NEW c, CursorOK(c), c.left = 0
  PROVE  /\ BitAt(bytes, c, 1) = Bit(ByteAt(bytes, c.src), ByteBits - 1)
         /\ AfterBits(bytes, c, 1)
              = [src |-> c.src + 1, byte |-> ByteAt(bytes, c.src), left |-> ByteBits - 1]
<1>1. ByteBits \in Nat \ {0} /\ c.src \in Nat /\ ~(1 <= c.left)
  BY FormatAssumption DEF CursorOK
<1>2. 0 \div ByteBits = 0 /\ 0 % ByteBits = 0
  BY <1>1
<1>3. (1 + ByteBits - 1) \div ByteBits = 1
  <2>1. 1 + ByteBits - 1 = 1 * ByteBits + 0 /\ 1 + ByteBits - 1 \in Nat
        /\ 0 \in 0 .. ByteBits - 1
    BY <1>1
  <2>2. QED
    BY <1>1, <2>1, Quotient
<1>4. BitAt(bytes, c, 1) = Bit(ByteAt(bytes, c.src), ByteBits - 1)
  <2>1. 1 - c.left - 1 = 0 /\ c.src + 0 = c.src /\ ByteBits - 1 - 0 = ByteBits - 1
    BY <1>1
  <2>2. BitAt(bytes, c, 1)
          = Bit(ByteAt(bytes, c.src + 0 \div ByteBits), ByteBits - 1 - (0 % ByteBits))
    BY <1>1, <2>1 DEF BitAt
  <2>3. QED
    BY <1>2, <2>1, <2>2
<1>5. AfterBits(bytes, c, 1)
        = [src |-> c.src + 1, byte |-> ByteAt(bytes, c.src), left |-> ByteBits - 1]
  <2>1. 1 - c.left = 1 /\ c.src + 1 - 1 = c.src /\ 1 * ByteBits - 1 = ByteBits - 1
    BY <1>1
  <2>2. AfterBits(bytes, c, 1)
          = [src  |-> c.src + 1, byte |-> ByteAt(bytes, c.src + 1 - 1),
             left |-> 1 * ByteBits - 1]
    BY <1>1, <1>3, <2>1 DEF AfterBits
  <2>3. QED
    BY <2>1, <2>2
<1>6. QED
  BY <1>4, <1>5

LEMMA Products ==
  ASSUME NEW q \in Nat, NEW b \in Nat
  PROVE  /\ q * b \in Nat /\ (q + 1) * b = q * b + b /\ (q + 2) * b = q * b + b + b
         /\ b * (q + 1) = q * b + b
<1>1. (q + 1) * b = q * b + b
  OBVIOUS
<1>2. (q + 2) * b = q * b + b + b
  OBVIOUS
<1>3. b * (q + 1) = (q + 1) * b /\ q * b \in Nat
  OBVIOUS
<1>4. QED
  BY <1>1, <1>2, <1>3

LEMMA Counted ==
  ASSUME NEW n \in Nat, NEW left \in Nat, NEW more \in Nat, NEW b \in Nat, NEW r \in Nat,
         NEW w \in Nat, NEW w1 \in Nat, NEW w2 \in Nat,
         n = more + left, more - 1 = w + r, w1 = w + b, w2 = w + b + b, r < b
  PROVE  /\ more + b - 1 = w1 + r /\ w1 - more = b - 1 - r /\ n <= left + w1
         /\ r < b - 1 => more = w + (r + 1) /\ more + 1 + b - 1 = w1 + (r + 1)
                        /\ w1 - (more + 1) = b - 1 - r - 1
         /\ r = b - 1 => more = w1 + 0 /\ more + 1 + b - 1 = w2 + 0 /\ w2 - (more + 1) = b - 1
<1>1. more + b - 1 = w1 + r /\ w1 - more = b - 1 - r /\ n <= left + w1
  OBVIOUS
<1>2. r < b - 1 => more = w + (r + 1) /\ more + 1 + b - 1 = w1 + (r + 1)
                    /\ w1 - (more + 1) = b - 1 - r - 1
  OBVIOUS
<1>3. r = b - 1 => more = w1 + 0 /\ more + 1 + b - 1 = w2 + 0 /\ w2 - (more + 1) = b - 1
  OBVIOUS
<1>4. QED
  BY <1>1, <1>2, <1>3

(* The n-th bit is the first one after the n - 1 before it. *)
LEMMA Onwards ==
  ASSUME NEW bytes \in Seq(Byte), NEW c, CursorOK(c), NEW n \in Nat
  PROVE  /\ CursorOK(AfterBits(bytes, c, n))
         /\ BitAt(bytes, c, n + 1) = BitAt(bytes, AfterBits(bytes, c, n), 1)
         /\ AfterBits(bytes, c, n + 1) = AfterBits(bytes, AfterBits(bytes, c, n), 1)
         /\ n <= c.left + ByteBits * (AfterBits(bytes, c, n).src - c.src)
         /\ n = 0 => AfterBits(bytes, c, n) = c
<1> DEFINE b == AfterBits(bytes, c, n)
           x == AfterBits(bytes, c, n + 1)
<1>1. /\ ByteBits \in Nat /\ ByteBits >= 2 /\ c.src \in Nat /\ c.byte \in Byte
      /\ c.left \in 0 .. ByteBits - 1 /\ c = [src |-> c.src, byte |-> c.byte, left |-> c.left]
  BY FormatAssumption DEF CursorOK
<1>2. CASE n <= c.left
  <2>1. b = [c EXCEPT !.left = c.left - n]
    BY <1>2 DEF AfterBits
  <2>2. /\ b = [src |-> c.src, byte |-> c.byte, left |-> c.left - n]
        /\ b.src = c.src /\ b.byte = c.byte /\ b.left = c.left - n
    BY <1>1, <2>1
  <2> HIDE DEF b
  <2>3. CursorOK(b) /\ n <= c.left + ByteBits * (b.src - c.src) /\ (n = 0 => b = c)
    <3>1. c.left - n \in 0 .. ByteBits - 1 /\ c.src - c.src = 0 /\ ByteBits * 0 = 0
          /\ (n = 0 => c.left - n = c.left)
      BY <1>1, <1>2
    <3>2. CursorOK(b)
      BY <1>1, <2>2, <3>1 DEF CursorOK
    <3>3. n <= c.left + ByteBits * (b.src - c.src)
      BY <1>1, <1>2, <2>2, <3>1
    <3>4. n = 0 => b = c
      BY <1>1, <2>2, <3>1
    <3>5. QED
      BY <3>2, <3>3, <3>4
  <2>4. CASE n < c.left
    <3>1. n + 1 <= c.left /\ b.left >= 1
      BY <1>1, <2>2, <2>4
    <3>2. /\ BitAt(bytes, b, 1) = Bit(b.byte, b.left - 1)
          /\ AfterBits(bytes, b, 1) = [src |-> b.src, byte |-> b.byte, left |-> b.left - 1]
      BY <2>3, <3>1, AtHand
    <3>3. BitAt(bytes, c, n + 1) = Bit(c.byte, c.left - (n + 1))
      BY <3>1 DEF BitAt
    <3>4. x = [c EXCEPT !.left = c.left - (n + 1)]
      BY <3>1 DEF AfterBits
    <3>5. c.left - (n + 1) = b.left - 1
      BY <1>1, <2>2
    <3>6. x = [src |-> c.src, byte |-> c.byte, left |-> c.left - (n + 1)]
      BY <1>1, <3>4
    <3> HIDE DEF x
    <3>7. QED
      BY <2>2, <2>3, <3>2, <3>3, <3>5, <3>6 DEF b, x
  <2>5. CASE n = c.left
    <3>1. b.left = 0
      BY <1>1, <2>2, <2>5
    <3>2. /\ BitAt(bytes, b, 1) = Bit(ByteAt(bytes, c.src), ByteBits - 1)
          /\ AfterBits(bytes, b, 1)
               = [src |-> c.src + 1, byte |-> ByteAt(bytes, c.src), left |-> ByteBits - 1]
      BY <2>2, <2>3, <3>1, Fetched
    <3>3. ~(n + 1 <= c.left) /\ (n + 1) - c.left - 1 = 0 /\ (n + 1) - c.left = 1
      BY <1>1, <2>5
    <3>4. BitAt(bytes, c, n + 1) = Bit(ByteAt(bytes, c.src), ByteBits - 1)
      <4>1. 0 \div ByteBits = 0 /\ 0 % ByteBits = 0 /\ c.src + 0 = c.src
            /\ ByteBits - 1 - 0 = ByteBits - 1
        BY <1>1
      <4>2. BitAt(bytes, c, n + 1)
              = Bit(ByteAt(bytes, c.src + 0 \div ByteBits), ByteBits - 1 - (0 % ByteBits))
        BY <3>3 DEF BitAt
      <4>3. QED
        BY <4>1, <4>2
    <3>5. x = [src |-> c.src + 1, byte |-> ByteAt(bytes, c.src), left |-> ByteBits - 1]
      <4>1. 1 + ByteBits - 1 = 1 * ByteBits + 0 /\ 1 + ByteBits - 1 \in Nat
            /\ 0 \in 0 .. ByteBits - 1 /\ ByteBits \in Nat \ {0}
        BY <1>1
      <4>2. (1 + ByteBits - 1) \div ByteBits = 1
        BY <4>1, Quotient
      <4>3. x = [src  |-> c.src + 1, byte |-> ByteAt(bytes, c.src + 1 - 1),
                 left |-> 1 * ByteBits - 1]
        BY <3>3, <4>2 DEF AfterBits
      <4>4. c.src + 1 - 1 = c.src /\ 1 * ByteBits - 1 = ByteBits - 1
        BY <1>1
      <4>5. QED
        BY <4>3, <4>4
    <3> HIDE DEF x
    <3>6. QED
      BY <2>3, <3>2, <3>4, <3>5 DEF b, x
  <2>6. QED
    BY <1>1, <1>2, <2>4, <2>5
<1>3. CASE ~(n <= c.left)
  <2> DEFINE more == n - c.left
             p == more - 1
             q == p \div ByteBits
             r == p % ByteBits
  <2>1. more \in Nat /\ more >= 1 /\ p \in Nat /\ more = p + 1 /\ n = more + c.left
        /\ ByteBits \in Nat \ {0}
    BY <1>1, <1>3
  <2> HIDE DEF p
  <2>0. q \in Nat /\ r \in 0 .. ByteBits - 1 /\ p = q * ByteBits + r
    BY <2>1, DivBounds
  <2>2. q \in Nat /\ r \in 0 .. ByteBits - 1
    BY <2>0
  <2> HIDE DEF q, r, more
  <2> DEFINE w == q * ByteBits
             w1 == (q + 1) * ByteBits
             w2 == (q + 2) * ByteBits
  <2>14. ByteBits * (q + 1) = w1
    BY <1>1, <2>2, Products
  <2>3. w \in Nat /\ w1 = w + ByteBits /\ w2 = w + ByteBits + ByteBits
        /\ p = w + r /\ w1 \in Nat /\ w2 \in Nat
    <3>1. ByteBits \in Nat
      BY <1>1
    <3>2. w \in Nat /\ w1 = w + ByteBits /\ w2 = w + ByteBits + ByteBits
      BY <2>2, <3>1, Products
    <3>3. p = w + r
      BY <2>0
    <3> HIDE DEF w, w1, w2
    <3>4. QED
      BY <3>1, <3>2, <3>3
  <2>15. /\ more + ByteBits - 1 = w1 + r /\ w1 - more = ByteBits - 1 - r /\ n <= c.left + w1
         /\ r < ByteBits - 1 => /\ more = w + (r + 1) /\ more + 1 + ByteBits - 1 = w1 + (r + 1)
                                /\ w1 - (more + 1) = ByteBits - 1 - r - 1
         /\ r = ByteBits - 1 => /\ more = w1 + 0 /\ more + 1 + ByteBits - 1 = w2 + 0
                                /\ w2 - (more + 1) = ByteBits - 1
    <3> HIDE DEF w, w1, w2
    <3>1. /\ n \in Nat /\ c.left \in Nat /\ more \in Nat /\ ByteBits \in Nat /\ r \in Nat
          /\ w \in Nat /\ w1 \in Nat /\ w2 \in Nat
      BY <1>1, <2>1, <2>2, <2>3
    <3>2. n = more + c.left /\ w1 = w + ByteBits /\ w2 = w + ByteBits + ByteBits /\ r < ByteBits
      BY <1>1, <2>1, <2>2, <2>3
    <3>3. more - 1 = w + r
      <4>1. p = more - 1
        BY <2>1
      <4>2. QED
        BY <2>3, <4>1
    <3>4. QED
      BY <3>1, <3>2, <3>3, Counted
  <2>16. w = q * ByteBits /\ w1 = (q + 1) * ByteBits /\ w2 = (q + 2) * ByteBits
    OBVIOUS
  <2> HIDE DEF w, w1, w2
  <2>4. (more + ByteBits - 1) \div ByteBits = q + 1
    <3> DEFINE a == more + ByteBits - 1
               t == q + 1
    <3>1. a \in Nat /\ a = w1 + r
      BY <2>2, <2>3, <2>15, <2>1
    <3>2. t \in Nat /\ a = t * ByteBits + r
      BY <2>2, <2>16, <3>1
    <3> HIDE DEF a, t
    <3>3. a \div ByteBits = t
      BY SMTT(20), <2>1, <2>2, <3>1, <3>2, Quotient
    <3>4. QED
      BY <3>3 DEF a, t
  <2>5. b = [src |-> c.src + (q + 1), byte |-> ByteAt(bytes, c.src + (q + 1) - 1),
             left |-> (q + 1) * ByteBits - more]
    BY <1>3, <2>4 DEF AfterBits, more
  <2>6. c.src + (q + 1) - 1 = c.src + q /\ w1 - more = ByteBits - 1 - r
    BY <1>1, <2>2, <2>15
  <2>7. /\ b = [src |-> c.src + (q + 1), byte |-> ByteAt(bytes, c.src + q),
                left |-> ByteBits - 1 - r]
        /\ b.src = c.src + (q + 1) /\ b.byte = ByteAt(bytes, c.src + q)
        /\ b.left = ByteBits - 1 - r
    <3>1. b = [src |-> c.src + (q + 1), byte |-> ByteAt(bytes, c.src + q),
               left |-> ByteBits - 1 - r]
      BY <2>5, <2>6, <2>16
    <3> HIDE DEF b
    <3>2. QED
      BY <3>1
  <2> HIDE DEF b
  <2>8. CursorOK(b)
    <3>1. c.src + q \in Nat /\ c.src + (q + 1) \in Nat /\ ByteBits - 1 - r \in 0 .. ByteBits - 1
      BY <1>1, <2>2
    <3>2. ByteAt(bytes, c.src + q) \in Byte
      BY <3>1, ByteIs
    <3>3. QED
      BY <2>7, <3>1, <3>2 DEF CursorOK
  <2>9. n <= c.left + ByteBits * (b.src - c.src)
    <3>1. b.src - c.src = q + 1
      BY <1>1, <2>2, <2>7
    <3>2. n <= c.left + w1
      BY <2>15
    <3>3. QED
      BY <2>14, <3>1, <3>2
  <2>10. n # 0 /\ ~(n + 1 <= c.left) /\ (n + 1) - c.left = more + 1
         /\ (n + 1) - c.left - 1 = more
    BY SMTT(20), <1>1, <1>3, <2>1
  <2>11. CASE r < ByteBits - 1
    <3>1. b.left >= 1
      BY <1>1, <2>2, <2>7, <2>11
    <3>2. /\ BitAt(bytes, b, 1) = Bit(b.byte, b.left - 1)
          /\ AfterBits(bytes, b, 1) = [src |-> b.src, byte |-> b.byte, left |-> b.left - 1]
      BY <2>8, <3>1, AtHand
    <3>3. more \div ByteBits = q /\ more % ByteBits = r + 1
      <4> DEFINE t == r + 1
      <4>1. more = w + t /\ t \in 0 .. ByteBits - 1
        BY <1>1, <2>2, <2>11, <2>15
      <4> HIDE DEF t
      <4>2. more \div ByteBits = q /\ more % ByteBits = t
        BY SMTT(20), <2>1, <2>2, <2>16, <4>1, Quotient
      <4>3. QED
        BY <4>2 DEF t
    <3>4. (more + 1 + ByteBits - 1) \div ByteBits = q + 1
      <4> DEFINE a == more + 1 + ByteBits - 1
                 t == q + 1
                 u == r + 1
      <4>1. a \in Nat /\ a = w1 + u /\ u \in 0 .. ByteBits - 1
        <5>1. a = w1 + u
          BY <2>11, <2>15
        <5>2. w1 \in Nat /\ r \in Nat /\ ByteBits \in Nat
          BY <1>1, <2>2, <2>3
        <5>3. u \in 0 .. ByteBits - 1
          BY <2>11, <5>2
        <5>4. w1 + u \in Nat
          BY <5>2
        <5>5. QED
          BY <5>1, <5>3, <5>4
      <4>2. t \in Nat /\ a = t * ByteBits + u
        BY <2>2, <2>16, <4>1
      <4> HIDE DEF a, t, u
      <4>3. a \div ByteBits = t
        BY <2>1, <4>1, <4>2, Quotient
      <4>4. QED
        BY <4>3 DEF a, t
    <3>5. BitAt(bytes, c, n + 1) = Bit(ByteAt(bytes, c.src + q), ByteBits - 1 - (r + 1))
      <4>1. BitAt(bytes, c, n + 1)
              = Bit(ByteAt(bytes, c.src + more \div ByteBits), ByteBits - 1 - (more % ByteBits))
        BY <2>10 DEF BitAt
      <4>2. QED
        BY <3>3, <4>1
    <3>6. x = [src |-> c.src + (q + 1), byte |-> ByteAt(bytes, c.src + (q + 1) - 1),
               left |-> (q + 1) * ByteBits - (more + 1)]
      BY <2>10, <3>4 DEF AfterBits
    <3>7. ByteBits - 1 - (r + 1) = b.left - 1 /\ w1 - (more + 1) = b.left - 1
      BY <1>1, <2>2, <2>7, <2>11, <2>15
    <3>8. QED
      BY <2>6, <2>7, <2>8, <2>9, <2>10, <2>16, <3>2, <3>5, <3>6, <3>7 DEF b, x
  <2>12. CASE r = ByteBits - 1
    <3>1. b.left = 0
      BY <1>1, <2>7, <2>12
    <3>2. /\ BitAt(bytes, b, 1) = Bit(ByteAt(bytes, b.src), ByteBits - 1)
          /\ AfterBits(bytes, b, 1)
               = [src |-> b.src + 1, byte |-> ByteAt(bytes, b.src), left |-> ByteBits - 1]
      BY <2>8, <3>1, Fetched
    <3>3. more \div ByteBits = q + 1 /\ more % ByteBits = 0
      <4> DEFINE t == q + 1
      <4>1. more = w1 + 0 /\ 0 \in 0 .. ByteBits - 1
        BY <1>1, <2>12, <2>15
      <4>2. t \in Nat /\ more = t * ByteBits + 0
        BY <2>2, <2>16, <4>1
      <4> HIDE DEF t
      <4>3. more \div ByteBits = t /\ more % ByteBits = 0
        BY <2>1, <4>1, <4>2, Quotient
      <4>4. QED
        BY <4>3 DEF t
    <3>4. (more + 1 + ByteBits - 1) \div ByteBits = q + 2
      <4> DEFINE a == more + 1 + ByteBits - 1
                 t == q + 2
      <4>1. a \in Nat /\ a = w2 + 0 /\ 0 \in 0 .. ByteBits - 1
        <5>1. a = w2 + 0
          BY <2>12, <2>15
        <5>2. 0 \in 0 .. ByteBits - 1 /\ w2 + 0 \in Nat
          BY <1>1, <2>3
        <5>3. QED
          BY <5>1, <5>2
      <4>2. t \in Nat /\ a = t * ByteBits + 0
        BY <2>2, <2>16, <4>1
      <4> HIDE DEF a, t
      <4>3. a \div ByteBits = t
        BY <2>1, <4>1, <4>2, Quotient
      <4>4. QED
        BY <4>3 DEF a, t
    <3>5. BitAt(bytes, c, n + 1) = Bit(ByteAt(bytes, c.src + (q + 1)), ByteBits - 1 - 0)
      <4>1. BitAt(bytes, c, n + 1)
              = Bit(ByteAt(bytes, c.src + more \div ByteBits), ByteBits - 1 - (more % ByteBits))
        BY <2>10 DEF BitAt
      <4>2. QED
        BY <3>3, <4>1
    <3>6. x = [src |-> c.src + (q + 2), byte |-> ByteAt(bytes, c.src + (q + 2) - 1),
               left |-> (q + 2) * ByteBits - (more + 1)]
      BY <2>10, <3>4 DEF AfterBits
    <3>7. /\ ByteBits - 1 - 0 = ByteBits - 1 /\ w2 - (more + 1) = ByteBits - 1
          /\ c.src + (q + 2) = b.src + 1 /\ c.src + (q + 2) - 1 = b.src
      BY SMTT(20), <1>1, <2>2, <2>7, <2>12, <2>15
    <3>8. QED
      BY <2>7, <2>8, <2>9, <2>10, <2>16, <3>2, <3>5, <3>6, <3>7 DEF b, x
  <2>13. QED
    BY <1>1, <2>2, <2>11, <2>12
<1>4. QED
  BY <1>2, <1>3

(***************************************************************************)
(* What was written is what is read: a bit, several bits, raw bytes.       *)
(***************************************************************************)
LEMMA OneBit ==
  ASSUME NEW bytes, NEW d, NEW full, NEW lo, NEW hi, Fed(bytes, d, full, lo, hi),
         NEW s, StreamOK(s), NEW bit \in {0, 1}, Extends(full, PutBit(s, bit)),
         NEW c, Stands(full, d, s, c), lo <= Len(s.data), Len(PutBit(s, bit).data) <= hi
  PROVE  /\ BitAt(bytes, c, 1) = bit
         /\ Stands(full, d, PutBit(s, bit), AfterBits(bytes, c, 1))
<1> DEFINE o == Opened(s)
           t == PutBit(s, bit)
<1>1. /\ StreamOK(t) /\ t.bits_offset = o.bits_offset /\ t.bit_shift = o.bit_shift - 1
      /\ Len(t.data) = Len(o.data)
  BY PutBitOK
<1>2. Place(o) \in 1 .. Len(full.data) /\ Bit(full.data[Place(o)], o.bit_shift) = bit
  BY BitInPlace DEF Fed
<1>3. /\ Len(s.data) \in Nat /\ s.bits_offset \in Nat
      /\ s.bit_shift \in Int /\ s.bit_shift >= -1 /\ ByteBits \in Nat /\ ByteBits >= 2
      /\ Len(full.data) \in Nat /\ Len(bytes) \in Nat /\ d \in Nat /\ lo \in Nat /\ hi \in Nat
      /\ d + hi <= Len(bytes) /\ hi <= Len(full.data) /\ bytes \in Seq(Byte)
  BY FormatAssumption DEF StreamOK, Fed
<1>4. /\ c.src = d + Len(s.data) /\ c.left = s.bit_shift + 1 /\ CursorOK(c)
      /\ c.src \in Nat /\ c.byte \in Byte
  BY DEF Stands, CursorOK
<1>5. s.data \in Seq(Byte)
  BY DEF StreamOK
<1> HIDE DEF t
<1>6. CASE s.bit_shift < 0
  <2>1. s.bit_shift = -1 /\ c.left = 0
    BY <1>3, <1>4, <1>6
  <2>2. /\ o.data = Append(s.data, 0) /\ o.bits_offset = Len(s.data)
        /\ o.bit_shift = ByteBits - 1
    BY <1>6 DEF Opened
  <2>3. Len(o.data) = Len(s.data) + 1 /\ Place(o) = Len(s.data) + 1 /\ Place(t) = Place(o)
    BY <1>1, <1>3, <1>5, <2>2 DEF Place
  <2> HIDE DEF o
  <2>4. Len(s.data) + 1 <= hi
    BY <1>1, <2>3 DEF t
  <2>5. ByteAt(bytes, c.src) = full.data[Place(o)]
    <3>1. c.src < Len(bytes)
      BY <1>3, <1>4, <2>4
    <3>2. ByteAt(bytes, c.src) = bytes[c.src + 1]
      BY <1>3, <1>4, <3>1, ByteIs
    <3>3. c.src + 1 = d + Place(o) /\ Place(o) \in lo + 1 .. hi
      BY <1>3, <1>4, <2>3, <2>4
    <3>4. bytes[d + Place(o)] = full.data[Place(o)]
      BY <3>3 DEF Fed
    <3>5. QED
      BY <3>2, <3>3, <3>4
  <2>6. /\ BitAt(bytes, c, 1) = Bit(ByteAt(bytes, c.src), ByteBits - 1)
        /\ AfterBits(bytes, c, 1)
             = [src |-> c.src + 1, byte |-> ByteAt(bytes, c.src), left |-> ByteBits - 1]
    BY <1>4, <2>1, Fetched
  <2>7. BitAt(bytes, c, 1) = bit
    BY <1>2, <2>2, <2>5, <2>6
  <2> DEFINE x == AfterBits(bytes, c, 1)
  <2>8. x.src = c.src + 1 /\ x.byte = full.data[Place(t)] /\ x.left = ByteBits - 1
    BY <2>3, <2>5, <2>6
  <2>9. CursorOK(x)
    <3>1. ByteAt(bytes, c.src) \in Byte
      BY <1>3, <1>4, ByteIs
    <3>2. c.src + 1 \in Nat /\ ByteBits - 1 \in 0 .. ByteBits - 1
      BY <1>3, <1>4
    <3>3. QED
      BY <2>6, <3>1, <3>2 DEF CursorOK
  <2> HIDE DEF x
  <2>10. x.src = d + Len(t.data) /\ x.left = t.bit_shift + 1
    BY <1>1, <1>3, <1>4, <2>2, <2>3, <2>8
  <2>11. Stands(full, d, t, x)
    BY <2>8, <2>9, <2>10 DEF Stands
  <2>12. QED
    BY <2>7, <2>11 DEF t, x
<1>7. CASE ~(s.bit_shift < 0)
  <2>1. o = s
    BY <1>7 DEF Opened
  <2>2. c.left >= 1 /\ s.bit_shift >= 0
    BY <1>3, <1>4, <1>7
  <2>3. c.byte = full.data[Place(s)]
    BY <2>2 DEF Stands
  <2>4. /\ BitAt(bytes, c, 1) = Bit(c.byte, c.left - 1)
        /\ AfterBits(bytes, c, 1) = [src |-> c.src, byte |-> c.byte, left |-> c.left - 1]
    BY <1>4, <2>2, AtHand
  <2>5. c.left - 1 = s.bit_shift /\ c.left - 1 \in 0 .. ByteBits - 1
    <3>1. c.left \in 0 .. ByteBits - 1
      BY <1>4 DEF CursorOK
    <3>2. ByteBits \in Nat /\ s.bit_shift \in Int /\ c.left = s.bit_shift + 1 /\ c.left >= 1
      BY <1>3, <1>4, <2>2
    <3>3. QED
      BY <3>1, <3>2
  <2>6. BitAt(bytes, c, 1) = bit
    BY <1>2, <2>1, <2>3, <2>4, <2>5
  <2> DEFINE x == AfterBits(bytes, c, 1)
  <2>7. x.src = c.src /\ x.byte = c.byte /\ x.left = c.left - 1
    BY <2>4
  <2>8. CursorOK(x)
    BY <1>4, <2>4, <2>5 DEF CursorOK
  <2> HIDE DEF x
  <2>9. Place(t) = Place(s) /\ Len(t.data) = Len(s.data) /\ t.bit_shift = s.bit_shift - 1
    BY <1>1, <2>1 DEF Place
  <2>10. Stands(full, d, t, x)
    <3>1. x.left = t.bit_shift + 1
      BY <1>3, <1>4, <2>7, <2>9
    <3>2. QED
      BY <1>4, <2>3, <2>7, <2>8, <2>9, <3>1 DEF Stands
  <2>11. QED
    BY <2>6, <2>10 DEF t, x
<1>8. QED
  BY <1>6, <1>7

(* A stream holds no less than one it extends. *)
LEMMA Longer ==
  ASSUME NEW s, StreamOK(s), NEW t, StreamOK(t), Extends(t, s)
  PROVE  Len(s.data) \in Nat /\ Len(t.data) \in Nat /\ Len(s.data) <= Len(t.data)
  BY DEF StreamOK, Extends

LEMMA ManyBits ==
  ASSUME NEW bytes, NEW d, NEW full, NEW lo, NEW hi, Fed(bytes, d, full, lo, hi),
         NEW s, StreamOK(s), NEW bits \in Seq({0, 1}), Extends(full, PutBits(s, bits)),
         NEW c, Stands(full, d, s, c), lo <= Len(s.data), Len(PutBits(s, bits).data) <= hi
  PROVE  /\ \A n \in 1 .. Len(bits) : BitAt(bytes, c, n) = bits[n]
         /\ Stands(full, d, PutBits(s, bits), AfterBits(bytes, c, Len(bits)))
<1> DEFINE t == PutBits(s, bits)
<1>1. /\ StreamOK(t) /\ Extends(t, s) /\ StreamOK(full) /\ CursorOK(c) /\ bytes \in Seq(Byte)
      /\ lo \in Nat /\ hi \in Nat /\ Len(bits) \in Nat
  BY PutBitsOK DEF Fed, Stands
<1>2. ASSUME NEW n \in 0 .. Len(bits)
      PROVE  /\ StreamOK(After(s, bits, n)) /\ Extends(t, After(s, bits, n))
             /\ Extends(full, After(s, bits, n))
             /\ lo <= Len(After(s, bits, n).data) /\ Len(After(s, bits, n).data) <= hi
  <2> DEFINE x == After(s, bits, n)
  <2>1. StreamOK(x) /\ Extends(x, s)
    BY AfterOK
  <2>2. Extends(t, x)
    BY AfterExtends
  <2> HIDE DEF x, t
  <2>3. Extends(full, x)
    <3>1. Extends(full, t)
      BY DEF t
    <3>2. QED
      BY <1>1, <2>1, <2>2, <3>1, ExtendsOn
  <2>4. Len(s.data) \in Nat /\ Len(x.data) \in Nat /\ Len(s.data) <= Len(x.data)
    BY <2>1, Longer
  <2>5. Len(t.data) \in Nat /\ Len(x.data) <= Len(t.data)
    BY <1>1, <2>1, <2>2, Longer
  <2>6. Len(t.data) <= hi
    BY DEF t
  <2>7. QED
    BY <1>1, <2>1, <2>2, <2>3, <2>4, <2>5, <2>6 DEF x
<1> HIDE DEF t
<1> DEFINE Good(n) == Stands(full, d, After(s, bits, n), AfterBits(bytes, c, n))
           S == {n \in 0 .. Len(bits) : Good(n)}
<1>3. ASSUME NEW n \in 0 .. Len(bits) - 1, Good(n)
      PROVE  Good(n + 1) /\ BitAt(bytes, c, n + 1) = bits[n + 1]
  <2> DEFINE u == After(s, bits, n)
             x == AfterBits(bytes, c, n)
  <2>1. n \in 0 .. Len(bits) /\ n + 1 \in 0 .. Len(bits) /\ n \in Nat /\ n + 1 \in 1 .. Len(bits)
    BY <1>1
  <2>2. After(s, bits, n + 1) = PutBit(u, bits[n + 1]) /\ bits[n + 1] \in {0, 1}
    BY <2>1, BitByBit
  <2>3. /\ StreamOK(u) /\ Extends(full, PutBit(u, bits[n + 1])) /\ lo <= Len(u.data)
        /\ Len(PutBit(u, bits[n + 1]).data) <= hi
    BY <1>2, <2>1, <2>2
  <2>4. /\ BitAt(bytes, c, n + 1) = BitAt(bytes, x, 1)
        /\ AfterBits(bytes, c, n + 1) = AfterBits(bytes, x, 1)
    BY <1>1, <2>1, Onwards
  <2>5. Stands(full, d, u, x)
    BY <1>3
  <2> HIDE DEF u, x
  <2>6. BitAt(bytes, x, 1) = bits[n + 1] /\ Stands(full, d, PutBit(u, bits[n + 1]), AfterBits(bytes, x, 1))
    BY <2>2, <2>3, <2>5, OneBit
  <2>7. QED
    BY <2>2, <2>4, <2>6
<1>4. Good(0)
  <2>1. After(s, bits, 0) = s
    BY BitByBit
  <2>2. AfterBits(bytes, c, 0) = c
    BY <1>1, Onwards
  <2>3. QED
    BY <2>1, <2>2
<1> HIDE DEF Good
<1>5. \A n \in 0 .. Len(bits) : n \in S
  <2>1. 0 \in S
    BY <1>1, <1>4
  <2>2. \A n \in 0 .. Len(bits) - 1 : n \in S => n + 1 \in S
    BY <1>1, <1>3
  <2> HIDE DEF S
  <2>3. QED
    BY <1>1, <2>1, <2>2, SetInduction
<1>6. ASSUME NEW n \in 1 .. Len(bits)
      PROVE  BitAt(bytes, c, n) = bits[n]
  <2>1. PICK m \in 0 .. Len(bits) - 1 : n = m + 1
    <3>1. n - 1 \in 0 .. Len(bits) - 1 /\ n = (n - 1) + 1
      BY <1>1
    <3>2. QED
      BY <3>1
  <2>2. Good(m)
    BY <1>1, <1>5, <2>1
  <2>3. QED
    BY <1>3, <2>1, <2>2
<1>7. Good(Len(bits))
  BY <1>1, <1>5
<1>8. After(s, bits, Len(bits)) = t
  BY BitByBit DEF t
<1>9. QED
  BY <1>6, <1>7, <1>8 DEF Good, t

LEMMA BytesThere ==
  ASSUME NEW bytes, NEW d, NEW full, NEW lo, NEW hi, Fed(bytes, d, full, lo, hi),
         NEW s, StreamOK(s), NEW raw \in Seq(Byte), Extends(full, PutBytes(s, raw)),
         NEW c, Stands(full, d, s, c), lo <= Len(s.data), Len(PutBytes(s, raw).data) <= hi
  PROVE  /\ \A k \in 1 .. Len(raw) : bytes[c.src + k] = raw[k]
         /\ \A k \in 0 .. Len(raw) - 1 : ByteAt(bytes, c.src + k) = raw[k + 1]
         /\ Stands(full, d, PutBytes(s, raw), AfterBytes(c, Len(raw)))
<1> DEFINE t == PutBytes(s, raw)
<1>1. /\ StreamOK(t) /\ t.bits_offset = s.bits_offset /\ t.bit_shift = s.bit_shift
      /\ Len(t.data) = Len(s.data) + Len(raw)
      /\ \A k \in 1 .. Len(raw) : t.data[Len(s.data) + k] = raw[k]
  BY PutBytesOK
<1>2. /\ Len(s.data) \in Nat /\ s.bits_offset \in Nat /\ Len(raw) \in Nat
      /\ s.bit_shift \in Int /\ Len(bytes) \in Nat
      /\ d \in Nat /\ lo \in Nat /\ hi \in Nat /\ d + hi <= Len(bytes) /\ bytes \in Seq(Byte)
  <2>1. Len(raw) \in Nat /\ Len(s.data) \in Nat /\ s.bits_offset \in Nat /\ s.bit_shift \in Int
    BY FormatAssumption DEF StreamOK
  <2>2. /\ d \in Nat /\ lo \in Nat /\ hi \in Nat /\ d + hi <= Len(bytes) /\ bytes \in Seq(Byte)
        /\ Len(bytes) \in Nat
    BY DEF Fed
  <2>3. QED
    BY <2>1, <2>2
<1>3. /\ c.src = d + Len(s.data) /\ c.left = s.bit_shift + 1 /\ CursorOK(c)
      /\ c = [src |-> c.src, byte |-> c.byte, left |-> c.left] /\ c.src \in Nat
  BY DEF Stands, CursorOK
<1>4. OpenPlace(t) <= Len(s.data) /\ OpenPlace(t) \in Nat
  BY <1>1, <1>2, SMTT(30) DEF StreamOK, FreeAreZero, OpenPlace, Place
<1>5. Len(t.data) <= hi
  OBVIOUS
<1> HIDE DEF t
<1>13. Len(t.data) = Len(s.data) + Len(raw) /\ lo <= Len(s.data)
       /\ c.src = d + Len(s.data) /\ c.src \in Nat
  BY <1>1, <1>3
<1>6. ASSUME NEW k \in 1 .. Len(raw)
      PROVE  bytes[c.src + k] = raw[k]
  <2>1. Len(s.data) + k \in 1 .. Len(t.data) /\ Len(s.data) + k # OpenPlace(t)
    BY SMTT(20), <1>2, <1>4, <1>13
  <2>2. full.data[Len(s.data) + k] = t.data[Len(s.data) + k]
    BY <2>1 DEF Extends, t
  <2>3. Len(s.data) + k \in lo + 1 .. hi /\ c.src + k = d + (Len(s.data) + k)
    BY SMTT(20), <1>2, <1>5, <1>13
  <2>4. bytes[d + (Len(s.data) + k)] = full.data[Len(s.data) + k]
    BY <2>3 DEF Fed
  <2>5. QED
    BY <1>1, <2>2, <2>3, <2>4
<1>7. ASSUME NEW k \in 0 .. Len(raw) - 1
      PROVE  ByteAt(bytes, c.src + k) = raw[k + 1]
  <2>1. k + 1 \in 1 .. Len(raw) /\ c.src + k \in Nat /\ c.src + k < Len(bytes)
        /\ c.src + (k + 1) = (c.src + k) + 1
    <3>1. k \in Nat /\ k < Len(raw) /\ Len(raw) \in Nat /\ c.src \in Nat
      BY <1>2, <1>13
    <3>2. c.src + Len(raw) <= Len(bytes) /\ Len(bytes) \in Nat
      BY <1>2, <1>5, <1>13
    <3>3. QED
      BY <3>1, <3>2
  <2>2. ByteAt(bytes, c.src + k) = bytes[(c.src + k) + 1]
    BY <1>2, <2>1, ByteIs
  <2>3. bytes[c.src + (k + 1)] = raw[k + 1]
    BY <1>6, <2>1
  <2>4. QED
    BY <2>1, <2>2, <2>3
<1> DEFINE x == AfterBytes(c, Len(raw))
<1>8. x = [src |-> c.src + Len(raw), byte |-> c.byte, left |-> c.left]
  <2>1. x = [c EXCEPT !.src = c.src + Len(raw)]
    BY DEF AfterBytes
  <2>2. QED
    BY <1>3, <2>1
<1>9. x.src = c.src + Len(raw) /\ x.byte = c.byte /\ x.left = c.left
  BY <1>8
<1>10. CursorOK(x)
  BY SMTT(20), <1>2, <1>3, <1>8 DEF CursorOK
<1> HIDE DEF x
<1>11. Stands(full, d, t, x)
  <2>1. x.src = d + Len(t.data) /\ Place(t) = Place(s)
    BY <1>1, <1>2, <1>3, <1>9 DEF Place
  <2>2. t.bit_shift >= 0 => x.byte = full.data[Place(t)]
    BY <1>1, <1>9, <2>1 DEF Stands
  <2>3. QED
    BY <1>1, <1>3, <1>9, <1>10, <2>1, <2>2 DEF Stands
<1>12. QED
  BY <1>6, <1>7, <1>11 DEF t, x

LEMMA CodeWhole ==
  ASSUME NEW v \in Encodable, NEW short \in BOOLEAN
  PROVE  Whole(v, short, Code(v, Skips(short)))
<1>1. kc_floor_log2(v) \in Nat
  BY FloorLogType
<1>2. CASE short
  <2>1. Code(v, Skips(short)) = kc_write_dali_length(v, TRUE) /\ Skips(short) = 1
    BY <1>2 DEF Code, Skips
  <2>2. /\ kc_write_dali_length(v, TRUE) \in Seq({0, 1})
        /\ Len(kc_write_dali_length(v, TRUE)) = 2 * kc_floor_log2(v)
        /\ \A j \in 1 .. 2 * kc_floor_log2(v) :
             kc_write_dali_length(v, TRUE)[j] = kc_write_dali_length(v, FALSE)[j + 1]
    BY CodeLength, CodeSkipped
  <2>3. 2 * kc_floor_log2(v) = (2 * kc_floor_log2(v) + 1) - 1
    BY <1>1
  <2>4. QED
    BY <2>1, <2>2, <2>3 DEF Whole
<1>3. CASE ~short
  <2>1. Code(v, Skips(short)) = kc_write_dali_length(v, FALSE) /\ Skips(short) = 0
    BY <1>3 DEF Code, Skips
  <2>2. /\ kc_write_dali_length(v, FALSE) \in Seq({0, 1})
        /\ Len(kc_write_dali_length(v, FALSE)) = 2 * kc_floor_log2(v) + 1
    BY CodeLength
  <2>3. 2 * kc_floor_log2(v) + 1 = (2 * kc_floor_log2(v) + 1) - 0
    BY <1>1
  <2>4. \A k \in 1 .. Len(kc_write_dali_length(v, FALSE)) : k + 0 = k
    BY <1>1, <2>2
  <2>5. QED
    BY <2>1, <2>2, <2>3, <2>4 DEF Whole
<1>4. QED
  BY <1>2, <1>3

LEMMA NumberRead ==
  ASSUME NEW bytes, NEW d, NEW full, NEW lo, NEW hi, Fed(bytes, d, full, lo, hi),
         NEW s, StreamOK(s), NEW v \in Encodable, NEW short \in BOOLEAN,
         kc_floor_log2(v) # 0 \/ ~short, Extends(full, PutBits(s, Code(v, Skips(short)))),
         NEW c, Stands(full, d, s, c), lo <= Len(s.data),
         Len(PutBits(s, Code(v, Skips(short))).data) <= hi
  PROVE  /\ Number(bytes, c, short) = v
         /\ Stands(full, d, PutBits(s, Code(v, Skips(short))), AfterNumber(bytes, c, short))
<1> DEFINE bits == Code(v, Skips(short))
           t == PutBits(s, bits)
           x == AfterBits(bytes, c, Len(bits))
<1>1. Whole(v, short, bits)
  BY CodeWhole
<1>2. bits \in Seq({0, 1}) /\ Len(bits) \in Nat
  <2>1. Skips(short) \in {0, 1}
    BY DEF Skips
  <2>2. QED
    BY <2>1, CodeIs
<1>3. Extends(full, t) /\ Len(t.data) <= hi
  OBVIOUS
<1> HIDE DEF bits
<1>4. /\ \A n \in 1 .. Len(bits) : BitAt(bytes, c, n) = bits[n]
      /\ Stands(full, d, t, x)
  BY <1>2, <1>3, ManyBits
<1>5. CursorOK(c) /\ c.src = d + Len(s.data) /\ bytes \in Seq(Byte)
  BY DEF Stands, Fed
<1>6. Len(bits) <= c.left + ByteBits * (x.src - c.src)
  BY <1>2, <1>5, Onwards
<1>7. x.src = d + Len(t.data) /\ CursorOK(x)
  BY <1>4 DEF Stands
<1>8. StreamOK(t) /\ Extends(t, s)
  BY <1>2, PutBitsOK
<1>9. Len(s.data) \in Nat /\ Len(t.data) \in Nat /\ Len(s.data) <= Len(t.data)
  BY <1>8, Longer
<1> HIDE DEF t, x
<1>10. /\ d \in Nat /\ hi \in Nat /\ d + hi <= Len(bytes) /\ Len(bytes) \in Nat
  BY DEF Fed
<1>11. c.left \in Nat /\ ByteBits \in Nat /\ c.src \in Nat /\ x.src \in Nat
  BY <1>5, <1>7, FormatAssumption DEF CursorOK
<1>12. /\ x.src - c.src \in Nat /\ Len(bytes) - c.src \in Nat
       /\ x.src - c.src <= Len(bytes) - c.src
  BY <1>3, <1>5, <1>7, <1>9, <1>10
<1>13. Carries(bytes, c, bits)
  <2> DEFINE near == x.src - c.src
             far == Len(bytes) - c.src
  <2> HIDE DEF near, far
  <2>1. near \in Nat /\ far \in Nat /\ near <= far
    BY <1>12 DEF near, far
  <2>2. near * ByteBits <= far * ByteBits
    BY <1>11, <2>1, ProductOrder
  <2>3. ByteBits * near = near * ByteBits /\ ByteBits * far = far * ByteBits
    BY <1>11, <2>1
  <2>4. ByteBits * near \in Nat /\ ByteBits * far \in Nat
    BY <1>11, <2>1
  <2>5. Len(bits) <= c.left + ByteBits * near
    BY <1>6 DEF near
  <2>6. PICK y, z : y = ByteBits * near /\ z = ByteBits * far
    OBVIOUS
  <2>7. y <= z /\ y \in Nat /\ z \in Nat /\ Len(bits) <= c.left + y
    BY <2>2, <2>3, <2>4, <2>5, <2>6
  <2>8. Len(bits) <= c.left + z /\ c.left + z \in Nat
    BY <1>2, <1>11, <2>7
  <2>9. Len(bits) <= c.left + ByteBits * far /\ c.left + ByteBits * far \in Nat
    BY <2>6, <2>8
  <2>10. QED
    BY <1>4, <2>9 DEF Carries, far
<1>14. CodeBits(bytes, c, short) = Len(bits)
  BY <1>1, <1>13, EndFound
<1>15. Number(bytes, c, short) = v
  BY <1>1, <1>13, NumberFound
<1>16. AfterNumber(bytes, c, short) = x
  BY <1>14 DEF AfterNumber, x
<1>17. QED
  BY <1>4, <1>15, <1>16 DEF t, bits

LEMMA PlainNumber ==
  ASSUME NEW bytes, NEW d, NEW full, NEW lo, NEW hi, Fed(bytes, d, full, lo, hi),
         NEW s, StreamOK(s), NEW v \in Encodable, Extends(full, PutBits(s, Code(v, 0))),
         NEW c, Stands(full, d, s, c), lo <= Len(s.data), Len(PutBits(s, Code(v, 0)).data) <= hi
  PROVE  /\ Number(bytes, c, FALSE) = v
         /\ Stands(full, d, PutBits(s, Code(v, 0)), AfterNumber(bytes, c, FALSE))
<1>1. Skips(FALSE) = 0
  BY DEF Skips
<1> DEFINE w == PutBits(s, Code(v, 0))
<1>2. PutBits(s, Code(v, Skips(FALSE))) = w
  BY <1>1
<1> HIDE DEF w
<1>3. /\ Extends(full, PutBits(s, Code(v, Skips(FALSE))))
      /\ Len(PutBits(s, Code(v, Skips(FALSE))).data) <= hi
  BY <1>2 DEF w
<1>4. FALSE \in BOOLEAN
  OBVIOUS
<1>5. /\ Number(bytes, c, FALSE) = v
      /\ Stands(full, d, PutBits(s, Code(v, Skips(FALSE))), AfterNumber(bytes, c, FALSE))
  BY <1>3, <1>4, NumberRead
<1>6. QED
  BY <1>2, <1>5 DEF w

LEMMA ShortNumber ==
  ASSUME NEW bytes, NEW d, NEW full, NEW lo, NEW hi, Fed(bytes, d, full, lo, hi),
         NEW s, StreamOK(s), NEW v \in Encodable, v >= 2, Extends(full, PutBits(s, Code(v, 1))),
         NEW c, Stands(full, d, s, c), lo <= Len(s.data), Len(PutBits(s, Code(v, 1)).data) <= hi
  PROVE  /\ Number(bytes, c, TRUE) = v
         /\ Stands(full, d, PutBits(s, Code(v, 1)), AfterNumber(bytes, c, TRUE))
<1>1. Skips(TRUE) = 1
  BY DEF Skips
<1> DEFINE w == PutBits(s, Code(v, 1))
<1>2. PutBits(s, Code(v, Skips(TRUE))) = w
  BY <1>1
<1> HIDE DEF w
<1>3. /\ Extends(full, PutBits(s, Code(v, Skips(TRUE))))
      /\ Len(PutBits(s, Code(v, Skips(TRUE))).data) <= hi
  BY <1>2 DEF w
<1>4. TRUE \in BOOLEAN
  OBVIOUS
<1>5. kc_floor_log2(v) # 0
  <2>1. v \in Nat \ {0} /\ v <= 2 ^ (2 * ByteBits)
    BY TwoBytes
  <2>2. v < 2 ^ (kc_floor_log2(v) + 1)
    BY <2>1, FloorLog
  <2>3. 2 ^ (0 + 1) = 2
    <3>1. 0 \in 0 .. 2 * ByteBits
      BY FormatAssumption
    <3>2. 2 ^ (0 + 1) = 2 * 2 ^ 0
      BY <3>1, PowerStep
    <3>3. QED
      BY <3>2, PowerZero
  <2>4. ASSUME kc_floor_log2(v) = 0
        PROVE  FALSE
    <3>1. 2 ^ (kc_floor_log2(v) + 1) = 2
      BY <2>3, <2>4
    <3>2. v < 2
      BY <2>2, <3>1
    <3>3. QED
      BY <2>1, <3>2
  <2>5. QED
    BY <2>4
<1>6. /\ Number(bytes, c, TRUE) = v
      /\ Stands(full, d, PutBits(s, Code(v, Skips(TRUE))), AfterNumber(bytes, c, TRUE))
  BY <1>3, <1>4, <1>5, NumberRead
<1>7. QED
  BY <1>2, <1>6 DEF w

(***************************************************************************)
(* The sizes of the streams in the midst of a command.                     *)
(***************************************************************************)
LEMMA OffsetSizes ==
  ASSUME NEW e, Explains(e), NEW r \in e.points, NEW len, NEW o, ByOffset(e, r, len, o),
         NEW hi \in Nat, Len(OffsetTo(e, r, len, o).s.data) <= hi
  PROVE  LET b == PutBit(r.s, 1)
             h == HighPart(r.s, High(o), e.format)
             m == Metadata(e, r, len, o)
         IN  /\ Len(r.s.data) <= Len(b.data) /\ Len(b.data) <= Len(h.data)
             /\ Len(h.data) <= Len(m.data)
             /\ Len(m.data) <= hi /\ Len(h.data) <= hi /\ Len(b.data) <= hi
             /\ Len(r.s.data) \in Nat /\ Len(b.data) \in Nat /\ Len(h.data) \in Nat
             /\ Len(m.data) \in Nat
             /\ ~e.format /\ High(o) # 0 => Len(PutBit(b, 0).data) <= hi
                                             /\ Len(PutBit(b, 0).data) \in Nat
                                             /\ Len(r.s.data) <= Len(PutBit(b, 0).data)
<1> DEFINE q == OffsetTo(e, r, len, o)
           b == PutBit(r.s, 1)
           h == HighPart(r.s, High(o), e.format)
           m == Metadata(e, r, len, o)
           z == PutBit(b, 0)
<1>1. /\ StreamOK(r.s) /\ o \in MIN_OFFSET .. MAX_OFFSET /\ Two(len) \in {0, 1}
      /\ StreamOK(b) /\ StreamOK(h) /\ StreamOK(m)
      /\ m = PutBytes(h, <<2 * Low(o) + Two(len)>>)
      /\ len = 2 => q.s = m
      /\ len # 2 => q.s = PutBits(m, Code(len - 1, 1))
      /\ ~e.format /\ High(o) # 0 => StreamOK(z)
  BY OffsetFacts
<1>2. High(o) \in Byte /\ 2 * Low(o) + Two(len) \in Byte
  BY <1>1, OffsetNumbers
<1>3. Extends(h, b) /\ (~e.format /\ High(o) # 0 => Extends(h, z))
  BY <1>1, <1>2, HighPartOK
<1>4. Extends(m, h)
  <2>1. <<2 * Low(o) + Two(len)>> \in Seq(Byte)
    BY <1>2
  <2> HIDE DEF m, h
  <2>2. QED
    BY <1>1, <2>1, PutBytesOK
<1>5. Len(q.s.data) <= hi
  OBVIOUS
<1> HIDE DEF q, h, m
<1>6. Extends(b, r.s) /\ (~e.format /\ High(o) # 0 => Extends(z, b))
  BY <1>1, ExtendsBit
<1> HIDE DEF b, z
<1>7. Len(m.data) \in Nat /\ Len(m.data) <= hi
  <2>1. CASE len = 2
    <3>1. Len(m.data) \in Nat
      BY <1>1 DEF StreamOK
    <3>2. QED
      BY <1>1, <1>5, <2>1, <3>1
  <2>2. CASE len # 2
    <3>1. StreamOK(q.s) /\ Extends(q.s, m)
      BY <1>1, <2>2, CodeOK
    <3>2. Len(m.data) \in Nat /\ Len(q.s.data) \in Nat /\ Len(m.data) <= Len(q.s.data)
      BY <1>1, <3>1, Longer
    <3>3. QED
      BY <1>5, <3>2
  <2>3. QED
    BY <2>1, <2>2
<1>8. Len(h.data) \in Nat /\ Len(h.data) <= Len(m.data)
  BY <1>1, <1>4, Longer
<1>9. Len(b.data) \in Nat /\ Len(b.data) <= Len(h.data)
  BY <1>1, <1>3, Longer
<1>10. Len(r.s.data) \in Nat /\ Len(r.s.data) <= Len(b.data)
  BY <1>1, <1>6, Longer
<1>11. ASSUME ~e.format /\ High(o) # 0
       PROVE  Len(z.data) \in Nat /\ Len(z.data) <= Len(h.data) /\ Len(b.data) <= Len(z.data)
  BY <1>1, <1>3, <1>6, <1>11, Longer
<1>12. Len(h.data) <= hi /\ Len(b.data) <= hi
  BY <1>7, <1>8, <1>9
<1>13. ASSUME ~e.format /\ High(o) # 0
       PROVE  Len(z.data) \in Nat /\ Len(z.data) <= hi /\ Len(r.s.data) <= Len(z.data)
  BY <1>9, <1>10, <1>11, <1>12, <1>13, <1>8
<1>14. QED
  BY <1>7, <1>8, <1>9, <1>10, <1>12, <1>13 DEF b, h, m, z

(***************************************************************************)
(* A match as ReadMatch finds it.                                          *)
(***************************************************************************)
LEMMA MatchAfterRead ==
  ASSUME NEW bytes, NEW d, NEW e, NEW lo, NEW hi, Fed(bytes, d, e.full, lo, hi),
         Explains(e), NEW r \in e.points, NEW len, NEW o, ByOffset(e, r, len, o),
         lo <= Len(r.s.data), Len(OffsetTo(e, r, len, o).s.data) <= hi,
         NEW c, Stands(e.full, d, HighPart(r.s, High(o), e.format), c)
  PROVE  /\ MatchAfter(bytes, c, High(o)).m = [length |-> len, offset |-> o]
         /\ Stands(e.full, d, OffsetTo(e, r, len, o).s, MatchAfter(bytes, c, High(o)).next)
<1> DEFINE q == OffsetTo(e, r, len, o)
           h == HighPart(r.s, High(o), e.format)
           m == Metadata(e, r, len, o)
           meta == 2 * Low(o) + Two(len)
           rest == AfterBytes(c, 1)
<1>1. /\ o \in MIN_OFFSET .. MAX_OFFSET /\ Two(len) \in {0, 1}
      /\ StreamOK(h) /\ StreamOK(m) /\ Extends(e.full, m) /\ Extends(e.full, q.s)
      /\ m = PutBytes(h, <<meta>>)
      /\ len = 2 => q.s = m
      /\ len # 2 => q.s = PutBits(m, Code(len - 1, 1)) /\ len - 1 \in Encodable
      /\ len \in 2 .. MAX_VARLEN
  BY OffsetFacts
<1>2. meta \in Byte /\ meta \div 2 = Low(o) /\ meta % 2 = Two(len)
      /\ High(o) * LowOffsets + Low(o) + 1 = o
  BY <1>1, OffsetNumbers
<1>3. hi \in Nat /\ lo \in Nat
  BY DEF Fed
<1>4. /\ lo <= Len(h.data) /\ lo <= Len(m.data) /\ Len(m.data) <= hi
  <2>1. /\ Len(r.s.data) <= Len(PutBit(r.s, 1).data) /\ Len(PutBit(r.s, 1).data) <= Len(h.data)
        /\ Len(h.data) <= Len(m.data) /\ Len(m.data) <= hi
        /\ Len(r.s.data) \in Nat /\ Len(PutBit(r.s, 1).data) \in Nat /\ Len(h.data) \in Nat
        /\ Len(m.data) \in Nat
    BY <1>3, OffsetSizes
  <2> HIDE DEF h, m
  <2>2. QED
    BY <1>3, <2>1
<1>5. Len(q.s.data) <= hi
  OBVIOUS
<1>6. Stands(e.full, d, h, c)
  OBVIOUS
<1> HIDE DEF q, h, m, meta
<1>7. <<meta>> \in Seq(Byte) /\ Len(<<meta>>) = 1 /\ <<meta>>[1] = meta
  BY <1>2
<1>8. ByteAt(bytes, c.src) = meta /\ Stands(e.full, d, m, rest)
  <2> DEFINE raw == <<meta>>
  <2>1. raw \in Seq(Byte) /\ Len(raw) = 1 /\ raw[1] = meta /\ m = PutBytes(h, raw)
    BY <1>1, <1>7
  <2> HIDE DEF raw
  <2>2. Extends(e.full, PutBytes(h, raw)) /\ Len(PutBytes(h, raw).data) <= hi
    BY <1>1, <1>4, <2>1
  <2>3. /\ \A k \in 0 .. Len(raw) - 1 : ByteAt(bytes, c.src + k) = raw[k + 1]
        /\ Stands(e.full, d, PutBytes(h, raw), AfterBytes(c, Len(raw)))
    <3>1. /\ Fed(bytes, d, e.full, lo, hi) /\ StreamOK(h) /\ raw \in Seq(Byte)
          /\ Extends(e.full, PutBytes(h, raw)) /\ Stands(e.full, d, h, c)
          /\ lo <= Len(h.data) /\ Len(PutBytes(h, raw).data) <= hi
      BY <1>1, <1>4, <1>6, <2>1, <2>2
    <3>2. QED
      BY <3>1, BytesThere
  <2>4. ByteAt(bytes, c.src + 0) = raw[0 + 1]
    BY <2>1, <2>3
  <2>5. c.src + 0 = c.src
    BY <1>6 DEF Stands, CursorOK
  <2>6. QED
    BY <2>1, <2>3, <2>4, <2>5
<1>9. LET M == MatchAfter(bytes, c, High(o))
      IN  /\ meta % 2 = 1 => M = [m |-> [length |-> 2, offset |-> o], next |-> rest]
          /\ meta % 2 # 1 => M = [m |-> [length |-> Number(bytes, rest, TRUE) + 1, offset |-> o],
                                  next |-> AfterNumber(bytes, rest, TRUE)]
  BY <1>2, <1>8 DEF MatchAfter
<1>10. CASE len = 2
  <2>1. meta % 2 = 1
    BY <1>2, <1>10 DEF Two
  <2>2. QED
    BY <1>1, <1>8, <1>9, <1>10, <2>1 DEF q
<1>11. CASE len # 2
  <2>1. meta % 2 # 1
    BY <1>2, <1>11 DEF Two
  <2>2. len - 1 \in Encodable /\ len - 1 >= 2 /\ (len - 1) + 1 = len
    BY <1>1, <1>11, LengthRange
  <2>3. q.s = PutBits(m, Code(len - 1, 1))
    BY <1>1, <1>11
  <2>4. Extends(e.full, PutBits(m, Code(len - 1, 1))) /\ Len(PutBits(m, Code(len - 1, 1)).data) <= hi
    BY <1>1, <1>5, <2>3
  <2>5. /\ Number(bytes, rest, TRUE) = len - 1
        /\ Stands(e.full, d, PutBits(m, Code(len - 1, 1)), AfterNumber(bytes, rest, TRUE))
    <3> HIDE DEF rest
    <3> DEFINE v == len - 1
    <3>1. v \in Encodable /\ v >= 2
      BY <2>2
    <3>2. Extends(e.full, PutBits(m, Code(v, 1))) /\ Len(PutBits(m, Code(v, 1)).data) <= hi
      BY <2>4
    <3> HIDE DEF v
    <3>3. /\ Number(bytes, rest, TRUE) = v
          /\ Stands(e.full, d, PutBits(m, Code(v, 1)), AfterNumber(bytes, rest, TRUE))
      <4>1. /\ Fed(bytes, d, e.full, lo, hi) /\ StreamOK(m) /\ v \in Encodable /\ v >= 2
            /\ Extends(e.full, PutBits(m, Code(v, 1))) /\ Stands(e.full, d, m, rest)
            /\ lo <= Len(m.data) /\ Len(PutBits(m, Code(v, 1)).data) <= hi
        BY <1>1, <1>4, <1>8, <3>1, <3>2
      <4>2. QED
        BY <4>1, ShortNumber
    <3>4. QED
      BY <3>3 DEF v
  <2>6. /\ MatchAfter(bytes, c, High(o)).m = [length |-> Number(bytes, rest, TRUE) + 1, offset |-> o]
        /\ MatchAfter(bytes, c, High(o)).next = AfterNumber(bytes, rest, TRUE)
    <3> DEFINE M == MatchAfter(bytes, c, High(o))
               nn == Number(bytes, rest, TRUE) + 1
               after == AfterNumber(bytes, rest, TRUE)
    <3>1. M = [m |-> [length |-> nn, offset |-> o], next |-> after]
      BY <1>9, <2>1
    <3> HIDE DEF M, nn, after
    <3>2. M.m = [length |-> nn, offset |-> o] /\ M.next = after
      BY <3>1
    <3>3. QED
      BY <3>2 DEF M, nn, after
  <2> HIDE DEF rest
  <2>7. Number(bytes, rest, TRUE) + 1 = len
    BY <2>2, <2>5
  <2>8. MatchAfter(bytes, c, High(o)).m = [length |-> len, offset |-> o]
    BY <2>6, <2>7
  <2>9. Stands(e.full, d, q.s, MatchAfter(bytes, c, High(o)).next)
    BY <2>3, <2>5, <2>6
  <2>10. QED
    BY <2>8, <2>9 DEF q
<1>12. QED
  BY <1>10, <1>11

LEMMA MatchRead ==
  ASSUME NEW bytes, NEW d, NEW e, NEW lo, NEW hi, Fed(bytes, d, e.full, lo, hi),
         Explains(e), dali = e.format, NEW r \in e.points, NEW len, NEW o, ByOffset(e, r, len, o),
         lo <= Len(r.s.data), Len(OffsetTo(e, r, len, o).s.data) <= hi,
         NEW c, Stands(e.full, d, PutBit(r.s, 1), c)
  PROVE  /\ ReadMatch(bytes, c).m = [length |-> len, offset |-> o]
         /\ Stands(e.full, d, OffsetTo(e, r, len, o).s, ReadMatch(bytes, c).next)
<1> DEFINE b == PutBit(r.s, 1)
           h == HighPart(r.s, High(o), e.format)
           z == PutBit(b, 0)
<1>1. /\ o \in MIN_OFFSET .. MAX_OFFSET /\ StreamOK(b) /\ StreamOK(h) /\ Extends(e.full, h)
      /\ ~e.format /\ High(o) # 0 => StreamOK(z) /\ Extends(e.full, z)
  BY OffsetFacts
<1>2. High(o) \in Byte /\ High(o) \in Nat /\ High(o) + 1 \in 1 .. EodHigh - 1
      /\ High(o) + 1 \in Encodable
  <2>1. 0 \in {0, 1}
    OBVIOUS
  <2>2. QED
    BY <1>1, <2>1, OffsetNumbers
<1>3. hi \in Nat /\ lo \in Nat
  BY DEF Fed
<1>4. /\ lo <= Len(b.data) /\ Len(h.data) <= hi /\ Len(b.data) <= hi
      /\ ~e.format /\ High(o) # 0 => Len(z.data) <= hi /\ lo <= Len(z.data)
  <2>1. /\ Len(r.s.data) <= Len(b.data) /\ Len(h.data) <= hi /\ Len(b.data) <= hi
        /\ Len(r.s.data) \in Nat /\ Len(b.data) \in Nat
        /\ ~e.format /\ High(o) # 0 => Len(z.data) <= hi /\ Len(z.data) \in Nat
                                       /\ Len(r.s.data) <= Len(z.data)
    BY <1>3, OffsetSizes
  <2> HIDE DEF b, h, z
  <2>2. QED
    BY <1>3, <2>1
<1>5. Stands(e.full, d, b, c)
  OBVIOUS
<1>6. e.format => h = PutBits(b, Code(High(o) + 1, 0))
  BY DEF HighPart
<1>7. ~e.format => h = IF High(o) = 0 THEN PutBit(b, 1) ELSE PutBytes(z, <<High(o)>>)
  BY DEF HighPart
<1>8. ASSUME NEW x, Stands(e.full, d, h, x), ReadMatch(bytes, c) = MatchAfter(bytes, x, High(o))
      PROVE  /\ ReadMatch(bytes, c).m = [length |-> len, offset |-> o]
             /\ Stands(e.full, d, OffsetTo(e, r, len, o).s, ReadMatch(bytes, c).next)
  <2>1. /\ MatchAfter(bytes, x, High(o)).m = [length |-> len, offset |-> o]
        /\ Stands(e.full, d, OffsetTo(e, r, len, o).s, MatchAfter(bytes, x, High(o)).next)
    BY <1>8, MatchAfterRead
  <2>2. QED
    BY <1>8, <2>1
<1> HIDE DEF b, h, z
<1>9. CASE e.format
  <2> DEFINE v == High(o) + 1
             x == AfterNumber(bytes, c, FALSE)
  <2>1. v \in Encodable /\ v # EodHigh /\ v - 1 = High(o)
    BY <1>2
  <2>2. h = PutBits(b, Code(v, 0))
    BY <1>6, <1>9
  <2> HIDE DEF v
  <2>3. Number(bytes, c, FALSE) = v /\ Stands(e.full, d, PutBits(b, Code(v, 0)), x)
    BY <1>1, <1>4, <1>5, <2>1, <2>2, PlainNumber
  <2>4. ReadMatch(bytes, c) = MatchAfter(bytes, x, High(o))
    BY <1>9, <2>1, <2>3 DEF ReadMatch
  <2> HIDE DEF x
  <2>5. QED
    BY <1>8, <2>2, <2>3, <2>4
<1>10. CASE ~e.format /\ High(o) = 0
  <2> DEFINE x == AfterBits(bytes, c, 1)
  <2>1. h = PutBit(b, 1)
    BY <1>7, <1>10
  <2>2. BitAt(bytes, c, 1) = 1 /\ Stands(e.full, d, h, x)
    <3>1. 1 \in {0, 1}
      OBVIOUS
    <3>2. Extends(e.full, PutBit(b, 1)) /\ Len(PutBit(b, 1).data) <= hi
      BY <1>1, <1>4, <2>1
    <3>3. BitAt(bytes, c, 1) = 1 /\ Stands(e.full, d, PutBit(b, 1), x)
      BY <1>1, <1>4, <1>5, <3>1, <3>2, OneBit
    <3>4. QED
      BY <2>1, <3>3
  <2>3. ReadMatch(bytes, c) = MatchAfter(bytes, x, High(o))
    BY <1>10, <2>2 DEF ReadMatch
  <2> HIDE DEF x
  <2>4. QED
    BY <1>8, <2>2, <2>3
<1>11. CASE ~e.format /\ High(o) # 0
  <2> DEFINE y == AfterBits(bytes, c, 1)
             x == AfterBytes(y, 1)
             raw == <<High(o)>>
  <2>1. raw \in Seq(Byte) /\ Len(raw) = 1 /\ raw[1] = High(o) /\ h = PutBytes(z, raw)
    BY <1>2, <1>7, <1>11
  <2> HIDE DEF raw
  <2>2. BitAt(bytes, c, 1) = 0 /\ Stands(e.full, d, z, y)
    <3>1. 0 \in {0, 1}
      OBVIOUS
    <3>2. Extends(e.full, PutBit(b, 0)) /\ Len(PutBit(b, 0).data) <= hi
      BY <1>1, <1>4, <1>11 DEF z
    <3>3. BitAt(bytes, c, 1) = 0 /\ Stands(e.full, d, PutBit(b, 0), y)
      BY <1>1, <1>4, <1>5, <3>1, <3>2, OneBit
    <3>4. QED
      BY <3>3 DEF z
  <2> HIDE DEF y
  <2>3. Extends(e.full, PutBytes(z, raw)) /\ Len(PutBytes(z, raw).data) <= hi
    BY <1>1, <1>4, <2>1
  <2>4. /\ \A k \in 0 .. Len(raw) - 1 : ByteAt(bytes, y.src + k) = raw[k + 1]
        /\ Stands(e.full, d, PutBytes(z, raw), AfterBytes(y, Len(raw)))
    <3>1. /\ Fed(bytes, d, e.full, lo, hi) /\ StreamOK(z) /\ raw \in Seq(Byte)
          /\ Extends(e.full, PutBytes(z, raw)) /\ Stands(e.full, d, z, y)
          /\ lo <= Len(z.data) /\ Len(PutBytes(z, raw).data) <= hi
      BY <1>1, <1>4, <1>11, <2>1, <2>2, <2>3
    <3>2. QED
      BY <3>1, BytesThere
  <2>5. ByteAt(bytes, y.src) = High(o)
    <3>1. ByteAt(bytes, y.src + 0) = raw[0 + 1]
      BY <2>1, <2>4
    <3>2. y.src + 0 = y.src
      BY <2>2 DEF Stands, CursorOK
    <3>3. QED
      BY <2>1, <3>1, <3>2
  <2>6. Stands(e.full, d, h, x)
    BY <2>1, <2>4
  <2>7. ReadMatch(bytes, c) = MatchAfter(bytes, x, High(o))
    BY <1>11, <2>2, <2>5 DEF ReadMatch, y
  <2> HIDE DEF x
  <2>8. QED
    BY <1>8, <2>6, <2>7
<1>12. QED
  BY <1>9, <1>10, <1>11

(***************************************************************************)
(* The commands as the adjustment and the decoder read them.               *)
(***************************************************************************)
LEMMA RawInPlace ==
  ASSUME NEW s, StreamOK(s), NEW raw \in Seq(Byte), NEW full, Extends(full, PutBytes(s, raw))
  PROVE  \A k \in 1 .. Len(raw) : full.data[Len(s.data) + k] = raw[k]
<1> DEFINE t == PutBytes(s, raw)
<1>1. /\ StreamOK(t) /\ t.bits_offset = s.bits_offset /\ t.bit_shift = s.bit_shift
      /\ Len(t.data) = Len(s.data) + Len(raw)
      /\ \A k \in 1 .. Len(raw) : t.data[Len(s.data) + k] = raw[k]
  BY PutBytesOK
<1>2. Len(s.data) \in Nat /\ Len(raw) \in Nat
  BY DEF StreamOK
<1>3. OpenPlace(t) <= Len(s.data) /\ OpenPlace(t) \in Nat
  BY <1>1, <1>2, SMTT(30) DEF StreamOK, FreeAreZero, OpenPlace, Place
<1> HIDE DEF t
<1>4. ASSUME NEW k \in 1 .. Len(raw)
      PROVE  full.data[Len(s.data) + k] = raw[k]
  <2>1. Len(t.data) = Len(s.data) + Len(raw)
    BY <1>1
  <2>2. Len(s.data) + k \in 1 .. Len(t.data) /\ Len(s.data) + k # OpenPlace(t)
    BY <1>2, <1>3, <2>1
  <2>3. full.data[Len(s.data) + k] = t.data[Len(s.data) + k]
    BY <2>2 DEF Extends, t
  <2>4. QED
    BY <1>1, <2>3
<1>5. QED
  BY <1>4

LEMMA LiteralsSizes ==
  ASSUME NEW e, Explains(e), NEW r \in e.points, NEW len, ByLiterals(e, r, len)
  PROVE  LET run == PutBits(Base(r), Code(len, 0))
             q   == LiteralsTo(e, r, len)
         IN  /\ Len(r.s.data) \in Nat /\ Len(Base(r).data) \in Nat /\ Len(run.data) \in Nat
             /\ Len(r.s.data) <= Len(Base(r).data) /\ Len(Base(r).data) <= Len(run.data)
             /\ Len(q.s.data) = Len(run.data) + len /\ len \in Nat /\ len >= 1
             /\ \A j \in 1 .. len : e.full.data[Len(run.data) + j] = e.text[r.n + j]
<1> DEFINE q == LiteralsTo(e, r, len)
           b == Base(r)
           x == PutBits(b, Code(len, 0))
           raw == SubSeq(e.text, r.n + 1, r.n + len)
<1>1. /\ StreamOK(b) /\ StreamOK(x) /\ q.s = PutBytes(x, raw) /\ Extends(e.full, q.s)
      /\ raw \in Seq(Byte) /\ Len(raw) = len /\ len \in 1 .. MAX_VARLEN
  BY LiteralsFacts
<1>2. PointOK(e, r) /\ e.text \in Seq(Byte) /\ len \in 1 .. Len(e.text) - r.n
  BY DEF Explains, TextOK, ByLiterals
<1>3. StreamOK(r.s) /\ r.n \in Nat /\ len \in Nat /\ len >= 1 /\ r.n + len <= Len(e.text)
  BY <1>2 DEF PointOK
<1>4. \A j \in 1 .. len : raw[j] = e.text[r.n + j]
  <2>1. r.n + 1 \in Nat /\ Len(e.text) \in Nat
    BY <1>2, <1>3
  <2>2. ASSUME NEW j \in 1 .. len
        PROVE  raw[j] = e.text[r.n + j]
    <3> DEFINE from == r.n + 1
               to == r.n + len
    <3>1. /\ e.text \in Seq(Byte) /\ from \in 1 .. Len(e.text) + 1 /\ to \in 0 .. Len(e.text)
          /\ to - from + 1 = len
      BY <1>2, <1>3, <2>1
    <3> HIDE DEF from, to
    <3>4. SubSeq(e.text, from, to)[j] = e.text[from + j - 1]
      BY <3>1
    <3>5. raw[j] = e.text[(r.n + 1) + j - 1]
      BY <3>4 DEF from, to
    <3>2. (r.n + 1) + j - 1 = r.n + j
      BY <1>3
    <3>3. QED
      BY <3>2, <3>5
  <2>3. QED
    BY <2>2
<1>5. Len(r.s.data) \in Nat /\ Len(b.data) \in Nat /\ Len(r.s.data) <= Len(b.data)
  <2>1. b = r.s \/ b = PutBit(r.s, 0)
    BY DEF Base
  <2>2. Extends(b, r.s)
    <3>1. CASE b = r.s
      <4> HIDE DEF b
      <4>1. QED
        BY <1>3, <3>1, ExtendsItself
    <3>2. CASE b = PutBit(r.s, 0)
      <4>1. 0 \in {0, 1}
        OBVIOUS
      <4>2. Extends(PutBit(r.s, 0), r.s)
        BY <1>3, <4>1, ExtendsBit
      <4> HIDE DEF b
      <4>3. QED
        BY <3>2, <4>2
    <3> HIDE DEF b
    <3>3. QED
      BY <2>1, <3>1, <3>2
  <2> HIDE DEF b
  <2>3. QED
    BY <1>1, <1>3, <2>2, Longer
<1> HIDE DEF q, b, raw
<1>6. Len(x.data) \in Nat /\ Len(b.data) <= Len(x.data)
  <2>1. 0 \in {0, 1}
    OBVIOUS
  <2>2. Extends(x, b)
    BY <1>1, <2>1, CodeOK
  <2> HIDE DEF x
  <2>3. QED
    BY <1>1, <2>2, Longer
<1> HIDE DEF x
<1>7. Len(q.s.data) = Len(x.data) + len
  <2>1. Len(PutBytes(x, raw).data) = Len(x.data) + Len(raw)
    BY <1>1, PutBytesOK
  <2>2. QED
    BY <1>1, <2>1
<1>8. ASSUME NEW j \in 1 .. len
      PROVE  e.full.data[Len(x.data) + j] = e.text[r.n + j]
  <2>1. StreamOK(x) /\ raw \in Seq(Byte) /\ Extends(e.full, PutBytes(x, raw))
    BY <1>1
  <2>2. \A k \in 1 .. Len(raw) : e.full.data[Len(x.data) + k] = raw[k]
    BY <2>1, RawInPlace
  <2>3. QED
    BY <1>1, <1>4, <2>2
<1>9. QED
  BY <1>3, <1>5, <1>6, <1>7, <1>8 DEF q, x, b

LEMMA LiteralsRead ==
  ASSUME NEW bytes, NEW d, NEW e, NEW lo, NEW hi, Fed(bytes, d, e.full, lo, hi),
         Explains(e), NEW r \in e.points, NEW len, ByLiterals(e, r, len),
         lo <= Len(Base(r).data), Len(LiteralsTo(e, r, len).s.data) <= hi,
         NEW c, Stands(e.full, d, Base(r), c)
  PROVE  LET x == AfterNumber(bytes, c, FALSE)
         IN  /\ Number(bytes, c, FALSE) = len
             /\ Stands(e.full, d, PutBits(Base(r), Code(len, 0)), x)
             /\ Stands(e.full, d, LiteralsTo(e, r, len).s, AfterBytes(x, len))
<1> DEFINE q == LiteralsTo(e, r, len)
           b == Base(r)
           run == PutBits(b, Code(len, 0))
           raw == SubSeq(e.text, r.n + 1, r.n + len)
           x == AfterNumber(bytes, c, FALSE)
<1>1. /\ StreamOK(b) /\ StreamOK(run) /\ q.s = PutBytes(run, raw) /\ Extends(e.full, q.s)
      /\ Extends(e.full, run) /\ raw \in Seq(Byte) /\ Len(raw) = len /\ len \in Encodable
  BY LiteralsFacts
<1>2. /\ Len(b.data) \in Nat /\ Len(run.data) \in Nat
      /\ Len(b.data) <= Len(run.data) /\ Len(q.s.data) = Len(run.data) + len
      /\ len \in Nat /\ len >= 1
  BY LiteralsSizes
<1>3. lo <= Len(b.data) /\ Len(q.s.data) <= hi /\ Stands(e.full, d, b, c)
  OBVIOUS
<1>4. lo \in Nat /\ hi \in Nat
  BY DEF Fed
<1> HIDE DEF q, b, raw
<1>5. Number(bytes, c, FALSE) = len /\ Stands(e.full, d, run, x)
  <2>1. Len(run.data) <= hi
    <3> HIDE DEF run
    <3>1. QED
      BY <1>2, <1>3, <1>4
  <2>2. /\ Fed(bytes, d, e.full, lo, hi) /\ StreamOK(b) /\ len \in Encodable
        /\ Extends(e.full, PutBits(b, Code(len, 0))) /\ Stands(e.full, d, b, c)
        /\ lo <= Len(b.data) /\ Len(PutBits(b, Code(len, 0)).data) <= hi
    BY <1>1, <1>3, <2>1
  <2>3. QED
    BY <2>2, PlainNumber
<1> HIDE DEF run, x
<1>6. Stands(e.full, d, q.s, AfterBytes(x, len))
  <2>1. lo <= Len(run.data)
    BY <1>2, <1>3, <1>4
  <2>2. /\ Fed(bytes, d, e.full, lo, hi) /\ StreamOK(run) /\ raw \in Seq(Byte)
        /\ Extends(e.full, PutBytes(run, raw)) /\ Stands(e.full, d, run, x)
        /\ lo <= Len(run.data) /\ Len(PutBytes(run, raw).data) <= hi
    BY <1>1, <1>3, <1>5, <2>1
  <2>3. Stands(e.full, d, PutBytes(run, raw), AfterBytes(x, Len(raw)))
    BY <2>2, BytesThere
  <2>4. QED
    BY <1>1, <2>3
<1>7. QED
  BY <1>5, <1>6 DEF q, b, run, x

(* After a match a 0 says that literals follow. *)
LEMMA GoOnRead ==
  ASSUME NEW bytes, NEW d, NEW e, NEW lo, NEW hi, Fed(bytes, d, e.full, lo, hi),
         Explains(e), NEW r \in e.points, NEW len, ByLiterals(e, r, len), r.state # 0,
         lo <= Len(r.s.data), Len(LiteralsTo(e, r, len).s.data) <= hi,
         NEW c, Stands(e.full, d, r.s, c)
  PROVE  BitAt(bytes, c, 1) = 0 /\ Stands(e.full, d, Base(r), AfterBits(bytes, c, 1))
<1> DEFINE b == PutBit(r.s, 0)
<1>1. Base(r) = b
  BY DEF Base
<1> HIDE DEF b
<1>2. Extends(e.full, b)
  BY <1>1, LiteralsFacts
<1>3. Len(b.data) <= hi
  <2>1. LET run == PutBits(Base(r), Code(len, 0))
        IN  /\ Len(Base(r).data) \in Nat /\ Len(run.data) \in Nat
            /\ Len(Base(r).data) <= Len(run.data)
            /\ Len(LiteralsTo(e, r, len).s.data) = Len(run.data) + len /\ len \in Nat
    BY LiteralsSizes
  <2>2. PICK l, y, z : l = Len(Base(r).data) /\ y = Len(PutBits(Base(r), Code(len, 0)).data)
                       /\ z = Len(LiteralsTo(e, r, len).s.data)
    OBVIOUS
  <2>3. l \in Nat /\ y \in Nat /\ len \in Nat /\ l <= y /\ z = y + len /\ z <= hi /\ hi \in Nat
    BY <2>1, <2>2 DEF Fed
  <2>4. l <= hi
    BY <2>3
  <2>5. QED
    BY <1>1, <2>2, <2>4
<1>4. StreamOK(r.s) /\ 0 \in {0, 1}
  BY DEF Explains, PointOK
<1>5. BitAt(bytes, c, 1) = 0 /\ Stands(e.full, d, PutBit(r.s, 0), AfterBits(bytes, c, 1))
  <2>1. Extends(e.full, PutBit(r.s, 0)) /\ Len(PutBit(r.s, 0).data) <= hi
    BY <1>2, <1>3 DEF b
  <2>2. QED
    BY <1>4, <2>1, OneBit
<1>6. QED
  BY <1>1, <1>5 DEF b

LEMMA RepeatSizes ==
  ASSUME NEW e, Explains(e), NEW r \in e.points, NEW len, ByRepeat(e, r, len)
  PROVE  LET b == PutBit(r.s, 0)
             q == RepeatTo(e, r, len)
         IN  /\ Len(r.s.data) \in Nat /\ Len(b.data) \in Nat /\ Len(q.s.data) \in Nat
             /\ Len(r.s.data) <= Len(b.data) /\ Len(b.data) <= Len(q.s.data)
<1> DEFINE b == PutBit(r.s, 0)
           q == RepeatTo(e, r, len)
<1>1. StreamOK(b) /\ q \in e.points /\ q.s = PutBits(b, Code(len, 0))
  BY RepeatFacts
<1>2. StreamOK(r.s) /\ 0 \in {0, 1}
  BY DEF Explains, PointOK
<1>3. Extends(b, r.s)
  BY <1>2, ExtendsBit
<1> HIDE DEF b, q
<1>4. StreamOK(q.s) /\ Extends(q.s, b)
  BY <1>1, <1>2, CodeOK
<1>5. Len(r.s.data) \in Nat /\ Len(b.data) \in Nat /\ Len(r.s.data) <= Len(b.data)
  BY <1>1, <1>2, <1>3, Longer
<1>6. Len(q.s.data) \in Nat /\ Len(b.data) <= Len(q.s.data)
  BY <1>1, <1>4, Longer
<1>7. QED
  BY <1>5, <1>6 DEF b, q

LEMMA RepeatRead ==
  ASSUME NEW bytes, NEW d, NEW e, NEW lo, NEW hi, Fed(bytes, d, e.full, lo, hi),
         Explains(e), NEW r \in e.points, NEW len, ByRepeat(e, r, len),
         lo <= Len(r.s.data), Len(RepeatTo(e, r, len).s.data) <= hi,
         NEW c, Stands(e.full, d, r.s, c)
  PROVE  LET rest == AfterBits(bytes, c, 1)
         IN  /\ BitAt(bytes, c, 1) = 0 /\ Number(bytes, rest, FALSE) = len
             /\ Stands(e.full, d, RepeatTo(e, r, len).s, AfterNumber(bytes, rest, FALSE))
<1> DEFINE b == PutBit(r.s, 0)
           q == RepeatTo(e, r, len)
           rest == AfterBits(bytes, c, 1)
<1>1. /\ StreamOK(b) /\ Extends(e.full, b) /\ q.s = PutBits(b, Code(len, 0))
      /\ Extends(e.full, q.s) /\ len \in Encodable
  BY RepeatFacts
<1>2. /\ Len(r.s.data) \in Nat /\ Len(b.data) \in Nat /\ Len(q.s.data) \in Nat
      /\ Len(r.s.data) <= Len(b.data) /\ Len(b.data) <= Len(q.s.data)
  BY RepeatSizes
<1>3. lo \in Nat /\ hi \in Nat /\ lo <= Len(r.s.data) /\ Len(q.s.data) <= hi
  BY DEF Fed
<1>4. StreamOK(r.s) /\ 0 \in {0, 1}
  BY DEF Explains, PointOK
<1> HIDE DEF q
<1>5. Len(b.data) <= hi /\ lo <= Len(b.data)
  <2> HIDE DEF b
  <2>1. QED
    BY <1>2, <1>3
<1>6. BitAt(bytes, c, 1) = 0 /\ Stands(e.full, d, b, rest)
  BY <1>1, <1>4, <1>5, OneBit
<1> HIDE DEF b, rest
<1>7. Number(bytes, rest, FALSE) = len /\ Stands(e.full, d, q.s, AfterNumber(bytes, rest, FALSE))
  <2>1. /\ Fed(bytes, d, e.full, lo, hi) /\ StreamOK(b) /\ len \in Encodable
        /\ Extends(e.full, PutBits(b, Code(len, 0))) /\ Stands(e.full, d, b, rest)
        /\ lo <= Len(b.data) /\ Len(PutBits(b, Code(len, 0)).data) <= hi
    BY <1>1, <1>3, <1>5, <1>6
  <2>2. /\ Number(bytes, rest, FALSE) = len
        /\ Stands(e.full, d, PutBits(b, Code(len, 0)), AfterNumber(bytes, rest, FALSE))
    BY <2>1, PlainNumber
  <2>3. QED
    BY <1>1, <2>2
<1>8. QED
  BY <1>6, <1>7 DEF q, rest

LEMMA OffsetGrows ==
  ASSUME NEW e, Explains(e), NEW r \in e.points, NEW len, NEW o, ByOffset(e, r, len, o)
  PROVE  LET q == OffsetTo(e, r, len, o)
         IN  Len(r.s.data) \in Nat /\ Len(q.s.data) \in Nat /\ Len(r.s.data) <= Len(q.s.data)
<1> DEFINE q == OffsetTo(e, r, len, o)
           hi == Len(q.s.data)
           m == Metadata(e, r, len, o)
           h == HighPart(r.s, High(o), e.format)
           b == PutBit(r.s, 1)
<1>1. q \in e.points
  BY DEF ByOffset
<1>2. StreamOK(q.s)
  <2> HIDE DEF q
  <2>1. QED
    BY <1>1 DEF Explains, PointOK
<1>3. hi \in Nat /\ Len(OffsetTo(e, r, len, o).s.data) <= hi
  <2>1. hi \in Nat
    BY <1>2 DEF StreamOK
  <2>2. hi <= hi
    BY <2>1
  <2>3. QED
    BY <2>1, <2>2
<1>4. /\ Len(r.s.data) <= Len(b.data) /\ Len(b.data) <= Len(h.data)
      /\ Len(h.data) <= Len(m.data) /\ Len(m.data) <= hi
      /\ Len(r.s.data) \in Nat /\ Len(b.data) \in Nat /\ Len(h.data) \in Nat
      /\ Len(m.data) \in Nat
  <2> HIDE DEF hi
  <2>1. QED
    BY <1>3, OffsetSizes
<1> HIDE DEF m, h, b, hi
<1>5. Len(r.s.data) <= hi
  BY <1>3, <1>4
<1>6. QED
  BY <1>3, <1>4, <1>5 DEF hi

LEMMA OffsetRead ==
  ASSUME NEW bytes, NEW d, NEW e, NEW lo, NEW hi, Fed(bytes, d, e.full, lo, hi),
         Explains(e), dali = e.format, NEW r \in e.points, NEW len, NEW o, ByOffset(e, r, len, o),
         lo <= Len(r.s.data), Len(OffsetTo(e, r, len, o).s.data) <= hi,
         NEW c, Stands(e.full, d, r.s, c)
  PROVE  LET rest == AfterBits(bytes, c, 1)
         IN  /\ BitAt(bytes, c, 1) = 1
             /\ ReadMatch(bytes, rest).m = [length |-> len, offset |-> o]
             /\ ReadMatch(bytes, rest).m # EndMark
             /\ Stands(e.full, d, OffsetTo(e, r, len, o).s, ReadMatch(bytes, rest).next)
<1> DEFINE b == PutBit(r.s, 1)
           rest == AfterBits(bytes, c, 1)
<1>1. Extends(e.full, b) /\ len \in 2 .. MAX_VARLEN
  BY OffsetFacts
<1>2. hi \in Nat
  BY DEF Fed
<1>3. Len(b.data) <= hi
  BY <1>2, OffsetSizes
<1>4. StreamOK(r.s) /\ 1 \in {0, 1}
  BY DEF Explains, PointOK
<1>5. BitAt(bytes, c, 1) = 1 /\ Stands(e.full, d, b, rest)
  BY <1>1, <1>3, <1>4, OneBit
<1> HIDE DEF rest
<1>6. /\ ReadMatch(bytes, rest).m = [length |-> len, offset |-> o]
      /\ Stands(e.full, d, OffsetTo(e, r, len, o).s, ReadMatch(bytes, rest).next)
  BY <1>5, MatchRead
<1>7. [length |-> len, offset |-> o] # EndMark
  <2>1. len # 0
    BY <1>1
  <2>2. QED
    BY <2>1 DEF EndMark
<1>8. QED
  BY <1>5, <1>6, <1>7 DEF rest

(***************************************************************************)
(* The end mark.  Dali's takes a bit of the open control byte, the only    *)
(* one that is free or one of an odd number; in the first case the closing *)
(* one is alone in the third byte, in the others a zero of the code is in  *)
(* the top bit of the second.                                              *)
(***************************************************************************)
LEMMA EodBits ==
  /\ kc_floor_log2(EodHigh) = ByteBits /\ EodHigh \in Encodable
  /\ Code(EodHigh, 0) \in Seq({0, 1}) /\ Len(Code(EodHigh, 0)) = 2 * ByteBits + 1
  /\ \A j \in 0 .. ByteBits - 1 : Code(EodHigh, 0)[2 * j + 1] = 0
<1>1. ByteBits \in Nat /\ ByteBits \in 0 .. 2 * ByteBits /\ EodHigh \in Nat
  BY FormatAssumption DEF EodHigh
<1>2. kc_floor_log2(EodHigh) = ByteBits
  <2>1. EodHigh = 2 ^ ByteBits
    BY FormatAssumption DEF EodHigh
  <2>2. 2 ^ ByteBits \in Nat \ {0} /\ 2 ^ (ByteBits + 1) = 2 * 2 ^ ByteBits
    BY <1>1, PowerStep
  <2>3. 2 ^ ByteBits <= EodHigh /\ EodHigh < 2 ^ (ByteBits + 1)
    BY <2>1, <2>2
  <2>4. QED
    BY <1>1, <2>3, FloorLogIs
<1>3. EodHigh \in Encodable
  BY LengthRange
<1>4. 0 \in {0, 1}
  OBVIOUS
<1>5. /\ Code(EodHigh, 0) \in Seq({0, 1})
      /\ Len(Code(EodHigh, 0)) = 2 * kc_floor_log2(EodHigh) + 1 - 0
      /\ \A j \in 0 .. kc_floor_log2(EodHigh) - 1 :
           2 * j >= 0 => Code(EodHigh, 0)[2 * j + 1 - 0] = 0
  BY <1>4, CodeIs
<1>6. Len(Code(EodHigh, 0)) = 2 * ByteBits + 1
  BY <1>1, <1>2, <1>5
<1>7. ASSUME NEW j \in 0 .. ByteBits - 1
      PROVE  Code(EodHigh, 0)[2 * j + 1] = 0
  <2>1. 2 * j >= 0 /\ 2 * j + 1 - 0 = 2 * j + 1
    BY <1>1
  <2>2. Code(EodHigh, 0)[2 * j + 1 - 0] = 0
    BY <1>2, <1>5, <2>1
  <2>3. QED
    BY <2>1, <2>2
<1>8. QED
  BY <1>2, <1>3, <1>5, <1>6, <1>7

LEMMA TopBit ==
  ASSUME NEW v \in Byte, Bit(v, ByteBits - 1) = 0
  PROVE  v < LowOffsets
<1> DEFINE p == 2 ^ (ByteBits - 1)
<1>1. /\ p \in Nat \ {0} /\ ByteValues = 2 * p
  <2>1. ByteBits - 1 \in 0 .. 2 * ByteBits
    BY FormatAssumption
  <2>2. p \in Nat \ {0} /\ 2 ^ ((ByteBits - 1) + 1) = 2 * p
    BY <2>1, PowerStep
  <2>3. (ByteBits - 1) + 1 = ByteBits
    BY FormatAssumption
  <2> HIDE DEF p
  <2>4. ByteValues = 2 * p
    BY <2>2, <2>3, FormatAssumption
  <2>5. QED
    BY <2>2, <2>4
<1>2. v \in Nat /\ v < ByteValues
  BY ByteIsNat
<1>3. (v \div p) % 2 = 0
  <2>1. (v \div p) % 2 # 0 => Bit(v, ByteBits - 1) = 1
    BY DEF Bit
  <2> HIDE DEF p
  <2>2. QED
    BY <2>1
<1> HIDE DEF p
<1>4. LowOffsets = p
  BY <1>1 DEF LowOffsets
<1>5. ASSUME v >= p
      PROVE  FALSE
  <2>1. v - p \in 0 .. p - 1 /\ v = 1 * p + (v - p)
    BY <1>1, <1>2, <1>5
  <2>2. v \div p = 1
    BY <1>1, <1>2, <2>1, Quotient
  <2>3. QED
    BY <1>3, <2>2
<1>6. QED
  BY <1>1, <1>2, <1>4, <1>5

LEMMA NativeEnd ==
  ASSUME NEW e, Explains(e), NEW c \in e.points, AtTheEnd(e, c), ~e.format
  PROVE  /\ Len(e.full.data) \in Nat /\ Len(c.s.data) \in Nat
         /\ e.full.data[Len(e.full.data)] = 0 /\ Len(c.s.data) <= Len(e.full.data) - 1
<1> DEFINE b == PutBit(c.s, 1)
           y == PutBit(b, 0)
           raw == <<0>>
<1>1. Ends(e, c)
  BY DEF AtTheEnd
<1>2. StreamOK(b) /\ StreamOK(y) /\ Extends(e.full, y) /\ e.full = PutBytes(y, raw) /\ raw \in Seq(Byte)
  BY <1>1, EodFacts
<1>3. StreamOK(c.s) /\ StreamOK(e.full) /\ 0 \in {0, 1} /\ 1 \in {0, 1}
  BY DEF Explains, PointOK, TextOK
<1>4. Extends(b, c.s)
  BY <1>3, ExtendsBit
<1> HIDE DEF b
<1>5. Extends(y, b)
  BY <1>2, <1>3, ExtendsBit
<1> HIDE DEF y
<1>6. Len(c.s.data) \in Nat /\ Len(b.data) \in Nat /\ Len(c.s.data) <= Len(b.data)
  BY <1>2, <1>3, <1>4, Longer
<1>7. Len(y.data) \in Nat /\ Len(b.data) <= Len(y.data)
  BY <1>2, <1>5, Longer
<1>8. Len(raw) = 1 /\ raw[1] = 0
  OBVIOUS
<1> HIDE DEF raw
<1>9. Len(e.full.data) = Len(y.data) + 1
  <2>1. Len(PutBytes(y, raw).data) = Len(y.data) + Len(raw)
    BY <1>2, PutBytesOK
  <2>2. QED
    BY <1>2, <1>8, <2>1
<1>10. e.full.data[Len(y.data) + 1] = 0
  <2>1. \A k \in 1 .. Len(raw) : PutBytes(y, raw).data[Len(y.data) + k] = raw[k]
    BY <1>2, PutBytesOK
  <2>2. QED
    BY <1>2, <1>8, <2>1
<1>11. QED
  BY <1>6, <1>7, <1>9, <1>10

LEMMA DaliEnd ==
  ASSUME NEW e, Explains(e), NEW c \in e.points, AtTheEnd(e, c), e.format
  PROVE  LET last == e.full.data[Len(e.full.data)]
         IN  /\ Len(e.full.data) \in Nat /\ Len(c.s.data) \in Nat
             /\ Len(c.s.data) <= Len(e.full.data) - DaliEodBytes(last)
<1> DEFINE b == PutBit(c.s, 1)
           bits == Code(EodHigh, 0)
           full == e.full
           bytes == full.data
           h == c.s.bit_shift
           last == bytes[Len(bytes)]
<1>1. Ends(e, c) /\ h % 2 = 0
  BY DEF AtTheEnd
<1>2. StreamOK(b) /\ Extends(full, b) /\ full = PutBits(b, bits)
  BY <1>1, EodFacts
<1>3. StreamOK(c.s) /\ StreamOK(full) /\ 1 \in {0, 1}
  BY DEF Explains, PointOK, TextOK
<1>4. /\ ByteBits \in Nat /\ ByteBits >= 2 /\ ByteBits % 2 = 0 /\ h \in -1 .. ByteBits - 2
      /\ bytes \in Seq(Byte) /\ Len(bytes) \in Nat /\ Len(c.s.data) \in Nat /\ c.s.data \in Seq(Byte)
  BY <1>3, FormatAssumption DEF StreamOK
<1>5. h \in 0 .. ByteBits - 2
  BY <1>1, <1>4
<1>6. Opened(c.s) = c.s
  BY <1>5 DEF Opened
<1>7. b.bit_shift = h - 1 /\ Len(b.data) = Len(c.s.data)
  BY <1>3, <1>6, PutBitOK
<1>8. bits \in Seq({0, 1}) /\ Len(bits) = 2 * ByteBits + 1
      /\ \A j \in 0 .. ByteBits - 1 : bits[2 * j + 1] = 0
  BY EodBits
<1> HIDE DEF h, bits
<1> DEFINE y == [src |-> Len(b.data), byte |-> IF b.bit_shift >= 0 THEN bytes[Place(b)] ELSE 0,
                 left |-> b.bit_shift + 1]
           n == 2 * ByteBits + 1
           x == AfterBits(bytes, y, n)
<1>9. Stands(full, 0, b, y)
  <2>1. 0 \in Byte
    BY FormatAssumption DEF Byte
  <2>2. b.bit_shift >= 0 => Place(b) \in 1 .. Len(bytes)
    <3>1. Len(b.data) \in Nat /\ Len(b.data) <= Len(bytes) /\ b.bits_offset \in Nat
          /\ (b.bit_shift >= 0 => b.bits_offset < Len(b.data))
      BY <1>2, <1>3, Longer DEF StreamOK, FreeAreZero
    <3> HIDE DEF b, bytes
    <3>2. QED
      BY <1>4, <3>1 DEF Place
  <2>3. b.bit_shift >= 0 => bytes[Place(b)] \in Byte
    <3> HIDE DEF b, bytes
    <3>1. QED
      BY <1>4, <2>2
  <2>4. b.bit_shift + 1 \in 0 .. ByteBits - 1 /\ Len(b.data) \in Nat
    <3> HIDE DEF b
    <3>1. QED
      BY <1>4, <1>5, <1>7
  <2> HIDE DEF b, bytes
  <2>5. CursorOK(y)
    BY <2>1, <2>3, <2>4 DEF CursorOK
  <2>6. y.src = 0 + Len(b.data) /\ y.left = b.bit_shift + 1
    BY <2>4
  <2>7. b.bit_shift >= 0 => y.byte = full.data[Place(b)]
    BY DEF bytes
  <2> HIDE DEF y
  <2>8. QED
    BY <2>5, <2>6, <2>7 DEF Stands
<1>10. y.left = h /\ y.src = Len(c.s.data) /\ CursorOK(y)
  <2>1. y.left = b.bit_shift + 1 /\ y.src = Len(b.data)
    OBVIOUS
  <2>2. b.bit_shift + 1 = h
    <3> HIDE DEF b
    <3>1. QED
      BY <1>4, <1>7
  <2>3. QED
    BY <1>7, <1>9, <2>1, <2>2 DEF Stands
<1> HIDE DEF y
<1>11. Fed(bytes, 0, full, 0, Len(bytes))
  <2>1. \A k \in 0 + 1 .. Len(bytes) : bytes[0 + k] = full.data[k]
    <3>1. \A k \in 0 + 1 .. Len(bytes) : 0 + k = k
      BY <1>4
    <3>2. QED
      BY <3>1
  <2>2. 0 + Len(bytes) <= Len(bytes) /\ Len(bytes) <= Len(full.data)
    BY <1>4
  <2>3. QED
    BY <1>3, <1>4, <2>1, <2>2 DEF Fed
<1>12. /\ \A m \in 1 .. Len(bits) : BitAt(bytes, y, m) = bits[m]
       /\ Stands(full, 0, PutBits(b, bits), AfterBits(bytes, y, Len(bits)))
  <2>1. /\ Fed(bytes, 0, full, 0, Len(bytes)) /\ StreamOK(b) /\ bits \in Seq({0, 1})
        /\ Extends(full, PutBits(b, bits)) /\ Stands(full, 0, b, y) /\ 0 <= Len(b.data)
        /\ Len(PutBits(b, bits).data) <= Len(bytes)
    <3>1. Extends(full, full)
      BY <1>3, ExtendsItself
    <3>2. 0 <= Len(b.data) /\ Len(full.data) <= Len(bytes)
      BY <1>4, <1>7
    <3> HIDE DEF b, full, bytes
    <3>3. QED
      BY <1>2, <1>8, <1>9, <1>11, <3>1, <3>2
  <2> HIDE DEF b, full, bytes
  <2>2. QED
    BY <2>1, ManyBits
<1>13. x.src = Len(bytes)
  <2>1. Stands(full, 0, full, x)
    <3> HIDE DEF b, full, bytes
    <3>1. QED
      BY <1>2, <1>8, <1>12
  <2>2. x.src = 0 + Len(full.data)
    BY <2>1 DEF Stands
  <2>3. QED
    BY <1>4, <2>2
<1>14. x.src = y.src + ((n - y.left + ByteBits - 1) \div ByteBits)
  <2>1. ~(n <= y.left)
    BY <1>4, <1>5, <1>10
  <2> HIDE DEF n
  <2>2. QED
    BY <2>1 DEF AfterBits
<1> HIDE DEF b, full, bytes, x
<1>15. DaliEodBytes(last) \in {2, 3} /\ (last < LowOffsets => DaliEodBytes(last) = 2)
  <2>1. last \in Byte
    <3>1. Len(bytes) \in 1 .. Len(bytes)
      <4>1. Len(bytes) >= 1
        <5>1. (n - h + ByteBits - 1) \div ByteBits \in Nat
          <6>1. n - h + ByteBits - 1 \in Nat
            BY <1>4, <1>5
          <6>2. PICK t \in Nat : t = n - h + ByteBits - 1
            BY <6>1
          <6>3. t \div ByteBits \in Nat
            <7>1. ByteBits \in Nat \ {0}
              BY <1>4
            <7>2. QED
              BY <7>1, DivBounds
          <6>4. QED
            BY <6>2, <6>3
        <5>2. Len(bytes) >= Len(c.s.data)
          BY <1>4, <1>10, <1>13, <1>14, <5>1
        <5>3. Len(c.s.data) >= 1
          <6>1. c.s.bit_shift >= 0
            <7>1. h >= 0
              BY <1>4, <1>5
            <7>2. QED
              BY <7>1 DEF h
          <6>2. c.s.bits_offset \in Nat /\ c.s.bits_offset < Len(c.s.data)
            BY <1>3, <6>1 DEF StreamOK, FreeAreZero
          <6>3. QED
            BY <1>4, <6>2
        <5>4. QED
          BY <1>4, <5>2, <5>3
      <4>2. QED
        BY <1>4, <4>1
    <3>2. QED
      BY <1>4, <3>1
  <2>2. LowOffsets \in Int /\ last \in Int
    BY <2>1, ByteIsNat, FormatAssumption DEF LowOffsets
  <2>3. QED
    BY <2>2 DEF DaliEodBytes
<1>16. CASE h = 0
  <2>1. n - y.left + ByteBits - 1 = 3 * ByteBits + 0 /\ n - y.left + ByteBits - 1 \in Nat
    BY <1>4, <1>10, <1>16
  <2>2. 0 \in 0 .. ByteBits - 1 /\ ByteBits \in Nat \ {0}
    BY <1>4
  <2>3. (n - y.left + ByteBits - 1) \div ByteBits = 3
    BY <2>1, <2>2, Quotient
  <2>4. Len(bytes) = Len(c.s.data) + 3
    BY <1>10, <1>13, <1>14, <2>3
  <2>5. QED
    BY <1>4, <1>15, <2>4 DEF bytes, full
<1>17. CASE h # 0
  <2>1. h >= 2 /\ h <= ByteBits - 2
    BY <1>1, <1>5, <1>17 DEF h
  <2>2. n - y.left + ByteBits - 1 = 2 * ByteBits + (ByteBits - h)
        /\ n - y.left + ByteBits - 1 \in Nat
    BY <1>4, <1>5, <1>10
  <2>3. ByteBits - h \in 0 .. ByteBits - 1 /\ ByteBits \in Nat \ {0}
    BY <1>4, <2>1
  <2>4. (n - y.left + ByteBits - 1) \div ByteBits = 2
    <3> DEFINE t == n - y.left + ByteBits - 1
               r == ByteBits - h
    <3>1. t \in Nat /\ t = 2 * ByteBits + r /\ r \in 0 .. ByteBits - 1
      BY <2>2, <2>3
    <3> HIDE DEF t, r
    <3>2. t \div ByteBits = 2
      BY <2>3, <3>1, Quotient
    <3>3. QED
      BY <3>2 DEF t
  <2>5. Len(bytes) = Len(c.s.data) + 2
    BY <1>10, <1>13, <1>14, <2>4
  <2> DEFINE m == h + ByteBits + 1
  <2>6. BitAt(bytes, y, m) = bits[m]
    <3>1. m \in 1 .. Len(bits)
      BY <1>4, <1>8, <2>1
    <3>2. QED
      BY <1>12, <3>1
  <2>7. bits[m] = 0
    <3> DEFINE j == (h + ByteBits) \div 2
    <3>1. h % 2 = 0
      BY <1>1 DEF h
    <3>2. j \in 0 .. ByteBits - 1 /\ 2 * j + 1 = m
      BY <1>4, <2>1, <3>1
    <3> HIDE DEF j, m
    <3>3. QED
      BY <1>8, <3>2
  <2>8. BitAt(bytes, y, m) = Bit(last, ByteBits - 1)
    <3>1. ~(m <= y.left) /\ m - y.left - 1 = ByteBits
      BY <1>4, <1>10, <2>1
    <3>2. ByteBits \div ByteBits = 1 /\ ByteBits % ByteBits = 0
      <4>1. ByteBits = 1 * ByteBits + 0 /\ 0 \in 0 .. ByteBits - 1 /\ ByteBits \in Nat \ {0}
        BY <1>4
      <4>2. QED
        BY <4>1, Quotient
    <3> HIDE DEF m
    <3>3. BitAt(bytes, y, m)
            = Bit(ByteAt(bytes, y.src + ByteBits \div ByteBits), ByteBits - 1 - (ByteBits % ByteBits))
      BY <3>1 DEF BitAt
    <3>4. y.src + 1 = Len(bytes) - 1 /\ ByteBits - 1 - 0 = ByteBits - 1
      BY <1>4, <1>10, <2>5
    <3>5. BitAt(bytes, y, m) = Bit(ByteAt(bytes, Len(bytes) - 1), ByteBits - 1)
      BY <3>2, <3>3, <3>4
    <3>6. ByteAt(bytes, Len(bytes) - 1) = bytes[(Len(bytes) - 1) + 1]
      <4>1. Len(bytes) - 1 \in Nat /\ Len(bytes) - 1 < Len(bytes)
        BY <1>4, <2>5
      <4>2. QED
        BY <1>4, <4>1, ByteIs
    <3>7. (Len(bytes) - 1) + 1 = Len(bytes)
      BY <1>4
    <3>8. QED
      BY <3>5, <3>6, <3>7
  <2>9. last \in Byte
    <3>1. Len(bytes) \in 1 .. Len(bytes)
      BY <1>4, <2>5
    <3>2. QED
      BY <1>4, <3>1
  <2>10. last < LowOffsets
    BY <2>6, <2>7, <2>8, <2>9, TopBit
  <2>11. QED
    BY <1>4, <1>15, <2>5, <2>10 DEF bytes, full
<1>18. QED
  BY <1>16, <1>17

(***************************************************************************)
(* The writer under the adjustment.                                        *)
(***************************************************************************)
LEMMA PackRefused ==
  ASSUME PackInv, NEW text \in Seq(Byte), NEW format \in BOOLEAN,
         Len(text) \notin 1 .. MAX_VARLEN, salvador_compress(text, 0, format)
  PROVE  PackInv'
<1>1. 0 \in 0 .. Len(text)
  OBVIOUS
<1>2. WriterInv'
  BY <1>1, CallStep DEF PackInv
<1>3. Len(text) - 0 = Len(text)
  OBVIOUS
<1>4. wpc' = "failed" /\ start' = 0 /\ dali' = format
  BY <1>3 DEF salvador_compress
<1>5. TextInv' /\ MatchInv' /\ ExplainInv'
  BY <1>4 DEF TextInv, MatchInv, ExplainInv, Writing
<1>6. QED
  BY <1>2, <1>5 DEF PackInv

LEMMA PackStutter == PackInv /\ UNCHANGED vars => PackInv'
<1> SUFFICES ASSUME PackInv, UNCHANGED vars
             PROVE  PackInv'
  OBVIOUS
<1>1. WriterInv'
  BY StutterStep DEF PackInv
<1>2. TextInv' /\ MatchInv'
  BY DEF PackInv, TextInv, MatchInv, vars, Repeats
<1>3. ExplainInv'
  BY DEF PackInv, ExplainInv, Writing, IsOf, Here, vars
<1>4. QED
  BY <1>1, <1>2, <1>3 DEF PackInv

LEMMA PackNext == PackInv /\ Next => PackInv'
<1> SUFFICES ASSUME PackInv, Next
             PROVE  PackInv'
  OBVIOUS
<1>1. CASE Call
  <2>1. PICK w \in Windows, format \in BOOLEAN : salvador_compress(w.text, w.dictionary, format)
    BY <1>1 DEF Call
  <2>2. w.dictionary = 0 /\ w.text \in Seq(Byte)
    BY InplaceAssumption, WriterAssumption
  <2>3. PICK text \in Seq(Byte) : text = w.text
    BY <2>2
  <2>4. salvador_compress(text, 0, format)
    BY <2>1, <2>2, <2>3
  <2>5. QED
    BY <2>4, PackStart, PackRefused
<1>2. CASE WriteStep
  BY <1>2, PackStep
<1>3. QED
  BY <1>1, <1>2 DEF Next

(* Nothing is written behind the end mark. *)
LEMMA WriterRests == wpc = "written" => ~Next
  BY DEF Next, Call, salvador_compress, WriteStep, CountLiteral, TakeMatch, EndOfBlock,
         salvador_write_literals, WriteRepeat, WriteOffset, WriteLength, WriteEod

-----------------------------------------------------------------------------
(***************************************************************************)
(* What the adjustment has walked over: the points k of the explanation e, *)
(* every one leading to the next, up to z where its parser stands.  The    *)
(* end mark begins at c.                                                   *)
(***************************************************************************)
Trail(e, c, k, z) ==
  /\ Explains(e) /\ c \in e.points /\ AtTheEnd(e, c)
  /\ k.full = e.full /\ k.text = e.text /\ k.format = e.format /\ k.points \subseteq e.points
  /\ StartPoint \in k.points /\ z \in k.points /\ z.n < Len(e.text)
  /\ \A r \in k.points :
       /\ r.n <= z.n /\ Len(r.s.data) <= Len(z.s.data)
       /\ r = z \/ (r.n < z.n /\ Goes(k, r))

Gap(r) == r.n - Len(r.s.data)

(* The gaps are those of the matches, the last one that of the last match; *)
(* the parser stands behind it, or behind the literals after it.           *)
GapsOf(k, z) ==
  \/ gaps = <<>> /\ \A r \in k.points : r.state # 2
  \/ \E w \in k.points :
       /\ w.state = 2 /\ Len(gaps) >= 1 /\ gaps[Len(gaps)] = Gap(w)
       /\ \A r \in k.points : r.state = 2 /\ r # w =>
            \E j \in 1 .. Len(gaps) - 1 : gaps[j] = Gap(r)
       /\ z = w \/ \E len : ByLiterals(k, w, len) /\ z = LiteralsTo(k, w, len)

Counters(z) ==
  unpacked_index = z.n /\ safe_input_index = z.n /\ safe_output_index = Len(z.s.data)

(* Neither limit is before the end mark. *)
Sized(c) ==
  /\ packed_size \in Int /\ packed_size_for_overlap \in Int
  /\ Len(c.s.data) <= packed_size /\ Len(c.s.data) <= packed_size_for_overlap

Adjusting == apc \in {"literals", "after_literals", "after_match"}
AfterCut  == apc \in {"cut", "loaded", "refused"}

ParserAt(e, z) ==
  /\ apc = "literals" => /\ \E len : ByLiterals(e, z, len)
                         /\ Stands(e.full, 0, Base(z), cursor)
  /\ apc # "literals" => /\ z.state = IF apc = "after_literals" THEN 1 ELSE 2
                         /\ Stands(e.full, 0, z.s, cursor)

Cut(z) == packed_data = SubSeq(data, 1, Len(z.s.data)) \o SubSeq(window, z.n + 1, Len(window))

Adjusted(e, c, k, z) ==
  /\ Trail(e, c, k, z) /\ IsOf(e)
  /\ Counters(z) /\ GapsOf(k, z)
  /\ Adjusting => Sized(c) /\ ParserAt(e, z)
  /\ AfterCut => Cut(z)

AdjustInv ==
  /\ PackInv /\ gaps \in Seq(Int)
  /\ apc = "idle" \/ Adjusting \/ AfterCut
  /\ apc = "idle" => /\ cursor = Cursor(0) /\ unpacked_index = 0
                     /\ safe_input_index = 0 /\ safe_output_index = 0 /\ gaps = <<>>
  /\ apc # "idle" => wpc = "written" /\ \E e, c, k, z : Adjusted(e, c, k, z)

LEMMA AdjustInit == InplaceInit => AdjustInv
<1> SUFFICES ASSUME InplaceInit
             PROVE  AdjustInv
  OBVIOUS
<1>1. PackInv
  BY PackInit DEF InplaceInit
<1>2. QED
  BY <1>1 DEF InplaceInit, AdjustInv

(***************************************************************************)
(* The points of k are points of e, and so are its commands.               *)
(***************************************************************************)
LEMMA SameCommands ==
  ASSUME NEW e, NEW k, k.text = e.text, k.format = e.format
  PROVE  \A r, len, o : /\ LiteralsTo(k, r, len) = LiteralsTo(e, r, len)
                        /\ RepeatTo(k, r, len) = RepeatTo(e, r, len)
                        /\ OffsetTo(k, r, len, o) = OffsetTo(e, r, len, o)
                        /\ Copies(k, r, len, o) <=> Copies(e, r, len, o)
<1>1. \A r, len : LiteralsTo(k, r, len) = LiteralsTo(e, r, len)
  BY DEF LiteralsTo
<1>2. \A r, len : RepeatTo(k, r, len) = RepeatTo(e, r, len)
  BY DEF RepeatTo
<1>3. \A r, len, o : OffsetTo(k, r, len, o) = OffsetTo(e, r, len, o)
  BY DEF OffsetTo, Metadata
<1>4. \A r, len, o : Copies(k, r, len, o) <=> Copies(e, r, len, o)
  BY DEF Copies
<1>5. QED
  BY <1>1, <1>2, <1>3, <1>4

(* A longer trail: z leads to q. *)
LEMMA TrailGrows ==
  ASSUME NEW e, NEW c, NEW k, NEW z, Trail(e, c, k, z), NEW q \in e.points,
         z.n < q.n, q.n < Len(e.text), Len(z.s.data) <= Len(q.s.data),
         NEW k2, k2 = [full |-> e.full, text |-> e.text, format |-> e.format,
                       points |-> k.points \cup {q}],
         Goes(k2, z)
  PROVE  Trail(e, c, k2, q)
<1>1. /\ k2.full = e.full /\ k2.text = e.text /\ k2.format = e.format
      /\ k2.points = k.points \cup {q} /\ k.points \subseteq k2.points
  OBVIOUS
<1>2. k2.text = k.text /\ k2.format = k.format
  BY <1>1 DEF Trail
<1>3. ASSUME NEW r \in e.points
      PROVE  r.n \in Nat /\ Len(r.s.data) \in Nat
  BY DEF Trail, Explains, PointOK, TextOK, StreamOK
<1>4. ASSUME NEW r \in k2.points
      PROVE  /\ r.n <= q.n /\ Len(r.s.data) <= Len(q.s.data)
             /\ r = q \/ (r.n < q.n /\ Goes(k2, r))
  <2>1. CASE r = q
    <3>1. q.n \in Nat /\ Len(q.s.data) \in Nat
      BY <1>3
    <3>2. q.n <= q.n /\ Len(q.s.data) <= Len(q.s.data)
      BY <3>1
    <3>3. QED
      BY <2>1, <3>2
  <2>2. CASE r \in k.points
    <3>1. r \in e.points /\ z \in e.points
      BY <2>2 DEF Trail
    <3>2. r.n <= z.n /\ Len(r.s.data) <= Len(z.s.data) /\ (r = z \/ Goes(k, r))
      BY <2>2 DEF Trail
    <3>7. z.n < q.n /\ Len(z.s.data) <= Len(q.s.data)
      OBVIOUS
    <3>3. /\ r.n \in Nat /\ z.n \in Nat /\ q.n \in Nat
          /\ Len(r.s.data) \in Nat /\ Len(z.s.data) \in Nat /\ Len(q.s.data) \in Nat
      <4>1. \A p \in e.points : p.n \in Nat /\ Len(p.s.data) \in Nat
        BY <1>3
      <4>2. QED
        BY <3>1, <4>1
    <3>4. r.n < q.n /\ Len(r.s.data) <= Len(q.s.data)
      <4>1. r.n <= z.n /\ Len(r.s.data) <= Len(z.s.data)
        BY <3>2
      <4>2. r.n < q.n
        BY <3>3, <3>7, <4>1
      <4>3. PICK l1, l2, l3 \in Nat :
              l1 = Len(r.s.data) /\ l2 = Len(z.s.data) /\ l3 = Len(q.s.data)
        BY <3>3
      <4>4. l1 <= l2 /\ l2 <= l3
        BY <3>7, <4>1, <4>3
      <4>5. l1 <= l3
        BY <4>4
      <4>6. QED
        BY <4>2, <4>3, <4>5
    <3>5. Goes(k2, r)
      <4>1. CASE r = z
        BY <4>1
      <4>2. CASE Goes(k, r)
        BY <1>1, <1>2, <4>2, GoesStill
      <4>3. QED
        BY <3>2, <4>1, <4>2
    <3>6. QED
      BY <3>3, <3>4, <3>5
  <2>3. QED
    BY <1>1, <2>1, <2>2
<1>5. QED
  BY <1>1, <1>4 DEF Trail

(***************************************************************************)
(* The first step finds the end mark.                                      *)
(***************************************************************************)
LEMMA StartStep == AdjustInv /\ AdjustStart => AdjustInv'
<1> SUFFICES ASSUME AdjustInv, AdjustStart
             PROVE  AdjustInv'
  OBVIOUS
<1>1. /\ apc = "idle" /\ wpc = "written" /\ PackInv /\ gaps = <<>> /\ cursor = Cursor(0)
      /\ unpacked_index = 0 /\ safe_input_index = 0 /\ safe_output_index = 0
  BY DEF AdjustInv, AdjustStart
<1>2. /\ UNCHANGED vars
      /\ UNCHANGED <<cursor, unpacked_index, safe_input_index, safe_output_index, gaps,
                     packed_data>>
  BY DEF AdjustStart
<1>3. PICK e, c : Explains(e) /\ IsOf(e) /\ c \in e.points /\ AtTheEnd(e, c)
  BY <1>1, WrittenExplained
<1>4. e.full = stream /\ e.text = window /\ e.format = dali /\ dali \in BOOLEAN
  BY <1>3 DEF IsOf, Explains, TextOK
<1> DEFINE z == StartPoint
           k == [full |-> e.full, text |-> e.text, format |-> e.format, points |-> {z}]
<1>5. /\ z.n = 0 /\ z.s = EmptyStream /\ z.state = 0 /\ z.last = 1 /\ Len(z.s.data) = 0
      /\ z.s.bit_shift = -1
  BY DEF StartPoint, EmptyStream
<1>6. Trail(e, c, k, z)
  <2>1. z \in e.points /\ 0 < Len(e.text)
    BY <1>3 DEF Explains, TextOK
  <2>2. \A r \in k.points : r = z
    OBVIOUS
  <2>3. z.n <= z.n /\ Len(z.s.data) <= Len(z.s.data)
    BY <1>5
  <2> HIDE DEF z
  <2>4. QED
    BY <1>3, <1>5, <2>1, <2>2, <2>3 DEF Trail, z
<1>7. \E len : ByLiterals(e, z, len)
  <2>1. z \in e.points /\ 0 < Len(e.text) /\ Len(e.text) \in Nat
    BY <1>3 DEF Explains, TextOK
  <2>2. Goes(e, z) \/ Ends(e, z)
    BY <1>3, <2>1 DEF Explains
  <2>3. ~Ends(e, z)
    BY <1>5 DEF Ends
  <2> HIDE DEF z
  <2>4. QED
    BY <1>5, <2>2, <2>3 DEF Goes, ByRepeat, ByOffset
<1>8. Stands(e.full, 0, Base(z), Cursor(0))
  <2>1. 0 \in Byte /\ 0 \in 0 .. ByteBits - 1
    BY FormatAssumption DEF Byte
  <2>2. CursorOK(Cursor(0))
    BY <2>1 DEF CursorOK, Cursor
  <2>3. Cursor(0).src = 0 /\ Cursor(0).left = 0
    BY DEF Cursor
  <2>4. Base(z) = z.s
    BY <1>5 DEF Base
  <2> HIDE DEF z
  <2>5. QED
    BY <1>5, <2>2, <2>3, <2>4 DEF Stands
<1>9. apc' = "literals" /\ Sized(c)'
  <2>1. data = e.full.data
    BY <1>4 DEF data
  <2>2. CASE dali
    <3>1. /\ Len(data) \in Nat /\ Len(c.s.data) \in Nat
          /\ Len(c.s.data) <= Len(data) - DaliEodBytes(data[Len(data)])
      BY <1>3, <1>4, <2>1, <2>2, DaliEnd
    <3>2. /\ apc' = "literals"
          /\ packed_size' = Len(data) - DaliEodBytes(data[Len(data)])
          /\ packed_size_for_overlap' = Len(data) - DaliEodBytes(data[Len(data)])
      BY <2>2 DEF AdjustStart
    <3>3. Len(data) - DaliEodBytes(data[Len(data)]) \in Int
      <4>1. DaliEodBytes(data[Len(data)]) \in {2, 3}
        BY DEF DaliEodBytes
      <4>2. QED
        BY <3>1, <4>1
    <3>4. QED
      BY <3>1, <3>2, <3>3 DEF Sized
  <2>3. CASE ~dali
    <3>1. /\ Len(data) \in Nat /\ Len(c.s.data) \in Nat /\ data[Len(data)] = 0
          /\ Len(c.s.data) <= Len(data) - 1
      BY <1>3, <1>4, <2>1, <2>3, NativeEnd
    <3>2. /\ apc' = "literals" /\ packed_size' = Len(data)
          /\ packed_size_for_overlap' = Len(data) - 1
      BY <2>3, <3>1 DEF AdjustStart
    <3>3. Len(data) - 1 \in Int /\ Len(c.s.data) <= Len(data)
      BY <3>1
    <3>4. QED
      BY <3>1, <3>2, <3>3 DEF Sized
  <2>4. QED
    BY <2>2, <2>3
<1>10. Adjusted(e, c, k, z)'
  <2>1. IsOf(e)'
    BY <1>2, <1>3 DEF IsOf, vars
  <2>2. Counters(z)'
    BY <1>1, <1>2, <1>5 DEF Counters
  <2>3. GapsOf(k, z)'
    <3>1. \A r \in k.points : r.state # 2
      BY <1>5
    <3>2. gaps' = <<>>
      BY <1>1, <1>2
    <3> HIDE DEF z, k
    <3>3. QED
      BY <3>1, <3>2 DEF GapsOf
  <2>4. ParserAt(e, z)'
    <3>1. cursor' = Cursor(0)
      BY <1>1, <1>2
    <3> HIDE DEF z
    <3>2. QED
      BY <1>7, <1>8, <1>9, <3>1 DEF ParserAt
  <2>5. ~AfterCut'
    BY <1>9 DEF AfterCut
  <2> HIDE DEF z, k
  <2>6. QED
    BY <1>6, <1>9, <2>1, <2>2, <2>3, <2>4, <2>5 DEF Adjusted
<1>11. QED
  <2>1. PackInv'
    BY <1>1, <1>2, PackStutter
  <2>2. wpc' = "written" /\ gaps' = <<>> /\ Adjusting' /\ apc' # "idle"
    BY <1>1, <1>2, <1>9 DEF vars, Adjusting
  <2>3. \E e2, c2, k2, z2 : Adjusted(e2, c2, k2, z2)'
    BY <1>10
  <2>4. QED
    BY <2>1, <2>2, <2>3 DEF AdjustInv

LEMMA GapsGrow ==
  ASSUME gaps \in Seq(Int), NEW k, NEW z, GapsOf(k, z), NEW q, NEW k2,
         k2.points = k.points \cup {q}, q.n \in Int, Len(q.s.data) \in Int, q.state \in {1, 2},
         gaps' = IF q.state = 2 THEN Append(gaps, Gap(q)) ELSE gaps,
         q.state = 1 => /\ z.state # 1
                        /\ \E len : ByLiterals(k2, z, len) /\ q = LiteralsTo(k2, z, len)
  PROVE  gaps' \in Seq(Int) /\ GapsOf(k2, q)'
<1>1. Gap(q) \in Int /\ Len(gaps) \in Nat
  BY DEF Gap
<1>2. CASE q.state = 2
  <2>1. gaps' = Append(gaps, Gap(q))
    BY <1>2
  <2> DEFINE g == Append(gaps, Gap(q))
  <2>2. /\ g \in Seq(Int) /\ Len(g) = Len(gaps) + 1 /\ g[Len(gaps) + 1] = Gap(q)
        /\ \A j \in 1 .. Len(gaps) : g[j] = gaps[j]
    BY <1>1
  <2> HIDE DEF g
  <2>3. ASSUME NEW r \in k2.points, r.state = 2, r # q
        PROVE  \E j \in 1 .. Len(g) - 1 : g[j] = Gap(r)
    <3>1. r \in k.points
      BY <2>3
    <3>2. PICK w \in k.points :
            /\ w.state = 2 /\ Len(gaps) >= 1 /\ gaps[Len(gaps)] = Gap(w)
            /\ \A p \in k.points : p.state = 2 /\ p # w =>
                 \E j \in 1 .. Len(gaps) - 1 : gaps[j] = Gap(p)
      BY <2>3, <3>1 DEF GapsOf
    <3>3. PICK j \in 1 .. Len(gaps) : gaps[j] = Gap(r)
      <4>1. CASE r = w
        <5>1. Len(gaps) \in 1 .. Len(gaps)
          BY <1>1, <3>2
        <5>2. QED
          BY <3>2, <4>1, <5>1
      <4>2. CASE r # w
        <5>1. PICK j \in 1 .. Len(gaps) - 1 : gaps[j] = Gap(r)
          BY <2>3, <3>1, <3>2, <4>2
        <5>2. j \in 1 .. Len(gaps)
          BY <1>1
        <5>3. QED
          BY <5>1, <5>2
      <4>3. QED
        BY <4>1, <4>2
    <3>4. j \in 1 .. Len(g) - 1 /\ g[j] = Gap(r)
      BY <1>1, <2>2, <3>3
    <3>5. QED
      BY <3>4
  <2>4. PICK new \in Seq(Int) : new = g
    BY <2>2
  <2>5. /\ Len(new) >= 1 /\ new[Len(new)] = Gap(q)
        /\ \A r \in k2.points : r.state = 2 /\ r # q =>
             \E j \in 1 .. Len(new) - 1 : new[j] = Gap(r)
    BY <1>1, <2>2, <2>3, <2>4
  <2>6. gaps' = new
    BY <2>1, <2>4 DEF g
  <2>7. q \in k2.points
    OBVIOUS
  <2>8. GapsOf(k2, q)'
    BY <1>2, <2>5, <2>6, <2>7 DEF GapsOf
  <2>9. QED
    BY <2>6, <2>8
<1>3. CASE q.state = 1
  <2>1. gaps' = gaps
    BY <1>3
  <2>2. CASE gaps = <<>> /\ \A r \in k.points : r.state # 2
    <3>1. \A r \in k2.points : r.state # 2
      BY <1>3, <2>2
    <3>2. gaps' = <<>>
      BY <2>1, <2>2
    <3>3. GapsOf(k2, q)'
      BY <3>1, <3>2 DEF GapsOf
    <3>4. QED
      BY <2>1, <3>3
  <2>3. CASE ~(gaps = <<>> /\ \A r \in k.points : r.state # 2)
    <3>1. PICK w \in k.points :
            /\ w.state = 2 /\ Len(gaps) >= 1 /\ gaps[Len(gaps)] = Gap(w)
            /\ \A r \in k.points : r.state = 2 /\ r # w =>
                 \E j \in 1 .. Len(gaps) - 1 : gaps[j] = Gap(r)
            /\ z = w \/ \E len : ByLiterals(k, w, len) /\ z = LiteralsTo(k, w, len)
      BY <2>3 DEF GapsOf
    <3>2. z = w
      <4>1. \A len : LiteralsTo(k, w, len).state = 1
        BY DEF LiteralsTo
      <4>2. QED
        BY <1>3, <3>1, <4>1
    <3>3. \E len : ByLiterals(k2, w, len) /\ q = LiteralsTo(k2, w, len)
      BY <1>3, <3>2
    <3>4. \A r \in k2.points : r.state = 2 /\ r # w =>
            \E j \in 1 .. Len(gaps) - 1 : gaps[j] = Gap(r)
      BY <1>3, <3>1
    <3>5. w \in k2.points
      OBVIOUS
    <3>6. GapsOf(k2, q)
      BY <3>1, <3>3, <3>4, <3>5 DEF GapsOf
    <3>7. GapsOf(k2, q)'
      BY <2>1, <3>6 DEF GapsOf
    <3>8. QED
      BY <2>1, <3>7
  <2>4. QED
    BY <2>2, <2>3
<1>4. QED
  BY <1>2, <1>3

(***************************************************************************)
(* The end of a run from z to q: the trail goes on to q, or the stream is  *)
(* cut at z; at the last point of the text at the latest.                  *)
(***************************************************************************)
LEMMA RunEnds ==
  ASSUME AdjustInv, Adjusting, UNCHANGED vars,
         NEW e, NEW c, NEW k, NEW z, Adjusted(e, c, k, z),
         NEW q \in e.points, NEW length \in Nat, length >= 1, q.n = z.n + length,
         q.state \in {1, 2}, Len(z.s.data) <= Len(q.s.data),
         NEW k2, k2 = [full |-> e.full, text |-> e.text, format |-> e.format,
                       points |-> k.points \cup {q}],
         Goes(k2, z),
         q.state = 1 => /\ z.state # 1
                        /\ \E len : ByLiterals(k2, z, len) /\ q = LiteralsTo(k2, z, len),
         NEW b, Stands(e.full, 0, q.s, b),
         NEW next, next = IF q.state = 1 THEN "after_literals" ELSE "after_match",
         EndOfRun(b, length, next)
  PROVE  AdjustInv'
<1>1. /\ PackInv /\ gaps \in Seq(Int) /\ wpc = "written" /\ apc # "idle"
  BY DEF AdjustInv, Adjusting
<1>2. /\ Trail(e, c, k, z) /\ IsOf(e) /\ Counters(z) /\ GapsOf(k, z) /\ Sized(c)
  BY DEF Adjusted
<1>3. /\ e.full = stream /\ e.text = window /\ c \in e.points /\ z \in e.points
      /\ Explains(e) /\ AtTheEnd(e, c)
  BY <1>2 DEF IsOf, Trail
<1>4. \A r \in e.points : r.n \in 0 .. Len(e.text) /\ StreamOK(r.s)
  BY <1>3 DEF Explains, PointOK
<1>5. Len(e.text) \in Nat
  BY <1>3 DEF Explains, TextOK
<1>6. PICK size, lim, over, total \in Int :
        /\ size = Len(q.s.data) /\ lim = packed_size /\ over = packed_size_for_overlap
        /\ total = Len(e.text)
  <2>1. Len(q.s.data) \in Int /\ Len(e.text) \in Int
    BY <1>4, <1>5 DEF StreamOK
  <2>2. packed_size \in Int /\ packed_size_for_overlap \in Int
    BY <1>2 DEF Sized
  <2>3. QED
    BY <2>1, <2>2
<1>7. size <= lim /\ size <= over /\ size \in Nat
  <2>1. Extends(c.s, q.s)
    BY <1>3 DEF AtTheEnd
  <2>2. Len(q.s.data) \in Nat /\ Len(c.s.data) \in Nat /\ Len(q.s.data) <= Len(c.s.data)
    BY <1>3, <1>4, <2>1, Longer
  <2>3. Len(c.s.data) <= lim /\ Len(c.s.data) <= over
    BY <1>2, <1>6 DEF Sized
  <2>4. QED
    BY <1>6, <2>2, <2>3
<1>8. b.src = size
  <2>1. b.src = 0 + Len(q.s.data)
    BY DEF Stands
  <2>2. QED
    BY <1>6, <2>1
<1>9. q.n \in Nat /\ z.n \in Nat /\ q.n <= total /\ z.n < q.n
  BY <1>3, <1>4, <1>5, <1>6
<1>10. unpacked_index + length = q.n /\ unpacked_size = total
  BY <1>2, <1>3, <1>6 DEF Counters, unpacked_size
<1> DEFINE overwrite == q.n - (total - over + size)
<1>11. ~(b.src > packed_size)
  BY <1>6, <1>7, <1>8
<1>12. IF overwrite >= 0
       THEN /\ packed_data' = SubSeq(data, 1, safe_output_index)
                              \o SubSeq(window, safe_input_index + 1, unpacked_size)
            /\ apc' = "cut"
            /\ UNCHANGED adjustVars
       ELSE /\ cursor' = b /\ unpacked_index' = q.n
            /\ safe_input_index' = q.n /\ safe_output_index' = b.src
            /\ gaps' = IF next = "after_match" THEN Append(gaps, q.n - b.src) ELSE gaps
            /\ apc' = next
            /\ UNCHANGED <<packed_size, packed_size_for_overlap, packed_data>>
  BY <1>6, <1>8, <1>10, <1>11 DEF EndOfRun
<1>13. wpc' = "written" /\ PackInv' /\ IsOf(e)'
  <2>1. PackInv'
    BY <1>1, PackStutter
  <2>2. wpc' = "written" /\ IsOf(e)'
    BY <1>1, <1>2 DEF vars, IsOf
  <2>3. QED
    BY <2>1, <2>2
<1>14. CASE overwrite >= 0
  <2>1. /\ packed_data' = SubSeq(data, 1, safe_output_index)
                         \o SubSeq(window, safe_input_index + 1, unpacked_size)
        /\ apc' = "cut" /\ UNCHANGED adjustVars
    BY <1>12, <1>14
  <2>2. Counters(z)' /\ GapsOf(k, z)' /\ gaps' = gaps
    BY <1>2, <2>1 DEF Counters, GapsOf, adjustVars
  <2>3. Cut(z)'
    BY <1>2, <2>1 DEF Cut, Counters, data, vars, unpacked_size
  <2>4. ~Adjusting' /\ AfterCut'
    BY <2>1 DEF Adjusting, AfterCut
  <2>5. Adjusted(e, c, k, z)'
    BY <1>2, <1>13, <2>2, <2>3, <2>4 DEF Adjusted
  <2>6. QED
    BY <1>1, <1>13, <2>1, <2>2, <2>4, <2>5 DEF AdjustInv
<1>15. CASE ~(overwrite >= 0)
  <2>1. /\ cursor' = b /\ unpacked_index' = q.n
        /\ safe_input_index' = q.n /\ safe_output_index' = b.src
        /\ gaps' = IF next = "after_match" THEN Append(gaps, q.n - b.src) ELSE gaps
        /\ apc' = next
        /\ UNCHANGED <<packed_size, packed_size_for_overlap, packed_data>>
    BY <1>12, <1>15
  <2>2. q.n < Len(e.text)
    <3>1. PICK n \in Nat : n = q.n
      BY <1>9
    <3>2. ~(n - (total - over + size) >= 0)
      BY <1>15, <3>1
    <3>3. n <= total /\ size <= over
      BY <1>7, <1>9, <3>1
    <3>4. n < total
      BY <3>2, <3>3
    <3>5. QED
      BY <1>6, <3>1, <3>4
  <2> HIDE DEF overwrite
  <2>3. Trail(e, c, k2, q)
    BY <1>2, <1>9, <2>2, TrailGrows
  <2>4. Counters(q)'
    BY <1>6, <1>8, <2>1 DEF Counters
  <2>5. gaps' \in Seq(Int) /\ GapsOf(k2, q)'
    <3>1. Gap(q) = q.n - b.src
      BY <1>6, <1>8 DEF Gap
    <3>2. gaps' = IF q.state = 2 THEN Append(gaps, Gap(q)) ELSE gaps
      BY <2>1, <3>1
    <3>3. k2.points = k.points \cup {q} /\ q.n \in Int /\ Len(q.s.data) \in Int
      BY <1>6, <1>9
    <3>4. QED
      BY <1>1, <1>2, <3>2, <3>3, GapsGrow
  <2>6. Sized(c)'
    BY <1>2, <2>1 DEF Sized
  <2>7. Adjusting' /\ ~AfterCut' /\ apc' # "literals" /\ apc' # "idle"
    BY <2>1 DEF Adjusting, AfterCut
  <2>8. ParserAt(e, q)'
    <3>1. q.state = IF apc' = "after_literals" THEN 1 ELSE 2
      BY <2>1
    <3>2. QED
      BY <2>1, <2>7, <3>1 DEF ParserAt
  <2>9. Adjusted(e, c, k2, q)'
    BY <1>13, <2>3, <2>4, <2>5, <2>6, <2>7, <2>8 DEF Adjusted
  <2>10. QED
    BY <1>13, <2>5, <2>7, <2>9 DEF AdjustInv
<1>16. QED
  BY <1>14, <1>15

(* The parser of the adjustment has the whole stream in front of it. *)
LEMMA AllThere ==
  ASSUME NEW e, Explains(e), IsOf(e)
  PROVE  /\ data = e.full.data /\ Len(data) \in Nat /\ 0 \in Nat
         /\ Fed(data, 0, e.full, 0, Len(data))
         /\ \A q \in e.points : Len(q.s.data) \in Nat /\ Len(q.s.data) <= Len(data)
                                /\ 0 <= Len(q.s.data)
<1>1. data = e.full.data
  BY DEF IsOf, data
<1>2. StreamOK(e.full)
  BY DEF Explains, TextOK
<1>3. data \in Seq(Byte) /\ Len(data) \in Nat
  BY <1>1, <1>2 DEF StreamOK
<1>4. Fed(data, 0, e.full, 0, Len(data))
  <2>1. \A j \in 0 + 1 .. Len(data) : 0 + j = j
    BY <1>3
  <2>2. \A j \in 0 + 1 .. Len(data) : data[0 + j] = e.full.data[j]
    BY <1>1, <2>1
  <2>3. 0 + Len(data) <= Len(data) /\ Len(data) <= Len(e.full.data) /\ 0 \in Nat
    BY <1>1, <1>3
  <2>4. QED
    BY <1>2, <1>3, <2>2, <2>3 DEF Fed
<1>5. ASSUME NEW q \in e.points
      PROVE  Len(q.s.data) \in Nat /\ Len(q.s.data) <= Len(data) /\ 0 <= Len(q.s.data)
  <2>1. StreamOK(q.s) /\ Extends(e.full, q.s)
    BY DEF Explains, PointOK
  <2>2. QED
    BY <1>1, <1>2, <2>1, Longer
<1>6. QED
  BY <1>1, <1>3, <1>4, <1>5

LEMMA LiteralsStep == AdjustInv /\ AdjustLiterals => AdjustInv'
<1> SUFFICES ASSUME AdjustInv, AdjustLiterals
             PROVE  AdjustInv'
  OBVIOUS
<1>1. apc = "literals" /\ Adjusting /\ UNCHANGED vars
  BY DEF AdjustLiterals, Adjusting
<1>2. PICK e, c, k, z : Adjusted(e, c, k, z)
  BY <1>1 DEF AdjustInv
<1>3. Trail(e, c, k, z) /\ IsOf(e) /\ ParserAt(e, z)
  BY <1>1, <1>2 DEF Adjusted
<1>4. Explains(e) /\ z \in e.points /\ k.text = e.text /\ k.format = e.format
  BY <1>3 DEF Trail
<1>5. PICK len : ByLiterals(e, z, len)
  BY <1>1, <1>3 DEF ParserAt
<1>6. Stands(e.full, 0, Base(z), cursor)
  BY <1>1, <1>3 DEF ParserAt
<1> DEFINE q == LiteralsTo(e, z, len)
           k2 == [full |-> e.full, text |-> e.text, format |-> e.format,
                  points |-> k.points \cup {q}]
           x == AfterNumber(data, cursor, FALSE)
           b == AfterBytes(x, len)
<1>7. q \in e.points /\ q.n = z.n + len /\ q.state = 1 /\ z.state # 1
      /\ len \in 1 .. Len(e.text) - z.n
  BY <1>5 DEF ByLiterals, LiteralsTo
<1>8. /\ Len(Base(z).data) \in Nat /\ Len(z.s.data) \in Nat
      /\ Len(PutBits(Base(z), Code(len, 0)).data) \in Nat
      /\ Len(z.s.data) <= Len(Base(z).data)
      /\ Len(Base(z).data) <= Len(PutBits(Base(z), Code(len, 0)).data)
      /\ Len(q.s.data) = Len(PutBits(Base(z), Code(len, 0)).data) + len
      /\ len \in Nat /\ len >= 1
  BY <1>4, <1>5, LiteralsSizes
<1>9. Len(q.s.data) \in Nat /\ Len(q.s.data) <= Len(data) /\ Fed(data, 0, e.full, 0, Len(data))
  BY <1>3, <1>4, <1>7, AllThere
<1>10. Number(data, cursor, FALSE) = len /\ Stands(e.full, 0, q.s, b)
  <2>1. 0 <= Len(Base(z).data) /\ Len(LiteralsTo(e, z, len).s.data) <= Len(data)
    BY <1>8, <1>9
  <2>2. /\ Fed(data, 0, e.full, 0, Len(data)) /\ Explains(e) /\ z \in e.points
        /\ ByLiterals(e, z, len) /\ Stands(e.full, 0, Base(z), cursor)
        /\ 0 <= Len(Base(z).data) /\ Len(LiteralsTo(e, z, len).s.data) <= Len(data)
    BY <1>4, <1>5, <1>6, <1>9, <2>1
  <2> HIDE DEF q, k2, x, b
  <2>3. LET y == AfterNumber(data, cursor, FALSE)
        IN  /\ Number(data, cursor, FALSE) = len
            /\ Stands(e.full, 0, PutBits(Base(z), Code(len, 0)), y)
            /\ Stands(e.full, 0, LiteralsTo(e, z, len).s, AfterBytes(y, len))
    BY <2>2, LiteralsRead
  <2>4. QED
    BY <2>3 DEF q, b, x
<1>11. EndOfRun(b, len, "after_literals")
  BY <1>10 DEF AdjustLiterals
<1>12. ByLiterals(k2, z, len) /\ q = LiteralsTo(k2, z, len)
  <2>1. k2.text = e.text /\ k2.format = e.format /\ k2.points = k.points \cup {q}
    OBVIOUS
  <2> HIDE DEF k2
  <2>2. LiteralsTo(k2, z, len) = q
    BY <2>1, SameCommands
  <2> HIDE DEF q
  <2>3. QED
    BY <1>7, <2>1, <2>2 DEF ByLiterals
<1>13. Goes(k2, z)
  BY <1>12 DEF Goes
<1>14. Len(z.s.data) <= Len(q.s.data)
  <2>1. PICK l1, l2, l3 \in Nat : /\ l1 = Len(z.s.data) /\ l2 = Len(Base(z).data)
                                  /\ l3 = Len(PutBits(Base(z), Code(len, 0)).data)
    BY <1>8
  <2>2. l1 <= l2 /\ l2 <= l3 /\ Len(q.s.data) = l3 + len
    BY <1>8, <2>1
  <2>3. l1 <= l3 + len
    BY <1>8, <2>2
  <2>4. QED
    BY <2>1, <2>2, <2>3
<1> HIDE DEF q, k2, b
<1>15. /\ len \in Nat /\ len >= 1 /\ q.n = z.n + len /\ q.state \in {1, 2}
       /\ q.state = 1 => z.state # 1
                         /\ \E m : ByLiterals(k2, z, m) /\ q = LiteralsTo(k2, z, m)
       /\ "after_literals" = IF q.state = 1 THEN "after_literals" ELSE "after_match"
  BY <1>7, <1>8, <1>12
<1>16. k2 = [full |-> e.full, text |-> e.text, format |-> e.format, points |-> k.points \cup {q}]
  BY DEF k2
<1>17. QED
  BY <1>1, <1>2, <1>7, <1>10, <1>11, <1>13, <1>14, <1>15, <1>16, RunEnds

LEMMA CommandStep == AdjustInv /\ AdjustCommand => AdjustInv'
<1> SUFFICES ASSUME AdjustInv, AdjustCommand
             PROVE  AdjustInv'
  OBVIOUS
<1>1. apc \in {"after_literals", "after_match"} /\ Adjusting /\ UNCHANGED vars /\ apc # "idle"
  BY DEF AdjustCommand, Adjusting
<1>2. PICK e, c, k, z : Adjusted(e, c, k, z)
  BY <1>1 DEF AdjustInv
<1>3. Trail(e, c, k, z) /\ IsOf(e) /\ ParserAt(e, z) /\ Sized(c)
  BY <1>1, <1>2 DEF Adjusted
<1>4. /\ Explains(e) /\ z \in e.points /\ k.text = e.text /\ k.format = e.format
      /\ z.n < Len(e.text) /\ dali = e.format
  BY <1>3 DEF Trail, IsOf
<1>5. z.state = (IF apc = "after_literals" THEN 1 ELSE 2) /\ Stands(e.full, 0, z.s, cursor)
  BY <1>1, <1>3 DEF ParserAt
<1>6. Goes(e, z)
  <2>1. z.n \in Nat /\ Len(e.text) \in Nat /\ (Goes(e, z) \/ Ends(e, z))
    BY <1>4 DEF Explains, PointOK, TextOK
  <2>2. ~Ends(e, z)
    BY <1>4, <2>1 DEF Ends
  <2>3. QED
    BY <2>1, <2>2
<1>7. /\ Len(data) \in Nat /\ Fed(data, 0, e.full, 0, Len(data))
      /\ \A q \in e.points : Len(q.s.data) \in Nat /\ Len(q.s.data) <= Len(data)
                             /\ 0 <= Len(q.s.data)
  BY <1>3, <1>4, AllThere
<1> DEFINE bit == BitAt(data, cursor, 1)
           rest == AfterBits(data, cursor, 1)
           match_ == ReadMatch(data, rest)
<1>8. CASE \E len : ByLiterals(e, z, len)
  <2>1. PICK len : ByLiterals(e, z, len)
    BY <1>8
  <2>2. z.state = 2 /\ apc = "after_match" /\ LiteralsTo(e, z, len) \in e.points
    BY <1>1, <1>5, <2>1 DEF ByLiterals
  <2>3. bit = 0 /\ Stands(e.full, 0, Base(z), rest)
    <3>1. 0 <= Len(z.s.data) /\ Len(LiteralsTo(e, z, len).s.data) <= Len(data) /\ z.state # 0
      BY <1>4, <1>7, <2>2
    <3>2. QED
      BY <1>4, <1>5, <1>7, <2>1, <3>1, GoOnRead
  <2>4. /\ cursor' = rest /\ apc' = "literals"
        /\ UNCHANGED <<packed_size, packed_size_for_overlap, unpacked_index,
                       safe_input_index, safe_output_index, gaps, packed_data>>
    BY <2>2, <2>3 DEF AdjustCommand
  <2> HIDE DEF rest
  <2>5. Adjusting' /\ ~AfterCut' /\ apc' # "idle"
    BY <2>4 DEF Adjusting, AfterCut
  <2>6. IsOf(e)' /\ wpc' = "written" /\ PackInv'
    <3>1. PackInv /\ wpc = "written"
      BY <1>1 DEF AdjustInv
    <3>2. PackInv'
      BY <1>1, <3>1, PackStutter
    <3>3. QED
      BY <1>1, <1>3, <3>1, <3>2 DEF vars, IsOf
  <2>7. Counters(z)' /\ GapsOf(k, z)' /\ gaps' \in Seq(Int) /\ Sized(c)'
    BY <1>2, <1>3, <2>4 DEF Adjusted, Counters, GapsOf, Sized, AdjustInv
  <2>8. ParserAt(e, z)'
    BY <2>1, <2>3, <2>4 DEF ParserAt
  <2>9. Adjusted(e, c, k, z)'
    BY <1>3, <2>5, <2>6, <2>7, <2>8 DEF Adjusted
  <2>10. QED
    BY <2>5, <2>6, <2>7, <2>9 DEF AdjustInv
<1>9. CASE \E len : ByRepeat(e, z, len)
  <2>1. PICK len : ByRepeat(e, z, len)
    BY <1>9
  <2> DEFINE q == RepeatTo(e, z, len)
             k2 == [full |-> e.full, text |-> e.text, format |-> e.format,
                    points |-> k.points \cup {q}]
             b == AfterNumber(data, rest, FALSE)
  <2>2. /\ apc = "after_literals" /\ q \in e.points /\ q.n = z.n + len /\ q.state = 2
        /\ len \in 1 .. Len(e.text) - z.n
    BY <1>5, <2>1 DEF ByRepeat, RepeatTo, Copies
  <2>3. len \in Nat /\ len >= 1
    BY <1>4, <2>2
  <2>4. bit = 0 /\ Number(data, rest, FALSE) = len /\ Stands(e.full, 0, q.s, b)
    <3>1. 0 <= Len(z.s.data) /\ Len(RepeatTo(e, z, len).s.data) <= Len(data)
      BY <1>4, <1>7, <2>2
    <3>2. QED
      BY <1>4, <1>5, <1>7, <2>1, <3>1, RepeatRead
  <2>5. EndOfRun(b, len, "after_match")
    BY <2>2, <2>4 DEF AdjustCommand
  <2>6. Goes(k2, z)
    <3>1. k2.text = e.text /\ k2.format = e.format /\ k2.points = k.points \cup {q}
      OBVIOUS
    <3> HIDE DEF k2
    <3>2. RepeatTo(k2, z, len) = q /\ (Copies(k2, z, len, z.last) <=> Copies(e, z, len, z.last))
      BY <3>1, SameCommands
    <3> HIDE DEF q
    <3>3. ByRepeat(k2, z, len)
      BY <2>1, <3>1, <3>2 DEF ByRepeat
    <3>4. QED
      BY <3>3 DEF Goes
  <2>7. Len(z.s.data) <= Len(q.s.data)
    <3>1. LET y == PutBit(z.s, 0)
          IN  /\ Len(z.s.data) \in Nat /\ Len(y.data) \in Nat /\ Len(q.s.data) \in Nat
              /\ Len(z.s.data) <= Len(y.data) /\ Len(y.data) <= Len(q.s.data)
      BY <1>4, <2>1, RepeatSizes
    <3> HIDE DEF q
    <3>2. QED
      BY <3>1
  <2>8. k2 = [full |-> e.full, text |-> e.text, format |-> e.format, points |-> k.points \cup {q}]
    OBVIOUS
  <2> HIDE DEF q, k2, b
  <2>9. /\ q.state \in {1, 2} /\ q.state # 1
        /\ "after_match" = IF q.state = 1 THEN "after_literals" ELSE "after_match"
    BY <2>2
  <2>10. QED
    BY <1>1, <1>2, <2>2, <2>3, <2>4, <2>5, <2>6, <2>7, <2>8, <2>9, RunEnds
<1>10. CASE \E len, o : ByOffset(e, z, len, o)
  <2>1. PICK len, o : ByOffset(e, z, len, o)
    BY <1>10
  <2> DEFINE q == OffsetTo(e, z, len, o)
             k2 == [full |-> e.full, text |-> e.text, format |-> e.format,
                    points |-> k.points \cup {q}]
             b == match_.next
  <2>2. /\ q \in e.points /\ q.n = z.n + len /\ q.state = 2 /\ len \in 1 .. Len(e.text) - z.n
    BY <2>1 DEF ByOffset, OffsetTo, Copies
  <2>3. len \in Nat /\ len >= 1
    BY <1>4, <2>2
  <2>4. /\ bit = 1 /\ match_.m = [length |-> len, offset |-> o] /\ match_.m # EndMark
        /\ Stands(e.full, 0, q.s, b)
    <3>1. 0 <= Len(z.s.data) /\ Len(OffsetTo(e, z, len, o).s.data) <= Len(data)
      BY <1>4, <1>7, <2>2
    <3>2. /\ Fed(data, 0, e.full, 0, Len(data)) /\ Explains(e) /\ dali = e.format
          /\ z \in e.points /\ ByOffset(e, z, len, o) /\ Stands(e.full, 0, z.s, cursor)
          /\ 0 <= Len(z.s.data) /\ Len(OffsetTo(e, z, len, o).s.data) <= Len(data)
      BY <1>4, <1>5, <1>7, <2>1, <3>1
    <3> HIDE DEF bit, rest, match_, q, k2, b
    <3>3. LET there == AfterBits(data, cursor, 1)
          IN  /\ BitAt(data, cursor, 1) = 1
              /\ ReadMatch(data, there).m = [length |-> len, offset |-> o]
              /\ ReadMatch(data, there).m # EndMark
              /\ Stands(e.full, 0, OffsetTo(e, z, len, o).s, ReadMatch(data, there).next)
      BY <3>2, OffsetRead
    <3>4. QED
      BY <3>3 DEF bit, rest, match_, q, b
  <2>5. EndOfRun(b, len, "after_match")
    <3>1. match_.m.length = len
      BY <2>4
    <3>2. IF bit = 0 /\ apc = "after_literals"
          THEN EndOfRun(AfterNumber(data, rest, FALSE), Number(data, rest, FALSE),
                        "after_match")
          ELSE IF bit = 0
          THEN /\ cursor' = rest /\ apc' = "literals"
               /\ UNCHANGED <<packed_size, packed_size_for_overlap, unpacked_index,
                              safe_input_index, safe_output_index, gaps, packed_data>>
          ELSE IF match_.m = EndMark
          THEN apc' = "uncut" /\ UNCHANGED <<adjustVars, packed_data>>
          ELSE EndOfRun(match_.next, match_.m.length, "after_match")
      BY DEF AdjustCommand
    <3> HIDE DEF bit, rest, match_, q, k2
    <3>3. bit # 0 /\ match_.m # EndMark
      BY <2>4
    <3>4. EndOfRun(match_.next, match_.m.length, "after_match")
      BY <3>2, <3>3
    <3>5. QED
      BY <3>1, <3>4
  <2>6. Goes(k2, z)
    <3>1. k2.text = e.text /\ k2.format = e.format /\ k2.points = k.points \cup {q}
      OBVIOUS
    <3> HIDE DEF k2
    <3>2. OffsetTo(k2, z, len, o) = q /\ (Copies(k2, z, len, o) <=> Copies(e, z, len, o))
      BY <3>1, SameCommands
    <3> HIDE DEF q
    <3>3. ByOffset(k2, z, len, o)
      BY <2>1, <3>1, <3>2 DEF ByOffset
    <3>4. QED
      BY <3>3 DEF Goes
  <2>7. Len(z.s.data) <= Len(q.s.data)
    BY <1>4, <2>1, OffsetGrows
  <2>8. k2 = [full |-> e.full, text |-> e.text, format |-> e.format, points |-> k.points \cup {q}]
    OBVIOUS
  <2> HIDE DEF q, k2, b
  <2>9. /\ q.state \in {1, 2} /\ q.state # 1
        /\ "after_match" = IF q.state = 1 THEN "after_literals" ELSE "after_match"
    BY <2>2
  <2>10. QED
    BY <1>1, <1>2, <2>2, <2>3, <2>4, <2>5, <2>6, <2>7, <2>8, <2>9, RunEnds
<1>11. QED
  BY <1>6, <1>8, <1>9, <1>10 DEF Goes

(***************************************************************************)
(* The steps that leave the adjustment as it is.                           *)
(***************************************************************************)
LEMMA AdjustedKept ==
  ASSUME UNCHANGED <<vars, adjustVars, packed_data>>,
         apc' = apc \/ (apc = "cut" /\ apc' \in {"loaded", "refused"}),
         NEW e, NEW c, NEW k, NEW z, Adjusted(e, c, k, z)
  PROVE  Adjusted(e, c, k, z)'
<1>1. /\ (Adjusting' <=> Adjusting) /\ (AfterCut' <=> AfterCut) /\ (Adjusting => apc' = apc)
  BY DEF Adjusting, AfterCut
<1>2. IsOf(e)' /\ Counters(z)' /\ GapsOf(k, z)'
  BY DEF Adjusted, IsOf, Counters, GapsOf, vars, adjustVars
<1>3. Adjusting' => Sized(c)' /\ ParserAt(e, z)'
  BY <1>1 DEF Adjusted, Sized, ParserAt, adjustVars
<1>4. AfterCut' => Cut(z)'
  BY <1>1 DEF Adjusted, Cut, data, vars
<1>5. QED
  BY <1>2, <1>3, <1>4 DEF Adjusted

LEMMA AdjustKept ==
  ASSUME AdjustInv, UNCHANGED <<vars, adjustVars, packed_data>>,
         apc' = apc \/ (apc = "cut" /\ apc' \in {"loaded", "refused"})
  PROVE  AdjustInv'
<1>1. PackInv' /\ gaps' \in Seq(Int)
  BY PackStutter DEF AdjustInv, adjustVars
<1>2. /\ (apc' = "idle" <=> apc = "idle") /\ (Adjusting' <=> Adjusting) /\ (AfterCut' <=> AfterCut)
  BY DEF Adjusting, AfterCut
<1>3. CASE apc = "idle"
  <2>1. cursor' = Cursor(0) /\ unpacked_index' = 0 /\ safe_input_index' = 0
        /\ safe_output_index' = 0 /\ gaps' = <<>>
    BY <1>3 DEF AdjustInv, adjustVars
  <2>2. QED
    BY <1>1, <1>2, <1>3, <2>1 DEF AdjustInv
<1>4. CASE apc # "idle"
  <2>1. wpc' = "written"
    BY <1>4 DEF AdjustInv, vars
  <2>2. PICK e, c, k, z : Adjusted(e, c, k, z)
    BY <1>4 DEF AdjustInv
  <2>3. Adjusted(e, c, k, z)'
    BY <2>2, AdjustedKept
  <2>4. Adjusting' \/ AfterCut'
    BY <1>2, <1>4 DEF AdjustInv
  <2>5. QED
    BY <1>1, <1>2, <1>4, <2>1, <2>3, <2>4 DEF AdjustInv
<1>5. QED
  BY <1>3, <1>4

LEMMA AdjustUnderWrite == AdjustInv /\ Write => AdjustInv'
<1> SUFFICES ASSUME AdjustInv, Write
             PROVE  AdjustInv'
  OBVIOUS
<1>1. Next /\ UNCHANGED <<apc, adjustVars, packed_data>>
  BY DEF Write
<1>2. apc = "idle"
  BY <1>1, WriterRests DEF AdjustInv
<1>3. PackInv'
  BY <1>1, PackNext DEF AdjustInv
<1>4. QED
  BY <1>1, <1>2, <1>3 DEF AdjustInv, adjustVars

LEMMA AdjustInductive == AdjustInv /\ [InplaceNext]_inplaceVars => AdjustInv'
<1> SUFFICES ASSUME AdjustInv, [InplaceNext]_inplaceVars
             PROVE  AdjustInv'
  OBVIOUS
<1>1. CASE Write
  BY <1>1, AdjustUnderWrite
<1>2. CASE AdjustStart
  BY <1>2, StartStep
<1>3. CASE AdjustLiterals
  BY <1>3, LiteralsStep
<1>4. CASE AdjustCommand
  BY <1>4, CommandStep
<1>5. CASE Load
  <2>1. UNCHANGED <<vars, adjustVars, packed_data>> /\ apc = "cut" /\ apc' \in {"loaded", "refused"}
    BY <1>5 DEF Load
  <2>2. QED
    BY <2>1, AdjustKept
<1>6. CASE lz_literal
  <2>1. UNCHANGED <<vars, adjustVars, packed_data>> /\ apc' = apc
    BY <1>6 DEF lz_literal
  <2>2. QED
    BY <2>1, AdjustKept
<1>7. CASE lz_cp_lit
  <2>1. UNCHANGED <<vars, adjustVars, packed_data>> /\ apc' = apc
    BY <1>7 DEF lz_cp_lit
  <2>2. QED
    BY <2>1, AdjustKept
<1>8. CASE lz_command
  <2>1. UNCHANGED <<vars, adjustVars, packed_data>> /\ apc' = apc
    BY <1>8 DEF lz_command
  <2>2. QED
    BY <2>1, AdjustKept
<1>9. CASE lz_cp_match
  <2>1. UNCHANGED <<vars, adjustVars, packed_data>> /\ apc' = apc
    BY <1>9 DEF lz_cp_match
  <2>2. QED
    BY <2>1, AdjustKept
<1>10. CASE UNCHANGED inplaceVars
  <2>1. UNCHANGED <<vars, adjustVars, packed_data>> /\ apc' = apc
    BY <1>10 DEF inplaceVars
  <2>2. QED
    BY <2>1, AdjustKept
<1>11. QED
  BY <1>1, <1>2, <1>3, <1>4, <1>5, <1>6, <1>7, <1>8, <1>9, <1>10 DEF InplaceNext, InplaceStep

LEMMA AdjustInvHolds == InplaceSpec => []AdjustInv
  BY AdjustInit, AdjustInductive, PTL DEF InplaceSpec

(***************************************************************************)
(* adjust_inplace_stream finds the end mark of every stream the writer     *)
(* makes where it looks for it, never runs out of bytes once the mark is   *)
(* off, and always cuts: the decoder never gets a stream with its mark.    *)
(***************************************************************************)
THEOREM AdjustmentAlwaysCuts == InplaceSpec => []AdjustmentSucceeds
<1>1. AdjustInv => AdjustmentSucceeds
  BY DEF AdjustInv, Adjusting, AfterCut, AdjustmentSucceeds
<1>2. QED
  BY <1>1, AdjustInvHolds, PTL

-----------------------------------------------------------------------------

(***************************************************************************)
(* The decoder over the memory in which the file ends where the original   *)
(* ends.  The points k of the trail up to z, where the stream was cut, are *)
(* the only ones it meets; the stream is Gap(z) bytes behind the start.    *)
(***************************************************************************)
Loaded(z) ==
  /\ mem \in Seq(Byte) /\ Len(mem) = Len(window) /\ lz_dst \in Nat /\ at.src \in Nat
  /\ Gap(z) \in Nat /\ Gap(z) >= 2
  /\ \A p \in 1 .. lz_dst : mem[p] = window[p]
  /\ \A j \in 1 .. Len(z.s.data) : Gap(z) + j > at.src => mem[Gap(z) + j] = data[j]
  /\ \A p \in z.n + 1 .. Len(window) : mem[p] = window[p]

Run(r, len) == PutBits(Base(r), Code(len, 0))

BeforeRun(e, k, z, r, len) ==
  /\ r \in k.points /\ ByLiterals(k, r, len)
  /\ Stands(e.full, Gap(z), Base(r), at)
  /\ lz_dst = r.n /\ lz_dst < at.src /\ lz_offset = r.last

InRun(e, k, z, r, len) ==
  /\ r \in k.points /\ ByLiterals(k, r, len) /\ count \in 1 .. len
  /\ CursorOK(at) /\ at.src = Gap(z) + Len(Run(r, len).data) + (len - count)
  /\ Stands(e.full, Gap(z), LiteralsTo(k, r, len).s, AfterBytes(at, count))
  /\ lz_dst = r.n + (len - count) /\ lz_dst < at.src /\ lz_offset = r.last

BeforeCommand(e, k, z, r) ==
  /\ r \in k.points /\ r.state = IF dpc = "after_literals" THEN 1 ELSE 2
  /\ Stands(e.full, Gap(z), r.s, at)
  /\ lz_dst = r.n /\ lz_dst < at.src /\ lz_offset = r.last

InMatch(e, k, z, r, q, len) ==
  /\ r \in k.points /\ q \in k.points /\ q.state = 2 /\ q.n = r.n + len
  /\ Copies(k, r, len, q.last) /\ lz_offset = q.last
  /\ count \in 1 .. len /\ lz_dst = r.n + (len - count) /\ lz_dst <= at.src
  /\ Stands(e.full, Gap(z), q.s, at)

AtMeeting(e, k, z, r) ==
  /\ r \in k.points /\ r.state = 2 /\ Stands(e.full, Gap(z), r.s, at)
  /\ lz_dst = r.n /\ lz_dst = at.src

DecoderAt(e, k, z) ==
  \/ dpc = "literals" /\ \E r, len : BeforeRun(e, k, z, r, len)
  \/ dpc = "copy_literals" /\ \E r, len : InRun(e, k, z, r, len)
  \/ dpc \in {"after_literals", "after_match"} /\ \E r : BeforeCommand(e, k, z, r)
  \/ dpc = "copy_match" /\ \E r, q, len : InMatch(e, k, z, r, q, len)
  \/ dpc = "done" /\ \E r : AtMeeting(e, k, z, r)

InStep(e, c, k, z) == Adjusted(e, c, k, z) /\ Loaded(z) /\ DecoderAt(e, k, z)

(* What happens after an overrun is not followed. *)
MachineInv ==
  /\ apc = "loaded" <=> dpc # "idle"
  /\ overrun \in BOOLEAN
  /\ dpc = "idle" => ~overrun
  /\ SoundCut => ~overrun
  /\ dpc # "idle" /\ ~overrun => \E e, c, k, z : InStep(e, c, k, z)

(***************************************************************************)
(* The sizes of the points.                                                *)
(***************************************************************************)
LEMMA PointSizes ==
  ASSUME NEW e, NEW c, NEW k, NEW z, Trail(e, c, k, z), IsOf(e)
  PROVE  /\ Len(window) \in Nat /\ window \in Seq(Byte) /\ window = e.text
         /\ z.n \in Nat /\ Len(z.s.data) \in Nat /\ z.n < Len(window)
         /\ Len(data) \in Nat /\ Len(z.s.data) <= Len(data)
         /\ data = e.full.data /\ StreamOK(e.full) /\ data \in Seq(Byte)
         /\ \A r \in k.points : /\ r \in e.points /\ StreamOK(r.s)
                                /\ r.n \in Nat /\ Len(r.s.data) \in Nat
                                /\ r.n <= z.n /\ Len(r.s.data) <= Len(z.s.data)
                                /\ r.state \in 0 .. 2
<1>1. Explains(e) /\ z \in k.points /\ k.points \subseteq e.points
  BY DEF Trail
<1>2. /\ window = e.text /\ window \in Seq(Byte) /\ Len(window) \in Nat
      /\ data = e.full.data /\ StreamOK(e.full)
  BY <1>1 DEF Explains, TextOK, IsOf, data
<1>3. /\ Len(data) \in Nat
      /\ \A q \in e.points : Len(q.s.data) \in Nat /\ Len(q.s.data) <= Len(data)
                             /\ 0 <= Len(q.s.data)
  BY <1>1, AllThere
<1>4. \A r \in k.points : r \in e.points /\ StreamOK(r.s) /\ r.n \in Nat /\ r.state \in 0 .. 2
  BY <1>1, <1>2 DEF Explains, PointOK
<1>5. \A r \in k.points : r.n <= z.n /\ Len(r.s.data) <= Len(z.s.data)
  BY DEF Trail
<1>6. z.n < Len(window)
  BY <1>2 DEF Trail
<1>7. data \in Seq(Byte)
  BY <1>2 DEF StreamOK
<1>8. QED
  BY <1>1, <1>2, <1>3, <1>4, <1>5, <1>6, <1>7

(* What is still to be read is there. *)
LEMMA StillThere ==
  ASSUME NEW e, NEW c, NEW k, NEW z, Trail(e, c, k, z), IsOf(e), Loaded(z),
         NEW s, Len(s.data) \in Nat, at.src = Gap(z) + Len(s.data)
  PROVE  Fed(mem, Gap(z), e.full, Len(s.data), Len(z.s.data))
<1>1. /\ Len(window) \in Nat /\ z.n \in Nat /\ Len(z.s.data) \in Nat /\ z.n < Len(window)
      /\ Len(z.s.data) <= Len(data) /\ data = e.full.data /\ StreamOK(e.full)
  BY PointSizes
<1>2. /\ mem \in Seq(Byte) /\ Len(mem) = Len(window) /\ Gap(z) \in Nat
      /\ \A j \in 1 .. Len(z.s.data) : Gap(z) + j > at.src => mem[Gap(z) + j] = data[j]
  BY DEF Loaded
<1>3. Gap(z) + Len(z.s.data) <= Len(mem)
  BY <1>1, <1>2 DEF Gap
<1>4. ASSUME NEW j \in Len(s.data) + 1 .. Len(z.s.data)
      PROVE  mem[Gap(z) + j] = e.full.data[j]
  <2>1. PICK l, g \in Nat : l = Len(s.data) /\ g = Gap(z)
    BY <1>2
  <2>2. j \in 1 .. Len(z.s.data) /\ g + j > g + l
    BY <1>1, <2>1
  <2>3. QED
    BY <1>1, <1>2, <2>1, <2>2
<1>5. QED
  BY <1>1, <1>2, <1>3, <1>4 DEF Fed

(* A command of the trail is one of the explanation. *)
LEMMA TrailCommands ==
  ASSUME NEW e, NEW c, NEW k, NEW z, Trail(e, c, k, z)
  PROVE  /\ \A r, len : ByLiterals(k, r, len) =>
              /\ ByLiterals(e, r, len) /\ LiteralsTo(k, r, len) = LiteralsTo(e, r, len)
              /\ LiteralsTo(e, r, len) \in k.points
         /\ \A r, len : ByRepeat(k, r, len) =>
              /\ ByRepeat(e, r, len) /\ RepeatTo(e, r, len) \in k.points
              /\ Copies(k, r, len, r.last)
         /\ \A r, len, o : ByOffset(k, r, len, o) =>
              /\ ByOffset(e, r, len, o) /\ OffsetTo(e, r, len, o) \in k.points
              /\ Copies(k, r, len, o)
<1>1. k.text = e.text /\ k.format = e.format /\ k.points \subseteq e.points
  BY DEF Trail
<1>2. \A r, len, o : /\ LiteralsTo(k, r, len) = LiteralsTo(e, r, len)
                     /\ RepeatTo(k, r, len) = RepeatTo(e, r, len)
                     /\ OffsetTo(k, r, len, o) = OffsetTo(e, r, len, o)
                     /\ Copies(k, r, len, o) <=> Copies(e, r, len, o)
  BY <1>1, SameCommands
<1>3. ASSUME NEW r, NEW len, ByLiterals(k, r, len)
      PROVE  /\ ByLiterals(e, r, len) /\ LiteralsTo(k, r, len) = LiteralsTo(e, r, len)
             /\ LiteralsTo(e, r, len) \in k.points
  BY <1>1, <1>2, <1>3 DEF ByLiterals
<1>4. ASSUME NEW r, NEW len, ByRepeat(k, r, len)
      PROVE  /\ ByRepeat(e, r, len) /\ RepeatTo(e, r, len) \in k.points
             /\ Copies(k, r, len, r.last)
  BY <1>1, <1>2, <1>4 DEF ByRepeat
<1>5. ASSUME NEW r, NEW len, NEW o, ByOffset(k, r, len, o)
      PROVE  /\ ByOffset(e, r, len, o) /\ OffsetTo(e, r, len, o) \in k.points
             /\ Copies(k, r, len, o)
  BY <1>1, <1>2, <1>5 DEF ByOffset
<1>6. QED
  BY <1>3, <1>4, <1>5

(* A byte of the output. *)
LEMMA ByteWritten ==
  ASSUME NEW z, Loaded(z), Len(window) \in Nat, window \in Seq(Byte), UNCHANGED vars,
         z.n \in Nat, Len(z.s.data) \in Nat, z.n < Len(window),
         lz_dst + 1 <= Len(window), mem' = [mem EXCEPT ![lz_dst + 1] = window[lz_dst + 1]],
         lz_dst' = lz_dst + 1, at'.src \in Nat, at.src <= at'.src, lz_dst + 1 <= at'.src
  PROVE  Loaded(z)'
<1>1. window' = window /\ data' = data
  BY DEF vars, data
<1>2. /\ mem \in Seq(Byte) /\ Len(mem) = Len(window) /\ lz_dst \in Nat /\ at.src \in Nat
      /\ Gap(z) \in Nat /\ Gap(z) >= 2
      /\ \A p \in 1 .. lz_dst : mem[p] = window[p]
      /\ \A j \in 1 .. Len(z.s.data) : Gap(z) + j > at.src => mem[Gap(z) + j] = data[j]
      /\ \A p \in z.n + 1 .. Len(window) : mem[p] = window[p]
  BY DEF Loaded
<1>3. lz_dst + 1 \in 1 .. Len(window)
  BY <1>2
<1>4. window[lz_dst + 1] \in Byte /\ mem' \in Seq(Byte) /\ Len(mem') = Len(window)
  BY <1>2, <1>3
<1>5. /\ \A p : p \in DOMAIN mem /\ p # lz_dst + 1 => mem'[p] = mem[p]
      /\ mem'[lz_dst + 1] = window[lz_dst + 1]
  BY <1>2, <1>3
<1>6. DOMAIN mem = 1 .. Len(window)
  BY <1>2
<1>7. \A p \in 1 .. lz_dst + 1 : mem'[p] = window[p]
  BY <1>2, <1>3, <1>5, <1>6
<1>8. ASSUME NEW j \in 1 .. Len(z.s.data), Gap(z) + j > at'.src
      PROVE  mem'[Gap(z) + j] = data[j]
  <2>1. mem[Gap(z) + j] = data[j] /\ Gap(z) + j # lz_dst + 1
    BY <1>2, <1>8
  <2>2. Gap(z) + j \in DOMAIN mem
    BY <1>2, <1>6 DEF Gap
  <2>3. QED
    BY <1>5, <2>1, <2>2
<1>9. ASSUME NEW p \in z.n + 1 .. Len(window)
      PROVE  mem'[p] = window[p]
  BY <1>2, <1>5, <1>6
<1>10. QED
  BY <1>1, <1>2, <1>4, <1>7, <1>8, <1>9 DEF Loaded

(* One sequence behind another, and the beginning of one before the rest of another. *)
LEMMA Behind ==
  ASSUME NEW a \in Seq(Byte), NEW b \in Seq(Byte),
         NEW la \in Nat, la = Len(a), NEW lb \in Nat, lb = Len(b)
  PROVE  /\ a \o b \in Seq(Byte) /\ Len(a \o b) = la + lb
         /\ \A j \in 1 .. la : (a \o b)[j] = a[j]
         /\ \A j \in 1 .. lb : (a \o b)[la + j] = b[j]
<1>1. /\ a \o b \in Seq(Byte) /\ Len(a \o b) = la + lb
      /\ \A p \in 1 .. la + lb : (a \o b)[p] = IF p <= la THEN a[p] ELSE b[p - la]
  BY ConcatProperties
<1>2. ASSUME NEW j \in 1 .. la
      PROVE  (a \o b)[j] = a[j]
  BY <1>1
<1>3. ASSUME NEW j \in 1 .. lb
      PROVE  (a \o b)[la + j] = b[j]
  <2>1. la + j \in 1 .. la + lb /\ ~(la + j <= la) /\ (la + j) - la = j
    OBVIOUS
  <2>2. QED
    BY <1>1, <2>1
<1>4. QED
  BY <1>1, <1>2, <1>3

LEMMA HeadOf ==
  ASSUME NEW a \in Seq(Byte), NEW l \in Nat, l <= Len(a)
  PROVE  /\ SubSeq(a, 1, l) \in Seq(Byte) /\ Len(SubSeq(a, 1, l)) = l
         /\ \A j \in 1 .. l : SubSeq(a, 1, l)[j] = a[j]
<1>1. \A p \in 1 .. l : a[p] \in Byte
  OBVIOUS
<1>2. QED
  BY <1>1, SubSeqProperties

LEMMA RestOf ==
  ASSUME NEW b \in Seq(Byte), NEW n \in Nat, NEW nb \in Nat, NEW d \in Nat, nb = Len(b), d = nb - n
  PROVE  /\ SubSeq(b, n + 1, nb) \in Seq(Byte) /\ Len(SubSeq(b, n + 1, nb)) = d
         /\ \A j \in 1 .. d : SubSeq(b, n + 1, nb)[j] = b[n + j]
<1> DEFINE y == SubSeq(b, n + 1, nb)
<1>1. \A p \in n + 1 .. nb : b[p] \in Byte
  OBVIOUS
<1>2. /\ y \in Seq(Byte) /\ Len(y) = IF n + 1 <= nb THEN (nb - (n + 1)) + 1 ELSE 0
      /\ \A j \in 1 .. (nb - (n + 1)) + 1 : y[j] = b[(n + 1 + j) - 1]
  BY <1>1, SubSeqProperties
<1>3. /\ (nb - (n + 1)) + 1 = d /\ \A j \in 1 .. d : (n + 1 + j) - 1 = n + j
      /\ d = IF n + 1 <= nb THEN (nb - (n + 1)) + 1 ELSE 0
  OBVIOUS
<1> HIDE DEF y
<1>4. y \in Seq(Byte) /\ Len(y) = d /\ \A j \in 1 .. d : y[j] = b[n + j]
  BY <1>2, <1>3
<1>5. QED
  BY <1>4 DEF y

(* The stream as it is cut: the kept part, and the rest of the text. *)
Parts(z, l, n, w, m) ==
  /\ l = Len(z.s.data) /\ n = z.n /\ w = Len(window) /\ m = w - n
  /\ packed_data \in Seq(Byte) /\ Len(packed_data) = l + m
  /\ \A j \in 1 .. l : packed_data[j] = data[j]
  /\ \A j \in 1 .. m : packed_data[l + j] = window[n + j]

LEMMA CutParts ==
  ASSUME NEW e, NEW c, NEW k, NEW z, Trail(e, c, k, z), IsOf(e), Cut(z)
  PROVE  \E l, n, w, m \in Nat : Parts(z, l, n, w, m)
<1>1. /\ Len(window) \in Nat /\ window \in Seq(Byte)
      /\ z.n \in Nat /\ Len(z.s.data) \in Nat /\ z.n < Len(window)
      /\ Len(z.s.data) <= Len(data) /\ data \in Seq(Byte)
  BY PointSizes
<1>2. PICK l, n, w, m \in Nat : l = Len(z.s.data) /\ n = z.n /\ w = Len(window) /\ m = w - n
  <2>1. Len(window) - z.n \in Nat
    BY <1>1
  <2>2. QED
    BY <1>1, <2>1
<1>3. packed_data = SubSeq(data, 1, l) \o SubSeq(window, n + 1, w)
  BY <1>2 DEF Cut
<1> DEFINE x == SubSeq(data, 1, l)
           y == SubSeq(window, n + 1, w)
<1>4. x \in Seq(Byte) /\ l = Len(x) /\ \A j \in 1 .. l : x[j] = data[j]
  <2>1. l \in Nat /\ l <= Len(data) /\ data \in Seq(Byte)
    BY <1>1, <1>2
  <2>2. /\ SubSeq(data, 1, l) \in Seq(Byte) /\ Len(SubSeq(data, 1, l)) = l
        /\ \A j \in 1 .. l : SubSeq(data, 1, l)[j] = data[j]
    BY <2>1, HeadOf
  <2>3. QED
    BY <2>2
<1>5. y \in Seq(Byte) /\ m = Len(y) /\ \A j \in 1 .. m : y[j] = window[n + j]
  <2>1. window \in Seq(Byte) /\ w = Len(window) /\ m = w - n
    BY <1>1, <1>2
  <2>2. /\ SubSeq(window, n + 1, w) \in Seq(Byte) /\ Len(SubSeq(window, n + 1, w)) = m
        /\ \A j \in 1 .. m : SubSeq(window, n + 1, w)[j] = window[n + j]
    BY <2>1, RestOf
  <2>3. QED
    BY <2>2
<1> HIDE DEF x, y
<1>6. /\ x \o y \in Seq(Byte) /\ Len(x \o y) = l + m
      /\ \A j \in 1 .. l : (x \o y)[j] = x[j]
      /\ \A j \in 1 .. m : (x \o y)[l + j] = y[j]
  BY <1>4, <1>5, Behind
<1>7. packed_data = x \o y
  BY <1>3 DEF x, y
<1>8. /\ packed_data \in Seq(Byte) /\ Len(packed_data) = l + m
      /\ \A j \in 1 .. l : packed_data[j] = data[j]
      /\ \A j \in 1 .. m : packed_data[l + j] = window[n + j]
  BY <1>4, <1>5, <1>6, <1>7
<1>9. Parts(z, l, n, w, m)
  BY <1>2, <1>8 DEF Parts
<1>10. QED
  BY <1>9

LEMMA LoadArithmetic ==
  ASSUME NEW l \in Nat, NEW n \in Nat, NEW w \in Nat, NEW m \in Nat, m = w - n, ~((l + m) + 2 > w)
  PROVE  /\ n - l \in Nat /\ n - l >= 2 /\ w - (l + m) = n - l /\ n = (n - l) + l
         /\ w = (n - l) + (l + m)
  OBVIOUS

(* The file is loaded. *)
LEMMA LoadStep == AdjustInv /\ MachineInv /\ Load => MachineInv'
<1> SUFFICES ASSUME AdjustInv, MachineInv, Load
             PROVE  MachineInv'
  OBVIOUS
<1>1. apc = "cut" /\ UNCHANGED <<vars, adjustVars, packed_data>> /\ apc' \in {"loaded", "refused"}
  BY DEF Load
<1>2. dpc = "idle" /\ overrun = FALSE
  BY <1>1 DEF MachineInv
<1>3. overrun' = FALSE
  BY <1>2 DEF Load, machineVars
<1>4. CASE Len(packed_data) + 2 > unpacked_size
  <2>1. apc' = "refused" /\ dpc' = dpc
    BY <1>4 DEF Load, machineVars
  <2>2. QED
    BY <1>2, <1>3, <2>1 DEF MachineInv
<1>5. CASE ~(Len(packed_data) + 2 > unpacked_size)
  <2>1. /\ apc' = "loaded" /\ dpc' = "literals"
        /\ mem' = [p \in 1 .. Len(window) - Len(packed_data) |-> 0] \o packed_data
        /\ at' = Cursor(Len(window) - Len(packed_data))
        /\ lz_dst' = 0 /\ lz_offset' = 1
    BY <1>5 DEF Load, unpacked_size
  <2>2. PICK e, c, k, z : Adjusted(e, c, k, z)
    BY <1>1 DEF AdjustInv
  <2>3. Adjusted(e, c, k, z)'
    BY <1>1, <2>2, AdjustedKept
  <2>4. Trail(e, c, k, z) /\ IsOf(e) /\ Cut(z)
    BY <1>1, <2>2 DEF Adjusted, AfterCut
  <2>5. /\ Len(window) \in Nat /\ window \in Seq(Byte)
        /\ z.n \in Nat /\ Len(z.s.data) \in Nat /\ z.n < Len(window)
        /\ Len(data) \in Nat /\ Len(z.s.data) <= Len(data) /\ data \in Seq(Byte)
    BY <2>4, PointSizes
  <2>6. PICK l, n, w, m \in Nat : Parts(z, l, n, w, m)
    BY <2>4, CutParts
  <2>7. l = Len(z.s.data) /\ n = z.n /\ w = Len(window) /\ m = w - n
    BY <2>6 DEF Parts
  <2>8. /\ packed_data \in Seq(Byte) /\ Len(packed_data) = l + m
        /\ \A j \in 1 .. l : packed_data[j] = data[j]
        /\ \A j \in 1 .. m : packed_data[l + j] = window[n + j]
    BY <2>6 DEF Parts
  <2>9. PICK g \in Nat : g = Gap(z) /\ g >= 2 /\ w - (l + m) = g /\ n = g + l /\ w = g + (l + m)
    <3>1. ~((l + m) + 2 > w)
      BY <1>5, <2>7, <2>8 DEF unpacked_size
    <3>2. m = w - n
      BY <2>7
    <3>3. /\ n - l \in Nat /\ n - l >= 2 /\ w - (l + m) = n - l /\ n = (n - l) + l
          /\ w = (n - l) + (l + m)
      BY <3>1, <3>2, LoadArithmetic
    <3>4. Gap(z) = n - l
      BY <2>7 DEF Gap
    <3>5. QED
      BY <3>3, <3>4
  <2> DEFINE front == [p \in 1 .. g |-> 0]
  <2>10. front \in Seq(Byte) /\ Len(front) = g
    <3>1. 0 \in Byte
      BY FormatAssumption DEF Byte
    <3>2. QED
      BY SMTT(20), <2>9, <3>1
  <2>11. /\ mem' \in Seq(Byte) /\ Len(mem') = Len(window)
         /\ \A j \in 1 .. l + m : mem'[g + j] = packed_data[j]
    <3>1. mem' = front \o packed_data
      BY <2>1, <2>7, <2>8, <2>9
    <3> HIDE DEF front
    <3>2. l + m \in Nat
      BY SMTT(20), <2>7
    <3>3. /\ mem' \in Seq(Byte) /\ Len(mem') = g + (l + m)
          /\ \A j \in 1 .. l + m : mem'[g + j] = packed_data[j]
      <4>1. packed_data \in Seq(Byte) /\ l + m = Len(packed_data) /\ front \in Seq(Byte)
            /\ g = Len(front)
        BY <2>8, <2>10
      <4>2. PICK lm \in Nat : lm = l + m
        BY <3>2
      <4>3. lm = Len(packed_data)
        BY <4>1, <4>2
      <4>4. /\ front \o packed_data \in Seq(Byte) /\ Len(front \o packed_data) = g + lm
            /\ \A j \in 1 .. lm : (front \o packed_data)[g + j] = packed_data[j]
        BY <4>1, <4>3, Behind
      <4>5. QED
        BY <3>1, <4>2, <4>4
    <3>4. QED
      BY <2>7, <2>9, <3>3
  <2> HIDE DEF front
  <2>12. at' = Cursor(Gap(z)) /\ at'.src = Gap(z) /\ Gap(z) \in Nat /\ Gap(z) >= 2
    BY <2>1, <2>7, <2>8, <2>9 DEF Cursor
  <2>13. \A j \in 1 .. Len(z.s.data) : mem'[Gap(z) + j] = data[j]
    <3>1. \A j \in 1 .. l : j \in 1 .. l + m
      BY SMTT(20), <2>7
    <3>2. \A j \in 1 .. l : mem'[g + j] = data[j]
      BY <2>8, <2>11, <3>1
    <3>3. QED
      BY <2>7, <2>9, <3>2
  <2>14. \A p \in z.n + 1 .. Len(window) : mem'[p] = window[p]
    <3>1. ASSUME NEW p \in n + 1 .. w
          PROVE  mem'[p] = window[p]
      <4>1. PICK j \in 1 .. m : p = n + j
        <5>1. p - n \in 1 .. m /\ p = n + (p - n)
          BY SMTT(20), <2>7
        <5>2. QED
          BY <5>1
      <4>2. l + j \in 1 .. l + m /\ g + (l + j) = n + j
        <5>1. n = g + l
          BY <2>9
        <5>2. QED
          BY <5>1
      <4>3. mem'[g + (l + j)] = packed_data[l + j] /\ packed_data[l + j] = window[n + j]
        BY <2>8, <2>11, <4>2
      <4>4. QED
        BY <4>1, <4>2, <4>3
    <3>2. QED
      BY <2>7, <3>1
  <2>15. window' = window /\ data' = data
    BY <1>1 DEF vars, data
  <2>16. Loaded(z)'
    <3>1. lz_dst' = 0 /\ \A p \in 1 .. 0 : FALSE
      BY <2>1
    <3>2. /\ (mem \in Seq(Byte) /\ Len(mem) = Len(window))' /\ lz_dst' \in Nat /\ at'.src \in Nat
          /\ \A p \in 1 .. lz_dst' : mem'[p] = window'[p]
      BY <2>11, <2>12, <2>15, <3>1
    <3>3. \A j \in 1 .. Len(z.s.data) : mem'[Gap(z) + j] = data'[j]
      BY <2>13, <2>15
    <3>4. \A p \in z.n + 1 .. Len(window') : mem'[p] = window'[p]
      BY <2>14, <2>15
    <3>5. QED
      BY <2>12, <3>2, <3>3, <3>4 DEF Loaded
  <2>17. StartPoint \in k.points /\ StartPoint # z /\ Goes(k, StartPoint)
    <3>1. Gap(StartPoint) = 0
      BY DEF Gap, StartPoint, EmptyStream
    <3>2. QED
      BY <2>4, <2>12, <3>1 DEF Trail
  <2>18. PICK len : ByLiterals(k, StartPoint, len)
    BY <2>17 DEF Goes, ByRepeat, ByOffset, StartPoint
  <2>19. Stands(e.full, Gap(z), Base(StartPoint), Cursor(Gap(z)))
    <3>1. Base(StartPoint) = EmptyStream
      BY DEF Base, StartPoint
    <3>2. /\ EmptyStream.bit_shift = -1 /\ Len(EmptyStream.data) = 0
      BY DEF EmptyStream
    <3>3. CursorOK(Cursor(Gap(z))) /\ Cursor(Gap(z)).src = Gap(z) /\ Cursor(Gap(z)).left = 0
      <4>1. 0 \in Byte /\ 0 \in 0 .. ByteBits - 1
        BY FormatAssumption DEF Byte
      <4>2. QED
        BY <2>12, <4>1 DEF CursorOK, Cursor
    <3>4. QED
      BY <2>12, <3>1, <3>2, <3>3 DEF Stands
  <2>20. BeforeRun(e, k, z, StartPoint, len)'
    BY <2>1, <2>12, <2>17, <2>18, <2>19 DEF BeforeRun, StartPoint
  <2>21. DecoderAt(e, k, z)'
    BY <2>1, <2>20 DEF DecoderAt
  <2>22. InStep(e, c, k, z)'
    BY <2>3, <2>16, <2>21 DEF InStep
  <2>23. QED
    BY <1>3, <2>1, <2>22 DEF MachineInv
<1>6. QED
  BY <1>4, <1>5

(***************************************************************************)
(* What every step of the decoder leaves: the adjustment, and what is      *)
(* known of the invariant's other parts.                                   *)
(***************************************************************************)
LEMMA StepKeeps ==
  ASSUME MachineInv, UNCHANGED <<vars, apc, adjustVars, packed_data>>, dpc # "idle", dpc' # "idle",
         overrun' \in BOOLEAN, SoundCut => ~overrun',
         ~overrun' => \E e, c, k, z : Adjusted(e, c, k, z) /\ Loaded(z)' /\ DecoderAt(e, k, z)'
  PROVE  MachineInv'
<1>1. /\ apc' = "loaded" <=> dpc' # "idle"
      /\ overrun' \in BOOLEAN /\ (SoundCut' => ~overrun')
  BY DEF MachineInv, SoundCut, adjustVars
<1>2. ASSUME ~overrun'
      PROVE  \E e, c, k, z : InStep(e, c, k, z)'
  <2>1. PICK e, c, k, z : Adjusted(e, c, k, z) /\ Loaded(z)' /\ DecoderAt(e, k, z)'
    BY <1>2
  <2>2. Adjusted(e, c, k, z)'
    BY <2>1, AdjustedKept
  <2>3. InStep(e, c, k, z)'
    BY <2>1, <2>2 DEF InStep
  <2>4. QED
    BY <2>3
<1>3. QED
  BY <1>1, <1>2 DEF MachineInv

(* A step that reads: the memory stays, and the cursor only goes forward. *)
LEMMA LoadedStays ==
  ASSUME NEW z, Loaded(z), UNCHANGED <<vars, mem, lz_dst>>, at'.src \in Nat, at.src <= at'.src
  PROVE  Loaded(z)'
<1>1. window' = window /\ data' = data
  BY DEF vars, data
<1>2. \A j \in 1 .. Len(z.s.data) : Gap(z) + j > at'.src => mem[Gap(z) + j] = data[j]
  <2>1. ASSUME NEW j \in 1 .. Len(z.s.data), Gap(z) + j > at'.src
        PROVE  Gap(z) + j > at.src
    <3>1. Gap(z) + j \in Int /\ at.src \in Nat
      BY DEF Loaded
    <3>2. QED
      BY <2>1, <3>1
  <2>2. QED
    BY <2>1 DEF Loaded
<1>3. QED
  BY <1>1, <1>2 DEF Loaded

(* Where the decoder may be, it still is in the memory. *)
LEMMA Inside ==
  ASSUME NEW e, NEW c, NEW k, NEW z, Trail(e, c, k, z), IsOf(e), Loaded(z),
         NEW s, Len(s.data) \in Nat, Len(s.data) <= Len(z.s.data),
         NEW b, Stands(e.full, Gap(z), s, b)
  PROVE  /\ CursorOK(b) /\ b.src \in Nat /\ b.src = Gap(z) + Len(s.data)
         /\ b.src <= z.n /\ ~(b.src > Len(mem))
<1>1. CursorOK(b) /\ b.src = Gap(z) + Len(s.data)
  BY DEF Stands
<1>2. Len(window) \in Nat /\ z.n \in Nat /\ Len(z.s.data) \in Nat /\ z.n < Len(window)
  BY PointSizes
<1>3. Len(mem) = Len(window) /\ Gap(z) \in Nat
  BY DEF Loaded
<1>4. PICK l, m, n, g, w \in Nat : /\ l = Len(s.data) /\ m = Len(z.s.data) /\ n = z.n
                                   /\ g = Gap(z) /\ w = Len(window)
  BY <1>2, <1>3
<1>5. g = n - m
  BY <1>4 DEF Gap
<1>6. l <= m /\ n < w
  BY <1>2, <1>4
<1>7. g + l <= n /\ ~(g + l > w) /\ g + l \in Nat
  BY <1>5, <1>6
<1>8. QED
  BY <1>1, <1>3, <1>4, <1>7

LEMMA ReadLength == MachineInv /\ lz_literal => MachineInv'
<1> SUFFICES ASSUME MachineInv, lz_literal
             PROVE  MachineInv'
  OBVIOUS
<1> DEFINE x == AfterNumber(mem, at, FALSE)
<1>1. /\ dpc = "literals" /\ UNCHANGED <<vars, apc, adjustVars, packed_data>>
      /\ dpc' = (IF x.src > Len(mem) THEN "lost" ELSE "copy_literals")
      /\ at' = x /\ count' = Number(mem, at, FALSE) /\ lz_offset' = lz_offset
      /\ UNCHANGED <<mem, lz_dst, overrun>>
  BY DEF lz_literal, Continue
<1>2. ASSUME ~overrun
      PROVE  \E e, c, k, z : Adjusted(e, c, k, z) /\ Loaded(z)' /\ DecoderAt(e, k, z)'
  <2>1. PICK e, c, k, z : InStep(e, c, k, z)
    BY <1>1, <1>2 DEF MachineInv
  <2>2. Trail(e, c, k, z) /\ IsOf(e) /\ Loaded(z) /\ Adjusted(e, c, k, z)
    BY <2>1 DEF InStep, Adjusted
  <2>3. PICK r, len : BeforeRun(e, k, z, r, len)
    BY <1>1, <2>1 DEF InStep, DecoderAt
  <2> DEFINE q == LiteralsTo(e, r, len)
  <2>4. /\ ByLiterals(e, r, len) /\ LiteralsTo(k, r, len) = q /\ q \in k.points
        /\ r \in k.points /\ ByLiterals(k, r, len)
    BY <2>2, <2>3, TrailCommands DEF BeforeRun
  <2>5. /\ Explains(e) /\ r \in e.points
        /\ Len(q.s.data) \in Nat /\ Len(q.s.data) <= Len(z.s.data)
        /\ r.n \in Nat
    BY <2>2, <2>4, PointSizes DEF Trail
  <2>6. /\ Len(Base(r).data) \in Nat /\ Len(Run(r, len).data) \in Nat
        /\ Len(Base(r).data) <= Len(Run(r, len).data)
        /\ Len(q.s.data) = Len(Run(r, len).data) + len
        /\ len \in Nat /\ len >= 1
    BY <2>4, <2>5, LiteralsSizes DEF Run
  <2>7. /\ Stands(e.full, Gap(z), Base(r), at)
        /\ lz_dst = r.n /\ lz_dst < at.src /\ lz_offset = r.last
    BY <2>3 DEF BeforeRun
  <2>8. at.src = Gap(z) + Len(Base(r).data)
    BY <2>7 DEF Stands
  <2>9. Fed(mem, Gap(z), e.full, Len(Base(r).data), Len(z.s.data))
    BY <2>2, <2>6, <2>8, StillThere
  <2> HIDE DEF x, q
  <2>10. /\ Number(mem, at, FALSE) = len
         /\ Stands(e.full, Gap(z), Run(r, len), x)
         /\ Stands(e.full, Gap(z), q.s, AfterBytes(x, len))
    <3>1. /\ Fed(mem, Gap(z), e.full, Len(Base(r).data), Len(z.s.data)) /\ Explains(e)
          /\ r \in e.points /\ ByLiterals(e, r, len)
          /\ Len(Base(r).data) <= Len(Base(r).data)
          /\ Len(LiteralsTo(e, r, len).s.data) <= Len(z.s.data)
          /\ Stands(e.full, Gap(z), Base(r), at)
      BY <2>4, <2>5, <2>6, <2>7, <2>9 DEF q
    <3>2. LET y == AfterNumber(mem, at, FALSE)
          IN  /\ Number(mem, at, FALSE) = len
              /\ Stands(e.full, Gap(z), PutBits(Base(r), Code(len, 0)), y)
              /\ Stands(e.full, Gap(z), LiteralsTo(e, r, len).s, AfterBytes(y, len))
      BY <3>1, LiteralsRead
    <3>3. QED
      BY <3>2 DEF x, q, Run
  <2>11. Len(Run(r, len).data) <= Len(z.s.data)
    <3>1. PICK l, m, p \in Nat : /\ l = Len(Run(r, len).data) /\ m = Len(z.s.data)
                                 /\ p = Len(q.s.data)
      BY <2>2, <2>5, <2>6, PointSizes
    <3>2. p = l + len /\ p <= m
      BY <2>5, <2>6, <3>1
    <3>3. l <= m
      BY <2>6, <3>2
    <3>4. QED
      BY <3>1, <3>3
  <2>12. /\ CursorOK(x) /\ x.src \in Nat /\ x.src = Gap(z) + Len(Run(r, len).data)
         /\ ~(x.src > Len(mem))
    BY <2>2, <2>6, <2>10, <2>11, Inside
  <2>13. at.src \in Nat /\ at.src <= x.src /\ lz_dst < x.src
    <3>1. Gap(z) \in Nat /\ lz_dst \in Nat
      BY <2>2 DEF Loaded
    <3>2. QED
      BY <2>6, <2>7, <2>8, <2>12, <3>1
  <2>14. dpc' = "copy_literals" /\ at' = x /\ count' = len
    BY <1>1, <2>10, <2>12
  <2>15. Loaded(z)'
    <3>1. at'.src \in Nat /\ at.src <= at'.src /\ UNCHANGED <<vars, mem, lz_dst>>
      BY <1>1, <2>12, <2>13, <2>14
    <3>2. QED
      BY <2>2, <3>1, LoadedStays
  <2>16. InRun(e, k, z, r, len)'
    <3>1. len - len = 0 /\ len \in 1 .. len
      BY <2>6
    <3>2. Gap(z) + Len(Run(r, len).data) + 0 = x.src /\ r.n + 0 = r.n
      BY SMTT(20), <2>2, <2>5, <2>6, <2>12 DEF Loaded
    <3>3. lz_dst' = r.n /\ lz_dst' < at'.src /\ lz_offset' = r.last
      BY <1>1, <2>7, <2>13, <2>14
    <3>4. /\ CursorOK(at') /\ at'.src = Gap(z) + Len(Run(r, len).data) + (len - count')
          /\ lz_dst' = r.n + (len - count') /\ count' \in 1 .. len
      BY <2>12, <2>14, <3>1, <3>2, <3>3
    <3>5. Stands(e.full, Gap(z), LiteralsTo(k, r, len).s, AfterBytes(at', count'))
      BY <2>4, <2>10, <2>14
    <3>6. QED
      BY <2>4, <3>3, <3>4, <3>5 DEF InRun
  <2>17. DecoderAt(e, k, z)'
    BY <2>14, <2>16 DEF DecoderAt
  <2>18. QED
    BY <2>2, <2>15, <2>17
<1>3. /\ dpc # "idle" /\ dpc' # "idle" /\ overrun' = overrun
      /\ overrun' \in BOOLEAN /\ (SoundCut => ~overrun')
  BY <1>1 DEF MachineInv
<1>4. QED
  BY <1>1, <1>2, <1>3, StepKeeps

LEMMA BytesOn ==
  ASSUME NEW c, CursorOK(c), NEW n \in Nat
  PROVE  /\ CursorOK(AfterBytes(c, n)) /\ AfterBytes(c, n).src = c.src + n
         /\ AfterBytes(AfterBytes(c, 1), n) = AfterBytes(c, n + 1)
<1>1. PICK s \in Nat, b \in Byte, l \in 0 .. ByteBits - 1 : c = [src |-> s, byte |-> b, left |-> l]
  BY DEF CursorOK
<1>2. ASSUME NEW x \in Nat, NEW m \in Nat
      PROVE  AfterBytes([src |-> x, byte |-> b, left |-> l], m) = [src |-> x + m, byte |-> b, left |-> l]
  BY DEF AfterBytes
<1>3. AfterBytes(c, n) = [src |-> s + n, byte |-> b, left |-> l]
  BY <1>1, <1>2
<1>4. AfterBytes(AfterBytes(c, 1), n) = [src |-> (s + 1) + n, byte |-> b, left |-> l]
  <2>1. AfterBytes(c, 1) = [src |-> s + 1, byte |-> b, left |-> l] /\ s + 1 \in Nat
    BY <1>1, <1>2
  <2>2. QED
    BY <1>2, <2>1
<1>5. AfterBytes(c, n + 1) = [src |-> s + (n + 1), byte |-> b, left |-> l] /\ (s + 1) + n = s + (n + 1)
  BY <1>1, <1>2
<1>6. CursorOK(AfterBytes(c, n)) /\ AfterBytes(c, n).src = c.src + n
  <2>1. s + n \in Nat /\ c.src = s
    BY <1>1
  <2>2. QED
    BY <1>3, <2>1 DEF CursorOK
<1>7. QED
  BY <1>4, <1>5, <1>6

LEMMA RunArithmetic ==
  ASSUME NEW g \in Nat, NEW m \in Nat, NEW l \in Nat, NEW n \in Nat, NEW w \in Nat, NEW d \in Nat,
         NEW y \in Nat, NEW a \in Nat, NEW len \in Nat, NEW cnt \in 1 .. len, NEW zn \in Nat,
         g = zn - m, zn < w, n + len <= zn, l + len <= m, y = len - cnt, a = (g + l) + y, d = n + y
  PROVE  /\ y + 1 \in 1 .. len /\ l + (y + 1) \in 1 .. m /\ g + (l + (y + 1)) = a + 1
         /\ n + (y + 1) = d + 1 /\ d + 1 <= w /\ a < w /\ d < w
         /\ cnt = 1 => d + 1 = n + len
         /\ cnt # 1 => cnt - 1 \in 1 .. len /\ len - (cnt - 1) = y + 1 /\ cnt - 1 \in Nat
                       /\ (cnt - 1) + 1 = cnt
  OBVIOUS

LEMMA CopyLiteral == MachineInv /\ lz_cp_lit => MachineInv'
<1> SUFFICES ASSUME MachineInv, lz_cp_lit
             PROVE  MachineInv'
  OBVIOUS
<1>1. /\ dpc = "copy_literals" /\ UNCHANGED <<vars, apc, adjustVars, packed_data>>
      /\ overrun' = overrun \/ overrun' = (overrun \/ lz_dst > at.src)
  BY DEF lz_cp_lit
<1>2. ASSUME ~overrun
      PROVE  /\ overrun' = FALSE
             /\ \E e, c, k, z : Adjusted(e, c, k, z) /\ Loaded(z)' /\ DecoderAt(e, k, z)'
  <2>1. PICK e, c, k, z : InStep(e, c, k, z)
    BY <1>1, <1>2 DEF MachineInv
  <2>2. Trail(e, c, k, z) /\ IsOf(e) /\ Loaded(z) /\ Adjusted(e, c, k, z)
    BY <2>1 DEF InStep, Adjusted
  <2>3. PICK r, len : InRun(e, k, z, r, len)
    BY <1>1, <2>1 DEF InStep, DecoderAt
  <2> DEFINE q == LiteralsTo(e, r, len)
  <2>4. /\ ByLiterals(e, r, len) /\ LiteralsTo(k, r, len) = q /\ q \in k.points
        /\ r \in k.points /\ ByLiterals(k, r, len)
    BY <2>2, <2>3, TrailCommands DEF InRun
  <2>5. /\ Explains(e) /\ r \in e.points
        /\ Len(q.s.data) \in Nat /\ Len(q.s.data) <= Len(z.s.data) /\ Len(z.s.data) \in Nat
        /\ r.n \in Nat /\ q.n \in Nat /\ q.n <= z.n /\ z.n \in Nat /\ z.n < Len(window)
        /\ Len(window) \in Nat /\ window \in Seq(Byte) /\ window = e.text /\ data = e.full.data
    BY <2>2, <2>4, PointSizes DEF Trail
  <2>6. /\ Len(Run(r, len).data) \in Nat
        /\ Len(q.s.data) = Len(Run(r, len).data) + len
        /\ len \in Nat /\ len >= 1
        /\ \A j \in 1 .. len : e.full.data[Len(Run(r, len).data) + j] = e.text[r.n + j]
    BY <2>4, <2>5, LiteralsSizes DEF Run
  <2>7. q.n = r.n + len /\ q.state = 1 /\ q.last = r.last
    BY DEF LiteralsTo
  <2>8. /\ count \in 1 .. len
        /\ CursorOK(at) /\ at.src = Gap(z) + Len(Run(r, len).data) + (len - count)
        /\ Stands(e.full, Gap(z), q.s, AfterBytes(at, count))
        /\ lz_dst = r.n + (len - count) /\ lz_dst < at.src /\ lz_offset = r.last
    BY <2>3, <2>4 DEF InRun
  <2>9. PICK g, m, l, n, w, d, y, a, zn \in Nat :
          /\ g = Gap(z) /\ m = Len(z.s.data) /\ l = Len(Run(r, len).data) /\ n = r.n
          /\ w = Len(window) /\ d = lz_dst /\ y = len - count /\ a = at.src /\ zn = z.n
    <3>1. Gap(z) \in Nat /\ lz_dst \in Nat /\ len - count \in Nat /\ at.src \in Nat
      BY <2>2, <2>6, <2>8 DEF Loaded
    <3>2. QED
      BY <2>5, <2>6, <3>1
  <2> HIDE DEF q
  <2>10. /\ y + 1 \in 1 .. len /\ l + (y + 1) \in 1 .. m /\ g + (l + (y + 1)) = a + 1
         /\ n + (y + 1) = d + 1 /\ d + 1 <= w /\ a < w /\ d < w
         /\ count = 1 => d + 1 = n + len
         /\ count # 1 => count - 1 \in 1 .. len /\ len - (count - 1) = y + 1 /\ count - 1 \in Nat
                         /\ (count - 1) + 1 = count
         /\ a = (g + l) + y /\ d = n + y
    <3>1. g = zn - m /\ zn < w
      BY <2>5, <2>9 DEF Gap
    <3>2. n + len <= zn /\ l + len <= m
      BY <2>5, <2>6, <2>7, <2>9
    <3>3. y = len - count /\ a = (g + l) + y /\ d = n + y /\ count \in 1 .. len
      BY <2>8, <2>9
    <3>4. QED
      BY <2>6, <3>1, <3>2, <3>3, RunArithmetic
  <2>11. mem[at.src + 1] = window[lz_dst + 1]
    <3>1. g + (l + (y + 1)) > a
      BY <2>10
    <3>2. mem[Gap(z) + (l + (y + 1))] = data[l + (y + 1)]
      <4>1. \A j \in 1 .. m : g + j > a => mem[g + j] = data[j]
        BY <2>2, <2>9 DEF Loaded
      <4>2. QED
        BY <2>9, <2>10, <3>1, <4>1
    <3>3. data[l + (y + 1)] = window[n + (y + 1)]
      BY <2>5, <2>6, <2>9, <2>10
    <3>4. QED
      BY <2>9, <2>10, <3>2, <3>3
  <2>12. Len(mem) = Len(window) /\ ~(at.src >= Len(mem) \/ lz_dst >= Len(mem)) /\ at.src \in Nat
    <3>1. Len(mem) = w /\ w = Len(window)
      BY <2>2, <2>9 DEF Loaded
    <3>2. ~(a >= w \/ d >= w)
      BY <2>10
    <3>3. QED
      BY <2>9, <3>1, <3>2
  <2>13. /\ mem' = [mem EXCEPT ![lz_dst + 1] = mem[at.src + 1]]
         /\ at' = AfterBytes(at, 1) /\ lz_dst' = lz_dst + 1 /\ count' = count - 1
         /\ dpc' = IF count = 1 THEN "after_literals" ELSE "copy_literals"
         /\ overrun' = (overrun \/ lz_dst > at.src) /\ lz_offset' = lz_offset
    BY <2>12 DEF lz_cp_lit
  <2>14. CursorOK(at') /\ at'.src = at.src + 1
    BY <2>8, <2>13, BytesOn
  <2>15. Loaded(z)'
    <3>1. mem' = [mem EXCEPT ![lz_dst + 1] = window[lz_dst + 1]]
      BY <2>11, <2>13
    <3>2. at'.src \in Nat /\ at.src <= at'.src /\ lz_dst + 1 <= at'.src /\ lz_dst + 1 <= Len(window)
      <4>1. d < a /\ at'.src = a + 1
        BY <2>8, <2>9, <2>14
      <4>2. a + 1 \in Nat /\ a <= a + 1 /\ d + 1 <= a + 1
        BY <4>1
      <4>3. QED
        BY <2>9, <2>10, <4>1, <4>2
    <3>3. UNCHANGED vars
      BY <1>1
    <3>4. QED
      BY <2>2, <2>5, <2>13, <3>1, <3>2, <3>3, ByteWritten
  <2>16. lz_dst' < at'.src
    BY <2>8, <2>9, <2>12, <2>13, <2>14
  <2>17. ~(lz_dst > at.src)
    BY <2>8, <2>9, <2>12
  <2>18. CASE count = 1
    <3>1. dpc' = "after_literals"
      BY <2>13, <2>18
    <3>2. Stands(e.full, Gap(z), q.s, at')
      BY <2>8, <2>13, <2>18
    <3>3. lz_dst' = q.n
      BY <2>7, <2>9, <2>10, <2>13, <2>18
    <3>4. BeforeCommand(e, k, z, q)'
      BY <2>4, <2>7, <2>8, <2>13, <2>16, <3>1, <3>2, <3>3 DEF BeforeCommand
    <3>5. DecoderAt(e, k, z)'
      BY <3>1, <3>4 DEF DecoderAt
    <3>6. QED
      BY <1>2, <2>2, <2>13, <2>15, <2>17, <3>5
  <2>19. CASE count # 1
    <3>1. dpc' = "copy_literals"
      BY <2>13, <2>19
    <3>2. /\ count' \in 1 .. len /\ len - count' = y + 1
          /\ count - 1 \in Nat /\ (count - 1) + 1 = count
      BY <2>10, <2>13, <2>19
    <3>3. AfterBytes(at', count') = AfterBytes(at, count)
      BY <2>8, <2>13, <3>2, BytesOn
    <3>4. Stands(e.full, Gap(z), LiteralsTo(k, r, len).s, AfterBytes(at', count'))
      BY <2>4, <2>8, <3>3
    <3>5. at'.src = Gap(z) + Len(Run(r, len).data) + (len - count')
      <4>1. a + 1 = (g + l) + (y + 1)
        <5>1. a = (g + l) + y
          BY <2>10
        <5>2. QED
          BY <5>1
      <4>2. at'.src = a + 1
        BY <2>9, <2>14
      <4>3. QED
        BY <2>9, <3>2, <4>1, <4>2
    <3>6. lz_dst' = r.n + (len - count')
      BY <2>9, <2>10, <2>13, <3>2
    <3>7. InRun(e, k, z, r, len)'
      BY <2>4, <2>8, <2>13, <2>14, <2>16, <3>2, <3>4, <3>5, <3>6 DEF InRun
    <3>8. DecoderAt(e, k, z)'
      BY <3>1, <3>7 DEF DecoderAt
    <3>9. QED
      BY <1>2, <2>2, <2>13, <2>15, <2>17, <3>8
  <2>20. QED
    BY <2>18, <2>19
<1>3. dpc # "idle" /\ dpc' # "idle" /\ overrun' \in BOOLEAN
  BY <1>1 DEF lz_cp_lit, MachineInv
<1>4. SoundCut => ~overrun'
  BY <1>2 DEF MachineInv
<1>5. overrun => overrun'
  BY <1>1
<1>6. QED
  BY <1>1, <1>2, <1>3, <1>4, <1>5, StepKeeps

(* A repetition or a match with its offset begins. *)
LEMMA MatchBegins ==
  ASSUME NEW e, NEW c, NEW k, NEW z, Trail(e, c, k, z), IsOf(e), Loaded(z), UNCHANGED vars,
         NEW r \in k.points, NEW q \in k.points, NEW len,
         q.state = 2, q.n = r.n + len, Copies(k, r, len, q.last),
         lz_dst = r.n, lz_dst < at.src, Stands(e.full, Gap(z), r.s, at),
         Len(r.s.data) <= Len(q.s.data), NEW b, Stands(e.full, Gap(z), q.s, b),
         Continue("copy_match", b, len, q.last)
  PROVE  /\ dpc' = "copy_match" /\ overrun' = overrun
         /\ Loaded(z)' /\ DecoderAt(e, k, z)'
<1>1. /\ Len(r.s.data) \in Nat /\ Len(q.s.data) \in Nat /\ Len(q.s.data) <= Len(z.s.data)
      /\ r.n \in Nat /\ Len(window) \in Nat /\ window = e.text
  BY PointSizes
<1>2. /\ CursorOK(b) /\ b.src \in Nat /\ b.src = Gap(z) + Len(q.s.data) /\ ~(b.src > Len(mem))
  BY SMTT(20), <1>1, Inside
<1>3. /\ dpc' = "copy_match" /\ at' = b /\ count' = len /\ lz_offset' = q.last
      /\ UNCHANGED <<mem, lz_dst, overrun>>
  BY <1>2 DEF Continue
<1>4. at.src \in Nat /\ at.src <= b.src /\ lz_dst \in Nat
  <2>1. at.src = Gap(z) + Len(r.s.data) /\ Gap(z) \in Nat
    BY DEF Stands, Loaded
  <2>2. QED
    BY SMTT(20), <1>1, <1>2, <2>1
<1>5. Loaded(z)'
  <2>1. at'.src \in Nat /\ at.src <= at'.src /\ UNCHANGED <<vars, mem, lz_dst>>
    BY <1>2, <1>3, <1>4
  <2>2. QED
    BY <2>1, LoadedStays
<1>6. len \in Nat /\ len >= 1
  <2>1. k.text = e.text
    BY DEF Trail
  <2>2. len \in 1 .. Len(window) - r.n
    BY <1>1, <2>1 DEF Copies
  <2>3. QED
    BY <1>1, <2>2
<1>7. InMatch(e, k, z, r, q, len)'
  <2>1. len \in 1 .. len /\ r.n + (len - len) = r.n
    BY <1>1, <1>6
  <2>2. count' \in 1 .. len /\ lz_dst' = r.n + (len - count')
    BY <1>3, <2>1
  <2>3. lz_dst' <= at'.src
    BY <1>2, <1>3, <1>4
  <2>4. QED
    BY <1>3, <2>2, <2>3 DEF InMatch
<1>8. QED
  BY <1>3, <1>5, <1>7 DEF DecoderAt

LEMMA ReadCommand == MachineInv /\ lz_command => MachineInv'
<1> SUFFICES ASSUME MachineInv, lz_command
             PROVE  MachineInv'
  OBVIOUS
<1> DEFINE bit == BitAt(mem, at, 1)
           rest == AfterBits(mem, at, 1)
           match_ == ReadMatch(mem, rest)
<1>1. /\ dpc \in {"after_literals", "after_match"}
      /\ UNCHANGED <<vars, apc, adjustVars, packed_data>> /\ UNCHANGED vars
      /\ overrun' = overrun /\ dpc' # "idle"
  BY DEF lz_command, Continue
<1>2. IF bit = 0 /\ dpc = "after_literals"
      THEN Continue("copy_match", AfterNumber(mem, rest, FALSE), Number(mem, rest, FALSE), lz_offset)
      ELSE IF bit = 0
      THEN Continue("literals", rest, 0, lz_offset)
      ELSE IF match_.m = EndMark
      THEN Continue("done", match_.next, 0, lz_offset)
      ELSE Continue("copy_match", match_.next, match_.m.length, match_.m.offset)
  BY DEF lz_command
<1>3. ASSUME ~overrun
      PROVE  \E e, c, k, z : Adjusted(e, c, k, z) /\ Loaded(z)' /\ DecoderAt(e, k, z)'
  <2>1. PICK e, c, k, z : InStep(e, c, k, z)
    BY <1>1, <1>3 DEF MachineInv
  <2>2. Trail(e, c, k, z) /\ IsOf(e) /\ Loaded(z) /\ Adjusted(e, c, k, z)
    BY <2>1 DEF InStep, Adjusted
  <2>3. PICK r : BeforeCommand(e, k, z, r)
    BY <1>1, <2>1 DEF InStep, DecoderAt
  <2>4. /\ r \in k.points /\ r.state = (IF dpc = "after_literals" THEN 1 ELSE 2)
        /\ Stands(e.full, Gap(z), r.s, at)
        /\ lz_dst = r.n /\ lz_dst < at.src /\ lz_offset = r.last
    BY <2>3 DEF BeforeCommand
  <2>5. /\ Explains(e) /\ r \in e.points /\ Len(r.s.data) \in Nat /\ r.n \in Nat
        /\ z.n \in Nat /\ Len(z.s.data) \in Nat /\ dali = e.format
        /\ \A q \in k.points : Len(q.s.data) \in Nat /\ Len(q.s.data) <= Len(z.s.data)
    BY <2>2, <2>4, PointSizes DEF Trail, IsOf
  <2>6. at.src = Gap(z) + Len(r.s.data) /\ Gap(z) \in Nat
    BY <2>2, <2>4 DEF Stands, Loaded
  <2>7. r # z
    <3>1. SUFFICES ASSUME r = z PROVE FALSE
      OBVIOUS
    <3>2. at.src = z.n
      BY <2>5, <2>6, <3>1 DEF Gap
    <3>3. QED
      BY <2>4, <2>5, <3>1, <3>2
  <2>8. Goes(k, r)
    BY <2>2, <2>4, <2>7 DEF Trail
  <2>9. Fed(mem, Gap(z), e.full, Len(r.s.data), Len(z.s.data))
    BY <2>2, <2>5, <2>6, StillThere
  <2> HIDE DEF bit, rest, match_
  <2>10. CASE \E len : ByLiterals(k, r, len)
    <3>1. PICK len : ByLiterals(k, r, len)
      BY <2>10
    <3>2. ByLiterals(e, r, len) /\ LiteralsTo(e, r, len) \in k.points
      BY <2>2, <3>1, TrailCommands
    <3>3. r.state = 2 /\ dpc = "after_match"
      BY <1>1, <2>4, <3>1 DEF ByLiterals
    <3>4. bit = 0 /\ Stands(e.full, Gap(z), Base(r), rest)
      <4>1. /\ Fed(mem, Gap(z), e.full, Len(r.s.data), Len(z.s.data)) /\ Explains(e)
            /\ r \in e.points /\ ByLiterals(e, r, len) /\ r.state # 0
            /\ Len(r.s.data) <= Len(r.s.data) /\ Len(LiteralsTo(e, r, len).s.data) <= Len(z.s.data)
            /\ Stands(e.full, Gap(z), r.s, at)
        BY <2>4, <2>5, <2>9, <3>2, <3>3
      <4>2. /\ BitAt(mem, at, 1) = 0
            /\ Stands(e.full, Gap(z), Base(r), AfterBits(mem, at, 1))
        BY <4>1, GoOnRead
      <4>3. QED
        BY <4>2 DEF bit, rest
    <3>5. Continue("literals", rest, 0, lz_offset)
      BY <1>2, <3>3, <3>4
    <3>6. /\ Len(Base(r).data) \in Nat /\ Len(r.s.data) <= Len(Base(r).data)
          /\ Len(Base(r).data) <= Len(z.s.data)
      <4>1. /\ Len(Base(r).data) \in Nat /\ Len(Run(r, len).data) \in Nat
            /\ Len(r.s.data) <= Len(Base(r).data)
            /\ Len(Base(r).data) <= Len(Run(r, len).data)
            /\ Len(LiteralsTo(e, r, len).s.data) = Len(Run(r, len).data) + len
            /\ len \in Nat
        BY <2>5, <3>2, LiteralsSizes DEF Run
      <4>2. Len(LiteralsTo(e, r, len).s.data) <= Len(z.s.data)
        BY <2>5, <3>2
      <4>3. PICK l1, l2, l3 \in Nat : /\ l1 = Len(Base(r).data) /\ l2 = Len(Run(r, len).data)
                                      /\ l3 = Len(z.s.data)
        BY <2>5, <4>1
      <4>4. l1 <= l2 /\ l2 + len <= l3
        BY <4>1, <4>2, <4>3
      <4>5. l1 <= l3
        BY <4>1, <4>4
      <4>6. QED
        BY <4>1, <4>3, <4>5
    <3>7. /\ rest.src \in Nat /\ rest.src = Gap(z) + Len(Base(r).data) /\ ~(rest.src > Len(mem))
      BY <2>2, <3>4, <3>6, Inside
    <3>8. /\ dpc' = "literals" /\ at' = rest /\ lz_offset' = lz_offset
          /\ UNCHANGED <<mem, lz_dst, overrun>>
      BY <3>5, <3>7 DEF Continue
    <3>9. at.src \in Nat /\ at.src <= rest.src
      BY SMTT(20), <2>5, <2>6, <3>6, <3>7
    <3>10. Loaded(z)'
      <4>1. at'.src \in Nat /\ at.src <= at'.src /\ UNCHANGED <<vars, mem, lz_dst>>
        BY <1>1, <3>7, <3>8, <3>9
      <4>2. QED
        BY <2>2, <4>1, LoadedStays
    <3>11. BeforeRun(e, k, z, r, len)'
      <4>1. lz_dst' < at'.src
        BY <2>4, <2>5, <3>7, <3>8, <3>9
      <4>2. QED
        BY <2>4, <3>1, <3>4, <3>8, <4>1 DEF BeforeRun
    <3>12. DecoderAt(e, k, z)'
      BY <3>8, <3>11 DEF DecoderAt
    <3>13. QED
      BY <2>2, <3>10, <3>12
  <2>11. CASE \E len : ByRepeat(k, r, len)
    <3>1. PICK len : ByRepeat(k, r, len)
      BY <2>11
    <3>2. /\ ByRepeat(e, r, len) /\ RepeatTo(e, r, len) \in k.points /\ Copies(k, r, len, r.last)
      BY <2>2, <3>1, TrailCommands
    <3>3. dpc = "after_literals"
      BY <1>1, <2>4, <3>1 DEF ByRepeat
    <3> DEFINE q == RepeatTo(e, r, len)
               b == AfterNumber(mem, rest, FALSE)
    <3>4. bit = 0 /\ Number(mem, rest, FALSE) = len /\ Stands(e.full, Gap(z), q.s, b)
      <4>1. /\ Fed(mem, Gap(z), e.full, Len(r.s.data), Len(z.s.data)) /\ Explains(e)
            /\ r \in e.points /\ ByRepeat(e, r, len)
            /\ Len(r.s.data) <= Len(r.s.data) /\ Len(RepeatTo(e, r, len).s.data) <= Len(z.s.data)
            /\ Stands(e.full, Gap(z), r.s, at)
        BY <2>4, <2>5, <2>9, <3>2
      <4> HIDE DEF q, b
      <4>2. LET there == AfterBits(mem, at, 1)
            IN  /\ BitAt(mem, at, 1) = 0 /\ Number(mem, there, FALSE) = len
                /\ Stands(e.full, Gap(z), RepeatTo(e, r, len).s, AfterNumber(mem, there, FALSE))
        BY <4>1, RepeatRead
      <4>3. QED
        BY <4>2 DEF bit, rest, q, b
    <3>5. q.state = 2 /\ q.n = r.n + len /\ q.last = r.last /\ q \in k.points
      BY <3>2 DEF RepeatTo
    <3>6. Len(r.s.data) <= Len(q.s.data)
      <4>1. LET y == PutBit(r.s, 0)
            IN  /\ Len(r.s.data) \in Nat /\ Len(y.data) \in Nat /\ Len(q.s.data) \in Nat
                /\ Len(r.s.data) <= Len(y.data) /\ Len(y.data) <= Len(q.s.data)
        BY <2>5, <3>2, RepeatSizes
      <4> HIDE DEF q
      <4>2. QED
        BY <4>1
    <3>7. Continue("copy_match", b, len, lz_offset)
      BY <1>2, <3>3, <3>4
    <3> HIDE DEF q, b
    <3>8. Continue("copy_match", b, len, q.last) /\ Copies(k, r, len, q.last)
      BY <2>4, <3>2, <3>5, <3>7
    <3>9. Loaded(z)' /\ DecoderAt(e, k, z)'
      BY <1>1, <2>2, <2>4, <3>4, <3>5, <3>6, <3>8, MatchBegins
    <3>10. QED
      BY <2>2, <3>9
  <2>12. CASE \E len, o : ByOffset(k, r, len, o)
    <3>1. PICK len, o : ByOffset(k, r, len, o)
      BY <2>12
    <3>2. /\ ByOffset(e, r, len, o) /\ OffsetTo(e, r, len, o) \in k.points /\ Copies(k, r, len, o)
      BY <2>2, <3>1, TrailCommands
    <3> DEFINE q == OffsetTo(e, r, len, o)
    <3>3. /\ bit = 1 /\ match_.m = [length |-> len, offset |-> o] /\ match_.m # EndMark
          /\ Stands(e.full, Gap(z), q.s, match_.next)
      <4>1. /\ Fed(mem, Gap(z), e.full, Len(r.s.data), Len(z.s.data)) /\ Explains(e)
            /\ dali = e.format /\ r \in e.points /\ ByOffset(e, r, len, o)
            /\ Len(r.s.data) <= Len(r.s.data)
            /\ Len(OffsetTo(e, r, len, o).s.data) <= Len(z.s.data)
            /\ Stands(e.full, Gap(z), r.s, at)
        BY <2>4, <2>5, <2>9, <3>2
      <4> HIDE DEF q
      <4>2. LET there == AfterBits(mem, at, 1)
            IN  /\ BitAt(mem, at, 1) = 1
                /\ ReadMatch(mem, there).m = [length |-> len, offset |-> o]
                /\ ReadMatch(mem, there).m # EndMark
                /\ Stands(e.full, Gap(z), OffsetTo(e, r, len, o).s, ReadMatch(mem, there).next)
        BY <4>1, OffsetRead
      <4>3. QED
        BY <4>2 DEF bit, rest, match_, q
    <3>4. q.state = 2 /\ q.n = r.n + len /\ q.last = o /\ q \in k.points
      BY <3>2 DEF OffsetTo
    <3>5. Len(r.s.data) <= Len(q.s.data)
      BY <2>5, <3>2, OffsetGrows
    <3> HIDE DEF q
    <3>6. match_.m.length = len /\ match_.m.offset = o
      BY <3>3
    <3>7. Continue("copy_match", match_.next, match_.m.length, match_.m.offset)
      BY <1>2, <3>3
    <3>8. Continue("copy_match", match_.next, len, q.last) /\ Copies(k, r, len, q.last)
      BY <3>2, <3>4, <3>6, <3>7
    <3>9. Loaded(z)' /\ DecoderAt(e, k, z)'
      BY <1>1, <2>2, <2>4, <3>3, <3>4, <3>5, <3>8, MatchBegins
    <3>10. QED
      BY <2>2, <3>9
  <2>13. QED
    BY <2>8, <2>10, <2>11, <2>12 DEF Goes
<1>4. dpc # "idle" /\ overrun' \in BOOLEAN /\ (SoundCut => ~overrun')
  BY <1>1 DEF MachineInv
<1>5. QED
  BY <1>1, <1>3, <1>4, StepKeeps

(* After a sound cut no match leaves the pointers farther apart than the cut does. *)
LEMMA SoundGaps ==
  ASSUME SoundCut, NEW e, NEW c, NEW k, NEW z, Trail(e, c, k, z), IsOf(e), Counters(z),
         GapsOf(k, z), gaps \in Seq(Int)
  PROVE  \E w \in k.points :
           /\ w.state = 2 /\ Gap(w) = Gap(z)
           /\ \A r \in k.points : r.state = 2 /\ r # w => Gap(r) < Gap(z)
           /\ z = w \/ \E len : ByLiterals(k, w, len) /\ z = LiteralsTo(k, w, len)
<1>1. /\ Len(gaps) \in Nat /\ Len(gaps) > 0 /\ gaps[Len(gaps)] = safe_input_index - safe_output_index
      /\ \A j \in 1 .. Len(gaps) - 1 : gaps[j] < gaps[Len(gaps)]
  BY DEF SoundCut
<1>2. gaps # <<>>
  BY <1>1
<1>3. gaps[Len(gaps)] = Gap(z)
  BY <1>1 DEF Counters, Gap
<1>4. PICK w \in k.points :
        /\ w.state = 2 /\ Len(gaps) >= 1 /\ gaps[Len(gaps)] = Gap(w)
        /\ \A r \in k.points : r.state = 2 /\ r # w =>
             \E j \in 1 .. Len(gaps) - 1 : gaps[j] = Gap(r)
        /\ z = w \/ \E len : ByLiterals(k, w, len) /\ z = LiteralsTo(k, w, len)
  BY <1>2 DEF GapsOf
<1>5. ASSUME NEW r \in k.points, r.state = 2, r # w
      PROVE  Gap(r) < Gap(z)
  <2>1. PICK j \in 1 .. Len(gaps) - 1 : gaps[j] = Gap(r)
    BY <1>4, <1>5
  <2>2. QED
    BY <1>1, <1>3, <2>1
<1>6. QED
  BY <1>3, <1>4, <1>5

LEMMA CopyArithmetic ==
  ASSUME NEW n \in Nat, NEW len \in Nat, NEW cnt \in 1 .. len, NEW d \in Nat, NEW y \in Nat,
         NEW o \in Nat, NEW w \in Nat, y = len - cnt, d = n + y, n + len < w, o >= 1, o <= n
  PROVE  /\ y + 1 \in 1 .. len /\ n + (y + 1) = d + 1 /\ d + 1 <= w /\ d < w /\ d < n + len
         /\ (d + 1) - o \in 1 .. d /\ (n + (y + 1)) - o = (d + 1) - o /\ ~(o > d)
         /\ ~(cnt > 1) => d + 1 = n + len
         /\ cnt > 1 => cnt - 1 \in 1 .. len /\ d + 1 = n + (len - (cnt - 1))
  OBVIOUS

LEMMA CopyMatch == AdjustInv /\ MachineInv /\ lz_cp_match => MachineInv'
<1> SUFFICES ASSUME AdjustInv, MachineInv, lz_cp_match
             PROVE  MachineInv'
  OBVIOUS
<1> DEFINE late == lz_dst >= at.src
<1>1. /\ dpc = "copy_match" /\ UNCHANGED <<vars, apc, adjustVars, packed_data>>
      /\ overrun' = overrun \/ overrun' = (overrun \/ late)
      /\ dpc' # "idle"
  BY DEF lz_cp_match, lz_end_check
<1> HIDE DEF late
<1>2. ASSUME ~overrun
      PROVE  /\ SoundCut => overrun' = FALSE
             /\ ~overrun' =>
                  \E e, c, k, z : Adjusted(e, c, k, z) /\ Loaded(z)' /\ DecoderAt(e, k, z)'
  <2>1. PICK e, c, k, z : InStep(e, c, k, z)
    BY <1>1, <1>2 DEF MachineInv
  <2>2. Trail(e, c, k, z) /\ IsOf(e) /\ Loaded(z) /\ Adjusted(e, c, k, z)
    BY <2>1 DEF InStep, Adjusted
  <2>3. PICK r, q, len : InMatch(e, k, z, r, q, len)
    BY <1>1, <2>1 DEF InStep, DecoderAt
  <2>4. /\ r \in k.points /\ q \in k.points /\ q.state = 2 /\ q.n = r.n + len
        /\ Copies(k, r, len, q.last) /\ lz_offset = q.last
        /\ count \in 1 .. len /\ lz_dst = r.n + (len - count) /\ lz_dst <= at.src
        /\ Stands(e.full, Gap(z), q.s, at)
    BY <2>3 DEF InMatch
  <2>5. /\ Len(q.s.data) \in Nat /\ Len(q.s.data) <= Len(z.s.data) /\ Len(z.s.data) \in Nat
        /\ r.n \in Nat /\ q.n \in Nat /\ q.n <= z.n /\ z.n \in Nat /\ z.n < Len(window)
        /\ Len(window) \in Nat /\ window \in Seq(Byte) /\ window = e.text
    BY <2>2, <2>4, PointSizes
  <2>6. k.text = window
    BY <2>2, <2>5 DEF Trail
  <2>7. /\ len \in 1 .. Len(window) - r.n /\ q.last \in MIN_OFFSET .. MAX_OFFSET /\ q.last <= r.n
        /\ \A j \in 1 .. len : window[r.n + j] = window[r.n + j - q.last]
    BY <2>4, <2>6 DEF Copies
  <2>8. len \in Nat /\ q.last \in Nat /\ q.last >= 1
    BY <2>5, <2>7 DEF MIN_OFFSET
  <2>9. PICK n, d, y, o, w, a \in Nat :
          /\ n = r.n /\ d = lz_dst /\ y = len - count /\ o = lz_offset /\ w = Len(window)
          /\ a = at.src
    <3>1. lz_dst \in Nat /\ len - count \in Nat /\ at.src \in Nat
      BY <2>2, <2>4, <2>8 DEF Loaded
    <3>2. QED
      BY <2>4, <2>5, <2>8, <3>1
  <2>10. /\ y + 1 \in 1 .. len /\ n + (y + 1) = d + 1 /\ d + 1 <= w /\ d < w /\ d < n + len
         /\ (d + 1) - o \in 1 .. d /\ (n + (y + 1)) - o = (d + 1) - o /\ ~(o > d)
         /\ ~(count > 1) => d + 1 = n + len
         /\ count > 1 => count - 1 \in 1 .. len /\ d + 1 = n + (len - (count - 1))
    <3>1. y = len - count /\ d = n + y /\ n + len < w /\ o >= 1 /\ o <= n /\ count \in 1 .. len
      <4>1. n + len < w
        BY <2>4, <2>5, <2>9
      <4>2. o >= 1 /\ o <= n
        BY <2>4, <2>7, <2>8, <2>9
      <4>3. y = len - count /\ d = n + y /\ count \in 1 .. len
        BY <2>4, <2>9
      <4>4. QED
        BY <4>1, <4>2, <4>3
    <3>2. QED
      BY <2>8, <3>1, CopyArithmetic
  <2>11. mem[(d + 1) - o] = window[d + 1]
    <3>1. mem[(d + 1) - o] = window[(d + 1) - o]
      <4>1. \A p \in 1 .. d : mem[p] = window[p]
        BY <2>2, <2>9 DEF Loaded
      <4>2. QED
        BY <2>10, <4>1
    <3>2. window[n + (y + 1)] = window[(n + (y + 1)) - o]
      <4>1. \A j \in 1 .. len : window[n + j] = window[n + j - o]
        BY <2>4, <2>7, <2>9
      <4>2. y + 1 \in 1 .. len
        BY <2>10
      <4>3. window[n + (y + 1)] = window[n + (y + 1) - o]
        BY <4>1, <4>2
      <4>4. n + (y + 1) - o = (n + (y + 1)) - o
        OBVIOUS
      <4>5. QED
        BY <4>3, <4>4
    <3>3. QED
      BY <2>10, <3>1, <3>2
  <2>12. Len(mem) = w /\ ~(lz_dst >= Len(mem) \/ lz_offset > lz_dst)
    <3>1. Len(mem) = w
      BY <2>2, <2>9 DEF Loaded
    <3>2. ~(d >= w \/ o > d)
      BY <2>10
    <3>3. QED
      BY <2>9, <3>1, <3>2
  <2>13. /\ mem' = [mem EXCEPT ![lz_dst + 1] = mem[(lz_dst + 1) - lz_offset]]
         /\ lz_dst' = lz_dst + 1 /\ count' = count - 1
         /\ dpc' = (IF count > 1 THEN "copy_match" ELSE lz_end_check(lz_dst + 1, at.src))
         /\ overrun' = (overrun \/ lz_dst >= at.src) /\ at' = at /\ lz_offset' = lz_offset
    <3>1. /\ mem' = [mem EXCEPT ![lz_dst + 1] = mem[lz_dst + 1 - lz_offset]]
          /\ lz_dst' = lz_dst + 1 /\ count' = count - 1
          /\ dpc' = (IF count > 1 THEN "copy_match" ELSE lz_end_check(lz_dst + 1, at.src))
          /\ overrun' = (overrun \/ lz_dst >= at.src) /\ at' = at /\ lz_offset' = lz_offset
      BY <2>12 DEF lz_cp_match
    <3>2. lz_dst + 1 - lz_offset = (lz_dst + 1) - lz_offset
      BY <2>9
    <3>3. QED
      BY <3>1, <3>2
  <2>14. CASE lz_dst < at.src
    <3>1. overrun' = FALSE
      <4>1. ~late
        BY <2>9, <2>14 DEF late
      <4>2. overrun' = (overrun \/ late)
        BY <2>13 DEF late
      <4>3. QED
        BY <1>2, <4>1, <4>2
    <3>2. Loaded(z)'
      <4>1. mem' = [mem EXCEPT ![lz_dst + 1] = window[lz_dst + 1]]
        BY <2>9, <2>11, <2>13
      <4>2. /\ at'.src \in Nat /\ at.src <= at'.src /\ lz_dst + 1 <= at'.src
            /\ lz_dst + 1 <= Len(window) /\ UNCHANGED vars
        BY <1>1, <2>9, <2>10, <2>13, <2>14
      <4>3. QED
        BY <2>2, <2>5, <2>13, <4>1, <4>2, ByteWritten
    <3>3. lz_dst' <= at'.src /\ lz_dst' = d + 1
      BY <2>9, <2>13, <2>14
    <3>4. CASE count > 1
      <4>1. dpc' = "copy_match" /\ count' \in 1 .. len /\ lz_dst' = r.n + (len - count')
        BY <2>9, <2>10, <2>13, <3>3, <3>4
      <4>2. InMatch(e, k, z, r, q, len)'
        BY <2>4, <2>13, <3>3, <4>1 DEF InMatch
      <4>3. DecoderAt(e, k, z)'
        BY <4>1, <4>2 DEF DecoderAt
      <4>4. QED
        BY <2>2, <3>1, <3>2, <4>3
    <3>5. CASE ~(count > 1)
      <4>1. lz_dst' = q.n
        BY <2>4, <2>9, <2>10, <3>3, <3>5
      <4>2. CASE lz_dst + 1 = at.src
        <5>1. dpc' = "done"
          BY <2>13, <3>5, <4>2 DEF lz_end_check
        <5>2. AtMeeting(e, k, z, q)'
          BY <2>4, <2>13, <4>1, <4>2 DEF AtMeeting
        <5>3. DecoderAt(e, k, z)'
          BY <5>1, <5>2 DEF DecoderAt
        <5>4. QED
          BY <2>2, <3>1, <3>2, <5>3
      <4>3. CASE lz_dst + 1 # at.src
        <5>1. dpc' = "after_match"
          BY <2>13, <3>5, <4>3 DEF lz_end_check
        <5>2. lz_dst' < at'.src
          BY <2>9, <2>13, <2>14, <4>3
        <5>3. BeforeCommand(e, k, z, q)'
          BY <2>4, <2>13, <4>1, <5>1, <5>2 DEF BeforeCommand
        <5>4. DecoderAt(e, k, z)'
          BY <5>1, <5>3 DEF DecoderAt
        <5>5. QED
          BY <2>2, <3>1, <3>2, <5>4
      <4>4. QED
        BY <4>2, <4>3
    <3>6. QED
      BY <3>4, <3>5
  <2>15. CASE ~(lz_dst < at.src)
    <3>1. overrun' = TRUE
      <4>1. late
        BY <2>9, <2>15 DEF late
      <4>2. overrun' = (overrun \/ late)
        BY <2>13 DEF late
      <4>3. QED
        BY <4>1, <4>2
    <3>2. ~SoundCut
      <4>1. SUFFICES ASSUME SoundCut PROVE FALSE
        OBVIOUS
      <4>2. PICK v \in k.points :
              /\ v.state = 2 /\ Gap(v) = Gap(z)
              /\ \A p \in k.points : p.state = 2 /\ p # v => Gap(p) < Gap(z)
              /\ z = v \/ \E m : ByLiterals(k, v, m) /\ z = LiteralsTo(k, v, m)
        <5>1. Counters(z) /\ GapsOf(k, z)
          BY <2>2 DEF Adjusted
        <5>2. gaps \in Seq(Int)
          BY DEF AdjustInv
        <5>3. SoundCut /\ Trail(e, c, k, z) /\ IsOf(e)
          BY <2>2, <4>1
        <5>4. QED
          BY <5>1, <5>2, <5>3, SoundGaps
      <4>3. Gap(q) <= Gap(z)
        <5>1. Gap(q) \in Int /\ Gap(z) \in Int
          BY <2>5 DEF Gap
        <5>2. q = v \/ Gap(q) < Gap(z)
          BY <2>4, <4>2
        <5>3. Gap(v) = Gap(z)
          BY <4>2
        <5>4. QED
          BY <5>1, <5>2, <5>3
      <4>4. q.n - Len(q.s.data) <= Gap(z) /\ a = Gap(z) + Len(q.s.data) /\ Gap(z) \in Nat
        BY <2>2, <2>4, <2>9, <4>3 DEF Stands, Gap, Loaded
      <4>5. q.n <= a
        BY <2>5, <4>4
      <4>6. d < q.n
        BY <2>4, <2>9, <2>10
      <4>7. QED
        BY <2>5, <2>9, <2>15, <4>5, <4>6
    <3>3. QED
      BY <3>1, <3>2
  <2>16. QED
    BY <2>14, <2>15
<1>3. dpc # "idle" /\ overrun' \in BOOLEAN /\ (overrun => overrun')
  <2>1. overrun \in BOOLEAN /\ late \in BOOLEAN
    BY DEF MachineInv, late
  <2>2. QED
    BY <1>1, <2>1
<1>4. SoundCut => ~overrun'
  BY <1>2 DEF MachineInv
<1>5. ~overrun' => \E e, c, k, z : Adjusted(e, c, k, z) /\ Loaded(z)' /\ DecoderAt(e, k, z)'
  BY <1>2, <1>3
<1>6. QED
  BY <1>1, <1>3, <1>4, <1>5, StepKeeps

(* The steps before the file is loaded leave the machine idle. *)
LEMMA MachineRests ==
  ASSUME MachineInv, UNCHANGED machineVars, apc # "loaded", apc' # "loaded"
  PROVE  MachineInv'
<1>1. dpc = "idle" /\ ~overrun /\ overrun \in BOOLEAN
  BY DEF MachineInv
<1>2. dpc' = "idle" /\ overrun' = overrun
  BY <1>1 DEF machineVars
<1>3. QED
  BY <1>1, <1>2 DEF MachineInv

LEMMA MachineStutters == MachineInv /\ UNCHANGED inplaceVars => MachineInv'
<1> SUFFICES ASSUME MachineInv, UNCHANGED inplaceVars
             PROVE  MachineInv'
  OBVIOUS
<1>1. /\ UNCHANGED <<vars, apc, adjustVars, packed_data>> /\ UNCHANGED machineVars
      /\ UNCHANGED <<vars, adjustVars, packed_data>> /\ apc' = apc
  BY DEF inplaceVars
<1>2. UNCHANGED <<dpc, mem, at, lz_dst, count, lz_offset, overrun>>
  BY <1>1 DEF machineVars
<1>3. CASE dpc = "idle"
  <2>1. apc # "loaded"
    BY <1>3 DEF MachineInv
  <2>2. QED
    BY <1>1, <2>1, MachineRests
<1>4. CASE dpc # "idle"
  <2>1. ASSUME ~overrun
        PROVE  \E e, c, k, z : Adjusted(e, c, k, z) /\ Loaded(z)' /\ DecoderAt(e, k, z)'
    <3>1. PICK e, c, k, z : InStep(e, c, k, z)
      BY <1>4, <2>1 DEF MachineInv
    <3>2. Adjusted(e, c, k, z) /\ Loaded(z) /\ DecoderAt(e, k, z)
      BY <3>1 DEF InStep
    <3>3. Loaded(z)'
      BY <1>1, <1>2, <3>2 DEF Loaded, data, vars
    <3>4. DecoderAt(e, k, z)'
      BY <1>2, <3>2 DEF DecoderAt, BeforeRun, InRun, BeforeCommand, InMatch, AtMeeting
    <3>5. QED
      BY <3>2, <3>3, <3>4
  <2>2. overrun' = overrun /\ dpc' # "idle" /\ overrun' \in BOOLEAN /\ (SoundCut => ~overrun')
    BY <1>2, <1>4 DEF MachineInv
  <2>3. QED
    BY <1>1, <1>4, <2>1, <2>2, StepKeeps
<1>5. QED
  BY <1>3, <1>4

LEMMA MachineInit == InplaceInit => MachineInv
  BY DEF InplaceInit, MachineInv

LEMMA MachineInductive == AdjustInv /\ MachineInv /\ [InplaceNext]_inplaceVars => MachineInv'
<1> SUFFICES ASSUME AdjustInv, MachineInv, [InplaceNext]_inplaceVars
             PROVE  MachineInv'
  OBVIOUS
<1>1. CASE Write
  <2>1. UNCHANGED machineVars /\ apc' = apc /\ Next
    BY <1>1 DEF Write
  <2>2. apc = "idle"
    BY <2>1, WriterRests DEF AdjustInv
  <2>3. QED
    BY <2>1, <2>2, MachineRests
<1>2. CASE AdjustStart
  <2>1. UNCHANGED machineVars /\ apc # "loaded" /\ apc' # "loaded"
    BY <1>2 DEF AdjustStart
  <2>2. QED
    BY <2>1, MachineRests
<1>3. CASE AdjustLiterals
  <2>1. UNCHANGED machineVars /\ apc # "loaded" /\ apc' # "loaded"
    BY <1>3 DEF AdjustLiterals, EndOfRun
  <2>2. QED
    BY <2>1, MachineRests
<1>4. CASE AdjustCommand
  <2>1. UNCHANGED machineVars /\ apc # "loaded" /\ apc' # "loaded"
    BY <1>4 DEF AdjustCommand, EndOfRun
  <2>2. QED
    BY <2>1, MachineRests
<1>5. CASE Load
  BY <1>5, LoadStep
<1>6. CASE lz_literal
  BY <1>6, ReadLength
<1>7. CASE lz_cp_lit
  BY <1>7, CopyLiteral
<1>8. CASE lz_command
  BY <1>8, ReadCommand
<1>9. CASE lz_cp_match
  BY <1>9, CopyMatch
<1>10. CASE UNCHANGED inplaceVars
  BY <1>10, MachineStutters
<1>11. QED
  BY <1>1, <1>2, <1>3, <1>4, <1>5, <1>6, <1>7, <1>8, <1>9, <1>10 DEF InplaceNext, InplaceStep

LEMMA MachineInvHolds == InplaceSpec => [](AdjustInv /\ MachineInv)
<1>1. InplaceInit => AdjustInv /\ MachineInv
  BY AdjustInit, MachineInit
<1>2. AdjustInv /\ MachineInv /\ [InplaceNext]_inplaceVars => (AdjustInv /\ MachineInv)'
  BY AdjustInductive, MachineInductive
<1>3. QED
  BY <1>1, <1>2, PTL DEF InplaceSpec

(* The decoder has read no farther than the stream was kept. *)
LEMMA ReadSoFar ==
  ASSUME NEW e, NEW c, NEW k, NEW z, InStep(e, c, k, z)
  PROVE  at.src \in Nat /\ at.src <= z.n /\ lz_dst \in Nat /\ lz_dst <= Len(window)
<1>1. Trail(e, c, k, z) /\ IsOf(e) /\ Loaded(z) /\ DecoderAt(e, k, z)
  BY DEF InStep, Adjusted
<1>2. /\ Len(window) \in Nat /\ z.n \in Nat /\ z.n < Len(window) /\ Len(z.s.data) \in Nat
      /\ \A r \in k.points : /\ r \in e.points /\ r.n \in Nat /\ r.n <= z.n
                             /\ Len(r.s.data) \in Nat /\ Len(r.s.data) <= Len(z.s.data)
  BY <1>1, PointSizes
<1>3. lz_dst \in Nat /\ at.src \in Nat
  BY <1>1 DEF Loaded
<1>4. ASSUME NEW r \in k.points, Stands(e.full, Gap(z), r.s, at)
      PROVE  at.src <= z.n
  BY <1>1, <1>2, <1>4, Inside
<1>5. CASE \E r, len : BeforeRun(e, k, z, r, len)
  <2>1. PICK r, len : BeforeRun(e, k, z, r, len)
    BY <1>5
  <2>2. /\ r \in k.points /\ ByLiterals(k, r, len) /\ Stands(e.full, Gap(z), Base(r), at)
        /\ lz_dst = r.n
    BY <2>1 DEF BeforeRun
  <2>3. ByLiterals(e, r, len) /\ LiteralsTo(e, r, len) \in k.points /\ Explains(e) /\ r \in e.points
    BY <1>1, <1>2, <2>2, TrailCommands DEF Trail
  <2>4. /\ Len(Base(r).data) \in Nat /\ Len(Run(r, len).data) \in Nat
        /\ Len(Base(r).data) <= Len(Run(r, len).data)
        /\ Len(LiteralsTo(e, r, len).s.data) = Len(Run(r, len).data) + len /\ len \in Nat
    BY <2>3, LiteralsSizes DEF Run
  <2>5. PICK l1, l2, l3 \in Nat : /\ l1 = Len(Base(r).data) /\ l2 = Len(Run(r, len).data)
                                  /\ l3 = Len(z.s.data)
    BY <1>2, <2>4
  <2>6. l1 <= l2 /\ l2 + len <= l3
    BY <1>2, <2>3, <2>4, <2>5
  <2>7. l1 <= l3
    BY <2>4, <2>6
  <2>8. Len(Base(r).data) <= Len(z.s.data)
    BY <2>5, <2>7
  <2>9. at.src <= z.n
    BY <1>1, <2>2, <2>4, <2>8, Inside
  <2>10. r.n <= z.n /\ r.n \in Nat
    BY <1>2, <2>2
  <2>11. QED
    BY <1>2, <1>3, <2>2, <2>9, <2>10
<1>6. CASE \E r, len : InRun(e, k, z, r, len)
  <2>1. PICK r, len : InRun(e, k, z, r, len)
    BY <1>6
  <2> DEFINE q == LiteralsTo(k, r, len)
  <2>2. /\ r \in k.points /\ ByLiterals(k, r, len) /\ CursorOK(at) /\ count \in 1 .. len
        /\ Stands(e.full, Gap(z), q.s, AfterBytes(at, count)) /\ lz_dst = r.n + (len - count)
    BY <2>1 DEF InRun
  <2>3. q \in k.points /\ q.n = r.n + len /\ len \in Nat
    <3>1. q.n = r.n + len
      BY DEF LiteralsTo
    <3>2. len \in 1 .. Len(k.text) - r.n /\ q \in k.points
      BY <2>2 DEF ByLiterals
    <3>3. k.text = window
      BY <1>1 DEF Trail, IsOf
    <3>4. QED
      BY <1>2, <2>2, <3>1, <3>2, <3>3
  <2> HIDE DEF q
  <2>4. Len(q.s.data) \in Nat /\ Len(q.s.data) <= Len(z.s.data)
    BY <1>2, <2>3
  <2>5. AfterBytes(at, count).src <= z.n
    <3> DEFINE b == AfterBytes(at, count)
    <3>1. Stands(e.full, Gap(z), q.s, b)
      BY <2>2
    <3> HIDE DEF b
    <3>2. b.src <= z.n
      BY <1>1, <2>4, <3>1, Inside
    <3>3. QED
      BY <3>2 DEF b
  <2>6. AfterBytes(at, count).src = at.src + count /\ count \in Nat /\ count <= len
    <3>1. count \in Nat /\ count <= len /\ CursorOK(at)
      BY <2>2, <2>3
    <3>2. AfterBytes(at, count).src = at.src + count
      BY <3>1, BytesOn
    <3>3. QED
      BY <3>1, <3>2
  <2>7. q.n <= z.n /\ r.n \in Nat
    BY <1>2, <2>2, <2>3
  <2>8. PICK n, cnt, s \in Nat : n = r.n /\ cnt = count /\ s = at.src
    BY <1>3, <2>6, <2>7
  <2>9. s + cnt <= z.n /\ n + len <= z.n /\ cnt <= len /\ lz_dst = n + (len - cnt)
    BY <2>2, <2>3, <2>5, <2>6, <2>7, <2>8
  <2>10. s <= z.n /\ lz_dst <= Len(window)
    BY <1>2, <2>3, <2>9
  <2>11. QED
    BY <1>3, <2>8, <2>10
<1>7. CASE \E r : BeforeCommand(e, k, z, r)
  BY <1>2, <1>3, <1>4, <1>7 DEF BeforeCommand
<1>8. CASE \E r, q, len : InMatch(e, k, z, r, q, len)
  <2>1. PICK r, q, len : InMatch(e, k, z, r, q, len)
    BY <1>8
  <2>2. at.src <= z.n /\ lz_dst <= at.src
    BY <1>4, <2>1 DEF InMatch
  <2>3. QED
    BY <1>2, <1>3, <2>2
<1>9. CASE \E r : AtMeeting(e, k, z, r)
  BY <1>2, <1>3, <1>4, <1>9 DEF AtMeeting
<1>10. QED
  BY <1>1, <1>5, <1>6, <1>7, <1>8, <1>9 DEF DecoderAt

(***************************************************************************)
(* Until an unread byte is overwritten, the decoder has written the        *)
(* beginning of the original and has not read past the kept stream.        *)
(***************************************************************************)
THEOREM DecoderWritesThePrefix == InplaceSpec => []PrefixUntilOverrun
<1>1. ASSUME AdjustInv, MachineInv, dpc # "idle", ~overrun
      PROVE  KeptStreamIsRead /\ SubSeq(mem, 1, lz_dst) = SubSeq(window, 1, lz_dst)
  <2>1. PICK e, c, k, z : InStep(e, c, k, z)
    BY <1>1 DEF MachineInv
  <2>2. Trail(e, c, k, z) /\ IsOf(e) /\ Loaded(z) /\ Counters(z) /\ Cut(z)
    <3>1. apc = "loaded"
      BY <1>1 DEF MachineInv
    <3>2. QED
      BY <2>1, <3>1 DEF InStep, Adjusted, AfterCut
  <2>3. at.src \in Nat /\ at.src <= z.n /\ lz_dst \in Nat /\ lz_dst <= Len(window)
    BY <2>1, ReadSoFar
  <2>4. /\ Len(window) \in Nat /\ window \in Seq(Byte) /\ z.n \in Nat /\ z.n < Len(window)
        /\ Len(z.s.data) \in Nat
    BY <2>2, PointSizes
  <2>5. KeptStreamIsRead
    <3>1. PICK l, n, w, m \in Nat : Parts(z, l, n, w, m)
      BY <2>2, CutParts
    <3>2. Len(packed_data) = l + m /\ l = Len(z.s.data) /\ n = z.n /\ w = Len(window) /\ m = w - n
      BY <3>1 DEF Parts
    <3>3. safe_output_index = l
      BY <2>2, <3>2 DEF Counters
    <3>4. (w - (l + m)) + l = n
      <4>1. m = w - n
        BY <3>2
      <4>2. QED
        BY <4>1
    <3>5. at.src <= (w - (l + m)) + l
      BY <2>3, <3>2, <3>4
    <3>6. QED
      BY <3>2, <3>3, <3>5 DEF KeptStreamIsRead, unpacked_size
  <2>6. SubSeq(mem, 1, lz_dst) = SubSeq(window, 1, lz_dst)
    <3>1. /\ mem \in Seq(Byte) /\ Len(mem) = Len(window)
          /\ \A p \in 1 .. lz_dst : mem[p] = window[p]
      BY <2>2 DEF Loaded
    <3>2. /\ SubSeq(mem, 1, lz_dst) \in Seq(Byte) /\ Len(SubSeq(mem, 1, lz_dst)) = lz_dst
          /\ \A j \in 1 .. lz_dst : SubSeq(mem, 1, lz_dst)[j] = mem[j]
      BY <2>3, <3>1, HeadOf
    <3>3. /\ SubSeq(window, 1, lz_dst) \in Seq(Byte) /\ Len(SubSeq(window, 1, lz_dst)) = lz_dst
          /\ \A j \in 1 .. lz_dst : SubSeq(window, 1, lz_dst)[j] = window[j]
      BY <2>3, <2>4, HeadOf
    <3> DEFINE x == SubSeq(mem, 1, lz_dst)
               y == SubSeq(window, 1, lz_dst)
    <3>4. /\ x \in Seq(Byte) /\ y \in Seq(Byte) /\ Len(x) = Len(y)
          /\ \A j \in 1 .. Len(x) : x[j] = y[j]
      BY <3>1, <3>2, <3>3
    <3> HIDE DEF x, y
    <3>5. x = y
      BY <3>4, SeqEqual
    <3>6. QED
      BY <3>5 DEF x, y
  <2>7. QED
    BY <2>5, <2>6
<1>2. AdjustInv /\ MachineInv => PrefixUntilOverrun
  BY <1>1 DEF PrefixUntilOverrun
<1>3. QED
  BY <1>2, MachineInvHolds, PTL

(***************************************************************************)
(* After a sound cut the decoder stops, if it does, only where its         *)
(* pointers meet at the last match before the cut, and the original is in  *)
(* memory then: what was behind that match is in place already.            *)
(***************************************************************************)
THEOREM SoundCutRestores == InplaceSpec => []RestoresAfterSoundCut
<1>1. ASSUME AdjustInv, MachineInv, Stopped, SoundCut
      PROVE  dpc = "done" /\ mem = window
  <2>1. dpc # "idle" /\ ~overrun
    BY <1>1 DEF MachineInv, Stopped
  <2>2. PICK e, c, k, z : InStep(e, c, k, z)
    BY <1>1, <2>1 DEF MachineInv
  <2>3. dpc = "done" /\ \E r : AtMeeting(e, k, z, r)
    BY <1>1, <2>2 DEF InStep, DecoderAt, Stopped
  <2>4. PICK r : AtMeeting(e, k, z, r)
    BY <2>3
  <2>5. /\ r \in k.points /\ r.state = 2 /\ Stands(e.full, Gap(z), r.s, at)
        /\ lz_dst = r.n /\ lz_dst = at.src
    BY <2>4 DEF AtMeeting
  <2>6. /\ Trail(e, c, k, z) /\ IsOf(e) /\ Loaded(z) /\ Counters(z) /\ GapsOf(k, z)
        /\ gaps \in Seq(Int)
    BY <1>1, <2>2 DEF InStep, Adjusted, AdjustInv
  <2>7. /\ Len(window) \in Nat /\ window \in Seq(Byte) /\ z.n \in Nat /\ z.n < Len(window)
        /\ Len(z.s.data) \in Nat /\ r.n \in Nat /\ Len(r.s.data) \in Nat /\ r \in e.points
        /\ window = e.text /\ data = e.full.data
    BY <2>5, <2>6, PointSizes
  <2>8. PICK v \in k.points :
          /\ v.state = 2 /\ Gap(v) = Gap(z)
          /\ \A p \in k.points : p.state = 2 /\ p # v => Gap(p) < Gap(z)
          /\ z = v \/ \E m : ByLiterals(k, v, m) /\ z = LiteralsTo(k, v, m)
    BY <1>1, <2>6, SoundGaps
  <2>9. at.src = Gap(z) + Len(r.s.data) /\ Gap(z) \in Nat
    BY <2>5, <2>6 DEF Stands, Loaded
  <2>10. Gap(r) = Gap(z)
    BY <2>5, <2>7, <2>9 DEF Gap
  <2>11. r = v
    <3>1. ~(Gap(z) < Gap(z))
      BY <2>9
    <3>2. QED
      BY <2>5, <2>8, <2>10, <3>1
  <2>12. /\ mem \in Seq(Byte) /\ Len(mem) = Len(window)
         /\ \A p \in 1 .. r.n : mem[p] = window[p]
         /\ \A p \in z.n + 1 .. Len(window) : mem[p] = window[p]
         /\ \A j \in 1 .. Len(z.s.data) : Gap(z) + j > r.n => mem[Gap(z) + j] = data[j]
    BY <2>5, <2>6 DEF Loaded
  <2>13. \A p \in 1 .. Len(window) : mem[p] = window[p]
    <3>1. CASE z = v
      <4>1. \A p \in 1 .. Len(window) : p \in 1 .. z.n \/ p \in z.n + 1 .. Len(window)
        BY <2>7
      <4>2. QED
        BY <2>11, <2>12, <3>1, <4>1
    <3>2. CASE \E m : ByLiterals(k, v, m) /\ z = LiteralsTo(k, v, m)
      <4>1. PICK len : ByLiterals(k, r, len) /\ z = LiteralsTo(k, r, len)
        BY <2>11, <3>2
      <4>2. ByLiterals(e, r, len) /\ z = LiteralsTo(e, r, len) /\ Explains(e)
        <5>1. Trail(e, c, k, z)
          BY <2>6
        <5>2. ByLiterals(e, r, len) /\ LiteralsTo(k, r, len) = LiteralsTo(e, r, len)
          BY <4>1, <5>1, TrailCommands
        <5>3. Explains(e)
          BY <5>1 DEF Trail
        <5>4. QED
          BY <4>1, <5>2, <5>3
      <4>3. z.n = r.n + len
        BY <4>2 DEF LiteralsTo
      <4>4. /\ Len(Run(r, len).data) \in Nat /\ len \in Nat
            /\ Len(z.s.data) = Len(Run(r, len).data) + len
            /\ \A j \in 1 .. len : e.full.data[Len(Run(r, len).data) + j] = e.text[r.n + j]
        BY <2>7, <4>2, LiteralsSizes DEF Run
      <4>5. PICK g, l, n \in Nat : g = Gap(z) /\ l = Len(Run(r, len).data) /\ n = r.n
        BY <2>7, <2>9, <4>4
      <4>6. Len(z.s.data) = l + len /\ z.n = n + len /\ g + l = n
        <5>1. Gap(z) = (n + len) - (l + len)
          BY <4>3, <4>4, <4>5 DEF Gap
        <5>2. g = (n + len) - (l + len)
          BY <4>5, <5>1
        <5>3. g + l = n
          BY <4>4, <5>2
        <5>4. QED
          BY <4>3, <4>4, <4>5, <5>3
      <4>7. ASSUME NEW j \in 1 .. len
            PROVE  mem[n + j] = window[n + j]
        <5>1. l + j \in 1 .. l + len /\ g + (l + j) = n + j /\ n + j > n
          BY <4>4, <4>6
        <5>2. mem[g + (l + j)] = data[l + j]
          <6>1. \A i_ \in 1 .. l + len : g + i_ > n => mem[g + i_] = data[i_]
            BY <2>12, <4>5, <4>6
          <6>2. QED
            BY <5>1, <6>1
        <5>3. data[l + j] = window[n + j]
          BY <2>7, <4>4, <4>5
        <5>4. QED
          BY <5>1, <5>2, <5>3
      <4>8. ASSUME NEW p \in 1 .. Len(window)
            PROVE  mem[p] = window[p]
        <5>1. CASE p <= n
          BY <2>12, <4>5, <5>1
        <5>2. CASE p > n /\ p <= n + len
          <6>1. p - n \in 1 .. len /\ n + (p - n) = p
            BY <4>4, <5>2
          <6>2. QED
            BY <4>7, <6>1
        <5>3. CASE p > n + len
          <6>1. p \in z.n + 1 .. Len(window)
            BY <2>7, <4>4, <4>6, <5>3
          <6>2. QED
            BY <2>12, <6>1
        <5>4. QED
          BY <4>4, <5>1, <5>2, <5>3
      <4>9. QED
        BY <4>8
    <3>3. QED
      BY <2>8, <3>1, <3>2
  <2>14. mem = window
    BY <2>7, <2>12, <2>13, SeqEqual
  <2>15. QED
    BY <2>3, <2>14
<1>2. AdjustInv /\ MachineInv => RestoresAfterSoundCut
  BY <1>1 DEF RestoresAfterSoundCut
<1>3. QED
  BY <1>2, MachineInvHolds, PTL
=============================================================================
