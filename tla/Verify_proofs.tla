---------------------------- MODULE Verify_proofs ----------------------------
(***************************************************************************)
(* What holds of the writer for every byte width, every window and every   *)
(* choice of matches; and that the writer and the strict decoder together  *)
(* keep the promise of a packed file, for every input.                     *)
(***************************************************************************)
EXTENDS Verify, KcFormat_proofs, SequenceTheorems

(***************************************************************************)
(* A stream as it is between two bits: the free bits of the open control   *)
(* byte are zero, so that the next bit can be added there.                 *)
(***************************************************************************)
Place(s) == s.bits_offset + 1

FreeAreZero(s) ==
  s.bit_shift >= 0 =>
    s.bits_offset < Len(s.data) /\ s.data[Place(s)] % 2 ^ (s.bit_shift + 1) = 0

StreamOK(s) ==
  /\ s \in [data : Seq(Byte), bits_offset : Nat, bit_shift : -1 .. ByteBits - 2]
  /\ FreeAreZero(s)

-----------------------------------------------------------------------------
(***************************************************************************)
(* One bit, or raw bytes.                                                  *)
(***************************************************************************)
LEMMA OpenedOK ==
  ASSUME NEW s, StreamOK(s)
  PROVE  /\ Opened(s) \in [data : Seq(Byte), bits_offset : Nat, bit_shift : 0 .. ByteBits - 1]
         /\ Place(Opened(s)) \in 1 .. Len(Opened(s).data)
         /\ Opened(s).data[Place(Opened(s))] \in Byte
         /\ Opened(s).data[Place(Opened(s))] % 2 ^ (Opened(s).bit_shift + 1) = 0
<1>1. s \in [data : Seq(Byte), bits_offset : Nat, bit_shift : -1 .. ByteBits - 2]
  BY DEF StreamOK
<1>2. CASE s.bit_shift < 0
  <2>1. Opened(s) = [data |-> Append(s.data, 0), bits_offset |-> Len(s.data),
                     bit_shift |-> ByteBits - 1]
    BY <1>2 DEF Opened
  <2>2. 0 \in Byte /\ Append(s.data, 0) \in Seq(Byte) /\ Len(s.data) \in Nat
        /\ Len(Append(s.data, 0)) = Len(s.data) + 1
        /\ Append(s.data, 0)[Len(s.data) + 1] = 0
    BY <1>1, FormatAssumption DEF Byte
  <2>3. ByteBits - 1 \in 0 .. ByteBits - 1 /\ (ByteBits - 1) + 1 = ByteBits
    BY FormatAssumption
  <2>4. 0 % 2 ^ ByteBits = 0
    BY FormatAssumption
  <2>5. QED
    BY <2>1, <2>2, <2>3, <2>4 DEF Place
<1>3. CASE ~(s.bit_shift < 0)
  <2>1. Opened(s) = s
    BY <1>3 DEF Opened
  <2>2. s.bit_shift \in 0 .. ByteBits - 1 /\ s.bits_offset \in Nat
        /\ s.data \in Seq(Byte)
    BY <1>1, <1>3, FormatAssumption
  <2>3. s.bits_offset < Len(s.data) /\ s.data[Place(s)] % 2 ^ (s.bit_shift + 1) = 0
    BY <2>2 DEF StreamOK, FreeAreZero
  <2>4. Place(s) \in 1 .. Len(s.data)
    BY <2>2, <2>3 DEF Place
  <2>5. s.data[Place(s)] \in Byte
    BY <2>2, <2>4
  <2>6. s \in [data : Seq(Byte), bits_offset : Nat, bit_shift : 0 .. ByteBits - 1]
    BY <1>1, <2>2
  <2>7. QED
    BY <2>1, <2>3, <2>4, <2>5, <2>6
<1>4. QED
  BY <1>2, <1>3

LEMMA PutBitIs ==
  ASSUME NEW s, StreamOK(s), NEW bit \in {0, 1}
  PROVE  LET o == Opened(s)
         IN  PutBit(s, bit) =
               [data |-> [o.data EXCEPT ![Place(o)] = o.data[Place(o)] + bit * 2 ^ o.bit_shift],
                bits_offset |-> o.bits_offset,
                bit_shift |-> o.bit_shift - 1]
<1> DEFINE o == Opened(s)
<1>1. s \in Stream
  BY FormatAssumption DEF StreamOK, Stream
<1>2. QED
  BY <1>1 DEF PutBit, Place, Weight

LEMMA PutBitOK ==
  ASSUME NEW s, StreamOK(s), NEW bit \in {0, 1}
  PROVE  LET o == Opened(s)
             t == PutBit(s, bit)
         IN  /\ StreamOK(t)
             /\ t.bits_offset = o.bits_offset /\ t.bit_shift = o.bit_shift - 1
             /\ Len(t.data) = Len(o.data)
             /\ \A k \in 1 .. Len(o.data) : k # Place(o) => t.data[k] = o.data[k]
             /\ t.data[Place(o)] \div 2 ^ (o.bit_shift + 1)
                  = o.data[Place(o)] \div 2 ^ (o.bit_shift + 1)
             /\ Bit(t.data[Place(o)], o.bit_shift) = bit
<1> DEFINE o == Opened(s)
           t == PutBit(s, bit)
           old == o.data[Place(o)]
           new == old + bit * 2 ^ o.bit_shift
<1>1. /\ o \in [data : Seq(Byte), bits_offset : Nat, bit_shift : 0 .. ByteBits - 1]
      /\ Place(o) \in 1 .. Len(o.data) /\ old \in Byte /\ old % 2 ^ (o.bit_shift + 1) = 0
  BY OpenedOK
<1>2. t = [data |-> [o.data EXCEPT ![Place(o)] = new],
           bits_offset |-> o.bits_offset, bit_shift |-> o.bit_shift - 1]
  BY PutBitIs
<1> HIDE DEF o
<1> HIDE DEF t
<1>3. o.bit_shift \in 0 .. ByteBits - 1
  BY <1>1
<1>4. /\ new \in Byte /\ new % 2 ^ o.bit_shift = 0
      /\ new \div 2 ^ (o.bit_shift + 1) = old \div 2 ^ (o.bit_shift + 1)
      /\ (new \div 2 ^ o.bit_shift) % 2 = bit
  BY <1>1, <1>3, BitAdded
<1> HIDE DEF old, new
<1>5. /\ t.data = [o.data EXCEPT ![Place(o)] = new]
      /\ t.bits_offset = o.bits_offset /\ t.bit_shift = o.bit_shift - 1
      /\ t \in [data : {t.data}, bits_offset : {t.bits_offset}, bit_shift : {t.bit_shift}]
  BY <1>2
<1>6. /\ t.data \in Seq(Byte) /\ Len(t.data) = Len(o.data)
      /\ t.data[Place(o)] = new
      /\ \A k \in 1 .. Len(o.data) : k # Place(o) => t.data[k] = o.data[k]
  BY <1>1, <1>4, <1>5
<1>7. FreeAreZero(t)
  <2>1. Place(t) = Place(o) /\ t.bits_offset < Len(t.data)
    BY <1>1, <1>5, <1>6 DEF Place
  <2>2. t.bit_shift + 1 = o.bit_shift
    BY <1>3, <1>5
  <2>3. QED
    BY <1>4, <1>6, <2>1, <2>2 DEF FreeAreZero
<1>8. t \in [data : Seq(Byte), bits_offset : Nat, bit_shift : -1 .. ByteBits - 2]
  <2>1. o.bit_shift - 1 \in -1 .. ByteBits - 2 /\ o.bits_offset \in Nat
    BY <1>1, <1>3, FormatAssumption
  <2>2. QED
    BY <1>5, <1>6, <2>1
<1>9. Bit(new, o.bit_shift) = bit
  BY <1>4 DEF Bit
<1>10. QED
  BY <1>4, <1>5, <1>6, <1>7, <1>8, <1>9 DEF StreamOK, o, t, old

-----------------------------------------------------------------------------
(***************************************************************************)
(* What a stream has become later on: its bytes are those of the earlier   *)
(* one, but for the lower bits of the control byte that was open then, and *)
(* a control byte that was closed is never opened again.                   *)
(***************************************************************************)
OpenPlace(s) == IF s.bit_shift >= 0 THEN Place(s) ELSE 0

Upper(s, t) == t.data[Place(s)] \div 2 ^ (s.bit_shift + 1)

Extends(t, s) ==
  /\ Len(s.data) <= Len(t.data)
  /\ \A k \in 1 .. Len(s.data) : k # OpenPlace(s) => t.data[k] = s.data[k] /\ k # OpenPlace(t)
  /\ s.bit_shift >= 0 => /\ Upper(s, t) = Upper(s, s)
                         /\ OpenPlace(t) = Place(s) => t.bit_shift <= s.bit_shift

LEMMA ExtendsItself == ASSUME NEW s, StreamOK(s) PROVE Extends(s, s)
<1>1. Len(s.data) \in Nat /\ s.bit_shift \in Int
  BY FormatAssumption DEF StreamOK
<1>2. QED
  BY <1>1 DEF Extends

LEMMA ExtendsOn ==
  ASSUME NEW s, StreamOK(s), NEW t, StreamOK(t), NEW u, StreamOK(u), Extends(t, s), Extends(u, t)
  PROVE  Extends(u, s)
<1>1. /\ s.data \in Seq(Byte) /\ t.data \in Seq(Byte) /\ u.data \in Seq(Byte)
      /\ Len(s.data) \in Nat /\ Len(t.data) \in Nat /\ Len(u.data) \in Nat
      /\ s.bit_shift \in Int /\ t.bit_shift \in Int /\ u.bit_shift \in Int
      /\ s.bit_shift <= ByteBits - 2 /\ t.bit_shift <= ByteBits - 2
      /\ s.bits_offset \in Nat /\ t.bits_offset \in Nat
  BY FormatAssumption DEF StreamOK
<1>2. Len(s.data) <= Len(t.data) /\ Len(t.data) <= Len(u.data)
  BY DEF Extends
<1>3. ASSUME NEW k \in 1 .. Len(s.data), k # OpenPlace(s)
      PROVE  u.data[k] = s.data[k] /\ k # OpenPlace(u)
  <2>1. t.data[k] = s.data[k] /\ k # OpenPlace(t)
    BY <1>3 DEF Extends
  <2>2. k \in 1 .. Len(t.data)
    BY <1>1, <1>2
  <2>3. u.data[k] = t.data[k] /\ k # OpenPlace(u)
    BY <2>1, <2>2 DEF Extends
  <2>4. QED
    BY <2>1, <2>3
<1>4. ASSUME s.bit_shift >= 0
      PROVE  /\ Upper(s, u) = Upper(s, s)
             /\ OpenPlace(u) = Place(s) => u.bit_shift <= s.bit_shift
  <2>1. Place(s) \in 1 .. Len(s.data) /\ Place(s) \in 1 .. Len(t.data)
        /\ Place(s) \in 1 .. Len(u.data)
    BY <1>1, <1>2, <1>4, SMTT(30) DEF StreamOK, FreeAreZero, Place
  <2>2. Upper(s, t) = Upper(s, s) /\ (OpenPlace(t) = Place(s) => t.bit_shift <= s.bit_shift)
    BY <1>4 DEF Extends
  <2>3. CASE OpenPlace(t) # Place(s)
    <3>1. u.data[Place(s)] = t.data[Place(s)] /\ Place(s) # OpenPlace(u)
      BY <2>1, <2>3 DEF Extends
    <3>2. QED
      BY <2>2, <3>1 DEF Upper
  <2>4. CASE OpenPlace(t) = Place(s)
    <3>1. t.bit_shift >= 0 /\ Place(t) = Place(s) /\ t.bit_shift <= s.bit_shift
      BY <1>1, <2>1, <2>2, <2>4 DEF OpenPlace
    <3>2. Upper(t, u) = Upper(t, t) /\ (OpenPlace(u) = Place(t) => u.bit_shift <= t.bit_shift)
      BY <3>1 DEF Extends
    <3> DEFINE a == 2 ^ (t.bit_shift + 1)
               b == 2 ^ (s.bit_shift - t.bit_shift)
               x == u.data[Place(s)]
               y == t.data[Place(s)]
    <3>3. x \in Nat /\ y \in Nat
      <4>1. x \in Byte /\ y \in Byte
        BY <1>1, <2>1
      <4>2. QED
        BY <4>1, ByteIsNat
    <3>4. x \div a = y \div a
      BY <3>1, <3>2 DEF Upper
    <3>5. /\ t.bit_shift + 1 \in Nat /\ s.bit_shift - t.bit_shift \in Nat
          /\ t.bit_shift + 1 \in 0 .. 2 * ByteBits + 1
          /\ s.bit_shift - t.bit_shift \in 0 .. 2 * ByteBits + 1
          /\ (t.bit_shift + 1) + (s.bit_shift - t.bit_shift) = s.bit_shift + 1
          /\ (t.bit_shift + 1) + (s.bit_shift - t.bit_shift) <= 2 * ByteBits + 1
      <4> DEFINE low  == t.bit_shift
                 high == s.bit_shift
      <4>1. /\ low \in Int /\ high \in Int /\ low >= 0 /\ low <= high /\ high <= ByteBits - 2
            /\ ByteBits \in Nat
        BY <1>1, <3>1, FormatAssumption
      <4> HIDE DEF low, high
      <4>2. /\ low + 1 \in Nat /\ high - low \in Nat
            /\ low + 1 \in 0 .. 2 * ByteBits + 1 /\ high - low \in 0 .. 2 * ByteBits + 1
            /\ (low + 1) + (high - low) = high + 1
            /\ (low + 1) + (high - low) <= 2 * ByteBits + 1
        BY <4>1
      <4>3. QED
        BY <4>2 DEF low, high
    <3>6. a \in Nat \ {0} /\ b \in Nat \ {0}
      BY <3>5, PowerType
    <3>7. 2 ^ (s.bit_shift + 1) = a * b
      <4>1. 2 ^ ((t.bit_shift + 1) + (s.bit_shift - t.bit_shift)) = a * b
        BY <3>5, PowerSum
      <4>2. QED
        BY <3>5, <4>1
    <3> HIDE DEF a, b, x, y
    <3>8. x \div (a * b) = (x \div a) \div b /\ y \div (a * b) = (y \div a) \div b
      BY <3>3, <3>6, DivDiv
    <3>9. x \div (a * b) = y \div (a * b)
      BY <3>4, <3>8
    <3>10. Upper(s, u) = Upper(s, t)
      BY <3>7, <3>9 DEF Upper, x, y
    <3>11. OpenPlace(u) = Place(s) => u.bit_shift <= s.bit_shift
      BY <1>1, <3>1, <3>2
    <3>12. QED
      BY <2>2, <3>10, <3>11
  <2>5. QED
    BY <2>3, <2>4
<1>5. QED
  BY <1>1, <1>2, <1>3, <1>4 DEF Extends

LEMMA ExtendsBit ==
  ASSUME NEW s, StreamOK(s), NEW bit \in {0, 1}
  PROVE  Extends(PutBit(s, bit), s)
<1> DEFINE o == Opened(s)
           t == PutBit(s, bit)
<1>1. /\ t.bits_offset = o.bits_offset /\ t.bit_shift = o.bit_shift - 1
      /\ Len(t.data) = Len(o.data)
      /\ \A k \in 1 .. Len(o.data) : k # Place(o) => t.data[k] = o.data[k]
      /\ t.data[Place(o)] \div 2 ^ (o.bit_shift + 1)
           = o.data[Place(o)] \div 2 ^ (o.bit_shift + 1)
  BY PutBitOK
<1>2. s.data \in Seq(Byte) /\ Len(s.data) \in Nat /\ s.bits_offset \in Nat /\ s.bit_shift \in Int
  BY FormatAssumption DEF StreamOK
<1> HIDE DEF t
<1>3. CASE s.bit_shift < 0
  <2>1. /\ o.data = Append(s.data, 0) /\ o.bits_offset = Len(s.data)
        /\ o.bit_shift = ByteBits - 1
    BY <1>3 DEF Opened
  <2>2. /\ Len(o.data) = Len(s.data) + 1 /\ Place(o) = Len(s.data) + 1
        /\ \A k \in 1 .. Len(s.data) : o.data[k] = s.data[k]
    BY <1>2, <2>1 DEF Place
  <2> HIDE DEF o
  <2>3. \A k \in 1 .. Len(s.data) : t.data[k] = s.data[k]
    BY <1>1, <1>2, <2>2, SMTT(30)
  <2>4. OpenPlace(t) \in {0, Len(s.data) + 1}
    BY <1>1, <2>2 DEF OpenPlace, Place
  <2>5. Extends(t, s)
    BY <1>1, <1>2, <1>3, <2>2, <2>3, <2>4 DEF Extends
  <2>6. QED
    BY <2>5 DEF t
<1>4. CASE ~(s.bit_shift < 0)
  <2>1. o = s
    BY <1>4 DEF Opened
  <2>2. OpenPlace(s) = Place(s) /\ OpenPlace(t) \in {0, Place(s)}
    BY <1>1, <1>2, <1>4, <2>1 DEF OpenPlace, Place
  <2> HIDE DEF o
  <2>3. Upper(s, t) = Upper(s, s)
    BY <1>1, <2>1 DEF Upper
  <2>4. t.bit_shift <= s.bit_shift
    BY <1>1, <1>2, <2>1
  <2>5. Extends(t, s)
    BY <1>1, <1>2, <2>1, <2>2, <2>3, <2>4 DEF Extends
  <2>6. QED
    BY <2>5 DEF t
<1>5. QED
  BY <1>2, <1>3, <1>4

LEMMA PutBytesOK ==
  ASSUME NEW s, StreamOK(s), NEW bytes \in Seq(Byte)
  PROVE  /\ StreamOK(PutBytes(s, bytes)) /\ Extends(PutBytes(s, bytes), s)
         /\ PutBytes(s, bytes).bits_offset = s.bits_offset
         /\ PutBytes(s, bytes).bit_shift = s.bit_shift
         /\ Len(PutBytes(s, bytes).data) = Len(s.data) + Len(bytes)
         /\ \A k \in 1 .. Len(bytes) : PutBytes(s, bytes).data[Len(s.data) + k] = bytes[k]
<1> DEFINE t == PutBytes(s, bytes)
<1>1. /\ s \in [data : Seq(Byte), bits_offset : Nat, bit_shift : -1 .. ByteBits - 2]
      /\ s.data \in Seq(Byte) /\ Len(s.data) \in Nat /\ s.bits_offset \in Nat
      /\ s.bit_shift \in Int /\ Len(bytes) \in Nat
  BY FormatAssumption DEF StreamOK
<1>2. t.data = s.data \o bytes /\ t.bits_offset = s.bits_offset /\ t.bit_shift = s.bit_shift
  BY <1>1 DEF PutBytes
<1>3. /\ t.data \in Seq(Byte) /\ Len(t.data) = Len(s.data) + Len(bytes)
      /\ \A k \in 1 .. Len(s.data) : t.data[k] = s.data[k]
      /\ \A k \in 1 .. Len(bytes) : t.data[Len(s.data) + k] = bytes[k]
  BY <1>1, <1>2
<1>4. t \in [data : Seq(Byte), bits_offset : Nat, bit_shift : -1 .. ByteBits - 2]
  BY <1>1, <1>3 DEF PutBytes
<1> HIDE DEF t
<1>5. s.bit_shift >= 0 => Place(s) \in 1 .. Len(s.data)
  BY <1>1 DEF StreamOK, FreeAreZero, Place
<1>6. FreeAreZero(t)
  BY <1>1, <1>2, <1>3, <1>5 DEF StreamOK, FreeAreZero, Place
<1>7. Extends(t, s)
  <2>1. OpenPlace(t) = OpenPlace(s) /\ (s.bit_shift >= 0 => Upper(s, t) = Upper(s, s))
    BY <1>2, <1>3, <1>5 DEF OpenPlace, Place, Upper
  <2>2. QED
    BY <1>1, <1>2, <1>3, <2>1 DEF Extends
<1>8. QED
  BY <1>2, <1>3, <1>4, <1>6, <1>7 DEF StreamOK, t

-----------------------------------------------------------------------------
(***************************************************************************)
(* Several bits are one bit after the other.                               *)
(***************************************************************************)
Steps(s, bits, m, f) ==
  f = [n \in 0 .. m |-> IF n = 0 THEN s ELSE PutBit(f[n - 1], bits[n])]

LEMMA StepsExist ==
  ASSUME NEW s, NEW bits, NEW m \in Nat
  PROVE  \E f : Steps(s, bits, m, f)
<1> DEFINE S == {n \in Nat : \E f : Steps(s, bits, n, f)}
<1>1. 0 \in S
  <2>1. Steps(s, bits, 0, [n \in 0 .. 0 |-> s])
    BY DEF Steps
  <2>2. QED
    BY <2>1
<1>2. ASSUME NEW k \in S PROVE k + 1 \in S
  <2>1. k \in Nat
    OBVIOUS
  <2>2. PICK f : Steps(s, bits, k, f)
    OBVIOUS
  <2> DEFINE g == [n \in 0 .. k + 1 |-> IF n = k + 1 THEN PutBit(f[k], bits[k + 1]) ELSE f[n]]
  <2>3. ASSUME NEW n \in 0 .. k + 1
        PROVE  g[n] = IF n = 0 THEN s ELSE PutBit(g[n - 1], bits[n])
    <3>1. CASE n = k + 1
      <4>1. g[n] = PutBit(f[k], bits[k + 1]) /\ g[n - 1] = f[k] /\ n # 0
        BY <2>1, <3>1
      <4>2. QED
        BY <3>1, <4>1
    <3>2. CASE n # k + 1
      <4>1. n \in 0 .. k /\ g[n] = f[n] /\ (n # 0 => g[n - 1] = f[n - 1])
        BY <2>1, <3>2
      <4>2. f[n] = IF n = 0 THEN s ELSE PutBit(f[n - 1], bits[n])
        BY <2>2, <4>1 DEF Steps
      <4>3. QED
        BY <4>1, <4>2
    <3>3. QED
      BY <3>1, <3>2
  <2>4. g = [n \in 0 .. k + 1 |-> g[n]]
    OBVIOUS
  <2> HIDE DEF g
  <2>5. Steps(s, bits, k + 1, g)
    BY <2>3, <2>4 DEF Steps
  <2>6. QED
    BY <2>1, <2>5
<1>3. m \in S
  <2> HIDE DEF S
  <2>1. QED
    BY <1>1, <1>2, SetInduction
<1>4. QED
  BY <1>3

LEMMA StepsAgree ==
  ASSUME NEW s, NEW bits, NEW k \in Nat, NEW m \in Nat, k <= m,
         NEW f, Steps(s, bits, m, f), NEW g, Steps(s, bits, k, g)
  PROVE  f[k] = g[k]
<1> DEFINE S == {n \in Nat : n <= k => f[n] = g[n]}
<1>1. \A n \in 0 .. m : f[n] = IF n = 0 THEN s ELSE PutBit(f[n - 1], bits[n])
  BY DEF Steps
<1>2. \A n \in 0 .. k : g[n] = IF n = 0 THEN s ELSE PutBit(g[n - 1], bits[n])
  BY DEF Steps
<1>3. 0 \in S
  BY <1>1, <1>2
<1>4. ASSUME NEW n \in S PROVE n + 1 \in S
  <2>1. CASE n + 1 <= k
    <3>1. f[n] = g[n] /\ n + 1 \in 0 .. k /\ n + 1 \in 0 .. m /\ (n + 1) - 1 = n /\ n + 1 # 0
      BY <2>1
    <3>2. f[n + 1] = PutBit(f[n], bits[n + 1]) /\ g[n + 1] = PutBit(g[n], bits[n + 1])
      BY <1>1, <1>2, <3>1
    <3>3. QED
      BY <3>1, <3>2
  <2>2. QED
    BY <2>1
<1>5. k \in S
  <2> HIDE DEF S
  <2>1. QED
    BY <1>3, <1>4, SetInduction
<1>6. QED
  BY <1>5

(* The stream after the first n of the bits. *)
After(s, bits, n) == PutBits(s, SubSeq(bits, 1, n))

LEMMA PutBitsIs ==
  ASSUME NEW s, NEW bits, Len(bits) \in Nat, NEW f, Steps(s, bits, Len(bits), f)
  PROVE  PutBits(s, bits) = f[Len(bits)]
<1> DEFINE P(g) == g = [n \in 0 .. Len(bits) |-> IF n = 0 THEN s ELSE PutBit(g[n - 1], bits[n])]
           h == CHOOSE g : P(g)
<1>1. P(f)
  BY DEF Steps
<1>2. P(h)
  <2> HIDE DEF P
  <2>1. QED
    BY <1>1
<1>3. PutBits(s, bits) = h[Len(bits)]
  BY DEF PutBits
<1>4. Steps(s, bits, Len(bits), h)
  BY <1>2 DEF Steps
<1> HIDE DEF h, P
<1>5. QED
  BY <1>3, <1>4, StepsAgree

LEMMA AfterIs ==
  ASSUME NEW s, NEW bits \in Seq({0, 1}), NEW n \in 0 .. Len(bits),
         NEW f, Steps(s, bits, Len(bits), f)
  PROVE  After(s, bits, n) = f[n]
<1> DEFINE part == SubSeq(bits, 1, n)
<1>1. Len(part) = n /\ n \in Nat /\ \A k \in 1 .. n : part[k] = bits[k]
  OBVIOUS
<1> HIDE DEF part
<1>2. PICK g : Steps(s, part, n, g)
  BY <1>1, StepsExist
<1>3. PutBits(s, part) = g[n]
  BY <1>1, <1>2, PutBitsIs
<1>4. Steps(s, bits, n, g)
  BY <1>1, <1>2 DEF Steps
<1>5. f[n] = g[n]
  BY <1>4, StepsAgree
<1>6. QED
  BY <1>3, <1>5 DEF After, part

LEMMA BitByBit ==
  ASSUME NEW s, NEW bits \in Seq({0, 1})
  PROVE  /\ After(s, bits, 0) = s
         /\ After(s, bits, Len(bits)) = PutBits(s, bits)
         /\ \A n \in 0 .. Len(bits) - 1 :
              After(s, bits, n + 1) = PutBit(After(s, bits, n), bits[n + 1])
<1>1. PICK f : Steps(s, bits, Len(bits), f)
  <2>1. Len(bits) \in Nat
    OBVIOUS
  <2>2. QED
    BY <2>1, StepsExist
<1>2. f[0] = s /\ \A n \in 0 .. Len(bits) - 1 : f[n + 1] = PutBit(f[n], bits[n + 1])
  BY <1>1 DEF Steps
<1>3. \A n \in 0 .. Len(bits) : After(s, bits, n) = f[n]
  BY <1>1, AfterIs
<1>4. PutBits(s, bits) = f[Len(bits)]
  BY <1>1, PutBitsIs
<1>5. QED
  BY <1>2, <1>3, <1>4

LEMMA SameParity ==
  ASSUME NEW a \in Int, NEW b \in Int, NEW n \in Int, a % 2 = b % 2
  PROVE  (a + n) % 2 = (b + n) % 2
  OBVIOUS

LEMMA BitParity ==
  ASSUME NEW s, StreamOK(s), NEW bit \in {0, 1}
  PROVE  PutBit(s, bit).bit_shift % 2 = (s.bit_shift + 1) % 2
<1>1. s.bit_shift \in -1 .. ByteBits - 2 /\ ByteBits \in Nat /\ ByteBits % 2 = 0
  BY FormatAssumption DEF StreamOK
<1>2. PutBit(s, bit).bit_shift = Opened(s).bit_shift - 1
  BY PutBitOK
<1>3. Opened(s).bit_shift = IF s.bit_shift < 0 THEN ByteBits - 1 ELSE s.bit_shift
  BY DEF Opened
<1> DEFINE a == s.bit_shift
           b == PutBit(s, bit).bit_shift
<1>4. a \in Int /\ b = (IF a < 0 THEN ByteBits - 1 ELSE a) - 1 /\ a >= -1
  BY <1>1, <1>2, <1>3
<1> HIDE DEF a, b
<1>5. b % 2 = (a + 1) % 2
  BY <1>1, <1>4
<1>6. QED
  BY <1>5 DEF a, b

LEMMA AfterOK ==
  ASSUME NEW s, StreamOK(s), NEW bits \in Seq({0, 1})
  PROVE  \A n \in 0 .. Len(bits) :
           /\ StreamOK(After(s, bits, n))
           /\ Extends(After(s, bits, n), s)
           /\ After(s, bits, n).bit_shift % 2 = (s.bit_shift + n) % 2
<1> DEFINE Holds(n) == /\ StreamOK(After(s, bits, n))
                       /\ Extends(After(s, bits, n), s)
                       /\ After(s, bits, n).bit_shift % 2 = (s.bit_shift + n) % 2
           S == {n \in 0 .. Len(bits) : Holds(n)}
<1>1. s.bit_shift \in Int /\ Len(bits) \in Nat
  BY FormatAssumption DEF StreamOK
<1>2. 0 \in S
  BY <1>1, BitByBit, ExtendsItself
<1>3. ASSUME NEW n \in 0 .. Len(bits) - 1, n \in S PROVE n + 1 \in S
  <2> DEFINE t == After(s, bits, n)
             u == After(s, bits, n + 1)
  <2>1. StreamOK(t) /\ Extends(t, s) /\ t.bit_shift % 2 = (s.bit_shift + n) % 2
    BY <1>3
  <2>2. u = PutBit(t, bits[n + 1]) /\ bits[n + 1] \in {0, 1}
    <3>1. n + 1 \in 1 .. Len(bits)
      BY <1>1
    <3>2. QED
      BY <3>1, BitByBit
  <2> HIDE DEF t, u
  <2>3. StreamOK(u) /\ Extends(u, t) /\ u.bit_shift % 2 = (t.bit_shift + 1) % 2
    BY <2>1, <2>2, PutBitOK, ExtendsBit, BitParity
  <2>4. Extends(u, s)
    BY <2>1, <2>3, ExtendsOn
  <2>5. u.bit_shift % 2 = (s.bit_shift + (n + 1)) % 2
    <3>1. t.bit_shift \in Int /\ u.bit_shift \in Int
      BY <2>1, <2>3, FormatAssumption DEF StreamOK
    <3>2. (t.bit_shift + 1) % 2 = ((s.bit_shift + n) + 1) % 2
      <4>1. s.bit_shift + n \in Int /\ n \in Int
        BY <1>1
      <4>2. QED
        BY <2>1, <3>1, <4>1, SameParity, SMTT(30)
    <3>3. (s.bit_shift + n) + 1 = s.bit_shift + (n + 1)
      BY <1>1
    <3>4. QED
      BY <2>3, <3>2, <3>3
  <2>6. n + 1 \in 0 .. Len(bits)
    BY <1>1
  <2>7. QED
    BY <2>3, <2>4, <2>5, <2>6 DEF u
<1>4. \A n \in 0 .. Len(bits) : n \in S
  <2> HIDE DEF S
  <2>1. QED
    BY <1>1, <1>2, <1>3, SetInduction
<1>5. QED
  BY <1>4

LEMMA AfterExtends ==
  ASSUME NEW s, StreamOK(s), NEW bits \in Seq({0, 1}), NEW n \in 0 .. Len(bits)
  PROVE  Extends(PutBits(s, bits), After(s, bits, n))
<1> DEFINE S == {k \in 0 .. Len(bits) - n : Extends(After(s, bits, n + k), After(s, bits, n))}
<1>1. Len(bits) \in Nat /\ n \in Nat /\ Len(bits) - n \in Nat
  OBVIOUS
<1>2. 0 \in S
  <2>1. StreamOK(After(s, bits, n))
    BY <1>1, AfterOK
  <2>2. Extends(After(s, bits, n), After(s, bits, n))
    BY <2>1, ExtendsItself
  <2>3. n + 0 = n /\ 0 \in 0 .. Len(bits) - n
    BY <1>1
  <2>4. QED
    BY <2>2, <2>3
<1>3. ASSUME NEW k \in 0 .. (Len(bits) - n) - 1, k \in S PROVE k + 1 \in S
  <2> DEFINE t == After(s, bits, n + k)
             u == After(s, bits, n + (k + 1))
  <2>1. /\ n + k \in 0 .. Len(bits) - 1 /\ n + (k + 1) = (n + k) + 1
        /\ n + k \in 0 .. Len(bits) /\ (n + k) + 1 \in 1 .. Len(bits)
        /\ k + 1 \in 0 .. Len(bits) - n
    BY <1>1
  <2>2. u = PutBit(t, bits[(n + k) + 1]) /\ bits[(n + k) + 1] \in {0, 1}
    <3>1. After(s, bits, (n + k) + 1) = PutBit(After(s, bits, n + k), bits[(n + k) + 1])
      BY <2>1, BitByBit
    <3>2. bits[(n + k) + 1] \in {0, 1}
      BY <2>1
    <3>3. QED
      BY <2>1, <3>1, <3>2
  <2>3. StreamOK(t) /\ StreamOK(After(s, bits, n))
    BY <1>1, <2>1, AfterOK
  <2>4. Extends(t, After(s, bits, n))
    BY <1>3
  <2> HIDE DEF t, u
  <2>5. StreamOK(u) /\ Extends(u, t)
    BY <2>2, <2>3, PutBitOK, ExtendsBit
  <2>6. Extends(u, After(s, bits, n))
    BY <2>3, <2>4, <2>5, ExtendsOn
  <2>7. QED
    BY <2>1, <2>6 DEF u
<1>4. Len(bits) - n \in S
  <2> HIDE DEF S
  <2>1. QED
    BY <1>1, <1>2, <1>3, SetInduction
<1>5. QED
  BY <1>1, <1>4, BitByBit

LEMMA PutBitsOK ==
  ASSUME NEW s, StreamOK(s), NEW bits \in Seq({0, 1})
  PROVE  /\ StreamOK(PutBits(s, bits)) /\ Extends(PutBits(s, bits), s)
         /\ PutBits(s, bits).bit_shift % 2 = (s.bit_shift + Len(bits)) % 2
<1>1. Len(bits) \in 0 .. Len(bits)
  OBVIOUS
<1>2. QED
  BY <1>1, AfterOK, BitByBit

-----------------------------------------------------------------------------
(***************************************************************************)
(* An even number of bits keeps the parity of the free bits, the odd one   *)
(* of the first command changes it.                                        *)
(***************************************************************************)
LEMMA EvenBits ==
  ASSUME NEW s, StreamOK(s), NEW bits \in Seq({0, 1}), Len(bits) % 2 = 0
  PROVE  StreamOK(PutBits(s, bits)) /\ PutBits(s, bits).bit_shift % 2 = s.bit_shift % 2
<1>1. s.bit_shift \in Int /\ Len(bits) \in Nat
  <2>1. s.bit_shift \in -1 .. ByteBits - 2
    BY DEF StreamOK
  <2>2. s.bit_shift \in Int
    BY <2>1, FormatAssumption
  <2>3. QED
    BY <2>2
<1>2. (s.bit_shift + Len(bits)) % 2 = s.bit_shift % 2
  BY <1>1
<1>3. QED
  BY <1>2, PutBitsOK

LEMMA OddBits ==
  ASSUME NEW s, StreamOK(s), s.bit_shift % 2 = 1, NEW bits \in Seq({0, 1}), Len(bits) % 2 = 1
  PROVE  StreamOK(PutBits(s, bits)) /\ PutBits(s, bits).bit_shift % 2 = 0
<1>1. s.bit_shift \in Int /\ Len(bits) \in Nat
  <2>1. s.bit_shift \in -1 .. ByteBits - 2
    BY DEF StreamOK
  <2>2. s.bit_shift \in Int
    BY <2>1, FormatAssumption
  <2>3. QED
    BY <2>2
<1>2. (s.bit_shift + Len(bits)) % 2 = 0
  BY <1>1
<1>3. QED
  BY <1>2, PutBitsOK

LEMMA CommandBits ==
  ASSUME NEW v, NEW bit \in {0, 1}
  PROVE  /\ <<bit>> \o kc_write_dali_length(v, FALSE) \in Seq({0, 1})
         /\ <<>> \o kc_write_dali_length(v, FALSE) \in Seq({0, 1})
         /\ kc_write_dali_length(v, TRUE) \in Seq({0, 1})
         /\ <<1, 1>> \in Seq({0, 1}) /\ <<1, 0>> \in Seq({0, 1})
         /\ Len(<<1, 1>>) % 2 = 0 /\ Len(<<1, 0>>) % 2 = 0
<1>1. kc_write_dali_length(v, FALSE) \in Seq({0, 1})
  BY CodeLength
<1>2. kc_write_dali_length(v, TRUE) \in Seq({0, 1})
  BY CodeSkipped
<1> DEFINE code == kc_write_dali_length(v, FALSE)
<1> HIDE DEF code
<1>3. code \in Seq({0, 1}) => /\ <<bit>> \o code \in Seq({0, 1})
                              /\ <<>> \o code \in Seq({0, 1})
  OBVIOUS
<1>4. /\ <<1, 1>> \in Seq({0, 1}) /\ <<1, 0>> \in Seq({0, 1})
      /\ Len(<<1, 1>>) % 2 = 0 /\ Len(<<1, 0>>) % 2 = 0
  OBVIOUS
<1>5. QED
  BY <1>1, <1>2, <1>3, <1>4 DEF code

-----------------------------------------------------------------------------
(***************************************************************************)
(* The inductive invariant.  RunInv is about the walk over the payload: as *)
(* long as no command is written, everything behind is the pending run, so *)
(* a match there would be one at the first position, which the search does *)
(* not make; and a run is part of the payload, whose size was checked.     *)
(* DataInv and ParityInv are about the bytes and the open control byte.    *)
(***************************************************************************)
Positions ==
  /\ Len(window) \in Nat /\ start \in Nat /\ i \in Nat
  /\ start <= i /\ i <= Len(window)
  /\ num_literals \in 0 .. i - start

Writing == wpc \in {"loop", "literals", "match", "length", "eod"}

RunInv ==
  /\ Positions
  /\ first \in BOOLEAN
  /\ match = NoneLeft \/ match.length \in Nat
  /\ wpc \in {"idle", "failed", "written"} \/ Writing
  /\ wpc = "idle" => num_literals = 0
  /\ Writing \/ wpc = "written" => Len(window) - start \in 1 .. MAX_VARLEN
  /\ first => num_literals = i - start
  /\ wpc = "literals" => num_literals # 0
  /\ wpc = "eod" => i = Len(window)
  /\ wpc \in {"match", "length"} => ~first /\ match # NoneLeft
  /\ wpc \in {"literals", "match", "length"} /\ match # NoneLeft => i + match.length <= Len(window)
  /\ wpc = "literals" /\ match = NoneLeft => i = Len(window)
  /\ wpc = "eod" => ~first

DataInv ==
  /\ window \in Seq(Byte)
  /\ StreamOK(stream)
  /\ match # NoneLeft => match.offset \in MIN_OFFSET .. MAX_OFFSET

ParityInv ==
  /\ wpc = "idle" => first /\ stream.bit_shift = -1
  /\ Writing => stream.bit_shift % 2 = IF first THEN 1 ELSE 0

WriterInv == RunInv /\ DataInv /\ ParityInv /\ FailsOnlyWhenFull

LEMMA EmptyOK == StreamOK(EmptyStream)
<1>1. EmptyStream \in [data : Seq(Byte), bits_offset : Nat, bit_shift : -1 .. ByteBits - 2]
  <2>1. <<>> \in Seq(Byte) /\ 0 \in Nat /\ -1 \in -1 .. ByteBits - 2
    BY FormatAssumption
  <2>2. QED
    BY <2>1 DEF EmptyStream
<1>2. FreeAreZero(EmptyStream)
  BY DEF FreeAreZero, EmptyStream
<1>3. QED
  BY <1>1, <1>2 DEF StreamOK

LEMMA InitWriter == Init => WriterInv
<1> SUFFICES ASSUME Init PROVE WriterInv
  OBVIOUS
<1>1. RunInv /\ FailsOnlyWhenFull
  BY FormatAssumption DEF Init, RunInv, FailsOnlyWhenFull, Positions, Writing
<1>2. DataInv
  BY EmptyOK DEF Init, DataInv
<1>3. ParityInv
  BY DEF Init, ParityInv, Writing, EmptyStream
<1>4. QED
  BY <1>1, <1>2, <1>3 DEF WriterInv

LEMMA CallStep ==
  ASSUME WriterInv, NEW text \in Seq(Byte), NEW dictionary \in 0 .. Len(text), NEW format,
         salvador_compress(text, dictionary, format)
  PROVE  WriterInv'
<1>1. wpc = "idle" /\ first /\ stream.bit_shift = -1 /\ num_literals = 0
  <2>1. wpc = "idle" /\ first /\ stream.bit_shift = -1
    BY DEF salvador_compress, WriterInv, ParityInv
  <2>2. num_literals = 0
    BY <2>1 DEF WriterInv, RunInv
  <2>3. QED
    BY <2>1, <2>2
<1>2. /\ window' = text /\ start' = dictionary /\ i' = dictionary
      /\ wpc' = IF Len(text) - dictionary \in 1 .. MAX_VARLEN THEN "loop" ELSE "failed"
      /\ UNCHANGED <<num_literals, first, rep_offset, match, stream>>
  BY DEF salvador_compress
<1>3. Len(text) \in Nat
  OBVIOUS
<1>4. RunInv'
  BY <1>1, <1>2, <1>3 DEF WriterInv, RunInv, Positions, Writing
<1>5. ParityInv' /\ DataInv'
  BY <1>1, <1>2 DEF WriterInv, ParityInv, DataInv, Writing
<1>6. FailsOnlyWhenFull'
  BY <1>1, <1>2 DEF FailsOnlyWhenFull
<1>7. QED
  BY <1>4, <1>5, <1>6 DEF WriterInv

(***************************************************************************)
(* Steps that write nothing.                                               *)
(***************************************************************************)
LEMMA CountLiteralStep == WriterInv /\ CountLiteral => WriterInv'
<1> SUFFICES ASSUME WriterInv, CountLiteral PROVE WriterInv'
  OBVIOUS
<1>1. RunInv'
  BY DEF CountLiteral, WriterInv, RunInv, Positions, Writing
<1>2. DataInv' /\ ParityInv' /\ FailsOnlyWhenFull'
  BY DEF CountLiteral, WriterInv, DataInv, ParityInv, FailsOnlyWhenFull, Writing
<1>3. QED
  BY <1>1, <1>2 DEF WriterInv

LEMMA TakeMatchStep == WriterInv /\ TakeMatch => WriterInv'
<1> SUFFICES ASSUME WriterInv, TakeMatch PROVE WriterInv'
  OBVIOUS
<1>1. match' \in CorrectMatches
  BY DEF TakeMatch
<1>2. /\ match'.length \in Nat /\ match'.length # 0
      /\ i + match'.length <= Len(window) /\ i > start
      /\ match'.offset \in MIN_OFFSET .. MAX_OFFSET
  BY <1>1 DEF CorrectMatches, WriterInv, RunInv, Positions
<1>3. match' # NoneLeft
  BY <1>2 DEF NoneLeft
<1>4. first => num_literals # 0
  BY <1>2 DEF WriterInv, RunInv, Positions
<1>5. RunInv'
  BY <1>2, <1>3, <1>4 DEF TakeMatch, WriterInv, RunInv, Positions, Writing
<1>6. ParityInv' /\ FailsOnlyWhenFull'
  BY <1>4 DEF TakeMatch, WriterInv, ParityInv, FailsOnlyWhenFull, Writing
<1>7. DataInv'
  BY <1>2 DEF TakeMatch, WriterInv, DataInv
<1>8. QED
  BY <1>5, <1>6, <1>7 DEF WriterInv

LEMMA EndOfBlockStep == WriterInv /\ EndOfBlock => WriterInv'
<1> SUFFICES ASSUME WriterInv, EndOfBlock PROVE WriterInv'
  OBVIOUS
<1>1. num_literals = 0 => ~first
  BY DEF EndOfBlock, WriterInv, RunInv, Positions, Writing
<1>2. RunInv'
  BY <1>1 DEF EndOfBlock, WriterInv, RunInv, Positions, Writing
<1>3. DataInv' /\ ParityInv' /\ FailsOnlyWhenFull'
  BY DEF EndOfBlock, WriterInv, DataInv, ParityInv, FailsOnlyWhenFull, Writing
<1>4. QED
  BY <1>2, <1>3 DEF WriterInv

(***************************************************************************)
(* The writes.                                                             *)
(***************************************************************************)
LEMMA WriteLiteralsStep == WriterInv /\ salvador_write_literals => WriterInv'
<1> SUFFICES ASSUME WriterInv, salvador_write_literals PROVE WriterInv'
  OBVIOUS
<1> DEFINE header == (IF first THEN <<>> ELSE <<0>>) \o kc_write_dali_length(num_literals, FALSE)
           bytes == SubSeq(window, i - num_literals + 1, i)
           s == PutBytes(PutBits(stream, header), bytes)
<1>1. num_literals <= MAX_VARLEN
  <2>1. MAX_VARLEN \in Int
    BY FormatAssumption DEF MAX_VARLEN
  <2>2. /\ Len(window) - start <= MAX_VARLEN
        /\ i <= Len(window) /\ num_literals <= i - start
        /\ Len(window) \in Nat /\ start \in Nat /\ i \in Nat /\ num_literals \in Nat
    BY DEF salvador_write_literals, WriterInv, RunInv, Positions, Writing
  <2>3. QED
    BY <2>1, <2>2
<1>2. /\ wpc = "literals" /\ first' = FALSE
      /\ UNCHANGED <<window, start, dali, i, num_literals, rep_offset, match>>
      /\ stream' = s
      /\ wpc' = IF Len(s.data) > MaxOut THEN "failed"
                ELSE IF num_literals > MAX_VARLEN THEN "failed"
                ELSE IF match = NoneLeft THEN "eod" ELSE "match"
  BY DEF salvador_write_literals, Emit
<1>3. bytes \in Seq(Byte)
  <2>1. /\ i - num_literals + 1 \in 1 .. Len(window) + 1 /\ i \in 0 .. Len(window)
        /\ window \in Seq(Byte)
    BY DEF WriterInv, RunInv, DataInv, Positions
  <2>2. QED
    BY <2>1
<1>4. StreamOK(PutBits(stream, header)) /\ PutBits(stream, header).bit_shift % 2 = 0
  <2>1. StreamOK(stream) /\ stream.bit_shift % 2 = IF first THEN 1 ELSE 0
    BY <1>2 DEF WriterInv, ParityInv, DataInv, Writing
  <2>2. CASE first
    <3>1. header = <<>> \o kc_write_dali_length(num_literals, FALSE)
      BY <2>2
    <3>2. header \in Seq({0, 1}) /\ Len(header) % 2 = 1
      BY <3>1, CommandLength, CommandBits
    <3> HIDE DEF header
    <3>3. stream.bit_shift % 2 = 1
      BY <2>1, <2>2
    <3>4. QED
      BY <2>1, <3>2, <3>3, OddBits
  <2>3. CASE ~first
    <3>1. header = <<0>> \o kc_write_dali_length(num_literals, FALSE)
      BY <2>3
    <3>2. header \in Seq({0, 1}) /\ Len(header) % 2 = 0
      BY <3>1, CommandLength, CommandBits
    <3> HIDE DEF header
    <3>3. QED
      BY <2>1, <2>3, <3>2, EvenBits
  <2>4. QED
    BY <2>2, <2>3
<1>5. StreamOK(s) /\ s.bit_shift % 2 = 0
  <2> HIDE DEF header, bytes
  <2>1. QED
    BY <1>3, <1>4, PutBytesOK
<1> HIDE DEF s
<1>6. RunInv'
  BY <1>1, <1>2 DEF WriterInv, RunInv, Positions, Writing
<1>7. DataInv' /\ ParityInv'
  BY <1>2, <1>5 DEF WriterInv, DataInv, ParityInv, Writing
<1>8. FailsOnlyWhenFull'
  BY <1>1, <1>2, FormatAssumption DEF WriterInv, RunInv, Positions, FailsOnlyWhenFull, MAX_VARLEN
<1>9. QED
  BY <1>6, <1>7, <1>8 DEF WriterInv

(***************************************************************************)
(* A write that ends a match: an even number of bits, then the loop.       *)
(***************************************************************************)
LEMMA MatchWritten ==
  ASSUME WriterInv, wpc \in {"match", "length"}, Advance, NEW s, Emit(s, "loop"),
         StreamOK(s), s.bit_shift % 2 = 0
  PROVE  WriterInv'
<1>1. /\ i' = i + match.length /\ num_literals' = 0
      /\ UNCHANGED <<window, start, first, match>>
      /\ stream' = s /\ wpc' = IF Len(s.data) > MaxOut THEN "failed" ELSE "loop"
  BY DEF Advance, Emit
<1>2. match.length \in Nat /\ ~first /\ match # NoneLeft /\ i + match.length <= Len(window)
  BY DEF WriterInv, RunInv
<1>3. RunInv'
  BY <1>1, <1>2 DEF WriterInv, RunInv, Positions, Writing
<1>4. DataInv' /\ ParityInv'
  BY <1>1, <1>2 DEF WriterInv, DataInv, ParityInv, Writing
<1>5. FailsOnlyWhenFull'
  BY <1>1 DEF FailsOnlyWhenFull
<1>6. QED
  BY <1>3, <1>4, <1>5 DEF WriterInv

LEMMA WriteRepeatStep == WriterInv /\ WriteRepeat => WriterInv'
<1> SUFFICES ASSUME WriterInv, WriteRepeat PROVE WriterInv'
  OBVIOUS
<1> DEFINE bits == <<0>> \o kc_write_dali_length(match.length, FALSE)
<1>1. wpc = "match" /\ Advance /\ Emit(PutBits(stream, bits), "loop")
  BY DEF WriteRepeat
<1>2. StreamOK(stream) /\ stream.bit_shift % 2 = 0
  BY <1>1 DEF WriterInv, RunInv, DataInv, ParityInv, Writing
<1>3. bits \in Seq({0, 1}) /\ Len(bits) % 2 = 0
  BY CommandLength, CommandBits
<1> HIDE DEF bits
<1>4. StreamOK(PutBits(stream, bits)) /\ PutBits(stream, bits).bit_shift % 2 = 0
  BY <1>2, <1>3, EvenBits
<1>5. QED
  BY <1>1, <1>4, MatchWritten

(***************************************************************************)
(* The parts of an offset fit the bytes that hold them.                    *)
(***************************************************************************)
LEMMA OffsetParts ==
  ASSUME NEW o \in MIN_OFFSET .. MAX_OFFSET, NEW two \in {0, 1}
  PROVE  LET high == (o - 1) \div LowOffsets
             low  == (o - 1) % LowOffsets
         IN  /\ high \in Byte /\ high \in Nat /\ high + 1 \in 1 .. EodHigh - 1
             /\ 2 * low + two \in Byte /\ 2 * low + two \in Nat
             /\ (2 * low + two) \div 2 = low /\ (2 * low + two) % 2 = two
             /\ high * LowOffsets + low + 1 = o
<1> DEFINE l == LowOffsets
           high == (o - 1) \div l
           low == (o - 1) % l
           top == ByteValues - 1
<1>1. l \in Nat \ {0} /\ 2 * l = ByteValues /\ top \in Nat /\ ByteValues \in Nat
  BY FormatAssumption DEF LowOffsets
<1>2. MAX_OFFSET = top * l
  BY DEF MAX_OFFSET
<1>3. top * l \in Nat
  BY <1>1
<1>4. o \in Nat /\ o - 1 \in Nat /\ o - 1 < top * l
  BY <1>2, <1>3 DEF MIN_OFFSET
<1> HIDE DEF l
<1> DEFINE a == o - 1
<1>5. a \in Nat
  BY <1>4
<1> HIDE DEF a
<1>6. a \div l \in Nat /\ a % l \in 0 .. l - 1 /\ a = (a \div l) * l + (a % l)
  BY <1>1, <1>5, DivBounds
<1>7. high \in Nat /\ low \in 0 .. l - 1 /\ a = high * l + low
  BY <1>6 DEF a
<1> HIDE DEF high, low, top
<1>8. high < top
  <2>1. CASE top <= high
    <3>1. top * l <= high * l /\ high * l \in Int
      BY <1>1, <1>7, <2>1, ProductOrder
    <3>2. QED
      BY <1>3, <1>4, <1>7, <3>1 DEF a
  <2>2. QED
    BY <1>1, <1>7, <2>1
<1>9. high \in Byte /\ high \in Nat /\ high + 1 \in 1 .. EodHigh - 1
  BY <1>1, <1>7, <1>8 DEF Byte, EodHigh, top
<1>10. /\ 2 * low + two \in Byte /\ 2 * low + two \in Nat
       /\ (2 * low + two) \div 2 = low /\ (2 * low + two) % 2 = two
  BY <1>1, <1>7 DEF Byte
<1>11. high * l + low + 1 = o
  <2>1. high * l \in Int
    BY <1>1, <1>7
  <2>2. QED
    BY <1>4, <1>7, <2>1 DEF a
<1>12. QED
  BY <1>9, <1>10, <1>11 DEF high, low, l

LEMMA OffsetHighOK ==
  ASSUME NEW s, StreamOK(s), s.bit_shift % 2 = 0, NEW high \in Byte
  PROVE  StreamOK(OffsetHigh(s, high)) /\ OffsetHigh(s, high).bit_shift % 2 = 0
<1> DEFINE number == <<1>> \o kc_write_dali_length(high + 1, FALSE)
<1>1. number \in Seq({0, 1}) /\ Len(number) % 2 = 0
  BY CommandLength, CommandBits
<1> HIDE DEF number
<1>2. CASE dali
  <2>1. OffsetHigh(s, high) = PutBits(s, number)
    BY <1>2 DEF OffsetHigh, number
  <2>2. QED
    BY <1>1, <2>1, EvenBits
<1>3. CASE ~dali /\ high = 0
  <2>1. OffsetHigh(s, high) = PutBits(s, <<1, 1>>)
    BY <1>3 DEF OffsetHigh
  <2>2. QED
    BY <2>1, CommandBits, EvenBits
<1>4. CASE ~dali /\ high # 0
  <2>1. OffsetHigh(s, high) = PutBytes(PutBits(s, <<1, 0>>), <<high>>)
    BY <1>4 DEF OffsetHigh
  <2>2. StreamOK(PutBits(s, <<1, 0>>)) /\ PutBits(s, <<1, 0>>).bit_shift % 2 = 0
    BY CommandBits, EvenBits
  <2>3. <<high>> \in Seq(Byte)
    OBVIOUS
  <2>4. QED
    BY <2>1, <2>2, <2>3, PutBytesOK
<1>5. QED
  BY <1>2, <1>3, <1>4

LEMMA WriteOffsetStep == WriterInv /\ WriteOffset => WriterInv'
<1> SUFFICES ASSUME WriterInv, WriteOffset PROVE WriterInv'
  OBVIOUS
<1> DEFINE high == (match.offset - 1) \div LowOffsets
           low == (match.offset - 1) % LowOffsets
           two == IF match.length = 2 THEN 1 ELSE 0
           s == PutBytes(OffsetHigh(stream, high), <<2 * low + two>>)
           next == IF match.length > 2 THEN "length" ELSE "loop"
<1>1. /\ wpc = "match" /\ Emit(s, next)
      /\ IF match.length > 2
         THEN UNCHANGED <<window, start, dali, i, num_literals, first, rep_offset, match>>
         ELSE Advance
  BY DEF WriteOffset
<1>2. /\ StreamOK(stream) /\ stream.bit_shift % 2 = 0 /\ ~first /\ match # NoneLeft
      /\ match.offset \in MIN_OFFSET .. MAX_OFFSET
  BY <1>1 DEF WriterInv, RunInv, DataInv, ParityInv, Writing
<1>3. StreamOK(s) /\ s.bit_shift % 2 = 0
  <2>1. high \in Byte /\ 2 * low + two \in Byte
    BY <1>2, OffsetParts
  <2> HIDE DEF high, low, two
  <2>2. StreamOK(OffsetHigh(stream, high)) /\ OffsetHigh(stream, high).bit_shift % 2 = 0
    BY <1>2, <2>1, OffsetHighOK
  <2>3. <<2 * low + two>> \in Seq(Byte)
    BY <2>1
  <2>4. QED
    BY <2>2, <2>3, PutBytesOK
<1> HIDE DEF s
<1>4. CASE ~(match.length > 2)
  BY <1>1, <1>3, <1>4, MatchWritten
<1>5. CASE match.length > 2
  <2>1. /\ UNCHANGED <<window, start, dali, i, num_literals, first, rep_offset, match>>
        /\ stream' = s /\ wpc' = IF Len(s.data) > MaxOut THEN "failed" ELSE "length"
    BY <1>1, <1>5 DEF Emit
  <2>2. RunInv'
    BY <1>1, <1>2, <2>1 DEF WriterInv, RunInv, Positions, Writing
  <2>3. DataInv' /\ ParityInv'
    BY <1>2, <1>3, <2>1 DEF WriterInv, DataInv, ParityInv, Writing
  <2>4. FailsOnlyWhenFull'
    BY <2>1 DEF FailsOnlyWhenFull
  <2>5. QED
    BY <2>2, <2>3, <2>4 DEF WriterInv
<1>6. QED
  BY <1>4, <1>5

LEMMA WriteLengthStep == WriterInv /\ WriteLength => WriterInv'
<1> SUFFICES ASSUME WriterInv, WriteLength PROVE WriterInv'
  OBVIOUS
<1> DEFINE bits == kc_write_dali_length(match.length - 1, TRUE)
<1>1. wpc = "length" /\ Advance /\ Emit(PutBits(stream, bits), "loop")
  BY DEF WriteLength
<1>2. StreamOK(stream) /\ stream.bit_shift % 2 = 0
  BY <1>1 DEF WriterInv, RunInv, DataInv, ParityInv, Writing
<1>3. bits \in Seq({0, 1}) /\ Len(bits) % 2 = 0
  BY CommandLength, CommandBits
<1> HIDE DEF bits
<1>4. StreamOK(PutBits(stream, bits)) /\ PutBits(stream, bits).bit_shift % 2 = 0
  BY <1>2, <1>3, EvenBits
<1>5. QED
  BY <1>1, <1>4, MatchWritten

LEMMA WriteEodStep == WriterInv /\ WriteEod => WriterInv'
<1> SUFFICES ASSUME WriterInv, WriteEod PROVE WriterInv'
  OBVIOUS
<1> DEFINE bits == IF dali THEN <<1>> \o kc_write_dali_length(EodHigh, FALSE) ELSE <<1, 0>>
           s == IF dali THEN PutBits(stream, bits) ELSE PutBytes(PutBits(stream, bits), <<0>>)
<1>1. /\ wpc = "eod" /\ stream' = s
      /\ wpc' = IF Len(s.data) > MaxOut THEN "failed" ELSE "written"
      /\ UNCHANGED <<window, start, dali, i, num_literals, first, rep_offset, match>>
  BY DEF WriteEod, Emit
<1>2. StreamOK(stream)
  BY DEF WriterInv, DataInv
<1>3. bits \in Seq({0, 1})
  BY CommandBits
<1> HIDE DEF bits
<1>4. StreamOK(s)
  <2>1. StreamOK(PutBits(stream, bits))
    BY <1>2, <1>3, PutBitsOK
  <2>2. <<0>> \in Seq(Byte)
    BY FormatAssumption DEF Byte
  <2>3. QED
    BY <2>1, <2>2, PutBytesOK
<1> HIDE DEF s
<1>5. RunInv'
  BY <1>1 DEF WriterInv, RunInv, Positions, Writing
<1>6. DataInv' /\ ParityInv'
  BY <1>1, <1>4 DEF WriterInv, DataInv, ParityInv, Writing
<1>7. FailsOnlyWhenFull'
  BY <1>1 DEF FailsOnlyWhenFull
<1>8. QED
  BY <1>5, <1>6, <1>7 DEF WriterInv

LEMMA WriteStepOK == WriterInv /\ WriteStep => WriterInv'
  BY CountLiteralStep, TakeMatchStep, EndOfBlockStep, WriteLiteralsStep,
     WriteRepeatStep, WriteOffsetStep, WriteLengthStep, WriteEodStep DEF WriteStep

LEMMA StutterStep == WriterInv /\ UNCHANGED vars => WriterInv'
  BY DEF WriterInv, RunInv, DataInv, ParityInv, FailsOnlyWhenFull, Positions, Writing, vars

LEMMA Inductive == WriterInv /\ [Next]_vars => WriterInv'
<1> SUFFICES ASSUME WriterInv, [Next]_vars PROVE WriterInv'
  OBVIOUS
<1>1. CASE Call
  <2>1. PICK w \in Windows, format \in BOOLEAN : salvador_compress(w.text, w.dictionary, format)
    BY <1>1 DEF Call
  <2>2. w.text \in Seq(Byte) /\ w.dictionary \in 0 .. Len(w.text)
    BY WriterAssumption
  <2>3. QED
    BY <2>1, <2>2, CallStep
<1>2. CASE WriteStep
  BY <1>2, WriteStepOK
<1>3. CASE UNCHANGED vars
  BY <1>3, StutterStep
<1>4. QED
  BY <1>1, <1>2, <1>3 DEF Next

LEMMA WriterInvHolds == Spec => []WriterInv
  BY InitWriter, Inductive, PTL DEF Spec

(***************************************************************************)
(* salvador_write_block fails for want of room only, whatever the matches: *)
(* its tests of the run's length and of a match before the first literal   *)
(* can never be what ends it.                                              *)
(***************************************************************************)
THEOREM WriterFailsOnlyWhenFull == Spec => []FailsOnlyWhenFull
<1>1. WriterInv => FailsOnlyWhenFull
  BY DEF WriterInv
<1>2. QED
  BY <1>1, WriterInvHolds, PTL

(***************************************************************************)
(* No stream the writer makes opens a control byte with a command bit, for *)
(* any even byte width: the writer's side of what the assembly decoders    *)
(* rely on.                                                                *)
(***************************************************************************)
THEOREM CommandsNeverOpen == Spec => []CommandNeverOpens
<1>1. WriterInv => CommandNeverOpens
  BY DEF WriterInv, ParityInv, CommandNeverOpens, Writing
<1>2. QED
  BY <1>1, WriterInvHolds, PTL

(***************************************************************************)
(* kc_write_bit finds every bit it sets still zero, however many raw bytes *)
(* went into the stream since the control byte was opened, so that adding  *)
(* a bit and setting it are the same.                                      *)
(***************************************************************************)
THEOREM BitsGoWhereNoneIs == Spec => []FreeBitsAreZero
<1>1. WriterInv => FreeBitsAreZero
  BY DEF WriterInv, DataInv, StreamOK, FreeAreZero, FreeBitsAreZero, Place
<1>2. QED
  BY <1>1, WriterInvHolds, PTL

-----------------------------------------------------------------------------
(***************************************************************************)
(* The strict decoder at work on a stream: full is the whole one, packed   *)
(* what of it came through.  It stands where the stream s ended once.      *)
(***************************************************************************)
AtStream(full, s) ==
  /\ src_pos = Len(s.data)
  /\ bits_left = s.bit_shift + 1
  /\ s.bit_shift >= 0 => bit_byte = full.data[Place(s)]

PartOf(full) ==
  /\ packed \in Seq(Byte) /\ Len(packed) <= Len(full.data)
  /\ \A k \in 1 .. Len(packed) : packed[k] = full.data[k]

LEMMA SameFormat ==
  /\ \A v, k : Decoder!Bit(v, k) = Bit(v, k)
  /\ \A v, m : Decoder!Unrotated(v, m) = Unrotated(v, m)
  /\ Decoder!MAX_VARLEN = MAX_VARLEN /\ Decoder!EodHigh = EodHigh
  /\ Decoder!LowOffsets = LowOffsets /\ Decoder!MIN_OFFSET = MIN_OFFSET
  /\ Decoder!MAX_OFFSET = MAX_OFFSET /\ Decoder!UINT32_MAX_HALF = UINT32_MAX_HALF
  BY DEF Bit, Unrotated, MAX_VARLEN, EodHigh, LowOffsets, MIN_OFFSET, MAX_OFFSET,
         UINT32_MAX_HALF, Decoder!Bit, Decoder!Unrotated, Decoder!MAX_VARLEN, Decoder!EodHigh,
         Decoder!LowOffsets, Decoder!MIN_OFFSET, Decoder!MAX_OFFSET, Decoder!UINT32_MAX_HALF

(* The bit that is written next is the one that is read next. *)
LEMMA BitInPlace ==
  ASSUME NEW s, StreamOK(s), NEW bit \in {0, 1}, NEW full, StreamOK(full),
         Extends(full, PutBit(s, bit))
  PROVE  LET o == Opened(s)
         IN  /\ Place(o) \in 1 .. Len(full.data)
             /\ Bit(full.data[Place(o)], o.bit_shift) = bit
<1> DEFINE o == Opened(s)
           t == PutBit(s, bit)
           p == Place(o)
<1>1. /\ o \in [data : Seq(Byte), bits_offset : Nat, bit_shift : 0 .. ByteBits - 1]
      /\ p \in 1 .. Len(o.data)
  BY OpenedOK
<1>2. /\ StreamOK(t) /\ t.bits_offset = o.bits_offset /\ t.bit_shift = o.bit_shift - 1
      /\ Len(t.data) = Len(o.data) /\ Bit(t.data[p], o.bit_shift) = bit
  BY PutBitOK
<1>3. Len(t.data) <= Len(full.data) /\ Len(full.data) \in Nat /\ Len(t.data) \in Nat
  BY <1>2 DEF Extends, StreamOK
<1>4. /\ o.bit_shift \in Int /\ o.bit_shift >= 0 /\ o.bit_shift \in Nat
      /\ Place(t) = p /\ p \in 1 .. Len(t.data) /\ p \in 1 .. Len(full.data)
      /\ Extends(full, t)
  BY <1>1, <1>2, <1>3, FormatAssumption DEF Place
<1> HIDE DEF o, t, p
<1>5. CASE o.bit_shift = 0
  <2>1. OpenPlace(t) = 0
    BY <1>2, <1>5 DEF OpenPlace
  <2>2. full.data[p] = t.data[p]
    BY <1>4, <2>1 DEF Extends
  <2>3. QED
    BY <1>2, <1>4, <2>2 DEF o, p
<1>6. CASE o.bit_shift # 0
  <2>1. t.bit_shift >= 0 /\ t.bit_shift + 1 = o.bit_shift
    BY <1>2, <1>4, <1>6
  <2>2. Upper(t, full) = Upper(t, t)
    BY <1>4, <2>1 DEF Extends
  <2>3. full.data[p] \div 2 ^ o.bit_shift = t.data[p] \div 2 ^ o.bit_shift
    BY <1>4, <2>1, <2>2 DEF Upper
  <2>4. Bit(full.data[p], o.bit_shift) = bit
    BY <1>2, <2>3 DEF Bit
  <2>5. QED
    BY <1>4, <2>4 DEF o, p
<1>7. QED
  BY <1>5, <1>6

LEMMA BitRead ==
  ASSUME NEW s, StreamOK(s), NEW bit \in {0, 1}, NEW full, StreamOK(full),
         Extends(full, PutBit(s, bit)), PartOf(full), AtStream(full, s), src_pos <= Len(packed)
  PROVE  /\ Decoder!HasBit =>
              /\ Decoder!TheBit = bit
              /\ Decoder!TakeBit => AtStream(full, PutBit(s, bit))' /\ src_pos' <= Len(packed)
         /\ ~Decoder!HasBit => Len(packed) < Len(full.data)
<1> DEFINE o == Opened(s)
           t == PutBit(s, bit)
<1>1. /\ StreamOK(t) /\ t.bits_offset = o.bits_offset /\ t.bit_shift = o.bit_shift - 1
      /\ Len(t.data) = Len(o.data)
  BY PutBitOK
<1>2. Place(o) \in 1 .. Len(full.data) /\ Bit(full.data[Place(o)], o.bit_shift) = bit
  BY BitInPlace
<1>3. /\ s.data \in Seq(Byte) /\ Len(s.data) \in Nat /\ s.bits_offset \in Nat
      /\ s.bit_shift \in Int /\ s.bit_shift >= -1 /\ ByteBits \in Nat
      /\ Len(full.data) \in Nat /\ Len(packed) \in Nat
  BY FormatAssumption DEF StreamOK, PartOf
<1>4. src_pos = Len(s.data) /\ bits_left = s.bit_shift + 1
  BY DEF AtStream
<1>5. Len(t.data) <= Len(full.data)
  BY DEF Extends
<1> HIDE DEF t
<1>6. CASE s.bit_shift < 0
  <2>1. s.bit_shift = -1 /\ bits_left = 0
    BY <1>3, <1>4, <1>6
  <2>2. /\ o.data = Append(s.data, 0) /\ o.bits_offset = Len(s.data)
        /\ o.bit_shift = ByteBits - 1
    BY <1>6 DEF Opened
  <2>3. Len(o.data) = Len(s.data) + 1 /\ Place(o) = Len(s.data) + 1 /\ Place(t) = Place(o)
    BY <1>1, <1>3, <2>2 DEF Place
  <2> HIDE DEF o
  <2>4. Decoder!HasBit <=> src_pos < Len(packed)
    BY <2>1 DEF Decoder!HasBit, Decoder!HasByte
  <2>5. ~Decoder!HasBit => Len(packed) < Len(full.data)
    BY <1>1, <1>3, <1>4, <1>5, <2>3, <2>4
  <2>6. ASSUME Decoder!HasBit
        PROVE  packed[src_pos + 1] = full.data[Place(o)]
    <3>1. src_pos + 1 \in 1 .. Len(packed) /\ src_pos + 1 = Place(o)
      BY <1>3, <1>4, <2>3, <2>4, <2>6
    <3>2. QED
      BY <3>1 DEF PartOf
  <2>7. ASSUME Decoder!HasBit
        PROVE  Decoder!TheBit = bit
    <3>1. Decoder!TheBit = Bit(packed[src_pos + 1], ByteBits - 1)
      BY <2>1, SameFormat DEF Decoder!TheBit, Decoder!Refill, Decoder!TheByte
    <3>2. QED
      BY <1>2, <2>2, <2>6, <2>7, <3>1
  <2>8. ASSUME Decoder!HasBit, Decoder!TakeBit
        PROVE  AtStream(full, t)' /\ src_pos' <= Len(packed)
    <3>1. src_pos' = src_pos + 1 /\ bit_byte' = packed[src_pos + 1] /\ bits_left' = ByteBits - 1
      BY <2>1, <2>8 DEF Decoder!TakeBit, Decoder!Refill, Decoder!TheByte
    <3>2. src_pos' = Len(t.data) /\ src_pos' <= Len(packed)
      BY <1>1, <1>3, <1>4, <2>3, <2>4, <2>8, <3>1
    <3>3. bits_left' = t.bit_shift + 1
      BY <1>1, <1>3, <2>2, <3>1
    <3>4. bit_byte' = full.data[Place(t)]
      BY <2>3, <2>6, <2>8, <3>1
    <3>5. QED
      BY <3>2, <3>3, <3>4 DEF AtStream
  <2>9. QED
    BY <2>5, <2>7, <2>8 DEF t
<1>7. CASE ~(s.bit_shift < 0)
  <2>1. o = s
    BY <1>7 DEF Opened
  <2>2. bits_left > 0 /\ bits_left # 0 /\ s.bit_shift >= 0
    BY <1>3, <1>4, <1>7
  <2>3. Decoder!HasBit
    BY <2>2 DEF Decoder!HasBit
  <2>4. bit_byte = full.data[Place(s)]
    BY <2>2 DEF AtStream
  <2>5. Decoder!TheBit = bit
    <3>1. Decoder!TheBit = Bit(bit_byte, bits_left - 1)
      BY <2>2, SameFormat DEF Decoder!TheBit, Decoder!Refill
    <3>2. bits_left - 1 = o.bit_shift
      BY <1>3, <1>4, <2>1
    <3>3. QED
      BY <1>2, <2>1, <2>4, <3>1, <3>2
  <2>6. ASSUME Decoder!TakeBit
        PROVE  AtStream(full, t)' /\ src_pos' <= Len(packed)
    <3>1. bits_left' = bits_left - 1 /\ UNCHANGED <<src_pos, bit_byte>>
      BY <2>2, <2>6 DEF Decoder!TakeBit, Decoder!Refill
    <3>2. Place(t) = Place(s) /\ Len(t.data) = Len(s.data) /\ t.bit_shift = s.bit_shift - 1
      BY <1>1, <2>1 DEF Place
    <3>3. AtStream(full, t)'
      BY <1>3, <1>4, <2>4, <3>1, <3>2 DEF AtStream
    <3>4. QED
      BY <3>1, <3>3
  <2>7. QED
    BY <2>3, <2>5, <2>6 DEF t
<1>8. QED
  BY <1>6, <1>7

LEMMA BytesRead ==
  ASSUME NEW s, StreamOK(s), NEW bytes \in Seq(Byte), NEW full, StreamOK(full),
         Extends(full, PutBytes(s, bytes)), PartOf(full), AtStream(full, s)
  PROVE  /\ src_pos + Len(bytes) <= Len(full.data) /\ src_pos \in Nat
         /\ src_pos + Len(bytes) <= Len(packed) =>
              \A k \in 1 .. Len(bytes) : packed[src_pos + k] = bytes[k]
         /\ src_pos' = src_pos + Len(bytes) /\ UNCHANGED <<bit_byte, bits_left>> =>
              AtStream(full, PutBytes(s, bytes))'
<1> DEFINE t == PutBytes(s, bytes)
<1>1. /\ StreamOK(t) /\ t.bits_offset = s.bits_offset /\ t.bit_shift = s.bit_shift
      /\ Len(t.data) = Len(s.data) + Len(bytes)
      /\ \A k \in 1 .. Len(bytes) : t.data[Len(s.data) + k] = bytes[k]
  BY PutBytesOK
<1>2. /\ Len(s.data) \in Nat /\ s.bits_offset \in Nat /\ Len(bytes) \in Nat
      /\ Len(full.data) \in Nat /\ Len(packed) \in Nat /\ s.bit_shift \in Int
  BY FormatAssumption DEF StreamOK, PartOf
<1>3. src_pos = Len(s.data) /\ Len(t.data) <= Len(full.data)
  BY DEF AtStream, Extends
<1>4. OpenPlace(t) <= Len(s.data) /\ OpenPlace(t) \in Nat
  BY <1>1, <1>2, SMTT(30) DEF StreamOK, FreeAreZero, OpenPlace, Place
<1> HIDE DEF t
<1>5. ASSUME NEW k \in 1 .. Len(bytes)
      PROVE  full.data[Len(s.data) + k] = bytes[k]
  <2>1. Len(s.data) + k \in 1 .. Len(t.data) /\ Len(s.data) + k # OpenPlace(t)
    BY <1>1, <1>2, <1>4
  <2>2. full.data[Len(s.data) + k] = t.data[Len(s.data) + k]
    BY <2>1 DEF Extends, t
  <2>3. QED
    BY <1>1, <2>2
<1>6. ASSUME src_pos + Len(bytes) <= Len(packed), NEW k \in 1 .. Len(bytes)
      PROVE  packed[src_pos + k] = bytes[k]
  <2>1. src_pos + k \in 1 .. Len(packed)
    BY <1>2, <1>3, <1>6
  <2>2. packed[src_pos + k] = full.data[Len(s.data) + k]
    BY <1>3, <2>1 DEF PartOf
  <2>3. QED
    BY <1>5, <2>2
<1>7. src_pos' = src_pos + Len(bytes) /\ UNCHANGED <<bit_byte, bits_left>> => AtStream(full, t)'
  BY <1>1, <1>3 DEF AtStream, Place
<1>8. QED
  BY <1>1, <1>2, <1>3, <1>6, <1>7 DEF t

-----------------------------------------------------------------------------
(***************************************************************************)
(* A number between the two: its code, without the first bit if d = 1.     *)
(***************************************************************************)
LEMMA FrontBit ==
  ASSUME NEW s, NEW bit \in {0, 1}, NEW code \in Seq({0, 1})
  PROVE  PutBits(s, <<bit>> \o code) = PutBits(PutBit(s, bit), code)
<1> DEFINE all == <<bit>> \o code
           m == Len(code)
<1>1. /\ m \in Nat /\ Len(all) = m + 1 /\ all[1] = bit
      /\ \A n \in 1 .. m : all[n + 1] = code[n]
  OBVIOUS
<1> HIDE DEF all, m
<1>0. m \in Nat /\ m + 1 \in Nat
  BY <1>1
<1>2. PICK f : Steps(s, all, m + 1, f)
  BY <1>0, StepsExist
<1>3. PICK g : Steps(PutBit(s, bit), code, m, g)
  BY <1>1, StepsExist
<1>4. \A n \in 0 .. m + 1 : f[n] = IF n = 0 THEN s ELSE PutBit(f[n - 1], all[n])
  BY <1>2 DEF Steps
<1>5. \A n \in 0 .. m : g[n] = IF n = 0 THEN PutBit(s, bit) ELSE PutBit(g[n - 1], code[n])
  BY <1>3 DEF Steps
<1> DEFINE S == {n \in Nat : n <= m => g[n] = f[n + 1]}
<1>6. 0 \in S
  <2>1. f[0] = s /\ f[1] = PutBit(f[0], all[1]) /\ g[0] = PutBit(s, bit)
    BY <1>1, <1>4, <1>5
  <2>2. QED
    BY <1>1, <2>1
<1>7. ASSUME NEW n \in S PROVE n + 1 \in S
  <2>1. CASE n + 1 <= m
    <3>1. n + 1 \in 0 .. m /\ n + 2 \in 0 .. m + 1 /\ n + 1 # 0 /\ n + 2 # 0
          /\ n + 1 \in 1 .. m /\ (n + 1) - 1 = n /\ (n + 2) - 1 = n + 1 /\ (n + 1) + 1 = n + 2
      BY <1>1, <2>1
    <3>2. g[n] = f[n + 1]
      BY <1>1, <2>1
    <3>3. g[n + 1] = PutBit(g[n], code[n + 1]) /\ f[n + 2] = PutBit(f[n + 1], all[n + 2])
      BY <1>4, <1>5, <3>1
    <3>4. all[n + 2] = code[n + 1]
      BY <1>1, <3>1
    <3>5. QED
      BY <3>1, <3>2, <3>3, <3>4
  <2>2. QED
    BY <2>1
<1>8. g[m] = f[m + 1]
  <2>1. \A n \in 0 .. m - 1 : n \in S => n + 1 \in S
    BY <1>7
  <2>2. 0 \in S /\ m \in Nat
    BY <1>0, <1>6
  <2> HIDE DEF S
  <2>3. \A n \in 0 .. m : n \in S
    BY <2>1, <2>2, SetInduction
  <2>4. m \in S
    BY <1>0, <2>3
  <2>5. QED
    BY <1>0, <2>4 DEF S
<1>9. PutBits(s, all) = f[m + 1] /\ PutBits(PutBit(s, bit), code) = g[m]
  <2>1. PutBits(s, all) = f[Len(all)]
    BY <1>1, <1>2, PutBitsIs
  <2>2. PutBits(PutBit(s, bit), code) = g[Len(code)]
    BY <1>1, <1>3, PutBitsIs DEF m
  <2>3. QED
    BY <1>1, <2>1, <2>2 DEF m
<1>10. QED
  BY <1>1, <1>8, <1>9 DEF all

LEMMA TwoBits ==
  ASSUME NEW s, NEW a \in {0, 1}, NEW b \in {0, 1}
  PROVE  PutBits(s, <<a, b>>) = PutBit(PutBit(s, a), b)
<1> DEFINE bits == <<a, b>>
<1>1. Len(bits) = 2 /\ bits[1] = a /\ bits[2] = b
  OBVIOUS
<1> HIDE DEF bits
<1>2. PICK f : Steps(s, bits, 2, f)
  BY StepsExist
<1>3. f[0] = s /\ f[1] = PutBit(f[0], bits[1]) /\ f[2] = PutBit(f[1], bits[2])
  BY <1>2 DEF Steps
<1>4. PutBits(s, bits) = f[2]
  <2>1. Steps(s, bits, Len(bits), f) /\ Len(bits) \in Nat
    BY <1>1, <1>2
  <2>2. PutBits(s, bits) = f[Len(bits)]
    BY <2>1, PutBitsIs
  <2>3. QED
    BY <1>1, <2>2
<1>5. QED
  BY <1>1, <1>3, <1>4 DEF bits

Code(v, d) == IF d = 1 THEN kc_write_dali_length(v, TRUE) ELSE kc_write_dali_length(v, FALSE)

LEMMA CodeIs ==
  ASSUME NEW v, NEW d \in {0, 1}
  PROVE  LET log == kc_floor_log2(v)
         IN  /\ log \in Nat
             /\ Code(v, d) \in Seq({0, 1}) /\ Len(Code(v, d)) = 2 * log + 1 - d
             /\ \A j \in 0 .. log - 1 :
                  /\ 2 * j >= d => Code(v, d)[2 * j + 1 - d] = 0
                  /\ Code(v, d)[2 * j + 2 - d] = Bit(Payload(v), log - j - 1)
             /\ 2 * log >= d => Code(v, d)[2 * log + 1 - d] = 1
<1> DEFINE log == kc_floor_log2(v)
           c == kc_write_dali_length(v, FALSE)
<1>1. log \in Nat
  BY FloorLogType
<1>2. c \in Seq({0, 1}) /\ Len(c) = 2 * log + 1 /\ c[2 * log + 1] = 1
  BY CodeLength, CodeClose
<1>3. \A j \in 0 .. log - 1 : /\ c[2 * j + 1] = 0
                             /\ c[2 * j + 2] = Bit(Payload(v), log - j - 1)
  BY CodePair
<1>4. CASE d = 0
  <2>1. Code(v, d) = c
    BY <1>4 DEF Code
  <2> HIDE DEF c, log
  <2>2. \A j \in Nat : 2 * j + 1 - d = 2 * j + 1 /\ 2 * j + 2 - d = 2 * j + 2
    BY <1>4
  <2>3. QED
    BY <1>1, <1>2, <1>3, <1>4, <2>1, <2>2 DEF log
<1>5. CASE d = 1
  <2> DEFINE e == kc_write_dali_length(v, TRUE)
  <2>1. Code(v, d) = e
    BY <1>5 DEF Code
  <2>2. e \in Seq({0, 1}) /\ \A k \in 1 .. 2 * log : e[k] = c[k + 1]
    BY CodeSkipped
  <2>3. Len(e) = 2 * log
    BY CodeLength
  <2> HIDE DEF c, e, log
  <2>4. ASSUME NEW j \in 0 .. log - 1
        PROVE  /\ 2 * j >= d => e[2 * j + 1 - d] = 0
               /\ e[2 * j + 2 - d] = Bit(Payload(v), log - j - 1)
    <3>1. /\ 2 * j + 1 - d = 2 * j /\ 2 * j + 2 - d = 2 * j + 1
          /\ 2 * j + 1 \in 1 .. 2 * log /\ (2 * j + 1) + 1 = 2 * j + 2
          /\ 2 * j >= d => 2 * j \in 1 .. 2 * log
      BY <1>1, <1>5
    <3>2. e[2 * j + 1] = c[2 * j + 2]
      BY <2>2, <3>1
    <3>3. 2 * j >= d => e[2 * j] = c[2 * j + 1]
      BY <2>2, <3>1
    <3>4. QED
      BY <1>3, <3>1, <3>2, <3>3
  <2>5. 2 * log >= d => e[2 * log + 1 - d] = 1
    <3>1. 2 * log + 1 - d = 2 * log /\ (2 * log >= d => 2 * log \in 1 .. 2 * log)
      BY <1>1, <1>5
    <3>2. 2 * log >= d => e[2 * log] = c[2 * log + 1]
      BY <2>2, <3>1
    <3>3. QED
      BY <1>2, <3>1, <3>2
  <2>6. 2 * log + 1 - d = 2 * log
    BY <1>1, <1>5
  <2>7. QED
    BY <1>1, <2>1, <2>2, <2>3, <2>4, <2>5, <2>6 DEF log
<1>6. QED
  BY <1>4, <1>5

(* What is known while a number is read: how it was written. *)
Coded(full, b, v, d) ==
  /\ v \in Encodable /\ d \in {0, 1}
  /\ StreamOK(full) /\ StreamOK(b) /\ Extends(full, PutBits(b, Code(v, d)))
  /\ PartOf(full) /\ src_pos <= Len(packed)

(***************************************************************************)
(* In the midst of it: j bits of the payload are gathered.                 *)
(***************************************************************************)
InNumber(full, b, v, d) ==
  \E j \in 0 .. kc_floor_log2(v) :
    /\ marker = 2 ^ j /\ value = Gathered(v, j)
    /\ \/ /\ pc = "control" /\ 2 * j >= d
          /\ AtStream(full, After(b, Code(v, d), 2 * j - d))
       \/ /\ pc = "payload" /\ j < kc_floor_log2(v)
          /\ AtStream(full, After(b, Code(v, d), 2 * j + 1 - d))

LEMMA CodeBitRead ==
  ASSUME NEW full, NEW b, NEW v, NEW d, Coded(full, b, v, d),
         NEW n \in 0 .. Len(Code(v, d)) - 1, AtStream(full, After(b, Code(v, d), n))
  PROVE  /\ Decoder!HasBit =>
              /\ Decoder!TheBit = Code(v, d)[n + 1]
              /\ Decoder!TakeBit => /\ AtStream(full, After(b, Code(v, d), n + 1))'
                                    /\ src_pos' <= Len(packed)
         /\ ~Decoder!HasBit => Len(packed) < Len(full.data)
<1> DEFINE c == Code(v, d)
           s == After(b, c, n)
           t == After(b, c, n + 1)
           bit == c[n + 1]
<1>1. /\ v \in Encodable /\ d \in {0, 1} /\ StreamOK(full) /\ StreamOK(b)
      /\ Extends(full, PutBits(b, c)) /\ PartOf(full) /\ src_pos <= Len(packed)
  BY DEF Coded
<1>2. c \in Seq({0, 1})
  BY <1>1, CodeIs
<1> HIDE DEF c
<1>3. n + 1 \in 1 .. Len(c) /\ n \in 0 .. Len(c) /\ n + 1 \in 0 .. Len(c) /\ bit \in {0, 1}
  <2>1. Len(c) \in Nat /\ n \in 0 .. Len(c) - 1
    BY <1>2 DEF c
  <2>2. QED
    BY <1>2, <2>1
<1>4. t = PutBit(s, bit)
  <2>1. n \in 0 .. Len(c) - 1
    BY DEF c
  <2>2. QED
    BY <1>2, <2>1, BitByBit
<1>5. StreamOK(s) /\ StreamOK(t) /\ StreamOK(PutBits(b, c))
  BY <1>1, <1>2, <1>3, AfterOK, PutBitsOK
<1>6. Extends(PutBits(b, c), t)
  BY <1>1, <1>2, <1>3, AfterExtends
<1>7. AtStream(full, s)
  BY DEF c
<1> HIDE DEF s, t, bit
<1>8. Extends(full, t)
  BY <1>1, <1>5, <1>6, ExtendsOn
<1>9. /\ Decoder!HasBit =>
           /\ Decoder!TheBit = bit
           /\ Decoder!TakeBit => AtStream(full, PutBit(s, bit))' /\ src_pos' <= Len(packed)
      /\ ~Decoder!HasBit => Len(packed) < Len(full.data)
  BY <1>1, <1>3, <1>4, <1>5, <1>7, <1>8, BitRead
<1>10. AtStream(full, PutBit(s, bit))' => AtStream(full, After(b, Code(v, d), n + 1))'
  BY <1>4 DEF t, c
<1>11. bit = Code(v, d)[n + 1]
  BY DEF bit, c
<1>12. QED
  BY <1>9, <1>10, <1>11

LEMMA NumberStart ==
  ASSUME NEW full, NEW b, NEW v \in Encodable, NEW d \in {0, 1},
         d = 1 => v >= 2,
         AtStream(full, b)', value' = 1, marker' = 1,
         pc' = IF d = 1 THEN "payload" ELSE "control"
  PROVE  InNumber(full, b, v, d)'
<1> DEFINE log == kc_floor_log2(v)
           c == Code(v, d)
<1>1. Gathered(v, 0) = 1 /\ 2 ^ 0 = 1
  BY GatheredStart, PowerZero
<1>2. log \in Nat /\ c \in Seq({0, 1})
  BY CodeIs
<1>3. After(b, c, 0) = b
  BY <1>2, BitByBit
<1>4. d = 1 => 0 < log
  <2>1. v \in Nat \ {0} /\ v <= 2 ^ (2 * ByteBits)
    BY TwoBytes
  <2>2. v < 2 ^ (log + 1)
    BY <2>1, FloorLog
  <2>3. log = 0 => 2 ^ (log + 1) = 2
    <3> HIDE DEF log
    <3>1. log = 0 => log + 1 = 1
      OBVIOUS
    <3>2. 2 ^ 1 = 2
      OBVIOUS
    <3>3. QED
      BY <3>1, <3>2
  <2> HIDE DEF log
  <2>4. d = 1 => log # 0
    BY <2>1, <2>2, <2>3
  <2>5. QED
    BY <1>2, <2>4
<1> HIDE DEF log, c
<1>5. 0 \in 0 .. log
  BY <1>2
<1>6. CASE d = 0
  <2>1. 2 * 0 >= d /\ 2 * 0 - d = 0 /\ pc' = "control"
    BY <1>6
  <2>2. AtStream(full, After(b, c, 2 * 0 - d))'
    BY <1>3, <2>1
  <2>3. /\ marker' = 2 ^ 0 /\ value' = Gathered(v, 0)
        /\ pc' = "control" /\ 2 * 0 >= d
        /\ AtStream(full, After(b, c, 2 * 0 - d))'
    BY <1>1, <2>1, <2>2
  <2>4. QED
    BY <1>5, <2>3 DEF InNumber, c, log
<1>7. CASE d = 1
  <2>1. 2 * 0 + 1 - d = 0 /\ pc' = "payload" /\ 0 < log
    BY <1>4, <1>7
  <2>2. AtStream(full, After(b, c, 2 * 0 + 1 - d))'
    BY <1>3, <2>1
  <2>3. /\ marker' = 2 ^ 0 /\ value' = Gathered(v, 0)
        /\ pc' = "payload" /\ 0 < log
        /\ AtStream(full, After(b, c, 2 * 0 + 1 - d))'
    BY <1>1, <2>1, <2>2
  <2>4. QED
    BY <1>5, <2>3 DEF InNumber, c, log
<1>8. QED
  BY <1>6, <1>7

LEMMA NumberGoesOn ==
  ASSUME NEW full, NEW b, NEW v, NEW d, Coded(full, b, v, d), InNumber(full, b, v, d),
         Decoder!Continue
  PROVE  InNumber(full, b, v, d)' /\ src_pos' <= Len(packed)
<1> DEFINE log == kc_floor_log2(v)
<1>1. pc = "control" /\ Decoder!HasBit /\ Decoder!TheBit = 0 /\ Decoder!TakeBit
      /\ pc' = "payload" /\ marker' = marker /\ value' = value
  BY DEF Decoder!Continue, Decoder!registers
<1>2. PICK j \in 0 .. log : /\ marker = 2 ^ j /\ value = Gathered(v, j) /\ 2 * j >= d
                            /\ AtStream(full, After(b, Code(v, d), 2 * j - d))
  BY <1>1 DEF InNumber
<1>3. v \in Encodable /\ d \in {0, 1}
  BY DEF Coded
<1>4. /\ log \in Nat /\ Len(Code(v, d)) = 2 * log + 1 - d
      /\ \A k \in 0 .. log - 1 : 2 * k >= d => Code(v, d)[2 * k + 1 - d] = 0
      /\ 2 * log >= d => Code(v, d)[2 * log + 1 - d] = 1
  BY <1>3, CodeIs
<1> HIDE DEF log
<1>5. 2 * j - d \in 0 .. Len(Code(v, d)) - 1 /\ (2 * j - d) + 1 = 2 * j + 1 - d
  BY <1>2, <1>3, <1>4
<1>6. /\ Code(v, d)[2 * j + 1 - d] = 0 /\ src_pos' <= Len(packed)
      /\ AtStream(full, After(b, Code(v, d), 2 * j + 1 - d))'
  <2>1. /\ Decoder!TheBit = Code(v, d)[(2 * j - d) + 1] /\ src_pos' <= Len(packed)
        /\ AtStream(full, After(b, Code(v, d), (2 * j - d) + 1))'
    BY <1>1, <1>2, <1>5, CodeBitRead
  <2>2. QED
    BY <1>1, <1>5, <2>1
<1>7. j < log
  <2>1. j # log
    BY <1>2, <1>4, <1>6
  <2>2. QED
    BY <1>4, <2>1
<1>8. InNumber(full, b, v, d)'
  BY <1>1, <1>2, <1>6, <1>7 DEF InNumber, log
<1>9. QED
  BY <1>6, <1>8

LEMMA NumberGathers ==
  ASSUME NEW full, NEW b, NEW v, NEW d, Coded(full, b, v, d), InNumber(full, b, v, d),
         Decoder!ReadPayload
  PROVE  /\ InNumber(full, b, v, d)' /\ src_pos' <= Len(packed) /\ pc' = "control"
         /\ UNCHANGED <<packed, output_cap, dali_mode, dst, state, last_offset, use,
                        offset_high, offset>>
<1> DEFINE log == kc_floor_log2(v)
<1>1. pc = "payload" /\ Decoder!HasBit
  BY DEF Decoder!ReadPayload
<1>2. PICK j \in 0 .. log : /\ marker = 2 ^ j /\ value = Gathered(v, j) /\ j < log
                            /\ AtStream(full, After(b, Code(v, d), 2 * j + 1 - d))
  BY <1>1 DEF InNumber
<1>3. v \in Encodable /\ d \in {0, 1}
  BY DEF Coded
<1>4. /\ log \in Nat /\ Len(Code(v, d)) = 2 * log + 1 - d
      /\ \A k \in 0 .. log - 1 : Code(v, d)[2 * k + 2 - d] = Bit(Payload(v), log - k - 1)
  BY <1>3, CodeIs
<1>5. log \in 0 .. 2 * ByteBits /\ ByteBits \in Nat
  BY <1>3, PayloadRange, FormatAssumption
<1>6. j \in 0 .. log - 1 /\ j \in 0 .. 2 * ByteBits
  BY <1>2, <1>4, <1>5
<1>7. ~(value > Decoder!UINT32_MAX_HALF)
  <2>1. value <= UINT32_MAX_HALF /\ value \in Nat
    BY <1>2, <1>3, <1>6, GatheredSmall
  <2>2. UINT32_MAX_HALF \in Int
    <3>1. /\ ByteValues * ByteValues * LowOffsets \in Int /\ ByteValues \in Int
          /\ \A a \in Int : a * (ByteValues - 1) + (a - 1) \in Int
      BY FormatAssumption DEF LowOffsets
    <3>2. QED
      BY <3>1 DEF UINT32_MAX_HALF
  <2>3. QED
    BY <2>1, <2>2, SameFormat
<1>8. /\ Decoder!TakeBit /\ value' = 2 * value + Decoder!TheBit /\ marker' = 2 * marker
      /\ pc' = "control"
      /\ UNCHANGED <<packed, output_cap, dali_mode, dst, state, last_offset, use,
                     offset_high, offset>>
  BY <1>7 DEF Decoder!ReadPayload, Decoder!arguments
<1>9. Gathered(v, j + 1) = 2 * Gathered(v, j) + Bit(Payload(v), log - j - 1)
  BY <1>3, <1>6, GatheredNext
<1>10. 2 ^ (j + 1) = 2 * 2 ^ j
  BY <1>6, PowerStep
<1> HIDE DEF log
<1>11. /\ 2 * j + 1 - d \in 0 .. Len(Code(v, d)) - 1
       /\ (2 * j + 1 - d) + 1 = 2 * (j + 1) - d /\ (2 * j + 1 - d) + 1 = 2 * j + 2 - d
       /\ 2 * (j + 1) >= d /\ j + 1 \in 0 .. log
  BY <1>2, <1>3, <1>4
<1>12. /\ Decoder!TheBit = Code(v, d)[(2 * j + 1 - d) + 1] /\ src_pos' <= Len(packed)
       /\ AtStream(full, After(b, Code(v, d), (2 * j + 1 - d) + 1))'
  BY <1>1, <1>2, <1>8, <1>11, CodeBitRead
<1>13. Decoder!TheBit = Bit(Payload(v), log - j - 1)
  BY <1>4, <1>6, <1>11, <1>12
<1>14. value' = Gathered(v, j + 1) /\ marker' = 2 ^ (j + 1)
  BY <1>2, <1>8, <1>9, <1>10, <1>13
<1>15. AtStream(full, After(b, Code(v, d), 2 * (j + 1) - d))'
  BY <1>11, <1>12
<1>16. InNumber(full, b, v, d)'
  <2> DEFINE k == j + 1
  <2>1. /\ k \in 0 .. log /\ value' = Gathered(v, k) /\ marker' = 2 ^ k
        /\ pc' = "control" /\ 2 * k >= d
        /\ AtStream(full, After(b, Code(v, d), 2 * k - d))'
    BY <1>8, <1>11, <1>14, <1>15
  <2> HIDE DEF k
  <2>2. QED
    BY <2>1 DEF InNumber, log
<1>17. QED
  BY <1>8, <1>12, <1>16

LEMMA NumberCloses ==
  ASSUME NEW full, NEW b, NEW v, NEW d, Coded(full, b, v, d), InNumber(full, b, v, d),
         pc = "control", Decoder!HasBit, Decoder!TheBit = 1, Decoder!TakeBit
  PROVE  /\ Decoder!Number = v /\ src_pos' <= Len(packed)
         /\ AtStream(full, PutBits(b, Code(v, d)))'
<1> DEFINE log == kc_floor_log2(v)
<1>1. PICK j \in 0 .. log : /\ marker = 2 ^ j /\ value = Gathered(v, j) /\ 2 * j >= d
                            /\ AtStream(full, After(b, Code(v, d), 2 * j - d))
  BY DEF InNumber
<1>2. v \in Encodable /\ d \in {0, 1}
  BY DEF Coded
<1>3. /\ log \in Nat /\ Len(Code(v, d)) = 2 * log + 1 - d /\ Code(v, d) \in Seq({0, 1})
      /\ \A k \in 0 .. log - 1 : 2 * k >= d => Code(v, d)[2 * k + 1 - d] = 0
  BY <1>2, CodeIs
<1>4. Unrotated(Gathered(v, log), 2 ^ log) = v
  BY <1>2, GatheredAll
<1> HIDE DEF log
<1>5. 2 * j - d \in 0 .. Len(Code(v, d)) - 1 /\ (2 * j - d) + 1 = 2 * j + 1 - d
  BY <1>1, <1>2, <1>3
<1>6. /\ Code(v, d)[2 * j + 1 - d] = 1 /\ src_pos' <= Len(packed)
      /\ AtStream(full, After(b, Code(v, d), 2 * j + 1 - d))'
  <2>1. /\ Decoder!TheBit = Code(v, d)[(2 * j - d) + 1] /\ src_pos' <= Len(packed)
        /\ AtStream(full, After(b, Code(v, d), (2 * j - d) + 1))'
    BY <1>1, <1>5, CodeBitRead
  <2>2. QED
    BY <1>5, <2>1
<1>7. j = log
  <2>1. ~(j \in 0 .. log - 1)
    BY <1>1, <1>3, <1>6
  <2>2. QED
    BY <1>3, <2>1
<1>8. Decoder!Number = v
  BY <1>1, <1>4, <1>7, SameFormat DEF Decoder!Number
<1>9. 2 * j + 1 - d = Len(Code(v, d))
  BY <1>3, <1>7
<1>10. After(b, Code(v, d), Len(Code(v, d))) = PutBits(b, Code(v, d))
  BY <1>3, BitByBit
<1>11. AtStream(full, PutBits(b, Code(v, d)))'
  BY <1>6, <1>9, <1>10
<1>12. QED
  BY <1>6, <1>8, <1>11

(* Where a bit is missing the stream has lost its end. *)
LEMMA NumberCut ==
  ASSUME NEW full, NEW b, NEW v, NEW d, Coded(full, b, v, d), InNumber(full, b, v, d),
         ~Decoder!HasBit
  PROVE  Len(packed) < Len(full.data)
<1> DEFINE log == kc_floor_log2(v)
<1>1. PICK j \in 0 .. log :
           \/ 2 * j >= d /\ AtStream(full, After(b, Code(v, d), 2 * j - d))
           \/ j < log /\ AtStream(full, After(b, Code(v, d), 2 * j + 1 - d))
  BY DEF InNumber
<1>2. v \in Encodable /\ d \in {0, 1}
  BY DEF Coded
<1>3. log \in Nat /\ Len(Code(v, d)) = 2 * log + 1 - d
  BY <1>2, CodeIs
<1> HIDE DEF log
<1>4. PICK n \in 0 .. Len(Code(v, d)) - 1 : AtStream(full, After(b, Code(v, d), n))
  <2>1. 2 * j >= d => 2 * j - d \in 0 .. Len(Code(v, d)) - 1
    BY <1>2, <1>3
  <2>2. j < log => 2 * j + 1 - d \in 0 .. Len(Code(v, d)) - 1
    BY <1>2, <1>3
  <2>3. QED
    BY <1>1, <2>1, <2>2
<1>5. QED
  BY <1>4, CodeBitRead

-----------------------------------------------------------------------------
(***************************************************************************)
(* How a stream came about.  e.points are the places of e.full between two *)
(* commands: the stream as it was then, how much of the text was written,  *)
(* and what the reader's state and last offset are there.  From every      *)
(* point one command leads to another point, or the end of data follows.   *)
(***************************************************************************)
Base(r) == IF r.state = 0 THEN r.s ELSE PutBit(r.s, 0)

LiteralsTo(e, r, len) ==
  [s     |-> PutBytes(PutBits(Base(r), Code(len, 0)), SubSeq(e.text, r.n + 1, r.n + len)),
   n     |-> r.n + len,
   state |-> 1,
   last  |-> r.last]

RepeatTo(e, r, len) ==
  [s     |-> PutBits(PutBit(r.s, 0), Code(len, 0)),
   n     |-> r.n + len,
   state |-> 2,
   last  |-> r.last]

High(o) == (o - 1) \div LowOffsets
Low(o)  == (o - 1) % LowOffsets

HighPart(s, high, format) ==
  IF format        THEN PutBits(PutBit(s, 1), Code(high + 1, 0))
  ELSE IF high = 0 THEN PutBit(PutBit(s, 1), 1)
  ELSE PutBytes(PutBit(PutBit(s, 1), 0), <<high>>)

Metadata(e, r, len, o) ==
  PutBytes(HighPart(r.s, High(o), e.format), <<2 * Low(o) + (IF len = 2 THEN 1 ELSE 0)>>)

OffsetTo(e, r, len, o) ==
  [s     |-> IF len = 2 THEN Metadata(e, r, len, o)
             ELSE PutBits(Metadata(e, r, len, o), Code(len - 1, 1)),
   n     |-> r.n + len,
   state |-> 2,
   last  |-> o]

Copies(e, r, len, o) ==
  /\ len \in 1 .. Len(e.text) - r.n
  /\ o \in MIN_OFFSET .. MAX_OFFSET /\ o <= r.n
  /\ \A k \in 1 .. len : e.text[r.n + k] = e.text[r.n + k - o]

ByLiterals(e, r, len) ==
  r.state # 1 /\ len \in 1 .. Len(e.text) - r.n /\ LiteralsTo(e, r, len) \in e.points

ByRepeat(e, r, len) ==
  r.state = 1 /\ Copies(e, r, len, r.last) /\ RepeatTo(e, r, len) \in e.points

ByOffset(e, r, len, o) ==
  r.state # 0 /\ len >= 2 /\ Copies(e, r, len, o) /\ OffsetTo(e, r, len, o) \in e.points

Goes(e, r) ==
  \/ \E len : ByLiterals(e, r, len)
  \/ \E len : ByRepeat(e, r, len)
  \/ \E len, o : ByOffset(e, r, len, o)

Eod(e, r) ==
  IF e.format THEN PutBits(PutBit(r.s, 1), Code(EodHigh, 0))
  ELSE PutBytes(PutBit(PutBit(r.s, 1), 0), <<0>>)

Ends(e, r) == r.state # 0 /\ r.n = Len(e.text) /\ e.full = Eod(e, r)

PointOK(e, r) ==
  /\ r.n \in 0 .. Len(e.text) /\ r.state \in 0 .. 2
  /\ StreamOK(r.s) /\ Extends(e.full, r.s)

StartPoint == [s |-> EmptyStream, n |-> 0, state |-> 0, last |-> 1]

TextOK(e) ==
  /\ e.text \in Seq(Byte) /\ Len(e.text) \in 1 .. MAX_VARLEN
  /\ e.format \in BOOLEAN /\ StreamOK(e.full)

Explains(e) ==
  /\ TextOK(e) /\ StartPoint \in e.points
  /\ \A r \in e.points : PointOK(e, r) /\ (Goes(e, r) \/ Ends(e, r))

(***************************************************************************)
(* The stream in the midst of each command.                                *)
(***************************************************************************)
LEMMA CodeOK ==
  ASSUME NEW s, StreamOK(s), NEW v, NEW d \in {0, 1}
  PROVE  StreamOK(PutBits(s, Code(v, d))) /\ Extends(PutBits(s, Code(v, d)), s)
  BY CodeIs, PutBitsOK

LEMMA LengthRange ==
  /\ MAX_VARLEN \in Nat /\ \A len \in 1 .. MAX_VARLEN : len \in Encodable /\ len \in Nat
  /\ EodHigh \in Encodable
  /\ \A high \in Byte : high + 1 \in Encodable /\ high + 1 \in Nat
<1>1. ByteValues \in Nat /\ ByteValues >= 4 /\ ByteValues * ByteValues \in Nat
      /\ ByteValues <= ByteValues * ByteValues
  BY FormatAssumption
<1>2. QED
  BY <1>1 DEF MAX_VARLEN, EodHigh, Encodable, Byte

LEMMA LiteralsFacts ==
  ASSUME NEW e, Explains(e), NEW r \in e.points, NEW len, ByLiterals(e, r, len)
  PROVE  LET q == LiteralsTo(e, r, len)
             x == PutBits(Base(r), Code(len, 0))
             bytes == SubSeq(e.text, r.n + 1, r.n + len)
         IN  /\ StreamOK(Base(r)) /\ Extends(e.full, Base(r))
             /\ StreamOK(x) /\ Extends(e.full, x)
             /\ q \in e.points /\ q.s = PutBytes(x, bytes) /\ Extends(e.full, q.s)
             /\ bytes \in Seq(Byte) /\ Len(bytes) = len
             /\ len \in Encodable /\ len \in 1 .. MAX_VARLEN
<1> DEFINE q == LiteralsTo(e, r, len)
           b == Base(r)
           x == PutBits(b, Code(len, 0))
           bytes == SubSeq(e.text, r.n + 1, r.n + len)
<1>1. /\ PointOK(e, r) /\ PointOK(e, q) /\ StreamOK(e.full) /\ e.text \in Seq(Byte)
      /\ Len(e.text) \in 1 .. MAX_VARLEN /\ q \in e.points
  BY DEF Explains, TextOK, ByLiterals
<1>2. len \in 1 .. Len(e.text) - r.n /\ r.n \in 0 .. Len(e.text)
  BY <1>1 DEF ByLiterals, PointOK
<1>3. len \in 1 .. MAX_VARLEN /\ len \in Encodable
  <2>1. len \in 1 .. MAX_VARLEN
    BY <1>1, <1>2, LengthRange
  <2>2. QED
    BY <2>1, LengthRange
<1>4. bytes \in Seq(Byte) /\ Len(bytes) = len
  BY <1>1, <1>2, SMTT(30)
<1>5. StreamOK(r.s) /\ Extends(e.full, r.s) /\ Extends(e.full, q.s) /\ StreamOK(q.s)
  BY <1>1 DEF PointOK
<1>6. q.s = PutBytes(x, bytes)
  BY DEF LiteralsTo
<1>7. StreamOK(b)
  BY <1>5, PutBitOK DEF Base
<1> HIDE DEF q, b, bytes
<1>8. StreamOK(x) /\ Extends(x, b)
  BY <1>7, CodeOK
<1> HIDE DEF x
<1>9. Extends(q.s, x)
  BY <1>4, <1>6, <1>8, PutBytesOK
<1>10. Extends(e.full, x)
  BY <1>1, <1>5, <1>8, <1>9, ExtendsOn
<1>11. Extends(e.full, b)
  BY <1>1, <1>7, <1>8, <1>10, ExtendsOn
<1>12. QED
  BY <1>1, <1>3, <1>4, <1>5, <1>6, <1>7, <1>8, <1>10, <1>11 DEF q, b, x, bytes

LEMMA RepeatFacts ==
  ASSUME NEW e, Explains(e), NEW r \in e.points, NEW len, ByRepeat(e, r, len)
  PROVE  LET q == RepeatTo(e, r, len)
             b == PutBit(r.s, 0)
         IN  /\ StreamOK(b) /\ Extends(e.full, b)
             /\ q \in e.points /\ q.s = PutBits(b, Code(len, 0)) /\ Extends(e.full, q.s)
             /\ len \in Encodable /\ len \in 1 .. MAX_VARLEN
<1> DEFINE q == RepeatTo(e, r, len)
           b == PutBit(r.s, 0)
<1>1. /\ PointOK(e, r) /\ PointOK(e, q) /\ StreamOK(e.full) /\ q \in e.points
      /\ Len(e.text) \in 1 .. MAX_VARLEN
  BY DEF Explains, TextOK, ByRepeat
<1>2. len \in 1 .. Len(e.text) - r.n /\ r.n \in 0 .. Len(e.text)
  BY <1>1 DEF ByRepeat, Copies, PointOK
<1>3. len \in 1 .. MAX_VARLEN /\ len \in Encodable
  <2>1. len \in 1 .. MAX_VARLEN
    BY <1>1, <1>2, LengthRange
  <2>2. QED
    BY <2>1, LengthRange
<1>4. StreamOK(r.s) /\ Extends(e.full, q.s) /\ StreamOK(q.s)
  BY <1>1 DEF PointOK
<1>5. q.s = PutBits(b, Code(len, 0))
  BY DEF RepeatTo
<1>6. StreamOK(b)
  BY <1>4, PutBitOK
<1> HIDE DEF q, b
<1>7. Extends(q.s, b)
  BY <1>5, <1>6, CodeOK
<1>8. Extends(e.full, b)
  BY <1>1, <1>4, <1>6, <1>7, ExtendsOn
<1>9. QED
  BY <1>1, <1>3, <1>4, <1>5, <1>6, <1>8 DEF q, b

LEMMA HighPartOK ==
  ASSUME NEW s, StreamOK(s), NEW high \in Byte, NEW format
  PROVE  LET b == PutBit(s, 1)
             c == PutBit(b, 0)
             h == HighPart(s, high, format)
         IN  /\ StreamOK(b) /\ StreamOK(c) /\ StreamOK(h) /\ Extends(h, b)
             /\ ~format /\ high # 0 => Extends(h, c)
<1> DEFINE b == PutBit(s, 1)
           c == PutBit(b, 0)
           h == HighPart(s, high, format)
<1>1. StreamOK(b)
  BY PutBitOK
<1>2. StreamOK(PutBit(b, 0)) /\ Extends(PutBit(b, 0), b)
      /\ StreamOK(PutBit(b, 1)) /\ Extends(PutBit(b, 1), b)
  <2> HIDE DEF b
  <2>1. QED
    BY <1>1, PutBitOK, ExtendsBit
<1>3. CASE format
  <2>1. h = PutBits(b, Code(high + 1, 0))
    BY <1>3 DEF HighPart
  <2> HIDE DEF b, h
  <2>2. StreamOK(h) /\ Extends(h, b)
    BY <1>1, <2>1, CodeOK
  <2>3. QED
    BY <1>1, <1>2, <1>3, <2>2 DEF b, h
<1>4. CASE ~format /\ high = 0
  <2>1. h = PutBit(b, 1)
    BY <1>4 DEF HighPart
  <2> HIDE DEF b, h
  <2>2. QED
    BY <1>1, <1>2, <1>4, <2>1 DEF b, h
<1>5. CASE ~format /\ high # 0
  <2>1. h = PutBytes(c, <<high>>)
    BY <1>5 DEF HighPart
  <2>2. StreamOK(c) /\ Extends(c, b)
    BY <1>2
  <2>3. <<high>> \in Seq(Byte)
    OBVIOUS
  <2> HIDE DEF b, h, c
  <2>4. StreamOK(h) /\ Extends(h, c)
    BY <2>1, <2>2, <2>3, PutBytesOK
  <2>5. Extends(h, b)
    BY <1>1, <2>2, <2>4, ExtendsOn
  <2>6. QED
    BY <1>1, <2>2, <2>4, <2>5 DEF b, h, c
<1>6. QED
  BY <1>3, <1>4, <1>5

LEMMA OffsetNumbers ==
  ASSUME NEW o \in MIN_OFFSET .. MAX_OFFSET, NEW two \in {0, 1}
  PROVE  /\ High(o) \in Byte /\ High(o) \in Nat /\ High(o) + 1 \in 1 .. EodHigh - 1
         /\ High(o) + 1 \in Encodable
         /\ 2 * Low(o) + two \in Byte /\ 2 * Low(o) + two \in Nat
         /\ (2 * Low(o) + two) \div 2 = Low(o) /\ (2 * Low(o) + two) % 2 = two
         /\ High(o) * LowOffsets + Low(o) + 1 = o
<1>1. LET high == (o - 1) \div LowOffsets
          low  == (o - 1) % LowOffsets
      IN  /\ high \in Byte /\ high \in Nat /\ high + 1 \in 1 .. EodHigh - 1
          /\ 2 * low + two \in Byte /\ 2 * low + two \in Nat
          /\ (2 * low + two) \div 2 = low /\ (2 * low + two) % 2 = two
          /\ high * LowOffsets + low + 1 = o
  BY OffsetParts
<1>2. ((o - 1) \div LowOffsets) + 1 \in Encodable
  BY <1>1, LengthRange
<1>3. QED
  BY <1>1, <1>2 DEF High, Low

Two(len) == IF len = 2 THEN 1 ELSE 0

LEMMA OffsetFacts ==
  ASSUME NEW e, Explains(e), NEW r \in e.points, NEW len, NEW o, ByOffset(e, r, len, o)
  PROVE  LET q == OffsetTo(e, r, len, o)
             b == PutBit(r.s, 1)
             h == HighPart(r.s, High(o), e.format)
             m == Metadata(e, r, len, o)
         IN  /\ StreamOK(r.s) /\ o \in MIN_OFFSET .. MAX_OFFSET /\ Two(len) \in {0, 1}
             /\ StreamOK(b) /\ Extends(e.full, b)
             /\ StreamOK(h) /\ Extends(e.full, h)
             /\ m = PutBytes(h, <<2 * Low(o) + Two(len)>>) /\ StreamOK(m) /\ Extends(e.full, m)
             /\ ~e.format /\ High(o) # 0 =>
                  StreamOK(PutBit(b, 0)) /\ Extends(e.full, PutBit(b, 0))
             /\ q \in e.points /\ Extends(e.full, q.s)
             /\ len = 2 => q.s = m
             /\ len # 2 => q.s = PutBits(m, Code(len - 1, 1)) /\ len - 1 \in Encodable
             /\ len \in 2 .. MAX_VARLEN
<1> DEFINE q == OffsetTo(e, r, len, o)
           b == PutBit(r.s, 1)
           c == PutBit(b, 0)
           h == HighPart(r.s, High(o), e.format)
           m == Metadata(e, r, len, o)
<1>1. /\ PointOK(e, r) /\ PointOK(e, q) /\ StreamOK(e.full) /\ q \in e.points
      /\ Len(e.text) \in 1 .. MAX_VARLEN
  BY DEF Explains, TextOK, ByOffset
<1>2. /\ len \in 1 .. Len(e.text) - r.n /\ r.n \in 0 .. Len(e.text)
      /\ o \in MIN_OFFSET .. MAX_OFFSET /\ len >= 2
  BY <1>1 DEF ByOffset, Copies, PointOK
<1>3. len \in 2 .. MAX_VARLEN /\ len - 1 \in Encodable
  <2>1. len \in 2 .. MAX_VARLEN /\ len - 1 \in 1 .. MAX_VARLEN
    BY <1>1, <1>2, LengthRange
  <2>2. QED
    BY <2>1, LengthRange
<1>4. StreamOK(r.s) /\ Extends(e.full, q.s) /\ StreamOK(q.s)
  BY <1>1 DEF PointOK
<1>5. Two(len) \in {0, 1}
  BY DEF Two
<1>6. High(o) \in Byte /\ 2 * Low(o) + Two(len) \in Byte
  BY <1>2, <1>5, OffsetNumbers
<1>7. /\ StreamOK(b) /\ StreamOK(c) /\ StreamOK(h) /\ Extends(h, b)
      /\ ~e.format /\ High(o) # 0 => Extends(h, c)
  BY <1>4, <1>6, HighPartOK
<1>8. m = PutBytes(h, <<2 * Low(o) + Two(len)>>)
  BY DEF Metadata, Two
<1>9. q.s = IF len = 2 THEN m ELSE PutBits(m, Code(len - 1, 1))
  BY DEF OffsetTo
<1> HIDE DEF q, b, c, h, m
<1>10. StreamOK(m) /\ Extends(m, h)
  <2>1. <<2 * Low(o) + Two(len)>> \in Seq(Byte)
    BY <1>6
  <2>2. QED
    BY <1>7, <1>8, <2>1, PutBytesOK
<1>11. Extends(e.full, m)
  <2>1. CASE len = 2
    BY <1>4, <1>9, <2>1
  <2>2. CASE len # 2
    <3>1. Extends(q.s, m)
      BY <1>9, <1>10, <2>2, CodeOK
    <3>2. QED
      BY <1>1, <1>4, <1>10, <3>1, ExtendsOn
  <2>3. QED
    BY <2>1, <2>2
<1>12. Extends(e.full, h)
  BY <1>1, <1>7, <1>10, <1>11, ExtendsOn
<1>13. Extends(e.full, b) /\ (~e.format /\ High(o) # 0 => Extends(e.full, c))
  BY <1>1, <1>7, <1>12, ExtendsOn
<1>14. QED
  BY <1>1, <1>2, <1>3, <1>4, <1>5, <1>7, <1>8, <1>9, <1>10, <1>11, <1>12, <1>13
     DEF q, b, c, h, m

LEMMA EodFacts ==
  ASSUME NEW e, Explains(e), NEW r \in e.points, Ends(e, r)
  PROVE  LET b == PutBit(r.s, 1)
             c == PutBit(b, 0)
         IN  /\ StreamOK(b) /\ Extends(e.full, b)
             /\ e.format => e.full = PutBits(b, Code(EodHigh, 0))
             /\ ~e.format => /\ StreamOK(c) /\ Extends(e.full, c)
                             /\ e.full = PutBytes(c, <<0>>) /\ <<0>> \in Seq(Byte)
<1> DEFINE b == PutBit(r.s, 1)
           c == PutBit(b, 0)
<1>1. PointOK(e, r) /\ StreamOK(e.full)
  BY DEF Explains, TextOK
<1>2. StreamOK(r.s)
  BY <1>1 DEF PointOK
<1>3. StreamOK(b)
  BY <1>2, PutBitOK
<1>4. StreamOK(c) /\ Extends(c, b)
  <2> HIDE DEF b
  <2>1. QED
    BY <1>3, PutBitOK, ExtendsBit
<1>5. e.full = IF e.format THEN PutBits(b, Code(EodHigh, 0)) ELSE PutBytes(c, <<0>>)
  BY DEF Ends, Eod
<1> HIDE DEF b, c
<1>6. CASE e.format
  <2>1. Extends(e.full, b)
    BY <1>3, <1>5, <1>6, CodeOK
  <2>2. QED
    BY <1>3, <1>5, <1>6, <2>1 DEF b, c
<1>7. CASE ~e.format
  <2>1. <<0>> \in Seq(Byte)
    BY FormatAssumption DEF Byte
  <2>2. Extends(e.full, c)
    BY <1>4, <1>5, <1>7, <2>1, PutBytesOK
  <2>3. Extends(e.full, b)
    BY <1>1, <1>3, <1>4, <2>2, ExtendsOn
  <2>4. QED
    BY <1>3, <1>4, <1>5, <1>7, <2>1, <2>2, <2>3 DEF b, c
<1>8. QED
  BY <1>6, <1>7

-----------------------------------------------------------------------------
(***************************************************************************)
(* The writer keeps an explanation of what it has written: all points but  *)
(* the last lead on, and the last is where it stands.                      *)
(***************************************************************************)
Partial(e, c) ==
  /\ StartPoint \in e.points /\ c \in e.points
  /\ \A r \in e.points : PointOK(e, r) /\ (r = c \/ Goes(e, r))

LEMMA GoesStill ==
  ASSUME NEW e, NEW e2, e2.text = e.text, e2.format = e.format, e.points \subseteq e2.points,
         NEW r, Goes(e, r)
  PROVE  Goes(e2, r)
<1>1. \A len : LiteralsTo(e2, r, len) = LiteralsTo(e, r, len)
  BY DEF LiteralsTo
<1>2. \A len : RepeatTo(e2, r, len) = RepeatTo(e, r, len)
  BY DEF RepeatTo
<1>3. \A len, o : OffsetTo(e2, r, len, o) = OffsetTo(e, r, len, o)
  BY DEF OffsetTo, Metadata
<1>4. \A len, o : Copies(e2, r, len, o) <=> Copies(e, r, len, o)
  BY DEF Copies
<1>5. CASE \E len : ByLiterals(e, r, len)
  <2>1. PICK len : ByLiterals(e, r, len)
    BY <1>5
  <2>2. ByLiterals(e2, r, len)
    BY <1>1, <2>1 DEF ByLiterals
  <2>3. QED
    BY <2>2 DEF Goes
<1>6. CASE \E len : ByRepeat(e, r, len)
  <2>1. PICK len : ByRepeat(e, r, len)
    BY <1>6
  <2>2. ByRepeat(e2, r, len)
    BY <1>2, <1>4, <2>1 DEF ByRepeat
  <2>3. QED
    BY <2>2 DEF Goes
<1>7. CASE \E len, o : ByOffset(e, r, len, o)
  <2>1. PICK len, o : ByOffset(e, r, len, o)
    BY <1>7
  <2>2. ByOffset(e2, r, len, o)
    BY <1>3, <1>4, <2>1 DEF ByOffset
  <2>3. QED
    BY <2>2 DEF Goes
<1>8. QED
  BY <1>5, <1>6, <1>7 DEF Goes

LEMMA PartialGrows ==
  ASSUME NEW e, NEW c, Partial(e, c), NEW e2, NEW q,
         e2.text = e.text, e2.format = e.format, e2.points = e.points \cup {q},
         StreamOK(e.full), StreamOK(e2.full), Extends(e2.full, e.full),
         PointOK(e2, q), c = q \/ Goes(e2, c)
  PROVE  Partial(e2, q)
<1>1. ASSUME NEW r \in e2.points
      PROVE  PointOK(e2, r) /\ (r = q \/ Goes(e2, r))
  <2>1. CASE r = q
    BY <2>1
  <2>2. CASE r # q
    <3>1. r \in e.points
      BY <2>2
    <3>2. PointOK(e, r) /\ (r = c \/ Goes(e, r))
      BY <3>1 DEF Partial
    <3>3. Goes(e, r) => Goes(e2, r)
      BY GoesStill
    <3>4. StreamOK(r.s) /\ Extends(e.full, r.s)
      BY <3>2 DEF PointOK
    <3>5. Extends(e2.full, r.s)
      BY <3>4, ExtendsOn
    <3>6. PointOK(e2, r)
      BY <3>2, <3>5 DEF PointOK
    <3>7. QED
      BY <2>2, <3>2, <3>3, <3>6
  <2>3. QED
    BY <2>1, <2>2
<1>2. StartPoint \in e2.points /\ q \in e2.points
  BY DEF Partial
<1>3. QED
  BY <1>1, <1>2 DEF Partial

(***************************************************************************)
(* Where the writer stands, and what it knows of the match it writes.      *)
(***************************************************************************)
IsOf(e) == e.full = stream /\ e.text = window /\ e.format = dali

(* Where the end mark begins: behind all points, with a bit of the open byte free. *)
AtTheEnd(e, c) ==
  /\ Ends(e, c) /\ c.s.bit_shift % 2 = 0
  /\ \A r \in e.points : Extends(c.s, r.s)

Here(e, c) ==
  /\ wpc \in {"loop", "literals"} =>
       /\ c.s = stream /\ c.n = i - num_literals /\ c.last = rep_offset
       /\ c.state = IF first THEN 0 ELSE 2
  /\ wpc \in {"match", "eod"} =>
       /\ c.s = stream /\ c.n = i /\ c.last = rep_offset
       /\ c.state = IF num_literals # 0 THEN 1 ELSE 2
  /\ wpc = "length" =>
       /\ c.n = i /\ c.state \in {1, 2} /\ match.length > 2
       /\ stream = Metadata(e, c, match.length, match.offset)
  /\ wpc = "written" => AtTheEnd(e, c)

MatchInv ==
  wpc \in {"literals", "match", "length"} /\ match # NoneLeft =>
    /\ Copies([text |-> window], [n |-> i], match.length, match.offset)
    /\ match.length >= 2 \/ Repeats(match)

ExplainInv ==
  Writing \/ wpc = "written" => \E e, c : IsOf(e) /\ TextOK(e) /\ Partial(e, c) /\ Here(e, c)

TextInv ==
  /\ start = 0 /\ dali \in BOOLEAN
  /\ wpc = "idle" => stream = EmptyStream /\ rep_offset = 1 /\ first /\ num_literals = 0

PackInv == WriterInv /\ TextInv /\ MatchInv /\ ExplainInv

LEMMA PackInit == Init => PackInv
  BY InitWriter DEF Init, PackInv, TextInv, MatchInv, ExplainInv, Writing

LEMMA PackStart ==
  ASSUME PackInv, NEW text \in Seq(Byte), NEW format \in BOOLEAN,
         Len(text) \in 1 .. MAX_VARLEN, salvador_compress(text, 0, format)
  PROVE  PackInv'
<1>1. 0 \in 0 .. Len(text)
  OBVIOUS
<1>2. WriterInv'
  BY <1>1, CallStep DEF PackInv
<1>3. /\ wpc = "idle" /\ stream = EmptyStream /\ rep_offset = 1 /\ first /\ num_literals = 0
      /\ window' = text /\ start' = 0 /\ dali' = format /\ i' = 0 /\ wpc' = "loop"
      /\ UNCHANGED <<num_literals, first, rep_offset, match, stream>>
  BY DEF salvador_compress, PackInv, TextInv
<1>4. TextInv' /\ MatchInv'
  BY <1>3 DEF TextInv, MatchInv
<1>5. ExplainInv'
  <2> DEFINE e == [full |-> EmptyStream, text |-> text, format |-> format,
                   points |-> {StartPoint}]
  <2>1. e.full = EmptyStream /\ e.text = text /\ e.format = format /\ e.points = {StartPoint}
    OBVIOUS
  <2> HIDE DEF e
  <2>2. IsOf(e)' /\ TextOK(e)
    BY <1>3, <2>1, EmptyOK DEF IsOf, TextOK
  <2>3. Partial(e, StartPoint)
    <3>1. /\ StartPoint.s = EmptyStream /\ StartPoint.n = 0 /\ StartPoint.state = 0
      BY DEF StartPoint
    <3>2. PointOK(e, StartPoint)
      BY <2>1, <3>1, EmptyOK, ExtendsItself DEF PointOK
    <3>3. QED
      BY <2>1, <3>2 DEF Partial
  <2>4. Here(e, StartPoint)'
    BY <1>3 DEF Here, StartPoint
  <2>5. QED
    BY <2>2, <2>3, <2>4 DEF ExplainInv
<1>6. QED
  BY <1>2, <1>4, <1>5 DEF PackInv

LEMMA PackCount == PackInv /\ CountLiteral => PackInv'
<1> SUFFICES ASSUME PackInv, CountLiteral PROVE PackInv'
  OBVIOUS
<1>1. /\ wpc = "loop" /\ wpc' = "loop" /\ num_literals' = num_literals + 1 /\ i' = i + 1
      /\ UNCHANGED <<window, start, dali, first, rep_offset, match, stream>>
  BY DEF CountLiteral
<1>2. WriterInv'
  BY CountLiteralStep DEF PackInv
<1>3. TextInv' /\ MatchInv'
  BY <1>1 DEF PackInv, TextInv, MatchInv
<1>4. PICK e, c : IsOf(e) /\ TextOK(e) /\ Partial(e, c) /\ Here(e, c)
  BY <1>1 DEF PackInv, ExplainInv, Writing
<1>5. i \in Nat /\ num_literals \in Int
  BY DEF PackInv, WriterInv, RunInv, Positions
<1>6. IsOf(e)' /\ Here(e, c)'
  BY <1>1, <1>4, <1>5 DEF IsOf, Here
<1>7. ExplainInv'
  BY <1>4, <1>6 DEF ExplainInv
<1>8. QED
  BY <1>2, <1>3, <1>7 DEF PackInv

LEMMA PackTake == PackInv /\ TakeMatch => PackInv'
<1> SUFFICES ASSUME PackInv, TakeMatch PROVE PackInv'
  OBVIOUS
<1>1. /\ wpc = "loop" /\ match' \in CorrectMatches /\ Taken(match')
      /\ wpc' = IF num_literals # 0 THEN "literals" ELSE IF first THEN "failed" ELSE "match"
      /\ UNCHANGED <<window, start, dali, i, num_literals, first, rep_offset, stream>>
  BY DEF TakeMatch
<1>2. WriterInv'
  BY TakeMatchStep DEF PackInv
<1>3. TextInv'
  BY <1>1 DEF PackInv, TextInv
<1>4. PICK e, c : IsOf(e) /\ TextOK(e) /\ Partial(e, c) /\ Here(e, c)
  BY <1>1 DEF PackInv, ExplainInv, Writing
<1>5. i \in Nat /\ num_literals \in Int /\ first \in BOOLEAN
  BY DEF PackInv, WriterInv, RunInv, Positions
<1>6. IsOf(e)' /\ Here(e, c)'
  BY <1>1, <1>4, <1>5 DEF IsOf, Here
<1>7. ExplainInv'
  BY <1>4, <1>6 DEF ExplainInv
<1>8. MatchInv'
  <2>1. /\ match'.length \in 1 .. Len(window) - i /\ match'.offset \in MIN_OFFSET .. MAX_OFFSET
        /\ match'.offset <= i
        /\ \A k \in 1 .. match'.length : window[i + k] = window[i + k - match'.offset]
    BY <1>1 DEF CorrectMatches
  <2>2. Copies([text |-> window], [n |-> i], match'.length, match'.offset)
    BY <2>1 DEF Copies
  <2>3. match'.length >= 2 \/ (match'.offset = rep_offset /\ num_literals # 0)
    BY <1>1, <2>1 DEF Taken, Repeats
  <2>4. QED
    BY <1>1, <2>2, <2>3 DEF MatchInv, Repeats
<1>9. QED
  BY <1>2, <1>3, <1>7, <1>8 DEF PackInv

LEMMA PackEnd == PackInv /\ EndOfBlock => PackInv'
<1> SUFFICES ASSUME PackInv, EndOfBlock PROVE PackInv'
  OBVIOUS
<1>1. /\ wpc = "loop" /\ i = Len(window) /\ match' = NoneLeft
      /\ wpc' = IF num_literals # 0 THEN "literals" ELSE "eod"
      /\ UNCHANGED <<window, start, dali, i, num_literals, first, rep_offset, stream>>
  BY DEF EndOfBlock
<1>2. WriterInv'
  BY EndOfBlockStep DEF PackInv
<1>3. TextInv' /\ MatchInv'
  BY <1>1 DEF PackInv, TextInv, MatchInv
<1>4. PICK e, c : IsOf(e) /\ TextOK(e) /\ Partial(e, c) /\ Here(e, c)
  BY <1>1 DEF PackInv, ExplainInv, Writing
<1>5. i \in Nat /\ num_literals \in Int /\ (wpc' = "eod" => ~first)
  <2>1. wpc' = "eod" => ~first'
    BY <1>2 DEF WriterInv, RunInv
  <2>2. QED
    BY <1>1, <2>1 DEF PackInv, WriterInv, RunInv, Positions
<1>6. IsOf(e)' /\ Here(e, c)'
  BY <1>1, <1>4, <1>5 DEF IsOf, Here
<1>7. ExplainInv'
  BY <1>4, <1>6 DEF ExplainInv
<1>8. QED
  BY <1>2, <1>3, <1>7 DEF PackInv

(***************************************************************************)
(* The commands as the writer puts them together.                          *)
(***************************************************************************)
LEMMA AsWritten ==
  ASSUME NEW s, NEW v, NEW bit \in {0, 1}
  PROVE  /\ PutBits(s, <<bit>> \o kc_write_dali_length(v, FALSE))
              = PutBits(PutBit(s, bit), Code(v, 0))
         /\ PutBits(s, <<>> \o kc_write_dali_length(v, FALSE)) = PutBits(s, Code(v, 0))
         /\ PutBits(s, kc_write_dali_length(v, TRUE)) = PutBits(s, Code(v, 1))
<1>1. kc_write_dali_length(v, FALSE) \in Seq({0, 1})
  BY CodeLength
<1>2. Code(v, 0) = kc_write_dali_length(v, FALSE) /\ Code(v, 1) = kc_write_dali_length(v, TRUE)
  BY DEF Code
<1>3. <<>> \o kc_write_dali_length(v, FALSE) = kc_write_dali_length(v, FALSE)
  BY <1>1, ConcatEmptySeq
<1>4. PutBits(s, <<bit>> \o kc_write_dali_length(v, FALSE))
        = PutBits(PutBit(s, bit), kc_write_dali_length(v, FALSE))
  BY <1>1, FrontBit
<1>5. QED
  BY <1>2, <1>3, <1>4

LEMMA HighAsWritten ==
  ASSUME NEW s, NEW high
  PROVE  OffsetHigh(s, high) = HighPart(s, high, dali)
<1>1. PutBits(s, <<1>> \o kc_write_dali_length(high + 1, FALSE))
        = PutBits(PutBit(s, 1), Code(high + 1, 0))
  BY AsWritten
<1>2. PutBits(s, <<1, 1>>) = PutBit(PutBit(s, 1), 1)
      /\ PutBits(s, <<1, 0>>) = PutBit(PutBit(s, 1), 0)
  BY TwoBits
<1>3. QED
  BY <1>1, <1>2 DEF OffsetHigh, HighPart

(* A point is added where the writer stands after a command. *)
PointAdded(e, c, e2, q) ==
  /\ IsOf(e) /\ TextOK(e) /\ Partial(e, c)
  /\ e2.full = stream' /\ e2.text = e.text /\ e2.format = e.format
  /\ e2.points = e.points \cup {q} /\ Goes(e2, c)
  /\ q.s = stream' /\ q.n \in 0 .. Len(window) /\ q.state \in 0 .. 2 /\ Here(e2, q)'

LEMMA PackPoint ==
  ASSUME PackInv, WriterInv', window' = window, dali' = dali, Extends(stream', stream),
         NEW e, NEW c, NEW e2, NEW q, PointAdded(e, c, e2, q)
  PROVE  ExplainInv'
<1>0. /\ IsOf(e) /\ TextOK(e) /\ Partial(e, c)
      /\ e2.full = stream' /\ e2.text = e.text /\ e2.format = e.format
      /\ e2.points = e.points \cup {q} /\ Goes(e2, c)
      /\ q.s = stream' /\ q.n \in 0 .. Len(window) /\ q.state \in 0 .. 2 /\ Here(e2, q)'
  BY DEF PointAdded
<1>1. StreamOK(stream) /\ StreamOK(stream')
  BY DEF PackInv, WriterInv, DataInv
<1>2. PointOK(e2, q)
  BY <1>0, <1>1, ExtendsItself DEF PointOK, IsOf
<1>3. Partial(e2, q)
  <2>1. StreamOK(e.full) /\ StreamOK(e2.full) /\ Extends(e2.full, e.full)
    BY <1>0, <1>1 DEF IsOf
  <2>2. QED
    BY <1>0, <1>2, <2>1, PartialGrows
<1>4. IsOf(e2)' /\ TextOK(e2)
  BY <1>0, <1>1 DEF IsOf, TextOK
<1>5. QED
  BY <1>0, <1>3, <1>4 DEF ExplainInv

LEMMA PackLiterals == PackInv /\ salvador_write_literals => PackInv'
<1> SUFFICES ASSUME PackInv, salvador_write_literals PROVE PackInv'
  OBVIOUS
<1> DEFINE header == (IF first THEN <<>> ELSE <<0>>) \o kc_write_dali_length(num_literals, FALSE)
           bytes == SubSeq(window, i - num_literals + 1, i)
<1>1. /\ wpc = "literals" /\ first' = FALSE
      /\ UNCHANGED <<window, start, dali, i, num_literals, rep_offset, match>>
      /\ stream' = PutBytes(PutBits(stream, header), bytes)
      /\ wpc' \in {"failed", "eod", "match"}
      /\ wpc' = "match" => match # NoneLeft
  BY DEF salvador_write_literals, Emit
<1>2. WriterInv'
  BY WriteLiteralsStep DEF PackInv
<1>3. TextInv' /\ MatchInv'
  BY <1>1 DEF PackInv, TextInv, MatchInv, Repeats
<1>4. ASSUME wpc' # "failed"
      PROVE  ExplainInv'
  <2>1. PICK e, c : IsOf(e) /\ TextOK(e) /\ Partial(e, c) /\ Here(e, c)
    BY <1>1 DEF PackInv, ExplainInv, Writing
  <2>2. /\ c.s = stream /\ c.n = i - num_literals /\ c.last = rep_offset
        /\ c.state = IF first THEN 0 ELSE 2
    BY <1>1, <2>1 DEF Here
  <2>3. /\ i \in Nat /\ num_literals \in 1 .. i /\ i <= Len(window) /\ window \in Seq(Byte)
        /\ Len(window) \in Nat /\ StreamOK(stream) /\ first \in BOOLEAN
    BY <1>1 DEF PackInv, TextInv, WriterInv, RunInv, DataInv, Positions
  <2>4. PutBits(stream, header) = PutBits(Base(c), Code(num_literals, 0))
    <3>1. CASE first
      <4>1. header = <<>> \o kc_write_dali_length(num_literals, FALSE)
        BY <3>1
      <4>2. c.state = 0 /\ Base(c) = stream
        BY <2>2, <3>1 DEF Base
      <4> HIDE DEF header
      <4>3. PutBits(stream, <<>> \o kc_write_dali_length(num_literals, FALSE))
              = PutBits(stream, Code(num_literals, 0))
        BY AsWritten
      <4>4. QED
        BY <4>1, <4>2, <4>3
    <3>2. CASE ~first
      <4>1. header = <<0>> \o kc_write_dali_length(num_literals, FALSE)
        BY <3>2
      <4>2. c.state = 2 /\ Base(c) = PutBit(stream, 0)
        BY <2>2, <3>2 DEF Base
      <4> HIDE DEF header
      <4>3. PutBits(stream, <<0>> \o kc_write_dali_length(num_literals, FALSE))
              = PutBits(PutBit(stream, 0), Code(num_literals, 0))
        BY AsWritten
      <4>4. QED
        BY <4>1, <4>2, <4>3
    <3>3. QED
      BY <3>1, <3>2
  <2>5. Extends(stream', stream)
    <3>1. header \in Seq({0, 1})
      <4>1. /\ first => header = <<>> \o kc_write_dali_length(num_literals, FALSE)
            /\ ~first => header = <<0>> \o kc_write_dali_length(num_literals, FALSE)
        OBVIOUS
      <4>2. QED
        BY <4>1, CommandBits
    <3>2. bytes \in Seq(Byte)
      BY <2>3
    <3> HIDE DEF header, bytes
    <3> DEFINE x == PutBits(stream, header)
    <3>3. StreamOK(x) /\ Extends(x, stream)
      BY <2>3, <3>1, PutBitsOK
    <3> HIDE DEF x
    <3>4. StreamOK(stream') /\ Extends(stream', x)
      BY <1>1, <3>2, <3>3, PutBytesOK DEF x
    <3>5. QED
      BY <2>3, <3>3, <3>4, ExtendsOn
  <2> DEFINE q0 == LiteralsTo(e, c, num_literals)
  <2>6. PICK q : q = q0
    OBVIOUS
  <2>7. PICK f : f = stream'
    OBVIOUS
  <2>8. PICK e2 : e2 = [full |-> f, text |-> e.text, format |-> e.format,
                        points |-> e.points \cup {q}]
    OBVIOUS
  <2>9. /\ e2.full = f /\ e2.text = e.text /\ e2.format = e.format
        /\ e2.points = e.points \cup {q}
    BY <2>8
  <2>10. /\ q.s = stream' /\ q.n = i /\ q.state = 1 /\ q.last = rep_offset
    <3>1. c.n + 1 = i - num_literals + 1 /\ c.n + num_literals = i
      BY <2>2, <2>3
    <3>2. q.s = PutBytes(PutBits(Base(c), Code(num_literals, 0)), bytes)
      BY <2>1, <2>6, <3>1 DEF LiteralsTo, IsOf
    <3>3. q.n = i /\ q.state = 1 /\ q.last = rep_offset
      BY <2>2, <2>6, <3>1 DEF LiteralsTo
    <3>4. QED
      BY <1>1, <2>4, <3>2, <3>3
  <2>11. Goes(e2, c)
    <3>1. LiteralsTo(e2, c, num_literals) = q
      BY <2>6, <2>9 DEF LiteralsTo
    <3>2. c.state # 1 /\ num_literals \in 1 .. Len(e2.text) - c.n
      BY <2>1, <2>2, <2>3, <2>9 DEF IsOf
    <3>3. ByLiterals(e2, c, num_literals)
      BY <2>9, <3>1, <3>2 DEF ByLiterals
    <3>4. QED
      BY <3>3 DEF Goes
  <2>12. Here(e2, q)'
    <3> HIDE DEF header, bytes
    <3>1. /\ wpc' \in {"eod", "match"} /\ num_literals' # 0 /\ i' = i
          /\ rep_offset' = rep_offset
      BY <1>1, <1>4, <2>3
    <3>2. q.s = stream' /\ q.n = i' /\ q.state = 1 /\ q.last = rep_offset'
      BY <2>10, <3>1
    <3>3. QED
      BY <3>1, <3>2 DEF Here
  <2>13. q.n \in 0 .. Len(window) /\ q.state \in 0 .. 2
    BY <2>3, <2>10
  <2>14. e2.full = stream' /\ window' = window /\ dali' = dali
    BY <1>1, <2>7, <2>9
  <2> HIDE DEF q0, header, bytes
  <2>15. PointAdded(e, c, e2, q)
    BY <2>1, <2>9, <2>10, <2>11, <2>12, <2>13, <2>14 DEF PointAdded
  <2>16. QED
    BY <1>2, <2>5, <2>14, <2>15, PackPoint
<1>5. ExplainInv'
  <2>1. wpc' = "failed" => ~(Writing' \/ wpc' = "written")
    BY DEF Writing
  <2>2. QED
    BY <1>4, <2>1 DEF ExplainInv
<1>6. QED
  BY <1>2, <1>3, <1>5 DEF PackInv

LEMMA PackRepeat == PackInv /\ WriteRepeat => PackInv'
<1> SUFFICES ASSUME PackInv, WriteRepeat PROVE PackInv'
  OBVIOUS
<1> DEFINE bits == <<0>> \o kc_write_dali_length(match.length, FALSE)
<1>1. /\ wpc = "match" /\ match.offset = rep_offset /\ num_literals # 0
      /\ i' = i + match.length /\ num_literals' = 0 /\ rep_offset' = match.offset
      /\ UNCHANGED <<window, start, dali, first, match>>
      /\ stream' = PutBits(stream, bits)
      /\ wpc' \in {"failed", "loop"}
  BY DEF WriteRepeat, Emit, Advance, Repeats
<1>2. WriterInv'
  BY WriteRepeatStep DEF PackInv
<1>3. TextInv' /\ MatchInv'
  BY <1>1 DEF PackInv, TextInv, MatchInv
<1>4. ASSUME wpc' # "failed"
      PROVE  ExplainInv'
  <2>1. PICK e, c : IsOf(e) /\ TextOK(e) /\ Partial(e, c) /\ Here(e, c)
    BY <1>1 DEF PackInv, ExplainInv, Writing
  <2>2. c.s = stream /\ c.n = i /\ c.last = rep_offset /\ c.state = 1
    BY <1>1, <2>1 DEF Here
  <2>3. /\ i \in Nat /\ Len(window) \in Nat /\ StreamOK(stream) /\ ~first /\ match # NoneLeft
        /\ match.length \in Nat /\ i + match.length <= Len(window)
    BY <1>1 DEF PackInv, WriterInv, RunInv, DataInv, Positions
  <2>4. PutBits(stream, bits) = PutBits(PutBit(stream, 0), Code(match.length, 0))
    BY AsWritten
  <2>5. Extends(stream', stream)
    <3>1. bits \in Seq({0, 1})
      BY CommandBits
    <3> HIDE DEF bits
    <3>2. QED
      BY <1>1, <2>3, <3>1, PutBitsOK
  <2> DEFINE q0 == RepeatTo(e, c, match.length)
  <2>6. PICK q : q = q0
    OBVIOUS
  <2>7. PICK f : f = stream'
    OBVIOUS
  <2>8. PICK e2 : e2 = [full |-> f, text |-> e.text, format |-> e.format,
                        points |-> e.points \cup {q}]
    OBVIOUS
  <2>9. /\ e2.full = f /\ e2.text = e.text /\ e2.format = e.format
        /\ e2.points = e.points \cup {q}
    BY <2>8
  <2>10. q.s = stream' /\ q.n = i + match.length /\ q.state = 2 /\ q.last = rep_offset
    BY <1>1, <2>2, <2>4, <2>6 DEF RepeatTo
  <2>11. Goes(e2, c)
    <3>1. RepeatTo(e2, c, match.length) = q
      BY <2>6 DEF RepeatTo
    <3>2. Copies([text |-> window], [n |-> i], match.length, match.offset)
      BY <1>1, <2>3 DEF PackInv, MatchInv
    <3>3. Copies(e2, c, match.length, c.last)
      BY <1>1, <2>1, <2>2, <2>9, <3>2 DEF Copies, IsOf
    <3>4. ByRepeat(e2, c, match.length)
      BY <2>2, <2>9, <3>1, <3>3 DEF ByRepeat
    <3>5. QED
      BY <3>4 DEF Goes
  <2>12. Here(e2, q)'
    <3> HIDE DEF bits
    <3>1. /\ wpc' = "loop" /\ num_literals' = 0 /\ i' = i + match.length /\ ~first'
          /\ rep_offset' = rep_offset
      BY <1>1, <1>4, <2>3
    <3>2. q.s = stream' /\ q.n = i' - num_literals' /\ q.state = 2 /\ q.last = rep_offset'
      BY <2>3, <2>10, <3>1
    <3>3. QED
      BY <3>1, <3>2 DEF Here
  <2>13. q.n \in 0 .. Len(window) /\ q.state \in 0 .. 2
    BY <2>3, <2>10
  <2>14. e2.full = stream' /\ window' = window /\ dali' = dali
    BY <1>1, <2>7, <2>9
  <2> HIDE DEF q0, bits
  <2>15. PointAdded(e, c, e2, q)
    BY <2>1, <2>9, <2>10, <2>11, <2>12, <2>13, <2>14 DEF PointAdded
  <2>16. QED
    BY <1>2, <2>5, <2>14, <2>15, PackPoint
<1>5. ExplainInv'
  <2>1. wpc' = "failed" => ~(Writing' \/ wpc' = "written")
    BY DEF Writing
  <2>2. QED
    BY <1>4, <2>1 DEF ExplainInv
<1>6. QED
  BY <1>2, <1>3, <1>5 DEF PackInv

LEMMA MetadataAsWritten ==
  ASSUME NEW e, e.format = dali, NEW c, c.s = stream, NEW len, NEW o
  PROVE  PutBytes(OffsetHigh(stream, (o - 1) \div LowOffsets),
                  <<2 * ((o - 1) % LowOffsets) + (IF len = 2 THEN 1 ELSE 0)>>)
           = Metadata(e, c, len, o)
<1>1. OffsetHigh(stream, High(o)) = HighPart(c.s, High(o), e.format)
  BY HighAsWritten
<1>2. QED
  BY <1>1 DEF Metadata, High, Low

LEMMA MetadataOK ==
  ASSUME NEW e, NEW c, StreamOK(c.s), NEW len, NEW o \in MIN_OFFSET .. MAX_OFFSET
  PROVE  StreamOK(Metadata(e, c, len, o)) /\ Extends(Metadata(e, c, len, o), c.s)
<1> DEFINE h == HighPart(c.s, High(o), e.format)
           b == PutBit(c.s, 1)
           m == Metadata(e, c, len, o)
<1>1. High(o) \in Byte /\ 2 * Low(o) + Two(len) \in Byte
  <2>1. Two(len) \in {0, 1}
    BY DEF Two
  <2>2. QED
    BY <2>1, OffsetNumbers
<1>2. StreamOK(b) /\ StreamOK(h) /\ Extends(h, b)
  BY <1>1, HighPartOK
<1>3. Extends(b, c.s)
  BY ExtendsBit, PutBitOK
<1>4. m = PutBytes(h, <<2 * Low(o) + Two(len)>>)
  BY DEF Metadata, Two
<1> HIDE DEF b, h, m
<1>5. <<2 * Low(o) + Two(len)>> \in Seq(Byte)
  BY <1>1
<1>6. StreamOK(m) /\ Extends(m, h)
  BY <1>2, <1>4, <1>5, PutBytesOK
<1>7. Extends(m, b)
  BY <1>2, <1>6, ExtendsOn
<1>8. Extends(m, c.s)
  BY <1>2, <1>3, <1>6, <1>7, ExtendsOn
<1>9. QED
  BY <1>6, <1>8 DEF m

(* The match that was written leads from c to where the writer goes on. *)
LEMMA PackMatch ==
  ASSUME PackInv, WriterInv', NEW e, NEW c, IsOf(e), TextOK(e), Partial(e, c),
         wpc \in {"match", "length"}, Advance, stream' = OffsetTo(e, c, match.length, match.offset).s,
         c.n = i, c.state \in {1, 2}, match.length >= 2, ~first, match # NoneLeft,
         Extends(stream', stream), wpc' = "loop"
  PROVE  ExplainInv'
<1>1. /\ i' = i + match.length /\ num_literals' = 0 /\ rep_offset' = match.offset
      /\ UNCHANGED <<window, start, dali, first, match>>
  BY DEF Advance
<1>2. /\ i \in Nat /\ Len(window) \in Nat /\ match.length \in Nat
      /\ i + match.length <= Len(window)
  BY DEF PackInv, WriterInv, RunInv, Positions
<1> DEFINE q0 == OffsetTo(e, c, match.length, match.offset)
<1>3. PICK q : q = q0
  OBVIOUS
<1>4. PICK f : f = stream'
  OBVIOUS
<1>5. PICK e2 : e2 = [full |-> f, text |-> e.text, format |-> e.format,
                      points |-> e.points \cup {q}]
  OBVIOUS
<1>6. /\ e2.full = f /\ e2.text = e.text /\ e2.format = e.format
      /\ e2.points = e.points \cup {q}
  BY <1>5
<1>7. q.s = stream' /\ q.n = i + match.length /\ q.state = 2 /\ q.last = match.offset
  BY <1>3 DEF OffsetTo
<1>8. Goes(e2, c)
  <2>1. OffsetTo(e2, c, match.length, match.offset) = q
    BY <1>3, <1>6 DEF OffsetTo, Metadata
  <2>2. Copies([text |-> window], [n |-> i], match.length, match.offset)
    BY DEF PackInv, MatchInv
  <2>3. Copies(e2, c, match.length, match.offset)
    BY <1>6, <2>2 DEF Copies, IsOf
  <2>4. ByOffset(e2, c, match.length, match.offset)
    BY <1>6, <2>1, <2>3 DEF ByOffset
  <2>5. QED
    BY <2>4 DEF Goes
<1> HIDE DEF q0
<1>9. Here(e2, q)'
  <2>1. q.s = stream' /\ q.n = i' - num_literals' /\ q.state = 2 /\ q.last = rep_offset'
    BY <1>1, <1>2, <1>7
  <2>2. wpc' = "loop" /\ ~first'
    BY <1>1
  <2>3. QED
    BY <2>1, <2>2 DEF Here
<1>10. q.n \in 0 .. Len(window) /\ q.state \in 0 .. 2
  BY <1>2, <1>7
<1>11. e2.full = stream' /\ window' = window /\ dali' = dali
  BY <1>1, <1>4, <1>6
<1>12. PointAdded(e, c, e2, q)
  BY <1>6, <1>7, <1>8, <1>9, <1>10, <1>11 DEF PointAdded
<1>13. QED
  BY <1>11, <1>12, PackPoint

LEMMA PackOffset == PackInv /\ WriteOffset => PackInv'
<1> SUFFICES ASSUME PackInv, WriteOffset PROVE PackInv'
  OBVIOUS
<1> DEFINE high == (match.offset - 1) \div LowOffsets
           low == (match.offset - 1) % LowOffsets
           s == PutBytes(OffsetHigh(stream, high), <<2 * low + (IF match.length = 2 THEN 1 ELSE 0)>>)
           next == IF match.length > 2 THEN "length" ELSE "loop"
<1>1. /\ wpc = "match" /\ Emit(s, next) /\ ~Repeats(match)
      /\ IF match.length > 2
         THEN UNCHANGED <<window, start, dali, i, num_literals, first, rep_offset, match>>
         ELSE Advance
  BY DEF WriteOffset
<1> HIDE DEF s
<1>2. stream' = s /\ wpc' \in {"failed", next}
  BY <1>1 DEF Emit
<1>3. WriterInv'
  BY WriteOffsetStep DEF PackInv
<1>4. /\ match.length \in Nat /\ match.length >= 2 /\ ~first /\ match # NoneLeft
      /\ match.offset \in MIN_OFFSET .. MAX_OFFSET /\ StreamOK(stream)
  BY <1>1 DEF PackInv, MatchInv, WriterInv, RunInv, DataInv
<1>5. TextInv' /\ MatchInv'
  <2>1. CASE match.length > 2
    BY <1>1, <1>2, <2>1 DEF PackInv, TextInv, MatchInv, Repeats
  <2>2. CASE ~(match.length > 2)
    BY <1>1, <1>2, <2>2 DEF PackInv, TextInv, MatchInv, Advance
  <2>3. QED
    BY <2>1, <2>2
<1>6. ASSUME wpc' # "failed"
      PROVE  ExplainInv'
  <2>1. PICK e, c : IsOf(e) /\ TextOK(e) /\ Partial(e, c) /\ Here(e, c)
    BY <1>1 DEF PackInv, ExplainInv, Writing
  <2>2. c.s = stream /\ c.n = i /\ c.last = rep_offset /\ c.state \in {1, 2}
    BY <1>1, <2>1 DEF Here
  <2>3. stream' = Metadata(e, c, match.length, match.offset)
    <3>1. s = Metadata(e, c, match.length, match.offset)
      BY <2>1, <2>2, MetadataAsWritten DEF IsOf, s
    <3>2. QED
      BY <1>2, <3>1
  <2>4. StreamOK(stream') /\ Extends(stream', stream)
    BY <1>4, <2>2, <2>3, MetadataOK
  <2>5. CASE ~(match.length > 2)
    <3>1. match.length = 2
      BY <1>4, <2>5
    <3>2. stream' = OffsetTo(e, c, match.length, match.offset).s
      BY <2>3, <3>1 DEF OffsetTo
    <3>3. wpc' = "loop" /\ Advance
      BY <1>1, <1>2, <1>6, <2>5
    <3>4. QED
      BY <1>1, <1>3, <1>4, <2>1, <2>2, <2>4, <3>2, <3>3, PackMatch
  <2>6. CASE match.length > 2
    <3>1. /\ wpc' = "length"
          /\ UNCHANGED <<window, start, dali, i, num_literals, first, rep_offset, match>>
      BY <1>1, <1>2, <1>6, <2>6
    <3>2. PICK f : f = stream'
      OBVIOUS
    <3>3. PICK e2 : e2 = [full |-> f, text |-> e.text, format |-> e.format,
                          points |-> e.points \cup {c}]
      OBVIOUS
    <3>4. /\ e2.full = stream' /\ e2.text = e.text /\ e2.format = e.format
          /\ e2.points = e.points \cup {c}
      BY <3>2, <3>3
    <3>5. PointOK(e, c) /\ StreamOK(e.full)
      BY <2>1 DEF Partial, TextOK
    <3>6. PointOK(e2, c)
      BY <2>2, <2>4, <3>4, <3>5 DEF PointOK
    <3>7. Partial(e2, c)
      <4>1. StreamOK(e2.full) /\ Extends(e2.full, e.full)
        BY <2>1, <2>4, <3>4 DEF IsOf
      <4>2. QED
        BY <2>1, <3>4, <3>5, <3>6, <4>1, PartialGrows
    <3>8. IsOf(e2)' /\ TextOK(e2)
      BY <2>1, <2>4, <3>1, <3>4 DEF IsOf, TextOK
    <3>9. Metadata(e2, c, match.length, match.offset) = stream'
      BY <2>3, <3>4 DEF Metadata
    <3>10. Here(e2, c)'
      BY <2>2, <2>6, <3>1, <3>9 DEF Here
    <3>11. QED
      BY <3>7, <3>8, <3>10 DEF ExplainInv
  <2>7. QED
    BY <2>5, <2>6
<1>7. ExplainInv'
  <2>1. wpc' = "failed" => ~(Writing' \/ wpc' = "written")
    BY DEF Writing
  <2>2. QED
    BY <1>6, <2>1 DEF ExplainInv
<1>8. QED
  BY <1>3, <1>5, <1>7 DEF PackInv

LEMMA PackLength == PackInv /\ WriteLength => PackInv'
<1> SUFFICES ASSUME PackInv, WriteLength PROVE PackInv'
  OBVIOUS
<1> DEFINE bits == kc_write_dali_length(match.length - 1, TRUE)
<1>1. wpc = "length" /\ Advance /\ stream' = PutBits(stream, bits) /\ wpc' \in {"failed", "loop"}
  BY DEF WriteLength, Emit
<1>2. WriterInv'
  BY WriteLengthStep DEF PackInv
<1>3. TextInv' /\ MatchInv'
  BY <1>1 DEF PackInv, TextInv, MatchInv, Advance
<1>4. StreamOK(stream) /\ ~first /\ match # NoneLeft /\ match.length \in Nat
  BY <1>1 DEF PackInv, WriterInv, RunInv, DataInv
<1>5. ASSUME wpc' # "failed"
      PROVE  ExplainInv'
  <2>1. PICK e, c : IsOf(e) /\ TextOK(e) /\ Partial(e, c) /\ Here(e, c)
    BY <1>1 DEF PackInv, ExplainInv, Writing
  <2>2. /\ c.n = i /\ c.state \in {1, 2} /\ match.length > 2
        /\ stream = Metadata(e, c, match.length, match.offset)
    BY <1>1, <2>1 DEF Here
  <2>3. bits = Code(match.length - 1, 1)
    BY DEF Code
  <2>4. stream' = OffsetTo(e, c, match.length, match.offset).s
    <3> HIDE DEF bits
    <3>1. match.length # 2
      BY <1>4, <2>2
    <3>2. stream' = PutBits(Metadata(e, c, match.length, match.offset), Code(match.length - 1, 1))
      BY <1>1, <2>2, <2>3
    <3>3. QED
      BY <3>1, <3>2 DEF OffsetTo
  <2>5. Extends(stream', stream)
    BY <1>1, <1>4, <2>3, CodeOK
  <2>6. match.length >= 2
    BY <1>4, <2>2
  <2>7. wpc' = "loop"
    BY <1>1, <1>5
  <2> HIDE DEF bits
  <2>8. QED
    BY <1>1, <1>2, <1>4, <2>1, <2>2, <2>4, <2>5, <2>6, <2>7, PackMatch
<1>6. ExplainInv'
  <2>1. wpc' = "failed" => ~(Writing' \/ wpc' = "written")
    BY DEF Writing
  <2>2. QED
    BY <1>5, <2>1 DEF ExplainInv
<1>7. QED
  BY <1>2, <1>3, <1>6 DEF PackInv

LEMMA PackEod == PackInv /\ WriteEod => PackInv'
<1> SUFFICES ASSUME PackInv, WriteEod PROVE PackInv'
  OBVIOUS
<1> DEFINE bits == <<1>> \o kc_write_dali_length(EodHigh, FALSE)
           s == IF dali THEN PutBits(stream, bits) ELSE PutBytes(PutBits(stream, <<1, 0>>), <<0>>)
<1>1. /\ wpc = "eod" /\ stream' = s /\ wpc' \in {"failed", "written"}
      /\ UNCHANGED <<window, start, dali, i, num_literals, first, rep_offset, match>>
  BY DEF WriteEod, Emit
<1>2. WriterInv'
  BY WriteEodStep DEF PackInv
<1> HIDE DEF s
<1>3. TextInv' /\ MatchInv'
  BY <1>1 DEF PackInv, TextInv, MatchInv
<1>4. ASSUME wpc' # "failed"
      PROVE  ExplainInv'
  <2>1. PICK e, c : IsOf(e) /\ TextOK(e) /\ Partial(e, c) /\ Here(e, c)
    BY <1>1 DEF PackInv, ExplainInv, Writing
  <2>2. c.s = stream /\ c.n = i /\ c.state \in {1, 2} /\ i = Len(window)
    BY <1>1, <2>1 DEF Here, PackInv, WriterInv, RunInv
  <2>3. StreamOK(stream) /\ StreamOK(stream')
    BY <1>2 DEF PackInv, WriterInv, DataInv
  <2>4. PICK f : f = stream'
    OBVIOUS
  <2>5. PICK e2 : e2 = [full |-> f, text |-> e.text, format |-> e.format,
                        points |-> e.points \cup {c}]
    OBVIOUS
  <2>6. /\ e2.full = stream' /\ e2.text = e.text /\ e2.format = e.format
        /\ e2.points = e.points \cup {c}
    BY <2>4, <2>5
  <2>7. stream' = Eod(e2, c)
    <3>1. CASE dali
      <4>1. bits = <<1>> \o kc_write_dali_length(EodHigh, FALSE)
        OBVIOUS
      <4>2. PutBits(stream, <<1>> \o kc_write_dali_length(EodHigh, FALSE))
              = PutBits(PutBit(stream, 1), Code(EodHigh, 0))
        BY AsWritten
      <4>3. s = PutBits(stream, bits)
        BY <3>1 DEF s
      <4> HIDE DEF bits
      <4>4. e2.format /\ c.s = stream
        BY <2>1, <2>2, <2>6, <3>1 DEF IsOf
      <4>5. QED
        BY <1>1, <4>1, <4>2, <4>3, <4>4 DEF Eod
    <3>2. CASE ~dali
      <4>1. PutBits(stream, <<1, 0>>) = PutBit(PutBit(stream, 1), 0)
        BY TwoBits
      <4>2. s = PutBytes(PutBits(stream, <<1, 0>>), <<0>>)
        BY <3>2 DEF s
      <4>3. ~e2.format /\ c.s = stream
        BY <2>1, <2>2, <2>6, <3>2 DEF IsOf
      <4>4. QED
        BY <1>1, <4>1, <4>2, <4>3 DEF Eod
    <3>3. QED
      BY <3>1, <3>2
  <2>8. Extends(stream', stream)
    <3>1. CASE dali
      <4>1. bits \in Seq({0, 1}) /\ s = PutBits(stream, bits)
        BY <3>1, CommandBits DEF s
      <4> HIDE DEF bits
      <4>2. QED
        BY <1>1, <2>3, <4>1, PutBitsOK
    <3>2. CASE ~dali
      <4> DEFINE x == PutBits(stream, <<1, 0>>)
      <4>1. s = PutBytes(x, <<0>>)
        BY <3>2 DEF s
      <4>2. StreamOK(x) /\ Extends(x, stream)
        BY <2>3, CommandBits, PutBitsOK
      <4>3. <<0>> \in Seq(Byte)
        BY FormatAssumption DEF Byte
      <4> HIDE DEF x
      <4>4. Extends(s, x)
        BY <4>1, <4>2, <4>3, PutBytesOK
      <4>5. QED
        BY <1>1, <2>3, <4>2, <4>4, ExtendsOn
    <3>3. QED
      BY <3>1, <3>2
  <2>9. PointOK(e, c) /\ StreamOK(e.full)
    BY <2>1 DEF Partial, TextOK
  <2>10. PointOK(e2, c)
    BY <2>2, <2>8, <2>6, <2>9 DEF PointOK
  <2>11. Partial(e2, c)
    <3>1. StreamOK(e2.full) /\ Extends(e2.full, e.full)
      BY <2>1, <2>3, <2>8, <2>6 DEF IsOf
    <3>2. QED
      BY <2>1, <2>6, <2>9, <2>10, <3>1, PartialGrows
  <2>12. IsOf(e2)' /\ TextOK(e2)
    BY <1>1, <2>1, <2>3, <2>6 DEF IsOf, TextOK
  <2>13. Ends(e2, c)
    BY <2>1, <2>2, <2>6, <2>7 DEF Ends, IsOf
  <2>14. c.s.bit_shift % 2 = 0
    BY <1>1, <2>2 DEF PackInv, WriterInv, RunInv, ParityInv, Writing
  <2>15. ASSUME NEW r \in e2.points
         PROVE  Extends(c.s, r.s)
    <3>1. r \in e.points
      BY <2>1, <2>6 DEF Partial
    <3>2. QED
      BY <2>1, <2>2, <3>1 DEF Partial, PointOK, IsOf
  <2>16. Here(e2, c)'
    <3>1. wpc' = "written"
      BY <1>1, <1>4
    <3>2. AtTheEnd(e2, c)
      BY <2>13, <2>14, <2>15 DEF AtTheEnd
    <3>3. QED
      BY <3>1, <3>2 DEF Here
  <2>17. QED
    BY <2>11, <2>12, <2>16 DEF ExplainInv
<1>5. ExplainInv'
  <2>1. wpc' = "failed" => ~(Writing' \/ wpc' = "written")
    BY DEF Writing
  <2>2. QED
    BY <1>4, <2>1 DEF ExplainInv
<1>6. QED
  BY <1>2, <1>3, <1>5 DEF PackInv

LEMMA PackStep == PackInv /\ WriteStep => PackInv'
  BY PackCount, PackTake, PackEnd, PackLiterals, PackRepeat, PackOffset, PackLength, PackEod
     DEF WriteStep

(* What is handed to the reader has an explanation. *)
LEMMA WrittenExplained ==
  ASSUME PackInv, wpc = "written"
  PROVE  \E e, c : Explains(e) /\ IsOf(e) /\ c \in e.points /\ AtTheEnd(e, c)
<1>1. PICK e, c : IsOf(e) /\ TextOK(e) /\ Partial(e, c) /\ Here(e, c)
  BY DEF PackInv, ExplainInv
<1>2. AtTheEnd(e, c)
  BY <1>1 DEF Here
<1>3. Explains(e) /\ c \in e.points
  BY <1>1, <1>2 DEF Explains, Partial, AtTheEnd
<1>4. QED
  BY <1>1, <1>2, <1>3

-----------------------------------------------------------------------------
(***************************************************************************)
(* The decoder follows the explanation of the stream.  r is the last point *)
(* it passed; what it has put out is the text up to there.                 *)
(***************************************************************************)
Setting(e) ==
  /\ Explains(e) /\ e.text = original /\ e.format = dali_mode /\ PartOf(e.full)
  /\ damaged <=> Len(packed) < Len(e.full.data)
  /\ output_cap = BUFFER_SIZE

Reached(e, r) ==
  /\ r \in e.points /\ src_pos <= Len(packed)
  /\ dst = SubSeq(e.text, 1, r.n) /\ state = r.state /\ last_offset = r.last

(* Where it stands between two points. *)
AtCommand(e, r) == pc = "command" /\ r.state # 0 /\ AtStream(e.full, r.s)

Purpose(e, r, b, v, d) ==
  \/ use = "literals" /\ d = 0 /\ b = Base(r) /\ ByLiterals(e, r, v)
  \/ use = "rep" /\ d = 0 /\ b = PutBit(r.s, 0) /\ ByRepeat(e, r, v)
  \/ /\ use = "high" /\ d = 0 /\ b = PutBit(r.s, 1) /\ e.format
     /\ \/ v = EodHigh /\ Ends(e, r)
        \/ \E len, o : v = High(o) + 1 /\ ByOffset(e, r, len, o)
  \/ /\ use = "length" /\ d = 1 /\ v # 1 /\ v \in Nat
     /\ b = Metadata(e, r, v + 1, offset) /\ ByOffset(e, r, v + 1, offset)

AtNumber(e, r, b, v, d) == Purpose(e, r, b, v, d) /\ InNumber(e.full, b, v, d)

AtLiterals(e, r) ==
  /\ pc = "literals" /\ ByLiterals(e, r, value)
  /\ AtStream(e.full, PutBits(Base(r), Code(value, 0)))

AtCopy(e, r, q) ==
  /\ pc = "copy" /\ Copies(e, r, value, offset)
  /\ q \in e.points /\ q.n = r.n + value /\ q.state = 2 /\ q.last = offset
  /\ AtStream(e.full, q.s)

AtSelector(e, r) ==
  /\ pc = "selector" /\ ~e.format /\ AtStream(e.full, PutBit(r.s, 1))
  /\ Ends(e, r) \/ \E len, o : ByOffset(e, r, len, o)

AtHigh(e, r) ==
  /\ pc = "high" /\ ~e.format /\ AtStream(e.full, PutBit(PutBit(r.s, 1), 0))
  /\ Ends(e, r) \/ \E len, o : High(o) # 0 /\ ByOffset(e, r, len, o)

AtMetadata(e, r, len, o) ==
  /\ pc = "metadata" /\ ByOffset(e, r, len, o) /\ offset_high = High(o)
  /\ AtStream(e.full, HighPart(r.s, High(o), e.format))

InCommand(e, r) ==
  \/ AtCommand(e, r) \/ AtLiterals(e, r) \/ AtSelector(e, r) \/ AtHigh(e, r)
  \/ \E q : AtCopy(e, r, q)
  \/ \E b, v, d : AtNumber(e, r, b, v, d)
  \/ \E len, o : AtMetadata(e, r, len, o)

Verdict ==
  \/ pc = "ok" /\ ~damaged /\ dst = original
  \/ pc = "error" /\ damaged

Decoding(e) == Setting(e) /\ (Verdict \/ \E r : Reached(e, r) /\ InCommand(e, r))

LEMMA NumberPC ==
  ASSUME NEW full, NEW b, NEW v, NEW d, InNumber(full, b, v, d)
  PROVE  pc \in {"control", "payload"}
  BY DEF InNumber

LEMMA ByteRead ==
  ASSUME NEW s, StreamOK(s), NEW byte \in Byte, NEW full, StreamOK(full),
         Extends(full, PutBytes(s, <<byte>>)), PartOf(full), AtStream(full, s),
         src_pos <= Len(packed)
  PROVE  /\ Decoder!HasByte =>
              /\ Decoder!TheByte = byte
              /\ Decoder!TakeByte => /\ AtStream(full, PutBytes(s, <<byte>>))'
                                     /\ src_pos' <= Len(packed)
         /\ ~Decoder!HasByte => Len(packed) < Len(full.data)
<1> DEFINE bytes == <<byte>>
           t == PutBytes(s, bytes)
<1>1. bytes \in Seq(Byte) /\ Len(bytes) = 1 /\ bytes[1] = byte
  OBVIOUS
<1>2. Len(packed) \in Nat /\ Len(full.data) \in Nat
  BY DEF PartOf, StreamOK
<1> HIDE DEF bytes
<1>3. /\ src_pos + Len(bytes) <= Len(full.data) /\ src_pos \in Nat
      /\ src_pos + Len(bytes) <= Len(packed) =>
           \A k \in 1 .. Len(bytes) : packed[src_pos + k] = bytes[k]
      /\ src_pos' = src_pos + Len(bytes) /\ UNCHANGED <<bit_byte, bits_left>> => AtStream(full, t)'
  <2>1. Extends(full, PutBytes(s, bytes))
    BY DEF bytes
  <2>2. QED
    BY <1>1, <2>1, BytesRead
<1> HIDE DEF t
<1>4. Decoder!HasByte <=> src_pos < Len(packed)
  BY DEF Decoder!HasByte
<1>5. ~Decoder!HasByte => Len(packed) < Len(full.data)
  BY <1>1, <1>2, <1>3, <1>4
<1>6. Decoder!HasByte => Decoder!TheByte = byte
  BY <1>1, <1>2, <1>3, <1>4 DEF Decoder!TheByte
<1>7. Decoder!HasByte /\ Decoder!TakeByte => AtStream(full, t)' /\ src_pos' <= Len(packed)
  BY <1>1, <1>2, <1>3, <1>4 DEF Decoder!TakeByte
<1>8. QED
  BY <1>5, <1>6, <1>7 DEF t, bytes

(***************************************************************************)
(* A match that reaches its own output: every offset bytes the same again. *)
(***************************************************************************)
LEMMA ModuloBack ==
  ASSUME NEW a \in Nat, NEW o \in Nat \ {0}
  PROVE  (a < o => a % o = a) /\ (o <= a => a % o = (a - o) % o /\ a - o \in Nat)
<1>1. CASE a < o
  <2>1. a = 0 * o + a /\ a \in 0 .. o - 1
    BY <1>1
  <2>2. a % o = a
    BY <2>1, Quotient
  <2>3. QED
    BY <1>1, <2>2
<1>2. CASE o <= a
  <2> DEFINE d == (a - o) \div o
             m == (a - o) % o
  <2>1. a - o \in Nat
    BY <1>2
  <2>2. d \in Nat /\ m \in 0 .. o - 1 /\ a - o = d * o + m
    BY <2>1, DivBounds
  <2> HIDE DEF d, m
  <2>3. d + 1 \in Nat /\ (d + 1) * o = d * o + o /\ d * o \in Int
    BY <2>2
  <2>4. a = (d + 1) * o + m
    BY <2>2, <2>3
  <2>5. a % o = m
    BY <2>2, <2>3, <2>4, Quotient
  <2>6. QED
    BY <1>2, <2>1, <2>5 DEF m
<1>3. QED
  BY <1>1, <1>2

Again(out, o, len) == [k \in 1 .. len |-> out[Len(out) - o + 1 + ((k - 1) % o)]]

LEMMA CopyIsText ==
  ASSUME NEW e, e.text \in Seq(Byte), NEW r, r.n \in 0 .. Len(e.text),
         NEW len, NEW o, Copies(e, r, len, o), NEW out, out = SubSeq(e.text, 1, r.n)
  PROVE  /\ Len(out) = r.n
         /\ out \o Again(out, o, len) = SubSeq(e.text, 1, r.n + len)
<1> DEFINE text == e.text
           n == r.n
           f == [k \in 1 .. len |-> out[Len(out) - o + 1 + ((k - 1) % o)]]
<1>1. /\ text \in Seq(Byte) /\ Len(text) \in Nat /\ n \in 0 .. Len(text) /\ n \in Nat
      /\ len \in 1 .. Len(text) - n /\ len \in Nat /\ o \in Nat \ {0} /\ o <= n
      /\ \A k \in 1 .. len : text[n + k] = text[n + k - o]
  <2>1. MIN_OFFSET = 1 /\ o \in MIN_OFFSET .. MAX_OFFSET
    BY DEF MIN_OFFSET, Copies
  <2>2. o \in Nat \ {0}
    <3>1. MAX_OFFSET \in Int
      BY FormatAssumption DEF MAX_OFFSET, LowOffsets
    <3>2. QED
      BY <2>1, <3>1
  <2>3. QED
    BY <2>2 DEF Copies
<1>2. out = SubSeq(text, 1, n)
  OBVIOUS
<1> HIDE DEF text, n
<1>3. Len(out) = n /\ \A k \in 1 .. n : out[k] = text[k]
  BY <1>1, <1>2
<1> DEFINE S == {m \in Nat : \A k \in 1 .. m : k <= len =>
                              out[n - o + 1 + ((k - 1) % o)] = text[n + k]}
<1>4. 0 \in S
  OBVIOUS
<1>5. \A m \in 0 .. len - 1 : m \in S => m + 1 \in S
  <2> SUFFICES ASSUME NEW m \in 0 .. len - 1, m \in S
               PROVE  m + 1 \in S
    OBVIOUS
  <2>1. m \in Nat /\ m + 1 \in 1 .. len
    BY <1>1
  <2>2. out[n - o + 1 + (m % o)] = text[n + (m + 1)]
    <3>1. text[n + (m + 1)] = text[n + (m + 1) - o]
      BY <1>1, <2>1
    <3>2. CASE m < o
      <4>1. m % o = m
        BY <1>1, <2>1, <3>2, ModuloBack
      <4>2. n - o + 1 + m \in 1 .. n /\ n - o + 1 + m = n + (m + 1) - o
        BY <1>1, <2>1, <3>2
      <4>3. QED
        BY <1>3, <3>1, <4>1, <4>2
    <3>3. CASE o <= m
      <4>1. m % o = (m - o) % o /\ m - o \in Nat
        BY <1>1, <2>1, <3>3, ModuloBack
      <4> DEFINE k == m - o + 1
      <4>2. k \in 1 .. m /\ k <= len /\ k - 1 = m - o /\ n + k = n + (m + 1) - o
        BY <1>1, <2>1, <4>1
      <4> HIDE DEF k
      <4>3. out[n - o + 1 + ((k - 1) % o)] = text[n + k]
        BY <4>2
      <4>4. QED
        BY <3>1, <4>1, <4>2, <4>3
    <3>4. m < o \/ o <= m
      BY <1>1, <2>1
    <3>5. QED
      BY <3>2, <3>3, <3>4
  <2>3. ASSUME NEW k \in 1 .. m + 1, k <= len
        PROVE  out[n - o + 1 + ((k - 1) % o)] = text[n + k]
    <3>1. CASE k = m + 1
      <4>1. k - 1 = m
        BY <2>1, <3>1
      <4>2. QED
        BY <2>2, <3>1, <4>1
    <3>2. CASE k # m + 1
      <4>1. k \in 1 .. m
        BY <2>1, <3>2
      <4>2. QED
        BY <2>3, <4>1
    <3>3. QED
      BY <3>1, <3>2
  <2>4. m + 1 \in Nat
    BY <2>1
  <2>5. QED
    BY <2>3, <2>4
<1>6. \A k \in 1 .. len : out[n - o + 1 + ((k - 1) % o)] = text[n + k]
  <2> HIDE DEF S
  <2>1. \A m \in 0 .. len : m \in S
    BY <1>1, <1>4, <1>5, SetInduction
  <2>2. len \in S
    BY <1>1, <2>1
  <2>3. \A k \in 1 .. len : k <= len
    BY <1>1
  <2>4. QED
    BY <2>2, <2>3, Zenon DEF S
<1>7. \A k \in 1 .. len : f[k] = text[n + k]
  BY <1>3, <1>6
<1>8. f \in Seq(Byte) /\ Len(f) = len
  <2>1. \A k \in 1 .. len : text[n + k] \in Byte
    BY <1>1
  <2>2. f = [k \in 1 .. len |-> text[n + k]]
    BY <1>3, <1>6
  <2> HIDE DEF f
  <2>3. QED
    BY <1>1, <2>1, <2>2
<1> HIDE DEF f
<1>9. out \in Seq(Byte)
  BY <1>1, <1>2
<1>10. out \o f = SubSeq(text, 1, n + len)
  <2>1. Len(out \o f) = n + len /\ out \o f \in Seq(Byte)
    BY <1>3, <1>8, <1>9
  <2>2. n + len \in 0 .. Len(text)
    BY <1>1
  <2>3. SubSeq(text, 1, n + len) \in Seq(Byte) /\ Len(SubSeq(text, 1, n + len)) = n + len
        /\ \A k \in 1 .. n + len : SubSeq(text, 1, n + len)[k] = text[k]
    BY <1>1, <2>2
  <2>4. ASSUME NEW k \in 1 .. n + len
        PROVE  (out \o f)[k] = text[k]
    <3>1. /\ Len(out) = n /\ Len(f) = len /\ k \in Nat /\ n \in Nat /\ len \in Nat
          /\ \A j \in 1 .. Len(out) : (out \o f)[j] = out[j]
          /\ \A j \in 1 .. Len(f) : (out \o f)[Len(out) + j] = f[j]
      <4>1. out \in Seq(Byte) /\ f \in Seq(Byte)
        BY <1>8, <1>9
      <4>2. /\ \A j \in 1 .. Len(out) : (out \o f)[j] = out[j]
            /\ \A j \in 1 .. Len(f) : (out \o f)[Len(out) + j] = f[j]
        BY <4>1, Joined, SMTT(30)
      <4>3. Len(out) = n /\ Len(f) = len /\ n \in Nat /\ len \in Nat
        BY <1>1, <1>3, <1>8
      <4>4. k \in Nat
        BY <4>3
      <4>5. QED
        BY <4>2, <4>3, <4>4
    <3>2. CASE k <= n
      <4>1. k \in 1 .. n
        BY <3>1, <3>2
      <4>2. QED
        BY <1>3, <3>1, <4>1
    <3>3. CASE ~(k <= n)
      <4>1. k - n \in 1 .. len /\ n + (k - n) = k
        BY <3>1, <3>3
      <4>2. (out \o f)[k] = f[k - n]
        BY <3>1, <4>1
      <4>3. QED
        BY <1>7, <4>1, <4>2
    <3>4. QED
      BY <3>2, <3>3
  <2> HIDE DEF text
  <2>5. QED
    BY <2>1, <2>3, <2>4
<1>11. QED
  BY <1>3, <1>10 DEF f, text, n, Again

(***************************************************************************)
(* What comes next in the stream at each of these places.                  *)
(***************************************************************************)
ToOffset(e, r) == Ends(e, r) \/ \E len, o : ByOffset(e, r, len, o)

LEMMA NextBitOfCommand ==
  ASSUME NEW e, Explains(e), NEW r \in e.points, r.state # 0
  PROVE  /\ StreamOK(r.s)
         /\ \E bit \in {0, 1} :
              /\ Extends(e.full, PutBit(r.s, bit))
              /\ bit = 0 /\ r.state = 1 => \E len : ByRepeat(e, r, len)
              /\ bit = 0 /\ r.state # 1 => \E len : ByLiterals(e, r, len)
              /\ bit = 1 => ToOffset(e, r)
<1>1. PointOK(e, r) /\ (Goes(e, r) \/ Ends(e, r))
  BY DEF Explains
<1>2. StreamOK(r.s)
  BY <1>1 DEF PointOK
<1>3. CASE \E len : ByLiterals(e, r, len)
  <2>1. PICK len : ByLiterals(e, r, len)
    BY <1>3
  <2>2. Extends(e.full, Base(r)) /\ r.state # 1
    BY <2>1, LiteralsFacts DEF ByLiterals
  <2>3. Base(r) = PutBit(r.s, 0)
    BY DEF Base
  <2>4. QED
    BY <1>2, <1>3, <2>2, <2>3
<1>4. CASE \E len : ByRepeat(e, r, len)
  <2>1. PICK len : ByRepeat(e, r, len)
    BY <1>4
  <2>2. Extends(e.full, PutBit(r.s, 0)) /\ r.state = 1
    BY <2>1, RepeatFacts DEF ByRepeat
  <2>3. QED
    BY <1>2, <1>4, <2>2
<1>5. CASE \E len, o : ByOffset(e, r, len, o)
  <2>1. PICK len, o : ByOffset(e, r, len, o)
    BY <1>5
  <2>2. Extends(e.full, PutBit(r.s, 1))
    BY <2>1, OffsetFacts
  <2>3. QED
    BY <1>2, <1>5, <2>2 DEF ToOffset
<1>6. CASE Ends(e, r)
  <2>1. Extends(e.full, PutBit(r.s, 1))
    BY <1>6, EodFacts
  <2>2. QED
    BY <1>2, <1>6, <2>1 DEF ToOffset
<1>7. QED
  BY <1>1, <1>3, <1>4, <1>5, <1>6 DEF Goes

LEMMA NextBitOfOffset ==
  ASSUME NEW e, Explains(e), NEW r \in e.points, ToOffset(e, r)
  PROVE  /\ StreamOK(PutBit(r.s, 1)) /\ Extends(e.full, PutBit(r.s, 1))
         /\ ~e.format => \E bit \in {0, 1} :
              /\ Extends(e.full, PutBit(PutBit(r.s, 1), bit))
              /\ bit = 1 => \E len, o : High(o) = 0 /\ ByOffset(e, r, len, o)
              /\ bit = 0 => \/ Ends(e, r)
                            \/ \E len, o : High(o) # 0 /\ ByOffset(e, r, len, o)
<1>1. CASE Ends(e, r)
  <2>1. /\ StreamOK(PutBit(r.s, 1)) /\ Extends(e.full, PutBit(r.s, 1))
        /\ ~e.format => Extends(e.full, PutBit(PutBit(r.s, 1), 0))
    BY <1>1, EodFacts
  <2>2. QED
    BY <1>1, <2>1
<1>2. CASE \E len, o : ByOffset(e, r, len, o)
  <2>1. PICK len, o : ByOffset(e, r, len, o)
    BY <1>2
  <2> DEFINE b == PutBit(r.s, 1)
             h == HighPart(r.s, High(o), e.format)
  <2>2. /\ StreamOK(b) /\ Extends(e.full, b) /\ Extends(e.full, h)
        /\ ~e.format /\ High(o) # 0 => Extends(e.full, PutBit(b, 0))
    BY <2>1, OffsetFacts
  <2>3. ~e.format /\ High(o) = 0 => h = PutBit(b, 1)
    BY DEF HighPart
  <2> HIDE DEF b, h
  <2>4. CASE e.format
    BY <2>2, <2>4 DEF b
  <2>5. CASE ~e.format /\ High(o) = 0
    <3>1. Extends(e.full, PutBit(b, 1))
      BY <2>2, <2>3, <2>5
    <3>2. QED
      BY <2>1, <2>2, <2>5, <3>1 DEF b
  <2>6. CASE ~e.format /\ High(o) # 0
    <3>1. Extends(e.full, PutBit(b, 0))
      BY <2>2, <2>6
    <3>2. QED
      BY <2>1, <2>2, <2>6, <3>1 DEF b
  <2>7. QED
    BY <2>4, <2>5, <2>6
<1>3. QED
  BY <1>1, <1>2 DEF ToOffset

LEMMA NextByteOfHigh ==
  ASSUME NEW e, Explains(e), NEW r \in e.points, ~e.format,
         Ends(e, r) \/ \E len, o : High(o) # 0 /\ ByOffset(e, r, len, o)
  PROVE  LET c == PutBit(PutBit(r.s, 1), 0)
         IN  /\ StreamOK(c)
             /\ \E byte \in Byte :
                  /\ Extends(e.full, PutBytes(c, <<byte>>))
                  /\ byte = 0 => r.n = Len(e.text) /\ e.full = PutBytes(c, <<byte>>)
                  /\ byte # 0 => \E len, o :
                       /\ byte = High(o) /\ ByOffset(e, r, len, o)
                       /\ PutBytes(c, <<byte>>) = HighPart(r.s, High(o), e.format)
<1> DEFINE c == PutBit(PutBit(r.s, 1), 0)
<1>1. CASE Ends(e, r)
  <2>1. StreamOK(c) /\ e.full = PutBytes(c, <<0>>)
    BY <1>1, EodFacts
  <2>2. r.n = Len(e.text)
    BY <1>1 DEF Ends
  <2>3. Extends(e.full, e.full)
    BY ExtendsItself DEF Explains, TextOK
  <2>4. 0 \in Byte
    BY FormatAssumption DEF Byte
  <2> HIDE DEF c
  <2>5. \E byte \in Byte :
          /\ Extends(e.full, PutBytes(c, <<byte>>))
          /\ byte = 0 => r.n = Len(e.text) /\ e.full = PutBytes(c, <<byte>>)
          /\ byte # 0 => \E len, o :
               /\ byte = High(o) /\ ByOffset(e, r, len, o)
               /\ PutBytes(c, <<byte>>) = HighPart(r.s, High(o), e.format)
    <3>1. Extends(e.full, PutBytes(c, <<0>>))
      BY <2>1, <2>3
    <3>2. WITNESS 0 \in Byte
    <3>3. QED
      BY <2>1, <2>2, <3>1
  <2>6. QED
    BY <2>1, <2>5 DEF c
<1>2. CASE \E len, o : High(o) # 0 /\ ByOffset(e, r, len, o)
  <2>1. PICK len, o : High(o) # 0 /\ ByOffset(e, r, len, o)
    BY <1>2
  <2> DEFINE h == HighPart(r.s, High(o), e.format)
  <2>2. /\ Extends(e.full, h) /\ o \in MIN_OFFSET .. MAX_OFFSET /\ StreamOK(c)
    BY <2>1, OffsetFacts
  <2>3. High(o) \in Byte
    BY <2>2, OffsetNumbers
  <2>4. h = PutBytes(c, <<High(o)>>)
    BY <2>1 DEF HighPart
  <2> HIDE DEF h, c
  <2>5. \E byte \in Byte :
          /\ Extends(e.full, PutBytes(c, <<byte>>))
          /\ byte = 0 => r.n = Len(e.text) /\ e.full = PutBytes(c, <<byte>>)
          /\ byte # 0 => \E l, a :
               /\ byte = High(a) /\ ByOffset(e, r, l, a)
               /\ PutBytes(c, <<byte>>) = HighPart(r.s, High(a), e.format)
    <3>1. Extends(e.full, PutBytes(c, <<High(o)>>))
      BY <2>2, <2>4
    <3>2. WITNESS High(o) \in Byte
    <3>3. PutBytes(c, <<High(o)>>) = HighPart(r.s, High(o), e.format)
      BY <2>4 DEF h
    <3>4. QED
      BY <2>1, <3>1, <3>3
  <2>6. QED
    BY <2>2, <2>5 DEF c
<1>3. QED
  BY <1>1, <1>2

LEMMA PurposeCoded ==
  ASSUME NEW e, Setting(e), NEW r \in e.points, src_pos <= Len(packed),
         NEW b, NEW v, NEW d, Purpose(e, r, b, v, d)
  PROVE  Coded(e.full, b, v, d)
<1>1. Explains(e) /\ PartOf(e.full) /\ StreamOK(e.full)
  BY DEF Setting, Explains, TextOK
<1>2. SUFFICES v \in Encodable /\ d \in {0, 1} /\ StreamOK(b)
               /\ Extends(e.full, PutBits(b, Code(v, d)))
  BY <1>1 DEF Coded
<1>3. CASE use = "literals" /\ d = 0 /\ b = Base(r) /\ ByLiterals(e, r, v)
  BY <1>1, <1>3, LiteralsFacts
<1>4. CASE use = "rep" /\ d = 0 /\ b = PutBit(r.s, 0) /\ ByRepeat(e, r, v)
  BY <1>1, <1>4, RepeatFacts
<1>5. CASE d = 0 /\ b = PutBit(r.s, 1) /\ e.format /\ v = EodHigh /\ Ends(e, r)
  <2>1. StreamOK(b) /\ e.full = PutBits(b, Code(v, d))
    BY <1>1, <1>5, EodFacts
  <2>2. Extends(e.full, e.full)
    BY <1>1, ExtendsItself
  <2>3. v \in Encodable
    BY <1>5, LengthRange
  <2>4. QED
    BY <1>5, <2>1, <2>2, <2>3
<1>6. CASE /\ d = 0 /\ b = PutBit(r.s, 1) /\ e.format
           /\ \E len, o : v = High(o) + 1 /\ ByOffset(e, r, len, o)
  <2>1. PICK len, o : v = High(o) + 1 /\ ByOffset(e, r, len, o)
    BY <1>6
  <2>2. /\ StreamOK(b) /\ o \in MIN_OFFSET .. MAX_OFFSET
        /\ Extends(e.full, HighPart(r.s, High(o), e.format))
    BY <1>1, <1>6, <2>1, OffsetFacts
  <2>3. HighPart(r.s, High(o), e.format) = PutBits(b, Code(v, d))
    BY <1>6, <2>1 DEF HighPart
  <2>4. v \in Encodable
    BY <2>1, <2>2, OffsetNumbers
  <2>5. QED
    BY <1>6, <2>2, <2>3, <2>4
<1>7. CASE /\ d = 1 /\ v # 1 /\ v \in Nat
           /\ b = Metadata(e, r, v + 1, offset) /\ ByOffset(e, r, v + 1, offset)
  <2> DEFINE len == v + 1
             q == OffsetTo(e, r, len, offset)
  <2>1. v = len - 1 /\ len # 2
    BY <1>7
  <2>2. ByOffset(e, r, len, offset) /\ b = Metadata(e, r, len, offset)
    BY <1>7
  <2> HIDE DEF len
  <2> DEFINE m == Metadata(e, r, len, offset)
  <2>3. /\ StreamOK(m) /\ Extends(e.full, q.s)
        /\ len # 2 => q.s = PutBits(m, Code(len - 1, 1)) /\ len - 1 \in Encodable
    <3>1. Explains(e)
      BY <1>1
    <3>2. QED
      BY <2>2, <3>1, OffsetFacts
  <2> HIDE DEF m
  <2>4. /\ StreamOK(m) /\ Extends(e.full, q.s) /\ len - 1 \in Encodable
        /\ q.s = PutBits(m, Code(len - 1, 1)) /\ b = m
    BY <2>1, <2>2, <2>3 DEF m
  <2> HIDE DEF q
  <2>5. /\ StreamOK(b) /\ Extends(e.full, q.s) /\ q.s = PutBits(b, Code(len - 1, 1))
        /\ len - 1 \in Encodable
    BY <2>2, <2>4
  <2>6. QED
    BY <1>7, <2>1, <2>5
<1>8. QED
  BY <1>3, <1>4, <1>5, <1>6, <1>7 DEF Purpose

(***************************************************************************)
(* The steps of the decoder, one by one.                                   *)
(***************************************************************************)
Grows == dst' = dst \/ \E n \in Len(dst) + 1 .. Len(original) : dst' = SubSeq(original, 1, n)

Follows(e) == (Verdict' \/ \E r : (Reached(e, r) /\ InCommand(e, r))') /\ Grows

LEMMA Stays ==
  ASSUME NEW e, NEW r, Reached(e, r), UNCHANGED <<packed, dst, state, last_offset>>,
         src_pos' <= Len(packed), InCommand(e, r)'
  PROVE  Follows(e)
  BY DEF Reached, Follows, Grows

LEMMA Fails ==
  ASSUME NEW e, Setting(e), Len(packed) < Len(e.full.data), UNCHANGED damaged, Decoder!Fail
  PROVE  Follows(e)
<1>1. pc' = "error" /\ damaged' /\ dst' = dst
  BY DEF Decoder!Fail, Decoder!Stop, Setting
<1>2. QED
  BY <1>1 DEF Follows, Verdict, Grows

LEMMA SettingHas ==
  ASSUME NEW e, Setting(e)
  PROVE  /\ Explains(e) /\ PartOf(e.full) /\ StreamOK(e.full) /\ e.text = original
         /\ e.format = dali_mode /\ e.text \in Seq(Byte)
         /\ Len(e.text) \in 1 .. MAX_VARLEN /\ Len(packed) \in Nat /\ Len(e.full.data) \in Nat
         /\ \A r \in e.points : PointOK(e, r)
  BY DEF Setting, Explains, TextOK, PartOf, StreamOK

LEMMA DecodeCommand ==
  ASSUME NEW e, NEW r, Setting(e), Reached(e, r), AtCommand(e, r), Decoder!ReadCommand
  PROVE  Follows(e)
<1>1. /\ r \in e.points /\ src_pos <= Len(packed) /\ state = r.state /\ r.state # 0
      /\ AtStream(e.full, r.s)
  BY DEF Reached, AtCommand
<1>2. /\ Decoder!HasBit /\ Decoder!TakeBit
      /\ IF Decoder!TheBit = 0
         THEN /\ pc' = "control" /\ value' = 1 /\ marker' = 1
              /\ use' = IF state = 1 THEN "rep" ELSE "literals"
         ELSE IF dali_mode
         THEN pc' = "control" /\ value' = 1 /\ marker' = 1 /\ use' = "high"
         ELSE pc' = "selector"
      /\ UNCHANGED <<packed, dst, state, last_offset>>
  BY DEF Decoder!ReadCommand, Decoder!StartLength, Decoder!arguments
<1>3. PICK bit \in {0, 1} :
        /\ StreamOK(r.s) /\ Extends(e.full, PutBit(r.s, bit))
        /\ bit = 0 /\ r.state = 1 => \E len : ByRepeat(e, r, len)
        /\ bit = 0 /\ r.state # 1 => \E len : ByLiterals(e, r, len)
        /\ bit = 1 => ToOffset(e, r)
  BY <1>1, SettingHas, NextBitOfCommand
<1>4. Decoder!TheBit = bit /\ AtStream(e.full, PutBit(r.s, bit))' /\ src_pos' <= Len(packed)
  BY <1>1, <1>2, <1>3, SettingHas, BitRead
<1>5. SUFFICES InCommand(e, r)'
  BY <1>2, <1>4, Stays
<1>6. ASSUME NEW b, NEW v, v \in Encodable, AtStream(e.full, b)',
             pc' = "control", value' = 1, marker' = 1
      PROVE  InNumber(e.full, b, v, 0)'
  BY <1>6, NumberStart
<1>7. CASE bit = 0 /\ r.state = 1
  <2>1. PICK len : ByRepeat(e, r, len)
    BY <1>3, <1>7
  <2>2. len \in Encodable
    BY <1>1, <2>1, SettingHas, RepeatFacts
  <2>3. pc' = "control" /\ value' = 1 /\ marker' = 1 /\ use' = "rep"
    BY <1>1, <1>2, <1>4, <1>7
  <2>4. InNumber(e.full, PutBit(r.s, 0), len, 0)'
    BY <1>4, <1>6, <1>7, <2>2, <2>3
  <2>5. Purpose(e, r, PutBit(r.s, 0), len, 0)'
    BY <2>1, <2>3 DEF Purpose
  <2>6. QED
    BY <2>4, <2>5 DEF InCommand, AtNumber
<1>8. CASE bit = 0 /\ r.state # 1
  <2>1. PICK len : ByLiterals(e, r, len)
    BY <1>3, <1>8
  <2>2. len \in Encodable
    BY <1>1, <2>1, SettingHas, LiteralsFacts
  <2>3. pc' = "control" /\ value' = 1 /\ marker' = 1 /\ use' = "literals"
    BY <1>1, <1>2, <1>4, <1>8
  <2>4. Base(r) = PutBit(r.s, 0)
    BY <1>1 DEF Base
  <2>5. InNumber(e.full, Base(r), len, 0)'
    BY <1>4, <1>6, <1>8, <2>2, <2>3, <2>4
  <2>6. Purpose(e, r, Base(r), len, 0)'
    BY <2>1, <2>3 DEF Purpose
  <2>7. QED
    BY <2>5, <2>6 DEF InCommand, AtNumber
<1>9. CASE bit = 1 /\ e.format
  <2>1. pc' = "control" /\ value' = 1 /\ marker' = 1 /\ use' = "high"
    BY <1>2, <1>4, <1>9, SettingHas
  <2>2. CASE Ends(e, r)
    <3>1. InNumber(e.full, PutBit(r.s, 1), EodHigh, 0)'
      BY <1>4, <1>6, <1>9, <2>1, LengthRange
    <3>2. Purpose(e, r, PutBit(r.s, 1), EodHigh, 0)'
      BY <1>9, <2>1, <2>2 DEF Purpose
    <3>3. QED
      BY <3>1, <3>2 DEF InCommand, AtNumber
  <2>3. CASE \E len, o : ByOffset(e, r, len, o)
    <3>1. PICK len, o : ByOffset(e, r, len, o)
      BY <2>3
    <3>2. o \in MIN_OFFSET .. MAX_OFFSET
      BY <1>1, <3>1, SettingHas, OffsetFacts
    <3>3. High(o) + 1 \in Encodable
      BY <3>2, OffsetNumbers
    <3>4. InNumber(e.full, PutBit(r.s, 1), High(o) + 1, 0)'
      BY <1>4, <1>6, <1>9, <2>1, <3>3
    <3>5. Purpose(e, r, PutBit(r.s, 1), High(o) + 1, 0)'
      BY <1>9, <2>1, <3>1 DEF Purpose
    <3>6. QED
      BY <3>4, <3>5 DEF InCommand, AtNumber
  <2>4. QED
    BY <1>3, <1>9, <2>2, <2>3 DEF ToOffset
<1>10. CASE bit = 1 /\ ~e.format
  <2>1. pc' = "selector"
    BY <1>2, <1>4, <1>10, SettingHas
  <2>2. AtSelector(e, r)'
    BY <1>3, <1>4, <1>10, <2>1 DEF AtSelector, ToOffset
  <2>3. QED
    BY <2>2 DEF InCommand
<1>11. QED
  BY <1>7, <1>8, <1>9, <1>10

LEMMA DecodeSelector ==
  ASSUME NEW e, NEW r, Setting(e), Reached(e, r), AtSelector(e, r), Decoder!ReadSelector
  PROVE  Follows(e)
<1> DEFINE b == PutBit(r.s, 1)
<1>1. /\ r \in e.points /\ src_pos <= Len(packed) /\ AtStream(e.full, b) /\ ~e.format
      /\ ToOffset(e, r)
  BY DEF Reached, AtSelector, ToOffset
<1>2. /\ Decoder!HasBit /\ Decoder!TakeBit
      /\ IF Decoder!TheBit = 1 THEN pc' = "metadata" /\ offset_high' = 0 ELSE pc' = "high"
      /\ UNCHANGED <<packed, dst, state, last_offset>>
  BY DEF Decoder!ReadSelector, Decoder!arguments
<1>3. PICK bit \in {0, 1} :
        /\ StreamOK(b) /\ Extends(e.full, PutBit(b, bit))
        /\ bit = 1 => \E len, o : High(o) = 0 /\ ByOffset(e, r, len, o)
        /\ bit = 0 => Ends(e, r) \/ \E len, o : High(o) # 0 /\ ByOffset(e, r, len, o)
  BY <1>1, SettingHas, NextBitOfOffset
<1> HIDE DEF b
<1>4. Decoder!TheBit = bit /\ AtStream(e.full, PutBit(b, bit))' /\ src_pos' <= Len(packed)
  BY <1>1, <1>2, <1>3, SettingHas, BitRead
<1>5. SUFFICES InCommand(e, r)'
  BY <1>2, <1>4, Stays
<1>6. CASE bit = 1
  <2>1. PICK len, o : High(o) = 0 /\ ByOffset(e, r, len, o)
    BY <1>3, <1>6
  <2>2. HighPart(r.s, High(o), e.format) = PutBit(b, 1)
    BY <1>1, <2>1 DEF HighPart, b
  <2>3. pc' = "metadata" /\ offset_high' = High(o)
    BY <1>2, <1>4, <1>6, <2>1
  <2>4. AtMetadata(e, r, len, o)'
    BY <1>4, <1>6, <2>1, <2>2, <2>3 DEF AtMetadata
  <2>5. QED
    BY <2>4 DEF InCommand
<1>7. CASE bit = 0
  <2>1. AtHigh(e, r)'
    BY <1>1, <1>2, <1>3, <1>4, <1>7 DEF AtHigh, b
  <2>2. QED
    BY <2>1 DEF InCommand
<1>8. QED
  BY <1>6, <1>7

(* What is read to its very end was whole, and so is what came out. *)
LEMMA ReadToTheEnd ==
  ASSUME NEW e, NEW r, Setting(e), Reached(e, r), r.n = Len(e.text), AtStream(e.full, e.full)',
         src_pos' <= Len(packed), UNCHANGED <<damaged, original, dst>>, pc' = "ok"
  PROVE  Follows(e)
<1>1. src_pos' = Len(e.full.data)
  BY DEF AtStream
<1>2. ~damaged
  BY <1>1, SettingHas DEF Setting
<1>3. dst = original
  <2>1. dst = SubSeq(e.text, 1, Len(e.text)) /\ e.text \in Seq(Byte) /\ e.text = original
    BY SettingHas DEF Reached
  <2>2. QED
    BY <2>1
<1>4. QED
  BY <1>2, <1>3 DEF Follows, Verdict, Grows

LEMMA DecodeHigh ==
  ASSUME NEW e, NEW r, Setting(e), Reached(e, r), AtHigh(e, r), Decoder!ReadHigh,
         UNCHANGED <<damaged, original>>
  PROVE  Follows(e)
<1> DEFINE c == PutBit(PutBit(r.s, 1), 0)
<1>1. /\ r \in e.points /\ src_pos <= Len(packed) /\ AtStream(e.full, c) /\ ~e.format
      /\ Ends(e, r) \/ \E len, o : High(o) # 0 /\ ByOffset(e, r, len, o)
  BY DEF Reached, AtHigh
<1>2. /\ Decoder!HasByte /\ Decoder!TakeByte /\ offset_high' = Decoder!TheByte
      /\ pc' = IF Decoder!TheByte = 0 THEN "ok" ELSE "metadata"
      /\ UNCHANGED <<packed, dst, state, last_offset>>
  BY DEF Decoder!ReadHigh, Decoder!arguments
<1>3. PICK byte \in Byte :
        /\ StreamOK(c) /\ Extends(e.full, PutBytes(c, <<byte>>))
        /\ byte = 0 => r.n = Len(e.text) /\ e.full = PutBytes(c, <<byte>>)
        /\ byte # 0 => \E len, o :
             /\ byte = High(o) /\ ByOffset(e, r, len, o)
             /\ PutBytes(c, <<byte>>) = HighPart(r.s, High(o), e.format)
  BY <1>1, SettingHas, NextByteOfHigh
<1> HIDE DEF c
<1>4. /\ Decoder!TheByte = byte /\ AtStream(e.full, PutBytes(c, <<byte>>))'
      /\ src_pos' <= Len(packed)
  BY <1>1, <1>2, <1>3, SettingHas, ByteRead
<1>5. CASE byte = 0
  <2>1. AtStream(e.full, e.full)'
    BY <1>3, <1>4, <1>5
  <2>2. QED
    BY <1>2, <1>3, <1>4, <1>5, <2>1, ReadToTheEnd
<1>6. CASE byte # 0
  <2>1. PICK len, o : /\ byte = High(o) /\ ByOffset(e, r, len, o)
                      /\ PutBytes(c, <<byte>>) = HighPart(r.s, High(o), e.format)
    BY <1>3, <1>6
  <2>2. pc' = "metadata" /\ offset_high' = High(o)
    BY <1>2, <1>4, <1>6, <2>1
  <2>3. AtMetadata(e, r, len, o)'
    BY <1>4, <2>1, <2>2 DEF AtMetadata
  <2>4. InCommand(e, r)'
    BY <2>3 DEF InCommand
  <2>5. QED
    BY <1>2, <1>4, <2>4, Stays
<1>7. QED
  BY <1>5, <1>6

LEMMA DecodeMetadata ==
  ASSUME NEW e, NEW r, Setting(e), Reached(e, r), NEW len, NEW o, AtMetadata(e, r, len, o),
         Decoder!ReadMetadata
  PROVE  Follows(e)
<1> DEFINE q == OffsetTo(e, r, len, o)
           h == HighPart(r.s, High(o), e.format)
           m == Metadata(e, r, len, o)
           byte == 2 * Low(o) + Two(len)
<1>1. /\ r \in e.points /\ src_pos <= Len(packed) /\ AtStream(e.full, h)
      /\ ByOffset(e, r, len, o) /\ offset_high = High(o)
  BY DEF Reached, AtMetadata
<1>2. /\ Decoder!HasByte /\ Decoder!TakeByte
      /\ offset' = offset_high * Decoder!LowOffsets + Decoder!TheByte \div 2 + 1
      /\ IF Decoder!TheByte % 2 = 1
         THEN pc' = "copy" /\ value' = 2
         ELSE pc' = "payload" /\ use' = "length" /\ value' = 1 /\ marker' = 1
      /\ UNCHANGED <<packed, dst, state, last_offset>>
  BY DEF Decoder!ReadMetadata, Decoder!StartLength, Decoder!arguments
<1>3. /\ o \in MIN_OFFSET .. MAX_OFFSET /\ Two(len) \in {0, 1} /\ StreamOK(h)
      /\ m = PutBytes(h, <<byte>>) /\ Extends(e.full, m) /\ q \in e.points
      /\ len = 2 => q.s = m
      /\ len # 2 => q.s = PutBits(m, Code(len - 1, 1)) /\ len - 1 \in Encodable
      /\ len \in 2 .. MAX_VARLEN
  BY <1>1, SettingHas, OffsetFacts
<1>4. byte \in Byte /\ byte \div 2 = Low(o) /\ byte % 2 = Two(len)
      /\ High(o) * LowOffsets + Low(o) + 1 = o
  BY <1>3, OffsetNumbers
<1> HIDE DEF h, m, q, byte
<1>5. Decoder!TheByte = byte /\ AtStream(e.full, m)' /\ src_pos' <= Len(packed)
  <2>1. Extends(e.full, PutBytes(h, <<byte>>))
    BY <1>3
  <2>2. /\ Decoder!TheByte = byte /\ AtStream(e.full, PutBytes(h, <<byte>>))'
        /\ src_pos' <= Len(packed)
    BY <1>1, <1>2, <1>3, <1>4, <2>1, SettingHas, ByteRead
  <2>3. QED
    BY <1>3, <2>2
<1>6. SUFFICES InCommand(e, r)'
  BY <1>2, <1>5, Stays
<1>7. offset' = o
  <2>1. offset' = High(o) * LowOffsets + Low(o) + 1
    BY <1>1, <1>2, <1>4, <1>5, SameFormat
  <2>2. QED
    BY <1>4, <2>1
<1>8. CASE len = 2
  <2>1. pc' = "copy" /\ value' = len
    BY <1>2, <1>4, <1>5, <1>8 DEF Two
  <2>2. q.n = r.n + len /\ q.state = 2 /\ q.last = o
    BY DEF OffsetTo, q
  <2>3. Copies(e, r, len, o) /\ q.s = m
    BY <1>1, <1>3, <1>8 DEF ByOffset
  <2>4. AtCopy(e, r, q)'
    BY <1>3, <1>5, <1>7, <2>1, <2>2, <2>3 DEF AtCopy
  <2>5. QED
    BY <2>4 DEF InCommand
<1>9. CASE len # 2
  <2>1. pc' = "payload" /\ use' = "length" /\ value' = 1 /\ marker' = 1
    BY <1>2, <1>4, <1>5, <1>9 DEF Two
  <2>2. PICK v : v = len - 1
    OBVIOUS
  <2>3. v \in Encodable /\ v \in Nat /\ v >= 2 /\ v # 1 /\ v + 1 = len
    <3>1. MAX_VARLEN \in Nat
      BY LengthRange
    <3>2. QED
      BY <1>3, <1>9, <2>2, <3>1
  <2>4. InNumber(e.full, m, v, 1)'
    BY <1>5, <2>1, <2>3, NumberStart
  <2>5. m = Metadata(e, r, v + 1, o) /\ ByOffset(e, r, v + 1, o)
    BY <1>1, <2>3 DEF m
  <2>6. Purpose(e, r, m, v, 1)'
    BY <1>7, <2>1, <2>3, <2>5 DEF Purpose
  <2>7. QED
    BY <2>4, <2>6 DEF InCommand, AtNumber
<1>10. QED
  BY <1>8, <1>9

LEMMA DecodePayload ==
  ASSUME NEW e, NEW r, Setting(e), Reached(e, r), NEW b, NEW v, NEW d, AtNumber(e, r, b, v, d),
         Decoder!ReadPayload
  PROVE  Follows(e)
<1>1. r \in e.points /\ src_pos <= Len(packed)
  BY DEF Reached
<1>2. Purpose(e, r, b, v, d) /\ InNumber(e.full, b, v, d) /\ Coded(e.full, b, v, d)
  BY <1>1, PurposeCoded DEF AtNumber
<1>3. /\ InNumber(e.full, b, v, d)' /\ src_pos' <= Len(packed)
      /\ UNCHANGED <<packed, dst, state, last_offset, use, offset>>
  BY <1>2, NumberGathers
<1>4. Purpose(e, r, b, v, d)'
  BY <1>2, <1>3 DEF Purpose
<1>5. InCommand(e, r)'
  BY <1>3, <1>4 DEF InCommand, AtNumber
<1>6. QED
  BY <1>3, <1>5, Stays

LEMMA DecodeContinue ==
  ASSUME NEW e, NEW r, Setting(e), Reached(e, r), NEW b, NEW v, NEW d, AtNumber(e, r, b, v, d),
         Decoder!Continue
  PROVE  Follows(e)
<1>1. r \in e.points /\ src_pos <= Len(packed)
  BY DEF Reached
<1>2. Purpose(e, r, b, v, d) /\ InNumber(e.full, b, v, d) /\ Coded(e.full, b, v, d)
  BY <1>1, PurposeCoded DEF AtNumber
<1>3. InNumber(e.full, b, v, d)' /\ src_pos' <= Len(packed)
  BY <1>2, NumberGoesOn
<1>4. UNCHANGED <<packed, dst, state, last_offset, use, offset>>
  BY DEF Decoder!Continue, Decoder!arguments, Decoder!registers
<1>5. Purpose(e, r, b, v, d)'
  BY <1>2, <1>4 DEF Purpose
<1>6. InCommand(e, r)'
  BY <1>3, <1>5 DEF InCommand, AtNumber
<1>7. QED
  BY <1>3, <1>4, <1>6, Stays

LEMMA DecodeClose ==
  ASSUME NEW e, NEW r, Setting(e), Reached(e, r), NEW b, NEW v, NEW d, AtNumber(e, r, b, v, d),
         Decoder!CloseNumber, UNCHANGED <<damaged, original>>
  PROVE  Follows(e)
<1>1. r \in e.points /\ src_pos <= Len(packed) /\ last_offset = r.last
  BY DEF Reached
<1>2. Purpose(e, r, b, v, d) /\ InNumber(e.full, b, v, d) /\ Coded(e.full, b, v, d)
  BY <1>1, PurposeCoded DEF AtNumber
<1>3. /\ pc = "control" /\ Decoder!HasBit /\ Decoder!TheBit = 1 /\ Decoder!TakeBit
      /\ UNCHANGED packed
  BY DEF Decoder!CloseNumber, Decoder!arguments
<1>4. /\ Decoder!Number = v /\ src_pos' <= Len(packed)
      /\ AtStream(e.full, PutBits(b, Code(v, d)))'
  BY <1>2, <1>3, NumberCloses
<1>5. CASE use = "literals" /\ d = 0 /\ b = Base(r) /\ ByLiterals(e, r, v)
  <2>1. v \in 1 .. MAX_VARLEN /\ MAX_VARLEN \in Nat
    BY <1>1, <1>5, SettingHas, LiteralsFacts, LengthRange
  <2>2. Decoder!AcceptLength("literals", MAX_VARLEN, Decoder!Number)
    BY <1>5, SameFormat DEF Decoder!CloseNumber
  <2>3. pc' = "literals" /\ value' = v /\ UNCHANGED <<dst, state, last_offset>>
    BY <1>4, <2>1, <2>2 DEF Decoder!AcceptLength
  <2>4. AtLiterals(e, r)'
    BY <1>4, <1>5, <2>3 DEF AtLiterals
  <2>5. InCommand(e, r)'
    BY <2>4 DEF InCommand
  <2>6. QED
    BY <1>3, <1>4, <2>3, <2>5, Stays
<1>6. CASE use = "rep" /\ d = 0 /\ b = PutBit(r.s, 0) /\ ByRepeat(e, r, v)
  <2> DEFINE q == RepeatTo(e, r, v)
  <2>1. v \in 1 .. MAX_VARLEN /\ MAX_VARLEN \in Nat /\ q \in e.points
        /\ q.s = PutBits(b, Code(v, d))
    BY <1>1, <1>6, SettingHas, RepeatFacts, LengthRange
  <2>2. Decoder!AcceptLength("copy", MAX_VARLEN, Decoder!Number)
    BY <1>6, SameFormat DEF Decoder!CloseNumber
  <2>3. pc' = "copy" /\ value' = v /\ offset' = r.last /\ UNCHANGED <<dst, state, last_offset>>
    BY <1>1, <1>4, <1>6, <2>1, <2>2 DEF Decoder!AcceptLength
  <2>4. q.n = r.n + v /\ q.state = 2 /\ q.last = r.last /\ Copies(e, r, v, r.last)
    BY <1>6 DEF RepeatTo, ByRepeat
  <2> HIDE DEF q
  <2>5. AtCopy(e, r, q)'
    BY <1>4, <2>1, <2>3, <2>4 DEF AtCopy
  <2>6. InCommand(e, r)'
    BY <2>5 DEF InCommand
  <2>7. QED
    BY <1>3, <1>4, <2>3, <2>6, Stays
<1>7. CASE /\ use = "length" /\ d = 1 /\ v # 1 /\ v \in Nat
           /\ b = Metadata(e, r, v + 1, offset) /\ ByOffset(e, r, v + 1, offset)
  <2>1. PICK len : len = v + 1
    OBVIOUS
  <2>2. PICK o : o = offset
    OBVIOUS
  <2>3. PICK q : q = OffsetTo(e, r, len, o)
    OBVIOUS
  <2>4. /\ v = len - 1 /\ len # 2 /\ v \in Nat
        /\ ByOffset(e, r, len, o) /\ b = Metadata(e, r, len, o)
    BY <1>7, <2>1, <2>2
  <2>5. Decoder!AcceptLength("copy", MAX_VARLEN - 1, Decoder!Number + 1)
    BY <1>7, SameFormat DEF Decoder!CloseNumber
  <2>6. q \in e.points /\ q.s = PutBits(b, Code(v, d)) /\ len \in 2 .. MAX_VARLEN
    <3>1. /\ q \in e.points /\ len \in 2 .. MAX_VARLEN
          /\ len # 2 => q.s = PutBits(Metadata(e, r, len, o), Code(len - 1, 1))
      <4>1. Explains(e) /\ r \in e.points /\ ByOffset(e, r, len, o)
        BY <1>1, <2>4, SettingHas
      <4>2. /\ OffsetTo(e, r, len, o) \in e.points /\ len \in 2 .. MAX_VARLEN
            /\ len # 2 => OffsetTo(e, r, len, o).s
                            = PutBits(Metadata(e, r, len, o), Code(len - 1, 1))
        <5> DEFINE p == OffsetTo(e, r, len, o)
                   m == Metadata(e, r, len, o)
        <5>1. /\ p \in e.points
              /\ len # 2 => p.s = PutBits(m, Code(len - 1, 1)) /\ len - 1 \in Encodable
              /\ len \in 2 .. MAX_VARLEN
          BY <4>1, OffsetFacts
        <5>2. QED
          BY <5>1
      <4>3. QED
        BY <2>3, <4>2
    <3>2. QED
      BY <1>7, <2>4, <3>1
  <2>7. q.n = r.n + len /\ q.state = 2 /\ q.last = o
    BY <2>3 DEF OffsetTo
  <2>8. v # 0 /\ ~(v > MAX_VARLEN - 1)
    BY <2>4, <2>6, LengthRange
  <2>9. pc' = "copy" /\ value' = len /\ offset' = o /\ UNCHANGED <<dst, state, last_offset>>
    BY <1>4, <1>7, <2>1, <2>2, <2>5, <2>8 DEF Decoder!AcceptLength
  <2>10. AtCopy(e, r, q)'
    BY <1>4, <2>4, <2>6, <2>7, <2>9 DEF AtCopy, ByOffset
  <2>11. InCommand(e, r)'
    BY <2>10 DEF InCommand
  <2>12. QED
    BY <1>3, <1>4, <2>9, <2>11, Stays
<1>8. CASE use = "high" /\ d = 0 /\ b = PutBit(r.s, 1) /\ e.format /\ v = EodHigh /\ Ends(e, r)
  <2>1. Decoder!AcceptHigh
    BY <1>8 DEF Decoder!CloseNumber
  <2>2. pc' = "ok" /\ UNCHANGED dst
    BY <1>4, <1>8, <2>1, SameFormat DEF Decoder!AcceptHigh, Decoder!Stop
  <2>3. e.full = PutBits(b, Code(v, d)) /\ r.n = Len(e.text)
    BY <1>1, <1>8, SettingHas, EodFacts DEF Ends
  <2>4. AtStream(e.full, e.full)'
    BY <1>4, <2>3
  <2>5. QED
    BY <1>4, <2>2, <2>3, <2>4, ReadToTheEnd
<1>9. CASE /\ use = "high" /\ d = 0 /\ b = PutBit(r.s, 1) /\ e.format
           /\ \E len, o : v = High(o) + 1 /\ ByOffset(e, r, len, o)
  <2>1. PICK len, o : v = High(o) + 1 /\ ByOffset(e, r, len, o)
    BY <1>9
  <2>2. o \in MIN_OFFSET .. MAX_OFFSET
    BY <1>1, <2>1, SettingHas, OffsetFacts
  <2>3. v \in 1 .. EodHigh - 1 /\ High(o) \in Nat /\ EodHigh \in Nat
    BY <2>1, <2>2, OffsetNumbers, FormatAssumption DEF EodHigh
  <2>4. HighPart(r.s, High(o), e.format) = PutBits(b, Code(v, d))
    BY <1>9, <2>1 DEF HighPart
  <2>5. Decoder!AcceptHigh
    BY <1>9 DEF Decoder!CloseNumber
  <2>6. /\ pc' = "metadata" /\ offset_high' = v - 1
        /\ UNCHANGED <<dst, state, last_offset>>
    <3>1. Decoder!Number # Decoder!EodHigh /\ Decoder!Number # 0
          /\ ~(Decoder!Number > Decoder!EodHigh - 1) /\ Decoder!Number = v
      BY <1>4, <2>3, SameFormat
    <3>2. QED
      BY <2>5, <3>1 DEF Decoder!AcceptHigh
  <2>7. offset_high' = High(o)
    BY <2>1, <2>3, <2>6
  <2>8. AtMetadata(e, r, len, o)'
    BY <1>4, <2>1, <2>4, <2>6, <2>7 DEF AtMetadata
  <2>9. InCommand(e, r)'
    BY <2>8 DEF InCommand
  <2>10. QED
    BY <1>3, <1>4, <2>6, <2>9, Stays
<1>10. QED
  BY <1>2, <1>5, <1>6, <1>7, <1>8, <1>9 DEF Purpose

(* A command is done: the next point is reached. *)
LEMMA Lands ==
  ASSUME NEW e, NEW r, Setting(e), Reached(e, r), NEW q \in e.points, NEW len \in Nat \ {0},
         q.n = r.n + len, q.state # 0, dst' = SubSeq(e.text, 1, q.n), state' = q.state,
         last_offset' = q.last, AtStream(e.full, q.s)', pc' = "command",
         src_pos' <= Len(packed), UNCHANGED packed
  PROVE  Follows(e)
<1>1. /\ r.n \in 0 .. Len(e.text) /\ q.n \in 0 .. Len(e.text) /\ e.text \in Seq(Byte)
      /\ e.text = original /\ dst = SubSeq(e.text, 1, r.n)
  BY SettingHas DEF Reached, PointOK
<1>2. Len(dst) = r.n
  BY <1>1
<1>3. q.n \in Len(dst) + 1 .. Len(original)
  BY <1>1, <1>2
<1>4. Grows
  BY <1>1, <1>3 DEF Grows
<1>5. Reached(e, q)' /\ AtCommand(e, q)'
  BY DEF Reached, AtCommand
<1>6. QED
  BY <1>4, <1>5 DEF Follows, InCommand

LEMMA PartsJoin ==
  ASSUME NEW text \in Seq(Byte), NEW n \in Nat, NEW m \in Nat, n + m <= Len(text)
  PROVE  SubSeq(text, 1, n) \o SubSeq(text, n + 1, n + m) = SubSeq(text, 1, n + m)
  OBVIOUS

LEMMA DecodeLiterals ==
  ASSUME NEW e, NEW r, Setting(e), Reached(e, r), AtLiterals(e, r), Decoder!dc_copy_literals,
         UNCHANGED damaged
  PROVE  Follows(e)
<1>1. PICK len : len = value
  OBVIOUS
<1> DEFINE x0 == PutBits(Base(r), Code(len, 0))
           q0 == LiteralsTo(e, r, len)
           bytes0 == SubSeq(e.text, r.n + 1, r.n + len)
<1>2. PICK x, q, bytes : x = x0 /\ q = q0 /\ bytes = bytes0
  OBVIOUS
<1>3. /\ r \in e.points /\ src_pos <= Len(packed) /\ dst = SubSeq(e.text, 1, r.n)
      /\ last_offset = r.last /\ AtStream(e.full, x) /\ ByLiterals(e, r, len)
  BY <1>1, <1>2 DEF Reached, AtLiterals
<1>4. /\ StreamOK(x) /\ q \in e.points /\ q.s = PutBytes(x, bytes) /\ Extends(e.full, q.s)
      /\ bytes \in Seq(Byte) /\ Len(bytes) = len /\ len \in 1 .. MAX_VARLEN
  <2>1. /\ StreamOK(x0) /\ q0 \in e.points /\ q0.s = PutBytes(x0, bytes0)
        /\ Extends(e.full, q0.s) /\ bytes0 \in Seq(Byte) /\ Len(bytes0) = len
        /\ len \in 1 .. MAX_VARLEN
    BY <1>3, SettingHas, LiteralsFacts
  <2> HIDE DEF x0, q0, bytes0
  <2>2. QED
    BY <1>2, <2>1
<1>5. q.n = r.n + len /\ q.state = 1 /\ q.last = r.last
  BY <1>2 DEF LiteralsTo
<1>6. len \in 1 .. Len(e.text) - r.n
  BY <1>3 DEF ByLiterals
<1> HIDE DEF x0, q0
<1>7. /\ src_pos + len <= Len(e.full.data) /\ src_pos \in Nat
      /\ src_pos + len <= Len(packed) => \A k \in 1 .. len : packed[src_pos + k] = bytes[k]
      /\ src_pos' = src_pos + len /\ UNCHANGED <<bit_byte, bits_left>> => AtStream(e.full, q.s)'
  <2>1. Extends(e.full, PutBytes(x, bytes))
    BY <1>4
  <2>2. /\ src_pos + Len(bytes) <= Len(e.full.data) /\ src_pos \in Nat
        /\ src_pos + Len(bytes) <= Len(packed) =>
             \A k \in 1 .. Len(bytes) : packed[src_pos + k] = bytes[k]
        /\ src_pos' = src_pos + Len(bytes) /\ UNCHANGED <<bit_byte, bits_left>> =>
             AtStream(e.full, PutBytes(x, bytes))'
    BY <1>3, <1>4, <2>1, SettingHas, BytesRead
  <2>3. QED
    BY <1>4, <2>2
<1>8. /\ r.n \in 0 .. Len(e.text) /\ e.text \in Seq(Byte) /\ Len(e.text) \in 1 .. MAX_VARLEN
      /\ output_cap = BUFFER_SIZE /\ packed \in Seq(Byte) /\ Len(packed) \in Nat
      /\ Len(e.full.data) \in Nat
  BY <1>3, SettingHas DEF PointOK, Setting, PartOf
<1>9. Len(dst) = r.n
  BY <1>3, <1>8
<1>10. ~(len > output_cap - Len(dst))
  BY <1>6, <1>8, <1>9, VerifyAssumption, LengthRange
<1>11. CASE len > Len(packed) - src_pos
  <2>1. Decoder!Fail
    BY <1>1, <1>11 DEF Decoder!dc_copy_literals
  <2>2. Len(packed) < Len(e.full.data)
    BY <1>4, <1>7, <1>8, <1>11, LengthRange
  <2>3. QED
    BY <2>1, <2>2, Fails
<1>12. CASE ~(len > Len(packed) - src_pos)
  <2>1. /\ dst' = dst \o SubSeq(packed, src_pos + 1, src_pos + len)
        /\ src_pos' = src_pos + len /\ state' = 1 /\ pc' = "command"
        /\ UNCHANGED <<packed, bit_byte, bits_left, last_offset>>
    BY <1>1, <1>10, <1>12 DEF Decoder!dc_copy_literals, Decoder!arguments
  <2>2. src_pos + len <= Len(packed) /\ len \in Nat \ {0}
    BY <1>4, <1>7, <1>8, <1>12, LengthRange
  <2>3. SubSeq(packed, src_pos + 1, src_pos + len) = bytes
    <3>1. \A k \in 1 .. len : packed[src_pos + k] = bytes[k]
      BY <1>7, <2>2
    <3> DEFINE part == SubSeq(packed, src_pos + 1, src_pos + len)
    <3>2. /\ part \in Seq(Byte) /\ Len(part) = len
          /\ \A k \in 1 .. len : part[k] = packed[src_pos + k]
      BY <1>7, <1>8, <2>2
    <3> HIDE DEF part
    <3>3. part = bytes
      BY <1>4, <2>2, <3>1, <3>2
    <3>4. QED
      BY <3>3 DEF part
  <2>4. dst' = SubSeq(e.text, 1, q.n)
    <3>1. dst' = SubSeq(e.text, 1, r.n) \o SubSeq(e.text, r.n + 1, r.n + len)
      BY <1>2, <1>3, <2>1, <2>3
    <3>2. r.n \in Nat /\ len \in Nat /\ r.n + len <= Len(e.text) /\ e.text \in Seq(Byte)
      BY <1>6, <1>8
    <3>3. SubSeq(e.text, 1, r.n) \o SubSeq(e.text, r.n + 1, r.n + len)
            = SubSeq(e.text, 1, r.n + len)
      BY <3>2, PartsJoin
    <3>4. QED
      BY <1>5, <3>1, <3>3
  <2>5. AtStream(e.full, q.s)' /\ src_pos' <= Len(packed)
    BY <1>7, <2>1, <2>2
  <2>6. state' = q.state /\ last_offset' = q.last /\ q.state # 0
    BY <1>3, <1>5, <2>1
  <2>7. QED
    BY <1>4, <1>5, <2>1, <2>2, <2>4, <2>5, <2>6, Lands
<1>13. QED
  BY <1>11, <1>12

LEMMA DecodeMatch ==
  ASSUME NEW e, NEW r, Setting(e), Reached(e, r), NEW q, AtCopy(e, r, q), Decoder!dc_copy_match
  PROVE  Follows(e)
<1>1. PICK len, o, out : len = value /\ o = offset /\ out = dst
  OBVIOUS
<1>2. /\ r \in e.points /\ q \in e.points /\ src_pos <= Len(packed) /\ out = SubSeq(e.text, 1, r.n)
      /\ Copies(e, r, len, o) /\ q.n = r.n + len /\ q.state = 2 /\ q.last = o
      /\ AtStream(e.full, q.s) /\ pc = "copy"
  BY <1>1 DEF Reached, AtCopy
<1>3. /\ r.n \in 0 .. Len(e.text) /\ e.text \in Seq(Byte) /\ Len(e.text) \in 1 .. MAX_VARLEN
      /\ output_cap = BUFFER_SIZE
  BY <1>2, SettingHas DEF PointOK, Setting
<1>4. Len(out) = r.n /\ out \o Again(out, o, len) = SubSeq(e.text, 1, r.n + len)
  <2>1. /\ e.text \in Seq(Byte) /\ r.n \in 0 .. Len(e.text) /\ Copies(e, r, len, o)
        /\ out = SubSeq(e.text, 1, r.n)
    BY <1>2, <1>3
  <2>2. QED
    BY <2>1, CopyIsText, ZenonT(30)
<1>5. /\ len \in 1 .. Len(e.text) - r.n /\ o \in MIN_OFFSET .. MAX_OFFSET /\ o <= r.n
  BY <1>2 DEF Copies
<1>6. /\ ~(offset < Decoder!MIN_OFFSET) /\ ~(offset > Decoder!MAX_OFFSET)
      /\ ~(offset > Len(dst)) /\ ~(value > output_cap - Len(dst))
  <2>1. MAX_OFFSET \in Int /\ MIN_OFFSET \in Int
    BY FormatAssumption DEF MAX_OFFSET, MIN_OFFSET, LowOffsets
  <2>2. ~(offset < MIN_OFFSET) /\ ~(offset > MAX_OFFSET) /\ ~(offset > Len(dst))
    BY <1>1, <1>3, <1>4, <1>5, <2>1
  <2>3. ~(value > output_cap - Len(dst))
    BY <1>1, <1>3, <1>4, <1>5, VerifyAssumption, LengthRange
  <2>4. QED
    BY <2>2, <2>3, SameFormat
<1>7. /\ dst' = dst \o Decoder!Repeated(value) /\ last_offset' = offset /\ state' = 2
      /\ pc' = "command" /\ UNCHANGED <<packed, src_pos, bit_byte, bits_left>>
  BY <1>6 DEF Decoder!dc_copy_match, Decoder!arguments, Decoder!cursor
<1>8. dst' = SubSeq(e.text, 1, q.n)
  <2>1. Decoder!Repeated(len) = Again(out, o, len)
    BY <1>1 DEF Decoder!Repeated, Again
  <2>2. QED
    BY <1>1, <1>2, <1>4, <1>7, <2>1
<1>9. len \in Nat \ {0}
  BY <1>3, <1>5
<1>10. AtStream(e.full, q.s)' /\ src_pos' <= Len(packed)
  BY <1>2, <1>7 DEF AtStream
<1>11. q.state # 0 /\ state' = q.state /\ last_offset' = q.last
  BY <1>1, <1>2, <1>7
<1>12. q \in e.points /\ q.n = r.n + len /\ pc' = "command" /\ UNCHANGED packed
  BY <1>2, <1>7
<1>13. QED
  BY <1>8, <1>9, <1>10, <1>11, <1>12, Lands

(* Where a bit or a byte is missing the stream has lost its end. *)
LEMMA DecodeCut ==
  ASSUME NEW e, NEW r, Setting(e), Reached(e, r), InCommand(e, r), Decoder!Truncated,
         UNCHANGED damaged
  PROVE  Follows(e)
<1>1. /\ r \in e.points /\ src_pos <= Len(packed) /\ Explains(e)
      /\ PartOf(e.full) /\ StreamOK(e.full)
  BY SettingHas DEF Reached
<1>2. /\ Decoder!Fail
      /\ \/ pc \in {"command", "selector", "control", "payload"} /\ ~Decoder!HasBit
         \/ pc \in {"high", "metadata"} /\ ~Decoder!HasByte
  BY DEF Decoder!Truncated
<1>3. SUFFICES Len(packed) < Len(e.full.data)
  BY <1>2, Fails
<1>4. CASE AtCommand(e, r)
  <2>1. pc = "command" /\ r.state # 0 /\ AtStream(e.full, r.s)
    BY <1>4 DEF AtCommand
  <2>2. PICK bit \in {0, 1} : StreamOK(r.s) /\ Extends(e.full, PutBit(r.s, bit))
    BY <1>1, <2>1, NextBitOfCommand
  <2>3. ~Decoder!HasBit
    BY <1>2, <2>1
  <2>4. QED
    BY <1>1, <2>1, <2>2, <2>3, BitRead
<1>5. CASE AtSelector(e, r)
  <2> DEFINE b == PutBit(r.s, 1)
  <2>1. pc = "selector" /\ ~e.format /\ ToOffset(e, r) /\ AtStream(e.full, b)
    BY <1>5 DEF AtSelector, ToOffset
  <2>2. PICK bit \in {0, 1} : StreamOK(b) /\ Extends(e.full, PutBit(b, bit))
    BY <1>1, <2>1, NextBitOfOffset
  <2>3. ~Decoder!HasBit
    BY <1>2, <2>1
  <2> HIDE DEF b
  <2>4. QED
    BY <1>1, <2>1, <2>2, <2>3, BitRead
<1>6. CASE AtHigh(e, r)
  <2> DEFINE c == PutBit(PutBit(r.s, 1), 0)
  <2>1. /\ pc = "high" /\ ~e.format /\ AtStream(e.full, c)
        /\ Ends(e, r) \/ \E len, o : High(o) # 0 /\ ByOffset(e, r, len, o)
    BY <1>6 DEF AtHigh
  <2>2. PICK byte \in Byte : StreamOK(c) /\ Extends(e.full, PutBytes(c, <<byte>>))
    BY <1>1, <2>1, NextByteOfHigh
  <2>3. ~Decoder!HasByte
    BY <1>2, <2>1
  <2> HIDE DEF c
  <2>4. QED
    BY <1>1, <2>1, <2>2, <2>3, ByteRead
<1>7. CASE \E len, o : AtMetadata(e, r, len, o)
  <2>1. PICK len, o : AtMetadata(e, r, len, o)
    BY <1>7
  <2> DEFINE h == HighPart(r.s, High(o), e.format)
             m == Metadata(e, r, len, o)
             byte == 2 * Low(o) + Two(len)
  <2>2. pc = "metadata" /\ ByOffset(e, r, len, o) /\ AtStream(e.full, h)
    BY <2>1 DEF AtMetadata
  <2>3. /\ o \in MIN_OFFSET .. MAX_OFFSET /\ Two(len) \in {0, 1} /\ StreamOK(h)
        /\ m = PutBytes(h, <<byte>>) /\ Extends(e.full, m)
    BY <1>1, <2>2, OffsetFacts
  <2>4. byte \in Byte
    BY <2>3, OffsetNumbers
  <2> HIDE DEF h, m, byte
  <2>5. Extends(e.full, PutBytes(h, <<byte>>)) /\ ~Decoder!HasByte
    BY <1>2, <2>2, <2>3
  <2>6. QED
    BY <1>1, <2>2, <2>3, <2>4, <2>5, ByteRead
<1>8. CASE \E b, v, d : AtNumber(e, r, b, v, d)
  <2>1. PICK b, v, d : AtNumber(e, r, b, v, d)
    BY <1>8
  <2>2. InNumber(e.full, b, v, d) /\ Coded(e.full, b, v, d)
    BY <1>1, <2>1, PurposeCoded DEF AtNumber
  <2>3. ~Decoder!HasBit
    BY <1>2, <2>2, NumberPC
  <2>4. QED
    BY <2>2, <2>3, NumberCut
<1>9. CASE AtLiterals(e, r) \/ \E q : AtCopy(e, r, q)
  BY <1>2, <1>9 DEF AtLiterals, AtCopy
<1>10. QED
  BY <1>4, <1>5, <1>6, <1>7, <1>8, <1>9 DEF InCommand

LEMMA DecodeArguments ==
  ASSUME Decoder!DecodeStep
  PROVE  UNCHANGED <<packed, output_cap, dali_mode>> /\ pc \notin Decoder!Final
  BY DEF Decoder!DecodeStep, Decoder!ReadCommand, Decoder!ReadSelector, Decoder!ReadHigh,
         Decoder!ReadMetadata, Decoder!ReadPayload, Decoder!Continue, Decoder!CloseNumber,
         Decoder!dc_copy_literals, Decoder!dc_copy_match, Decoder!Truncated, Decoder!Fail,
         Decoder!arguments, Decoder!Final

LEMMA DecodingStep ==
  ASSUME NEW e, Decoding(e), Decoder!DecodeStep, UNCHANGED <<original, damaged>>
  PROVE  Decoding(e)' /\ Grows
<1>1. Setting(e)
  BY DEF Decoding
<1>2. UNCHANGED <<packed, output_cap, dali_mode>> /\ pc \notin Decoder!Final
  BY DecodeArguments
<1>3. Setting(e)'
  BY <1>1, <1>2 DEF Setting, PartOf
<1>4. PICK r : Reached(e, r) /\ InCommand(e, r)
  BY <1>2 DEF Decoding, Verdict, Decoder!Final
<1>5. SUFFICES Follows(e)
  BY <1>3 DEF Follows, Decoding
<1>6. /\ AtCommand(e, r) => pc = "command"
      /\ AtLiterals(e, r) => pc = "literals"
      /\ AtSelector(e, r) => pc = "selector"
      /\ AtHigh(e, r) => pc = "high"
      /\ \A q : AtCopy(e, r, q) => pc = "copy"
      /\ \A len, o : AtMetadata(e, r, len, o) => pc = "metadata"
      /\ \A b, v, d : AtNumber(e, r, b, v, d) => pc \in {"control", "payload"}
  BY NumberPC DEF AtCommand, AtLiterals, AtSelector, AtHigh, AtCopy, AtMetadata, AtNumber
<1>7. CASE Decoder!ReadCommand
  <2>1. pc = "command"
    BY <1>7 DEF Decoder!ReadCommand
  <2>2. QED
    BY <1>1, <1>4, <1>6, <1>7, <2>1, DecodeCommand DEF InCommand
<1>8. CASE Decoder!ReadSelector
  <2>1. pc = "selector"
    BY <1>8 DEF Decoder!ReadSelector
  <2>2. QED
    BY <1>1, <1>4, <1>6, <1>8, <2>1, DecodeSelector DEF InCommand
<1>9. CASE Decoder!ReadHigh
  <2>1. pc = "high"
    BY <1>9 DEF Decoder!ReadHigh
  <2>2. QED
    BY <1>1, <1>4, <1>6, <1>9, <2>1, DecodeHigh DEF InCommand
<1>10. CASE Decoder!ReadMetadata
  <2>1. pc = "metadata"
    BY <1>10 DEF Decoder!ReadMetadata
  <2>2. QED
    BY <1>1, <1>4, <1>6, <1>10, <2>1, DecodeMetadata DEF InCommand
<1>11. CASE Decoder!ReadPayload
  <2>1. pc = "payload"
    BY <1>11 DEF Decoder!ReadPayload
  <2>2. QED
    BY <1>1, <1>4, <1>6, <1>11, <2>1, DecodePayload DEF InCommand
<1>12. CASE Decoder!Continue
  <2>1. pc = "control"
    BY <1>12 DEF Decoder!Continue
  <2>2. QED
    BY <1>1, <1>4, <1>6, <1>12, <2>1, DecodeContinue DEF InCommand
<1>13. CASE Decoder!CloseNumber
  <2>1. pc = "control"
    BY <1>13 DEF Decoder!CloseNumber
  <2>2. QED
    BY <1>1, <1>4, <1>6, <1>13, <2>1, DecodeClose DEF InCommand
<1>14. CASE Decoder!dc_copy_literals
  <2>1. pc = "literals"
    BY <1>14 DEF Decoder!dc_copy_literals
  <2>2. QED
    BY <1>1, <1>4, <1>6, <1>14, <2>1, DecodeLiterals DEF InCommand
<1>15. CASE Decoder!dc_copy_match
  <2>1. pc = "copy"
    BY <1>15 DEF Decoder!dc_copy_match
  <2>2. QED
    BY <1>1, <1>4, <1>6, <1>15, <2>1, DecodeMatch DEF InCommand
<1>16. CASE Decoder!Truncated
  BY <1>1, <1>4, <1>16, DecodeCut
<1>17. QED
  BY <1>7, <1>8, <1>9, <1>10, <1>11, <1>12, <1>13, <1>14, <1>15, <1>16 DEF Decoder!DecodeStep

-----------------------------------------------------------------------------
(***************************************************************************)
(* Writer and decoder together: the invariant of kcrunch --verify.         *)
(***************************************************************************)
VerifyInv ==
  /\ phase \in {"start", "compress", "refused", "decode", "verified", "failed"}
  /\ phase \in {"start", "compress", "refused"} => pc = "idle" /\ dst = <<>> /\ ~damaged
  /\ phase \in {"start", "compress"} => PackInv
  /\ phase = "start" => damaged = FALSE
  /\ phase = "compress" => window = original /\ original \in Originals
  /\ phase = "decode" => \E e : Decoding(e)
  /\ phase \in {"verified", "failed"} => pc \in Decoder!Final

LEMMA VerifyInitially == VerifyInit => VerifyInv /\ Promise!Init
  BY PackInit DEF VerifyInit, VerifyInv, Promise!Init, Decoder!Init, Decoder!Final

LEMMA Beginning ==
  ASSUME NEW data \in Seq(Byte), NEW n \in 1 .. Len(data)
  PROVE  /\ SubSeq(data, 1, n) \in Seq(Byte) /\ Len(SubSeq(data, 1, n)) = n
         /\ SubSeq(data, 1, n) # <<>>
         /\ \A k \in 1 .. n : SubSeq(data, 1, n)[k] = data[k]
<1>1. Len(data) \in Nat /\ n \in Nat /\ 1 <= n /\ n <= Len(data)
  OBVIOUS
<1>2. Len(SubSeq(data, 1, n)) = n /\ \A k \in 1 .. n : SubSeq(data, 1, n)[k] = data[k]
  BY <1>1
<1>3. SubSeq(data, 1, n) \in Seq(Byte)
  BY <1>1
<1>4. QED
  BY <1>1, <1>2, <1>3

(* The stream is handed over whole, or without its end. *)
LEMMA HandedOver ==
  ASSUME PackInv, wpc = "written", window = original, HandOver
  PROVE  (\E e : Decoding(e))' /\ dst' = <<>>
<1>1. PICK e : Explains(e) /\ IsOf(e)
  BY WrittenExplained
<1>2. PICK cut \in 0 .. MaxCut :
        /\ cut < Len(stream.data) /\ damaged' = (cut > 0) /\ original' = original
        /\ Decoder!kc_decode_format(SubSeq(stream.data, 1, Len(stream.data) - cut),
                                    BUFFER_SIZE, dali)
  BY DEF HandOver
<1> DEFINE given == SubSeq(stream.data, 1, Len(stream.data) - cut)
<1>3. /\ stream.data \in Seq(Byte) /\ Len(stream.data) \in Nat /\ cut \in Nat
  BY VerifyAssumption DEF PackInv, WriterInv, DataInv, StreamOK
<1>4. /\ given \in Seq(Byte) /\ Len(given) = Len(stream.data) - cut /\ given # <<>>
      /\ \A k \in 1 .. Len(given) : given[k] = stream.data[k]
  <2>1. Len(stream.data) - cut \in 1 .. Len(stream.data)
    BY <1>2, <1>3
  <2>2. PICK data : data = stream.data
    OBVIOUS
  <2>3. PICK n : n = Len(stream.data) - cut
    OBVIOUS
  <2>4. /\ data \in Seq(Byte) /\ n \in 1 .. Len(data)
        /\ data = stream.data /\ n = Len(stream.data) - cut
    BY <1>3, <2>1, <2>2, <2>3
  <2>5. /\ SubSeq(data, 1, n) \in Seq(Byte) /\ Len(SubSeq(data, 1, n)) = n
        /\ SubSeq(data, 1, n) # <<>>
        /\ \A k \in 1 .. n : SubSeq(data, 1, n)[k] = data[k]
    BY <2>4, Beginning
  <2>6. given = SubSeq(data, 1, n)
    BY <2>4
  <2> HIDE DEF given
  <2>7. n = Len(stream.data) - cut /\ data = stream.data
    BY <2>4
  <2>8. QED
    BY <2>5, <2>6, <2>7
<1> HIDE DEF given
<1>5. /\ packed' = given /\ output_cap' = BUFFER_SIZE /\ dali_mode' = dali
      /\ src_pos' = 0 /\ bits_left' = 0 /\ dst' = <<>> /\ state' = 0 /\ last_offset' = 1
      /\ value' = 1 /\ marker' = 1 /\ use' = "literals" /\ pc' = "control"
  <2>1. Decoder!kc_decode_format(given, BUFFER_SIZE, dali)
    BY <1>2 DEF given
  <2>2. QED
    BY <1>4, <2>1 DEF Decoder!kc_decode_format
<1>6. /\ e.full = stream /\ e.text = original /\ e.format = dali /\ e.text \in Seq(Byte)
      /\ StreamOK(e.full)
  BY <1>1 DEF IsOf, Explains, TextOK
<1>7. Setting(e)'
  <2>1. PartOf(e.full)'
    <3>1. packed' = given
      BY <1>5
    <3>2. given \in Seq(Byte)
      BY <1>4
    <3>3. Len(given) <= Len(e.full.data)
      BY <1>3, <1>4, <1>6
    <3>4. \A k \in 1 .. Len(given) : given[k] = e.full.data[k]
      BY <1>4, <1>6
    <3>5. QED
      BY <3>1, <3>2, <3>3, <3>4 DEF PartOf
  <2>2. (damaged <=> Len(packed) < Len(e.full.data))'
    <3>1. damaged' <=> cut > 0
      BY <1>2
    <3>2. Len(given) < Len(e.full.data) <=> cut > 0
      BY <1>3, <1>4, <1>6
    <3>3. packed' = given
      BY <1>5
    <3>4. QED
      BY <3>1, <3>2, <3>3
  <2>3. QED
    BY <1>1, <1>2, <1>5, <1>6, <2>1, <2>2 DEF Setting
<1> DEFINE r == StartPoint
<1>8. r.n = 0 /\ r.state = 0 /\ r.last = 1 /\ r.s = EmptyStream /\ Base(r) = EmptyStream
  BY DEF StartPoint, Base
<1>9. r \in e.points
  BY <1>1 DEF Explains
<1> HIDE DEF r
<1>10. Reached(e, r)'
  <2>1. SubSeq(e.text, 1, 0) = <<>>
    BY <1>6
  <2>2. 0 <= Len(given)
    BY <1>4
  <2>3. QED
    BY <1>5, <1>8, <1>9, <2>1, <2>2 DEF Reached
<1>11. PICK len : ByLiterals(e, r, len)
  BY <1>1, <1>8, <1>9 DEF Explains, Goes, ByRepeat, ByOffset, Ends
<1>12. len \in Encodable
  BY <1>1, <1>9, <1>11, LiteralsFacts
<1>13. AtStream(e.full, Base(r))'
  BY <1>5, <1>8 DEF AtStream, EmptyStream
<1>14. InNumber(e.full, Base(r), len, 0)'
  BY <1>5, <1>12, <1>13, NumberStart
<1>15. Purpose(e, r, Base(r), len, 0)'
  BY <1>5, <1>11 DEF Purpose
<1>16. InCommand(e, r)'
  BY <1>14, <1>15 DEF InCommand, AtNumber
<1>17. QED
  BY <1>5, <1>7, <1>10, <1>16 DEF Decoding

(* At the end the verdict is the right one. *)
LEMMA RightVerdict ==
  ASSUME NEW e, Decoding(e), pc \in Decoder!Final
  PROVE  Verdict
<1>1. \A r : ~InCommand(e, r)
  BY NumberPC DEF InCommand, AtCommand, AtLiterals, AtSelector, AtHigh, AtCopy, AtMetadata,
     AtNumber, Decoder!Final
<1>2. QED
  BY <1>1 DEF Decoding

LEMMA WriteKeeps == ASSUME WriteStep PROVE UNCHANGED window
  BY DEF WriteStep, CountLiteral, TakeMatch, EndOfBlock, salvador_write_literals, WriteRepeat,
         WriteOffset, WriteLength, WriteEod, Advance

LEMMA DecodingKept ==
  ASSUME NEW e, Decoding(e), UNCHANGED <<decoderVars, original, damaged>>
  PROVE  Decoding(e)'
<1>1. UNCHANGED <<packed, output_cap, dali_mode, src_pos, bit_byte, bits_left, dst, state,
                  last_offset, pc, use, value, marker, offset_high, offset, original, damaged>>
  BY DEF decoderVars
<1>2. Setting(e)' <=> Setting(e)
  BY <1>1 DEF Setting, PartOf
<1>3. Verdict' <=> Verdict
  BY <1>1 DEF Verdict
<1>4. \A s : AtStream(e.full, s)' <=> AtStream(e.full, s)
  BY <1>1 DEF AtStream
<1>5. \A r : Reached(e, r)' <=> Reached(e, r)
  BY <1>1 DEF Reached
<1>6. \A b, v, d : InNumber(e.full, b, v, d)' <=> InNumber(e.full, b, v, d)
  BY <1>1, <1>4 DEF InNumber
<1>7. \A r, b, v, d : Purpose(e, r, b, v, d)' <=> Purpose(e, r, b, v, d)
  BY <1>1 DEF Purpose
<1>8. \A r, b, v, d : AtNumber(e, r, b, v, d)' <=> AtNumber(e, r, b, v, d)
  BY <1>6, <1>7 DEF AtNumber
<1>9. \A r : AtCommand(e, r)' <=> AtCommand(e, r)
  BY <1>1, <1>4 DEF AtCommand
<1>10. \A r : AtLiterals(e, r)' <=> AtLiterals(e, r)
  BY <1>1, <1>4 DEF AtLiterals
<1>11. \A r, q : AtCopy(e, r, q)' <=> AtCopy(e, r, q)
  BY <1>1, <1>4 DEF AtCopy
<1>12. \A r : AtSelector(e, r)' <=> AtSelector(e, r)
  BY <1>1, <1>4 DEF AtSelector
<1>13. \A r : AtHigh(e, r)' <=> AtHigh(e, r)
  BY <1>1, <1>4 DEF AtHigh
<1>14. \A r, len, o : AtMetadata(e, r, len, o)' <=> AtMetadata(e, r, len, o)
  BY <1>1, <1>4 DEF AtMetadata
<1>15. \A r : InCommand(e, r)' <=> InCommand(e, r)
  BY <1>8, <1>9, <1>10, <1>11, <1>12, <1>13, <1>14 DEF InCommand
<1>16. QED
  BY <1>2, <1>3, <1>5, <1>15 DEF Decoding

LEMMA PackKept == PackInv /\ UNCHANGED vars => PackInv'
<1> SUFFICES ASSUME PackInv, UNCHANGED vars PROVE PackInv'
  OBVIOUS
<1>1. WriterInv'
  BY StutterStep DEF PackInv
<1>2. TextInv' /\ MatchInv'
  BY DEF PackInv, TextInv, MatchInv, Repeats, vars
<1>3. ExplainInv'
  BY DEF PackInv, ExplainInv, Writing, IsOf, Here, vars
<1>4. QED
  BY <1>1, <1>2, <1>3 DEF PackInv

(***************************************************************************)
(* Every step keeps the invariant and is one of the promise, or none.      *)
(***************************************************************************)
Promised == [Promise!Next]_(Promise!vars)

LEMMA Unseen ==
  ASSUME UNCHANGED <<dst, damaged, pc>>, ~(phase = "decode" \/ pc \in Decoder!Final),
         phase \in {"start", "compress", "refused"}, phase' \in {"start", "compress", "refused"}
  PROVE  Promised
  BY DEF Promised, Promise!vars

LEMMA VerifyStart == VerifyInv /\ Start => VerifyInv' /\ Promised
<1> SUFFICES ASSUME VerifyInv, Start PROVE VerifyInv' /\ Promised
  OBVIOUS
<1>1. PICK data \in Originals, format \in BOOLEAN :
        /\ phase = "start" /\ original' = data
        /\ IF Len(data) \in 1 .. MAX_VARLEN
           THEN phase' = "compress" /\ salvador_compress(data, 0, format)
           ELSE phase' = "refused" /\ UNCHANGED vars
        /\ UNCHANGED <<decoderVars, damaged>>
  BY DEF Start
<1>2. pc = "idle" /\ dst = <<>> /\ ~damaged /\ damaged = FALSE /\ PackInv
  BY <1>1 DEF VerifyInv
<1>3. pc' = pc /\ dst' = dst /\ damaged' = damaged
  BY <1>1 DEF decoderVars
<1>4. CASE Len(data) \in 1 .. MAX_VARLEN
  <2>1. phase' = "compress" /\ salvador_compress(data, 0, format) /\ data \in Seq(Byte)
    BY <1>1, <1>4, VerifyAssumption
  <2>2. PackInv'
    BY <1>2, <1>4, <2>1, PackStart
  <2>3. window' = original' /\ original' \in Originals
    BY <1>1, <2>1 DEF salvador_compress
  <2>4. VerifyInv'
    BY <1>2, <1>3, <2>1, <2>2, <2>3 DEF VerifyInv
  <2>5. Promised
    BY <1>1, <1>2, <1>3, <2>1, Unseen DEF Decoder!Final
  <2>6. QED
    BY <2>4, <2>5
<1>5. CASE Len(data) \notin 1 .. MAX_VARLEN
  <2>1. phase' = "refused"
    BY <1>1, <1>5
  <2>2. VerifyInv'
    BY <1>2, <1>3, <2>1 DEF VerifyInv
  <2>3. Promised
    BY <1>1, <1>2, <1>3, <2>1, Unseen DEF Decoder!Final
  <2>4. QED
    BY <2>2, <2>3
<1>6. QED
  BY <1>4, <1>5

LEMMA VerifyCompress == VerifyInv /\ Compress => VerifyInv' /\ Promised
<1> SUFFICES ASSUME VerifyInv, Compress PROVE VerifyInv' /\ Promised
  OBVIOUS
<1>1. /\ phase = "compress" /\ phase' = "compress" /\ WriteStep /\ original' = original
      /\ pc' = pc /\ dst' = dst /\ damaged' = damaged
  BY DEF Compress, decoderVars
<1>2. pc = "idle" /\ dst = <<>> /\ ~damaged /\ PackInv /\ window = original /\ original \in Originals
  BY <1>1 DEF VerifyInv
<1>3. PackInv' /\ window' = original'
  BY <1>1, <1>2, PackStep, WriteKeeps
<1>4. VerifyInv'
  BY <1>1, <1>2, <1>3 DEF VerifyInv
<1>5. Promised
  BY <1>1, <1>2, Unseen DEF Decoder!Final
<1>6. QED
  BY <1>4, <1>5

LEMMA VerifyHandOver == VerifyInv /\ HandOver => VerifyInv' /\ Promised
<1> SUFFICES ASSUME VerifyInv, HandOver PROVE VerifyInv' /\ Promised
  OBVIOUS
<1>1. /\ phase = "compress" /\ wpc = "written" /\ phase' = "decode" /\ original' = original
      /\ damaged' \in BOOLEAN
  BY DEF HandOver
<1>2. pc = "idle" /\ dst = <<>> /\ ~damaged /\ PackInv /\ window = original /\ original \in Originals
  BY <1>1 DEF VerifyInv
<1>3. (\E e : Decoding(e))' /\ dst' = dst
  BY <1>1, <1>2, HandedOver
<1>4. VerifyInv'
  BY <1>1, <1>3 DEF VerifyInv
<1>5. Promise!Start
  BY <1>1, <1>2, <1>3 DEF Promise!Start, Decoder!Final
<1>6. QED
  BY <1>4, <1>5 DEF Promised, Promise!Next

LEMMA VerifyDecode == VerifyInv /\ Decode => VerifyInv' /\ Promised
<1> SUFFICES ASSUME VerifyInv, Decode PROVE VerifyInv' /\ Promised
  OBVIOUS
<1>1. /\ phase = "decode" /\ phase' = "decode" /\ Decoder!DecodeStep
      /\ UNCHANGED <<original, damaged>>
  BY DEF Decode
<1>2. PICK e : Decoding(e)
  BY <1>1 DEF VerifyInv
<1>3. Decoding(e)' /\ Grows
  BY <1>1, <1>2, DecodingStep
<1>4. VerifyInv'
  BY <1>1, <1>3 DEF VerifyInv
<1>5. CASE dst' = dst
  BY <1>1, <1>4, <1>5 DEF Promised, Promise!vars
<1>6. CASE \E n \in Len(dst) + 1 .. Len(original) : dst' = SubSeq(original, 1, n)
  <2>1. Promise!Produce
    BY <1>1, <1>6 DEF Promise!Produce
  <2>2. QED
    BY <1>4, <2>1 DEF Promised, Promise!Next
<1>7. QED
  BY <1>3, <1>4, <1>5, <1>6 DEF Grows

LEMMA VerifyCompare == VerifyInv /\ Compare => VerifyInv' /\ Promised
<1> SUFFICES ASSUME VerifyInv, Compare PROVE VerifyInv' /\ Promised
  OBVIOUS
<1>1. /\ phase = "decode" /\ pc \in Decoder!Final
      /\ phase' = IF pc = "ok" /\ dst = original THEN "verified" ELSE "failed"
      /\ pc' = pc /\ dst' = dst /\ UNCHANGED <<original, damaged>>
  BY DEF Compare, decoderVars
<1>2. Verdict
  BY <1>1, RightVerdict DEF VerifyInv
<1>3. VerifyInv'
  BY <1>1 DEF VerifyInv
<1>4. CASE pc = "ok" /\ ~damaged /\ dst = original
  <2>1. phase' = "verified"
    BY <1>1, <1>4
  <2>2. Promise!Accept
    BY <1>1, <1>4, <2>1 DEF Promise!Accept
  <2>3. QED
    BY <1>3, <2>2 DEF Promised, Promise!Next
<1>5. CASE pc = "error" /\ damaged
  <2>1. phase' = "failed"
    BY <1>1, <1>5
  <2>2. Promise!Reject
    BY <1>1, <1>5, <2>1 DEF Promise!Reject
  <2>3. QED
    BY <1>3, <2>2 DEF Promised, Promise!Next
<1>6. QED
  BY <1>2, <1>4, <1>5 DEF Verdict

LEMMA VerifyRefused == VerifyInv /\ CompressionFailed => VerifyInv' /\ Promised
<1> SUFFICES ASSUME VerifyInv, CompressionFailed PROVE VerifyInv' /\ Promised
  OBVIOUS
<1>1. /\ phase = "compress" /\ phase' = "refused"
      /\ pc' = pc /\ dst' = dst /\ damaged' = damaged
  BY DEF CompressionFailed, decoderVars
<1>2. pc = "idle" /\ dst = <<>> /\ ~damaged
  BY <1>1 DEF VerifyInv
<1>3. VerifyInv'
  BY <1>1, <1>2 DEF VerifyInv
<1>4. Promised
  BY <1>1, <1>2, Unseen DEF Decoder!Final
<1>5. QED
  BY <1>3, <1>4

LEMMA VerifyStutters == VerifyInv /\ UNCHANGED verifyVars => VerifyInv' /\ Promised
<1> SUFFICES ASSUME VerifyInv, UNCHANGED verifyVars PROVE VerifyInv' /\ Promised
  OBVIOUS
<1>1. UNCHANGED <<vars, decoderVars, original, damaged, phase>>
  BY DEF verifyVars
<1>2. UNCHANGED <<pc, dst, window>>
  BY <1>1 DEF decoderVars, vars
<1>3. /\ PackInv => PackInv'
      /\ \A e : Decoding(e) => Decoding(e)'
  BY <1>1, PackKept, DecodingKept
<1>4. VerifyInv'
  BY <1>1, <1>2, <1>3 DEF VerifyInv
<1>5. Promised
  BY <1>1, <1>2 DEF Promised, Promise!vars
<1>6. QED
  BY <1>4, <1>5

LEMMA VerifyStep == VerifyInv /\ [VerifyNext]_verifyVars => VerifyInv' /\ Promised
  BY VerifyStart, VerifyCompress, VerifyHandOver, VerifyDecode, VerifyCompare, VerifyRefused,
     VerifyStutters DEF VerifyNext, Step

(***************************************************************************)
(* kcrunch --verify keeps the promise of a packed file as far as safety    *)
(* goes, for every input, every choice of matches and both formats: what   *)
(* kc_decode_format puts out is a beginning of the input at every step, a  *)
(* whole stream is accepted with the whole input and one that lost its end *)
(* is reported.  That one of the two is reached is left to TLC.            *)
(***************************************************************************)
THEOREM StreamsUnpack == VerifySpec => Promise!Safe
<1>1. VerifyInit => VerifyInv /\ Promise!Init
  BY VerifyInitially
<1>2. VerifyInv /\ [VerifyNext]_verifyVars => VerifyInv' /\ [Promise!Next]_(Promise!vars)
  BY VerifyStep DEF Promised
<1>3. QED
  BY <1>1, <1>2, PTL DEF VerifySpec, Promise!Safe
=============================================================================
