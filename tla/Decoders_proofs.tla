-------------------------- MODULE Decoders_proofs --------------------------
(***************************************************************************)
(* What holds of the decoders for every even width of a byte: of the       *)
(* strict one with every stream and every capacity, and of the 6502's with *)
(* every file they may be given and every place of it.                     *)
(***************************************************************************)
EXTENDS Decode, Dcrunch, TLAPS

(***************************************************************************)
(* The rotation of a number is undone within the positive numbers.         *)
(***************************************************************************)
LEMMA QuotientPositive ==
  ASSUME NEW a \in Nat, NEW b \in Nat \ {0}, a >= b
  PROVE  a \div b \in Nat \ {0}
  OBVIOUS

LEMMA DivType ==
  ASSUME NEW a \in Nat, NEW b \in Nat \ {0}
  PROVE  a \div b \in Nat /\ a % b \in Nat
  OBVIOUS

LEMMA ProductType == ASSUME NEW a \in Nat, NEW b \in Nat PROVE a * b \in Nat
  OBVIOUS

LEMMA UnrotatedType ==
  ASSUME NEW v \in Nat \ {0}, NEW m \in Nat \ {0}, m <= v
  PROVE  Unrotated(v, m) \in Nat \ {0}
<1> DEFINE w == m \div ByteValues
<1>1. CASE m < ByteValues
  BY <1>1 DEF Unrotated
<1>2. CASE ~(m < ByteValues)
  <2>1. w \in Nat \ {0}
    BY <1>2, FormatAssumption, QuotientPositive
  <2>2. v - m \in Nat
    OBVIOUS
  <2>3. (v - m) % w \in Nat /\ (v - m) \div w \in Nat
    BY <2>1, <2>2, DivType
  <2>4. ((v - m) % w) * ByteValues \in Nat
    BY <2>3, FormatAssumption, ProductType
  <2>5. Unrotated(v, m) = m + ((v - m) % w) * ByteValues + (v - m) \div w
    BY <1>2 DEF Unrotated
  <2> HIDE DEF w
  <2>6. QED
    BY <2>3, <2>4, <2>5
<1>3. QED
  BY <1>1, <1>2

-----------------------------------------------------------------------------
(***************************************************************************)
(* The inductive invariant.  BitParity is what makes RefillOnlyAtControl   *)
(* inductive: control bits and selectors are read with an even number of   *)
(* bits left, everything else happens with an odd number.  MarkerBelow is  *)
(* needed for the type of the number that closes a code.                   *)
(***************************************************************************)
BitParity ==
  pc \notin Final \cup {"idle"} =>
    bits_left % 2 = IF pc \in {"control", "selector"} THEN 0 ELSE 1

MarkerBelow == pc \in {"control", "payload"} => marker <= value

StartOffset == state = 0 => last_offset = 1

IInv == TypeOK /\ MarkerBelow /\ BitParity /\ StartOffset /\ RepeatInsideOutput

(***************************************************************************)
(* One bit, one byte: the types of what is fetched and of the cursor.      *)
(***************************************************************************)
LEMMA BitType == ASSUME NEW b, NEW k PROVE Bit(b, k) \in {0, 1}
  BY DEF Bit

LEMMA TakeByteType ==
  ASSUME TypeOK, HasByte, TakeByte, packed' = packed
  PROVE  /\ TheByte \in Byte
         /\ src_pos' \in 0 .. Len(packed') /\ src_pos' = src_pos + 1
         /\ bit_byte' = bit_byte /\ bits_left' = bits_left
  BY DEF TypeOK, HasByte, TakeByte, TheByte

LEMMA TakeBitType ==
  ASSUME TypeOK, HasBit, TakeBit, packed' = packed
  PROVE  /\ TheBit \in {0, 1}
         /\ src_pos' \in 0 .. Len(packed')
         /\ bit_byte' \in Byte /\ bits_left' \in 0 .. ByteBits - 1
         /\ bits_left % 2 = 0 => bits_left' % 2 = 1
         /\ bits_left % 2 = 1 => bits_left' % 2 = 0
<1>1. TheBit \in {0, 1}
  BY BitType DEF TheBit
<1>2. CASE Refill
  <2>1. HasByte /\ TheByte \in Byte
    BY <1>2 DEF TypeOK, HasBit, HasByte, Refill, TheByte
  <2>2. bits_left = 0 /\ bits_left' = ByteBits - 1 /\ src_pos' = src_pos + 1 /\ bit_byte' = TheByte
    BY <1>2 DEF TakeBit, Refill
  <2>3. QED
    BY <1>1, <2>1, <2>2, FormatAssumption DEF TypeOK, HasByte
<1>3. CASE ~Refill
  BY <1>1, <1>3, FormatAssumption DEF TypeOK, TakeBit, Refill
<1>4. QED
  BY <1>2, <1>3

(***************************************************************************)
(* The formats' constants are numbers.                                     *)
(***************************************************************************)
LEMMA ConstantTypes ==
  /\ LowOffsets \in Nat \ {0} /\ MAX_OFFSET \in Nat \ {0}
  /\ MAX_VARLEN \in Nat /\ EodHigh \in Nat
  /\ 0 \in Byte
<1>1. LowOffsets \in Nat \ {0} /\ ByteValues - 1 \in Nat \ {0}
  BY FormatAssumption DEF LowOffsets
<1>2. \A a, b \in Nat \ {0} : a * b \in Nat \ {0}
  OBVIOUS
<1>3. MAX_OFFSET \in Nat \ {0}
  BY <1>1, <1>2 DEF MAX_OFFSET
<1>4. ByteValues * ByteValues \in Nat \ {0}
  BY <1>2, FormatAssumption
<1>5. MAX_VARLEN \in Nat
  BY <1>4 DEF MAX_VARLEN
<1>6. QED
  BY <1>1, <1>3, <1>5, FormatAssumption DEF EodHigh, Byte

LEMMA InitIInv == Init => IInv
<1> SUFFICES ASSUME Init PROVE IInv
  OBVIOUS
<1>1. <<>> \in Seq(Byte) /\ Len(<<>>) = 0
  OBVIOUS
<1>2. packed = <<>> /\ dst = <<>> /\ bit_byte = 0
  BY DEF Init
<1>3. packed \in Seq(Byte) /\ dst \in Seq(Byte) /\ Len(packed) = 0 /\ Len(dst) = 0
      /\ bit_byte \in Byte
  BY <1>1, <1>2, ConstantTypes
<1>4. /\ output_cap = 0 /\ dali_mode \in BOOLEAN /\ src_pos = 0 /\ bits_left = 0 /\ state = 0
      /\ last_offset = 1 /\ pc \in PCs /\ use \in Uses /\ value = 1 /\ marker = 1
      /\ offset_high = 0 /\ offset = 1
  BY DEF Init, PCs, Uses
<1>5. TypeOK
  BY <1>3, <1>4, FormatAssumption DEF TypeOK
<1>6. MarkerBelow /\ BitParity /\ StartOffset /\ RepeatInsideOutput
  BY DEF Init, MarkerBelow, BitParity, StartOffset, RepeatInsideOutput, Final
<1>7. QED
  BY <1>5, <1>6 DEF IInv

LEMMA CallStep == IInv /\ Call => IInv'
<1> SUFFICES ASSUME NEW stream \in Streams, NEW cap \in Capacities, NEW dali \in Formats,
                    kc_decode_format(stream, cap, dali)
             PROVE  IInv'
  BY DEF Call
<1>1. stream \in Seq(Byte) /\ cap \in Nat /\ dali \in BOOLEAN
  BY DecodeAssumption
<1>2. TypeOK'
  BY <1>1, ConstantTypes, FormatAssumption
     DEF kc_decode_format, TypeOK, PCs, Uses, Final
<1>3. MarkerBelow' /\ BitParity' /\ StartOffset' /\ RepeatInsideOutput'
  BY FormatAssumption
     DEF kc_decode_format, MarkerBelow, BitParity, StartOffset, RepeatInsideOutput, Final
<1>4. QED
  BY <1>2, <1>3 DEF IInv

(***************************************************************************)
(* Failing and stopping leave a state of the invariant behind.             *)
(***************************************************************************)
LEMMA StopStep ==
  ASSUME IInv, NEW verdict \in Final, Stop(verdict), UNCHANGED arguments,
         src_pos' \in 0 .. Len(packed'), bit_byte' \in Byte, bits_left' \in 0 .. ByteBits - 1
  PROVE  IInv'
  BY DEF IInv, TypeOK, MarkerBelow, BitParity, StartOffset, RepeatInsideOutput,
         Stop, PCs, Final, arguments, registers

LEMMA FailStep == IInv /\ Fail => IInv'
<1> SUFFICES ASSUME IInv, Fail PROVE IInv'
  OBVIOUS
<1>1. UNCHANGED arguments /\ UNCHANGED cursor /\ Stop("error")
  BY DEF Fail
<1>2. /\ src_pos' \in 0 .. Len(packed') /\ bit_byte' \in Byte
      /\ bits_left' \in 0 .. ByteBits - 1
  BY <1>1 DEF IInv, TypeOK, arguments, cursor
<1>3. QED
  BY <1>1, <1>2, StopStep DEF Final

-----------------------------------------------------------------------------
(***************************************************************************)
(* One lemma per action.                                                   *)
(***************************************************************************)
LEMMA ReadCommandStep == IInv /\ ReadCommand => IInv'
<1> SUFFICES ASSUME IInv, ReadCommand PROVE IInv'
  OBVIOUS
<1>1. TypeOK /\ HasBit /\ TakeBit /\ UNCHANGED arguments /\ pc = "command"
  BY DEF IInv, ReadCommand
<1>2. UNCHANGED <<dst, state, last_offset, offset_high, offset>>
  BY DEF ReadCommand
<1>3. /\ bits_left % 2 = 1
  BY <1>1 DEF IInv, BitParity, Final
<1>4. /\ src_pos' \in 0 .. Len(packed') /\ bit_byte' \in Byte
      /\ bits_left' \in 0 .. ByteBits - 1 /\ bits_left' % 2 = 0
  BY <1>1, <1>3, TakeBitType DEF arguments
<1>5. \/ pc' = "control" /\ use' \in Uses /\ value' = 1 /\ marker' = 1
      \/ pc' = "selector" /\ UNCHANGED <<use, value, marker>>
  BY DEF ReadCommand, StartLength, Uses
<1>6. TypeOK'
  BY <1>1, <1>2, <1>4, <1>5 DEF TypeOK, PCs, arguments
<1>7. MarkerBelow' /\ BitParity'
  <2>1. pc' \in {"control", "selector"}
    BY <1>5
  <2>2. BitParity'
    BY <1>4, <2>1 DEF BitParity
  <2>3. MarkerBelow'
    BY <1>5 DEF MarkerBelow
  <2>4. QED
    BY <2>2, <2>3
<1>8. StartOffset' /\ RepeatInsideOutput'
  BY <1>2 DEF IInv, StartOffset, RepeatInsideOutput
<1>9. QED
  BY <1>6, <1>7, <1>8 DEF IInv

LEMMA ReadSelectorStep == IInv /\ ReadSelector => IInv'
<1> SUFFICES ASSUME IInv, ReadSelector PROVE IInv'
  OBVIOUS
<1>1. TypeOK /\ HasBit /\ TakeBit /\ UNCHANGED arguments /\ pc = "selector"
  BY DEF IInv, ReadSelector
<1>2. UNCHANGED <<dst, state, last_offset, use, value, marker, offset>>
  BY DEF ReadSelector
<1>3. bits_left % 2 = 0
  BY <1>1 DEF IInv, BitParity, Final
<1>4. /\ src_pos' \in 0 .. Len(packed') /\ bit_byte' \in Byte
      /\ bits_left' \in 0 .. ByteBits - 1 /\ bits_left' % 2 = 1
  BY <1>1, <1>3, TakeBitType DEF arguments
<1>5. pc' \in {"metadata", "high"} /\ offset_high' \in Nat
  BY DEF ReadSelector, IInv, TypeOK
<1>6. TypeOK'
  BY <1>1, <1>2, <1>4, <1>5 DEF TypeOK, PCs, arguments
<1>7. MarkerBelow' /\ BitParity' /\ StartOffset' /\ RepeatInsideOutput'
  BY <1>2, <1>4, <1>5
     DEF IInv, MarkerBelow, BitParity, StartOffset, RepeatInsideOutput, Final
<1>8. QED
  BY <1>6, <1>7 DEF IInv

LEMMA ReadHighStep == IInv /\ ReadHigh => IInv'
<1> SUFFICES ASSUME IInv, ReadHigh PROVE IInv'
  OBVIOUS
<1>1. TypeOK /\ HasByte /\ TakeByte /\ UNCHANGED arguments /\ pc = "high"
  BY DEF IInv, ReadHigh
<1>2. UNCHANGED <<dst, state, last_offset, use, value, marker, offset>>
  BY DEF ReadHigh
<1>3. /\ TheByte \in Byte /\ src_pos' \in 0 .. Len(packed')
      /\ UNCHANGED <<bit_byte, bits_left>>
  BY <1>1, TakeByteType DEF arguments
<1>4. pc' \in {"metadata", "ok"} /\ offset_high' \in Nat
  BY <1>3 DEF ReadHigh, Byte
<1>5. TypeOK'
  BY <1>1, <1>2, <1>3, <1>4 DEF TypeOK, PCs, Final, arguments
<1>6. MarkerBelow' /\ BitParity' /\ StartOffset' /\ RepeatInsideOutput'
  BY <1>1, <1>2, <1>3, <1>4
     DEF IInv, MarkerBelow, BitParity, StartOffset, RepeatInsideOutput, Final
<1>7. QED
  BY <1>5, <1>6 DEF IInv

LEMMA ReadMetadataStep == IInv /\ ReadMetadata => IInv'
<1> SUFFICES ASSUME IInv, ReadMetadata PROVE IInv'
  OBVIOUS
<1>1. TypeOK /\ HasByte /\ TakeByte /\ UNCHANGED arguments /\ pc = "metadata"
  BY DEF IInv, ReadMetadata
<1>2. UNCHANGED <<dst, state, last_offset, offset_high>>
  BY DEF ReadMetadata
<1>3. /\ TheByte \in Byte /\ src_pos' \in 0 .. Len(packed')
      /\ UNCHANGED <<bit_byte, bits_left>>
  BY <1>1, TakeByteType DEF arguments
<1>4. offset' \in Nat \ {0}
  <2>1. offset_high * LowOffsets \in Nat
    BY <1>1, ConstantTypes, ProductType DEF TypeOK
  <2>2. TheByte \div 2 \in Nat
    BY <1>3, FormatAssumption DEF Byte
  <2>3. offset' = offset_high * LowOffsets + TheByte \div 2 + 1
    BY DEF ReadMetadata
  <2>4. QED
    BY <2>1, <2>2, <2>3
<1>5. \/ pc' = "copy" /\ value' = 2 /\ UNCHANGED <<use, marker>>
      \/ pc' = "payload" /\ use' \in Uses /\ value' = 1 /\ marker' = 1
  BY DEF ReadMetadata, StartLength, Uses
<1>6. TypeOK'
  BY <1>1, <1>2, <1>3, <1>4, <1>5 DEF TypeOK, PCs, arguments
<1>7. MarkerBelow' /\ BitParity' /\ StartOffset' /\ RepeatInsideOutput'
  BY <1>1, <1>2, <1>3, <1>5
     DEF IInv, MarkerBelow, BitParity, StartOffset, RepeatInsideOutput, Final
<1>8. QED
  BY <1>6, <1>7 DEF IInv

LEMMA ReadPayloadStep == IInv /\ ReadPayload => IInv'
<1> SUFFICES ASSUME IInv, ReadPayload PROVE IInv'
  OBVIOUS
<1>1. CASE Fail
  BY <1>1, FailStep
<1>2. CASE ~Fail
  <2>1. TypeOK /\ HasBit /\ TakeBit /\ UNCHANGED arguments /\ pc = "payload"
    BY <1>2 DEF IInv, ReadPayload
  <2>2. UNCHANGED <<dst, state, last_offset, use, offset_high, offset>>
    BY <1>2 DEF ReadPayload
  <2>3. bits_left % 2 = 1 /\ marker <= value
    BY <2>1 DEF IInv, BitParity, MarkerBelow, Final
  <2>4. /\ TheBit \in {0, 1}
        /\ src_pos' \in 0 .. Len(packed') /\ bit_byte' \in Byte
        /\ bits_left' \in 0 .. ByteBits - 1 /\ bits_left' % 2 = 0
    BY <2>1, <2>3, TakeBitType DEF arguments
  <2>5. pc' = "control" /\ value' = 2 * value + TheBit /\ marker' = 2 * marker
    BY <1>2 DEF ReadPayload
  <2>6. value' \in Nat \ {0} /\ marker' \in Nat \ {0} /\ marker' <= value'
    BY <2>1, <2>3, <2>4, <2>5 DEF TypeOK
  <2>7. TypeOK'
    BY <2>1, <2>2, <2>4, <2>5, <2>6 DEF TypeOK, PCs, arguments
  <2>8. MarkerBelow' /\ BitParity' /\ StartOffset' /\ RepeatInsideOutput'
    BY <2>2, <2>4, <2>5, <2>6
       DEF IInv, MarkerBelow, BitParity, StartOffset, RepeatInsideOutput
  <2>9. QED
    BY <2>7, <2>8 DEF IInv
<1>3. QED
  BY <1>1, <1>2

LEMMA ContinueStep == IInv /\ Continue => IInv'
<1> SUFFICES ASSUME IInv, Continue PROVE IInv'
  OBVIOUS
<1>1. TypeOK /\ HasBit /\ TakeBit /\ UNCHANGED arguments /\ pc = "control"
  BY DEF IInv, Continue
<1>2. UNCHANGED <<dst, state, last_offset, use>> /\ UNCHANGED registers /\ pc' = "payload"
  BY DEF Continue
<1>3. bits_left % 2 = 0 /\ marker <= value
  BY <1>1 DEF IInv, BitParity, MarkerBelow, Final
<1>4. /\ src_pos' \in 0 .. Len(packed') /\ bit_byte' \in Byte
      /\ bits_left' \in 0 .. ByteBits - 1 /\ bits_left' % 2 = 1
  BY <1>1, <1>3, TakeBitType DEF arguments
<1>5. TypeOK'
  BY <1>1, <1>2, <1>4 DEF TypeOK, PCs, arguments, registers
<1>6. MarkerBelow' /\ BitParity' /\ StartOffset' /\ RepeatInsideOutput'
  BY <1>2, <1>3, <1>4
     DEF IInv, MarkerBelow, BitParity, StartOffset, RepeatInsideOutput, registers
<1>7. QED
  BY <1>5, <1>6 DEF IInv

LEMMA CloseNumberStep == IInv /\ CloseNumber => IInv'
<1> SUFFICES ASSUME IInv, CloseNumber PROVE IInv'
  OBVIOUS
<1>1. TypeOK /\ HasBit /\ TakeBit /\ UNCHANGED arguments /\ pc = "control"
  BY DEF IInv, CloseNumber
<1>2. bits_left % 2 = 0 /\ marker <= value
  BY <1>1 DEF IInv, BitParity, MarkerBelow, Final
<1>3. /\ src_pos' \in 0 .. Len(packed') /\ bit_byte' \in Byte
      /\ bits_left' \in 0 .. ByteBits - 1 /\ bits_left' % 2 = 1
  BY <1>1, <1>2, TakeBitType DEF arguments
<1>4. Number \in Nat \ {0}
  BY <1>1, <1>2, UnrotatedType DEF Number, TypeOK
<1>5. ASSUME NEW next \in {"literals", "copy"}, NEW limit, NEW length \in Nat \ {0},
             AcceptLength(next, limit, length)
      PROVE  IInv'
  <2>1. CASE Stop("error")
    BY <1>1, <1>3, <2>1, StopStep DEF Final
  <2>2. CASE ~Stop("error")
    <3>1. /\ pc' = next /\ value' = length
          /\ UNCHANGED <<dst, state, last_offset, use, marker, offset_high>>
          /\ offset' = IF use = "rep" THEN last_offset ELSE offset
      BY <1>5, <2>2 DEF AcceptLength
    <3>2. offset' \in Nat \ {0}
      BY <1>1, <3>1 DEF TypeOK
    <3>3. TypeOK'
      BY <1>1, <1>3, <1>5, <3>1, <3>2 DEF TypeOK, PCs, arguments
    <3>4. MarkerBelow' /\ BitParity' /\ StartOffset' /\ RepeatInsideOutput'
      BY <1>3, <3>1, <1>5
         DEF IInv, MarkerBelow, BitParity, StartOffset, RepeatInsideOutput
    <3>5. QED
      BY <3>3, <3>4 DEF IInv
  <2>3. QED
    BY <2>1, <2>2
<1>6. ASSUME AcceptHigh PROVE IInv'
  <2>1. CASE Stop("ok") \/ Stop("error")
    BY <1>1, <1>3, <2>1, StopStep DEF Final
  <2>2. CASE ~(Stop("ok") \/ Stop("error"))
    <3>1. /\ pc' = "metadata" /\ offset_high' = Number - 1
          /\ UNCHANGED <<dst, state, last_offset, use, value, marker, offset>>
      BY <1>6, <2>2 DEF AcceptHigh
    <3>2. offset_high' \in Nat
      BY <1>4, <3>1
    <3>3. TypeOK'
      BY <1>1, <1>3, <3>1, <3>2 DEF TypeOK, PCs, arguments
    <3>4. MarkerBelow' /\ BitParity' /\ StartOffset' /\ RepeatInsideOutput'
      BY <1>3, <3>1
         DEF IInv, MarkerBelow, BitParity, StartOffset, RepeatInsideOutput
    <3>5. QED
      BY <3>3, <3>4 DEF IInv
  <2>3. QED
    BY <2>1, <2>2
<1>7. Number + 1 \in Nat \ {0}
  BY <1>4
<1>8. QED
  BY <1>4, <1>5, <1>6, <1>7 DEF CloseNumber

LEMMA ConcatType ==
  ASSUME NEW s \in Seq(Byte), NEW t \in Seq(Byte)
  PROVE  s \o t \in Seq(Byte) /\ Len(s \o t) = Len(s) + Len(t)
  OBVIOUS

LEMMA CopyLiteralsStep == IInv /\ dc_copy_literals => IInv'
<1> SUFFICES ASSUME IInv, dc_copy_literals PROVE IInv'
  OBVIOUS
<1>1. CASE Fail
  BY <1>1, FailStep
<1>2. CASE ~Fail
  <2>1. TypeOK /\ UNCHANGED arguments /\ pc = "literals" /\ pc' = "command"
    BY <1>2 DEF IInv, dc_copy_literals
  <2>2. /\ ~(value > output_cap - Len(dst)) /\ ~(value > Len(packed) - src_pos)
        /\ dst' = dst \o SubSeq(packed, src_pos + 1, src_pos + value)
        /\ src_pos' = src_pos + value /\ state' = 1
        /\ bit_byte' = bit_byte /\ bits_left' = bits_left
        /\ last_offset' = last_offset /\ use' = use /\ UNCHANGED registers
    BY <1>2 DEF dc_copy_literals
  <2> value <= output_cap - Len(dst) /\ value <= Len(packed) - src_pos
    BY <2>1, <2>2 DEF TypeOK
  <2>3. /\ SubSeq(packed, src_pos + 1, src_pos + value) \in Seq(Byte)
        /\ Len(SubSeq(packed, src_pos + 1, src_pos + value)) = value
    BY <2>1, <2>2 DEF TypeOK
  <2>4. dst' \in Seq(Byte) /\ Len(dst') = Len(dst) + value
    BY <2>1, <2>2, <2>3 DEF TypeOK
  <2>5. TypeOK'
    BY <2>1, <2>2, <2>4 DEF TypeOK, PCs, arguments, registers
  <2>6. last_offset <= Len(dst') /\ last_offset <= MAX_OFFSET
    BY <2>1, <2>4, ConstantTypes
       DEF IInv, TypeOK, StartOffset, RepeatInsideOutput
  <2>7. bits_left % 2 = 1
    BY <2>1 DEF IInv, BitParity, Final
  <2>8. MarkerBelow' /\ BitParity' /\ StartOffset' /\ RepeatInsideOutput'
    <3>1. BitParity' /\ MarkerBelow'
      BY <2>1, <2>2, <2>7 DEF MarkerBelow, BitParity
    <3>2. state' = 1 /\ last_offset' = last_offset
      BY <2>2
    <3>. StartOffset' /\ RepeatInsideOutput'
      BY <3>2, <2>6 DEF StartOffset, RepeatInsideOutput
    <3>3. QED
      BY <3>1, <3>2
  <2>9. QED
    BY <2>5, <2>8 DEF IInv
<1>3. QED
  BY <1>1, <1>2

LEMMA RepeatedType ==
  ASSUME TypeOK, offset <= Len(dst)
  PROVE  Repeated(value) \in Seq(Byte) /\ Len(Repeated(value)) = value
<1>1. ASSUME NEW k \in 1 .. value
      PROVE  Len(dst) - offset + 1 + ((k - 1) % offset) \in 1 .. Len(dst)
  <2>1. k - 1 \in Nat /\ offset \in Nat \ {0} /\ Len(dst) \in Nat
    BY DEF TypeOK
  <2>2. (k - 1) % offset \in 0 .. offset - 1
    BY <2>1
  <2>3. QED
    BY <2>1, <2>2
<1>2. \A k \in 1 .. value : dst[Len(dst) - offset + 1 + ((k - 1) % offset)] \in Byte
  BY <1>1 DEF TypeOK
<1>3. value \in Nat
  BY DEF TypeOK
<1>4. QED
  BY <1>2, <1>3 DEF Repeated

LEMMA CopyMatchStep == IInv /\ dc_copy_match => IInv'
<1> SUFFICES ASSUME IInv, dc_copy_match PROVE IInv'
  OBVIOUS
<1>1. CASE Fail
  BY <1>1, FailStep
<1>2. CASE ~Fail
  <2>1. TypeOK /\ UNCHANGED arguments /\ pc = "copy" /\ pc' = "command"
    BY <1>2 DEF IInv, dc_copy_match
  <2>2. /\ offset <= MAX_OFFSET /\ offset <= Len(dst) /\ value <= output_cap - Len(dst)
        /\ dst' = dst \o Repeated(value) /\ last_offset' = offset /\ state' = 2
        /\ UNCHANGED cursor /\ UNCHANGED use /\ UNCHANGED registers
    BY <1>2, <2>1, ConstantTypes, SMTT(30) DEF dc_copy_match, TypeOK
  <2>3. dst' \in Seq(Byte) /\ Len(dst') = Len(dst) + value
    <3>1. dst \in Seq(Byte) /\ Repeated(value) \in Seq(Byte) /\ Len(Repeated(value)) = value
      BY <2>1, <2>2, RepeatedType DEF TypeOK
    <3>2. dst' = dst \o Repeated(value)
      BY <2>2
    <3>3. QED
      BY <3>1, <3>2, ConcatType
  <2>4. TypeOK'
    BY <2>1, <2>2, <2>3 DEF TypeOK, PCs, arguments, registers, cursor
  <2>5. offset <= Len(dst')
    BY <2>1, <2>2, <2>3 DEF TypeOK
  <2>6. bits_left % 2 = 1
    BY <2>1 DEF IInv, BitParity, Final
  <2>7. MarkerBelow' /\ BitParity' /\ StartOffset' /\ RepeatInsideOutput'
    BY <2>1, <2>2, <2>5, <2>6
       DEF MarkerBelow, BitParity, StartOffset, RepeatInsideOutput, cursor
  <2>8. QED
    BY <2>4, <2>7 DEF IInv
<1>3. QED
  BY <1>1, <1>2

LEMMA TruncatedStep == IInv /\ Truncated => IInv'
  BY FailStep DEF Truncated

LEMMA StutterStep == IInv /\ UNCHANGED vars => IInv'
  BY DEF IInv, TypeOK, MarkerBelow, BitParity, StartOffset, RepeatInsideOutput,
         vars, arguments, cursor, registers

LEMMA Inductive == IInv /\ [Next]_vars => IInv'
  BY CallStep, ReadCommandStep, ReadSelectorStep, ReadHighStep, ReadMetadataStep,
     ReadPayloadStep, ContinueStep, CloseNumberStep, CopyLiteralsStep, CopyMatchStep,
     TruncatedStep, StutterStep
     DEF Next, DecodeStep

LEMMA InvariantHolds == Spec => []IInv
  BY InitIInv, Inductive, PTL DEF Spec

-----------------------------------------------------------------------------
(***************************************************************************)
(* kc_decode_format is memory safe: on any stream at all src_pos stays     *)
(* inside the stream and the output inside its buffer.                     *)
(***************************************************************************)
THEOREM TypeCorrect == Spec => []TypeOK
<1>1. IInv => TypeOK
  BY DEF IInv
<1>2. QED
  BY <1>1, InvariantHolds, PTL

(***************************************************************************)
(* No stream makes a command or a payload bit the first of a control byte, *)
(* for any even byte width: the refill the 6502 decoders leave out there   *)
(* is never due.                                                           *)
(***************************************************************************)
THEOREM RefillsAtControl == Spec => []RefillOnlyAtControl
<1>1. IInv => RefillOnlyAtControl
  BY DEF IInv, BitParity, RefillOnlyAtControl, Refill, Final
<1>2. QED
  BY <1>1, InvariantHolds, PTL

(***************************************************************************)
(* A rep match never reaches in front of the output.                       *)
(***************************************************************************)
THEOREM RepeatsInside == Spec => []RepeatInsideOutput
<1>1. IInv => RepeatInsideOutput
  BY DEF IInv
<1>2. QED
  BY <1>1, InvariantHolds, PTL

-----------------------------------------------------------------------------
(* A decoder on its own, with any file. *)
Loading ==
  \E file \in Seq(Byte), source \in Nat, dali \in BOOLEAN, fast \in BOOLEAN :
    Len(file) >= 2 /\ decrunch(file, source, dali, fast)

MachineSpec == MachineInit /\ [][Loading \/ MachineStep]_machineVars

(***************************************************************************)
(* The bit register: k zeros behind the marker, and above it the bits that *)
(* are left, ByteBits - 1 - k of them.                                     *)
(***************************************************************************)
Marked(b, k) == \E q \in Nat : b = 2 ^ k * (2 * q + 1)

OddLeft(b)  == b \in Byte /\ \E k \in 0 .. ByteBits - 1 : k % 2 = 0 /\ Marked(b, k)
EvenLeft(b) == b \in Byte /\ \E k \in 0 .. ByteBits - 1 : k % 2 = 1 /\ Marked(b, k)

LEMMA Cancel ==
  ASSUME NEW p \in Nat \ {0}, NEW a \in Int, NEW b \in Int, p * a = p * b
  PROVE  a = b
  OBVIOUS

LEMMA TopBitHalf == TopBit \in Nat \ {0} /\ 2 * TopBit = ByteValues
  BY FormatAssumption DEF TopBit

LEMMA PowerTypes ==
  ASSUME NEW k \in 0 .. ByteBits
  PROVE  /\ 2 ^ k \in Nat \ {0}
         /\ 2 ^ k * 2 ^ (ByteBits - k) = ByteValues
         /\ k < ByteBits => 2 ^ (k + 1) = 2 * 2 ^ k
  BY DcrunchAssumption

(* A byte's values in terms of a power that is a factor of a quarter of them. *)
LEMMA Factor ==
  ASSUME NEW k \in 0 .. ByteBits - 2
  PROVE  \E r \in Nat \ {0} : /\ ByteValues = 4 * (2 ^ k * r) /\ TopBit = 2 * (2 ^ k * r)
                              /\ 2 ^ (k + 1) = 2 * 2 ^ k
<1> DEFINE r == 2 ^ (ByteBits - (k + 2))
<1>1. ByteBits \in Nat /\ k \in Nat /\ k + 1 \in 0 .. ByteBits /\ k + 2 \in 0 .. ByteBits
  BY FormatAssumption
<1>2. ByteBits - (k + 2) \in 0 .. ByteBits
  BY <1>1
<1>3. r \in Nat \ {0}
  BY <1>2, PowerTypes
<1>4. 2 ^ k \in Nat \ {0} /\ 2 ^ (k + 1) = 2 * 2 ^ k
  BY <1>1, PowerTypes
<1>5. 2 ^ ((k + 1) + 1) = 2 * 2 ^ (k + 1)
  BY <1>1, PowerTypes
<1>6. (k + 1) + 1 = k + 2
  BY <1>1
<1>7. 2 ^ (k + 2) = 4 * 2 ^ k
  BY <1>4, <1>5, <1>6
<1>8. 2 ^ (k + 2) * r = ByteValues
  BY <1>1, PowerTypes
<1> HIDE DEF r
<1>9. ByteValues = 4 * (2 ^ k * r)
  BY <1>3, <1>4, <1>7, <1>8
<1>10. 2 ^ k * r \in Nat
  BY <1>3, <1>4
<1>11. TopBit = 2 * (2 ^ k * r)
  BY <1>9, <1>10, TopBitHalf
<1>12. QED
  BY <1>3, <1>4, <1>9, <1>11

LEMMA ShiftMarked ==
  ASSUME NEW k \in 0 .. ByteBits - 2, NEW b \in Byte, Marked(b, k)
  PROVE  Marked((2 * b) % ByteValues, k + 1)
<1>1. PICK r \in Nat \ {0} : ByteValues = 4 * (2 ^ k * r) /\ 2 ^ (k + 1) = 2 * 2 ^ k
  BY Factor
<1>2. PICK q \in Nat : b = 2 ^ k * (2 * q + 1)
  BY DEF Marked
<1>3. 2 ^ k \in Nat \ {0}
  BY PowerTypes, FormatAssumption
<1> DEFINE p == 2 ^ k
<1>4. 2 ^ (k + 1) = 2 * p /\ p \in Nat \ {0} /\ b = p * (2 * q + 1) /\ ByteValues = 4 * (p * r)
  BY <1>1, <1>2, <1>3
<1> HIDE DEF p
<1>5. 2 * b = (2 * p) * (2 * q + 1)
  BY <1>4
<1>6. CASE 2 * b < ByteValues
  <2>1. (2 * b) % ByteValues = 2 * b
    BY <1>6, FormatAssumption DEF Byte
  <2>2. QED
    BY <1>4, <1>5, <2>1 DEF Marked
<1>7. CASE ~(2 * b < ByteValues)
  <2>1. (2 * b) % ByteValues = 2 * b - ByteValues
    BY <1>7, FormatAssumption DEF Byte
  <2>2. 2 * b - ByteValues = (2 * p) * (2 * (q - r) + 1)
    BY <1>4, <1>5
  <2>3. (2 * p) * (2 * (q - r) + 1) >= 0
    BY <1>7, <2>2, FormatAssumption DEF Byte
  <2>4. 2 * (q - r) + 1 >= 0
    BY <1>4, <2>3
  <2>5. q - r \in Nat
    BY <2>4
  <2>6. QED
    BY <1>4, <2>1, <2>2, <2>5 DEF Marked
<1>8. QED
  BY <1>6, <1>7

LEMMA MarkerBelowTop ==
  ASSUME NEW k \in 0 .. ByteBits - 2, NEW b, Marked(b, k)
  PROVE  b \notin {0, TopBit}
<1>1. PICK r \in Nat \ {0} : TopBit = 2 * (2 ^ k * r)
  BY Factor
<1>2. PICK q \in Nat : b = 2 ^ k * (2 * q + 1)
  BY DEF Marked
<1>3. 2 ^ k \in Nat \ {0}
  BY PowerTypes, FormatAssumption
<1> DEFINE p == 2 ^ k
<1>4. p \in Nat \ {0} /\ b = p * (2 * q + 1) /\ TopBit = 2 * (p * r)
  BY <1>1, <1>2, <1>3
<1> HIDE DEF p
<1>5. TopBit = p * (2 * r)
  BY <1>4
<1>6. b # TopBit
  <2>1. SUFFICES ASSUME b = TopBit PROVE FALSE
    OBVIOUS
  <2>2. 2 * q + 1 = 2 * r
    BY <1>4, <1>5, <2>1, Cancel
  <2>3. QED
    BY <2>2
<1>7. b # 0
  <2>1. SUFFICES ASSUME b = 0 PROVE FALSE
    OBVIOUS
  <2>2. p * (2 * q + 1) = p * 0
    BY <1>4, <2>1
  <2>3. 2 * q + 1 = 0
    BY <1>4, <2>2, Cancel
  <2>4. QED
    BY <2>3
<1>8. QED
  BY <1>6, <1>7

(* The marker in front is the register that is empty but for it. *)
LEMMA MarkerOnTop ==
  ASSUME NEW b \in Byte, Marked(b, ByteBits - 1)
  PROVE  b = TopBit
<1> DEFINE p == 2 ^ (ByteBits - 1)
<1>1. ByteBits - 1 \in 0 .. ByteBits /\ ByteBits - 1 < ByteBits /\ (ByteBits - 1) + 1 = ByteBits
  BY FormatAssumption
<1>2. p \in Nat \ {0} /\ 2 ^ ByteBits = 2 * p
  BY <1>1, PowerTypes
<1>3. ByteValues = 2 * p
  BY <1>2, FormatAssumption
<1>4. PICK q \in Nat : b = p * (2 * q + 1)
  BY DEF Marked
<1> HIDE DEF p
<1>5. p * (2 * q + 1) < p * 2
  BY <1>2, <1>3, <1>4 DEF Byte
<1>6. 2 * q + 1 < 2
  BY <1>2, <1>5
<1>7. q = 0
  BY <1>6
<1>8. QED
  BY <1>2, <1>3, <1>4, <1>7, TopBitHalf

-----------------------------------------------------------------------------
(***************************************************************************)
(* The inductive invariant: the types of the registers, and at each label  *)
(* the parity of the bits left.  A control byte has an even number of bits *)
(* and is fetched for a control or a selector bit, which leaves an odd one; *)
(* payload bits, and the commands' own, are the second of a pair.          *)
(***************************************************************************)
Purposes == {"literals", "repeat", "high", "length"}
Even   == {"control", "lz_match"}
Odd    == Purposes \cup {"lz_start_over", "payload", "lz_cp_lit", "lz_cp_lit_fast",
                    "lz_cp_lit_done", "lz_offset_metadata", "lz_match_len2",
                    "lz_cp_match", "lz_cp_store"}
Labels == Even \cup Odd \cup {"off", "rts"}

Pointers == [lo : Int, hi : Int]

Signed == Int    \* where the width of a register does not matter

Registers == [
  pc : Labels, use : Purposes, sub : BOOLEAN, pushed : Seq(Byte),
  a : Byte, x : Signed, y : Byte, c : {0, 1}, lz_bits : Byte, lz_len_hi : Signed,
  lz_src : Pointers, lz_dst : Pointers, lz_fast_dst : Pointers,
  lz_offset_lo : Signed, lz_offset_hi : Signed, lz_msrcr : Pointers, lz_mdst : Pointers,
  lz_match_loop : {"lz_cp_match", "lz_cp_store"}]

Parity(s) ==
  /\ s.pc \in Even => EvenLeft(s.lz_bits)
  /\ s.pc \in Odd  => OddLeft(s.lz_bits)

Memory == cpu.pc # "off" => ram \in [0 .. RamSize - 1 -> Byte]

MachineInv == cpu \in Registers /\ Parity(cpu) /\ Memory

-----------------------------------------------------------------------------
(***************************************************************************)
(* The bit register from instruction to instruction.                       *)
(***************************************************************************)
LEMMA BytesAreNumbers == Byte \subseteq Nat /\ \A n \in Int : n % ByteValues \in Byte
  BY FormatAssumption DEF Byte

LEMMA ByteIsInt == ASSUME NEW b \in Byte PROVE b \in Int
  BY BytesAreNumbers

LEMMA TopBits == ASSUME NEW b \in Byte PROVE b \div TopBit \in {0, 1}
<1>1. b \in Nat /\ b < 2 * TopBit /\ TopBit \in Nat \ {0}
  BY TopBitHalf DEF Byte
<1>2. \A n \in Nat, t \in Nat \ {0} : n < 2 * t => n \div t \in {0, 1}
  OBVIOUS
<1>3. QED
  BY <1>1, <1>2

LEMMA ShiftedByte ==
  ASSUME NEW b \in Byte, NEW carry \in {0, 1}
  PROVE  (2 * b + carry) % ByteValues \in Byte /\ (2 * b) % ByteValues \in Byte
<1>1. b \in Nat
  BY BytesAreNumbers
<1>2. 2 * b + carry \in Int /\ 2 * b \in Int
  BY <1>1
<1>3. QED
  BY <1>2, BytesAreNumbers

LEMMA OddBit ==
  ASSUME NEW b, OddLeft(b)
  PROVE  b \notin {0, TopBit} /\ EvenLeft((2 * b) % ByteValues)
<1>1. PICK k \in 0 .. ByteBits - 1 : k % 2 = 0 /\ Marked(b, k)
  BY DEF OddLeft
<1>2. b \in Byte /\ ByteBits \in Nat /\ ByteBits % 2 = 0
  BY FormatAssumption DEF OddLeft
<1>3. k \in 0 .. ByteBits - 2
  BY <1>1, <1>2
<1>4. Marked((2 * b) % ByteValues, k + 1) /\ b \notin {0, TopBit}
  BY <1>1, <1>2, <1>3, ShiftMarked, MarkerBelowTop
<1>5. k + 1 \in 0 .. ByteBits - 1 /\ (k + 1) % 2 = 1
  BY <1>1, <1>2, <1>3
<1>6. (2 * b) % ByteValues \in Byte
  BY <1>2, BytesAreNumbers
<1>7. QED
  BY <1>4, <1>5, <1>6 DEF EvenLeft

LEMMA EvenBit ==
  ASSUME NEW b, EvenLeft(b)
  PROVE  \/ b = TopBit /\ (2 * b) % ByteValues = 0
         \/ (2 * b) % ByteValues # 0 /\ OddLeft((2 * b) % ByteValues)
<1>1. PICK k \in 0 .. ByteBits - 1 : k % 2 = 1 /\ Marked(b, k)
  BY DEF EvenLeft
<1>2. b \in Byte /\ ByteBits \in Nat /\ ByteBits % 2 = 0
  BY FormatAssumption DEF EvenLeft
<1>3. CASE k = ByteBits - 1
  <2>1. b = TopBit
    BY <1>1, <1>2, <1>3, MarkerOnTop
  <2>2. QED
    BY <2>1, TopBitHalf
<1>4. CASE k # ByteBits - 1
  <2>1. k \in 0 .. ByteBits - 3 /\ k \in 0 .. ByteBits - 2
    BY <1>1, <1>2, <1>4
  <2>2. Marked((2 * b) % ByteValues, k + 1)
    BY <1>1, <1>2, <2>1, ShiftMarked
  <2>3. k + 1 \in 0 .. ByteBits - 2 /\ k + 1 \in 0 .. ByteBits - 1 /\ (k + 1) % 2 = 0
    BY <1>1, <1>2, <2>1
  <2>4. (2 * b) % ByteValues \in Byte
    BY <1>2, BytesAreNumbers
  <2>5. QED
    BY <2>2, <2>3, <2>4, MarkerBelowTop DEF OddLeft
<1>5. QED
  BY <1>3, <1>4

(* A fetched byte with the marker behind it has all bits but the first left. *)
LEMMA NewByte ==
  ASSUME NEW b \in Byte
  PROVE  OddLeft((2 * b + 1) % ByteValues) /\ (2 * b + 1) % ByteValues # 0
<1> DEFINE n == (2 * b + 1) % ByteValues
<1>1. n \in Byte /\ n % 2 = 1
  BY FormatAssumption DEF Byte
<1> HIDE DEF n
<1>2. PICK q \in Nat : n = 2 * q + 1
  <2>1. n \div 2 \in Nat /\ n = 2 * (n \div 2) + 1
    BY <1>1, BytesAreNumbers
  <2>2. QED
    BY <2>1
<1>3. 2 ^ 0 = 1
  OBVIOUS
<1>4. Marked(n, 0)
  BY <1>2, <1>3 DEF Marked
<1>5. 0 \in 0 .. ByteBits - 1 /\ 0 % 2 = 0
  BY FormatAssumption
<1>6. OddLeft(n) /\ n # 0
  BY <1>1, <1>4, <1>5 DEF OddLeft
<1>7. QED
  BY <1>6 DEF n

-----------------------------------------------------------------------------
(***************************************************************************)
(* What the operators on the registers do.                                 *)
(***************************************************************************)
LEMMA PointerTypes ==
  ASSUME NEW p \in Pointers, NEW n \in Int
  PROVE  /\ Added(p, n) \in Pointers /\ NextPage(p) \in Pointers
         /\ PageBefore(p) \in Pointers
  BY FormatAssumption DEF Pointers, Added, NextPage, PageBefore

LEMMA ByteFurther == ASSUME NEW p \in Pointers PROVE Added(p, 1) \in Pointers
<1>1. 1 \in Int
  OBVIOUS
<1>2. QED
  BY <1>1, PointerTypes

LEMMA ReadType ==
  ASSUME ram \in [0 .. RamSize - 1 -> Byte], NEW address
  PROVE  Read(address) \in Byte
  BY FormatAssumption DEF Read, Unused, Byte

LEMMA BitTaken ==
  ASSUME NEW s \in Registers
  PROVE  /\ get_lz_bit(s) \in Registers
         /\ get_lz_bit(s).pc = s.pc /\ get_lz_bit(s).use = s.use
         /\ OddLeft(s.lz_bits) => EvenLeft(get_lz_bit(s).lz_bits)
         /\ EvenLeft(s.lz_bits) =>
              \/ get_lz_bit(s).lz_bits = 0 /\ get_lz_bit(s).c = 1
              \/ get_lz_bit(s).lz_bits # 0 /\ OddLeft(get_lz_bit(s).lz_bits)
<1>1. s.lz_bits \in Byte
  BY DEF Registers
<1>2. s.lz_bits \div TopBit \in {0, 1} /\ (2 * s.lz_bits) % ByteValues \in Byte
  BY <1>1, TopBits, ShiftedByte
<1>3. TopBit \div TopBit = 1
  <2>1. \A n \in Nat \ {0} : n \div n = 1
    OBVIOUS
  <2>2. QED
    BY <2>1, TopBitHalf
<1> DEFINE t == get_lz_bit(s)
<1>4. /\ t \in Registers /\ t.pc = s.pc /\ t.use = s.use
      /\ t.c = s.lz_bits \div TopBit /\ t.lz_bits = (2 * s.lz_bits) % ByteValues
  BY <1>2 DEF get_lz_bit, Registers
<1> HIDE DEF t
<1>5. OddLeft(s.lz_bits) => EvenLeft(t.lz_bits)
  BY <1>4, OddBit
<1>6. EvenLeft(s.lz_bits) => \/ t.lz_bits = 0 /\ t.c = 1
                             \/ t.lz_bits # 0 /\ OddLeft(t.lz_bits)
  BY <1>3, <1>4, EvenBit
<1>7. QED
  BY <1>4, <1>5, <1>6 DEF t

LEMMA Rolled ==
  ASSUME NEW s \in Registers
  PROVE  /\ rol(s) \in Registers /\ rol(s).pc = s.pc /\ rol(s).use = s.use
         /\ rol(s).lz_bits = s.lz_bits
<1>1. s.a \in Byte /\ s.c \in {0, 1}
  BY DEF Registers
<1>2. s.a \div TopBit \in {0, 1} /\ (2 * s.a + s.c) % ByteValues \in Byte
  BY <1>1, TopBits, ShiftedByte
<1>3. QED
  BY <1>2 DEF rol, Registers

LEMMA RefilledOdd ==
  ASSUME ram \in [0 .. RamSize - 1 -> Byte], NEW s \in Registers, s.c = 1
  PROVE  /\ Refilled(s) \in Registers /\ Refilled(s).pc = s.pc /\ Refilled(s).use = s.use
         /\ OddLeft(Refilled(s).lz_bits)
<1>1. Fetched(s) \in Byte
  BY ReadType DEF Fetched
<1>2. Fetched(s) \div TopBit \in {0, 1}
  BY <1>1, TopBits
<1>3. OddLeft((2 * Fetched(s) + s.c) % ByteValues)
  BY <1>1, NewByte
<1>4. (2 * Fetched(s) + s.c) % ByteValues \in Byte
  BY <1>3 DEF OddLeft
<1>5. Added(s.lz_src, 1) \in Pointers
  <2>1. s.lz_src \in Pointers
    BY DEF Registers
  <2>2. QED
    BY <2>1, ByteFurther
<1>6. QED
  BY <1>2, <1>3, <1>4, <1>5 DEF Refilled, Registers

LEMMA Going ==
  ASSUME NEW s \in Registers, NEW label \in Labels
  PROVE  /\ GoTo(s, label) \in Registers /\ GoTo(s, label).pc = label
         /\ GoTo(s, label).lz_bits = s.lz_bits
  BY DEF GoTo, Registers

LEMMA NumberStarts ==
  ASSUME NEW s \in Registers, NEW purpose \in Purposes, NEW bit \in {"control", "payload"}
  PROVE  /\ ReadNumber(s, purpose, bit) \in Registers
         /\ ReadNumber(s, purpose, bit).pc = bit
         /\ ReadNumber(s, purpose, bit).lz_bits = s.lz_bits
  BY DEF ReadNumber, Registers, Labels, Even, Odd

LEMMA NumberEnds ==
  ASSUME NEW s \in Registers
  PROVE  /\ Returned(s) \in Registers /\ Returned(s).use = s.use
         /\ Returned(s).lz_bits = s.lz_bits
<1>1. CASE s.pushed = <<>>
  BY <1>1 DEF Returned
<1>2. CASE s.pushed # <<>>
  <2>1. s.pushed \in Seq(Byte) /\ s.a \in Byte
    BY DEF Registers
  <2>2. s.pushed[1] \in Byte /\ <<>> \in Seq(Byte)
    <3>1. \A bytes \in Seq(Byte) : bytes # <<>> => bytes[1] \in Byte
      OBVIOUS
    <3>2. <<>> \in Seq(Byte)
      OBVIOUS
    <3>3. QED
      BY <1>2, <2>1, <3>1, <3>2
  <2>3. (IF s.pushed[1] = 0 THEN s.a - 1 ELSE s.a) \in Signed
    <3>1. s.a \in Signed
      BY <2>1, ByteIsInt DEF Signed
    <3>2. s.a - 1 \in Signed
      BY <3>1 DEF Signed
    <3>3. QED
      BY <3>1, <3>2
  <2>4. QED
    BY <1>2, <2>2, <2>3 DEF Returned, Registers
<1>3. QED
  BY <1>1, <1>2

LEMMA BitChecked ==
  ASSUME ram \in [0 .. RamSize - 1 -> Byte], NEW s \in Registers, EvenLeft(s.lz_bits)
  PROVE  /\ CheckedBit(s) \in Registers /\ OddLeft(CheckedBit(s).lz_bits)
  BY BitTaken, RefilledOdd DEF CheckedBit

(* A bit of a register that has an odd number of them needs no new byte. *)
LEMMA BitAtHand ==
  ASSUME NEW s \in Registers, OddLeft(s.lz_bits)
  PROVE  /\ get_lz_bit(s).lz_bits # 0
         /\ CheckedBit(s) = get_lz_bit(s)
<1>1. EvenLeft(get_lz_bit(s).lz_bits)
  BY BitTaken
<1>2. get_lz_bit(s).lz_bits # 0
  <2>1. SUFFICES ASSUME get_lz_bit(s).lz_bits = 0 PROVE FALSE
    OBVIOUS
  <2>2. PICK k \in 0 .. ByteBits - 1 : Marked(0, k)
    BY <1>1, <2>1 DEF EvenLeft
  <2>3. PICK q \in Nat : 0 = 2 ^ k * (2 * q + 1)
    BY <2>2 DEF Marked
  <2>4. k \in 0 .. ByteBits
    BY FormatAssumption
  <2>5. 2 ^ k \in Nat \ {0}
    BY <2>4, PowerTypes
  <2>6. 2 ^ k * (2 * q + 1) = 2 ^ k * 0
    BY <2>3, <2>5
  <2>7. 2 * q + 1 = 0
    BY <2>5, <2>6, Cancel
  <2>8. QED
    BY <2>7
<1>3. QED
  BY <1>2 DEF CheckedBit

-----------------------------------------------------------------------------
(***************************************************************************)
(* The invariant holds in the beginning and is kept by every action.       *)
(***************************************************************************)
LEMMA InitMachineInv == MachineInit => MachineInv
<1> SUFFICES ASSUME MachineInit PROVE MachineInv
  OBVIOUS
<1>1. Pointer(0) \in Pointers
  BY FormatAssumption DEF Pointer, Pointers
<1>2. 0 \in Byte /\ 0 \in Signed /\ <<>> \in Seq(Byte)
  BY FormatAssumption DEF Byte, Signed
<1>3. cpu \in Registers /\ cpu.pc = "off"
  BY <1>1, <1>2 DEF MachineInit, Registers, Labels, Purposes
<1>4. QED
  BY <1>3 DEF MachineInv, Parity, Memory, Even, Odd, Purposes

(* $40: the marker has one bit above it. *)
LEMMA FirstBits == OddLeft(TopBit \div 2) /\ TopBit \div 2 \in Byte
<1> DEFINE k == ByteBits - 2
<1>1. k \in 0 .. ByteBits - 2 /\ k \in 0 .. ByteBits - 1 /\ k \in 0 .. ByteBits /\ k % 2 = 0
  BY FormatAssumption
<1>2. ByteBits - k = 2
  BY FormatAssumption
<1>3. 2 ^ k \in Nat \ {0} /\ 2 ^ k * 2 ^ 2 = ByteValues
  BY <1>1, <1>2, PowerTypes
<1>4. 2 ^ 2 = 4
  OBVIOUS
<1> HIDE DEF k
<1>5. TopBit = 2 * 2 ^ k
  BY <1>3, <1>4, TopBitHalf
<1>6. TopBit \div 2 = 2 ^ k
  <2>1. \A p \in Nat : (2 * p) \div 2 = p
    OBVIOUS
  <2>2. QED
    BY <1>3, <1>5, <2>1
<1>7. TopBit \div 2 = 2 ^ k * (2 * 0 + 1)
  BY <1>3, <1>6
<1>8. Marked(TopBit \div 2, k)
  BY <1>7 DEF Marked
<1>9. TopBit \div 2 \in Byte
  BY <1>3, <1>4, <1>6 DEF Byte
<1>10. QED
  BY <1>1, <1>8, <1>9 DEF OddLeft

LEMMA LoadingKeeps == ASSUME MachineInv, Loading PROVE MachineInv'
<1>1. PICK file \in Seq(Byte), source \in Nat, dali \in BOOLEAN, fast \in BOOLEAN :
        Len(file) >= 2 /\ decrunch(file, source, dali, fast)
  BY DEF Loading
<1>2. ram' \in [0 .. RamSize - 1 -> Byte]
  <2>1. Unused \in Byte
    BY FormatAssumption DEF Unused, Byte
  <2>2. QED
    BY <1>1, <2>1 DEF decrunch
<1>3. file[1] \in Int /\ file[2] \in Int
  <2>1. \A bytes \in Seq(Byte) : Len(bytes) >= 2 => bytes[1] \in Byte /\ bytes[2] \in Byte
    OBVIOUS
  <2>2. file[1] \in Byte /\ file[2] \in Byte
    BY <1>1, <2>1
  <2>3. QED
    BY <2>2, ByteIsInt
<1>4. Added(Added(Pointer(source), 1), 1) \in Pointers
  <2>1. Pointer(source) \in Pointers
    BY FormatAssumption DEF Pointer, Pointers
  <2>2. Added(Pointer(source), 1) \in Pointers
    BY <2>1, ByteFurther
  <2>3. QED
    BY <2>2, ByteFurther
<1>5. [hi |-> file[1], lo |-> file[2]] \in Pointers
  BY <1>3 DEF Pointers
<1>6. 0 \in Byte /\ cpu \in Registers
  BY FormatAssumption DEF Byte, MachineInv
<1>7. cpu' \in Registers /\ cpu'.pc = "lz_start_over" /\ cpu'.lz_bits = TopBit \div 2
  <2> DEFINE from == Added(Added(Pointer(source), 1), 1)
             to   == [hi |-> file[1], lo |-> file[2]]
             bits == TopBit \div 2
  <2>1. cpu' = [cpu EXCEPT
                  !.pc = "lz_start_over", !.a = 0, !.x = 0, !.y = 0, !.lz_bits = bits,
                  !.lz_src = from, !.lz_dst = to,
                  !.lz_len_hi = 0, !.lz_offset_lo = 0, !.lz_offset_hi = 0,
                  !.lz_match_loop = "lz_cp_store"]
    BY <1>1 DEF decrunch
  <2>2. from \in Pointers /\ to \in Pointers /\ bits \in Byte
    BY <1>4, <1>5, FirstBits
  <2> HIDE DEF from, to, bits
  <2>3. cpu' \in Registers /\ cpu'.pc = "lz_start_over" /\ cpu'.lz_bits = bits
    <3>1. 0 \in Byte /\ 0 \in Signed /\ "lz_start_over" \in Labels
      BY FormatAssumption DEF Byte, Signed, Labels, Odd
    <3>2. QED
      BY <1>6, <2>1, <2>2, <3>1 DEF Registers
  <2>4. QED
    BY <2>3 DEF bits
<1>8. QED
  BY <1>2, <1>7, FirstBits DEF MachineInv, Parity, Memory, Even

(* A step that only changes the registers. *)
LEMMA BecomeKeeps ==
  ASSUME MachineInv, cpu.pc # "off", NEW s \in Registers, Become(s), Parity(s)
  PROVE  MachineInv'
  BY DEF MachineInv, Become, Parity, Memory

LEMMA StoreKeeps ==
  ASSUME MachineInv, cpu.pc # "off", NEW address, NEW byte \in Byte, Store(address, byte),
         cpu' \in Registers, Parity(cpu)'
  PROVE  MachineInv'
<1>1. ram \in [0 .. RamSize - 1 -> Byte]
  BY DEF MachineInv, Memory
<1>2. ram' \in [0 .. RamSize - 1 -> Byte]
  BY <1>1 DEF Store
<1>3. QED
  BY <1>2 DEF MachineInv, Memory

LEMMA EvenPlace ==
  ASSUME NEW s, s.pc \in Even, EvenLeft(s.lz_bits)
  PROVE  Parity(s) /\ s.pc \in Labels /\ s.pc # "off"
  BY DEF Parity, Even, Odd, Purposes, Labels

LEMMA OddPlace ==
  ASSUME NEW s, s.pc \in Odd, OddLeft(s.lz_bits)
  PROVE  Parity(s) /\ s.pc \in Labels /\ s.pc # "off"
  BY DEF Parity, Even, Odd, Purposes, Labels

(* What is known where a step starts. *)
LEMMA AtOdd ==
  ASSUME MachineInv, cpu.pc \in Odd
  PROVE  /\ cpu \in Registers /\ OddLeft(cpu.lz_bits) /\ cpu.pc # "off"
         /\ ram \in [0 .. RamSize - 1 -> Byte]
  BY DEF MachineInv, Parity, Memory, Odd, Purposes

LEMMA AtEven ==
  ASSUME MachineInv, cpu.pc \in Even
  PROVE  /\ cpu \in Registers /\ EvenLeft(cpu.lz_bits) /\ cpu.pc # "off"
         /\ ram \in [0 .. RamSize - 1 -> Byte]
  BY DEF MachineInv, Parity, Memory, Even

LEMMA SmallBytes ==
  /\ 0 \in Byte /\ 1 \in Byte /\ ByteValues - 2 \in Byte
  /\ 0 \in Signed /\ \A n \in Int : n \in Signed
  BY FormatAssumption DEF Byte, Signed

LEMMA StartOverKeeps == ASSUME MachineInv, lz_start_over PROVE MachineInv'
<1> DEFINE s0 == [cpu EXCEPT !.a = 1]
           s  == CheckedBit(s0)
           t  == IF s.c = 0 THEN ReadNumber(s, "literals", "control") ELSE GoTo(s, "lz_match")
<1>1. Become(t)
  BY DEF lz_start_over
<1>2. /\ cpu \in Registers /\ OddLeft(cpu.lz_bits) /\ cpu.pc # "off"
  BY AtOdd DEF lz_start_over, Odd
<1>3. s0 \in Registers /\ OddLeft(s0.lz_bits)
  BY <1>2, SmallBytes DEF Registers
<1>4. s \in Registers /\ EvenLeft(s.lz_bits)
  BY <1>3, BitAtHand, BitTaken
<1> HIDE DEF s
<1>5. t \in Registers /\ t.pc \in Even /\ EvenLeft(t.lz_bits)
  BY <1>4, NumberStarts, Going, SMTT(30) DEF Purposes, Even, Labels
<1> HIDE DEF t
<1>6. QED
  BY <1>1, <1>2, <1>5, EvenPlace, BecomeKeeps

LEMMA LiteralCompleteKeeps == ASSUME MachineInv, lz_literal_complete PROVE MachineInv'
<1> DEFINE s0 == [cpu EXCEPT !.a = 0]
           s1 == rol(s0)
           s  == get_lz_bit(s1)
           t  == IF s.c = 0 THEN ReadNumber(s, "repeat", "control") ELSE GoTo(s, "lz_match")
<1>1. Become(t)
  BY DEF lz_literal_complete
<1>2. /\ cpu \in Registers /\ OddLeft(cpu.lz_bits) /\ cpu.pc # "off"
  BY AtOdd DEF lz_literal_complete, Odd
<1>3. s0 \in Registers /\ OddLeft(s0.lz_bits)
  BY <1>2, SmallBytes DEF Registers
<1>4. s1 \in Registers /\ OddLeft(s1.lz_bits)
  BY <1>3, Rolled
<1>5. s \in Registers /\ EvenLeft(s.lz_bits)
  BY <1>4, BitTaken
<1> HIDE DEF s
<1>6. t \in Registers /\ t.pc \in Even /\ EvenLeft(t.lz_bits)
  BY <1>5, NumberStarts, Going, SMTT(30) DEF Purposes, Even, Labels
<1> HIDE DEF t
<1>7. QED
  BY <1>1, <1>2, <1>6, EvenPlace, BecomeKeeps

LEMMA PayloadKeeps == ASSUME MachineInv, Payload PROVE MachineInv'
<1> DEFINE s0 == get_lz_bit(cpu)
           s  == rol(s0)
           n  == [s EXCEPT !.pushed = <<s.a>>, !.a = s.y]
           u  == IF s.sub /\ s.c = 1 THEN rol(n) ELSE s
<1>1. Become(GoTo(u, "control"))
  BY DEF Payload
<1>2. /\ cpu \in Registers /\ OddLeft(cpu.lz_bits) /\ cpu.pc # "off"
  BY AtOdd DEF Payload, Odd
<1>3. s0 \in Registers /\ EvenLeft(s0.lz_bits)
  BY <1>2, BitTaken
<1>4. s \in Registers /\ EvenLeft(s.lz_bits)
  BY <1>3, Rolled
<1> HIDE DEF s
<1>5. n \in Registers /\ n.lz_bits = s.lz_bits
  <2>1. s.a \in Byte /\ s.y \in Byte
    BY <1>4 DEF Registers
  <2>2. <<s.a>> \in Seq(Byte)
    BY <2>1
  <2>3. QED
    BY <1>4, <2>1, <2>2 DEF Registers
<1> HIDE DEF n
<1>6. u \in Registers /\ EvenLeft(u.lz_bits)
  BY <1>4, <1>5, Rolled
<1> HIDE DEF u
<1>7. "control" \in Even /\ "control" \in Labels
  BY DEF Even, Labels
<1>8. QED
  BY <1>1, <1>2, <1>6, <1>7, Going, EvenPlace, BecomeKeeps

LEMMA ControlKeeps == ASSUME MachineInv, Control PROVE MachineInv'
<1> DEFINE s  == get_lz_bit(cpu)
           s1 == [s EXCEPT !.sub = TRUE, !.x = s.a, !.y = IF s.use = "length" THEN 0 ELSE @]
           t  == Refilled(s1)
<1>1. Become(IF s.c = 0 THEN GoTo(s, "payload")
             ELSE IF s.lz_bits # 0 THEN GoTo(Returned(s), s.use)
             ELSE IF t.c = 0 THEN GoTo(t, "payload")
             ELSE GoTo(Returned(t), t.use))
  BY DEF Control
<1>2. /\ cpu \in Registers /\ EvenLeft(cpu.lz_bits) /\ cpu.pc # "off"
      /\ ram \in [0 .. RamSize - 1 -> Byte]
  BY AtEven DEF Control, Even
<1>3. /\ s \in Registers
      /\ \/ s.lz_bits = 0 /\ s.c = 1
         \/ s.lz_bits # 0 /\ OddLeft(s.lz_bits)
  BY <1>2, BitTaken
<1> HIDE DEF s
<1>4. s.lz_bits = 0 => t \in Registers /\ OddLeft(t.lz_bits)
  <2>1. s.a \in Signed /\ (IF s.use = "length" THEN 0 ELSE s.y) \in Byte
    <3>1. s.a \in Byte /\ s.y \in Byte
      BY <1>3 DEF Registers
    <3>2. QED
      BY <3>1, ByteIsInt, SmallBytes
  <2>2. s1 \in Registers /\ s1.c = s.c
    BY <1>3, <2>1 DEF Registers
  <2>3. QED
    BY <1>2, <1>3, <2>2, RefilledOdd
<1> HIDE DEF t
<1>5. ASSUME NEW u \in Registers, OddLeft(u.lz_bits)
      PROVE  /\ GoTo(u, "payload") \in Registers /\ Parity(GoTo(u, "payload"))
             /\ GoTo(Returned(u), u.use) \in Registers /\ Parity(GoTo(Returned(u), u.use))
  <2>1. "payload" \in Odd /\ "payload" \in Labels
    BY DEF Odd, Labels
  <2>2. u.use \in Odd /\ u.use \in Labels
    BY DEF Registers, Odd, Labels
  <2>3. Returned(u) \in Registers /\ OddLeft(Returned(u).lz_bits)
    BY <1>5, NumberEnds
  <2>4. QED
    BY <1>5, <2>1, <2>2, <2>3, Going, OddPlace
<1>6. CASE s.lz_bits # 0
  BY <1>1, <1>2, <1>3, <1>5, <1>6, BecomeKeeps
<1>7. CASE s.lz_bits = 0
  BY <1>1, <1>2, <1>3, <1>4, <1>5, <1>7, BecomeKeeps
<1>8. QED
  BY <1>6, <1>7

-----------------------------------------------------------------------------
(* Copies take no bits. *)
LEMMA ByteCount ==
  ASSUME NEW n \in Byte
  PROVE  /\ (n + 1) % ByteValues \in Byte
         /\ (n - 1) % ByteValues \in Byte
         /\ ByteValues - 1 - n \in Byte
         /\ n >= FastFrom => ByteValues - n \in Byte
         /\ n \in Signed /\ n \in Int /\ n - 1 \in Signed /\ n + 1 \in Int
  BY FormatAssumption, DcrunchAssumption DEF Byte, Signed

LEMMA XSet ==
  ASSUME NEW s \in Registers, NEW n \in Signed
  PROVE  [s EXCEPT !.x = n] \in Registers /\ [s EXCEPT !.x = n].lz_bits = s.lz_bits
  BY DEF Registers

LEMMA PageBack ==
  ASSUME NEW p \in Pointers, NEW n \in Int
  PROVE  PageBefore(Added(p, n)) \in Pointers
<1> DEFINE q == Added(p, n)
<1>1. q \in Pointers
  BY PointerTypes
<1> HIDE DEF q
<1>2. 0 \in Int
  OBVIOUS
<1>3. PageBefore(q) \in Pointers
  BY <1>1, <1>2, PointerTypes
<1>4. QED
  BY <1>3 DEF q

LEMMA LiteralsKeeps == ASSUME MachineInv, lz_literals PROVE MachineInv'
<1> DEFINE s == [cpu EXCEPT !.x = cpu.a]
           from == PageBefore(Added(cpu.lz_src, cpu.a))
           to   == PageBefore(Added(cpu.lz_dst, cpu.a))
           rest == ByteValues - cpu.a
           fast == [s EXCEPT !.lz_src = from, !.lz_dst = to, !.lz_fast_dst = to,
                             !.y = rest, !.pc = "lz_cp_lit_fast"]
<1>1. cpu \in Registers /\ OddLeft(cpu.lz_bits) /\ cpu.pc # "off"
  BY AtOdd DEF lz_literals, Odd, Purposes
<1>2. cpu.a \in Byte /\ cpu.lz_src \in Pointers /\ cpu.lz_dst \in Pointers
  BY <1>1 DEF Registers
<1>3. cpu.a \in Signed
  BY <1>2, ByteCount
<1>4. s \in Registers /\ s.lz_bits = cpu.lz_bits
  BY <1>1, <1>3, XSet
<1>5. from \in Pointers /\ to \in Pointers
  BY <1>2, ByteIsInt, PageBack
<1>6. Become(IF build.fast /\ cpu.a >= FastFrom THEN fast ELSE GoTo(s, "lz_cp_lit"))
  <2>1. s.lz_src = cpu.lz_src /\ s.lz_dst = cpu.lz_dst
    BY <1>1 DEF Registers
  <2>2. QED
    BY <2>1 DEF lz_literals
<1> HIDE DEF s, from, to, rest
<1>7. {"lz_cp_lit", "lz_cp_lit_fast"} \subseteq Odd /\ {"lz_cp_lit", "lz_cp_lit_fast"} \subseteq Labels
  BY DEF Odd, Labels
<1>8. CASE build.fast /\ cpu.a >= FastFrom
  <2>1. rest \in Byte
    BY <1>2, <1>8, ByteCount DEF rest
  <2>2. fast = [s EXCEPT !.lz_src = from, !.lz_dst = to, !.lz_fast_dst = to,
                         !.y = rest, !.pc = "lz_cp_lit_fast"]
    OBVIOUS
  <2> HIDE DEF fast
  <2>3. fast \in Registers /\ fast.pc = "lz_cp_lit_fast" /\ fast.lz_bits = s.lz_bits
    BY <1>4, <1>5, <1>7, <2>1, <2>2 DEF Registers
  <2>4. QED
    BY <1>1, <1>4, <1>6, <1>7, <1>8, <2>3, OddPlace, BecomeKeeps
<1>9. CASE ~(build.fast /\ cpu.a >= FastFrom)
  BY <1>1, <1>4, <1>6, <1>7, <1>9, Going, OddPlace, BecomeKeeps
<1>10. QED
  BY <1>8, <1>9

LEMMA CopyLiteralKeeps == ASSUME MachineInv, lz_cp_lit PROVE MachineInv'
<1> DEFINE left == (cpu.x - 1) % ByteValues
           next == IF left # 0 THEN cpu.pc ELSE "lz_cp_lit_done"
<1>1. /\ cpu \in Registers /\ OddLeft(cpu.lz_bits) /\ cpu.pc # "off"
      /\ ram \in [0 .. RamSize - 1 -> Byte] /\ cpu.pc = "lz_cp_lit"
  BY AtOdd DEF lz_cp_lit, Odd
<1>2. Store(Address(cpu.lz_dst, cpu.y), Fetched(cpu)) /\ Fetched(cpu) \in Byte
  BY <1>1, ReadType DEF lz_cp_lit, Fetched
<1>3. left \in Signed
  <2>1. cpu.x \in Int
    BY <1>1 DEF Registers, Signed
  <2>2. cpu.x - 1 \in Int
    BY <2>1
  <2>3. left \in Byte
    BY <2>2, BytesAreNumbers
  <2>4. QED
    BY <2>3, ByteCount
<1>4. next \in Odd /\ next \in Labels
  BY <1>1 DEF Odd, Labels
<1>5. Added(cpu.lz_src, 1) \in Pointers /\ Added(cpu.lz_dst, 1) \in Pointers
  <2>1. cpu.lz_src \in Pointers /\ cpu.lz_dst \in Pointers
    BY <1>1 DEF Registers
  <2>2. QED
    BY <2>1, ByteFurther
<1>6. cpu' = [cpu EXCEPT !.lz_src = Added(cpu.lz_src, 1), !.lz_dst = Added(cpu.lz_dst, 1),
                         !.x = left, !.pc = next]
  BY DEF lz_cp_lit
<1> HIDE DEF left, next
<1>7. cpu' \in Registers /\ cpu'.pc = next /\ cpu'.lz_bits = cpu.lz_bits
  BY <1>1, <1>3, <1>4, <1>5, <1>6 DEF Registers
<1>8. Parity(cpu)'
  BY <1>1, <1>4, <1>7, OddPlace DEF Parity
<1>9. QED
  BY <1>1, <1>2, <1>7, <1>8, StoreKeeps

LEMMA CopyFastKeeps == ASSUME MachineInv, lz_cp_lit_fast PROVE MachineInv'
<1> DEFINE n == (cpu.y + 1) % ByteValues
           s == [cpu EXCEPT !.y = n]
<1>1. /\ cpu \in Registers /\ OddLeft(cpu.lz_bits) /\ cpu.pc # "off"
      /\ ram \in [0 .. RamSize - 1 -> Byte] /\ cpu.pc = "lz_cp_lit_fast"
  BY AtOdd DEF lz_cp_lit_fast, Odd
<1>2. Store(Address(cpu.lz_fast_dst, cpu.y), Fetched(cpu)) /\ Fetched(cpu) \in Byte
  BY <1>1, ReadType DEF lz_cp_lit_fast, Fetched
<1>3. n \in Byte
  <2>1. cpu.y \in Byte
    BY <1>1 DEF Registers
  <2>2. QED
    BY <2>1, ByteCount
<1> HIDE DEF n
<1>4. s \in Registers /\ s.y = n /\ s.pc = cpu.pc /\ s.lz_bits = cpu.lz_bits
  BY <1>1, <1>3 DEF Registers
<1>5. NextPage(s.lz_src) \in Pointers /\ NextPage(s.lz_dst) \in Pointers
  <2>1. s.lz_src \in Pointers /\ s.lz_dst \in Pointers /\ 0 \in Int
    BY <1>4 DEF Registers
  <2>2. QED
    BY <2>1, PointerTypes
<1>6. cpu' = IF s.y # 0 THEN s
             ELSE [s EXCEPT !.lz_src = NextPage(s.lz_src), !.lz_dst = NextPage(s.lz_dst),
                            !.c = 1, !.pc = "lz_cp_lit_done"]
  BY DEF lz_cp_lit_fast, n
<1> HIDE DEF s
<1>7. "lz_cp_lit_fast" \in Odd /\ "lz_cp_lit_done" \in Odd /\ "lz_cp_lit_done" \in Labels
  BY DEF Odd, Labels
<1>8. cpu' \in Registers /\ cpu'.pc \in Odd /\ cpu'.lz_bits = cpu.lz_bits
  BY <1>1, <1>4, <1>5, <1>6, <1>7 DEF Registers
<1>9. Parity(cpu)'
  BY <1>1, <1>8, OddPlace DEF Parity
<1>10. QED
  BY <1>1, <1>2, <1>8, <1>9, StoreKeeps

LEMMA PageKeeps == ASSUME MachineInv, lz_l_page PROVE MachineInv'
<1> DEFINE n == cpu.lz_len_hi - 1
           s == [cpu EXCEPT !.lz_len_hi = n]
           t == IF build.fast THEN [s EXCEPT !.lz_fast_dst = s.lz_dst, !.pc = "lz_cp_lit_fast"]
                ELSE GoTo(s, "lz_cp_lit")
<1>1. cpu \in Registers /\ OddLeft(cpu.lz_bits) /\ cpu.pc # "off"
  BY AtOdd DEF lz_l_page, Odd
<1>2. Become(t)
  BY DEF lz_l_page
<1>3. n \in Signed
  <2>1. cpu.lz_len_hi \in Signed
    BY <1>1 DEF Registers
  <2>2. QED
    BY <2>1 DEF Signed
<1> HIDE DEF n
<1>4. s \in Registers /\ s.lz_bits = cpu.lz_bits
  BY <1>1, <1>3 DEF Registers
<1> HIDE DEF s
<1>5. {"lz_cp_lit", "lz_cp_lit_fast"} \subseteq Odd /\ {"lz_cp_lit", "lz_cp_lit_fast"} \subseteq Labels
  BY DEF Odd, Labels
<1>6. t \in Registers /\ t.pc \in Odd /\ t.lz_bits = s.lz_bits
  <2>1. CASE build.fast
    BY <1>4, <1>5, <2>1 DEF Registers
  <2>2. CASE ~build.fast
    BY <1>4, <1>5, <2>2, Going
  <2>3. QED
    BY <2>1, <2>2
<1> HIDE DEF t
<1>7. QED
  BY <1>1, <1>2, <1>4, <1>6, OddPlace, BecomeKeeps
-----------------------------------------------------------------------------
(* The parts of a match. *)
LEMMA Halves ==
  ASSUME NEW n \in Int
  PROVE  n \div 2 \in Signed /\ n % 2 \in {0, 1}
  BY DEF Signed

LEMMA HighSet ==
  ASSUME NEW s \in Registers, NEW high \in Int
  PROVE  /\ WithHigh(s, high) \in Registers /\ WithHigh(s, high).pc = "lz_offset_metadata"
         /\ WithHigh(s, high).lz_bits = s.lz_bits
<1> DEFINE half == high \div 2
           low  == high % 2
<1>1. half \in Signed /\ low \in {0, 1}
  BY Halves
<1>2. WithHigh(s, high) = [s EXCEPT !.lz_offset_hi = half, !.c = low,
                                    !.pc = "lz_offset_metadata"]
  BY DEF WithHigh
<1>3. "lz_offset_metadata" \in Labels
  BY DEF Labels, Odd
<1> HIDE DEF half, low
<1> DEFINE set == [s EXCEPT !.lz_offset_hi = half, !.c = low]
<1>4. set \in Registers /\ set.lz_bits = s.lz_bits
  BY <1>1 DEF Registers
<1>5. WithHigh(s, high) = [set EXCEPT !.pc = "lz_offset_metadata"]
  BY <1>2
<1> HIDE DEF set
<1>6. QED
  BY <1>3, <1>4, <1>5 DEF Registers

LEMMA MatchKeeps == ASSUME MachineInv, lz_match PROVE MachineInv'
<1>1. /\ cpu \in Registers /\ EvenLeft(cpu.lz_bits) /\ cpu.pc # "off"
      /\ ram \in [0 .. RamSize - 1 -> Byte]
  BY AtEven DEF lz_match, Even
<1>2. CASE build.dali
  <2> DEFINE t == ReadNumber(cpu, "high", "control")
  <2>1. t \in Registers /\ t.pc \in Even /\ EvenLeft(t.lz_bits)
    BY <1>1, NumberStarts DEF Purposes, Even
  <2>2. Become(t)
    BY <1>2 DEF lz_match
  <2> HIDE DEF t
  <2>3. QED
    BY <1>1, <2>1, <2>2, EvenPlace, BecomeKeeps
<1>3. CASE ~build.dali
  <2> DEFINE s    == CheckedBit(cpu)
             high == Fetched(s)
             u    == [s EXCEPT !.lz_src = Added(s.lz_src, 1)]
             t    == IF s.c = 1 THEN WithHigh(s, 0)
                     ELSE IF high = 0 THEN GoTo(s, "rts") ELSE WithHigh(u, high)
  <2>1. s \in Registers /\ OddLeft(s.lz_bits)
    BY <1>1, BitChecked
  <2>2. Become(t)
    BY <1>3 DEF lz_match
  <2>3. high \in Int
    BY <1>1, ReadType, ByteIsInt DEF Fetched
  <2> HIDE DEF s, high
  <2>4. u \in Registers /\ u.lz_bits = s.lz_bits
    <3>1. Added(s.lz_src, 1) \in Pointers
      <4>1. s.lz_src \in Pointers
        BY <2>1 DEF Registers
      <4>2. QED
        BY <4>1, ByteFurther
    <3>2. QED
      BY <2>1, <3>1 DEF Registers
  <2> HIDE DEF u
  <2>5. t \in Registers /\ Parity(t)
    <3>1. "rts" \in Labels /\ "rts" \notin Even /\ "rts" \notin Odd
      BY DEF Labels, Even, Odd, Purposes
    <3>2. Parity(GoTo(s, "rts")) /\ GoTo(s, "rts") \in Registers
      BY <2>1, <3>1, Going DEF Parity
    <3>3. 0 \in Int /\ "lz_offset_metadata" \in Odd
      BY DEF Odd
    <3>4. WithHigh(s, 0) \in Registers /\ Parity(WithHigh(s, 0))
      BY <2>1, <3>3, HighSet, OddPlace
    <3>5. WithHigh(u, high) \in Registers /\ Parity(WithHigh(u, high))
      BY <2>1, <2>3, <2>4, <3>3, HighSet, OddPlace
    <3>6. QED
      BY <3>2, <3>4, <3>5
  <2> HIDE DEF t
  <2>6. QED
    BY <1>1, <2>2, <2>5, BecomeKeeps
<1>4. QED
  BY <1>2, <1>3

LEMMA DaliHighKeeps == ASSUME MachineInv, DaliHigh PROVE MachineInv'
<1> DEFINE n == cpu.a - 1
           t == IF cpu.sub /\ cpu.a = 0 THEN GoTo(cpu, "rts") ELSE WithHigh(cpu, n)
<1>1. cpu \in Registers /\ OddLeft(cpu.lz_bits) /\ cpu.pc # "off"
  BY AtOdd DEF DaliHigh, Odd, Purposes
<1>2. Become(t)
  BY DEF DaliHigh
<1>3. n \in Int
  <2>1. cpu.a \in Byte
    BY <1>1 DEF Registers
  <2>2. QED
    BY <2>1, ByteCount DEF Signed
<1> HIDE DEF n
<1>4. "rts" \in Labels /\ "rts" \notin Even /\ "rts" \notin Odd
  BY DEF Labels, Even, Odd, Purposes
<1>5. Parity(GoTo(cpu, "rts")) /\ GoTo(cpu, "rts") \in Registers
  BY <1>1, <1>4, Going DEF Parity
<1>6. "lz_offset_metadata" \in Odd
  BY DEF Odd
<1>7. WithHigh(cpu, n) \in Registers /\ Parity(WithHigh(cpu, n))
  BY <1>1, <1>3, <1>6, HighSet, OddPlace
<1>8. t \in Registers /\ Parity(t)
  BY <1>5, <1>7
<1> HIDE DEF t
<1>9. QED
  BY <1>1, <1>2, <1>8, BecomeKeeps

LEMMA OffsetSet ==
  ASSUME ram \in [0 .. RamSize - 1 -> Byte], NEW s \in Registers
  PROVE  WithOffset(s) \in Registers /\ WithOffset(s).lz_bits = s.lz_bits
<1> DEFINE byte == Fetched(s)
           low  == s.c * TopBit + byte \div 2
           bit  == byte % 2
           next == Added(s.lz_src, 1)
           loop == IF low = 0 /\ s.lz_offset_hi = 0 THEN "lz_cp_store" ELSE "lz_cp_match"
           last == ByteValues - 2
<1>1. byte \in Int
  BY ReadType, ByteIsInt DEF Fetched
<1>2. WithOffset(s) = [s EXCEPT !.lz_offset_lo = low, !.c = bit, !.lz_src = next,
                                !.lz_match_loop = loop, !.a = 1, !.y = last]
  BY DEF WithOffset
<1> HIDE DEF byte
<1>3. bit \in {0, 1}
  BY <1>1, Halves
<1>4. low \in Signed
  <2>1. s.c \in Int
    BY DEF Registers
  <2>2. QED
    BY <1>1, <2>1, TopBitHalf DEF Signed
<1>5. next \in Pointers
  <2>1. s.lz_src \in Pointers
    BY DEF Registers
  <2>2. QED
    BY <2>1, ByteFurther
<1>6. loop \in {"lz_cp_match", "lz_cp_store"}
  OBVIOUS
<1>7. last \in Byte /\ 1 \in Byte
  BY SmallBytes
<1> HIDE DEF low, bit, next, loop, last
<1> DEFINE read == [s EXCEPT !.lz_offset_lo = low, !.c = bit, !.lz_src = next]
<1>8. read \in Registers
  BY <1>3, <1>4, <1>5 DEF Registers
<1>9. [read EXCEPT !.lz_match_loop = loop, !.a = 1, !.y = last] \in Registers
  <2> HIDE DEF read
  <2>1. QED
    BY <1>6, <1>7, <1>8 DEF Registers
<1>10. WithOffset(s) = [read EXCEPT !.lz_match_loop = loop, !.a = 1, !.y = last]
  BY <1>2
<1>11. QED
  BY <1>9, <1>10

LEMMA OffsetKeeps == ASSUME MachineInv, lz_offset_metadata PROVE MachineInv'
<1> DEFINE s == WithOffset(cpu)
           t == IF s.c = 1 THEN GoTo(s, "lz_match_len2") ELSE ReadNumber(s, "length", "payload")
<1>1. /\ cpu \in Registers /\ OddLeft(cpu.lz_bits) /\ cpu.pc # "off"
      /\ ram \in [0 .. RamSize - 1 -> Byte]
  BY AtOdd DEF lz_offset_metadata, Odd
<1>2. Become(t)
  BY DEF lz_offset_metadata
<1>3. s \in Registers /\ OddLeft(s.lz_bits)
  BY <1>1, OffsetSet
<1> HIDE DEF s
<1>4. t \in Registers /\ t.pc \in Odd /\ OddLeft(t.lz_bits)
  BY <1>3, NumberStarts, Going DEF Purposes, Odd, Labels
<1> HIDE DEF t
<1>5. QED
  BY <1>1, <1>2, <1>4, OddPlace, BecomeKeeps

LEMMA BigSet ==
  ASSUME NEW s \in Registers, NEW n \in Byte
  PROVE  /\ Big(s, n) \in Registers /\ Big(s, n).pc = "lz_match_len2"
         /\ Big(s, n).lz_bits = s.lz_bits
<1> DEFINE rest == ByteValues - 1 - n
<1>1. Big(s, n) = [s EXCEPT !.a = n, !.y = rest, !.pc = "lz_match_len2"]
  BY DEF Big
<1>2. rest \in Byte
  BY ByteCount
<1>3. "lz_match_len2" \in Labels
  BY DEF Labels, Odd
<1> HIDE DEF rest
<1> DEFINE set == [s EXCEPT !.a = n, !.y = rest]
<1>4. set \in Registers /\ set.lz_bits = s.lz_bits
  BY <1>2 DEF Registers
<1>5. Big(s, n) = [set EXCEPT !.pc = "lz_match_len2"]
  BY <1>1
<1> HIDE DEF set
<1>6. QED
  BY <1>3, <1>4, <1>5 DEF Registers

LEMMA BigKeeps ==
  ASSUME MachineInv, cpu.pc # "off", NEW s \in Registers, OddLeft(s.lz_bits),
         NEW n \in Byte, Become(Big(s, n))
  PROVE  MachineInv'
<1> DEFINE t == Big(s, n)
<1>1. t \in Registers /\ t.pc = "lz_match_len2" /\ OddLeft(t.lz_bits)
  BY BigSet
<1>2. "lz_match_len2" \in Odd
  BY DEF Odd
<1>3. Become(t)
  OBVIOUS
<1> HIDE DEF t
<1>4. QED
  BY <1>1, <1>2, <1>3, OddPlace, BecomeKeeps

LEMMA RepeatKeeps == ASSUME MachineInv, lz_repeat PROVE MachineInv'
<1>1. cpu \in Registers /\ OddLeft(cpu.lz_bits) /\ cpu.pc # "off"
  BY AtOdd DEF lz_repeat, Odd, Purposes
<1>2. (cpu.a - 1) % ByteValues \in Byte
  <2>1. cpu.a \in Byte
    BY <1>1 DEF Registers
  <2>2. QED
    BY <2>1, ByteCount
<1>3. Become(Big(cpu, (cpu.a - 1) % ByteValues))
  BY DEF lz_repeat
<1>4. QED
  BY <1>1, <1>2, <1>3, BigKeeps

LEMMA LengthKeeps == ASSUME MachineInv, lz_match_len PROVE MachineInv'
<1> DEFINE n == cpu.lz_len_hi + 1
           u == [cpu EXCEPT !.lz_len_hi = n]
           s == IF cpu.sub /\ cpu.a = 0 THEN u ELSE cpu
<1>1. cpu \in Registers /\ OddLeft(cpu.lz_bits) /\ cpu.pc # "off"
  BY AtOdd DEF lz_match_len, Odd, Purposes
<1>2. Become(Big(s, cpu.a))
  BY DEF lz_match_len
<1>3. n \in Signed
  <2>1. cpu.lz_len_hi \in Signed
    BY <1>1 DEF Registers
  <2>2. QED
    BY <2>1 DEF Signed
<1>4. cpu.a \in Byte
  BY <1>1 DEF Registers
<1> HIDE DEF n
<1>5. u \in Registers /\ u.lz_bits = cpu.lz_bits
  BY <1>1, <1>3 DEF Registers
<1>6. s \in Registers /\ OddLeft(s.lz_bits)
  BY <1>1, <1>5
<1> HIDE DEF s
<1>7. QED
  BY <1>1, <1>2, <1>4, <1>6, BigKeeps

LEMMA EndFoundKeeps == ASSUME MachineInv, lz_match_len2 PROVE MachineInv'
<1> DEFINE end  == PageBefore(Added(cpu.lz_dst, cpu.a + 1))
           low  == end.lo - cpu.lz_offset_lo - 1
           from == [lo |-> low % ByteValues,
                    hi |-> end.hi - cpu.lz_offset_hi - (IF low < 0 THEN 1 ELSE 0)]
           page == end.hi
           t    == [cpu EXCEPT !.lz_dst = end, !.lz_mdst = end, !.lz_msrcr = from,
                               !.x = page, !.pc = "lz_cp_match"]
<1>1. cpu \in Registers /\ OddLeft(cpu.lz_bits) /\ cpu.pc # "off"
  BY AtOdd DEF lz_match_len2, Odd
<1>2. Become(t)
  BY DEF lz_match_len2
<1>3. end \in Pointers
  <2>1. cpu.a \in Byte /\ cpu.lz_dst \in Pointers
    BY <1>1 DEF Registers
  <2>2. cpu.a + 1 \in Int
    BY <2>1, ByteCount
  <2>3. QED
    BY <2>1, <2>2, PageBack
<1> HIDE DEF end
<1>4. from \in Pointers /\ page \in Signed
  <2>1. end.lo \in Int /\ end.hi \in Int
    BY <1>3 DEF Pointers
  <2>2. cpu.lz_offset_lo \in Int /\ cpu.lz_offset_hi \in Int
    BY <1>1 DEF Registers, Signed
  <2>3. low \in Int /\ end.hi - cpu.lz_offset_hi - (IF low < 0 THEN 1 ELSE 0) \in Int
    BY <2>1, <2>2
  <2> HIDE DEF low
  <2>4. low % ByteValues \in Int
    <3>1. low % ByteValues \in Byte
      BY <2>3, BytesAreNumbers
    <3>2. QED
      BY <3>1, ByteIsInt
  <2>5. QED
    BY <2>1, <2>3, <2>4 DEF Pointers, Signed
<1>5. "lz_cp_match" \in Odd /\ "lz_cp_match" \in Labels
  BY DEF Odd, Labels
<1> HIDE DEF from, page
<1>6. t \in Registers /\ t.pc \in Odd /\ t.lz_bits = cpu.lz_bits
  BY <1>1, <1>3, <1>4, <1>5 DEF Registers
<1> HIDE DEF t
<1>7. QED
  BY <1>1, <1>2, <1>6, OddPlace, BecomeKeeps

(* At a page end, X counts up and goes into the high byte of lz_dst. *)
LEMMA HighByteSet ==
  ASSUME NEW s \in Registers, NEW n \in Signed
  PROVE  /\ [s EXCEPT !.x = n, !.lz_dst.hi = n] \in Registers
         /\ [s EXCEPT !.x = n, !.lz_dst.hi = n].lz_bits = s.lz_bits
<1> DEFINE to == [s.lz_dst EXCEPT !.hi = n]
<1>1. s.lz_dst \in Pointers
  BY DEF Registers
<1>2. to \in Pointers
  BY <1>1 DEF Pointers, Signed
<1>3. [s EXCEPT !.x = n, !.lz_dst.hi = n] = [s EXCEPT !.x = n, !.lz_dst = to]
  OBVIOUS
<1> HIDE DEF to
<1>4. QED
  BY <1>2, <1>3 DEF Registers

LEMMA CopyMatchKeeps == ASSUME MachineInv, lz_cp_match PROVE MachineInv'
<1> DEFINE byte == IF cpu.pc = "lz_cp_match" THEN Read(Address(cpu.lz_msrcr, cpu.y)) ELSE cpu.a
           n    == (cpu.y + 1) % ByteValues
           s    == [cpu EXCEPT !.a = byte, !.y = n]
           high == cpu.x + 1
           page == [s EXCEPT !.x = high, !.lz_dst.hi = high]
           left == page.lz_len_hi - 1
           from == NextPage(page.lz_msrcr)
           to   == NextPage(page.lz_mdst)
           on   == [page EXCEPT !.lz_len_hi = left, !.lz_msrcr = from,
                                !.lz_mdst = to, !.pc = "lz_cp_match"]
           t    == IF s.y # 0 THEN GoTo(s, s.lz_match_loop)
                   ELSE IF page.lz_len_hi = 0 THEN GoTo(page, "lz_start_over") ELSE on
<1>1. /\ cpu \in Registers /\ OddLeft(cpu.lz_bits) /\ cpu.pc # "off"
      /\ ram \in [0 .. RamSize - 1 -> Byte]
  BY AtOdd DEF lz_cp_match, Odd
<1>2. byte \in Byte /\ n \in Byte /\ high \in Signed
  <2>1. cpu.a \in Byte /\ cpu.y \in Byte /\ cpu.x \in Signed
    BY <1>1 DEF Registers
  <2>2. byte \in Byte
    BY <1>1, <2>1, ReadType
  <2>3. n \in Byte
    BY <2>1, ByteCount
  <2>4. high \in Signed
    BY <2>1 DEF Signed
  <2>5. QED
    BY <2>2, <2>3, <2>4
<1>3. Store(Address(cpu.lz_mdst, cpu.y), byte)
  BY DEF lz_cp_match
<1>4. cpu' = t
  <2>1. s.x = cpu.x
    BY <1>1 DEF Registers
  <2>2. page = [s EXCEPT !.x = s.x + 1, !.lz_dst.hi = cpu.x + 1]
    BY <2>1
  <2>3. QED
    BY <2>2 DEF lz_cp_match
<1> HIDE DEF byte, n, high
<1>5. s \in Registers /\ s.lz_bits = cpu.lz_bits
  BY <1>1, <1>2 DEF Registers
<1> HIDE DEF s
<1>6. page \in Registers /\ page.lz_bits = s.lz_bits
  BY <1>2, <1>5, HighByteSet
<1> HIDE DEF page
<1>7. left \in Signed
  <2>1. page.lz_len_hi \in Signed
    BY <1>6 DEF Registers
  <2>2. QED
    BY <2>1 DEF Signed
<1>8. from \in Pointers /\ to \in Pointers
  <2>1. page.lz_msrcr \in Pointers /\ page.lz_mdst \in Pointers /\ 0 \in Int
    BY <1>6 DEF Registers
  <2>2. QED
    BY <2>1, PointerTypes
<1> HIDE DEF left, from, to
<1>9. "lz_cp_match" \in Odd /\ "lz_cp_match" \in Labels
      /\ "lz_start_over" \in Odd /\ "lz_start_over" \in Labels
  BY DEF Odd, Labels
<1>10. s.lz_match_loop \in Odd /\ s.lz_match_loop \in Labels
  BY <1>5 DEF Registers, Odd, Labels
<1>11. on \in Registers /\ on.pc \in Odd /\ on.lz_bits = page.lz_bits
  BY <1>6, <1>7, <1>8, <1>9 DEF Registers
<1> HIDE DEF on
<1>12. t \in Registers /\ t.pc \in Odd /\ OddLeft(t.lz_bits)
  BY <1>1, <1>5, <1>6, <1>9, <1>10, <1>11, Going
<1> HIDE DEF t
<1>13. Parity(cpu)'
  BY <1>4, <1>12, OddPlace DEF Parity
<1>14. QED
  BY <1>1, <1>2, <1>3, <1>4, <1>12, <1>13, StoreKeeps

-----------------------------------------------------------------------------
LEMMA IdleKeeps == ASSUME MachineInv, UNCHANGED machineVars PROVE MachineInv'
  BY DEF MachineInv, Parity, Memory, machineVars

(* The parity of the bits left holds at every label, whatever the file.    *)
THEOREM MachineInvariant == MachineSpec => []MachineInv
<1>1. MachineInit => MachineInv
  BY InitMachineInv
<1>2. MachineInv /\ [Loading \/ MachineStep]_machineVars => MachineInv'
  <2>1. SUFFICES ASSUME MachineInv, [Loading \/ MachineStep]_machineVars PROVE MachineInv'
    OBVIOUS
  <2>2. CASE Loading
    BY <2>1, <2>2, LoadingKeeps
  <2>3. CASE MachineStep
    BY <2>1, <2>3, StartOverKeeps, LiteralCompleteKeeps, PayloadKeeps, ControlKeeps,
       LiteralsKeeps, CopyLiteralKeeps, CopyFastKeeps, PageKeeps, MatchKeeps,
       DaliHighKeeps, OffsetKeeps, RepeatKeeps, LengthKeeps, EndFoundKeeps,
       CopyMatchKeeps
    DEF MachineStep
  <2>4. CASE UNCHANGED machineVars
    BY <2>1, <2>4, IdleKeeps
  <2>5. QED
    BY <2>1, <2>2, <2>3, <2>4
<1>3. QED
  BY <1>1, <1>2, PTL DEF MachineSpec

(* Where the decoders shift a bit out without asking whether the register  *)
(* is empty (lz_literal_complete, lz_get_loop), the marker is still behind *)
(* it; so it is at lz_start_over, which asks to no purpose.                *)
THEOREM MarkerStays == MachineSpec => []MarkerKept
<1>1. MachineInv => MarkerKept
  <2>1. SUFFICES ASSUME MachineInv, cpu.pc \in {"lz_start_over", "lz_cp_lit_done", "payload"}
                 PROVE  cpu.lz_bits \notin {0, TopBit}
    BY DEF MarkerKept
  <2>2. cpu.pc \in Odd
    BY <2>1 DEF Odd
  <2>3. QED
    BY <2>1, <2>2, AtOdd, OddBit
<1>2. QED
  BY <1>1, MachineInvariant, PTL
=============================================================================
