------------------------------ MODULE KcFormat ------------------------------
(***************************************************************************)
(* The constants of the Kabuto stream format (kc_format.h) and its length  *)
(* code (kc_format.c): an interlaced Elias gamma code whose payload is     *)
(* rotated, once it no longer fits a byte, so that a 6502 fetches the low  *)
(* byte first.                                                             *)
(*                                                                         *)
(* The width of a byte is a parameter.  ByteBits = 8 is the code; the      *)
(* constants below then have the values of kc_format.h.  A narrower byte   *)
(* shrinks every limit with it, so a small model reaches them all: the     *)
(* rotated lengths, the largest offset, the two-byte run.                  *)
(***************************************************************************)
EXTENDS Integers, FiniteSets, Sequences

CONSTANTS
  ByteBits,    \* bits in a byte: 8
  ByteValues   \* values of a byte: 256

ASSUME FormatAssumption ==
  /\ ByteBits \in Nat /\ ByteBits >= 2 /\ ByteBits % 2 = 0
  /\ ByteValues \in Nat /\ ByteValues >= 4 /\ ByteValues % 2 = 0
  /\ ByteValues = 2 ^ ByteBits

(* Powers of two, for the provers, which do not know the operator. *)
ASSUME PowerAssumption ==
  \A k \in 0 .. 2 * ByteBits : 2 ^ k \in Nat \ {0} /\ 2 ^ (k + 1) = 2 * 2 ^ k

Byte == 0 .. ByteValues - 1

LowOffsets == ByteValues \div 2                \* 128 offsets per high part
MIN_OFFSET == 1
MAX_OFFSET == (ByteValues - 1) * LowOffsets    \* 0x7f80
MAX_VARLEN == ByteValues * ByteValues - 1      \* 0xffff
EodHigh    == ByteValues                       \* 256, Dali's end of data
UINT32_MAX_HALF ==                             \* UINT32_MAX >> 1, four bytes wide
  LET top == ByteValues * ByteValues * LowOffsets
  IN  top * (ByteValues - 1) + (top - 1)

(***************************************************************************)
(* The bit of value at position k (0 is the least significant), as C       *)
(* tests it: (value & (1 << k)) != 0.                                      *)
(***************************************************************************)
Bit(value, k) == IF (value \div 2 ^ k) % 2 # 0 THEN 1 ELSE 0

(***************************************************************************)
(* How often value can be shifted right before it is 0.  No number that is *)
(* written is above MAX_VARLEN, so two bytes of the code's four are enough.*)
(***************************************************************************)
kc_floor_log2(value) == Cardinality({k \in 1 .. 2 * ByteBits : value \div 2 ^ k # 0})

kc_dali_length_bit_cost_NoEnd(value) == 2 * kc_floor_log2(value)    \* mutant

kc_dali_length_bit_cost(value) == IF value = 0 THEN 0 ELSE 2 * kc_floor_log2(value) + 1

(***************************************************************************)
(* The payload as it is written: values whose payload has ByteBits bits or *)
(* more have their low byte moved in front of the others.                  *)
(***************************************************************************)
Rotated(value, bits) ==
  LET payload == value - 2 ^ bits
  IN  IF bits < ByteBits
      THEN payload
      ELSE payload \div ByteValues + (payload % ByteValues) * 2 ^ (bits - ByteBits)

(***************************************************************************)
(* kc_write_dali_length for value >= 1: one <<0, bit>> pair per payload    *)
(* bit, most significant first, then the closing 1.  skip_first_bit drops  *)
(* the first of them.  (Value 0 is refused; no caller passes it.)          *)
(***************************************************************************)
kc_write_dali_length(value, skip_first_bit) ==
  LET bits    == kc_floor_log2(value)
      payload == Rotated(value, bits)
      code    == [i \in 1 .. 2 * bits + 1 |->
                    IF i = 2 * bits + 1 THEN 1
                    ELSE IF i % 2 = 1 THEN 0
                    ELSE Bit(payload, bits - i \div 2)]
  IN  IF skip_first_bit THEN Tail(code) ELSE code

(***************************************************************************)
(* The end of kc_read_dali_length: value is what the loop has gathered,    *)
(* marker the leading one (1 << kc_floor_log2(value)).                     *)
(***************************************************************************)
Unrotated_Not(value, marker) == value    \* mutant: the payload as it is read

Unrotated(value, marker) ==
  LET encoded == value - marker
      weight  == marker \div ByteValues
  IN  IF marker < ByteValues
      THEN value
      ELSE marker + (encoded % weight) * ByteValues + encoded \div weight
=============================================================================
