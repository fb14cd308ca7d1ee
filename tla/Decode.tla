------------------------------- MODULE Decode -------------------------------
(***************************************************************************)
(* The strict decoder of the command line program (decode.c), the oracle   *)
(* of --verify and --decompress.  One call of kc_decode_format reads a     *)
(* packed stream of any bytes whatsoever and either accepts it, with the   *)
(* output it describes, or reports an error.                               *)
(*                                                                         *)
(* Every bit or byte that is fetched is one step.  pc names what the next  *)
(* step does, use what the length code being read is for.                  *)
(***************************************************************************)
EXTENDS KcFormat

CONSTANTS
  Streams,       \* the packed streams a caller may pass
  Capacities,    \* and the sizes of its output buffer
  Formats        \* the values of dali_mode: FALSE is the native format

ASSUME DecodeAssumption ==
  /\ Streams \subseteq Seq(Byte)
  /\ Capacities \subseteq Nat
  /\ Formats \subseteq BOOLEAN

VARIABLES
  packed, output_cap, dali_mode,    \* the arguments of the call
  src_pos, bit_byte, bits_left,     \* bits_left: unread bits of bit_byte
  dst,                              \* the output so far
  state,                            \* 0 at the start, 1 after literals, 2 after a match
  last_offset,
  pc, use,
  value, marker,                    \* the length read so far and its leading one
  offset_high, offset

arguments == <<packed, output_cap, dali_mode>>
cursor    == <<src_pos, bit_byte, bits_left>>
registers == <<value, marker, offset_high, offset>>
vars == <<arguments, cursor, dst, state, last_offset, pc, use, registers>>

Uses  == {"literals", "rep", "high", "length"}
Final == {"ok", "error"}
PCs   == {"idle", "command", "selector", "high", "metadata", "control", "payload",
          "literals", "copy"} \cup Final

(***************************************************************************)
(* dc_read_byte and dc_read_bit.  The mask of the code is 2 ^ bits_left;   *)
(* the initial mask 0 and the mask 1 both make the next read fetch a byte, *)
(* so bits_left is 0 for the two.                                          *)
(***************************************************************************)
HasByte == src_pos < Len(packed)
TheByte == packed[src_pos + 1]
HasBit  == bits_left > 0 \/ HasByte
Refill  == bits_left = 0
TheBit  == IF Refill THEN Bit(TheByte, ByteBits - 1) ELSE Bit(bit_byte, bits_left - 1)

TakeByte == src_pos' = src_pos + 1 /\ UNCHANGED <<bit_byte, bits_left>>
TakeBit  == IF Refill
            THEN /\ src_pos' = src_pos + 1
                 /\ bit_byte' = TheByte
                 /\ bits_left' = ByteBits - 1
            ELSE bits_left' = bits_left - 1 /\ UNCHANGED <<src_pos, bit_byte>>

StartLength_AtControl(purpose, first) ==    \* mutant: the first bit is read again
  pc' = "control" /\ use' = purpose /\ value' = 1 /\ marker' = 1

StartLength(purpose, first) ==
  pc' = first /\ use' = purpose /\ value' = 1 /\ marker' = 1

Stop(verdict) ==
  /\ pc' = verdict
  /\ UNCHANGED <<dst, state, last_offset, use, registers>>

Fail == Stop("error") /\ UNCHANGED <<arguments, cursor>>

(***************************************************************************)
(* The call.  A null or empty stream is an error at once; otherwise the    *)
(* stream opens with the length of a literal run, without a command bit.   *)
(***************************************************************************)
kc_decode_format(stream, cap, dali) ==
  /\ pc = "idle"
  /\ packed' = stream /\ output_cap' = cap /\ dali_mode' = dali
  /\ src_pos' = 0 /\ bit_byte' = 0 /\ bits_left' = 0
  /\ dst' = <<>> /\ state' = 0 /\ last_offset' = 1
  /\ offset_high' = 0 /\ offset' = 1 /\ value' = 1 /\ marker' = 1
  /\ use' = "literals"
  /\ pc' = IF stream = <<>> THEN "error" ELSE "control"

ReadCommand ==
  /\ pc = "command" /\ HasBit
  /\ TakeBit
  /\ IF TheBit = 0
     THEN StartLength(IF state = 1 THEN "rep" ELSE "literals", "control")
     ELSE IF dali_mode
     THEN StartLength("high", "control")
     ELSE pc' = "selector" /\ UNCHANGED <<use, value, marker>>
  /\ UNCHANGED <<arguments, dst, state, last_offset, offset_high, offset>>

(* The native format's short offsets need no high part. *)
ReadSelector ==
  /\ pc = "selector" /\ HasBit
  /\ TakeBit
  /\ IF TheBit = 1
     THEN pc' = "metadata" /\ offset_high' = 0
     ELSE pc' = "high" /\ UNCHANGED offset_high
  /\ UNCHANGED <<arguments, dst, state, last_offset, use, value, marker, offset>>

(* The others have it in a byte; zero is the native end of data. *)
ReadHigh ==
  /\ pc = "high" /\ HasByte
  /\ TakeByte
  /\ offset_high' = TheByte
  /\ pc' = IF TheByte = 0 THEN "ok" ELSE "metadata"
  /\ UNCHANGED <<arguments, dst, state, last_offset, use, value, marker, offset>>

ReadMetadata ==
  /\ pc = "metadata" /\ HasByte
  /\ TakeByte
  /\ offset' = offset_high * LowOffsets + TheByte \div 2 + 1
  /\ IF TheByte % 2 = 1
     THEN pc' = "copy" /\ value' = 2 /\ UNCHANGED <<use, marker>>
     ELSE StartLength("length", "payload")
  /\ UNCHANGED <<arguments, dst, state, last_offset, offset_high>>

(***************************************************************************)
(* kc_read_dali_length: while the control bit is 0 a payload bit follows.  *)
(***************************************************************************)
ReadPayload ==
  /\ pc = "payload" /\ HasBit
  /\ IF value > UINT32_MAX_HALF
     THEN Fail
     ELSE /\ TakeBit
          /\ value' = 2 * value + TheBit
          /\ marker' = 2 * marker
          /\ pc' = "control"
          /\ UNCHANGED <<arguments, dst, state, last_offset, use, offset_high, offset>>

Continue ==
  /\ pc = "control" /\ HasBit /\ TheBit = 0
  /\ TakeBit
  /\ pc' = "payload"
  /\ UNCHANGED <<arguments, dst, state, last_offset, use, registers>>

(***************************************************************************)
(* The closing 1, and the test its reader makes of the decoded number: for *)
(* a length dc_read_length's range, for Dali's high part the end of data   *)
(* and the range of a byte.  A new match is one byte longer than its code. *)
(***************************************************************************)
Number == Unrotated(value, marker)

AcceptLength(next, limit, length) ==
  IF Number = 0 \/ Number > limit
  THEN Stop("error")
  ELSE /\ pc' = next
       /\ value' = length
       /\ UNCHANGED <<dst, state, last_offset, use, marker, offset_high>>
       /\ offset' = IF use = "rep" THEN last_offset ELSE offset

AcceptHigh ==
  IF Number = EodHigh THEN Stop("ok")
  ELSE IF Number = 0 \/ Number > EodHigh - 1 THEN Stop("error")
  ELSE /\ pc' = "metadata"
       /\ offset_high' = Number - 1
       /\ UNCHANGED <<dst, state, last_offset, use, value, marker, offset>>

CloseNumber ==
  /\ pc = "control" /\ HasBit /\ TheBit = 1
  /\ TakeBit
  /\ \/ use = "literals" /\ AcceptLength("literals", MAX_VARLEN, Number)
     \/ use = "rep"      /\ AcceptLength("copy", MAX_VARLEN, Number)
     \/ use = "length"   /\ AcceptLength("copy", MAX_VARLEN - 1, Number + 1)
     \/ use = "high"     /\ AcceptHigh
  /\ UNCHANGED arguments

dc_copy_literals ==
  /\ pc = "literals"
  /\ IF value > output_cap - Len(dst) \/ value > Len(packed) - src_pos
     THEN Fail
     ELSE /\ dst' = dst \o SubSeq(packed, src_pos + 1, src_pos + value)
          /\ src_pos' = src_pos + value
          /\ state' = 1
          /\ pc' = "command"
          /\ UNCHANGED <<arguments, bit_byte, bits_left, last_offset, use, registers>>

(***************************************************************************)
(* dc_copy_match copies byte by byte, so a match that reaches its own      *)
(* output repeats the offset bytes before it.                              *)
(***************************************************************************)
Repeated(length) ==
  [k \in 1 .. length |-> dst[Len(dst) - offset + 1 + ((k - 1) % offset)]]

(* Mutants: no test of the capacity; last_offset set before the test. *)
dc_copy_match_NoCapacity ==
  /\ pc = "copy"
  /\ IF offset < MIN_OFFSET \/ offset > MAX_OFFSET \/ offset > Len(dst)
     THEN Fail
     ELSE /\ dst' = dst \o Repeated(value)
          /\ last_offset' = offset
          /\ state' = 2
          /\ pc' = "command"
          /\ UNCHANGED <<arguments, cursor, use, registers>>

dc_copy_match_EarlyOffset ==
  /\ pc = "copy"
  /\ last_offset' = offset
  /\ IF \/ offset < MIN_OFFSET \/ offset > MAX_OFFSET \/ offset > Len(dst)
        \/ value > output_cap - Len(dst)
     THEN pc' = "error" /\ UNCHANGED <<arguments, cursor, dst, state, use, registers>>
     ELSE /\ dst' = dst \o Repeated(value)
          /\ state' = 2
          /\ pc' = "command"
          /\ UNCHANGED <<arguments, cursor, use, registers>>

dc_copy_match ==
  /\ pc = "copy"
  /\ IF \/ offset < MIN_OFFSET \/ offset > MAX_OFFSET \/ offset > Len(dst)
        \/ value > output_cap - Len(dst)
     THEN Fail
     ELSE /\ dst' = dst \o Repeated(value)
          /\ last_offset' = offset
          /\ state' = 2
          /\ pc' = "command"
          /\ UNCHANGED <<arguments, cursor, use, registers>>

Truncated_OnlyBits ==    \* mutant: bytes taken for themselves are not tested
  /\ pc \in {"command", "selector", "control", "payload"} /\ ~HasBit
  /\ Fail

(* A read past the end of the stream. *)
Truncated ==
  /\ \/ pc \in {"command", "selector", "control", "payload"} /\ ~HasBit
     \/ pc \in {"high", "metadata"} /\ ~HasByte
  /\ Fail

Init ==
  /\ pc = "idle" /\ packed = <<>> /\ output_cap = 0 /\ dali_mode = FALSE
  /\ src_pos = 0 /\ bit_byte = 0 /\ bits_left = 0
  /\ dst = <<>> /\ state = 0 /\ last_offset = 1
  /\ use = "literals" /\ value = 1 /\ marker = 1 /\ offset_high = 0 /\ offset = 1

DecodeStep ==
  \/ ReadCommand \/ ReadSelector \/ ReadHigh \/ ReadMetadata
  \/ ReadPayload \/ Continue \/ CloseNumber
  \/ dc_copy_literals \/ dc_copy_match \/ Truncated

Call == \E stream \in Streams, cap \in Capacities, dali \in Formats :
          kc_decode_format(stream, cap, dali)

Next == Call \/ DecodeStep

(***************************************************************************)
(* The decoder is a loop of a sequential program: once called, it goes on. *)
(***************************************************************************)
Spec     == Init /\ [][Next]_vars
FairSpec == Spec /\ WF_vars(DecodeStep)

-----------------------------------------------------------------------------
(***************************************************************************)
(* Types, and the bounds of the two buffers: whatever the stream holds,    *)
(* the decoder neither reads past its end nor writes past the capacity.    *)
(***************************************************************************)
TypeOK ==
  /\ packed \in Seq(Byte) /\ output_cap \in Nat /\ dali_mode \in BOOLEAN
  /\ src_pos \in 0 .. Len(packed)
  /\ bit_byte \in Byte /\ bits_left \in 0 .. ByteBits - 1
  /\ dst \in Seq(Byte) /\ Len(dst) <= output_cap
  /\ state \in 0 .. 2 /\ last_offset \in Nat \ {0}
  /\ pc \in PCs /\ use \in Uses
  /\ value \in Nat \ {0} /\ marker \in Nat \ {0}
  /\ offset_high \in Nat /\ offset \in Nat \ {0}

(***************************************************************************)
(* A control byte is fetched only for a control bit, or for the selector   *)
(* of a new offset, never for a command or a payload bit: every code has   *)
(* an odd number of bits and a byte an even one.  The 6502 decoders rest   *)
(* on it; they look for the marker that asks for a refill after control    *)
(* bits and selectors only (dcrunch.asm).                                  *)
(***************************************************************************)
RefillOnlyAtControl == pc \in {"command", "payload"} => ~Refill

(***************************************************************************)
(* The offset a rep match repeats lies inside the output already written,  *)
(* even the initial offset 1 and whatever the stream, so the assembly      *)
(* decoders need no test of it.                                            *)
(***************************************************************************)
RepeatInsideOutput == state # 0 => last_offset <= Len(dst) /\ last_offset <= MAX_OFFSET

(***************************************************************************)
(* Every call ends with a verdict.                                         *)
(***************************************************************************)
Terminates == pc # "idle" ~> pc \in Final
=============================================================================
