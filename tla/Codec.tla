------------------------------- MODULE Codec --------------------------------
(***************************************************************************)
(* The length code alone (kc_format.c): a number is written, and read back *)
(* bit by bit by kc_read_dali_length and, from the bytes its bits fill, by *)
(* the reader of kcrunch.c.  Three pieces of code share this format and no *)
(* line of source; the parser has a fourth, the cost of a code.            *)
(***************************************************************************)
EXTENDS BitReader

CONSTANTS
  Numbers,    \* the numbers to be written
  MaxLost     \* bound: the bits of a code that may be missing at its end

ASSUME CodecAssumption == Numbers \subseteq 1 .. EodHigh * ByteValues /\ MaxLost \in Nat

VARIABLES
  number, skip,     \* what is written, and whether without its first bit
  lost,             \* how many bits of the end are missing
  code, pos,        \* the others, and how many of them are read
  so_far, leading,  \* the number so far and its leading one
  rpc               \* what is read next

codecVars == <<number, skip, lost, code, pos, so_far, leading, rpc>>

(* skip_first_bit: the caller has seen the first bit, so a payload bit is next. *)
WriteNumber == \E n \in Numbers, s \in BOOLEAN, l \in 0 .. MaxLost :
  /\ rpc = "idle"
  /\ s => n > 1      \* a length of 2 has its own bit in the metadata
  /\ number' = n /\ skip' = s /\ lost' = l
  /\ LET bits == kc_write_dali_length(n, s)
     IN  l <= Len(bits) /\ code' = SubSeq(bits, 1, Len(bits) - l)
  /\ pos' = 0 /\ so_far' = 1 /\ leading' = 1
  /\ rpc' = IF s THEN "payload" ELSE "control"

TakeBit == pos < Len(code) /\ pos' = pos + 1 /\ UNCHANGED <<number, skip, lost, code>>

ReadControl ==
  /\ rpc = "control"
  /\ TakeBit
  /\ IF code[pos + 1] = 1
     THEN rpc' = "done" /\ so_far' = Unrotated(so_far, leading)
     ELSE rpc' = "payload" /\ UNCHANGED so_far
  /\ UNCHANGED leading

ReadPayload ==
  /\ rpc = "payload"
  /\ IF so_far > UINT32_MAX_HALF
     THEN rpc' = "error" /\ UNCHANGED <<number, skip, lost, code, pos, so_far, leading>>
     ELSE /\ TakeBit
          /\ so_far' = 2 * so_far + code[pos + 1]
          /\ leading' = 2 * leading
          /\ rpc' = "control"

Starve ==
  /\ rpc \in {"control", "payload"} /\ pos = Len(code)
  /\ rpc' = "error"
  /\ UNCHANGED <<number, skip, lost, code, pos, so_far, leading>>

CodecInit ==
  /\ number = 1 /\ skip = FALSE /\ lost = 0 /\ code = <<>> /\ pos = 0
  /\ so_far = 1 /\ leading = 1 /\ rpc = "idle"

CodecNext == WriteNumber \/ ReadControl \/ ReadPayload \/ Starve

CodecSpec == CodecInit /\ [][CodecNext]_codecVars

-----------------------------------------------------------------------------
(***************************************************************************)
(* What was written is what is read, with the code's last bit and not      *)
(* before it; and no beginning of a code is a code, so a number that lost  *)
(* its end is an error (dc_read_length turns it into one).                 *)
(***************************************************************************)
RoundTrip ==
  /\ rpc = "done"  => lost = 0 /\ so_far = number /\ pos = Len(code)
  /\ rpc = "error" => lost > 0

(***************************************************************************)
(* The other reader, read_interlaced_elias_gamma_le of kcrunch.c, gets the *)
(* same number from the bytes, at every alignment of the code in them, and *)
(* stops at the same bit.                                                  *)
(***************************************************************************)
BitOfByte(bits, n, k) ==    \* the k-th bit of the n-th byte, zero behind the end
  LET p == (n - 1) * ByteBits + k
  IN  IF p <= Len(bits) THEN bits[p] ELSE 0

Packed(bits) ==
  [n \in 1 .. (Len(bits) + ByteBits - 1) \div ByteBits |->
     LET sum[k \in 0 .. ByteBits] ==
           IF k = 0 THEN 0 ELSE sum[k - 1] + BitOfByte(bits, n, k) * 2 ^ (ByteBits - k)
     IN  sum[ByteBits]]

ReadersAgree ==
  rpc = "done" =>
    \A shift \in 0 .. ByteBits - 1 :
      LET bytes == Packed([k \in 1 .. shift |-> 1] \o code)
          c     == AfterBits(bytes, Cursor(0), shift)
      IN  /\ Number(bytes, c, skip) = so_far
          /\ CodeBits(bytes, c, skip) = pos

(***************************************************************************)
(* The parser weighs its choices by the true size of a code, the rotated   *)
(* ones included, and by one bit less where the first bit is elsewhere.    *)
(***************************************************************************)
CostIsExact ==
  rpc # "idle" =>
    Len(code) + lost = kc_dali_length_bit_cost(number) - (IF skip THEN 1 ELSE 0)
=============================================================================
