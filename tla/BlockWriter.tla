---------------------------- MODULE BlockWriter ----------------------------
(***************************************************************************)
(* The writer of the stream (salvador_write_block of kc_shrink.c): it      *)
(* walks over the payload, takes at each position the match the parser     *)
(* left in best_match or counts a literal, and emits the commands.         *)
(*                                                                         *)
(* Control bits go into control bytes, most significant bit first; a       *)
(* control byte is opened in the stream at the moment its first bit is     *)
(* written, and raw bytes follow wherever the stream then ends.            *)
(*                                                                         *)
(* The parser itself is left open: at every position any match that is     *)
(* correct may be the one it chose, so what holds here holds for every     *)
(* search depth, profile and reduction pass.  It never leaves a match at   *)
(* the first position of the payload (salvador_optimize_forward).          *)
(***************************************************************************)
EXTENDS KcFormat

CONSTANTS
  Windows,   \* the inputs, each a dictionary followed by the payload
  MaxOut     \* capacity of the output buffer (salvador_get_max_compressed_size)

ASSUME WriterAssumption ==
  /\ \A w \in Windows : w.text \in Seq(Byte) /\ w.dictionary \in 0 .. Len(w.text)
  /\ MaxOut \in Nat

VARIABLES
  window, start, dali,   \* pInWindow, nStartOffset (the dictionary's size), the format
  i,                     \* position in the window, from 0
  num_literals,          \* literals counted and not yet written
  first,                 \* nIsFirstCommand
  rep_offset,            \* offset of the last match, 1 at first
  match,                 \* the match being written, or NoneLeft
  stream,                \* the output and its open control byte
  wpc                    \* what it does next

vars == <<window, start, dali, i, num_literals, first, rep_offset, match, stream, wpc>>

(***************************************************************************)
(* kc_write_bit.  bit_shift is the bit to be written next, -1 when no      *)
(* control byte is open; bits_offset is the place of the open one.  A bit  *)
(* that finds none open opens one at the end of the stream.  (The code     *)
(* sets a bit that is still zero, see FreeBitsAreZero; here it is added.)  *)
(* put is a function for TLC, which evaluates its argument only once.      *)
(***************************************************************************)
Stream == [data : Seq(Byte), bits_offset : Nat, bit_shift : -1 .. ByteBits - 1]

EmptyStream == [data |-> <<>>, bits_offset |-> 0, bit_shift |-> -1]

Opened(s) ==
  IF s.bit_shift < 0
  THEN [data |-> Append(s.data, 0), bits_offset |-> Len(s.data), bit_shift |-> ByteBits - 1]
  ELSE s

Weight_LowFirst(shift) == 2 ^ (ByteBits - 1 - shift)    \* mutant: least significant bit first

Weight(shift) == 2 ^ shift

PutBit(s, bit) ==
  LET put[t \in Stream] ==
        LET o == Opened(t)
        IN  [data        |-> [o.data EXCEPT ![o.bits_offset + 1] = @ + bit * Weight(o.bit_shift)],
             bits_offset |-> o.bits_offset,
             bit_shift   |-> o.bit_shift - 1]
  IN  put[s]

PutBits(s, bits) ==
  LET put[n \in 0 .. Len(bits)] == IF n = 0 THEN s ELSE PutBit(put[n - 1], bits[n])
  IN  put[Len(bits)]

PutBytes(s, bytes) == [s EXCEPT !.data = @ \o bytes]

(***************************************************************************)
(* The matches the search may have left in best_match[i]: their bytes are  *)
(* those offset positions earlier, possibly in the dictionary.             *)
(***************************************************************************)
CorrectMatches_FromStart ==    \* mutant: a match at the first position, too
  {m \in [length : 1 .. Len(window) - i, offset : MIN_OFFSET .. MAX_OFFSET] :
     /\ m.offset <= i
     /\ \A k \in 1 .. m.length : window[i + k] = window[i + k - m.offset]}

CorrectMatches ==
  {m \in [length : 1 .. Len(window) - i, offset : MIN_OFFSET .. MAX_OFFSET] :
     /\ i > start /\ m.offset <= i
     /\ \A k \in 1 .. m.length : window[i + k] = window[i + k - m.offset]}

Repeats_Anywhere(m) == m.offset = rep_offset    \* mutant: without literals, too

Repeats(m) == m.offset = rep_offset /\ num_literals # 0

Taken(m) == \/ m.length >= 2
            \/ m.length = 1 /\ Repeats(m)

NoneLeft == [length |-> 0, offset |-> 0]

(***************************************************************************)
(* salvador_compress refuses an empty payload and one whose literals might *)
(* not fit one run, and writes the payload as a single block.              *)
(***************************************************************************)
salvador_compress(input, dictionary, format) ==
  /\ wpc = "idle"
  /\ window' = input /\ start' = dictionary /\ dali' = format
  /\ i' = dictionary
  /\ wpc' = IF Len(input) - dictionary \in 1 .. MAX_VARLEN THEN "loop" ELSE "failed"
  /\ UNCHANGED <<num_literals, first, rep_offset, match, stream>>

(* best_match[i] is empty, or a single byte that cannot be a repetition. *)
CountLiteral ==
  /\ wpc = "loop" /\ i < Len(window)
  /\ num_literals' = num_literals + 1
  /\ i' = i + 1
  /\ UNCHANGED <<window, start, dali, first, rep_offset, match, stream, wpc>>

TakeMatch ==
  /\ wpc = "loop" /\ i < Len(window)
  /\ match' \in {m \in CorrectMatches : Taken(m)}
  /\ wpc' = IF num_literals # 0 THEN "literals"
            ELSE IF first THEN "failed" ELSE "match"
  /\ UNCHANGED <<window, start, dali, i, num_literals, first, rep_offset, stream>>

EndOfBlock ==
  /\ wpc = "loop" /\ i = Len(window)
  /\ match' = NoneLeft
  /\ wpc' = IF num_literals # 0 THEN "literals" ELSE "eod"
  /\ UNCHANGED <<window, start, dali, i, num_literals, first, rep_offset, stream>>

(* A write fails when it would pass the capacity of the output. *)
Emit(s, next) ==
  /\ stream' = s
  /\ wpc' = IF Len(s.data) > MaxOut THEN "failed" ELSE next

(***************************************************************************)
(* The pending run.  The first command of a stream can only be a run and   *)
(* has no command bit.                                                     *)
(***************************************************************************)
salvador_write_literals ==
  /\ wpc = "literals"
  /\ LET header == (IF first THEN <<>> ELSE <<0>>)
                   \o kc_write_dali_length(num_literals, FALSE)
         bytes  == SubSeq(window, i - num_literals + 1, i)
     IN  Emit(PutBytes(PutBits(stream, header), bytes),
              IF num_literals > MAX_VARLEN THEN "failed"
              ELSE IF match = NoneLeft THEN "eod" ELSE "match")
  /\ first' = FALSE
  /\ UNCHANGED <<window, start, dali, i, num_literals, rep_offset, match>>

(* The loop goes on behind the match. *)
Advance ==
  /\ i' = i + match.length
  /\ rep_offset' = match.offset
  /\ num_literals' = 0
  /\ UNCHANGED <<window, start, dali, first, match>>

(***************************************************************************)
(* A repetition of the last offset may follow literals only, and is told   *)
(* from them by its place.                                                 *)
(***************************************************************************)
WriteRepeat ==
  /\ wpc = "match" /\ Repeats(match)
  /\ Emit(PutBits(stream, <<0>> \o kc_write_dali_length(match.length, FALSE)), "loop")
  /\ Advance

(***************************************************************************)
(* Every other match has a new offset.  Its high part is a number in the   *)
(* Dali format; in the native one a bit tells zero from a byte that holds  *)
(* it.  The metadata byte has the low part and, for a length above 2, the  *)
(* place of the length's first bit, which is always 0.                     *)
(***************************************************************************)
(* Mutants: no selector in front of a short offset; no short offsets. *)
OffsetHigh_NoSelector(s, high) ==
  IF dali          THEN PutBits(s, <<1>> \o kc_write_dali_length(high + 1, FALSE))
  ELSE IF high = 0 THEN PutBits(s, <<1>>)
  ELSE PutBytes(PutBits(s, <<1, 0>>), <<high>>)

OffsetHigh_AlwaysRaw(s, high) ==
  IF dali THEN PutBits(s, <<1>> \o kc_write_dali_length(high + 1, FALSE))
  ELSE PutBytes(PutBits(s, <<1, 0>>), <<high>>)

OffsetHigh(s, high) ==
  IF dali          THEN PutBits(s, <<1>> \o kc_write_dali_length(high + 1, FALSE))
  ELSE IF high = 0 THEN PutBits(s, <<1, 1>>)
  ELSE PutBytes(PutBits(s, <<1, 0>>), <<high>>)

WriteOffset ==
  /\ wpc = "match" /\ ~Repeats(match)
  /\ LET high == (match.offset - 1) \div LowOffsets
         low  == (match.offset - 1) % LowOffsets
         two  == IF match.length = 2 THEN 1 ELSE 0
     IN  Emit(PutBytes(OffsetHigh(stream, high), <<2 * low + two>>),
              IF match.length > 2 THEN "length" ELSE "loop")
  /\ IF match.length > 2
     THEN UNCHANGED <<window, start, dali, i, num_literals, first, rep_offset, match>>
     ELSE Advance

WriteLength ==
  /\ wpc = "length"
  /\ Emit(PutBits(stream, kc_write_dali_length(match.length - 1, TRUE)), "loop")
  /\ Advance

WriteEod ==
  /\ wpc = "eod"
  /\ Emit(IF dali
          THEN PutBits(stream, <<1>> \o kc_write_dali_length(EodHigh, FALSE))
          ELSE PutBytes(PutBits(stream, <<1, 0>>), <<0>>), "written")
  /\ UNCHANGED <<window, start, dali, i, num_literals, first, rep_offset, match>>

Init ==
  /\ window = <<>> /\ start = 0 /\ dali = FALSE /\ i = 0
  /\ num_literals = 0 /\ first = TRUE /\ rep_offset = 1 /\ match = NoneLeft
  /\ stream = EmptyStream /\ wpc = "idle"

Call == \E w \in Windows, format \in BOOLEAN :
          salvador_compress(w.text, w.dictionary, format)

WriteStep ==
  \/ CountLiteral \/ TakeMatch \/ EndOfBlock
  \/ salvador_write_literals \/ WriteRepeat \/ WriteOffset \/ WriteLength \/ WriteEod

Next == Call \/ WriteStep

Spec == Init /\ [][Next]_vars

-----------------------------------------------------------------------------
(***************************************************************************)
(* A payload of legal size fails only when the output is full: the run of  *)
(* literals is never too long for its code and no match comes before the   *)
(* first literal.  Where the payload's end is checked is far from where    *)
(* the runs are written.                                                   *)
(***************************************************************************)
FailsOnlyWhenFull ==
  wpc = "failed" => \/ Len(window) - start \notin 1 .. MAX_VARLEN
                    \/ Len(stream.data) > MaxOut

(***************************************************************************)
(* A command bit never opens a control byte: after any command an odd      *)
(* number of bits of the open byte is free.  The assembly decoders shift a *)
(* command bit out of the byte they hold, without a test for its end.      *)
(***************************************************************************)
CommandNeverOpens ==
  wpc \in {"loop", "match", "eod"} /\ ~first => stream.bit_shift % 2 = 0

(***************************************************************************)
(* The bits that the open control byte has still free are zero, so that    *)
(* the bits to come are those that are written there, whatever raw bytes   *)
(* went into the stream since it was opened.                               *)
(***************************************************************************)
FreeBitsAreZero ==
  stream.bit_shift >= 0 =>
    stream.data[stream.bits_offset + 1] % 2 ^ (stream.bit_shift + 1) = 0
=============================================================================
