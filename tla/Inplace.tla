------------------------------ MODULE Inplace ------------------------------
(***************************************************************************)
(* Compressing a file for in-place decompression, and decompressing it.    *)
(*                                                                         *)
(* adjust_inplace_stream (kcrunch.c) parses the stream the writer made,    *)
(* cuts it where the output would run into the input that is still to be   *)
(* read, and appends the rest of the payload as it is.  The file is loaded *)
(* so that it ends where the original ends, and the decoder, built with    *)
(* INPLACE (dcrunch.asm, dcrunch_dali.asm), writes over it from the        *)
(* original's start on.  The stream has no end mark any more: the decoder  *)
(* stops when, after a match, its two pointers meet.                       *)
(***************************************************************************)
EXTENDS BlockWriter, BitReader

(***************************************************************************)
(* The payload is the whole window: unpacked_size counts no dictionary,    *)
(* and the decoder has none in front of its output.                        *)
(***************************************************************************)
ASSUME InplaceAssumption == \A w \in Windows : w.dictionary = 0

VARIABLES
  apc,                    \* what the parser of the adjustment does next
  cursor,                 \* packed_index and the control byte at hand
  packed_size,            \* where reading must stop
  packed_size_for_overlap,
  unpacked_index,
  safe_input_index, safe_output_index,
  packed_data,            \* the stream to be written to the file
  gaps,                   \* history: unpacked - packed index after each match so far
  (* the machine *)
  dpc,                    \* what the decoder does next
  mem,                    \* the memory from the original's start to its end
  at,                     \* the decoder's cursor, src is lz_src
  lz_dst,
  count, lz_offset,       \* what is left of a run, and the last offset
  overrun                 \* history: an unread byte was overwritten

adjustVars == <<cursor, packed_size, packed_size_for_overlap, unpacked_index,
                safe_input_index, safe_output_index, gaps>>
machineVars == <<dpc, mem, at, lz_dst, count, lz_offset, overrun>>
inplaceVars == <<vars, apc, adjustVars, packed_data, machineVars>>

data          == stream.data
unpacked_size == Len(window)

(***************************************************************************)
(* What follows a command bit of 1: the offset and the length of a match,  *)
(* or the end mark.                                                        *)
(***************************************************************************)
EndMark == [length |-> 0, offset |-> 0]

MatchAfter_NoPlusOne(bytes, c, high) ==    \* mutant: the length as it is coded
  LET metadata == ByteAt(bytes, c.src)
      rest     == AfterBytes(c, 1)
      o        == high * LowOffsets + metadata \div 2 + 1
  IN  IF metadata % 2 = 1
      THEN [m |-> [length |-> 2, offset |-> o], next |-> rest]
      ELSE [m |-> [length |-> Number(bytes, rest, TRUE), offset |-> o],
            next |-> AfterNumber(bytes, rest, TRUE)]

MatchAfter(bytes, c, high) ==
  LET metadata == ByteAt(bytes, c.src)
      rest     == AfterBytes(c, 1)
      o        == high * LowOffsets + metadata \div 2 + 1
  IN  IF metadata % 2 = 1
      THEN [m |-> [length |-> 2, offset |-> o], next |-> rest]
      ELSE [m |-> [length |-> Number(bytes, rest, TRUE) + 1, offset |-> o],
            next |-> AfterNumber(bytes, rest, TRUE)]

ReadMatch(bytes, c) ==
  IF dali
  THEN LET high == Number(bytes, c, FALSE)
           rest == AfterNumber(bytes, c, FALSE)
       IN  IF high = EodHigh
           THEN [m |-> EndMark, next |-> rest]
           ELSE MatchAfter(bytes, rest, high - 1)
  ELSE LET short == BitAt(bytes, c, 1)
           rest  == AfterBits(bytes, c, 1)
           high  == ByteAt(bytes, rest.src)
       IN  IF short = 1 THEN MatchAfter(bytes, rest, 0)
           ELSE IF high = 0
           THEN [m |-> EndMark, next |-> AfterBytes(rest, 1)]
           ELSE MatchAfter(bytes, AfterBytes(rest, 1), high)

-----------------------------------------------------------------------------
(***************************************************************************)
(* The adjustment.  First the end mark is taken off: of Dali's 18 bits the *)
(* last is in the top bit of the last byte, or not alone there; the native *)
(* one is a raw zero byte behind two bits, which stay.                     *)
(***************************************************************************)
DaliEodBytes_Swapped(last) == IF last >= LowOffsets THEN 2 ELSE 3    \* mutant

DaliEodBytes(last) == IF last >= LowOffsets THEN 3 ELSE 2

AdjustStart ==
  /\ apc = "idle" /\ wpc = "written"
  /\ LET last     == data[Len(data)]
         stripped == Len(data) - DaliEodBytes(last)
     IN  IF dali
         THEN /\ packed_size' = stripped /\ packed_size_for_overlap' = stripped
              /\ apc' = "literals"
         ELSE /\ packed_size' = Len(data) /\ packed_size_for_overlap' = Len(data) - 1
              /\ apc' = IF last = 0 THEN "literals" ELSE "invalid"
  /\ UNCHANGED <<vars, cursor, unpacked_index, safe_input_index, safe_output_index,
                 gaps, packed_data, machineVars>>

(***************************************************************************)
(* The end of a run of length bytes, with the cursor behind it.  The run   *)
(* is the first one that would end on or behind the input: the stream is   *)
(* cut before it and the payload goes on as it is.                         *)
(***************************************************************************)
EndOfRun(c, length, next) ==
  LET end       == unpacked_index + length
      overwrite == end - (unpacked_size - packed_size_for_overlap + c.src)
  IN  IF c.src > packed_size
      THEN apc' = "underrun" /\ UNCHANGED <<adjustVars, packed_data>>
      ELSE IF overwrite >= 0
      THEN /\ packed_data' = SubSeq(data, 1, safe_output_index)
                             \o SubSeq(window, safe_input_index + 1, unpacked_size)
           /\ apc' = "cut"
           /\ UNCHANGED adjustVars
      ELSE /\ cursor' = c /\ unpacked_index' = end
           /\ safe_input_index' = end /\ safe_output_index' = c.src
           /\ gaps' = IF next = "after_match" THEN Append(gaps, end - c.src) ELSE gaps
           /\ apc' = next
           /\ UNCHANGED <<packed_size, packed_size_for_overlap, packed_data>>

AdjustLiterals ==
  /\ apc = "literals"
  /\ LET length == Number(data, cursor, FALSE)
     IN  EndOfRun(AfterBytes(AfterNumber(data, cursor, FALSE), length), length,
                  "after_literals")
  /\ UNCHANGED <<vars, machineVars>>

AdjustCommand ==
  /\ apc \in {"after_literals", "after_match"}
  /\ LET bit  == BitAt(data, cursor, 1)
         rest == AfterBits(data, cursor, 1)
         match_ == ReadMatch(data, rest)
     IN  IF bit = 0 /\ apc = "after_literals"
         THEN EndOfRun(AfterNumber(data, rest, FALSE), Number(data, rest, FALSE),
                       "after_match")
         ELSE IF bit = 0
         THEN /\ cursor' = rest /\ apc' = "literals"
              /\ UNCHANGED <<packed_size, packed_size_for_overlap, unpacked_index,
                             safe_input_index, safe_output_index, gaps, packed_data>>
         ELSE IF match_.m = EndMark
         THEN apc' = "uncut" /\ UNCHANGED <<adjustVars, packed_data>>
         ELSE EndOfRun(match_.next, match_.m.length, "after_match")
  /\ UNCHANGED <<vars, machineVars>>

(***************************************************************************)
(* do_compress refuses a file that is not shorter than the original by the *)
(* two bytes of its header.  Otherwise it is loaded to end with the        *)
(* original, header and all, and the decoder starts.                       *)
(***************************************************************************)
Load ==
  /\ apc = "cut"
  /\ IF Len(packed_data) + 2 > unpacked_size
     THEN apc' = "refused" /\ UNCHANGED machineVars
     ELSE /\ apc' = "loaded"
          /\ mem' = [k \in 1 .. unpacked_size - Len(packed_data) |-> 0] \o packed_data
          /\ at' = Cursor(unpacked_size - Len(packed_data))
          /\ lz_dst' = 0 /\ lz_offset' = 1 /\ count' = 0
          /\ dpc' = "literals"
          /\ UNCHANGED overrun
  /\ UNCHANGED <<vars, adjustVars, packed_data>>

-----------------------------------------------------------------------------
(***************************************************************************)
(* The decoder.  It has no idea where its input or its output ends; "lost" *)
(* is where it leaves the memory of the original.                          *)
(***************************************************************************)
Continue(next, cur, n, o) ==
  /\ dpc' = IF cur.src > Len(mem) THEN "lost" ELSE next
  /\ at' = cur /\ count' = n /\ lz_offset' = o
  /\ UNCHANGED <<mem, lz_dst, overrun>>

lz_literal ==
  /\ dpc = "literals"
  /\ Continue("copy_literals", AfterNumber(mem, at, FALSE), Number(mem, at, FALSE), lz_offset)
  /\ UNCHANGED <<vars, apc, adjustVars, packed_data>>

(* One byte is read and then written, in the order of their addresses. *)
lz_cp_lit ==
  /\ dpc = "copy_literals"
  /\ IF at.src >= Len(mem) \/ lz_dst >= Len(mem)
     THEN dpc' = "lost" /\ UNCHANGED <<mem, at, lz_dst, count, lz_offset, overrun>>
     ELSE /\ mem' = [mem EXCEPT ![lz_dst + 1] = mem[at.src + 1]]
          /\ at' = AfterBytes(at, 1) /\ lz_dst' = lz_dst + 1
          /\ count' = count - 1
          /\ dpc' = IF count = 1 THEN "after_literals" ELSE "copy_literals"
          /\ overrun' = (overrun \/ lz_dst > at.src)
          /\ UNCHANGED lz_offset
  /\ UNCHANGED <<vars, apc, adjustVars, packed_data>>

(* After literals a 0 is a repetition; after a match it is literals. *)
lz_command ==
  /\ dpc \in {"after_literals", "after_match"}
  /\ LET bit  == BitAt(mem, at, 1)
         rest == AfterBits(mem, at, 1)
         match_ == ReadMatch(mem, rest)
     IN  IF bit = 0 /\ dpc = "after_literals"
         THEN Continue("copy_match", AfterNumber(mem, rest, FALSE),
                       Number(mem, rest, FALSE), lz_offset)
         ELSE IF bit = 0
         THEN Continue("literals", rest, 0, lz_offset)
         ELSE IF match_.m = EndMark
         THEN Continue("done", match_.next, 0, lz_offset)
         ELSE Continue("copy_match", match_.next, match_.m.length, match_.m.offset)
  /\ UNCHANGED <<vars, apc, adjustVars, packed_data>>

(* Only after a match are the pointers compared. *)
lz_end_check_OneShort(dst, src) == IF dst + 1 = src THEN "done" ELSE "after_match"    \* mutant

lz_end_check(dst, src) == IF dst = src THEN "done" ELSE "after_match"

lz_cp_match ==
  /\ dpc = "copy_match"
  /\ IF lz_dst >= Len(mem) \/ lz_offset > lz_dst
     THEN dpc' = "lost" /\ UNCHANGED <<mem, at, lz_dst, count, lz_offset, overrun>>
     ELSE /\ mem' = [mem EXCEPT ![lz_dst + 1] = mem[lz_dst + 1 - lz_offset]]
          /\ lz_dst' = lz_dst + 1
          /\ count' = count - 1
          /\ dpc' = IF count > 1 THEN "copy_match"
                    ELSE lz_end_check(lz_dst + 1, at.src)
          /\ overrun' = (overrun \/ lz_dst >= at.src)
          /\ UNCHANGED <<at, lz_offset>>
  /\ UNCHANGED <<vars, apc, adjustVars, packed_data>>

-----------------------------------------------------------------------------
InplaceInit ==
  /\ Init
  /\ apc = "idle" /\ cursor = Cursor(0) /\ packed_size = 0 /\ packed_size_for_overlap = 0
  /\ unpacked_index = 0 /\ safe_input_index = 0 /\ safe_output_index = 0
  /\ packed_data = <<>> /\ gaps = <<>>
  /\ dpc = "idle" /\ mem = <<>> /\ at = Cursor(0) /\ lz_dst = 0
  /\ count = 0 /\ lz_offset = 1 /\ overrun = FALSE

Write == Next /\ UNCHANGED <<apc, adjustVars, packed_data, machineVars>>

InplaceStep ==
  \/ AdjustStart \/ AdjustLiterals \/ AdjustCommand \/ Load
  \/ lz_literal \/ lz_cp_lit \/ lz_command \/ lz_cp_match

InplaceNext == Write \/ InplaceStep

InplaceSpec == InplaceInit /\ [][InplaceNext]_inplaceVars

-----------------------------------------------------------------------------
(***************************************************************************)
(* Whatever stream the writer made: its end mark is where it is looked     *)
(* for, parsing it without the mark never runs out of bytes, and it is     *)
(* always cut, at the last run at the latest.                              *)
(***************************************************************************)
AdjustmentSucceeds == apc \notin {"invalid", "underrun", "uncut"}

(***************************************************************************)
(* Until an unread byte is overwritten, the output is the beginning of the *)
(* original, and the decoder has not read on into the raw bytes behind the *)
(* cut: it has stopped, at the right match or at one before it.            *)
(***************************************************************************)
KeptStreamIsRead ==
  at.src <= unpacked_size - Len(packed_data) + safe_output_index

PrefixUntilOverrun ==
  dpc # "idle" /\ ~overrun =>
    KeptStreamIsRead /\ SubSeq(mem, 1, lz_dst) = SubSeq(window, 1, lz_dst)

(***************************************************************************)
(* The cut is sound when the last match before it leaves the pointers as   *)
(* far apart as they are at the cut (literals behind that match are then   *)
(* in place already), and every earlier one less far.                      *)
(***************************************************************************)
SoundCut ==
  LET n == Len(gaps)
  IN  /\ n > 0
      /\ gaps[n] = safe_input_index - safe_output_index
      /\ \A k \in 1 .. n - 1 : gaps[k] < gaps[n]

Stopped == dpc \in {"done", "lost"}

(***************************************************************************)
(* After a sound cut the decoder stops with the original in memory.        *)
(***************************************************************************)
RestoresAfterSoundCut == Stopped /\ SoundCut => dpc = "done" /\ mem = window

(***************************************************************************)
(* In-place decompression gives back the original.                         *)
(***************************************************************************)
InplaceRestores == Stopped => mem = window
=============================================================================
