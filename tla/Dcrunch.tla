------------------------------- MODULE Dcrunch -------------------------------
(***************************************************************************)
(* The 6502 decoders (asm/dcrunch.asm, asm/dcrunch_dali.asm) with their    *)
(* registers: the header entry, and not the INPLACE build, which is in     *)
(* Inplace.  The two differ in lz_match.                                   *)
(*                                                                         *)
(* One action per bit, byte or command part; what the instructions between *)
(* two labels do to a register is an operator on the machine's state.      *)
(* lz_bits is a shift register that ends in a 1, the marker: when it is    *)
(* empty but for the carry, the bit in the carry was the marker.  A number *)
(* is gathered in A, from a leading 1 that drops out after a byte's worth  *)
(* of bits.  A copy ends where Y becomes 0, so the pointers of a run are   *)
(* set a page before its end and Y counts up.                              *)
(*                                                                         *)
(* The high byte of a pointer is not cut to a byte: no file reaches over   *)
(* the end of the memory.                                                  *)
(***************************************************************************)
EXTENDS KcFormat

CONSTANTS
  RamSize,      \* bound: the memory the stream and the output are in
  FastFrom      \* 8: literal runs with a low byte from here on are fast

ASSUME DcrunchAssumption ==
  /\ RamSize \in Nat /\ FastFrom \in 1 .. ByteValues - 1
  /\ \A k \in 0 .. ByteBits :    \* so are powers of two, for the provers
       /\ 2 ^ k \in Nat \ {0} /\ 2 ^ k * 2 ^ (ByteBits - k) = ByteValues
       /\ k < ByteBits => 2 ^ (k + 1) = 2 * 2 ^ k

VARIABLES
  ram,
  cpu,       \* registers, zero page and patched operands; pc is a label
  build,     \* the decoder: its format, and whether with KCRUNCH_FAST_LITERALS
  stored     \* how many bytes were stored since the start

machineVars == <<ram, cpu, build, stored>>

TopBit == ByteValues \div 2

Pointer(address) == [lo |-> address % ByteValues, hi |-> address \div ByteValues]
Address(p, index) == p.hi * ByteValues + p.lo + index

Added_NoCarry(p, n) == [p EXCEPT !.lo = (@ + n) % ByteValues]    \* mutant

(* n is a byte; the carry goes into the high byte. *)
Added(p, n) == [lo |-> (p.lo + n) % ByteValues, hi |-> p.hi + (p.lo + n) \div ByteValues]

NextPage(p) == [p EXCEPT !.hi = @ + 1]
PageBefore(p) == [p EXCEPT !.hi = @ - 1]

(* What is in the memory otherwise; no stream of the compressor leads out  *)
(* of the memory modelled.                                                 *)
Unused == ByteValues - 1

Read(address) == IF address \in DOMAIN ram THEN ram[address] ELSE Unused

Fetched(s) == Read(Address(s.lz_src, s.y))

GoTo(s, label) == [s EXCEPT !.pc = label]

-----------------------------------------------------------------------------
(* asl lz_bits, and rol. *)
get_lz_bit(s) ==
  [s EXCEPT !.c = s.lz_bits \div TopBit, !.lz_bits = (2 * s.lz_bits) % ByteValues]

rol(s) == [s EXCEPT !.a = (2 * s.a + s.c) % ByteValues, !.c = s.a \div TopBit]

(* The next control byte; the marker, in the carry, goes in behind it. *)
Refilled_NoMarker(s) ==    \* mutant: asl in place of rol
  [s EXCEPT !.lz_bits = (2 * Fetched(s)) % ByteValues, !.c = Fetched(s) \div TopBit,
            !.lz_src = Added(s.lz_src, 1)]

Refilled(s) ==
  [s EXCEPT !.lz_bits = (2 * Fetched(s) + s.c) % ByteValues, !.c = Fetched(s) \div TopBit,
            !.lz_src = Added(s.lz_src, 1)]

(* lz_start_refill and lz_match: a bit, from a new control byte if need be. *)
CheckedBit(s) == LET t == get_lz_bit(s) IN IF t.lz_bits = 0 THEN Refilled(t) ELSE t

(* A number is read for one of four uses, from its control bit on or, if   *)
(* that is elsewhere, from its first payload bit.                          *)
ReadNumber(s, purpose, bit) == [s EXCEPT !.pc = bit, !.use = purpose, !.sub = FALSE]

-----------------------------------------------------------------------------
(***************************************************************************)
(* A file is in memory: the address of the output, high byte first, and    *)
(* the stream.  decrunch takes the address, and stops at lz_start_over.    *)
(***************************************************************************)
decrunch(file, source, dali, fast) ==
  /\ cpu.pc = "off"
  /\ build' = [dali |-> dali, fast |-> fast]
  /\ ram' = [address \in 0 .. RamSize - 1 |->
               IF address - source + 1 \in DOMAIN file THEN file[address - source + 1]
               ELSE Unused]
  /\ cpu' = [cpu EXCEPT
               !.pc = "lz_start_over", !.a = 0, !.x = 0, !.y = 0,
               !.lz_bits = TopBit \div 2,
               !.lz_src = Added(Added(Pointer(source), 1), 1),
               !.lz_dst = [hi |-> file[1], lo |-> file[2]],
               !.lz_len_hi = 0, !.lz_offset_lo = 0, !.lz_offset_hi = 0,
               !.lz_match_loop = "lz_cp_store"]
  /\ UNCHANGED stored

Become(s) == cpu' = s /\ UNCHANGED <<ram, build, stored>>

(* After a match, and at the start. *)
lz_start_over ==
  /\ cpu.pc = "lz_start_over"
  /\ LET s == CheckedBit([cpu EXCEPT !.a = 1])
     IN  Become(IF s.c = 0 THEN ReadNumber(s, "literals", "control") ELSE GoTo(s, "lz_match"))

(* No test for the marker: see MarkerKept. *)
lz_literal_complete ==
  /\ cpu.pc = "lz_cp_lit_done" /\ cpu.lz_len_hi = 0
  /\ LET s == get_lz_bit(rol([cpu EXCEPT !.a = 0]))
     IN  Become(IF s.c = 0 THEN ReadNumber(s, "repeat", "control") ELSE GoTo(s, "lz_match"))

-----------------------------------------------------------------------------
(***************************************************************************)
(* lz_length: first with the bits at hand, then in lz_refill_bits, where   *)
(* the leading 1 may drop out of A.  A is then the low byte, pushed on the *)
(* stack, and the high byte is gathered from another leading 1, which is   *)
(* the one in the carry.                                                   *)
(***************************************************************************)
Payload ==
  /\ cpu.pc = "payload"
  /\ LET s == rol(get_lz_bit(cpu))
     IN  Become(GoTo(IF s.sub /\ s.c = 1
                       THEN rol([s EXCEPT !.pushed = <<s.a>>, !.a = s.y])
                       ELSE s, "control"))

(* A length of whole pages has one page less in lz_len_hi. *)
Returned_Plain(s) ==    \* mutant: without the dec
  IF s.pushed = <<>> THEN s
  ELSE [s EXCEPT !.pushed = <<>>, !.a = s.pushed[1], !.lz_len_hi = s.a]

Returned(s) ==
  IF s.pushed = <<>> THEN s
  ELSE [s EXCEPT !.pushed = <<>>, !.a = s.pushed[1],
                 !.lz_len_hi = IF s.pushed[1] = 0 THEN s.a - 1 ELSE s.a]

Control ==
  /\ cpu.pc = "control"
  /\ LET s == get_lz_bit(cpu)
         t == Refilled([s EXCEPT !.sub = TRUE, !.x = s.a,
                                 !.y = IF s.use = "length" THEN 0 ELSE @])
     IN  Become(IF s.c = 0          THEN GoTo(s, "payload")
                  ELSE IF s.lz_bits # 0 THEN GoTo(Returned(s), s.use)
                  ELSE IF t.c = 0       THEN GoTo(t, "payload")
                  ELSE GoTo(Returned(t), t.use))

-----------------------------------------------------------------------------
(***************************************************************************)
(* Literals.  A fast run has its pointers moved to its end and a page      *)
(* back; whole pages are copied fast behind any run.                       *)
(***************************************************************************)
lz_literals ==
  /\ cpu.pc = "literals"
  /\ LET n == cpu.a
         s == [cpu EXCEPT !.x = n]
         ahead(p) == PageBefore(Added(p, n))
     IN  Become(IF build.fast /\ n >= FastFrom
                  THEN [s EXCEPT !.lz_src = ahead(@), !.lz_dst = ahead(@),
                                 !.lz_fast_dst = ahead(cpu.lz_dst),
                                 !.y = ByteValues - n, !.pc = "lz_cp_lit_fast"]
                  ELSE GoTo(s, "lz_cp_lit"))

Store(address, byte) ==
  /\ ram' = [ram EXCEPT ![address] = byte]
  /\ stored' = stored + 1
  /\ UNCHANGED build

lz_cp_lit ==
  /\ cpu.pc = "lz_cp_lit"
  /\ Store(Address(cpu.lz_dst, cpu.y), Fetched(cpu))
  /\ LET left == (cpu.x - 1) % ByteValues
     IN  cpu' = [cpu EXCEPT !.lz_src = Added(@, 1), !.lz_dst = Added(@, 1), !.x = left,
                            !.pc = IF left # 0 THEN @ ELSE "lz_cp_lit_done"]

lz_cp_lit_fast ==
  /\ cpu.pc = "lz_cp_lit_fast"
  /\ Store(Address(cpu.lz_fast_dst, cpu.y), Fetched(cpu))
  /\ LET s == [cpu EXCEPT !.y = (@ + 1) % ByteValues]
     IN  cpu' = IF s.y # 0 THEN s
                ELSE [s EXCEPT !.lz_src = NextPage(@), !.lz_dst = NextPage(@), !.c = 1,
                               !.pc = "lz_cp_lit_done"]

lz_l_page ==
  /\ cpu.pc = "lz_cp_lit_done" /\ cpu.lz_len_hi # 0
  /\ LET s == [cpu EXCEPT !.lz_len_hi = @ - 1]
     IN  Become(IF build.fast
                  THEN [s EXCEPT !.lz_fast_dst = s.lz_dst, !.pc = "lz_cp_lit_fast"]
                  ELSE GoTo(s, "lz_cp_lit"))

-----------------------------------------------------------------------------
(***************************************************************************)
(* A new offset.  Its high part is a number in the Dali format, a selector *)
(* and perhaps a byte in the native one; its lowest bit goes through the   *)
(* carry into the low byte.                                                *)
(***************************************************************************)
WithHigh(s, high) == [s EXCEPT !.lz_offset_hi = high \div 2, !.c = high % 2,
                               !.pc = "lz_offset_metadata"]

lz_match ==
  /\ cpu.pc = "lz_match"
  /\ IF build.dali
     THEN Become(ReadNumber(cpu, "high", "control"))
     ELSE LET s    == CheckedBit(cpu)
              high == Fetched(s)
          IN  Become(IF s.c = 1 THEN WithHigh(s, 0)
                       ELSE IF high = 0 THEN GoTo(s, "rts")
                       ELSE WithHigh([s EXCEPT !.lz_src = Added(@, 1)], high))

(* The numbers 1 to 255 stand for 0 to 254; 256 leaves 0 in A. *)
DaliHigh ==
  /\ cpu.pc = "high"
  /\ Become(IF cpu.sub /\ cpu.a = 0 THEN GoTo(cpu, "rts") ELSE WithHigh(cpu, cpu.a - 1))

(* Mutant: the loop stays as it was patched before. *)
WithOffset_Kept(s) ==
  LET low == s.c * TopBit + Fetched(s) \div 2
  IN  [s EXCEPT !.lz_offset_lo = low, !.c = Fetched(s) % 2, !.lz_src = Added(@, 1),
                !.a = 1, !.y = ByteValues - 2]

(* A distance of 1 stores the same byte in a loop of its own. *)
WithOffset(s) ==
  LET low == s.c * TopBit + Fetched(s) \div 2
  IN  [s EXCEPT !.lz_offset_lo = low, !.c = Fetched(s) % 2, !.lz_src = Added(@, 1),
                !.lz_match_loop = IF low = 0 /\ s.lz_offset_hi = 0
                                  THEN "lz_cp_store" ELSE "lz_cp_match",
                !.a = 1, !.y = ByteValues - 2]

lz_offset_metadata ==
  /\ cpu.pc = "lz_offset_metadata"
  /\ LET s == WithOffset(cpu)
     IN  Become(IF s.c = 1 THEN GoTo(s, "lz_match_len2") ELSE ReadNumber(s, "length", "payload"))

(* lz_match_big: A is the low byte of the length less 1, Y its complement. *)
Big(s, length_1) ==
  [s EXCEPT !.a = length_1, !.y = ByteValues - 1 - length_1, !.pc = "lz_match_len2"]

lz_repeat == cpu.pc = "repeat" /\ Become(Big(cpu, (cpu.a - 1) % ByteValues))

(* A match of whole pages and one byte takes back what lz_length_16 did.   *)
lz_match_len ==
  /\ cpu.pc = "length"
  /\ Become(Big(IF cpu.sub /\ cpu.a = 0 THEN [cpu EXCEPT !.lz_len_hi = @ + 1] ELSE cpu,
                  cpu.a))

-----------------------------------------------------------------------------
(* The end of the run, a page back, and the same less the offset. *)
lz_match_len2 ==
  /\ cpu.pc = "lz_match_len2"
  /\ LET end  == PageBefore(Added(cpu.lz_dst, cpu.a + 1))
         low  == end.lo - cpu.lz_offset_lo - 1
         from == [lo |-> low % ByteValues,
                  hi |-> end.hi - cpu.lz_offset_hi - (IF low < 0 THEN 1 ELSE 0)]
     IN  Become([cpu EXCEPT !.lz_dst = end, !.lz_mdst = end, !.lz_msrcr = from,
                              !.x = end.hi, !.pc = "lz_cp_match"])

(* lda, sta, iny, and the patched branch back to the one or the other. *)
lz_cp_match ==
  /\ cpu.pc \in {"lz_cp_match", "lz_cp_store"}
  /\ LET byte == IF cpu.pc = "lz_cp_match" THEN Read(Address(cpu.lz_msrcr, cpu.y)) ELSE cpu.a
         s    == [cpu EXCEPT !.a = byte, !.y = (@ + 1) % ByteValues]
         page == [s EXCEPT !.x = @ + 1, !.lz_dst.hi = cpu.x + 1]
     IN  /\ Store(Address(cpu.lz_mdst, cpu.y), byte)
         /\ cpu' = IF s.y # 0 THEN GoTo(s, s.lz_match_loop)
                   ELSE IF page.lz_len_hi = 0 THEN GoTo(page, "lz_start_over")
                   ELSE [page EXCEPT !.lz_len_hi = @ - 1, !.lz_msrcr = NextPage(@),
                                     !.lz_mdst = NextPage(@), !.pc = "lz_cp_match"]

-----------------------------------------------------------------------------
MachineInit ==
  /\ ram = <<>> /\ stored = 0
  /\ build = [dali |-> FALSE, fast |-> FALSE]
  /\ cpu = [pc |-> "off", use |-> "literals", sub |-> FALSE, pushed |-> <<>>,
            a |-> 0, x |-> 0, y |-> 0, c |-> 0, lz_bits |-> 0, lz_len_hi |-> 0,
            lz_src |-> Pointer(0), lz_dst |-> Pointer(0), lz_fast_dst |-> Pointer(0),
            lz_offset_lo |-> 0, lz_offset_hi |-> 0,
            lz_msrcr |-> Pointer(0), lz_mdst |-> Pointer(0),
            lz_match_loop |-> "lz_cp_store"]

MachineStep ==
  \/ lz_start_over \/ lz_literal_complete \/ Payload \/ Control
  \/ lz_literals \/ lz_cp_lit \/ lz_cp_lit_fast \/ lz_l_page
  \/ lz_match \/ DaliHigh \/ lz_offset_metadata \/ lz_repeat \/ lz_match_len
  \/ lz_match_len2 \/ lz_cp_match

-----------------------------------------------------------------------------
(***************************************************************************)
(* Wherever a bit is shifted out without a test for an empty register,     *)
(* which is at lz_literal_complete and in lz_get_loop, the marker is still *)
(* behind it.  The same is so at lz_start_over, which does test: its       *)
(* branch to lz_start_refill is never taken.                               *)
(***************************************************************************)
MarkerKept ==
  cpu.pc \in {"lz_start_over", "lz_cp_lit_done", "payload"} =>
    cpu.lz_bits \notin {0, TopBit}
=============================================================================
