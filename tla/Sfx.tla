-------------------------------- MODULE Sfx --------------------------------
(***************************************************************************)
(* Self-extracting files: the tests and the image of write_packed_stream   *)
(* and validate_sfx_stream (kcrunch.c), and the run of the image on the    *)
(* machine (asm/sfx/dali_sfx.asm).                                         *)
(*                                                                         *)
(* The boot code copies the decoder to zero page, saving what was there on *)
(* the stack, and its last byte, the new value of $01, maps out the ROM.   *)
(* The decoder moves the packed stream to the top of memory, page by page  *)
(* and downwards, unpacks it below, and puts zero page back.  --small does *)
(* not save it.  Memory holds values that say where a byte came from.      *)
(***************************************************************************)
EXTENDS Compress

CONSTANTS
  Page,            \* 256
  BasicStart,      \* $0801
  BasicHeader,     \* 12, the bytes of the BASIC line
  BootSize(_),     \* the code before the decoder, for --small and without
  CodeSize(_),     \* depacker_end - depacker_start
  ExitSize,        \* depacker_end - restore_end
  StackUse,        \* what the decoder's subroutines need of the stack
  BootCheck,       \* 32, what is tested of the image against the ROM
  RomFrom, RomTo   \* $a000 and $c000

Pages == BUFFER_SIZE \div Page
KeptSize == CodeSize(FALSE) - ExitSize    \* restore_end - depacker_start

ASSUME SfxAssumption ==
  /\ Page \in Nat /\ Pages \in Nat /\ Page > 1 /\ Pages * Page = BUFFER_SIZE
  /\ BasicStart \in Nat /\ FirstFree = 2 * Page /\ BasicStart >= FirstFree
  /\ BasicHeader \in Nat /\ BootCheck \in Nat /\ RomFrom \in Nat /\ RomTo \in Nat
  /\ \A s \in BOOLEAN : CodeSize(s) \in 1 .. Page - 1
                        /\ BootSize(s) \in Nat /\ BootSize(s) > BasicHeader
  /\ ExitSize \in Nat \ {0} /\ ExitSize < CodeSize(FALSE)
  /\ StackUse \in Nat /\ KeptSize + StackUse < Page

VARIABLES
  cpu,    \* what the machine does next
  mem,
  y, a,   \* the index and what is to be pushed
  sp,     \* the stack pointer, for the fast decoder
  src, dst,   \* the operands of the move, and then lz_src and lz_dst
  command, left    \* the command at hand and what is left of its run

machineVars == <<cpu, mem, y, a, sp, src, dst, command, left>>
sfxVars == <<compressVars, machineVars>>

Small     == request.small
Relocated == request.relocate_sfx >= 0

-----------------------------------------------------------------------------
(* The image. *)

LoadAddress == IF Relocated THEN request.relocate_sfx ELSE BasicStart
Omitted        == IF Relocated THEN BasicHeader ELSE 0    \* the bytes that are not written
CodeOffset  == BootSize(Small) - Omitted                  \* sfx_src, counted from the load address
ImageLength == CodeOffset + CodeSize(Small) + ctx.packed_size

LayoutRefused_Boot ==    \* mutant: the ROM is forgotten
  LoadAddress < FirstFree \/ LoadAddress + ImageLength > BUFFER_SIZE

LayoutRefused ==
  \/ LoadAddress < FirstFree
  \/ LoadAddress + ImageLength > BUFFER_SIZE
  \/ LoadAddress < RomTo /\ LoadAddress + BootCheck > RomFrom
  \/ LoadAddress + BootCheck > IoFrom

(* After no command has the output passed what is read by then. *)
validate_sfx_stream_AtEnd ==    \* mutant: only the whole output is compared
  ctx.orig_addr + ctx.unpacked_size <= BUFFER_SIZE

validate_sfx_stream ==
  \A k \in 1 .. Len(stream.commands) :
    ctx.orig_addr + Given(stream, k) <= BUFFER_SIZE - ctx.packed_size + Taken(stream, k)

WriteSfx_OpensFirst ==    \* mutant: the tests come after fopen
  /\ pc = "write" /\ request.sfx
  /\ pc' = IF LayoutRefused \/ ~validate_sfx_stream THEN "refused" ELSE "written"
  /\ output' = OpenOutput
  /\ UNCHANGED <<request, ctx, dict, stream, restored, machineVars>>

WriteSfx ==
  /\ pc = "write" /\ request.sfx
  /\ IF LayoutRefused \/ ~validate_sfx_stream
     THEN pc' = "refused" /\ UNCHANGED output
     ELSE pc' = "written" /\ output' = [state |-> "sfx"]
  /\ UNCHANGED <<request, ctx, dict, stream, restored, machineVars>>

-----------------------------------------------------------------------------
(***************************************************************************)
(* The machine.  The loader puts the image into the RAM; the program is    *)
(* entered with the ROM mapped in, so that until the decoder is in place   *)
(* what is read there is not the RAM.                                      *)
(***************************************************************************)
Code(k)   == <<"code", k>>
Stream(k) == <<"stream", k>>
Data(k)   == <<"data", k>>
Saved(k)  == <<"before", k>>
Port      == <<"port", 0>>    \* the value of --01

InRom(x) == (x >= RomFrom /\ x < RomTo) \/ x >= IoFrom

Load ==
  /\ pc = "written" /\ output.state = "sfx" /\ cpu = "off"
  /\ mem' = [x \in 0 .. BUFFER_SIZE - 1 |->
               LET k == x - LoadAddress - CodeOffset
               IN  IF k < -CodeOffset \/ k >= CodeSize(Small) + ctx.packed_size THEN Saved(x)
                   ELSE IF k < 0 THEN <<"boot", k>>
                   ELSE IF k < CodeSize(Small) THEN Code(k + 1)
                   ELSE Stream(k - CodeSize(Small))]
  /\ cpu' = IF \E x \in LoadAddress .. LoadAddress + CodeOffset - 1 : InRom(x)
            THEN "crash" ELSE "boot"
  /\ y' = CodeSize(Small)
  /\ a' = <<"a", 0>>
  /\ sp' = ExitSize
  /\ UNCHANGED <<compressVars, src, dst, command, left>>

Pushed(m, x) == IF Small THEN m ELSE [m EXCEPT ![Page + sp] = x]

AfterPush == IF Small THEN sp ELSE (sp - 1) % Page

(* One byte of the decoder, from the last to the first; $01 is the first.  *)
Boot ==
  /\ cpu = "boot"
  /\ LET x == LoadAddress + CodeOffset + y - 1
     IN  mem' = [Pushed(mem, a) EXCEPT ![y] = IF InRom(x) THEN <<"rom", x>> ELSE mem[x]]
  /\ a' = mem[y]
  /\ sp' = AfterPush
  /\ y' = y - 1
  /\ cpu' = IF y > 1 THEN "boot"
            ELSE IF \E k \in 1 .. CodeSize(Small) : mem'[k] # Code(k) THEN "crash"
            ELSE "depack"
  /\ UNCHANGED <<compressVars, src, dst, command, left>>

(* .depack: the value for $01 is pushed on top of what is saved. *)
DataEnd == LoadAddress + ImageLength - Page

Depack ==
  /\ cpu = "depack"
  /\ mem' = Pushed(mem, Port)
  /\ sp' = AfterPush
  /\ src' = DataEnd
  /\ dst' = BUFFER_SIZE - Page
  /\ cpu' = "move"
  /\ UNCHANGED <<compressVars, y, a, command, left>>

(* One byte of the move; at the end of a page both operands go down, until *)
(* the page of the destination is lz_data_size_hi.                         *)
LastPage == Pages - 1 - (((ctx.packed_size + Page) \div Page) % Pages)

Move ==
  /\ cpu = "move"
  /\ LET i == (y - 1) % Page
     IN  /\ mem' = [mem EXCEPT ![dst + i] = mem[(src + i) % BUFFER_SIZE]]
         /\ y' = i
         /\ IF i # 0
            THEN UNCHANGED <<cpu, src, dst, command, left>>
            ELSE IF (dst \div Page - 1) % Pages # LastPage
            THEN /\ src' = (src - Page) % BUFFER_SIZE
                 /\ dst' = (dst - Page) % BUFFER_SIZE
                 /\ UNCHANGED <<cpu, command, left>>
            ELSE /\ src' = BUFFER_SIZE - ctx.packed_size
                 /\ dst' = ctx.orig_addr
                 /\ command' = 0 /\ left' = 0
                 /\ cpu' = "unpack"
  /\ UNCHANGED <<compressVars, a, sp>>

-----------------------------------------------------------------------------
(* Unpacking: the codes of a command are read by subroutines. *)

Position == src - (BUFFER_SIZE - ctx.packed_size)

Arrived(n) == \A k \in 0 .. n - 1 : mem[src + k] = Stream(Position + k)

CallsInto(m) ==    \* what is left of return addresses
  [x \in DOMAIN m |->
     IF ~Small /\ x > Page + sp - StackUse /\ x <= Page + sp THEN <<"return", 0>> ELSE m[x]]

NextCommand ==
  /\ cpu = "unpack" /\ left = 0 /\ command < Len(stream.commands)
  /\ LET c == stream.commands[command + 1]
     IN  IF Arrived(c.read)
         THEN /\ src' = src + c.read
              /\ left' = c.length
              /\ command' = command + 1
              /\ mem' = CallsInto(mem)
              /\ UNCHANGED cpu
         ELSE cpu' = "crash" /\ UNCHANGED <<src, left, command, mem>>
  /\ UNCHANGED <<compressVars, y, a, sp, dst>>

CopyByte ==
  /\ cpu = "unpack" /\ left > 0
  /\ LET literal == stream.commands[command].literal
         k       == dst - ctx.orig_addr
     IN  /\ mem' = [mem EXCEPT ![dst % BUFFER_SIZE] =
                      IF literal => Arrived(1) THEN Data(ctx.data + k) ELSE <<"wrong", k>>]
         /\ src' = IF literal THEN src + 1 ELSE src
  /\ dst' = dst + 1
  /\ left' = left - 1
  /\ UNCHANGED <<compressVars, cpu, y, a, sp, command>>

(* The end mark; --small jumps to the program, the other puts things back. *)
LzEof ==
  /\ cpu = "unpack" /\ left = 0 /\ command = Len(stream.commands)
  /\ IF Arrived(stream.end)
     THEN /\ cpu' = IF Small THEN "run" ELSE "restore"
          /\ mem' = CallsInto(mem)
     ELSE cpu' = "crash" /\ UNCHANGED mem
  /\ UNCHANGED <<compressVars, y, a, sp, src, dst, command, left>>

(* pla, tsx, and a store indexed by the stack pointer, until that is zero: *)
(* the last store goes to the pla itself.  pha then ends with sp at $ff.   *)
RestoreTo_Low(x) == (x - (Page - KeptSize)) % Page    \* mutant: counted from $00

RestoreTo(x) == (1 - (Page - KeptSize) + x) % Page

Restore ==
  /\ cpu = "restore"
  /\ LET x == (sp + 1) % Page
     IN  /\ mem' = [mem EXCEPT ![RestoreTo(x)] = mem[Page + x]]
         /\ sp' = IF x = 0 THEN Page - 1 ELSE x
         /\ cpu' = IF x = 0 THEN "run" ELSE "restore"
  /\ UNCHANGED <<compressVars, y, a, src, dst, command, left>>

-----------------------------------------------------------------------------
Init ==
  /\ CompressInit
  /\ cpu = "off" /\ mem = <<>> /\ y = 0 /\ a = <<"a", 0>> /\ sp = 0
  /\ src = 0 /\ dst = 0 /\ command = 0 /\ left = 0

Compressing == CompressNext /\ UNCHANGED machineVars

Next ==
  \/ Compressing \/ WriteSfx
  \/ Load \/ Boot \/ Depack \/ Move
  \/ NextCommand \/ CopyByte \/ LzEof \/ Restore

Spec == Init /\ [][Next]_sfxVars
-----------------------------------------------------------------------------
(* If a file that was written does not get its decoder going, then because *)
(* the decoder behind the tested bytes of the image lies under the ROM.    *)
CrashesOnlyBehindBoot ==
  cpu = "crash" =>
    \E x \in LoadAddress + BootCheck .. LoadAddress + CodeOffset + CodeSize(Small) - 1 : InRom(x)

(* Neither the move nor the output nor the stack gets at the decoder, and  *)
(* putting zero page back does not before the decoder is done with it.     *)
DecoderStaysWhole ==
  /\ cpu \in {"depack", "move", "unpack"} => \A k \in 1 .. CodeSize(Small) : mem[k] = Code(k)
  /\ cpu = "restore" => \A k \in KeptSize + 1 .. CodeSize(Small) : mem[k] = Code(k)

(* While unpacking, all of the stream that is unread is in its place at    *)
(* the top of memory: the move got it there, through itself where the two  *)
(* overlap, and the output, which grows towards it, never reaches it.      *)
UnreadStaysWhole ==
  cpu = "unpack" => \A k \in Position .. ctx.packed_size - 1 :
                      mem[BUFFER_SIZE - ctx.packed_size + k] = Stream(k)

(* When the program is entered, every byte asked for is at its address.    *)
SfxRestores ==
  cpu = "run" => \A x \in Between(request.from, request.to) : mem[x] = Data(ByteOf(x))

(* Then, but for --small, every byte of zero page is the one that was there *)
(* before, those that only pass through the stack's last free byte too;    *)
(* $01 is what --01 says, and the stack is empty.  Only the code that does *)
(* this is still there: it cannot put back what it runs from.              *)
ZeroPageButForExit ==
  cpu = "run" /\ ~Small =>
    /\ \A x \in 0 .. Page - 1 :
         mem[x] = IF x = 1 THEN Port
                  ELSE IF x \in KeptSize + 2 .. CodeSize(FALSE) THEN Code(x)
                  ELSE Saved(x)
    /\ sp = Page - 1

(* What README.md says: "The default restores used zero page". *)
ZeroPageRestored ==
  cpu = "run" /\ ~Small =>
    \A x \in {0} \cup 2 .. CodeSize(FALSE) : mem[x] = Saved(x)
=============================================================================
