------------------------------ MODULE Compress ------------------------------
(***************************************************************************)
(* The command line's compression and decompression (main, do_compress,    *)
(* write_packed_stream and do_decompress of kcrunch.c): from the options   *)
(* to the bytes that are compressed, the dictionary in front of them and   *)
(* the addresses in the file that is written.                              *)
(*                                                                         *)
(* A byte of the input file is its index, and a piece of it a record of    *)
(* its first index and its size; the code's pointers into unpacked_data    *)
(* are such indices.  What the packed stream holds is the business of      *)
(* BlockWriter; here it is a sequence of commands with the bytes each      *)
(* takes in and gives out.                                                 *)
(***************************************************************************)
EXTENDS Integers, Sequences, FiniteSetsExt

CONSTANTS
  BUFFER_SIZE,   \* 65536, the size of the address space
  Allowance,     \* 128, what a stream may be longer than its input
  DICT_MAX,      \* 32640, the longest prefix file that is used
  FirstFree,     \* $0200, behind zero page and stack
  IoFrom, IoTo,  \* $d000 and $e000
  Requests,      \* what the program is called with
  Streams        \* the streams the compressor may make

NotGiven == -1

(***************************************************************************)
(* A request is a file, as the load address it starts with and its size    *)
(* with those two bytes, and the options; a prefix file is its size.       *)
(***************************************************************************)
Addresses == NotGiven .. BUFFER_SIZE

RequestTypes == [
  addr : 0 .. BUFFER_SIZE - 1, size : Nat, cbm : BOOLEAN,
  verify : BOOLEAN, inplace : BOOLEAN, from : Addresses, to : Addresses,
  prefix_from : Addresses, prefix_file : Nat \cup {NotGiven},
  relocate_origin : Addresses, relocate_packed : Addresses,
  exit_on_warn : BOOLEAN,
  sfx : BOOLEAN, small : BOOLEAN, relocate_sfx : Addresses]

ASSUME CompressAssumption ==
  /\ BUFFER_SIZE \in Nat \ {0, 1}
  /\ Allowance \in Nat \ {0}
  /\ DICT_MAX \in Nat
  /\ FirstFree \in Nat
  /\ IoFrom \in Nat \ {0} /\ IoTo \in Nat /\ IoFrom < IoTo /\ IoTo <= BUFFER_SIZE
  /\ Requests \subseteq RequestTypes

MAX_VARLEN == BUFFER_SIZE - 1
PACKED_BUFFER_SIZE == BUFFER_SIZE + 2 * Allowance

VARIABLES
  pc,        \* what the program does next
  request,
  ctx,       \* the fields of the program's ctx that change
  dict,      \* dict_data and dict_size
  stream,    \* what salvador_compress made
  output,    \* the file named by -o
  restored   \* the file --decode made of it

compressVars == <<pc, request, ctx, dict, stream, output, restored>>

Piece(first, size) == [of |-> "input", first |-> first, size |-> size]
NoDict     == Piece(1, 0)
OldOutput  == [state |-> "old"]
OpenOutput == [state |-> "open"]
NoFile     == [state |-> "none"]

(* The bytes a stream's commands have taken in and given out, after k. *)
Taken(s, k) ==
  MapThenSumSet(LAMBDA i : s.commands[i].read +
                           (IF s.commands[i].literal THEN s.commands[i].length ELSE 0),
                1 .. k)
Given(s, k)    == MapThenSumSet(LAMBDA i : s.commands[i].length, 1 .. k)
PackedSize(s)  == Taken(s, Len(s.commands)) + s.end

Commands == [literal : BOOLEAN, read : Nat, length : Nat]

(* Both grow from command to command, as they are added up in the code.   *)
ASSUME StreamAssumption ==
  \A s \in Streams :
    /\ s.commands \in Seq(Commands) /\ s.end \in Nat
    /\ Given(s, 0) = 0 /\ Taken(s, 0) = 0
    /\ \A k \in 0 .. Len(s.commands) :
         /\ Given(s, k) \in Nat /\ Taken(s, k) \in Nat
         /\ Taken(s, k) <= Taken(s, Len(s.commands))
         /\ Given(s, k) <= Given(s, Len(s.commands))
    /\ \A k \in 1 .. Len(s.commands) :
         LET c == s.commands[k]
         IN  /\ Given(s, k) = Given(s, k - 1) + c.length
             /\ Taken(s, k) = Taken(s, k - 1) + c.read + (IF c.literal THEN c.length ELSE 0)

-----------------------------------------------------------------------------
(* main: a self-extracting file excludes other modes and dictionaries. *)
MainRefuses ==
  request.sfx /\ (request.verify \/ request.prefix_file >= 0 \/ ctx.prefix_from >= 0)

main ==
  /\ pc = "main"
  /\ pc' = IF MainRefuses THEN "refused"
           ELSE IF request.verify THEN "verify" ELSE "read"
  /\ ctx' = [ctx EXCEPT !.inplace = @ /\ ~request.sfx]
  /\ UNCHANGED <<request, dict, stream, output, restored>>

(* The input, and the address of its first byte; a load address is skipped. *)
TooLong == request.size > BUFFER_SIZE + (IF request.cbm THEN 2 ELSE 0)
NoAddress == request.relocate_origin < 0 /\ request.cbm /\ request.size < 2

OrigAddr ==
  IF request.relocate_origin >= 0 THEN request.relocate_origin
  ELSE IF request.cbm THEN request.addr ELSE 0

ReadInput ==
  /\ pc = "read"
  /\ IF TooLong \/ NoAddress
     THEN pc' = "refused" /\ UNCHANGED ctx
     ELSE /\ pc' = "range"
          /\ ctx' = [ctx EXCEPT !.orig_addr = OrigAddr,
                                !.data = IF request.cbm THEN 3 ELSE 1,
                                !.unpacked_size = request.size - (IF request.cbm THEN 2 ELSE 0)]
  /\ UNCHANGED <<request, dict, stream, output, restored>>

(* The range, clamped to the file: first its end, then its start.  A       *)
(* negative size is a huge one in the code; the last test turns it away.   *)
RangeTo(orig, size) ==
  IF ctx.range_to < 0 \/ ctx.range_to - orig > size THEN orig + size ELSE ctx.range_to

RangeFrom(orig) == IF ctx.range_from < orig THEN orig ELSE ctx.range_from

ClampRange ==
  /\ pc = "range"
  /\ LET to   == RangeTo(ctx.orig_addr, ctx.unpacked_size)
         from == RangeFrom(ctx.orig_addr)
     IN  /\ ctx' = [ctx EXCEPT !.range_to = to, !.range_from = from,
                               !.unpacked_size = to - ctx.orig_addr]
         /\ pc' = IF from > to THEN "refused" ELSE "prefix"
  /\ UNCHANGED <<request, dict, stream, output, restored>>

(***************************************************************************)
(* The dictionary: the bytes of the file from --prefix-from to the range,  *)
(* or another file, which is used when both are given.                     *)
(***************************************************************************)
PrefixFromRefused == ctx.prefix_from >= 0 /\ ctx.prefix_from >= ctx.range_from

PrefixFrom == IF ctx.prefix_from < ctx.orig_addr THEN ctx.orig_addr ELSE ctx.prefix_from

Dictionary ==
  IF request.prefix_file >= 0
  THEN [of |-> "prefix file", first |-> 1,
        size |-> IF request.prefix_file > DICT_MAX THEN DICT_MAX ELSE request.prefix_file]
  ELSE IF ctx.prefix_from >= 0
  THEN Piece(ctx.data + PrefixFrom - ctx.orig_addr, ctx.range_from - PrefixFrom)
  ELSE NoDict

TakePrefix ==
  /\ pc = "prefix"
  /\ IF PrefixFromRefused
     THEN pc' = "refused" /\ UNCHANGED dict
     ELSE pc' = "slice" /\ dict' = Dictionary
  /\ UNCHANGED <<request, ctx, stream, output, restored>>

(* The range becomes the payload, with its own address. *)
Sliced_FromStart(c) ==    \* mutant: the pointer is not moved
  [c EXCEPT !.unpacked_size = @ - (c.range_from - c.orig_addr),
            !.orig_addr = c.range_from]

Sliced_OldAddress(c) ==    \* mutant: the payload keeps the file's address
  [c EXCEPT !.data = @ + (c.range_from - c.orig_addr),
            !.unpacked_size = @ - (c.range_from - c.orig_addr)]

Sliced(c) ==
  [c EXCEPT !.data = @ + (c.range_from - c.orig_addr),
            !.unpacked_size = @ - (c.range_from - c.orig_addr),
            !.orig_addr = c.range_from]

MaxCompressedSize(n) == ((n + BUFFER_SIZE - 1) \div BUFFER_SIZE) * Allowance + n

PayloadRefused_LowSfx(c) ==    \* mutant: only the end of the output is tested
  \/ c.unpacked_size > MAX_VARLEN
  \/ request.sfx /\ c.orig_addr + c.unpacked_size > BUFFER_SIZE
  \/ c.unpacked_size = 0
  \/ MaxCompressedSize(dict.size + c.unpacked_size) > PACKED_BUFFER_SIZE

PayloadRefused(c) ==
  \/ c.unpacked_size > MAX_VARLEN
  \/ request.sfx /\ (c.orig_addr < FirstFree \/ c.orig_addr + c.unpacked_size > BUFFER_SIZE)
  \/ c.unpacked_size = 0
  \/ MaxCompressedSize(dict.size + c.unpacked_size) > PACKED_BUFFER_SIZE

Slice ==
  /\ pc = "slice"
  /\ ctx' = Sliced(ctx)
  /\ pc' = IF PayloadRefused(ctx') THEN "refused" ELSE "pack"
  /\ UNCHANGED <<request, dict, stream, output, restored>>

(***************************************************************************)
(* The compressor.  A file to be unpacked in place, whose stream is         *)
(* without its end mark "size" bytes long, ends with the last command      *)
(* before its output would reach what is still to be read; what the        *)
(* commands from there on give out is copied behind it.  Those may be      *)
(* more bytes than the commands were, and the file longer than the stream. *)
(***************************************************************************)
Overlaps(s, k, size) == Given(s, k) >= ctx.unpacked_size - size + Taken(s, k)

AdjustedSize(s, k) == Taken(s, k - 1) + ctx.unpacked_size - Given(s, k - 1)

(* The end mark is partly in a byte that also holds what is before it. *)
AdjustedSizes(s) ==
  {AdjustedSize(s, k) : k \in
     {i \in 1 .. Len(s.commands) : \E cut \in 1 .. s.end :
        LET size == PackedSize(s) - cut
        IN  Overlaps(s, i, size) /\ \A j \in 1 .. i - 1 : ~Overlaps(s, j, size)}}

TooLargeInplace_Bare(c) == c.inplace /\ c.packed_size > c.unpacked_size    \* mutant: no address

TooLargeInplace(c) == c.inplace /\ c.packed_size + 2 > c.unpacked_size

Pack ==
  /\ pc = "pack"
  /\ \E s \in Streams :
       /\ Given(s, Len(s.commands)) = ctx.unpacked_size
       /\ stream' = s
       /\ \E size \in IF ctx.inplace THEN AdjustedSizes(s) ELSE {PackedSize(s)} :
            ctx' = [ctx EXCEPT !.packed_size = size]
  /\ pc' = IF TooLargeInplace(ctx') THEN "refused" ELSE "write"
  /\ UNCHANGED <<request, dict, output, restored>>

-----------------------------------------------------------------------------
(* write_packed_stream of a file that is not self-extracting. *)

PackedAddr ==
  IF request.relocate_packed >= 0 THEN request.relocate_packed
  ELSE ctx.range_to - ctx.packed_size - 2

OpenFile ==
  /\ pc = "write" /\ ~request.sfx
  /\ output' = OpenOutput
  /\ ctx' = IF request.relocate_origin >= 0
            THEN [ctx EXCEPT !.orig_addr = request.relocate_origin,
                             !.cbm = TRUE, !.packed_addr = PackedAddr]
            ELSE [ctx EXCEPT !.packed_addr = PackedAddr]
  /\ pc' = "header"
  /\ UNCHANGED <<request, dict, stream, restored>>

(* fopen fails. *)
CannotOpen ==
  /\ pc = "write" /\ pc' = "refused"
  /\ UNCHANGED <<request, ctx, dict, stream, output, restored>>

InIoRange ==
  \/ ctx.packed_addr >= IoFrom /\ ctx.packed_addr < IoTo
  \/ ctx.packed_addr < IoFrom /\ ctx.packed_addr + ctx.packed_size + 2 > IoFrom

WriteFile ==
  /\ pc = "header"
  /\ IF ctx.cbm /\ InIoRange /\ request.exit_on_warn
     THEN pc' = "warned" /\ UNCHANGED output
     ELSE /\ pc' = "written"
          /\ output' = [state |-> "complete", header |-> ctx.cbm,
                        load |-> ctx.packed_addr % BUFFER_SIZE,
                        target |-> ctx.orig_addr % BUFFER_SIZE,
                        packed_size |-> ctx.packed_size]
  /\ UNCHANGED <<request, ctx, dict, stream, restored>>

(* Only part of the file could be written. *)
WriteFails ==
  /\ pc = "header" /\ pc' = "failed"
  /\ UNCHANGED <<request, ctx, dict, stream, output, restored>>

(***************************************************************************)
(* Another call of the program, with --decode and the file: its first four *)
(* bytes are the two addresses, unless --binfile says otherwise or it is   *)
(* shorter.  What it gives is the payload when the decoder is handed the   *)
(* stream from its start and a dictionary is not missing.                  *)
(***************************************************************************)
HeaderSize_Always(cbm) == 4    \* mutant: raw streams are stripped too

HeaderSize(cbm) ==
  LET size == output.packed_size + (IF output.header THEN 4 ELSE 0)
  IN  IF cbm /\ size >= 4 THEN 4 ELSE 0

do_decompress(cbm) ==
  /\ pc = "written" /\ output.state = "complete"
  /\ ~ctx.inplace /\ dict.size = 0
  /\ cbm = output.header
  /\ restored' = [state |-> "complete",
                  addr  |-> IF HeaderSize(cbm) = 4 THEN output.target ELSE NotGiven,
                  bytes |-> IF HeaderSize(cbm) = (IF output.header THEN 4 ELSE 0)
                            THEN Piece(ctx.data, ctx.unpacked_size) ELSE NoDict]
  /\ pc' = "done"
  /\ UNCHANGED <<request, ctx, dict, stream, output>>

-----------------------------------------------------------------------------
CompressInit ==
  /\ request \in Requests
  /\ pc = "main"
  /\ ctx = [cbm |-> request.cbm, inplace |-> request.inplace, data |-> 1,
            unpacked_size |-> 0, orig_addr |-> 0, packed_addr |-> 0, packed_size |-> 0,
            range_from |-> request.from, range_to |-> request.to,
            prefix_from |-> request.prefix_from]
  /\ dict = NoDict
  /\ stream = [commands |-> <<>>, end |-> 0]
  /\ output = OldOutput
  /\ restored = NoFile

CompressNext ==
  \/ main \/ ReadInput \/ ClampRange \/ TakePrefix \/ Slice \/ Pack
  \/ OpenFile \/ CannotOpen \/ WriteFile \/ WriteFails
  \/ \E cbm \in BOOLEAN : do_decompress(cbm)

-----------------------------------------------------------------------------
(***************************************************************************)
(* The input as a memory image, from the request alone: the byte of the    *)
(* file at an address, when the file is loaded where it belongs.           *)
(***************************************************************************)
ImageStart == OrigAddr
ImageSize  == request.size - (IF request.cbm THEN 2 ELSE 0)

Between(low, high) ==    \* addresses as asked for, inside the image
  {a \in ImageStart .. ImageStart + ImageSize - 1 :
     (low < 0 \/ a >= low) /\ (high < 0 \/ a < high)}

ByteOf(a) == a - ImageStart + 1 + (IF request.cbm THEN 2 ELSE 0)

Bytes(piece) == piece.first .. piece.first + piece.size - 1

(* What is packed are the bytes at the addresses --from and --to name, and *)
(* the dictionary those from --prefix-from to there, whatever the order in *)
(* which the bounds were given, clamped and turned into pointers and sizes.*)
SelectsTheRange ==
  pc \in {"pack", "write", "header", "written"} =>
    /\ Bytes(Piece(ctx.data, ctx.unpacked_size))
         = {ByteOf(a) : a \in Between(request.from, request.to)}
    /\ dict.of = "input" /\ request.prefix_from >= 0 =>
         Bytes(dict) = {ByteOf(a) : a \in Between(request.prefix_from, ctx.range_from)}

(* A file for in-place decompression, loaded at its address, lies inside   *)
(* the memory the original takes, and ends where it ends.                  *)
InplaceFileFits ==
  pc = "written" /\ output.state = "complete" /\ ctx.inplace
    /\ request.relocate_packed < 0 /\ ctx.range_to <= BUFFER_SIZE =>
      LET first == output.load
          last  == output.load + 2 + output.packed_size
      IN  first >= ctx.range_from /\ last = ctx.range_to

(* What --decode gives back is the range, with its address in front.       *)
RestoresWhereItWas ==
  restored.state = "complete" =>
    /\ Bytes(restored.bytes) = {ByteOf(a) : a \in Between(request.from, request.to)}
    /\ restored.addr # NotGiven => restored.addr = ctx.range_from % BUFFER_SIZE

(* The same, but for --relocate-origin with a --from behind it.            *)
RestoresTheRange ==
  request.relocate_origin < 0 \/ request.relocate_origin >= ctx.range_from
    => RestoresWhereItWas

(* A call that is refused, at whatever test, leaves the old file as it was.*)
OldOutputKept == pc = "refused" => output = OldOutput
=============================================================================
