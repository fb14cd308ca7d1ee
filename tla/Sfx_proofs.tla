----------------------------- MODULE Sfx_proofs -----------------------------
(***************************************************************************)
(* What holds of the command line for every size of memory, every file and *)
(* every combination of options: which bytes are packed, where a file for  *)
(* in-place decompression goes, and what --decode gives back; and of every *)
(* self-extracting file that is accepted, for every size of page, decoder  *)
(* and image, every stream and every place of the image: the run unpacks   *)
(* it, and puts back what it used.                                         *)
(***************************************************************************)
EXTENDS Sfx, TLAPS

(***************************************************************************)
(* The inductive invariant follows the bounds through the program: as they *)
(* were asked for until the file is read, clamped afterwards, turned into  *)
(* a pointer and a size by the slicing.  The fields keep their names and   *)
(* change their meaning there, so each part says up to where it holds.     *)
(***************************************************************************)
Contexts ==
  [cbm : BOOLEAN, inplace : BOOLEAN, data : Int, unpacked_size : Int, orig_addr : Int,
   packed_addr : Int, packed_size : Int, range_from : Int, range_to : Int,
   prefix_from : Int]

Stages == {"main", "verify", "read", "range", "prefix", "slice", "pack", "write", "header",
           "written", "done", "warned", "failed", "refused"}

FileTypes ==
  /\ request \in Requests /\ ctx \in Contexts /\ pc \in Stages
  /\ ctx.prefix_from = request.prefix_from

AsAsked ==
  pc \in {"main", "read", "range"} =>
    ctx.range_from = request.from /\ ctx.range_to = request.to

AsLoaded ==
  pc \in {"range", "prefix", "slice"} =>
    ctx.orig_addr = ImageStart /\ ctx.data = ByteOf(ImageStart)

WholeImage == pc = "range" => ctx.unpacked_size = ImageSize

Settled == pc \in {"pack", "write", "header", "written", "done"}

Clamped ==
  pc \in {"prefix", "slice"} \/ Settled =>
    /\ ctx.range_from = (IF request.from < ImageStart THEN ImageStart ELSE request.from)
    /\ ctx.range_to = (IF request.to < 0 \/ request.to - ImageStart > ImageSize
                       THEN ImageStart + ImageSize ELSE request.to)
    /\ ctx.range_from <= ctx.range_to

UpToRange == pc \in {"prefix", "slice"} => ctx.unpacked_size = ctx.range_to - ImageStart

Payload ==
  Settled => /\ ctx.data = ByteOf(ctx.range_from)
             /\ ctx.unpacked_size = ctx.range_to - ctx.range_from

DictionaryFits ==
  (pc = "slice" \/ Settled) /\ dict.of = "input" /\ request.prefix_from >= 0 =>
    LET first == IF request.prefix_from < ImageStart THEN ImageStart
                 ELSE request.prefix_from
    IN  first <= ctx.range_from /\ dict = Piece(ByteOf(first), ctx.range_from - first)

PackedFits ==
  pc \in {"write", "header", "written", "done"} =>
    ctx.packed_size \in Nat /\ (ctx.inplace => ctx.packed_size + 2 <= ctx.unpacked_size)

(* Where the payload and the packed file belong, at the last. *)
Addressed ==
  pc \in {"header", "written", "done"} /\ (pc # "header" => output.state = "complete") =>
    /\ ctx.orig_addr = (IF request.relocate_origin >= 0 THEN request.relocate_origin
                        ELSE ctx.range_from)
    /\ ctx.packed_addr = PackedAddr

OrigAtRange ==
  pc \in {"pack", "write"} => ctx.orig_addr = ctx.range_from

Written ==
  pc \in {"written", "done"} /\ output.state = "complete" =>
    output = [state |-> "complete", header |-> ctx.cbm,
              load |-> ctx.packed_addr % BUFFER_SIZE,
              target |-> ctx.orig_addr % BUFFER_SIZE,
              packed_size |-> ctx.packed_size]

Restored ==
  restored.state = "complete" =>
    /\ pc = "done" /\ output.state = "complete"
    /\ restored.bytes = Piece(ctx.data, ctx.unpacked_size)
    /\ restored.addr # NotGiven => restored.addr = ctx.orig_addr % BUFFER_SIZE

Untouched ==
  pc \notin {"header", "written", "done", "warned", "failed"} => output = OldOutput

IInv ==
  /\ FileTypes /\ AsAsked /\ AsLoaded /\ WholeImage /\ Clamped /\ UpToRange /\ Payload
  /\ DictionaryFits /\ PackedFits /\ OrigAtRange /\ Addressed /\ Written /\ Restored
  /\ Untouched
-----------------------------------------------------------------------------
LEMMA RequestType ==
  ASSUME request \in Requests
  PROVE  /\ request \in RequestTypes
         /\ ImageStart \in Nat /\ ImageSize \in Int
         /\ request.from \in Int /\ request.to \in Int /\ request.prefix_from \in Int
         /\ request.relocate_origin \in Int /\ request.relocate_packed \in Int
         /\ request.size \in Nat
  BY CompressAssumption DEF RequestTypes, Addresses, NotGiven, ImageStart, ImageSize, OrigAddr

LEMMA InitIInv == Init => IInv
<1> SUFFICES ASSUME Init PROVE IInv
  OBVIOUS
<1>1. request \in Requests /\ request \in RequestTypes
  BY RequestType DEF Init, CompressInit
<1>2. FileTypes /\ AsAsked
  BY <1>1, RequestType DEF Init, CompressInit, FileTypes, Contexts, Stages, AsAsked, RequestTypes
<1>3. QED
  BY <1>2 DEF Init, CompressInit, IInv, AsLoaded, WholeImage, Clamped, UpToRange, Payload,
     DictionaryFits, PackedFits, OrigAtRange, Addressed, Written, Restored, Untouched, Settled,
     NoFile

(***************************************************************************)
(* One lemma per step that touches a field of the invariant.               *)
(***************************************************************************)
LEMMA MainStep == ASSUME IInv, main PROVE IInv'
<1>1. request' = request /\ dict' = dict /\ stream' = stream /\ output' = output
      /\ restored' = restored /\ pc = "main" /\ pc' \in {"refused", "verify", "read"}
      /\ ctx \in Contexts /\ ctx' = [ctx EXCEPT !.inplace = @ /\ ~request.sfx]
  BY DEF main, IInv, FileTypes
<1>2. request.sfx \in BOOLEAN
  BY RequestType DEF IInv, FileTypes, RequestTypes
<1>3. ctx' \in Contexts /\ ctx'.range_from = ctx.range_from /\ ctx'.range_to = ctx.range_to
      /\ ctx'.prefix_from = ctx.prefix_from
  BY <1>1, <1>2 DEF Contexts
<1>4. FileTypes' /\ AsAsked'
  BY <1>1, <1>3 DEF IInv, FileTypes, AsAsked, Stages
<1>5. Restored' /\ Untouched'
  BY <1>1 DEF IInv, Restored, Untouched
<1>6. QED
  BY <1>1, <1>4, <1>5 DEF IInv, AsLoaded, WholeImage, Clamped, UpToRange, Payload,
     DictionaryFits, PackedFits, OrigAtRange, Addressed, Written, Settled

LEMMA ReadStep == ASSUME IInv, ReadInput PROVE IInv'
<1>1. request' = request /\ dict' = dict /\ stream' = stream /\ output' = output
      /\ restored' = restored /\ pc = "read" /\ pc' \in {"refused", "range"}
      /\ ctx \in Contexts
  BY DEF ReadInput, IInv, FileTypes
<1>2. ImageStart' = ImageStart /\ ImageSize' = ImageSize
      /\ ImageStart \in Nat /\ ImageSize \in Int
  BY <1>1, RequestType DEF IInv, FileTypes, ImageStart, ImageSize, OrigAddr
<1>3. /\ ctx' \in Contexts /\ ctx'.range_from = ctx.range_from /\ ctx'.range_to = ctx.range_to
      /\ ctx'.prefix_from = ctx.prefix_from
      /\ pc' = "range" => /\ ctx'.orig_addr = ImageStart /\ ctx'.data = ByteOf(ImageStart)
                          /\ ctx'.unpacked_size = ImageSize
  <2> DEFINE first == IF request.cbm THEN 3 ELSE 1
             size  == request.size - (IF request.cbm THEN 2 ELSE 0)
  <2>1. ByteOf(ImageStart) = first /\ ImageSize = size /\ first \in Int /\ size \in Int
    BY <1>2 DEF ByteOf, ImageSize
  <2>2. \/ ctx' = ctx /\ pc' = "refused"
        \/ ctx' = [ctx EXCEPT !.orig_addr = ImageStart, !.data = first, !.unpacked_size = size]
    BY DEF ReadInput, ImageStart
  <2> HIDE DEF first, size
  <2>3. CASE ctx' = ctx /\ pc' = "refused"
    BY <1>1, <2>3
  <2>4. CASE ctx' = [ctx EXCEPT !.orig_addr = ImageStart, !.data = first, !.unpacked_size = size]
    <3>1. /\ ctx' \in Contexts /\ ctx'.range_from = ctx.range_from
          /\ ctx'.range_to = ctx.range_to /\ ctx'.prefix_from = ctx.prefix_from
          /\ ctx'.orig_addr = ImageStart /\ ctx'.data = first /\ ctx'.unpacked_size = size
      <4>1. ctx \in Contexts /\ ImageStart \in Int /\ first \in Int /\ size \in Int
        BY <1>1, <1>2, <2>1
      <4>2. QED
        BY <4>1, <2>4 DEF Contexts
    <3>2. QED
      BY <2>1, <3>1
  <2>5. QED
    BY <2>2, <2>3, <2>4
<1>4. FileTypes' /\ AsAsked'
  BY <1>1, <1>3 DEF IInv, FileTypes, AsAsked, Stages
<1>5. AsLoaded' /\ WholeImage'
  BY <1>1, <1>2, <1>3 DEF AsLoaded, WholeImage, ByteOf
<1>6. Restored' /\ Untouched'
  BY <1>1 DEF IInv, Restored, Untouched
<1>7. QED
  BY <1>1, <1>4, <1>5, <1>6 DEF IInv, Clamped, UpToRange, Payload,
     DictionaryFits, PackedFits, OrigAtRange, Addressed, Written, Settled

LEMMA ClampStep == ASSUME IInv, ClampRange PROVE IInv'
<1>1. request' = request /\ dict' = dict /\ stream' = stream /\ output' = output
      /\ restored' = restored /\ pc = "range" /\ pc' \in {"refused", "prefix"}
      /\ ctx \in Contexts
  BY DEF ClampRange, IInv, FileTypes
<1>2. ImageStart' = ImageStart /\ ImageSize' = ImageSize
      /\ ImageStart \in Nat /\ ImageSize \in Int
      /\ request.from \in Int /\ request.to \in Int
  BY <1>1, RequestType DEF IInv, FileTypes, ImageStart, ImageSize, OrigAddr
<1>3. ctx.orig_addr = ImageStart /\ ctx.unpacked_size = ImageSize
      /\ ctx.range_from = request.from /\ ctx.range_to = request.to
      /\ ctx.data = ByteOf(ImageStart) /\ ctx.prefix_from = request.prefix_from
  BY <1>1 DEF IInv, FileTypes, AsAsked, AsLoaded, WholeImage
<1> DEFINE to   == RangeTo(ctx.orig_addr, ctx.unpacked_size)
           from == RangeFrom(ctx.orig_addr)
<1>4. /\ to = (IF request.to < 0 \/ request.to - ImageStart > ImageSize
               THEN ImageStart + ImageSize ELSE request.to)
      /\ from = (IF request.from < ImageStart THEN ImageStart ELSE request.from)
      /\ to \in Int /\ from \in Int
  BY <1>2, <1>3 DEF RangeTo, RangeFrom
<1>5. ctx' = [ctx EXCEPT !.range_to = to, !.range_from = from, !.unpacked_size = to - ctx.orig_addr]
      /\ pc' = IF from > to THEN "refused" ELSE "prefix"
  BY DEF ClampRange
<1> HIDE DEF to, from
<1>6. /\ ctx' \in Contexts /\ ctx'.range_from = from /\ ctx'.range_to = to
      /\ ctx'.unpacked_size = to - ImageStart /\ ctx'.data = ByteOf(ImageStart)
      /\ ctx'.orig_addr = ImageStart /\ ctx'.prefix_from = request.prefix_from
  <2> DEFINE size == to - ctx.orig_addr
  <2>1. size \in Int /\ size = to - ImageStart
    BY <1>2, <1>3, <1>4
  <2>2. ctx' = [ctx EXCEPT !.range_to = to, !.range_from = from, !.unpacked_size = size]
    BY <1>5
  <2> HIDE DEF size
  <2>3. /\ ctx' \in Contexts /\ ctx'.range_from = from /\ ctx'.range_to = to
        /\ ctx'.unpacked_size = size /\ ctx'.data = ctx.data
        /\ ctx'.orig_addr = ctx.orig_addr /\ ctx'.prefix_from = ctx.prefix_from
    BY <1>1, <1>4, <2>1, <2>2 DEF Contexts
  <2>4. QED
    BY <1>3, <2>1, <2>3
<1>7. FileTypes'
  BY <1>1, <1>6 DEF IInv, FileTypes, Stages
<1>8. AsLoaded' /\ UpToRange'
  BY <1>1, <1>2, <1>6 DEF AsLoaded, UpToRange, ByteOf
<1>9. Clamped'
  BY <1>1, <1>2, <1>4, <1>5, <1>6 DEF Clamped, Settled
<1>10. Restored' /\ Untouched'
  BY <1>1 DEF IInv, Restored, Untouched
<1>11. QED
  BY <1>1, <1>7, <1>8, <1>9, <1>10 DEF IInv, AsAsked, WholeImage, Payload,
     DictionaryFits, PackedFits, OrigAtRange, Addressed, Written, Settled

LEMMA PrefixStep == ASSUME IInv, TakePrefix PROVE IInv'
<1>1. request' = request /\ ctx' = ctx /\ stream' = stream /\ output' = output
      /\ restored' = restored /\ pc = "prefix" /\ pc' \in {"refused", "slice"}
  BY DEF TakePrefix
<1>2. ImageStart' = ImageStart /\ ImageSize' = ImageSize /\ ImageStart \in Nat
  BY <1>1, RequestType DEF IInv, FileTypes, ImageStart, ImageSize, OrigAddr
<1>3. FileTypes'
  BY <1>1 DEF IInv, FileTypes, Stages
<1>4. AsLoaded' /\ Clamped' /\ UpToRange'
  BY <1>1, <1>2 DEF IInv, AsLoaded, Clamped, UpToRange, Settled, ByteOf
<1>5. DictionaryFits'
  <2> DEFINE first == IF request.prefix_from < ImageStart THEN ImageStart
                      ELSE request.prefix_from
  <2> SUFFICES ASSUME pc' = "slice", dict'.of = "input", request.prefix_from >= 0
               PROVE  first <= ctx.range_from /\ dict' = Piece(ByteOf(first), ctx.range_from - first)
    BY <1>1, <1>2 DEF DictionaryFits, Settled, ByteOf
  <2>1. ~PrefixFromRefused /\ dict' = Dictionary
    BY DEF TakePrefix
  <2>2. /\ ctx.prefix_from = request.prefix_from /\ request.prefix_from \in Int
        /\ ctx.orig_addr = ImageStart /\ ctx.data = ByteOf(ImageStart)
        /\ ctx.range_from \in Int /\ ctx.range_from >= ImageStart
    BY <1>1, <1>2, RequestType DEF IInv, FileTypes, AsLoaded, Clamped, Contexts
  <2>3. dict' = Piece(ctx.data + PrefixFrom - ctx.orig_addr, ctx.range_from - PrefixFrom)
    BY <2>1, <2>2 DEF Dictionary
  <2>4. PrefixFrom = first /\ first <= ctx.range_from /\ first \in Int
    BY <1>2, <2>1, <2>2 DEF PrefixFrom, PrefixFromRefused
  <2>5. ctx.data + first - ctx.orig_addr = ByteOf(first)
    BY <1>2, <2>2, <2>4 DEF ByteOf
  <2>6. QED
    BY <2>3, <2>4, <2>5
<1>6. Restored' /\ Untouched'
  BY <1>1 DEF IInv, Restored, Untouched
<1>7. QED
  BY <1>1, <1>3, <1>4, <1>5, <1>6 DEF IInv, AsAsked, WholeImage, Payload,
     PackedFits, OrigAtRange, Addressed, Written, Settled

LEMMA SliceStep == ASSUME IInv, Slice PROVE IInv'
<1>1. request' = request /\ dict' = dict /\ stream' = stream /\ output' = output
      /\ restored' = restored /\ pc = "slice" /\ pc' \in {"refused", "pack"}
      /\ ctx' = Sliced(ctx) /\ ctx \in Contexts
  BY DEF Slice, IInv, FileTypes
<1>2. ImageStart' = ImageStart /\ ImageSize' = ImageSize /\ ImageStart \in Nat
  BY <1>1, RequestType DEF IInv, FileTypes, ImageStart, ImageSize, OrigAddr
<1>3. /\ ctx.orig_addr = ImageStart /\ ctx.data = ByteOf(ImageStart)
      /\ ctx.unpacked_size = ctx.range_to - ImageStart
      /\ ctx.range_from \in Int /\ ctx.range_to \in Int /\ ctx.data \in Int
  BY <1>1 DEF IInv, AsLoaded, UpToRange, Contexts
<1> DEFINE skipped == ctx.range_from - ctx.orig_addr
           data    == ctx.data + skipped
           size    == ctx.unpacked_size - skipped
<1>4. skipped \in Int /\ data = ByteOf(ctx.range_from) /\ data \in Int
      /\ size = ctx.range_to - ctx.range_from /\ size \in Int
  BY <1>2, <1>3 DEF ByteOf
<1>5. ctx' = [ctx EXCEPT !.data = data, !.unpacked_size = size, !.orig_addr = ctx.range_from]
  BY <1>1 DEF Sliced
<1> HIDE DEF skipped, data, size
<1>6. /\ ctx' \in Contexts /\ ctx'.data = data /\ ctx'.unpacked_size = size
      /\ ctx'.orig_addr = ctx.range_from /\ ctx'.range_from = ctx.range_from
      /\ ctx'.range_to = ctx.range_to /\ ctx'.prefix_from = ctx.prefix_from
  BY <1>1, <1>3, <1>4, <1>5 DEF Contexts
<1>7. FileTypes'
  BY <1>1, <1>6 DEF IInv, FileTypes, Stages
<1>8. Clamped'
  BY <1>1, <1>2, <1>6 DEF IInv, Clamped, Settled
<1>9. Payload' /\ OrigAtRange'
  BY <1>1, <1>2, <1>4, <1>6 DEF Payload, OrigAtRange, Settled, ByteOf
<1>10. DictionaryFits'
  BY <1>1, <1>2, <1>6 DEF IInv, DictionaryFits, Settled, ByteOf
<1>11. Restored' /\ Untouched'
  BY <1>1 DEF IInv, Restored, Untouched
<1>12. QED
  BY <1>1, <1>7, <1>8, <1>9, <1>10, <1>11 DEF IInv, AsAsked, AsLoaded, WholeImage, UpToRange,
     PackedFits, Addressed, Written, Settled

(***************************************************************************)
(* From packing on only the size of the stream and the addresses change.   *)
(***************************************************************************)
LEMMA SettledStep ==
  ASSUME IInv, request' = request, dict' = dict, Settled, Settled',
         ctx'.data = ctx.data, ctx'.unpacked_size = ctx.unpacked_size,
         ctx'.range_from = ctx.range_from, ctx'.range_to = ctx.range_to
  PROVE  AsAsked' /\ AsLoaded' /\ WholeImage' /\ Clamped' /\ UpToRange' /\ Payload'
         /\ DictionaryFits'
<1>1. ImageStart' = ImageStart /\ ImageSize' = ImageSize
  BY DEF ImageStart, ImageSize, OrigAddr
<1>2. Clamped'
  BY <1>1 DEF IInv, Clamped
<1>3. Payload'
  BY <1>1 DEF IInv, Payload, ByteOf
<1>4. DictionaryFits'
  BY <1>1 DEF IInv, DictionaryFits, ByteOf
<1>5. QED
  BY <1>2, <1>3, <1>4 DEF AsAsked, AsLoaded, WholeImage, UpToRange, Settled

LEMMA PackStep == ASSUME IInv, Pack PROVE IInv'
<1>1. request' = request /\ dict' = dict /\ output' = output
      /\ restored' = restored /\ pc = "pack" /\ pc' \in {"refused", "write"}
      /\ pc' = (IF TooLargeInplace(ctx') THEN "refused" ELSE "write") /\ ctx \in Contexts
  BY DEF Pack, IInv, FileTypes
<1>2. PICK s \in Streams :
        /\ Given(s, Len(s.commands)) = ctx.unpacked_size
        /\ \E size \in IF ctx.inplace THEN AdjustedSizes(s) ELSE {PackedSize(s)} :
             ctx' = [ctx EXCEPT !.packed_size = size]
  BY DEF Pack
<1>3. PICK size \in IF ctx.inplace THEN AdjustedSizes(s) ELSE {PackedSize(s)} :
             ctx' = [ctx EXCEPT !.packed_size = size]
  BY <1>2
<1>4. size \in Nat
  <2>1. s.end \in Nat /\ Len(s.commands) \in Nat
    BY StreamAssumption
  <2>2. \A k \in 0 .. Len(s.commands) :
          /\ Given(s, k) \in Nat /\ Taken(s, k) \in Nat
          /\ Given(s, k) <= ctx.unpacked_size
    BY <1>2, StreamAssumption
  <2>3. CASE ctx.inplace
    <3>1. PICK k \in 1 .. Len(s.commands) : size = AdjustedSize(s, k)
      BY <1>3, <2>3 DEF AdjustedSizes
    <3>2. k - 1 \in 0 .. Len(s.commands) /\ ctx.unpacked_size \in Int
      BY <1>1, <2>1 DEF Contexts
    <3> DEFINE given == Given(s, k - 1)
               taken == Taken(s, k - 1)
    <3>3. given \in Nat /\ taken \in Nat /\ given <= ctx.unpacked_size
      BY <2>2, <3>2
    <3>4. size = taken + ctx.unpacked_size - given
      BY <3>1 DEF AdjustedSize
    <3> HIDE DEF given, taken
    <3>5. QED
      BY <3>2, <3>3, <3>4
  <2>4. CASE ~ctx.inplace
    <3>1. size = PackedSize(s)
      BY <1>3, <2>4
    <3>2. Len(s.commands) \in 0 .. Len(s.commands)
      BY <2>1
    <3>3. QED
      BY <2>1, <2>2, <3>1, <3>2 DEF PackedSize
  <2>5. QED
    BY <2>3, <2>4
<1>5. ctx' = [ctx EXCEPT !.packed_size = size]
  BY <1>3
<1>6. /\ ctx' \in Contexts /\ ctx'.packed_size = size /\ ctx'.inplace = ctx.inplace
      /\ ctx'.data = ctx.data /\ ctx'.unpacked_size = ctx.unpacked_size
      /\ ctx'.orig_addr = ctx.orig_addr /\ ctx'.range_from = ctx.range_from
      /\ ctx'.range_to = ctx.range_to /\ ctx'.prefix_from = ctx.prefix_from
  BY <1>1, <1>4, <1>5 DEF Contexts
<1>7. FileTypes' /\ OrigAtRange'
  BY <1>1, <1>6 DEF IInv, FileTypes, OrigAtRange, Stages
<1>8. pc' = "write" => PackedFits' /\ Settled'
  <2>1. ctx.unpacked_size \in Int
    BY <1>1 DEF Contexts
  <2>2. QED
    BY <1>1, <1>4, <1>6, <2>1 DEF PackedFits, TooLargeInplace, Settled
<1>9. pc' = "write" => AsAsked' /\ AsLoaded' /\ WholeImage' /\ Clamped' /\ UpToRange' /\ Payload'
                       /\ DictionaryFits'
  BY <1>1, <1>6, <1>8, SettledStep DEF Settled
<1>10. Restored' /\ Untouched'
  BY <1>1 DEF IInv, Restored, Untouched
<1>11. QED
  BY <1>1, <1>7, <1>8, <1>9, <1>10 DEF IInv, AsAsked, AsLoaded, WholeImage, Clamped, UpToRange,
     Payload, DictionaryFits, PackedFits, Addressed, Written, Settled

LEMMA OpenStep == ASSUME IInv, OpenFile PROVE IInv'
<1>1. request' = request /\ dict' = dict /\ restored' = restored
      /\ pc = "write" /\ pc' = "header" /\ ctx \in Contexts
  BY DEF OpenFile, IInv, FileTypes
<1>2. /\ request.relocate_origin \in Int /\ request.relocate_packed \in Int
      /\ ctx.range_to - ctx.packed_size - 2 \in Int
  BY <1>1, RequestType DEF IInv, FileTypes, Contexts
<1> DEFINE origin == IF request.relocate_origin >= 0 THEN request.relocate_origin
                     ELSE ctx.orig_addr
           cbm    == request.relocate_origin >= 0 \/ ctx.cbm
           addr   == PackedAddr
<1>3. addr \in Int /\ origin \in Int
  BY <1>1, <1>2 DEF PackedAddr, Contexts
<1>4. /\ ctx' \in Contexts /\ ctx'.orig_addr = origin /\ ctx'.packed_addr = addr
      /\ ctx'.packed_size = ctx.packed_size /\ ctx'.inplace = ctx.inplace
      /\ ctx'.data = ctx.data /\ ctx'.unpacked_size = ctx.unpacked_size
      /\ ctx'.range_from = ctx.range_from
      /\ ctx'.range_to = ctx.range_to /\ ctx'.prefix_from = ctx.prefix_from
  <2>1. CASE request.relocate_origin >= 0
    <3>1. ctx' = [ctx EXCEPT !.orig_addr = request.relocate_origin, !.cbm = TRUE,
                             !.packed_addr = addr]
      BY <2>1 DEF OpenFile
    <3> HIDE DEF addr
    <3>2. QED
      BY <1>1, <1>2, <1>3, <2>1, <3>1 DEF Contexts
  <2>2. CASE ~(request.relocate_origin >= 0)
    <3>1. ctx' = [ctx EXCEPT !.packed_addr = addr]
      BY <2>2 DEF OpenFile
    <3> HIDE DEF addr
    <3>2. QED
      BY <1>1, <1>3, <2>2, <3>1 DEF Contexts
  <2>3. QED
    BY <2>1, <2>2
<1>5. PackedAddr' = PackedAddr
  BY <1>1, <1>4 DEF PackedAddr
<1>6. Addressed'
  BY <1>1, <1>4, <1>5 DEF IInv, OrigAtRange, Addressed
<1>7. FileTypes'
  BY <1>1, <1>4 DEF IInv, FileTypes, Stages
<1>8. PackedFits'
  BY <1>1, <1>4 DEF IInv, PackedFits
<1>9. AsAsked' /\ AsLoaded' /\ WholeImage' /\ Clamped' /\ UpToRange' /\ Payload'
      /\ DictionaryFits'
  BY <1>1, <1>4, SettledStep DEF Settled
<1>10. Restored' /\ Untouched' /\ OrigAtRange' /\ Written'
  BY <1>1 DEF IInv, Restored, Untouched, OrigAtRange, Written
<1>11. QED
  BY <1>6, <1>7, <1>8, <1>9, <1>10 DEF IInv

(***************************************************************************)
(* A refusal, before and by fopen, and a file that is left half written.   *)
(***************************************************************************)
LEMMA StopStep ==
  ASSUME IInv, pc' \in {"refused", "warned", "failed"}, pc' = "refused" => pc = "write",
         restored.state # "complete" \/ pc # "done", UNCHANGED <<request, ctx, dict, output, restored>>
  PROVE  IInv'
<1>1. FileTypes' /\ Restored' /\ Untouched'
  BY DEF IInv, FileTypes, Stages, Restored, Untouched
<1>2. QED
  BY <1>1 DEF IInv, AsAsked, AsLoaded, WholeImage, Clamped, UpToRange, Payload,
     DictionaryFits, PackedFits, OrigAtRange, Addressed, Written, Settled

LEMMA WriteStep == ASSUME IInv, WriteFile PROVE IInv'
<1>1. request' = request /\ dict' = dict /\ restored' = restored /\ ctx' = ctx
      /\ pc = "header" /\ pc' \in {"warned", "written"}
  BY DEF WriteFile
<1>2. CASE pc' = "warned"
  BY <1>1, <1>2, StopStep DEF WriteFile
<1>3. CASE pc' = "written"
  <2>1. output' = [state |-> "complete", header |-> ctx.cbm,
                   load |-> ctx.packed_addr % BUFFER_SIZE,
                   target |-> ctx.orig_addr % BUFFER_SIZE,
                   packed_size |-> ctx.packed_size]
    BY <1>3 DEF WriteFile
  <2>2. Written'
    BY <1>1, <2>1 DEF Written
  <2>3. Addressed'
    BY <1>1, <1>3 DEF IInv, Addressed, PackedAddr
  <2>4. FileTypes' /\ PackedFits'
    BY <1>1, <1>3 DEF IInv, FileTypes, PackedFits, Stages
  <2>5. AsAsked' /\ AsLoaded' /\ WholeImage' /\ Clamped' /\ UpToRange' /\ Payload'
        /\ DictionaryFits'
    BY <1>1, <1>3, SettledStep DEF Settled
  <2>6. Restored' /\ Untouched' /\ OrigAtRange'
    BY <1>1, <1>3 DEF IInv, Restored, Untouched, OrigAtRange
  <2>7. QED
    BY <2>2, <2>3, <2>4, <2>5, <2>6 DEF IInv
<1>4. QED
  BY <1>1, <1>2, <1>3

LEMMA DecompressStep == ASSUME IInv, NEW cbm \in BOOLEAN, do_decompress(cbm) PROVE IInv'
<1>1. /\ request' = request /\ dict' = dict /\ output' = output /\ ctx' = ctx
      /\ pc = "written" /\ pc' = "done" /\ output.state = "complete" /\ cbm = output.header
  BY DEF do_decompress
<1>2. ctx.packed_size \in Nat /\ ctx.cbm \in BOOLEAN /\ output.header = ctx.cbm
      /\ output.packed_size = ctx.packed_size /\ output.target = ctx.orig_addr % BUFFER_SIZE
  BY <1>1 DEF IInv, FileTypes, Contexts, PackedFits, Written
<1>3. HeaderSize(cbm) = IF output.header THEN 4 ELSE 0
  BY <1>1, <1>2 DEF HeaderSize
<1>4. /\ restored'.bytes = Piece(ctx.data, ctx.unpacked_size)
      /\ restored'.addr # NotGiven => restored'.addr = ctx.orig_addr % BUFFER_SIZE
  BY <1>1, <1>2, <1>3 DEF do_decompress
<1>5. Restored' /\ Untouched' /\ OrigAtRange'
  BY <1>1, <1>4 DEF Restored, Untouched, OrigAtRange
<1>6. Written' /\ PackedFits' /\ FileTypes'
  BY <1>1 DEF IInv, Written, PackedFits, FileTypes, Stages
<1>7. Addressed'
  BY <1>1 DEF IInv, Addressed, PackedAddr
<1>8. AsAsked' /\ AsLoaded' /\ WholeImage' /\ Clamped' /\ UpToRange' /\ Payload'
      /\ DictionaryFits'
  BY <1>1, SettledStep DEF Settled
<1>9. QED
  BY <1>5, <1>6, <1>7, <1>8 DEF IInv

(***************************************************************************)
(* A self-extracting file is neither taken by --decode nor addressed.      *)
(***************************************************************************)
LEMMA SfxStep == ASSUME IInv, WriteSfx PROVE IInv'
<1>1. request' = request /\ dict' = dict /\ restored' = restored /\ ctx' = ctx
      /\ pc = "write" /\ pc' \in {"refused", "written"}
  BY DEF WriteSfx
<1>2. CASE pc' = "refused"
  BY <1>1, <1>2, StopStep DEF WriteSfx
<1>3. CASE pc' = "written"
  <2>1. output'.state = "sfx"
    BY <1>3 DEF WriteSfx
  <2>2. Written' /\ Addressed' /\ Untouched' /\ OrigAtRange'
    BY <1>3, <2>1 DEF Written, Addressed, Untouched, OrigAtRange
  <2>3. FileTypes' /\ PackedFits' /\ Restored'
    BY <1>1, <1>3 DEF IInv, FileTypes, PackedFits, Restored, Stages
  <2>4. AsAsked' /\ AsLoaded' /\ WholeImage' /\ Clamped' /\ UpToRange' /\ Payload'
        /\ DictionaryFits'
    BY <1>1, <1>3, SettledStep DEF Settled
  <2>5. QED
    BY <2>2, <2>3, <2>4 DEF IInv
<1>4. QED
  BY <1>1, <1>2, <1>3

(***************************************************************************)
(* The machine does not touch the program that has ended.                  *)
(***************************************************************************)
LEMMA QuietStep == ASSUME IInv, UNCHANGED compressVars PROVE IInv'
<1>1. UNCHANGED <<pc, request, ctx, dict, output, restored>>
  BY DEF compressVars
<1>2. ImageStart' = ImageStart /\ ImageSize' = ImageSize /\ PackedAddr' = PackedAddr
  BY <1>1 DEF ImageStart, ImageSize, OrigAddr, PackedAddr
<1>3. FileTypes' /\ AsAsked' /\ AsLoaded' /\ WholeImage'
  BY <1>1, <1>2 DEF IInv, FileTypes, AsAsked, AsLoaded, WholeImage, ByteOf
<1>4. Clamped' /\ UpToRange' /\ Payload' /\ DictionaryFits'
  BY <1>1, <1>2 DEF IInv, Clamped, UpToRange, Payload, DictionaryFits, Settled, ByteOf
<1>5. PackedFits' /\ OrigAtRange' /\ Addressed' /\ Written' /\ Restored' /\ Untouched'
  BY <1>1, <1>2 DEF IInv, PackedFits, OrigAtRange, Addressed, Written, Restored, Untouched
<1>6. QED
  BY <1>3, <1>4, <1>5 DEF IInv

LEMMA NextIInv == ASSUME IInv, [Next]_sfxVars PROVE IInv'
<1>1. CASE Compressing
  <2>1. CASE main
    BY <2>1, MainStep
  <2>2. CASE ReadInput
    BY <2>2, ReadStep
  <2>3. CASE ClampRange
    BY <2>3, ClampStep
  <2>4. CASE TakePrefix
    BY <2>4, PrefixStep
  <2>5. CASE Slice
    BY <2>5, SliceStep
  <2>6. CASE Pack
    BY <2>6, PackStep
  <2>7. CASE OpenFile
    BY <2>7, OpenStep
  <2>8. CASE CannotOpen
    BY <2>8, StopStep DEF CannotOpen
  <2>9. CASE WriteFile
    BY <2>9, WriteStep
  <2>10. CASE WriteFails
    BY <2>10, StopStep DEF WriteFails
  <2>11. CASE \E cbm \in BOOLEAN : do_decompress(cbm)
    BY <2>11, DecompressStep
  <2>12. QED
    BY <1>1, <2>1, <2>2, <2>3, <2>4, <2>5, <2>6, <2>7, <2>8, <2>9, <2>10, <2>11
       DEF Compressing, CompressNext
<1>2. CASE WriteSfx
  BY <1>2, SfxStep
<1>3. CASE Load \/ Boot \/ Depack \/ Move \/ NextCommand \/ CopyByte \/ LzEof \/ Restore
  BY <1>3, QuietStep DEF Load, Boot, Depack, Move, NextCommand, CopyByte, LzEof, Restore
<1>4. CASE UNCHANGED sfxVars
  BY <1>4, QuietStep DEF sfxVars
<1>5. QED
  BY <1>1, <1>2, <1>3, <1>4 DEF Next

THEOREM FilesInvariant == Spec => []IInv
<1>1. Init => IInv
  BY InitIInv
<1>2. IInv /\ [Next]_sfxVars => IInv'
  BY NextIInv
<1>3. QED
  BY <1>1, <1>2, PTL DEF Spec

-----------------------------------------------------------------------------
(***************************************************************************)
(* A number below the size of memory is its own remainder.                 *)
(***************************************************************************)
LEMMA OwnRemainder == ASSUME NEW n \in Nat \ {0}, NEW x \in 0 .. n - 1 PROVE x % n = x
  OBVIOUS

(***************************************************************************)
(* The bytes of a piece that starts with the byte of an address are those  *)
(* of as many addresses from there on.                                     *)
(***************************************************************************)
LEMMA PieceOfAddresses ==
  ASSUME NEW first \in Int, NEW behind \in Int, request \in Requests
  PROVE  Bytes(Piece(ByteOf(first), behind - first)) = {ByteOf(x) : x \in first .. behind - 1}
<1> DEFINE shift == 1 - ImageStart + (IF request.cbm THEN 2 ELSE 0)
<1>1. shift \in Int /\ \A x \in Int : ByteOf(x) = x + shift
  BY RequestType DEF ByteOf
<1> HIDE DEF shift
<1>2. Bytes(Piece(ByteOf(first), behind - first)) = first + shift .. behind + shift - 1
  BY <1>1 DEF Bytes, Piece
<1>3. \A n \in first + shift .. behind + shift - 1 :
        n - shift \in first .. behind - 1 /\ n = ByteOf(n - shift)
  BY <1>1
<1>4. \A x \in first .. behind - 1 : ByteOf(x) \in first + shift .. behind + shift - 1
  BY <1>1
<1>5. QED
  BY <1>2, <1>3, <1>4

(***************************************************************************)
(* The payload is the part of the image between --from and --to; when it   *)
(* has been settled, the clamped bounds name the same addresses.           *)
(***************************************************************************)
LEMMA RangeOfRequest ==
  ASSUME IInv, Settled
  PROVE  /\ Between(request.from, request.to) = ctx.range_from .. ctx.range_to - 1
         /\ ctx.range_from \in Int /\ ctx.range_to \in Int
         /\ ctx.range_from >= ImageStart /\ ctx.range_to <= ImageStart + ImageSize
<1>1. ImageStart \in Nat /\ ImageSize \in Int /\ request.from \in Int /\ request.to \in Int
  BY RequestType DEF IInv, FileTypes
<1>2. /\ ctx.range_from = (IF request.from < ImageStart THEN ImageStart ELSE request.from)
      /\ ctx.range_to = (IF request.to < 0 \/ request.to - ImageStart > ImageSize
                         THEN ImageStart + ImageSize ELSE request.to)
  BY DEF IInv, Clamped
<1>3. QED
  BY <1>1, <1>2 DEF Between

LEMMA PayloadOfRequest ==
  ASSUME IInv, Settled
  PROVE  Bytes(Piece(ctx.data, ctx.unpacked_size))
           = {ByteOf(x) : x \in Between(request.from, request.to)}
<1>1. ctx.data = ByteOf(ctx.range_from) /\ ctx.unpacked_size = ctx.range_to - ctx.range_from
  BY DEF IInv, Payload
<1>2. QED
  BY <1>1, RangeOfRequest, PieceOfAddresses DEF IInv, FileTypes

(***************************************************************************)
(* What is packed are the bytes between --from and --to, and the           *)
(* dictionary those from --prefix-from to there, for every file and every  *)
(* way to give the bounds.                                                 *)
(***************************************************************************)
THEOREM RangeSelected == Spec => []SelectsTheRange
<1>1. IInv => SelectsTheRange
  <2> SUFFICES ASSUME IInv, pc \in {"pack", "write", "header", "written"}
               PROVE  /\ Bytes(Piece(ctx.data, ctx.unpacked_size))
                           = {ByteOf(x) : x \in Between(request.from, request.to)}
                      /\ dict.of = "input" /\ request.prefix_from >= 0 =>
                           Bytes(dict) = {ByteOf(x) : x \in Between(request.prefix_from,
                                                                    ctx.range_from)}
    BY DEF SelectsTheRange
  <2>1. Settled
    BY DEF Settled
  <2>2. ASSUME dict.of = "input", request.prefix_from >= 0
        PROVE  Bytes(dict) = {ByteOf(x) : x \in Between(request.prefix_from, ctx.range_from)}
    <3> DEFINE first == IF request.prefix_from < ImageStart THEN ImageStart
                        ELSE request.prefix_from
    <3>1. first <= ctx.range_from /\ dict = Piece(ByteOf(first), ctx.range_from - first)
      BY <2>1, <2>2 DEF IInv, DictionaryFits
    <3>2. /\ ImageStart \in Nat /\ ImageSize \in Int /\ request.prefix_from \in Int
          /\ request \in Requests
      BY RequestType DEF IInv, FileTypes
    <3>3. /\ ctx.range_from \in Int /\ ctx.range_from >= ImageStart
          /\ ctx.range_from <= ImageStart + ImageSize
      BY <2>1, <3>2, RangeOfRequest DEF IInv, Clamped
    <3>4. Between(request.prefix_from, ctx.range_from) = first .. ctx.range_from - 1
      BY <2>2, <3>2, <3>3 DEF Between
    <3>5. first \in Int
      BY <3>2
    <3> HIDE DEF first
    <3>6. QED
      BY <3>1, <3>2, <3>3, <3>4, <3>5, PieceOfAddresses
  <2>3. QED
    BY <2>1, <2>2, PayloadOfRequest
<1>2. QED
  BY <1>1, FilesInvariant, PTL

(***************************************************************************)
(* A file for in-place decompression ends where the original ends and      *)
(* begins no earlier, wherever in memory that is.                          *)
(***************************************************************************)
THEOREM InplaceFilePlaced == Spec => []InplaceFileFits
<1>1. IInv => InplaceFileFits
  <2> SUFFICES ASSUME IInv, pc = "written", output.state = "complete", ctx.inplace,
                      request.relocate_packed < 0, ctx.range_to <= BUFFER_SIZE
               PROVE  output.load >= ctx.range_from
                      /\ output.load + 2 + output.packed_size = ctx.range_to
    BY DEF InplaceFileFits
  <2>1. output.load = ctx.packed_addr % BUFFER_SIZE /\ output.packed_size = ctx.packed_size
    BY DEF IInv, Written
  <2>2. ctx.packed_addr = ctx.range_to - ctx.packed_size - 2
    <3>1. request.relocate_packed \in Int
      BY RequestType DEF IInv, FileTypes
    <3>2. QED
      BY <3>1 DEF IInv, Addressed, PackedAddr
  <2>3. ctx.packed_size \in Nat /\ ctx.packed_size + 2 <= ctx.range_to - ctx.range_from
    BY DEF IInv, PackedFits, Payload, Settled
  <2>4. ctx.range_from \in Nat /\ ctx.range_to \in Int
    BY RangeOfRequest, RequestType DEF IInv, FileTypes, Settled
  <2>5. ctx.packed_addr \in 0 .. BUFFER_SIZE - 1 /\ ctx.packed_addr >= ctx.range_from
    BY <2>2, <2>3, <2>4, CompressAssumption
  <2>6. output.load = ctx.packed_addr
    BY <2>1, <2>5, OwnRemainder, CompressAssumption
  <2>7. QED
    BY <2>1, <2>2, <2>3, <2>4, <2>5, <2>6
<1>2. QED
  BY <1>1, FilesInvariant, PTL

(***************************************************************************)
(* What --decode gives back is the range, with its address in front, but   *)
(* for --relocate-origin with a --from behind it.                          *)
(***************************************************************************)
THEOREM RangeRestored == Spec => []RestoresTheRange
<1>1. IInv => RestoresTheRange
  <2> SUFFICES ASSUME IInv, restored.state = "complete",
                      request.relocate_origin < 0 \/ request.relocate_origin >= ctx.range_from
               PROVE  /\ Bytes(restored.bytes)
                           = {ByteOf(x) : x \in Between(request.from, request.to)}
                      /\ restored.addr # NotGiven => restored.addr = ctx.range_from % BUFFER_SIZE
    BY DEF RestoresTheRange, RestoresWhereItWas
  <2>1. /\ pc = "done" /\ output.state = "complete"
        /\ restored.bytes = Piece(ctx.data, ctx.unpacked_size)
        /\ restored.addr # NotGiven => restored.addr = ctx.orig_addr % BUFFER_SIZE
    BY DEF IInv, Restored
  <2>2. Settled
    BY <2>1 DEF Settled
  <2>3. ctx.orig_addr = ctx.range_from
    <3>1. /\ ctx.orig_addr = (IF request.relocate_origin >= 0 THEN request.relocate_origin
                              ELSE ctx.range_from)
          /\ request.relocate_origin \in Int
      BY <2>1, RequestType DEF IInv, Addressed, FileTypes
    <3>2. /\ ctx.range_from \in Int /\ ctx.range_from >= ImageStart
          /\ request.relocate_origin >= 0 => ImageStart = request.relocate_origin
      BY <2>2, RangeOfRequest DEF ImageStart, OrigAddr
    <3>3. QED
      BY <3>1, <3>2
  <2>4. QED
    BY <2>1, <2>2, <2>3, PayloadOfRequest
<1>2. QED
  BY <1>1, FilesInvariant, PTL

(***************************************************************************)
(* A call that is refused, at whatever test, leaves the old file.          *)
(***************************************************************************)
THEOREM RefusalKeepsOutput == Spec => []OldOutputKept
<1>1. IInv => OldOutputKept
  BY DEF IInv, Untouched, OldOutputKept
<1>2. QED
  BY <1>1, FilesInvariant, PTL

-----------------------------------------------------------------------------
(***************************************************************************)
(* Self-extracting files.                                                  *)
(***************************************************************************)
(***************************************************************************)
(* What is known of a self-extracting file on its way to being written:    *)
(* the tests it has passed, and that nothing of it changes afterwards.     *)
(***************************************************************************)
SfxTested ==
  request.sfx =>
    /\ pc \in {"main", "read", "range", "prefix", "slice", "pack", "write", "written",
               "refused"}
    /\ pc # "main" => ~ctx.inplace
    /\ pc \in {"pack", "write", "written"} =>
         /\ ctx.orig_addr = ctx.range_from /\ ctx.orig_addr >= FirstFree
         /\ ctx.orig_addr + ctx.unpacked_size <= BUFFER_SIZE
    /\ pc \in {"write", "written"} =>
         /\ stream \in Streams /\ Given(stream, Len(stream.commands)) = ctx.unpacked_size
         /\ ctx.packed_size = PackedSize(stream)
    /\ pc = "written" => ~LayoutRefused /\ validate_sfx_stream /\ output.state = "sfx"

SfxWritten ==
  /\ output.state = "sfx" => request.sfx /\ pc = "written"
  /\ cpu # "off" => output.state = "sfx"

(***************************************************************************)
(* Places in memory and what is there.                                     *)
(***************************************************************************)
Size     == CodeSize(Small)
CodeAt   == LoadAddress + CodeOffset
StreamAt == CodeAt + Size
Top      == BUFFER_SIZE - ctx.packed_size

StackOf(k) == 2 * Page + k - KeptSize    \* where the byte of zero page behind k is kept

StreamIn(at)     == \A k \in 0 .. ctx.packed_size - 1 : mem[at + k] = Stream(k)
DecoderIn(from)  == \A k \in from .. Size : mem[k] = Code(k)
Unpacked(n)      == \A j \in 0 .. n - 1 : mem[ctx.orig_addr + j] = Data(ctx.data + j)
StackSaved(from) ==
  \A k \in from .. KeptSize - 1 : mem[StackOf(k)] = IF k = 0 THEN Port ELSE Saved(k + 1)

KeptOnStack ==
  ~Small => mem[0] = Saved(0) /\ StackSaved(0) /\ sp = Page - KeptSize - 1

RomBehind ==
  \E x \in LoadAddress + BootCheck .. LoadAddress + CodeOffset + CodeSize(Small) - 1 : InRom(x)

(***************************************************************************)
(* While the decoder is copied down, the bytes of zero page above the      *)
(* index are on the stack, and those below are still where they were.      *)
(***************************************************************************)
BootInv ==
  cpu = "boot" =>
    /\ y \in 1 .. Size
    /\ StreamIn(StreamAt)
    /\ \A k \in 1 .. y : mem[CodeAt + k - 1] = Code(k)
    /\ DecoderIn(y + 1) \/ RomBehind
    /\ ~Small =>
         /\ \A x \in 0 .. y : mem[x] = Saved(x)
         /\ StackSaved(y + 1)
         /\ sp = IF y >= KeptSize THEN y - KeptSize ELSE Page + y - KeptSize
         /\ y # Size => a = Saved(y + 1)

DepackInv ==
  cpu = "depack" =>
    /\ y = 0 /\ StreamIn(StreamAt) /\ DecoderIn(1)
    /\ ~Small => mem[0] = Saved(0) /\ StackSaved(1) /\ sp = Page - KeptSize

(***************************************************************************)
(* The move goes downwards through memory, and the distance it moves by    *)
(* never changes: what is above the front has arrived, what is not above   *)
(* it is still there to be read.                                           *)
(***************************************************************************)
PagesMoved == (ctx.packed_size + Page) \div Page
Front      == IF y = 0 THEN dst + Page - 1 ELSE dst + y - 1

MoveInv ==
  cpu = "move" =>
    /\ DecoderIn(1) /\ KeptOnStack
    /\ y \in 0 .. Page - 1
    /\ \E j \in 1 .. PagesMoved : dst = BUFFER_SIZE - j * Page
    /\ src = dst + StreamAt + ctx.packed_size - BUFFER_SIZE
    /\ \A k \in 0 .. ctx.packed_size - 1 :
         /\ StreamAt + k <= Front => mem[StreamAt + k] = Stream(k)
         /\ Top + k > Front => mem[Top + k] = Stream(k)

(***************************************************************************)
(* While unpacking, both pointers are where the commands so far have left  *)
(* them, less what is left of the last one.                                *)
(***************************************************************************)
InLiterals == command > 0 /\ stream.commands[command].literal

UnpackInv ==
  cpu = "unpack" =>
    /\ DecoderIn(1) /\ KeptOnStack
    /\ command \in 0 .. Len(stream.commands) /\ left \in Nat
    /\ IF command = 0 THEN left = 0 ELSE left <= stream.commands[command].length
    /\ dst = ctx.orig_addr + Given(stream, command) - left
    /\ src = Top + Taken(stream, command) - (IF InLiterals THEN left ELSE 0)
    /\ \A k \in Position .. ctx.packed_size - 1 : mem[Top + k] = Stream(k)
    /\ Unpacked(dst - ctx.orig_addr)

(***************************************************************************)
(* Zero page is put back from its bottom, the stack pointer going up.      *)
(***************************************************************************)
PutBack(n) == (n >= 1 => mem[1] = Port) /\ \A x \in 2 .. n : mem[x] = Saved(x)

RestoreInv ==
  cpu = "restore" =>
    /\ ~Small /\ Unpacked(ctx.unpacked_size)
    /\ mem[0] = Saved(0) /\ StackSaved(0) /\ DecoderIn(KeptSize + 1)
    /\ sp \in Page - KeptSize - 1 .. Page - 1
    /\ PutBack(sp - (Page - KeptSize - 1))

RunInv ==
  cpu = "run" =>
    /\ Unpacked(ctx.unpacked_size)
    /\ ~Small => mem[0] = Saved(0) /\ PutBack(KeptSize) /\ sp = Page - 1

MachineInv ==
  /\ cpu \in {"off", "boot", "depack", "move", "unpack", "restore", "run", "crash"}
  /\ cpu # "off" => DOMAIN mem = 0 .. BUFFER_SIZE - 1
  /\ BootInv /\ DepackInv /\ MoveInv /\ UnpackInv /\ RestoreInv /\ RunInv
  /\ cpu = "crash" => RomBehind
-----------------------------------------------------------------------------
(***************************************************************************)
(* The program: the tests are passed one by one, and a step that follows   *)
(* keeps what they established.                                            *)
(***************************************************************************)
LEMMA InitSfxTested == Init => SfxTested /\ SfxWritten
  BY DEF Init, CompressInit, SfxTested, SfxWritten, OldOutput

(* A self-extracting file keeps to the tests it has passed. *)
LEMMA CompressSfxTested ==
  ASSUME IInv, SfxTested, CompressNext PROVE SfxTested'
<1>1. request' = request /\ ctx \in Contexts
  BY DEF CompressNext, main, ReadInput, ClampRange, TakePrefix, Slice, Pack, OpenFile,
         CannotOpen, WriteFile, WriteFails, do_decompress, IInv, FileTypes
<1> SUFFICES ASSUME request.sfx PROVE SfxTested'
  BY <1>1 DEF SfxTested
<1>2. CASE main
  BY <1>1, <1>2 DEF main, MainRefuses, SfxTested, Contexts
<1>3. CASE ReadInput
  BY <1>1, <1>3 DEF ReadInput, SfxTested, Contexts
<1>4. CASE ClampRange
  BY <1>1, <1>4 DEF ClampRange, SfxTested, Contexts
<1>5. CASE TakePrefix
  BY <1>1, <1>5 DEF TakePrefix, SfxTested, Contexts
<1>6. CASE Slice
  <2>1. pc = "slice" /\ ctx' = Sliced(ctx) /\ pc' \in {"refused", "pack"}
        /\ (pc' = "pack" => ~PayloadRefused(ctx'))
    BY <1>6 DEF Slice
  <2>2. ctx'.orig_addr = ctx'.range_from /\ ctx'.inplace = ctx.inplace
    BY <1>1, <2>1 DEF Sliced, Contexts
  <2>3. ctx' \in Contexts
    BY <1>6, SliceStep DEF IInv, FileTypes
  <2>4. pc' = "pack" => ctx'.orig_addr >= FirstFree
                        /\ ctx'.orig_addr + ctx'.unpacked_size <= BUFFER_SIZE
    BY <2>1, <2>3, CompressAssumption DEF PayloadRefused, Contexts
  <2>5. QED
    BY <1>1, <2>1, <2>2, <2>4 DEF SfxTested
<1>7. CASE Pack
  <2>1. pc = "pack" /\ pc' \in {"refused", "write"} /\ ~ctx.inplace
    BY <1>7 DEF Pack, SfxTested
  <2>2. PICK s \in Streams : /\ Given(s, Len(s.commands)) = ctx.unpacked_size /\ stream' = s
                             /\ \E size \in {PackedSize(s)} :
                                  ctx' = [ctx EXCEPT !.packed_size = size]
    BY <1>7, <2>1 DEF Pack
  <2>3. PackedSize(s) \in Nat
    BY StreamAssumption DEF PackedSize
  <2>4. ctx' = [ctx EXCEPT !.packed_size = PackedSize(s)]
    BY <2>2
  <2>5. /\ ctx'.packed_size = PackedSize(s) /\ ctx'.inplace = ctx.inplace
        /\ ctx'.orig_addr = ctx.orig_addr /\ ctx'.range_from = ctx.range_from
        /\ ctx'.unpacked_size = ctx.unpacked_size
    BY <1>1, <2>4 DEF Contexts
  <2>6. /\ stream' \in Streams /\ Given(stream', Len(stream'.commands)) = ctx'.unpacked_size
        /\ ctx'.packed_size = PackedSize(stream')
    BY <2>2, <2>5
  <2>7. QED
    BY <1>1, <2>1, <2>5, <2>6 DEF SfxTested
<1>8. CASE OpenFile
  BY <1>1, <1>8 DEF OpenFile
<1>9. CASE CannotOpen
  BY <1>1, <1>9 DEF CannotOpen, SfxTested
<1>10. CASE WriteFile \/ WriteFails
  BY <1>10 DEF WriteFile, WriteFails, SfxTested
<1>11. CASE \E cbm \in BOOLEAN : do_decompress(cbm)
  BY <1>11 DEF do_decompress, SfxTested
<1>12. QED
  BY <1>2, <1>3, <1>4, <1>5, <1>6, <1>7, <1>8, <1>9, <1>10, <1>11 DEF CompressNext

(* It is written when the layout and the stream have passed theirs. *)
LEMMA WriteSfxTested ==
  ASSUME IInv, SfxTested, SfxWritten, WriteSfx
  PROVE  SfxTested' /\ SfxWritten' /\ cpu' = cpu /\ cpu = "off"
<1>1. /\ pc = "write" /\ request.sfx /\ request' = request /\ ctx' = ctx /\ stream' = stream
      /\ cpu' = cpu /\ cpu = "off"
  BY DEF WriteSfx, machineVars, SfxWritten
<1>2. LayoutRefused' = LayoutRefused /\ validate_sfx_stream' = validate_sfx_stream
  BY <1>1 DEF LayoutRefused, validate_sfx_stream, ImageLength, LoadAddress, CodeOffset, Omitted,
     Relocated, Small
<1>3. \/ pc' = "refused" /\ output' = output
      \/ ~LayoutRefused /\ validate_sfx_stream /\ pc' = "written" /\ output' = [state |-> "sfx"]
  BY DEF WriteSfx
<1>4. QED
  BY <1>1, <1>2, <1>3 DEF SfxTested, SfxWritten

(***************************************************************************)
(* Once a self-extracting file is written the program is at its end, so    *)
(* nothing it does happens beside the machine.                             *)
(***************************************************************************)
LEMMA CompressBeforeRun ==
  ASSUME IInv, SfxTested, SfxWritten, CompressNext, UNCHANGED machineVars
  PROVE  SfxWritten' /\ cpu' = "off"
<1>1. pc # "written" \/ output.state = "complete"
  BY DEF CompressNext, main, ReadInput, ClampRange, TakePrefix, Slice, Pack, OpenFile,
         CannotOpen, WriteFile, WriteFails, do_decompress
<1>2. cpu = "off" /\ cpu' = cpu /\ output.state # "sfx"
  BY <1>1 DEF SfxWritten, machineVars
<1>3. output'.state # "sfx"
  BY <1>2 DEF CompressNext, main, ReadInput, ClampRange, TakePrefix, Slice, Pack, OpenFile,
         CannotOpen, WriteFile, WriteFails, do_decompress, OpenOutput
<1>4. QED
  BY <1>2, <1>3 DEF SfxWritten
-----------------------------------------------------------------------------
(***************************************************************************)
(* The numbers of a file that was written: where its parts lie.            *)
(***************************************************************************)
LEMMA MachineNumbers ==
  /\ Page \in Nat /\ Page > 1 /\ Pages \in Nat /\ Pages * Page = BUFFER_SIZE
  /\ BUFFER_SIZE \in Nat /\ BUFFER_SIZE > 1 /\ FirstFree = 2 * Page
  /\ StackUse \in Nat
  /\ KeptSize \in Nat /\ KeptSize >= 1 /\ KeptSize + StackUse < Page
  /\ KeptSize < CodeSize(FALSE) /\ CodeSize(FALSE) < Page
<1> DEFINE whole == CodeSize(FALSE)
<1>1. /\ Page \in Nat /\ Page > 1 /\ Pages \in Nat /\ Pages * Page = BUFFER_SIZE
      /\ BUFFER_SIZE \in Nat /\ BUFFER_SIZE > 1 /\ FirstFree = 2 * Page /\ StackUse \in Nat
  BY SfxAssumption, CompressAssumption
<1>2. /\ whole \in 1 .. Page - 1 /\ ExitSize \in Nat \ {0} /\ ExitSize < whole
      /\ KeptSize + StackUse < Page
  BY SfxAssumption
<1>3. KeptSize = whole - ExitSize
  BY DEF KeptSize
<1> HIDE DEF whole
<1>4. KeptSize \in Nat /\ KeptSize >= 1 /\ KeptSize < whole /\ whole < Page
  BY <1>1, <1>2, <1>3
<1>5. QED
  BY <1>1, <1>2, <1>4 DEF whole

LEMMA Layout ==
  ASSUME IInv, SfxTested, SfxWritten, output.state = "sfx"
  PROVE  /\ Small \in BOOLEAN /\ Size \in 1 .. Page - 1
         /\ (~Small => KeptSize < Size /\ Size - KeptSize = ExitSize)
         /\ LoadAddress \in Nat /\ CodeOffset \in Nat /\ CodeOffset >= 1
         /\ CodeAt = LoadAddress + CodeOffset /\ StreamAt = CodeAt + Size
         /\ LoadAddress >= 2 * Page
         /\ ctx.packed_size \in Nat /\ StreamAt + ctx.packed_size <= BUFFER_SIZE
         /\ DataEnd = StreamAt + ctx.packed_size - Page
         /\ Top = BUFFER_SIZE - ctx.packed_size
         /\ ctx.data \in Int /\ ctx.unpacked_size \in Nat /\ ctx.orig_addr \in Nat
         /\ ctx.orig_addr >= 2 * Page
         /\ ctx.orig_addr + ctx.unpacked_size <= BUFFER_SIZE
<1>1. /\ request.sfx /\ pc = "written" /\ ctx \in Contexts /\ request \in RequestTypes
      /\ ctx.packed_size \in Nat /\ ctx.orig_addr >= FirstFree
      /\ ctx.orig_addr + ctx.unpacked_size <= BUFFER_SIZE /\ ~LayoutRefused
  BY RequestType DEF SfxWritten, SfxTested, IInv, FileTypes, PackedFits
<1>2. Small \in BOOLEAN /\ request.relocate_sfx \in Int
  BY <1>1, CompressAssumption DEF RequestTypes, Addresses, NotGiven, Small
<1>3. Size \in 1 .. Page - 1 /\ BootSize(Small) \in Nat /\ BootSize(Small) > BasicHeader
  BY <1>2, SfxAssumption DEF Size
<1>4. ~Small => KeptSize < Size /\ Size - KeptSize = ExitSize
  <2> DEFINE whole == CodeSize(FALSE)
  <2>1. ~Small => Size = whole
    BY <1>2 DEF Size
  <2>2. KeptSize < whole /\ KeptSize \in Nat /\ KeptSize = whole - ExitSize
    BY MachineNumbers DEF KeptSize
  <2>3. whole \in 1 .. Page - 1 /\ ExitSize \in Nat
    BY SfxAssumption
  <2> HIDE DEF whole
  <2>4. QED
    BY <2>1, <2>2, <2>3, MachineNumbers
<1>5. LoadAddress \in Nat /\ CodeOffset \in Nat /\ CodeOffset >= 1
  BY <1>2, <1>3, SfxAssumption DEF LoadAddress, CodeOffset, Omitted, Relocated
<1>6. ImageLength = CodeOffset + Size + ctx.packed_size
  BY DEF ImageLength, Size
<1>7. LoadAddress >= 2 * Page /\ LoadAddress + ImageLength <= BUFFER_SIZE
  <2>1. LoadAddress >= FirstFree /\ LoadAddress + ImageLength <= BUFFER_SIZE
    BY <1>1, <1>3, <1>5, <1>6, MachineNumbers DEF LayoutRefused
  <2>2. QED
    BY <2>1, MachineNumbers
<1>8. ctx.data \in Int /\ ctx.unpacked_size \in Nat /\ ctx.orig_addr \in Nat
  <2>1. Settled
    BY <1>1 DEF Settled
  <2>2. ctx.unpacked_size = ctx.range_to - ctx.range_from /\ ctx.range_from <= ctx.range_to
    BY <2>1 DEF IInv, Payload, Clamped
  <2>3. ctx.data \in Int /\ ctx.orig_addr \in Int /\ ctx.range_to \in Int /\ ctx.range_from \in Int
    BY <1>1 DEF Contexts
  <2>4. QED
    BY <1>1, <2>2, <2>3, MachineNumbers
<1>9. QED
  BY <1>1, <1>2, <1>3, <1>4, <1>5, <1>6, <1>7, <1>8, MachineNumbers
     DEF CodeAt, StreamAt, Top, DataEnd

(***************************************************************************)
(* The commands, as far as they go: the test of the stream says that the   *)
(* output is behind the input after each of them.                          *)
(***************************************************************************)
LEMMA Commanded ==
  ASSUME IInv, SfxTested, SfxWritten, output.state = "sfx"
  PROVE  /\ Given(stream, 0) = 0 /\ Taken(stream, 0) = 0 /\ stream.end \in Nat
         /\ Len(stream.commands) \in Nat
         /\ Given(stream, Len(stream.commands)) = ctx.unpacked_size
         /\ Taken(stream, Len(stream.commands)) + stream.end = ctx.packed_size
         /\ \A k \in 0 .. Len(stream.commands) :
              /\ Given(stream, k) \in Nat /\ Taken(stream, k) \in Nat
              /\ Taken(stream, k) + stream.end <= ctx.packed_size
         /\ \A k \in 1 .. Len(stream.commands) :
              LET c == stream.commands[k]
              IN  /\ c.literal \in BOOLEAN /\ c.read \in Nat /\ c.length \in Nat
                  /\ Given(stream, k) = Given(stream, k - 1) + c.length
                  /\ Taken(stream, k) = Taken(stream, k - 1) + c.read
                                        + (IF c.literal THEN c.length ELSE 0)
                  /\ ctx.orig_addr + Given(stream, k) <= Top + Taken(stream, k)
<1>1. /\ stream \in Streams /\ Given(stream, Len(stream.commands)) = ctx.unpacked_size
      /\ ctx.packed_size = PackedSize(stream) /\ validate_sfx_stream
  BY DEF SfxWritten, SfxTested
<1>2. /\ stream.commands \in Seq(Commands) /\ stream.end \in Nat
      /\ Given(stream, 0) = 0 /\ Taken(stream, 0) = 0
      /\ \A k \in 0 .. Len(stream.commands) :
           /\ Given(stream, k) \in Nat /\ Taken(stream, k) \in Nat
           /\ Taken(stream, k) <= Taken(stream, Len(stream.commands))
      /\ \A k \in 1 .. Len(stream.commands) :
           LET c == stream.commands[k]
           IN  /\ Given(stream, k) = Given(stream, k - 1) + c.length
               /\ Taken(stream, k) = Taken(stream, k - 1) + c.read
                                     + (IF c.literal THEN c.length ELSE 0)
  BY <1>1, StreamAssumption
<1>3. Taken(stream, Len(stream.commands)) + stream.end = ctx.packed_size
  BY <1>1 DEF PackedSize
<1>4. Len(stream.commands) \in Nat
  BY <1>2
<1>5. \A k \in 1 .. Len(stream.commands) :
        ctx.orig_addr + Given(stream, k) <= Top + Taken(stream, k)
  BY <1>1 DEF validate_sfx_stream, Top
<1>6. \A k \in 1 .. Len(stream.commands) :
        /\ stream.commands[k].literal \in BOOLEAN
        /\ stream.commands[k].read \in Nat /\ stream.commands[k].length \in Nat
  <2> SUFFICES ASSUME NEW k \in 1 .. Len(stream.commands)
               PROVE  stream.commands[k] \in Commands
    BY DEF Commands
  <2>1. QED
    BY <1>2
<1>7. \A k \in 0 .. Len(stream.commands) : Taken(stream, k) + stream.end <= ctx.packed_size
  <2> SUFFICES ASSUME NEW k \in 0 .. Len(stream.commands)
               PROVE  Taken(stream, k) + stream.end <= ctx.packed_size
    OBVIOUS
  <2>1. /\ Taken(stream, k) \in Nat /\ Taken(stream, k) <= Taken(stream, Len(stream.commands))
        /\ Taken(stream, Len(stream.commands)) \in Nat
    BY <1>2, <1>4
  <2>2. QED
    BY <2>1, <1>2, <1>3
<1>8. QED
  BY <1>1, <1>2, <1>3, <1>4, <1>5, <1>6, <1>7

(***************************************************************************)
(* What of the layout a step of the machine leaves alone.                  *)
(***************************************************************************)
LEMMA Fixed ==
  ASSUME UNCHANGED compressVars
  PROVE  /\ UNCHANGED <<pc, request, ctx, stream, output>>
         /\ Small' = Small /\ Size' = Size /\ CodeAt' = CodeAt /\ StreamAt' = StreamAt
         /\ Top' = Top /\ PagesMoved' = PagesMoved /\ RomBehind' = RomBehind
         /\ SfxTested' = SfxTested
<1>1. UNCHANGED <<pc, request, ctx, stream, output>>
  BY DEF compressVars
<1>2. Small' = Small /\ Size' = Size /\ LoadAddress' = LoadAddress /\ CodeOffset' = CodeOffset
  BY <1>1 DEF Small, Size, LoadAddress, CodeOffset, Relocated, Omitted
<1>3. CodeAt' = CodeAt /\ StreamAt' = StreamAt /\ RomBehind' = RomBehind
  BY <1>1, <1>2 DEF CodeAt, StreamAt, RomBehind, Size
<1>4. Top' = Top /\ PagesMoved' = PagesMoved
  BY <1>1 DEF Top, PagesMoved
<1>5. LayoutRefused' = LayoutRefused /\ validate_sfx_stream' = validate_sfx_stream
  BY <1>1, <1>2 DEF LayoutRefused, validate_sfx_stream, ImageLength, Size
<1>6. QED
  BY <1>1, <1>2, <1>3, <1>4, <1>5 DEF SfxTested

(***************************************************************************)
(* If a byte of the boot code or the decoder is read from the ROM, it is   *)
(* one behind the bytes that were tested.                                  *)
(***************************************************************************)
LEMMA RomIsBehind ==
  ASSUME IInv, SfxTested, SfxWritten, output.state = "sfx",
         NEW x \in LoadAddress .. CodeAt + Size - 1, InRom(x)
  PROVE  RomBehind
<1>1. ~LayoutRefused
  BY DEF SfxWritten, SfxTested
<1>2. /\ LoadAddress \in Nat /\ CodeOffset \in Nat /\ Size \in Nat
      /\ CodeAt = LoadAddress + CodeOffset
  BY Layout
<1>3. /\ BootCheck \in Nat /\ RomFrom \in Nat /\ RomTo \in Nat /\ IoFrom \in Nat
  BY SfxAssumption, CompressAssumption
<1>4. LoadAddress + BootCheck <= IoFrom
      /\ ~(LoadAddress < RomTo /\ LoadAddress + BootCheck > RomFrom)
  BY <1>1, <1>2, <1>3 DEF LayoutRefused
<1>5. x >= LoadAddress + BootCheck /\ x \in Int
  BY <1>2, <1>3, <1>4 DEF InRom
<1>6. x \in LoadAddress + BootCheck .. LoadAddress + CodeOffset + CodeSize(Small) - 1
  BY <1>2, <1>3, <1>5 DEF Size
<1>7. QED
  BY <1>6 DEF RomBehind
-----------------------------------------------------------------------------
(***************************************************************************)
(* One lemma per step of the machine.                                      *)
(***************************************************************************)
LEMMA LoadStep ==
  ASSUME IInv, SfxTested, SfxWritten, MachineInv, Load PROVE MachineInv'
<1>1. UNCHANGED compressVars /\ output.state = "sfx" /\ cpu' \in {"crash", "boot"}
  BY DEF Load
<1>2. /\ Small' = Small /\ Size' = Size /\ CodeAt' = CodeAt /\ StreamAt' = StreamAt
      /\ ctx' = ctx /\ RomBehind' = RomBehind
  BY <1>1, Fixed
<1>3. /\ Size \in 1 .. Page - 1 /\ (~Small => KeptSize < Size /\ Size - KeptSize = ExitSize)
      /\ LoadAddress \in Nat /\ CodeOffset \in Nat /\ CodeOffset >= 1
      /\ CodeAt = LoadAddress + CodeOffset /\ StreamAt = CodeAt + Size
      /\ LoadAddress >= 2 * Page
      /\ ctx.packed_size \in Nat /\ StreamAt + ctx.packed_size <= BUFFER_SIZE
  BY <1>1, Layout
<1>4. Page \in Nat /\ BUFFER_SIZE \in Nat /\ KeptSize \in Nat
  BY MachineNumbers
<1>5. /\ DOMAIN mem' = 0 .. BUFFER_SIZE - 1
      /\ \A x \in 0 .. BUFFER_SIZE - 1 :
           mem'[x] = LET k == x - LoadAddress - CodeOffset
                     IN  IF k < -CodeOffset \/ k >= Size + ctx.packed_size THEN Saved(x)
                         ELSE IF k < 0 THEN <<"boot", k>>
                         ELSE IF k < Size THEN Code(k + 1)
                         ELSE Stream(k - Size)
  BY DEF Load, Size
<1>6. ASSUME NEW k \in 0 .. ctx.packed_size - 1 PROVE mem'[StreamAt + k] = Stream(k)
  <2> DEFINE at == StreamAt + k
             r == at - LoadAddress - CodeOffset
  <2>1. at \in 0 .. BUFFER_SIZE - 1 /\ r = Size + k
    BY <1>3, <1>4
  <2>2. mem'[at] = IF r < -CodeOffset \/ r >= Size + ctx.packed_size THEN Saved(at)
                   ELSE IF r < 0 THEN <<"boot", r>>
                   ELSE IF r < Size THEN Code(r + 1)
                   ELSE Stream(r - Size)
    BY <1>5, <2>1
  <2> HIDE DEF at, r
  <2>3. ~(r < -CodeOffset \/ r >= Size + ctx.packed_size) /\ ~(r < 0) /\ ~(r < Size)
        /\ r - Size = k
    BY <1>3, <1>4, <2>1
  <2>4. mem'[at] = Stream(k)
    BY <2>2, <2>3
  <2>5. QED
    BY <2>4 DEF at
<1>7. ASSUME NEW k \in 1 .. Size PROVE mem'[CodeAt + k - 1] = Code(k)
  <2> DEFINE at == CodeAt + k - 1
             r == at - LoadAddress - CodeOffset
  <2>1. at \in 0 .. BUFFER_SIZE - 1 /\ r = k - 1
    BY <1>3, <1>4
  <2>2. mem'[at] = IF r < -CodeOffset \/ r >= Size + ctx.packed_size THEN Saved(at)
                   ELSE IF r < 0 THEN <<"boot", r>>
                   ELSE IF r < Size THEN Code(r + 1)
                   ELSE Stream(r - Size)
    BY <1>5, <2>1
  <2> HIDE DEF at, r
  <2>3. ~(r < -CodeOffset \/ r >= Size + ctx.packed_size) /\ ~(r < 0) /\ r < Size
        /\ r + 1 = k
    BY <1>3, <1>4, <2>1
  <2>4. mem'[at] = Code(k)
    BY <2>2, <2>3
  <2>5. QED
    BY <2>4 DEF at
<1>8. ASSUME NEW x \in 0 .. Page PROVE mem'[x] = Saved(x)
  <2>1. x \in 0 .. BUFFER_SIZE - 1 /\ x - LoadAddress - CodeOffset < -CodeOffset
    BY <1>3, <1>4
  <2>2. QED
    BY <1>5, <2>1
<1>9. CASE cpu' = "boot"
  <2>1. y' = Size /\ sp' = ExitSize
    BY DEF Load, Size
  <2>2. StreamIn(StreamAt)'
    BY <1>2, <1>6 DEF StreamIn
  <2>3. \A k \in 1 .. y' : mem'[CodeAt + k - 1] = Code(k)
    BY <1>7, <2>1
  <2>4. DecoderIn(y + 1)'
    BY <1>2, <1>3, <1>4, <2>1 DEF DecoderIn
  <2>5. ~Small => /\ \A x \in 0 .. y' : mem'[x] = Saved(x)
                  /\ StackSaved(y + 1)'
                  /\ sp' = IF y' >= KeptSize THEN y' - KeptSize ELSE Page + y' - KeptSize
    BY <1>3, <1>4, <1>8, <2>1 DEF StackSaved
  <2>6. y' \in 1 .. Size
    BY <1>3, <1>4, <2>1
  <2>7. BootInv'
    BY <1>2, <2>1, <2>2, <2>3, <2>4, <2>5, <2>6 DEF BootInv
  <2>8. QED
    BY <1>5, <1>9, <2>7 DEF MachineInv, DepackInv, MoveInv, UnpackInv, RestoreInv, RunInv
<1>10. CASE cpu' = "crash"
  <2>1. PICK x \in LoadAddress .. LoadAddress + CodeOffset - 1 : InRom(x)
    BY <1>10 DEF Load
  <2>2. x \in LoadAddress .. CodeAt + Size - 1
    BY <1>3, <1>4
  <2>3. RomBehind
    BY <1>1, <2>1, <2>2, RomIsBehind
  <2>4. QED
    BY <1>2, <1>5, <1>10, <2>3
       DEF MachineInv, BootInv, DepackInv, MoveInv, UnpackInv, RestoreInv, RunInv
<1>11. QED
  BY <1>1, <1>9, <1>10

(***************************************************************************)
(* A stack pointer that is counted down stays on its page.                 *)
(***************************************************************************)
LEMMA CountedDown ==
  ASSUME NEW x \in 0 .. Page - 1
  PROVE  (x - 1) % Page = IF x = 0 THEN Page - 1 ELSE x - 1
<1>1. Page \in Nat /\ Page > 1
  BY MachineNumbers
<1>2. CASE x = 0
  BY <1>1, <1>2
<1>3. CASE x # 0
  <2>1. x - 1 \in 0 .. Page - 1
    BY <1>1, <1>3
  <2>2. QED
    BY <1>1, <1>3, <2>1, OwnRemainder
<1>4. QED
  BY <1>2, <1>3

(* The decoder is copied down, and what was on zero page pushed. *)
LEMMA BootStep ==
  ASSUME IInv, SfxTested, SfxWritten, MachineInv, Boot PROVE MachineInv'
<1>1. /\ UNCHANGED compressVars /\ output.state = "sfx" /\ cpu = "boot"
      /\ cpu' = IF y > 1 THEN "boot"
                ELSE IF \E k \in 1 .. Size : mem'[k] # Code(k) THEN "crash" ELSE "depack"
      /\ y' = y - 1 /\ a' = mem[y] /\ sp' = AfterPush
  BY DEF Boot, SfxWritten, Size
<1>2. /\ Small' = Small /\ Size' = Size /\ CodeAt' = CodeAt /\ StreamAt' = StreamAt
      /\ ctx' = ctx /\ RomBehind' = RomBehind
  BY <1>1, Fixed
<1>3. /\ Size \in 1 .. Page - 1 /\ (~Small => KeptSize < Size)
      /\ LoadAddress \in Nat /\ CodeOffset \in Nat /\ CodeOffset >= 1
      /\ CodeAt = LoadAddress + CodeOffset /\ StreamAt = CodeAt + Size
      /\ LoadAddress >= 2 * Page
      /\ ctx.packed_size \in Nat /\ StreamAt + ctx.packed_size <= BUFFER_SIZE
  BY <1>1, Layout
<1>4. /\ Page \in Nat /\ Page > 1 /\ BUFFER_SIZE \in Nat /\ KeptSize \in Nat /\ KeptSize >= 1
      /\ KeptSize < Page
  BY MachineNumbers
<1>5. /\ DOMAIN mem = 0 .. BUFFER_SIZE - 1 /\ y \in 1 .. Size /\ StreamIn(StreamAt)
      /\ \A k \in 1 .. y : mem[CodeAt + k - 1] = Code(k)
      /\ DecoderIn(y + 1) \/ RomBehind
      /\ ~Small => /\ \A x \in 0 .. y : mem[x] = Saved(x)
                   /\ StackSaved(y + 1)
                   /\ sp = IF y >= KeptSize THEN y - KeptSize ELSE Page + y - KeptSize
                   /\ y # Size => a = Saved(y + 1)
  BY <1>1 DEF MachineInv, BootInv
<1> DEFINE at   == CodeAt + y - 1
           got  == IF InRom(at) THEN <<"rom", at>> ELSE mem[at]
           slot == Page + sp
<1>6. InRom(at) => RomBehind
  <2>1. at \in LoadAddress .. CodeAt + Size - 1
    BY <1>3, <1>4, <1>5
  <2>2. QED
    BY <1>1, <2>1, RomIsBehind
<1>7. ~InRom(at) => got = Code(y)
  BY <1>5
<1>8. ~Small => sp \in 0 .. Page - 1 /\ slot \in Page .. 2 * Page - 1
  BY <1>3, <1>4, <1>5
<1>9. mem' = [Pushed(mem, a) EXCEPT ![y] = got]
  BY DEF Boot, CodeAt
<1> HIDE DEF at, got, slot
<1>10. /\ DOMAIN mem' = 0 .. BUFFER_SIZE - 1
       /\ \A x \in 0 .. BUFFER_SIZE - 1 :
            mem'[x] = IF x = y THEN got ELSE IF ~Small /\ x = slot THEN a ELSE mem[x]
  BY <1>5, <1>9 DEF Pushed, slot
<1>11. StreamIn(StreamAt)'
  <2> SUFFICES ASSUME NEW k \in 0 .. ctx.packed_size - 1
               PROVE  mem'[StreamAt + k] = Stream(k)
    BY <1>2 DEF StreamIn
  <2>1. /\ StreamAt + k \in 0 .. BUFFER_SIZE - 1 /\ StreamAt + k # y
        /\ ~(~Small /\ StreamAt + k = slot)
    BY <1>3, <1>4, <1>5, <1>8
  <2>2. QED
    BY <1>5, <1>10, <2>1 DEF StreamIn
<1>12. \A k \in 1 .. y - 1 : mem'[CodeAt + k - 1] = Code(k)
  <2> SUFFICES ASSUME NEW k \in 1 .. y - 1 PROVE mem'[CodeAt + k - 1] = Code(k)
    OBVIOUS
  <2>1. /\ CodeAt + k - 1 \in 0 .. BUFFER_SIZE - 1 /\ CodeAt + k - 1 # y
        /\ ~(~Small /\ CodeAt + k - 1 = slot) /\ k \in 1 .. y
    BY <1>3, <1>4, <1>5, <1>8
  <2>2. QED
    BY <1>5, <1>10, <2>1
<1>13. RomBehind \/ \A k \in y .. Size : mem'[k] = Code(k)
  <2> SUFFICES ASSUME ~RomBehind, NEW k \in y .. Size PROVE mem'[k] = Code(k)
    OBVIOUS
  <2>1. k \in 0 .. BUFFER_SIZE - 1 /\ ~(~Small /\ k = slot)
    BY <1>3, <1>4, <1>5, <1>8
  <2>2. CASE k = y
    BY <1>6, <1>7, <1>10, <2>1, <2>2
  <2>3. CASE k # y
    <3>1. k \in y + 1 .. Size
      BY <1>3, <1>4, <1>5, <2>3
    <3>2. QED
      BY <1>5, <1>10, <2>1, <2>3, <3>1 DEF DecoderIn
  <2>4. QED
    BY <2>2, <2>3
<1>14. ASSUME ~Small PROVE \A x \in 0 .. y - 1 : mem'[x] = Saved(x)
  <2> SUFFICES ASSUME NEW x \in 0 .. y - 1 PROVE mem'[x] = Saved(x)
    OBVIOUS
  <2>1. x \in 0 .. BUFFER_SIZE - 1 /\ x # y /\ x # slot /\ x \in 0 .. y
    BY <1>3, <1>4, <1>5, <1>8, <1>14
  <2>2. QED
    BY <1>5, <1>10, <1>14, <2>1
<1>15. ASSUME ~Small, NEW k \in y .. KeptSize - 1
       PROVE  mem'[StackOf(k)] = Saved(k + 1)
  <2>1. StackOf(k) = 2 * Page + k - KeptSize /\ k \in Nat /\ k # 0
    BY <1>3, <1>4, <1>5, <1>15 DEF StackOf
  <2>2. StackOf(k) \in Page .. 2 * Page - 1 /\ StackOf(k) \in 0 .. BUFFER_SIZE - 1
        /\ StackOf(k) # y
    BY <1>3, <1>4, <1>5, <2>1
  <2>3. CASE k = y
    <3>1. StackOf(k) = slot /\ a = Saved(y + 1)
      BY <1>3, <1>4, <1>5, <1>15, <2>1, <2>3 DEF slot
    <3>2. QED
      BY <1>10, <1>15, <2>2, <2>3, <3>1
  <2>4. CASE k # y
    <3>1. k \in y + 1 .. KeptSize - 1 /\ StackOf(k) # slot
      BY <1>3, <1>4, <1>5, <1>15, <2>1, <2>4 DEF slot
    <3>2. mem[StackOf(k)] = Saved(k + 1)
      BY <1>5, <1>15, <2>1, <3>1 DEF StackSaved
    <3>3. QED
      BY <1>10, <2>2, <3>1, <3>2
  <2>5. QED
    BY <2>3, <2>4
<1>16. ~Small => sp' = IF y - 1 >= KeptSize THEN y - 1 - KeptSize ELSE Page + (y - 1) - KeptSize
  <2> SUFFICES ASSUME ~Small
               PROVE  sp' = IF y - 1 >= KeptSize THEN y - 1 - KeptSize
                            ELSE Page + (y - 1) - KeptSize
    OBVIOUS
  <2>1. sp' = (sp - 1) % Page /\ sp \in 0 .. Page - 1
    BY <1>1, <1>8 DEF AfterPush
  <2>2. sp' = IF sp = 0 THEN Page - 1 ELSE sp - 1
    BY <2>1, CountedDown
  <2>3. QED
    BY <1>3, <1>4, <1>5, <2>2
<1>17. CASE y > 1
  <2>1. cpu' = "boot" /\ y' = y - 1
    BY <1>1, <1>17
  <2>2. y' \in 1 .. Size /\ y' # Size
    BY <1>3, <1>4, <1>5, <1>17, <2>1
  <2>3. DecoderIn(y + 1)' \/ RomBehind'
    <3>1. y' + 1 = y
      BY <1>1, <1>3, <1>5
    <3>2. QED
      BY <1>2, <1>13, <3>1 DEF DecoderIn
  <2>4. ~Small => StackSaved(y + 1)'
    <3>1. y' + 1 = y /\ y # 0
      BY <1>1, <1>3, <1>5
    <3>2. ASSUME ~Small, NEW k \in y .. KeptSize - 1
          PROVE  mem'[StackOf(k)] = IF k = 0 THEN Port ELSE Saved(k + 1)
      <4>1. k # 0
        BY <1>3, <1>5, <1>4
      <4>2. QED
        BY <1>15, <3>2, <4>1
    <3>3. QED
      BY <3>1, <3>2 DEF StackSaved, StackOf
  <2>5. ~Small => a' = Saved(y' + 1)
    <3>1. y' + 1 = y /\ y \in 0 .. y
      BY <1>1, <1>3, <1>5
    <3>2. QED
      BY <1>1, <1>5, <3>1
  <2>6. ~Small => sp' = IF y' >= KeptSize THEN y' - KeptSize ELSE Page + y' - KeptSize
    BY <1>1, <1>16
  <2>7. BootInv'
    BY <1>1, <1>2, <1>11, <1>12, <1>14, <2>1, <2>2, <2>3, <2>4, <2>5, <2>6 DEF BootInv
  <2>8. QED
    BY <1>10, <2>1, <2>7 DEF MachineInv, DepackInv, MoveInv, UnpackInv, RestoreInv, RunInv
<1>18. CASE y = 1 /\ \A k \in 1 .. Size : mem'[k] = Code(k)
  <2>1. cpu' = "depack" /\ y' = 0
    BY <1>1, <1>18
  <2>2. DecoderIn(1)'
    BY <1>2, <1>18 DEF DecoderIn
  <2>3. ~Small => mem'[0] = Saved(0)
    BY <1>14, <1>18
  <2>4. ~Small => StackSaved(1)'
    <3>1. ASSUME ~Small, NEW k \in 1 .. KeptSize - 1
          PROVE  mem'[StackOf(k)] = IF k = 0 THEN Port ELSE Saved(k + 1)
      <4>1. k # 0
        BY <1>4
      <4>2. QED
        BY <1>15, <1>18, <3>1, <4>1
    <3>2. QED
      BY <3>1 DEF StackSaved, StackOf
  <2>5. ~Small => sp' = Page - KeptSize
    BY <1>4, <1>16, <1>18
  <2>6. DepackInv'
    BY <1>2, <1>11, <2>1, <2>2, <2>3, <2>4, <2>5 DEF DepackInv
  <2>7. QED
    BY <1>10, <2>1, <2>6 DEF MachineInv, BootInv, MoveInv, UnpackInv, RestoreInv, RunInv
<1>19. CASE y = 1 /\ \E k \in 1 .. Size : mem'[k] # Code(k)
  <2>1. cpu' = "crash"
    BY <1>1, <1>19
  <2>2. RomBehind
    BY <1>13, <1>19
  <2>3. QED
    BY <1>2, <1>10, <2>1, <2>2
       DEF MachineInv, BootInv, DepackInv, MoveInv, UnpackInv, RestoreInv, RunInv
<1>20. y > 1 \/ y = 1
  BY <1>3, <1>4, <1>5
<1>21. QED
  BY <1>17, <1>18, <1>19, <1>20

(* The value for $01 goes on top of what is saved. *)
LEMMA DepackStep ==
  ASSUME IInv, SfxTested, SfxWritten, MachineInv, Depack PROVE MachineInv'
<1>1. /\ UNCHANGED compressVars /\ output.state = "sfx" /\ cpu = "depack" /\ cpu' = "move"
      /\ y' = y /\ sp' = AfterPush /\ src' = DataEnd /\ dst' = BUFFER_SIZE - Page
      /\ mem' = Pushed(mem, Port)
  BY DEF Depack, SfxWritten
<1>2. /\ Small' = Small /\ Size' = Size /\ StreamAt' = StreamAt /\ Top' = Top
      /\ PagesMoved' = PagesMoved /\ ctx' = ctx
  BY <1>1, Fixed
<1>3. /\ Size \in 1 .. Page - 1 /\ (~Small => KeptSize < Size)
      /\ ctx.packed_size \in Nat /\ StreamAt + ctx.packed_size <= BUFFER_SIZE
      /\ StreamAt \in Nat /\ StreamAt > 2 * Page
      /\ DataEnd = StreamAt + ctx.packed_size - Page /\ Top = BUFFER_SIZE - ctx.packed_size
  BY <1>1, Layout, MachineNumbers
<1>4. /\ Page \in Nat /\ Page > 1 /\ BUFFER_SIZE \in Nat /\ KeptSize \in Nat /\ KeptSize >= 1
      /\ KeptSize < Page
  BY MachineNumbers
<1>5. /\ DOMAIN mem = 0 .. BUFFER_SIZE - 1 /\ y = 0 /\ StreamIn(StreamAt) /\ DecoderIn(1)
      /\ ~Small => mem[0] = Saved(0) /\ StackSaved(1) /\ sp = Page - KeptSize
  BY <1>1 DEF MachineInv, DepackInv
<1>6. /\ DOMAIN mem' = 0 .. BUFFER_SIZE - 1
      /\ \A x \in 0 .. BUFFER_SIZE - 1 :
           mem'[x] = IF ~Small /\ x = StackOf(0) THEN Port ELSE mem[x]
  BY <1>1, <1>4, <1>5 DEF Pushed, StackOf
<1>7. StackOf(0) \in Page .. 2 * Page - 1 /\ StackOf(0) = 2 * Page - KeptSize
  BY <1>4 DEF StackOf
<1>8. \A x \in 0 .. BUFFER_SIZE - 1 : x < Page \/ x >= 2 * Page => mem'[x] = mem[x]
  BY <1>4, <1>6, <1>7
<1>9. DecoderIn(1)'
  <2> SUFFICES ASSUME NEW k \in 1 .. Size PROVE mem'[k] = Code(k)
    BY <1>2 DEF DecoderIn
  <2>1. k \in 0 .. BUFFER_SIZE - 1 /\ k < Page
    BY <1>3, <1>4
  <2>2. QED
    BY <1>5, <1>8, <2>1 DEF DecoderIn
<1>10. KeptOnStack'
  <2> SUFFICES ASSUME ~Small
               PROVE  mem'[0] = Saved(0) /\ StackSaved(0)' /\ sp' = Page - KeptSize - 1
    BY <1>2 DEF KeptOnStack
  <2>1. mem'[0] = Saved(0)
    BY <1>3, <1>4, <1>5, <1>8
  <2>2. sp' = Page - KeptSize - 1
    BY <1>1, <1>4, <1>5, CountedDown DEF AfterPush
  <2>3. ASSUME NEW k \in 0 .. KeptSize - 1
        PROVE  mem'[StackOf(k)] = IF k = 0 THEN Port ELSE Saved(k + 1)
    <3>1. StackOf(k) \in 0 .. BUFFER_SIZE - 1 /\ (StackOf(k) = StackOf(0) <=> k = 0)
      BY <1>3, <1>4 DEF StackOf
    <3>2. k # 0 => mem[StackOf(k)] = Saved(k + 1)
      BY <1>4, <1>5 DEF StackSaved
    <3>3. QED
      BY <1>6, <3>1, <3>2
  <2>4. QED
    BY <2>1, <2>2, <2>3 DEF StackSaved, StackOf
<1>11. \E j \in 1 .. PagesMoved : dst' = BUFFER_SIZE - j * Page
  <2>1. PagesMoved \in Nat /\ PagesMoved >= 1
    BY <1>3, <1>4 DEF PagesMoved
  <2>2. 1 \in 1 .. PagesMoved /\ dst' = BUFFER_SIZE - 1 * Page
    BY <1>1, <1>4, <2>1
  <2>3. QED
    BY <2>2
<1>12. src' = dst' + StreamAt + ctx.packed_size - BUFFER_SIZE
  BY <1>1, <1>3, <1>4
<1>13. ASSUME NEW k \in 0 .. ctx.packed_size - 1
       PROVE  mem'[StreamAt + k] = Stream(k) /\ ~(Top + k > BUFFER_SIZE - 1)
  <2>1. StreamAt + k \in 0 .. BUFFER_SIZE - 1 /\ StreamAt + k >= 2 * Page
    BY <1>3, <1>4
  <2>2. mem[StreamAt + k] = Stream(k)
    BY <1>5 DEF StreamIn
  <2>3. QED
    BY <1>3, <1>4, <1>8, <2>1, <2>2
<1>14. Front' = BUFFER_SIZE - 1
  BY <1>1, <1>4, <1>5 DEF Front
<1>15. MoveInv'
  BY <1>1, <1>2, <1>4, <1>5, <1>9, <1>10, <1>11, <1>12, <1>13, <1>14 DEF MoveInv
<1>16. QED
  BY <1>1, <1>6, <1>15 DEF MachineInv, BootInv, DepackInv, UnpackInv, RestoreInv, RunInv

(***************************************************************************)
(* The pages moved are the least number that hold the stream, or one more, *)
(* and fewer than lie above the stack.                                     *)
(***************************************************************************)
LEMMA Paged ==
  ASSUME IInv, SfxTested, SfxWritten, output.state = "sfx"
  PROVE  /\ PagesMoved \in Nat /\ PagesMoved >= 1 /\ PagesMoved + 2 <= Pages
         /\ PagesMoved * Page > ctx.packed_size
         /\ PagesMoved * Page <= ctx.packed_size + Page
         /\ LastPage = Pages - 1 - PagesMoved
<1>1. /\ ctx.packed_size \in Nat /\ ctx.packed_size < BUFFER_SIZE - 2 * Page
      /\ Page \in Nat /\ Page > 1 /\ Pages \in Nat /\ Pages * Page = BUFFER_SIZE
  <2>1. /\ StreamAt > 2 * Page /\ StreamAt + ctx.packed_size <= BUFFER_SIZE
        /\ ctx.packed_size \in Nat /\ StreamAt \in Nat
    BY Layout, MachineNumbers
  <2>2. QED
    BY <2>1, MachineNumbers
<1> DEFINE n == ctx.packed_size
           q == (n + Page) \div Page
<1>2. q \in Nat /\ q >= 1 /\ q * Page > n /\ q * Page <= n + Page
  BY <1>1
<1> HIDE DEF q, n
<1>3. q * Page < (Pages - 1) * Page
  <2>1. n + Page < BUFFER_SIZE - Page
    BY <1>1 DEF n
  <2>2. (Pages - 1) * Page = BUFFER_SIZE - Page
    BY <1>1
  <2>3. n \in Nat
    BY <1>1 DEF n
  <2>4. QED
    BY <1>1, <1>2, <2>1, <2>2, <2>3
<1>4. q < Pages - 1
  BY <1>1, <1>2, <1>3
<1>5. q % Pages = q
  <2>1. q \in 0 .. Pages - 1 /\ Pages \in Nat \ {0}
    BY <1>1, <1>2, <1>4
  <2>2. QED
    BY <2>1, OwnRemainder
<1>6. LastPage = Pages - 1 - q
  BY <1>5 DEF LastPage, q, n
<1>7. q = PagesMoved
  BY DEF q, n, PagesMoved
<1>8. QED
  BY <1>1, <1>2, <1>4, <1>6, <1>7 DEF n

(* A multiple is divided without a rest. *)
LEMMA Divided == ASSUME NEW n \in Nat \ {0}, NEW k \in Int PROVE (k * n) \div n = k
  OBVIOUS

(* A byte of the move is read before anything is written over it. *)
LEMMA MoveStep ==
  ASSUME IInv, SfxTested, SfxWritten, MachineInv, Move PROVE MachineInv'
<1> DEFINE i == (y - 1) % Page
<1>1. /\ UNCHANGED compressVars /\ output.state = "sfx" /\ cpu = "move" /\ y' = i /\ sp' = sp
      /\ mem' = [mem EXCEPT ![dst + i] = mem[(src + i) % BUFFER_SIZE]]
      /\ \/ i # 0 /\ cpu' = cpu /\ src' = src /\ dst' = dst
         \/ /\ i = 0 /\ (dst \div Page - 1) % Pages # LastPage /\ cpu' = cpu
            /\ src' = (src - Page) % BUFFER_SIZE /\ dst' = (dst - Page) % BUFFER_SIZE
         \/ /\ i = 0 /\ (dst \div Page - 1) % Pages = LastPage /\ cpu' = "unpack"
            /\ src' = Top /\ dst' = ctx.orig_addr /\ command' = 0 /\ left' = 0
  BY DEF Move, SfxWritten, Top
<1>2. /\ Small' = Small /\ Size' = Size /\ StreamAt' = StreamAt /\ Top' = Top
      /\ PagesMoved' = PagesMoved /\ ctx' = ctx /\ stream' = stream
  BY <1>1, Fixed
<1>3. /\ Size \in 1 .. Page - 1
      /\ ctx.packed_size \in Nat /\ StreamAt + ctx.packed_size <= BUFFER_SIZE
      /\ StreamAt \in Nat /\ StreamAt > 2 * Page /\ Top = BUFFER_SIZE - ctx.packed_size
      /\ ctx.orig_addr \in Nat
  BY <1>1, Layout, MachineNumbers
<1>4. /\ Page \in Nat /\ Page > 1 /\ BUFFER_SIZE \in Nat /\ KeptSize \in Nat /\ KeptSize >= 1
      /\ KeptSize < Page /\ Pages \in Nat /\ Pages * Page = BUFFER_SIZE
  BY MachineNumbers
<1>5. /\ PagesMoved \in Nat /\ PagesMoved >= 1 /\ PagesMoved + 2 <= Pages
      /\ PagesMoved * Page > ctx.packed_size /\ PagesMoved * Page <= ctx.packed_size + Page
      /\ LastPage = Pages - 1 - PagesMoved
  BY <1>1, Paged
<1>6. /\ DOMAIN mem = 0 .. BUFFER_SIZE - 1 /\ DecoderIn(1) /\ KeptOnStack
      /\ y \in 0 .. Page - 1
      /\ \E j \in 1 .. PagesMoved : dst = BUFFER_SIZE - j * Page
      /\ src = dst + StreamAt + ctx.packed_size - BUFFER_SIZE
      /\ \A k \in 0 .. ctx.packed_size - 1 :
           /\ StreamAt + k <= Front => mem[StreamAt + k] = Stream(k)
           /\ Top + k > Front => mem[Top + k] = Stream(k)
  BY <1>1 DEF MachineInv, MoveInv
<1>7. i \in 0 .. Page - 1 /\ i = (IF y = 0 THEN Page - 1 ELSE y - 1)
  BY <1>4, <1>6, CountedDown
<1> HIDE DEF i
<1>8. PICK j \in 1 .. PagesMoved : dst = BUFFER_SIZE - j * Page
  BY <1>6
<1>9. /\ dst = (Pages - j) * Page /\ dst \in Nat /\ dst >= 2 * Page
      /\ dst + Page <= BUFFER_SIZE
  <2>1. j * Page >= Page /\ j * Page <= (Pages - 2) * Page
    BY <1>4, <1>5
  <2>2. (Pages - 2) * Page = BUFFER_SIZE - 2 * Page /\ (Pages - j) * Page = BUFFER_SIZE - j * Page
    BY <1>4
  <2>3. j * Page \in Nat
    BY <1>4
  <2>4. QED
    BY <1>4, <1>8, <2>1, <2>2, <2>3
<1>10. Front = dst + i /\ Front \in 2 * Page .. BUFFER_SIZE - 1
  BY <1>4, <1>6, <1>7, <1>9 DEF Front
<1> DEFINE gap == Top - StreamAt
<1>11. gap \in Nat /\ src = dst - gap /\ src >= Page
  <2> DEFINE moved == j * Page
             all   == PagesMoved * Page
  <2>1. moved \in Nat /\ all \in Nat /\ moved <= all
    BY <1>4, <1>5
  <2>2. all <= ctx.packed_size + Page /\ dst = BUFFER_SIZE - moved
    BY <1>5, <1>8
  <2>3. src = dst + StreamAt + ctx.packed_size - BUFFER_SIZE
    BY <1>6
  <2>4. Page \in Nat /\ BUFFER_SIZE \in Nat
    BY <1>4
  <2> HIDE DEF moved, all
  <2>5. QED
    BY <1>3, <2>1, <2>2, <2>3, <2>4
<1>12. (src + i) % BUFFER_SIZE = Front - gap
  <2>1. src + i \in 0 .. BUFFER_SIZE - 1 /\ src + i = Front - gap
    BY <1>4, <1>7, <1>9, <1>10, <1>11
  <2>2. BUFFER_SIZE \in Nat \ {0}
    BY MachineNumbers
  <2>3. (src + i) % BUFFER_SIZE = src + i
    BY <2>1, <2>2, OwnRemainder
  <2>4. QED
    BY <2>1, <2>3
<1>13. /\ DOMAIN mem' = 0 .. BUFFER_SIZE - 1
       /\ \A x \in 0 .. BUFFER_SIZE - 1 :
            mem'[x] = IF x = Front THEN mem[Front - gap] ELSE mem[x]
  <2>1. mem' = [mem EXCEPT ![Front] = mem[Front - gap]]
    BY <1>1, <1>10, <1>12
  <2>2. QED
    BY <1>6, <2>1
<1>14. \A x \in 0 .. 2 * Page - 1 : mem'[x] = mem[x]
  BY <1>4, <1>9, <1>10, <1>13
<1>15. DecoderIn(1)'
  <2> SUFFICES ASSUME NEW k \in 1 .. Size PROVE mem'[k] = Code(k)
    BY <1>2 DEF DecoderIn
  <2>1. k \in 0 .. 2 * Page - 1
    BY <1>3, <1>4
  <2>2. QED
    BY <1>6, <1>14, <2>1 DEF DecoderIn
<1>16. KeptOnStack'
  <2> SUFFICES ASSUME ~Small
               PROVE  mem'[0] = Saved(0) /\ StackSaved(0)' /\ sp' = Page - KeptSize - 1
    BY <1>2 DEF KeptOnStack
  <2>1. mem'[0] = Saved(0) /\ sp' = Page - KeptSize - 1
    <3>1. 0 \in 0 .. 2 * Page - 1
      BY <1>4
    <3>2. QED
      BY <1>1, <1>6, <1>14, <3>1 DEF KeptOnStack
  <2>2. ASSUME NEW k \in 0 .. KeptSize - 1 PROVE mem'[StackOf(k)] = mem[StackOf(k)]
    <3>1. StackOf(k) \in 0 .. 2 * Page - 1
      BY <1>4 DEF StackOf
    <3>2. QED
      BY <1>14, <3>1
  <2>3. StackSaved(0)
    BY <1>6 DEF KeptOnStack
  <2>4. QED
    BY <2>1, <2>2, <2>3 DEF StackSaved, StackOf
<1>17. ASSUME NEW k \in 0 .. ctx.packed_size - 1, StreamAt + k <= Front - 1
       PROVE  mem'[StreamAt + k] = Stream(k)
  <2>1. StreamAt + k \in 0 .. BUFFER_SIZE - 1 /\ StreamAt + k <= Front /\ StreamAt + k # Front
    BY <1>3, <1>4, <1>10, <1>17
  <2>2. QED
    BY <1>6, <1>13, <2>1
<1>18. ASSUME NEW k \in 0 .. ctx.packed_size - 1, Top + k > Front - 1
       PROVE  mem'[Top + k] = Stream(k)
  <2>1. Top + k \in 0 .. BUFFER_SIZE - 1
    BY <1>3, <1>4
  <2>2. CASE Top + k = Front
    <3>1. Front - gap = StreamAt + k /\ StreamAt + k <= Front
      BY <1>3, <1>10, <1>11, <2>2
    <3>2. QED
      BY <1>6, <1>13, <2>1, <2>2, <3>1
  <2>3. CASE Top + k # Front
    <3>1. Top + k > Front
      BY <1>3, <1>10, <1>18, <2>3
    <3>2. QED
      BY <1>6, <1>13, <2>1, <2>3, <3>1
  <2>4. QED
    BY <2>2, <2>3
<1>19. (dst \div Page - 1) % Pages = Pages - 1 - j
  <2>1. dst \div Page = Pages - j
    BY <1>4, <1>9, Divided
  <2>2. Pages - 1 - j \in 0 .. Pages - 1 /\ Pages \in Nat \ {0}
    BY <1>4, <1>5
  <2>3. dst \div Page - 1 = Pages - 1 - j
    BY <1>4, <2>1
  <2>4. QED
    BY <2>2, <2>3, OwnRemainder
<1>20. (dst \div Page - 1) % Pages = LastPage <=> j = PagesMoved
  BY <1>4, <1>5, <1>19
<1>21. CASE i # 0
  <2>1. cpu' = "move" /\ src' = src /\ dst' = dst
    BY <1>1, <1>21
  <2>2. Front' = Front - 1
    BY <1>1, <1>4, <1>7, <1>9, <1>10, <1>21, <2>1 DEF Front
  <2>3. MoveInv'
    BY <1>1, <1>2, <1>6, <1>7, <1>15, <1>16, <1>17, <1>18, <2>1, <2>2 DEF MoveInv
  <2>4. QED
    BY <1>13, <2>1, <2>3 DEF MachineInv, BootInv, DepackInv, UnpackInv, RestoreInv, RunInv
<1>22. CASE i = 0 /\ j # PagesMoved
  <2>1. cpu' = "move" /\ src' = (src - Page) % BUFFER_SIZE /\ dst' = (dst - Page) % BUFFER_SIZE
    BY <1>1, <1>20, <1>22
  <2>2. /\ src - Page \in 0 .. BUFFER_SIZE - 1 /\ dst - Page \in 0 .. BUFFER_SIZE - 1
        /\ BUFFER_SIZE \in Nat \ {0}
    BY <1>4, <1>9, <1>11
  <2>3. src' = src - Page /\ dst' = dst - Page
    BY <2>1, <2>2, OwnRemainder
  <2>4. Front' = Front - 1
    BY <1>1, <1>4, <1>9, <1>10, <1>22, <2>3 DEF Front
  <2>5. j + 1 \in 1 .. PagesMoved /\ dst' = BUFFER_SIZE - (j + 1) * Page
    BY <1>4, <1>5, <1>8, <1>22, <2>3
  <2>6. src' = dst' + StreamAt + ctx.packed_size - BUFFER_SIZE
    <3>1. src = dst + StreamAt + ctx.packed_size - BUFFER_SIZE
      BY <1>6
    <3>2. Page \in Nat /\ BUFFER_SIZE \in Nat /\ dst \in Nat
      BY <1>4, <1>9
    <3>3. QED
      BY <1>3, <2>3, <3>1, <3>2
  <2>7. MoveInv'
    BY <1>1, <1>2, <1>7, <1>15, <1>16, <1>17, <1>18, <2>4, <2>5, <2>6 DEF MoveInv
  <2>8. QED
    BY <1>13, <2>1, <2>7 DEF MachineInv, BootInv, DepackInv, UnpackInv, RestoreInv, RunInv
<1>23. CASE i = 0 /\ j = PagesMoved
  <2>1. cpu' = "unpack" /\ src' = Top /\ dst' = ctx.orig_addr /\ command' = 0 /\ left' = 0
    BY <1>1, <1>20, <1>23
  <2>2. /\ Given(stream, 0) = 0 /\ Taken(stream, 0) = 0 /\ Len(stream.commands) \in Nat
    BY <1>1, Commanded
  <2>3. Given(stream, command)' = 0 /\ Taken(stream, command)' = 0 /\ ~InLiterals'
    BY <1>2, <2>1, <2>2 DEF InLiterals
  <2>4. Position' = 0
    BY <1>2, <1>3, <2>1 DEF Position, Top
  <2>5. Top >= Front
    <3> DEFINE all == PagesMoved * Page
    <3>1. all \in Nat /\ all > ctx.packed_size /\ dst = BUFFER_SIZE - all
      BY <1>4, <1>5, <1>8, <1>23
    <3> HIDE DEF all
    <3>2. QED
      BY <1>3, <1>4, <1>10, <1>23, <3>1
  <2>6. \A k \in 0 .. ctx.packed_size - 1 : mem'[Top + k] = Stream(k)
    <3> SUFFICES ASSUME NEW k \in 0 .. ctx.packed_size - 1 PROVE mem'[Top + k] = Stream(k)
      OBVIOUS
    <3>1. Top + k > Front - 1
      BY <1>3, <1>10, <2>5
    <3>2. QED
      BY <1>18, <3>1
  <2>7. Unpacked(dst - ctx.orig_addr)'
    BY <1>2, <1>3, <2>1 DEF Unpacked
  <2>8. dst' = ctx.orig_addr + 0 - left' /\ src' = Top + 0 - 0
    BY <1>3, <1>4, <2>1
  <2>9. UnpackInv'
    BY <1>2, <1>15, <1>16, <2>1, <2>2, <2>3, <2>4, <2>6, <2>7, <2>8 DEF UnpackInv
  <2>10. QED
    BY <1>13, <2>1, <2>9 DEF MachineInv, BootInv, DepackInv, MoveInv, RestoreInv, RunInv
<1>24. QED
  BY <1>21, <1>22, <1>23

(***************************************************************************)
(* A step that writes behind the stack page, or below what is saved on it, *)
(* leaves the decoder and zero page's bytes alone.                         *)
(***************************************************************************)
LEMMA KeptBelow ==
  ASSUME IInv, SfxTested, SfxWritten, output.state = "sfx", UNCHANGED compressVars, sp' = sp,
         DecoderIn(1), KeptOnStack,
         \A x \in 0 .. 2 * Page - 1 : x < Page \/ x >= StackOf(0) => mem'[x] = mem[x]
  PROVE  DecoderIn(1)' /\ KeptOnStack'
<1>1. Small' = Small /\ Size' = Size
  BY Fixed
<1>2. Size \in 1 .. Page - 1
  BY Layout
<1>3. Page \in Nat /\ Page > 1 /\ KeptSize \in Nat /\ KeptSize < Page
  BY MachineNumbers
<1>4. DecoderIn(1)'
  <2> SUFFICES ASSUME NEW k \in 1 .. Size PROVE mem'[k] = Code(k)
    BY <1>1 DEF DecoderIn
  <2>1. k \in 0 .. 2 * Page - 1 /\ k < Page
    BY <1>2, <1>3
  <2>2. QED
    BY <2>1 DEF DecoderIn
<1>5. KeptOnStack'
  <2> SUFFICES ASSUME ~Small
               PROVE  mem'[0] = Saved(0) /\ StackSaved(0)' /\ sp' = Page - KeptSize - 1
    BY <1>1 DEF KeptOnStack
  <2>1. mem[0] = Saved(0) /\ StackSaved(0) /\ sp = Page - KeptSize - 1
    BY DEF KeptOnStack
  <2>2. mem'[0] = mem[0]
    <3>1. 0 \in 0 .. 2 * Page - 1 /\ 0 < Page
      BY <1>3
    <3>2. QED
      BY <3>1
  <2>3. ASSUME NEW k \in 0 .. KeptSize - 1 PROVE mem'[StackOf(k)] = mem[StackOf(k)]
    <3>1. StackOf(k) \in 0 .. 2 * Page - 1 /\ StackOf(k) >= StackOf(0)
      BY <1>3 DEF StackOf
    <3>2. QED
      BY <3>1
  <2>4. QED
    BY <2>1, <2>2, <2>3 DEF StackSaved, StackOf
<1>6. QED
  BY <1>4, <1>5

(***************************************************************************)
(* What the decoder's subroutines push stays below what is saved.          *)
(***************************************************************************)
LEMMA CallsKeep ==
  ASSUME DOMAIN mem = 0 .. BUFFER_SIZE - 1, KeptOnStack
  PROVE  /\ DOMAIN CallsInto(mem) = 0 .. BUFFER_SIZE - 1
         /\ \A x \in 0 .. BUFFER_SIZE - 1 :
              x < Page \/ x >= StackOf(0) => CallsInto(mem)[x] = mem[x]
<1>1. /\ Page \in Nat /\ KeptSize \in Nat /\ StackUse \in Nat /\ KeptSize + StackUse < Page
  BY MachineNumbers
<1>2. ASSUME NEW x \in 0 .. BUFFER_SIZE - 1, x < Page \/ x >= StackOf(0), ~Small
      PROVE  ~(x > Page + sp - StackUse /\ x <= Page + sp)
  <2>1. sp = Page - KeptSize - 1 /\ StackOf(0) = 2 * Page - KeptSize
    BY <1>1, <1>2 DEF KeptOnStack, StackOf
  <2>2. QED
    BY <1>1, <1>2, <2>1
<1>3. QED
  BY <1>2 DEF CallsInto

(***************************************************************************)
(* What is known at the beginning of a step of unpacking.                  *)
(***************************************************************************)
LEMMA UnpackBounds ==
  ASSUME IInv, SfxTested, SfxWritten, output.state = "sfx"
  PROVE  /\ ctx.packed_size \in Nat /\ Top \in Nat /\ Top = BUFFER_SIZE - ctx.packed_size
         /\ Top >= 2 * Page /\ ctx.orig_addr \in Nat /\ ctx.orig_addr >= 2 * Page
         /\ ctx.orig_addr + ctx.unpacked_size <= BUFFER_SIZE /\ ctx.unpacked_size \in Nat
         /\ Page \in Nat /\ Page > 1 /\ BUFFER_SIZE \in Nat /\ StackOf(0) <= 2 * Page
         /\ StackOf(0) \in Nat
<1>1. /\ Page \in Nat /\ Page > 1 /\ BUFFER_SIZE \in Nat /\ KeptSize \in Nat /\ KeptSize < Page
  BY MachineNumbers
<1>2. /\ ctx.packed_size \in Nat /\ Top = BUFFER_SIZE - ctx.packed_size
      /\ ctx.orig_addr \in Nat /\ ctx.orig_addr >= 2 * Page
      /\ ctx.orig_addr + ctx.unpacked_size <= BUFFER_SIZE /\ ctx.unpacked_size \in Nat
  BY Layout
<1>3. Top \in Nat /\ Top >= 2 * Page
  <2>1. /\ StreamAt = CodeAt + Size /\ CodeAt = LoadAddress + CodeOffset
        /\ LoadAddress >= 2 * Page /\ LoadAddress \in Nat /\ CodeOffset \in Nat
        /\ Size \in 1 .. Page - 1 /\ StreamAt + ctx.packed_size <= BUFFER_SIZE
    BY Layout
  <2>2. QED
    BY <1>1, <1>2, <2>1
<1>4. StackOf(0) <= 2 * Page /\ StackOf(0) \in Nat
  BY <1>1 DEF StackOf
<1>5. QED
  BY <1>1, <1>2, <1>3, <1>4

(***************************************************************************)
(* One command, and how far the pointers are at its end.                   *)
(***************************************************************************)
LEMMA CommandAt ==
  ASSUME IInv, SfxTested, SfxWritten, output.state = "sfx",
         NEW n \in Nat, n < Len(stream.commands), NEW c, c = stream.commands[n + 1]
  PROVE  /\ c.literal \in BOOLEAN /\ c.read \in Nat /\ c.length \in Nat
         /\ Given(stream, n) \in Nat /\ Taken(stream, n) \in Nat
         /\ Given(stream, n + 1) = Given(stream, n) + c.length
         /\ Taken(stream, n + 1) = Taken(stream, n) + c.read + (IF c.literal THEN c.length ELSE 0)
         /\ Taken(stream, n + 1) <= ctx.packed_size
         /\ ctx.orig_addr + Given(stream, n + 1) <= Top + Taken(stream, n + 1)
<1> DEFINE m == n + 1
<1>1. Len(stream.commands) \in Nat /\ stream.end \in Nat /\ ctx.packed_size \in Nat
  BY Commanded, Layout
<1>2. m \in 1 .. Len(stream.commands) /\ m \in 0 .. Len(stream.commands) /\ m - 1 = n
      /\ n \in 0 .. Len(stream.commands) /\ c = stream.commands[m]
  BY <1>1
<1> HIDE DEF m
<1>3. /\ Given(stream, n) \in Nat /\ Taken(stream, n) \in Nat
      /\ Taken(stream, m) \in Nat /\ Taken(stream, m) + stream.end <= ctx.packed_size
  BY <1>2, Commanded
<1>4. /\ c.literal \in BOOLEAN /\ c.read \in Nat /\ c.length \in Nat
      /\ Given(stream, m) = Given(stream, m - 1) + c.length
      /\ Taken(stream, m) = Taken(stream, m - 1) + c.read + (IF c.literal THEN c.length ELSE 0)
      /\ ctx.orig_addr + Given(stream, m) <= Top + Taken(stream, m)
  BY <1>2, Commanded
<1>5. Taken(stream, m) <= ctx.packed_size
  BY <1>1, <1>3
<1>6. QED
  BY <1>2, <1>3, <1>4, <1>5 DEF m

LEMMA Unpacks ==
  ASSUME IInv, SfxTested, SfxWritten, MachineInv, cpu = "unpack"
  PROVE  /\ output.state = "sfx" /\ DOMAIN mem = 0 .. BUFFER_SIZE - 1
         /\ DecoderIn(1) /\ KeptOnStack
         /\ command \in 0 .. Len(stream.commands) /\ command \in Nat
         /\ Len(stream.commands) \in Nat /\ left \in Nat
         /\ IF command = 0 THEN left = 0 ELSE left <= stream.commands[command].length
         /\ dst = ctx.orig_addr + Given(stream, command) - left
         /\ src = Top + Taken(stream, command) - (IF InLiterals THEN left ELSE 0)
         /\ \A k \in Position .. ctx.packed_size - 1 : mem[Top + k] = Stream(k)
         /\ Unpacked(dst - ctx.orig_addr)
         /\ src \in Int /\ dst \in Int /\ Position = src - Top
<1>1. /\ output.state = "sfx" /\ DOMAIN mem = 0 .. BUFFER_SIZE - 1 /\ UnpackInv
  BY DEF MachineInv, SfxWritten
<1>2. /\ command \in 0 .. Len(stream.commands) /\ left \in Nat
      /\ dst = ctx.orig_addr + Given(stream, command) - left
      /\ src = Top + Taken(stream, command) - (IF InLiterals THEN left ELSE 0)
  BY <1>1 DEF UnpackInv
<1>3. /\ Given(stream, command) \in Nat /\ Taken(stream, command) \in Nat
      /\ ctx.orig_addr \in Nat /\ Top \in Nat
  BY <1>1, <1>2, Commanded, UnpackBounds
<1>4. src \in Int /\ dst \in Int
  BY <1>2, <1>3
<1>5. Position = src - Top
  BY DEF Position, Top
<1>6. command \in Nat /\ Len(stream.commands) \in Nat
  <2>1. Len(stream.commands) \in Nat
    BY <1>1, Commanded
  <2>2. QED
    BY <1>2, <2>1
<1>7. QED
  BY <1>1, <1>4, <1>5, <1>6 DEF UnpackInv

(* The codes of a command have not been overwritten. *)
LEMMA CommandStep ==
  ASSUME IInv, SfxTested, SfxWritten, MachineInv, NextCommand PROVE MachineInv'
<1> DEFINE c == stream.commands[command + 1]
<1>1. /\ UNCHANGED compressVars /\ cpu = "unpack" /\ left = 0
      /\ command < Len(stream.commands) /\ sp' = sp /\ dst' = dst
      /\ \/ /\ src' = src + c.read /\ left' = c.length /\ command' = command + 1
            /\ mem' = CallsInto(mem) /\ cpu' = cpu
         \/ ~Arrived(c.read)
  BY DEF NextCommand
<1>2. /\ output.state = "sfx" /\ DOMAIN mem = 0 .. BUFFER_SIZE - 1
      /\ DecoderIn(1) /\ KeptOnStack /\ command \in Nat /\ Len(stream.commands) \in Nat
      /\ dst = ctx.orig_addr + Given(stream, command) - left
      /\ src = Top + Taken(stream, command) - (IF InLiterals THEN left ELSE 0)
      /\ \A k \in Position .. ctx.packed_size - 1 : mem[Top + k] = Stream(k)
      /\ Unpacked(dst - ctx.orig_addr)
      /\ src \in Int /\ dst \in Int /\ Position = src - Top
  BY <1>1, Unpacks
<1>3. /\ Small' = Small /\ Size' = Size /\ Top' = Top /\ ctx' = ctx /\ stream' = stream
  BY <1>1, Fixed
<1>4. /\ ctx.packed_size \in Nat /\ Top \in Nat /\ Top = BUFFER_SIZE - ctx.packed_size
      /\ Top >= 2 * Page /\ ctx.orig_addr \in Nat /\ ctx.orig_addr >= 2 * Page
      /\ Page \in Nat /\ BUFFER_SIZE \in Nat /\ StackOf(0) <= 2 * Page /\ StackOf(0) \in Nat
  BY <1>2, UnpackBounds
<1> DEFINE given == Given(stream, command)
           taken == Taken(stream, command)
           given2 == Given(stream, command + 1)
           taken2 == Taken(stream, command + 1)
<1>5. /\ c.literal \in BOOLEAN /\ c.read \in Nat /\ c.length \in Nat
      /\ given \in Nat /\ taken \in Nat /\ given2 = given + c.length
      /\ taken2 = taken + c.read + (IF c.literal THEN c.length ELSE 0)
      /\ taken2 <= ctx.packed_size /\ ctx.orig_addr + given2 <= Top + taken2
  BY <1>1, <1>2, CommandAt
<1>6. /\ dst = ctx.orig_addr + given - left
      /\ src = Top + taken - (IF InLiterals THEN left ELSE 0)
  BY <1>2
<1> HIDE DEF c, given, taken, given2, taken2
<1>7. Position = taken /\ src = Top + taken /\ dst = ctx.orig_addr + given
  <2>1. (IF InLiterals THEN left ELSE 0) = 0 /\ left = 0
    BY <1>1
  <2>2. src = Top + taken - 0 /\ dst = ctx.orig_addr + given - 0
    BY <1>6, <2>1
  <2>3. taken \in Nat /\ given \in Nat /\ ctx.orig_addr \in Nat /\ Top \in Nat
    BY <1>4, <1>5
  <2>4. src = Top + taken /\ dst = ctx.orig_addr + given
    BY <2>2, <2>3
  <2>5. Position = src - Top
    BY <1>2
  <2>6. QED
    BY <2>3, <2>4, <2>5
<1>8. Arrived(c.read)
  <2> SUFFICES ASSUME NEW k \in 0 .. c.read - 1 PROVE mem[src + k] = Stream(Position + k)
    BY DEF Arrived
  <2>1. Position + k \in Position .. ctx.packed_size - 1 /\ src + k = Top + (Position + k)
    BY <1>4, <1>5, <1>7
  <2>2. QED
    BY <1>2, <2>1
<1>9. /\ src' = src + c.read /\ left' = c.length /\ command' = command + 1
      /\ mem' = CallsInto(mem) /\ cpu' = "unpack"
  BY <1>1, <1>8
<1>10. /\ DOMAIN mem' = 0 .. BUFFER_SIZE - 1
       /\ \A x \in 0 .. BUFFER_SIZE - 1 : x < Page \/ x >= StackOf(0) => mem'[x] = mem[x]
  BY <1>2, <1>9, CallsKeep
<1>11. DecoderIn(1)' /\ KeptOnStack'
  <2>1. \A x \in 0 .. 2 * Page - 1 : x \in 0 .. BUFFER_SIZE - 1
    BY <1>4
  <2>2. QED
    BY <1>1, <1>2, <1>10, <2>1, KeptBelow
<1>12. command' \in 0 .. Len(stream.commands) /\ left' \in Nat /\ command' # 0
       /\ left' <= stream.commands[command'].length
  <2>1. command + 1 \in 0 .. Len(stream.commands) /\ command + 1 # 0
    BY <1>1, <1>2
  <2>2. left' <= c.length
    BY <1>5, <1>9
  <2>3. QED
    BY <1>5, <1>9, <2>1, <2>2 DEF c
<1>13. dst' = ctx.orig_addr + Given(stream, command') - left'
  <2>1. dst' = ctx.orig_addr + given /\ left' = c.length
    BY <1>1, <1>7, <1>9
  <2>2. given \in Nat /\ c.length \in Nat /\ given2 = given + c.length
    BY <1>5
  <2>3. dst' = ctx.orig_addr + given2 - left'
    BY <1>4, <2>1, <2>2
  <2>4. QED
    BY <1>9, <2>3 DEF given2
<1>14. InLiterals' = c.literal
  <2>1. command' > 0 /\ stream'.commands[command'] = c
    BY <1>2, <1>3, <1>9 DEF c
  <2>2. QED
    BY <1>5, <2>1 DEF InLiterals
<1>15. src' = Top + Taken(stream, command') - (IF InLiterals' THEN left' ELSE 0)
  <2>1. src' = Top + taken2 - (IF c.literal THEN c.length ELSE 0)
    BY <1>4, <1>5, <1>7, <1>9
  <2>2. QED
    BY <1>9, <1>14, <2>1 DEF taken2
<1>16. ASSUME NEW k \in Position' .. ctx.packed_size - 1 PROVE mem'[Top + k] = Stream(k)
  <2>1. Position' = Position + c.read /\ Position \in Nat
    <3>1. Position' = src' - Top'
      BY DEF Position, Top
    <3>2. QED
      BY <1>3, <1>4, <1>5, <1>7, <1>9, <3>1
  <2>2. k \in Position .. ctx.packed_size - 1 /\ Top + k \in 0 .. BUFFER_SIZE - 1
        /\ Top + k >= StackOf(0)
    BY <1>4, <1>5, <2>1
  <2>3. QED
    BY <1>2, <1>10, <2>2
<1>17. Unpacked(dst - ctx.orig_addr)'
  <2> SUFFICES ASSUME NEW k \in 0 .. dst - ctx.orig_addr - 1
               PROVE  mem'[ctx.orig_addr + k] = Data(ctx.data + k)
    BY <1>1, <1>3 DEF Unpacked
  <2>1. k \in 0 .. given - 1
    BY <1>4, <1>5, <1>7
  <2>2. ctx.orig_addr + k \in 0 .. BUFFER_SIZE - 1 /\ ctx.orig_addr + k >= StackOf(0)
    BY <1>4, <1>5, <2>1
  <2>3. QED
    BY <1>2, <1>10, <2>2 DEF Unpacked
<1>18. UnpackInv'
  BY <1>3, <1>9, <1>11, <1>12, <1>13, <1>15, <1>16, <1>17 DEF UnpackInv
<1>19. QED
  BY <1>9, <1>10, <1>18 DEF MachineInv, BootInv, DepackInv, MoveInv, RestoreInv, RunInv

(* A byte of output goes where nothing unread is left. *)
LEMMA CopyStep ==
  ASSUME IInv, SfxTested, SfxWritten, MachineInv, CopyByte PROVE MachineInv'
<1> DEFINE c   == stream.commands[command]
           put == IF c.literal => Arrived(1) THEN Data(ctx.data + (dst - ctx.orig_addr))
                  ELSE <<"wrong", dst - ctx.orig_addr>>
<1>1. /\ UNCHANGED compressVars /\ cpu = "unpack" /\ left > 0 /\ cpu' = cpu /\ sp' = sp
      /\ command' = command /\ dst' = dst + 1 /\ left' = left - 1
      /\ src' = (IF c.literal THEN src + 1 ELSE src)
      /\ mem' = [mem EXCEPT ![dst % BUFFER_SIZE] = put]
  BY DEF CopyByte
<1>2. /\ output.state = "sfx" /\ DOMAIN mem = 0 .. BUFFER_SIZE - 1
      /\ DecoderIn(1) /\ KeptOnStack /\ command \in Nat /\ Len(stream.commands) \in Nat
      /\ command \in 0 .. Len(stream.commands) /\ left \in Nat /\ command # 0
      /\ left <= c.length
      /\ dst = ctx.orig_addr + Given(stream, command) - left
      /\ src = Top + Taken(stream, command) - (IF InLiterals THEN left ELSE 0)
      /\ \A k \in Position .. ctx.packed_size - 1 : mem[Top + k] = Stream(k)
      /\ Unpacked(dst - ctx.orig_addr)
      /\ src \in Int /\ dst \in Int /\ Position = src - Top
  <2>1. IF command = 0 THEN left = 0 ELSE left <= c.length
    BY <1>1, Unpacks
  <2>2. command # 0 /\ left <= c.length
    BY <1>1, <2>1
  <2>3. QED
    BY <1>1, <2>2, Unpacks
<1>3. /\ Small' = Small /\ Size' = Size /\ Top' = Top /\ ctx' = ctx /\ stream' = stream
  BY <1>1, Fixed
<1>4. /\ ctx.packed_size \in Nat /\ Top \in Nat /\ Top = BUFFER_SIZE - ctx.packed_size
      /\ Top >= 2 * Page /\ ctx.orig_addr \in Nat /\ ctx.orig_addr >= 2 * Page
      /\ Page \in Nat /\ BUFFER_SIZE \in Nat
  BY <1>2, UnpackBounds
<1> DEFINE given == Given(stream, command)
           taken == Taken(stream, command)
<1>5. /\ c.literal \in BOOLEAN /\ c.length \in Nat /\ given \in Nat /\ taken \in Nat
      /\ given >= c.length /\ taken <= ctx.packed_size
      /\ ctx.orig_addr + given <= Top + taken
  <2> DEFINE n == command - 1
             given0 == Given(stream, n)
  <2>1. n \in Nat /\ n < Len(stream.commands) /\ n + 1 = command
    BY <1>2
  <2> HIDE DEF n
  <2>2. /\ c.literal \in BOOLEAN /\ c.length \in Nat
        /\ given0 \in Nat /\ given = given0 + c.length /\ taken <= ctx.packed_size
        /\ ctx.orig_addr + given <= Top + taken
    BY <1>2, <2>1, CommandAt
  <2>3. taken \in Nat /\ given \in Nat
    BY <1>2, Commanded
  <2> HIDE DEF given0, given, taken, c
  <2>4. given >= c.length
    BY <2>2
  <2>5. QED
    BY <2>2, <2>3, <2>4
<1>6. InLiterals = c.literal /\ InLiterals' = c.literal
  <2>1. command > 0
    BY <1>2
  <2>2. QED
    BY <1>1, <1>3, <1>5, <2>1 DEF InLiterals
<1>7. dst = ctx.orig_addr + given - left /\ src = Top + taken - (IF c.literal THEN left ELSE 0)
  BY <1>2, <1>6
<1> DEFINE Numbers ==
       /\ left \in Nat /\ left > 0 /\ left <= given /\ given \in Nat /\ taken \in Nat
       /\ taken <= ctx.packed_size
       /\ ctx.orig_addr + given <= Top + taken /\ dst = ctx.orig_addr + given - left
       /\ ctx.orig_addr \in Nat /\ ctx.packed_size \in Nat /\ BUFFER_SIZE \in Nat
       /\ Top \in Nat /\ Top = BUFFER_SIZE - ctx.packed_size
       /\ src \in Int /\ dst \in Int /\ Position = src - Top
<1> HIDE DEF given, taken
<1>8. Numbers
  <2>1. left \in Nat /\ left > 0 /\ left <= c.length
    BY <1>1, <1>2
  <2>2. c.length \in Nat /\ given \in Nat /\ taken \in Nat /\ given >= c.length
        /\ taken <= ctx.packed_size /\ ctx.orig_addr + given <= Top + taken
    BY <1>5
  <2>3. src \in Int /\ dst \in Int /\ Position = src - Top
    BY <1>2
  <2> HIDE DEF c
  <2>4. left <= given
    BY <2>1, <2>2
  <2>5. QED
    BY <1>4, <1>7, <2>1, <2>2, <2>3, <2>4
<1>9. (c.literal => Arrived(1)) => put = Data(ctx.data + (dst - ctx.orig_addr))
  OBVIOUS
<1>10. c.literal => Arrived(1)
  <2> SUFFICES ASSUME c.literal, NEW k \in 0 .. 0 PROVE mem[src + k] = Stream(Position + k)
    BY DEF Arrived
  <2>1. src = Top + taken - left /\ Position = taken - left /\ k = 0
    <3>1. src = Top + taken - left
      BY <1>7
    <3>2. QED
      BY <1>8, <3>1
  <2>2. Position + k \in Position .. ctx.packed_size - 1 /\ src + k = Top + (Position + k)
    BY <1>8, <2>1
  <2>3. QED
    BY <1>2, <2>2
<1>11. put = Data(ctx.data + (dst - ctx.orig_addr))
  BY <1>9, <1>10
<1>12. src' = Top + taken - (IF c.literal THEN left - 1 ELSE 0) /\ dst < src'
       /\ src' >= src /\ src' \in Int
  <2>1. CASE c.literal
    <3>1. src = Top + taken - left /\ src' = src + 1
      BY <1>1, <1>7, <2>1
    <3>2. dst <= src /\ Top + taken - left + 1 = Top + taken - (left - 1)
      BY <1>8, <3>1
    <3>3. QED
      BY <1>8, <2>1, <3>1, <3>2
  <2>2. CASE ~c.literal
    <3>1. src = Top + taken - 0 /\ src' = src
      BY <1>1, <1>7, <2>2
    <3>2. dst < src
      BY <1>8, <3>1
    <3>3. QED
      BY <1>8, <2>2, <3>1, <3>2
  <2>3. QED
    BY <2>1, <2>2
<1> HIDE DEF c, put
<1>13. dst >= ctx.orig_addr /\ dst \in 0 .. BUFFER_SIZE - 1 /\ dst % BUFFER_SIZE = dst
  <2>1. dst >= ctx.orig_addr
    BY <1>8
  <2>2. dst \in 0 .. BUFFER_SIZE - 1
    BY <1>8
  <2>3. BUFFER_SIZE \in Nat \ {0}
    BY MachineNumbers
  <2>4. QED
    BY <2>1, <2>2, <2>3, OwnRemainder
<1>14. /\ DOMAIN mem' = 0 .. BUFFER_SIZE - 1
       /\ \A x \in 0 .. BUFFER_SIZE - 1 : mem'[x] = IF x = dst THEN put ELSE mem[x]
  BY <1>1, <1>2, <1>13
<1>15. DecoderIn(1)' /\ KeptOnStack'
  <2>1. \A x \in 0 .. 2 * Page - 1 : x \in 0 .. BUFFER_SIZE - 1 /\ x # dst
    BY <1>4, <1>13
  <2>2. \A x \in 0 .. 2 * Page - 1 : mem'[x] = mem[x]
    BY <1>14, <2>1
  <2>3. QED
    BY <1>1, <1>2, <2>2, KeptBelow
<1>16. ASSUME NEW k \in Position' .. ctx.packed_size - 1 PROVE mem'[Top + k] = Stream(k)
  <2>1. Position' = src' - Top
    BY <1>3 DEF Position, Top
  <2>2. k \in Position .. ctx.packed_size - 1 /\ Top + k # dst /\ Top + k \in 0 .. BUFFER_SIZE - 1
    BY <1>8, <1>12, <2>1
  <2>3. QED
    BY <1>2, <1>14, <2>2
<1>17. Unpacked(dst - ctx.orig_addr)'
  <2>1. dst' - ctx'.orig_addr - 1 = dst - ctx.orig_addr
    <3>1. dst' = dst + 1 /\ ctx' = ctx
      BY <1>1, <1>3
    <3>2. QED
      BY <1>8, <3>1
  <2> SUFFICES ASSUME NEW k \in 0 .. dst - ctx.orig_addr
               PROVE  mem'[ctx.orig_addr + k] = Data(ctx.data + k)
    BY <1>3, <2>1 DEF Unpacked
  <2>2. ctx.orig_addr + k \in 0 .. BUFFER_SIZE - 1
    BY <1>8
  <2>3. CASE ctx.orig_addr + k = dst
    <3>1. dst - ctx.orig_addr = k
      BY <1>8, <2>3
    <3>2. QED
      BY <1>11, <1>14, <2>2, <2>3, <3>1
  <2>4. CASE ctx.orig_addr + k # dst
    <3>1. k \in 0 .. dst - ctx.orig_addr - 1
      BY <1>8, <2>4
    <3>2. QED
      BY <1>2, <1>14, <2>2, <2>4, <3>1 DEF Unpacked
  <2>5. QED
    BY <2>3, <2>4
<1>18. dst' = ctx.orig_addr + Given(stream, command) - left'
  <2>1. dst + 1 = ctx.orig_addr + given - (left - 1)
    BY <1>8
  <2>2. QED
    BY <1>1, <2>1 DEF given
<1>19. src' = Top + Taken(stream, command) - (IF InLiterals' THEN left' ELSE 0)
  BY <1>1, <1>6, <1>12 DEF taken
<1>20. left' \in Nat /\ left' <= c.length
  BY <1>1, <1>2, <1>5
<1>21. UnpackInv'
  BY <1>1, <1>2, <1>3, <1>15, <1>16, <1>17, <1>18, <1>19, <1>20 DEF UnpackInv, c
<1>22. QED
  BY <1>1, <1>14, <1>21 DEF MachineInv, BootInv, DepackInv, MoveInv, RestoreInv, RunInv

(* A number just below zero wraps once. *)
LEMMA WrappedRemainder ==
  ASSUME NEW n \in Nat \ {0}, NEW k \in -n .. -1 PROVE k % n = k + n
  OBVIOUS

(* The end mark is read, and all of the output is there. *)
LEMMA EofStep ==
  ASSUME IInv, SfxTested, SfxWritten, MachineInv, LzEof PROVE MachineInv'
<1>1. /\ UNCHANGED compressVars /\ cpu = "unpack" /\ left = 0
      /\ command = Len(stream.commands) /\ sp' = sp
      /\ \/ cpu' = (IF Small THEN "run" ELSE "restore") /\ mem' = CallsInto(mem)
         \/ ~Arrived(stream.end)
  BY DEF LzEof
<1>2. /\ output.state = "sfx" /\ DOMAIN mem = 0 .. BUFFER_SIZE - 1
      /\ DecoderIn(1) /\ KeptOnStack
      /\ dst = ctx.orig_addr + Given(stream, command) - left
      /\ src = Top + Taken(stream, command) - (IF InLiterals THEN left ELSE 0)
      /\ \A k \in Position .. ctx.packed_size - 1 : mem[Top + k] = Stream(k)
      /\ Unpacked(dst - ctx.orig_addr) /\ Position = src - Top
  BY <1>1, Unpacks
<1>3. /\ Small' = Small /\ Size' = Size /\ ctx' = ctx
  BY <1>1, Fixed
<1>4. /\ ctx.packed_size \in Nat /\ Top \in Nat /\ ctx.orig_addr \in Nat
      /\ ctx.orig_addr >= 2 * Page
      /\ ctx.orig_addr + ctx.unpacked_size <= BUFFER_SIZE /\ ctx.unpacked_size \in Nat
      /\ Page \in Nat /\ BUFFER_SIZE \in Nat /\ StackOf(0) <= 2 * Page /\ StackOf(0) \in Nat
  BY <1>2, UnpackBounds
<1> DEFINE taken == Taken(stream, command)
<1>5. /\ Given(stream, command) = ctx.unpacked_size /\ taken + stream.end = ctx.packed_size
      /\ stream.end \in Nat /\ taken \in Nat
  <2>1. Len(stream.commands) \in Nat
    BY <1>2, Commanded
  <2>2. Len(stream.commands) \in 0 .. Len(stream.commands)
    BY <2>1
  <2>3. QED
    BY <1>1, <1>2, <2>2, Commanded
<1>6. src = Top + taken /\ Position = taken /\ dst - ctx.orig_addr = ctx.unpacked_size
  <2>1. (IF InLiterals THEN left ELSE 0) = 0
    BY <1>1
  <2>2. src = Top + taken - 0 /\ dst = ctx.orig_addr + ctx.unpacked_size - 0
    BY <1>1, <1>2, <1>5, <2>1
  <2> HIDE DEF taken
  <2>3. taken \in Nat
    BY <1>5
  <2>4. src = Top + taken /\ dst - ctx.orig_addr = ctx.unpacked_size
    BY <1>4, <2>2, <2>3
  <2>5. Position = src - Top
    BY <1>2
  <2>6. QED
    BY <1>4, <2>3, <2>4, <2>5
<1> HIDE DEF taken
<1>7. Arrived(stream.end)
  <2> SUFFICES ASSUME NEW k \in 0 .. stream.end - 1 PROVE mem[src + k] = Stream(Position + k)
    BY DEF Arrived
  <2>1. Position + k \in Position .. ctx.packed_size - 1 /\ src + k = Top + (Position + k)
    BY <1>4, <1>5, <1>6
  <2>2. QED
    BY <1>2, <2>1
<1>8. cpu' = (IF Small THEN "run" ELSE "restore") /\ mem' = CallsInto(mem)
  BY <1>1, <1>7
<1>9. /\ DOMAIN mem' = 0 .. BUFFER_SIZE - 1
      /\ \A x \in 0 .. BUFFER_SIZE - 1 : x < Page \/ x >= StackOf(0) => mem'[x] = mem[x]
  BY <1>2, <1>8, CallsKeep
<1>10. DecoderIn(1)' /\ KeptOnStack'
  <2>1. \A x \in 0 .. 2 * Page - 1 : x \in 0 .. BUFFER_SIZE - 1
    BY <1>4
  <2>2. QED
    BY <1>1, <1>2, <1>9, <2>1, KeptBelow
<1>11. Unpacked(ctx.unpacked_size)'
  <2> SUFFICES ASSUME NEW k \in 0 .. ctx.unpacked_size - 1
               PROVE  mem'[ctx.orig_addr + k] = Data(ctx.data + k)
    BY <1>3 DEF Unpacked
  <2>1. ctx.orig_addr + k \in 0 .. BUFFER_SIZE - 1 /\ ctx.orig_addr + k >= StackOf(0)
    BY <1>4
  <2>2. k \in 0 .. dst - ctx.orig_addr - 1
    BY <1>6
  <2>3. QED
    BY <1>2, <1>9, <2>1, <2>2 DEF Unpacked
<1>12. CASE Small
  <2>1. cpu' = "run" /\ Small'
    BY <1>3, <1>8, <1>12
  <2>2. RunInv'
    BY <1>11, <2>1 DEF RunInv
  <2>3. QED
    BY <1>9, <2>1, <2>2 DEF MachineInv, BootInv, DepackInv, MoveInv, UnpackInv, RestoreInv
<1>13. CASE ~Small
  <2>1. cpu' = "restore" /\ ~Small'
    BY <1>3, <1>8, <1>13
  <2>2. mem'[0] = Saved(0) /\ StackSaved(0)' /\ sp' = Page - KeptSize - 1
    BY <1>10, <2>1 DEF KeptOnStack
  <2>3. DecoderIn(KeptSize + 1)'
    <3>1. \A k \in KeptSize + 1 .. Size : k \in 1 .. Size
      BY <1>2, Layout, MachineNumbers
    <3>2. QED
      BY <1>3, <1>10, <3>1 DEF DecoderIn
  <2>4. sp' \in Page - KeptSize - 1 .. Page - 1 /\ sp' - (Page - KeptSize - 1) = 0
    BY <2>2, MachineNumbers
  <2>5. PutBack(sp - (Page - KeptSize - 1))'
    <3>1. PutBack(0)'
      BY DEF PutBack
    <3>2. QED
      BY <2>4, <3>1 DEF PutBack
  <2>6. RestoreInv'
    BY <1>11, <2>1, <2>2, <2>3, <2>4, <2>5 DEF RestoreInv
  <2>7. QED
    BY <1>9, <2>1, <2>6 DEF MachineInv, BootInv, DepackInv, MoveInv, UnpackInv, RunInv
<1>14. QED
  BY <1>12, <1>13

(* What is taken off the stack goes where it came from. *)
LEMMA RestoreStep ==
  ASSUME IInv, SfxTested, SfxWritten, MachineInv, Restore PROVE MachineInv'
<1> DEFINE x == (sp + 1) % Page
           n == sp - (Page - KeptSize - 1)
<1>1. /\ UNCHANGED compressVars /\ cpu = "restore"
      /\ mem' = [mem EXCEPT ![RestoreTo(x)] = mem[Page + x]]
      /\ sp' = (IF x = 0 THEN Page - 1 ELSE x)
      /\ cpu' = (IF x = 0 THEN "run" ELSE "restore")
  BY DEF Restore
<1>2. /\ output.state = "sfx" /\ DOMAIN mem = 0 .. BUFFER_SIZE - 1
      /\ ~Small /\ Unpacked(ctx.unpacked_size)
      /\ mem[0] = Saved(0) /\ StackSaved(0) /\ DecoderIn(KeptSize + 1)
      /\ sp \in Page - KeptSize - 1 .. Page - 1 /\ PutBack(n)
  BY <1>1 DEF MachineInv, RestoreInv, SfxWritten
<1>3. /\ Small' = Small /\ Size' = Size /\ ctx' = ctx
  BY <1>1, Fixed
<1>4. /\ ctx.orig_addr \in Nat /\ ctx.orig_addr >= 2 * Page
      /\ ctx.orig_addr + ctx.unpacked_size <= BUFFER_SIZE /\ ctx.unpacked_size \in Nat
      /\ Page \in Nat /\ Page > 1 /\ BUFFER_SIZE \in Nat /\ BUFFER_SIZE >= 2 * Page
  BY <1>2, UnpackBounds
<1>5. /\ KeptSize \in Nat /\ KeptSize >= 1 /\ KeptSize < Size /\ Size \in 1 .. Page - 1
  BY <1>2, Layout, MachineNumbers
<1>6. sp \in Nat /\ sp < Page /\ n \in 0 .. KeptSize /\ sp = n + (Page - KeptSize - 1)
  BY <1>2, <1>4, <1>5
<1> HIDE DEF x, n
<1>7. CASE sp # Page - 1
  <2>1. x = sp + 1
    <3>1. sp + 1 \in 0 .. Page - 1 /\ Page \in Nat \ {0}
      BY <1>4, <1>6, <1>7
    <3>2. QED
      BY <3>1, OwnRemainder DEF x
  <2>2. n + 1 \in 1 .. KeptSize
    BY <1>4, <1>5, <1>6, <1>7
  <2>3. RestoreTo(x) = n + 1
    <3>1. 1 - (Page - KeptSize) + x = n + 1
      BY <1>4, <1>5, <1>6, <2>1
    <3>2. n + 1 \in 0 .. Page - 1 /\ Page \in Nat \ {0}
      BY <1>4, <1>5, <2>2
    <3>3. QED
      BY <3>1, <3>2, OwnRemainder DEF RestoreTo
  <2>4. Page + x = StackOf(n) /\ n \in 0 .. KeptSize - 1
    BY <1>4, <1>5, <1>6, <2>1, <2>2 DEF StackOf
  <2>5. mem[Page + x] = IF n = 0 THEN Port ELSE Saved(n + 1)
    BY <1>2, <2>4 DEF StackSaved
  <2>6. n + 1 \in 0 .. BUFFER_SIZE - 1
    BY <1>4, <1>5, <2>2
  <2>7. /\ DOMAIN mem' = 0 .. BUFFER_SIZE - 1
        /\ \A z \in 0 .. BUFFER_SIZE - 1 : z # n + 1 => mem'[z] = mem[z]
        /\ mem'[n + 1] = IF n = 0 THEN Port ELSE Saved(n + 1)
    BY <1>1, <1>2, <2>3, <2>5, <2>6
  <2>8. sp' = sp + 1 /\ cpu' = "restore"
    BY <1>1, <1>6, <2>1
  <2>9. mem'[0] = Saved(0)
    BY <1>2, <1>4, <2>2, <2>7
  <2>10. StackSaved(0)'
    <3>1. ASSUME NEW k \in 0 .. KeptSize - 1 PROVE mem'[StackOf(k)] = mem[StackOf(k)]
      <4>1. StackOf(k) \in 0 .. BUFFER_SIZE - 1 /\ StackOf(k) # n + 1
        BY <1>4, <1>5, <2>2 DEF StackOf
      <4>2. QED
        BY <2>7, <4>1
    <3>2. QED
      BY <1>2, <3>1 DEF StackSaved, StackOf
  <2>11. DecoderIn(KeptSize + 1)'
    <3>1. \A k \in KeptSize + 1 .. Size : k \in 0 .. BUFFER_SIZE - 1 /\ k # n + 1
      BY <1>4, <1>5, <2>2
    <3>2. QED
      BY <1>2, <1>3, <2>7, <3>1 DEF DecoderIn
  <2>12. Unpacked(ctx.unpacked_size)'
    <3>1. ASSUME NEW k \in 0 .. ctx.unpacked_size - 1
          PROVE  mem'[ctx.orig_addr + k] = Data(ctx.data + k)
      <4>1. ctx.orig_addr + k \in 0 .. BUFFER_SIZE - 1 /\ ctx.orig_addr + k # n + 1
        BY <1>4, <1>5, <2>2
      <4>2. QED
        BY <1>2, <2>7, <4>1 DEF Unpacked
    <3>2. QED
      BY <1>3, <3>1 DEF Unpacked
  <2>13. (n + 1 >= 1 => mem'[1] = Port) /\ \A z \in 2 .. n + 1 : mem'[z] = Saved(z)
    <3>1. mem'[1] = Port
      <4>1. CASE n = 0
        BY <2>7, <4>1
      <4>2. CASE n # 0
        <5>1. mem[1] = Port /\ 1 \in 0 .. BUFFER_SIZE - 1 /\ 1 # n + 1
          BY <1>2, <1>4, <1>6, <4>2 DEF PutBack
        <5>2. QED
          BY <2>7, <5>1
      <4>3. QED
        BY <4>1, <4>2
    <3>2. ASSUME NEW z \in 2 .. n + 1 PROVE mem'[z] = Saved(z)
      <4>1. CASE z = n + 1
        <5>1. n # 0
          BY <2>2, <4>1
        <5>2. QED
          BY <2>7, <4>1, <5>1
      <4>2. CASE z # n + 1
        <5>1. z \in 2 .. n /\ z \in 0 .. BUFFER_SIZE - 1
          BY <1>4, <1>5, <1>6, <2>2, <4>2
        <5>2. QED
          BY <1>2, <2>7, <4>2, <5>1 DEF PutBack
      <4>3. QED
        BY <4>1, <4>2
    <3>3. QED
      BY <3>1, <3>2
  <2>14. sp' \in Page - KeptSize - 1 .. Page - 1 /\ sp' - (Page - KeptSize - 1) = n + 1
    BY <1>4, <1>5, <1>6, <2>2, <2>8
  <2>15. RestoreInv'
    BY <1>2, <1>3, <2>9, <2>10, <2>11, <2>12, <2>13, <2>14 DEF RestoreInv, PutBack
  <2>16. QED
    BY <2>7, <2>8, <2>15 DEF MachineInv, BootInv, DepackInv, MoveInv, UnpackInv, RunInv
<1>8. CASE sp = Page - 1
  <2>1. x = 0
    BY <1>4, <1>8 DEF x
  <2>2. n = KeptSize
    BY <1>4, <1>5, <1>6, <1>8
  <2>3. RestoreTo(x) = KeptSize + 1
    <3>1. 1 - (Page - KeptSize) + x = KeptSize + 1 - Page
      BY <1>4, <1>5, <2>1
    <3>2. KeptSize + 1 \in 1 .. Page - 1
      BY <1>4, <1>5
    <3>3. (KeptSize + 1 - Page) % Page = KeptSize + 1
      <4> DEFINE k == KeptSize + 1 - Page
      <4>1. k \in -Page .. -1 /\ Page \in Nat \ {0}
        BY <1>4, <1>5
      <4>2. k + Page = KeptSize + 1
        BY <1>4, <1>5
      <4> HIDE DEF k
      <4>3. k % Page = k + Page
        BY <4>1, WrappedRemainder
      <4>4. QED
        BY <4>2, <4>3 DEF k
    <3>4. QED
      BY <3>1, <3>3 DEF RestoreTo
  <2>4. /\ DOMAIN mem' = 0 .. BUFFER_SIZE - 1
        /\ \A z \in 0 .. BUFFER_SIZE - 1 : z # KeptSize + 1 => mem'[z] = mem[z]
    BY <1>1, <1>2, <2>3
  <2>5. sp' = Page - 1 /\ cpu' = "run"
    BY <1>1, <2>1
  <2>6. mem'[0] = Saved(0)
    BY <1>2, <1>4, <1>5, <2>4
  <2>7. PutBack(KeptSize)'
    <3>1. \A z \in 1 .. KeptSize : z \in 0 .. BUFFER_SIZE - 1 /\ z # KeptSize + 1
      BY <1>4, <1>5
    <3>2. mem'[1] = Port
      BY <1>2, <1>5, <2>2, <2>4, <3>1 DEF PutBack
    <3>3. ASSUME NEW z \in 2 .. KeptSize PROVE mem'[z] = Saved(z)
      BY <1>2, <1>5, <2>2, <2>4, <3>1 DEF PutBack
    <3>4. QED
      BY <3>2, <3>3 DEF PutBack
  <2>8. Unpacked(ctx.unpacked_size)'
    <3>1. ASSUME NEW k \in 0 .. ctx.unpacked_size - 1
          PROVE  mem'[ctx.orig_addr + k] = Data(ctx.data + k)
      <4>1. ctx.orig_addr + k \in 0 .. BUFFER_SIZE - 1 /\ ctx.orig_addr + k # KeptSize + 1
        BY <1>4, <1>5
      <4>2. QED
        BY <1>2, <2>4, <4>1 DEF Unpacked
    <3>2. QED
      BY <1>3, <3>1 DEF Unpacked
  <2>9. RunInv'
    BY <2>5, <2>6, <2>7, <2>8 DEF RunInv
  <2>10. QED
    BY <2>4, <2>5, <2>9 DEF MachineInv, BootInv, DepackInv, MoveInv, UnpackInv, RestoreInv
<1>9. QED
  BY <1>7, <1>8

(***************************************************************************)
(* What zero page keeps above the decoder, and the byte behind the part of *)
(* the decoder that is put back: it is pushed to the stack's last byte     *)
(* before the pointer wraps, below what the subroutines push.              *)
(***************************************************************************)
AboveKept  == \A x \in Size + 1 .. Page - 1 : mem[x] = Saved(x)
BottomKept == mem[Page] = Saved(KeptSize + 1)

ZeroPageInv ==
  cpu \notin {"off", "crash"} /\ ~Small =>
    /\ AboveKept
    /\ cpu = "boot" /\ y < KeptSize => BottomKept
    /\ cpu \in {"depack", "move", "unpack", "restore"} => BottomKept
    /\ cpu = "run" => /\ mem[KeptSize + 1] = Saved(KeptSize + 1)
                      /\ DecoderIn(KeptSize + 2)

(* A step that does not write there keeps it. *)
LEMMA ZeroPageKept ==
  ASSUME IInv, SfxTested, SfxWritten, output.state = "sfx", UNCHANGED compressVars,
         ZeroPageInv, cpu \in {"depack", "move", "unpack"},
         cpu' \in {"move", "unpack", "restore", "run", "crash"},
         cpu' = "run" => Small,
         \A x \in 0 .. Page : x > Size \/ x = Page => mem'[x] = mem[x]
  PROVE  ZeroPageInv'
<1>1. Small' = Small /\ Size' = Size
  BY Fixed
<1>2. Size \in 1 .. Page - 1
  BY Layout
<1>3. Page \in Nat /\ Page > 1
  BY MachineNumbers
<1> SUFFICES ASSUME ~Small, cpu' # "crash" PROVE AboveKept' /\ BottomKept' /\ cpu' # "run"
  BY <1>1 DEF ZeroPageInv
<1>4. AboveKept /\ BottomKept
  BY DEF ZeroPageInv
<1>5. AboveKept'
  <2> SUFFICES ASSUME NEW x \in Size + 1 .. Page - 1 PROVE mem'[x] = mem[x]
    BY <1>1, <1>4 DEF AboveKept
  <2>1. x \in 0 .. Page /\ x > Size
    BY <1>2, <1>3
  <2>2. QED
    BY <2>1
<1>6. BottomKept'
  <2>1. Page \in 0 .. Page
    BY <1>3
  <2>2. QED
    BY <1>4, <2>1 DEF BottomKept
<1>7. QED
  BY <1>5, <1>6

LEMMA LoadZeroPage ==
  ASSUME IInv, SfxTested, SfxWritten, Load PROVE ZeroPageInv'
<1>1. UNCHANGED compressVars /\ output.state = "sfx" /\ cpu' \in {"crash", "boot"} /\ y' = Size
  BY DEF Load, Size
<1>2. Small' = Small /\ Size' = Size
  BY <1>1, Fixed
<1>3. /\ Size \in 1 .. Page - 1 /\ (~Small => KeptSize < Size)
      /\ LoadAddress \in Nat /\ CodeOffset \in Nat /\ LoadAddress >= 2 * Page
      /\ ctx.packed_size \in Nat /\ CodeAt = LoadAddress + CodeOffset
      /\ StreamAt = CodeAt + Size /\ StreamAt + ctx.packed_size <= BUFFER_SIZE
  BY <1>1, Layout
<1>4. Page \in Nat /\ BUFFER_SIZE \in Nat /\ KeptSize \in Nat
  BY MachineNumbers
<1>5. \A x \in 0 .. BUFFER_SIZE - 1 :
        x - LoadAddress - CodeOffset < -CodeOffset => mem'[x] = Saved(x)
  BY DEF Load
<1>6. ASSUME NEW x \in 0 .. Page - 1 PROVE mem'[x] = Saved(x)
  <2>1. x \in 0 .. BUFFER_SIZE - 1 /\ x - LoadAddress - CodeOffset < -CodeOffset
    BY <1>3, <1>4
  <2>2. QED
    BY <1>5, <2>1
<1>7. AboveKept'
  BY <1>2, <1>3, <1>4, <1>6 DEF AboveKept
<1>8. ~Small => ~(y' < KeptSize)
  BY <1>1, <1>3, <1>4
<1>9. QED
  BY <1>1, <1>2, <1>7, <1>8 DEF ZeroPageInv

(* The stack pointer is zero when the byte behind the kept ones is pushed. *)
LEMMA BootZeroPage ==
  ASSUME IInv, SfxTested, SfxWritten, MachineInv, ZeroPageInv, Boot PROVE ZeroPageInv'
<1>1. /\ UNCHANGED compressVars /\ output.state = "sfx" /\ cpu = "boot"
      /\ cpu' \in {"boot", "crash", "depack"} /\ (y > 1 => cpu' = "boot") /\ y' = y - 1
  BY DEF Boot, SfxWritten
<1>2. Small' = Small /\ Size' = Size
  BY <1>1, Fixed
<1>3. /\ Size \in 1 .. Page - 1 /\ (~Small => KeptSize < Size)
      /\ StreamAt \in Nat /\ StreamAt > 2 * Page /\ ctx.packed_size \in Nat
      /\ StreamAt + ctx.packed_size <= BUFFER_SIZE
  BY <1>1, Layout, MachineNumbers
<1>4. /\ Page \in Nat /\ Page > 1 /\ BUFFER_SIZE \in Nat /\ KeptSize \in Nat /\ KeptSize >= 1
      /\ KeptSize < Page
  BY MachineNumbers
<1> SUFFICES ASSUME ~Small
             PROVE  AboveKept' /\ (y' < KeptSize => BottomKept') /\ cpu' # "run"
                    /\ (cpu' \in {"depack", "move", "unpack", "restore"} => y' < KeptSize \/ cpu' = "crash")
  BY <1>1, <1>2 DEF ZeroPageInv
<1>5. /\ DOMAIN mem = 0 .. BUFFER_SIZE - 1 /\ y \in 1 .. Size
      /\ sp = IF y >= KeptSize THEN y - KeptSize ELSE Page + y - KeptSize
      /\ y # Size => a = Saved(y + 1)
  BY <1>1 DEF MachineInv, BootInv
<1>6. AboveKept /\ (y < KeptSize => BottomKept)
  BY <1>1 DEF ZeroPageInv
<1> DEFINE at == LoadAddress + CodeOffset + y - 1
           got == IF InRom(at) THEN <<"rom", at>> ELSE mem[at]
<1>7. mem' = [[mem EXCEPT ![Page + sp] = a] EXCEPT ![y] = got]
  BY DEF Boot, Pushed
<1> HIDE DEF at, got
<1>8. Page + sp \in 0 .. BUFFER_SIZE - 1 /\ y < Page /\ (sp = 0 <=> y = KeptSize)
  BY <1>3, <1>4, <1>5
<1>9. \A x \in 0 .. BUFFER_SIZE - 1 : x # y =>
        mem'[x] = IF x = Page + sp THEN a ELSE mem[x]
  BY <1>5, <1>7, <1>8
<1>10. AboveKept'
  <2> SUFFICES ASSUME NEW x \in Size + 1 .. Page - 1 PROVE mem'[x] = mem[x]
    BY <1>2, <1>6 DEF AboveKept
  <2>1. x \in 0 .. BUFFER_SIZE - 1 /\ x # y /\ x # Page + sp
    BY <1>3, <1>4, <1>5
  <2>2. QED
    BY <1>9, <2>1
<1>11. ASSUME y' < KeptSize PROVE BottomKept'
  <2>1. Page \in 0 .. BUFFER_SIZE - 1 /\ Page # y
    BY <1>3, <1>4, <1>8
  <2>2. CASE y = KeptSize
    <3>1. Page = Page + sp /\ a = Saved(KeptSize + 1)
      BY <1>3, <1>4, <1>5, <1>8, <2>2
    <3>2. QED
      BY <1>9, <2>1, <3>1 DEF BottomKept
  <2>3. CASE y # KeptSize
    <3>1. y < KeptSize
      BY <1>1, <1>4, <1>5, <1>11, <2>3
    <3>2. Page # Page + sp
      BY <1>3, <1>4, <1>5, <1>8, <2>3
    <3>3. QED
      BY <1>6, <1>9, <2>1, <3>1, <3>2 DEF BottomKept
  <2>4. QED
    BY <2>2, <2>3
<1>12. cpu' = "depack" => y' < KeptSize
  BY <1>1, <1>4, <1>5
<1>13. QED
  BY <1>1, <1>10, <1>11, <1>12

LEMMA DepackZeroPage ==
  ASSUME IInv, SfxTested, SfxWritten, MachineInv, ZeroPageInv, Depack PROVE ZeroPageInv'
<1>1. /\ UNCHANGED compressVars /\ output.state = "sfx" /\ cpu = "depack" /\ cpu' = "move"
      /\ mem' = Pushed(mem, Port)
  BY DEF Depack, SfxWritten
<1>2. /\ StreamAt \in Nat /\ StreamAt > 2 * Page /\ ctx.packed_size \in Nat
      /\ StreamAt + ctx.packed_size <= BUFFER_SIZE
  BY <1>1, Layout, MachineNumbers
<1>3. Page \in Nat /\ Page > 1 /\ BUFFER_SIZE \in Nat /\ KeptSize \in Nat /\ KeptSize < Page
  BY MachineNumbers
<1>4. DOMAIN mem = 0 .. BUFFER_SIZE - 1 /\ (~Small => sp = Page - KeptSize)
  BY <1>1 DEF MachineInv, DepackInv
<1>5. ASSUME NEW x \in 0 .. Page PROVE mem'[x] = mem[x]
  <2>1. x \in 0 .. BUFFER_SIZE - 1
    BY <1>2, <1>3
  <2>2. CASE Small
    BY <1>1, <2>2 DEF Pushed
  <2>3. CASE ~Small
    <3>1. x # Page + sp /\ mem' = [mem EXCEPT ![Page + sp] = Port]
      BY <1>1, <1>3, <1>4, <2>3 DEF Pushed
    <3>2. QED
      BY <1>4, <2>1, <3>1
  <2>4. QED
    BY <2>2, <2>3
<1>6. QED
  BY <1>1, <1>5, ZeroPageKept

(* The lowest page that is moved to is above the stack. *)
LEMMA MoveZeroPage ==
  ASSUME IInv, SfxTested, SfxWritten, MachineInv, ZeroPageInv, Move PROVE ZeroPageInv'
<1> DEFINE i == (y - 1) % Page
           moved == mem[(src + i) % BUFFER_SIZE]
<1>1. /\ UNCHANGED compressVars /\ output.state = "sfx" /\ cpu = "move"
      /\ cpu' \in {"move", "unpack"} /\ mem' = [mem EXCEPT ![dst + i] = moved]
  BY DEF Move, SfxWritten
<1>2. /\ Page \in Nat /\ Page > 1 /\ BUFFER_SIZE \in Nat /\ Pages \in Nat
      /\ Pages * Page = BUFFER_SIZE
  BY MachineNumbers
<1>3. PagesMoved \in Nat /\ PagesMoved + 2 <= Pages
  BY <1>1, Paged
<1>4. /\ DOMAIN mem = 0 .. BUFFER_SIZE - 1 /\ y \in 0 .. Page - 1
      /\ \E j \in 1 .. PagesMoved : dst = BUFFER_SIZE - j * Page
  BY <1>1 DEF MachineInv, MoveInv
<1>5. i \in 0 .. Page - 1
  BY <1>2, <1>4, CountedDown
<1> HIDE DEF i, moved
<1>6. PICK j \in 1 .. PagesMoved : dst = BUFFER_SIZE - j * Page
  BY <1>4
<1>7. dst >= 2 * Page /\ dst \in Nat
  <2>1. j * Page <= (Pages - 2) * Page /\ j * Page \in Nat
    BY <1>2, <1>3
  <2>2. (Pages - 2) * Page = BUFFER_SIZE - 2 * Page
    BY <1>2
  <2>3. QED
    BY <1>2, <1>6, <2>1, <2>2
<1>8. ASSUME NEW x \in 0 .. Page PROVE mem'[x] = mem[x]
  <2>1. x # dst + i /\ x \in 0 .. BUFFER_SIZE - 1
    BY <1>2, <1>5, <1>6, <1>7
  <2>2. QED
    BY <1>1, <1>4, <2>1
<1>9. QED
  BY <1>1, <1>8, ZeroPageKept

(* What is called while a code is read does not push that far. *)
LEMMA CallsZeroPage ==
  ASSUME IInv, SfxTested, SfxWritten, MachineInv, ZeroPageInv, NextCommand \/ LzEof
  PROVE  ZeroPageInv'
<1>1. /\ UNCHANGED compressVars /\ cpu = "unpack"
      /\ cpu' \in {"unpack", "restore", "run", "crash"} /\ (cpu' = "run" => Small)
      /\ mem' = CallsInto(mem) \/ mem' = mem
  BY DEF NextCommand, LzEof
<1>2. output.state = "sfx" /\ DOMAIN mem = 0 .. BUFFER_SIZE - 1 /\ KeptOnStack
  BY <1>1 DEF MachineInv, UnpackInv, SfxWritten
<1>3. /\ StreamAt \in Nat /\ StreamAt > 2 * Page /\ ctx.packed_size \in Nat
      /\ StreamAt + ctx.packed_size <= BUFFER_SIZE
  <2>1. output.state = "sfx"
    BY <1>2
  <2>2. QED
    BY <2>1, Layout, MachineNumbers
<1>4. /\ Page \in Nat /\ Page > 1 /\ BUFFER_SIZE \in Nat /\ KeptSize \in Nat
      /\ StackUse \in Nat /\ KeptSize + StackUse < Page
  BY MachineNumbers, SfxAssumption
<1>5. ASSUME NEW x \in 0 .. Page PROVE mem'[x] = mem[x]
  <2>1. x \in 0 .. BUFFER_SIZE - 1
    BY <1>3, <1>4
  <2>2. ~Small => ~(x > Page + sp - StackUse)
    BY <1>2, <1>4 DEF KeptOnStack
  <2>3. CallsInto(mem)[x] = mem[x]
    BY <1>2, <2>1, <2>2 DEF CallsInto
  <2>4. QED
    BY <1>1, <2>3
<1>6. QED
  BY <1>1, <1>2, <1>5, ZeroPageKept

(* The output is above the stack, and ends in memory. *)
LEMMA CopyZeroPage ==
  ASSUME IInv, SfxTested, SfxWritten, MachineInv, ZeroPageInv, CopyByte PROVE ZeroPageInv'
<1> DEFINE put == IF stream.commands[command].literal => Arrived(1)
                  THEN Data(ctx.data + (dst - ctx.orig_addr))
                  ELSE <<"wrong", dst - ctx.orig_addr>>
<1>1. /\ UNCHANGED compressVars /\ cpu = "unpack" /\ cpu' = cpu /\ left > 0
      /\ mem' = [mem EXCEPT ![dst % BUFFER_SIZE] = put]
  BY DEF CopyByte
<1> HIDE DEF put
<1>2. /\ output.state = "sfx" /\ DOMAIN mem = 0 .. BUFFER_SIZE - 1
      /\ command \in 0 .. Len(stream.commands) /\ left \in Nat
      /\ (IF command = 0 THEN left = 0 ELSE left <= stream.commands[command].length)
      /\ dst = ctx.orig_addr + Given(stream, command) - left
  BY <1>1 DEF MachineInv, UnpackInv, SfxWritten
<1>3. /\ ctx.orig_addr \in Nat /\ ctx.orig_addr >= 2 * Page /\ ctx.unpacked_size \in Nat
      /\ ctx.orig_addr + ctx.unpacked_size <= BUFFER_SIZE
  BY <1>2, Layout
<1>4. Page \in Nat /\ Page > 1 /\ BUFFER_SIZE \in Nat \ {0}
  BY MachineNumbers
<1> DEFINE given == Given(stream, command)
<1>5. given \in Nat /\ given <= ctx.unpacked_size
  <2>1. stream \in Streams /\ Given(stream, Len(stream.commands)) = ctx.unpacked_size
    BY <1>2 DEF SfxWritten, SfxTested
  <2>2. QED
    BY <1>2, <2>1, StreamAssumption
<1>6. left <= given
  <2> DEFINE n == command - 1
             c == stream.commands[command]
             before == Given(stream, n)
  <2>1. command \in 1 .. Len(stream.commands) /\ left <= c.length
    BY <1>1, <1>2
  <2>2. c.length \in Nat /\ given = before + c.length
    BY <1>2, <2>1, Commanded
  <2>3. before \in Nat
    <3>1. n \in 0 .. Len(stream.commands)
      BY <2>1
    <3>2. QED
      BY <1>2, <3>1, Commanded
  <2> HIDE DEF c, before, given
  <2>4. QED
    BY <1>2, <2>1, <2>2, <2>3
<1> HIDE DEF given
<1>7. dst \in 0 .. BUFFER_SIZE - 1 /\ dst > Page
  <2>1. dst = ctx.orig_addr + given - left
    BY <1>2 DEF given
  <2>2. left \in Nat /\ left > 0
    BY <1>1, <1>2
  <2>3. dst >= ctx.orig_addr /\ dst < ctx.orig_addr + ctx.unpacked_size /\ dst \in Int
    BY <1>3, <1>5, <1>6, <2>1, <2>2
  <2>4. QED
    BY <1>3, <1>4, <2>3
<1>8. dst % BUFFER_SIZE = dst
  BY <1>4, <1>7, OwnRemainder
<1>9. ASSUME NEW x \in 0 .. Page PROVE mem'[x] = mem[x]
  <2>1. x \in 0 .. BUFFER_SIZE - 1 /\ x # dst
    BY <1>4, <1>7
  <2>2. QED
    BY <1>1, <1>2, <1>8, <2>1
<1>10. QED
  BY <1>1, <1>2, <1>9, ZeroPageKept

(* The last byte put back is the first of the code that does it. *)
LEMMA RestoreZeroPage ==
  ASSUME IInv, SfxTested, SfxWritten, MachineInv, ZeroPageInv, Restore PROVE ZeroPageInv'
<1> DEFINE x == (sp + 1) % Page
<1>1. /\ UNCHANGED compressVars /\ cpu = "restore"
      /\ mem' = [mem EXCEPT ![RestoreTo(x)] = mem[Page + x]]
      /\ cpu' = (IF x = 0 THEN "run" ELSE "restore")
  BY DEF Restore
<1>2. /\ output.state = "sfx" /\ DOMAIN mem = 0 .. BUFFER_SIZE - 1
      /\ ~Small /\ DecoderIn(KeptSize + 1)
      /\ sp \in Page - KeptSize - 1 .. Page - 1
  BY <1>1 DEF MachineInv, RestoreInv, SfxWritten
<1>3. Small' = Small /\ Size' = Size
  BY <1>1, Fixed
<1>4. /\ Page \in Nat /\ Page > 1 /\ BUFFER_SIZE \in Nat /\ BUFFER_SIZE >= 2 * Page
  BY <1>2, UnpackBounds
<1>5. /\ KeptSize \in Nat /\ KeptSize >= 1 /\ KeptSize < Size /\ Size \in 1 .. Page - 1
  BY <1>2, Layout, MachineNumbers
<1>6. AboveKept /\ BottomKept
  BY <1>1, <1>2 DEF ZeroPageInv
<1> HIDE DEF x
<1>7. CASE sp # Page - 1
  <2>1. x = sp + 1
    <3>1. sp + 1 \in 0 .. Page - 1 /\ Page \in Nat \ {0}
      BY <1>2, <1>4, <1>5, <1>7
    <3>2. QED
      BY <3>1, OwnRemainder DEF x
  <2>2. RestoreTo(x) \in 1 .. KeptSize
    <3>1. 1 - (Page - KeptSize) + x \in 1 .. KeptSize
      BY <1>2, <1>4, <1>5, <1>7, <2>1
    <3>2. 1 - (Page - KeptSize) + x \in 0 .. Page - 1 /\ Page \in Nat \ {0}
      BY <1>4, <1>5, <3>1
    <3>3. QED
      BY <3>1, <3>2, OwnRemainder DEF RestoreTo
  <2>3. \A z \in KeptSize + 1 .. Page : mem'[z] = mem[z]
    BY <1>1, <1>2, <1>4, <1>5, <2>2
  <2>4. AboveKept' /\ BottomKept'
    <3>1. \A z \in Size + 1 .. Page - 1 : z \in KeptSize + 1 .. Page
      BY <1>4, <1>5
    <3>2. Page \in KeptSize + 1 .. Page
      BY <1>4, <1>5
    <3>3. QED
      BY <1>3, <1>6, <2>3, <3>1, <3>2 DEF AboveKept, BottomKept
  <2>5. cpu' = "restore"
    BY <1>1, <1>2, <1>4, <1>5, <2>1
  <2>6. QED
    BY <2>4, <2>5 DEF ZeroPageInv
<1>8. CASE sp = Page - 1
  <2>1. x = 0
    BY <1>4, <1>8 DEF x
  <2>2. RestoreTo(x) = KeptSize + 1
    <3>1. KeptSize + 1 - Page \in -Page .. -1 /\ Page \in Nat \ {0}
      BY <1>4, <1>5
    <3>2. (KeptSize + 1 - Page) % Page = KeptSize + 1 - Page + Page
      BY <3>1, WrappedRemainder
    <3>3. 1 - (Page - KeptSize) + x = KeptSize + 1 - Page
      BY <1>4, <1>5, <2>1
    <3>4. KeptSize + 1 - Page + Page = KeptSize + 1
      BY <1>4, <1>5
    <3>5. QED
      BY <3>2, <3>3, <3>4 DEF RestoreTo
  <2>3. mem[Page + x] = Saved(KeptSize + 1)
    BY <1>4, <1>6, <2>1 DEF BottomKept
  <2>4. /\ mem'[KeptSize + 1] = Saved(KeptSize + 1)
        /\ \A z \in KeptSize + 2 .. Page : mem'[z] = mem[z]
    BY <1>1, <1>2, <1>4, <1>5, <2>2, <2>3
  <2>5. AboveKept'
    <3>1. \A z \in Size + 1 .. Page - 1 : z \in KeptSize + 2 .. Page
      BY <1>4, <1>5
    <3>2. QED
      BY <1>3, <1>6, <2>4, <3>1 DEF AboveKept
  <2>6. DecoderIn(KeptSize + 2)'
    <3>1. \A z \in KeptSize + 2 .. Size : z \in KeptSize + 2 .. Page /\ z \in KeptSize + 1 .. Size
      BY <1>4, <1>5
    <3>2. QED
      BY <1>2, <1>3, <2>4, <3>1 DEF DecoderIn
  <2>7. cpu' = "run"
    BY <1>1, <2>1
  <2>8. QED
    BY <2>4, <2>5, <2>6, <2>7 DEF ZeroPageInv
<1>9. QED
  BY <1>7, <1>8

-----------------------------------------------------------------------------
(***************************************************************************)
(* All together.  A step of the program happens with the machine off, a    *)
(* step of the machine leaves the program alone.                           *)
(***************************************************************************)
LEMMA QuietProgram ==
  ASSUME IInv, SfxTested, SfxWritten, UNCHANGED compressVars,
         cpu # "off" \/ output.state = "sfx" \/ cpu' = cpu
  PROVE  SfxTested' /\ SfxWritten'
<1>1. SfxTested' /\ output' = output /\ request' = request /\ pc' = pc
  BY Fixed
<1>2. QED
  BY <1>1 DEF SfxWritten

(* Before the loader there is no machine to speak of. *)
LEMMA MachineOff == ASSUME cpu' = "off" PROVE MachineInv' /\ ZeroPageInv'
  BY DEF MachineInv, BootInv, DepackInv, MoveInv, UnpackInv, RestoreInv, RunInv, ZeroPageInv

(* Nothing changes when nothing happens. *)
LEMMA QuietMachine ==
  ASSUME MachineInv, ZeroPageInv, UNCHANGED sfxVars PROVE MachineInv' /\ ZeroPageInv'
<1>1. /\ UNCHANGED compressVars
      /\ UNCHANGED <<cpu, mem, y, a, sp, src, dst, command, left>>
  BY DEF sfxVars, machineVars
<1>2. /\ UNCHANGED <<pc, request, ctx, stream, output>>
      /\ Small' = Small /\ Size' = Size /\ CodeAt' = CodeAt /\ StreamAt' = StreamAt
      /\ Top' = Top /\ PagesMoved' = PagesMoved /\ RomBehind' = RomBehind
  BY <1>1, Fixed
<1>3. /\ Front' = Front /\ Position' = Position /\ InLiterals' = InLiterals
  BY <1>1, <1>2 DEF Front, Position, InLiterals
<1>4. BootInv' /\ DepackInv'
  BY <1>1, <1>2 DEF MachineInv, BootInv, DepackInv, StreamIn, DecoderIn, StackSaved, StackOf
<1>5. KeptOnStack' = KeptOnStack /\ DecoderIn(1)' = DecoderIn(1)
  BY <1>1, <1>2 DEF KeptOnStack, StackSaved, StackOf, DecoderIn
<1>6. MoveInv'
  BY <1>1, <1>2, <1>3, <1>5 DEF MachineInv, MoveInv
<1>7. UnpackInv'
  <2>1. Given(stream, command)' = Given(stream, command)
        /\ Taken(stream, command)' = Taken(stream, command)
    BY <1>1, <1>2
  <2>2. Unpacked(dst - ctx.orig_addr)' = Unpacked(dst - ctx.orig_addr)
    BY <1>1, <1>2 DEF Unpacked
  <2>3. QED
    BY <1>1, <1>2, <1>3, <1>5, <2>1, <2>2 DEF MachineInv, UnpackInv
<1>8. RestoreInv' /\ RunInv'
  BY <1>1, <1>2 DEF MachineInv, RestoreInv, RunInv, Unpacked, DecoderIn, StackSaved, StackOf,
     PutBack
<1>9. ZeroPageInv'
  BY <1>1, <1>2 DEF ZeroPageInv, AboveKept, BottomKept, DecoderIn
<1>10. QED
  BY <1>1, <1>2, <1>4, <1>6, <1>7, <1>8, <1>9 DEF MachineInv

RunsInv == IInv /\ SfxTested /\ SfxWritten /\ MachineInv /\ ZeroPageInv

(* The invariant holds at first and is kept. *)
LEMMA InitRuns == Init => RunsInv
<1> SUFFICES ASSUME Init PROVE RunsInv
  OBVIOUS
<1>1. cpu = "off"
  BY DEF Init
<1>2. MachineInv /\ ZeroPageInv
  BY <1>1 DEF MachineInv, BootInv, DepackInv, MoveInv, UnpackInv, RestoreInv, RunInv, ZeroPageInv
<1>3. QED
  BY <1>2, InitIInv, InitSfxTested DEF RunsInv

LEMMA NextRuns == ASSUME RunsInv, [Next]_sfxVars PROVE RunsInv'
<1>1. IInv /\ SfxTested /\ SfxWritten /\ MachineInv /\ ZeroPageInv
  BY DEF RunsInv
<1>2. IInv'
  BY <1>1, NextIInv
<1>3. CASE Compressing
  <2>1. CompressNext /\ UNCHANGED machineVars
    BY <1>3 DEF Compressing
  <2>2. QED
    BY <1>1, <1>2, <2>1, CompressSfxTested, CompressBeforeRun, MachineOff DEF RunsInv
<1>4. CASE WriteSfx
  <2>1. SfxTested' /\ SfxWritten' /\ cpu' = "off"
    BY <1>1, <1>4, WriteSfxTested
  <2>2. QED
    BY <1>2, <2>1, MachineOff DEF RunsInv
<1>5. CASE Load \/ Boot \/ Depack \/ Move \/ NextCommand \/ CopyByte \/ LzEof \/ Restore
  <2>1. UNCHANGED compressVars /\ (cpu # "off" \/ output.state = "sfx")
    BY <1>5 DEF Load, Boot, Depack, Move, NextCommand, CopyByte, LzEof, Restore
  <2>2. SfxTested' /\ SfxWritten'
    BY <1>1, <2>1, QuietProgram
  <2>3. MachineInv'
    BY <1>1, <1>5, LoadStep, BootStep, DepackStep, MoveStep, CommandStep, CopyStep, EofStep,
       RestoreStep
  <2>4. ZeroPageInv'
    BY <1>1, <1>5, LoadZeroPage, BootZeroPage, DepackZeroPage, MoveZeroPage, CallsZeroPage,
       CopyZeroPage, RestoreZeroPage
  <2>5. QED
    BY <1>2, <2>2, <2>3, <2>4 DEF RunsInv
<1>6. CASE UNCHANGED sfxVars
  <2>1. UNCHANGED compressVars /\ cpu' = cpu
    BY <1>6 DEF sfxVars, machineVars
  <2>2. SfxTested' /\ SfxWritten'
    BY <1>1, <2>1, QuietProgram
  <2>3. MachineInv' /\ ZeroPageInv'
    BY <1>1, <1>6, QuietMachine
  <2>4. QED
    BY <1>2, <2>2, <2>3 DEF RunsInv
<1>7. QED
  BY <1>3, <1>4, <1>5, <1>6 DEF Next

(***************************************************************************)
(* The run of every accepted file, from the loader to the program's entry, *)
(* keeps the inductive invariant.                                          *)
(***************************************************************************)
THEOREM RunsInvariant == Spec => []RunsInv
<1>1. RunsInv /\ [Next]_sfxVars => RunsInv'
  BY NextRuns
<1>2. QED
  BY <1>1, InitRuns, PTL DEF Spec

(***************************************************************************)
(* The decoder gets going, unless it lies under the ROM behind the bytes   *)
(* that are tested; and afterwards nothing stops it.                       *)
(***************************************************************************)
THEOREM CrashesExplained == Spec => []CrashesOnlyBehindBoot
<1>1. RunsInv => CrashesOnlyBehindBoot
  BY DEF RunsInv, MachineInv, CrashesOnlyBehindBoot, RomBehind
<1>2. QED
  BY <1>1, RunsInvariant, PTL

(***************************************************************************)
(* Neither the move nor the output nor the stack gets at the decoder, and  *)
(* putting zero page back leaves the code that does it.                    *)
(***************************************************************************)
THEOREM DecoderWhole == Spec => []DecoderStaysWhole
<1>1. RunsInv => DecoderStaysWhole
  BY DEF RunsInv, MachineInv, DepackInv, MoveInv, UnpackInv, RestoreInv, DecoderIn, Size,
     DecoderStaysWhole
<1>2. QED
  BY <1>1, RunsInvariant, PTL

(***************************************************************************)
(* While unpacking, the unread part of the stream is in its place.         *)
(***************************************************************************)
THEOREM UnreadWhole == Spec => []UnreadStaysWhole
<1>1. RunsInv => UnreadStaysWhole
  BY DEF RunsInv, MachineInv, UnpackInv, Top, UnreadStaysWhole
<1>2. QED
  BY <1>1, RunsInvariant, PTL

(***************************************************************************)
(* When the program is entered, every byte asked for is at its address.    *)
(***************************************************************************)
THEOREM SfxRestored == Spec => []SfxRestores
<1>1. RunsInv => SfxRestores
  <2> SUFFICES ASSUME RunsInv, cpu = "run", NEW x \in Between(request.from, request.to)
               PROVE  mem[x] = Data(ByteOf(x))
    BY DEF SfxRestores
  <2>1. IInv /\ request.sfx /\ pc = "written" /\ ctx.orig_addr = ctx.range_from
        /\ Unpacked(ctx.unpacked_size)
    BY DEF RunsInv, MachineInv, RunInv, SfxWritten, SfxTested
  <2>2. Settled
    BY <2>1 DEF Settled
  <2>3. x \in ctx.range_from .. ctx.range_to - 1 /\ ctx.range_from \in Int /\ ctx.range_to \in Int
    BY <2>1, <2>2, RangeOfRequest
  <2>4. ctx.data = ByteOf(ctx.range_from) /\ ctx.unpacked_size = ctx.range_to - ctx.range_from
    BY <2>1, <2>2 DEF IInv, Payload
  <2> DEFINE k == x - ctx.range_from
  <2>5. k \in 0 .. ctx.unpacked_size - 1 /\ ctx.orig_addr + k = x
    BY <2>1, <2>3, <2>4
  <2>6. ctx.data + k = ByteOf(x)
    <3>1. ImageStart \in Int
      BY <2>1, RequestType DEF IInv, FileTypes
    <3>2. QED
      BY <2>3, <2>4, <3>1 DEF ByteOf
  <2> HIDE DEF k
  <2>7. mem[ctx.orig_addr + k] = Data(ctx.data + k)
    BY <2>1, <2>5 DEF Unpacked
  <2>8. QED
    BY <2>5, <2>6, <2>7
<1>2. QED
  BY <1>1, RunsInvariant, PTL

(***************************************************************************)
(* Then, but for --small, every byte of zero page is the one that was      *)
(* there before, but for $01, which is what --01 says, and the code that   *)
(* put the others back; and the stack is empty.                            *)
(***************************************************************************)
THEOREM ZeroPagePutBack == Spec => []ZeroPageButForExit
<1>1. RunsInv => ZeroPageButForExit
  <2> SUFFICES ASSUME RunsInv, cpu = "run", ~Small
               PROVE  /\ \A x \in 0 .. Page - 1 :
                           mem[x] = IF x = 1 THEN Port
                                    ELSE IF x \in KeptSize + 2 .. CodeSize(FALSE) THEN Code(x)
                                    ELSE Saved(x)
                      /\ sp = Page - 1
    BY DEF ZeroPageButForExit
  <2>1. /\ mem[0] = Saved(0) /\ PutBack(KeptSize) /\ sp = Page - 1
        /\ AboveKept /\ mem[KeptSize + 1] = Saved(KeptSize + 1) /\ DecoderIn(KeptSize + 2)
        /\ output.state = "sfx"
    BY DEF RunsInv, MachineInv, RunInv, ZeroPageInv, SfxWritten
  <2>2. Small = FALSE /\ Size = CodeSize(FALSE)
    <3>1. Small \in BOOLEAN
      BY <2>1, Layout DEF RunsInv
    <3>2. QED
      BY <3>1 DEF Size
  <2>3. KeptSize \in Nat /\ KeptSize >= 1 /\ KeptSize < Size /\ Size \in 1 .. Page - 1
    BY <2>1, Layout, MachineNumbers DEF RunsInv
  <2>4. Page \in Nat
    BY MachineNumbers
  <2>5. ASSUME NEW x \in 0 .. Page - 1
        PROVE  mem[x] = IF x = 1 THEN Port
                        ELSE IF x \in KeptSize + 2 .. Size THEN Code(x) ELSE Saved(x)
    <3>1. \/ x = 0 \/ x = 1 \/ x \in 2 .. KeptSize \/ x = KeptSize + 1
          \/ x \in KeptSize + 2 .. Size \/ x \in Size + 1 .. Page - 1
      BY <2>3, <2>4
    <3>2. /\ 0 \notin KeptSize + 2 .. Size /\ KeptSize + 1 \notin KeptSize + 2 .. Size
          /\ KeptSize + 1 # 1 /\ \A z \in KeptSize + 2 .. Size : z # 1
      BY <2>3
    <3>3. CASE x \in KeptSize + 2 .. Size
      BY <2>1, <3>2, <3>3 DEF DecoderIn
    <3>4. CASE x \in 2 .. KeptSize
      <4>1. x # 1 /\ x \notin KeptSize + 2 .. Size
        BY <2>3, <3>4
      <4>2. QED
        BY <2>1, <3>4, <4>1 DEF PutBack
    <3>5. CASE x \in Size + 1 .. Page - 1
      <4>1. x # 1 /\ x \notin KeptSize + 2 .. Size
        BY <2>3, <3>5
      <4>2. QED
        BY <2>1, <3>5, <4>1 DEF AboveKept
    <3>6. CASE x = 1
      BY <2>1, <2>3, <3>6 DEF PutBack
    <3>7. CASE x = 0 \/ x = KeptSize + 1
      BY <2>1, <2>3, <3>2, <3>7
    <3>8. QED
      BY <3>1, <3>3, <3>4, <3>5, <3>6, <3>7
  <2>6. QED
    BY <2>1, <2>2, <2>5
<1>2. QED
  BY <1>1, RunsInvariant, PTL
=============================================================================
