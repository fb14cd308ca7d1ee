------------------------------- MODULE Verify -------------------------------
(***************************************************************************)
(* kcrunch --verify (do_verify of kcrunch.c): the input is compressed, or  *)
(* its packed form is read from a file made earlier, then it is decoded by *)
(* the strict decoder and compared with the input.  The file may have lost *)
(* its end, as a copy that was interrupted does.                           *)
(*                                                                         *)
(* The module puts the writer and the decoder together; that it implements *)
(* Unpacking is the correctness of the stream format.                      *)
(***************************************************************************)
EXTENDS BlockWriter

CONSTANTS
  Originals,       \* the input files
  BUFFER_SIZE,     \* size of the output buffer, which the longest input fits
  MaxCut           \* bound: the bytes a packed file may have lost

ASSUME VerifyAssumption ==
  /\ Originals \subseteq Seq(Byte)
  /\ BUFFER_SIZE \in Nat /\ MAX_VARLEN <= BUFFER_SIZE
  /\ MaxCut \in Nat

VARIABLES
  original, phase,
  packed, output_cap, dali_mode, src_pos, bit_byte, bits_left, dst, state,
  last_offset, pc, use, value, marker, offset_high, offset,
  damaged                 \* whether the packed file lost its end

Decoder == INSTANCE Decode
             WITH Streams <- Seq(Byte), Capacities <- {BUFFER_SIZE}, Formats <- BOOLEAN

decoderVars == <<packed, output_cap, dali_mode, src_pos, bit_byte, bits_left, dst, state,
                 last_offset, pc, use, value, marker, offset_high, offset>>
verifyVars == <<original, phase, vars, decoderVars, damaged>>

VerifyInit ==
  original = <<>> /\ phase = "start" /\ damaged = FALSE /\ Init /\ Decoder!Init

(* The input is checked, then compressed without a dictionary. *)
Start == \E data \in Originals, format \in BOOLEAN :
  /\ phase = "start"
  /\ original' = data
  /\ IF Len(data) \in 1 .. MAX_VARLEN
     THEN phase' = "compress" /\ salvador_compress(data, 0, format)
     ELSE phase' = "refused" /\ UNCHANGED vars
  /\ UNCHANGED <<decoderVars, damaged>>

Compress ==
  /\ phase = "compress"
  /\ WriteStep
  /\ UNCHANGED <<original, phase, decoderVars, damaged>>

(***************************************************************************)
(* The stream is handed to the decoder; the compressor's state ends here.  *)
(***************************************************************************)
HandOver == \E cut \in 0 .. MaxCut :
  /\ phase = "compress" /\ wpc = "written"
  /\ cut < Len(stream.data)
  /\ phase' = "decode"
  /\ damaged' = (cut > 0)
  /\ Decoder!kc_decode_format(SubSeq(stream.data, 1, Len(stream.data) - cut),
                              BUFFER_SIZE, dali)
  /\ window' = <<>> /\ start' = 0 /\ dali' = FALSE /\ i' = 0
  /\ num_literals' = 0 /\ first' = TRUE /\ rep_offset' = 1
  /\ match' = NoneLeft /\ stream' = EmptyStream /\ wpc' = "idle"
  /\ UNCHANGED original

Decode ==
  /\ phase = "decode"
  /\ Decoder!DecodeStep
  /\ UNCHANGED <<original, phase, vars, damaged>>

(* Both verdicts end the program, with a failure status unless they agree. *)
Compare ==
  /\ phase = "decode" /\ pc \in Decoder!Final
  /\ phase' = IF pc = "ok" /\ dst = original THEN "verified" ELSE "failed"
  /\ UNCHANGED <<original, vars, decoderVars, damaged>>

CompressionFailed ==
  /\ phase = "compress" /\ wpc = "failed"
  /\ phase' = "refused"
  /\ UNCHANGED <<original, vars, decoderVars, damaged>>

Step == Compress \/ HandOver \/ Decode \/ Compare \/ CompressionFailed
VerifyNext == Start \/ Step

(* A sequential program: as long as a step is left, it is taken. *)
VerifySpec == VerifyInit /\ [][VerifyNext]_verifyVars /\ WF_verifyVars(Step)

-----------------------------------------------------------------------------
(* What of this is visible as the unpacking of a packed file. *)
Promise == INSTANCE Unpacking WITH
  Texts   <- Originals,
  text    <- IF phase = "decode" \/ pc \in Decoder!Final THEN original ELSE <<>>,
  got     <- dst,
  verdict <- CASE phase = "decode"   -> "running"
               [] phase = "verified" -> "ok"
               [] phase = "failed"   -> "rejected"
               [] OTHER              -> "none"

(***************************************************************************)
(* The writer and the strict decoder together keep the promise of a packed *)
(* file: whatever matches were chosen, the output is a beginning of the    *)
(* input at every step, a whole stream is accepted as the whole input, one *)
(* that lost its end is rejected, and one of the two is always reached.    *)
(***************************************************************************)
Unpacks == Promise!Spec
=============================================================================
