------------------------------ MODULE Roundtrip ------------------------------
(***************************************************************************)
(* From the input to the C64: what --verify has accepted, or what the      *)
(* KickAssembler plugin (KABUTO.java) made of a program's memory blocks,   *)
(* is unpacked by the 6502.  The plugin's encoder is a port of the writer  *)
(* in BlockWriter; it does not verify.                                     *)
(***************************************************************************)
EXTENDS Verify, Dcrunch, SequencesExt

CONSTANTS
  Programs,    \* what the plugin is called with: lists of blocks
  Builds       \* [source, target, fast]: places of file and output, and the decoder's build

Block == [address : Int, bytes : Seq(Byte)]

ASSUME RoundtripAssumption ==
  /\ Programs \subseteq Seq(Block)
  /\ \A b \in Builds :
       b.source \in Nat /\ b.target \in 0 .. MAX_VARLEN /\ b.fast \in BOOLEAN

VARIABLES
  blocks,     \* of the plugin's call, or none
  target      \* where the output belongs

roundtripVars == <<verifyVars, machineVars, blocks, target>>

-----------------------------------------------------------------------------
(***************************************************************************)
(* KABUTO.merge: one image, from the lowest address to behind the highest. *)
(* Blocks may touch and leave gaps, which are zero, but not overlap.       *)
(***************************************************************************)
End(block) == block.address + Len(block.bytes)

WithData(list) == SelectSeq(list, LAMBDA b : b.bytes # <<>>)

Sorted(list) == SortSeq(WithData(list), LAMBDA b, c : b.address < c.address)

MergeRefused(list) ==
  \/ \E k \in DOMAIN list :
       list[k].address \notin 0 .. MAX_VARLEN \/ End(list[k]) > MAX_VARLEN + 1
  \/ Sorted(list) = <<>>
  \/ \E k \in 2 .. Len(Sorted(list)) : Sorted(list)[k].address < End(Sorted(list)[k - 1])
  \/ End(Last(Sorted(list))) - Head(Sorted(list)).address > MAX_VARLEN

(* System.arraycopy into a new array, which is zero. *)
Merged(list) ==
  LET from == Head(Sorted(list)).address
      BlockAt(a) == {k \in DOMAIN list : a \in list[k].address .. End(list[k]) - 1}
  IN  [address |-> from,
       bytes |-> [n \in 1 .. End(Last(Sorted(list))) - from |->
                    LET covering == BlockAt(from + n - 1)
                    IN  IF covering = {} THEN 0
                        ELSE LET b == list[CHOOSE k \in covering : TRUE]
                             IN  b.bytes[from + n - b.address]]]

-----------------------------------------------------------------------------
(* KABUTO.execute: merge, compress, and put the address in front. *)
execute == \E list \in Programs, format \in BOOLEAN :
  /\ phase = "start"
  /\ blocks' = list
  /\ IF MergeRefused(list)
     THEN phase' = "refused" /\ UNCHANGED <<original, target, vars>>
     ELSE /\ phase' = "plugin"
          /\ original' = Merged(list).bytes
          /\ target' = Merged(list).address
          /\ salvador_compress(original', 0, format)
  /\ UNCHANGED <<decoderVars, damaged, machineVars>>

(***************************************************************************)
(* do_compress without --verify puts the dictionary in front of the        *)
(* payload.  What it makes is not unpacked here.                           *)
(***************************************************************************)
do_compress == \E w \in Windows, format \in BOOLEAN :
  /\ phase = "start"
  /\ phase' = "prefixed"
  /\ salvador_compress(w.text, w.dictionary, format)
  /\ UNCHANGED <<original, decoderVars, damaged, machineVars, blocks, target>>

Encode ==
  /\ phase \in {"plugin", "prefixed"}
  /\ WriteStep
  /\ UNCHANGED <<original, phase, decoderVars, damaged, machineVars, blocks, target>>

EncodingFailed ==
  /\ phase \in {"plugin", "prefixed"} /\ wpc = "failed"
  /\ phase' = "refused"
  /\ UNCHANGED <<original, vars, decoderVars, damaged, machineVars, blocks, target>>

Verifying == VerifyNext /\ UNCHANGED <<machineVars, blocks, target>>

(* The address goes in front, high byte first, and the decoder of the      *)
(* stream's format is called with it.                                      *)
File_LowFirst(address, data) ==    \* mutant: as the command line writes it
  <<address % ByteValues, address \div ByteValues>> \o data

File(address, data) == <<address \div ByteValues, address % ByteValues>> \o data

RunVerified == \E b \in Builds :
  /\ phase = "verified"
  /\ target' = b.target
  /\ decrunch(File(b.target, packed), b.source, dali_mode, b.fast)
  /\ UNCHANGED <<verifyVars, blocks>>

RunProgram == \E b \in Builds :
  /\ phase = "plugin" /\ wpc = "written"
  /\ decrunch(File(target, stream.data), b.source, dali, b.fast)
  /\ UNCHANGED <<verifyVars, blocks, target>>

Running == MachineStep /\ UNCHANGED <<verifyVars, blocks, target>>

RoundtripInit == VerifyInit /\ MachineInit /\ blocks = <<>> /\ target = 0

RoundtripNext ==
  \/ Verifying \/ execute \/ do_compress \/ Encode \/ EncodingFailed
  \/ RunVerified \/ RunProgram \/ Running

(* The programs and the machine each go on once they are started.          *)
RoundtripSpec ==
  /\ RoundtripInit /\ [][RoundtripNext]_roundtripVars
  /\ WF_verifyVars(Step) /\ WF_machineVars(MachineStep)

-----------------------------------------------------------------------------
Images == {Merged(p).bytes : p \in {q \in Programs : ~MergeRefused(q)}}

Machine == INSTANCE Unpacking WITH
  Texts   <- Originals \cup Images,
  text    <- IF cpu.pc = "off" THEN <<>> ELSE original,
  damaged <- FALSE,
  got     <- [k \in 1 .. stored |-> ram[target + k - 1]],
  verdict <- CASE cpu.pc = "off" -> "none" [] cpu.pc = "rts" -> "ok" [] OTHER -> "running"

(***************************************************************************)
(* On every stream, in either format and build and wherever file and       *)
(* output lie on their pages, the 6502 gets the original: it is stored     *)
(* once and in order, is a beginning of it at every store, and is all of   *)
(* it when the decoder returns, as it does.                                *)
(***************************************************************************)
MachineUnpacks == Machine!Spec

(***************************************************************************)
(* When the decoder returns, every byte of every block of the program is   *)
(* at its address, in whatever order the blocks were written and however   *)
(* near they are to the end of memory; gaps are zero and what is behind    *)
(* and before them is as it was.                                           *)
(***************************************************************************)
BlocksRestored ==
  cpu.pc = "rts" /\ blocks # <<>> =>
    LET bytes(k)  == blocks[k].address .. End(blocks[k]) - 1
        taken     == UNION {bytes(k) : k \in DOMAIN blocks}
    IN  /\ \A k \in DOMAIN blocks :
             \A a \in bytes(k) : ram[a] = blocks[k].bytes[a - blocks[k].address + 1]
        /\ \A a \in 0 .. MAX_VARLEN \ taken :
             ram[a] = IF a > Min(taken) /\ a < Max(taken) THEN 0 ELSE Unused
=============================================================================
