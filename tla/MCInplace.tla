----------------------------- MODULE MCInplace -----------------------------
(***************************************************************************)
(* With bytes of their real width: the length code on its own, and         *)
(* in-place decompression of short texts, with every choice of matches.    *)
(* (A narrower byte makes a control byte carry so few bits that no short   *)
(* text gets shorter by the two bytes needed.)                             *)
(***************************************************************************)
EXTENDS Inplace, Codec

CONSTANT Short

(* The short numbers, those around every power of two up to the longest    *)
(* run, and Dali's end of data.                                            *)
MCNumbers ==
  {n \in 1 .. Short \cup {2 ^ k + d : k \in 2 .. 16, d \in {-2, -1, 0, 1, 85}} :
     n <= MAX_VARLEN + 1}

MCTexts == {
  <<1, 1, 1, 1, 1, 1, 1>>,
  <<1, 1, 1, 1, 1, 1, 2, 2, 2, 2>>,
  <<1, 2, 1, 2, 1, 2, 1, 2>>,
  <<1, 2, 1, 2, 1, 2, 3, 2, 3>>,
  <<1, 2, 3, 4, 5, 1, 2, 3, 4, 5, 3, 6, 3, 4>>,
  <<5, 1, 2, 3, 4, 1, 4, 1, 4, 1, 3, 1, 6, 1, 1, 7, 1, 8, 1, 6>>,
  <<1, 2, 3, 4, 5, 2, 3, 4, 5, 2, 3, 1, 2, 3, 4, 6>>
}

MCWindows == {[text |-> t, dictionary |-> 0] : t \in MCTexts}

(* A behaviour is one of a number or one of a file. *)
OneNumber == wpc = "idle" /\ CodecNext /\ UNCHANGED inplaceVars
OneFile   == rpc = "idle" /\ InplaceNext /\ UNCHANGED codecVars

MCInit == CodecInit /\ InplaceInit
MCNext == OneNumber \/ OneFile

MCSpec == MCInit /\ [][MCNext]_<<codecVars, inplaceVars>>
=============================================================================
