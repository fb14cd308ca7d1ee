------------------------------ MODULE MCDecode ------------------------------
(***************************************************************************)
(* The decoder on every short stream of two-bit bytes, and on the long     *)
(* streams that run into the overflow of a length, the capacity of the     *)
(* output and the longest rotated length.                                  *)
(***************************************************************************)
EXTENDS Decode

CONSTANTS MaxStream, MaxZeros

MCStreams ==
  UNION {[1 .. n -> Byte] : n \in 0 .. MaxStream}
    \cup {[k \in 1 .. n |-> 0] : n \in 1 .. MaxZeros}
    \cup {[k \in 1 .. n |-> IF k = 3 THEN last ELSE k % ByteValues]
            : n \in 4 .. MaxZeros, last \in Byte}
=============================================================================
