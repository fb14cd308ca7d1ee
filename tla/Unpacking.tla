----------------------------- MODULE Unpacking -----------------------------
(***************************************************************************)
(* What a packed file promises to whoever unpacks it: the bytes come out   *)
(* in order and are those of the original at every moment; a whole file    *)
(* gives the whole original, and a file that lost its end is reported.     *)
(***************************************************************************)
EXTENDS Naturals, Sequences

CONSTANT Texts    \* the originals

VARIABLES
  text,      \* the original that was packed
  damaged,   \* whether the packed file lost its end
  got,       \* what has been unpacked so far
  verdict    \* "none" before the unpacking, "running", then "ok" or "rejected"

vars == <<text, damaged, got, verdict>>

Init == text = <<>> /\ damaged = FALSE /\ got = <<>> /\ verdict = "none"

Start == \E t \in Texts, d \in BOOLEAN :
  /\ verdict = "none"
  /\ text' = t /\ damaged' = d
  /\ verdict' = "running"
  /\ UNCHANGED got

Produce ==
  /\ verdict = "running"
  /\ \E n \in Len(got) + 1 .. Len(text) : got' = SubSeq(text, 1, n)
  /\ UNCHANGED <<text, damaged, verdict>>

Accept ==
  /\ verdict = "running" /\ ~damaged /\ got = text
  /\ verdict' = "ok"
  /\ UNCHANGED <<text, damaged, got>>

Reject ==
  /\ verdict = "running" /\ damaged
  /\ verdict' = "rejected"
  /\ UNCHANGED <<text, damaged, got>>

Next == Start \/ Produce \/ Accept \/ Reject

Safe == Init /\ [][Next]_vars
Spec == Safe /\ WF_vars(Produce \/ Accept \/ Reject)
=============================================================================
