--------------------------- MODULE MCInplaceBroken --------------------------
(***************************************************************************)
(* One file of twenty bytes, EABCDADADACAFAAHAGAF, and the matches that    *)
(* kcrunch --inplace finds in it with its default profile.                 *)
(***************************************************************************)
EXTENDS Inplace

Text == <<69, 65, 66, 67, 68, 65, 68, 65, 68, 65, 67, 65, 70, 65, 65, 72, 65, 71, 65, 70>>

MCWindows == {[text |-> Text, dictionary |-> 0]}

(* The position, the length and the offset of each match. *)
BestMatch == { <<6, 4, 2>>, <<11, 1, 2>>, <<13, 1, 2>>, <<16, 1, 2>>, <<18, 2, 7>> }

(* The writer follows them: no match where there is none, no other one.    *)
FollowsBestMatch ==
  LET here == {b \in BestMatch : b[1] = i}
  IN  wpc = "loop" /\ i < Len(window) =>
        IF here = {}
        THEN wpc' = "loop"
        ELSE \A b \in here : match' = [length |-> b[2], offset |-> b[3]]

FoundSpec == InplaceInit /\ [][InplaceNext /\ ~dali' /\ FollowsBestMatch]_inplaceVars
=============================================================================
