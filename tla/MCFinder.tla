------------------------------ MODULE MCFinder ------------------------------
EXTENDS MatchFinder

CONSTANTS TextLength, Letters

(* salvador_get_index_tag for the first positions. *)
IndexTags == <<0, 9, 3, 13, 7, 1, 11, 5, 15, 8, 2, 12, 6, 0, 10, 4>>
MCTag(index) == IndexTags[index + 1]

MCInputs == {w \in [text : [1 .. TextLength -> Letters], dictionary : {0, 3}] : w.text[1] = 0}
=============================================================================
