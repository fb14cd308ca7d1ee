---------------------------- MODULE MCOptimizer ----------------------------
(***************************************************************************)
(* All windows of TextLength over Letters with settings as ample as the    *)
(* baseline is for longer ones, and with limits that are met.              *)
(***************************************************************************)
EXTENDS Optimizer

CONSTANTS TextLength, Letters

IndexTags == <<0, 9, 3, 13, 7, 1, 11, 5, 15, 8, 2, 12, 6, 0, 10, 4>>
MCTag(index) == IndexTags[index + 1]

MCInputs == {w \in [text : [1 .. TextLength -> Letters], dictionary : {0, 2}] : w.text[1] = 0}

Ample ==
  [max_arrivals_per_position |-> 12, forward_arrivals |-> 8,
   forward_repeat_depth |-> 9, exhaustive_length_threshold |-> 16,
   enable_long_match_early_break |-> TRUE, long_match_break_threshold |-> 32,
   remaining_match_threshold |-> 16, initial_supplement_matches |-> 2,
   supplement_trigger_length |-> 8, supplement_match_length_limit |-> 15,
   forward_insert_limit |-> 10, forward_search_distance |-> 3]

Tight ==
  [Ample EXCEPT
     !.max_arrivals_per_position = 3, !.forward_arrivals = 2,
     !.forward_repeat_depth = 1, !.exhaustive_length_threshold = 3,
     !.long_match_break_threshold = 4, !.remaining_match_threshold = 3,
     !.initial_supplement_matches = 1, !.supplement_match_length_limit = 4,
     !.forward_insert_limit = 1]

MCSettings == {Ample, Tight}

-----------------------------------------------------------------------------
(* All parses of the rest of the window, by the cost of the cheapest. *)
MatchesAt(p, last, literals) ==
  {n \in [length : 1 .. end - p, offset : 1 .. p] :
     /\ CorrectMatch(window, p, n)
     /\ n.length >= 2 \/ (n.offset = last /\ literals > 0)}

CommandBits(n, last, literals) ==
  TokenCost + (IF n.offset = last /\ literals > 0
               THEN salvador_get_match_varlen_size_rep(n.length)
               ELSE OffsetBits(n.offset) + salvador_get_match_varlen_size_norep(n.length))

RECURSIVE LeastCost(_, _, _)
LeastCost(p, last, literals) ==
  IF p = end THEN 0
  ELSE Min({ByteBits + RunBits(literals + 1) - RunBits(literals)
              + LeastCost(p + 1, last, literals + 1)}
           \cup {CommandBits(n, last, literals) + LeastCost(p + n.length, n.offset, 0) :
                   n \in IF p = start THEN {} ELSE MatchesAt(p, last, literals)})

(***************************************************************************)
(* "Attempt to pick optimal matches, so as to produce the smallest         *)
(* possible output that decompresses to the same input" (the comment of    *)
(* salvador_optimize_forward): if no limit of the search is met, no parse  *)
(* is smaller than the one it leaves, though the match finder lists only   *)
(* the nearest match of each length, a slot is kept only for each last     *)
(* offset, and a repetition must have been inserted to be found.           *)
(***************************************************************************)
SmallestPossible ==
  Traced /\ search = Ample => arrival[end][1].cost = LeastCost(start, 1, 0)

=============================================================================
