----------------------------- MODULE Optimizer -----------------------------
(***************************************************************************)
(* One block, salvador_compressor_shrink_block: the match finder fills the *)
(* lists of matches, the parser turns them into a table of commands, the   *)
(* reduction rewrites the table for the writer.  They run one behind the   *)
(* other and share the window, the lists and the table.                    *)
(***************************************************************************)
EXTENDS Parser

CONSTANTS Inputs, Tags, Tag(_), ReductionPasses

VARIABLES
  intervals, pos_data, open_intervals, next_interval_idx,       \* match finder
  r, ref, super_ref, prev_pos, match_pos, found, phase,
  i, num_literals, rep_offset, next_index, next_literals,       \* reduction
  did_reduce, passes, step

finderVars ==
  <<intervals, pos_data, open_intervals, next_interval_idx, r, ref, super_ref, prev_pos,
    match_pos, found, phase>>
parserVars == <<search, arrival, visited, second, stage, pos, tried, calls>>
reduceVars ==
  <<i, num_literals, rep_offset, next_index, next_literals, did_reduce, passes, step>>
vars == <<window, start, dali, match, best, finderVars, parserVars, reduceVars>>

Finder == INSTANCE MatchFinder
Reduce == INSTANCE ReduceCommands WITH Parses <- {}

Init == Finder!Init /\ Ready /\ Reduce!Ready

FindMatches   == Finder!Next /\ UNCHANGED <<dali, best, parserVars, reduceVars>>
PickMatches   == phase = "done" /\ Parse /\ UNCHANGED <<finderVars, reduceVars>>
ReduceMatches == /\ stage = "parsed" /\ Reduce!Next
                 /\ UNCHANGED <<match, finderVars, parserVars>>

Next == FindMatches \/ PickMatches \/ ReduceMatches

Spec == Init /\ [][Next]_vars /\ WF_vars(Next)

-----------------------------------------------------------------------------

(* Searching, parsing with its forward insertions, and reducing come to an end. *)
Terminates == <>(step = "done")
=============================================================================
