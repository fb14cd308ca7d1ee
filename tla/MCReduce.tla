------------------------------ MODULE MCReduce ------------------------------
(***************************************************************************)
(* Every table of matches a parser could leave for the texts of            *)
(* TextLength over Letters (all ways to take matches and repetitions), and *)
(* tables for the rewritings that need longer windows.                     *)
(***************************************************************************)
EXTENDS ReduceCommands

CONSTANTS TextLength, Letters

Texts == {t \in [1 .. TextLength -> Letters] : t[1] = 0}

MatchesAt(text, pos, last, literals) ==
  {n \in [length : 1 .. kc_limit_match_len_local(Len(text) - pos), offset : 1 .. pos] :
     /\ CorrectMatch(text, pos, n)
     /\ n.length >= 2 \/ (n.offset = last /\ literals > 0)}

RECURSIVE Tables(_, _, _, _, _)
Tables(text, pos, last, literals, table) ==
  IF pos = Len(text) THEN {table}
  ELSE Tables(text, pos + 1, last, literals + 1, table)
       \cup UNION {Tables(text, pos + n.length, n.offset, 0, [table EXCEPT ![pos] = n]) :
                     n \in MatchesAt(text, pos, last, literals)}

Parse(text, dictionary, matches) ==
  [text |-> text, dictionary |-> dictionary, dali |-> FALSE,
   best |-> matches @@ [p \in dictionary .. Len(text) - 1 |-> NoMatch]]

Short(text) ==
  {Parse(text, 0, b) : b \in Tables(text, 1, 1, 1, [p \in 0 .. Len(text) - 1 |-> NoMatch])}

Match(length, offset) == [length |-> length, offset |-> offset]

(* Bytes of their own, except where others are given. *)
Bytes(length, copies) == copies @@ [p \in 1 .. length |-> p]

(* A far match of two bytes and a repetition of one, not worth a token each. *)
FarPair ==
  Parse(Bytes(154, (145 :> 5) @@ (146 :> 6) @@ (151 :> 11) @@ (153 :> 23) @@ (154 :> 24)), 140,
        (144 :> Match(2, 140)) @@ (150 :> Match(1, 140)) @@ (152 :> Match(2, 130)))

(* A far match whose first two bytes are also where the next match copies from. *)
SharedStart ==
  Parse(Bytes(151, (110 :> 5) @@ (111 :> 6) @@ (114 :> 9) @@
                   (145 :> 5) @@ (146 :> 6) @@ (147 :> 7) @@ (149 :> 9) @@ (150 :> 115)), 140,
        (144 :> Match(3, 140)) @@ (148 :> Match(2, 35)))

(* A match between long runs, and a last byte that only it makes a repetition. *)
LongRuns ==
  Parse(Bytes(131, (65 :> 1) @@ (66 :> 2) @@ (131 :> 67)), 0,
        (64 :> Match(2, 64)) @@ (130 :> Match(1, 64)))

(* A match of two bytes, one of which the last offset repeats: it is cut   *)
(* to that, and then dropped in front of a run that is thought empty.      *)
CutAndDropped ==
  Parse(Bytes(146, [p \in {141, 142} |-> 2] @@ [p \in 143 .. 146 |-> 3]), 140,
        (141 :> Match(2, 140)) @@ (143 :> Match(3, 1)))

(* A far match and its repetition, which are dropped, and behind them a    *)
(* match that might have repeated them.                                    *)
DroppedAndRepeated ==
  Parse(Bytes(154, (142 :> 7) @@ (143 :> 8) @@ (147 :> 12) @@ (14 :> 24) @@ (15 :> 25) @@
                   (149 :> 24) @@ (150 :> 25) @@ (153 :> 83) @@ (154 :> 84)), 137,
        (141 :> Match(2, 135)) @@ (146 :> Match(1, 135)) @@
        (148 :> Match(2, 125)) @@ (152 :> Match(2, 70)))

StaleParses == {CutAndDropped}

MCParses == UNION {Short(t) : t \in Texts} \cup {FarPair, SharedStart, LongRuns} \cup
            {CutAndDropped, DroppedAndRepeated}
=============================================================================
