--------------------------- MODULE ReduceCommands ---------------------------
(***************************************************************************)
(* salvador_reduce_commands of kc_shrink.c: passes over the table of       *)
(* matches that merge, shorten, replace, join and drop commands where the  *)
(* stream is estimated not to become longer.                               *)
(*                                                                         *)
(* One action per rewriting, in the order in which the code tries them at  *)
(* a position: extend a match to the literal before it; then for a match   *)
(* of two bytes or more, give it the offset of the match before, give it   *)
(* that of the match behind, drop it, join it with the next, drop it and   *)
(* the single byte behind; for a single byte, drop it.  step is the place  *)
(* in this list.                                                           *)
(***************************************************************************)
EXTENDS Parsing

CONSTANTS
  Parses,           \* what the parser hands over: [text, dictionary, dali, best]
  ReductionPasses   \* search.reduction_passes: 20

ASSUME ReduceAssumption ==
  /\ ReductionPasses \in Nat \ {0}
  /\ \A p \in Parses :
       /\ p.text \in Seq(Byte) /\ p.dictionary \in 0 .. Len(p.text) - 1
       /\ p.dali \in BOOLEAN
       /\ IsTable(p.text, p.dictionary, p.best)
       /\ SinglesApart(p.best)
       /\ \A q \in DOMAIN p.best :
            kc_limit_match_len_local(p.best[q].length) = p.best[q].length

VARIABLES
  window, start, dali,    \* pInWindow, nStartOffset, the format
  best,                   \* best_match
  i,                      \* position in the pass
  num_literals,           \* literals in front of i, after the last command
  rep_offset,             \* nRepMatchOffset
  next_index,             \* nNextIndex and nNextLiterals of the match at i, kept
  next_literals,          \*   while it is rewritten
  did_reduce, passes,     \* of this pass; passes completed
  step                    \* the rewriting to be tried next at i

place == <<i, num_literals, rep_offset>>
vars  == <<window, start, dali, best, place, next_index, next_literals,
           did_reduce, passes, step>>

end == Len(window)
m   == best[i]

(* Before the first pass over a table. *)
Ready ==
  /\ i = start + 1 /\ num_literals = 1 /\ rep_offset = 1
  /\ next_index = 0 /\ next_literals = 0
  /\ did_reduce = FALSE /\ passes = 0 /\ step = "visit"

Init ==
  /\ \E p \in Parses :
       window = p.text /\ start = p.dictionary /\ dali = p.dali /\ best = p.best
  /\ Ready

(* The first match at or behind a position, or the end. *)
NextMatch(pos) == Min({p \in pos .. end - 1 : best[p].length # 0} \cup {end})

RunBits(n)           == salvador_get_literals_varlen_size(n)
OffsetBits(o)        == kc_offset_bit_cost(o, dali)
NewBits(o, length)   == OffsetBits(o) + salvador_get_match_varlen_size_norep(length)
RepBits(length)      == salvador_get_match_varlen_size_rep(length)

(* A match repeats the last offset if there are literals before it. *)
MatchBits(offset, length, last, literals) ==
  IF offset = last /\ last # 0 /\ literals # 0
  THEN RepBits(length) ELSE NewBits(offset, length)

(* The table is changed, and the code goes on with the given rewriting. *)
Rewrite(table, then) ==
  /\ best' = table /\ did_reduce' = TRUE /\ step' = then
  /\ UNCHANGED <<window, start, dali, place, next_index, next_literals, passes>>

GoOn(then) ==
  /\ step' = then
  /\ UNCHANGED <<window, start, dali, best, place, next_index, next_literals,
                 did_reduce, passes>>

MoveTo(pos, literals, offset) ==
  /\ i' = pos /\ num_literals' = literals /\ rep_offset' = offset
  /\ step' = "visit"

(* The lengths at the given positions become 0; their offsets stay. *)
Cleared(positions) ==
  [p \in DOMAIN best |-> IF p \in positions THEN [best[p] EXCEPT !.length = 0] ELSE best[p]]

-----------------------------------------------------------------------------
(* A literal that the match behind it could have begun with. *)
MergeSaves ==
  LET n   == best[i + 1]
      now == RunBits(num_literals + 1) + ByteBits
             + MatchBits(n.offset, n.length, rep_offset, num_literals + 1)
      new == RunBits(num_literals)
             + MatchBits(n.offset, n.length + 1, rep_offset, num_literals)
  IN  new <= now

CanMerge ==
  /\ m.length = 0 /\ i + 1 < end
  /\ LET n == best[i + 1]
     IN  /\ n.length >= MIN_ENCODED_MATCH_SIZE /\ n.length < MAX_VARLEN
         /\ n.offset # 0 /\ i >= n.offset
         /\ i + n.length + 1 <= end
         /\ num_literals # 0 \/ n.offset # rep_offset
         /\ SameBytes(window, i, n.offset, n.length + 1)
  /\ MergeSaves

(* Mutant: the second match stays. *)
Merge_Twice ==
  /\ step = "visit" /\ i < end /\ CanMerge
  /\ Rewrite([best EXCEPT ![i] = [length |-> best[i + 1].length + 1,
                                  offset |-> best[i + 1].offset]], "visit")

Merge ==
  /\ step = "visit" /\ i < end /\ CanMerge
  /\ Rewrite([best EXCEPT
       ![i] = [length |-> kc_limit_match_len_local(best[i + 1].length + 1),
               offset |-> best[i + 1].offset],
       ![i + 1] = NoMatch], "visit")

CountLiteral ==
  /\ step = "visit" /\ i < end /\ ~CanMerge /\ m.length = 0
  /\ MoveTo(i + 1, num_literals + 1, rep_offset)
  /\ UNCHANGED <<window, start, dali, best, next_index, next_literals, did_reduce, passes>>

VisitMatch ==
  /\ step = "visit" /\ i < end /\ m.length # 0
  /\ next_index' = NextMatch(i + m.length)
  /\ next_literals' = next_index' - (i + m.length)
  /\ step' = IF m.length < MIN_ENCODED_MATCH_SIZE THEN "single"
             ELSE IF next_index' < end THEN "backward"    \* between other tokens
             ELSE "join"
  /\ UNCHANGED <<window, start, dali, best, place, did_reduce, passes>>

-----------------------------------------------------------------------------
(* A match of two bytes or more, with another behind next_literals. *)
next == best[next_index]

(* How far the bytes at the two offsets agree, up to the length of the match. *)
SharedLength(offset) ==
  Max({l \in 0 .. m.length :
         \A k \in 1 .. l : window[i + k - offset] = window[i + k - m.offset]})

(* Mutant: the rest is kept too. *)
Shortened_AsLong(offset, length) == [best EXCEPT ![i].offset = offset]

(* The match keeps its first bytes, with the offset; the rest are literals. *)
Shortened(offset, length) ==
  [Cleared(i + length .. i + m.length - 1) EXCEPT
     ![i] = [length |-> kc_limit_match_len_local(length), offset |-> offset]]


(* Literals behind the match after it was cut to a length, with their bytes. *)
CutBits(length) ==
  ByteBits * (m.length - length) + RunBits(next_literals + m.length - length)

CanTakeLastOffset ==    \* "a missed backward repmatch"
  /\ next.length >= MIN_ENCODED_MATCH_SIZE
  /\ num_literals # 0 /\ rep_offset # 0 /\ m.offset # rep_offset
  /\ next.offset # m.offset \/ OffsetBits(m.offset) > OffsetBits(next.offset)
  /\ i >= rep_offset /\ i - rep_offset + m.length <= end
  /\ LET shared == SharedLength(rep_offset)
     IN  /\ shared >= 1
         /\ RepBits(shared) + CutBits(shared)
              < NewBits(m.offset, m.length) + RunBits(next_literals)

CanTakeNextOffset ==    \* "a match forward": the next one will repeat it
  /\ next.length >= MIN_ENCODED_MATCH_SIZE
  /\ next.offset # 0 /\ next_literals # 0
  /\ m.offset # next.offset /\ rep_offset # next.offset /\ m.offset # rep_offset
  /\ i >= next.offset /\ i - next.offset + m.length <= end
  /\ LET shared == SharedLength(next.offset)
     IN  \/ shared = m.length
         \/ /\ shared >= 2
            /\ RepBits(shared) + CutBits(shared)
                 < NewBits(m.offset, m.length) + RunBits(next_literals)


(***************************************************************************)
(* The match as literals, with the next match behind them.  The bits of    *)
(* all literals are left out, except the new ones.                         *)
(***************************************************************************)
CanDrop ==
  /\ m.length < 9
  /\ LET joined  == num_literals + m.length + next_literals
         present == RunBits(num_literals)
                    + MatchBits(m.offset, m.length, rep_offset, num_literals)
                    + RunBits(next_literals) + 1
                    + MatchBits(next.offset, next.length, m.offset, next_literals)
     IN  ByteBits * m.length + RunBits(joined)
           + MatchBits(next.offset, next.length, rep_offset, joined) <= present

TakeLastOffset ==
  /\ step = "backward" /\ CanTakeLastOffset
  /\ Rewrite(Shortened(rep_offset, SharedLength(rep_offset)), "forward")

TakeNextOffset ==
  /\ step = "forward" /\ CanTakeNextOffset
  /\ LET shared == SharedLength(next.offset)
     IN  Rewrite(IF shared = m.length THEN [best EXCEPT ![i].offset = next.offset]
                 ELSE Shortened(next.offset, shared), "drop")

Drop ==
  /\ step = "drop" /\ CanDrop
  /\ Rewrite(Cleared(i .. i + m.length - 1), "visit")

-----------------------------------------------------------------------------
(* Two matches without a literal between them, the second of which could   *)
(* as well be copied from the offset of the first.                         *)
behind == i + m.length

CanJoin ==
  /\ m.length >= MIN_ENCODED_MATCH_SIZE /\ m.offset # 0 /\ behind < end
  /\ LET n        == best[behind]
         after    == NextMatch(behind + n.length)
         literals == after - (behind + n.length)
         last     == best[after]
         repeats(offset) == last.offset = offset /\ literals # 0
         lastBits(offset) ==
           IF after = end THEN 0
           ELSE IF repeats(offset) THEN RepBits(last.length)
           ELSE NewBits(last.offset, last.length)
     IN  /\ n.length >= MIN_ENCODED_MATCH_SIZE /\ n.offset # 0
         /\ m.length + n.length <= MAX_VARLEN
         /\ behind >= m.offset /\ behind >= n.offset /\ behind + n.length <= end
         /\ \A k \in 1 .. n.length :
              window[behind + k - m.offset] = window[behind + k - n.offset]
         /\ after < end => repeats(m.offset) \/ last.length >= MIN_ENCODED_MATCH_SIZE
         /\ MatchBits(m.offset, m.length + n.length, rep_offset, num_literals)
              + lastBits(m.offset)
            <= MatchBits(m.offset, m.length, rep_offset, num_literals) + 1
               + NewBits(n.offset, n.length) + lastBits(n.offset)

Join ==
  /\ step = "join" /\ CanJoin
  /\ Rewrite([best EXCEPT
       ![i].length = kc_limit_match_len_local(m.length + best[behind].length),
       ![behind] = NoMatch], "visit")

(* A match of two bytes, literals, and a single byte at the same offset. *)
CanDropPair ==
  /\ num_literals # 0 /\ rep_offset # 0 /\ m.offset # rep_offset
  /\ m.length = MIN_ENCODED_MATCH_SIZE /\ behind < end
  /\ LET single   == NextMatch(behind)
         literals == single - behind
         third    == NextMatch(single + 1)
     IN  /\ single < end /\ literals # 0
         /\ best[single] = [length |-> 1, offset |-> m.offset]
         /\ third < end /\ third > single + 1
         /\ best[third].length >= MIN_ENCODED_MATCH_SIZE
         /\ best[third].offset # m.offset
         /\ RunBits(num_literals + 2 + literals + 1) + ByteBits * (2 + literals + 1)
            <= RunBits(num_literals) + 1 + OffsetBits(m.offset) + 1
               + RunBits(literals) + ByteBits * literals + 1 + 1

DropPair ==
  /\ step = "pair" /\ CanDropPair
  /\ Rewrite(Cleared({i, i + 1, NextMatch(behind)}), "advance")

Skip ==
  \/ step = "backward" /\ ~CanTakeLastOffset /\ GoOn("forward")
  \/ step = "forward" /\ ~CanTakeNextOffset /\ GoOn("drop")
  \/ step = "drop" /\ ~CanDrop /\ GoOn("join")
  \/ step = "join" /\ ~CanJoin /\ GoOn("pair")
  \/ step = "pair" /\ ~CanDropPair /\ GoOn("advance")

(* Behind the match, which is of no length if it was dropped with the pair. *)
Advance ==
  /\ step = "advance"
  /\ MoveTo(i + m.length, 0, m.offset)
  /\ UNCHANGED <<window, start, dali, best, next_index, next_literals, did_reduce, passes>>

-----------------------------------------------------------------------------
(* Mutant: no check that it still repeats. *)
CanDropSingle_ByCost ==
  /\ num_literals # 0 /\ next_literals # 0
  /\ RunBits(num_literals + 1 + next_literals) + ByteBits
       <= RunBits(num_literals) + TokenCost + 1 + RunBits(next_literals)

(* A single byte, which only a repetition can be. *)
CanDropSingle ==
  /\ num_literals # 0
  /\ \/ rep_offset # m.offset /\ (next_index < end \/ ~did_reduce)
     \/ /\ next_literals # 0
        /\ RunBits(num_literals + 1 + next_literals) + ByteBits
           <= RunBits(num_literals) + TokenCost + 1 + RunBits(next_literals)

DropSingle ==
  /\ step = "single" /\ CanDropSingle
  /\ Rewrite([best EXCEPT ![i] = NoMatch], "visit")

KeepSingle ==
  /\ step = "single" /\ ~CanDropSingle
  /\ MoveTo(i + 1, 0, rep_offset)
  /\ UNCHANGED <<window, start, dali, best, next_index, next_literals, did_reduce, passes>>

EndPass ==
  /\ step = "visit" /\ i >= end
  /\ passes' = passes + 1
  /\ IF did_reduce /\ passes' < ReductionPasses
     THEN MoveTo(start + 1, 1, 1) /\ did_reduce' = FALSE
     ELSE step' = "done" /\ UNCHANGED <<place, did_reduce>>
  /\ UNCHANGED <<window, start, dali, best, next_index, next_literals>>

Next ==
  \/ Merge \/ CountLiteral \/ VisitMatch
  \/ TakeLastOffset \/ TakeNextOffset \/ Drop \/ Join \/ DropPair \/ Skip \/ Advance
  \/ DropSingle \/ KeepSingle
  \/ EndPass

Spec == Init /\ [][Next]_vars

-----------------------------------------------------------------------------
steps == {"visit", "backward", "forward", "drop", "join", "pair", "advance",
          "single", "done"}

(* The variables have their types; positions stay inside the payload. *)
TypeOK ==
  /\ best \in [start .. end - 1 -> [length : 0 .. MAX_VARLEN, offset : Nat]]
  /\ i \in start + 1 .. end
  /\ num_literals \in 0 .. end /\ rep_offset \in Nat \ {0}
  /\ next_index \in 0 .. end /\ next_literals \in 0 .. end
  /\ did_reduce \in BOOLEAN /\ passes \in 0 .. ReductionPasses
  /\ step \in steps
  /\ step \in steps \ {"visit", "done"} => i < end
  /\ step \in {"backward", "forward", "drop"} => next_index < end

(***************************************************************************)
(* Whatever is rewritten, in whatever order, every match of the table      *)
(* copies the bytes it stands for from inside the window (the memcmp calls *)
(* of salvador_reduce_commands, and the copies they take for granted).     *)
(***************************************************************************)
MatchesStayCorrect ==
  \A p \in start .. end - 1 : best[p].length # 0 => CorrectMatch(window, p, best[p])

(***************************************************************************)
(* No match begins inside another, where the writer would step over it:    *)
(* what is shortened, merged and joined leaves nothing behind.             *)
(***************************************************************************)
MatchesStayApart ==
  \A p \in start .. end - 1 : \A q \in p + 1 .. p + best[p].length - 1 : best[q].length = 0

(***************************************************************************)
(* In the end the writer takes every match for one: no single byte is left *)
(* whose repetition a rewriting before it has taken away                   *)
(* (kc_shrink.c:1184 drops them, in this pass or the next).                *)
(***************************************************************************)
EveryMatchIsWritten == step = "done" => Walk(best, start, end, dali).unused = {}

(***************************************************************************)
(* "Attempt to replace matches by literals when it makes the final         *)
(* bitstream smaller, and merge large matches" (kc_shrink.c:747): no       *)
(* rewriting makes what salvador_write_block writes longer, though each    *)
(* is decided on a sum over two or three commands.                         *)
(***************************************************************************)
NotLonger == WrittenSize(best', start, end, dali) <= WrittenSize(best, start, end, dali)

NeverLonger == [][NotLonger]_best

(***************************************************************************)
(* The counts a rewriting is judged by are those of the table.  They are   *)
(* not when a match has been shortened and is then dropped, as             *)
(* nNextLiterals was counted before; nor behind a pair that was dropped,   *)
(* whose offset and literals the pass goes on with as if it were there.    *)
(***************************************************************************)
CountsAreFresh ==
  LET walk == Walk(best, start, i, dali)
  IN  /\ rep_offset = walk.rep_offset /\ num_literals = i - walk.next
      /\ step = "drop" => next_literals = next_index - behind

=============================================================================
