------------------------ MODULE ReduceCommands_proofs ------------------------
(***************************************************************************)
(* What holds of the reduction for every window, every table a parser can  *)
(* leave and every cost of a token: the commands it leaves can be written  *)
(* and give the payload.  Whether they are cheaper is not its business     *)
(* here; no step below looks at a cost.                                    *)
(***************************************************************************)
EXTENDS ReduceCommands, KcFormat_proofs

(***************************************************************************)
(* The inductive invariant.  Behind is what lets a literal become the      *)
(* first byte of a match: no match that was passed reaches it.  AtMatch    *)
(* says what the rewritings at a position still know of the match that was *)
(* found there, after those before them may have shortened it.             *)
(***************************************************************************)
Positions == start .. end - 1

WindowOK ==
  window \in Seq(Byte) /\ start \in 0 .. end - 1 /\ dali \in BOOLEAN

TableOK == IsTable(window, start, best)

PlaceOK ==
  /\ i \in start + 1 .. end
  /\ num_literals \in 0 .. i /\ rep_offset \in Nat \ {0}
  /\ next_index \in 0 .. end /\ next_literals \in 0 .. end
  /\ did_reduce \in BOOLEAN /\ passes \in 0 .. ReductionPasses
  /\ step \in steps
  /\ step # "done" => passes < ReductionPasses

Behind == \A p \in start .. i - 1 : p + best[p].length <= i

AtMatch ==
  /\ step \in steps \ {"visit", "done"} => i < end
  /\ step \in {"backward", "forward", "drop", "join", "pair", "single"} => m.length # 0
  /\ step = "single" => m.length = 1
  /\ step = "advance" => m.offset # 0 /\ i + m.length <= end
  /\ step \in {"backward", "forward", "drop"} => next_index \in i .. end - 1

IInv == WindowOK /\ TableOK /\ PlaceOK /\ Behind /\ AtMatch
-----------------------------------------------------------------------------
(***************************************************************************)
(* A set of numbers has a least one, a bounded one a greatest: the two     *)
(* searches of the model, NextMatch and SharedLength, find something.      *)
(***************************************************************************)
LEMMA LeastNumber ==
  ASSUME NEW S \in SUBSET Nat, S # {}
  PROVE  Min(S) \in S /\ \A x \in S : Min(S) <= x
<1> DEFINE R == OpToRel(<, Nat)
<1>1. IsWellFoundedOn(R, Nat)
  BY NatLessThanWellFounded
<1>2. \A x, y \in Nat : y < x => <<y, x>> \in R
  BY DEF OpToRel
<1> HIDE DEF R
<1>3. PICK x \in S : \A y \in S : ~ (<<y, x>> \in R)
  BY <1>1, WFMin
<1>4. \A y \in S : ~(y < x)
  BY <1>2, <1>3
<1>5. x \in Nat /\ \A y \in S : y \in Nat
  OBVIOUS
<1>6. \E z \in S : \A y \in S : z <= y
  BY <1>4, <1>5
<1>7. QED
  BY <1>6 DEF Min

LEMMA GreatestNumber ==
  ASSUME NEW S \in SUBSET Nat, S # {}, NEW bound \in Nat, \A x \in S : x <= bound
  PROVE  Max(S) \in S /\ \A x \in S : x <= Max(S)
<1> DEFINE T == {bound - x : x \in S}
<1>1. T \in SUBSET Nat /\ T # {}
  <2>1. \A x \in S : bound - x \in Nat
    OBVIOUS
  <2>2. QED
    BY <2>1
<1>2. Min(T) \in T /\ \A z \in T : Min(T) <= z
  BY <1>1, LeastNumber
<1>3. PICK x \in S : Min(T) = bound - x
  BY <1>2
<1>4. \A y \in S : bound - x <= bound - y
  BY <1>2, <1>3
<1>5. \A y \in S : x >= y
  <2> TAKE y \in S
  <2>1. bound - x <= bound - y /\ x \in Nat /\ y \in Nat
    BY <1>4
  <2>2. QED
    BY <2>1
<1>6. \E z \in S : \A y \in S : z >= y
  BY <1>5
<1>7. Max(S) \in S /\ \A y \in S : Max(S) >= y
  BY <1>6 DEF Max
<1>8. QED
  BY <1>7

LEMMA EndType == ASSUME WindowOK PROVE end \in Nat \ {0} /\ start \in Nat /\ start < end
  BY DEF WindowOK, end

LEMMA LengthLimit ==
  ASSUME NEW n \in Nat \ {0}
  PROVE  kc_limit_match_len_local(n) \in 1 .. n
  BY ParsingAssumption DEF kc_limit_match_len_local

LEMMA LongestLength == MAX_VARLEN \in Nat
<1>1. \A a, b \in Nat \ {0} : a * b \in Nat \ {0}
  OBVIOUS
<1>2. ByteValues * ByteValues \in Nat \ {0}
  BY <1>1, FormatAssumption
<1>3. QED
  BY <1>2 DEF MAX_VARLEN

LEMMA NextMatchType ==
  ASSUME WindowOK, NEW from \in Nat, from <= end
  PROVE  NextMatch(from) \in from .. end
<1> DEFINE S == {p \in from .. end - 1 : best[p].length # 0} \cup {end}
<1>1. end \in Nat
  BY EndType
<1>2. S \in SUBSET Nat /\ S # {} /\ \A p \in S : p \in from .. end
  BY <1>1
<1> HIDE DEF S
<1>3. Min(S) \in S
  BY <1>2, LeastNumber
<1>4. NextMatch(from) = Min(S)
  BY DEF NextMatch, S
<1>5. QED
  BY <1>2, <1>3, <1>4

(***************************************************************************)
(* A match shortened to what its bytes share with those at another offset  *)
(* is correct at that offset.                                              *)
(***************************************************************************)
LEMMA SharedType ==
  ASSUME m.length \in Nat, NEW offset
  PROVE  /\ SharedLength(offset) \in 0 .. m.length
         /\ \A k \in 1 .. SharedLength(offset) :
              window[i + k - offset] = window[i + k - m.offset]
<1> DEFINE S == {l \in 0 .. m.length :
                   \A k \in 1 .. l : window[i + k - offset] = window[i + k - m.offset]}
<1>1. S \in SUBSET Nat /\ 0 \in S /\ \A l \in S : l <= m.length
  OBVIOUS
<1> HIDE DEF S
<1>2. Max(S) \in S
  BY <1>1, GreatestNumber
<1>3. SharedLength(offset) = Max(S)
  BY DEF SharedLength, S
<1>4. QED
  BY <1>2, <1>3 DEF S

LEMMA SharedBytes ==
  ASSUME WindowOK, NEW offset \in Nat \ {0}, m.length \in Nat,
         NEW length \in 0 .. SharedLength(offset), i \in Nat,
         CorrectMatch(window, i, m), i >= offset
  PROVE  CorrectMatch(window, i, [length |-> length, offset |-> offset])
<1>1. /\ SharedLength(offset) \in 0 .. m.length
      /\ \A k \in 1 .. SharedLength(offset) : window[i + k - offset] = window[i + k - m.offset]
  BY SharedType
<1>2. \A k \in 1 .. m.length : window[i + k] = window[i + k - m.offset]
  BY DEF CorrectMatch, SameBytes
<1>3. length \in 0 .. m.length
      /\ \A k \in 1 .. length : window[i + k] = window[i + k - offset]
  BY <1>1, <1>2
<1>4. i + length <= Len(window)
  <2>1. i + m.length <= Len(window) /\ Len(window) \in Nat
    BY DEF CorrectMatch, WindowOK
  <2>2. QED
    BY <1>3, <2>1
<1>5. offset \in 1 .. i
  OBVIOUS
<1>6. QED
  BY <1>1, <1>3, <1>4, <1>5 DEF CorrectMatch, SameBytes

-----------------------------------------------------------------------------
(***************************************************************************)
(* Tables.  A rewriting that shortens the match at i, perhaps at another   *)
(* offset, and takes others away leaves a table.                           *)
(***************************************************************************)
Matches == [length : 0 .. MAX_VARLEN, offset : Nat]

LEMMA TableType ==
  ASSUME IInv
  PROVE  /\ end \in Nat \ {0} /\ start \in Nat /\ start < end /\ i \in start + 1 .. end
         /\ best \in [Positions -> Matches] /\ best[start].length = 0
         /\ \A p \in Positions : best[p].length \in 0 .. MAX_VARLEN /\ best[p].offset \in Nat
         /\ \A p \in Positions : best[p].length # 0 => CorrectMatch(window, p, best[p])
         /\ \A p \in Positions : \A q \in p + 1 .. p + best[p].length - 1 : best[q].length = 0
<1>1. end \in Nat \ {0} /\ start \in Nat /\ start < end /\ i \in start + 1 .. end
  BY EndType DEF IInv, PlaceOK
<1>2. best \in [Positions -> Matches]
  BY DEF IInv, TableOK, IsTable, Positions, Matches, end
<1>3. \A p \in Positions : best[p].length \in 0 .. MAX_VARLEN /\ best[p].offset \in Nat
  BY <1>2 DEF Matches
<1>4. QED
  BY <1>1, <1>2, <1>3 DEF IInv, TableOK, IsTable, Positions, end

(* The match at hand, while it is one. *)
LEMMA MatchAtHand ==
  ASSUME IInv, i < end, m.length # 0
  PROVE  /\ i \in Positions /\ i \in Nat /\ m.length \in 1 .. MAX_VARLEN
         /\ CorrectMatch(window, i, m) /\ m.offset \in 1 .. i /\ i + m.length <= end
<1>1. i \in Positions /\ i \in Nat
  BY TableType DEF Positions
<1>2. m.length \in 0 .. MAX_VARLEN /\ CorrectMatch(window, i, m)
  BY <1>1, TableType DEF m
<1>3. m.length \in 1 .. MAX_VARLEN
  BY <1>2, LongestLength
<1>4. QED
  BY <1>1, <1>2, <1>3 DEF CorrectMatch, end

LEMMA ShrunkTable ==
  ASSUME IInv, NEW table \in [Positions -> Matches],
         \A p \in Positions \ {i} : table[p].length = 0 \/ table[p] = best[p],
         i \in Positions => \/ table[i].length = 0
                            \/ /\ CorrectMatch(window, i, table[i])
                               /\ table[i].length <= best[i].length
  PROVE  /\ IsTable(window, start, table)
         /\ \A p \in start .. i - 1 : p + table[p].length <= i
<1>1. \A p \in Positions : table[p].length \in 0 .. MAX_VARLEN
  BY DEF Matches
<1>2. \A p \in Positions : table[p].length <= best[p].length
  <2> TAKE p \in Positions
  <2>1. best[p].length \in Nat
    BY TableType, LongestLength
  <2>2. CASE p = i
    BY <2>1, <2>2
  <2>3. CASE p # i
    BY <2>1, <2>3
  <2>4. QED
    BY <2>2, <2>3
<1>3. \A p \in Positions : best[p].length = 0 => table[p].length = 0
  BY <1>1, <1>2, TableType, LongestLength
<1>4. table[start].length = 0
  BY <1>3, TableType DEF Positions
<1>5. \A p \in Positions : table[p].length # 0 => CorrectMatch(window, p, table[p])
  BY TableType
<1>6. \A p \in Positions : \A q \in p + 1 .. p + table[p].length - 1 : table[q].length = 0
  <2> TAKE p \in Positions
  <2> TAKE q \in p + 1 .. p + table[p].length - 1
  <2>1. p \in Nat /\ table[p].length \in Nat /\ best[p].length \in Nat
        /\ table[p].length <= best[p].length
    BY <1>1, <1>2, TableType, LongestLength DEF Positions
  <2>2. q \in p + 1 .. p + best[p].length - 1 /\ table[p].length # 0
    BY <2>1
  <2>3. best[q].length = 0
    BY <2>2, TableType
  <2>4. p + table[p].length <= end
    BY <1>5, <2>2 DEF CorrectMatch, end
  <2>5. q \in Positions
    BY <2>1, <2>2, <2>4, TableType DEF Positions
  <2>6. QED
    BY <1>3, <2>3, <2>5
<1>7. IsTable(window, start, table)
  BY <1>4, <1>5, <1>6 DEF IsTable, Positions, Matches, end
<1>8. \A p \in start .. i - 1 : p + table[p].length <= i
  <2> TAKE p \in start .. i - 1
  <2>1. p \in Positions /\ p \in Nat
    BY TableType DEF Positions
  <2>2. p + best[p].length <= i
    BY DEF IInv, Behind
  <2>3. QED
    BY <1>1, <1>2, <2>1, <2>2, TableType, LongestLength
<1>9. QED
  BY <1>7, <1>8

LEMMA ClearedTable ==
  ASSUME IInv, NEW positions
  PROVE  /\ Cleared(positions) \in [Positions -> Matches]
         /\ \A p \in Positions :
              /\ Cleared(positions)[p].offset = best[p].offset
              /\ IF p \in positions THEN Cleared(positions)[p].length = 0
                 ELSE Cleared(positions)[p] = best[p]
<1>1. DOMAIN best = Positions /\ 0 \in 0 .. MAX_VARLEN
  BY TableType, LongestLength
<1>2. \A p \in Positions : best[p] \in Matches
  BY TableType
<1>3. \A p \in Positions : [best[p] EXCEPT !.length = 0] \in Matches
                           /\ [best[p] EXCEPT !.length = 0].length = 0
                           /\ [best[p] EXCEPT !.length = 0].offset = best[p].offset
  BY <1>1, <1>2 DEF Matches
<1>4. Cleared(positions) = [p \in Positions |-> IF p \in positions
                                                THEN [best[p] EXCEPT !.length = 0] ELSE best[p]]
  BY <1>1 DEF Cleared
<1>5. QED
  BY <1>2, <1>3, <1>4

LEMMA ShortenedTable ==
  ASSUME IInv, i < end, m.length # 0, NEW offset \in Nat \ {0}, i >= offset,
         SharedLength(offset) >= 1
  PROVE  LET table == Shortened(offset, SharedLength(offset))
         IN  /\ IsTable(window, start, table)
             /\ \A p \in start .. i - 1 : p + table[p].length <= i
             /\ table[i].length # 0
             /\ table \in [Positions -> Matches]
             /\ \A p \in Positions \ {i} : table[p].length = 0 \/ table[p] = best[p]
             /\ table[i].length = kc_limit_match_len_local(SharedLength(offset))
             /\ table[i].length \in 1 .. m.length
<1> DEFINE shared == SharedLength(offset)
           length == kc_limit_match_len_local(shared)
           entry  == [length |-> length, offset |-> offset]
           rest   == i + shared .. i + m.length - 1
           table  == Shortened(offset, shared)
<1>1. /\ i \in Positions /\ i \in Nat /\ m.length \in 1 .. MAX_VARLEN
      /\ CorrectMatch(window, i, m) /\ WindowOK
  BY MatchAtHand DEF IInv
<1>2. shared \in 0 .. m.length
  BY <1>1, SharedType
<1>3. length \in 1 .. shared
  BY <1>1, <1>2, LengthLimit
<1>4. CorrectMatch(window, i, entry)
  BY <1>1, <1>3, SharedBytes
<1>5. entry \in Matches
  BY <1>1, <1>2, <1>3, LongestLength DEF Matches
<1>6. table = [Cleared(rest) EXCEPT ![i] = entry]
  BY DEF Shortened
<1> HIDE DEF rest, entry, length, shared, table
<1>7. table \in [Positions -> Matches] /\ table[i] = entry
  BY <1>1, <1>5, <1>6, ClearedTable
<1>8. \A p \in Positions \ {i} : table[p].length = 0 \/ table[p] = best[p]
  BY <1>6, ClearedTable
<1>9. table[i].length = length /\ length \in 1 .. m.length
  BY <1>1, <1>2, <1>3, <1>7 DEF entry
<1>10. CorrectMatch(window, i, table[i]) /\ table[i].length <= best[i].length
  BY <1>1, <1>4, <1>7, <1>9 DEF m
<1>11. /\ IsTable(window, start, table)
       /\ \A p \in start .. i - 1 : p + table[p].length <= i
  BY <1>7, <1>8, <1>10, ShrunkTable
<1>12. QED
  BY <1>7, <1>8, <1>9, <1>11 DEF table, shared, length

-----------------------------------------------------------------------------
(***************************************************************************)
(* The steps.  A rewriting stays at its place.                             *)
(***************************************************************************)
LEMMA RewriteStep ==
  ASSUME IInv, NEW table, NEW then \in steps \ {"done"}, step # "done", Rewrite(table, then),
         IsTable(window, start, table),
         \A p \in start .. i - 1 : p + table[p].length <= i,
         AtMatch'
  PROVE  IInv'
<1>1. /\ best' = table /\ did_reduce' = TRUE /\ step' = then
      /\ UNCHANGED <<window, start, dali, i, num_literals, rep_offset, next_index,
                     next_literals, passes>>
  BY DEF Rewrite, place
<1>2. WindowOK' /\ TableOK' /\ Behind'
  BY <1>1 DEF IInv, WindowOK, TableOK, Behind, end
<1>3. PlaceOK'
  BY <1>1 DEF IInv, PlaceOK, end
<1>4. QED
  BY <1>2, <1>3 DEF IInv

(* Back to looking at the position, nothing is to be known of it. *)
LEMMA VisitAgain ==
  ASSUME IInv, NEW table, step # "done", Rewrite(table, "visit"),
         IsTable(window, start, table),
         \A p \in start .. i - 1 : p + table[p].length <= i
  PROVE  IInv'
<1>1. "visit" \in steps \ {"done"}
  BY DEF steps
<1>2. AtMatch'
  BY DEF Rewrite, AtMatch
<1>3. QED
  BY <1>1, <1>2, RewriteStep

LEMMA LastOffsetStep == ASSUME IInv, TakeLastOffset PROVE IInv'
<1> DEFINE table == Shortened(rep_offset, SharedLength(rep_offset))
<1>1. step = "backward" /\ Rewrite(table, "forward") /\ i >= rep_offset
      /\ SharedLength(rep_offset) >= 1
  BY DEF TakeLastOffset, CanTakeLastOffset
<1>2. i < end /\ m.length # 0 /\ next_index \in i .. end - 1 /\ rep_offset \in Nat \ {0}
  BY <1>1 DEF IInv, AtMatch, PlaceOK, steps
<1>3. /\ IsTable(window, start, table)
      /\ \A p \in start .. i - 1 : p + table[p].length <= i
      /\ table[i].length # 0
  BY <1>1, <1>2, ShortenedTable
<1> HIDE DEF table
<1>4. AtMatch'
  BY <1>1, <1>2, <1>3 DEF Rewrite, AtMatch, place, m, end
<1>5. QED
  BY <1>1, <1>3, <1>4, RewriteStep DEF steps

LEMMA NextOffsetStep == ASSUME IInv, TakeNextOffset PROVE IInv'
<1> DEFINE shared == SharedLength(next.offset)
           whole  == [best EXCEPT ![i].offset = next.offset]
           table  == IF shared = m.length THEN whole ELSE Shortened(next.offset, shared)
<1>1. step = "forward" /\ Rewrite(table, "drop") /\ i >= next.offset
      /\ next.offset # 0 /\ (shared = m.length \/ shared >= 2)
  BY DEF TakeNextOffset, CanTakeNextOffset
<1>2. i < end /\ m.length # 0 /\ next_index \in i .. end - 1
  BY <1>1 DEF IInv, AtMatch, steps
<1>3. /\ i \in Positions /\ i \in Nat /\ m.length \in 1 .. MAX_VARLEN
      /\ CorrectMatch(window, i, m) /\ WindowOK
  BY <1>2, MatchAtHand DEF IInv
<1>4. next.offset \in Nat \ {0}
  <2>1. next_index \in Positions
    BY <1>2, TableType DEF Positions
  <2>2. QED
    BY <1>1, <2>1, TableType DEF next
<1>5. shared \in 0 .. m.length /\ shared >= 1
  BY <1>1, <1>3, SharedType
<1>6. /\ IsTable(window, start, table)
      /\ \A p \in start .. i - 1 : p + table[p].length <= i
      /\ table[i].length # 0
  <2>1. CASE shared = m.length
    <3> DEFINE entry == [length |-> m.length, offset |-> next.offset]
    <3>1. CorrectMatch(window, i, entry)
      BY <1>1, <1>3, <1>4, <1>5, <2>1, SharedBytes
    <3>2. best[i] \in Matches /\ DOMAIN best = Positions
      BY <1>3, TableType
    <3>3. [best[i] EXCEPT !.offset = next.offset] = entry /\ entry \in Matches
      BY <1>3, <1>4, <3>2 DEF m, Matches
    <3>4. whole = [best EXCEPT ![i] = entry]
      BY <3>3
    <3>5. whole \in [Positions -> Matches] /\ whole[i] = entry
          /\ \A p \in Positions \ {i} : whole[p] = best[p]
      BY <1>3, <3>2, <3>3, <3>4, TableType
    <3>6. whole[i].length = m.length /\ whole[i].length <= best[i].length
      BY <1>3, <3>5 DEF m
    <3>7. table = whole
      BY <2>1
    <3> HIDE DEF whole, entry, table
    <3>8. QED
      BY <1>2, <3>1, <3>5, <3>6, <3>7, ShrunkTable
  <2>2. CASE shared # m.length
    <3>1. table = Shortened(next.offset, SharedLength(next.offset))
      BY <2>2
    <3>2. QED
      BY <1>1, <1>2, <1>4, <1>5, <3>1, ShortenedTable
  <2>3. QED
    BY <2>1, <2>2
<1> HIDE DEF table
<1>7. AtMatch'
  BY <1>1, <1>2, <1>6 DEF Rewrite, AtMatch, place, m, end
<1>8. QED
  BY <1>1, <1>6, <1>7, RewriteStep DEF steps

LEMMA DropStep == ASSUME IInv, Drop PROVE IInv'
<1> DEFINE positions == i .. i + m.length - 1
<1>1. step = "drop" /\ Rewrite(Cleared(positions), "visit")
  BY DEF Drop
<1>2. i < end /\ m.length # 0
  BY <1>1 DEF IInv, AtMatch, steps
<1>3. i \in positions
  BY <1>2, MatchAtHand
<1> HIDE DEF positions
<1>4. /\ IsTable(window, start, Cleared(positions))
      /\ \A p \in start .. i - 1 : p + Cleared(positions)[p].length <= i
  BY <1>3, ClearedTable, ShrunkTable
<1>5. QED
  BY <1>1, <1>4, VisitAgain

LEMMA PairStep == ASSUME IInv, DropPair PROVE IInv'
<1> DEFINE positions == {i, i + 1, NextMatch(behind)}
           table     == Cleared(positions)
<1>1. step = "pair" /\ Rewrite(table, "advance")
  BY DEF DropPair
<1>2. i < end /\ m.length # 0
  BY <1>1 DEF IInv, AtMatch, steps
<1>3. i \in Positions /\ m.offset \in 1 .. i
  BY <1>2, MatchAtHand
<1>4. i \in positions
  OBVIOUS
<1> HIDE DEF positions
<1>5. /\ IsTable(window, start, table)
      /\ \A p \in start .. i - 1 : p + table[p].length <= i
  BY <1>4, ClearedTable, ShrunkTable
<1>6. table[i].length = 0 /\ table[i].offset = m.offset
  BY <1>3, <1>4, ClearedTable DEF m
<1> HIDE DEF table
<1>7. AtMatch'
  <2>1. i' = i /\ end' = end /\ m' = table[i] /\ step' = "advance"
    BY <1>1 DEF Rewrite, place, m, end
  <2>2. i + 0 <= end /\ m.offset # 0
    BY <1>2, <1>3, TableType
  <2>3. QED
    BY <1>2, <1>6, <2>1, <2>2 DEF AtMatch
<1>8. QED
  BY <1>1, <1>5, <1>7, RewriteStep DEF steps

LEMMA SingleStep == ASSUME IInv, DropSingle PROVE IInv'
<1> DEFINE table == [best EXCEPT ![i] = NoMatch]
<1>1. step = "single" /\ Rewrite(table, "visit")
  BY DEF DropSingle
<1>2. NoMatch \in Matches /\ NoMatch.length = 0
  BY LongestLength DEF NoMatch, Matches
<1>3. table \in [Positions -> Matches] /\ (i \in Positions => table[i] = NoMatch)
      /\ \A p \in Positions \ {i} : table[p] = best[p]
  BY <1>2, TableType
<1> HIDE DEF table
<1>4. /\ IsTable(window, start, table)
      /\ \A p \in start .. i - 1 : p + table[p].length <= i
  BY <1>2, <1>3, ShrunkTable
<1>5. QED
  BY <1>1, <1>4, VisitAgain

(***************************************************************************)
(* A literal becomes the first byte of the match behind it.  Nothing that  *)
(* was passed reaches the literal, so no match has it inside.              *)
(***************************************************************************)
LEMMA MergeStep == ASSUME IInv, Merge PROVE IInv'
<1> DEFINE n      == best[i + 1]
           length == kc_limit_match_len_local(n.length + 1)
           entry  == [length |-> length, offset |-> n.offset]
           table  == [best EXCEPT ![i] = entry, ![i + 1] = NoMatch]
<1>1. /\ step = "visit" /\ Rewrite(table, "visit") /\ i + 1 < end
      /\ n.length >= MIN_ENCODED_MATCH_SIZE /\ n.length < MAX_VARLEN
      /\ n.offset # 0 /\ i >= n.offset /\ i + n.length + 1 <= end
      /\ SameBytes(window, i, n.offset, n.length + 1)
  BY DEF Merge, CanMerge
<1>2. i \in Positions /\ i + 1 \in Positions /\ i \in Nat /\ i + 1 # i
      /\ n.length \in Nat /\ n.offset \in Nat
  BY <1>1, TableType, LongestLength DEF Positions
<1>3. length \in 1 .. n.length + 1
  BY <1>2, LengthLimit
<1> HIDE DEF length, n
<1>4. CorrectMatch(window, i, entry)
  <2>1. n.offset \in 1 .. i /\ i + length <= Len(window)
    BY <1>1, <1>2, <1>3, TableType DEF end
  <2>2. \A k \in 1 .. length : window[i + k] = window[i + k - n.offset]
    BY <1>1, <1>2, <1>3 DEF SameBytes
  <2>3. QED
    BY <2>1, <2>2 DEF CorrectMatch, SameBytes
<1>5. entry \in Matches /\ NoMatch \in Matches /\ entry.length = length /\ NoMatch.length = 0
  BY <1>1, <1>2, <1>3, LongestLength DEF Matches, NoMatch
<1> HIDE DEF entry
<1>6. /\ table \in [Positions -> Matches] /\ table[i] = entry /\ table[i + 1] = NoMatch
      /\ \A p \in Positions \ {i, i + 1} : table[p] = best[p]
  BY <1>2, <1>5, TableType
<1> HIDE DEF table
<1>7. table[start].length = 0
  <2>1. start \in Positions \ {i, i + 1}
    BY <1>2, TableType DEF Positions
  <2>2. QED
    BY <1>6, <2>1, TableType
<1>8. \A p \in Positions : table[p].length # 0 => CorrectMatch(window, p, table[p])
  <2> TAKE p \in Positions
  <2>1. CASE p = i
    BY <1>4, <1>6, <2>1
  <2>2. CASE p = i + 1
    BY <1>5, <1>6, <2>2
  <2>3. CASE p \notin {i, i + 1}
    BY <1>6, <2>3, TableType
  <2>4. QED
    BY <2>1, <2>2, <2>3
<1>9. \A p \in Positions : \A q \in p + 1 .. p + table[p].length - 1 : table[q].length = 0
  <2> TAKE p \in Positions
  <2> TAKE q \in p + 1 .. p + table[p].length - 1
  <2>1. p \in Nat /\ start \in Nat /\ end \in Nat /\ table[p].length \in Nat
    BY <1>6, TableType, LongestLength DEF Matches, Positions
  <2>2. CASE p = i
    <3>1. q \in i + 1 .. i + n.length
      BY <1>2, <1>3, <1>5, <1>6, <2>1, <2>2
    <3>2. CASE q = i + 1
      BY <1>5, <1>6, <3>2
    <3>3. CASE q # i + 1
      <4>1. q \in (i + 1) + 1 .. (i + 1) + n.length - 1 /\ q \in Positions
        BY <1>1, <1>2, <2>1, <3>1, <3>3 DEF Positions
      <4>2. best[q].length = 0
        BY <1>2, <4>1, TableType DEF n
      <4>3. QED
        BY <1>2, <1>6, <3>3, <4>1, <4>2
    <3>4. QED
      BY <3>2, <3>3
  <2>3. CASE p = i + 1
    BY <1>2, <1>5, <1>6, <2>3
  <2>4. CASE p \notin {i, i + 1}
    <3>1. table[p] = best[p] /\ best[q].length = 0
      BY <1>6, <2>4, TableType
    <3>2. q \in Positions
      <4>1. p + table[p].length <= end
        BY <1>8, <2>1 DEF CorrectMatch, end
      <4>2. QED
        BY <2>1, <4>1 DEF Positions
    <3>3. q # i
      <4>1. CASE p < i
        <5>1. p + best[p].length <= i
          <6>1. p \in start .. i - 1
            BY <1>2, <2>1, <4>1 DEF Positions
          <6>2. QED
            BY <6>1 DEF IInv, Behind
        <5>2. QED
          BY <1>2, <2>1, <3>1, <5>1
      <4>2. CASE ~(p < i)
        BY <1>2, <2>1, <4>2
      <4>3. QED
        BY <4>1, <4>2
    <3>4. QED
      BY <1>5, <1>6, <3>1, <3>2, <3>3
  <2>5. QED
    BY <2>2, <2>3, <2>4
<1>10. IsTable(window, start, table)
  BY <1>6, <1>7, <1>8, <1>9 DEF IsTable, Positions, Matches, end
<1>11. \A p \in start .. i - 1 : p + table[p].length <= i
  <2> TAKE p \in start .. i - 1
  <2>1. p \in Positions \ {i, i + 1}
    BY <1>2, TableType DEF Positions
  <2>2. QED
    BY <1>6, <2>1 DEF IInv, Behind
<1>12. QED
  BY <1>1, <1>10, <1>11, VisitAgain

(***************************************************************************)
(* The bytes of a match by their places in the window.                     *)
(***************************************************************************)
LEMMA BytesByPlace ==
  ASSUME NEW pos \in Nat, NEW length \in Nat, NEW offset \in Nat
  PROVE  SameBytes(window, pos, offset, length)
           <=> \A x \in pos + 1 .. pos + length : window[x] = window[x - offset]
<1>1. ASSUME SameBytes(window, pos, offset, length), NEW x \in pos + 1 .. pos + length
      PROVE  window[x] = window[x - offset]
  <2>1. PICK k \in 1 .. length : pos + k = x
    <3>1. x - pos \in 1 .. length /\ pos + (x - pos) = x
      OBVIOUS
    <3>2. QED
      BY <3>1
  <2>2. window[pos + k] = window[pos + k - offset]
    BY <1>1 DEF SameBytes
  <2>3. QED
    BY <2>1, <2>2
<1>2. ASSUME \A x \in pos + 1 .. pos + length : window[x] = window[x - offset],
             NEW k \in 1 .. length
      PROVE  window[pos + k] = window[pos + k - offset]
  <2>1. pos + k \in pos + 1 .. pos + length
    OBVIOUS
  <2>2. QED
    BY <1>2, <2>1
<1>3. QED
  BY <1>1, <1>2 DEF SameBytes

(***************************************************************************)
(* Two matches in one, at the offset of the first.                         *)
(***************************************************************************)
LEMMA JoinStep == ASSUME IInv, Join PROVE IInv'
<1> DEFINE n      == best[behind]
           length == kc_limit_match_len_local(m.length + n.length)
           table  == [best EXCEPT ![i].length = length, ![behind] = NoMatch]
<1>1. /\ step = "join" /\ Rewrite(table, "visit")
      /\ n.length >= MIN_ENCODED_MATCH_SIZE /\ n.offset # 0 /\ behind < end
      /\ m.length + n.length <= MAX_VARLEN /\ behind + n.length <= end
      /\ \A k \in 1 .. n.length :
           window[behind + k - m.offset] = window[behind + k - n.offset]
  BY DEF Join, CanJoin
<1>2. i < end /\ m.length # 0
  BY <1>1 DEF IInv, AtMatch, steps
<1>3. /\ i \in Positions /\ i \in Nat /\ m.length \in 1 .. MAX_VARLEN
      /\ CorrectMatch(window, i, m) /\ m.offset \in 1 .. i /\ behind = i + m.length
  BY <1>2, MatchAtHand DEF behind
<1>4. behind \in Positions /\ behind \in Nat /\ behind > i /\ n.length \in Nat
      /\ m.length \in Nat
  <2>1. MAX_VARLEN \in Nat /\ start \in Nat /\ i >= start /\ end \in Nat
    BY <1>3, TableType, LongestLength
  <2>2. m.length \in Nat \ {0} /\ behind \in Nat /\ behind > i
    BY <1>3, <2>1
  <2>3. behind \in Positions
    BY <1>1, <1>3, <2>1, <2>2 DEF Positions
  <2>4. QED
    BY <2>1, <2>2, <2>3, TableType
<1>5. CorrectMatch(window, behind, n)
  <2>1. n.length # 0
    BY <1>1 DEF MIN_ENCODED_MATCH_SIZE
  <2>2. QED
    BY <1>4, <2>1, TableType
<1>6. length \in 1 .. m.length + n.length
  BY <1>3, <1>4, LengthLimit
<1> DEFINE entry == [length |-> length, offset |-> m.offset]
<1>7. [best[i] EXCEPT !.length = length] = entry /\ entry \in Matches
  <2>1. best[i] \in Matches /\ m = best[i] /\ length \in 0 .. MAX_VARLEN
    BY <1>1, <1>3, <1>4, <1>6, TableType, LongestLength DEF m
  <2> HIDE DEF length
  <2>2. QED
    BY <2>1 DEF Matches
<1>8. table = [best EXCEPT ![i] = entry, ![behind] = NoMatch]
  BY <1>7
<1> HIDE DEF length, n
<1>9. CorrectMatch(window, i, entry)
  <2>1. i + length <= Len(window)
    BY <1>1, <1>3, <1>4, <1>6, TableType DEF end
  <2>2. n.offset \in Nat /\ m.offset \in Nat /\ length \in Nat
    BY <1>3, <1>4, <1>6, TableType DEF n
  <2>3. \A x \in i + 1 .. behind : window[x] = window[x - m.offset]
    BY <1>3, <1>4, <2>2, BytesByPlace, SMTT(30) DEF CorrectMatch
  <2>4. \A x \in behind + 1 .. behind + n.length : window[x] = window[x - n.offset]
    BY <1>4, <1>5, <2>2, BytesByPlace DEF CorrectMatch
  <2>5. \A x \in behind + 1 .. behind + n.length : window[x - m.offset] = window[x - n.offset]
    <3> TAKE x \in behind + 1 .. behind + n.length
    <3>1. PICK k \in 1 .. n.length : behind + k = x
      <4>1. x - behind \in 1 .. n.length /\ behind + (x - behind) = x
        BY <1>4
      <4>2. QED
        BY <4>1
    <3>2. window[behind + k - m.offset] = window[behind + k - n.offset]
      BY <1>1
    <3>3. QED
      BY <1>4, <2>2, <3>1, <3>2
  <2>6. \A x \in i + 1 .. i + length : window[x] = window[x - m.offset]
    <3> TAKE x \in i + 1 .. i + length
    <3>1. x \in i + 1 .. behind \/ x \in behind + 1 .. behind + n.length
      BY <1>3, <1>4, <1>6
    <3>2. QED
      BY <2>3, <2>4, <2>5, <3>1
  <2>7. SameBytes(window, i, m.offset, length)
    BY <1>3, <2>2, <2>6, BytesByPlace
  <2>8. QED
    BY <1>3, <2>1, <2>7 DEF CorrectMatch
<1>10. NoMatch \in Matches /\ entry.length = length /\ NoMatch.length = 0
  BY LongestLength DEF Matches, NoMatch
<1> HIDE DEF entry, table
<1>11. /\ table \in [Positions -> Matches] /\ table[i] = entry /\ table[behind] = NoMatch
       /\ \A p \in Positions \ {i, behind} : table[p] = best[p]
  BY <1>3, <1>4, <1>7, <1>8, <1>10, TableType
<1>12. \A p \in Positions : best[p].length = 0 => table[p].length = 0
  <2> TAKE p \in Positions
  <2>1. p = i => best[p].length # 0
    BY <1>2 DEF m
  <2>2. QED
    BY <1>10, <1>11, <2>1
<1>13. table[start].length = 0
  BY <1>12, TableType DEF Positions
<1>14. \A p \in Positions : table[p].length # 0 => CorrectMatch(window, p, table[p])
  <2> TAKE p \in Positions
  <2>1. CASE p = i
    BY <1>9, <1>11, <2>1
  <2>2. CASE p = behind
    BY <1>10, <1>11, <2>2
  <2>3. CASE p \notin {i, behind}
    BY <1>11, <2>3, TableType
  <2>4. QED
    BY <2>1, <2>2, <2>3
<1>15. \A p \in Positions : \A q \in p + 1 .. p + table[p].length - 1 : table[q].length = 0
  <2> TAKE p \in Positions
  <2> TAKE q \in p + 1 .. p + table[p].length - 1
  <2>1. p \in Nat /\ start \in Nat /\ end \in Nat /\ table[p].length \in Nat
    BY <1>11, TableType, LongestLength DEF Matches, Positions
  <2>2. q \in Positions
    <3>1. p + table[p].length <= end
      BY <1>14, <2>1 DEF CorrectMatch, end
    <3>2. QED
      BY <2>1, <3>1 DEF Positions
  <2>3. CASE p = i
    <3>1. q \in i + 1 .. i + m.length + n.length - 1
      BY <1>3, <1>4, <1>6, <1>10, <1>11, <2>1, <2>3
    <3>2. CASE q = behind
      BY <1>10, <1>11, <3>2
    <3>3. CASE q < behind
      <4>1. q \in i + 1 .. i + best[i].length - 1
        BY <1>3, <1>4, <3>1, <3>3 DEF m
      <4>2. QED
        BY <1>3, <1>12, <2>2, <4>1, TableType
    <3>4. CASE q > behind
      <4>1. q \in behind + 1 .. behind + best[behind].length - 1
        BY <1>3, <1>4, <3>1, <3>4 DEF n
      <4>2. QED
        BY <1>4, <1>12, <2>2, <4>1, TableType
    <3>5. QED
      BY <1>4, <3>1, <3>2, <3>3, <3>4
  <2>4. CASE p = behind
    BY <1>4, <1>10, <1>11, <2>4
  <2>5. CASE p \notin {i, behind}
    <3>1. best[q].length = 0
      BY <1>11, <2>5, TableType
    <3>2. QED
      BY <1>12, <2>2, <3>1
  <2>6. QED
    BY <2>3, <2>4, <2>5
<1>16. IsTable(window, start, table)
  BY <1>11, <1>13, <1>14, <1>15 DEF IsTable, Positions, Matches, end
<1>17. \A p \in start .. i - 1 : p + table[p].length <= i
  <2> TAKE p \in start .. i - 1
  <2>1. p \in Positions \ {i, behind}
    BY <1>3, <1>4, TableType DEF Positions
  <2>2. QED
    BY <1>11, <2>1 DEF IInv, Behind
<1>18. QED
  BY <1>1, <1>16, <1>17, VisitAgain

(***************************************************************************)
(* The steps that leave the table as it is.                                *)
(***************************************************************************)
LEMMA QuietTable ==
  ASSUME IInv, UNCHANGED <<window, start, dali, best>>
  PROVE  WindowOK' /\ TableOK' /\ end' = end
  BY DEF IInv, WindowOK, TableOK, end

LEMMA CountStep == ASSUME IInv, CountLiteral PROVE IInv'
<1>1. /\ step = "visit" /\ i < end /\ m.length = 0
      /\ i' = i + 1 /\ num_literals' = num_literals + 1 /\ rep_offset' = rep_offset
      /\ step' = "visit"
      /\ UNCHANGED <<window, start, dali, best, next_index, next_literals, did_reduce, passes>>
  BY DEF CountLiteral, MoveTo
<1>2. i \in start + 1 .. end /\ end \in Nat /\ start \in Nat
  BY TableType
<1>3. PlaceOK'
  BY <1>1, <1>2, QuietTable DEF IInv, PlaceOK, steps
<1>4. Behind'
  <2> SUFFICES ASSUME NEW p \in start .. i PROVE p + best[p].length <= i + 1
    BY <1>1, <1>2 DEF Behind
  <2>1. p \in Positions /\ p \in Nat /\ best[p].length \in Nat
    BY <1>1, <1>2, TableType, LongestLength DEF Positions
  <2>2. CASE p = i
    BY <1>1, <2>1, <2>2 DEF m
  <2>3. CASE p # i
    <3>1. p \in start .. i - 1
      BY <1>2, <2>3
    <3>2. p + best[p].length <= i
      BY <3>1 DEF IInv, Behind
    <3>3. QED
      BY <1>2, <2>1, <3>2
  <2>4. QED
    BY <2>2, <2>3
<1>5. AtMatch'
  BY <1>1 DEF AtMatch
<1>6. QED
  BY <1>1, <1>3, <1>4, <1>5, QuietTable DEF IInv

LEMMA VisitStep == ASSUME IInv, VisitMatch PROVE IInv'
<1>1. /\ step = "visit" /\ i < end /\ m.length # 0
      /\ next_index' = NextMatch(i + m.length)
      /\ next_literals' = next_index' - (i + m.length)
      /\ step' = (IF m.length < MIN_ENCODED_MATCH_SIZE THEN "single"
                  ELSE IF next_index' < end THEN "backward" ELSE "join")
      /\ UNCHANGED <<window, start, dali, best, i, num_literals, rep_offset, did_reduce, passes>>
  BY DEF VisitMatch, place
<1>2. m.length \in Nat \ {0} /\ i \in Nat /\ end \in Nat /\ i + m.length <= end
  BY <1>1, MatchAtHand, LongestLength, TableType
<1>3. next_index' \in i + m.length .. end
  BY <1>1, <1>2, NextMatchType DEF IInv
<1>4. next_literals' \in 0 .. end
  BY <1>1, <1>2, <1>3
<1>5. PlaceOK'
  BY <1>1, <1>2, <1>3, <1>4, QuietTable DEF IInv, PlaceOK, steps
<1>6. Behind'
  BY <1>1 DEF IInv, Behind
<1>7. AtMatch'
  BY <1>1, <1>2, <1>3, QuietTable DEF AtMatch, m, MIN_ENCODED_MATCH_SIZE
<1>8. QED
  BY <1>1, <1>5, <1>6, <1>7, QuietTable DEF IInv

LEMMA SkipStep == ASSUME IInv, Skip PROVE IInv'
<1>1. /\ \/ step = "backward" /\ step' = "forward"
         \/ step = "forward" /\ step' = "drop"
         \/ step = "drop" /\ step' = "join"
         \/ step = "join" /\ step' = "pair"
         \/ step = "pair" /\ step' = "advance"
      /\ UNCHANGED <<window, start, dali, best, i, num_literals, rep_offset, next_index,
                     next_literals, did_reduce, passes>>
  BY DEF Skip, GoOn, place
<1>2. i < end /\ m.length # 0
  BY <1>1 DEF IInv, AtMatch, steps
<1>3. m.offset # 0 /\ i + m.length <= end
  BY <1>2, MatchAtHand
<1>4. PlaceOK'
  BY <1>1, QuietTable DEF IInv, PlaceOK, steps
<1>5. Behind'
  BY <1>1 DEF IInv, Behind
<1>6. AtMatch'
  <2>1. i' = i /\ m' = m /\ end' = end /\ next_index' = next_index
    BY <1>1 DEF m, end
  <2>2. QED
    BY <1>1, <1>2, <1>3, <2>1 DEF IInv, AtMatch, steps
<1>7. QED
  BY <1>1, <1>4, <1>5, <1>6, QuietTable DEF IInv

(***************************************************************************)
(* Behind a match, or a single byte, or a place where a match was.         *)
(***************************************************************************)
LEMMA AdvanceStep == ASSUME IInv, Advance \/ KeepSingle PROVE IInv'
<1>1. /\ i' = i + m.length /\ num_literals' = 0
      /\ rep_offset' \in {m.offset, rep_offset} /\ step' = "visit"
      /\ i < end /\ i + m.length <= end /\ m.offset # 0 /\ step # "done"
      /\ UNCHANGED <<window, start, dali, best, next_index, next_literals, did_reduce, passes>>
  <2>1. CASE Advance
    <3>1. /\ step = "advance" /\ i' = i + m.length /\ num_literals' = 0
          /\ rep_offset' = m.offset /\ step' = "visit"
          /\ UNCHANGED <<window, start, dali, best, next_index, next_literals, did_reduce,
                         passes>>
      BY <2>1 DEF Advance, MoveTo
    <3>2. QED
      BY <3>1 DEF IInv, AtMatch, steps
  <2>2. CASE KeepSingle
    <3>1. /\ step = "single" /\ i' = i + 1 /\ num_literals' = 0
          /\ rep_offset' = rep_offset /\ step' = "visit"
          /\ UNCHANGED <<window, start, dali, best, next_index, next_literals, did_reduce,
                         passes>>
      BY <2>2 DEF KeepSingle, MoveTo
    <3>2. m.length = 1 /\ i < end
      BY <3>1 DEF IInv, AtMatch, steps
    <3>3. m.offset # 0 /\ i + m.length <= end
      BY <3>2, MatchAtHand
    <3>4. QED
      BY <3>1, <3>2, <3>3
  <2>3. QED
    BY <2>1, <2>2
<1>2. i \in start + 1 .. end /\ end \in Nat /\ start \in Nat /\ i \in Positions
      /\ m.length \in Nat /\ m.offset \in Nat
  <2>1. i \in Positions
    BY <1>1, TableType DEF Positions
  <2>2. QED
    BY <2>1, TableType, LongestLength DEF m
<1>3. PlaceOK'
  BY <1>1, <1>2, QuietTable DEF IInv, PlaceOK, steps
<1>4. Behind'
  <2> SUFFICES ASSUME NEW p \in start .. i + m.length - 1
               PROVE  p + best[p].length <= i + m.length
    BY <1>1, <1>2 DEF Behind
  <2>1. p \in Positions /\ p \in Nat /\ best[p].length \in Nat
    BY <1>1, <1>2, TableType, LongestLength DEF Positions
  <2>2. CASE p = i
    BY <1>2, <2>1, <2>2 DEF m
  <2>3. CASE p < i
    <3>1. p + best[p].length <= i
      BY <1>2, <2>3 DEF IInv, Behind
    <3>2. QED
      BY <1>2, <2>1, <3>1
  <2>4. CASE p > i
    <3>1. p \in i + 1 .. i + best[i].length - 1
      BY <1>2, <2>1, <2>4 DEF m
    <3>2. best[p].length = 0
      BY <1>2, <3>1, TableType
    <3>3. QED
      BY <1>2, <2>1, <3>2
  <2>5. QED
    BY <1>2, <2>1, <2>2, <2>3, <2>4
<1>5. AtMatch'
  BY <1>1 DEF AtMatch
<1>6. QED
  BY <1>1, <1>3, <1>4, <1>5, QuietTable DEF IInv

LEMMA EndStep == ASSUME IInv, EndPass PROVE IInv'
<1>1. /\ step = "visit" /\ passes' = passes + 1
      /\ UNCHANGED <<window, start, dali, best, next_index, next_literals>>
  BY DEF EndPass
<1>2. start \in Nat /\ end \in Nat /\ start < end /\ best[start].length = 0
  BY TableType
<1>3. ReductionPasses \in Nat \ {0} /\ passes < ReductionPasses
  BY <1>1, ReduceAssumption DEF IInv, PlaceOK
<1>4. CASE /\ passes' < ReductionPasses /\ i' = start + 1 /\ num_literals' = 1
           /\ rep_offset' = 1 /\ step' = "visit" /\ did_reduce' = FALSE
  <2>1. PlaceOK'
    <3>1. /\ i' \in start + 1 .. end /\ num_literals' \in 0 .. i' /\ rep_offset' \in Nat \ {0}
          /\ end' = end /\ start' = start
      BY <1>1, <1>2, <1>4, QuietTable
    <3>2. passes' \in 0 .. ReductionPasses /\ passes' < ReductionPasses
      BY <1>1, <1>3, <1>4 DEF IInv, PlaceOK
    <3>3. did_reduce' \in BOOLEAN /\ step' \in steps
      BY <1>4 DEF steps
    <3>4. QED
      BY <1>1, <3>1, <3>2, <3>3 DEF IInv, PlaceOK
  <2>2. Behind'
    <3> SUFFICES ASSUME NEW p \in start .. start PROVE p + best[p].length <= start + 1
      BY <1>1, <1>2, <1>4 DEF Behind
    <3>1. QED
      BY <1>2
  <2>3. AtMatch'
    BY <1>4 DEF AtMatch
  <2>4. QED
    BY <1>1, <2>1, <2>2, <2>3, QuietTable DEF IInv
<1>5. CASE step' = "done" /\ UNCHANGED <<i, num_literals, rep_offset, did_reduce>>
  <2>1. PlaceOK'
    BY <1>1, <1>2, <1>3, <1>5, QuietTable DEF IInv, PlaceOK, steps
  <2>2. Behind' /\ AtMatch'
    BY <1>1, <1>5 DEF IInv, Behind, AtMatch
  <2>3. QED
    BY <1>1, <2>1, <2>2, QuietTable DEF IInv
<1>6. QED
  BY <1>4, <1>5 DEF EndPass, MoveTo, place

LEMMA InitIInv == Init => IInv
<1> SUFFICES ASSUME Init PROVE IInv
  OBVIOUS
<1>1. PICK p \in Parses : window = p.text /\ start = p.dictionary /\ dali = p.dali /\ best = p.best
  BY DEF Init
<1>2. WindowOK /\ TableOK
  BY <1>1, ReduceAssumption DEF WindowOK, TableOK, end
<1>3. start \in Nat /\ end \in Nat /\ start < end /\ best[start].length = 0
  BY <1>2, EndType DEF TableOK, IsTable
<1>4. /\ i = start + 1 /\ num_literals = 1 /\ rep_offset = 1 /\ next_index = 0
      /\ next_literals = 0 /\ did_reduce = FALSE /\ passes = 0 /\ step = "visit"
  BY DEF Init, Ready
<1>5. PlaceOK
  <2>1. i \in start + 1 .. end /\ num_literals \in 0 .. i /\ rep_offset \in Nat \ {0}
    BY <1>3, <1>4
  <2>2. next_index \in 0 .. end /\ next_literals \in 0 .. end
        /\ passes \in 0 .. ReductionPasses /\ passes < ReductionPasses
    BY <1>3, <1>4, ReduceAssumption
  <2>3. did_reduce \in BOOLEAN /\ step \in steps
    BY <1>4 DEF steps
  <2>4. QED
    BY <2>1, <2>2, <2>3 DEF PlaceOK
<1>6. Behind /\ AtMatch
  BY <1>3, <1>4 DEF Behind, AtMatch
<1>7. QED
  BY <1>2, <1>5, <1>6 DEF IInv

LEMMA NextIInv == ASSUME IInv, [Next]_vars PROVE IInv'
<1>1. CASE Next
  BY <1>1, MergeStep, CountStep, VisitStep, LastOffsetStep, NextOffsetStep, DropStep, JoinStep,
     PairStep, SkipStep, AdvanceStep, SingleStep, EndStep DEF Next
<1>2. CASE UNCHANGED vars
  BY <1>2 DEF vars, place, IInv, WindowOK, TableOK, PlaceOK, Behind, AtMatch, end, m
<1>3. QED
  BY <1>1, <1>2

-----------------------------------------------------------------------------
(***************************************************************************)
(* Which matches the writer takes.  A single byte has a literal before it, *)
(* whatever is rewritten; and as long as a pass has rewritten nothing, it  *)
(* has gone over the table just as the writer's walk does, and has seen    *)
(* every single byte repeat the last offset.                               *)
(***************************************************************************)
LimitOK == MaxMatchLen = 1 => \A p \in Positions : best[p].length <= 1

RunOK == num_literals # 0 => \A p \in start .. i - 1 : p + best[p].length # i

SinglesOK == SinglesApart(best)

(* A state of the walk. *)
IsWalk(w) ==
  w = [next |-> w.next, rep_offset |-> w.rep_offset, size |-> w.size, unused |-> w.unused]

WalkOK ==
  /\ step = "done" => i = end
  /\ ~did_reduce =>
       /\ IsWalk(Walk(best, start, i, dali))
       /\ Walk(best, start, i, dali).next = i - num_literals
       /\ Walk(best, start, i, dali).rep_offset = rep_offset
       /\ Walk(best, start, i, dali).unused = {}
       /\ num_literals = 0 => \E p \in start .. i - 1 : p + best[p].length = i
       /\ step \in {"backward", "forward", "drop", "join", "pair", "advance"} => m.length >= 2

WrittenInv == IInv /\ LimitOK /\ RunOK /\ SinglesOK /\ WalkOK

(* After a rewriting nothing is claimed of the walk. *)
LEMMA RewrittenInv ==
  ASSUME WrittenInv, IInv', NEW table, NEW then, then # "done", Rewrite(table, then),
         MaxMatchLen = 1 => \A p \in Positions : table[p].length <= 1,
         num_literals # 0 => \A p \in start .. i - 1 : p + table[p].length # i,
         SinglesApart(table)
  PROVE  WrittenInv'
<1>1. /\ best' = table /\ did_reduce' = TRUE /\ step' = then
      /\ UNCHANGED <<window, start, dali, i, num_literals, rep_offset, next_index,
                     next_literals, passes>>
  BY DEF Rewrite, place
<1>2. LimitOK'
  BY <1>1 DEF LimitOK, Positions, end
<1>3. RunOK' /\ SinglesOK' /\ WalkOK'
  BY <1>1 DEF RunOK, SinglesOK, WalkOK
<1>4. QED
  BY <1>2, <1>3 DEF WrittenInv

LEMMA ShrunkInv ==
  ASSUME WrittenInv, IInv', NEW table \in [Positions -> Matches], NEW then, then # "done",
         Rewrite(table, then),
         \A p \in Positions \ {i} : table[p].length = 0 \/ table[p] = best[p],
         i \in Positions =>
           /\ table[i].length <= best[i].length
           /\ table[i].length = 1 => best[i].length = 1 \/ num_literals # 0
  PROVE  WrittenInv'
<1>1. /\ end \in Nat /\ start \in Nat /\ start < end /\ i \in start + 1 .. end
      /\ DOMAIN best = Positions /\ DOMAIN table = Positions
  BY TableType DEF WrittenInv
<1>2. \A p \in Positions : best[p].length \in Nat /\ table[p].length \in Nat /\ p \in Nat
  BY TableType, LongestLength DEF WrittenInv, Matches, Positions
<1>3. \A p \in Positions : table[p].length <= best[p].length
  BY <1>2
<1>4. MaxMatchLen = 1 => \A p \in Positions : table[p].length <= 1
  <2> SUFFICES ASSUME MaxMatchLen = 1, NEW p \in Positions PROVE table[p].length <= 1
    OBVIOUS
  <2>1. best[p].length <= 1
    BY DEF WrittenInv, LimitOK
  <2>2. QED
    BY <1>2, <1>3, <2>1
<1>5. num_literals # 0 => \A p \in start .. i - 1 : p + table[p].length # i
  <2> SUFFICES ASSUME num_literals # 0, NEW p \in start .. i - 1 PROVE p + table[p].length # i
    OBVIOUS
  <2>1. p \in Positions \ {i} /\ p + 0 # i
    BY <1>1 DEF Positions
  <2>2. p + best[p].length # i
    BY DEF WrittenInv, RunOK
  <2>3. QED
    BY <2>1, <2>2
<1>6. SinglesApart(table)
  <2> SUFFICES ASSUME NEW p \in Positions, table[p].length = 1, NEW q \in Positions, q < p,
                      q + table[q].length = p
               PROVE  FALSE
    BY <1>1 DEF SinglesApart
  <2>1. best[p].length = 1 => q + best[q].length # p
    BY <1>1 DEF WrittenInv, SinglesOK, SinglesApart
  <2>2. CASE p = i
    <3>1. q \in Positions \ {i} /\ table[q] = best[q] /\ q \in start .. i - 1
      BY <1>2, <2>2 DEF Positions
    <3>2. best[i].length # 1
      BY <2>1, <2>2, <3>1
    <3>3. num_literals # 0
      BY <2>2, <3>2
    <3>4. q + best[q].length # i
      BY <3>1, <3>3 DEF WrittenInv, RunOK
    <3>5. QED
      BY <2>2, <3>1, <3>4
  <2>3. CASE p # i
    <3>1. best[p].length = 1
      BY <2>3
    <3>2. CASE q # i
      BY <1>2, <2>1, <3>1, <3>2
    <3>3. CASE q = i
      <4>1. table[q].length < best[q].length
        BY <1>2, <1>3, <2>1, <3>1
      <4>2. p \in q + 1 .. q + best[q].length - 1
        BY <1>2, <4>1
      <4>3. best[p].length = 0
        BY <4>2, TableType DEF WrittenInv
      <4>4. QED
        BY <3>1, <4>3
    <3>4. QED
      BY <3>2, <3>3
  <2>4. QED
    BY <2>2, <2>3
<1>7. QED
  BY <1>4, <1>5, <1>6, RewrittenInv

(* Two matches, or a literal and a match, that become one. *)
LEMMA JoinedInv ==
  ASSUME WrittenInv, IInv', NEW table \in [Positions -> Matches], NEW then, then # "done",
         Rewrite(table, then), i \in Positions, NEW b \in Positions, i < b,
         best[b].length >= 2, NEW length \in Nat, length >= 2,
         table[i].length = kc_limit_match_len_local(length),
         i + length <= b + best[b].length, table[b].length = 0,
         \A p \in Positions \ {i, b} : table[p] = best[p],
         \A p \in i + 1 .. b - 1 : best[p].length = 0
  PROVE  WrittenInv'
<1>1. /\ end \in Nat /\ start \in Nat /\ start < end /\ i \in start + 1 .. end
      /\ DOMAIN best = Positions /\ DOMAIN table = Positions
  BY TableType DEF WrittenInv
<1>2. \A p \in Positions : best[p].length \in Nat /\ table[p].length \in Nat /\ p \in Nat
  BY TableType, LongestLength DEF WrittenInv, Matches, Positions
<1>3. MaxMatchLen # 1
  BY <1>2 DEF WrittenInv, LimitOK
<1>4. table[i].length >= 2 /\ table[i].length <= length
  BY <1>3, ParsingAssumption DEF kc_limit_match_len_local
<1>5. num_literals # 0 => \A p \in start .. i - 1 : p + table[p].length # i
  <2> SUFFICES ASSUME num_literals # 0, NEW p \in start .. i - 1 PROVE p + table[p].length # i
    OBVIOUS
  <2>1. p \in Positions \ {i, b}
    BY <1>1, <1>2 DEF Positions
  <2>2. p + best[p].length # i
    BY DEF WrittenInv, RunOK
  <2>3. QED
    BY <2>1, <2>2
<1>6. SinglesApart(table)
  <2> SUFFICES ASSUME NEW p \in Positions, table[p].length = 1, NEW q \in Positions, q < p,
                      q + table[q].length = p
               PROVE  FALSE
    BY <1>1 DEF SinglesApart
  <2>1. p \notin {i, b} /\ best[p].length = 1
    BY <1>2, <1>4
  <2>2. \A r \in Positions : r < p => r + best[r].length # p
    BY <1>1, <2>1 DEF WrittenInv, SinglesOK, SinglesApart
  <2>3. q # b
    BY <1>2
  <2>4. q = i
    BY <2>2, <2>3
  <2>5. p \in i + 1 .. b + best[b].length /\ i \in Nat /\ b \in Nat
    BY <1>2, <1>4, <2>4
  <2>6. p > b
    BY <1>2, <2>1, <2>5
  <2>7. p # b + best[b].length
    BY <1>2, <2>2, <2>6
  <2>8. p \in b + 1 .. b + best[b].length - 1
    BY <1>2, <2>5, <2>6, <2>7
  <2>9. best[p].length = 0
    BY <2>8, TableType DEF WrittenInv
  <2>10. QED
    BY <2>1, <2>9
<1>7. QED
  BY <1>3, <1>5, <1>6, RewrittenInv
LEMMA MergeInv == ASSUME WrittenInv, Merge PROVE WrittenInv'
<1> DEFINE b      == i + 1
           n      == best[b]
           length == n.length + 1
           entry  == [length |-> kc_limit_match_len_local(length), offset |-> n.offset]
           table  == [best EXCEPT ![i] = entry, ![b] = NoMatch]
<1>1. /\ Rewrite(table, "visit") /\ b < end
      /\ n.length >= MIN_ENCODED_MATCH_SIZE /\ n.length < MAX_VARLEN
  BY DEF Merge, CanMerge
<1>2. IInv /\ IInv'
  BY MergeStep DEF WrittenInv
<1>3. i \in Positions /\ b \in Positions /\ i \in Nat /\ i < b /\ b \in Nat
      /\ n.length \in Nat /\ n.offset \in Nat
  BY <1>1, <1>2, TableType, LongestLength DEF Positions
<1>4. best[b].length >= 2 /\ length \in Nat /\ length >= 2 /\ length <= MAX_VARLEN
      /\ i + length <= b + best[b].length /\ \A p \in i + 1 .. b - 1 : best[p].length = 0
  BY <1>1, <1>3, LongestLength DEF MIN_ENCODED_MATCH_SIZE
<1> HIDE DEF length, n, b
<1>5. entry \in Matches /\ NoMatch \in Matches /\ NoMatch.length = 0
      /\ entry.length = kc_limit_match_len_local(length)
  BY <1>3, <1>4, LengthLimit, LongestLength DEF Matches, NoMatch
<1> HIDE DEF entry
<1>6. /\ table \in [Positions -> Matches] /\ table[i] = entry /\ table[b] = NoMatch
      /\ \A p \in Positions \ {i, b} : table[p] = best[p]
  BY <1>2, <1>3, <1>5, TableType
<1> HIDE DEF table
<1>7. table[i].length = kc_limit_match_len_local(length) /\ table[b].length = 0
  BY <1>5, <1>6
<1>8. QED
  BY <1>1, <1>2, <1>3, <1>4, <1>6, <1>7, JoinedInv

LEMMA JoinInv == ASSUME WrittenInv, Join PROVE WrittenInv'
<1> DEFINE b      == behind
           n      == best[b]
           length == m.length + n.length
           entry  == [length |-> kc_limit_match_len_local(length), offset |-> m.offset]
           table  == [best EXCEPT ![i].length = kc_limit_match_len_local(length), ![b] = NoMatch]
<1>1. /\ step = "join" /\ Rewrite(table, "visit") /\ b < end
      /\ n.length >= MIN_ENCODED_MATCH_SIZE /\ length <= MAX_VARLEN
  BY DEF Join, CanJoin
<1>2. IInv /\ IInv'
  BY JoinStep DEF WrittenInv
<1>3. i < end /\ m.length # 0
  BY <1>1, <1>2 DEF IInv, AtMatch, steps
<1>4. i \in Positions /\ i \in Nat /\ m.length \in Nat \ {0} /\ m.offset \in Nat
      /\ b = i + m.length /\ m = best[i]
  BY <1>2, <1>3, MatchAtHand, LongestLength DEF behind, m
<1>5. b \in Positions /\ b \in Nat /\ i < b /\ n.length \in Nat
  BY <1>1, <1>2, <1>4, TableType, LongestLength DEF Positions
<1>6. best[b].length >= 2 /\ length \in Nat /\ length >= 2 /\ i + length <= b + best[b].length
  BY <1>1, <1>4, <1>5 DEF MIN_ENCODED_MATCH_SIZE
<1>7. \A p \in i + 1 .. b - 1 : best[p].length = 0
  BY <1>2, <1>4, TableType
<1>8. [best[i] EXCEPT !.length = kc_limit_match_len_local(length)] = entry /\ entry \in Matches
  <2>1. best[i] \in Matches
    BY <1>2, <1>4, TableType
  <2>2. kc_limit_match_len_local(length) \in 0 .. MAX_VARLEN
    BY <1>1, <1>6, LengthLimit, LongestLength
  <2> HIDE DEF length
  <2>3. QED
    BY <1>4, <2>1, <2>2 DEF Matches
<1>9. table = [best EXCEPT ![i] = entry, ![b] = NoMatch]
  BY <1>8
<1> HIDE DEF length, n, b
<1>10. NoMatch \in Matches /\ NoMatch.length = 0
       /\ entry.length = kc_limit_match_len_local(length)
  BY LongestLength DEF Matches, NoMatch
<1> HIDE DEF entry, table
<1>11. /\ table \in [Positions -> Matches] /\ table[i] = entry /\ table[b] = NoMatch
       /\ \A p \in Positions \ {i, b} : table[p] = best[p]
  BY <1>2, <1>4, <1>5, <1>8, <1>9, <1>10, TableType
<1>12. table[i].length = kc_limit_match_len_local(length) /\ table[b].length = 0
  BY <1>10, <1>11
<1>13. QED
  BY <1>1, <1>2, <1>4, <1>5, <1>6, <1>7, <1>11, <1>12, JoinedInv

LEMMA LastOffsetInv == ASSUME WrittenInv, TakeLastOffset PROVE WrittenInv'
<1> DEFINE table == Shortened(rep_offset, SharedLength(rep_offset))
<1>1. step = "backward" /\ Rewrite(table, "forward") /\ i >= rep_offset
      /\ SharedLength(rep_offset) >= 1 /\ num_literals # 0
  BY DEF TakeLastOffset, CanTakeLastOffset
<1>2. IInv /\ IInv'
  BY LastOffsetStep DEF WrittenInv
<1>3. i < end /\ m.length # 0 /\ rep_offset \in Nat \ {0}
  BY <1>1, <1>2 DEF IInv, AtMatch, PlaceOK, steps
<1>4. /\ table \in [Positions -> Matches]
      /\ \A p \in Positions \ {i} : table[p].length = 0 \/ table[p] = best[p]
      /\ table[i].length \in 1 .. m.length
  BY <1>1, <1>2, <1>3, ShortenedTable
<1> HIDE DEF table
<1>5. table[i].length <= best[i].length
  BY <1>4 DEF m
<1>6. QED
  BY <1>1, <1>2, <1>4, <1>5, ShrunkInv

LEMMA NextOffsetInv == ASSUME WrittenInv, TakeNextOffset PROVE WrittenInv'
<1> DEFINE shared == SharedLength(next.offset)
           whole  == [best EXCEPT ![i].offset = next.offset]
           table  == IF shared = m.length THEN whole ELSE Shortened(next.offset, shared)
<1>1. step = "forward" /\ Rewrite(table, "drop") /\ i >= next.offset
      /\ next.offset # 0 /\ (shared = m.length \/ shared >= 2)
      /\ next.length >= MIN_ENCODED_MATCH_SIZE
  BY DEF TakeNextOffset, CanTakeNextOffset
<1>2. IInv /\ IInv'
  BY NextOffsetStep DEF WrittenInv
<1>3. i < end /\ m.length # 0 /\ next_index \in i .. end - 1
  BY <1>1, <1>2 DEF IInv, AtMatch, steps
<1>4. /\ i \in Positions /\ i \in Nat /\ m.length \in 1 .. MAX_VARLEN
  BY <1>2, <1>3, MatchAtHand
<1>5. next_index \in Positions /\ next.offset \in Nat \ {0} /\ next.length \in Nat
      /\ next = best[next_index]
  <2>1. next_index \in Positions
    BY <1>2, <1>3, TableType DEF Positions
  <2>2. QED
    BY <1>1, <1>2, <2>1, TableType, LongestLength DEF next
<1>6. MaxMatchLen # 1
  BY <1>1, <1>5 DEF WrittenInv, LimitOK, MIN_ENCODED_MATCH_SIZE
<1>7. shared \in 1 .. m.length
  BY <1>1, <1>4, SharedType, LongestLength
<1>8. /\ table \in [Positions -> Matches]
      /\ \A p \in Positions \ {i} : table[p].length = 0 \/ table[p] = best[p]
      /\ table[i].length <= best[i].length
      /\ table[i].length = 1 => best[i].length = 1
  <2>1. CASE shared = m.length
    <3> DEFINE entry == [length |-> m.length, offset |-> next.offset]
    <3>1. best[i] \in Matches /\ best \in [Positions -> Matches]
      BY <1>2, <1>4, TableType
    <3>2. [best[i] EXCEPT !.offset = next.offset] = entry /\ entry \in Matches
      BY <1>4, <1>5, <3>1 DEF m, Matches
    <3>3. whole = [best EXCEPT ![i] = entry]
      BY <3>2
    <3>4. whole \in [Positions -> Matches] /\ whole[i] = entry
          /\ \A p \in Positions \ {i} : whole[p] = best[p]
      BY <1>4, <3>1, <3>2, <3>3
    <3>5. whole[i].length = best[i].length /\ best[i].length \in Nat
      BY <1>4, <3>4, LongestLength DEF m
    <3>6. table = whole
      BY <2>1
    <3> HIDE DEF table, whole
    <3>7. QED
      BY <3>4, <3>5, <3>6
  <2>2. CASE shared # m.length
    <3>1. table = Shortened(next.offset, SharedLength(next.offset))
      BY <2>2
    <3> HIDE DEF table
    <3>2. /\ table \in [Positions -> Matches]
          /\ \A p \in Positions \ {i} : table[p].length = 0 \/ table[p] = best[p]
          /\ table[i].length = kc_limit_match_len_local(shared)
          /\ table[i].length \in 1 .. m.length
      BY <1>1, <1>2, <1>3, <1>5, <1>7, <3>1, ShortenedTable
    <3>3. table[i].length # 1
      <4>1. shared \in Nat /\ shared >= 2
        BY <1>1, <1>7, <2>2
      <4> HIDE DEF shared
      <4>2. QED
        BY <1>6, <3>2, <4>1, ParsingAssumption DEF kc_limit_match_len_local
    <3>4. QED
      BY <3>2, <3>3 DEF m
  <2>3. QED
    BY <2>1, <2>2
<1> HIDE DEF table
<1>9. QED
  BY <1>1, <1>2, <1>8, ShrunkInv

LEMMA ClearedInv ==
  ASSUME WrittenInv, IInv', NEW positions, i \in positions, NEW then, then # "done",
         Rewrite(Cleared(positions), then)
  PROVE  WrittenInv'
<1> DEFINE table == Cleared(positions)
<1>1. IInv
  BY DEF WrittenInv
<1>2. /\ table \in [Positions -> Matches]
      /\ \A p \in Positions \ {i} : table[p].length = 0 \/ table[p] = best[p]
      /\ i \in Positions => table[i].length = 0
  BY <1>1, ClearedTable
<1>3. i \in Positions => table[i].length <= best[i].length
  BY <1>1, <1>2, TableType
<1> HIDE DEF table
<1>4. Rewrite(table, then)
  BY DEF table
<1>5. QED
  BY <1>2, <1>3, <1>4, ShrunkInv

LEMMA DropInv == ASSUME WrittenInv, Drop PROVE WrittenInv'
<1> DEFINE positions == i .. i + m.length - 1
<1>1. step = "drop" /\ Rewrite(Cleared(positions), "visit")
  BY DEF Drop
<1>2. IInv /\ IInv'
  BY DropStep DEF WrittenInv
<1>3. i < end /\ m.length # 0
  BY <1>1, <1>2 DEF IInv, AtMatch, steps
<1>4. i \in positions
  BY <1>2, <1>3, MatchAtHand
<1> HIDE DEF positions
<1>5. QED
  BY <1>1, <1>2, <1>4, ClearedInv

LEMMA PairInv == ASSUME WrittenInv, DropPair PROVE WrittenInv'
<1> DEFINE positions == {i, i + 1, NextMatch(behind)}
<1>1. Rewrite(Cleared(positions), "advance")
  BY DEF DropPair
<1>2. IInv'
  BY PairStep DEF WrittenInv
<1>3. i \in positions
  OBVIOUS
<1> HIDE DEF positions
<1>4. QED
  BY <1>1, <1>2, <1>3, ClearedInv

LEMMA SingleInv == ASSUME WrittenInv, DropSingle PROVE WrittenInv'
<1> DEFINE table == [best EXCEPT ![i] = NoMatch]
<1>1. Rewrite(table, "visit")
  BY DEF DropSingle
<1>2. IInv /\ IInv'
  BY SingleStep DEF WrittenInv
<1>3. NoMatch \in Matches /\ NoMatch.length = 0
  BY LongestLength DEF NoMatch, Matches
<1>4. table \in [Positions -> Matches] /\ (i \in Positions => table[i] = NoMatch)
      /\ \A p \in Positions \ {i} : table[p] = best[p]
  BY <1>2, <1>3, TableType
<1>5. i \in Positions => table[i].length <= best[i].length
  BY <1>2, <1>3, <1>4, TableType
<1> HIDE DEF table
<1>6. QED
  BY <1>1, <1>2, <1>3, <1>4, <1>5, ShrunkInv
(***************************************************************************)
(* The steps that leave the table as it is, and go on with the walk.       *)
(***************************************************************************)
LEMMA QuietInv ==
  ASSUME WrittenInv, UNCHANGED <<window, start, dali, best>>
  PROVE  LimitOK' /\ SinglesOK'
  BY DEF WrittenInv, LimitOK, SinglesOK, Positions, end

LEMMA CountInv == ASSUME WrittenInv, CountLiteral PROVE WrittenInv'
<1>1. /\ i < end /\ m.length = 0
      /\ i' = i + 1 /\ num_literals' = num_literals + 1 /\ rep_offset' = rep_offset
      /\ step' = "visit"
      /\ UNCHANGED <<window, start, dali, best, next_index, next_literals, did_reduce, passes>>
  BY DEF CountLiteral, MoveTo
<1>2. IInv /\ IInv'
  BY CountStep DEF WrittenInv
<1>3. i \in start + 1 .. end /\ end \in Nat /\ start \in Nat /\ i \in Positions
      /\ num_literals \in Nat
  <2>1. i \in start + 1 .. end /\ end \in Nat /\ start \in Nat
    BY <1>2, TableType
  <2>2. num_literals \in 0 .. i
    BY <1>2 DEF IInv, PlaceOK
  <2>3. QED
    BY <1>1, <2>1, <2>2 DEF Positions
<1>4. RunOK'
  <2> SUFFICES ASSUME NEW p \in start .. i PROVE p + best[p].length # i + 1
    BY <1>1, <1>3 DEF RunOK
  <2>1. CASE p = i
    BY <1>1, <1>3, <2>1 DEF m
  <2>2. CASE p # i
    <3>1. p \in start .. i - 1 /\ p \in Positions
      BY <1>3, <2>2 DEF Positions
    <3>2. p + best[p].length <= i /\ best[p].length \in Nat
      BY <1>2, <3>1, TableType, LongestLength DEF IInv, Behind
    <3>3. QED
      BY <1>3, <3>2
  <2>3. QED
    BY <2>1, <2>2
<1>5. WalkOK'
  <2>1. Walk(best, start, i + 1, dali) = Walk(best, start, i, dali)
    <3>1. Walk(best, start, i + 1, dali) = Onward(Walk(best, start, i, dali), i, best, dali)
      BY <1>3, WalkStep
    <3>2. QED
      BY <1>1, <3>1 DEF Onward, m
  <2>2. num_literals' # 0 /\ i' - num_literals' = i - num_literals
    BY <1>1, <1>3
  <2>3. QED
    BY <1>1, <2>1, <2>2 DEF WrittenInv, WalkOK
<1>6. QED
  BY <1>1, <1>2, <1>4, <1>5, QuietInv DEF WrittenInv

LEMMA VisitInv == ASSUME WrittenInv, VisitMatch \/ Skip PROVE WrittenInv'
<1>1. IInv /\ IInv'
  BY VisitStep, SkipStep DEF WrittenInv
<1>2. /\ step' # "done" /\ step # "done"
      /\ UNCHANGED <<window, start, dali, best, i, num_literals, rep_offset, did_reduce, passes>>
  BY DEF VisitMatch, Skip, GoOn, place, MIN_ENCODED_MATCH_SIZE
<1>3. ~did_reduce /\ step' \in {"backward", "forward", "drop", "join", "pair", "advance"}
        => m.length >= 2
  <2>1. CASE VisitMatch
    <3>1. step' = (IF m.length < 2 THEN "single"
                   ELSE IF next_index' < end THEN "backward" ELSE "join")
          /\ i < end
      BY <2>1 DEF VisitMatch, MIN_ENCODED_MATCH_SIZE
    <3>2. m.length \in Nat
      BY <1>1, <3>1, TableType, LongestLength DEF m, Positions
    <3>3. QED
      BY <3>1, <3>2
  <2>2. CASE Skip
    <3>1. step \in {"backward", "forward", "drop", "join", "pair"}
      BY <2>2 DEF Skip
    <3>2. QED
      BY <3>1 DEF WrittenInv, WalkOK
  <2>3. QED
    BY <2>1, <2>2
<1>4. RunOK' /\ m' = m
  BY <1>2 DEF WrittenInv, RunOK, m
<1>5. WalkOK'
  BY <1>2, <1>3, <1>4 DEF WrittenInv, WalkOK
<1>6. QED
  BY <1>1, <1>2, <1>4, <1>5, QuietInv DEF WrittenInv

LEMMA AdvanceInv == ASSUME WrittenInv, Advance \/ KeepSingle PROVE WrittenInv'
<1>1. IInv /\ IInv'
  BY AdvanceStep DEF WrittenInv
<1>2. /\ i' = i + m.length /\ num_literals' = 0 /\ step' = "visit" /\ i < end
      /\ UNCHANGED <<window, start, dali, best, next_index, next_literals, did_reduce, passes>>
  <2>1. CASE Advance
    <3>1. step = "advance"
      BY <2>1 DEF Advance
    <3>2. QED
      BY <1>1, <2>1, <3>1 DEF Advance, MoveTo, IInv, AtMatch, steps
  <2>2. CASE KeepSingle
    <3>1. step = "single"
      BY <2>2 DEF KeepSingle
    <3>2. m.length = 1 /\ i < end
      BY <1>1, <3>1 DEF IInv, AtMatch, steps
    <3>3. QED
      BY <2>2, <3>2 DEF KeepSingle, MoveTo
  <2>3. QED
    BY <2>1, <2>2
<1>3. i \in start + 1 .. end /\ end \in Nat /\ start \in Nat /\ i \in Positions /\ i \in Nat
      /\ num_literals \in Nat /\ m = best[i] /\ m.length \in Nat /\ m.offset \in Nat
  <2>1. i \in start + 1 .. end /\ end \in Nat /\ start \in Nat
    BY <1>1, TableType
  <2>2. num_literals \in 0 .. i /\ i \in Positions
    BY <1>1, <1>2, <2>1 DEF IInv, PlaceOK, Positions
  <2>3. QED
    BY <1>1, <2>1, <2>2, TableType, LongestLength DEF m
<1>4. RunOK'
  BY <1>2 DEF RunOK
<1>5. WalkOK'
  <2> DEFINE w == Walk(best, start, i, dali)
  <2> DEFINE x == i + m.length
  <2>1. SUFFICES ASSUME ~did_reduce
                 PROVE  /\ IsWalk(Walk(best, start, x, dali))
                        /\ Walk(best, start, x, dali).next = x
                        /\ Walk(best, start, x, dali).rep_offset = rep_offset'
                        /\ Walk(best, start, x, dali).unused = {}
                        /\ \E p \in start .. x - 1 : p + best[p].length = x
    <3>1. step' = "visit" /\ i' = x /\ i' - num_literals' = x
          /\ start' = start /\ best' = best /\ dali' = dali /\ did_reduce' = did_reduce
      BY <1>2, <1>3
    <3> HIDE DEF x
    <3>2. ~did_reduce =>
            /\ IsWalk(Walk(best, start, x, dali)) /\ Walk(best, start, x, dali).next = x
            /\ Walk(best, start, x, dali).rep_offset = rep_offset'
            /\ Walk(best, start, x, dali).unused = {}
            /\ \E p \in start .. x - 1 : p + best[p].length = x
      BY <2>1
    <3>3. QED
      BY <3>1, <3>2 DEF WalkOK
  <2>2. /\ IsWalk(w)
        /\ w.next = i - num_literals /\ w.rep_offset = rep_offset /\ w.unused = {}
        /\ num_literals = 0 => \E p \in start .. i - 1 : p + best[p].length = i
    BY <2>1 DEF WrittenInv, WalkOK
  <2> HIDE DEF w
  <2>3. m.length # 0 /\ rep_offset' = m.offset
        /\ (m.length >= 2 \/ (m.offset = rep_offset /\ num_literals # 0))
    <3>1. CASE Advance
      <4>1. m.length >= 2
        BY <2>1, <3>1 DEF Advance, WrittenInv, WalkOK
      <4>2. QED
        BY <1>3, <3>1, <4>1 DEF Advance, MoveTo
    <3>2. CASE KeepSingle
      <4>1. step = "single" /\ ~CanDropSingle /\ rep_offset' = rep_offset
        BY <3>2 DEF KeepSingle, MoveTo
      <4>2. m.length = 1
        BY <1>1, <4>1 DEF IInv, AtMatch, steps
      <4>3. num_literals # 0
        <5>1. SUFFICES ASSUME NEW p \in start .. i - 1, p + best[p].length = i PROVE FALSE
          BY <2>2
        <5>2. p \in Positions /\ p < i /\ DOMAIN best = Positions
          BY <1>1, <1>3, TableType DEF Positions
        <5>3. QED
          BY <1>3, <4>2, <5>1, <5>2 DEF WrittenInv, SinglesOK, SinglesApart
      <4>4. m.offset = rep_offset
        BY <2>1, <4>1, <4>3 DEF CanDropSingle
      <4>5. QED
        BY <4>1, <4>2, <4>3, <4>4
    <3>3. QED
      BY <3>1, <3>2
  <2>4. Walk(best, start, i + 1, dali) = WalkOn(w, i, m, dali)
    <3>1. Walk(best, start, i + 1, dali) = Onward(w, i, best, dali)
      BY <1>3, WalkStep DEF w
    <3>2. QED
      BY <1>3, <2>3, <3>1 DEF Onward
  <2>5. i - w.next = num_literals /\ num_literals >= 0
    BY <1>3, <2>2
  <2> DEFINE v == WalkOn(w, i, m, dali)
             repeated == m.offset = w.rep_offset /\ i - w.next # 0
             size     == w.size + RunSize(i - w.next)
                         + (IF repeated THEN RepeatSize(m.length) ELSE OffsetMatchSize(m, dali))
  <2>6. v = [w EXCEPT !.next = i + m.length, !.rep_offset = m.offset,
                      !.size = @ + RunSize(i - w.next)
                               + (IF repeated THEN RepeatSize(m.length)
                                  ELSE OffsetMatchSize(m, dali))]
    BY <2>2, <2>3, <2>5 DEF WalkOn
  <2>7. IsWalk(v) /\ v.next = x /\ v.rep_offset = m.offset /\ v.unused = {}
    <3>1. v = [next |-> i + m.length, rep_offset |-> m.offset, size |-> size, unused |-> w.unused]
      <4> HIDE DEF v, repeated
      <4>1. PICK a, b, c, d : w = [next |-> a, rep_offset |-> b, size |-> c, unused |-> d]
        BY <2>2 DEF IsWalk
      <4>2. v = [w EXCEPT !.next = i + m.length, !.rep_offset = m.offset, !.size = size]
        BY <2>6
      <4> HIDE DEF size
      <4>3. QED
        BY <4>1, <4>2
    <3> HIDE DEF v, size
    <3>2. QED
      BY <2>2, <3>1 DEF IsWalk
  <2>8. Walk(best, start, x, dali) = v
    <3> DEFINE p == i + 1
    <3>1. x \in Nat /\ p \in Nat /\ start <= p /\ p <= x /\ x - 1 = i + m.length - 1
      BY <1>3, <2>3
    <3>2. \A q \in p .. x - 1 : best[q].length = 0
      <4>1. \A q \in i + 1 .. i + best[i].length - 1 : best[q].length = 0
        BY <1>1, <1>3, TableType
      <4>2. QED
        BY <1>3, <3>1, <4>1
    <3>3. Walk(best, start, p, dali) = v
      BY <2>4
    <3> HIDE DEF v, p, x
    <3>4. Walk(best, start, x, dali) = Walk(best, start, p, dali)
      BY <1>3, <3>1, <3>2, WalkOver
    <3>5. QED
      BY <3>3, <3>4
  <2> HIDE DEF v
  <2>9. i \in start .. x - 1 /\ i + best[i].length = x
    BY <1>3, <2>3
  <2>10. \E p \in start .. x - 1 : p + best[p].length = x
    <3> HIDE DEF x
    <3>1. QED
      BY <2>9
  <2> HIDE DEF x
  <2>11. QED
    BY <2>1, <2>3, <2>7, <2>8, <2>10
<1>6. QED
  BY <1>1, <1>2, <1>4, <1>5, QuietInv DEF WrittenInv

LEMMA FirstLiteral ==
  ASSUME WindowOK, TableOK
  PROVE  Walk(best, start, start + 1, dali) = StartOfWalk(start)
<1>1. start \in Nat /\ start <= start /\ best[start].length = 0
  BY EndType DEF TableOK, IsTable
<1>2. Walk(best, start, start + 1, dali) = Onward(Walk(best, start, start, dali), start, best, dali)
  BY <1>1, WalkStep
<1>3. QED
  BY <1>1, <1>2, WalkStart DEF Onward

LEMMA NewPass ==
  ASSUME WindowOK, TableOK, i = start + 1, num_literals = 1, rep_offset = 1, step = "visit"
  PROVE  RunOK /\ WalkOK
<1>1. start \in Nat /\ best[start].length = 0
  BY EndType DEF TableOK, IsTable
<1>2. RunOK
  <2> SUFFICES ASSUME NEW p \in start .. i - 1 PROVE p + best[p].length # i
    BY DEF RunOK
  <2>1. p = start
    BY <1>1
  <2>2. QED
    BY <1>1, <2>1
<1>3. Walk(best, start, i, dali) = [next |-> start, rep_offset |-> 1, size |-> 0, unused |-> {}]
  BY FirstLiteral DEF StartOfWalk
<1>4. IsWalk(Walk(best, start, i, dali))
  BY <1>3 DEF IsWalk
<1>5. start = i - num_literals
  BY <1>1
<1>6. WalkOK
  BY <1>3, <1>4, <1>5 DEF WalkOK
<1>7. QED
  BY <1>2, <1>6

LEMMA EndInv == ASSUME WrittenInv, EndPass PROVE WrittenInv'
<1>1. /\ step = "visit" /\ i >= end
      /\ UNCHANGED <<window, start, dali, best, next_index, next_literals>>
  BY DEF EndPass
<1>2. IInv /\ IInv'
  BY EndStep DEF WrittenInv
<1>3. CASE /\ i' = start + 1 /\ num_literals' = 1 /\ rep_offset' = 1 /\ step' = "visit"
  <2>1. WindowOK' /\ TableOK' /\ i' = start' + 1
    BY <1>1, <1>2, <1>3 DEF IInv
  <2>2. (WindowOK /\ TableOK /\ i = start + 1 /\ num_literals = 1 /\ rep_offset = 1
          /\ step = "visit" => RunOK /\ WalkOK)'
    BY NewPass, PTL
  <2>3. RunOK' /\ WalkOK'
    BY <1>3, <2>1, <2>2
  <2>4. QED
    BY <1>1, <1>2, <2>3, QuietInv DEF WrittenInv
<1>4. CASE step' = "done" /\ UNCHANGED <<i, num_literals, rep_offset, did_reduce>>
  <2>1. i = end
    BY <1>1, <1>2, TableType
  <2>2. RunOK' /\ WalkOK'
    BY <1>1, <1>4, <2>1 DEF WrittenInv, RunOK, WalkOK, end
  <2>3. QED
    BY <1>1, <1>2, <2>2, QuietInv DEF WrittenInv
<1>5. QED
  BY <1>3, <1>4 DEF EndPass, MoveTo, place

LEMMA InitWritten == Init => WrittenInv
<1> SUFFICES ASSUME Init PROVE WrittenInv
  OBVIOUS
<1>1. PICK p \in Parses : window = p.text /\ start = p.dictionary /\ dali = p.dali /\ best = p.best
  BY DEF Init
<1>2. IInv
  BY InitIInv
<1>3. SinglesOK
  BY <1>1, ReduceAssumption DEF SinglesOK
<1>4. LimitOK
  <2> SUFFICES ASSUME MaxMatchLen = 1, NEW q \in Positions PROVE best[q].length <= 1
    BY DEF LimitOK
  <2>1. q \in DOMAIN best /\ best[q].length \in Nat
    BY <1>2, TableType, LongestLength
  <2>2. kc_limit_match_len_local(best[q].length) = best[q].length
    BY <1>1, <2>1, ReduceAssumption
  <2>3. QED
    BY <2>1, <2>2 DEF kc_limit_match_len_local
<1>5. RunOK /\ WalkOK
  BY <1>2, NewPass DEF Init, Ready, IInv
<1>6. QED
  BY <1>2, <1>3, <1>4, <1>5 DEF WrittenInv

LEMMA NextWritten == ASSUME WrittenInv, [Next]_vars PROVE WrittenInv'
<1>1. CASE Next
  BY <1>1, MergeInv, CountInv, VisitInv, LastOffsetInv, NextOffsetInv, DropInv, JoinInv,
     PairInv, AdvanceInv, SingleInv, EndInv DEF Next
<1>2. CASE UNCHANGED vars
  <2>1. IInv'
    BY <1>2, NextIInv DEF WrittenInv
  <2>2. LimitOK' /\ SinglesOK'
    BY <1>2, QuietInv DEF vars
  <2>3. RunOK' /\ WalkOK'
    BY <1>2 DEF vars, place, WrittenInv, RunOK, WalkOK, end, m
  <2>4. QED
    BY <2>1, <2>2, <2>3 DEF WrittenInv
<1>3. QED
  BY <1>1, <1>2

-----------------------------------------------------------------------------
THEOREM ReductionInvariant == Spec => []IInv
<1>1. IInv /\ [Next]_vars => IInv'
  BY NextIInv
<1>2. QED
  BY <1>1, InitIInv, PTL DEF Spec

(***************************************************************************)
(* The variables have their types; positions stay inside the payload, and  *)
(* the next match that is looked at is one of the payload.                 *)
(***************************************************************************)
THEOREM ReductionTypes == Spec => []TypeOK
<1>1. IInv => TypeOK
  <2> SUFFICES ASSUME IInv PROVE TypeOK
    OBVIOUS
  <2>1. i \in start + 1 .. end /\ end \in Nat /\ start \in Nat /\ num_literals \in 0 .. i
    BY TableType DEF IInv, PlaceOK
  <2>2. num_literals \in 0 .. end
    BY <2>1
  <2>3. best \in [start .. end - 1 -> [length : 0 .. MAX_VARLEN, offset : Nat]]
    BY TableType DEF Positions, Matches
  <2>4. step \in {"backward", "forward", "drop"} => next_index < end
    BY <2>1 DEF IInv, AtMatch
  <2>5. QED
    BY <2>2, <2>3, <2>4 DEF TypeOK, IInv, PlaceOK, AtMatch
<1>2. QED
  BY <1>1, ReductionInvariant, PTL

(***************************************************************************)
(* Whatever is rewritten, every match of the table copies the bytes it     *)
(* stands for from inside the window.                                      *)
(***************************************************************************)
THEOREM MatchesCorrect == Spec => []MatchesStayCorrect
<1>1. IInv => MatchesStayCorrect
  BY TableType DEF MatchesStayCorrect, Positions
<1>2. QED
  BY <1>1, ReductionInvariant, PTL

(***************************************************************************)
(* No match begins inside another.                                         *)
(***************************************************************************)
THEOREM MatchesApart == Spec => []MatchesStayApart
<1>1. IInv => MatchesStayApart
  BY TableType DEF MatchesStayApart, Positions
<1>2. QED
  BY <1>1, ReductionInvariant, PTL

(***************************************************************************)
(* Once a pass has found nothing to rewrite, the writer takes every match  *)
(* for one: no single byte is left that does not repeat the last offset.   *)
(* Where the limit of passes ends the reduction after a pass that did      *)
(* rewrite something, did_reduce is left true, and nothing is claimed.     *)
(***************************************************************************)
THEOREM MatchesAreWritten == Spec => [](did_reduce \/ EveryMatchIsWritten)
<1>1. WrittenInv => did_reduce \/ EveryMatchIsWritten
  BY DEF WrittenInv, WalkOK, EveryMatchIsWritten
<1>2. WrittenInv /\ [Next]_vars => WrittenInv'
  BY NextWritten
<1>3. QED
  BY <1>1, <1>2, InitWritten, PTL DEF Spec
=============================================================================
