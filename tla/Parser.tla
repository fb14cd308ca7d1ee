------------------------------- MODULE Parser -------------------------------
(***************************************************************************)
(* The parser of kc_shrink.c, salvador_optimize_and_write_block up to the  *)
(* table best_match: the lists of matches are supplemented, a first pass   *)
(* over the payload adds matches that could be repeated later, the lists   *)
(* are supplemented further, and a second pass picks the cheapest way to   *)
(* arrive at the end, which is traced back into the table.                 *)
(*                                                                         *)
(* One action per position or per match tried there; the recursion of      *)
(* salvador_insert_forward_match is a stack of the calls that go on, with  *)
(* one action for each arrival they look at.                               *)
(***************************************************************************)
EXTENDS Parsing, Arrivals

CONSTANTS
  LCP_MAX,       \* longest length of a match
  MaxOffset,     \* max_offset
  MaxMatches,    \* search.max_matches_per_position: 78
  Settings       \* what search can be: kc_search_config, its booleans as such

ASSUME ParserAssumption ==    \* kc_search_validate, and what it takes for granted
  /\ LCP_MAX \in 1 .. MAX_VARLEN /\ MaxMatches \in Nat \ {0, 1} /\ MaxOffset \in 1 .. MAX_OFFSET
  /\ \A s \in Settings :
       /\ s.max_arrivals_per_position \in Nat
       /\ s.forward_arrivals \in 2 .. s.max_arrivals_per_position
       /\ s.initial_supplement_matches \in 0 .. MaxMatches
       /\ s.supplement_match_length_limit \in 2 .. LCP_MAX
       /\ s.supplement_trigger_length >= 1
       /\ s.forward_insert_limit \in Nat \ {0} /\ s.exhaustive_length_threshold >= 2

VARIABLES
  window, start, dali,    \* pInWindow, nStartOffset, the format
  search,                 \* search
  match,                  \* lists of [length, offset, depth], per position
  arrival,                \* slots in use, per position
  visited,                \* the offset a position was visited with
  best,                   \* best_match
  second,                 \* FALSE in the first pass: nInsertForwardReps
  stage,                  \* what comes next
  pos,                    \* i, nPosition; in the end the place in the trace
  m, d,                   \* match of pos and depth (or 0) that are tried
  min_rep, max_rep,       \* nOverallMinRepLen, nOverallMaxRepLen
  calls                   \* salvador_insert_forward_match, the innermost first

tables == <<match, arrival, visited, best>>
tried  == <<m, d, min_rep, max_rep>>

end == Len(window)

OffsetBits(offset) == kc_offset_bit_cost(offset, dali)
RunBits(n)         == salvador_get_literals_varlen_size(n)

nArrivalsPerPosition ==
  IF second THEN search.max_arrivals_per_position ELSE search.forward_arrivals

(* How many bytes at p are those at the offset before it, up to a limit. *)
Agreeing(p, offset, limit) ==
  Max({l \in 0 .. Min({limit, end - p}) : SameBytes(window, p, offset, l)})

NoArrivals == [p \in start .. end |-> <<>>]

FirstArrival ==
  [cost |-> 0, score |-> 0, rep_offset |-> 1, rep_pos |-> 0, num_literals |-> 0,
   match_len |-> 0, from_pos |-> 0, from_slot |-> 0]    \* from_slot: -1, none

(* Before anything is parsed; the window and match are the match finder's. *)
Ready ==
  /\ search \in Settings /\ dali \in BOOLEAN
  /\ arrival = NoArrivals
  /\ visited = [p \in start .. end - 1 |-> 0]
  /\ best = [p \in start .. end - 1 |-> NoMatch]
  /\ second = FALSE /\ stage = "supplement" /\ pos = start + 1
  /\ m = 1 /\ d = 0 /\ min_rep = 0 /\ max_rep = 0 /\ calls = <<>>

-----------------------------------------------------------------------------
(***************************************************************************)
(* Supplements: earlier places in the payload with the same two bytes, the *)
(* nearest first, unless an entry has their offset at one of its ends.     *)
(***************************************************************************)
Listed(list, offset) ==
  \E k \in DOMAIN list : offset \in {list[k].offset, list[k].offset - list[k].depth}

SamePairs(p) == {o \in 1 .. Min({p - start, MaxOffset}) : SameBytes(window, p, o, 2)}

Entries_Unchecked(p, offsets) ==    \* mutant: only the pair is compared
  [k \in DOMAIN offsets |->
     [length |-> Min({search.supplement_match_length_limit, end - p}),
      offset |-> offsets[k], depth |-> 0]]

Entries(p, offsets) ==
  [k \in DOMAIN offsets |->
     [length |-> kc_limit_match_len_local(
                   Agreeing(p, offsets[k], search.supplement_match_length_limit)),
      offset |-> offsets[k], depth |-> 0]]

(* The smallest of a set of offsets, in order, up to count of them. *)
Nearest(offsets, count) ==
  [k \in 1 .. Min({Cardinality(offsets), Max({count, 0})}) |->
     CHOOSE o \in offsets : Cardinality({q \in offsets : q < o}) = k - 1]

Supplements(p) ==
  Entries(p, Nearest({o \in SamePairs(p) : ~Listed(match[p], o)},
                     search.initial_supplement_matches - Len(match[p])))

StartPass(is_second) ==
  /\ second' = is_second /\ stage' = "arrive" /\ pos' = start
  /\ arrival' = [NoArrivals EXCEPT ![start] = <<FirstArrival>>]
  /\ visited' = IF is_second THEN visited ELSE [p \in DOMAIN visited |-> 0]
  /\ UNCHANGED <<best, tried, calls>>

Supplement ==
  /\ stage = "supplement" /\ pos < end - 1
  /\ match' = [match EXCEPT ![pos] = @ \o Supplements(pos)]
  /\ pos' = pos + 1
  /\ UNCHANGED <<window, start, dali, search, arrival, visited, best, second, stage,
                 tried, calls>>

FirstPass ==
  /\ stage = "supplement" /\ pos >= end - 1
  /\ StartPass(FALSE)
  /\ UNCHANGED <<window, start, dali, search, match>>

-----------------------------------------------------------------------------
(***************************************************************************)
(* Forward insertion: a match at this offset is worth more at an earlier   *)
(* position, from where it would be repeated here.  The arrivals lead to   *)
(* these positions; each position is visited once with an offset, unless   *)
(* it was with another in between.                                         *)
(***************************************************************************)
Call(p, offset, depth) == [at |-> p, offset |-> offset, depth |-> depth, slot |-> 1]

call == Head(calls)
GoOn_Again == call    \* mutant: the same arrival is looked at again

GoOn == [call EXCEPT !.slot = @ + 1]
Return == call.slot > Min({search.forward_arrivals, Len(arrival[call.at])})

CanVisit ==
  LET a == arrival[call.at][call.slot]
  IN  /\ a.num_literals # 0 /\ a.rep_offset # call.offset
      /\ a.rep_pos \in start .. end - 1 /\ visited[a.rep_pos] # call.offset

CanRepeat_Full(p) ==    \* mutant: room in the list is taken for granted
  p >= call.offset /\ SameBytes(window, p, call.offset, 1)

CanRepeat(p) ==
  /\ Len(match[p]) < MaxMatches
  /\ p >= call.offset /\ SameBytes(window, p, call.offset, 1)

Visit ==
  /\ calls # <<>> /\ ~Return /\ CanVisit
  /\ LET p      == arrival[call.at][call.slot].rep_pos
         length == kc_limit_match_len_local(Agreeing(p, call.offset, LCP_MAX))
         entry  == {k \in DOMAIN match[p] : match[p][k].offset = call.offset}
     IN  /\ visited' = [visited EXCEPT ![p] = call.offset]
         /\ IF CanRepeat(p) /\ entry = {}
            THEN /\ match' = [match EXCEPT ![p] = Append(@,
                       [length |-> length, offset |-> call.offset, depth |-> 0])]
                 /\ calls' = (IF call.depth < search.forward_repeat_depth
                              THEN <<Call(p, call.offset, call.depth + 1)>> ELSE <<>>)
                             \o <<GoOn>> \o Tail(calls)
            ELSE /\ match' = [match EXCEPT ![p] = [k \in DOMAIN @ |->
                       IF /\ CanRepeat(p) /\ k = Min(entry)
                          /\ @[k].depth = 0 /\ @[k].length < length
                       THEN [@[k] EXCEPT !.length = length] ELSE @[k]]]
                 /\ calls' = <<GoOn>> \o Tail(calls)
  /\ UNCHANGED <<window, start, dali, search, arrival, best, second, stage, pos, tried>>

Pass ==
  /\ calls # <<>>
  /\ ~(~Return /\ CanVisit)
  /\ calls' = (IF Return THEN <<>> ELSE <<GoOn>>) \o Tail(calls)
  /\ UNCHANGED <<window, start, dali, search, tables, second, stage, pos, tried>>

-----------------------------------------------------------------------------
(* One position of a pass.  First, every arrival goes on with a literal. *)
here == arrival[pos]

WithLiteral_NewRun(k) ==    \* mutant: the run is not continued
  [cost |-> here[k].cost + ByteBits + RunBits(1), score |-> here[k].score + 1,
   rep_offset |-> here[k].rep_offset, rep_pos |-> here[k].rep_pos,
   num_literals |-> here[k].num_literals + 1, match_len |-> 0,
   from_pos |-> pos, from_slot |-> k]

WithLiteral(k) ==
  LET n == here[k].num_literals
  IN  [cost |-> here[k].cost + ByteBits + RunBits(n + 1) - RunBits(n),
       score |-> here[k].score + 1,
       rep_offset |-> here[k].rep_offset, rep_pos |-> here[k].rep_pos,
       num_literals |-> n + 1, match_len |-> 0, from_pos |-> pos, from_slot |-> k]

LiteralSlots(slots, a) ==
  IF Admitted(slots, a, nArrivalsPerPosition) THEN Inserted(slots, a, nArrivalsPerPosition)
  ELSE slots

(* op(x), with x evaluated once where op refers to it several times. *)
Once(op(_), x) == CHOOSE y \in {op(z) : z \in {x}} : TRUE

(* The slots behind pos, when every arrival has gone on there. *)
WithLiterals ==
  LET after[k \in 0 .. Len(here)] ==    \* the first k have
        IF k = 0 THEN arrival[pos + 1]
        ELSE Once(LAMBDA slots : LiteralSlots(slots, WithLiteral(k)), after[k - 1])
  IN  after[Len(here)]

(* The arrivals at pos whose offset can be repeated here. *)
Repeating ==
  {k \in DOMAIN here : /\ here[k].num_literals # 0 /\ pos >= here[k].rep_offset
                       /\ SameBytes(window, pos, here[k].rep_offset, 1)}

RepeatLength(k) == Agreeing(pos, here[k].rep_offset, LCP_MAX)

NextMatch(index) ==
  /\ m' = index /\ d' = 0
  /\ stage' = IF index <= Len(match[pos]) THEN (IF second THEN "extend" ELSE "insert")
              ELSE "next"

Arrive ==
  /\ stage = "arrive" /\ pos < end
  /\ arrival' = [arrival EXCEPT ![pos + 1] = WithLiterals]
  /\ min_rep' = 0
  /\ max_rep' = Max({RepeatLength(k) : k \in Repeating} \cup {0})
  /\ IF pos = start THEN stage' = "next" /\ UNCHANGED <<m, d>>  \* the first literal
     ELSE NextMatch(1)
  /\ UNCHANGED <<window, start, dali, search, match, visited, best, second, pos, calls>>

(* The match that is tried: an entry cut to the payload, without and with its depth. *)
entryLength == Min({match[pos][m].length, end - pos})
nMatchLen   == entryLength - d
nMatchOffset == match[pos][m].offset - d

Insert ==
  /\ stage = "insert" /\ calls = <<>>
  /\ calls' = <<Call(pos, nMatchOffset, 0)>>
  /\ stage' = "extend"
  /\ UNCHANGED <<window, start, dali, search, tables, second, pos, tried>>

(***************************************************************************)
(* A match at a new offset, from the cheapest arrival for which it would   *)
(* not be a repetition.                                                    *)
(***************************************************************************)
FirstLength_Longest(length, least) == Max({length, least})    \* mutant: no shorter ones

FirstLength(length, least) ==
  IF length < search.exhaustive_length_threshold \/ length < least THEN least ELSE length

NewMatchFrom ==
  {k \in DOMAIN here : here[k].rep_offset # nMatchOffset \/ here[k].num_literals = 0}

WithMatch(k, length) ==
  [cost |-> here[k].cost + OffsetBits(nMatchOffset) + TokenCost
            + salvador_get_match_varlen_size_norep(length),
   score |-> here[k].score + (IF nMatchOffset = 1 THEN 1 ELSE 3),
   rep_offset |-> nMatchOffset, rep_pos |-> pos, num_literals |-> 0,
   match_len |-> length, from_pos |-> pos, from_slot |-> k]

MatchSlots(slots, length) ==
  IF length \in FirstLength(nMatchLen, 2) .. nMatchLen /\ NewMatchFrom # {}
  THEN LET a == WithMatch(Min(NewMatchFrom), length)
       IN  IF AdmittedMatch(slots, a, nArrivalsPerPosition)
           THEN Inserted(slots, a, nArrivalsPerPosition) ELSE slots
  ELSE slots

(***************************************************************************)
(* Repetitions of the lengths that were not tried at pos before, from      *)
(* every arrival, up to the first that is not admitted.                    *)
(***************************************************************************)
WithRepeat(k, length) ==
  [cost |-> here[k].cost + TokenCost + salvador_get_match_varlen_size_rep(length),
   score |-> here[k].score + (IF here[k].rep_offset = 1 THEN 0 ELSE 2),
   rep_offset |-> here[k].rep_offset, rep_pos |-> pos, num_literals |-> 0,
   match_len |-> length, from_pos |-> pos, from_slot |-> k]

RepeatSlots(slots, length) ==
  LET repeat(acc, k) ==
        IF acc.closed \/ k \notin Repeating \/ RepeatLength(k) < length THEN acc
        ELSE LET a == WithRepeat(k, length)
             IN  IF Admitted(acc.slots, a, nArrivalsPerPosition)
                 THEN [acc EXCEPT !.slots = Inserted(@, a, nArrivalsPerPosition)]
                 ELSE [acc EXCEPT !.closed = TRUE]
      after[k \in 0 .. Len(here)] ==    \* the first k are tried
        IF k = 0 THEN [slots |-> slots, closed |-> FALSE]
        ELSE Once(LAMBDA acc : repeat(acc, k), after[k - 1])
  IN  after[Len(here)].slots

repeatLengths == FirstLength(nMatchLen, min_rep + 1) .. Min({max_rep, nMatchLen})

EarlyBreak ==
  /\ search.enable_long_match_early_break
  /\ entryLength >= search.long_match_break_threshold
  /\ \/ m = MaxMatches
     \/ m = Len(match[pos])
     \/ match[pos][m + 1].length < search.remaining_match_threshold

Extend ==
  /\ stage = "extend" /\ calls = <<>>
  /\ arrival' = [p \in DOMAIN arrival |->
       LET slots == MatchSlots(arrival[p], p - pos)
       IN  IF p - pos \in repeatLengths THEN RepeatSlots(slots, p - pos) ELSE slots]
  /\ LET exhaustive == {k \in repeatLengths : k <= search.exhaustive_length_threshold}
     IN  /\ min_rep' = Max(exhaustive \cup {min_rep})
         /\ max_rep' = IF max_rep \in repeatLengths \ exhaustive THEN max_rep - 1
                       ELSE max_rep
  /\ IF d = 0 /\ match[pos][m].depth # 0
     THEN m' = m /\ d' = match[pos][m].depth /\ stage' = IF second THEN "extend" ELSE "insert"
     ELSE NextMatch(IF EarlyBreak THEN Len(match[pos]) + 1 ELSE m + 1)
  /\ UNCHANGED <<window, start, dali, search, match, visited, best, second, pos, calls>>

NextPosition ==
  /\ stage = "next"
  /\ pos' = pos + 1 /\ stage' = "arrive"
  /\ UNCHANGED <<window, start, dali, search, tables, second, tried, calls>>

-----------------------------------------------------------------------------
(***************************************************************************)
(* Further supplements, for positions whose longest match is short: places *)
(* that agree again a little behind the match, where it could be repeated. *)
(***************************************************************************)
AgreesLater(p, offset) ==
  \E later \in p + 3 .. Min({p + 3 + search.forward_search_distance, end - 2}) - 1 :
    SameBytes(window, later, offset, 1)

FurtherOffsets(p) ==
  Nearest({o \in SamePairs(p) : ~Listed(match[p], o) /\ AgreesLater(p, o)},
          Min({search.forward_insert_limit, MaxMatches - Len(match[p])}))

EndFirstPass ==
  /\ stage = "arrive" /\ pos = end /\ ~second
  /\ stage' = "further" /\ pos' = start + 1
  /\ UNCHANGED <<window, start, dali, search, tables, second, tried, calls>>

FarDepth == 8    \* the depth the insertion starts with here

(* A list with nothing in it has length 0 in front, which is short. *)
Further ==
  /\ stage = "further" /\ calls = <<>> /\ pos < end - 1
  /\ LET offsets == IF match[pos] # <<>>
                       /\ match[pos][1].length >= search.supplement_trigger_length
                    THEN <<>> ELSE FurtherOffsets(pos)
     IN  /\ match' = [match EXCEPT ![pos] = @ \o Entries(pos, offsets)]
         /\ calls' = [k \in DOMAIN offsets |-> Call(pos, offsets[k], FarDepth)]
  /\ pos' = pos + 1
  /\ UNCHANGED <<window, start, dali, search, arrival, visited, best, second, stage,
                 tried>>

SecondPass ==
  /\ stage = "further" /\ calls = <<>> /\ pos >= end - 1
  /\ StartPass(TRUE)
  /\ UNCHANGED <<window, start, dali, search, match>>

(* From the cheapest arrival at the end back to the start. *)
Trace ==
  /\ stage = "arrive" /\ pos = end /\ second
  /\ stage' = "trace" /\ m' = 1
  /\ UNCHANGED <<window, start, dali, search, tables, second, pos, d, min_rep, max_rep,
                 calls>>

TraceBack ==
  /\ stage = "trace"
  /\ LET a == arrival[pos][m]
     IN  IF a.from_slot = 0
         THEN stage' = "parsed" /\ UNCHANGED <<best, pos, m>>
         ELSE /\ best' = [best EXCEPT ![a.from_pos] =
                   [length |-> kc_limit_match_len_local(a.match_len),
                    offset |-> IF a.match_len = 0 THEN 0 ELSE a.rep_offset]]
              /\ pos' = a.from_pos /\ m' = a.from_slot
              /\ UNCHANGED stage
  /\ UNCHANGED <<window, start, dali, search, match, arrival, visited, second, d, min_rep,
                 max_rep, calls>>

Parse ==
  \/ Supplement \/ FirstPass \/ Visit \/ Pass
  \/ Arrive \/ Insert \/ Extend \/ NextPosition
  \/ EndFirstPass \/ Further \/ SecondPass \/ Trace \/ TraceBack

-----------------------------------------------------------------------------
(* Variables have their types; lists and slots stay inside what is allocated. *)
TypeOK ==
  /\ \A p \in start .. end - 1 :
       /\ Len(match[p]) <= MaxMatches
       /\ \A k \in DOMAIN match[p] : match[p][k].length \in 1 .. LCP_MAX
  /\ \A p \in start .. end : Len(arrival[p]) <= nArrivalsPerPosition
  /\ pos \in start .. end /\ m \in Nat \ {0} /\ d \in 0 .. LCP_MAX
  /\ min_rep \in 0 .. end /\ max_rep \in 0 .. end
  /\ stage \in {"supplement", "arrive", "insert", "extend", "next", "further", "trace",
                "parsed"}

(***************************************************************************)
(* The three insertions keep the slots of a position in order, one for     *)
(* each last offset: what the loops over slots rely on when they stop at   *)
(* the first that costs more.                                              *)
(***************************************************************************)
ArrivalsStayRanked == \A p \in start .. end : Ranked(arrival[p])

(***************************************************************************)
(* Whatever is supplemented, inserted and lengthened while the lists are   *)
(* in use, an entry copies the bytes it stands for, at both of the depths  *)
(* the parser tries, and is the only one with its offset.                  *)
(***************************************************************************)
ListsStayCorrect ==
  \A p \in start .. end - 1 : \A k \in DOMAIN match[p] :
    LET entry == match[p][k]
    IN  /\ \A depth \in {0, entry.depth} :
             entry.length > depth =>
               CorrectMatch(window, p, [length |-> entry.length - depth,
                                        offset |-> entry.offset - depth])
        /\ \A j \in DOMAIN match[p] \ {k} : match[p][j].offset # entry.offset

(***************************************************************************)
(* What the parser has counted along the cheapest way to the end is what   *)
(* the writer makes of the table it leaves, in which every match is        *)
(* correct and taken: no slot on the way was overwritten after another had *)
(* come from it.                                                           *)
(***************************************************************************)
Traced == stage = "trace" /\ arrival[pos][m].from_slot = 0

CostIsWhatIsWritten ==
  Traced => /\ IsTable(window, start, best)
            /\ WrittenSize(best, start, end, dali) = arrival[end][1].cost
            /\ Walk(best, start, end, dali).unused = {}

=============================================================================
