---------------------------- MODULE MatchFinder ----------------------------
(***************************************************************************)
(* kc_matchfinder.c: the intervals of equal prefixes of a sorted suffix    *)
(* array, and the matches that are read off them while they are linked to  *)
(* the positions seen last.                                                *)
(*                                                                         *)
(* The words the code packs are numbers here as well, so that they compare *)
(* as its words do: a position or the index of an interval in the low      *)
(* digits, above it the length common to the suffixes of the interval with *)
(* a tag of TAG_BITS, above these VISITED_FLAG.                            *)
(*                                                                         *)
(* The suffix array is taken to be sorted (libdivsufsort, external).       *)
(***************************************************************************)
EXTENDS Parsing

CONSTANTS
  Inputs,       \* windows: [text, dictionary]
  LCP_MAX,      \* longest length an interval records: 2^14 - 1
  Tags,         \* 2^TAG_BITS
  Tag(_),       \* salvador_get_index_tag: a hash of the position
  MaxOffset,    \* max_offset: MAX_OFFSET
  MaxMatches    \* max_matches_per_position: 78

ASSUME MatchFinderAssumption ==
  /\ LCP_MAX \in Nat \ {0} /\ Tags \in Nat \ {0}
  /\ MaxOffset \in 1 .. MAX_OFFSET /\ MaxMatches \in Nat \ {0}
  /\ \A w \in Inputs :
       /\ w.text \in Seq(Byte) /\ w.dictionary \in 0 .. Len(w.text) - 1
       /\ Len(w.text) <= 2 * (ByteValues * ByteValues)    \* nMaxWindowSize: two blocks
       /\ \A p \in 0 .. Len(w.text) : Tag(p) \in 0 .. Tags - 1

VARIABLES
  window, start,        \* pInWindow and the length of the dictionary
  intervals,            \* SA_and_LCP, later the intervals, in the same words
  pos_data,             \* interval of a position, later links between positions
  open_intervals,       \* the stack of open intervals, the deepest last
  next_interval_idx,
  r,                    \* index into the suffix array; nOffset once it is read
  ref, super_ref,       \* an interval and what is known above it
  prev_pos,             \* position before r in the suffix array
  match_pos,            \* the earlier position that is looked at
  found,                \* matches of this position, with the last one's data
  match,                \* matches of all positions
  phase

vars == <<window, start, intervals, pos_data, open_intervals, next_interval_idx,
          r, prev_pos, ref, super_ref, match_pos, found, match, phase>>

n       == Len(window)
nOffset == r

-----------------------------------------------------------------------------
(* Packed words. *)
PosLimit   == 2 * (ByteValues * ByteValues)  \* POS_MASK + 1: above any position
LCP_WEIGHT == PosLimit
VISITED    == PosLimit * (LCP_MAX + 1) * Tags

Pos(word)    == word % PosLimit             \* & POS_MASK
Lcp(word) == (word % VISITED) \div LCP_WEIGHT
Length(word) == Lcp(word) \div Tags         \* >> (LCP_SHIFT + TAG_BITS)
Visited(pos) == VISITED + pos

(***************************************************************************)
(* Phi and the permuted LCP: the length a suffix shares with the one       *)
(* before it in the array, in text order, where it falls by one at most.   *)
(* The smallest suffix has none before it and leaves the length as it is.  *)
(***************************************************************************)
Common(text, p, q, from) ==
  LET limit == Len(text) - Max({p, q})
  IN  Max({l \in from .. limit :
             \A k \in from + 1 .. l : text[p + k] = text[q + k]} \cup {from})

PLCP_NoStep(text, phi) ==    \* mutant: the length is carried over whole
  LET cur[i \in -1 .. Len(text) - 1] ==
        IF i = -1 \/ phi[i] = -1 THEN 0
        ELSE Common(text, i, phi[i], cur[i - 1])
  IN  [i \in 0 .. Len(text) - 1 |-> cur[i]]

PLCP(text, phi) ==
  LET cur[i \in -1 .. Len(text) - 1] ==    \* nCurLen behind position i
        IF i = -1 THEN 0
        ELSE IF phi[i] = -1 THEN cur[i - 1]
        ELSE Max({Common(text, i, phi[i], cur[i - 1]) - 1, 0})
  IN  [i \in 0 .. Len(text) - 1 |->
         IF phi[i] = -1 THEN 0 ELSE Common(text, i, phi[i], cur[i - 1])]

SuffixLess(text, p, q) ==
  LET l == Common(text, p, q, 0)
  IN  p + l = Len(text) \/ (q + l < Len(text) /\ text[p + l + 1] < text[q + l + 1])

SuffixArray(text) ==
  LET positions == 0 .. Len(text) - 1
      rank(p)   == Cardinality({q \in positions \ {p} : SuffixLess(text, q, p)})
  IN  [k \in positions |-> CHOOSE p \in positions : rank(p) = k]

(* The array with the lengths rotated into it, cut to LCP_MAX and tagged. *)
TaggedArray(text) ==
  LET sa   == SuffixArray(text)
      phi  == [i \in DOMAIN sa |->
                 IF i = sa[0] THEN -1 ELSE sa[(CHOOSE k \in DOMAIN sa : sa[k] = i) - 1]]
      plcp == PLCP(text, phi)
  IN  [k \in DOMAIN sa |->
         IF k = 0 \/ plcp[sa[k]] = 0 THEN sa[k]
         ELSE sa[k] + LCP_WEIGHT * (Min({plcp[sa[k]], LCP_MAX}) * Tags + Tag(sa[k]))]

NothingFound == [list |-> <<>>, offset |-> 0, length |-> 0]

Init ==
  \E w \in Inputs :
    /\ window = w.text /\ start = w.dictionary
    /\ LET tagged == TaggedArray(w.text)
       IN  /\ intervals = [tagged EXCEPT ![0] = 0]
           /\ prev_pos = tagged[0]
    /\ pos_data = [p \in 0 .. Len(w.text) - 1 |-> 0]
    /\ open_intervals = <<0>> /\ next_interval_idx = 1
    /\ r = 1 /\ ref = 0 /\ super_ref = 0 /\ match_pos = 0
    /\ found = NothingFound
    /\ match = [p \in w.dictionary .. Len(w.text) - 1 |-> <<>>]
    /\ phase = "build"

-----------------------------------------------------------------------------
(* Building the tree of intervals: salvador_build_suffix_array. *)
top          == Last(open_intervals)
next_lcp     == Lcp(intervals[r])
searchVars   == <<ref, super_ref, match_pos, found, match>>
NewInterval  == next_lcp * LCP_WEIGHT + next_interval_idx
NextSuffix   == r' = r + 1 /\ prev_pos' = Pos(intervals[r])

Continue ==
  /\ phase = "build" /\ r < n /\ next_lcp = Lcp(top)
  /\ pos_data' = [pos_data EXCEPT ![prev_pos] = top]
  /\ NextSuffix
  /\ UNCHANGED <<window, start, intervals, open_intervals, next_interval_idx,
                 searchVars, phase>>

Open ==
  /\ phase = "build" /\ r < n /\ next_lcp > Lcp(top)
  /\ open_intervals' = Append(open_intervals, NewInterval)
  /\ next_interval_idx' = next_interval_idx + 1
  /\ pos_data' = [pos_data EXCEPT ![prev_pos] = NewInterval]
  /\ NextSuffix
  /\ UNCHANGED <<window, start, intervals, searchVars, phase>>

Close ==
  /\ phase = "build" /\ r < n /\ next_lcp < Lcp(top)
  /\ pos_data' = [pos_data EXCEPT ![prev_pos] = top]
  /\ phase' = "close"
  /\ UNCHANGED <<window, start, intervals, open_intervals, next_interval_idx, r,
                 prev_pos, searchVars>>

(***************************************************************************)
(* The deepest interval is closed below the one it lies in, which may have *)
(* to be opened between it and the next, or to be closed as well.  The     *)
(* intervals overwrite the suffix array they are built from.               *)
(***************************************************************************)
CloseDeepest ==
  /\ phase = "close"
  /\ LET rest  == Front(open_intervals)
         super == Last(rest)
         above == IF next_lcp > Lcp(super) THEN NewInterval ELSE super
     IN  /\ intervals' = [intervals EXCEPT ![Pos(top)] = above]
         /\ IF next_lcp > Lcp(super)
            THEN /\ open_intervals' = Append(rest, NewInterval)
                 /\ next_interval_idx' = next_interval_idx + 1
            ELSE open_intervals' = rest /\ UNCHANGED next_interval_idx
         /\ IF next_lcp >= Lcp(super) THEN NextSuffix /\ phase' = "build"
            ELSE UNCHANGED <<r, prev_pos, phase>>
  /\ UNCHANGED <<window, start, pos_data, searchVars>>

(* All are closed; then every position of the window is looked up in turn. *)
FinishBuild ==
  /\ phase = "build" /\ r = n
  /\ pos_data' = [pos_data EXCEPT ![prev_pos] = top]
  /\ intervals' = [k \in DOMAIN intervals |->
       IF \E d \in 2 .. Len(open_intervals) : Pos(open_intervals[d]) = k
       THEN open_intervals[(CHOOSE d \in 2 .. Len(open_intervals) :
                              Pos(open_intervals[d]) = k) - 1]
       ELSE intervals[k]]
  /\ open_intervals' = <<0>> /\ r' = 0 /\ phase' = "find"
  /\ UNCHANGED <<window, start, next_interval_idx, prev_pos, searchVars>>

-----------------------------------------------------------------------------
(***************************************************************************)
(* One position: salvador_find_matches_at, for the positions of the        *)
(* dictionary with room for no match (salvador_skip_matches).              *)
(***************************************************************************)
buildVars == <<window, start, open_intervals, next_interval_idx, prev_pos>>
room      == IF nOffset < start THEN 0 ELSE MaxMatches

(***************************************************************************)
(* A match of the interval at an earlier position.  One that is a byte     *)
(* shorter and nearer than the one before is not listed but counted: the   *)
(* depth of an entry (length, offset) stands for (length - d, offset - d)  *)
(* with any d up to it.                                                    *)
(***************************************************************************)
Reported(f, pos, interval) ==
  LET offset == nOffset - pos
      length == Length(interval)
      count  == Len(f.list)
      deeper == /\ f.length > 2 /\ count > 0
                /\ offset = f.offset - 1 /\ length = f.length - 1
                /\ f.list[count].depth < LCP_MAX
  IN  IF count = room \/ offset > MaxOffset THEN f
      ELSE [list   |-> IF deeper THEN [f.list EXCEPT ![count].depth = @ + 1]
                       ELSE Append(f.list, [length |-> kc_limit_match_len_local(length),
                                            offset |-> offset, depth |-> 0]),
            offset |-> offset, length |-> length]

NextPosition(f) ==
  /\ match' = IF nOffset < start THEN match ELSE [match EXCEPT ![nOffset] = f.list]
  /\ found' = NothingFound
  /\ r' = r + 1
  /\ phase' = IF r' = n THEN "done" ELSE "find"

LookUp_Linked ==    \* mutant: the position keeps its interval as a link
  /\ phase = "find"
  /\ ref' = pos_data[nOffset]
  /\ super_ref' = intervals[Pos(pos_data[nOffset])]
  /\ phase' = "ascend"
  /\ UNCHANGED <<buildVars, intervals, pos_data, r, match_pos, found, match>>

LookUp ==
  /\ phase = "find"
  /\ ref' = pos_data[nOffset]
  /\ super_ref' = intervals[Pos(pos_data[nOffset])]
  /\ pos_data' = [pos_data EXCEPT ![nOffset] = 0]
  /\ phase' = "ascend"
  /\ UNCHANGED <<buildVars, intervals, r, match_pos, found, match>>

(* Up to an interval that was visited, the root or a child of the root. *)
Ascend ==
  /\ phase = "ascend" /\ Lcp(super_ref) # 0
  /\ intervals' = [intervals EXCEPT ![Pos(ref)] = Visited(nOffset)]
  /\ ref' = super_ref /\ super_ref' = intervals[Pos(super_ref)]
  /\ UNCHANGED <<buildVars, pos_data, r, match_pos, found, match, phase>>

FirstVisit ==
  /\ phase = "ascend" /\ super_ref = 0
  /\ intervals' = IF ref = 0 THEN intervals
                  ELSE [intervals EXCEPT ![Pos(ref)] = Visited(nOffset)]
  /\ NextPosition(NothingFound)
  /\ UNCHANGED <<buildVars, pos_data, ref, super_ref, match_pos>>

VisitedBefore ==
  /\ phase = "ascend" /\ super_ref >= VISITED
  /\ match_pos' = super_ref - VISITED
  /\ found' = Reported(NothingFound, match_pos', ref)
  /\ phase' = "link"
  /\ UNCHANGED <<buildVars, intervals, pos_data, r, ref, super_ref, match>>

(* Along the links, while they are of deeper intervals; the first is reported. *)
link == pos_data[match_pos]

FollowLink ==
  /\ phase \in {"link", "follow"} /\ link > ref
  /\ match_pos' = intervals[Pos(link)] % VISITED
  /\ found' = IF phase = "link" THEN Reported(found, match_pos', ref) ELSE found
  /\ phase' = "follow"
  /\ UNCHANGED <<buildVars, intervals, pos_data, r, ref, super_ref, match>>

(* The interval now leads here, and what it led to before is one link on. *)
Relink_Late(f) == f    \* mutant: the position that was linked is not reported

Relink(f) == IF nOffset - match_pos # f.offset THEN Reported(f, match_pos, ref) ELSE f

FollowedAll ==
  /\ phase \in {"link", "follow"} /\ link <= ref
  /\ intervals' = [intervals EXCEPT ![Pos(ref)] = Visited(nOffset)]
  /\ pos_data' = [pos_data EXCEPT ![match_pos] = ref]
  /\ super_ref' = link
  /\ IF link = 0
     THEN /\ NextPosition(Relink(found))
          /\ UNCHANGED <<ref, match_pos>>
     ELSE /\ ref' = link
          /\ match_pos' = intervals'[Pos(link)] % VISITED
          /\ found' = Reported(Relink(found), match_pos', link)
          /\ phase' = "link"
          /\ UNCHANGED <<r, match>>
  /\ UNCHANGED buildVars

Next ==
  \/ Continue \/ Open \/ Close \/ CloseDeepest \/ FinishBuild
  \/ LookUp \/ Ascend \/ FirstVisit \/ VisitedBefore \/ FollowLink \/ FollowedAll

Spec == Init /\ [][Next]_vars /\ WF_vars(Next)

-----------------------------------------------------------------------------
(***************************************************************************)
(* What a list promises to the parser: every entry, at every depth, is a   *)
(* copy of earlier bytes.                                                  *)
(***************************************************************************)
Variants(m) == {[length |-> m.length - d, offset |-> m.offset - d] : d \in 0 .. m.depth}

EveryMatchIsCorrect ==
  \A p \in DOMAIN match : \A k \in DOMAIN match[p] : \A v \in Variants(match[p][k]) :
    CorrectMatch(window, p, v)

(***************************************************************************)
(* Nothing nearer or longer is missed: every copy of earlier bytes, up to  *)
(* the largest offset, is in the list at its length with an offset no      *)
(* farther, as long as the list has room.                                  *)
(***************************************************************************)
NothingIsMissed ==
  \A p \in DOMAIN match :
    p < nOffset /\ phase \notin {"build", "close"} /\ Len(match[p]) < MaxMatches =>
      \A q \in 0 .. p - 1 :
        LET length == Min({Common(window, p, q, 0), LCP_MAX})
        IN  length > 0 /\ p - q <= MaxOffset =>
              \E k \in DOMAIN match[p] : \E v \in Variants(match[p][k]) :
                v.offset <= p - q /\ v.length >= kc_limit_match_len_local(length)

(* The walk up and down the intervals ends, after the last position.       *)
Finishes == <>(phase = "done")
=============================================================================
