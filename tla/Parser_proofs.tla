--------------------------- MODULE Parser_proofs ---------------------------
(***************************************************************************)
(* What the parser does to the lists of matches and to the slots, and what *)
(* the table it leaves costs to write: for every window, every setting of  *)
(* the search and every list the match finder may hand over.               *)
(***************************************************************************)
EXTENDS Parser, KcFormat_proofs

parserVars ==
  <<window, start, dali, search, tables, second, stage, pos, tried, calls>>

Entry == [length : Nat, offset : Nat \ {0}, depth : Nat]

(***************************************************************************)
(* One list of matches, at position p of a text.                           *)
(***************************************************************************)
GoodEntry(text, p, entry) ==
  /\ entry \in Entry /\ entry.depth < entry.offset
  /\ \A depth \in {0, entry.depth} :
       entry.length > depth =>
         CorrectMatch(text, p, [length |-> entry.length - depth,
                                offset |-> entry.offset - depth])

GoodList(text, p, list) ==
  /\ list \in Seq(Entry)
  /\ \A k \in DOMAIN list : GoodEntry(text, p, list[k])
  /\ \A j, k \in DOMAIN list : j # k => list[j].offset # list[k].offset

WindowOK == window \in Seq(Byte) /\ start \in 0 .. end - 1

Lists ==
  /\ match \in [start .. end - 1 -> Seq(Entry)]
  /\ \A p \in start .. end - 1 : GoodList(window, p, match[p])

SizesOK ==
  \A p \in start .. end - 1 :
    /\ Len(match[p]) <= MaxMatches
    /\ \A k \in DOMAIN match[p] :
         match[p][k].length \in 1 .. LCP_MAX /\ match[p][k].depth \in 0 .. LCP_MAX

(* --max-match: no entry is longer than the limit it sets. *)
Limited(length) == kc_limit_match_len_local(length) = length

LimitsOK ==
  \A p \in start .. end - 1 : \A k \in DOMAIN match[p] : Limited(match[p][k].length)

(***************************************************************************)
(* The parser on its own: the payload is not empty, and the lists are as   *)
(* the match finder leaves them (ListsArePromised in MatchFinder_proofs).  *)
(***************************************************************************)
HandedOver == WindowOK /\ Lists /\ SizesOK /\ LimitsOK

ParserSpec == HandedOver /\ Ready /\ [][Parse]_parserVars

(***************************************************************************)
(* The inductive invariant.  A call of the forward insertion carries an    *)
(* offset that can be repeated; the match that is tried is still in the    *)
(* list it was taken from, though calls go on in between that extend this  *)
(* list and lengthen what is in it.                                        *)
(***************************************************************************)
Calls == [at : Int, offset : Nat \ {0}, depth : Int, slot : Int]

PlaceOK ==
  /\ stage \notin {"trace", "parsed"} => pos \in Int /\ pos >= start
  /\ stage \in {"supplement", "further"} => pos > start

TriedOK ==
  stage \in {"insert", "extend"} =>
    /\ pos \in start .. end - 1
    /\ m \in 1 .. Len(match[pos])
    /\ d \in {0, match[pos][m].depth}

IInv ==
  /\ WindowOK /\ search \in Settings
  /\ Lists /\ calls \in Seq(Calls) /\ PlaceOK /\ TriedOK
-----------------------------------------------------------------------------
(***************************************************************************)
(* Least and greatest members of finite sets of numbers.                   *)
(***************************************************************************)
LEMMA LeastExists ==
  ASSUME NEW S \in SUBSET Nat, S # {}
  PROVE  \E x \in S : \A y \in S : x <= y
<1> DEFINE R == OpToRel(<, Nat)
<1>1. IsWellFoundedOn(R, Nat)
  BY NatLessThanWellFounded
<1>2. \A x, y \in Nat : y < x => <<y, x>> \in R
  BY DEF OpToRel
<1> HIDE DEF R
<1>3. PICK x \in S : \A y \in S : ~ (<<y, x>> \in R)
  BY <1>1, WFMin
<1>4. \A y \in S : ~(y < x)
  BY <1>2, <1>3
<1>5. QED
  BY <1>3, <1>4

LEMMA MinProperty ==
  ASSUME NEW S \in SUBSET Nat, S # {}
  PROVE  Min(S) \in S /\ \A y \in S : Min(S) <= y
BY LeastExists DEF Min

LEMMA MinOfTwo ==
  ASSUME NEW a \in Int, NEW b \in Int
  PROVE  Min({a, b}) \in {a, b}
<1>1. \E x \in {a, b} : \A y \in {a, b} : x <= y
  <2>1. CASE a <= b
    BY <2>1
  <2>2. CASE b <= a
    BY <2>2
  <2>3. QED
    BY <2>1, <2>2
<1>2. QED
  BY <1>1 DEF Min

LEMMA MaxProperty ==
  ASSUME NEW N \in Nat, NEW S \in SUBSET (0 .. N), S # {}
  PROVE  Max(S) \in S /\ \A y \in S : y <= Max(S)
<1> DEFINE Gaps == {N - x : x \in S}
<1>1. Gaps \in SUBSET Nat /\ Gaps # {}
  <2>1. \A x \in S : x \in 0 .. N /\ N - x \in Nat
    OBVIOUS
  <2>2. QED
    BY <2>1
<1>2. PICK g \in Gaps : \A h \in Gaps : g <= h
  <2> HIDE DEF Gaps
  <2>1. QED
    BY <1>1, LeastExists
<1>3. PICK x \in S : g = N - x
  OBVIOUS
<1>4. \A y \in S : y <= x
  <2>1. \A y \in S : N - x <= N - y
    BY <1>2, <1>3
  <2>2. QED
    BY <2>1
<1>5. QED
  BY <1>3, <1>4 DEF Max

(***************************************************************************)
(* The bytes that are found to agree do, and lie in the payload; a limit   *)
(* on the length leaves a beginning of them.                               *)
(***************************************************************************)
LEMMA AgreeingBytes ==
  ASSUME WindowOK, NEW p \in start .. end - 1, NEW offset \in 1 .. p, NEW limit \in Nat
  PROVE  LET length == kc_limit_match_len_local(Agreeing(p, offset, limit))
         IN  /\ length \in Nat
             /\ length > 0 => CorrectMatch(window, p, [length |-> length, offset |-> offset])
<1> DEFINE N == Min({limit, end - p})
           S == {l \in 0 .. N : SameBytes(window, p, offset, l)}
           a == Agreeing(p, offset, limit)
           length == kc_limit_match_len_local(a)
<1>1. end - p \in Nat /\ p \in Nat /\ end = Len(window) /\ Len(window) \in Nat
  BY DEF WindowOK, end
<1>2. N \in Nat /\ N <= end - p
  <2>1. {limit, end - p} \in SUBSET Nat /\ {limit, end - p} # {}
    BY <1>1
  <2>2. N \in {limit, end - p} /\ \A y \in {limit, end - p} : N <= y
    BY <2>1, MinProperty
  <2> HIDE DEF N
  <2>3. QED
    BY <1>1, <2>2
<1> HIDE DEF N
<1>3. 0 \in S
  BY <1>2 DEF SameBytes
<1>4. a = Max(S)
  BY DEF Agreeing, N
<1>5. a \in S
  <2>1. S \in SUBSET (0 .. N) /\ S # {}
    BY <1>3
  <2> HIDE DEF S, a
  <2>2. QED
    BY <1>2, <1>4, <2>1, MaxProperty
<1>6. a \in Nat /\ a <= end - p /\ SameBytes(window, p, offset, a)
  <2>1. a \in 0 .. N /\ SameBytes(window, p, offset, a)
    BY <1>5
  <2>2. QED
    BY <1>1, <1>2, <2>1
<1> HIDE DEF a, S
<1>7. length \in Nat /\ length <= a
  BY <1>6, ParsingAssumption DEF kc_limit_match_len_local
<1> HIDE DEF length
<1>8. SameBytes(window, p, offset, length)
  BY <1>6, <1>7 DEF SameBytes
<1>9. CorrectMatch(window, p, [length |-> length, offset |-> offset])
  BY <1>1, <1>6, <1>7, <1>8 DEF CorrectMatch
<1>10. QED
  BY <1>7, <1>9 DEF length, a

LEMMA AgreeingEntry ==
  ASSUME WindowOK, NEW p \in start .. end - 1, NEW offset \in 1 .. p, NEW limit \in Nat
  PROVE  GoodEntry(window, p,
           [length |-> kc_limit_match_len_local(Agreeing(p, offset, limit)),
            offset |-> offset, depth |-> 0])
<1> DEFINE length == kc_limit_match_len_local(Agreeing(p, offset, limit))
<1>1. /\ length \in Nat
      /\ length > 0 => CorrectMatch(window, p, [length |-> length, offset |-> offset])
  BY AgreeingBytes
<1>2. p \in Nat
  BY DEF WindowOK
<1> HIDE DEF length
<1>3. length - 0 = length /\ offset - 0 = offset /\ offset \in Nat \ {0}
  BY <1>1, <1>2
<1>4. GoodEntry(window, p, [length |-> length, offset |-> offset, depth |-> 0])
  BY <1>1, <1>3 DEF GoodEntry, Entry
<1>5. QED
  BY <1>4 DEF length
-----------------------------------------------------------------------------
(***************************************************************************)
(* The nearest offsets of a set, one for each number of smaller ones.      *)
(***************************************************************************)
LEMMA KthExists ==
  ASSUME NEW n \in Nat, NEW S \in SUBSET (1 .. n), NEW k \in 1 .. Cardinality(S)
  PROVE  \E o \in S : Cardinality({q \in S : q < o}) = k - 1
<1> DEFINE Upto(j) == {q \in S : q <= j}
           T == {j \in 0 .. n : Cardinality(Upto(j)) >= k}
<1>1. IsFiniteSet(S) /\ \A q \in S : q \in Nat /\ 1 <= q /\ q <= n
  <2>1. IsFiniteSet(1 .. n)
    BY FS_Interval
  <2>2. IsFiniteSet(S)
    BY <2>1, FS_Subset
  <2>3. \A q \in S : q \in 1 .. n
    OBVIOUS
  <2>4. QED
    BY <2>2, <2>3
<1>2. \A j \in 0 .. n : IsFiniteSet(Upto(j)) /\ Cardinality(Upto(j)) \in Nat
  BY <1>1, FS_Subset, FS_CardinalityType
<1>3. n \in T
  <2>1. Upto(n) = S
    BY <1>1
  <2>2. Cardinality(S) \in Nat
    BY <1>1, FS_CardinalityType
  <2>3. QED
    BY <2>1, <2>2
<1>4. PICK j \in T : \A i \in T : j <= i
  <2>1. T \in SUBSET Nat /\ T # {}
    BY <1>3, SMTT(30)
  <2> HIDE DEF T
  <2>2. QED
    BY <2>1, LeastExists
<1>5. j \in 1 .. n
  <2>1. Upto(0) = {}
    <3>1. \A q \in S : ~(q <= 0)
      BY <1>1
    <3>2. QED
      BY <3>1
  <2>2. 0 \notin T
    BY <2>1, FS_EmptySet
  <2>3. QED
    BY <1>4, <2>2
<1>6. j - 1 \in 0 .. n /\ Cardinality(Upto(j - 1)) < k
  <2>1. j - 1 \in 0 .. n /\ ~(j <= j - 1)
    BY <1>5
  <2>2. j - 1 \notin T
    BY <1>4, <2>1
  <2>3. ~(Cardinality(Upto(j - 1)) >= k) /\ Cardinality(Upto(j - 1)) \in Nat
    BY <1>2, <2>1, <2>2
  <2>4. QED
    BY <2>1, <2>3
<1>7. j \in S
  <2>1. CASE j \notin S
    <3>1. Upto(j) = Upto(j - 1)
      <4>1. \A q \in S : q <= j <=> q <= j - 1
        BY <1>1, <1>5, <2>1
      <4>2. QED
        BY <4>1
    <3>2. QED
      BY <1>4, <1>6, <1>2, <3>1
  <2>2. QED
    BY <2>1
<1>8. Cardinality(Upto(j)) = Cardinality(Upto(j - 1)) + 1
  <2>1. Upto(j) = Upto(j - 1) \cup {j} /\ j \notin Upto(j - 1)
    <3>1. \A q \in S : q <= j <=> q <= j - 1 \/ q = j
      BY <1>1, <1>5
    <3>2. ~(j <= j - 1)
      BY <1>5
    <3>3. QED
      BY <1>7, <1>5, <3>1, <3>2
  <2>2. IsFiniteSet(Upto(j - 1))
    BY <1>2, <1>6
  <2> HIDE DEF Upto
  <2>3. QED
    BY <2>1, <2>2, FS_AddElement
<1>9. Cardinality(Upto(j - 1)) = k - 1
  <2>1. Cardinality(Upto(j)) >= k /\ Cardinality(Upto(j - 1)) \in Nat
    BY <1>2, <1>4, <1>6
  <2> HIDE DEF Upto
  <2>2. QED
    BY <1>6, <1>8, <2>1
<1>10. Upto(j - 1) = {q \in S : q < j}
  <2>1. \A q \in S : q <= j - 1 <=> q < j
    BY <1>1, <1>5
  <2>2. QED
    BY <2>1
<1>11. QED
  BY <1>7, <1>9, <1>10

LEMMA NearestOffsets ==
  ASSUME NEW n \in Nat, NEW S \in SUBSET (1 .. n), NEW count \in Int
  PROVE  /\ Nearest(S, count) \in Seq(S)
         /\ \A j, k \in DOMAIN Nearest(S, count) :
              j # k => Nearest(S, count)[j] # Nearest(S, count)[k]
<1> DEFINE N == Min({Cardinality(S), Max({count, 0})})
           o(k) == CHOOSE x \in S : Cardinality({q \in S : q < x}) = k - 1
<1>1. Cardinality(S) \in Nat
  <2>1. IsFiniteSet(1 .. n)
    BY FS_Interval
  <2>2. IsFiniteSet(S)
    BY <2>1, FS_Subset
  <2>3. QED
    BY <2>2, FS_CardinalityType
<1>2. Max({count, 0}) \in Nat
  BY DEF Max
<1>3. N \in Nat /\ N <= Cardinality(S)
  <2>1. {Cardinality(S), Max({count, 0})} \in SUBSET Nat
    BY <1>1, <1>2
  <2>2. QED
    BY <1>1, <1>2, <2>1, MinProperty
<1>4. Nearest(S, count) = [k \in 1 .. N |-> o(k)]
  BY DEF Nearest
<1> HIDE DEF N
<1>5. ASSUME NEW k \in 1 .. N
      PROVE  o(k) \in S /\ Cardinality({q \in S : q < o(k)}) = k - 1
  <2>1. k \in 1 .. Cardinality(S)
    BY <1>1, <1>3
  <2>2. \E x \in S : Cardinality({q \in S : q < x}) = k - 1
    BY <2>1, KthExists
  <2>3. QED
    BY <2>2
<1> HIDE DEF o
<1>6. \A j, k \in 1 .. N : j # k => o(j) # o(k)
  <2> SUFFICES ASSUME NEW j \in 1 .. N, NEW k \in 1 .. N, o(j) = o(k) PROVE j = k
    OBVIOUS
  <2>1. Cardinality({q \in S : q < o(j)}) = j - 1 /\ Cardinality({q \in S : q < o(k)}) = k - 1
    BY <1>5
  <2>2. j - 1 = k - 1
    BY <2>1
  <2>3. QED
    BY <2>2
<1> DEFINE f == [k \in 1 .. N |-> o(k)]
<1>7. f \in Seq(S) /\ DOMAIN f = 1 .. N
  <2>1. f \in [1 .. N -> S]
    BY <1>5
  <2> HIDE DEF f
  <2>2. QED
    BY <1>3, <2>1
<1>8. \A j, k \in 1 .. N : j # k => f[j] # f[k]
  BY <1>6
<1> HIDE DEF f
<1>9. QED
  BY <1>4, <1>7, <1>8 DEF f
-----------------------------------------------------------------------------
(***************************************************************************)
(* The operations on a list: entries appended at its end, and a match of   *)
(* depth 0 made longer.                                                    *)
(***************************************************************************)
LEMMA AppendedList ==
  ASSUME NEW text, NEW p, NEW list, NEW more,
         GoodList(text, p, list), GoodList(text, p, more),
         \A j \in DOMAIN list, k \in DOMAIN more : list[j].offset # more[k].offset
  PROVE  GoodList(text, p, list \o more)
<1> DEFINE r == list \o more
<1>1. list \in Seq(Entry) /\ more \in Seq(Entry)
  BY DEF GoodList
<1>2. /\ r \in Seq(Entry) /\ Len(r) = Len(list) + Len(more) /\ DOMAIN r = 1 .. Len(r)
      /\ Len(list) \in Nat /\ Len(more) \in Nat
      /\ DOMAIN list = 1 .. Len(list) /\ DOMAIN more = 1 .. Len(more)
  BY <1>1
<1>3. \A k \in 1 .. Len(list) + Len(more) :
        r[k] = IF k <= Len(list) THEN list[k] ELSE more[k - Len(list)]
  BY <1>1
<1> HIDE DEF r
<1>4. ASSUME NEW k \in DOMAIN r
      PROVE  \/ k \in DOMAIN list /\ r[k] = list[k]
             \/ /\ k - Len(list) \in DOMAIN more /\ r[k] = more[k - Len(list)]
                /\ k > Len(list)
  <2>1. k \in 1 .. Len(list) + Len(more)
    BY <1>2
  <2>2. CASE k <= Len(list)
    BY <1>2, <1>3, <2>1, <2>2
  <2>3. CASE k > Len(list)
    <3>1. k - Len(list) \in 1 .. Len(more) /\ ~(k <= Len(list))
      BY <1>2, <2>1, <2>3
    <3>2. QED
      BY <1>2, <1>3, <2>1, <2>3, <3>1
  <2>4. QED
    BY <1>2, <2>1, <2>2, <2>3
<1>5. \A k \in DOMAIN r : GoodEntry(text, p, r[k])
  BY <1>4 DEF GoodList
<1>6. ASSUME NEW j \in DOMAIN r, NEW k \in DOMAIN r, j # k
      PROVE  r[j].offset # r[k].offset
  <2>1. j \in Int /\ k \in Int
    BY <1>2
  <2>2. CASE j <= Len(list) /\ k <= Len(list)
    BY <1>2, <1>4, <1>6, <2>2 DEF GoodList
  <2>3. CASE j <= Len(list) /\ k > Len(list)
    <3>1. j \in DOMAIN list /\ r[j] = list[j]
      BY <1>2, <1>4, <2>1, <2>3
    <3>2. k - Len(list) \in DOMAIN more /\ r[k] = more[k - Len(list)]
      BY <1>2, <1>4, <2>1, <2>3
    <3>3. QED
      BY <3>1, <3>2
  <2>4. CASE j > Len(list) /\ k <= Len(list)
    <3>1. k \in DOMAIN list /\ r[k] = list[k]
      BY <1>2, <1>4, <2>1, <2>4
    <3>2. j - Len(list) \in DOMAIN more /\ r[j] = more[j - Len(list)]
      BY <1>2, <1>4, <2>1, <2>4
    <3>3. QED
      BY <3>1, <3>2
  <2>5. CASE j > Len(list) /\ k > Len(list)
    <3>1. k - Len(list) \in DOMAIN more /\ r[k] = more[k - Len(list)]
      BY <1>2, <1>4, <2>1, <2>5
    <3>2. j - Len(list) \in DOMAIN more /\ r[j] = more[j - Len(list)]
      BY <1>2, <1>4, <2>1, <2>5
    <3>3. j - Len(list) # k - Len(list)
      BY <1>2, <1>6, <2>1
    <3>4. more[j - Len(list)].offset # more[k - Len(list)].offset
      BY <3>1, <3>2, <3>3 DEF GoodList
    <3>5. QED
      BY <3>1, <3>2, <3>4
  <2>6. QED
    BY <1>2, <2>1, <2>2, <2>3, <2>4, <2>5
<1>7. QED
  BY <1>2, <1>5, <1>6 DEF GoodList, r

LEMMA SingleList ==
  ASSUME NEW text, NEW p, NEW entry, GoodEntry(text, p, entry)
  PROVE  GoodList(text, p, <<entry>>)
<1>1. entry \in Entry
  BY DEF GoodEntry
<1>2. <<entry>> \in Seq(Entry) /\ DOMAIN <<entry>> = {1} /\ <<entry>>[1] = entry
  BY <1>1
<1>3. QED
  BY <1>2 DEF GoodList

LEMMA LengthenedList ==
  ASSUME NEW text, NEW p, NEW list, GoodList(text, p, list), NEW length \in Nat,
         NEW k0 \in DOMAIN list,
         GoodEntry(text, p, [length |-> length, offset |-> list[k0].offset, depth |-> 0]),
         NEW changed \in BOOLEAN,
         NEW r, r = [k \in DOMAIN list |->
                       IF changed /\ k = k0 /\ list[k].depth = 0
                       THEN [list[k] EXCEPT !.length = length] ELSE list[k]]
  PROVE  /\ GoodList(text, p, r) /\ DOMAIN r = DOMAIN list
         /\ \A k \in DOMAIN list : r[k].depth = list[k].depth
<1>1. list \in Seq(Entry) /\ DOMAIN r = DOMAIN list
  BY DEF GoodList
<1>2. ASSUME NEW k \in DOMAIN list
      PROVE  /\ GoodEntry(text, p, r[k]) /\ r[k].offset = list[k].offset
             /\ r[k].depth = list[k].depth
  <2>1. list[k] \in Entry /\ GoodEntry(text, p, list[k])
    BY DEF GoodList, GoodEntry
  <2>2. CASE changed /\ k = k0 /\ list[k].depth = 0
    <3>1. r[k] = [list[k] EXCEPT !.length = length]
      BY <2>2
    <3>2. r[k] = [length |-> length, offset |-> list[k0].offset, depth |-> 0]
      BY <2>1, <2>2, <3>1 DEF Entry
    <3>3. QED
      BY <2>2, <3>2
  <2>3. CASE ~(changed /\ k = k0 /\ list[k].depth = 0)
    <3>1. r[k] = list[k]
      BY <2>3
    <3>2. QED
      BY <2>1, <3>1
  <2>4. QED
    BY <2>2, <2>3
<1>3. r \in Seq(Entry)
  <2>1. \A k \in DOMAIN list : r[k] \in Entry
    BY <1>2 DEF GoodEntry
  <2>2. Len(list) \in Nat /\ DOMAIN list = 1 .. Len(list)
    BY <1>1
  <2>3. r \in [1 .. Len(list) -> Entry]
    BY <2>1, <2>2
  <2>4. QED
    BY <2>2, <2>3
<1>4. QED
  BY <1>1, <1>2, <1>3 DEF GoodList

LEMMA ChangedList ==
  ASSUME Lists, NEW p \in start .. end - 1, NEW list, GoodList(window, p, list),
         match' = [match EXCEPT ![p] = list], window' = window, start' = start
  PROVE  Lists'
<1>1. end' = end
  BY DEF end
<1>2. match \in [start .. end - 1 -> Seq(Entry)] /\ list \in Seq(Entry)
  BY DEF Lists, GoodList
<1>3. match' \in [start .. end - 1 -> Seq(Entry)]
  BY <1>2
<1>4. ASSUME NEW q \in start .. end - 1 PROVE GoodList(window, q, match'[q])
  <2>1. CASE q = p
    BY <1>2, <2>1
  <2>2. CASE q # p
    <3>1. match'[q] = match[q]
      BY <1>2, <2>2
    <3>2. QED
      BY <3>1 DEF Lists
  <2>3. QED
    BY <2>1, <2>2
<1>5. QED
  BY <1>1, <1>3, <1>4 DEF Lists

(***************************************************************************)
(* Supplements: every one of them agrees as far as its length goes, and    *)
(* none has an offset that is in the list.                                 *)
(***************************************************************************)
LEMMA NearestPairs ==
  ASSUME WindowOK, NEW p \in start .. end - 1,
         NEW S \in SUBSET SamePairs(p), NEW count \in Int
  PROVE  /\ Nearest(S, count) \in Seq(S) /\ Nearest(S, count) \in Seq(1 .. p)
         /\ \A j, k \in DOMAIN Nearest(S, count) :
              j # k => Nearest(S, count)[j] # Nearest(S, count)[k]
<1> DEFINE n == Min({p - start, MaxOffset})
<1>1. p - start \in Nat /\ MaxOffset \in Nat /\ p \in Nat /\ start \in Nat
  BY ParserAssumption DEF WindowOK
<1>2. n \in Nat /\ n <= p
  <2>1. {p - start, MaxOffset} \in SUBSET Nat
    BY <1>1
  <2>2. n \in {p - start, MaxOffset} /\ n <= p - start
    BY <2>1, MinProperty
  <2> HIDE DEF n
  <2>3. QED
    BY <1>1, <2>2
<1>3. S \in SUBSET (1 .. n)
  BY DEF SamePairs
<1> HIDE DEF n
<1>4. S \in SUBSET (1 .. p)
  BY <1>1, <1>2, <1>3
<1>5. /\ Nearest(S, count) \in Seq(S)
      /\ \A j, k \in DOMAIN Nearest(S, count) :
           j # k => Nearest(S, count)[j] # Nearest(S, count)[k]
  BY <1>1, <1>4, NearestOffsets
<1>6. \A s \in Seq(S) : s \in Seq(1 .. p)
  <2> SUFFICES ASSUME NEW s \in Seq(S) PROVE s \in Seq(1 .. p)
    OBVIOUS
  <2>1. Len(s) \in Nat /\ s \in [1 .. Len(s) -> S]
    OBVIOUS
  <2>2. s \in [1 .. Len(s) -> 1 .. p]
    BY <1>4, <2>1
  <2>3. QED
    BY <2>1, <2>2
<1>7. QED
  BY <1>5, <1>6

LEMMA EntriesGood ==
  ASSUME WindowOK, search \in Settings, NEW p \in start .. end - 1,
         NEW S \in SUBSET SamePairs(p), NEW count \in Int
  PROVE  /\ GoodList(window, p, Entries(p, Nearest(S, count)))
         /\ \A k \in DOMAIN Entries(p, Nearest(S, count)) :
              Entries(p, Nearest(S, count))[k].offset \in S
<1> DEFINE offsets == Nearest(S, count)
           r == Entries(p, offsets)
           limit == search.supplement_match_length_limit
<1>1. limit \in Nat
  BY ParserAssumption
<1>4. /\ offsets \in Seq(S) /\ offsets \in Seq(1 .. p)
      /\ \A j, k \in DOMAIN offsets : j # k => offsets[j] # offsets[k]
  BY NearestPairs
<1> HIDE DEF offsets
<1>5. /\ DOMAIN r = DOMAIN offsets
      /\ \A k \in DOMAIN offsets :
           r[k] = [length |-> kc_limit_match_len_local(Agreeing(p, offsets[k], limit)),
                   offset |-> offsets[k], depth |-> 0]
  BY DEF Entries
<1> HIDE DEF r, limit
<1>6. ASSUME NEW k \in DOMAIN offsets
      PROVE  GoodEntry(window, p, r[k]) /\ r[k].offset = offsets[k] /\ offsets[k] \in S
  <2>1. offsets[k] \in S
    BY <1>4
  <2>2. offsets[k] \in 1 .. p
    BY <1>4
  <2>3. GoodEntry(window, p,
          [length |-> kc_limit_match_len_local(Agreeing(p, offsets[k], limit)),
           offset |-> offsets[k], depth |-> 0])
    BY <1>1, <2>2, AgreeingEntry
  <2>4. QED
    BY <1>5, <2>1, <2>3
<1>7. r \in Seq(Entry)
  <2>1. \A k \in DOMAIN offsets : r[k] \in Entry
    BY <1>6 DEF GoodEntry
  <2>2. Len(offsets) \in Nat /\ DOMAIN offsets = 1 .. Len(offsets)
    BY <1>4
  <2>3. r = [k \in DOMAIN offsets |->
               [length |-> kc_limit_match_len_local(Agreeing(p, offsets[k], limit)),
                offset |-> offsets[k], depth |-> 0]]
    BY DEF r, Entries, limit
  <2>4. r \in [1 .. Len(offsets) -> Entry]
    BY <2>1, <2>2, <2>3
  <2>5. QED
    BY <2>2, <2>4
<1>8. GoodList(window, p, r)
  BY <1>4, <1>5, <1>6, <1>7 DEF GoodList
<1>9. \A k \in DOMAIN r : r[k].offset \in S
  BY <1>5, <1>6
<1>10. QED
  BY <1>8, <1>9 DEF r, offsets

LEMMA SupplementedLists ==
  ASSUME IInv, NEW p \in start .. end - 1,
         NEW S \in SUBSET {o \in SamePairs(p) : ~Listed(match[p], o)}, NEW count \in Int,
         match' = [match EXCEPT ![p] = @ \o Entries(p, Nearest(S, count))],
         window' = window, start' = start
  PROVE  Lists'
<1> DEFINE more == Entries(p, Nearest(S, count))
<1>1. /\ match \in [start .. end - 1 -> Seq(Entry)] /\ GoodList(window, p, match[p])
      /\ end' = end /\ \A q \in start .. end - 1 : GoodList(window, q, match[q])
  BY DEF IInv, Lists, end
<1>2. GoodList(window, p, more) /\ \A k \in DOMAIN more : more[k].offset \in S
  <2>1. S \in SUBSET SamePairs(p)
    OBVIOUS
  <2>2. QED
    BY <2>1, EntriesGood DEF IInv
<1> HIDE DEF more
<1>3. \A j \in DOMAIN match[p], k \in DOMAIN more : match[p][j].offset # more[k].offset
  BY <1>2 DEF Listed
<1>4. GoodList(window, p, match[p] \o more)
  BY <1>1, <1>2, <1>3, AppendedList
<1>5. match' = [match EXCEPT ![p] = match[p] \o more]
  BY DEF more
<1>6. QED
  BY <1>4, <1>5, ChangedList DEF IInv
-----------------------------------------------------------------------------
(***************************************************************************)
(* One lemma per step that changes a list, a call or the match tried.      *)
(***************************************************************************)
LEMMA SupplementStep == ASSUME IInv, Supplement PROVE IInv'
<1>1. /\ window' = window /\ start' = start /\ search' = search /\ calls' = calls
      /\ stage' = stage /\ pos' = pos + 1 /\ stage = "supplement" /\ pos < end - 1
  BY DEF Supplement
<1>2. pos \in Int /\ pos > start /\ start \in Nat /\ end \in Nat
  BY <1>1 DEF IInv, PlaceOK, WindowOK, end
<1>3. pos \in start .. end - 1
  BY <1>1, <1>2
<1>4. search.initial_supplement_matches - Len(match[pos]) \in Int
  BY <1>3, ParserAssumption DEF IInv, Lists
<1>5. match' = [match EXCEPT ![pos] = @ \o Entries(pos,
                  Nearest({o \in SamePairs(pos) : ~Listed(match[pos], o)},
                          search.initial_supplement_matches - Len(match[pos])))]
  BY DEF Supplement, Supplements
<1>6. Lists'
  BY <1>1, <1>3, <1>4, <1>5, SupplementedLists
<1>7. PlaceOK' /\ TriedOK'
  BY <1>1, <1>2 DEF PlaceOK, TriedOK
<1>8. QED
  BY <1>1, <1>6, <1>7 DEF IInv, WindowOK, end

LEMMA FurtherStep == ASSUME IInv, Further PROVE IInv'
<1> DEFINE isShort == ~(match[pos] # <<>>
                          /\ match[pos][1].length >= search.supplement_trigger_length)
           S == IF isShort THEN {o \in SamePairs(pos) : ~Listed(match[pos], o)
                                                        /\ AgreesLater(pos, o)}
                ELSE {}
           count == Min({search.forward_insert_limit, MaxMatches - Len(match[pos])})
           offsets == IF isShort THEN FurtherOffsets(pos) ELSE <<>>
<1>1. /\ window' = window /\ start' = start /\ search' = search
      /\ stage' = stage /\ pos' = pos + 1 /\ stage = "further" /\ pos < end - 1
      /\ match' = [match EXCEPT ![pos] = @ \o Entries(pos, offsets)]
      /\ calls' = [k \in DOMAIN offsets |-> Call(pos, offsets[k], FarDepth)]
  BY DEF Further
<1>2. pos \in Int /\ pos > start /\ start \in Nat /\ end \in Nat
  BY <1>1 DEF IInv, PlaceOK, WindowOK, end
<1>3. pos \in start .. end - 1
  BY <1>1, <1>2
<1>4. count \in Int
  <2>1. Len(match[pos]) \in Nat /\ MaxMatches \in Nat /\ search.forward_insert_limit \in Nat
    BY <1>3, ParserAssumption DEF IInv, Lists
  <2>2. count \in {search.forward_insert_limit, MaxMatches - Len(match[pos])}
    <3>1. search.forward_insert_limit \in Int /\ MaxMatches - Len(match[pos]) \in Int
      BY <2>1
    <3>2. QED
      BY <3>1, MinOfTwo
  <2> HIDE DEF count
  <2>3. QED
    BY <2>1, <2>2
<1>5. \E T \in SUBSET {o \in SamePairs(pos) : ~Listed(match[pos], o)}, c \in Int :
         offsets = Nearest(T, c)
  <2>1. CASE isShort
    BY <1>4, <2>1 DEF FurtherOffsets
  <2>2. CASE ~isShort
    <3>1. Nearest({}, 0) = <<>>
      <4>1. Cardinality({}) = 0
        BY FS_EmptySet
      <4>2. Max({0, 0}) = 0 /\ Min({0, 0}) = 0
        BY DEF Max, Min
      <4>3. Nearest({}, 0) = [k \in 1 .. 0 |->
              CHOOSE o \in {} : Cardinality({q \in {} : q < o}) = k - 1]
        BY <4>1, <4>2 DEF Nearest
      <4>4. QED
        BY <4>3
    <3>2. {} \in SUBSET {o \in SamePairs(pos) : ~Listed(match[pos], o)} /\ 0 \in Int
      OBVIOUS
    <3>3. QED
      BY <2>2, <3>1, <3>2
  <2>3. QED
    BY <2>1, <2>2
<1> HIDE DEF offsets, count, S, isShort
<1>6. PICK T \in SUBSET {o \in SamePairs(pos) : ~Listed(match[pos], o)}, c \in Int :
         offsets = Nearest(T, c)
  BY <1>5
<1>7. Lists'
  <2>1. match' = [match EXCEPT ![pos] = @ \o Entries(pos, Nearest(T, c))]
    BY <1>1, <1>6
  <2>2. QED
    BY <1>1, <1>3, <2>1, SupplementedLists
<1>8. calls' \in Seq(Calls)
  <2>1. T \in SUBSET SamePairs(pos)
    OBVIOUS
  <2>2. offsets \in Seq(1 .. pos)
    BY <1>3, <1>6, <2>1, NearestPairs DEF IInv
  <2>3. \A k \in DOMAIN offsets : Call(pos, offsets[k], FarDepth) \in Calls
    BY <1>2, <2>2 DEF Call, Calls, FarDepth
  <2>4. Len(offsets) \in Nat /\ DOMAIN offsets = 1 .. Len(offsets)
    BY <2>2
  <2>5. calls' \in [1 .. Len(offsets) -> Calls]
    BY <1>1, <2>3, <2>4
  <2>6. QED
    BY <2>4, <2>5
<1>9. PlaceOK' /\ TriedOK'
  BY <1>1, <1>2 DEF PlaceOK, TriedOK
<1>10. QED
  BY <1>1, <1>7, <1>8, <1>9 DEF IInv, WindowOK, end

(***************************************************************************)
(* A call visits the position from which one of its arrivals got its last  *)
(* offset.  Lists only grow, and a depth stays with its entry.             *)
(***************************************************************************)
LEMMA CallsStay ==
  ASSUME calls \in Seq(Calls), calls # <<>>
  PROVE  /\ call \in Calls /\ GoOn \in Calls /\ Tail(calls) \in Seq(Calls)
<1>1. call \in Calls /\ Tail(calls) \in Seq(Calls)
  BY DEF call
<1>2. ASSUME NEW c \in Calls PROVE [c EXCEPT !.slot = @ + 1] \in Calls
  <2> DEFINE slot == c.slot + 1
  <2>1. slot \in Int
    BY DEF Calls
  <2> HIDE DEF slot
  <2>2. [c EXCEPT !.slot = slot] \in Calls
    BY <2>1 DEF Calls
  <2>3. QED
    BY <2>2 DEF slot
<1>3. QED
  BY <1>1, <1>2 DEF GoOn

LEMMA TriedStays ==
  ASSUME IInv, pos' = pos, m' = m, d' = d, stage' = stage, start' = start,
         window' = window, Lists',
         \A q \in start .. end - 1 :
           /\ Len(match'[q]) >= Len(match[q])
           /\ \A k \in 1 .. Len(match[q]) : match'[q][k].depth = match[q][k].depth
  PROVE  PlaceOK' /\ TriedOK'
<1>1. PlaceOK'
  BY DEF IInv, PlaceOK
<1>2. TriedOK'
  <2> SUFFICES ASSUME stage \in {"insert", "extend"}
               PROVE  /\ pos \in start .. end - 1
                      /\ m \in 1 .. Len(match'[pos]) /\ d \in {0, match'[pos][m].depth}
    BY DEF TriedOK, end
  <2>1. /\ pos \in start .. end - 1 /\ m \in 1 .. Len(match[pos])
        /\ d \in {0, match[pos][m].depth}
    BY DEF IInv, TriedOK
  <2>2. Len(match[pos]) \in Nat /\ Len(match'[pos]) \in Nat
    BY <2>1 DEF IInv, Lists, end
  <2>3. QED
    BY <2>1, <2>2
<1>3. QED
  BY <1>1, <1>2

LEMMA VisitStep == ASSUME IInv, Visit PROVE IInv'
<1> DEFINE p      == arrival[call.at][call.slot].rep_pos
           length == kc_limit_match_len_local(Agreeing(p, call.offset, LCP_MAX))
           entry  == {k \in DOMAIN match[p] : match[p][k].offset = call.offset}
           added  == [length |-> length, offset |-> call.offset, depth |-> 0]
           longer(k) == /\ CanRepeat(p) /\ k = Min(entry)
                        /\ match[p][k].depth = 0 /\ match[p][k].length < length
<1>1. /\ window' = window /\ start' = start /\ search' = search /\ stage' = stage
      /\ pos' = pos /\ m' = m /\ d' = d /\ calls # <<>>
      /\ p \in start .. end - 1
  BY DEF Visit, CanVisit, tried
<1>2. /\ match[p] \in Seq(Entry) /\ GoodList(window, p, match[p])
      /\ match \in [start .. end - 1 -> Seq(Entry)]
  BY <1>1 DEF IInv, Lists
<1>3. call \in Calls /\ GoOn \in Calls /\ Tail(calls) \in Seq(Calls)
  BY <1>1, CallsStay DEF IInv
<1>4. call.offset \in Nat \ {0} /\ p \in Int
  <2>1. call.offset \in Nat \ {0}
    BY <1>3 DEF Calls
  <2>2. start \in Nat /\ end \in Nat
    BY DEF IInv, WindowOK, end
  <2> HIDE DEF p
  <2>3. QED
    BY <1>1, <2>1, <2>2
<1>5. IF CanRepeat(p) /\ entry = {}
      THEN /\ match' = [match EXCEPT ![p] = Append(@, added)]
           /\ calls' = (IF call.depth < search.forward_repeat_depth
                        THEN <<Call(p, call.offset, call.depth + 1)>> ELSE <<>>)
                       \o <<GoOn>> \o Tail(calls)
      ELSE /\ match' = [match EXCEPT ![p] = [k \in DOMAIN @ |->
                          IF /\ CanRepeat(p) /\ k = Min(entry)
                             /\ @[k].depth = 0 /\ @[k].length < length
                          THEN [@[k] EXCEPT !.length = length] ELSE @[k]]]
           /\ calls' = <<GoOn>> \o Tail(calls)
  BY DEF Visit
<1>6. CanRepeat(p) => length \in Nat /\ GoodEntry(window, p, added)
  <2> SUFFICES ASSUME CanRepeat(p) PROVE length \in Nat /\ GoodEntry(window, p, added)
    OBVIOUS
  <2>1. call.offset \in 1 .. p
    <3>1. p >= call.offset
      BY DEF CanRepeat
    <3> HIDE DEF p
    <3>2. QED
      BY <1>4, <3>1
  <2>2. LCP_MAX \in Nat
    BY ParserAssumption
  <2> HIDE DEF p
  <2>3. QED
    BY <1>1, <2>1, <2>2, AgreeingBytes, AgreeingEntry DEF IInv
<1> HIDE DEF p, length
<1>7. CASE CanRepeat(p) /\ entry = {}
  <2>1. GoodList(window, p, match[p] \o <<added>>)
    <3>1. GoodList(window, p, <<added>>)
      BY <1>6, <1>7, SingleList
    <3>2. DOMAIN <<added>> = {1} /\ <<added>>[1] = added
      OBVIOUS
    <3>3. \A j \in DOMAIN match[p] : match[p][j].offset # added.offset
      BY <1>7
    <3> HIDE DEF added
    <3>4. \A j \in DOMAIN match[p], k \in DOMAIN <<added>> :
            match[p][j].offset # <<added>>[k].offset
      BY <3>2, <3>3
    <3>5. QED
      BY <1>2, <3>1, <3>4, AppendedList
  <2>2. added \in Entry
    BY <1>6, <1>7 DEF GoodEntry
  <2> HIDE DEF added, entry
  <2>3. Append(match[p], added) = match[p] \o <<added>>
    BY <1>2, <2>2
  <2>4. match' = [match EXCEPT ![p] = match[p] \o <<added>>]
    BY <1>5, <1>7, <2>3
  <2>5. Lists'
    BY <1>1, <2>1, <2>4, ChangedList DEF IInv
  <2>6. calls' \in Seq(Calls)
    <3>1. Call(p, call.offset, call.depth + 1) \in Calls
      BY <1>3, <1>4 DEF Call, Calls
    <3>2. <<Call(p, call.offset, call.depth + 1)>> \in Seq(Calls) /\ <<>> \in Seq(Calls)
          /\ <<GoOn>> \in Seq(Calls)
      BY <1>3, <3>1
    <3>3. calls' = ((IF call.depth < search.forward_repeat_depth
                     THEN <<Call(p, call.offset, call.depth + 1)>> ELSE <<>>)
                    \o <<GoOn>>) \o Tail(calls)
      BY <1>5, <1>7
    <3>4. QED
      BY <1>3, <3>2, <3>3
  <2>7. \A q \in start .. end - 1 :
           /\ Len(match'[q]) >= Len(match[q])
           /\ \A k \in 1 .. Len(match[q]) : match'[q][k].depth = match[q][k].depth
    <3> SUFFICES ASSUME NEW q \in start .. end - 1
                 PROVE  /\ Len(match'[q]) >= Len(match[q])
                        /\ \A k \in 1 .. Len(match[q]) : match'[q][k].depth = match[q][k].depth
      OBVIOUS
    <3>1. match[q] \in Seq(Entry)
      BY <1>2
    <3>2. CASE q = p
      <4>1. match'[q] = match[q] \o <<added>>
        BY <1>2, <2>4, <3>2
      <4>2. <<added>> \in Seq(Entry) /\ Len(<<added>>) = 1
        BY <2>2
      <4>3. QED
        BY <3>1, <4>1, <4>2
    <3>3. CASE q # p
      BY <1>2, <2>4, <3>1, <3>3
    <3>4. QED
      BY <3>2, <3>3
  <2>8. PlaceOK' /\ TriedOK'
    BY <1>1, <2>5, <2>7, TriedStays
  <2>9. QED
    BY <1>1, <2>5, <2>6, <2>8 DEF IInv, WindowOK, end
<1>8. CASE ~(CanRepeat(p) /\ entry = {})
  <2> DEFINE list == [k \in DOMAIN match[p] |->
                        IF longer(k) THEN [match[p][k] EXCEPT !.length = length]
                        ELSE match[p][k]]
  <2>1. match' = [match EXCEPT ![p] = list] /\ calls' = <<GoOn>> \o Tail(calls)
    BY <1>2, <1>5, <1>8
  <2>2. /\ GoodList(window, p, list) /\ DOMAIN list = DOMAIN match[p]
        /\ \A k \in DOMAIN match[p] : list[k].depth = match[p][k].depth
    <3>1. CASE CanRepeat(p)
      <4>1. entry \in SUBSET Nat /\ entry # {} /\ entry \subseteq DOMAIN match[p]
        BY <1>2, <1>8, <3>1
      <4>2. Min(entry) \in entry
        BY <4>1, MinProperty
      <4> DEFINE k0 == Min(entry)
                 changed == CanRepeat(p) /\ match[p][k0].length < length
      <4>3. k0 \in DOMAIN match[p] /\ match[p][k0].offset = call.offset
        BY <4>2
      <4>4. list = [k \in DOMAIN match[p] |->
                      IF changed /\ k = k0 /\ match[p][k].depth = 0
                      THEN [match[p][k] EXCEPT !.length = length] ELSE match[p][k]]
        OBVIOUS
      <4>5. GoodEntry(window, p, [length |-> length, offset |-> match[p][k0].offset,
                                  depth |-> 0]) /\ length \in Nat
        BY <1>6, <3>1, <4>3
      <4>6. changed \in BOOLEAN
        OBVIOUS
      <4> HIDE DEF list, changed, k0, entry
      <4>7. QED
        BY <1>2, <4>3, <4>4, <4>5, <4>6, LengthenedList
    <3>2. CASE ~CanRepeat(p)
      <4>1. list = match[p]
        BY <1>2, <3>2
      <4>2. QED
        BY <1>2, <4>1
    <3>3. QED
      BY <3>1, <3>2
  <2> HIDE DEF list
  <2>3. Lists'
    BY <1>1, <2>1, <2>2, ChangedList DEF IInv
  <2>4. calls' \in Seq(Calls)
    <3>1. <<GoOn>> \in Seq(Calls)
      BY <1>3
    <3>2. QED
      BY <1>3, <2>1, <3>1
  <2>5. \A q \in start .. end - 1 :
           /\ Len(match'[q]) >= Len(match[q])
           /\ \A k \in 1 .. Len(match[q]) : match'[q][k].depth = match[q][k].depth
    <3> SUFFICES ASSUME NEW q \in start .. end - 1
                 PROVE  /\ Len(match'[q]) >= Len(match[q])
                        /\ \A k \in 1 .. Len(match[q]) : match'[q][k].depth = match[q][k].depth
      OBVIOUS
    <3>1. match[q] \in Seq(Entry) /\ DOMAIN match[q] = 1 .. Len(match[q])
      BY <1>2
    <3>2. CASE q = p
      <4>1. match'[q] = list
        BY <1>2, <2>1, <3>2
      <4>2. list \in Seq(Entry)
        BY <2>2 DEF GoodList
      <4>3. Len(list) = Len(match[p])
        BY <1>2, <2>2, <4>2
      <4>4. QED
        BY <2>2, <3>1, <3>2, <4>1, <4>3
    <3>3. CASE q # p
      BY <1>2, <2>1, <3>1, <3>3
    <3>4. QED
      BY <3>2, <3>3
  <2>6. PlaceOK' /\ TriedOK'
    BY <1>1, <2>3, <2>5, TriedStays
  <2>7. QED
    BY <1>1, <2>3, <2>4, <2>6 DEF IInv, WindowOK, end
<1>9. QED
  BY <1>7, <1>8

LEMMA PassStep == ASSUME IInv, Pass PROVE IInv'
<1>1. /\ window' = window /\ start' = start /\ search' = search /\ stage' = stage
      /\ pos' = pos /\ m' = m /\ d' = d /\ match' = match /\ calls # <<>>
      /\ calls' = (IF Return THEN <<>> ELSE <<GoOn>>) \o Tail(calls)
  BY DEF Pass, tables, tried
<1>2. GoOn \in Calls /\ Tail(calls) \in Seq(Calls)
  BY <1>1, CallsStay DEF IInv
<1>3. calls' \in Seq(Calls)
  <2>1. <<GoOn>> \in Seq(Calls) /\ <<>> \in Seq(Calls)
    BY <1>2
  <2>2. QED
    BY <1>1, <1>2, <2>1
<1>4. Lists' /\ PlaceOK' /\ TriedOK'
  BY <1>1 DEF IInv, Lists, PlaceOK, TriedOK, end
<1>5. QED
  BY <1>1, <1>3, <1>4 DEF IInv, WindowOK, end

(***************************************************************************)
(* The next match is tried only if there is one.                           *)
(***************************************************************************)
LEMMA NextMatchTried ==
  ASSUME IInv, pos \in start .. end - 1, NEW index \in Nat \ {0}, NextMatch(index),
         match' = match, pos' = pos, window' = window, start' = start
  PROVE  PlaceOK' /\ TriedOK'
<1>1. start \in Nat /\ end \in Nat /\ end' = end
  BY DEF IInv, WindowOK, end
<1>2. Len(match[pos]) \in Nat
  BY DEF IInv, Lists
<1>3. stage' \in {"insert", "extend", "next"}
      /\ (stage' # "next" => index <= Len(match[pos])) /\ m' = index /\ d' = 0
  BY DEF NextMatch
<1>4. QED
  BY <1>1, <1>2, <1>3 DEF PlaceOK, TriedOK

LEMMA ArriveStep == ASSUME IInv, Arrive PROVE IInv'
<1>1. /\ window' = window /\ start' = start /\ search' = search /\ match' = match
      /\ pos' = pos /\ calls' = calls /\ stage = "arrive" /\ pos < end
      /\ stage' = "next" \/ NextMatch(1)
  BY DEF Arrive
<1>2. pos \in start .. end - 1 /\ start \in Nat
  BY <1>1 DEF IInv, PlaceOK, WindowOK, end
<1>3. PlaceOK' /\ TriedOK'
  <2>1. CASE stage' = "next"
    BY <1>1, <1>2, <2>1 DEF PlaceOK, TriedOK
  <2>2. CASE NextMatch(1)
    BY <1>1, <1>2, <2>2, NextMatchTried
  <2>3. QED
    BY <1>1, <2>1, <2>2
<1>4. QED
  BY <1>1, <1>3 DEF IInv, WindowOK, Lists, end

LEMMA InsertStep == ASSUME IInv, Insert PROVE IInv'
<1>1. /\ window' = window /\ start' = start /\ search' = search /\ match' = match
      /\ pos' = pos /\ m' = m /\ d' = d /\ stage = "insert" /\ stage' = "extend"
      /\ calls' = <<Call(pos, nMatchOffset, 0)>>
  BY DEF Insert, tables, tried
<1>2. /\ pos \in start .. end - 1 /\ m \in 1 .. Len(match[pos])
      /\ d \in {0, match[pos][m].depth}
  BY <1>1 DEF IInv, TriedOK
<1>3. GoodEntry(window, pos, match[pos][m]) /\ pos \in Int
  <2>1. match[pos] \in Seq(Entry) /\ GoodList(window, pos, match[pos])
    BY <1>2 DEF IInv, Lists
  <2>2. m \in DOMAIN match[pos]
    BY <1>2, <2>1
  <2>3. QED
    BY <1>2, <2>1, <2>2 DEF GoodList, IInv, WindowOK, end
<1>4. nMatchOffset \in Nat \ {0}
  <2>1. /\ match[pos][m].offset \in Nat /\ match[pos][m].depth \in Nat
        /\ match[pos][m].depth < match[pos][m].offset
    BY <1>3 DEF GoodEntry, Entry
  <2>2. QED
    BY <1>2, <2>1 DEF nMatchOffset
<1>5. calls' \in Seq(Calls)
  <2>1. Call(pos, nMatchOffset, 0) \in Calls
    BY <1>3, <1>4 DEF Call, Calls
  <2>2. QED
    BY <1>1, <2>1
<1>6. PlaceOK' /\ TriedOK'
  BY <1>1, <1>2 DEF IInv, PlaceOK, TriedOK, end
<1>7. QED
  BY <1>1, <1>5, <1>6 DEF IInv, WindowOK, Lists, end

LEMMA ExtendStep == ASSUME IInv, Extend PROVE IInv'
<1>1. /\ window' = window /\ start' = start /\ search' = search /\ match' = match
      /\ pos' = pos /\ calls' = calls /\ stage = "extend"
      /\ IF d = 0 /\ match[pos][m].depth # 0
         THEN /\ m' = m /\ d' = match[pos][m].depth
              /\ stage' = IF second THEN "extend" ELSE "insert"
         ELSE NextMatch(IF EarlyBreak THEN Len(match[pos]) + 1 ELSE m + 1)
  BY DEF Extend
<1>2. /\ pos \in start .. end - 1 /\ m \in 1 .. Len(match[pos]) /\ end' = end
      /\ Len(match[pos]) \in Nat /\ start \in Nat
  BY <1>1 DEF IInv, TriedOK, Lists, WindowOK, end
<1>3. PlaceOK' /\ TriedOK'
  <2>1. CASE d = 0 /\ match[pos][m].depth # 0
    BY <1>1, <1>2, <2>1 DEF PlaceOK, TriedOK
  <2>2. CASE ~(d = 0 /\ match[pos][m].depth # 0)
    <3>1. PICK index \in Nat \ {0} : NextMatch(index)
      BY <1>1, <1>2, <2>2
    <3>2. QED
      BY <1>1, <1>2, <3>1, NextMatchTried
  <2>3. QED
    BY <2>1, <2>2
<1>4. QED
  BY <1>1, <1>3 DEF IInv, WindowOK, Lists, end

(***************************************************************************)
(* The other steps move between the passes and positions, or fill the      *)
(* table: they leave the lists and the calls as they are.                  *)
(***************************************************************************)
LEMMA MovingStep ==
  ASSUME IInv,
         \/ FirstPass \/ NextPosition \/ EndFirstPass \/ SecondPass \/ Trace \/ TraceBack
         \/ UNCHANGED parserVars
  PROVE  IInv'
<1>1. /\ window' = window /\ start' = start /\ search' = search /\ match' = match
      /\ calls' = calls
  BY DEF FirstPass, NextPosition, EndFirstPass, SecondPass, Trace, TraceBack, StartPass,
     tables, tried, parserVars
<1>2. start \in Nat
  BY DEF IInv, WindowOK
<1>3. PlaceOK' /\ TriedOK'
  <2>1. CASE FirstPass
    BY <1>1, <1>2, <2>1 DEF FirstPass, StartPass, PlaceOK, TriedOK
  <2>2. CASE NextPosition
    BY <1>1, <1>2, <2>2 DEF NextPosition, IInv, PlaceOK, TriedOK
  <2>3. CASE EndFirstPass
    BY <1>1, <1>2, <2>3 DEF EndFirstPass, PlaceOK, TriedOK
  <2>4. CASE SecondPass
    BY <1>1, <1>2, <2>4 DEF SecondPass, StartPass, PlaceOK, TriedOK
  <2>5. CASE Trace
    BY <1>1, <2>5 DEF Trace, PlaceOK, TriedOK
  <2>6. CASE TraceBack
    BY <1>1, <2>6 DEF TraceBack, PlaceOK, TriedOK
  <2>7. CASE UNCHANGED parserVars
    BY <1>1, <2>7 DEF parserVars, tables, tried, IInv, PlaceOK, TriedOK, end
  <2>8. QED
    BY <2>1, <2>2, <2>3, <2>4, <2>5, <2>6, <2>7
<1>4. QED
  BY <1>1, <1>3 DEF IInv, WindowOK, Lists, end

(***************************************************************************)
(* The invariant holds in every behaviour of the parser.                   *)
(***************************************************************************)
THEOREM ListsInvariant == ParserSpec => []IInv
<1>1. HandedOver /\ Ready => IInv
  BY DEF HandedOver, Ready, IInv, WindowOK, PlaceOK, TriedOK
<1>2. IInv /\ [Parse]_parserVars => IInv'
  BY SupplementStep, FurtherStep, VisitStep, PassStep, ArriveStep, InsertStep, ExtendStep,
     MovingStep DEF Parse
<1>3. QED
  BY <1>1, <1>2, PTL DEF ParserSpec

(***************************************************************************)
(* Every match the parser ever tries, whether it was found, supplemented,  *)
(* inserted for a repetition or lengthened, copies the bytes it stands     *)
(* for, and no list has an offset twice: for every window, setting and     *)
(* starting list.                                                          *)
(***************************************************************************)
THEOREM ListsCorrect == ParserSpec => []ListsStayCorrect
<1>1. IInv => ListsStayCorrect
  BY DEF IInv, Lists, GoodList, GoodEntry, ListsStayCorrect
<1>2. QED
  BY <1>1, ListsInvariant, PTL

-----------------------------------------------------------------------------
(***************************************************************************)
(* The slots of a position.  What the three copies of the insertion in     *)
(* salvador_optimize_forward keep, for every number of slots, every        *)
(* content of theirs and every arrival that they admit.                    *)
(***************************************************************************)
(* Arrivals of any kind, as long as they can be ranked. *)
IsRankable(S) == \A x \in S : x.cost \in Int /\ x.score \in Nat

(***************************************************************************)
(* Slots in order; Before is a total order up to equal cost and score.     *)
(***************************************************************************)
LEMMA BeforeTotal ==
  ASSUME NEW S, IsRankable(S), NEW a \in S, NEW b \in S
  PROVE  Before(a, b) \/ Before(b, a)
  BY DEF Before, IsRankable

LEMMA BeforeTransitive ==
  ASSUME NEW S, IsRankable(S), NEW a \in S, NEW b \in S, NEW c \in S,
         Before(a, b), Before(b, c)
  PROVE  Before(a, c)
  BY DEF Before, IsRankable

(***************************************************************************)
(* The two operations on sequences that the insertion is made of.          *)
(***************************************************************************)
LEMMA ConcatElements ==
  ASSUME NEW S, NEW s \in Seq(S), NEW t \in Seq(S)
  PROVE  /\ s \o t \in Seq(S) /\ Len(s \o t) = Len(s) + Len(t)
         /\ \A j \in 1 .. Len(s) + Len(t) :
              (s \o t)[j] = IF j <= Len(s) THEN s[j] ELSE t[j - Len(s)]
  OBVIOUS

LEMMA InsertAtElements ==
  ASSUME NEW S, NEW s \in Seq(S), NEW e \in S, NEW p \in 1 .. Len(s) + 1
  PROVE  /\ InsertAt(s, p, e) \in Seq(S)
         /\ Len(InsertAt(s, p, e)) = Len(s) + 1
         /\ \A j \in 1 .. Len(s) + 1 :
              InsertAt(s, p, e)[j] = IF j < p THEN s[j] ELSE IF j = p THEN e ELSE s[j - 1]
<1> DEFINE front == SubSeq(s, 1, p - 1)
           back  == SubSeq(s, p, Len(s))
<1>1. front \in Seq(S) /\ Len(front) = p - 1 /\ \A j \in 1 .. p - 1 : front[j] = s[j]
  OBVIOUS
<1>2. /\ back \in Seq(S) /\ Len(back) = Len(s) - p + 1
      /\ \A j \in 1 .. Len(s) - p + 1 : back[j] = s[p + j - 1]
  OBVIOUS
<1>3. /\ <<e>> \in Seq(S) /\ Len(<<e>>) = 1 /\ <<e>>[1] = e
  OBVIOUS
<1>4. InsertAt(s, p, e) = (front \o <<e>>) \o back
  BY DEF InsertAt
<1> DEFINE head == front \o <<e>>
<1> HIDE DEF front, back
<1>5. /\ head \in Seq(S) /\ Len(head) = p
      /\ \A j \in 1 .. p : head[j] = IF j < p THEN s[j] ELSE e
  <2>1. /\ head \in Seq(S) /\ Len(head) = (p - 1) + 1
        /\ \A j \in 1 .. (p - 1) + 1 :
             head[j] = IF j <= p - 1 THEN front[j] ELSE <<e>>[j - (p - 1)]
    BY <1>1, <1>3, ConcatElements
  <2> HIDE DEF head
  <2>2. ASSUME NEW j \in 1 .. p PROVE head[j] = IF j < p THEN s[j] ELSE e
    <3>1. CASE j < p
      BY <1>1, <2>1, <3>1
    <3>2. CASE j = p
      <4>1. j - (p - 1) = 1 /\ ~(j <= p - 1) /\ j \in 1 .. (p - 1) + 1
        BY <3>2
      <4>2. head[j] = <<e>>[j - (p - 1)]
        BY <2>1, <4>1
      <4>3. QED
        BY <1>3, <3>2, <4>1, <4>2
    <3>3. QED
      BY <3>1, <3>2
  <2>3. QED
    BY <2>1, <2>2
<1> HIDE DEF head
<1> DEFINE r == head \o back
<1>6. /\ r \in Seq(S) /\ Len(r) = p + (Len(s) - p + 1)
      /\ \A j \in 1 .. p + (Len(s) - p + 1) :
           r[j] = IF j <= p THEN head[j] ELSE back[j - p]
  <2>1. /\ r \in Seq(S) /\ Len(r) = Len(head) + Len(back)
        /\ \A j \in 1 .. Len(head) + Len(back) :
             r[j] = IF j <= Len(head) THEN head[j] ELSE back[j - Len(head)]
    BY <1>2, <1>5, ConcatElements
  <2> HIDE DEF r
  <2>2. QED
    BY <1>2, <1>5, <2>1
<1> HIDE DEF r
<1>7. ASSUME NEW j \in 1 .. Len(s) + 1
      PROVE  r[j] = IF j < p THEN s[j] ELSE IF j = p THEN e ELSE s[j - 1]
  <2>1. CASE j <= p
    BY <1>5, <1>6, <2>1
  <2>2. CASE j > p
    <3>1. j - p \in 1 .. Len(s) - p + 1 /\ p + (j - p) - 1 = j - 1
      BY <2>2
    <3>2. back[j - p] = s[p + (j - p) - 1]
      BY <1>2, <3>1
    <3>3. QED
      BY <1>6, <2>2, <3>1, <3>2
  <2>3. QED
    BY <2>1, <2>2
<1>8. QED
  BY <1>4, <1>6, <1>7 DEF head, r

LEMMA RemoveAtElements ==
  ASSUME NEW S, NEW s \in Seq(S), NEW p \in 1 .. Len(s)
  PROVE  /\ RemoveAt(s, p) \in Seq(S)
         /\ Len(RemoveAt(s, p)) = Len(s) - 1
         /\ \A j \in 1 .. Len(s) - 1 : RemoveAt(s, p)[j] = IF j < p THEN s[j] ELSE s[j + 1]
<1> DEFINE front == SubSeq(s, 1, p - 1)
           back  == SubSeq(s, p + 1, Len(s))
<1>1. front \in Seq(S) /\ Len(front) = p - 1 /\ \A j \in 1 .. p - 1 : front[j] = s[j]
  OBVIOUS
<1>2. /\ back \in Seq(S) /\ Len(back) = Len(s) - p
      /\ \A j \in 1 .. Len(s) - p : back[j] = s[p + j]
  OBVIOUS
<1>3. RemoveAt(s, p) = front \o back
  BY DEF RemoveAt
<1> HIDE DEF front, back
<1> DEFINE r == front \o back
<1>4. /\ r \in Seq(S) /\ Len(r) = (p - 1) + (Len(s) - p)
      /\ \A j \in 1 .. (p - 1) + (Len(s) - p) :
           r[j] = IF j <= p - 1 THEN front[j] ELSE back[j - (p - 1)]
  <2>1. /\ r \in Seq(S) /\ Len(r) = Len(front) + Len(back)
        /\ \A j \in 1 .. Len(front) + Len(back) :
             r[j] = IF j <= Len(front) THEN front[j] ELSE back[j - Len(front)]
    BY <1>1, <1>2, ConcatElements
  <2> HIDE DEF r
  <2>2. QED
    BY <1>1, <1>2, <2>1
<1> HIDE DEF r
<1>5. ASSUME NEW j \in 1 .. Len(s) - 1 PROVE r[j] = IF j < p THEN s[j] ELSE s[j + 1]
  <2>1. CASE j < p
    <3>1. j \in 1 .. (p - 1) + (Len(s) - p) /\ j <= p - 1 /\ j \in 1 .. p - 1
      BY <2>1
    <3>2. r[j] = front[j]
      BY <1>4, <3>1
    <3>3. QED
      BY <1>1, <2>1, <3>1, <3>2
  <2>2. CASE j >= p
    <3>1. j - (p - 1) \in 1 .. Len(s) - p /\ p + (j - (p - 1)) = j + 1
      BY <2>2
    <3>2. back[j - (p - 1)] = s[p + (j - (p - 1))]
      BY <1>2, <3>1
    <3>3. j \in 1 .. (p - 1) + (Len(s) - p) /\ ~(j <= p - 1)
      BY <2>2
    <3>4. r[j] = back[j - (p - 1)]
      BY <1>4, <3>3
    <3>5. QED
      BY <2>2, <3>1, <3>2, <3>4
  <2>3. QED
    BY <2>1, <2>2
<1>6. QED
  BY <1>3, <1>4, <1>5 DEF r
-----------------------------------------------------------------------------
(***************************************************************************)
(* The scan for the place: everything in front of it ranks no later than   *)
(* the new arrival, everything from it on no earlier.                      *)
(***************************************************************************)
LEMMA LargestExists ==
  ASSUME NEW N \in Nat, NEW X \in SUBSET (0 .. N), 0 \in X
  PROVE  \E j \in X : \A k \in X : k <= j
<1> DEFINE Gaps == {N - x : x \in X}
<1>1. Gaps \subseteq Nat /\ N - 0 \in Gaps
  OBVIOUS
<1>2. \E g \in Gaps : \A h \in Gaps : g <= h
  <2> DEFINE R == OpToRel(<, Nat)
  <2>1. IsWellFoundedOn(R, Nat)
    BY NatLessThanWellFounded
  <2>2. \A x, y \in Nat : y < x => <<y, x>> \in R
    BY DEF OpToRel
  <2> HIDE DEF R
  <2>3. Gaps # {}
    BY <1>1
  <2> HIDE DEF Gaps
  <2>4. PICK x \in Gaps : \A y \in Gaps : ~ (<<y, x>> \in R)
    BY <1>1, <2>1, <2>3, WFMin
  <2>5. \A y \in Gaps : ~(y < x)
    BY <1>1, <2>2, <2>4
  <2>6. QED
    BY <1>1, <2>4, <2>5
<1>3. PICK g \in Gaps : \A h \in Gaps : g <= h
  BY <1>2
<1>4. PICK x \in X : g = N - x
  OBVIOUS
<1>5. \A k \in X : N - x <= N - k
  BY <1>3, <1>4
<1>6. QED
  BY <1>5

LEMMA SlotsBeforeSplits ==
  ASSUME NEW S, IsRankable(S), NEW slots \in Seq(S), Ranked(slots), NEW a \in S
  PROVE  /\ SlotsBefore(slots, a) \in 0 .. Len(slots)
         /\ \A k \in 1 .. SlotsBefore(slots, a) : Before(slots[k], a)
         /\ \A k \in SlotsBefore(slots, a) + 1 .. Len(slots) : Before(a, slots[k])
<1> DEFINE before == {j \in 0 .. Len(slots) : \A k \in 1 .. j : Before(slots[k], a)}
           b      == SlotsBefore(slots, a)
<1>1. before \in SUBSET (0 .. Len(slots)) /\ 0 \in before /\ Len(slots) \in Nat
  OBVIOUS
<1>2. b \in before /\ \A k \in before : k <= b
  <2>1. b = CHOOSE j \in before : \A k \in before : k <= j
    BY DEF SlotsBefore
  <2> HIDE DEF before, b
  <2>2. \E j \in before : \A k \in before : k <= j
    BY <1>1, LargestExists
  <2>3. QED
    BY <2>1, <2>2
<1> HIDE DEF b
<1>3. b \in 0 .. Len(slots) /\ \A k \in 1 .. b : Before(slots[k], a)
  BY <1>2
<1>4. ASSUME NEW k \in b + 1 .. Len(slots) PROVE Before(a, slots[k])
  <2>1. b + 1 \in 0 .. Len(slots) /\ b + 1 \notin before
    BY <1>2, <1>3, <1>4
  <2>2. PICK j \in 1 .. b + 1 : ~ Before(slots[j], a)
    BY <2>1
  <2>3. j = b + 1
    BY <1>3, <2>2
  <2>4. slots[b + 1] \in S /\ slots[k] \in S
    BY <1>3, <1>4
  <2>5. Before(a, slots[b + 1])
    BY <2>2, <2>3, <2>4, BeforeTotal
  <2>6. CASE k = b + 1
    BY <2>5, <2>6
  <2>7. CASE k # b + 1
    <3>1. b + 1 \in 1 .. Len(slots) /\ k \in 1 .. Len(slots) /\ b + 1 < k
      BY <1>3, <1>4, <2>7
    <3>2. Before(slots[b + 1], slots[k])
      BY <3>1 DEF Ranked
    <3>3. QED
      BY <2>4, <2>5, <3>2, BeforeTransitive
  <2>8. QED
    BY <2>6, <2>7
<1>5. QED
  BY <1>3, <1>4 DEF b

(***************************************************************************)
(* Taking out a slot, or none, and putting the arrival in its place leaves *)
(* an order: what is in front of it stays there.  z is one past the end    *)
(* when no slot is taken out.                                              *)
(***************************************************************************)
LEMMA ReplacedRanked ==
  ASSUME NEW S, IsRankable(S), NEW slots \in Seq(S), Ranked(slots), NEW a \in S,
         NEW z \in Nat, SlotsBefore(slots, a) < z,
         \A k \in 1 .. Len(slots) : k # z => slots[k].rep_offset # a.rep_offset,
         NEW kept, kept = IF z <= Len(slots) THEN RemoveAt(slots, z) ELSE slots
  PROVE  LET r == InsertAt(kept, SlotsBefore(slots, a) + 1, a)
         IN  /\ r \in Seq(S)
             /\ Len(r) = IF z <= Len(slots) THEN Len(slots) ELSE Len(slots) + 1
             /\ Ranked(r)
<1> DEFINE b == SlotsBefore(slots, a)
           r == InsertAt(kept, b + 1, a)
           source(j) == IF j <= b THEN j ELSE IF j - 1 < z THEN j - 1 ELSE j
           N == IF z <= Len(slots) THEN Len(slots) ELSE Len(slots) + 1
<1>1. /\ b \in 0 .. Len(slots) /\ b < z /\ Len(slots) \in Nat
      /\ \A k \in 1 .. b : Before(slots[k], a)
      /\ \A k \in b + 1 .. Len(slots) : Before(a, slots[k])
  BY SlotsBeforeSplits
<1> HIDE DEF b
<1>2. /\ kept \in Seq(S) /\ Len(kept) = N - 1
      /\ \A j \in 1 .. N - 1 : kept[j] = IF j < z THEN slots[j] ELSE slots[j + 1]
  <2>1. CASE z <= Len(slots)
    <3>1. z \in 1 .. Len(slots) /\ kept = RemoveAt(slots, z)
      BY <1>1, <2>1
    <3>2. QED
      BY <2>1, <3>1, RemoveAtElements
  <2>2. CASE ~(z <= Len(slots))
    BY <1>1, <2>2
  <2>3. QED
    BY <2>1, <2>2
<1>3. /\ r \in Seq(S) /\ Len(r) = N
      /\ \A j \in 1 .. N :
           r[j] = IF j < b + 1 THEN kept[j] ELSE IF j = b + 1 THEN a ELSE kept[j - 1]
  <2>1. b + 1 \in 1 .. Len(kept) + 1 /\ Len(kept) + 1 = N
    <3>1. N \in Nat /\ b \in Nat /\ b + 1 <= N
      BY <1>1
    <3>2. Len(kept) = N - 1
      BY <1>2
    <3> HIDE DEF N
    <3>3. QED
      BY <3>1, <3>2
  <2>2. PICK p : p = b + 1
    OBVIOUS
  <2>3. kept \in Seq(S) /\ a \in S /\ p \in 1 .. Len(kept) + 1
    BY <1>2, <2>1, <2>2
  <2>4. /\ InsertAt(kept, p, a) \in Seq(S)
        /\ Len(InsertAt(kept, p, a)) = Len(kept) + 1
        /\ \A j \in 1 .. Len(kept) + 1 :
             InsertAt(kept, p, a)[j] = IF j < p THEN kept[j] ELSE IF j = p THEN a ELSE kept[j - 1]
    BY ONLY <2>3, InsertAtElements
  <2>5. r = InsertAt(kept, p, a)
    BY <2>2
  <2> HIDE DEF r, N
  <2>6. QED
    BY <2>1, <2>2, <2>4, <2>5
<1> HIDE DEF r
<1>4. ASSUME NEW j \in 1 .. N, j # b + 1
      PROVE  /\ r[j] = slots[source(j)]
             /\ source(j) \in 1 .. Len(slots) /\ source(j) # z
             /\ j <= b => source(j) \in 1 .. b
             /\ j > b + 1 => source(j) \in b + 1 .. Len(slots)
  <2>1. CASE j <= b
    <3>1. r[j] = kept[j] /\ j \in 1 .. N - 1 /\ j < z
      BY <1>1, <1>3, <2>1
    <3>2. kept[j] = slots[j]
      BY <1>2, <3>1
    <3>3. QED
      BY <1>1, <2>1, <3>1, <3>2
  <2>2. CASE j > b + 1
    <3>1. r[j] = kept[j - 1] /\ j - 1 \in 1 .. N - 1
      BY <1>1, <1>3, <2>2
    <3>2. kept[j - 1] = IF j - 1 < z THEN slots[j - 1] ELSE slots[(j - 1) + 1]
      BY <1>2, <3>1
    <3>3. (j - 1) + 1 = j
      OBVIOUS
    <3>4. QED
      BY <1>1, <2>2, <3>1, <3>2, <3>3
  <2>3. QED
    BY <1>1, <1>4, <2>1, <2>2
<1>5. \A j, k \in 1 .. N : j < k /\ j # b + 1 /\ k # b + 1 => source(j) < source(k)
  BY <1>1
<1>6. r[b + 1] = a /\ b + 1 \in 1 .. N
  BY <1>1, <1>3
<1> HIDE DEF source, N
<1>7. ASSUME NEW j \in 1 .. N, NEW k \in 1 .. N, j < k
      PROVE  Before(r[j], r[k]) /\ r[j].rep_offset # r[k].rep_offset
  <2>1. CASE j = b + 1
    <3>1. k > b + 1 /\ k # b + 1
      BY <1>1, <1>7, <2>1
    <3>2. QED
      BY <1>1, <1>4, <1>6, <2>1, <3>1
  <2>2. CASE k = b + 1
    <3>1. j <= b /\ j # b + 1
      BY <1>1, <1>7, <2>2
    <3>2. QED
      BY <1>1, <1>4, <1>6, <2>2, <3>1
  <2>3. CASE j # b + 1 /\ k # b + 1
    BY <1>4, <1>5, <1>7, <2>3 DEF Ranked
  <2>4. QED
    BY <2>1, <2>2, <2>3
<1>8. Ranked(r)
  BY <1>3, <1>7 DEF Ranked
<1>9. QED
  BY <1>3, <1>8 DEF b, r, N

(***************************************************************************)
(* An arrival that the scan does not find to exist is put in.              *)
(***************************************************************************)
LEMMA InsertedRanked ==
  ASSUME NEW S, IsRankable(S), NEW slots \in Seq(S), Ranked(slots), NEW a \in S,
         NEW limit \in Nat, Len(slots) <= limit,
         Len(slots) < limit \/ SlotsBefore(slots, a) < limit
  PROVE  /\ Inserted(slots, a, limit) \in Seq(S)
         /\ Len(Inserted(slots, a, limit)) \in 1 .. limit
         /\ Ranked(Inserted(slots, a, limit))
<1> DEFINE z    == Freed(slots, a, limit)
           kept == IF z <= Len(slots) THEN RemoveAt(slots, z) ELSE slots
           b    == SlotsBefore(slots, a)
<1>1. CASE Exists(slots, a, limit)
  <2>1. Len(slots) \in 1 .. limit
    BY <1>1 DEF Exists, SameOffset
  <2>2. QED
    BY <1>1, <2>1 DEF Inserted
<1>2. CASE ~Exists(slots, a, limit)
  <2>1. b \in 0 .. Len(slots)
    BY SlotsBeforeSplits
  <2>2. /\ z \in Nat /\ b < z /\ (Len(slots) = limit => z <= Len(slots))
        /\ \A k \in 1 .. Len(slots) : k # z => slots[k].rep_offset # a.rep_offset
    <3>1. CASE SameOffset(slots, a) # {}
      <4>1. PICK s : s \in SameOffset(slots, a)
        BY <3>1
      <4>2. \A k \in SameOffset(slots, a) : k = s
        BY <4>1 DEF SameOffset, Ranked
      <4>3. z = CHOOSE k \in SameOffset(slots, a) : \A j \in SameOffset(slots, a) : k <= j
        BY <3>1 DEF Freed
      <4>4. s \in 1 .. Len(slots)
        BY <4>1 DEF SameOffset
      <4>5. \E k \in SameOffset(slots, a) : \A j \in SameOffset(slots, a) : k <= j
        BY <4>1, <4>2, <4>4
      <4>6. z = s
        BY <4>2, <4>3, <4>5
      <4>7. b < s
        BY <1>2, <2>1, <4>1, <4>4 DEF Exists
      <4>8. \A k \in 1 .. Len(slots) : k # s => slots[k].rep_offset # a.rep_offset
        BY <4>2 DEF SameOffset
      <4> HIDE DEF z, b
      <4>9. QED
        BY <4>4, <4>6, <4>7, <4>8
    <3>2. CASE SameOffset(slots, a) = {}
      <4>1. z = limit
        BY <3>2 DEF Freed
      <4>2. \A k \in 1 .. Len(slots) : slots[k].rep_offset # a.rep_offset
        BY <3>2 DEF SameOffset
      <4> HIDE DEF z, b
      <4>3. b < limit
        BY <2>1 DEF b
      <4>4. QED
        BY <4>1, <4>2, <4>3
    <3>3. QED
      BY <3>1, <3>2
  <2>3. Inserted(slots, a, limit) = InsertAt(kept, b + 1, a)
    BY <1>2 DEF Inserted
  <2>4. /\ InsertAt(kept, b + 1, a) \in Seq(S)
        /\ Len(InsertAt(kept, b + 1, a))
             = IF z <= Len(slots) THEN Len(slots) ELSE Len(slots) + 1
        /\ Ranked(InsertAt(kept, b + 1, a))
    <3> HIDE DEF z
    <3>1. QED
      BY <2>2, ReplacedRanked
  <2> HIDE DEF z, kept, b
  <2>5. Len(slots) \in Nat
    OBVIOUS
  <2>6. QED
    BY <2>1, <2>2, <2>3, <2>4, <2>5
<1>3. QED
  BY <1>1, <1>2
-----------------------------------------------------------------------------
(***************************************************************************)
(* A literal or a repetition that passes the test against the last slot:   *)
(* the slots stay in order, no offset is kept twice, and none is written   *)
(* behind the last one (kc_shrink.c, the first and the third insertion).   *)
(***************************************************************************)
THEOREM AdmittedStaysRanked ==
  ASSUME NEW S, IsRankable(S), NEW slots \in Seq(S), Ranked(slots), NEW a \in S,
         NEW limit \in Nat \ {0}, Len(slots) <= limit, Admitted(slots, a, limit)
  PROVE  /\ Inserted(slots, a, limit) \in Seq(S)
         /\ Len(Inserted(slots, a, limit)) \in 1 .. limit
         /\ Ranked(Inserted(slots, a, limit))
<1>1. SlotsBefore(slots, a) \in 0 .. Len(slots)
      /\ \A k \in 1 .. SlotsBefore(slots, a) : Before(slots[k], a)
  BY SlotsBeforeSplits
<1>2. CASE Len(slots) < limit
  BY <1>2, InsertedRanked
<1>3. CASE Len(slots) = limit
  <2>1. slots[limit] \in S
    BY <1>3
  <2>2. ~ Before(slots[limit], a)
    BY <1>3, <2>1 DEF Admitted, Before, IsRankable
  <2>3. SlotsBefore(slots, a) < limit
    BY <1>1, <1>3, <2>2
  <2>4. QED
    BY <2>3, InsertedRanked
<1>4. QED
  BY <1>2, <1>3

(***************************************************************************)
(* A match at a new offset is tested against the last slot but one, and    *)
(* the same holds of it: the slot it is tested against is in use whenever  *)
(* the last one is.                                                        *)
(***************************************************************************)
THEOREM AdmittedMatchStaysRanked ==
  ASSUME NEW S, IsRankable(S), NEW slots \in Seq(S), Ranked(slots), NEW a \in S,
         NEW limit \in Nat \ {0, 1}, Len(slots) <= limit, AdmittedMatch(slots, a, limit)
  PROVE  /\ Inserted(slots, a, limit) \in Seq(S)
         /\ Len(Inserted(slots, a, limit)) \in 1 .. limit
         /\ Ranked(Inserted(slots, a, limit))
<1>1. SlotsBefore(slots, a) \in 0 .. Len(slots)
      /\ \A k \in 1 .. SlotsBefore(slots, a) : Before(slots[k], a)
  BY SlotsBeforeSplits
<1>2. CASE Len(slots) < limit
  BY <1>2, InsertedRanked
<1>3. CASE Len(slots) = limit
  <2>1. limit - 1 \in 1 .. Len(slots) /\ slots[limit - 1] \in S
    BY <1>3
  <2>2. ~ Before(slots[limit - 1], a)
    BY <1>3, <2>1 DEF AdmittedMatch, Before, IsRankable
  <2>3. SlotsBefore(slots, a) < limit
    BY <1>1, <1>3, <2>1, <2>2
  <2>4. QED
    BY <2>3, InsertedRanked
<1>4. QED
  BY <1>2, <1>3
-----------------------------------------------------------------------------
(***************************************************************************)
(* The invariant of the slots.  An arrival comes from a slot in use of an  *)
(* earlier position that the pass is done with, so that the trace ends     *)
(* only where a pass begins; every position up to the one behind pos has   *)
(* been arrived at.                                                        *)
(***************************************************************************)
Arrival ==
  [cost : Int, score : Nat, rep_offset : Nat, rep_pos : Int, num_literals : Nat,
   match_len : Int, from_pos : Int, from_slot : Nat]

PassStages == {"arrive", "insert", "extend", "next"}

(* a is an arrival at p, of a pass that has come to the position current. *)
Comes(slots, a, p, current) ==
  a.from_slot # 0 =>
    /\ a.from_pos \in start .. p - 1 /\ a.from_slot \in 1 .. Len(slots[a.from_pos])
    /\ stage \in PassStages => a.from_pos <= current

SlotsOK ==
  /\ arrival \in [start .. end -> Seq(Arrival)]
  /\ \A p \in start .. end :
       /\ Len(arrival[p]) <= nArrivalsPerPosition /\ Ranked(arrival[p])
       /\ \A k \in 1 .. Len(arrival[p]) : Comes(arrival, arrival[p][k], p, pos)

StageOK ==
  /\ stage \in PassStages \cup {"supplement", "further", "trace", "parsed"}
  /\ pos \in start .. end
  /\ stage \in {"insert", "extend", "next"} => pos < end /\ arrival[pos + 1] # <<>>
  /\ stage \in PassStages => arrival[pos] # <<>>
  /\ stage = "trace" => m \in 1 .. Len(arrival[pos])

CountersOK ==
  m \in Nat \ {0} /\ d \in 0 .. LCP_MAX /\ min_rep \in 0 .. end /\ max_rep \in 0 .. end

SInv == SizesOK /\ SlotsOK /\ StageOK /\ CountersOK
-----------------------------------------------------------------------------
(***************************************************************************)
(* What an arrival is made of: bits, and lengths that agree.               *)
(***************************************************************************)
LEMMA CostBits ==
  /\ \A n : kc_dali_length_bit_cost(n) \in Int
  /\ \A offset : OffsetBits(offset) \in Int
  /\ \A n : RunBits(n) \in Int
<1>1. \A n : kc_dali_length_bit_cost(n) \in Int
  BY FloorLogType DEF kc_dali_length_bit_cost
<1>2. ByteBits \in Int /\ TokenCost \in Int
  BY FormatAssumption, ParsingAssumption
<1>3. \A offset : OffsetBits(offset) \in Int
  <2> TAKE offset
  <2> DEFINE high == kc_dali_length_bit_cost((offset - 1) \div LowOffsets + 1)
  <2>1. high \in Int
    BY <1>1
  <2>2. OffsetBits(offset)
          = IF dali THEN ByteBits - 1 + high
            ELSE IF offset <= LowOffsets THEN ByteBits ELSE 2 * ByteBits
    BY DEF OffsetBits, kc_offset_bit_cost
  <2> HIDE DEF high
  <2>3. QED
    BY <1>2, <2>1, <2>2
<1>4. \A n : RunBits(n) \in Int
  <2> TAKE n
  <2>1. kc_dali_length_bit_cost(n) \in Int
    BY <1>1
  <2>2. QED
    BY <1>2, <2>1 DEF RunBits, salvador_get_literals_varlen_size
<1>5. QED
  BY <1>1, <1>3, <1>4

LEMMA AgreeingRange ==
  ASSUME WindowOK, NEW p \in start .. end - 1, NEW offset, NEW limit \in Nat
  PROVE  /\ Agreeing(p, offset, limit) \in 0 .. end - p
         /\ limit > 0 /\ SameBytes(window, p, offset, 1) =>
              kc_limit_match_len_local(Agreeing(p, offset, limit)) \in 1 .. limit
<1> DEFINE N == Min({limit, end - p})
           S == {l \in 0 .. N : SameBytes(window, p, offset, l)}
           a == Agreeing(p, offset, limit)
<1>1. end - p \in Nat \ {0} /\ p \in Nat /\ Len(window) \in Nat
  BY DEF WindowOK, end
<1>2. N \in Nat /\ N <= limit /\ N <= end - p /\ (limit > 0 => N > 0)
  <2>1. {limit, end - p} \in SUBSET Nat /\ {limit, end - p} # {}
    BY <1>1
  <2>2. N \in {limit, end - p} /\ \A y \in {limit, end - p} : N <= y
    BY <2>1, MinProperty
  <2> HIDE DEF N
  <2>3. QED
    BY <1>1, <2>2
<1> HIDE DEF N
<1>3. 0 \in S
  BY <1>2 DEF SameBytes
<1>4. a \in S /\ \A y \in S : y <= a
  <2>1. S \in SUBSET (0 .. N) /\ S # {}
    BY <1>3
  <2>2. a = Max(S)
    BY DEF Agreeing, N
  <2> HIDE DEF S, a
  <2>3. QED
    BY <1>2, <2>1, <2>2, MaxProperty
<1>5. a \in 0 .. N
  BY <1>4
<1>6. limit > 0 /\ SameBytes(window, p, offset, 1) => a >= 1
  <2>1. limit > 0 /\ SameBytes(window, p, offset, 1) => 1 \in S
    BY <1>2
  <2> HIDE DEF S, a
  <2>2. QED
    BY <1>4, <2>1
<1> HIDE DEF a, S
<1>7. kc_limit_match_len_local(a) <= a /\ kc_limit_match_len_local(a) \in Nat
      /\ (a >= 1 => kc_limit_match_len_local(a) >= 1)
  BY <1>2, <1>5, ParsingAssumption DEF kc_limit_match_len_local
<1>8. QED
  <2>1. a \in 0 .. end - p
    BY <1>1, <1>2, <1>5
  <2>2. limit > 0 /\ SameBytes(window, p, offset, 1) =>
          kc_limit_match_len_local(a) \in 1 .. limit
    BY <1>2, <1>5, <1>6, <1>7
  <2>3. QED
    BY <2>1, <2>2 DEF a

(***************************************************************************)
(* Supplements fit what is left of the list, and have a length.            *)
(***************************************************************************)
LEMMA EntriesSized ==
  ASSUME WindowOK, search \in Settings, NEW p \in start .. end - 1,
         NEW S \in SUBSET SamePairs(p), NEW count \in Int
  PROVE  LET r == Entries(p, Nearest(S, count))
         IN  /\ Len(r) \in Nat /\ Len(r) <= (IF count > 0 THEN count ELSE 0)
             /\ \A k \in DOMAIN r : r[k].length \in 1 .. LCP_MAX /\ r[k].depth = 0
<1> DEFINE offsets == Nearest(S, count)
           r == Entries(p, offsets)
           limit == search.supplement_match_length_limit
<1>1. limit \in Nat /\ limit > 0 /\ limit <= LCP_MAX /\ LCP_MAX \in Nat
  BY ParserAssumption
<1>2. offsets \in Seq(S)
  BY NearestPairs
<1>3. Len(offsets) <= (IF count > 0 THEN count ELSE 0)
  <2> DEFINE c == Max({count, 0})
             N == Min({Cardinality(S), c})
  <2>1. Cardinality(S) \in Nat
    <3>1. p \in Nat
      BY DEF WindowOK
    <3>2. S \subseteq 1 .. p /\ IsFiniteSet(1 .. p)
      <4>1. SamePairs(p) \subseteq 1 .. p
        <5>1. p - start \in Int /\ MaxOffset \in Int /\ p - start <= p
          BY <3>1, ParserAssumption, FormatAssumption DEF WindowOK, MAX_OFFSET, LowOffsets
        <5>2. Min({p - start, MaxOffset}) \in {p - start, MaxOffset}
          BY <5>1, MinOfTwo
        <5>3. {p - start, MaxOffset} \in SUBSET Nat
          BY <3>1, ParserAssumption DEF WindowOK
        <5>4. Min({p - start, MaxOffset}) <= p - start
          BY <5>3, MinProperty
        <5>5. Min({p - start, MaxOffset}) \in Int
          BY <5>1, <5>2
        <5>6. QED
          BY <3>1, <5>1, <5>4, <5>5 DEF SamePairs
      <4>2. QED
        BY <3>1, <4>1, FS_Interval
    <3>3. QED
      BY <3>2, FS_Subset, FS_CardinalityType
  <2>2. c = IF count > 0 THEN count ELSE 0
    BY DEF Max
  <2> HIDE DEF c
  <2>3. N \in Nat /\ N <= c
    <3>1. {Cardinality(S), c} \in SUBSET Nat /\ {Cardinality(S), c} # {}
      BY <2>1, <2>2
    <3>2. QED
      BY <3>1, MinProperty
  <2>4. offsets = [k \in 1 .. N |->
                     CHOOSE o \in S : Cardinality({q \in S : q < o}) = k - 1]
    BY DEF Nearest, c
  <2> HIDE DEF N, offsets
  <2>5. Len(offsets) = N
    BY <2>3, <2>4
  <2>6. QED
    BY <2>2, <2>3, <2>5
<1> HIDE DEF offsets
<1>4. r = [k \in DOMAIN offsets |->
             [length |-> kc_limit_match_len_local(Agreeing(p, offsets[k], limit)),
              offset |-> offsets[k], depth |-> 0]]
  BY DEF Entries
<1> HIDE DEF r, limit
<1>5. Len(r) = Len(offsets) /\ DOMAIN r = DOMAIN offsets /\ Len(offsets) \in Nat
  BY <1>2, <1>4
<1>6. ASSUME NEW k \in DOMAIN offsets
      PROVE  r[k].length \in 1 .. LCP_MAX /\ r[k].depth = 0
  <2>1. offsets[k] \in SamePairs(p)
    BY <1>2
  <2>2. SameBytes(window, p, offsets[k], 1)
    BY <2>1 DEF SamePairs, SameBytes
  <2>3. kc_limit_match_len_local(Agreeing(p, offsets[k], limit)) \in 1 .. limit
    BY <1>1, <2>2, AgreeingRange
  <2>4. QED
    BY <1>1, <1>4, <2>3
<1>7. QED
  BY <1>3, <1>5, <1>6 DEF r, offsets
-----------------------------------------------------------------------------
(***************************************************************************)
(* Arrivals put into slots one after the other.  S is any set of arrivals: *)
(* what they have in common is kept as well.                               *)
(***************************************************************************)
GoodSlots(S, slots) ==
  slots \in Seq(S) /\ Len(slots) <= nArrivalsPerPosition /\ Ranked(slots)

LEMMA SlotCount == ASSUME search \in Settings PROVE nArrivalsPerPosition \in Nat \ {0, 1}
  BY ParserAssumption DEF nArrivalsPerPosition

LEMMA LiteralSlotsGood ==
  ASSUME search \in Settings, NEW S, IsRankable(S), NEW slots, GoodSlots(S, slots), NEW a \in S
  PROVE  GoodSlots(S, LiteralSlots(slots, a)) /\ LiteralSlots(slots, a) # <<>>
<1>1. slots \in Seq(S) /\ Len(slots) <= nArrivalsPerPosition /\ Ranked(slots)
      /\ nArrivalsPerPosition \in Nat \ {0, 1}
  BY SlotCount DEF GoodSlots
<1>2. CASE Admitted(slots, a, nArrivalsPerPosition)
  <2> DEFINE r == Inserted(slots, a, nArrivalsPerPosition)
  <2>1. r \in Seq(S) /\ Len(r) \in 1 .. nArrivalsPerPosition /\ Ranked(r)
    BY <1>1, <1>2, AdmittedStaysRanked
  <2>2. LiteralSlots(slots, a) = r
    BY <1>2 DEF LiteralSlots
  <2> HIDE DEF r
  <2>3. QED
    BY <1>1, <2>1, <2>2 DEF GoodSlots
<1>3. CASE ~Admitted(slots, a, nArrivalsPerPosition)
  <2>1. LiteralSlots(slots, a) = slots /\ ~(Len(slots) < nArrivalsPerPosition)
    BY <1>3 DEF LiteralSlots, Admitted
  <2>2. QED
    BY <1>1, <2>1 DEF GoodSlots
<1>4. QED
  BY <1>2, <1>3

LEMMA MatchSlotsGood ==
  ASSUME search \in Settings, NEW S, IsRankable(S), NEW slots, GoodSlots(S, slots),
         NEW length,
         length \in FirstLength(nMatchLen, 2) .. nMatchLen /\ NewMatchFrom # {}
           => WithMatch(Min(NewMatchFrom), length) \in S
  PROVE  /\ GoodSlots(S, MatchSlots(slots, length))
         /\ slots # <<>> => MatchSlots(slots, length) # <<>>
<1> DEFINE a == WithMatch(Min(NewMatchFrom), length)
           r == Inserted(slots, a, nArrivalsPerPosition)
<1>1. slots \in Seq(S) /\ Len(slots) <= nArrivalsPerPosition /\ Ranked(slots)
      /\ nArrivalsPerPosition \in Nat \ {0, 1}
  BY SlotCount DEF GoodSlots
<1>2. CASE /\ length \in FirstLength(nMatchLen, 2) .. nMatchLen /\ NewMatchFrom # {}
           /\ AdmittedMatch(slots, a, nArrivalsPerPosition)
  <2>1. a \in S
    BY <1>2
  <2>2. MatchSlots(slots, length) = r
    BY <1>2 DEF MatchSlots
  <2> HIDE DEF a
  <2>3. r \in Seq(S) /\ Len(r) \in 1 .. nArrivalsPerPosition /\ Ranked(r)
    BY <1>1, <1>2, <2>1, AdmittedMatchStaysRanked
  <2> HIDE DEF r
  <2>4. QED
    BY <1>1, <2>2, <2>3 DEF GoodSlots
<1>3. CASE ~(/\ length \in FirstLength(nMatchLen, 2) .. nMatchLen /\ NewMatchFrom # {}
             /\ AdmittedMatch(slots, a, nArrivalsPerPosition))
  <2>1. MatchSlots(slots, length) = slots
    BY <1>3 DEF MatchSlots
  <2>2. QED
    BY <2>1
<1>4. QED
  BY <1>2, <1>3

(***************************************************************************)
(* A function on 0 .. n that is given by its first value and a step exists *)
(* and has every property that holds first and is kept.                    *)
(***************************************************************************)
LEMMA WithLiteralsGood ==
  ASSUME search \in Settings, NEW S, IsRankable(S), GoodSlots(S, arrival[pos + 1]),
         Len(here) \in Nat \ {0}, \A k \in 1 .. Len(here) : WithLiteral(k) \in S
  PROVE  GoodSlots(S, WithLiterals) /\ WithLiterals # <<>>
<1> DEFINE n == Len(here)
           first == arrival[pos + 1]
           G(slots, k) == LiteralSlots(slots, WithLiteral(k))
           H(f, k) == IF k = 0 THEN first
                      ELSE CHOOSE y \in {G(slots, k) : slots \in {f[k - 1]}} : TRUE
           Is(f, j) == f = [k \in 0 .. j |-> H(f, k)]
           Good(slots, k) == GoodSlots(S, slots) /\ (k # 0 => slots # <<>>)
<1>1. Good(first, 0)
  OBVIOUS
<1>2. \A slots : \A k \in 1 .. n : GoodSlots(S, slots) => Good(G(slots, k), k)
  BY LiteralSlotsGood
<1>3. WithLiterals = (CHOOSE f : Is(f, n))[n]
  BY DEF WithLiterals, Once
<1> HIDE DEF G, Good
<1>4. \A f, k : H(f, k) = IF k = 0 THEN first ELSE G(f[k - 1], k)
  OBVIOUS
<1> HIDE DEF H
<1>5. \E f : Is(f, n)
  <2> DEFINE T == {j \in 0 .. n : \E f : Is(f, j)}
  <2>1. 0 \in T
    <3>1. Is([k \in 0 .. 0 |-> first], 0)
      BY <1>4
    <3>2. QED
      BY <3>1
  <2>2. ASSUME NEW j \in 0 .. n - 1, j \in T PROVE j + 1 \in T
    <3>1. PICK f : Is(f, j)
      BY <2>2
    <3> DEFINE g == [k \in 0 .. j + 1 |-> IF k = j + 1 THEN G(f[j], j + 1) ELSE f[k]]
    <3>2. \A k \in 0 .. j : f[k] = H(f, k)
      BY <3>1
    <3>3. ASSUME NEW k \in 0 .. j + 1 PROVE g[k] = H(g, k)
      <4>1. CASE k = 0
        BY <1>4, <3>2, <4>1
      <4>2. CASE k \in 1 .. j
        <5>1. g[k] = f[k] /\ g[k - 1] = f[k - 1]
          BY <4>2
        <5>2. f[k] = H(f, k)
          BY <3>2, <4>2
        <5> HIDE DEF g
        <5>3. QED
          BY <1>4, <4>2, <5>1, <5>2
      <4>3. CASE k = j + 1
        <5>1. g[k] = G(f[j], j + 1) /\ g[k - 1] = f[j] /\ k # 0
          BY <4>3
        <5> HIDE DEF g
        <5>2. QED
          BY <1>4, <4>3, <5>1
      <4>4. QED
        BY <4>1, <4>2, <4>3
    <3>4. Is(g, j + 1)
      <4>1. g = [k \in 0 .. j + 1 |-> g[k]]
        OBVIOUS
      <4> HIDE DEF g
      <4>2. QED
        BY <3>3, <4>1
    <3> HIDE DEF Is, g
    <3>5. QED
      BY <3>4
  <2> HIDE DEF T, Is
  <2>3. \A j \in 0 .. n : j \in T
    BY <2>1, <2>2, SetInduction
  <2>4. n \in T
    BY <2>3
  <2>5. QED
    BY <2>4 DEF T
<1>6. PICK f : Is(f, n) /\ WithLiterals = f[n]
  <2> HIDE DEF Is
  <2>1. QED
    BY <1>3, <1>5
<1>7. \A k \in 0 .. n : f[k] = H(f, k)
  BY <1>6
<1> DEFINE T == {k \in 0 .. n : Good(f[k], k)}
<1>8. 0 \in T
  <2>1. f[0] = first
    BY <1>4, <1>7
  <2>2. QED
    BY <1>1, <2>1
<1>9. ASSUME NEW k \in 0 .. n - 1, k \in T PROVE k + 1 \in T
  <2>1. f[k + 1] = G(f[k], k + 1)
    <3>1. k + 1 # 0 /\ (k + 1) - 1 = k /\ k + 1 \in 0 .. n
      OBVIOUS
    <3>2. QED
      BY <1>4, <1>7, <3>1
  <2>2. GoodSlots(S, f[k])
    BY <1>9 DEF Good
  <2>3. QED
    BY <1>2, <2>1, <2>2
<1> HIDE DEF T
<1>10. \A k \in 0 .. n : k \in T
  BY <1>8, <1>9, SetInduction
<1>11. Good(WithLiterals, n)
  BY <1>6, <1>10 DEF T
<1>12. QED
  BY <1>11 DEF Good

LEMMA RepeatSlotsGood ==
  ASSUME search \in Settings, NEW S, IsRankable(S), NEW slots, GoodSlots(S, slots),
         Len(here) \in Nat \ {0}, NEW length,
         \A k \in 1 .. Len(here) :
           k \in Repeating /\ ~(RepeatLength(k) < length) => WithRepeat(k, length) \in S
  PROVE  /\ GoodSlots(S, RepeatSlots(slots, length))
         /\ slots # <<>> => RepeatSlots(slots, length) # <<>>
<1> DEFINE n == Len(here)
           first == [slots |-> slots, closed |-> FALSE]
           G(acc, k) ==
             IF acc.closed \/ k \notin Repeating \/ RepeatLength(k) < length THEN acc
             ELSE IF Admitted(acc.slots, WithRepeat(k, length), nArrivalsPerPosition)
                  THEN [acc EXCEPT !.slots =
                          Inserted(@, WithRepeat(k, length), nArrivalsPerPosition)]
                  ELSE [acc EXCEPT !.closed = TRUE]
           H(f, k) == IF k = 0 THEN first
                      ELSE CHOOSE y \in {G(acc, k) : acc \in {f[k - 1]}} : TRUE
           Is(f, j) == f = [k \in 0 .. j |-> H(f, k)]
           Good(acc) == /\ acc \in [slots : Seq(S), closed : BOOLEAN]
                        /\ GoodSlots(S, acc.slots)
                        /\ slots # <<>> => acc.slots # <<>>
<1>1. Good(first)
  BY DEF GoodSlots
<1>2. ASSUME NEW acc, NEW k \in 1 .. n, Good(acc) PROVE Good(G(acc, k))
  <2> DEFINE a == WithRepeat(k, length)
             r == Inserted(acc.slots, a, nArrivalsPerPosition)
             repeats == ~(acc.closed \/ k \notin Repeating \/ RepeatLength(k) < length)
  <2>1. /\ acc.slots \in Seq(S) /\ Len(acc.slots) <= nArrivalsPerPosition
        /\ Ranked(acc.slots) /\ nArrivalsPerPosition \in Nat \ {0, 1}
        /\ repeats => a \in S
    BY <1>2, SlotCount DEF GoodSlots
  <2>2. CASE repeats /\ Admitted(acc.slots, a, nArrivalsPerPosition)
    <3>1. G(acc, k) = [acc EXCEPT !.slots = r]
      BY <2>2
    <3> HIDE DEF a, G
    <3>2. r \in Seq(S) /\ Len(r) \in 1 .. nArrivalsPerPosition /\ Ranked(r)
      BY <2>1, <2>2, AdmittedStaysRanked
    <3>3. r # <<>>
      BY <2>1, <3>2
    <3> HIDE DEF r
    <3>4. [acc EXCEPT !.slots = r] \in [slots : Seq(S), closed : BOOLEAN]
          /\ [acc EXCEPT !.slots = r].slots = r
      BY <1>2, <3>2
    <3>5. QED
      BY <2>1, <3>1, <3>2, <3>3, <3>4 DEF GoodSlots
  <2>3. CASE repeats /\ ~Admitted(acc.slots, a, nArrivalsPerPosition)
    <3>1. G(acc, k) = [acc EXCEPT !.closed = TRUE]
      BY <2>3
    <3> HIDE DEF G
    <3>2. [acc EXCEPT !.closed = TRUE] \in [slots : Seq(S), closed : BOOLEAN]
          /\ [acc EXCEPT !.closed = TRUE].slots = acc.slots
      BY <1>2
    <3>3. QED
      BY <1>2, <3>1, <3>2
  <2>4. CASE ~repeats
    <3>1. G(acc, k) = acc
      BY <2>4
    <3> HIDE DEF G
    <3>2. QED
      BY <1>2, <3>1
  <2> HIDE DEF G, a
  <2>5. QED
    BY <2>2, <2>3, <2>4
<1>3. RepeatSlots(slots, length) = (CHOOSE f : Is(f, n))[n].slots
  BY DEF RepeatSlots, Once
<1> HIDE DEF G, Good, first
<1>4. \A f, k : H(f, k) = IF k = 0 THEN first ELSE G(f[k - 1], k)
  OBVIOUS
<1> HIDE DEF H
<1>5. \E f : Is(f, n)
  <2> DEFINE T == {j \in 0 .. n : \E f : Is(f, j)}
  <2>1. 0 \in T
    <3>1. Is([k \in 0 .. 0 |-> first], 0)
      BY <1>4
    <3>2. QED
      BY <3>1
  <2>2. ASSUME NEW j \in 0 .. n - 1, j \in T PROVE j + 1 \in T
    <3>1. PICK f : Is(f, j)
      BY <2>2
    <3> DEFINE g == [k \in 0 .. j + 1 |-> IF k = j + 1 THEN G(f[j], j + 1) ELSE f[k]]
    <3>2. \A k \in 0 .. j : f[k] = H(f, k)
      BY <3>1
    <3>3. ASSUME NEW k \in 0 .. j + 1 PROVE g[k] = H(g, k)
      <4>1. CASE k = 0
        BY <1>4, <3>2, <4>1
      <4>2. CASE k \in 1 .. j
        <5>1. g[k] = f[k] /\ g[k - 1] = f[k - 1]
          BY <4>2
        <5>2. f[k] = H(f, k)
          BY <3>2, <4>2
        <5> HIDE DEF g
        <5>3. QED
          BY <1>4, <4>2, <5>1, <5>2
      <4>3. CASE k = j + 1
        <5>1. g[k] = G(f[j], j + 1) /\ g[k - 1] = f[j] /\ k # 0
          BY <4>3
        <5> HIDE DEF g
        <5>2. QED
          BY <1>4, <4>3, <5>1
      <4>4. QED
        BY <4>1, <4>2, <4>3
    <3>4. Is(g, j + 1)
      <4>1. g = [k \in 0 .. j + 1 |-> g[k]]
        OBVIOUS
      <4> HIDE DEF g
      <4>2. QED
        BY <3>3, <4>1
    <3> HIDE DEF Is, g
    <3>5. QED
      BY <3>4
  <2> HIDE DEF T, Is
  <2>3. \A j \in 0 .. n : j \in T
    BY <2>1, <2>2, SetInduction
  <2>4. n \in T
    BY <2>3
  <2>5. QED
    BY <2>4 DEF T
<1>6. PICK f : Is(f, n) /\ RepeatSlots(slots, length) = f[n].slots
  <2> HIDE DEF Is
  <2>1. QED
    BY <1>3, <1>5
<1>7. \A k \in 0 .. n : f[k] = H(f, k)
  BY <1>6
<1> DEFINE T == {k \in 0 .. n : Good(f[k])}
<1>8. 0 \in T
  <2>1. f[0] = first
    BY <1>4, <1>7
  <2>2. QED
    BY <1>1, <2>1
<1>9. ASSUME NEW k \in 0 .. n - 1, k \in T PROVE k + 1 \in T
  <2>1. f[k + 1] = G(f[k], k + 1)
    <3>1. k + 1 # 0 /\ (k + 1) - 1 = k /\ k + 1 \in 0 .. n
      OBVIOUS
    <3>2. QED
      BY <1>4, <1>7, <3>1
  <2>2. Good(f[k]) /\ k + 1 \in 1 .. n
    BY <1>9
  <2>3. QED
    BY <1>2, <2>1, <2>2
<1> HIDE DEF T
<1>10. \A k \in 0 .. n : k \in T
  BY <1>8, <1>9, SetInduction
<1>11. Good(f[n])
  BY <1>10 DEF T
<1>12. QED
  BY <1>6, <1>11 DEF Good
-----------------------------------------------------------------------------
(***************************************************************************)
(* Arrivals that may be among the slots of position p while the pass is at *)
(* pos; all of these are, and what else is put in there has to be.         *)
(***************************************************************************)
From(p) ==
  {a \in Arrival : a.from_slot # 0 =>
     /\ a.from_pos \in start .. p - 1 /\ a.from_pos <= pos
     /\ a.from_slot \in 1 .. Len(arrival[a.from_pos])}

LEMMA SlotsFrom ==
  ASSUME SlotsOK, stage \in PassStages, NEW p \in start .. end
  PROVE  GoodSlots(From(p), arrival[p]) /\ IsRankable(From(p))
<1>1. arrival[p] \in Seq(Arrival)
  BY DEF SlotsOK
<1>2. ASSUME NEW k \in 1 .. Len(arrival[p]) PROVE arrival[p][k] \in From(p)
  <2> DEFINE a == arrival[p][k]
  <2>1. a \in Arrival
    BY <1>1
  <2>2. Comes(arrival, a, p, pos)
    BY DEF SlotsOK
  <2> HIDE DEF a
  <2>3. a \in From(p)
    BY <2>1, <2>2 DEF Comes, From
  <2>4. QED
    BY <2>3 DEF a
<1>3. arrival[p] \in Seq(From(p))
  <2>1. Len(arrival[p]) \in Nat /\ arrival[p] = [k \in 1 .. Len(arrival[p]) |-> arrival[p][k]]
    BY <1>1
  <2>2. arrival[p] \in [1 .. Len(arrival[p]) -> From(p)]
    BY <1>2, <2>1
  <2>3. QED
    BY <2>1, <2>2
<1>4. IsRankable(From(p))
  BY DEF IsRankable, From, Arrival
<1>5. QED
  BY <1>3, <1>4 DEF GoodSlots, SlotsOK

LEMMA SlotsBack ==
  ASSUME IInv, SlotsOK, pos \in start .. end, window' = window, start' = start,
         search' = search, second' = second, pos' = pos,
         NEW f, arrival' = [p \in start .. end |-> f[p]],
         \A p \in start .. end : GoodSlots(From(p), f[p]),
         \A p \in start .. pos : f[p] = arrival[p]
  PROVE  SlotsOK'
<1>1. end' = end /\ nArrivalsPerPosition' = nArrivalsPerPosition
  BY DEF end, nArrivalsPerPosition
<1>2. ASSUME NEW p \in start .. end
      PROVE  /\ f[p] \in Seq(Arrival) /\ Len(f[p]) <= nArrivalsPerPosition /\ Ranked(f[p])
             /\ \A k \in 1 .. Len(f[p]) : f[p][k] \in From(p)
  <2>1. f[p] \in Seq(From(p)) /\ From(p) \subseteq Arrival
        /\ Len(f[p]) <= nArrivalsPerPosition /\ Ranked(f[p])
    BY DEF GoodSlots, From
  <2>2. \A k \in 1 .. Len(f[p]) : f[p][k] \in From(p)
    BY <2>1
  <2>3. Len(f[p]) \in Nat /\ f[p] = [k \in 1 .. Len(f[p]) |-> f[p][k]]
    BY <2>1
  <2>4. f[p] \in [1 .. Len(f[p]) -> Arrival]
    BY <2>1, <2>2, <2>3
  <2>5. f[p] \in Seq(Arrival)
    BY <2>3, <2>4
  <2>6. QED
    BY <2>1, <2>2, <2>5
<1>3. arrival' \in [start .. end -> Seq(Arrival)]
  BY <1>2
<1>4. ASSUME NEW p \in start .. end, NEW k \in 1 .. Len(f[p])
      PROVE  f[p][k].from_slot # 0 =>
               /\ f[p][k].from_pos \in start .. p - 1 /\ f[p][k].from_pos <= pos
               /\ f[p][k].from_slot \in 1 .. Len(arrival'[f[p][k].from_pos])
  <2> SUFFICES ASSUME f[p][k].from_slot # 0
               PROVE  /\ f[p][k].from_pos \in start .. p - 1 /\ f[p][k].from_pos <= pos
                      /\ f[p][k].from_slot \in 1 .. Len(arrival'[f[p][k].from_pos])
    OBVIOUS
  <2> DEFINE q == f[p][k].from_pos
  <2>1. q \in start .. p - 1 /\ q <= pos /\ f[p][k].from_slot \in 1 .. Len(arrival[q])
    BY <1>2 DEF From
  <2> HIDE DEF q
  <2>2. start \in Nat /\ end \in Nat
    BY DEF IInv, WindowOK, end
  <2>3. q \in start .. pos /\ q \in start .. end
    BY <2>1, <2>2
  <2>4. arrival'[q] = arrival[q]
    BY <2>3
  <2>5. QED
    BY <2>1, <2>4 DEF q
<1>5. \A p \in start .. end : arrival'[p] = f[p]
  OBVIOUS
<1>6. ASSUME NEW p \in start .. end
      PROVE  /\ Len(arrival'[p]) <= nArrivalsPerPosition /\ Ranked(arrival'[p])
             /\ \A k \in 1 .. Len(arrival'[p]) : Comes(arrival, arrival[p][k], p, pos)'
  <2>1. arrival'[p] = f[p]
    BY <1>5
  <2>2. \A k \in 1 .. Len(arrival'[p]) : Comes(arrival, arrival[p][k], p, pos)'
    BY <1>4, <2>1 DEF Comes
  <2>3. QED
    BY <1>2, <2>1, <2>2
<1>7. QED
  BY <1>1, <1>3, <1>6 DEF SlotsOK

(***************************************************************************)
(* Steps that leave the slots as they are.                                 *)
(***************************************************************************)
LEMMA QuietSlots ==
  ASSUME IInv, SlotsOK, pos \in start .. end, window' = window, start' = start,
         search' = search, second' = second, arrival' = arrival,
         stage' \in PassStages =>
           stage \in PassStages /\ pos <= pos' /\ pos' \in start .. end
  PROVE  SlotsOK'
<1>1. end' = end /\ nArrivalsPerPosition' = nArrivalsPerPosition
  BY DEF end, nArrivalsPerPosition
<1>2. ASSUME NEW p \in start .. end, NEW k \in 1 .. Len(arrival[p])
      PROVE  arrival[p][k].from_slot # 0 =>
               /\ arrival[p][k].from_pos \in start .. p - 1
               /\ arrival[p][k].from_slot \in 1 .. Len(arrival[arrival[p][k].from_pos])
               /\ stage' \in PassStages => arrival[p][k].from_pos <= pos'
  <2> SUFFICES ASSUME arrival[p][k].from_slot # 0
               PROVE  /\ arrival[p][k].from_pos \in start .. p - 1
                      /\ arrival[p][k].from_slot \in 1 .. Len(arrival[arrival[p][k].from_pos])
                      /\ stage' \in PassStages => arrival[p][k].from_pos <= pos'
    OBVIOUS
  <2> DEFINE q == arrival[p][k].from_pos
  <2>1. /\ q \in start .. p - 1 /\ arrival[p][k].from_slot \in 1 .. Len(arrival[q])
        /\ stage \in PassStages => q <= pos
    BY DEF SlotsOK, Comes
  <2>2. start \in Nat /\ end \in Nat
    BY DEF IInv, WindowOK, end
  <2> HIDE DEF q
  <2>3. stage' \in PassStages => q <= pos'
    BY <2>1, <2>2
  <2>4. QED
    BY <2>1, <2>3 DEF q
<1>3. QED
  BY <1>1, <1>2 DEF SlotsOK, Comes

(***************************************************************************)
(* A pass begins with one slot at the first position.                      *)
(***************************************************************************)
LEMMA StartSlots ==
  ASSUME IInv, SInv, NEW is_second \in BOOLEAN, StartPass(is_second),
         window' = window, start' = start, search' = search, match' = match
  PROVE  SInv'
<1>1. /\ start \in Nat /\ end \in Nat /\ start < end /\ end' = end
      /\ search \in Settings
  BY DEF IInv, WindowOK, end
<1>2. /\ stage' = "arrive" /\ pos' = start /\ second' = is_second
      /\ m' = m /\ d' = d /\ min_rep' = min_rep /\ max_rep' = max_rep
      /\ arrival' = [p \in start .. end |-> IF p = start THEN <<FirstArrival>> ELSE <<>>]
  BY <1>1 DEF StartPass, NoArrivals, tried
<1>3. nArrivalsPerPosition' \in Nat \ {0, 1}
  BY <1>1, <1>2, ParserAssumption DEF nArrivalsPerPosition
<1>4. FirstArrival \in Arrival /\ FirstArrival.from_slot = 0
  BY DEF FirstArrival, Arrival
<1> HIDE DEF FirstArrival
<1>5. /\ <<FirstArrival>> \in Seq(Arrival) /\ Len(<<FirstArrival>>) = 1
      /\ <<FirstArrival>>[1] = FirstArrival /\ <<FirstArrival>> # <<>>
      /\ <<>> \in Seq(Arrival) /\ Len(<<>>) = 0
  BY <1>4
<1>6. Ranked(<<FirstArrival>>) /\ Ranked(<<>>)
  BY <1>5 DEF Ranked
<1>7. SlotsOK'
  <2>1. arrival' \in [start .. end -> Seq(Arrival)]
    BY <1>2, <1>5
  <2>2. ASSUME NEW p \in start .. end
        PROVE  /\ Len(arrival'[p]) <= nArrivalsPerPosition' /\ Ranked(arrival'[p])
               /\ \A k \in 1 .. Len(arrival'[p]) : arrival'[p][k].from_slot = 0
    <3>1. CASE p = start
      <4>1. arrival'[p] = <<FirstArrival>>
        BY <1>2, <3>1
      <4>2. QED
        BY <1>3, <1>4, <1>5, <1>6, <4>1
    <3>2. CASE p # start
      <4>1. arrival'[p] = <<>>
        BY <1>2, <3>2
      <4>2. QED
        BY <1>3, <1>5, <1>6, <4>1
    <3>3. QED
      BY <3>1, <3>2
  <2>3. QED
    BY <1>1, <2>1, <2>2 DEF SlotsOK, Comes
<1>8. StageOK'
  <2>1. arrival'[start] = <<FirstArrival>>
    BY <1>1, <1>2
  <2>2. QED
    BY <1>1, <1>2, <1>5, <2>1 DEF StageOK, PassStages
<1>9. SizesOK' /\ CountersOK'
  BY <1>1, <1>2 DEF SInv, SizesOK, CountersOK
<1>10. QED
  BY <1>7, <1>8, <1>9 DEF SInv

(***************************************************************************)
(* The arrivals that come from the slots of pos.                           *)
(***************************************************************************)
LEMMA ComesFromHere ==
  ASSUME IInv, SlotsOK, pos \in start .. end - 1, NEW k \in 1 .. Len(here)
  PROVE  /\ here[k] \in Arrival /\ pos \in Int
         /\ \A a \in Arrival : a.from_pos = pos /\ a.from_slot = k =>
              \A p \in pos + 1 .. end : a \in From(p)
<1>1. start \in Nat /\ end \in Nat /\ pos \in Nat /\ pos \in start .. end
  BY DEF IInv, WindowOK, end
<1>2. here \in Seq(Arrival) /\ here = arrival[pos]
  BY <1>1 DEF SlotsOK, here
<1>3. here[k] \in Arrival
  BY <1>2
<1>4. ASSUME NEW a \in Arrival, a.from_pos = pos, a.from_slot = k, NEW p \in pos + 1 .. end
      PROVE  a \in From(p)
  <2>1. pos \in start .. p - 1
    BY <1>1
  <2>2. k \in 1 .. Len(arrival[pos])
    BY <1>2
  <2>3. QED
    BY <1>1, <1>4, <2>1, <2>2 DEF From
<1>5. QED
  BY <1>1, <1>3, <1>4

LEMMA WithLiteralFrom ==
  ASSUME IInv, SlotsOK, pos \in start .. end - 1, NEW k \in 1 .. Len(here)
  PROVE  WithLiteral(k) \in From(pos + 1)
<1> DEFINE run  == here[k].num_literals
           cost == here[k].cost + ByteBits + RunBits(run + 1) - RunBits(run)
<1>1. here[k] \in Arrival /\ pos \in Int /\ pos + 1 \in pos + 1 .. end
  <2>1. pos \in Int /\ end \in Int /\ pos < end
    BY DEF IInv, WindowOK, end
  <2>2. QED
    BY <2>1, ComesFromHere
<1>2. /\ cost \in Int /\ run + 1 \in Nat /\ here[k].score + 1 \in Nat /\ k \in Nat
      /\ here[k].rep_offset \in Nat /\ here[k].rep_pos \in Int
  <2>1. /\ here[k].cost \in Int /\ run \in Nat /\ here[k].score \in Nat
        /\ here[k].rep_offset \in Nat /\ here[k].rep_pos \in Int
    BY <1>1 DEF Arrival
  <2> HIDE DEF run
  <2>2. PICK c \in Int, b \in Int, x \in Int, y \in Int :
          /\ c = here[k].cost /\ b = ByteBits /\ x = RunBits(run + 1) /\ y = RunBits(run)
    BY <2>1, CostBits, FormatAssumption
  <2>3. cost = c + b + x - y
    BY <2>2
  <2> HIDE DEF cost
  <2>4. cost \in Int
    BY <2>3
  <2>5. QED
    BY <2>1, <2>4
<1>3. WithLiteral(k) =
        [cost |-> cost, score |-> here[k].score + 1, rep_offset |-> here[k].rep_offset,
         rep_pos |-> here[k].rep_pos, num_literals |-> run + 1, match_len |-> 0,
         from_pos |-> pos, from_slot |-> k]
  BY DEF WithLiteral
<1> HIDE DEF cost, run
<1>4. /\ WithLiteral(k) \in Arrival
      /\ WithLiteral(k).from_pos = pos /\ WithLiteral(k).from_slot = k
  <2>1. PICK c \in Int, s \in Nat, o \in Nat, r \in Int, l \in Nat, q \in Int :
          /\ c = cost /\ s = here[k].score + 1 /\ o = here[k].rep_offset
          /\ r = here[k].rep_pos /\ l = run + 1 /\ q = pos
    BY <1>1, <1>2
  <2> DEFINE w == [cost |-> c, score |-> s, rep_offset |-> o, rep_pos |-> r,
                   num_literals |-> l, match_len |-> 0, from_pos |-> q, from_slot |-> k]
  <2>2. w \in Arrival /\ w.from_pos = q /\ w.from_slot = k
    BY <1>2 DEF Arrival
  <2>3. WithLiteral(k) = w
    BY <1>3, <2>1
  <2> HIDE DEF w
  <2>4. QED
    BY <2>1, <2>2, <2>3
<1>5. QED
  BY <1>1, <1>4, ComesFromHere

LEMMA WithMatchFrom ==
  ASSUME IInv, SlotsOK, pos \in start .. end - 1, TriedOK, stage = "extend",
         NEW p \in pos + 1 .. end, NewMatchFrom # {}, Len(here) \in Nat
  PROVE  WithMatch(Min(NewMatchFrom), p - pos) \in From(p)
<1> DEFINE k == Min(NewMatchFrom)
           bits == kc_dali_length_bit_cost((p - pos) - 1)
           cost == here[k].cost + OffsetBits(nMatchOffset) + TokenCost + bits
           score == here[k].score + (IF nMatchOffset = 1 THEN 1 ELSE 3)
<1>1. k \in 1 .. Len(here)
  <2>1. NewMatchFrom \subseteq 1 .. Len(here)
    <3>1. here \in Seq(Arrival)
      BY DEF SlotsOK, here, IInv, WindowOK, end
    <3>2. QED
      BY <3>1 DEF NewMatchFrom
  <2>2. NewMatchFrom \in SUBSET Nat
    BY <2>1
  <2>3. QED
    BY <2>1, <2>2, MinProperty
<1>2. WithMatch(k, p - pos)
        = [cost |-> cost, score |-> score, rep_offset |-> nMatchOffset, rep_pos |-> pos,
           num_literals |-> 0, match_len |-> p - pos, from_pos |-> pos, from_slot |-> k]
  BY DEF WithMatch, salvador_get_match_varlen_size_norep
<1> HIDE DEF k
<1>3. here[k] \in Arrival /\ pos \in Int
  BY <1>1, ComesFromHere
<1>4. nMatchOffset \in Nat
  <2>1. m \in 1 .. Len(match[pos]) /\ d \in {0, match[pos][m].depth}
    BY DEF TriedOK
  <2>2. match[pos] \in Seq(Entry) /\ GoodList(window, pos, match[pos])
    BY DEF IInv, Lists
  <2>3. GoodEntry(window, pos, match[pos][m])
    BY <2>1, <2>2 DEF GoodList
  <2>4. /\ match[pos][m].offset \in Nat /\ match[pos][m].depth \in Nat
        /\ match[pos][m].depth < match[pos][m].offset
    BY <2>3 DEF GoodEntry, Entry
  <2>5. QED
    BY <2>1, <2>4 DEF nMatchOffset
<1>5. cost \in Int /\ score \in Nat /\ k \in Nat /\ p - pos \in Int
  <2>1. /\ here[k].cost \in Int /\ here[k].score \in Nat /\ OffsetBits(nMatchOffset) \in Int
        /\ TokenCost \in Int
    BY <1>3, CostBits, ParsingAssumption, SMTT(30) DEF Arrival
  <2>2. bits \in Int
    BY CostBits
  <2> HIDE DEF bits
  <2>3. cost \in Int /\ score \in Nat
    <3>1. PICK c \in Int, o \in Int, b \in Int : c = here[k].cost /\ b = bits
                                               /\ o = OffsetBits(nMatchOffset)
      BY <2>1, <2>2
    <3>2. cost = c + o + TokenCost + b
      BY <3>1
    <3>3. score \in Nat
      BY <2>1
    <3> HIDE DEF cost, score
    <3>4. QED
      BY <2>1, <3>1, <3>2, <3>3
  <2>4. p \in Int /\ k \in Nat
    BY <1>1, <1>3
  <2> HIDE DEF cost, score
  <2>5. QED
    BY <1>3, <2>3, <2>4
<1> HIDE DEF cost, score
<1>6. WithMatch(k, p - pos) \in Arrival
      /\ WithMatch(k, p - pos).from_pos = pos /\ WithMatch(k, p - pos).from_slot = k
  <2>1. PICK c \in Int, s \in Nat, o \in Nat, l \in Int, q \in Int, f \in Nat :
          c = cost /\ s = score /\ o = nMatchOffset /\ l = p - pos /\ q = pos /\ f = k
    BY <1>3, <1>4, <1>5
  <2> DEFINE w == [cost |-> c, score |-> s, rep_offset |-> o, rep_pos |-> q,
                   num_literals |-> 0, match_len |-> l, from_pos |-> q, from_slot |-> f]
  <2>2. w \in Arrival /\ w.from_pos = q /\ w.from_slot = f
    BY DEF Arrival
  <2>3. WithMatch(k, p - pos) = w
    BY <1>2, <2>1
  <2> HIDE DEF w
  <2>4. QED
    BY <2>1, <2>2, <2>3
<1>7. WithMatch(k, p - pos) \in From(p)
  BY <1>1, <1>6, ComesFromHere
<1>8. QED
  BY <1>7 DEF k

LEMMA WithRepeatFrom ==
  ASSUME IInv, SlotsOK, pos \in start .. end - 1, NEW k \in 1 .. Len(here),
         NEW p \in pos + 1 .. end
  PROVE  WithRepeat(k, p - pos) \in From(p)
<1> DEFINE bits == kc_dali_length_bit_cost(p - pos)
           cost == here[k].cost + TokenCost + bits
           score == here[k].score + (IF here[k].rep_offset = 1 THEN 0 ELSE 2)
<1>1. WithRepeat(k, p - pos)
        = [cost |-> cost, score |-> score, rep_offset |-> here[k].rep_offset,
           rep_pos |-> pos, num_literals |-> 0, match_len |-> p - pos,
           from_pos |-> pos, from_slot |-> k]
  BY DEF WithRepeat, salvador_get_match_varlen_size_rep
<1>2. here[k] \in Arrival /\ pos \in Int
  BY ComesFromHere
<1>3. /\ cost \in Int /\ score \in Nat /\ k \in Nat /\ p - pos \in Int
      /\ here[k].rep_offset \in Nat
  <2>1. /\ here[k].cost \in Int /\ here[k].score \in Nat /\ here[k].rep_offset \in Nat
        /\ TokenCost \in Int
    BY <1>2, ParsingAssumption DEF Arrival
  <2>2. bits \in Int
    BY CostBits
  <2> HIDE DEF bits
  <2>3. QED
    BY <1>2, <2>1, <2>2, SMTT(30)
<1> HIDE DEF cost, score
<1>4. WithRepeat(k, p - pos) \in Arrival
      /\ WithRepeat(k, p - pos).from_pos = pos /\ WithRepeat(k, p - pos).from_slot = k
  <2>1. PICK c \in Int, s \in Nat, o \in Nat, l \in Int, q \in Int, f \in Nat :
          c = cost /\ s = score /\ o = here[k].rep_offset /\ l = p - pos /\ q = pos /\ f = k
    BY <1>2, <1>3
  <2> DEFINE w == [cost |-> c, score |-> s, rep_offset |-> o, rep_pos |-> q,
                   num_literals |-> 0, match_len |-> l, from_pos |-> q, from_slot |-> f]
  <2>2. w \in Arrival /\ w.from_pos = q /\ w.from_slot = f
    BY DEF Arrival
  <2>3. WithRepeat(k, p - pos) = w
    BY <1>1, <2>1
  <2> HIDE DEF w
  <2>4. QED
    BY <2>1, <2>2, <2>3
<1>5. QED
  BY <1>4, ComesFromHere
-----------------------------------------------------------------------------
(***************************************************************************)
(* One lemma per step, for the slots, the sizes and the counters.          *)
(***************************************************************************)
LEMMA GrownSizes ==
  ASSUME IInv, SizesOK, NEW p \in start .. end - 1,
         NEW S \in SUBSET SamePairs(p), NEW count \in Int,
         count <= MaxMatches - Len(match[p]),
         match' = [match EXCEPT ![p] = @ \o Entries(p, Nearest(S, count))],
         window' = window, start' = start
  PROVE  SizesOK'
<1> DEFINE more == Entries(p, Nearest(S, count))
           list == match[p] \o more
<1>1. /\ match \in [start .. end - 1 -> Seq(Entry)] /\ end' = end /\ MaxMatches \in Nat
      /\ match[p] \in Seq(Entry) /\ Len(match[p]) \in Nat /\ Len(match[p]) <= MaxMatches
      /\ LCP_MAX \in Nat
  <2>1. MaxMatches \in Nat /\ LCP_MAX \in Nat
    BY ParserAssumption
  <2>2. match \in [start .. end - 1 -> Seq(Entry)] /\ end' = end
    BY DEF IInv, Lists, end
  <2>3. QED
    BY <2>1, <2>2 DEF SizesOK
<1>2. /\ Len(more) \in Nat /\ Len(more) <= (IF count > 0 THEN count ELSE 0)
      /\ \A k \in DOMAIN more : more[k].length \in 1 .. LCP_MAX /\ more[k].depth = 0
  BY EntriesSized DEF IInv
<1>3. more \in Seq(Entry)
  <2>1. GoodList(window, p, more)
    BY EntriesGood DEF IInv
  <2> HIDE DEF more
  <2>2. QED
    BY <2>1 DEF GoodList
<1>4. match' = [match EXCEPT ![p] = list]
  BY <1>1
<1> HIDE DEF more
<1>5. Len(list) = Len(match[p]) + Len(more) /\ Len(list) <= MaxMatches
  BY <1>1, <1>2, <1>3
<1>6. ASSUME NEW k \in DOMAIN list
      PROVE  list[k].length \in 1 .. LCP_MAX /\ list[k].depth \in 0 .. LCP_MAX
  <2>1. CASE k <= Len(match[p])
    <3>1. k \in DOMAIN match[p] /\ list[k] = match[p][k]
      BY <1>1, <1>3, <2>1
    <3>2. QED
      BY <3>1 DEF SizesOK
  <2>2. CASE k > Len(match[p])
    <3>1. k - Len(match[p]) \in DOMAIN more /\ list[k] = more[k - Len(match[p])]
      BY <1>1, <1>3, <2>2
    <3>2. more[k - Len(match[p])].length \in 1 .. LCP_MAX
          /\ more[k - Len(match[p])].depth = 0
      BY <1>2, <3>1
    <3>3. QED
      BY <1>1, <3>1, <3>2
  <2>3. k \in Nat
    BY <1>1, <1>3
  <2>4. QED
    BY <1>1, <2>1, <2>2, <2>3
<1> HIDE DEF list
<1>7. ASSUME NEW q \in start .. end - 1
      PROVE  /\ Len(match'[q]) <= MaxMatches
             /\ \A k \in DOMAIN match'[q] :
                  match'[q][k].length \in 1 .. LCP_MAX /\ match'[q][k].depth \in 0 .. LCP_MAX
  <2>1. CASE q = p
    <3>1. match'[q] = list
      BY <1>1, <1>4, <2>1
    <3>2. QED
      BY <1>5, <1>6, <3>1
  <2>2. CASE q # p
    <3>1. match'[q] = match[q]
      BY <1>1, <1>4, <2>2
    <3>2. QED
      BY <3>1 DEF SizesOK
  <2>3. QED
    BY <2>1, <2>2
<1>8. QED
  BY <1>1, <1>7 DEF SizesOK

LEMMA SupplementSlots == ASSUME IInv, SInv, Supplement PROVE SInv'
<1>1. /\ window' = window /\ start' = start /\ search' = search /\ second' = second
      /\ arrival' = arrival /\ stage' = stage /\ pos' = pos + 1 /\ stage = "supplement"
      /\ pos < end - 1 /\ m' = m /\ d' = d /\ min_rep' = min_rep /\ max_rep' = max_rep
  BY DEF Supplement, tried
<1>2. pos \in Int /\ pos > start /\ start \in Nat /\ end \in Nat /\ end' = end
  BY <1>1 DEF IInv, PlaceOK, WindowOK, end
<1>3. pos \in start .. end - 1 /\ pos' \in start .. end
  BY <1>1, <1>2
<1> DEFINE S == {o \in SamePairs(pos) : ~Listed(match[pos], o)}
           count == search.initial_supplement_matches - Len(match[pos])
<1>4. count \in Int /\ count <= MaxMatches - Len(match[pos])
  <2>1. Len(match[pos]) \in Nat /\ search.initial_supplement_matches \in 0 .. MaxMatches
        /\ MaxMatches \in Nat
    BY <1>3, ParserAssumption DEF IInv, Lists
  <2>2. QED
    BY <2>1
<1>5. match' = [match EXCEPT ![pos] = @ \o Entries(pos, Nearest(S, count))]
  BY DEF Supplement, Supplements
<1>6. S \in SUBSET SamePairs(pos)
  OBVIOUS
<1> HIDE DEF S, count
<1>7. SizesOK'
  BY <1>1, <1>3, <1>4, <1>5, <1>6, GrownSizes DEF SInv
<1>8. SlotsOK'
  BY <1>1, QuietSlots DEF SInv, StageOK, PassStages
<1>9. StageOK' /\ CountersOK'
  BY <1>1, <1>2, <1>3 DEF SInv, StageOK, CountersOK, PassStages
<1>10. QED
  BY <1>7, <1>8, <1>9 DEF SInv

LEMMA FurtherSlots == ASSUME IInv, SInv, Further PROVE SInv'
<1> DEFINE isShort == ~(match[pos] # <<>>
                          /\ match[pos][1].length >= search.supplement_trigger_length)
           count == Min({search.forward_insert_limit, MaxMatches - Len(match[pos])})
           S == {o \in SamePairs(pos) : ~Listed(match[pos], o) /\ AgreesLater(pos, o)}
           offsets == IF isShort THEN FurtherOffsets(pos) ELSE <<>>
<1>1. /\ window' = window /\ start' = start /\ search' = search /\ second' = second
      /\ arrival' = arrival /\ stage' = stage /\ pos' = pos + 1 /\ stage = "further"
      /\ pos < end - 1 /\ m' = m /\ d' = d /\ min_rep' = min_rep /\ max_rep' = max_rep
      /\ match' = [match EXCEPT ![pos] = @ \o Entries(pos, offsets)]
  BY DEF Further, tried
<1>2. pos \in Int /\ pos > start /\ start \in Nat /\ end \in Nat /\ end' = end
  BY <1>1 DEF IInv, PlaceOK, WindowOK, end
<1>3. pos \in start .. end - 1 /\ pos' \in start .. end
  BY <1>1, <1>2
<1>4. count \in Int /\ count <= MaxMatches - Len(match[pos])
  <2>1. /\ Len(match[pos]) \in Nat /\ MaxMatches \in Nat
        /\ search.forward_insert_limit \in Nat /\ MaxMatches - Len(match[pos]) \in Nat
    BY <1>3, ParserAssumption DEF IInv, Lists, SInv, SizesOK
  <2> DEFINE pair == {search.forward_insert_limit, MaxMatches - Len(match[pos])}
  <2>2. pair \in SUBSET Nat /\ pair # {}
    BY <2>1
  <2>3. Min(pair) \in pair /\ \A y \in pair : Min(pair) <= y
    <3> HIDE DEF pair
    <3>1. QED
      BY <2>2, MinProperty
  <2>4. QED
    BY <2>1, <2>2, <2>3
<1>5. \E T \in SUBSET SamePairs(pos), c \in Int :
         offsets = Nearest(T, c) /\ c <= MaxMatches - Len(match[pos])
  <2>1. CASE isShort
    <3>1. S \in SUBSET SamePairs(pos) /\ offsets = Nearest(S, count)
      BY <2>1 DEF FurtherOffsets
    <3> HIDE DEF count, S, offsets
    <3>2. QED
      BY <1>4, <3>1
  <2>2. CASE ~isShort
    <3>1. Nearest({}, 0) = <<>>
      <4>1. Cardinality({}) = 0
        BY FS_EmptySet
      <4>2. Max({0, 0}) = 0 /\ Min({0, 0}) = 0
        BY DEF Max, Min
      <4>3. Nearest({}, 0) = [k \in 1 .. 0 |->
              CHOOSE o \in {} : Cardinality({q \in {} : q < o}) = k - 1]
        BY <4>1, <4>2 DEF Nearest
      <4>4. QED
        BY <4>3
    <3>2. 0 <= MaxMatches - Len(match[pos])
      BY <1>3, ParserAssumption DEF IInv, Lists, SInv, SizesOK
    <3>3. QED
      BY <2>2, <3>1, <3>2
  <2>3. QED
    BY <2>1, <2>2
<1> HIDE DEF offsets, count, S, isShort
<1>6. PICK T \in SUBSET SamePairs(pos), c \in Int :
         offsets = Nearest(T, c) /\ c <= MaxMatches - Len(match[pos])
  BY <1>5
<1>7. SizesOK'
  <2>1. match' = [match EXCEPT ![pos] = @ \o Entries(pos, Nearest(T, c))]
    BY <1>1, <1>6
  <2>2. QED
    BY <1>1, <1>3, <1>6, <2>1, GrownSizes DEF SInv
<1>8. SlotsOK'
  BY <1>1, QuietSlots DEF SInv, StageOK, PassStages
<1>9. StageOK' /\ CountersOK'
  BY <1>1, <1>2, <1>3 DEF SInv, StageOK, CountersOK, PassStages
<1>10. QED
  BY <1>7, <1>8, <1>9 DEF SInv

LEMMA VisitSlots == ASSUME IInv, SInv, Visit PROVE SInv'
<1> DEFINE p      == arrival[call.at][call.slot].rep_pos
           length == kc_limit_match_len_local(Agreeing(p, call.offset, LCP_MAX))
           entry  == {k \in DOMAIN match[p] : match[p][k].offset = call.offset}
           added  == [length |-> length, offset |-> call.offset, depth |-> 0]
<1>1. /\ window' = window /\ start' = start /\ search' = search /\ second' = second
      /\ arrival' = arrival /\ stage' = stage /\ pos' = pos
      /\ m' = m /\ d' = d /\ min_rep' = min_rep /\ max_rep' = max_rep
      /\ p \in start .. end - 1
  BY DEF Visit, CanVisit, tried
<1>2. /\ match \in [start .. end - 1 -> Seq(Entry)] /\ match[p] \in Seq(Entry)
      /\ end' = end /\ LCP_MAX \in Nat \ {0} /\ MaxMatches \in Nat
  BY <1>1, ParserAssumption DEF IInv, Lists, end
<1>3. IF CanRepeat(p) /\ entry = {}
      THEN match' = [match EXCEPT ![p] = Append(match[p], added)]
      ELSE match' = [match EXCEPT ![p] = [k \in DOMAIN match[p] |->
                IF /\ CanRepeat(p) /\ k = Min(entry)
                   /\ match[p][k].depth = 0 /\ match[p][k].length < length
                THEN [match[p][k] EXCEPT !.length = length] ELSE match[p][k]]]
  BY <1>2 DEF Visit
<1>4. CanRepeat(p) => length \in 1 .. LCP_MAX /\ Len(match[p]) < MaxMatches
  <2> SUFFICES ASSUME CanRepeat(p)
               PROVE  length \in 1 .. LCP_MAX /\ Len(match[p]) < MaxMatches
    OBVIOUS
  <2>1. SameBytes(window, p, call.offset, 1) /\ Len(match[p]) < MaxMatches
    BY DEF CanRepeat
  <2>2. WindowOK
    BY DEF IInv
  <2> HIDE DEF p
  <2>3. QED
    BY <1>1, <1>2, <2>1, <2>2, AgreeingRange
<1> HIDE DEF p, length
<1>5. PICK list : /\ match' = [match EXCEPT ![p] = list]
                  /\ Len(list) <= MaxMatches
                  /\ \A k \in DOMAIN list : /\ list[k].length \in 1 .. LCP_MAX
                                            /\ list[k].depth \in 0 .. LCP_MAX
  <2>1. /\ Len(match[p]) <= MaxMatches
        /\ \A k \in DOMAIN match[p] : /\ match[p][k].length \in 1 .. LCP_MAX
                                      /\ match[p][k].depth \in 0 .. LCP_MAX
    BY <1>1 DEF SInv, SizesOK
  <2>2. CASE CanRepeat(p) /\ entry = {}
    <3> DEFINE list == Append(match[p], added)
    <3>1. added.length \in 1 .. LCP_MAX /\ added.depth \in 0 .. LCP_MAX
      BY <1>2, <1>4, <2>2
    <3> HIDE DEF added
    <3>2. /\ Len(list) = Len(match[p]) + 1 /\ DOMAIN list = 1 .. Len(match[p]) + 1
          /\ Len(match[p]) \in Nat /\ DOMAIN match[p] = 1 .. Len(match[p])
          /\ \A k \in 1 .. Len(match[p]) + 1 :
               list[k] = IF k <= Len(match[p]) THEN match[p][k] ELSE added
      BY <1>2
    <3> HIDE DEF list
    <3>3. Len(list) <= MaxMatches
      BY <1>2, <1>4, <2>2, <3>2
    <3>4. \A k \in DOMAIN list : /\ list[k].length \in 1 .. LCP_MAX
                                 /\ list[k].depth \in 0 .. LCP_MAX
      BY <2>1, <3>1, <3>2
    <3>5. match' = [match EXCEPT ![p] = list]
      BY <1>3, <2>2 DEF list
    <3>6. QED
      BY <3>3, <3>4, <3>5
  <2>3. CASE ~(CanRepeat(p) /\ entry = {})
    <3> DEFINE longer(k) == /\ CanRepeat(p) /\ k = Min(entry)
                            /\ match[p][k].depth = 0 /\ match[p][k].length < length
               list == [k \in DOMAIN match[p] |->
                          IF longer(k) THEN [match[p][k] EXCEPT !.length = length]
                          ELSE match[p][k]]
    <3>1. match' = [match EXCEPT ![p] = list]
      BY <1>3, <2>3
    <3>2. \A k \in DOMAIN match[p] : longer(k) => CanRepeat(p)
      OBVIOUS
    <3> HIDE DEF longer
    <3>3. DOMAIN list = DOMAIN match[p] /\ Len(list) = Len(match[p])
      BY <1>2
    <3>4. ASSUME NEW k \in DOMAIN match[p]
          PROVE  list[k].length \in 1 .. LCP_MAX /\ list[k].depth \in 0 .. LCP_MAX
      <4>1. match[p][k] \in Entry
        BY <1>2
      <4>2. CASE longer(k)
        <5>1. list[k] = [match[p][k] EXCEPT !.length = length]
          BY <4>2
        <5>2. list[k].length = length /\ list[k].depth = match[p][k].depth
          BY <4>1, <5>1 DEF Entry
        <5>3. QED
          BY <1>4, <2>1, <3>2, <4>2, <5>2
      <4>3. CASE ~longer(k)
        BY <2>1, <4>3
      <4>4. QED
        BY <4>2, <4>3
    <3> HIDE DEF list
    <3>5. QED
      BY <2>1, <3>1, <3>3, <3>4
  <2>4. QED
    BY <2>2, <2>3
<1>6. SizesOK'
  <2>1. ASSUME NEW q \in start .. end - 1
        PROVE  /\ Len(match'[q]) <= MaxMatches
               /\ \A k \in DOMAIN match'[q] :
                    match'[q][k].length \in 1 .. LCP_MAX /\ match'[q][k].depth \in 0 .. LCP_MAX
    <3>1. CASE q = p
      <4>1. match'[q] = list
        BY <1>2, <1>5, <3>1
      <4>2. QED
        BY <1>5, <4>1
    <3>2. CASE q # p
      <4>1. match'[q] = match[q]
        BY <1>2, <1>5, <3>2
      <4>2. QED
        BY <4>1 DEF SInv, SizesOK
    <3>3. QED
      BY <3>1, <3>2
  <2>2. QED
    BY <1>1, <1>2, <2>1 DEF SizesOK
<1>7. SlotsOK'
  BY <1>1, QuietSlots DEF SInv, StageOK
<1>8. StageOK' /\ CountersOK'
  BY <1>1, <1>2 DEF SInv, StageOK, CountersOK
<1>9. QED
  BY <1>6, <1>7, <1>8 DEF SInv

(***************************************************************************)
(* Steps that touch neither the slots nor the lists.                       *)
(***************************************************************************)
LEMMA QuietStep ==
  ASSUME IInv, SInv,
         \/ Pass \/ Insert \/ NextPosition \/ EndFirstPass \/ Trace \/ TraceBack
         \/ UNCHANGED parserVars
  PROVE  SInv'
<1>1. /\ window' = window /\ start' = start /\ search' = search /\ second' = second
      /\ arrival' = arrival /\ match' = match /\ min_rep' = min_rep /\ max_rep' = max_rep
      /\ d' = d /\ end' = end
  BY DEF Pass, Insert, NextPosition, EndFirstPass, Trace, TraceBack, parserVars, tables,
     tried, end
<1>2. start \in Nat /\ end \in Nat /\ start < end /\ pos \in start .. end
  BY DEF IInv, WindowOK, end, SInv, StageOK
<1>3. SizesOK'
  BY <1>1 DEF SInv, SizesOK
<1>4. CASE Pass \/ Insert \/ UNCHANGED parserVars
  <2>1. /\ pos' = pos /\ m' = m
        /\ stage' = stage \/ (stage = "insert" /\ stage' = "extend")
    BY <1>4 DEF Pass, Insert, parserVars, tables, tried
  <2>2. SlotsOK'
    BY <1>1, <1>2, <2>1, QuietSlots DEF SInv, PassStages
  <2>3. StageOK' /\ CountersOK'
    BY <1>1, <1>2, <2>1 DEF SInv, StageOK, CountersOK, PassStages
  <2>4. QED
    BY <1>3, <2>2, <2>3 DEF SInv
<1>5. CASE NextPosition
  <2>1. m' = m /\ stage = "next" /\ stage' = "arrive" /\ pos' = pos + 1
    BY <1>5 DEF NextPosition, tried
  <2>2. pos < end /\ arrival[pos + 1] # <<>> /\ pos' \in start .. end /\ pos <= pos'
    BY <1>2, <2>1 DEF SInv, StageOK
  <2>3. SlotsOK'
    BY <1>1, <1>2, <2>1, <2>2, QuietSlots DEF SInv, PassStages
  <2>4. StageOK' /\ CountersOK'
    BY <1>1, <2>1, <2>2 DEF SInv, StageOK, CountersOK, PassStages
  <2>5. QED
    BY <1>3, <2>3, <2>4 DEF SInv
<1>6. CASE EndFirstPass
  <2>1. m' = m /\ stage' = "further" /\ pos' = start + 1
    BY <1>6 DEF EndFirstPass, tried
  <2>2. SlotsOK'
    BY <1>1, <1>2, <2>1, QuietSlots DEF SInv, PassStages
  <2>3. StageOK' /\ CountersOK'
    BY <1>1, <1>2, <2>1 DEF SInv, StageOK, CountersOK, PassStages
  <2>4. QED
    BY <1>3, <2>2, <2>3 DEF SInv
<1>7. CASE Trace
  <2>1. m' = 1 /\ stage = "arrive" /\ stage' = "trace" /\ pos' = pos
    BY <1>7 DEF Trace
  <2>2. SlotsOK'
    BY <1>1, <1>2, <2>1, QuietSlots DEF SInv, PassStages
  <2>3. 1 \in 1 .. Len(arrival[pos])
    <3>1. arrival[pos] \in Seq(Arrival) /\ arrival[pos] # <<>>
      BY <1>2, <2>1 DEF SInv, SlotsOK, StageOK, PassStages
    <3>2. QED
      BY <3>1
  <2>4. StageOK' /\ CountersOK'
    BY <1>1, <1>2, <2>1, <2>3 DEF SInv, StageOK, CountersOK, PassStages
  <2>5. QED
    BY <1>3, <2>2, <2>4 DEF SInv
<1>8. CASE TraceBack
  <2> DEFINE a == arrival[pos][m]
  <2>1. /\ stage = "trace"
        /\ IF a.from_slot = 0 THEN stage' = "parsed" /\ pos' = pos /\ m' = m
           ELSE stage' = stage /\ pos' = a.from_pos /\ m' = a.from_slot
    BY <1>8 DEF TraceBack
  <2>2. m \in 1 .. Len(arrival[pos])
    BY <2>1 DEF SInv, StageOK
  <2>3. SlotsOK'
    BY <1>1, <1>2, <2>1, QuietSlots DEF SInv, PassStages
  <2>4. CASE a.from_slot = 0
    BY <1>1, <1>2, <1>3, <2>1, <2>3, <2>4 DEF SInv, StageOK, CountersOK, PassStages
  <2>5. CASE a.from_slot # 0
    <3>1. a.from_pos \in start .. pos - 1 /\ a.from_slot \in 1 .. Len(arrival[a.from_pos])
      BY <1>2, <2>2, <2>5 DEF SInv, SlotsOK, Comes
    <3>2. pos' \in start .. pos - 1 /\ m' \in 1 .. Len(arrival[pos']) /\ stage' = "trace"
      BY <2>1, <2>5, <3>1
    <3> HIDE DEF a
    <3>3. pos' \in start .. end /\ m' \in Nat \ {0}
      BY <1>2, <3>2
    <3>4. QED
      BY <1>1, <1>3, <2>3, <3>2, <3>3 DEF SInv, StageOK, CountersOK, PassStages
  <2>6. QED
    BY <2>4, <2>5
<1>9. QED
  BY <1>4, <1>5, <1>6, <1>7, <1>8

LEMMA NextMatchStage ==
  ASSUME NEW index \in Nat \ {0}, NextMatch(index)
  PROVE  /\ m' \in Nat \ {0} /\ d' = 0 /\ stage' \in {"insert", "extend", "next"}
  BY DEF NextMatch

(***************************************************************************)
(* The two steps that put arrivals into slots.                             *)
(***************************************************************************)
LEMMA ArriveSlots == ASSUME IInv, SInv, Arrive PROVE SInv'
<1>1. /\ window' = window /\ start' = start /\ search' = search /\ second' = second
      /\ match' = match /\ pos' = pos /\ end' = end /\ stage = "arrive" /\ pos < end
      /\ arrival' = [arrival EXCEPT ![pos + 1] = WithLiterals] /\ min_rep' = 0
      /\ max_rep' = Max({RepeatLength(k) : k \in Repeating} \cup {0})
      /\ (stage' = "next" /\ m' = m /\ d' = d) \/ NextMatch(1)
  BY DEF Arrive, end
<1>2. /\ pos \in start .. end - 1 /\ start \in Nat /\ end \in Nat /\ pos \in start .. end
      /\ pos + 1 \in start .. end /\ pos \in Nat
  BY <1>1 DEF IInv, PlaceOK, WindowOK, end
<1>3. here \in Seq(Arrival) /\ Len(here) \in Nat \ {0}
  <2>1. here \in Seq(Arrival) /\ here # <<>>
    BY <1>1, <1>2 DEF SInv, SlotsOK, StageOK, PassStages, here
  <2>2. QED
    BY <2>1
<1>4. GoodSlots(From(pos + 1), WithLiterals) /\ WithLiterals # <<>>
  <2>1. GoodSlots(From(pos + 1), arrival[pos + 1]) /\ IsRankable(From(pos + 1))
    BY <1>1, <1>2, SlotsFrom DEF SInv, PassStages
  <2>2. \A k \in 1 .. Len(here) : WithLiteral(k) \in From(pos + 1)
    BY <1>2, WithLiteralFrom DEF SInv
  <2>3. search \in Settings
    BY DEF IInv
  <2>4. QED
    BY <1>3, <2>1, <2>2, <2>3, WithLiteralsGood
<1> DEFINE f == [p \in start .. end |-> IF p = pos + 1 THEN WithLiterals ELSE arrival[p]]
<1>5. arrival' = f
  BY <1>1 DEF SInv, SlotsOK
<1>6. /\ \A p \in start .. end : GoodSlots(From(p), f[p])
      /\ \A p \in start .. pos : f[p] = arrival[p]
  <2>1. ASSUME NEW p \in start .. end PROVE GoodSlots(From(p), f[p])
    <3>1. GoodSlots(From(p), arrival[p])
      BY <1>1, SlotsFrom DEF SInv, PassStages
    <3>2. QED
      BY <1>4, <3>1
  <2>2. ASSUME NEW p \in start .. pos PROVE f[p] = arrival[p]
    BY <1>2
  <2>3. QED
    BY <2>1, <2>2
<1>7. arrival'[pos] # <<>> /\ arrival'[pos + 1] # <<>>
  <2>1. arrival[pos] # <<>>
    BY <1>1 DEF SInv, StageOK, PassStages
  <2>2. arrival'[pos] = arrival[pos] /\ arrival'[pos + 1] = WithLiterals
    BY <1>2, <1>5
  <2>3. QED
    BY <1>4, <2>1, <2>2
<1>8. SlotsOK'
  <2>1. arrival' = [p \in start .. end |-> f[p]]
    BY <1>5
  <2> HIDE DEF f
  <2>2. QED
    BY <1>1, <1>2, <1>6, <2>1, SlotsBack DEF SInv
<1> HIDE DEF f
<1>9. max_rep' \in 0 .. end
  <2> DEFINE X == {RepeatLength(k) : k \in Repeating} \cup {0}
  <2>1. LCP_MAX \in Nat /\ WindowOK
    BY ParserAssumption DEF IInv
  <2>2. \A k : RepeatLength(k) \in 0 .. end
    <3> SUFFICES ASSUME NEW k PROVE RepeatLength(k) \in 0 .. end
      OBVIOUS
    <3>1. RepeatLength(k) \in 0 .. end - pos
      BY <1>2, <2>1, AgreeingRange DEF RepeatLength
    <3>2. QED
      BY <1>2, <3>1
  <2>3. X \in SUBSET (0 .. end) /\ X # {}
    BY <1>2, <2>2
  <2> HIDE DEF X
  <2>4. Max(X) \in X
    BY <1>2, <2>3, MaxProperty
  <2>5. QED
    BY <1>1, <2>3, <2>4 DEF X
<1>10. m' \in Nat \ {0} /\ d' \in 0 .. LCP_MAX /\ stage' \in {"insert", "extend", "next"}
  <2>1. LCP_MAX \in Nat
    BY ParserAssumption
  <2>2. CASE stage' = "next" /\ m' = m /\ d' = d
    BY <2>2 DEF SInv, CountersOK
  <2>3. CASE NextMatch(1)
    BY <2>1, <2>3, NextMatchStage
  <2>4. QED
    BY <1>1, <2>2, <2>3
<1>11. StageOK' /\ CountersOK'
  BY <1>1, <1>2, <1>7, <1>9, <1>10 DEF StageOK, CountersOK, PassStages
<1>12. SizesOK'
  BY <1>1 DEF SInv, SizesOK
<1>13. QED
  BY <1>8, <1>11, <1>12 DEF SInv

LEMMA ExtendLengths ==
  ASSUME IInv, SInv, pos \in start .. end - 1, m \in 1 .. Len(match[pos]), search \in Settings
  PROVE  /\ nMatchLen \in Int
         /\ FirstLength(nMatchLen, 2) \in Int /\ FirstLength(nMatchLen, 2) >= 2
         /\ repeatLengths \subseteq 1 .. end
         /\ \A length \in repeatLengths :
              length <= max_rep /\ length <= nMatchLen /\ length > min_rep
<1>1. /\ start \in Nat /\ end \in Nat /\ pos \in Nat /\ min_rep \in 0 .. end
      /\ max_rep \in 0 .. end /\ d \in Nat
  BY ParserAssumption DEF IInv, WindowOK, end, SInv, CountersOK
<1>2. nMatchLen \in Int
  <2>1. match[pos][m].length \in Int
    <3>1. match[pos] \in Seq(Entry)
      BY DEF IInv, Lists
    <3>2. m \in DOMAIN match[pos]
      BY <3>1
    <3>3. match[pos][m] \in Entry
      BY <3>1, <3>2
    <3>4. QED
      BY <3>3 DEF Entry
  <2>2. end - pos \in Int
    BY <1>1
  <2>3. entryLength \in Int
    BY <2>1, <2>2, MinOfTwo DEF entryLength
  <2>4. QED
    BY <1>1, <2>3 DEF nMatchLen
<1>3. search.exhaustive_length_threshold >= 2
  BY ParserAssumption
<1>4. ASSUME NEW least \in Int
      PROVE  FirstLength(nMatchLen, least) \in Int /\ FirstLength(nMatchLen, least) >= least
  BY <1>2 DEF FirstLength
<1>5. ASSUME NEW length \in repeatLengths
      PROVE  /\ length \in 1 .. end /\ length <= max_rep /\ length <= nMatchLen
             /\ length > min_rep
  <2> DEFINE first == FirstLength(nMatchLen, min_rep + 1)
             last == Min({max_rep, nMatchLen})
  <2>1. length \in first .. last
    BY DEF repeatLengths
  <2>2. first \in Int /\ first >= min_rep + 1
    BY <1>1, <1>4, SMTT(30)
  <2>3. last \in Int /\ last <= max_rep /\ last <= nMatchLen
    <3>1. last \in {max_rep, nMatchLen}
      BY <1>1, <1>2, MinOfTwo
    <3>2. \E x \in {max_rep, nMatchLen} : \A y \in {max_rep, nMatchLen} : x <= y
      <4>1. max_rep <= nMatchLen \/ nMatchLen <= max_rep
        BY <1>1, <1>2
      <4>2. QED
        BY <1>1, <1>2, <4>1
    <3>3. last <= max_rep /\ last <= nMatchLen
      BY <3>2 DEF Min
    <3> HIDE DEF last
    <3>4. QED
      BY <1>1, <1>2, <3>1, <3>3
  <2> HIDE DEF first, last
  <2>4. QED
    BY <1>1, <1>2, <2>1, <2>2, <2>3
<1>6. FirstLength(nMatchLen, 2) \in Int /\ FirstLength(nMatchLen, 2) >= 2
  BY <1>4, SMTT(30)
<1>7. repeatLengths \subseteq 1 .. end
  BY <1>5
<1>8. \A length \in repeatLengths :
        length <= max_rep /\ length <= nMatchLen /\ length > min_rep
  BY <1>5
<1>9. QED
  BY <1>2, <1>6, <1>7, <1>8

LEMMA ExtendSlots == ASSUME IInv, SInv, Extend PROVE SInv'
<1> DEFINE slots(p) == MatchSlots(arrival[p], p - pos)
           f == [p \in start .. end |->
                   IF p - pos \in repeatLengths THEN RepeatSlots(slots(p), p - pos)
                   ELSE slots(p)]
           exhaustive == {k \in repeatLengths : k <= search.exhaustive_length_threshold}
<1>1. /\ window' = window /\ start' = start /\ search' = search /\ second' = second
      /\ match' = match /\ pos' = pos /\ end' = end /\ stage = "extend"
      /\ min_rep' = Max(exhaustive \cup {min_rep})
      /\ max_rep' = IF max_rep \in repeatLengths \ exhaustive THEN max_rep - 1 ELSE max_rep
      /\ IF d = 0 /\ match[pos][m].depth # 0
         THEN /\ m' = m /\ d' = match[pos][m].depth
              /\ stage' = IF second THEN "extend" ELSE "insert"
         ELSE NextMatch(IF EarlyBreak THEN Len(match[pos]) + 1 ELSE m + 1)
  BY DEF Extend, end
<1>2. arrival' = f
  BY DEF Extend, SInv, SlotsOK
<1>3. TriedOK /\ pos \in start .. end - 1 /\ m \in 1 .. Len(match[pos]) /\ search \in Settings
  BY <1>1 DEF IInv, TriedOK
<1>4. /\ start \in Nat /\ end \in Nat /\ pos \in start .. end /\ pos \in Nat
      /\ pos + 1 \in start .. end /\ min_rep \in 0 .. end /\ max_rep \in 0 .. end
  BY <1>3 DEF IInv, WindowOK, end, SInv, CountersOK
<1>5. /\ nMatchLen \in Int
      /\ FirstLength(nMatchLen, 2) \in Int /\ FirstLength(nMatchLen, 2) >= 2
      /\ repeatLengths \subseteq 1 .. end
      /\ \A length \in repeatLengths : length <= max_rep /\ length > min_rep
  BY <1>3, ExtendLengths
<1>6. Len(here) \in Nat \ {0}
  <2>1. here \in Seq(Arrival) /\ here # <<>>
    BY <1>1, <1>4 DEF SInv, SlotsOK, StageOK, PassStages, here
  <2>2. QED
    BY <2>1
<1>7. ASSUME NEW p \in pos + 1 .. end
      PROVE  GoodSlots(From(p), f[p]) /\ (arrival[p] # <<>> => f[p] # <<>>)
  <2>1. p \in start .. end
    BY <1>4
  <2>2. GoodSlots(From(p), arrival[p]) /\ IsRankable(From(p))
    BY <1>1, <2>1, SlotsFrom DEF SInv, PassStages
  <2>3. p - pos \in FirstLength(nMatchLen, 2) .. nMatchLen /\ NewMatchFrom # {}
          => WithMatch(Min(NewMatchFrom), p - pos) \in From(p)
    BY <1>1, <1>3, <1>6, WithMatchFrom DEF SInv
  <2>4. GoodSlots(From(p), slots(p)) /\ (arrival[p] # <<>> => slots(p) # <<>>)
    BY <1>3, <2>2, <2>3, MatchSlotsGood
  <2>5. \A k \in 1 .. Len(here) : WithRepeat(k, p - pos) \in From(p)
    BY <1>3, WithRepeatFrom DEF SInv
  <2> HIDE DEF slots
  <2>6. /\ GoodSlots(From(p), RepeatSlots(slots(p), p - pos))
        /\ slots(p) # <<>> => RepeatSlots(slots(p), p - pos) # <<>>
    BY <1>3, <1>6, <2>2, <2>4, <2>5, RepeatSlotsGood
  <2>7. f[p] = IF p - pos \in repeatLengths THEN RepeatSlots(slots(p), p - pos) ELSE slots(p)
    BY <2>1
  <2> HIDE DEF f
  <2>8. QED
    BY <2>4, <2>6, <2>7
<1>8. ASSUME NEW p \in start .. pos PROVE f[p] = arrival[p]
  <2>1. p \in start .. end /\ p - pos \in Int /\ p - pos <= 0
    BY <1>4
  <2>2. p - pos \notin repeatLengths
    BY <1>5, <2>1
  <2>3. ~(p - pos \in FirstLength(nMatchLen, 2) .. nMatchLen)
    BY <1>5, <2>1
  <2>4. slots(p) = arrival[p]
    BY <2>3 DEF MatchSlots
  <2> HIDE DEF slots
  <2>5. QED
    BY <2>1, <2>2, <2>4
<1> HIDE DEF slots
<1>9. \A p \in start .. end : GoodSlots(From(p), f[p])
  <2> SUFFICES ASSUME NEW p \in start .. end PROVE GoodSlots(From(p), f[p])
    OBVIOUS
  <2> HIDE DEF f
  <2>1. CASE p \in start .. pos
    <3>1. GoodSlots(From(p), arrival[p])
      BY <1>1, SlotsFrom DEF SInv, PassStages
    <3>2. QED
      BY <1>8, <2>1, <3>1
  <2>2. CASE p \in pos + 1 .. end
    BY <1>7, <2>2
  <2>3. QED
    BY <1>4, <2>1, <2>2
<1>10. SlotsOK'
  <2>1. arrival' = [p \in start .. end |-> f[p]]
    BY <1>2
  <2> HIDE DEF f
  <2>2. QED
    BY <1>1, <1>4, <1>8, <1>9, <2>1, SlotsBack DEF SInv
<1> HIDE DEF f
<1>11. arrival'[pos] # <<>> /\ arrival'[pos + 1] # <<>>
  <2>1. arrival[pos] # <<>> /\ arrival[pos + 1] # <<>>
    BY <1>1 DEF SInv, StageOK, PassStages
  <2>2. pos \in start .. pos /\ pos + 1 \in pos + 1 .. end
    BY <1>4
  <2>3. f[pos] = arrival[pos] /\ f[pos + 1] # <<>>
    BY <1>7, <1>8, <2>1, <2>2
  <2>4. QED
    BY <1>2, <2>1, <2>3
<1>12. min_rep' \in 0 .. end /\ max_rep' \in 0 .. end
  <2> DEFINE X == exhaustive \cup {min_rep}
  <2>1. X \in SUBSET (0 .. end) /\ X # {}
    <3>1. \A k \in exhaustive : k \in 1 .. end
      BY <1>5
    <3> HIDE DEF exhaustive
    <3>2. \A k \in X : k \in 0 .. end
      BY <1>4, <3>1
    <3>3. min_rep \in X
      OBVIOUS
    <3> HIDE DEF X
    <3>4. QED
      BY <3>2, <3>3
  <2>2. max_rep' \in 0 .. end
    BY <1>1, <1>4, <1>5
  <2> HIDE DEF X
  <2>3. Max(X) \in X
    BY <1>4, <2>1, MaxProperty
  <2>4. min_rep' = Max(X)
    BY <1>1 DEF X
  <2>5. QED
    BY <2>1, <2>2, <2>3, <2>4
<1>13. m' \in Nat \ {0} /\ d' \in 0 .. LCP_MAX /\ stage' \in {"insert", "extend", "next"}
  <2>1. LCP_MAX \in Nat /\ Len(match[pos]) \in Nat /\ DOMAIN match[pos] = 1 .. Len(match[pos])
    <3>1. match[pos] \in Seq(Entry)
      BY <1>3 DEF IInv, Lists
    <3>2. QED
      BY <3>1, ParserAssumption
  <2>2. CASE d = 0 /\ match[pos][m].depth # 0
    <3>1. match[pos][m].depth \in 0 .. LCP_MAX
      BY <1>3, <2>1 DEF SInv, SizesOK
    <3>2. QED
      BY <1>1, <1>3, <2>1, <2>2, <3>1
  <2>3. CASE ~(d = 0 /\ match[pos][m].depth # 0)
    <3>1. PICK index \in Nat \ {0} : NextMatch(index)
      BY <1>1, <1>3, <2>1, <2>3
    <3>2. QED
      BY <2>1, <3>1, NextMatchStage
  <2>4. QED
    BY <2>2, <2>3
<1>14. StageOK' /\ CountersOK'
  BY <1>1, <1>3, <1>4, <1>11, <1>12, <1>13 DEF StageOK, CountersOK, PassStages
<1>15. SizesOK'
  BY <1>1 DEF SInv, SizesOK
<1>16. QED
  BY <1>10, <1>14, <1>15 DEF SInv
-----------------------------------------------------------------------------
LEMMA ReadySlots == HandedOver /\ Ready => SInv
<1> SUFFICES ASSUME HandedOver, Ready PROVE SInv
  OBVIOUS
<1>1. /\ start \in Nat /\ end \in Nat /\ start < end /\ LCP_MAX \in Nat /\ SizesOK
      /\ search \in Settings
  BY ParserAssumption DEF HandedOver, WindowOK, end, Ready
<1>2. /\ arrival = [p \in start .. end |-> <<>>] /\ second = FALSE /\ stage = "supplement"
      /\ pos = start + 1 /\ m = 1 /\ d = 0 /\ min_rep = 0 /\ max_rep = 0
  BY DEF Ready, NoArrivals
<1>3. nArrivalsPerPosition \in Nat \ {0, 1}
  BY <1>1, SlotCount
<1>4. SlotsOK
  <2>1. <<>> \in Seq(Arrival) /\ Len(<<>>) = 0 /\ Ranked(<<>>)
    BY DEF Ranked
  <2>2. arrival \in [start .. end -> Seq(Arrival)]
    BY <1>2, <2>1
  <2>3. \A p \in start .. end : arrival[p] = <<>>
    BY <1>2
  <2>4. QED
    BY <1>3, <2>1, <2>2, <2>3 DEF SlotsOK
<1>5. StageOK /\ CountersOK
  BY <1>1, <1>2 DEF StageOK, CountersOK, PassStages
<1>6. QED
  BY <1>1, <1>4, <1>5 DEF SInv

(***************************************************************************)
(* The slots are as they should be in every behaviour of the parser.       *)
(***************************************************************************)
THEOREM SlotsInvariant == ParserSpec => []SInv
<1>1. IInv /\ SInv /\ [Parse]_parserVars => SInv'
  <2> SUFFICES ASSUME IInv, SInv, [Parse]_parserVars PROVE SInv'
    OBVIOUS
  <2>1. CASE FirstPass \/ SecondPass
    <3>1. /\ window' = window /\ start' = start /\ search' = search /\ match' = match
          /\ \E b \in BOOLEAN : StartPass(b)
      BY <2>1 DEF FirstPass, SecondPass
    <3>2. QED
      BY <3>1, StartSlots
  <2>2. CASE Supplement
    BY <2>2, SupplementSlots
  <2>3. CASE Further
    BY <2>3, FurtherSlots
  <2>4. CASE Visit
    BY <2>4, VisitSlots
  <2>5. CASE Arrive
    BY <2>5, ArriveSlots
  <2>6. CASE Extend
    BY <2>6, ExtendSlots
  <2>7. CASE \/ Pass \/ Insert \/ NextPosition \/ EndFirstPass \/ Trace \/ TraceBack
             \/ UNCHANGED parserVars
    BY <2>7, QuietStep
  <2>8. QED
    BY <2>1, <2>2, <2>3, <2>4, <2>5, <2>6, <2>7 DEF Parse
<1>2. QED
  BY <1>1, ReadySlots, ListsInvariant, PTL DEF ParserSpec

(***************************************************************************)
(* Lists and slots stay inside what is allocated for them, whatever is     *)
(* supplemented and inserted, and the trace stays inside the payload: for  *)
(* every window, setting and starting list.                                *)
(***************************************************************************)
THEOREM ParserTypes == ParserSpec => []TypeOK
<1>1. SInv => TypeOK
  BY DEF SInv, SizesOK, SlotsOK, StageOK, CountersOK, PassStages, TypeOK
<1>2. QED
  BY <1>1, SlotsInvariant, PTL

(***************************************************************************)
(* In every behaviour of the parser the slots of every position are in     *)
(* order, and no two end with the same offset.                             *)
(***************************************************************************)
THEOREM SlotsRanked == ParserSpec => []ArrivalsStayRanked
<1>1. SInv => ArrivalsStayRanked
  BY DEF SInv, SlotsOK, ArrivalsStayRanked
<1>2. QED
  BY <1>1, SlotsInvariant, PTL
-----------------------------------------------------------------------------
(***************************************************************************)
(* What the parser counts for a command is what the writer's codes take:   *)
(* the count of a length includes its closing bit or its first bit, the    *)
(* count of an offset leaves out the bit that the length then adds.        *)
(***************************************************************************)
LEMMA NoLeadingBits == kc_floor_log2(1) = 0
<1>1. 2 ^ 0 = 1 /\ 2 ^ (0 + 1) = 2 * 2 ^ 0 /\ 0 \in 0 .. 2 * ByteBits
  BY PowerZero, PowerStep, FormatAssumption
<1>2. 2 ^ 0 <= 1 /\ 1 < 2 ^ (0 + 1)
  BY <1>1
<1>3. QED
  BY <1>1, <1>2, FloorLogIs

LEMMA CountedLength ==
  ASSUME NEW value \in Nat \ {0}
  PROVE  /\ kc_dali_length_bit_cost(value) \in Nat
         /\ CodeSize(value, FALSE) = kc_dali_length_bit_cost(value)
         /\ CodeSize(value, TRUE) = kc_dali_length_bit_cost(value) - 1
<1>1. kc_floor_log2(value) \in Nat
  BY FloorLogType
<1>2. kc_dali_length_bit_cost(value) = 2 * kc_floor_log2(value) + 1
  BY DEF kc_dali_length_bit_cost
<1>3. /\ CodeSize(value, FALSE) = 2 * kc_floor_log2(value) + 1
      /\ CodeSize(value, TRUE) = 2 * kc_floor_log2(value)
  BY CodeLength DEF CodeSize
<1>4. PICK log \in Nat : log = kc_floor_log2(value)
  BY <1>1
<1>5. /\ kc_dali_length_bit_cost(value) = 2 * log + 1
      /\ CodeSize(value, FALSE) = 2 * log + 1 /\ CodeSize(value, TRUE) = 2 * log
  BY <1>2, <1>3, <1>4
<1>6. 2 * log + 1 \in Nat /\ 2 * log = (2 * log + 1) - 1
  OBVIOUS
<1>7. QED
  BY <1>5, <1>6

LEMMA CountedRun ==
  ASSUME NEW n \in Nat
  PROVE  RunBits(n) \in Int /\ RunSize(n) = RunBits(n) + ByteBits * n
<1>1. ByteBits \in Nat /\ TokenCost \in Nat
  BY FormatAssumption, ParsingAssumption
<1>2. CASE n = 0
  BY <1>1, <1>2 DEF RunBits, RunSize, salvador_get_literals_varlen_size
<1>3. CASE n # 0
  <2>1. kc_dali_length_bit_cost(n) \in Nat /\ CodeSize(n, FALSE) = kc_dali_length_bit_cost(n)
    BY <1>3, CountedLength
  <2>2. RunBits(n) = TokenCost + kc_dali_length_bit_cost(n)
    BY <1>3 DEF RunBits, salvador_get_literals_varlen_size
  <2>3. RunSize(n) = TokenCost + CodeSize(n, FALSE) + ByteBits * n
    BY <1>3 DEF RunSize
  <2>4. PICK c \in Nat, t \in Nat, l \in Nat :
          c = kc_dali_length_bit_cost(n) /\ t = TokenCost /\ l = ByteBits * n
    BY <1>1, <2>1
  <2>5. RunBits(n) = t + c /\ RunSize(n) = t + c + l
    BY <2>1, <2>2, <2>3, <2>4
  <2>6. QED
    BY <2>4, <2>5
<1>4. QED
  BY <1>2, <1>3

LEMMA CountedRepeat ==
  ASSUME NEW length \in Nat \ {0}
  PROVE  RepeatSize(length) = TokenCost + salvador_get_match_varlen_size_rep(length)
  BY CountedLength DEF RepeatSize, salvador_get_match_varlen_size_rep

LEMMA CountedOffset ==
  ASSUME NEW length \in Nat, length >= 2, NEW offset \in Nat \ {0}, dali \in BOOLEAN
  PROVE  OffsetMatchSize([length |-> length, offset |-> offset], dali)
           = OffsetBits(offset) + TokenCost + salvador_get_match_varlen_size_norep(length)
<1> DEFINE high == (offset - 1) \div LowOffsets
           more == kc_dali_length_bit_cost(length - 1)
<1>1. ByteBits \in Nat /\ TokenCost \in Nat /\ LowOffsets \in Nat \ {0}
  BY FormatAssumption, ParsingAssumption DEF LowOffsets
<1>2. high \in Nat /\ (high = 0 <=> offset <= LowOffsets)
  <2>1. offset - 1 \in Nat
    OBVIOUS
  <2>2. high # 0 <=> LowOffsets <= offset - 1
    BY <1>1, <2>1, NotShiftedOut
  <2>3. high \in Nat
    BY <1>1, <2>1, DivBounds
  <2>4. QED
    BY <1>1, <2>2, <2>3
<1>3. /\ more \in Nat
      /\ (IF length > 2 THEN CodeSize(length - 1, TRUE) ELSE 0) = more - 1
  <2>1. length - 1 \in Nat \ {0}
    OBVIOUS
  <2>2. more \in Nat /\ CodeSize(length - 1, TRUE) = more - 1
    BY <2>1, CountedLength
  <2>3. length = 2 => more = 1
    BY NoLeadingBits DEF kc_dali_length_bit_cost
  <2>4. PICK l \in Nat : l = more
    BY <2>2
  <2>5. length > 2 \/ length = 2
    OBVIOUS
  <2> HIDE DEF more
  <2>6. CASE length > 2
    BY <2>2, <2>4, <2>6
  <2>7. CASE length = 2
    BY <2>3, <2>4, <2>7
  <2>8. QED
    BY <2>5, <2>6, <2>7
<1>4. high + 1 \in Nat \ {0}
  BY <1>2
<1>5. CodeSize(high + 1, FALSE) = kc_dali_length_bit_cost(high + 1)
      /\ kc_dali_length_bit_cost(high + 1) \in Nat
  BY <1>4, CountedLength
<1>6. OffsetMatchSize([length |-> length, offset |-> offset], dali)
        = TokenCost + ByteBits
          + (IF dali THEN CodeSize(high + 1, FALSE)
             ELSE IF high = 0 THEN 1 ELSE 1 + ByteBits)
          + (IF length > 2 THEN CodeSize(length - 1, TRUE) ELSE 0)
  BY DEF OffsetMatchSize
<1>7. OffsetBits(offset)
        = IF dali THEN ByteBits - 1 + kc_dali_length_bit_cost(high + 1)
          ELSE IF offset <= LowOffsets THEN ByteBits ELSE 2 * ByteBits
  BY DEF OffsetBits, kc_offset_bit_cost
<1>8. salvador_get_match_varlen_size_norep(length) = more
  BY DEF salvador_get_match_varlen_size_norep
<1> HIDE DEF high, more
<1>9. PICK w \in Nat, t \in Nat, c \in Nat, l \in Nat :
        w = ByteBits /\ t = TokenCost /\ c = kc_dali_length_bit_cost(high + 1) /\ l = more
  BY <1>1, <1>3, <1>5
<1>10. OffsetMatchSize([length |-> length, offset |-> offset], dali)
         = t + w + (IF dali THEN c ELSE IF offset <= LowOffsets THEN 1 ELSE 1 + w) + (l - 1)
  BY <1>2, <1>3, <1>5, <1>6, <1>9
<1>11. OffsetBits(offset) = IF dali THEN w - 1 + c ELSE IF offset <= LowOffsets THEN w ELSE 2 * w
  BY <1>7, <1>9
<1>12. CASE dali
  <2>1. t + w + c + (l - 1) = (w - 1 + c) + t + l
    BY <1>9
  <2>2. QED
    BY <1>8, <1>9, <1>10, <1>11, <1>12, <2>1
<1>13. CASE ~dali /\ offset <= LowOffsets
  <2>1. t + w + 1 + (l - 1) = w + t + l
    BY <1>9
  <2>2. QED
    BY <1>8, <1>9, <1>10, <1>11, <1>13, <2>1
<1>14. CASE ~dali /\ ~(offset <= LowOffsets)
  <2>1. t + w + (1 + w) + (l - 1) = (2 * w) + t + l
    BY <1>9
  <2>2. QED
    BY <1>8, <1>9, <1>10, <1>11, <1>14, <2>1
<1>15. QED
  BY <1>12, <1>13, <1>14

-----------------------------------------------------------------------------
(***************************************************************************)
(* How an arrival a at position p continues the arrival b that it comes    *)
(* from: with a literal or, from position q, with a match that repeats the *)
(* last offset or has another; and at which cost.                          *)
(***************************************************************************)
OneLiteral(b, a) ==
  /\ a.match_len = 0 /\ a.num_literals = b.num_literals + 1 /\ a.rep_offset = b.rep_offset
  /\ a.cost = b.cost + ByteBits + RunBits(b.num_literals + 1) - RunBits(b.num_literals)

OneMatch(b, a, q) ==
  /\ q # start /\ a.num_literals = 0
  /\ a.match_len \in 1 .. LCP_MAX /\ Limited(a.match_len)
  /\ CorrectMatch(window, q, [length |-> a.match_len, offset |-> a.rep_offset])
  /\ \/ /\ b.num_literals # 0 /\ a.rep_offset = b.rep_offset
        /\ a.cost = b.cost + TokenCost + salvador_get_match_varlen_size_rep(a.match_len)
     \/ /\ b.num_literals = 0 \/ a.rep_offset # b.rep_offset
        /\ a.match_len >= 2
        /\ a.cost = b.cost + OffsetBits(a.rep_offset) + TokenCost
                    + salvador_get_match_varlen_size_norep(a.match_len)

Continues(b, a, q, p) ==
  \/ p = q + 1 /\ OneLiteral(b, a)
  \/ p = q + a.match_len /\ OneMatch(b, a, q)

(* Every slot in use is the first arrival, or continues the one it names. *)
Exact(slots, p, a) ==
  /\ a.rep_offset # 0
  /\ IF a.from_slot = 0 THEN p = start /\ a = FirstArrival
     ELSE Continues(slots[a.from_pos][a.from_slot], a, a.from_pos, p)

EdgesOK ==
  \A p \in start .. end : \A k \in 1 .. Len(arrival[p]) : Exact(arrival, p, arrival[p][k])

(***************************************************************************)
(* The walk of the writer when it has come to a position as an arrival     *)
(* there has: the literals behind its last command are not written yet.    *)
(***************************************************************************)
Arrived(a, p) ==
  [next |-> p - a.num_literals, rep_offset |-> a.rep_offset,
   size |-> a.cost - (RunBits(a.num_literals) + ByteBits * a.num_literals), unused |-> {}]

LEMMA RunGrows ==
  ASSUME NEW cost \in Int, NEW n \in Nat, NEW w \in Nat, NEW x \in Int, NEW y \in Int
  PROVE  cost - (x + w * n) = (cost + w + y - x) - (y + w * (n + 1))
<1>1. PICK l \in Int : l = w * n
  OBVIOUS
<1>2. w * (n + 1) = l + w
  BY <1>1
<1>3. QED
  BY <1>1, <1>2

LEMMA WalkLiteral ==
  ASSUME start \in Nat, NEW table, NEW q \in Nat, start <= q,
         NEW b \in Arrival, NEW a \in Arrival, OneLiteral(b, a),
         table[q].length = 0, Walk(table, start, q, dali) = Arrived(b, q)
  PROVE  Walk(table, start, q + 1, dali) = Arrived(a, q + 1)
<1>1. Walk(table, start, q + 1, dali) = Arrived(b, q)
  BY WalkStep DEF Onward
<1>2. PICK cost \in Int, n \in Nat : cost = b.cost /\ n = b.num_literals
  BY DEF Arrival
<1>3. PICK w \in Nat, x \in Int, y \in Int :
        w = ByteBits /\ x = RunBits(n) /\ y = RunBits(n + 1)
  BY CostBits, FormatAssumption
<1>4. /\ a.cost = cost + w + y - x /\ a.num_literals = n + 1
      /\ a.rep_offset = b.rep_offset
  BY <1>2, <1>3 DEF OneLiteral
<1>5. cost - (x + w * n) = (cost + w + y - x) - (y + w * (n + 1))
  BY <1>2, <1>3, RunGrows
<1>6. q - n = (q + 1) - (n + 1)
  BY <1>2
<1>7. Arrived(b, q)
        = [next |-> q - n, rep_offset |-> b.rep_offset, size |-> cost - (x + w * n),
           unused |-> {}]
  BY <1>2, <1>3 DEF Arrived
<1>8. Arrived(a, q + 1)
        = [next |-> (q + 1) - (n + 1), rep_offset |-> b.rep_offset,
           size |-> (cost + w + y - x) - (y + w * (n + 1)), unused |-> {}]
  BY <1>3, <1>4 DEF Arrived
<1>9. Arrived(b, q) = Arrived(a, q + 1)
  BY <1>5, <1>6, <1>7, <1>8, Zenon
<1>10. QED
  BY <1>1, <1>9

LEMMA WalkMatch ==
  ASSUME start \in Nat, dali \in BOOLEAN, NEW table, NEW q \in Nat, start <= q,
         NEW b \in Arrival, NEW a \in Arrival, OneMatch(b, a, q),
         table[q] = [length |-> a.match_len, offset |-> a.rep_offset],
         \A x \in q + 1 .. q + a.match_len - 1 : table[x].length = 0,
         Walk(table, start, q, dali) = Arrived(b, q)
  PROVE  Walk(table, start, q + a.match_len, dali) = Arrived(a, q + a.match_len)
<1>1. PICK length \in Nat \ {0}, offset \in Nat \ {0} :
        length = a.match_len /\ offset = a.rep_offset
  <2>1. a.match_len \in Nat \ {0}
    BY ParserAssumption DEF OneMatch
  <2>2. a.rep_offset \in 1 .. q
    BY DEF OneMatch, CorrectMatch
  <2>3. QED
    BY <2>1, <2>2
<1>2. PICK cost \in Int, n \in Nat, last \in Nat :
        cost = b.cost /\ n = b.num_literals /\ last = b.rep_offset
  BY DEF Arrival
<1>3. PICK run \in Int : run = RunBits(n) + ByteBits * n
  BY CostBits, FormatAssumption
<1>4. RunSize(n) = run
  BY <1>2, <1>3, CountedRun
<1> DEFINE walk == [next |-> q - n, rep_offset |-> last, size |-> cost - run, unused |-> {}]
           copy == [length |-> length, offset |-> offset]
           repeated == offset = last /\ n # 0
           bits == IF repeated THEN RepeatSize(length) ELSE OffsetMatchSize(copy, dali)
<1>5. Walk(table, start, q, dali) = walk /\ table[q] = copy
  BY <1>1, <1>2, <1>3 DEF Arrived
<1>6. length >= 2 \/ repeated
  BY <1>1, <1>2 DEF OneMatch
<1>7. a.cost = cost + bits /\ bits \in Int
  <2>1. CASE repeated
    <3>1. a.cost = b.cost + TokenCost + salvador_get_match_varlen_size_rep(length)
      BY <1>1, <1>2, <2>1 DEF OneMatch
    <3>2. RepeatSize(length) = TokenCost + salvador_get_match_varlen_size_rep(length)
      BY CountedRepeat
    <3>3. PICK t \in Int, v \in Int :
            t = TokenCost /\ v = salvador_get_match_varlen_size_rep(length)
      BY CostBits, ParsingAssumption DEF salvador_get_match_varlen_size_rep
    <3>4. cost + t + v = cost + (t + v) /\ t + v \in Int
      BY <3>3
    <3>5. QED
      BY <1>2, <2>1, <3>1, <3>2, <3>3, <3>4
  <2>2. CASE ~repeated
    <3>1. /\ length >= 2
          /\ a.cost = b.cost + OffsetBits(offset) + TokenCost
                      + salvador_get_match_varlen_size_norep(length)
      BY <1>1, <1>2, <2>2 DEF OneMatch
    <3>2. OffsetMatchSize(copy, dali)
            = OffsetBits(offset) + TokenCost + salvador_get_match_varlen_size_norep(length)
      BY <3>1, CountedOffset
    <3>3. PICK o \in Int, t \in Int, v \in Int :
            /\ o = OffsetBits(offset) /\ t = TokenCost
            /\ v = salvador_get_match_varlen_size_norep(length)
      BY CostBits, ParsingAssumption DEF salvador_get_match_varlen_size_norep
    <3>4. cost + o + t + v = cost + (o + t + v) /\ o + t + v \in Int
      BY <3>3
    <3>5. bits = OffsetMatchSize(copy, dali)
      BY <2>2
    <3> HIDE DEF bits, copy, repeated
    <3>6. bits = o + t + v /\ a.cost = cost + o + t + v
      BY <1>2, <3>1, <3>2, <3>3, <3>5
    <3>7. QED
      BY <3>4, <3>6
  <2>3. QED
    BY <2>1, <2>2
<1>8. WalkOn(walk, q, copy, dali)
        = [next |-> q + length, rep_offset |-> offset, size |-> a.cost, unused |-> {}]
  <2>1. /\ walk.next = q - n /\ walk.rep_offset = last /\ walk.size = cost - run
        /\ copy.length = length /\ copy.offset = offset
        /\ q - (q - n) = n /\ n >= 0
    BY <1>2
  <2>2. (cost - run) + run + bits = cost + bits
    BY <1>7
  <2>3. WalkOn(walk, q, copy, dali)
          = [walk EXCEPT !.next = q + length, !.rep_offset = offset,
                         !.size = walk.size + RunSize(n) + bits]
    <3> HIDE DEF walk, copy
    <3>1. QED
      BY <1>6, <2>1 DEF WalkOn
  <2>4. walk.size + RunSize(n) + bits = a.cost
    BY <1>4, <1>7, <2>1, <2>2
  <2> HIDE DEF bits, copy
  <2>5. PICK x, l, y, u : walk = [next |-> x, rep_offset |-> l, size |-> y, unused |-> u]
    OBVIOUS
  <2>6. PICK z, o, c : z = q + length /\ o = offset /\ c = a.cost
    OBVIOUS
  <2>7. walk.unused = {}
    OBVIOUS
  <2> HIDE DEF walk
  <2>8. [walk EXCEPT !.next = z, !.rep_offset = o, !.size = c]
          = [next |-> z, rep_offset |-> o, size |-> c, unused |-> u]
    <3>1. [walk EXCEPT !.next = z] = [next |-> z, rep_offset |-> l, size |-> y, unused |-> u]
      BY <2>5
    <3>2. [[next |-> z, rep_offset |-> l, size |-> y, unused |-> u] EXCEPT !.rep_offset = o]
            = [next |-> z, rep_offset |-> o, size |-> y, unused |-> u]
      OBVIOUS
    <3>3. [[next |-> z, rep_offset |-> o, size |-> y, unused |-> u] EXCEPT !.size = c]
            = [next |-> z, rep_offset |-> o, size |-> c, unused |-> u]
      OBVIOUS
    <3>4. QED
      BY <3>1, <3>2, <3>3
  <2>9. QED
    BY <2>3, <2>4, <2>5, <2>6, <2>8, <2>7
<1>9. Walk(table, start, q + 1, dali) = WalkOn(walk, q, copy, dali)
  <2>1. table[q].length # 0
    BY <1>5
  <2> HIDE DEF walk, copy
  <2>2. QED
    BY <1>5, <2>1, WalkStep DEF Onward
<1>10. Walk(table, start, q + length, dali) = Walk(table, start, q + 1, dali)
  <2>1. /\ q + 1 \in Nat /\ q + length \in Nat /\ start <= q + 1 /\ q + 1 <= q + length
        /\ \A x \in q + 1 .. (q + length) - 1 : table[x].length = 0
    BY <1>1
  <2>2. QED
    BY <2>1, WalkOver
<1>11. Arrived(a, q + length)
         = [next |-> q + length, rep_offset |-> offset, size |-> a.cost, unused |-> {}]
  <2>1. a.num_literals = 0 /\ RunBits(0) = 0 /\ ByteBits * 0 = 0 /\ a.cost \in Int
    BY FormatAssumption
    DEF OneMatch, RunBits, salvador_get_literals_varlen_size, Arrival
  <2>2. (q + length) - 0 = q + length /\ a.cost - (0 + 0) = a.cost
    BY <2>1
  <2>3. QED
    BY <1>1, <2>1, <2>2 DEF Arrived
<1>12. QED
  BY <1>1, <1>8, <1>9, <1>10, <1>11

(* The first arrival is where the walk begins, and at the end it is left *)
(* with the literals that the arrival has counted.                       *)
LEMMA WalkBegins ==
  ASSUME start \in Nat, NEW table
  PROVE  Walk(table, start, start, dali) = Arrived(FirstArrival, start)
<1>1. RunBits(0) = 0 /\ ByteBits * 0 = 0
  BY FormatAssumption DEF RunBits, salvador_get_literals_varlen_size
<1>2. FirstArrival.num_literals = 0 /\ FirstArrival.rep_offset = 1 /\ FirstArrival.cost = 0
  BY DEF FirstArrival
<1>3. start - 0 = start /\ 0 - (0 + 0) = 0
  OBVIOUS
<1>4. Arrived(FirstArrival, start) = StartOfWalk(start)
  BY <1>1, <1>2, <1>3 DEF Arrived, StartOfWalk
<1>5. QED
  BY <1>4, WalkStart

LEMMA WalkEnds ==
  ASSUME NEW table, NEW to \in Nat, NEW a \in Arrival,
         Walk(table, start, to, dali) = Arrived(a, to)
  PROVE  WrittenSize(table, start, to, dali) = a.cost /\ Walk(table, start, to, dali).unused = {}
<1>1. PICK n \in Nat, cost \in Int : n = a.num_literals /\ cost = a.cost
  BY DEF Arrival
<1>2. PICK run \in Int : run = RunBits(n) + ByteBits * n /\ RunSize(n) = run
  <2>1. PICK run \in Int : run = RunBits(n) + ByteBits * n
    BY CostBits, FormatAssumption
  <2>2. RunSize(n) = RunBits(n) + ByteBits * n
    BY CountedRun
  <2>3. QED
    BY <2>1, <2>2
<1>3. Walk(table, start, to, dali)
        = [next |-> to - n, rep_offset |-> a.rep_offset, size |-> cost - run, unused |-> {}]
  BY <1>1, <1>2 DEF Arrived
<1>4. to - (to - n) = n /\ (cost - run) + run = cost
  BY <1>1, <1>2
<1>5. WrittenSize(table, start, to, dali) = (cost - run) + RunSize(to - (to - n))
  BY <1>3 DEF WrittenSize
<1>6. QED
  BY <1>1, <1>2, <1>3, <1>4, <1>5

-----------------------------------------------------------------------------
(***************************************************************************)
(* Arrivals that may be put into the slots of p, and continue the slot at  *)
(* a position the pass is done with.                                       *)
(***************************************************************************)
ExactFrom(p) == {a \in From(p) : Exact(arrival, p, a)}

LEMMA SlotsExact ==
  ASSUME SlotsOK, EdgesOK, stage \in PassStages, NEW p \in start .. end
  PROVE  GoodSlots(ExactFrom(p), arrival[p]) /\ IsRankable(ExactFrom(p))
<1>1. /\ arrival[p] \in Seq(From(p)) /\ Len(arrival[p]) <= nArrivalsPerPosition
      /\ Ranked(arrival[p]) /\ IsRankable(From(p))
  BY SlotsFrom DEF GoodSlots
<1>2. ASSUME NEW k \in 1 .. Len(arrival[p]) PROVE arrival[p][k] \in ExactFrom(p)
  <2>1. arrival[p][k] \in From(p)
    BY <1>1
  <2>2. Exact(arrival, p, arrival[p][k])
    BY DEF EdgesOK
  <2>3. QED
    BY <2>1, <2>2 DEF ExactFrom
<1>3. arrival[p] \in Seq(ExactFrom(p))
  <2>1. Len(arrival[p]) \in Nat /\ arrival[p] = [k \in 1 .. Len(arrival[p]) |-> arrival[p][k]]
    BY <1>1
  <2>2. arrival[p] \in [1 .. Len(arrival[p]) -> ExactFrom(p)]
    BY <1>2, <2>1
  <2>3. QED
    BY <2>1, <2>2
<1>4. IsRankable(ExactFrom(p))
  BY <1>1 DEF IsRankable, ExactFrom
<1>5. QED
  BY <1>1, <1>3, <1>4 DEF GoodSlots

LEMMA EdgesBack ==
  ASSUME IInv, pos \in start .. end, window' = window, start' = start, dali' = dali,
         NEW f, arrival' = [p \in start .. end |-> f[p]],
         \A p \in start .. end : GoodSlots(ExactFrom(p), f[p]),
         \A p \in start .. pos : f[p] = arrival[p]
  PROVE  EdgesOK'
<1>1. end' = end /\ start \in Nat /\ end \in Nat
  BY DEF IInv, WindowOK, end
<1>2. ASSUME NEW p \in start .. end, NEW k \in 1 .. Len(f[p])
      PROVE  Exact(arrival', p, f[p][k])
  <2> DEFINE a == f[p][k]
  <2>1. f[p] \in Seq(ExactFrom(p))
    BY DEF GoodSlots
  <2>2. a \in From(p) /\ Exact(arrival, p, a)
    BY <2>1 DEF ExactFrom
  <2> HIDE DEF a
  <2>3. CASE a.from_slot = 0
    BY <2>2, <2>3 DEF Exact, a
  <2>4. CASE a.from_slot # 0
    <3>1. a.from_pos \in start .. p - 1 /\ a.from_pos <= pos
      BY <2>2, <2>4 DEF From
    <3>2. a.from_pos \in start .. pos /\ a.from_pos \in start .. end
      BY <1>1, <3>1
    <3>3. arrival'[a.from_pos] = arrival[a.from_pos]
      BY <3>2
    <3>4. QED
      BY <2>2, <2>4, <3>3 DEF Exact, a
  <2>5. QED
    BY <2>3, <2>4
<1>3. ASSUME NEW p \in start .. end, NEW k \in 1 .. Len(arrival'[p])
      PROVE  Exact(arrival, p, arrival[p][k])'
  <2>1. arrival'[p] = f[p]
    OBVIOUS
  <2>2. Exact(arrival', p, arrival'[p][k])
    BY <1>2, <2>1
  <2>3. Exact(arrival', p, arrival'[p][k]) = Exact(arrival, p, arrival[p][k])'
    BY DEF Exact, Continues, OneLiteral, OneMatch, OffsetBits
  <2>4. QED
    BY <2>2, <2>3
<1>4. QED
  BY <1>1, <1>3 DEF EdgesOK

(***************************************************************************)
(* A beginning of a match that is tried is correct and within the limits,  *)
(* and so is one of a repetition that is as long as the bytes agree.       *)
(***************************************************************************)
LEMMA ShorterMatch ==
  ASSUME NEW text \in Seq(Byte), NEW p \in Nat, NEW o, NEW l \in Int, NEW h \in Int, h <= l,
         CorrectMatch(text, p, [length |-> l, offset |-> o])
  PROVE  CorrectMatch(text, p, [length |-> h, offset |-> o])
<1>1. Len(text) \in Nat
  OBVIOUS
<1>2. /\ o \in 1 .. p /\ p + l <= Len(text)
      /\ \A k \in 1 .. l : text[p + k] = text[p + k - o]
  BY DEF CorrectMatch, SameBytes
<1>3. \A k \in 1 .. h : k \in 1 .. l
  OBVIOUS
<1>4. p + h <= Len(text)
  BY <1>1, <1>2
<1>5. QED
  BY <1>2, <1>3, <1>4 DEF CorrectMatch, SameBytes

LEMMA ShorterLimited ==
  ASSUME NEW l \in Int, NEW h \in Int, h <= l, Limited(l)
  PROVE  Limited(h) /\ \A n \in Int : h <= n => h <= kc_limit_match_len_local(n)
  BY ParsingAssumption DEF Limited, kc_limit_match_len_local

LEMMA TriedMatch ==
  ASSUME IInv, SInv, LimitsOK, stage = "extend", NEW l \in Nat \ {0}, l <= nMatchLen
  PROVE  /\ l \in 1 .. LCP_MAX /\ Limited(l)
         /\ CorrectMatch(window, pos, [length |-> l, offset |-> nMatchOffset])
<1>1. /\ window \in Seq(Byte) /\ start \in Nat /\ end \in Nat /\ pos \in Nat
      /\ pos \in start .. end - 1 /\ m \in 1 .. Len(match[pos])
      /\ d \in {0, match[pos][m].depth}
  BY DEF IInv, WindowOK, end, TriedOK
<1>2. PICK entry : entry = match[pos][m]
  OBVIOUS
<1>3. match[pos] \in Seq(Entry) /\ DOMAIN match[pos] = 1 .. Len(match[pos])
  BY <1>1 DEF IInv, Lists
<1>4. GoodEntry(window, pos, entry) /\ Limited(entry.length) /\ entry.length \in 1 .. LCP_MAX
  BY <1>1, <1>2, <1>3 DEF IInv, Lists, GoodList, LimitsOK, SInv, SizesOK
<1>5. PICK a \in Nat, b \in Nat, c \in Nat :
        /\ entry.length = a /\ entry.offset = b /\ d = c /\ c \in {0, entry.depth}
  BY <1>1, <1>2, <1>4 DEF GoodEntry, Entry
<1>6. nMatchLen \in Int /\ nMatchLen <= a - c /\ nMatchOffset = b - c
  <2>1. end - pos \in Int
    BY <1>1
  <2>2. entryLength \in {a, end - pos} /\ entryLength <= a
    <3>1. entryLength = Min({a, end - pos})
      BY <1>2, <1>5 DEF entryLength
    <3>2. Min({a, end - pos}) \in {a, end - pos}
      BY <2>1, MinOfTwo
    <3>3. \E x \in {a, end - pos} : \A y \in {a, end - pos} : x <= y
      <4>1. a <= end - pos \/ end - pos <= a
        BY <2>1
      <4>2. QED
        BY <2>1, <4>1
    <3>4. Min({a, end - pos}) <= a
      BY <3>3 DEF Min
    <3>5. QED
      BY <3>1, <3>2, <3>4
  <2>3. QED
    BY <1>2, <1>5, <2>1, <2>2 DEF nMatchLen, nMatchOffset
<1>7. a > c /\ l <= a - c /\ l <= a /\ a - c \in Int
  BY <1>5, <1>6
<1>8. CorrectMatch(window, pos, [length |-> a - c, offset |-> b - c])
  <2>1. entry.length > c
    BY <1>5, <1>7
  <2>2. CorrectMatch(window, pos, [length |-> entry.length - c, offset |-> entry.offset - c])
    BY <1>4, <1>5, <2>1 DEF GoodEntry
  <2>3. QED
    BY <1>5, <2>2
<1>9. CorrectMatch(window, pos, [length |-> l, offset |-> b - c])
  BY <1>1, <1>7, <1>8, ShorterMatch
<1>10. Limited(l)
  BY <1>4, <1>5, <1>7, ShorterLimited
<1>11. l \in 1 .. LCP_MAX
  BY <1>4, <1>5, <1>7, ParserAssumption
<1>12. QED
  BY <1>6, <1>9, <1>10, <1>11

-----------------------------------------------------------------------------
(***************************************************************************)
(* What the pass puts into the slots continues an arrival at pos.          *)
(***************************************************************************)
LEMMA HereExact ==
  ASSUME IInv, SlotsOK, EdgesOK, pos \in start .. end - 1, NEW k \in 1 .. Len(here)
  PROVE  here[k] \in Arrival /\ here[k].rep_offset # 0 /\ here[k] = arrival[pos][k] /\ k # 0
<1>1. pos \in start .. end
  BY DEF IInv, WindowOK, end
<1>2. Exact(arrival, pos, arrival[pos][k])
  BY <1>1 DEF EdgesOK, here
<1>3. QED
  BY <1>2, ComesFromHere DEF Exact, here

LEMMA WithLiteralExact ==
  ASSUME IInv, SlotsOK, EdgesOK, pos \in start .. end - 1, NEW k \in 1 .. Len(here)
  PROVE  WithLiteral(k) \in ExactFrom(pos + 1)
<1>1. WithLiteral(k) \in From(pos + 1)
  BY WithLiteralFrom
<1>2. here[k].rep_offset # 0 /\ here[k] = arrival[pos][k] /\ k # 0
  BY HereExact
<1>3. /\ WithLiteral(k).from_slot = k /\ WithLiteral(k).from_pos = pos
      /\ WithLiteral(k).rep_offset = here[k].rep_offset
      /\ OneLiteral(here[k], WithLiteral(k))
  BY DEF WithLiteral, OneLiteral
<1>4. Continues(arrival[pos][k], WithLiteral(k), pos, pos + 1)
  BY <1>2, <1>3 DEF Continues
<1>5. QED
  BY <1>1, <1>2, <1>3, <1>4 DEF ExactFrom, Exact

LEMMA WithMatchExact ==
  ASSUME IInv, SInv, EdgesOK, LimitsOK, stage = "extend", pos # start,
         NEW p \in pos + 1 .. end, NewMatchFrom # {},
         p - pos \in FirstLength(nMatchLen, 2) .. nMatchLen
  PROVE  WithMatch(Min(NewMatchFrom), p - pos) \in ExactFrom(p)
<1>1. /\ TriedOK /\ pos \in start .. end - 1 /\ m \in 1 .. Len(match[pos])
      /\ start \in Nat /\ end \in Nat /\ pos \in Nat /\ search \in Settings
  BY DEF IInv, TriedOK, WindowOK, end
<1>2. here \in Seq(Arrival)
  BY <1>1 DEF SInv, SlotsOK, here
<1>3. PICK l \in Int : l = p - pos
  BY <1>1
<1>4. nMatchLen \in Int /\ FirstLength(nMatchLen, 2) \in Int /\ FirstLength(nMatchLen, 2) >= 2
  BY <1>1, ExtendLengths
<1>5. l >= 2 /\ l <= nMatchLen /\ l \in Nat \ {0} /\ p = pos + l
  BY <1>1, <1>3, <1>4
<1>6. PICK k : k = Min(NewMatchFrom)
  OBVIOUS
<1>7. k \in NewMatchFrom /\ k \in 1 .. Len(here)
  <2>1. NewMatchFrom \subseteq 1 .. Len(here)
    BY <1>2 DEF NewMatchFrom
  <2>2. NewMatchFrom \in SUBSET Nat
    BY <2>1
  <2>3. QED
    BY <1>6, <2>1, <2>2, MinProperty
<1>8. WithMatch(k, l) \in From(p)
  BY <1>1, <1>2, <1>3, <1>6, WithMatchFrom DEF SInv
<1>9. here[k] = arrival[pos][k] /\ k # 0
  BY <1>1, <1>7, HereExact DEF SInv
<1>10. PICK a : a = WithMatch(k, l)
  OBVIOUS
<1>11. /\ a.from_slot = k /\ a.from_pos = pos /\ a.rep_offset = nMatchOffset
       /\ a.num_literals = 0 /\ a.match_len = l
       /\ a.cost = here[k].cost + OffsetBits(nMatchOffset) + TokenCost
                   + salvador_get_match_varlen_size_norep(l)
  BY <1>10 DEF WithMatch
<1>12. /\ l \in 1 .. LCP_MAX /\ Limited(l)
       /\ CorrectMatch(window, pos, [length |-> l, offset |-> nMatchOffset])
  BY <1>5, TriedMatch
<1>13. here[k].num_literals = 0 \/ nMatchOffset # here[k].rep_offset
  BY <1>7 DEF NewMatchFrom
<1>14. OneMatch(here[k], a, pos)
  BY <1>5, <1>11, <1>12, <1>13 DEF OneMatch
<1>15. a.rep_offset # 0
  BY <1>11, <1>12 DEF CorrectMatch
<1>16. Exact(arrival, p, a)
  BY <1>5, <1>9, <1>11, <1>14, <1>15 DEF Exact, Continues
<1>17. QED
  BY <1>3, <1>6, <1>8, <1>10, <1>16 DEF ExactFrom

LEMMA WithRepeatExact ==
  ASSUME IInv, SInv, EdgesOK, LimitsOK, stage = "extend", pos # start,
         NEW p \in pos + 1 .. end, p - pos \in repeatLengths,
         NEW k \in 1 .. Len(here), k \in Repeating, ~(RepeatLength(k) < p - pos)
  PROVE  WithRepeat(k, p - pos) \in ExactFrom(p)
<1>1. /\ pos \in start .. end - 1 /\ m \in 1 .. Len(match[pos])
      /\ start \in Nat /\ end \in Nat /\ pos \in Nat /\ search \in Settings
      /\ WindowOK /\ window \in Seq(Byte)
  BY DEF IInv, TriedOK, WindowOK, end
<1>2. PICK l \in Nat \ {0} : l = p - pos /\ p = pos + l
  BY <1>1
<1>3. l <= nMatchLen
  BY <1>1, <1>2, ExtendLengths
<1>4. l \in 1 .. LCP_MAX /\ Limited(l)
  BY <1>2, <1>3, TriedMatch
<1>5. WithRepeat(k, l) \in From(p)
  BY <1>1, <1>2, WithRepeatFrom DEF SInv
<1>6. /\ here[k] \in Arrival /\ here[k].rep_offset # 0 /\ here[k] = arrival[pos][k] /\ k # 0
  BY <1>1, HereExact DEF SInv
<1>7. PICK o \in Nat : o = here[k].rep_offset
  BY <1>6 DEF Arrival
<1>8. o \in 1 .. pos /\ here[k].num_literals # 0
  BY <1>1, <1>6, <1>7 DEF Repeating
<1>9. CorrectMatch(window, pos, [length |-> l, offset |-> o])
  <2>1. PICK n : n = Agreeing(pos, o, LCP_MAX)
    OBVIOUS
  <2>2. LCP_MAX \in Nat
    BY ParserAssumption
  <2>3. n \in 0 .. end - pos
    BY <1>1, <2>1, <2>2, AgreeingRange
  <2>4. l <= n
    BY <1>1, <1>2, <1>7, <2>1, <2>3 DEF RepeatLength
  <2>5. PICK h \in Nat : h = kc_limit_match_len_local(n)
    BY <1>1, <1>8, <2>1, <2>2, AgreeingBytes
  <2>6. h > 0 => CorrectMatch(window, pos, [length |-> h, offset |-> o])
    BY <1>1, <1>8, <2>1, <2>2, <2>5, AgreeingBytes
  <2>7. l <= h
    BY <1>2, <1>4, <2>3, <2>4, <2>5, ShorterLimited
  <2>8. QED
    BY <1>1, <1>2, <2>6, <2>7, ShorterMatch
<1>10. PICK a : a = WithRepeat(k, l)
  OBVIOUS
<1>11. /\ a.from_slot = k /\ a.from_pos = pos /\ a.rep_offset = o
       /\ a.num_literals = 0 /\ a.match_len = l
       /\ a.cost = here[k].cost + TokenCost + salvador_get_match_varlen_size_rep(l)
  BY <1>7, <1>10 DEF WithRepeat
<1>12. OneMatch(here[k], a, pos)
  BY <1>4, <1>7, <1>8, <1>9, <1>11 DEF OneMatch
<1>13. Exact(arrival, p, a)
  BY <1>2, <1>6, <1>7, <1>11, <1>12 DEF Exact, Continues
<1>14. QED
  BY <1>2, <1>5, <1>10, <1>13 DEF ExactFrom
-----------------------------------------------------------------------------
(***************************************************************************)
(* The lists keep to the limit: what is appended to them or lengthened has *)
(* been cut to it.                                                         *)
(***************************************************************************)
LEMMA LimitedTwice == ASSUME NEW n PROVE Limited(kc_limit_match_len_local(n))
  BY DEF Limited, kc_limit_match_len_local

LEMMA ChangedLimits ==
  ASSUME IInv, LimitsOK, NEW p \in start .. end - 1, NEW list,
         \A k \in DOMAIN list : Limited(list[k].length),
         match' = [match EXCEPT ![p] = list], window' = window, start' = start
  PROVE  LimitsOK'
<1>1. match \in [start .. end - 1 -> Seq(Entry)] /\ end' = end
  BY DEF IInv, Lists, end
<1>2. ASSUME NEW q \in start .. end - 1, NEW k \in DOMAIN match'[q]
      PROVE  Limited(match'[q][k].length)
  <2>1. CASE q = p
    <3>1. match'[q] = list
      BY <1>1, <2>1
    <3>2. QED
      BY <3>1
  <2>2. CASE q # p
    <3>1. match'[q] = match[q]
      BY <1>1, <2>2
    <3>2. QED
      BY <3>1 DEF LimitsOK
  <2>3. QED
    BY <2>1, <2>2
<1>3. QED
  BY <1>1, <1>2 DEF LimitsOK, Limited

LEMMA SeqOfLength ==
  ASSUME NEW V, NEW n \in Nat, NEW s \in [1 .. n -> V]
  PROVE  s \in Seq(V) /\ Len(s) = n
  OBVIOUS

LEMMA GrownLimits ==
  ASSUME IInv, LimitsOK, NEW p \in start .. end - 1, NEW T, NEW offsets \in Seq(T),
         match' = [match EXCEPT ![p] = @ \o Entries(p, offsets)],
         window' = window, start' = start
  PROVE  LimitsOK'
<1> DEFINE more == Entries(p, offsets)
           V == Entry \cup {more[k] : k \in 1 .. Len(offsets)}
           list == match[p] \o more
<1>1. /\ match \in [start .. end - 1 -> Seq(Entry)] /\ match[p] \in Seq(Entry)
      /\ Len(offsets) \in Nat /\ DOMAIN offsets = 1 .. Len(offsets)
      /\ Len(match[p]) \in Nat /\ DOMAIN match[p] = 1 .. Len(match[p])
  BY DEF IInv, Lists
<1>2. /\ more = [k \in 1 .. Len(offsets) |-> more[k]]
      /\ \A k \in 1 .. Len(offsets) : Limited(more[k].length)
  <2> DEFINE length(k) == kc_limit_match_len_local(
                            Agreeing(p, offsets[k], search.supplement_match_length_limit))
  <2>1. more = [k \in 1 .. Len(offsets) |->
                  [length |-> length(k), offset |-> offsets[k], depth |-> 0]]
    BY <1>1 DEF Entries
  <2>2. \A k : Limited(length(k))
    BY LimitedTwice
  <2> HIDE DEF more, length
  <2>3. ASSUME NEW k \in 1 .. Len(offsets) PROVE Limited(more[k].length)
    <3>1. more[k] = [length |-> length(k), offset |-> offsets[k], depth |-> 0]
      BY <2>1
    <3>2. more[k].length = length(k)
      BY <3>1
    <3>3. QED
      BY <2>2, <3>2
  <2>4. more = [k \in 1 .. Len(offsets) |-> more[k]]
    BY <2>1
  <2>5. QED
    BY <2>3, <2>4
<1>3. match' = [match EXCEPT ![p] = list]
  BY <1>1
<1> HIDE DEF more
<1>4. more \in Seq(V) /\ Len(more) = Len(offsets) /\ match[p] \in Seq(V)
  <2>1. more \in [1 .. Len(offsets) -> V]
    BY <1>2
  <2>2. match[p] \in [1 .. Len(match[p]) -> V]
    BY <1>1
  <2> HIDE DEF V
  <2>3. Len(offsets) \in Nat /\ Len(match[p]) \in Nat
    BY <1>1
  <2>4. more \in Seq(V) /\ Len(more) = Len(offsets)
    BY <2>1, <2>3, SeqOfLength
  <2>5. match[p] \in Seq(V)
    BY <2>2, <2>3, SeqOfLength
  <2>6. QED
    BY <2>4, <2>5
<1> HIDE DEF V
<1>5. /\ list \in Seq(V) /\ Len(list) = Len(match[p]) + Len(more)
      /\ \A j \in 1 .. Len(match[p]) + Len(more) :
           list[j] = IF j <= Len(match[p]) THEN match[p][j] ELSE more[j - Len(match[p])]
  BY <1>4, ConcatElements
<1> HIDE DEF list
<1>6. ASSUME NEW k \in DOMAIN list PROVE Limited(list[k].length)
  <2>1. k \in 1 .. Len(match[p]) + Len(offsets)
    BY <1>4, <1>5
  <2>2. CASE k <= Len(match[p])
    <3>1. k \in DOMAIN match[p] /\ list[k] = match[p][k]
      BY <1>1, <1>4, <1>5, <2>1, <2>2
    <3>2. QED
      BY <3>1 DEF LimitsOK
  <2>3. CASE k > Len(match[p])
    <3>1. k - Len(match[p]) \in 1 .. Len(offsets) /\ list[k] = more[k - Len(match[p])]
      BY <1>1, <1>4, <1>5, <2>1, <2>3
    <3>2. QED
      BY <1>2, <3>1
  <2>4. QED
    BY <1>1, <2>1, <2>2, <2>3
<1>7. QED
  BY <1>3, <1>6, ChangedLimits

LEMMA SupplementLimits ==
  ASSUME IInv, SInv, LimitsOK, Supplement \/ Further
  PROVE  LimitsOK'
<1>1. /\ window' = window /\ start' = start /\ pos < end - 1
      /\ stage \in {"supplement", "further"}
  BY DEF Supplement, Further
<1>2. pos \in start .. end - 1
  BY <1>1 DEF IInv, PlaceOK, WindowOK, end
<1>3. /\ WindowOK /\ Len(match[pos]) \in Nat /\ MaxMatches \in Nat
      /\ search.forward_insert_limit \in Nat
      /\ search.initial_supplement_matches \in Int
  BY <1>2, ParserAssumption DEF IInv, Lists
<1>4. \E T : \E offsets \in Seq(T) :
        match' = [match EXCEPT ![pos] = @ \o Entries(pos, offsets)]
  <2>1. CASE Supplement
    <3> DEFINE S == {o \in SamePairs(pos) : ~Listed(match[pos], o)}
               count == search.initial_supplement_matches - Len(match[pos])
    <3>1. match' = [match EXCEPT ![pos] = @ \o Entries(pos, Nearest(S, count))]
      BY <2>1 DEF Supplement, Supplements
    <3>2. S \in SUBSET SamePairs(pos) /\ count \in Int
      BY <1>3
    <3> HIDE DEF S, count
    <3>3. Nearest(S, count) \in Seq(S)
      BY <1>2, <1>3, <3>2, NearestPairs
    <3>4. QED
      BY <3>1, <3>3
  <2>2. CASE Further
    <3> DEFINE isShort == ~(match[pos] # <<>>
                              /\ match[pos][1].length >= search.supplement_trigger_length)
               count == Min({search.forward_insert_limit, MaxMatches - Len(match[pos])})
               S == {o \in SamePairs(pos) : ~Listed(match[pos], o) /\ AgreesLater(pos, o)}
               offsets == IF isShort THEN FurtherOffsets(pos) ELSE <<>>
    <3>1. match' = [match EXCEPT ![pos] = @ \o Entries(pos, offsets)]
      BY <2>2 DEF Further
    <3>2. count \in Int
      <4>1. MaxMatches - Len(match[pos]) \in Int
        BY <1>3
      <4>2. QED
        BY <1>3, <4>1, MinOfTwo
    <3>3. S \in SUBSET SamePairs(pos) /\ FurtherOffsets(pos) = Nearest(S, count)
      BY DEF FurtherOffsets
    <3> HIDE DEF S, count
    <3>4. FurtherOffsets(pos) \in Seq(S)
      BY <1>2, <1>3, <3>2, <3>3, NearestPairs
    <3>5. offsets \in Seq(S)
      BY <3>4
    <3> HIDE DEF offsets
    <3>6. QED
      BY <3>1, <3>5
  <2>3. QED
    BY <2>1, <2>2
<1>5. PICK T : \E offsets \in Seq(T) :
        match' = [match EXCEPT ![pos] = @ \o Entries(pos, offsets)]
  BY <1>4
<1>6. QED
  BY <1>1, <1>2, <1>5, GrownLimits

LEMMA VisitLimits == ASSUME IInv, SInv, LimitsOK, Visit PROVE LimitsOK'
<1> DEFINE p      == arrival[call.at][call.slot].rep_pos
           length == kc_limit_match_len_local(Agreeing(p, call.offset, LCP_MAX))
           entry  == {k \in DOMAIN match[p] : match[p][k].offset = call.offset}
           added  == [length |-> length, offset |-> call.offset, depth |-> 0]
<1>1. window' = window /\ start' = start /\ p \in start .. end - 1
  BY DEF Visit, CanVisit
<1>2. match \in [start .. end - 1 -> Seq(Entry)] /\ match[p] \in Seq(Entry)
  BY <1>1 DEF IInv, Lists
<1>3. IF CanRepeat(p) /\ entry = {}
      THEN match' = [match EXCEPT ![p] = Append(match[p], added)]
      ELSE match' = [match EXCEPT ![p] = [k \in DOMAIN match[p] |->
                IF /\ CanRepeat(p) /\ k = Min(entry)
                   /\ match[p][k].depth = 0 /\ match[p][k].length < length
                THEN [match[p][k] EXCEPT !.length = length] ELSE match[p][k]]]
  BY <1>2 DEF Visit
<1>4. Limited(length) /\ Limited(added.length)
  BY LimitedTwice
<1>5. \A k \in DOMAIN match[p] : Limited(match[p][k].length)
  BY <1>1 DEF LimitsOK
<1> HIDE DEF p, length
<1>6. PICK list : /\ match' = [match EXCEPT ![p] = list]
                  /\ \A k \in DOMAIN list : Limited(list[k].length)
  <2>1. CASE CanRepeat(p) /\ entry = {}
    <3> DEFINE list == Append(match[p], added)
    <3> HIDE DEF added
    <3>1. /\ DOMAIN list = 1 .. Len(match[p]) + 1
          /\ Len(match[p]) \in Nat /\ DOMAIN match[p] = 1 .. Len(match[p])
          /\ \A k \in 1 .. Len(match[p]) + 1 :
               list[k] = IF k <= Len(match[p]) THEN match[p][k] ELSE added
      BY <1>2
    <3> HIDE DEF list
    <3>2. \A k \in DOMAIN list : Limited(list[k].length)
      BY <1>4, <1>5, <3>1
    <3>3. match' = [match EXCEPT ![p] = list]
      BY <1>3, <2>1 DEF list
    <3>4. QED
      BY <3>2, <3>3
  <2>2. CASE ~(CanRepeat(p) /\ entry = {})
    <3> DEFINE longer(k) == /\ CanRepeat(p) /\ k = Min(entry)
                            /\ match[p][k].depth = 0 /\ match[p][k].length < length
               list == [k \in DOMAIN match[p] |->
                          IF longer(k) THEN [match[p][k] EXCEPT !.length = length]
                          ELSE match[p][k]]
    <3>1. match' = [match EXCEPT ![p] = list]
      BY <1>3, <2>2
    <3> HIDE DEF longer
    <3>2. ASSUME NEW k \in DOMAIN match[p] PROVE Limited(list[k].length)
      <4>1. match[p][k] \in Entry
        BY <1>2
      <4>2. CASE longer(k)
        <5>1. list[k] = [match[p][k] EXCEPT !.length = length]
          BY <4>2
        <5>2. list[k].length = length
          BY <4>1, <5>1 DEF Entry
        <5>3. QED
          BY <1>4, <5>2
      <4>3. CASE ~longer(k)
        BY <1>5, <4>3
      <4>4. QED
        BY <4>2, <4>3
    <3>3. DOMAIN list = DOMAIN match[p]
      OBVIOUS
    <3> HIDE DEF list
    <3>4. QED
      BY <3>1, <3>2, <3>3
  <2>3. QED
    BY <2>1, <2>2
<1>7. QED
  BY <1>1, <1>6, ChangedLimits

(***************************************************************************)
(* One lemma per step that puts arrivals into slots: those it puts in      *)
(* continue arrivals of pos, and those are not replaced while any other    *)
(* arrival names them.                                                     *)
(***************************************************************************)
LEMMA ArriveEdges == ASSUME IInv, SInv, EdgesOK, Arrive PROVE EdgesOK'
<1>1. /\ window' = window /\ start' = start /\ dali' = dali /\ stage = "arrive" /\ pos < end
      /\ arrival' = [arrival EXCEPT ![pos + 1] = WithLiterals]
  BY DEF Arrive
<1>2. /\ pos \in start .. end - 1 /\ start \in Nat /\ end \in Nat /\ pos \in start .. end
      /\ pos + 1 \in start .. end /\ pos \in Nat
  BY <1>1 DEF IInv, PlaceOK, WindowOK, end
<1>3. Len(here) \in Nat \ {0}
  <2>1. here \in Seq(Arrival) /\ here # <<>>
    BY <1>1, <1>2 DEF SInv, SlotsOK, StageOK, PassStages, here
  <2>2. QED
    BY <2>1
<1>4. stage \in PassStages /\ SlotsOK
  BY <1>1 DEF PassStages, SInv
<1>5. GoodSlots(ExactFrom(pos + 1), WithLiterals)
  <2>1. GoodSlots(ExactFrom(pos + 1), arrival[pos + 1]) /\ IsRankable(ExactFrom(pos + 1))
    BY <1>2, <1>4, SlotsExact
  <2>2. \A k \in 1 .. Len(here) : WithLiteral(k) \in ExactFrom(pos + 1)
    BY <1>2, <1>4, WithLiteralExact
  <2>3. search \in Settings
    BY DEF IInv
  <2>4. QED
    BY <1>3, <2>1, <2>2, <2>3, WithLiteralsGood
<1> DEFINE f == [p \in start .. end |-> IF p = pos + 1 THEN WithLiterals ELSE arrival[p]]
<1>6. arrival' = f
  BY <1>1 DEF SInv, SlotsOK
<1>7. ASSUME NEW p \in start .. end PROVE GoodSlots(ExactFrom(p), f[p])
  <2>1. GoodSlots(ExactFrom(p), arrival[p])
    BY <1>4, SlotsExact
  <2>2. QED
    BY <1>5, <2>1
<1>8. ASSUME NEW p \in start .. pos PROVE f[p] = arrival[p]
  BY <1>2
<1>9. arrival' = [p \in start .. end |-> f[p]]
  BY <1>6
<1> HIDE DEF f
<1>10. QED
  BY <1>1, <1>2, <1>7, <1>8, <1>9, EdgesBack

LEMMA ExtendEdges ==
  ASSUME IInv, SInv, EdgesOK, LimitsOK, pos # start, Extend
  PROVE  EdgesOK'
<1> DEFINE slots(p) == MatchSlots(arrival[p], p - pos)
           f == [p \in start .. end |->
                   IF p - pos \in repeatLengths THEN RepeatSlots(slots(p), p - pos)
                   ELSE slots(p)]
<1>1. window' = window /\ start' = start /\ dali' = dali /\ stage = "extend"
  BY DEF Extend
<1>2. arrival' = f
  BY DEF Extend, SInv, SlotsOK
<1>3. pos \in start .. end - 1 /\ m \in 1 .. Len(match[pos]) /\ search \in Settings
  BY <1>1 DEF IInv, TriedOK
<1>4. /\ start \in Nat /\ end \in Nat /\ pos \in start .. end /\ pos \in Nat
  BY <1>3 DEF IInv, WindowOK, end
<1>5. /\ nMatchLen \in Int
      /\ FirstLength(nMatchLen, 2) \in Int /\ FirstLength(nMatchLen, 2) >= 2
      /\ repeatLengths \subseteq 1 .. end
  BY <1>3, ExtendLengths
<1>6. Len(here) \in Nat \ {0}
  <2>1. here \in Seq(Arrival) /\ here # <<>>
    BY <1>1, <1>4 DEF SInv, SlotsOK, StageOK, PassStages, here
  <2>2. QED
    BY <2>1
<1>7. stage \in PassStages /\ SlotsOK
  BY <1>1 DEF PassStages, SInv
<1>8. ASSUME NEW p \in pos + 1 .. end PROVE GoodSlots(ExactFrom(p), f[p])
  <2>1. p \in start .. end
    BY <1>4
  <2>2. GoodSlots(ExactFrom(p), arrival[p]) /\ IsRankable(ExactFrom(p))
    BY <1>7, <2>1, SlotsExact
  <2>3. p - pos \in FirstLength(nMatchLen, 2) .. nMatchLen /\ NewMatchFrom # {}
          => WithMatch(Min(NewMatchFrom), p - pos) \in ExactFrom(p)
    BY <1>1, WithMatchExact
  <2>4. GoodSlots(ExactFrom(p), slots(p))
    BY <1>3, <2>2, <2>3, MatchSlotsGood
  <2>5. f[p] = IF p - pos \in repeatLengths THEN RepeatSlots(slots(p), p - pos) ELSE slots(p)
    BY <2>1
  <2> HIDE DEF slots, f
  <2>6. CASE p - pos \in repeatLengths
    <3>1. ASSUME NEW k \in 1 .. Len(here), k \in Repeating /\ ~(RepeatLength(k) < p - pos)
          PROVE  WithRepeat(k, p - pos) \in ExactFrom(p)
      BY <1>1, <2>6, <3>1, WithRepeatExact
    <3>2. GoodSlots(ExactFrom(p), RepeatSlots(slots(p), p - pos))
      BY <1>3, <1>6, <2>2, <2>4, <3>1, RepeatSlotsGood
    <3>3. QED
      BY <2>5, <2>6, <3>2
  <2>7. CASE p - pos \notin repeatLengths
    BY <2>4, <2>5, <2>7
  <2>8. QED
    BY <2>6, <2>7
<1>9. ASSUME NEW p \in start .. pos PROVE f[p] = arrival[p]
  <2>1. p \in start .. end /\ p - pos \in Int /\ p - pos <= 0
    BY <1>4
  <2>2. p - pos \notin repeatLengths
    BY <1>5, <2>1
  <2>3. ~(p - pos \in FirstLength(nMatchLen, 2) .. nMatchLen)
    BY <1>5, <2>1
  <2>4. slots(p) = arrival[p]
    BY <2>3 DEF MatchSlots
  <2> HIDE DEF slots
  <2>5. QED
    BY <2>1, <2>2, <2>4
<1> HIDE DEF slots
<1>10. ASSUME NEW p \in start .. end PROVE GoodSlots(ExactFrom(p), f[p])
  <2> HIDE DEF f
  <2>1. CASE p \in start .. pos
    <3>1. GoodSlots(ExactFrom(p), arrival[p])
      BY <1>7, SlotsExact
    <3>2. QED
      BY <1>9, <2>1, <3>1
  <2>2. CASE p \in pos + 1 .. end
    BY <1>8, <2>2
  <2>3. QED
    BY <1>4, <2>1, <2>2
<1>11. arrival' = [p \in start .. end |-> f[p]]
  BY <1>2
<1> HIDE DEF f
<1>12. QED
  BY <1>1, <1>4, <1>9, <1>10, <1>11, EdgesBack

(* A pass begins with the first arrival. *)
LEMMA StartEdges ==
  ASSUME IInv, NEW is_second \in BOOLEAN, StartPass(is_second),
         window' = window, start' = start
  PROVE  EdgesOK'
<1>1. /\ arrival' = [[p \in start .. end |-> <<>>] EXCEPT ![start] = <<FirstArrival>>]
      /\ end' = end /\ start \in start .. end
  BY DEF StartPass, NoArrivals, IInv, WindowOK, end
<1>2. FirstArrival.from_slot = 0 /\ FirstArrival.rep_offset = 1
  BY DEF FirstArrival
<1>3. ASSUME NEW p \in start .. end, NEW k \in 1 .. Len(arrival'[p])
      PROVE  p = start /\ arrival'[p][k] = FirstArrival
  <2>1. CASE p = start
    <3>1. arrival'[p] = <<FirstArrival>>
      BY <1>1, <2>1
    <3> HIDE DEF FirstArrival
    <3>2. QED
      BY <2>1, <3>1
  <2>2. CASE p # start
    <3>1. arrival'[p] = <<>>
      BY <1>1, <2>2
    <3>2. QED
      BY <3>1
  <2>3. QED
    BY <2>1, <2>2
<1>4. ASSUME NEW p \in start .. end, NEW k \in 1 .. Len(arrival'[p])
      PROVE  Exact(arrival, p, arrival[p][k])'
  <2>1. arrival'[p][k] = FirstArrival /\ p = start
    BY <1>3
  <2>2. QED
    BY <1>2, <2>1 DEF Exact, FirstArrival
<1>5. QED
  BY <1>1, <1>4 DEF EdgesOK

LEMMA QuietEdges ==
  ASSUME EdgesOK, arrival' = arrival, window' = window, start' = start, dali' = dali
  PROVE  EdgesOK'
<1>1. end' = end
  BY DEF end
<1>2. ASSUME NEW p, NEW k, Exact(arrival, p, arrival[p][k])
      PROVE  Exact(arrival, p, arrival[p][k])'
  BY <1>2 DEF Exact, Continues, OneLiteral, OneMatch, OffsetBits, FirstArrival
<1>3. QED
  BY <1>1, <1>2 DEF EdgesOK
-----------------------------------------------------------------------------
(***************************************************************************)
(* The invariant of the costs: no match begins at the first position.      *)
(***************************************************************************)
EInv ==
  /\ dali \in BOOLEAN /\ LimitsOK /\ EdgesOK
  /\ stage \in {"insert", "extend"} => pos # start

LEMMA MovedEdges ==
  ASSUME IInv, SInv, EInv,
         \/ Pass \/ Insert \/ NextPosition \/ EndFirstPass \/ Trace \/ TraceBack
         \/ UNCHANGED parserVars
  PROVE  EInv'
<1>1. /\ window' = window /\ start' = start /\ dali' = dali /\ arrival' = arrival
      /\ match' = match
      /\ stage' \in {"insert", "extend"} =>
           stage \in {"insert", "extend"} /\ pos' = pos
  BY DEF Pass, Insert, NextPosition, EndFirstPass, Trace, TraceBack, parserVars, tables
<1>2. LimitsOK'
  BY <1>1 DEF EInv, LimitsOK, Limited, end
<1>3. EdgesOK'
  BY <1>1, QuietEdges DEF EInv
<1>4. QED
  BY <1>1, <1>2, <1>3 DEF EInv

LEMMA EdgesStep ==
  ASSUME IInv, SInv, EInv, [Parse]_parserVars
  PROVE  EInv'
<1>1. CASE Supplement \/ Further
  <2>1. /\ window' = window /\ start' = start /\ dali' = dali /\ arrival' = arrival
        /\ stage' = stage /\ stage \notin {"insert", "extend"}
    BY <1>1 DEF Supplement, Further
  <2>2. LimitsOK'
    BY <1>1, SupplementLimits DEF EInv
  <2>3. EdgesOK'
    BY <2>1, QuietEdges DEF EInv
  <2>4. QED
    BY <2>1, <2>2, <2>3 DEF EInv
<1>2. CASE Visit
  <2>1. /\ window' = window /\ start' = start /\ dali' = dali /\ arrival' = arrival
        /\ stage' = stage /\ pos' = pos
    BY <1>2 DEF Visit
  <2>2. LimitsOK'
    BY <1>2, VisitLimits DEF EInv
  <2>3. EdgesOK'
    BY <2>1, QuietEdges DEF EInv
  <2>4. QED
    BY <2>1, <2>2, <2>3 DEF EInv
<1>3. CASE FirstPass \/ SecondPass
  <2>1. /\ window' = window /\ start' = start /\ dali' = dali /\ match' = match
        /\ \E b \in BOOLEAN : StartPass(b)
    BY <1>3 DEF FirstPass, SecondPass
  <2>2. stage' = "arrive"
    BY <2>1 DEF StartPass
  <2>3. LimitsOK'
    BY <2>1 DEF EInv, LimitsOK, Limited, end
  <2>4. EdgesOK'
    BY <2>1, StartEdges
  <2>5. QED
    BY <2>1, <2>2, <2>3, <2>4 DEF EInv
<1>4. CASE Arrive
  <2>1. /\ window' = window /\ start' = start /\ dali' = dali /\ match' = match
        /\ pos' = pos /\ (pos = start => stage' = "next")
    BY <1>4 DEF Arrive
  <2>2. LimitsOK'
    BY <2>1 DEF EInv, LimitsOK, Limited, end
  <2>3. EdgesOK'
    BY <1>4, ArriveEdges DEF EInv
  <2>4. QED
    BY <2>1, <2>2, <2>3 DEF EInv
<1>5. CASE Extend
  <2>1. /\ window' = window /\ start' = start /\ dali' = dali /\ match' = match
        /\ pos' = pos /\ stage = "extend"
    BY <1>5 DEF Extend
  <2>2. LimitsOK'
    BY <2>1 DEF EInv, LimitsOK, Limited, end
  <2>3. EdgesOK'
    BY <1>5, <2>1, ExtendEdges DEF EInv
  <2>4. QED
    BY <2>1, <2>2, <2>3 DEF EInv
<1>6. CASE \/ Pass \/ Insert \/ NextPosition \/ EndFirstPass \/ Trace \/ TraceBack
           \/ UNCHANGED parserVars
  BY <1>6, MovedEdges
<1>7. QED
  BY <1>1, <1>2, <1>3, <1>4, <1>5, <1>6 DEF Parse

(***************************************************************************)
(* In every behaviour of the parser each arrival in use continues the one  *)
(* that it names, at what its command costs.                               *)
(***************************************************************************)
THEOREM EdgesInvariant == ParserSpec => []EInv
<1>1. HandedOver /\ Ready => EInv
  <2> SUFFICES ASSUME HandedOver, Ready PROVE EInv
    OBVIOUS
  <2>1. arrival = [p \in start .. end |-> <<>>] /\ dali \in BOOLEAN /\ stage = "supplement"
    BY DEF Ready, NoArrivals
  <2>2. EdgesOK
    <3>1. ASSUME NEW p \in start .. end, NEW k \in 1 .. Len(arrival[p]) PROVE FALSE
      BY <2>1
    <3>2. QED
      BY <3>1 DEF EdgesOK
  <2>3. QED
    BY <2>1, <2>2 DEF EInv, HandedOver
<1>2. IInv /\ SInv /\ EInv /\ [Parse]_parserVars => EInv'
  BY EdgesStep
<1>3. QED
  BY <1>1, <1>2, ListsInvariant, SlotsInvariant, PTL DEF ParserSpec
-----------------------------------------------------------------------------
(***************************************************************************)
(* The trace.  At position p, on an arrival a, the table is empty up to p, *)
(* its matches are correct and within the limits, none begins in another,  *)
(* none of a single byte follows another; and with any commands in front   *)
(* of p that take the writer's walk to a, it takes the cheapest arrival's  *)
(* cost to write.                                                          *)
(***************************************************************************)
Tables == [start .. end - 1 -> [length : 0 .. MAX_VARLEN, offset : Nat]]

BlankTo(table, p) == \A x \in start .. end - 1 : x < p => table[x] = NoMatch

AllMatch(table) ==
  \A x \in start .. end - 1 : table[x].length # 0 =>
    x # start /\ Limited(table[x].length) /\ CorrectMatch(window, x, table[x])

NoneNested(table) ==
  \A x \in start .. end - 1 :
    \A y \in x + 1 .. x + table[x].length - 1 : table[y].length = 0

SinglesBehind(table, a, p) ==
  \A x \in start .. end - 1 : table[x].length = 1 =>
    /\ x = p => a.num_literals # 0
    /\ \A y \in start .. x - 1 : y + table[y].length # x

CostsAsCheapest(table, a, p) ==
  \A t : /\ \A x \in p .. end - 1 : t[x] = table[x]
         /\ Walk(t, start, p, dali) = Arrived(a, p)
    => /\ WrittenSize(t, start, end, dali) = arrival[end][1].cost
       /\ Walk(t, start, end, dali).unused = {}

Rest(table, a, p) ==
  /\ table \in Tables /\ BlankTo(table, p)
  /\ AllMatch(table) /\ NoneNested(table) /\ SinglesBehind(table, a, p)
  /\ CostsAsCheapest(table, a, p)

LEMMA VarlenNat == MAX_VARLEN \in Nat
<1>1. ByteValues \in Nat \ {0}
  BY FormatAssumption
<1>2. \A x \in Nat \ {0} : x * x - 1 \in Nat
  OBVIOUS
<1>3. QED
  BY <1>1, <1>2 DEF MAX_VARLEN

(* Where the trace begins. *)
LEMMA RestAtEnd ==
  ASSUME WindowOK, NEW table, table = [x \in start .. end - 1 |-> NoMatch],
         arrival[end][1] \in Arrival
  PROVE  Rest(table, arrival[end][1], end)
<1>1. start \in Nat /\ end \in Nat
  BY DEF WindowOK, end
<1>2. \A x \in start .. end - 1 : table[x] = NoMatch /\ table[x].length = 0
  BY DEF NoMatch
<1>3. table \in Tables
  <2>1. MAX_VARLEN \in Nat
    BY VarlenNat
  <2>2. NoMatch \in [length : 0 .. MAX_VARLEN, offset : Nat]
    BY <2>1 DEF NoMatch
  <2>3. QED
    BY <2>2 DEF Tables
<1>4. BlankTo(table, end) /\ AllMatch(table) /\ SinglesBehind(table, arrival[end][1], end)
  BY <1>2 DEF BlankTo, AllMatch, SinglesBehind
<1>5. NoneNested(table)
  <2>1. ASSUME NEW x \in start .. end - 1, NEW y \in x + 1 .. x + table[x].length - 1
        PROVE  FALSE
    <3>1. table[x].length = 0 /\ x \in Nat
      BY <1>1, <1>2
    <3>2. QED
      BY <3>1
  <2>2. QED
    BY <2>1 DEF NoneNested
<1>6. CostsAsCheapest(table, arrival[end][1], end)
  BY <1>1, WalkEnds DEF CostsAsCheapest
<1>7. QED
  BY <1>3, <1>4, <1>5, <1>6 DEF Rest

(* One command back: a literal leaves the table as it is. *)
LEMMA RestLiteral ==
  ASSUME WindowOK, NEW table, NEW q \in start .. end - 1,
         NEW b \in Arrival, NEW a \in Arrival, OneLiteral(b, a), Rest(table, a, q + 1)
  PROVE  Rest(table, b, q)
<1>1. start \in Nat /\ end \in Nat /\ q \in Nat /\ start <= q /\ q \in start .. end - 1
  BY DEF WindowOK, end
<1>2. table[q] = NoMatch /\ table[q].length = 0
  BY <1>1 DEF Rest, BlankTo, NoMatch
<1>3. BlankTo(table, q)
  <2>1. \A x \in start .. end - 1 : x < q => x < q + 1
    BY <1>1
  <2>2. QED
    BY <2>1 DEF Rest, BlankTo
<1>4. SinglesBehind(table, b, q)
  BY <1>2 DEF Rest, SinglesBehind
<1>5. CostsAsCheapest(table, b, q)
  <2> SUFFICES ASSUME NEW t, \A x \in q .. end - 1 : t[x] = table[x],
                      Walk(t, start, q, dali) = Arrived(b, q)
               PROVE  /\ WrittenSize(t, start, end, dali) = arrival[end][1].cost
                      /\ Walk(t, start, end, dali).unused = {}
    BY DEF CostsAsCheapest
  <2>1. t[q] = table[q] /\ \A x \in q + 1 .. end - 1 : t[x] = table[x]
    BY <1>1
  <2>2. t[q].length = 0
    BY <1>2, <2>1
  <2>3. Walk(t, start, q + 1, dali) = Arrived(a, q + 1)
    BY <1>1, <2>2, WalkLiteral
  <2>4. QED
    BY <2>1, <2>3 DEF Rest, CostsAsCheapest
<1>6. QED
  BY <1>3, <1>4, <1>5 DEF Rest

(* A match is written where it begins. *)
LEMMA RestMatch ==
  ASSUME WindowOK, dali \in BOOLEAN, NEW table, NEW q \in start .. end - 1,
         NEW b \in Arrival, NEW a \in Arrival, OneMatch(b, a, q),
         q + a.match_len <= end, Rest(table, a, q + a.match_len),
         NEW r, r = [table EXCEPT ![q] = [length |-> a.match_len, offset |-> a.rep_offset]]
  PROVE  Rest(r, b, q)
<1>1. start \in Nat /\ end \in Nat /\ q \in Nat /\ start <= q /\ q <= end - 1
  BY DEF WindowOK, end
<1>2. PICK l \in Nat \ {0}, o \in Nat :
        l = a.match_len /\ o = a.rep_offset /\ l <= MAX_VARLEN
  <2>1. a.match_len \in 1 .. LCP_MAX /\ a.rep_offset \in Nat
    BY DEF OneMatch, Arrival
  <2>2. LCP_MAX \in 1 .. MAX_VARLEN
    BY ParserAssumption
  <2>3. QED
    BY <2>1, <2>2, VarlenNat
<1>3. PICK copy : copy = [length |-> l, offset |-> o]
  OBVIOUS
<1>4. copy.length = l /\ copy.offset = o
  BY <1>3
<1>5. table \in Tables /\ q + l <= end
  BY <1>2 DEF Rest
<1>6. /\ r[q] = copy
      /\ \A x \in start .. end - 1 : x # q => r[x] = table[x]
  BY <1>2, <1>3, <1>5 DEF Tables
<1>7. ASSUME NEW x \in start .. end - 1, x < q + l, x # q
      PROVE  r[x] = NoMatch /\ r[x].length = 0
  <2>1. table[x] = NoMatch
    BY <1>2, <1>7 DEF Rest, BlankTo
  <2>2. QED
    BY <1>6, <1>7, <2>1 DEF NoMatch
<1>8. r \in Tables
  <2>1. copy \in [length : 0 .. MAX_VARLEN, offset : Nat]
    BY <1>2, <1>3
  <2>2. r = [table EXCEPT ![q] = copy]
    BY <1>2, <1>3
  <2>3. QED
    BY <1>5, <2>1, <2>2 DEF Tables
<1>9. BlankTo(r, q)
  <2>1. \A x \in start .. end - 1 : x < q => x < q + l /\ x # q
    BY <1>1
  <2>2. QED
    BY <1>7, <2>1 DEF BlankTo
<1>10. AllMatch(r)
  <2>1. ASSUME NEW x \in start .. end - 1, r[x].length # 0
        PROVE  x # start /\ Limited(r[x].length) /\ CorrectMatch(window, x, r[x])
    <3>1. CASE x = q
      BY <1>2, <1>3, <1>4, <1>6, <3>1 DEF OneMatch
    <3>2. CASE x # q
      <4>1. r[x] = table[x]
        BY <1>6, <3>2
      <4>2. QED
        BY <2>1, <4>1 DEF Rest, AllMatch
    <3>3. QED
      BY <3>1, <3>2
  <2>2. QED
    BY <2>1 DEF AllMatch
<1>11. NoneNested(r)
  <2>1. ASSUME NEW x \in start .. end - 1, NEW y \in x + 1 .. x + r[x].length - 1
        PROVE  r[y].length = 0
    <3>1. CASE x = q
      <4>1. y \in q + 1 .. q + l - 1
        BY <1>4, <1>6, <3>1
      <4>2. y \in start .. end - 1 /\ y < q + l /\ y # q
        BY <1>1, <1>5, <4>1
      <4>3. QED
        BY <1>7, <4>2
    <3>2. CASE x # q
      <4>1. r[x] = table[x]
        BY <1>6, <3>2
      <4>2. table[y].length = 0
        BY <4>1 DEF Rest, NoneNested
      <4>3. x >= q
        <5>1. CASE x < q
          <6>1. r[x].length = 0
            BY <1>1, <1>7, <5>1
          <6>2. QED
            BY <1>1, <6>1
        <5>2. QED
          BY <1>1, <5>1
      <4>4. y # q
        BY <1>1, <4>3
      <4>5. table[x].length \in Nat /\ table[x].length # 0
        <5>1. table[x] \in [length : 0 .. MAX_VARLEN, offset : Nat]
          BY <1>5 DEF Tables
        <5>2. table[x].length \in Nat
          BY <5>1
        <5>3. x + 1 <= x + r[x].length - 1
          BY <1>1, <4>1, <5>2
        <5>4. QED
          BY <1>1, <4>1, <5>2, <5>3
      <4>6. CorrectMatch(window, x, table[x])
        BY <4>5 DEF Rest, AllMatch
      <4>7. y \in start .. end - 1
        <5>1. x + table[x].length <= end
          BY <4>6 DEF CorrectMatch, end
        <5>2. PICK n \in Nat : n = table[x].length
          BY <4>5
        <5>3. y \in x + 1 .. x + n - 1 /\ x + n <= end
          BY <4>1, <5>1, <5>2
        <5>4. QED
          BY <1>1, <5>3
      <4>8. r[y] = table[y]
        BY <1>6, <4>4, <4>7
      <4>9. QED
        BY <4>2, <4>8
    <3>3. QED
      BY <3>1, <3>2
  <2>2. QED
    BY <2>1 DEF NoneNested
<1>12. SinglesBehind(r, b, q)
  <2>1. ASSUME NEW x \in start .. end - 1, r[x].length = 1, x = q
        PROVE  b.num_literals # 0
    <3>1. l = 1
      BY <1>4, <1>6, <2>1
    <3>2. ~(a.match_len >= 2)
      BY <1>2, <3>1
    <3>3. QED
      BY <3>2 DEF OneMatch
  <2>2. ASSUME NEW x \in start .. end - 1, r[x].length = 1, NEW y \in start .. x - 1
        PROVE  y + r[y].length # x
    <3>1. y \in start .. end - 1 /\ y < x /\ y \in Nat
      BY <1>1
    <3>2. CASE x = q
      <4>1. y < q + l /\ y # q
        BY <1>1, <3>1, <3>2
      <4>2. r[y].length = 0
        BY <1>7, <3>1, <4>1
      <4>3. QED
        BY <3>1, <4>2
    <3>3. CASE x # q
      <4>1. r[x] = table[x] /\ table[x].length = 1
        BY <1>6, <2>2, <3>3
      <4>2. /\ x = q + l => a.num_literals # 0
            /\ y + table[y].length # x
        BY <1>2, <4>1 DEF Rest, SinglesBehind
      <4>3. a.num_literals = 0
        BY DEF OneMatch
      <4>4. CASE y = q
        BY <1>4, <1>6, <4>2, <4>3, <4>4
      <4>5. CASE y # q
        <5>1. r[y] = table[y]
          BY <1>6, <3>1, <4>5
        <5>2. QED
          BY <4>2, <5>1
      <4>6. QED
        BY <4>4, <4>5
    <3>4. QED
      BY <3>2, <3>3
  <2>3. QED
    BY <2>1, <2>2 DEF SinglesBehind
<1>13. CostsAsCheapest(r, b, q)
  <2> SUFFICES ASSUME NEW t, \A x \in q .. end - 1 : t[x] = r[x],
                      Walk(t, start, q, dali) = Arrived(b, q)
               PROVE  /\ WrittenSize(t, start, end, dali) = arrival[end][1].cost
                      /\ Walk(t, start, end, dali).unused = {}
    BY DEF CostsAsCheapest
  <2>1. t[q] = [length |-> a.match_len, offset |-> a.rep_offset]
    <3>1. t[q] = r[q]
      BY <1>1
    <3>2. QED
      BY <1>2, <1>3, <1>6, <3>1
  <2>2. \A x \in q + 1 .. q + a.match_len - 1 : t[x].length = 0
    <3> SUFFICES ASSUME NEW x \in q + 1 .. q + l - 1 PROVE t[x].length = 0
      BY <1>2
    <3>1. x \in q .. end - 1 /\ x \in start .. end - 1 /\ x < q + l /\ x # q
      BY <1>1, <1>5
    <3>2. QED
      BY <1>7, <3>1
  <2>3. Walk(t, start, q + a.match_len, dali) = Arrived(a, q + a.match_len)
    BY <1>1, <2>1, <2>2, WalkMatch
  <2>4. \A x \in q + a.match_len .. end - 1 : t[x] = table[x]
    <3> SUFFICES ASSUME NEW x \in q + l .. end - 1 PROVE t[x] = table[x]
      BY <1>2
    <3>1. x \in q .. end - 1 /\ x \in start .. end - 1 /\ x # q
      BY <1>1
    <3>2. QED
      BY <1>6, <3>1
  <2>5. QED
    BY <2>3, <2>4 DEF Rest, CostsAsCheapest
<1>14. QED
  BY <1>8, <1>9, <1>10, <1>11, <1>12, <1>13 DEF Rest
-----------------------------------------------------------------------------
(***************************************************************************)
(* The invariant of the table: it is empty until the trace begins, and     *)
(* nothing is left to trace when it ends.                                  *)
(***************************************************************************)
TInv ==
  /\ stage \notin {"trace", "parsed"} => best = [x \in start .. end - 1 |-> NoMatch]
  /\ stage \in {"trace", "parsed"} => Rest(best, arrival[pos][m], pos)
  /\ stage = "parsed" => pos = start

LEMMA RestStays ==
  ASSUME NEW table, NEW a, NEW p, window' = window, start' = start, dali' = dali,
         arrival' = arrival, Rest(table, a, p)
  PROVE  Rest(table, a, p)'
<1>1. end' = end
  BY DEF end
<1>2. /\ Tables' = Tables /\ BlankTo(table, p)' = BlankTo(table, p)
      /\ AllMatch(table)' = AllMatch(table) /\ NoneNested(table)' = NoneNested(table)
      /\ SinglesBehind(table, a, p)' = SinglesBehind(table, a, p)
      /\ CostsAsCheapest(table, a, p)' = CostsAsCheapest(table, a, p)
  BY <1>1 DEF Tables, BlankTo, AllMatch, Limited, NoneNested, SinglesBehind, CostsAsCheapest
<1>3. QED
  BY <1>2 DEF Rest

LEMMA TraceStep == ASSUME IInv, SInv, TInv, Trace PROVE TInv'
<1>1. /\ window' = window /\ start' = start /\ dali' = dali /\ arrival' = arrival
      /\ best' = best /\ pos' = pos /\ m' = 1
      /\ stage = "arrive" /\ stage' = "trace" /\ pos = end
  BY DEF Trace, tables
<1>2. arrival[end][1] \in Arrival
  <2>1. end \in start .. end
    BY DEF IInv, WindowOK, end
  <2>2. arrival[end] \in Seq(Arrival) /\ arrival[end] # <<>>
    BY <1>1, <2>1 DEF SInv, SlotsOK, StageOK, PassStages
  <2>3. QED
    BY <2>2
<1>3. Rest(best, arrival[end][1], end)
  <2>1. best = [x \in start .. end - 1 |-> NoMatch] /\ WindowOK
    BY <1>1 DEF TInv, IInv
  <2>2. QED
    BY <1>2, <2>1, RestAtEnd
<1>4. PICK table, a, p : table = best /\ a = arrival[end][1] /\ p = end
  OBVIOUS
<1>5. Rest(table, a, p)'
  BY <1>1, <1>3, <1>4, RestStays
<1>6. best' = table /\ arrival'[pos'][m'] = a /\ pos' = p
  BY <1>1, <1>4
<1>7. Rest(best, arrival[pos][m], pos)'
  BY <1>5, <1>6
<1>8. QED
  BY <1>1, <1>7 DEF TInv

LEMMA TraceBackStep == ASSUME IInv, SInv, EInv, TInv, TraceBack PROVE TInv'
<1>1. PICK a : a = arrival[pos][m]
  OBVIOUS
<1>2. /\ window' = window /\ start' = start /\ dali' = dali /\ arrival' = arrival
      /\ stage = "trace"
      /\ IF a.from_slot = 0
         THEN stage' = "parsed" /\ best' = best /\ pos' = pos /\ m' = m
         ELSE /\ best' = [best EXCEPT ![a.from_pos] =
                   [length |-> kc_limit_match_len_local(a.match_len),
                    offset |-> IF a.match_len = 0 THEN 0 ELSE a.rep_offset]]
              /\ pos' = a.from_pos /\ m' = a.from_slot /\ stage' = stage
  BY <1>1 DEF TraceBack
<1>3. /\ pos \in start .. end /\ m \in 1 .. Len(arrival[pos]) /\ start \in Nat
      /\ end \in Nat /\ WindowOK
  BY <1>2 DEF SInv, StageOK, IInv, WindowOK, end
<1>4. a \in Arrival /\ Comes(arrival, a, pos, pos) /\ Exact(arrival, pos, a)
  BY <1>1, <1>3 DEF SInv, SlotsOK, EInv, EdgesOK
<1>5. Rest(best, a, pos)
  BY <1>1, <1>2 DEF TInv
<1>6. CASE a.from_slot = 0
  <2>1. pos = start
    BY <1>4, <1>6 DEF Exact
  <2>2. PICK table, p : table = best /\ p = pos
    OBVIOUS
  <2>3. Rest(table, a, p)'
    BY <1>2, <1>5, <2>2, RestStays
  <2>4. best' = table /\ arrival'[pos'][m'] = a /\ pos' = p
    BY <1>1, <1>2, <1>6, <2>2
  <2>5. Rest(best, arrival[pos][m], pos)'
    BY <2>3, <2>4
  <2>6. QED
    BY <1>2, <1>6, <2>1, <2>5 DEF TInv
<1>7. CASE a.from_slot # 0
  <2>1. PICK q, k, b : q = a.from_pos /\ k = a.from_slot /\ b = arrival[q][k]
    OBVIOUS
  <2>2. q \in start .. pos - 1 /\ k \in 1 .. Len(arrival[q])
    BY <1>4, <1>7, <2>1 DEF Comes
  <2>3. q \in start .. end - 1 /\ q \in start .. end /\ q \in Nat
    BY <1>3, <2>2
  <2>4. b \in Arrival
    BY <2>1, <2>2, <2>3 DEF SInv, SlotsOK
  <2>5. Continues(b, a, q, pos)
    BY <1>4, <1>7, <2>1 DEF Exact
  <2>6. PICK r : r = best'
    OBVIOUS
  <2>7. Rest(r, b, q)
    <3>1. CASE pos = q + 1 /\ OneLiteral(b, a)
      <4>1. a.match_len = 0 /\ kc_limit_match_len_local(0) = 0
        BY <3>1, ParsingAssumption DEF OneLiteral, kc_limit_match_len_local
      <4>2. best' = [best EXCEPT ![q] = [length |-> 0, offset |-> 0]]
        BY <1>2, <1>7, <2>1, <4>1
      <4>3. best[q] = [length |-> 0, offset |-> 0]
        <5>1. q < pos
          BY <1>3, <2>2
        <5>2. best[q] = NoMatch
          BY <1>5, <2>3, <5>1 DEF Rest, BlankTo
        <5>3. QED
          BY <5>2 DEF NoMatch
      <4>4. best \in Tables
        BY <1>5 DEF Rest
      <4>5. r = best
        BY <2>6, <4>2, <4>3, <4>4 DEF Tables
      <4>6. Rest(best, a, q + 1)
        BY <1>5, <3>1
      <4>7. QED
        BY <1>3, <1>4, <2>3, <2>4, <3>1, <4>5, <4>6, RestLiteral
    <3>2. CASE pos = q + a.match_len /\ OneMatch(b, a, q)
      <4>1. kc_limit_match_len_local(a.match_len) = a.match_len /\ a.match_len # 0
        BY <3>2 DEF OneMatch, Limited
      <4>2. r = [best EXCEPT ![q] = [length |-> a.match_len, offset |-> a.rep_offset]]
        BY <1>2, <1>7, <2>1, <2>6, <4>1
      <4>3. q + a.match_len <= end /\ Rest(best, a, q + a.match_len) /\ dali \in BOOLEAN
        BY <1>3, <1>5, <3>2 DEF EInv
      <4>4. PICK table : table = best
        OBVIOUS
      <4>5. QED
        BY <1>3, <1>4, <2>3, <2>4, <3>2, <4>2, <4>3, <4>4, RestMatch
    <3>3. QED
      BY <2>5, <3>1, <3>2 DEF Continues
  <2>8. Rest(r, b, q)'
    BY <1>2, <2>7, RestStays
  <2>9. best' = r /\ arrival'[pos'][m'] = b /\ pos' = q
    BY <1>2, <1>7, <2>1, <2>6
  <2>10. Rest(best, arrival[pos][m], pos)'
    BY <2>8, <2>9
  <2>11. QED
    BY <1>2, <1>7, <2>10 DEF TInv
<1>8. QED
  BY <1>6, <1>7

LEMMA TableStep ==
  ASSUME IInv, SInv, EInv, TInv, [Parse]_parserVars
  PROVE  TInv'
<1>1. CASE Trace
  BY <1>1, TraceStep
<1>2. CASE TraceBack
  BY <1>2, TraceBackStep
<1>3. CASE \/ Supplement \/ FirstPass \/ Arrive \/ Insert \/ Extend \/ NextPosition
           \/ EndFirstPass \/ Further \/ SecondPass
  <2>1. /\ best' = best /\ start' = start /\ window' = window
        /\ stage \notin {"trace", "parsed"} /\ stage' \notin {"trace", "parsed"}
    BY <1>3 DEF Supplement, FirstPass, SecondPass, StartPass, Arrive, Insert, Extend,
       NextMatch, NextPosition, EndFirstPass, Further, tables
  <2>2. QED
    BY <2>1 DEF TInv, end
<1>4. CASE Visit \/ Pass \/ UNCHANGED parserVars
  <2>1. /\ window' = window /\ start' = start /\ dali' = dali /\ arrival' = arrival
        /\ best' = best /\ stage' = stage /\ pos' = pos /\ m' = m
    BY <1>4 DEF Visit, Pass, parserVars, tables, tried
  <2>2. CASE stage \notin {"trace", "parsed"}
    BY <2>1, <2>2 DEF TInv, end
  <2>3. CASE stage \in {"trace", "parsed"}
    <3>1. PICK table, a, p : table = best /\ a = arrival[pos][m] /\ p = pos
      OBVIOUS
    <3>2. Rest(table, a, p)'
      BY <2>1, <2>3, <3>1, RestStays DEF TInv
    <3>3. Rest(best, arrival[pos][m], pos)'
      BY <2>1, <3>1, <3>2
    <3>4. QED
      BY <2>1, <2>3, <3>3 DEF TInv
  <2>4. QED
    BY <2>2, <2>3
<1>5. QED
  BY <1>1, <1>2, <1>3, <1>4 DEF Parse

THEOREM TableInvariant == ParserSpec => []TInv
<1>1. HandedOver /\ Ready => TInv
  BY DEF Ready, TInv
<1>2. IInv /\ SInv /\ EInv /\ TInv /\ [Parse]_parserVars => TInv'
  BY TableStep
<1>3. QED
  BY <1>1, <1>2, ListsInvariant, SlotsInvariant, EdgesInvariant, PTL DEF ParserSpec

(* What the trace leaves when it comes to the first arrival. *)
LEMMA RestIsTable ==
  ASSUME WindowOK, NEW table, NEW a, NEW p, Rest(table, a, p)
  PROVE  IsTable(window, start, table) /\ SinglesApart(table)
<1>1. start \in Nat /\ end \in Nat /\ start < end /\ end = Len(window)
  BY DEF WindowOK, end
<1>2. start \in start .. end - 1 /\ DOMAIN table = start .. end - 1
  BY <1>1 DEF Rest, Tables
<1>3. table[start].length = 0
  BY <1>2 DEF Rest, AllMatch
<1>4. IsTable(window, start, table)
  BY <1>1, <1>3 DEF IsTable, Rest, Tables, AllMatch, NoneNested
<1>5. SinglesApart(table)
  <2>1. ASSUME NEW x \in DOMAIN table, table[x].length = 1, NEW y \in DOMAIN table, y < x
        PROVE  y + table[y].length # x
    <3>1. y \in start .. x - 1 /\ x \in start .. end - 1
      BY <1>1, <1>2, <2>1
    <3>2. QED
      BY <2>1, <3>1 DEF Rest, SinglesBehind
  <2>2. QED
    BY <2>1 DEF SinglesApart
<1>6. QED
  BY <1>4, <1>5

(***************************************************************************)
(* What the parser has counted along the cheapest way to the end is what   *)
(* the writer makes of the table that the trace leaves, and every match in *)
(* it is correct and taken: for every window, setting and starting list,   *)
(* and for every weight of a token.                                        *)
(***************************************************************************)
THEOREM CostIsWritten == ParserSpec => []CostIsWhatIsWritten
<1>1. IInv /\ SInv /\ EInv /\ TInv => CostIsWhatIsWritten
  <2> SUFFICES ASSUME IInv, SInv, EInv, TInv, Traced
               PROVE  /\ IsTable(window, start, best)
                      /\ WrittenSize(best, start, end, dali) = arrival[end][1].cost
                      /\ Walk(best, start, end, dali).unused = {}
    BY DEF CostIsWhatIsWritten
  <2>1. stage = "trace" /\ arrival[pos][m].from_slot = 0
    BY DEF Traced
  <2>2. pos \in start .. end /\ m \in 1 .. Len(arrival[pos]) /\ start \in Nat /\ WindowOK
    BY <2>1 DEF SInv, StageOK, IInv, WindowOK
  <2>3. pos = start /\ arrival[pos][m] = FirstArrival
    <3>1. Exact(arrival, pos, arrival[pos][m])
      BY <2>2 DEF EInv, EdgesOK
    <3>2. QED
      BY <2>1, <3>1 DEF Exact
  <2>4. Rest(best, FirstArrival, start)
    BY <2>1, <2>3 DEF TInv
  <2>5. IsTable(window, start, best)
    BY <2>2, <2>4, RestIsTable
  <2>6. Walk(best, start, start, dali) = Arrived(FirstArrival, start)
    BY <2>2, WalkBegins
  <2>7. /\ WrittenSize(best, start, end, dali) = arrival[end][1].cost
        /\ Walk(best, start, end, dali).unused = {}
    BY <2>4, <2>6 DEF Rest, CostsAsCheapest
  <2>8. QED
    BY <2>5, <2>7
<1>2. QED
  BY <1>1, ListsInvariant, SlotsInvariant, EdgesInvariant, TableInvariant, PTL

(***************************************************************************)
(* The table that is parsed is one that the reduction takes for granted    *)
(* (ReduceAssumption): a single byte is repeated behind literals only, and *)
(* no match is longer than --max-match.                                    *)
(***************************************************************************)
TableForReduction ==
  stage = "parsed" =>
    /\ IsTable(window, start, best) /\ SinglesApart(best)
    /\ \A p \in DOMAIN best : kc_limit_match_len_local(best[p].length) = best[p].length

THEOREM TablesArePromised == ParserSpec => []TableForReduction
<1>1. IInv /\ TInv => TableForReduction
  <2> SUFFICES ASSUME IInv, TInv, stage = "parsed"
               PROVE  /\ IsTable(window, start, best) /\ SinglesApart(best)
                      /\ \A p \in DOMAIN best :
                           kc_limit_match_len_local(best[p].length) = best[p].length
    BY DEF TableForReduction
  <2>1. Rest(best, arrival[pos][m], pos) /\ WindowOK
    BY DEF TInv, IInv
  <2>2. IsTable(window, start, best) /\ SinglesApart(best)
    BY <2>1, RestIsTable
  <2>3. \A p \in DOMAIN best : kc_limit_match_len_local(best[p].length) = best[p].length
    <3>1. kc_limit_match_len_local(0) = 0
      BY ParsingAssumption DEF kc_limit_match_len_local
    <3>2. DOMAIN best = start .. end - 1
      BY <2>1 DEF Rest, Tables
    <3>3. QED
      BY <2>1, <3>1, <3>2 DEF Rest, AllMatch, Limited
  <2>4. QED
    BY <2>2, <2>3
<1>2. QED
  BY <1>1, ListsInvariant, TableInvariant, PTL
=============================================================================
