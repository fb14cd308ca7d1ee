------------------------- MODULE MatchFinder_proofs -------------------------
(***************************************************************************)
(* What the match finder hands to the parser, for every window, every tag  *)
(* and every limit: copies of earlier bytes.                               *)
(***************************************************************************)
EXTENDS MatchFinder, KcFormat_proofs

-----------------------------------------------------------------------------
(***************************************************************************)
(* The greatest member of a set of numbers that is bounded.                *)
(***************************************************************************)
LEMMA LeastOf ==
  ASSUME NEW S \in SUBSET Nat, S # {}
  PROVE  \E x \in S : \A y \in S : x <= y
<1> DEFINE R == OpToRel(<, Nat)
<1>1. IsWellFoundedOn(R, Nat)
  BY NatLessThanWellFounded
<1>2. \A x, y \in Nat : y < x => <<y, x>> \in R
  BY DEF OpToRel
<1> HIDE DEF R
<1>3. PICK x \in S : \A y \in S : ~ (<<y, x>> \in R)
  BY <1>1, WFMin
<1>4. \A y \in S : ~(y < x)
  BY <1>2, <1>3
<1>5. QED
  BY <1>3, <1>4

LEMMA GreatestOf ==
  ASSUME NEW N \in Nat, NEW S \in SUBSET (0 .. N), S # {}
  PROVE  Max(S) \in S /\ \A y \in S : y <= Max(S)
<1> DEFINE Gaps == {N - x : x \in S}
<1>1. Gaps \in SUBSET Nat /\ Gaps # {}
  <2>1. \A x \in S : x \in 0 .. N /\ N - x \in Nat
    OBVIOUS
  <2>2. QED
    BY <2>1
<1>2. PICK g \in Gaps : \A h \in Gaps : g <= h
  <2> HIDE DEF Gaps
  <2>1. QED
    BY <1>1, LeastOf
<1>3. PICK x \in S : g = N - x
  OBVIOUS
<1>4. \A y \in S : y <= x
  <2>1. \A y \in S : N - x <= N - y
    BY <1>2, <1>3
  <2>2. QED
    BY <2>1
<1>5. QED
  BY <1>3, <1>4 DEF Max

-----------------------------------------------------------------------------
(***************************************************************************)
(* Places of a text that begin with the same l bytes.  A suffix may be   *)
(* empty.                                                                  *)
(***************************************************************************)
Places(text) == 0 .. Len(text)

Agree(text, p, q, l) ==
  /\ p + l <= Len(text) /\ q + l <= Len(text)
  /\ \A k \in 1 .. l : text[p + k] = text[q + k]

LEMMA AgreeSame ==
  ASSUME NEW text \in Seq(Byte), NEW p \in Places(text), NEW l \in Nat, p + l <= Len(text)
  PROVE  Agree(text, p, p, l)
  BY DEF Agree

LEMMA AgreeSymmetric ==
  ASSUME NEW text \in Seq(Byte), NEW p \in Places(text), NEW q \in Places(text),
         NEW l \in Nat, Agree(text, p, q, l)
  PROVE  Agree(text, q, p, l)
  BY DEF Agree

LEMMA AgreeThrough ==
  ASSUME NEW text \in Seq(Byte), NEW p \in Places(text), NEW q \in Places(text),
         NEW o \in Places(text), NEW l \in Nat, NEW k \in Nat,
         Agree(text, p, q, l), Agree(text, q, o, k)
  PROVE  /\ l <= k => Agree(text, p, o, l)
         /\ k <= l => Agree(text, p, o, k)
<1>1. Len(text) \in Nat /\ p \in Nat /\ q \in Nat /\ o \in Nat
  BY DEF Places
<1>2. ASSUME NEW h \in 0 .. l, h <= k PROVE Agree(text, p, o, h)
  <2>1. ASSUME NEW x \in 1 .. h PROVE text[p + x] = text[o + x]
    <3>1. x \in 1 .. l /\ x \in 1 .. k
      BY <1>2
    <3>2. text[p + x] = text[q + x] /\ text[q + x] = text[o + x]
      BY <3>1 DEF Agree
    <3>3. QED
      BY <3>2
  <2>2. p + h <= Len(text) /\ o + h <= Len(text)
    BY <1>1, <1>2 DEF Agree
  <2>3. QED
    BY <2>1, <2>2 DEF Agree
<1>3. QED
  BY <1>2

LEMMA AgreeShorter ==
  ASSUME NEW text \in Seq(Byte), NEW p \in Places(text), NEW q \in Places(text),
         NEW l \in Nat, NEW k \in 0 .. l, Agree(text, p, q, l)
  PROVE  Agree(text, p, q, k)
  BY DEF Agree, Places

(* Common finds the first difference, or the end of one of them. *)
LEMMA CommonIs ==
  ASSUME NEW text \in Seq(Byte), NEW p \in Places(text), NEW q \in Places(text),
         NEW from \in Nat, Agree(text, p, q, from)
  PROVE  LET c == Common(text, p, q, from)
         IN  /\ c \in Nat /\ c >= from /\ Agree(text, p, q, c)
             /\ \/ p + c = Len(text) \/ q + c = Len(text)
                \/ p + c < Len(text) /\ q + c < Len(text)
                   /\ text[p + (c + 1)] # text[q + (c + 1)]
<1> DEFINE limit == Len(text) - Max({p, q})
           longer == {l \in from .. limit : \A k \in from + 1 .. l : text[p + k] = text[q + k]}
           c == Common(text, p, q, from)
<1>1. /\ Len(text) \in Nat /\ p \in Nat /\ q \in Nat /\ p <= Len(text) /\ q <= Len(text)
      /\ p + from <= Len(text) /\ q + from <= Len(text)
  BY DEF Places, Agree
<1>2. Max({p, q}) \in {p, q} /\ p <= Max({p, q}) /\ q <= Max({p, q})
  <2> DEFINE S == {p, q}
  <2>1. S \in SUBSET (0 .. Len(text)) /\ S # {}
    BY <1>1
  <2> HIDE DEF S
  <2>2. Max(S) \in S /\ \A y \in S : y <= Max(S)
    BY <1>1, <2>1, GreatestOf
  <2>3. QED
    BY <2>2 DEF S
<1>3. limit \in Nat /\ from <= limit /\ p + limit <= Len(text) /\ q + limit <= Len(text)
      /\ (p + limit = Len(text) \/ q + limit = Len(text))
  BY <1>1, <1>2
<1> HIDE DEF limit
<1>4. longer \cup {from} \in SUBSET (0 .. limit) /\ longer \cup {from} # {}
  BY <1>1, <1>3
<1>5. c = Max(longer \cup {from})
  BY DEF Common, limit
<1>6. c \in longer \cup {from} /\ \A y \in longer \cup {from} : y <= c
  <2> HIDE DEF longer, c
  <2>1. QED
    BY <1>3, <1>4, <1>5, GreatestOf
<1> HIDE DEF c
<1>7. c \in from .. limit /\ \A k \in from + 1 .. c : text[p + k] = text[q + k]
  BY <1>1, <1>3, <1>6
<1>8. Agree(text, p, q, c)
  <2>1. \A k \in 1 .. c : text[p + k] = text[q + k]
    BY <1>1, <1>7 DEF Agree
  <2>2. QED
    BY <1>1, <1>3, <1>7, <2>1 DEF Agree
<1>9. ASSUME p + c # Len(text), q + c # Len(text)
      PROVE  /\ p + c < Len(text) /\ q + c < Len(text)
             /\ text[p + (c + 1)] # text[q + (c + 1)]
  <2>1. c < limit
    BY <1>1, <1>3, <1>7, <1>9
  <2>2. c + 1 \notin longer
    <3>1. ~(c + 1 <= c)
      BY <1>7
    <3>2. QED
      BY <1>6, <3>1
  <2>3. text[p + (c + 1)] # text[q + (c + 1)]
    <3> SUFFICES ASSUME text[p + (c + 1)] = text[q + (c + 1)] PROVE FALSE
      OBVIOUS
    <3>1. \A k \in from + 1 .. c + 1 : text[p + k] = text[q + k]
      <4> SUFFICES ASSUME NEW k \in from + 1 .. c + 1 PROVE text[p + k] = text[q + k]
        OBVIOUS
      <4>1. k = c + 1 \/ k \in from + 1 .. c
        BY <1>1, <1>7
      <4>2. QED
        BY <1>7, <4>1
    <3>2. QED
      BY <1>1, <1>3, <1>7, <2>1, <2>2, <3>1
  <2>4. QED
    BY <1>1, <1>3, <1>7, <1>9, <2>1, <2>3
<1>10. QED
  BY <1>7, <1>8, <1>9 DEF c

(***************************************************************************)
(* The order of different suffixes: at the first difference, or the        *)
(* shorter one first.                                                      *)
(***************************************************************************)
DiffersAt(text, p, q, l) ==
  /\ Agree(text, p, q, l) /\ q + l < Len(text)
  /\ p + l < Len(text) => text[p + (l + 1)] < text[q + (l + 1)]

Below(text, p, q) == \E l \in Nat : DiffersAt(text, p, q, l)

LEMMA PlaceTypes ==
  ASSUME NEW text \in Seq(Byte), NEW p \in Places(text)
  PROVE  Len(text) \in Nat /\ p \in Nat /\ p <= Len(text)
  BY DEF Places

LEMMA LetterType ==
  ASSUME NEW text \in Seq(Byte), NEW p \in Places(text), NEW l \in Nat, p + l < Len(text)
  PROVE  text[p + (l + 1)] \in Int
<1>1. p + (l + 1) \in 1 .. Len(text)
  BY PlaceTypes
<1>2. text[p + (l + 1)] \in Byte
  BY <1>1
<1>3. QED
  BY <1>2, FormatAssumption DEF Byte

LEMMA AgreeAt ==
  ASSUME NEW text \in Seq(Byte), NEW p \in Places(text), NEW q \in Places(text),
         NEW l \in Nat, Agree(text, p, q, l), NEW k \in Nat, k < l
  PROVE  text[p + (k + 1)] = text[q + (k + 1)] /\ p + k < Len(text) /\ q + k < Len(text)
<1>1. k + 1 \in 1 .. l
  OBVIOUS
<1>2. text[p + (k + 1)] = text[q + (k + 1)]
  BY <1>1 DEF Agree
<1>3. QED
  BY <1>2, PlaceTypes, SMTT(30) DEF Agree

LEMMA BelowIsLess ==
  ASSUME NEW text \in Seq(Byte), NEW p \in Places(text), NEW q \in Places(text), p # q
  PROVE  SuffixLess(text, p, q) <=> Below(text, p, q)
<1> DEFINE c == Common(text, p, q, 0)
<1>1. Len(text) \in Nat /\ p \in Nat /\ q \in Nat /\ p <= Len(text) /\ q <= Len(text)
  BY PlaceTypes
<1>2. Agree(text, p, q, 0)
  BY <1>1 DEF Agree
<1>3. /\ c \in Nat /\ Agree(text, p, q, c)
      /\ \/ p + c = Len(text) \/ q + c = Len(text)
         \/ p + c < Len(text) /\ q + c < Len(text) /\ text[p + (c + 1)] # text[q + (c + 1)]
  BY <1>2, CommonIs
<1>4. SuffixLess(text, p, q)
        <=> p + c = Len(text) \/ (q + c < Len(text) /\ text[p + c + 1] < text[q + c + 1])
  BY DEF SuffixLess
<1> HIDE DEF c
<1>5. p + c <= Len(text) /\ q + c <= Len(text)
      /\ p + c + 1 = p + (c + 1) /\ q + c + 1 = q + (c + 1)
  BY <1>1, <1>3 DEF Agree
<1>6. ASSUME SuffixLess(text, p, q) PROVE Below(text, p, q)
  <2>1. DiffersAt(text, p, q, c)
    BY <1>1, <1>3, <1>4, <1>5, <1>6 DEF DiffersAt
  <2>2. QED
    BY <1>3, <2>1 DEF Below
<1>7. ASSUME Below(text, p, q) PROVE SuffixLess(text, p, q)
  <2>1. PICK l \in Nat : DiffersAt(text, p, q, l)
    BY <1>7 DEF Below
  <2>2. Agree(text, p, q, l) /\ p + l <= Len(text) /\ q + l < Len(text)
    BY <2>1 DEF DiffersAt, Agree
  <2>3. c <= l
    <3> SUFFICES ASSUME l < c PROVE FALSE
      BY <1>3
    <3>1. text[p + (l + 1)] = text[q + (l + 1)] /\ p + l < Len(text)
      BY <1>3, AgreeAt
    <3>2. text[p + (l + 1)] < text[q + (l + 1)]
      BY <2>1, <3>1 DEF DiffersAt
    <3>3. text[q + (l + 1)] \in Int
      BY <2>2, LetterType
    <3>4. QED
      BY <3>1, <3>2, <3>3
  <2>4. l <= c
    <3> SUFFICES ASSUME c < l PROVE FALSE
      BY <1>3
    <3>1. text[p + (c + 1)] = text[q + (c + 1)] /\ p + c < Len(text) /\ q + c < Len(text)
      BY <1>3, <2>2, AgreeAt
    <3>2. QED
      BY <1>1, <1>3, <3>1
  <2>5. l = c
    BY <1>3, <2>3, <2>4
  <2>6. QED
    BY <1>1, <1>3, <1>4, <1>5, <2>1, <2>2, <2>5 DEF DiffersAt
<1>8. QED
  BY <1>6, <1>7

LEMMA BelowTotal ==
  ASSUME NEW text \in Seq(Byte), NEW p \in Places(text), NEW q \in Places(text), p # q
  PROVE  Below(text, p, q) \/ Below(text, q, p)
<1> DEFINE c == Common(text, p, q, 0)
<1>1. Len(text) \in Nat /\ p \in Nat /\ q \in Nat /\ p <= Len(text) /\ q <= Len(text)
  BY PlaceTypes
<1>2. Agree(text, p, q, 0)
  BY <1>1 DEF Agree
<1>3. /\ c \in Nat /\ Agree(text, p, q, c)
      /\ \/ p + c = Len(text) \/ q + c = Len(text)
         \/ p + c < Len(text) /\ q + c < Len(text) /\ text[p + (c + 1)] # text[q + (c + 1)]
  BY <1>2, CommonIs
<1> HIDE DEF c
<1>4. Agree(text, q, p, c) /\ p + c <= Len(text) /\ q + c <= Len(text)
  BY <1>3 DEF Agree
<1>5. CASE p + c = Len(text)
  <2>1. q + c < Len(text) /\ ~(p + c < Len(text))
    BY <1>1, <1>3, <1>4, <1>5
  <2>2. QED
    BY <1>3, <2>1 DEF DiffersAt, Below
<1>6. CASE q + c = Len(text)
  <2>1. p + c < Len(text) /\ ~(q + c < Len(text))
    BY <1>1, <1>3, <1>4, <1>6
  <2>2. QED
    BY <1>3, <1>4, <2>1 DEF DiffersAt, Below
<1>7. CASE p + c < Len(text) /\ q + c < Len(text) /\ text[p + (c + 1)] # text[q + (c + 1)]
  <2>1. text[p + (c + 1)] \in Int /\ text[q + (c + 1)] \in Int
    BY <1>3, <1>7, LetterType
  <2>2. text[p + (c + 1)] < text[q + (c + 1)] \/ text[q + (c + 1)] < text[p + (c + 1)]
    BY <1>7, <2>1
  <2>3. QED
    BY <1>3, <1>4, <1>7, <2>2 DEF DiffersAt, Below
<1>8. QED
  BY <1>3, <1>5, <1>6, <1>7

LEMMA BelowStrict ==
  ASSUME NEW text \in Seq(Byte), NEW p \in Places(text)
  PROVE  ~Below(text, p, p)
<1>1. ASSUME NEW l \in Nat, DiffersAt(text, p, p, l) PROVE FALSE
  <2>1. p + l < Len(text) /\ text[p + (l + 1)] < text[p + (l + 1)]
    BY <1>1 DEF DiffersAt
  <2>2. text[p + (l + 1)] \in Int
    BY <2>1, LetterType
  <2>3. QED
    BY <2>1, <2>2
<1>2. QED
  BY <1>1 DEF Below

LEMMA BelowThrough ==
  ASSUME NEW text \in Seq(Byte), NEW p \in Places(text), NEW q \in Places(text),
         NEW o \in Places(text), Below(text, p, q), Below(text, q, o)
  PROVE  Below(text, p, o)
<1>1. Len(text) \in Nat /\ p \in Nat /\ q \in Nat /\ o \in Nat
  BY PlaceTypes
<1>2. PICK l \in Nat : DiffersAt(text, p, q, l)
  BY DEF Below
<1>3. PICK k \in Nat : DiffersAt(text, q, o, k)
  BY DEF Below
<1>4. CASE l <= k
  <2>1. Agree(text, p, o, l)
    BY <1>2, <1>3, <1>4, AgreeThrough DEF DiffersAt
  <2>2. o + l < Len(text) /\ q + l < Len(text)
    BY <1>1, <1>2, <1>3, <1>4 DEF DiffersAt
  <2>3. ASSUME p + l < Len(text) PROVE text[p + (l + 1)] < text[o + (l + 1)]
    <3>1. text[p + (l + 1)] < text[q + (l + 1)]
      BY <1>2, <2>3 DEF DiffersAt
    <3>2. /\ text[p + (l + 1)] \in Int /\ text[q + (l + 1)] \in Int
          /\ text[o + (l + 1)] \in Int
      BY <2>2, <2>3, LetterType
    <3>3. CASE l = k
      <4>1. text[q + (l + 1)] < text[o + (l + 1)]
        BY <1>3, <2>2, <3>3 DEF DiffersAt
      <4>2. QED
        BY <3>1, <3>2, <4>1
    <3>4. CASE l < k
      <4>1. text[q + (l + 1)] = text[o + (l + 1)]
        BY <1>3, <3>4, AgreeAt DEF DiffersAt
      <4>2. QED
        BY <3>1, <4>1
    <3>5. QED
      BY <1>4, <3>3, <3>4
  <2>4. QED
    BY <2>1, <2>2, <2>3 DEF Below, DiffersAt
<1>5. CASE k < l
  <2>1. Agree(text, p, o, k)
    BY <1>2, <1>3, <1>5, AgreeThrough DEF DiffersAt
  <2>2. o + k < Len(text)
    BY <1>3 DEF DiffersAt
  <2>3. text[p + (k + 1)] = text[q + (k + 1)] /\ q + k < Len(text)
    BY <1>2, <1>5, AgreeAt DEF DiffersAt
  <2>4. text[q + (k + 1)] < text[o + (k + 1)]
    BY <1>3, <2>3 DEF DiffersAt
  <2>5. text[p + (k + 1)] < text[o + (k + 1)]
    BY <2>3, <2>4
  <2>6. QED
    BY <2>1, <2>2, <2>5 DEF Below, DiffersAt
<1>6. QED
  BY <1>4, <1>5

(* What the outer two of three suffixes share, the middle one shares. *)
LEMMA Between ==
  ASSUME NEW text \in Seq(Byte), NEW p \in Places(text), NEW q \in Places(text),
         NEW o \in Places(text), Below(text, p, q), Below(text, q, o),
         NEW j \in Nat, Agree(text, p, o, j)
  PROVE  Agree(text, q, o, j)
<1>1. Len(text) \in Nat /\ p \in Nat /\ q \in Nat /\ o \in Nat
  BY PlaceTypes
<1>2. PICK l \in Nat : DiffersAt(text, p, q, l)
  BY DEF Below
<1>3. PICK k \in Nat : DiffersAt(text, q, o, k)
  BY DEF Below
<1>4. CASE j <= k
  BY <1>3, <1>4, AgreeShorter DEF DiffersAt
<1>5. CASE k < j
  <2>1. /\ text[p + (k + 1)] = text[o + (k + 1)]
        /\ p + k < Len(text) /\ o + k < Len(text)
    BY <1>5, AgreeAt
  <2>2. CASE k < l
    <3>1. text[p + (k + 1)] = text[q + (k + 1)] /\ q + k < Len(text)
      BY <1>2, <2>2, AgreeAt DEF DiffersAt
    <3>2. text[q + (k + 1)] < text[o + (k + 1)]
      BY <1>3, <3>1 DEF DiffersAt
    <3>3. text[q + (k + 1)] \in Int
      BY <3>1, LetterType
    <3>4. QED
      BY <2>1, <3>1, <3>2, <3>3
  <2>3. CASE l <= k
    <3>1. text[p + (l + 1)] = text[o + (l + 1)] /\ p + l < Len(text)
      BY <1>5, <2>3, AgreeAt
    <3>2. text[p + (l + 1)] < text[q + (l + 1)] /\ q + l < Len(text)
      BY <1>2, <3>1 DEF DiffersAt
    <3>3. text[p + (l + 1)] \in Int /\ text[q + (l + 1)] \in Int
      BY <3>1, <3>2, LetterType
    <3>4. CASE l < k
      <4>1. text[q + (l + 1)] = text[o + (l + 1)]
        BY <1>3, <3>4, AgreeAt DEF DiffersAt
      <4>2. QED
        BY <3>1, <3>2, <3>3, <4>1
    <3>5. CASE l = k
      <4>1. text[q + (l + 1)] < text[o + (l + 1)]
        BY <1>3, <3>2, <3>5 DEF DiffersAt
      <4>2. QED
        BY <3>1, <3>2, <3>3, <4>1
    <3>6. QED
      BY <2>3, <3>4, <3>5
  <2>4. QED
    BY <2>2, <2>3
<1>6. QED
  BY <1>4, <1>5

(* Two suffixes with the same first byte keep their order without it. *)
LEMMA BelowBehind ==
  ASSUME NEW text \in Seq(Byte), NEW p \in Places(text), NEW q \in Places(text),
         Below(text, p, q), NEW j \in Nat, j >= 1, Agree(text, p, q, j)
  PROVE  /\ p + 1 \in Places(text) /\ q + 1 \in Places(text)
         /\ Agree(text, p + 1, q + 1, j - 1) /\ Below(text, p + 1, q + 1)
<1>1. Len(text) \in Nat /\ p \in Nat /\ q \in Nat
  BY PlaceTypes
<1>2. PICK l \in Nat : DiffersAt(text, p, q, l)
  BY DEF Below
<1>3. p + j <= Len(text) /\ q + j <= Len(text)
  BY DEF Agree
<1>4. l # 0
  <2> SUFFICES ASSUME l = 0 PROVE FALSE
    OBVIOUS
  <2>1. text[p + (l + 1)] = text[q + (l + 1)] /\ p + l < Len(text) /\ q + l < Len(text)
    BY AgreeAt
  <2>2. text[p + (l + 1)] < text[q + (l + 1)]
    BY <1>2, <2>1 DEF DiffersAt
  <2>3. text[p + (l + 1)] \in Int
    BY <2>1, LetterType
  <2>4. QED
    BY <2>1, <2>2, <2>3
<1>5. ASSUME NEW h \in Nat, h >= 1, Agree(text, p, q, h)
      PROVE  Agree(text, p + 1, q + 1, h - 1)
  <2>1. p + h <= Len(text) /\ q + h <= Len(text)
    BY <1>5 DEF Agree
  <2>2. ASSUME NEW k \in 1 .. h - 1 PROVE text[(p + 1) + k] = text[(q + 1) + k]
    <3>1. k + 1 \in 1 .. h /\ (p + 1) + k = p + (k + 1) /\ (q + 1) + k = q + (k + 1)
      BY <1>1
    <3>2. QED
      BY <1>5, <3>1 DEF Agree
  <2>3. (p + 1) + (h - 1) <= Len(text) /\ (q + 1) + (h - 1) <= Len(text)
    BY <1>1, <2>1
  <2>4. QED
    BY <2>2, <2>3 DEF Agree
<1>6. DiffersAt(text, p + 1, q + 1, l - 1)
  <2>1. Agree(text, p + 1, q + 1, l - 1)
    BY <1>2, <1>4, <1>5 DEF DiffersAt
  <2>2. /\ (p + 1) + (l - 1) = p + l /\ (q + 1) + (l - 1) = q + l
        /\ (p + 1) + ((l - 1) + 1) = p + (l + 1) /\ (q + 1) + ((l - 1) + 1) = q + (l + 1)
    BY <1>1
  <2>3. QED
    BY <1>2, <2>1, <2>2 DEF DiffersAt
<1>7. l - 1 \in Nat
  BY <1>4
<1>8. QED
  BY <1>1, <1>3, <1>5, <1>6, <1>7 DEF Below, Places

-----------------------------------------------------------------------------
(***************************************************************************)
(* The suffix array is in order: a suffix is where as many are below it.   *)
(***************************************************************************)
Starts(text) == 0 .. Len(text) - 1

Lower(text, p) == {q \in Starts(text) : Below(text, q, p)}

Rank(text, p) == Cardinality(Lower(text, p))

LEMMA StartIsPlace ==
  ASSUME NEW text \in Seq(Byte), NEW p \in Starts(text)
  PROVE  p \in Places(text) /\ Len(text) \in Nat /\ p \in Nat /\ p < Len(text)
  BY DEF Starts, Places

LEMMA RankType ==
  ASSUME NEW text \in Seq(Byte), NEW p \in Starts(text)
  PROVE  IsFiniteSet(Lower(text, p)) /\ Rank(text, p) \in Starts(text)
<1>1. p \in Places(text) /\ Len(text) \in Nat /\ p \in Nat /\ p < Len(text)
  BY StartIsPlace
<1>2. IsFiniteSet(Starts(text)) /\ Cardinality(Starts(text)) = Len(text)
  <2> DEFINE last == Len(text) - 1
  <2>1. last \in Int /\ 0 \in Int /\ 0 <= last
    BY <1>1
  <2> HIDE DEF last
  <2>2. IsFiniteSet(0 .. last) /\ Cardinality(0 .. last) = last - 0 + 1
    BY <2>1, FS_Interval
  <2>3. last - 0 + 1 = Len(text)
    BY <1>1 DEF last
  <2>4. QED
    BY <2>2, <2>3 DEF Starts, last
<1>3. /\ IsFiniteSet(Starts(text) \ {p})
      /\ Cardinality(Starts(text) \ {p}) = Len(text) - 1
  BY <1>2, FS_RemoveElement
<1>4. Lower(text, p) \in SUBSET (Starts(text) \ {p})
  BY <1>1, BelowStrict DEF Lower
<1>5. IsFiniteSet(Lower(text, p)) /\ Cardinality(Lower(text, p)) <= Len(text) - 1
  BY <1>3, <1>4, FS_Subset
<1>6. Cardinality(Lower(text, p)) \in Nat
  BY <1>5, FS_CardinalityType
<1>7. QED
  BY <1>1, <1>5, <1>6 DEF Rank, Starts

LEMMA RankOrder ==
  ASSUME NEW text \in Seq(Byte), NEW p \in Starts(text), NEW q \in Starts(text),
         Below(text, p, q)
  PROVE  Rank(text, p) < Rank(text, q)
<1>1. p \in Places(text) /\ q \in Places(text)
  BY StartIsPlace
<1>2. p \notin Lower(text, p)
  BY <1>1, BelowStrict DEF Lower
<1>3. Lower(text, p) \cup {p} \in SUBSET Lower(text, q)
  <2>1. ASSUME NEW o \in Lower(text, p) PROVE o \in Lower(text, q)
    <3>1. o \in Starts(text) /\ o \in Places(text) /\ Below(text, o, p)
      BY <2>1, StartIsPlace DEF Lower
    <3>2. Below(text, o, q)
      BY <1>1, <3>1, BelowThrough
    <3>3. QED
      BY <3>1, <3>2 DEF Lower
  <2>2. p \in Lower(text, q)
    BY DEF Lower
  <2>3. QED
    BY <2>1, <2>2
<1>4. IsFiniteSet(Lower(text, p)) /\ IsFiniteSet(Lower(text, q))
      /\ Rank(text, p) \in Nat /\ Rank(text, q) \in Nat
  BY RankType DEF Starts
<1>5. Cardinality(Lower(text, p) \cup {p}) = Cardinality(Lower(text, p)) + 1
  BY <1>2, <1>4, FS_AddElement
<1>6. Cardinality(Lower(text, p) \cup {p}) <= Cardinality(Lower(text, q))
  BY <1>3, <1>4, FS_Subset
<1>7. QED
  BY <1>4, <1>5, <1>6 DEF Rank

LEMMA RankInjective ==
  ASSUME NEW text \in Seq(Byte), NEW p \in Starts(text), NEW q \in Starts(text),
         Rank(text, p) = Rank(text, q)
  PROVE  p = q
<1> SUFFICES ASSUME p # q PROVE FALSE
  OBVIOUS
<1>1. Below(text, p, q) \/ Below(text, q, p)
  BY BelowTotal, StartIsPlace
<1>2. Rank(text, p) < Rank(text, q) \/ Rank(text, q) < Rank(text, p)
  BY <1>1, RankOrder
<1>3. Rank(text, p) \in Nat /\ Rank(text, q) \in Nat
  BY RankType DEF Starts
<1>4. QED
  BY <1>2, <1>3

LEMMA RankReaches ==
  ASSUME NEW text \in Seq(Byte), NEW k \in Starts(text)
  PROVE  \E p \in Starts(text) : Rank(text, p) = k
<1> DEFINE f == [p \in Starts(text) |-> Rank(text, p)]
<1>1. f \in Injection(Starts(text), Starts(text))
  <2>1. f \in [Starts(text) -> Starts(text)]
    BY RankType
  <2>2. \A p, q \in Starts(text) : f[p] = f[q] => p = q
    BY RankInjective
  <2> HIDE DEF f
  <2>3. QED
    BY <2>1, <2>2 DEF Injection, IsInjective
<1>2. IsFiniteSet(Starts(text))
  BY StartIsPlace, FS_Interval DEF Starts
<1> HIDE DEF f
<1>3. f \in Surjection(Starts(text), Starts(text))
  BY <1>1, <1>2, FS_Injection
<1>4. PICK p \in Starts(text) : f[p] = k
  BY <1>3 DEF Surjection
<1>5. QED
  BY <1>4 DEF f

LEMMA SortedArray ==
  ASSUME NEW text \in Seq(Byte)
  PROVE  LET sa == SuffixArray(text)
         IN  /\ sa \in [Starts(text) -> Starts(text)]
             /\ \A k \in Starts(text) : Rank(text, sa[k]) = k
             /\ \A p \in Starts(text) : sa[Rank(text, p)] = p
<1> DEFINE sa == SuffixArray(text)
           rank(p) == Cardinality({q \in Starts(text) \ {p} : SuffixLess(text, q, p)})
<1>1. sa = [k \in Starts(text) |-> CHOOSE p \in Starts(text) : rank(p) = k]
  BY DEF SuffixArray, Starts
<1>2. \A p \in Starts(text) : rank(p) = Rank(text, p)
  <2> SUFFICES ASSUME NEW p \in Starts(text) PROVE rank(p) = Rank(text, p)
    OBVIOUS
  <2>1. ASSUME NEW q \in Starts(text)
        PROVE  (q # p /\ SuffixLess(text, q, p)) <=> Below(text, q, p)
    BY StartIsPlace, BelowIsLess, BelowStrict
  <2>2. {q \in Starts(text) \ {p} : SuffixLess(text, q, p)} = Lower(text, p)
    BY <2>1 DEF Lower
  <2>3. QED
    BY <2>2 DEF Rank
<1> HIDE DEF rank
<1>3. ASSUME NEW k \in Starts(text)
      PROVE  sa[k] \in Starts(text) /\ Rank(text, sa[k]) = k
  <2>1. \E p \in Starts(text) : rank(p) = k
    BY <1>2, RankReaches
  <2>2. sa[k] = CHOOSE p \in Starts(text) : rank(p) = k
    BY <1>1
  <2>3. sa[k] \in Starts(text) /\ rank(sa[k]) = k
    BY <2>1, <2>2
  <2>4. QED
    BY <1>2, <2>3
<1>4. sa \in [Starts(text) -> Starts(text)]
  BY <1>1, <1>3
<1> HIDE DEF sa
<1>5. ASSUME NEW p \in Starts(text) PROVE sa[Rank(text, p)] = p
  <2>1. Rank(text, p) \in Starts(text)
    BY RankType
  <2>2. sa[Rank(text, p)] \in Starts(text) /\ Rank(text, sa[Rank(text, p)]) = Rank(text, p)
    BY <1>3, <2>1
  <2>3. QED
    BY <2>2, RankInjective
<1>6. QED
  BY <1>3, <1>4, <1>5 DEF sa

(* Phi leads to the suffix right below. *)
PhiOf(sa) ==
  [i \in DOMAIN sa |->
     IF i = sa[0] THEN -1 ELSE sa[(CHOOSE k \in DOMAIN sa : sa[k] = i) - 1]]

LEMMA PhiIsNext ==
  ASSUME NEW text \in Seq(Byte), NEW i \in Starts(text)
  PROVE  LET sa  == SuffixArray(text)
             phi == PhiOf(sa)
         IN  /\ phi[i] = IF Rank(text, i) = 0 THEN -1 ELSE sa[Rank(text, i) - 1]
             /\ phi[i] = -1 \/ (phi[i] \in Starts(text) /\ Below(text, phi[i], i))
             /\ \A q \in Starts(text) : Below(text, q, i) =>
                  phi[i] # -1 /\ (q = phi[i] \/ Below(text, q, phi[i]))
<1> DEFINE sa  == SuffixArray(text)
           phi == PhiOf(sa)
           h   == Rank(text, i)
<1>1. /\ sa \in [Starts(text) -> Starts(text)]
      /\ \A k \in Starts(text) : Rank(text, sa[k]) = k
      /\ \A p \in Starts(text) : sa[Rank(text, p)] = p
  BY SortedArray
<1>2. h \in Starts(text) /\ h \in Nat /\ Len(text) \in Nat /\ 0 \in Starts(text)
  BY RankType, StartIsPlace DEF Starts
<1> HIDE DEF sa, h
<1>3. (CHOOSE k \in DOMAIN sa : sa[k] = i) = h
  <2>1. sa[h] = i
    BY <1>1 DEF h
  <2>2. \A k \in DOMAIN sa : sa[k] = i => k = h
    BY <1>1 DEF h
  <2>3. DOMAIN sa = Starts(text)
    BY <1>1
  <2>4. QED
    BY <1>2, <2>1, <2>2, <2>3
<1>4. i = sa[0] <=> h = 0
  BY <1>1, <1>2 DEF h
<1>5. phi[i] = IF h = 0 THEN -1 ELSE sa[h - 1]
  <2>1. i \in DOMAIN sa
    BY <1>1
  <2>2. phi[i] = IF i = sa[0] THEN -1 ELSE sa[(CHOOSE k \in DOMAIN sa : sa[k] = i) - 1]
    BY <2>1 DEF PhiOf
  <2>3. QED
    BY <1>3, <1>4, <2>2
<1> HIDE DEF phi
<1>6. ASSUME h # 0
      PROVE  /\ phi[i] \in Starts(text) /\ Rank(text, phi[i]) = h - 1 /\ phi[i] # -1
             /\ Below(text, phi[i], i)
  <2>1. h - 1 \in Starts(text)
    BY <1>2, <1>6 DEF Starts
  <2>2. phi[i] \in Starts(text) /\ Rank(text, phi[i]) = h - 1
    BY <1>1, <1>5, <1>6, <2>1
  <2>3. phi[i] # -1
    BY <2>2, StartIsPlace
  <2>4. phi[i] # i
    BY <1>2, <2>2 DEF h
  <2>5. Below(text, phi[i], i) \/ Below(text, i, phi[i])
    BY <2>2, <2>4, BelowTotal, StartIsPlace
  <2>6. ~Below(text, i, phi[i])
    <3> SUFFICES ASSUME Below(text, i, phi[i]) PROVE FALSE
      OBVIOUS
    <3>1. h < h - 1
      BY <2>2, RankOrder DEF h
    <3>2. QED
      BY <1>2, <3>1
  <2>7. QED
    BY <2>2, <2>3, <2>5, <2>6
<1>7. ASSUME NEW q \in Starts(text), Below(text, q, i)
      PROVE  phi[i] # -1 /\ (q = phi[i] \/ Below(text, q, phi[i]))
  <2>1. Rank(text, q) < h /\ Rank(text, q) \in Nat
    BY <1>7, RankOrder, RankType DEF h, Starts
  <2>2. h # 0
    BY <1>2, <2>1
  <2>3. ~Below(text, phi[i], q)
    <3> SUFFICES ASSUME Below(text, phi[i], q) PROVE FALSE
      OBVIOUS
    <3>1. h - 1 < Rank(text, q)
      BY <1>6, <2>2, RankOrder
    <3>2. QED
      BY <1>2, <2>1, <3>1
  <2>4. QED
    BY <1>6, <2>2, <2>3, BelowTotal, StartIsPlace
<1>8. QED
  BY <1>5, <1>6, <1>7 DEF h, phi, sa

(***************************************************************************)
(* The lengths in text order.  What is carried over from one position to   *)
(* the next is shared there as well: of two neighbours that begin with the *)
(* same byte, what is behind it is in the same order, so what comes        *)
(* between them there shares no less.  Below the smallest suffix nothing   *)
(* is, so nothing is carried to it.                                        *)
(***************************************************************************)
LEMMA Carried ==
  ASSUME NEW text \in Seq(Byte), NEW i \in Starts(text), i + 1 \in Starts(text),
         NEW l \in Nat, l >= 1,
         PhiOf(SuffixArray(text))[i] # -1,
         Agree(text, i, PhiOf(SuffixArray(text))[i], l)
  PROVE  \/ l = 1
         \/ /\ PhiOf(SuffixArray(text))[i + 1] # -1
            /\ Agree(text, i + 1, PhiOf(SuffixArray(text))[i + 1], l - 1)
<1> DEFINE p == PhiOf(SuffixArray(text))[i]
           q == PhiOf(SuffixArray(text))[i + 1]
<1> SUFFICES ASSUME l # 1 PROVE q # -1 /\ Agree(text, i + 1, q, l - 1)
  OBVIOUS
<1>1. p \in Starts(text) /\ Below(text, p, i)
  BY PhiIsNext
<1>2. /\ q = -1 \/ (q \in Starts(text) /\ Below(text, q, i + 1))
      /\ \A o \in Starts(text) : Below(text, o, i + 1) => q # -1 /\ (o = q \/ Below(text, o, q))
  BY PhiIsNext
<1>3. Agree(text, i, p, l)
  OBVIOUS
<1> HIDE DEF p, q
<1>4. p \in Places(text) /\ i \in Places(text) /\ i + 1 \in Places(text) /\ l - 1 \in Nat
      /\ p \in Nat /\ Len(text) \in Nat
  BY <1>1, StartIsPlace
<1>5. Agree(text, p, i, l)
  BY <1>3, <1>4, AgreeSymmetric
<1>6. p + 1 \in Places(text) /\ Agree(text, p + 1, i + 1, l - 1) /\ Below(text, p + 1, i + 1)
  BY <1>1, <1>4, <1>5, BelowBehind
<1>7. p + 1 \in Starts(text)
  <2>1. p + l <= Len(text)
    BY <1>5 DEF Agree
  <2>2. QED
    BY <1>4, <2>1 DEF Starts
<1>8. q # -1 /\ q \in Starts(text) /\ q \in Places(text) /\ Below(text, q, i + 1)
      /\ (p + 1 = q \/ Below(text, p + 1, q))
  BY <1>2, <1>6, <1>7, StartIsPlace
<1>9. Agree(text, q, i + 1, l - 1)
  BY <1>4, <1>6, <1>8, Between
<1>10. QED
  BY <1>4, <1>8, <1>9, AgreeSymmetric

LEMMA PLCPAgrees ==
  ASSUME NEW text \in Seq(Byte), NEW i \in Starts(text)
  PROVE  LET phi  == PhiOf(SuffixArray(text))
             plcp == PLCP(text, phi)
         IN  /\ plcp[i] \in Nat
             /\ plcp[i] # 0 => phi[i] \in Starts(text) /\ Agree(text, i, phi[i], plcp[i])
<1> DEFINE phi  == PhiOf(SuffixArray(text))
           plcp == PLCP(text, phi)
           size == Len(text)
           G(k, c) == IF phi[k] = -1 THEN c ELSE Max({Common(text, k, phi[k], c) - 1, 0})
           H(f, k) == IF k = -1 THEN 0 ELSE IF phi[k] = -1 THEN f[k - 1]
                      ELSE Max({Common(text, k, phi[k], f[k - 1]) - 1, 0})
           Is(f, j) == f = [k \in -1 .. j - 1 |-> H(f, k)]
           Fits(c, k) == /\ c \in Nat
                         /\ k < size => /\ phi[k] = -1 => c = 0
                                        /\ phi[k] # -1 => Agree(text, k, phi[k], c)
<1>1. size \in Nat /\ i \in 0 .. size - 1 /\ Starts(text) = 0 .. size - 1
  BY StartIsPlace DEF Starts
<1>2. plcp = [k \in 0 .. size - 1 |->
                IF phi[k] = -1 THEN 0
                ELSE Common(text, k, phi[k], (CHOOSE f : Is(f, size))[k - 1])]
  BY DEF PLCP
<1>3. \A f, k : H(f, k) = IF k = -1 THEN 0 ELSE G(k, f[k - 1])
  OBVIOUS
<1> HIDE DEF H, plcp
<1>4. ASSUME NEW k \in 0 .. size - 1, phi[k] # -1, NEW c, Fits(c, k)
      PROVE  /\ phi[k] \in Starts(text)
             /\ Common(text, k, phi[k], c) \in Nat
             /\ Agree(text, k, phi[k], Common(text, k, phi[k], c))
  <2>1. k \in Starts(text)
    BY <1>1
  <2>2. phi[k] \in Starts(text)
    BY <1>4, <2>1, PhiIsNext
  <2>3. c \in Nat /\ Agree(text, k, phi[k], c)
    BY <1>1, <1>4
  <2>4. k \in Places(text) /\ phi[k] \in Places(text)
    BY <2>1, <2>2, StartIsPlace
  <2> HIDE DEF phi
  <2>5. QED
    BY <2>2, <2>3, <2>4, CommonIs
<1>5. Fits(0, 0)
  <2>1. ASSUME 0 < size, phi[0] # -1 PROVE Agree(text, 0, phi[0], 0)
    <3>1. phi[0] \in Starts(text)
      BY <1>1, <2>1, PhiIsNext
    <3> HIDE DEF phi
    <3>2. phi[0] \in Nat /\ phi[0] < Len(text) /\ Len(text) \in Nat
      BY <3>1, StartIsPlace
    <3>3. QED
      BY <3>2 DEF Agree
  <2>2. QED
    BY <2>1
<1>6. ASSUME NEW k \in 0 .. size - 1, NEW c, Fits(c, k) PROVE Fits(G(k, c), k + 1)
  <2>1. CASE phi[k] = -1
    <3>1. G(k, c) = 0 /\ c = 0
      BY <1>6, <2>1
    <3>2. ASSUME k + 1 < size, phi[k + 1] # -1 PROVE Agree(text, k + 1, phi[k + 1], 0)
      <4>1. k + 1 \in Starts(text)
        BY <1>1, <3>2
      <4>2. phi[k + 1] \in Starts(text)
        BY <3>2, <4>1, PhiIsNext
      <4> HIDE DEF phi
      <4>3. phi[k + 1] \in Nat /\ phi[k + 1] < Len(text) /\ Len(text) \in Nat /\ k + 1 < Len(text)
            /\ k + 1 \in Nat
        BY <4>1, <4>2, StartIsPlace
      <4>4. QED
        BY <4>3 DEF Agree
    <3>3. QED
      BY <3>1, <3>2
  <2>2. CASE phi[k] # -1
    <3> DEFINE l == Common(text, k, phi[k], c)
    <3>1. l \in Nat /\ Agree(text, k, phi[k], l)
      BY <1>4, <1>6, <2>2
    <3>2. G(k, c) = Max({l - 1, 0})
      BY <2>2
    <3> HIDE DEF l, G
    <3>3. G(k, c) = IF l = 0 THEN 0 ELSE l - 1
      <4>1. CASE l = 0
        <5>1. \E x \in {l - 1, 0} : \A y \in {l - 1, 0} : x >= y
          BY <4>1
        <5>2. QED
          BY <3>2, <4>1, <5>1 DEF Max
      <4>2. CASE l # 0
        <5>1. \E x \in {l - 1, 0} : \A y \in {l - 1, 0} : x >= y
          BY <3>1, <4>2
        <5>2. QED
          BY <3>1, <3>2, <4>2, <5>1 DEF Max
      <4>3. QED
        BY <4>1, <4>2
    <3>4. ASSUME k + 1 < size
          PROVE  /\ phi[k + 1] = -1 => G(k, c) = 0
                 /\ phi[k + 1] # -1 => Agree(text, k + 1, phi[k + 1], G(k, c))
      <4>1. k + 1 \in Starts(text) /\ k \in Starts(text)
        BY <1>1, <3>4
      <4>2. CASE l <= 1
        <5>1. G(k, c) = 0
          BY <3>1, <3>3, <4>2
        <5>2. phi[k + 1] # -1 => phi[k + 1] \in Starts(text)
          BY <4>1, PhiIsNext
        <5> HIDE DEF phi
        <5>3. phi[k + 1] # -1 => /\ phi[k + 1] \in Nat /\ phi[k + 1] < Len(text)
                                 /\ Len(text) \in Nat /\ k + 1 < Len(text) /\ k + 1 \in Nat
          BY <4>1, <5>2, StartIsPlace
        <5>4. QED
          BY <5>1, <5>3 DEF Agree
      <4>3. CASE l > 1
        <5>1. l = 1 \/ (phi[k + 1] # -1 /\ Agree(text, k + 1, phi[k + 1], l - 1))
          BY <2>2, <3>1, <4>1, <4>3, Carried
        <5>2. QED
          BY <3>1, <3>3, <4>3, <5>1
      <4>4. QED
        BY <3>1, <4>2, <4>3
    <3>5. G(k, c) \in Nat
      BY <3>1, <3>3
    <3> HIDE DEF phi
    <3>6. QED
      BY <3>4, <3>5
  <2>3. QED
    BY <2>1, <2>2
<1> HIDE DEF G
<1>7. \E f : Is(f, size)
  <2> DEFINE T == {j \in 0 .. size : \E f : Is(f, j)}
  <2>1. 0 \in T
    <3> DEFINE g == [k \in -1 .. 0 - 1 |-> 0]
    <3>1. \A k \in -1 .. 0 - 1 : H(g, k) = 0
      BY <1>3
    <3>2. Is(g, 0)
      BY <3>1
    <3> HIDE DEF g
    <3>3. QED
      BY <1>1, <3>2
  <2>2. ASSUME NEW j \in 0 .. size - 1, j \in T PROVE j + 1 \in T
    <3>1. PICK f : Is(f, j)
      BY <2>2
    <3> DEFINE g == [k \in -1 .. (j + 1) - 1 |-> IF k = j THEN G(j, f[j - 1]) ELSE f[k]]
    <3>2. \A k \in -1 .. j - 1 : f[k] = H(f, k)
      BY <3>1
    <3>3. ASSUME NEW k \in -1 .. (j + 1) - 1 PROVE g[k] = H(g, k)
      <4>1. CASE k = -1
        <5>1. g[k] = f[k] /\ k \in -1 .. j - 1
          BY <4>1
        <5> HIDE DEF g
        <5>2. QED
          BY <1>3, <3>2, <4>1, <5>1
      <4>2. CASE k \in 0 .. j - 1
        <5>1. g[k] = f[k] /\ g[k - 1] = f[k - 1] /\ k # -1
          BY <4>2
        <5>2. f[k] = H(f, k)
          BY <3>2, <4>2
        <5> HIDE DEF g
        <5>3. QED
          BY <1>3, <5>1, <5>2
      <4>3. CASE k = j
        <5>1. g[k] = G(j, f[j - 1]) /\ g[k - 1] = f[j - 1] /\ k # -1
          BY <4>3
        <5> HIDE DEF g
        <5>2. QED
          BY <1>3, <4>3, <5>1
      <4>4. QED
        BY <4>1, <4>2, <4>3
    <3>4. Is(g, j + 1)
      <4>1. g = [k \in -1 .. (j + 1) - 1 |-> g[k]]
        OBVIOUS
      <4> HIDE DEF g
      <4>2. QED
        BY <3>3, <4>1
    <3> HIDE DEF Is, g
    <3>5. QED
      BY <3>4
  <2> HIDE DEF T, Is, size
  <2>3. \A j \in 0 .. size : j \in T
    BY <1>1, <2>1, <2>2, SetInduction
  <2>4. size \in T
    BY <1>1, <2>3
  <2>5. QED
    BY <2>4 DEF T
<1>8. PICK cur : Is(cur, size) /\ cur = CHOOSE f : Is(f, size)
  <2> HIDE DEF Is
  <2>1. QED
    BY <1>7
<1>9. \A k \in -1 .. size - 1 : cur[k] = H(cur, k)
  BY <1>8
<1> DEFINE U == {k \in 0 .. size : Fits(cur[k - 1], k)}
<1>10. 0 \in U
  <2>1. cur[-1] = 0
    BY <1>1, <1>3, <1>9
  <2> HIDE DEF Fits
  <2>2. QED
    BY <1>1, <1>5, <2>1
<1>11. ASSUME NEW k \in 0 .. size - 1, k \in U PROVE k + 1 \in U
  <2>1. cur[k] = G(k, cur[k - 1])
    BY <1>3, <1>9
  <2>2. (k + 1) - 1 = k
    OBVIOUS
  <2> HIDE DEF Fits
  <2>3. Fits(cur[k], k + 1)
    BY <1>6, <1>11, <2>1
  <2>4. QED
    BY <2>2, <2>3
<1> HIDE DEF U, size, Fits
<1>12. \A k \in 0 .. size : k \in U
  BY <1>1, <1>10, <1>11, SetInduction
<1>13. Fits(cur[i - 1], i)
  BY <1>1, <1>12 DEF U
<1>14. plcp[i] = IF phi[i] = -1 THEN 0 ELSE Common(text, i, phi[i], cur[i - 1])
  BY <1>1, <1>2, <1>8
<1> HIDE DEF phi
<1>15. /\ plcp[i] \in Nat
       /\ plcp[i] # 0 => phi[i] \in Starts(text) /\ Agree(text, i, phi[i], plcp[i])
  <2>1. CASE phi[i] = -1
    BY <1>14, <2>1
  <2>2. CASE phi[i] # -1
    BY <1>1, <1>4, <1>13, <1>14, <2>2
  <2>3. QED
    BY <2>1, <2>2
<1>16. QED
  BY <1>15 DEF phi, plcp

-----------------------------------------------------------------------------
(***************************************************************************)
(* The words.                                                              *)
(***************************************************************************)
LcpLimit == (LCP_MAX + 1) * Tags

Words == 0 .. VISITED - 1

LEMMA Limits ==
  /\ PosLimit \in Nat \ {0} /\ LcpLimit \in Nat \ {0} /\ VISITED = PosLimit * LcpLimit
  /\ VISITED \in Nat \ {0} /\ Tags \in Nat \ {0} /\ LCP_MAX \in Nat \ {0}
  /\ LcpLimit = (LCP_MAX + 1) * Tags
<1>1. Tags \in Nat \ {0} /\ LCP_MAX \in Nat \ {0}
  BY MatchFinderAssumption
<1>2. PosLimit \in Nat \ {0}
  BY FormatAssumption DEF PosLimit
<1> DEFINE a == LCP_MAX + 1
<1>3. a \in Nat \ {0}
  BY <1>1
<1>4. VISITED = (PosLimit * a) * Tags /\ LcpLimit = a * Tags
  BY DEF VISITED, LcpLimit
<1> HIDE DEF a
<1>5. (PosLimit * a) * Tags = PosLimit * (a * Tags)
  BY <1>1, <1>2, <1>3
<1>6. a * Tags \in Nat \ {0}
  BY <1>1, <1>3
<1>7. PosLimit * LcpLimit \in Nat \ {0}
  BY <1>2, <1>4, <1>6
<1>8. QED
  BY <1>1, <1>2, <1>4, <1>5, <1>6, <1>7 DEF LcpLimit

(* Less by a quotient. *)
LEMMA QuotientOrder ==
  ASSUME NEW a \in Nat, NEW c \in Nat, NEW b \in Nat \ {0}, a <= c
  PROVE  a \div b <= c \div b
<1> DEFINE d == a \div b
           e == c \div b
<1>1. /\ d \in Nat /\ e \in Nat /\ a % b \in 0 .. b - 1 /\ c % b \in 0 .. b - 1
      /\ a = d * b + (a % b) /\ c = e * b + (c % b)
  BY DivBounds
<1> HIDE DEF d, e
<1> SUFFICES ASSUME e < d PROVE FALSE
  BY <1>1 DEF d, e
<1>2. e + 1 <= d
  BY <1>1
<1>3. (e + 1) * b <= d * b /\ (e + 1) * b \in Int /\ d * b \in Int
  BY <1>1, <1>2, ProductOrder
<1>4. (e + 1) * b = e * b + b
  BY <1>1
<1>5. e * b \in Int
  BY <1>1
<1>6. QED
  BY <1>1, <1>3, <1>4, <1>5

LEMMA WordSplit ==
  ASSUME NEW v \in Words
  PROVE  /\ Pos(v) \in 0 .. PosLimit - 1 /\ Lcp(v) \in 0 .. LcpLimit - 1
         /\ v = Lcp(v) * PosLimit + Pos(v) /\ Lcp(v) = v \div PosLimit
         /\ Length(v) \in 0 .. LCP_MAX /\ v % VISITED = v
<1>1. v \in Nat /\ v < VISITED
  BY Limits DEF Words
<1>2. v % VISITED = v
  <2>1. v = 0 * VISITED + v /\ v \in 0 .. VISITED - 1
    BY <1>1, Limits
  <2>2. QED
    BY <1>1, <2>1, Limits, Quotient
<1>3. Lcp(v) = v \div PosLimit
  BY <1>2 DEF Lcp, LCP_WEIGHT
<1>4. /\ Lcp(v) \in Nat /\ Pos(v) \in 0 .. PosLimit - 1
      /\ v = Lcp(v) * PosLimit + Pos(v)
  <2>1. /\ v \div PosLimit \in Nat /\ v % PosLimit \in 0 .. PosLimit - 1
        /\ v = (v \div PosLimit) * PosLimit + (v % PosLimit)
    BY <1>1, Limits, DivBounds
  <2>2. QED
    BY <1>3, <2>1 DEF Pos
<1>5. Lcp(v) < LcpLimit
  <2> SUFFICES ASSUME LcpLimit <= Lcp(v) PROVE FALSE
    BY <1>4, Limits
  <2>1. LcpLimit * PosLimit <= Lcp(v) * PosLimit /\ Lcp(v) * PosLimit \in Int
    BY <1>4, Limits, ProductOrder
  <2>2. LcpLimit * PosLimit = VISITED
    BY Limits
  <2>3. QED
    BY <1>1, <1>4, <2>1, <2>2, Limits
<1>6. Length(v) \in 0 .. LCP_MAX
  <2> DEFINE d == Length(v)
             o == Lcp(v) % Tags
  <2>1. d \in Nat /\ o \in 0 .. Tags - 1 /\ Lcp(v) = d * Tags + o
    BY <1>4, Limits, DivBounds DEF Length
  <2> HIDE DEF d, o
  <2> SUFFICES ASSUME LCP_MAX + 1 <= d PROVE FALSE
    BY <2>1, Limits DEF d
  <2>2. (LCP_MAX + 1) * Tags <= d * Tags /\ d * Tags \in Int
    BY <2>1, Limits, ProductOrder
  <2>3. QED
    BY <1>4, <1>5, <2>1, <2>2, Limits
<1>7. QED
  BY <1>2, <1>3, <1>4, <1>5, <1>6, Limits

LEMMA WordMade ==
  ASSUME NEW p \in 0 .. PosLimit - 1, NEW l \in 0 .. LcpLimit - 1
  PROVE  /\ l * PosLimit + p \in Words
         /\ Pos(l * PosLimit + p) = p /\ Lcp(l * PosLimit + p) = l
<1> DEFINE v == l * PosLimit + p
<1>1. l \in Nat /\ p \in Nat /\ l * PosLimit \in Nat
  BY Limits
<1>2. v \in Nat
  BY <1>1
<1>3. v < VISITED
  <2>1. (l + 1) * PosLimit <= LcpLimit * PosLimit
    BY <1>1, Limits, ProductOrder
  <2>2. (l + 1) * PosLimit = l * PosLimit + PosLimit
    BY <1>1, Limits
  <2>3. LcpLimit * PosLimit = VISITED
    BY Limits
  <2>4. QED
    BY <1>1, <2>1, <2>2, <2>3, Limits
<1>4. v \div PosLimit = l /\ v % PosLimit = p
  <2>1. v = l * PosLimit + p
    OBVIOUS
  <2> HIDE DEF v
  <2>2. QED
    BY <1>1, <1>2, <2>1, Limits, Quotient
<1>5. v \in Words
  BY <1>2, <1>3, Limits DEF Words
<1> HIDE DEF v
<1>6. Lcp(v) = l /\ Pos(v) = p
  BY <1>4, <1>5, WordSplit DEF Pos
<1>7. QED
  BY <1>5, <1>6 DEF v

LEMMA WordOrder ==
  ASSUME NEW v \in Words, NEW w \in Words
  PROVE  /\ v <= w => Lcp(v) <= Lcp(w)
         /\ Lcp(v) < Lcp(w) => v < w
         /\ Lcp(v) <= Lcp(w) => Length(v) <= Length(w)
<1>1. v \in Nat /\ w \in Nat
  BY Limits DEF Words
<1>2. /\ Lcp(v) \in Nat /\ Lcp(w) \in Nat
      /\ Lcp(v) = v \div PosLimit /\ Lcp(w) = w \div PosLimit
  BY WordSplit, Limits
<1>3. v <= w => Lcp(v) <= Lcp(w)
  BY <1>1, <1>2, Limits, QuotientOrder
<1>4. w <= v => Lcp(w) <= Lcp(v)
  BY <1>1, <1>2, Limits, QuotientOrder
<1>5. Lcp(v) <= Lcp(w) => Length(v) <= Length(w)
  BY <1>2, Limits, QuotientOrder DEF Length
<1>6. QED
  BY <1>1, <1>2, <1>3, <1>4, <1>5

LEMMA VisitedParts ==
  ASSUME NEW q \in 0 .. PosLimit - 1
  PROVE  /\ Visited(q) \in Nat /\ Visited(q) >= VISITED /\ Visited(q) \notin Words
         /\ Visited(q) - VISITED = q /\ Visited(q) % VISITED = q /\ Lcp(Visited(q)) = 0
<1>1. q \in Nat /\ PosLimit <= VISITED
  <2>1. 1 * PosLimit <= LcpLimit * PosLimit
    BY Limits, ProductOrder
  <2>2. QED
    BY <2>1, Limits
<1>2. q \in 0 .. VISITED - 1
  BY <1>1, Limits
<1>3. Visited(q) = 1 * VISITED + q /\ Visited(q) \in Nat
  BY <1>1, Limits DEF Visited
<1>4. Visited(q) % VISITED = q
  BY <1>2, <1>3, Limits, Quotient
<1>5. q \div PosLimit = 0
  <2>1. q = 0 * PosLimit + q
    BY <1>1, Limits
  <2>2. QED
    BY <1>1, <2>1, Limits, Quotient
<1>6. Lcp(Visited(q)) = 0
  BY <1>4, <1>5 DEF Lcp, LCP_WEIGHT
<1>7. QED
  BY <1>1, <1>3, <1>4, <1>6, Limits DEF Words, Visited

LEMMA WordZero == 0 \in Words /\ Pos(0) = 0 /\ Lcp(0) = 0 /\ Length(0) = 0
<1>1. 0 \in 0 .. PosLimit - 1 /\ 0 \in 0 .. LcpLimit - 1 /\ 0 * PosLimit + 0 = 0
  BY Limits
<1>2. 0 \in Words /\ Pos(0) = 0 /\ Lcp(0) = 0
  BY <1>1, WordMade
<1>3. 0 \div Tags = 0
  BY Limits, Quotient
<1>4. QED
  BY <1>2, <1>3 DEF Length

LEMMA TaggedLength ==
  ASSUME NEW v \in Words, Lcp(v) >= Tags
  PROVE  Length(v) \in 1 .. LCP_MAX
<1>1. Lcp(v) \in Nat /\ Length(v) \in 0 .. LCP_MAX
  BY WordSplit, Limits
<1>2. Tags \div Tags <= Lcp(v) \div Tags
  BY <1>1, Limits, QuotientOrder
<1>3. Tags \div Tags = 1
  <2>1. Tags = 1 * Tags + 0 /\ 0 \in 0 .. Tags - 1
    BY Limits
  <2>2. QED
    BY <2>1, Limits, Quotient
<1>4. QED
  BY <1>1, <1>2, <1>3, Limits DEF Length

(***************************************************************************)
(* The array the intervals are built from: its words have a position and   *)
(* a tagged length that the suffix before it shares.                       *)
(***************************************************************************)
ArrayOK(text, tagged) ==
  /\ tagged \in [Starts(text) -> Words]
  /\ \A k \in Starts(text) :
       Pos(tagged[k]) \in Starts(text) /\ (Lcp(tagged[k]) = 0 \/ Lcp(tagged[k]) >= Tags)
  /\ tagged[0] = Pos(tagged[0])
  /\ \A k \in Starts(text) \ {0} :
       Agree(text, Pos(tagged[k - 1]), Pos(tagged[k]), Length(tagged[k]))

LEMMA TaggedWord ==
  ASSUME NEW p \in 0 .. PosLimit - 1, NEW l \in Nat \ {0}, NEW t \in 0 .. Tags - 1
  PROVE  LET v == p + LCP_WEIGHT * (Min({l, LCP_MAX}) * Tags + t)
         IN  v \in Words /\ Pos(v) = p /\ Lcp(v) >= Tags /\ Length(v) \in 0 .. l
<1> DEFINE c == Min({l, LCP_MAX})
           h == c * Tags + t
           v == p + LCP_WEIGHT * h
<1>1. c \in Nat \ {0} /\ c <= l /\ c <= LCP_MAX
  <2>1. \E x \in {l, LCP_MAX} : \A y \in {l, LCP_MAX} : x <= y
    BY Limits
  <2>2. c \in {l, LCP_MAX} /\ c <= l /\ c <= LCP_MAX
    BY <2>1 DEF Min
  <2>3. QED
    BY <2>2, Limits
<1> HIDE DEF c
<1>2. t \in Nat /\ p \in Nat /\ c * Tags \in Nat
  BY <1>1, Limits
<1>3. h \in 0 .. LcpLimit - 1 /\ h >= Tags
  <2>1. (c + 1) * Tags <= (LCP_MAX + 1) * Tags
    BY <1>1, Limits, ProductOrder
  <2>2. (c + 1) * Tags = c * Tags + Tags
    BY <1>1, Limits
  <2>3. 1 * Tags <= c * Tags
    BY <1>1, Limits, ProductOrder
  <2>4. QED
    BY <1>2, <2>1, <2>2, <2>3, Limits
<1>4. h \div Tags = c
  <2>1. h = c * Tags + t /\ h \in Nat
    BY <1>2
  <2> HIDE DEF h
  <2>2. QED
    BY <1>1, <1>2, <2>1, Limits, Quotient
<1> HIDE DEF h
<1>5. v = h * PosLimit + p
  BY <1>2, <1>3, Limits DEF LCP_WEIGHT
<1> HIDE DEF v
<1>6. v \in Words /\ Pos(v) = p /\ Lcp(v) = h
  BY <1>3, <1>5, WordMade
<1>7. Length(v) = c
  BY <1>4, <1>6 DEF Length
<1>8. QED
  BY <1>1, <1>3, <1>6, <1>7 DEF v, h, c

LEMMA TaggedArrayIs ==
  ASSUME NEW w \in Inputs
  PROVE  ArrayOK(w.text, TaggedArray(w.text))
<1> DEFINE text == w.text
           sa   == SuffixArray(text)
           phi  == PhiOf(sa)
           plcp == PLCP(text, phi)
           T    == TaggedArray(text)
<1>1. /\ text \in Seq(Byte) /\ Len(text) \in Nat \ {0} /\ Len(text) <= PosLimit
      /\ \A p \in Starts(text) : Tag(p) \in 0 .. Tags - 1
  <2>1. /\ text \in Seq(Byte) /\ w.dictionary \in 0 .. Len(text) - 1 /\ Len(text) <= PosLimit
        /\ \A p \in 0 .. Len(text) : Tag(p) \in 0 .. Tags - 1
    BY MatchFinderAssumption DEF PosLimit
  <2> HIDE DEF text
  <2>2. QED
    BY <2>1 DEF Starts
<1>2. T = [k \in DOMAIN sa |->
             IF k = 0 \/ plcp[sa[k]] = 0 THEN sa[k]
             ELSE sa[k] + LCP_WEIGHT * (Min({plcp[sa[k]], LCP_MAX}) * Tags + Tag(sa[k]))]
  BY DEF TaggedArray, PhiOf
<1> HIDE DEF text
<1>3. /\ sa \in [Starts(text) -> Starts(text)]
      /\ \A k \in Starts(text) : Rank(text, sa[k]) = k
  BY <1>1, SortedArray
<1>4. ASSUME NEW i \in Starts(text)
      PROVE  /\ plcp[i] \in Nat
             /\ plcp[i] # 0 => phi[i] \in Starts(text) /\ Agree(text, i, phi[i], plcp[i])
  BY <1>1, PLCPAgrees
<1>5. ASSUME NEW i \in Starts(text)
      PROVE  phi[i] = IF Rank(text, i) = 0 THEN -1 ELSE sa[Rank(text, i) - 1]
  BY <1>1, PhiIsNext
<1> HIDE DEF T, plcp, phi, sa
<1>6. Starts(text) = 0 .. Len(text) - 1 /\ 0 \in Starts(text)
  BY <1>1 DEF Starts
<1>7. ASSUME NEW k \in Starts(text)
      PROVE  /\ T[k] \in Words /\ Pos(T[k]) = sa[k] /\ Length(T[k]) \in 0 .. plcp[sa[k]]
             /\ Lcp(T[k]) = 0 \/ Lcp(T[k]) >= Tags
             /\ k = 0 => T[k] = sa[k]
  <2>1. PICK p \in Starts(text) : p = sa[k]
    BY <1>3
  <2>2. PICK l \in Nat : l = plcp[p]
    BY <1>4
  <2>3. p \in 0 .. PosLimit - 1 /\ Tag(p) \in 0 .. Tags - 1
    BY <1>1, <1>6, Limits
  <2>4. T[k] = IF k = 0 \/ l = 0 THEN p
               ELSE p + LCP_WEIGHT * (Min({l, LCP_MAX}) * Tags + Tag(p))
    BY <1>2, <1>3, <2>1, <2>2
  <2>5. CASE k = 0 \/ l = 0
    <3>1. T[k] = p
      BY <2>4, <2>5
    <3>2. 0 \in 0 .. LcpLimit - 1 /\ p = 0 * PosLimit + p
      BY <2>3, Limits
    <3>3. p \in Words /\ Pos(p) = p /\ Lcp(p) = 0
      BY <2>3, <3>2, WordMade
    <3>4. 0 \div Tags = 0
      BY Limits, Quotient
    <3>5. Length(p) = 0
      BY <3>3, <3>4 DEF Length
    <3>6. QED
      BY <2>1, <2>2, <3>1, <3>3, <3>5
  <2>6. CASE k # 0 /\ l # 0
    <3>1. PICK t \in 0 .. Tags - 1 : t = Tag(p)
      BY <2>3
    <3>2. T[k] = p + LCP_WEIGHT * (Min({l, LCP_MAX}) * Tags + t)
      BY <2>4, <2>6, <3>1
    <3>3. T[k] \in Words /\ Pos(T[k]) = p /\ Lcp(T[k]) >= Tags /\ Length(T[k]) \in 0 .. l
      BY <2>3, <2>6, <3>2, TaggedWord
    <3>4. QED
      BY <2>1, <2>2, <2>6, <3>3
  <2>7. QED
    BY <2>5, <2>6
<1>8. T \in [Starts(text) -> Words]
  BY <1>2, <1>3, <1>7
<1>9. ASSUME NEW k \in Starts(text) \ {0}
      PROVE  Agree(text, Pos(T[k - 1]), Pos(T[k]), Length(T[k]))
  <2>1. k - 1 \in Starts(text) /\ k \in Starts(text) /\ k # 0
    BY <1>1, <1>6
  <2>2. PICK p \in Starts(text), q \in Starts(text) : p = sa[k] /\ q = sa[k - 1]
    BY <1>3, <2>1
  <2>3. Pos(T[k]) = p /\ Pos(T[k - 1]) = q /\ Length(T[k]) \in 0 .. plcp[p]
    BY <1>7, <2>1, <2>2
  <2>4. phi[p] = q
    BY <1>3, <1>5, <2>1, <2>2
  <2>5. Len(text) \in Nat /\ p \in Places(text) /\ q \in Places(text)
    BY <1>1, StartIsPlace
  <2>6. CASE plcp[p] = 0
    <3>1. Length(T[k]) = 0
      BY <2>3, <2>6
    <3>2. Agree(text, q, p, 0)
      BY <2>5 DEF Agree, Places
    <3>3. QED
      BY <2>3, <3>1, <3>2
  <2>7. CASE plcp[p] # 0
    <3>1. plcp[p] \in Nat /\ Agree(text, p, q, plcp[p])
      BY <1>4, <2>4, <2>7
    <3>2. Agree(text, q, p, plcp[p])
      BY <1>1, <2>5, <3>1, AgreeSymmetric
    <3>3. Agree(text, q, p, Length(T[k]))
      BY <1>1, <2>3, <2>5, <3>1, <3>2, AgreeShorter
    <3>4. QED
      BY <2>3, <3>3
  <2>8. QED
    BY <2>6, <2>7
<1>10. QED
  <2>1. \A k \in Starts(text) : Pos(T[k]) \in Starts(text) /\ (Lcp(T[k]) = 0 \/ Lcp(T[k]) >= Tags)
    BY <1>3, <1>7
  <2>2. T[0] = Pos(T[0])
    BY <1>6, <1>7
  <2>3. QED
    BY <1>8, <1>9, <2>1, <2>2 DEF ArrayOK, T, text

-----------------------------------------------------------------------------
(***************************************************************************)
(* The tree of intervals: how many there are, the word of each and one of  *)
(* the suffixes it was opened for.  A position is of an interval if it     *)
(* begins with as much of that suffix as the word says.                    *)
(***************************************************************************)
TreeOK(text, tree) ==
  /\ tree.count \in 1 .. Len(text)
  /\ tree.rep \in [Starts(text) -> Starts(text)]
  /\ tree.word \in [Starts(text) -> Words]
  /\ tree.word[0] = 0
  /\ \A k \in 1 .. tree.count - 1 : Pos(tree.word[k]) = k /\ Lcp(tree.word[k]) >= Tags

Of(text, tree, p, v) ==
  /\ Pos(v) \in 0 .. tree.count - 1 /\ v = tree.word[Pos(v)]
  /\ Agree(text, p, tree.rep[Pos(v)], Length(v))

Inside(text, tree, k, v) == Of(text, tree, tree.rep[k], v) /\ Lcp(v) < Lcp(tree.word[k])

Grown(tree, p, l) ==
  [count |-> tree.count + 1,
   rep   |-> [tree.rep EXCEPT ![tree.count] = p],
   word  |-> [tree.word EXCEPT ![tree.count] = l * LCP_WEIGHT + tree.count]]

LEMMA AgreeVia ==
  ASSUME NEW text \in Seq(Byte), NEW p \in Starts(text), NEW q \in Starts(text),
         NEW o \in Starts(text), NEW l \in Nat, NEW k \in Nat,
         Agree(text, p, q, l), Agree(text, q, o, k), NEW h \in 0 .. l, h <= k
  PROVE  Agree(text, p, o, h) /\ Agree(text, o, p, h)
<1>1. p \in Places(text) /\ q \in Places(text) /\ o \in Places(text) /\ h \in Nat /\ h \in 0 .. k
  BY StartIsPlace
<1>2. Agree(text, p, q, h) /\ Agree(text, q, o, h)
  BY <1>1, AgreeShorter
<1>3. Agree(text, p, o, h)
  BY <1>1, <1>2, AgreeThrough
<1>4. QED
  BY <1>1, <1>3, AgreeSymmetric

LEMMA OfTypes ==
  ASSUME NEW text \in Seq(Byte), NEW tree, TreeOK(text, tree), NEW p \in Starts(text), NEW v,
         Of(text, tree, p, v)
  PROVE  /\ v \in Words /\ Pos(v) \in Starts(text) /\ tree.rep[Pos(v)] \in Starts(text)
         /\ Length(v) \in 0 .. LCP_MAX /\ Length(v) \in Nat
         /\ Lcp(v) # 0 <=> Pos(v) # 0
         /\ Pos(v) # 0 => Lcp(v) >= Tags
         /\ Pos(v) # 0 => Pos(v) \in 1 .. tree.count - 1
         /\ Pos(v) = 0 => v = 0
<1>1. /\ Pos(v) \in 0 .. tree.count - 1 /\ v = tree.word[Pos(v)]
      /\ tree.count \in 1 .. Len(text) /\ Len(text) \in Nat
  BY DEF Of, TreeOK
<1>2. Pos(v) \in Starts(text)
  BY <1>1 DEF Starts
<1>3. v \in Words /\ tree.rep[Pos(v)] \in Starts(text)
  BY <1>1, <1>2 DEF TreeOK
<1>4. Length(v) \in 0 .. LCP_MAX /\ Lcp(v) \in Nat
  BY <1>3, WordSplit, Limits
<1>5. CASE Pos(v) = 0
  <2>1. v = 0
    BY <1>1, <1>5 DEF TreeOK
  <2>2. QED
    BY <1>2, <1>3, <1>4, <1>5, <2>1, WordZero, Limits
<1>6. CASE Pos(v) # 0
  <2>1. Pos(v) \in 1 .. tree.count - 1
    BY <1>1, <1>6
  <2>2. Lcp(v) >= Tags
    BY <1>1, <2>1 DEF TreeOK
  <2>3. QED
    BY <1>2, <1>3, <1>4, <1>6, <2>1, <2>2, Limits
<1>7. QED
  BY <1>5, <1>6

LEMMA OfRoot ==
  ASSUME NEW text \in Seq(Byte), NEW tree, TreeOK(text, tree), NEW p \in Starts(text)
  PROVE  Of(text, tree, p, 0)
<1>1. 0 \in 0 .. tree.count - 1 /\ tree.word[0] = 0 /\ 0 \in Starts(text) /\ Len(text) \in Nat
  BY DEF TreeOK, Starts
<1>2. tree.rep[0] \in Starts(text)
  BY <1>1 DEF TreeOK
<1>3. Agree(text, p, tree.rep[0], 0)
  <2>1. PICK q \in Starts(text) : q = tree.rep[0]
    BY <1>2
  <2>2. p \in Nat /\ q \in Nat /\ p < Len(text) /\ q < Len(text)
    BY StartIsPlace
  <2>3. Agree(text, p, q, 0)
    BY <1>1, <2>2 DEF Agree
  <2>4. QED
    BY <2>1, <2>3
<1>4. QED
  BY <1>1, <1>3, WordZero DEF Of

(* Positions of one interval begin with the same bytes. *)
LEMMA OfBoth ==
  ASSUME NEW text \in Seq(Byte), NEW tree, TreeOK(text, tree), NEW p \in Starts(text),
         NEW q \in Starts(text), NEW v, Of(text, tree, p, v), Of(text, tree, q, v)
  PROVE  Agree(text, p, q, Length(v))
<1>1. /\ tree.rep[Pos(v)] \in Starts(text) /\ Length(v) \in Nat
  BY OfTypes
<1>2. /\ Agree(text, p, tree.rep[Pos(v)], Length(v))
      /\ Agree(text, q, tree.rep[Pos(v)], Length(v))
  BY DEF Of
<1>3. PICK o \in Starts(text), l \in Nat : o = tree.rep[Pos(v)] /\ l = Length(v)
  BY <1>1
<1>4. Agree(text, p, o, l) /\ Agree(text, q, o, l)
  BY <1>2, <1>3
<1>5. p \in Places(text) /\ q \in Places(text) /\ o \in Places(text)
  BY StartIsPlace
<1>6. Agree(text, o, q, l)
  BY <1>4, <1>5, AgreeSymmetric
<1>7. Agree(text, p, q, l)
  BY <1>4, <1>5, <1>6, AgreeThrough
<1>8. QED
  BY <1>3, <1>7

(* What begins with as many of the same bytes is of the interval as well. *)
LEMMA OfOther ==
  ASSUME NEW text \in Seq(Byte), NEW tree, TreeOK(text, tree), NEW p \in Starts(text),
         NEW q \in Starts(text), NEW v, Of(text, tree, p, v),
         NEW l \in Nat, Length(v) <= l, Agree(text, p, q, l) \/ Agree(text, q, p, l)
  PROVE  Of(text, tree, q, v)
<1>1. /\ tree.rep[Pos(v)] \in Starts(text) /\ Length(v) \in Nat
  BY OfTypes
<1>2. PICK o \in Starts(text), h \in Nat : o = tree.rep[Pos(v)] /\ h = Length(v)
  BY <1>1
<1>3. Agree(text, p, o, h)
  BY <1>2 DEF Of
<1>4. p \in Places(text) /\ q \in Places(text)
  BY StartIsPlace
<1>5. Agree(text, q, p, l)
  BY <1>4, AgreeSymmetric
<1>6. h \in 0 .. l
  BY <1>2
<1>7. Agree(text, q, o, h)
  BY <1>3, <1>5, <1>6, AgreeVia
<1>8. QED
  BY <1>2, <1>7 DEF Of

(* What is of an interval is of the one it lies in. *)
LEMMA OfUp ==
  ASSUME NEW text \in Seq(Byte), NEW tree, TreeOK(text, tree), NEW p \in Starts(text),
         NEW v, Of(text, tree, p, v), NEW above, Inside(text, tree, Pos(v), above)
  PROVE  Of(text, tree, p, above)
<1>1. /\ tree.rep[Pos(v)] \in Starts(text) /\ Length(v) \in Nat /\ v \in Words
  BY OfTypes
<1>2. PICK o \in Starts(text) : o = tree.rep[Pos(v)]
  BY <1>1
<1>3. Of(text, tree, o, above) /\ Lcp(above) < Lcp(v)
  BY <1>2 DEF Inside, Of
<1>4. above \in Words
  BY <1>3, OfTypes
<1>5. Lcp(above) \in Nat /\ Lcp(v) \in Nat
  BY <1>1, <1>4, WordSplit, Limits
<1>6. Length(above) <= Length(v)
  BY <1>1, <1>3, <1>4, <1>5, WordOrder
<1>7. Agree(text, p, o, Length(v))
  BY <1>2 DEF Of
<1>8. QED
  BY <1>1, <1>3, <1>6, <1>7, OfOther

LEMMA Grows ==
  ASSUME NEW text \in Seq(Byte), Len(text) <= PosLimit, NEW tree, TreeOK(text, tree),
         tree.count < Len(text), NEW p \in Starts(text), NEW l \in Tags .. LcpLimit - 1,
         p + (l \div Tags) <= Len(text)
  PROVE  LET new == l * LCP_WEIGHT + tree.count
         IN  /\ TreeOK(text, Grown(tree, p, l)) /\ Of(text, Grown(tree, p, l), p, new)
             /\ Grown(tree, p, l).count = tree.count + 1
             /\ new \in Words /\ Pos(new) = tree.count /\ Lcp(new) = l
             /\ new = Grown(tree, p, l).word[tree.count]
             /\ \A q, v : Of(text, tree, q, v) => Of(text, Grown(tree, p, l), q, v)
             /\ \A k \in 0 .. tree.count - 1 : Grown(tree, p, l).word[k] = tree.word[k]
             /\ \A k \in 0 .. tree.count - 1 : \A v :
                  Inside(text, tree, k, v) => Inside(text, Grown(tree, p, l), k, v)
<1> DEFINE new == l * LCP_WEIGHT + tree.count
           G   == Grown(tree, p, l)
<1>1. PICK i \in Nat : i = tree.count /\ i \in 1 .. Len(text)
  BY DEF TreeOK
<1>2. Len(text) \in Nat /\ i \in Starts(text) /\ i \in 0 .. PosLimit - 1
      /\ l \in 0 .. LcpLimit - 1 /\ l \in Nat
  BY <1>1, Limits DEF Starts
<1>3. new \in Words /\ Pos(new) = i /\ Lcp(new) = l
  BY <1>1, <1>2, WordMade DEF LCP_WEIGHT
<1>4. /\ tree.rep \in [Starts(text) -> Starts(text)] /\ tree.word \in [Starts(text) -> Words]
      /\ tree.word[0] = 0
      /\ \A k \in 1 .. i - 1 : Pos(tree.word[k]) = k /\ Lcp(tree.word[k]) >= Tags
  BY <1>1 DEF TreeOK
<1>5. /\ G.count = i + 1 /\ G.rep = [tree.rep EXCEPT ![i] = p]
      /\ G.word = [tree.word EXCEPT ![i] = new]
  BY <1>1 DEF Grown
<1> HIDE DEF new, G
<1>6. /\ G.rep \in [Starts(text) -> Starts(text)] /\ G.word \in [Starts(text) -> Words]
      /\ G.rep[i] = p /\ G.word[i] = new
  BY <1>2, <1>3, <1>4, <1>5
<1>7. ASSUME NEW k \in 0 .. i - 1
      PROVE  G.rep[k] = tree.rep[k] /\ G.word[k] = tree.word[k]
  <2>1. k \in Starts(text) /\ k # i
    BY <1>2, <1>7 DEF Starts
  <2>2. QED
    BY <1>4, <1>5, <2>1
<1>8. TreeOK(text, G)
  <2>1. G.count \in 1 .. Len(text)
    BY <1>1, <1>2, <1>5
  <2>2. G.word[0] = 0
    BY <1>1, <1>4, <1>7
  <2>3. ASSUME NEW k \in 1 .. G.count - 1 PROVE Pos(G.word[k]) = k /\ Lcp(G.word[k]) >= Tags
    <3>1. k = i \/ (k \in 1 .. i - 1 /\ k \in 0 .. i - 1)
      BY <1>5
    <3>2. QED
      BY <1>3, <1>4, <1>6, <1>7, <3>1
  <2>4. QED
    BY <1>6, <2>1, <2>2, <2>3 DEF TreeOK
<1>9. Of(text, G, p, new)
  <2>1. i \in 0 .. G.count - 1
    BY <1>5
  <2>2. new \in Words /\ Length(new) \in 0 .. LCP_MAX
    BY <1>3, WordSplit
  <2>3. Agree(text, p, p, Length(new))
    <3>1. Length(new) = l \div Tags /\ Length(new) \in Nat
      BY <1>3, <2>2, Limits DEF Length
    <3>2. p \in Places(text)
      BY StartIsPlace
    <3>3. QED
      BY <3>1, <3>2, AgreeSame
  <2>4. QED
    BY <1>3, <1>6, <2>1, <2>3 DEF Of
<1>10. ASSUME NEW q, NEW v, Of(text, tree, q, v) PROVE Of(text, G, q, v)
  <2>1. /\ Pos(v) \in 0 .. i - 1 /\ v = tree.word[Pos(v)]
        /\ Agree(text, q, tree.rep[Pos(v)], Length(v))
    BY <1>1, <1>10 DEF Of
  <2>2. G.rep[Pos(v)] = tree.rep[Pos(v)] /\ G.word[Pos(v)] = tree.word[Pos(v)]
        /\ Pos(v) \in 0 .. G.count - 1
    BY <1>5, <1>7, <2>1
  <2>3. QED
    BY <2>1, <2>2 DEF Of
<1>11. ASSUME NEW k \in 0 .. i - 1, NEW v, Inside(text, tree, k, v)
       PROVE  Inside(text, G, k, v)
  BY <1>7, <1>10, <1>11 DEF Inside
<1>12. QED
  BY <1>1, <1>3, <1>5, <1>6, <1>7, <1>8, <1>9, <1>10, <1>11 DEF new, G

(***************************************************************************)
(* The stack of open intervals: position p is of all of them, and each     *)
(* lies in the one before it.                                              *)
(***************************************************************************)
StackOK(text, tree, p, stack) ==
  /\ stack \in Seq(Words) /\ Len(stack) >= 1 /\ stack[1] = 0
  /\ \A d \in 1 .. Len(stack) : Of(text, tree, p, stack[d])
  /\ \A c, d \in 1 .. Len(stack) : c < d => Lcp(stack[c]) < Lcp(stack[d])

LEMMA StackTop ==
  ASSUME NEW text \in Seq(Byte), NEW tree, TreeOK(text, tree), NEW p \in Starts(text), NEW stack,
         StackOK(text, tree, p, stack)
  PROVE  /\ Len(stack) \in Nat /\ Len(stack) \in 1 .. Len(stack)
         /\ Last(stack) = stack[Len(stack)] /\ Last(stack) \in Words
         /\ Of(text, tree, p, Last(stack))
         /\ \A d \in 1 .. Len(stack) : stack[d] \in Words /\ Lcp(stack[d]) <= Lcp(Last(stack))
         /\ Lcp(Last(stack)) # 0 => Len(stack) >= 2
<1>1. /\ stack \in Seq(Words) /\ Len(stack) \in Nat /\ Len(stack) >= 1 /\ stack[1] = 0
      /\ Len(stack) \in 1 .. Len(stack)
  BY DEF StackOK
<1>2. Last(stack) = stack[Len(stack)]
  BY DEF Last
<1>3. \A d \in 1 .. Len(stack) : Of(text, tree, p, stack[d]) /\ stack[d] \in Words
  BY <1>1 DEF StackOK
<1>4. ASSUME NEW d \in 1 .. Len(stack) PROVE Lcp(stack[d]) <= Lcp(Last(stack))
  <2>1. Lcp(stack[d]) \in Nat
    BY <1>3, WordSplit, Limits
  <2>2. Lcp(Last(stack)) \in Nat
    <3>1. Last(stack) \in Words
      BY <1>1, <1>2, <1>3
    <3>2. QED
      BY <3>1, WordSplit, Limits
  <2>3. d = Len(stack) \/ d < Len(stack)
    BY <1>1
  <2>4. d < Len(stack) => Lcp(stack[d]) < Lcp(Last(stack))
    BY <1>1, <1>2 DEF StackOK
  <2>5. QED
    BY <1>2, <2>1, <2>2, <2>3, <2>4
<1>5. Lcp(Last(stack)) # 0 => Len(stack) >= 2
  <2>1. CASE Len(stack) = 1
    <3>1. Last(stack) = 0
      BY <1>1, <1>2, <2>1
    <3>2. QED
      BY <3>1, WordZero
  <2>2. CASE Len(stack) # 1
    <3>1. PICK size \in Nat : size = Len(stack) /\ size >= 1
      BY <1>1
    <3>2. QED
      BY <2>2, <3>1
  <2>3. QED
    BY <2>1, <2>2
<1>6. QED
  BY <1>1, <1>2, <1>3, <1>4, <1>5

LEMMA PushStack ==
  ASSUME NEW text \in Seq(Byte), NEW tree, TreeOK(text, tree), NEW p \in Starts(text), NEW stack,
         StackOK(text, tree, p, stack), NEW v, Of(text, tree, p, v), Lcp(Last(stack)) < Lcp(v)
  PROVE  /\ StackOK(text, tree, p, Append(stack, v))
         /\ Len(Append(stack, v)) = Len(stack) + 1 /\ Append(stack, v)[Len(stack) + 1] = v
         /\ \A d \in 1 .. Len(stack) : Append(stack, v)[d] = stack[d]
<1>1. v \in Words
  BY OfTypes
<1>2. /\ stack \in Seq(Words) /\ Len(stack) \in Nat /\ Len(stack) >= 1 /\ stack[1] = 0
      /\ \A d \in 1 .. Len(stack) : Of(text, tree, p, stack[d])
      /\ \A c, d \in 1 .. Len(stack) : c < d => Lcp(stack[c]) < Lcp(stack[d])
  BY DEF StackOK
<1> DEFINE longer == Append(stack, v)
<1>3. /\ longer \in Seq(Words) /\ Len(longer) = Len(stack) + 1
      /\ longer[Len(stack) + 1] = v
      /\ \A d \in 1 .. Len(stack) : longer[d] = stack[d]
  BY <1>1, <1>2
<1> HIDE DEF longer
<1>4. \A d \in 1 .. Len(stack) : stack[d] \in Words /\ Lcp(stack[d]) <= Lcp(Last(stack))
  BY StackTop
<1>5. \A d \in 1 .. Len(stack) : Lcp(stack[d]) \in Nat
  BY <1>4, WordSplit, Limits
<1>6. Lcp(v) \in Nat /\ Lcp(Last(stack)) \in Nat
  <2>1. Last(stack) \in Words
    BY StackTop
  <2>2. QED
    BY <1>1, <2>1, WordSplit, Limits
<1>7. ASSUME NEW d \in 1 .. Len(longer) PROVE Of(text, tree, p, longer[d])
  <2>1. d \in 1 .. Len(stack) \/ d = Len(stack) + 1
    BY <1>2, <1>3
  <2>2. QED
    BY <1>2, <1>3, <2>1
<1>8. ASSUME NEW c \in 1 .. Len(longer), NEW d \in 1 .. Len(longer), c < d
      PROVE  Lcp(longer[c]) < Lcp(longer[d])
  <2>1. c \in 1 .. Len(stack) /\ longer[c] = stack[c]
    BY <1>2, <1>3, <1>8
  <2>2. CASE d \in 1 .. Len(stack)
    BY <1>2, <1>3, <1>8, <2>1, <2>2
  <2>3. CASE d = Len(stack) + 1
    <3>1. Lcp(stack[c]) <= Lcp(Last(stack)) /\ Lcp(stack[c]) \in Nat
      BY <1>4, <1>5, <2>1
    <3>2. QED
      BY <1>3, <1>6, <2>1, <2>3, <3>1
  <2>4. QED
    BY <1>2, <1>3, <2>2, <2>3
<1>9. longer[1] = 0
  BY <1>2, <1>3
<1>10. StackOK(text, tree, p, longer)
  BY <1>2, <1>3, <1>7, <1>8, <1>9 DEF StackOK
<1>11. QED
  BY <1>3, <1>10 DEF longer

LEMMA PopStack ==
  ASSUME NEW text \in Seq(Byte), NEW tree, TreeOK(text, tree), NEW p \in Starts(text), NEW stack,
         StackOK(text, tree, p, stack), Len(stack) >= 2
  PROVE  /\ StackOK(text, tree, p, Front(stack)) /\ Len(Front(stack)) = Len(stack) - 1
         /\ \A d \in 1 .. Len(stack) - 1 : Front(stack)[d] = stack[d]
         /\ Lcp(Last(Front(stack))) < Lcp(Last(stack))
<1>1. /\ stack \in Seq(Words) /\ Len(stack) \in Nat /\ stack[1] = 0
      /\ \A d \in 1 .. Len(stack) : Of(text, tree, p, stack[d])
      /\ \A c, d \in 1 .. Len(stack) : c < d => Lcp(stack[c]) < Lcp(stack[d])
  BY DEF StackOK
<1> DEFINE shorter == Front(stack)
<1>2. /\ shorter \in Seq(Words) /\ Len(shorter) = Len(stack) - 1
      /\ \A d \in 1 .. Len(stack) - 1 : shorter[d] = stack[d]
  BY <1>1 DEF Front
<1> HIDE DEF shorter
<1>3. ASSUME NEW d \in 1 .. Len(shorter)
      PROVE  d \in 1 .. Len(stack) /\ shorter[d] = stack[d]
  BY <1>1, <1>2
<1>4. Len(shorter) \in 1 .. Len(shorter) /\ Last(shorter) = shorter[Len(shorter)]
  BY <1>1, <1>2 DEF Last
<1>5. StackOK(text, tree, p, shorter)
  <2>1. \A d \in 1 .. Len(shorter) : Of(text, tree, p, shorter[d])
    BY <1>1, <1>3
  <2>2. \A c, d \in 1 .. Len(shorter) : c < d => Lcp(shorter[c]) < Lcp(shorter[d])
    BY <1>1, <1>3
  <2>3. shorter[1] = 0 /\ Len(shorter) >= 1
    BY <1>1, <1>2
  <2>4. QED
    BY <1>2, <2>1, <2>2, <2>3 DEF StackOK
<1>6. Lcp(Last(shorter)) < Lcp(Last(stack))
  <2>1. Last(shorter) = stack[Len(stack) - 1]
    BY <1>2, <1>3, <1>4
  <2>2. Len(stack) - 1 \in 1 .. Len(stack) /\ Len(stack) \in 1 .. Len(stack)
        /\ Len(stack) - 1 < Len(stack)
    BY <1>1
  <2>3. Lcp(stack[Len(stack) - 1]) < Lcp(stack[Len(stack)])
    BY <1>1, <2>2
  <2>4. QED
    BY <2>1, <2>3 DEF Last
<1>7. QED
  BY <1>2, <1>5, <1>6 DEF shorter

(* To the next suffix, which shares as much as the deepest asks for. *)
LEMMA MoveStack ==
  ASSUME NEW text \in Seq(Byte), NEW tree, TreeOK(text, tree), NEW p \in Starts(text), NEW stack,
         StackOK(text, tree, p, stack), NEW q \in Starts(text), NEW w \in Words,
         Agree(text, p, q, Length(w)), Lcp(Last(stack)) <= Lcp(w)
  PROVE  StackOK(text, tree, q, stack)
<1>1. ASSUME NEW d \in 1 .. Len(stack) PROVE Of(text, tree, q, stack[d])
  <2>1. Of(text, tree, p, stack[d])
    BY DEF StackOK
  <2>2. stack[d] \in Words /\ Lcp(stack[d]) <= Lcp(Last(stack)) /\ Last(stack) \in Words
    BY StackTop
  <2>3. Lcp(stack[d]) \in Nat /\ Lcp(Last(stack)) \in Nat
    <3>1. \A v \in Words : Lcp(v) \in Nat
      BY WordSplit, Limits
    <3>2. QED
      BY <2>2, <3>1
  <2>6. Lcp(w) \in Nat /\ Length(w) \in Nat
    BY WordSplit, Limits
  <2>4. Length(stack[d]) <= Length(w)
    BY <2>2, <2>3, <2>6, WordOrder
  <2>5. QED
    BY <2>1, <2>4, <2>6, OfOther
<1>2. QED
  BY <1>1 DEF StackOK

LEMMA GrowStack ==
  ASSUME NEW text, NEW tree, NEW p, NEW stack, StackOK(text, tree, p, stack), NEW grown,
         \A q, v : Of(text, tree, q, v) => Of(text, grown, q, v)
  PROVE  StackOK(text, grown, p, stack)
  BY DEF StackOK

-----------------------------------------------------------------------------
(***************************************************************************)
(* The invariant while the tree is built.                                  *)
(***************************************************************************)
WindowOK ==
  /\ window \in Seq(Byte) /\ Len(window) \in 1 .. PosLimit /\ start \in Starts(window)

(* The words of the array that are not read yet.  *)
Before(k) == IF k = r THEN prev_pos ELSE Pos(intervals[k - 1])

SuffixesLeft ==
  /\ r \in 1 .. n /\ prev_pos \in Starts(window)
  /\ intervals \in [Starts(window) -> Words] /\ intervals[0] = 0
  /\ \A k \in r .. n - 1 :
       /\ Pos(intervals[k]) \in Starts(window)
       /\ Lcp(intervals[k]) = 0 \/ Lcp(intervals[k]) >= Tags
       /\ Agree(window, Before(k), Pos(intervals[k]), Length(intervals[k]))

(* Every position leads into an interval it is of. *)
PositionsOK(tree) ==
  /\ pos_data \in [Starts(window) -> Words]
  /\ \A p \in Starts(window) : Of(window, tree, p, pos_data[p])

(* An interval that is not open any more leads to the one it lies in. *)
ClosedOK(tree) ==
  \A k \in 1 .. tree.count - 1 :
    \/ \E d \in 1 .. Len(open_intervals) : open_intervals[d] = tree.word[k]
    \/ Inside(window, tree, k, intervals[k])

NothingListed == match = [p \in start .. n - 1 |-> <<>>] /\ found = NothingFound

BuildWith(tree) ==
  /\ WindowOK /\ TreeOK(window, tree)
  /\ tree.count = next_interval_idx /\ next_interval_idx <= r
  /\ SuffixesLeft /\ PositionsOK(tree) /\ ClosedOK(tree) /\ NothingListed
  /\ StackOK(window, tree, prev_pos, open_intervals)
  /\ phase \in {"build", "close"}
  /\ phase = "close" => r < n /\ Lcp(intervals[r]) < Lcp(Last(open_intervals))

BuildInv == \E tree : BuildWith(tree)

LEMMA InitBuild == Init => BuildInv
<1> SUFFICES ASSUME Init PROVE BuildInv
  OBVIOUS
<1>1. PICK w \in Inputs :
        /\ window = w.text /\ start = w.dictionary
        /\ intervals = [TaggedArray(w.text) EXCEPT ![0] = 0]
        /\ prev_pos = TaggedArray(w.text)[0]
        /\ pos_data = [p \in 0 .. Len(w.text) - 1 |-> 0]
        /\ open_intervals = <<0>> /\ next_interval_idx = 1 /\ r = 1
        /\ found = NothingFound
        /\ match = [p \in w.dictionary .. Len(w.text) - 1 |-> <<>>] /\ phase = "build"
  BY DEF Init
<1> DEFINE T == TaggedArray(w.text)
           tree == [count |-> 1, rep |-> [k \in Starts(window) |-> 0],
                    word |-> [k \in Starts(window) |-> 0]]
<1>2. /\ w.text \in Seq(Byte) /\ w.dictionary \in 0 .. Len(w.text) - 1
      /\ Len(w.text) <= PosLimit
  BY MatchFinderAssumption DEF PosLimit
<1>3. ArrayOK(window, T)
  BY <1>1, TaggedArrayIs
<1> HIDE DEF T
<1>4. /\ window \in Seq(Byte) /\ Len(window) \in 1 .. PosLimit /\ Len(window) \in Nat
      /\ start \in Starts(window)
      /\ 0 \in Starts(window) /\ Starts(window) = 0 .. Len(window) - 1
  BY <1>1, <1>2, Limits DEF Starts
<1>5. TreeOK(window, tree) /\ tree.count = 1
  BY <1>4, WordZero DEF TreeOK
<1> HIDE DEF tree
<1>6. /\ T \in [Starts(window) -> Words] /\ T[0] = Pos(T[0]) /\ T[0] \in Starts(window)
      /\ intervals = [T EXCEPT ![0] = 0] /\ prev_pos = T[0]
  BY <1>1, <1>3, <1>4 DEF ArrayOK, T
<1>7. SuffixesLeft
  <2>1. intervals \in [Starts(window) -> Words] /\ intervals[0] = 0
    BY <1>4, <1>6, WordZero
  <2>2. ASSUME NEW k \in r .. n - 1
        PROVE  /\ Pos(intervals[k]) \in Starts(window)
               /\ Lcp(intervals[k]) = 0 \/ Lcp(intervals[k]) >= Tags
               /\ Agree(window, Before(k), Pos(intervals[k]), Length(intervals[k]))
    <3>1. k \in Starts(window) \ {0} /\ k - 1 \in Starts(window) /\ r = 1
      BY <1>1, <1>4 DEF n
    <3>2. intervals[k] = T[k] /\ (k # 1 => intervals[k - 1] = T[k - 1])
      BY <1>6, <3>1
    <3>3. Before(k) = Pos(T[k - 1])
      BY <1>6, <3>1, <3>2 DEF Before
    <3>4. QED
      BY <1>3, <3>1, <3>2, <3>3 DEF ArrayOK
  <2>3. r \in 1 .. n
    BY <1>1, <1>4 DEF n
  <2>4. QED
    BY <1>6, <2>1, <2>2, <2>3 DEF SuffixesLeft
<1>8. \A p \in Starts(window) : Of(window, tree, p, 0)
  BY <1>4, <1>5, OfRoot
<1>9. PositionsOK(tree)
  <2>1. pos_data = [p \in Starts(window) |-> 0]
    BY <1>1, <1>4
  <2>2. QED
    BY <1>8, <2>1, WordZero DEF PositionsOK
<1>10. StackOK(window, tree, prev_pos, open_intervals)
  <2>1. open_intervals \in Seq(Words) /\ Len(open_intervals) = 1 /\ open_intervals[1] = 0
    BY <1>1, WordZero
  <2>2. QED
    BY <1>6, <1>8, <2>1 DEF StackOK
<1>11. ClosedOK(tree)
  BY <1>5 DEF ClosedOK
<1>12. NothingListed
  BY <1>1 DEF NothingListed, n
<1>13. BuildWith(tree)
  BY <1>1, <1>4, <1>5, <1>7, <1>9, <1>10, <1>11, <1>12 DEF BuildWith, WindowOK
<1>14. QED
  BY <1>13 DEF BuildInv

(* The next suffix is read: it shares next_lcp with the one before it. *)
LEMMA NextWord ==
  ASSUME WindowOK, SuffixesLeft, r < n
  PROVE  /\ r \in Starts(window) /\ intervals[r] \in Words
         /\ Pos(intervals[r]) \in Starts(window) /\ prev_pos \in Starts(window)
         /\ next_lcp \in 0 .. LcpLimit - 1 /\ next_lcp \in Nat
         /\ next_lcp = 0 \/ next_lcp >= Tags
         /\ Agree(window, prev_pos, Pos(intervals[r]), Length(intervals[r]))
         /\ prev_pos + (next_lcp \div Tags) <= Len(window)
<1>1. /\ Len(window) \in Nat /\ r \in 1 .. n /\ prev_pos \in Starts(window)
      /\ intervals \in [Starts(window) -> Words]
  BY DEF WindowOK, SuffixesLeft
<1>2. r \in Starts(window) /\ r \in r .. n - 1
  BY <1>1 DEF Starts, n
<1>3. intervals[r] \in Words
  BY <1>1, <1>2
<1>4. /\ Pos(intervals[r]) \in Starts(window)
      /\ Lcp(intervals[r]) = 0 \/ Lcp(intervals[r]) >= Tags
      /\ Agree(window, Before(r), Pos(intervals[r]), Length(intervals[r]))
  BY <1>2 DEF SuffixesLeft
<1>5. Lcp(intervals[r]) \in 0 .. LcpLimit - 1
  BY <1>3, WordSplit
<1>6. Before(r) = prev_pos
  BY DEF Before
<1>7. prev_pos + Length(intervals[r]) <= Len(window)
  BY <1>4, <1>6 DEF Agree
<1>8. QED
  BY <1>1, <1>2, <1>3, <1>4, <1>5, <1>6, <1>7, Limits DEF next_lcp, Length

LEMMA NextSuffixStep ==
  ASSUME WindowOK, SuffixesLeft, r < n, NextSuffix, window' = window,
         intervals' \in [Starts(window) -> Words], intervals'[0] = 0,
         \A k \in r .. n - 1 : intervals'[k] = intervals[k]
  PROVE  SuffixesLeft'
<1>1. /\ Len(window) \in Nat /\ r \in 1 .. n /\ n = Len(window) /\ n' = n
      /\ r' = r + 1 /\ prev_pos' = Pos(intervals[r])
  BY DEF WindowOK, SuffixesLeft, NextSuffix, n
<1>2. prev_pos' \in Starts(window)
  BY <1>1, NextWord
<1>3. ASSUME NEW k \in r' .. n - 1
      PROVE  /\ Pos(intervals'[k]) \in Starts(window)
             /\ Lcp(intervals'[k]) = 0 \/ Lcp(intervals'[k]) >= Tags
             /\ Agree(window, Before(k)', Pos(intervals'[k]), Length(intervals'[k]))
  <2>1. k \in r .. n - 1 /\ k - 1 \in r .. n - 1 /\ k # r /\ (k = r' <=> k - 1 = r)
    BY <1>1, <1>3
  <2>2. intervals'[k] = intervals[k] /\ intervals'[k - 1] = intervals[k - 1]
    BY <2>1
  <2>3. Before(k)' = Before(k)
    BY <1>1, <2>1, <2>2 DEF Before
  <2>4. QED
    BY <2>1, <2>2, <2>3 DEF SuffixesLeft
<1>4. r' \in 1 .. n
  BY <1>1
<1>5. QED
  BY <1>1, <1>2, <1>3, <1>4 DEF SuffixesLeft

(* What is left alone, or set to an interval the position is of. *)
LEMMA SetPosition ==
  ASSUME NEW tree, PositionsOK(tree), window' = window, NEW grown,
         \A q, v : Of(window, tree, q, v) => Of(window, grown, q, v),
         NEW v \in Words, Of(window, grown, prev_pos, v),
         pos_data' = [pos_data EXCEPT ![prev_pos] = v]
  PROVE  PositionsOK(grown)'
<1>1. pos_data' \in [Starts(window) -> Words]
  BY DEF PositionsOK
<1>2. ASSUME NEW p \in Starts(window) PROVE Of(window, grown, p, pos_data'[p])
  <2>1. p = prev_pos \/ pos_data'[p] = pos_data[p]
    BY DEF PositionsOK
  <2>2. p = prev_pos => pos_data'[p] = v
    BY <1>2 DEF PositionsOK
  <2>3. QED
    BY <2>1, <2>2 DEF PositionsOK
<1>3. QED
  BY <1>1, <1>2 DEF PositionsOK

LEMMA ContinueStep ==
  ASSUME NEW tree, BuildWith(tree), Continue
  PROVE  BuildWith(tree)'
<1>1. /\ WindowOK /\ TreeOK(window, tree) /\ SuffixesLeft /\ PositionsOK(tree) /\ ClosedOK(tree)
      /\ StackOK(window, tree, prev_pos, open_intervals) /\ NothingListed
      /\ tree.count = next_interval_idx /\ next_interval_idx <= r
  BY DEF BuildWith
<1>2. /\ phase = "build" /\ r < n /\ next_lcp = Lcp(top) /\ NextSuffix
      /\ pos_data' = [pos_data EXCEPT ![prev_pos] = top]
      /\ window' = window /\ start' = start /\ intervals' = intervals /\ phase' = phase
      /\ open_intervals' = open_intervals /\ next_interval_idx' = next_interval_idx
      /\ found' = found /\ match' = match
  BY DEF Continue, searchVars
<1>3. WindowOK' /\ NothingListed'
  BY <1>1, <1>2 DEF WindowOK, NothingListed, n
<1>4. window \in Seq(Byte) /\ r \in 1 .. n /\ Len(window) \in Nat
  BY <1>1 DEF WindowOK, SuffixesLeft
<1>5. SuffixesLeft'
  <2>1. intervals \in [Starts(window) -> Words] /\ intervals[0] = 0
    BY <1>1 DEF SuffixesLeft
  <2>2. QED
    BY <1>1, <1>2, <2>1, NextSuffixStep
<1>6. prev_pos \in Starts(window) /\ intervals[r] \in Words /\ Pos(intervals[r]) \in Starts(window)
      /\ Agree(window, prev_pos, Pos(intervals[r]), Length(intervals[r])) /\ next_lcp \in Nat
  BY <1>1, <1>2, NextWord
<1>7. top \in Words /\ Of(window, tree, prev_pos, top)
  BY <1>1, <1>4, <1>6, StackTop DEF top
<1>8. PositionsOK(tree)'
  BY <1>1, <1>2, <1>7, SetPosition
<1>9. StackOK(window, tree, Pos(intervals[r]), open_intervals)
  <2>1. Lcp(Last(open_intervals)) <= Lcp(intervals[r])
    BY <1>2, <1>6 DEF top, next_lcp
  <2>2. QED
    BY <1>1, <1>4, <1>6, <2>1, MoveStack
<1>10. ClosedOK(tree)'
  BY <1>1, <1>2 DEF ClosedOK
<1>11. next_interval_idx' <= r'
  <2>1. next_interval_idx \in Nat
    BY <1>1, <1>4 DEF TreeOK
  <2>2. QED
    BY <1>1, <1>2, <1>4, <2>1 DEF NextSuffix, n
<1>12. prev_pos' = Pos(intervals[r])
  BY <1>2 DEF NextSuffix
<1>13. QED
  BY <1>1, <1>2, <1>3, <1>5, <1>8, <1>9, <1>10, <1>11, <1>12 DEF BuildWith

(***************************************************************************)
(* An interval is opened for the two suffixes it is met between, above the *)
(* stack that is left.                                                     *)
(***************************************************************************)
LEMMA NewIntervalStep ==
  ASSUME NEW tree, WindowOK, TreeOK(window, tree), SuffixesLeft, r < n,
         tree.count = next_interval_idx, next_interval_idx <= r,
         NEW stack, StackOK(window, tree, prev_pos, stack), next_lcp > Lcp(Last(stack))
  PROVE  LET grown == Grown(tree, prev_pos, next_lcp)
         IN  /\ TreeOK(window, grown) /\ grown.count = next_interval_idx + 1
             /\ NewInterval \in Words /\ Lcp(NewInterval) = next_lcp
             /\ Pos(NewInterval) = next_interval_idx
             /\ Of(window, grown, prev_pos, NewInterval)
             /\ NewInterval = grown.word[next_interval_idx]
             /\ \A q, v : Of(window, tree, q, v) => Of(window, grown, q, v)
             /\ \A k \in 0 .. tree.count - 1 : grown.word[k] = tree.word[k]
             /\ \A k \in 0 .. tree.count - 1 : \A v :
                  Inside(window, tree, k, v) => Inside(window, grown, k, v)
             /\ StackOK(window, grown, Pos(intervals[r]), Append(stack, NewInterval))
             /\ Len(Append(stack, NewInterval)) = Len(stack) + 1
             /\ Append(stack, NewInterval)[Len(stack) + 1] = NewInterval
             /\ \A d \in 1 .. Len(stack) : Append(stack, NewInterval)[d] = stack[d]
<1> DEFINE grown == Grown(tree, prev_pos, next_lcp)
           q     == Pos(intervals[r])
<1>1. /\ window \in Seq(Byte) /\ Len(window) <= PosLimit /\ r \in 1 .. n /\ Len(window) \in Nat
  BY Limits DEF WindowOK, SuffixesLeft
<1>2. /\ r \in Starts(window) /\ intervals[r] \in Words /\ q \in Starts(window)
      /\ prev_pos \in Starts(window) /\ next_lcp \in 0 .. LcpLimit - 1 /\ next_lcp \in Nat
      /\ next_lcp = 0 \/ next_lcp >= Tags
      /\ Agree(window, prev_pos, q, Length(intervals[r]))
      /\ prev_pos + (next_lcp \div Tags) <= Len(window)
  BY NextWord
<1>3. Last(stack) \in Words
  BY <1>1, <1>2, StackTop
<1>4. Lcp(Last(stack)) \in Nat
  BY <1>3, WordSplit, Limits
<1>5. next_lcp \in Tags .. LcpLimit - 1
  BY <1>2, <1>4, Limits
<1>6. tree.count < Len(window)
  <2>1. tree.count \in Nat
    BY <1>1 DEF TreeOK
  <2>2. QED
    BY <1>1, <2>1 DEF n
<1>7. /\ TreeOK(window, grown) /\ grown.count = next_interval_idx + 1
      /\ NewInterval \in Words /\ Lcp(NewInterval) = next_lcp
      /\ Pos(NewInterval) = next_interval_idx
      /\ Of(window, grown, prev_pos, NewInterval)
      /\ NewInterval = grown.word[next_interval_idx]
      /\ \A o, v : Of(window, tree, o, v) => Of(window, grown, o, v)
      /\ \A k \in 0 .. tree.count - 1 : grown.word[k] = tree.word[k]
      /\ \A k \in 0 .. tree.count - 1 : \A v :
           Inside(window, tree, k, v) => Inside(window, grown, k, v)
  <2>1. NewInterval = next_lcp * LCP_WEIGHT + tree.count
    BY DEF NewInterval
  <2>2. QED
    BY <1>1, <1>2, <1>5, <1>6, <2>1, Grows
<1> HIDE DEF grown, q
<1>8. StackOK(window, grown, prev_pos, stack)
  BY <1>7, GrowStack
<1>9. /\ StackOK(window, grown, prev_pos, Append(stack, NewInterval))
      /\ Len(Append(stack, NewInterval)) = Len(stack) + 1
      /\ Append(stack, NewInterval)[Len(stack) + 1] = NewInterval
      /\ \A d \in 1 .. Len(stack) : Append(stack, NewInterval)[d] = stack[d]
  BY <1>1, <1>2, <1>7, <1>8, PushStack
<1>10. StackOK(window, grown, q, Append(stack, NewInterval))
  <2> DEFINE longer == Append(stack, NewInterval)
  <2>1. Last(longer) = NewInterval
    BY <1>9 DEF Last
  <2>2. Lcp(Last(longer)) <= Lcp(intervals[r])
    BY <1>2, <1>7, <2>1 DEF next_lcp
  <2>3. StackOK(window, grown, prev_pos, longer)
    BY <1>9
  <2> HIDE DEF longer
  <2>4. StackOK(window, grown, q, longer)
    BY <1>1, <1>2, <1>7, <2>2, <2>3, MoveStack
  <2>5. QED
    BY <2>4 DEF longer
<1>11. QED
  BY <1>7, <1>9, <1>10 DEF grown, q

LEMMA OpenStep ==
  ASSUME NEW tree, BuildWith(tree), Open
  PROVE  BuildInv'
<1> DEFINE P == Pos(intervals[r])
<1>0. PICK grown : grown = Grown(tree, prev_pos, next_lcp)
  OBVIOUS
<1>1. /\ WindowOK /\ TreeOK(window, tree) /\ SuffixesLeft /\ PositionsOK(tree) /\ ClosedOK(tree)
      /\ StackOK(window, tree, prev_pos, open_intervals) /\ NothingListed
      /\ tree.count = next_interval_idx /\ next_interval_idx <= r
  BY DEF BuildWith
<1>2. /\ phase = "build" /\ r < n /\ next_lcp > Lcp(Last(open_intervals)) /\ NextSuffix
      /\ pos_data' = [pos_data EXCEPT ![prev_pos] = NewInterval]
      /\ open_intervals' = Append(open_intervals, NewInterval)
      /\ next_interval_idx' = next_interval_idx + 1
      /\ window' = window /\ start' = start /\ intervals' = intervals /\ phase' = phase
      /\ found' = found /\ match' = match
  BY DEF Open, searchVars, top
<1>3. WindowOK' /\ NothingListed'
  BY <1>1, <1>2 DEF WindowOK, NothingListed, n
<1>4. window \in Seq(Byte) /\ r \in 1 .. n /\ Len(window) \in Nat
  BY <1>1 DEF WindowOK, SuffixesLeft
<1>5. SuffixesLeft'
  <2>1. intervals \in [Starts(window) -> Words] /\ intervals[0] = 0
    BY <1>1 DEF SuffixesLeft
  <2>2. QED
    BY <1>1, <1>2, <2>1, NextSuffixStep
<1>6. /\ TreeOK(window, grown) /\ grown.count = next_interval_idx + 1
      /\ NewInterval \in Words
      /\ Of(window, grown, prev_pos, NewInterval)
      /\ NewInterval = grown.word[next_interval_idx]
      /\ \A q, v : Of(window, tree, q, v) => Of(window, grown, q, v)
      /\ \A k \in 0 .. tree.count - 1 : grown.word[k] = tree.word[k]
      /\ \A k \in 0 .. tree.count - 1 : \A v :
           Inside(window, tree, k, v) => Inside(window, grown, k, v)
      /\ StackOK(window, grown, P, Append(open_intervals, NewInterval))
      /\ Len(Append(open_intervals, NewInterval)) = Len(open_intervals) + 1
      /\ Append(open_intervals, NewInterval)[Len(open_intervals) + 1] = NewInterval
      /\ \A d \in 1 .. Len(open_intervals) :
           Append(open_intervals, NewInterval)[d] = open_intervals[d]
  BY <1>0, <1>1, <1>2, NewIntervalStep
<1>7. PositionsOK(grown)'
  BY <1>1, <1>2, <1>6, SetPosition
<1>8. ClosedOK(grown)'
  <2>1. Len(open_intervals) \in Nat /\ Len(open_intervals') = Len(open_intervals) + 1
    BY <1>1, <1>2, <1>6 DEF StackOK
  <2>2. next_interval_idx \in Nat
    BY <1>1, <1>4 DEF TreeOK
  <2>3. ASSUME NEW k \in 1 .. grown.count - 1
        PROVE  \/ \E d \in 1 .. Len(open_intervals') : open_intervals'[d] = grown.word[k]
               \/ Inside(window, grown, k, intervals'[k])
    <3>1. CASE k = next_interval_idx
      <4>1. Len(open_intervals) + 1 \in 1 .. Len(open_intervals')
        BY <2>1
      <4>2. open_intervals'[Len(open_intervals) + 1] = grown.word[k]
        BY <1>2, <1>6, <3>1
      <4>3. QED
        BY <4>1, <4>2
    <3>2. CASE k \in 1 .. tree.count - 1
      <4>1. k \in 0 .. tree.count - 1 /\ grown.word[k] = tree.word[k]
        BY <1>6, <3>2
      <4>2. CASE \E d \in 1 .. Len(open_intervals) : open_intervals[d] = tree.word[k]
        <5>1. PICK d \in 1 .. Len(open_intervals) : open_intervals[d] = tree.word[k]
          BY <4>2
        <5>2. d \in 1 .. Len(open_intervals') /\ open_intervals'[d] = tree.word[k]
          BY <1>2, <1>6, <2>1, <5>1
        <5>3. QED
          BY <4>1, <5>2
      <4>3. CASE Inside(window, tree, k, intervals[k])
        BY <1>2, <1>6, <4>1, <4>3
      <4>4. QED
        BY <1>1, <3>2, <4>2, <4>3 DEF ClosedOK
    <3>3. QED
      BY <1>1, <1>6, <2>2, <3>1, <3>2
  <2>4. QED
    BY <1>2, <2>3 DEF ClosedOK
<1>9. grown.count = next_interval_idx' /\ next_interval_idx' <= r'
  <2>1. next_interval_idx \in Nat
    BY <1>1, <1>4 DEF TreeOK
  <2>2. QED
    BY <1>1, <1>2, <1>4, <1>6, <2>1 DEF NextSuffix, n
<1>10. prev_pos' = P
  BY <1>2 DEF NextSuffix
<1>11. BuildWith(grown)'
  BY <1>2, <1>3, <1>5, <1>6, <1>7, <1>8, <1>9, <1>10 DEF BuildWith
<1>12. QED
  BY <1>11 DEF BuildInv

LEMMA CloseStep ==
  ASSUME NEW tree, BuildWith(tree), Close
  PROVE  BuildWith(tree)'
<1>1. /\ WindowOK /\ TreeOK(window, tree) /\ SuffixesLeft /\ PositionsOK(tree) /\ ClosedOK(tree)
      /\ StackOK(window, tree, prev_pos, open_intervals) /\ NothingListed
      /\ tree.count = next_interval_idx /\ next_interval_idx <= r
  BY DEF BuildWith
<1>2. /\ phase = "build" /\ r < n /\ next_lcp < Lcp(top)
      /\ pos_data' = [pos_data EXCEPT ![prev_pos] = top]
      /\ window' = window /\ start' = start /\ intervals' = intervals /\ phase' = "close"
      /\ r' = r /\ prev_pos' = prev_pos
      /\ open_intervals' = open_intervals /\ next_interval_idx' = next_interval_idx
      /\ found' = found /\ match' = match
  BY DEF Close, searchVars
<1>3. WindowOK' /\ NothingListed' /\ SuffixesLeft' /\ ClosedOK(tree)'
  <2>1. WindowOK' /\ NothingListed'
    BY <1>1, <1>2 DEF WindowOK, NothingListed, n
  <2>2. SuffixesLeft'
    BY <1>1, <1>2 DEF SuffixesLeft, Before, n
  <2>3. ClosedOK(tree)'
    BY <1>1, <1>2 DEF ClosedOK
  <2>4. QED
    BY <2>1, <2>2, <2>3
<1>4. window \in Seq(Byte) /\ prev_pos \in Starts(window)
  BY <1>1 DEF WindowOK, SuffixesLeft
<1>5. top \in Words /\ Of(window, tree, prev_pos, top)
  BY <1>1, <1>4, StackTop DEF top
<1>6. PositionsOK(tree)'
  BY <1>1, <1>2, <1>5, SetPosition
<1>7. r' < n' /\ Lcp(intervals'[r']) < Lcp(Last(open_intervals'))
  BY <1>2 DEF n, next_lcp, top
<1>8. QED
  BY <1>1, <1>2, <1>3, <1>6, <1>7 DEF BuildWith

(* A position of two intervals: the one with more in common lies in the other. *)
LEMMA InsideMade ==
  ASSUME NEW text \in Seq(Byte), NEW tree, TreeOK(text, tree), NEW p \in Starts(text),
         NEW v, Of(text, tree, p, v), NEW above, Of(text, tree, p, above), Lcp(above) < Lcp(v)
  PROVE  Inside(text, tree, Pos(v), above)
<1>1. /\ tree.rep[Pos(v)] \in Starts(text) /\ Length(v) \in Nat /\ v \in Words
      /\ above \in Words
  BY OfTypes
<1>2. Lcp(above) \in Nat /\ Lcp(v) \in Nat
  BY <1>1, WordSplit, Limits
<1>3. Length(above) <= Length(v)
  BY <1>1, <1>2, WordOrder
<1>4. PICK o \in Starts(text) : o = tree.rep[Pos(v)]
  BY <1>1
<1>5. Agree(text, p, o, Length(v)) /\ v = tree.word[Pos(v)]
  BY <1>4 DEF Of
<1>6. Of(text, tree, o, above)
  BY <1>1, <1>3, <1>5, OfOther
<1>7. QED
  BY <1>4, <1>5, <1>6 DEF Inside

LEMMA SuffixesStay ==
  ASSUME WindowOK, SuffixesLeft, window' = window, r' = r, prev_pos' = prev_pos,
         intervals' \in [Starts(window) -> Words], intervals'[0] = 0,
         \A k \in r .. n - 1 : intervals'[k] = intervals[k]
  PROVE  SuffixesLeft'
<1>1. Len(window) \in Nat /\ r \in 1 .. n /\ n = Len(window) /\ n' = n
  BY DEF WindowOK, SuffixesLeft, n
<1>2. ASSUME NEW k \in r .. n - 1
      PROVE  intervals'[k] = intervals[k] /\ Before(k)' = Before(k)
  <2>1. k # r => k - 1 \in r .. n - 1
    BY <1>1
  <2>2. QED
    BY <2>1 DEF Before
<1>3. QED
  BY <1>1, <1>2 DEF SuffixesLeft

LEMMA CloseDeepestStep ==
  ASSUME NEW tree, BuildWith(tree), CloseDeepest
  PROVE  BuildInv'
<1> DEFINE stack == open_intervals
           rest  == Front(open_intervals)
           super == Last(Front(open_intervals))
           above == IF next_lcp > Lcp(super) THEN NewInterval ELSE super
           P     == Pos(intervals[r])
<1>1. /\ WindowOK /\ TreeOK(window, tree) /\ SuffixesLeft /\ PositionsOK(tree) /\ ClosedOK(tree)
      /\ StackOK(window, tree, prev_pos, stack) /\ NothingListed
      /\ tree.count = next_interval_idx /\ next_interval_idx <= r
  BY DEF BuildWith
<1>2. /\ phase = "close" /\ intervals' = [intervals EXCEPT ![Pos(top)] = above]
      /\ IF next_lcp > Lcp(super)
         THEN /\ open_intervals' = Append(rest, NewInterval)
              /\ next_interval_idx' = next_interval_idx + 1
         ELSE open_intervals' = rest /\ next_interval_idx' = next_interval_idx
      /\ IF next_lcp >= Lcp(super) THEN NextSuffix /\ phase' = "build"
         ELSE r' = r /\ prev_pos' = prev_pos /\ phase' = phase
      /\ window' = window /\ start' = start /\ pos_data' = pos_data
      /\ found' = found /\ match' = match
  BY DEF CloseDeepest, searchVars
<1>3. r < n /\ next_lcp < Lcp(top)
  BY <1>2 DEF BuildWith, top, next_lcp
<1>4. WindowOK' /\ NothingListed'
  BY <1>1, <1>2 DEF WindowOK, NothingListed, n
<1>5. window \in Seq(Byte) /\ r \in 1 .. n /\ Len(window) \in Nat /\ n = Len(window)
      /\ n' = n
  BY <1>1, <1>2 DEF WindowOK, SuffixesLeft, n
<1>6. /\ prev_pos \in Starts(window) /\ intervals[r] \in Words /\ P \in Starts(window)
      /\ Agree(window, prev_pos, P, Length(intervals[r])) /\ next_lcp \in Nat
  BY <1>1, <1>3, NextWord
<1>7. /\ Len(stack) \in Nat /\ top = stack[Len(stack)] /\ top \in Words
      /\ Of(window, tree, prev_pos, top) /\ (Lcp(top) # 0 => Len(stack) >= 2)
  BY <1>1, <1>5, <1>6, StackTop DEF top
<1>8. Lcp(top) \in Nat /\ Lcp(top) # 0 /\ Len(stack) >= 2
  <2>1. Lcp(top) \in Nat
    BY <1>7, WordSplit, Limits
  <2>2. QED
    BY <1>3, <1>6, <1>7, <2>1
<1>9. PICK j \in 1 .. tree.count - 1 : j = Pos(top)
  BY <1>1, <1>5, <1>6, <1>7, <1>8, OfTypes
<1>10. /\ StackOK(window, tree, prev_pos, rest) /\ Len(rest) = Len(stack) - 1
       /\ \A d \in 1 .. Len(stack) - 1 : rest[d] = stack[d]
       /\ Lcp(super) < Lcp(top)
  BY <1>1, <1>5, <1>6, <1>8, PopStack DEF top
<1>11. super \in Words /\ Of(window, tree, prev_pos, super)
  BY <1>1, <1>5, <1>6, <1>10, StackTop
<1>12. tree.count \in Nat /\ tree.count <= r
  BY <1>1, <1>5 DEF TreeOK
<1>13. /\ intervals \in [Starts(window) -> Words] /\ intervals[0] = 0
       /\ j \in Starts(window) /\ j # 0 /\ j < r
  BY <1>1, <1>5, <1>12 DEF SuffixesLeft, Starts
<1>14. top = tree.word[j]
  BY <1>7, <1>9 DEF Of
<1>15. ASSUME above \in Words
       PROVE  /\ intervals' \in [Starts(window) -> Words] /\ intervals'[0] = 0
              /\ \A k \in r .. n - 1 : intervals'[k] = intervals[k]
              /\ intervals'[j] = above
              /\ \A k \in Starts(window) \ {j} : intervals'[k] = intervals[k]
  <2> HIDE DEF above
  <2>1. /\ intervals' \in [Starts(window) -> Words]
        /\ \A k \in Starts(window) \ {j} : intervals'[k] = intervals[k]
        /\ intervals'[j] = above
    BY <1>2, <1>9, <1>13, <1>15
  <2>2. \A k \in r .. n - 1 : k \in Starts(window) \ {j}
    BY <1>5, <1>13 DEF Starts
  <2>3. 0 \in Starts(window) \ {j}
    BY <1>5, <1>13 DEF Starts
  <2>4. QED
    BY <1>13, <2>1, <2>2, <2>3
<1>16. ASSUME NEW k \in 1 .. tree.count - 1, k # j, above \in Words
       PROVE  \/ \E d \in 1 .. Len(rest) : rest[d] = tree.word[k]
              \/ Inside(window, tree, k, intervals'[k])
  <2>1. CASE \E d \in 1 .. Len(stack) : stack[d] = tree.word[k]
    <3>1. PICK d \in 1 .. Len(stack) : stack[d] = tree.word[k]
      BY <2>1
    <3>2. d # Len(stack)
      <4> SUFFICES ASSUME d = Len(stack) PROVE FALSE
        OBVIOUS
      <4>1. top = tree.word[k]
        BY <1>7, <3>1
      <4>2. Pos(tree.word[k]) = k
        BY <1>1, <1>16 DEF TreeOK
      <4>3. QED
        BY <1>9, <1>16, <4>1, <4>2
    <3>3. d \in 1 .. Len(stack) - 1 /\ d \in 1 .. Len(rest)
      BY <1>7, <1>10, <3>2
    <3>4. QED
      BY <1>10, <3>1, <3>3
  <2>2. CASE Inside(window, tree, k, intervals[k])
    <3>1. k \in Starts(window) \ {j}
      BY <1>5, <1>12, <1>16 DEF Starts, TreeOK
    <3>2. intervals'[k] = intervals[k]
      BY <1>15, <1>16, <3>1
    <3>3. QED
      BY <2>2, <3>2
  <2>3. QED
    BY <1>1, <1>16, <2>1, <2>2 DEF ClosedOK
<1>17. CASE next_lcp > Lcp(super)
  <2>1. PICK grown : grown = Grown(tree, prev_pos, next_lcp)
    OBVIOUS
  <2>2. /\ TreeOK(window, grown) /\ grown.count = next_interval_idx + 1
        /\ NewInterval \in Words /\ Lcp(NewInterval) = next_lcp
        /\ Of(window, grown, prev_pos, NewInterval)
        /\ NewInterval = grown.word[next_interval_idx]
        /\ \A q, v : Of(window, tree, q, v) => Of(window, grown, q, v)
        /\ \A k \in 0 .. tree.count - 1 : grown.word[k] = tree.word[k]
        /\ \A k \in 0 .. tree.count - 1 : \A v :
             Inside(window, tree, k, v) => Inside(window, grown, k, v)
        /\ StackOK(window, grown, P, Append(rest, NewInterval))
        /\ Len(Append(rest, NewInterval)) = Len(rest) + 1
        /\ Append(rest, NewInterval)[Len(rest) + 1] = NewInterval
        /\ \A d \in 1 .. Len(rest) : Append(rest, NewInterval)[d] = rest[d]
    <3> HIDE DEF rest
    <3>1. next_lcp > Lcp(Last(rest))
      BY <1>17 DEF rest
    <3>2. QED
      BY <1>1, <1>3, <1>10, <2>1, <3>1, NewIntervalStep
  <2>3. /\ above = NewInterval /\ open_intervals' = Append(rest, NewInterval)
        /\ next_interval_idx' = next_interval_idx + 1 /\ NextSuffix /\ phase' = "build"
    <3>1. Lcp(super) \in Nat
      BY <1>11, WordSplit, Limits
    <3>2. next_lcp >= Lcp(super)
      BY <1>6, <1>17, <3>1
    <3>3. QED
      BY <1>2, <1>17, <3>2
  <2> HIDE DEF above
  <2>4. SuffixesLeft'
    BY <1>1, <1>2, <1>3, <1>15, <2>2, <2>3, NextSuffixStep
  <2>5. PositionsOK(grown)'
    BY <1>1, <1>2, <2>2 DEF PositionsOK
  <2>6. Inside(window, grown, j, NewInterval)
    <3>1. Of(window, grown, prev_pos, top)
      BY <1>7, <2>2
    <3>2. QED
      BY <1>3, <1>5, <1>6, <1>9, <2>2, <3>1, InsideMade
  <2>7. ClosedOK(grown)'
    <3>1. Len(rest) \in Nat
      BY <1>7, <1>8, <1>10
    <3>2. ASSUME NEW k \in 1 .. grown.count - 1
          PROVE  \/ \E d \in 1 .. Len(open_intervals') : open_intervals'[d] = grown.word[k]
                 \/ Inside(window, grown, k, intervals'[k])
      <4>1. CASE k = next_interval_idx
        <5>1. Len(rest) + 1 \in 1 .. Len(open_intervals')
          BY <2>2, <2>3, <3>1
        <5>2. open_intervals'[Len(rest) + 1] = grown.word[k]
          BY <2>2, <2>3, <4>1
        <5>3. QED
          BY <5>1, <5>2
      <4>2. CASE k = j
        <5>1. intervals'[j] = NewInterval
          BY <1>15, <2>2, <2>3
        <5>2. QED
          BY <2>6, <4>2, <5>1
      <4>3. CASE k \in 1 .. tree.count - 1 /\ k # j
        <5>1. k \in 0 .. tree.count - 1 /\ grown.word[k] = tree.word[k]
          BY <2>2, <4>3
        <5>2. \/ \E d \in 1 .. Len(rest) : rest[d] = tree.word[k]
              \/ Inside(window, tree, k, intervals'[k])
          BY <1>16, <2>2, <2>3, <4>3
        <5>3. CASE \E d \in 1 .. Len(rest) : rest[d] = tree.word[k]
          <6>1. PICK d \in 1 .. Len(rest) : rest[d] = tree.word[k]
            BY <5>3
          <6>2. d \in 1 .. Len(open_intervals') /\ open_intervals'[d] = tree.word[k]
            BY <2>2, <2>3, <3>1, <6>1
          <6>3. QED
            BY <5>1, <6>2
        <5>4. CASE Inside(window, tree, k, intervals'[k])
          BY <2>2, <5>1, <5>4
        <5>5. QED
          BY <5>2, <5>3, <5>4
      <4>4. QED
        BY <1>1, <1>12, <2>2, <4>1, <4>2, <4>3
    <3>3. QED
      BY <1>2, <3>2 DEF ClosedOK
  <2>8. grown.count = next_interval_idx' /\ next_interval_idx' <= r' /\ prev_pos' = P
    BY <1>1, <1>5, <1>12, <2>2, <2>3 DEF NextSuffix
  <2>9. BuildWith(grown)'
    BY <1>2, <1>4, <2>2, <2>3, <2>4, <2>5, <2>7, <2>8 DEF BuildWith
  <2>10. QED
    BY <2>9 DEF BuildInv
<1>18. CASE ~(next_lcp > Lcp(super))
  <2>1. above = super /\ open_intervals' = rest /\ next_interval_idx' = next_interval_idx
    BY <1>2, <1>18
  <2>2. Lcp(super) \in Nat
    BY <1>11, WordSplit, Limits
  <2> HIDE DEF above
  <2>3. PositionsOK(tree)'
    BY <1>1, <1>2 DEF PositionsOK
  <2>4. Inside(window, tree, j, super)
    BY <1>1, <1>5, <1>6, <1>7, <1>9, <1>10, <1>11, InsideMade
  <2>5. ClosedOK(tree)'
    <3>1. intervals'[j] = super
      BY <1>11, <1>15, <2>1
    <3>2. ASSUME NEW k \in 1 .. tree.count - 1
          PROVE  \/ \E d \in 1 .. Len(open_intervals') : open_intervals'[d] = tree.word[k]
                 \/ Inside(window, tree, k, intervals'[k])
      BY <1>11, <1>16, <2>1, <2>4, <3>1
    <3>3. QED
      BY <1>2, <3>2 DEF ClosedOK
  <2>6. CASE next_lcp = Lcp(super)
    <3>1. NextSuffix /\ phase' = "build"
      BY <1>2, <1>6, <2>2, <2>6
    <3>2. SuffixesLeft'
      BY <1>1, <1>2, <1>3, <1>11, <1>15, <2>1, <3>1, NextSuffixStep
    <3>3. StackOK(window, tree, P, rest)
      <4>1. Lcp(Last(rest)) <= Lcp(intervals[r])
        BY <2>2, <2>6 DEF next_lcp
      <4> HIDE DEF rest, P
      <4>2. Agree(window, prev_pos, P, Length(intervals[r])) /\ P \in Starts(window)
        BY <1>6
      <4>3. QED
        BY <1>1, <1>5, <1>6, <1>10, <4>1, <4>2, MoveStack
    <3>4. next_interval_idx' <= r' /\ prev_pos' = P
      BY <1>1, <1>5, <1>12, <2>1, <3>1 DEF NextSuffix
    <3>5. BuildWith(tree)'
      BY <1>1, <1>2, <1>4, <2>1, <2>3, <2>5, <3>1, <3>2, <3>3, <3>4 DEF BuildWith
    <3>6. QED
      BY <3>5 DEF BuildInv
  <2>7. CASE next_lcp < Lcp(super)
    <3>1. r' = r /\ prev_pos' = prev_pos /\ phase' = "close"
      BY <1>2, <1>6, <2>2, <2>7
    <3>2. SuffixesLeft'
      BY <1>1, <1>2, <1>11, <1>15, <2>1, <3>1, SuffixesStay
    <3>3. Lcp(intervals'[r']) < Lcp(Last(open_intervals'))
      <4>1. r \in r .. n - 1
        BY <1>3, <1>5
      <4>2. intervals'[r] = intervals[r]
        BY <1>11, <1>15, <2>1, <4>1
      <4>3. QED
        BY <2>1, <2>7, <3>1, <4>2 DEF next_lcp
    <3>4. BuildWith(tree)'
      BY <1>1, <1>2, <1>3, <1>4, <1>5, <1>10, <2>1, <2>3, <2>5, <3>1, <3>2, <3>3 DEF BuildWith
    <3>5. QED
      BY <3>4 DEF BuildInv
  <2>8. QED
    BY <1>6, <1>18, <2>2, <2>6, <2>7
<1>19. QED
  BY <1>17, <1>18

-----------------------------------------------------------------------------
(***************************************************************************)
(* The lists.  Their entries are ever nearer, and the last one counts down *)
(* to what was reported last.                                              *)
(***************************************************************************)
Listed == [length : 1 .. LCP_MAX, offset : Nat \ {0}, depth : 0 .. LCP_MAX]

EntryOK(text, p, entry) ==
  /\ entry \in Listed /\ entry.depth < entry.offset
  /\ kc_limit_match_len_local(entry.length) = entry.length
  /\ \A v \in Variants(entry) : CorrectMatch(text, p, v)

ListOK(text, p, list) ==
  /\ list \in Seq(Listed) /\ Len(list) <= MaxMatches
  /\ \A k \in 1 .. Len(list) : EntryOK(text, p, list[k])
  /\ \A j, k \in 1 .. Len(list) : j < k => list[k].offset < list[j].offset

MatchesOK ==
  /\ match \in [start .. n - 1 -> Seq(Listed)]
  /\ \A p \in start .. n - 1 : ListOK(window, p, match[p])

FoundOK(f) ==
  /\ f.offset \in Nat /\ f.length \in Nat
  /\ ListOK(window, r, f.list) /\ Len(f.list) <= room
  /\ f.list # <<>> => /\ f.offset = Last(f.list).offset - Last(f.list).depth
                      /\ Last(f.list).length - Last(f.list).depth <= f.length

FoundBehind(f, pos) == f.list # <<>> => f.offset >= r - pos

LEMMA NothingIsOK == ListOK(window, r, <<>>) /\ (WindowOK => FoundOK(NothingFound))
<1>1. \A text, p : ListOK(text, p, <<>>)
  BY MatchFinderAssumption DEF ListOK
<1>2. room \in Nat
  BY MatchFinderAssumption DEF room
<1>3. QED
  BY <1>1, <1>2 DEF FoundOK, NothingFound

(* A copy of the bytes of a place before. *)
LEMMA CopyIsCorrect ==
  ASSUME WindowOK, r \in Starts(window), NEW pos \in 0 .. r - 1, NEW l \in Nat,
         Agree(window, r, pos, l), NEW h \in Int, h <= l
  PROVE  CorrectMatch(window, r, [length |-> h, offset |-> r - pos])
<1>1. window \in Seq(Byte) /\ Len(window) \in Nat /\ r \in Nat /\ pos \in Nat /\ r < Len(window)
  BY StartIsPlace DEF WindowOK, Starts
<1>2. r - pos \in 1 .. r
  BY <1>1
<1>3. r + l <= Len(window)
  BY DEF Agree
<1>4. ASSUME NEW k \in 1 .. h PROVE window[r + k] = window[r + k - (r - pos)]
  <2>1. k \in 1 .. l
    BY <1>4
  <2>2. window[r + k] = window[pos + k]
    BY <2>1 DEF Agree
  <2>3. r + k - (r - pos) = pos + k
    BY <1>1, <2>1
  <2>4. QED
    BY <2>2, <2>3
<1>5. r + h <= Len(window)
  BY <1>1, <1>3
<1>6. QED
  BY <1>2, <1>4, <1>5 DEF CorrectMatch, SameBytes

LEMMA ReportedOK ==
  ASSUME WindowOK, r \in Starts(window), NEW f, FoundOK(f), NEW pos \in 0 .. r - 1,
         NEW v, Length(v) \in 1 .. LCP_MAX, Agree(window, r, pos, Length(v)),
         f.list # <<>> => r - pos < f.offset
  PROVE  FoundOK(Reported(f, pos, v)) /\ FoundBehind(Reported(f, pos, v), pos)
<1>1. window \in Seq(Byte) /\ Len(window) \in Nat /\ r \in Nat /\ pos \in Nat /\ r < Len(window)
  BY StartIsPlace DEF WindowOK, Starts
<1> DEFINE list == f.list
           count == Len(list)
<1>2. PICK offset \in Nat \ {0}, length \in 1 .. LCP_MAX :
        offset = r - pos /\ length = Length(v)
  <2>1. r - pos \in Nat \ {0}
    BY <1>1
  <2>2. QED
    BY <2>1
<1>3. /\ f.offset \in Nat /\ f.length \in Nat
      /\ list \in Seq(Listed) /\ count \in Nat /\ count = Len(list)
      /\ count <= MaxMatches /\ count <= room /\ room \in Nat /\ LCP_MAX \in Nat
      /\ MaxMatches \in Nat
      /\ \A k \in 1 .. count : EntryOK(window, r, list[k])
      /\ \A j, k \in 1 .. count : j < k => list[k].offset < list[j].offset
      /\ room <= MaxMatches
  BY MatchFinderAssumption DEF FoundOK, ListOK, room
<1>4. list = <<>> <=> count = 0
  BY <1>3
<1>5. count # 0 => /\ f.offset = list[count].offset - list[count].depth
                   /\ list[count].length - list[count].depth <= f.length
                   /\ offset < f.offset
                   /\ count \in 1 .. count /\ list[count] \in Listed
                   /\ list[count].depth < list[count].offset
  BY <1>2, <1>3, <1>4 DEF FoundOK, Last, EntryOK
<1> DEFINE deeper == /\ f.length > 2 /\ count > 0
                     /\ offset = f.offset - 1 /\ length = f.length - 1
                     /\ list[count].depth < LCP_MAX
           entry  == [length |-> kc_limit_match_len_local(length), offset |-> offset,
                      depth |-> 0]
           more   == IF deeper THEN [list EXCEPT ![count].depth = @ + 1]
                     ELSE Append(list, entry)
<1>6. Reported(f, pos, v) = IF count = room \/ offset > MaxOffset THEN f
                            ELSE [list |-> more, offset |-> offset, length |-> length]
  BY <1>2 DEF Reported, nOffset
<1>7. CASE count = room \/ offset > MaxOffset
  <2>1. Reported(f, pos, v) = f
    BY <1>6, <1>7
  <2>2. FoundBehind(f, pos)
    BY <1>2, <1>3, <1>4, <1>5 DEF FoundBehind
  <2>3. QED
    BY <2>1, <2>2
<1>8. ASSUME NEW h \in Int, h <= length
      PROVE  CorrectMatch(window, r, [length |-> h, offset |-> offset])
  BY <1>1, <1>2, <1>8, CopyIsCorrect
<1>9. CASE ~(count = room \/ offset > MaxOffset)
  <2>1. PICK g : g = Reported(f, pos, v)
    OBVIOUS
  <2>2. g.list = more /\ g.offset = offset /\ g.length = length /\ count < room
    BY <1>3, <1>6, <1>9, <2>1
  <2>3. ASSUME /\ ListOK(window, r, g.list) /\ Len(g.list) <= room
               /\ offset = Last(g.list).offset - Last(g.list).depth
               /\ Last(g.list).length - Last(g.list).depth <= length
        PROVE  FoundOK(Reported(f, pos, v)) /\ FoundBehind(Reported(f, pos, v), pos)
    <3>1. g.offset \in Nat /\ g.length \in Nat /\ g.offset = offset /\ g.length = length
      BY <1>3, <2>2
    <3>2. FoundOK(g)
      BY <2>3, <3>1 DEF FoundOK
    <3>3. FoundBehind(g, pos)
      BY <1>2, <3>1 DEF FoundBehind
    <3>4. QED
      BY <2>1, <3>2, <3>3
  <2>4. CASE deeper
    <3>1. PICK e : e = list[count]
      OBVIOUS
    <3>2. /\ count \in 1 .. count /\ count # 0 /\ e \in Listed /\ e.depth < e.offset
          /\ f.offset = e.offset - e.depth /\ e.length - e.depth <= f.length
          /\ offset = f.offset - 1 /\ length = f.length - 1 /\ e.depth < LCP_MAX
      BY <1>3, <1>5, <2>4, <3>1
    <3>12. EntryOK(window, r, e)
      BY <1>3, <3>1, <3>2
    <3>3. PICK a \in 1 .. LCP_MAX, b \in Nat \ {0}, c \in 0 .. LCP_MAX :
            e = [length |-> a, offset |-> b, depth |-> c]
      BY <3>2 DEF Listed
    <3>4. PICK new : new = [length |-> a, offset |-> b, depth |-> c + 1]
      OBVIOUS
    <3>5. /\ new \in Listed /\ c + 1 < b /\ offset = b - (c + 1) /\ a - (c + 1) <= length
          /\ new.offset = b /\ new.length = a /\ new.depth = c + 1
      BY <1>3, <3>2, <3>3, <3>4 DEF Listed
    <3>6. g.list = [list EXCEPT ![count] = new]
      <4>1. [e EXCEPT !.depth = e.depth + 1] = new
        BY <3>3, <3>4
      <4>2. more = [list EXCEPT ![count] = [list[count] EXCEPT !.depth = list[count].depth + 1]]
        BY <2>4
      <4>3. QED
        BY <2>2, <3>1, <4>1, <4>2
    <3> HIDE DEF deeper, more, list, count
    <3>7. /\ g.list \in Seq(Listed) /\ Len(g.list) = count /\ g.list[count] = new
          /\ \A k \in 1 .. count : k # count => g.list[k] = list[k]
      BY <1>3, <3>2, <3>5, <3>6, SMTT(30)
    <3>8. EntryOK(window, r, new)
      <4>1. ASSUME NEW d \in 0 .. c + 1
            PROVE  CorrectMatch(window, r, [length |-> a - d, offset |-> b - d])
        <5>1. CASE d = c + 1
          BY <1>8, <3>5, <5>1
        <5>2. CASE d \in 0 .. c
          <6>1. EntryOK(window, r, e)
            BY <3>12
          <6>2. [length |-> a - d, offset |-> b - d] \in Variants(e)
            BY <3>3, <5>2 DEF Variants
          <6>3. QED
            BY <6>1, <6>2 DEF EntryOK
        <5>3. QED
          BY <5>1, <5>2
      <4>2. \A w \in Variants(new) : CorrectMatch(window, r, w)
        BY <3>5, <4>1 DEF Variants
      <4>3. kc_limit_match_len_local(a) = a
        BY <3>3, <3>12 DEF EntryOK
      <4>4. QED
        BY <3>5, <4>2, <4>3 DEF EntryOK
    <3>9. ListOK(window, r, g.list)
      <4>1. \A k \in 1 .. count : EntryOK(window, r, g.list[k])
        BY <1>3, <3>7, <3>8
      <4>2. ASSUME NEW k \in 1 .. count PROVE g.list[k].offset = list[k].offset
        <5>1. e.offset = b
          BY <3>3
        <5>2. k = count => g.list[k] = new /\ list[k] = e
          BY <3>1, <3>7
        <5>3. k # count => g.list[k] = list[k]
          BY <3>7
        <5>4. QED
          BY <3>5, <5>1, <5>2, <5>3
      <4>3. QED
        BY <1>3, <3>7, <4>1, <4>2 DEF ListOK
    <3>10. Last(g.list) = new
      BY <3>7 DEF Last
    <3>11. QED
      BY <1>3, <2>3, <3>5, <3>7, <3>9, <3>10
  <2>5. CASE ~deeper
    <3>1. PICK new : new = entry
      OBVIOUS
    <3>2. kc_limit_match_len_local(length) \in 1 .. length
      BY ParsingAssumption DEF kc_limit_match_len_local
    <3>3. PICK a \in 1 .. length : a = kc_limit_match_len_local(length)
      BY <3>2
    <3>4. new = [length |-> a, offset |-> offset, depth |-> 0]
      BY <3>1, <3>3
    <3>5. /\ new \in Listed /\ new.offset = offset /\ new.length = a /\ new.depth = 0
      BY <1>3, <3>4 DEF Listed
    <3>6. g.list = Append(list, new)
      BY <2>2, <2>5, <3>1
    <3> HIDE DEF deeper, more, entry, list, count
    <3>7. /\ g.list \in Seq(Listed) /\ Len(g.list) = count + 1 /\ g.list[count + 1] = new
          /\ \A k \in 1 .. count : g.list[k] = list[k]
      BY <1>3, <3>5, <3>6
    <3>8. EntryOK(window, r, new)
      <4>1. CorrectMatch(window, r, [length |-> a - 0, offset |-> offset - 0])
        BY <1>8
      <4>2. \A w \in Variants(new) : w = [length |-> a - 0, offset |-> offset - 0]
        BY <3>5 DEF Variants
      <4>3. kc_limit_match_len_local(a) = a
        BY <3>3, ParsingAssumption DEF kc_limit_match_len_local
      <4>4. QED
        BY <3>5, <4>1, <4>2, <4>3 DEF EntryOK
    <3>9. ListOK(window, r, g.list)
      <4>1. ASSUME NEW k \in 1 .. count + 1 PROVE EntryOK(window, r, g.list[k])
        <5>1. CASE k = count + 1
          BY <3>7, <3>8, <5>1
        <5>2. CASE k # count + 1
          <6>1. k \in 1 .. count
            BY <1>3, <5>2
          <6>2. g.list[k] = list[k]
            BY <3>7, <6>1
          <6>3. EntryOK(window, r, list[k])
            BY <1>3, <6>1
          <6>4. QED
            BY <6>2, <6>3
        <5>3. QED
          BY <5>1, <5>2
      <4>2. ASSUME NEW j \in 1 .. count PROVE offset < list[j].offset
        <5>1. list[j] \in Listed /\ list[count] \in Listed /\ count # 0 /\ count \in 1 .. count
          BY <1>3, <1>5
        <5>2. list[count].offset <= list[j].offset
          <6>1. j = count \/ j < count
            BY <1>3
          <6>2. j < count => list[count].offset < list[j].offset
            BY <1>3, <5>1
          <6>3. list[j].offset \in Nat /\ list[count].offset \in Nat
            BY <5>1 DEF Listed
          <6>4. QED
            BY <6>1, <6>2, <6>3
        <5>3. offset < list[count].offset
          <6>1. list[count].offset \in Nat /\ list[count].depth \in Nat
            BY <5>1 DEF Listed
          <6>2. QED
            BY <1>5, <5>1, <6>1, SMTT(30)
        <5>4. list[j].offset \in Nat /\ list[count].offset \in Nat
          BY <5>1 DEF Listed
        <5>5. QED
          BY <5>2, <5>3, <5>4
      <4>3. ASSUME NEW j \in 1 .. count + 1, NEW k \in 1 .. count + 1, j < k
            PROVE  g.list[k].offset < g.list[j].offset
        <5>1. j \in 1 .. count /\ (k = count + 1 \/ k \in 1 .. count)
          BY <1>3, <4>3
        <5>2. g.list[j] = list[j]
          BY <3>7, <5>1
        <5>3. CASE k = count + 1
          BY <3>5, <3>7, <4>2, <5>1, <5>2, <5>3
        <5>4. CASE k \in 1 .. count
          <6>1. g.list[k] = list[k]
            BY <3>7, <5>4
          <6>2. list[k].offset < list[j].offset
            BY <1>3, <4>3, <5>1, <5>4
          <6>3. QED
            BY <5>2, <6>1, <6>2
        <5>5. QED
          BY <5>1, <5>3, <5>4
      <4>4. count + 1 <= MaxMatches
        BY <1>3, <2>2
      <4>5. QED
        BY <1>3, <3>7, <4>1, <4>3, <4>4 DEF ListOK
    <3>10. Last(g.list) = new
      BY <3>7 DEF Last
    <3>11. Len(g.list) <= room
      BY <1>3, <2>2, <3>7
    <3>12. QED
      BY <2>3, <3>5, <3>9, <3>10, <3>11
  <2>6. QED
    BY <2>4, <2>5
<1>10. QED
  BY <1>7, <1>9

-----------------------------------------------------------------------------
(***************************************************************************)
(* The invariant while the positions are looked up.  An interval leads to  *)
(* the one it lies in or was last visited from a position of it.  A        *)
(* position is linked to an interval it is of and that a later one has     *)
(* visited; this is the present one only where the walk went already.      *)
(***************************************************************************)
SeenFrom(tree, k, q) ==
  intervals[k] = Visited(q) /\ q <= r /\ Of(window, tree, q, tree.word[k])

UpOK(tree) ==
  /\ intervals \in [Starts(window) -> Nat] /\ intervals[0] = 0
  /\ \A k \in 1 .. tree.count - 1 :
       \/ Inside(window, tree, k, intervals[k])
       \/ \E q \in Starts(window) : SeenFrom(tree, k, q)

LinkOK(p) ==
  pos_data[p] # 0 =>
    \E q \in Starts(window) :
      /\ intervals[Pos(pos_data[p])] = Visited(q) /\ p < q /\ q <= r
      /\ q = r => phase \in {"link", "follow"} /\ p < match_pos

LinksOK == \A p \in Starts(window) : p < r => LinkOK(p)

AscendOK(tree) ==
  phase = "ascend" =>
    /\ Of(window, tree, r, ref) /\ super_ref = intervals[Pos(ref)]
    /\ \A k \in 1 .. tree.count - 1 : intervals[k] = Visited(r) => ref < tree.word[k]

WalkOK(tree) ==
  phase \in {"link", "follow"} =>
    /\ Of(window, tree, r, ref) /\ Pos(ref) # 0
    /\ match_pos \in 0 .. r - 1 /\ Of(window, tree, match_pos, ref)
    /\ \E q \in Starts(window) : intervals[Pos(ref)] = Visited(q) /\ q <= match_pos
    /\ FoundOK(found) /\ FoundBehind(found, match_pos)

FindWith(tree) ==
  /\ WindowOK /\ TreeOK(window, tree) /\ PositionsOK(tree) /\ MatchesOK
  /\ phase \in {"find", "ascend", "link", "follow", "done"} /\ r \in 0 .. n
  /\ phase # "done" => r < n
  /\ phase \in {"ascend", "link", "follow"} => pos_data[r] = 0
  /\ phase = "find" => \A k \in 1 .. tree.count - 1 : intervals[k] # Visited(r)
  /\ phase \notin {"link", "follow"} => found = NothingFound
  /\ UpOK(tree) /\ LinksOK /\ AscendOK(tree) /\ WalkOK(tree)

FindInv == \E tree : FindWith(tree)

(* All intervals are closed. *)
LEMMA FinishStep ==
  ASSUME NEW tree, BuildWith(tree), FinishBuild
  PROVE  FindWith(tree)'
<1> DEFINE Deep == 2 .. Len(open_intervals)
<1>1. /\ WindowOK /\ TreeOK(window, tree) /\ SuffixesLeft /\ PositionsOK(tree) /\ ClosedOK(tree)
      /\ StackOK(window, tree, prev_pos, open_intervals) /\ NothingListed
  BY DEF BuildWith
<1>2. /\ pos_data' = [pos_data EXCEPT ![prev_pos] = top]
      /\ intervals' = [k \in DOMAIN intervals |->
           IF \E d \in Deep : Pos(open_intervals[d]) = k
           THEN open_intervals[(CHOOSE d \in Deep : Pos(open_intervals[d]) = k) - 1]
           ELSE intervals[k]]
      /\ r' = 0 /\ phase' = "find" /\ window' = window /\ start' = start
      /\ found' = found /\ match' = match
  BY DEF FinishBuild, searchVars
<1>3. /\ window \in Seq(Byte) /\ Len(window) \in Nat \ {0} /\ n = Len(window) /\ n' = n
      /\ prev_pos \in Starts(window) /\ start \in Starts(window)
      /\ intervals \in [Starts(window) -> Words] /\ intervals[0] = 0
  BY <1>1, <1>2 DEF WindowOK, SuffixesLeft, n
<1>4. WindowOK'
  BY <1>1, <1>2 DEF WindowOK
<1>5. top \in Words /\ Of(window, tree, prev_pos, top)
  BY <1>1, <1>3, StackTop DEF top
<1>6. PositionsOK(tree)'
  BY <1>1, <1>2, <1>5, SetPosition
<1>7. ASSUME NEW d \in Deep
      PROVE  /\ Of(window, tree, prev_pos, open_intervals[d])
             /\ Of(window, tree, prev_pos, open_intervals[d - 1])
             /\ open_intervals[d] \in Words /\ open_intervals[d - 1] \in Words
             /\ Lcp(open_intervals[d - 1]) < Lcp(open_intervals[d])
             /\ Pos(open_intervals[d]) # 0
             /\ open_intervals[d] = tree.word[Pos(open_intervals[d])]
  <2>1. /\ d \in 1 .. Len(open_intervals) /\ d - 1 \in 1 .. Len(open_intervals) /\ d - 1 < d
    BY <1>1 DEF StackOK
  <2>2. /\ Of(window, tree, prev_pos, open_intervals[d])
        /\ Of(window, tree, prev_pos, open_intervals[d - 1])
        /\ Lcp(open_intervals[d - 1]) < Lcp(open_intervals[d])
    BY <1>1, <2>1 DEF StackOK
  <2>3. open_intervals[d] \in Words /\ open_intervals[d - 1] \in Words
    BY <1>1, <1>3, <2>2, OfTypes
  <2>4. Lcp(open_intervals[d - 1]) \in Nat /\ Lcp(open_intervals[d]) \in Nat
    <3>1. \A v \in Words : Lcp(v) \in Nat
      BY WordSplit, Limits
    <3>2. QED
      BY <2>3, <3>1
  <2>5. Pos(open_intervals[d]) # 0
    <3>1. Lcp(open_intervals[d]) # 0
      BY <2>2, <2>4
    <3>2. QED
      BY <1>1, <1>3, <2>2, <3>1, OfTypes
  <2>6. QED
    BY <2>2, <2>3, <2>5 DEF Of
<1> HIDE DEF Deep
<1>8. ASSUME NEW k \in Starts(window)
      PROVE  \/ \E d \in Deep : Pos(open_intervals[d]) = k /\ intervals'[k] = open_intervals[d - 1]
             \/ intervals'[k] = intervals[k] /\ ~ \E d \in Deep : Pos(open_intervals[d]) = k
  BY <1>2, <1>3
<1>9. intervals' \in [Starts(window) -> Words]
  <2>1. ASSUME NEW k \in Starts(window) PROVE intervals'[k] \in Words
    BY <1>3, <1>7, <1>8
  <2>2. DOMAIN intervals' = Starts(window)
        /\ intervals' = [k \in Starts(window) |-> intervals'[k]]
    BY <1>2, <1>3
  <2>3. QED
    BY <2>1, <2>2
<1>10. intervals'[0] = 0
  <2>1. 0 \in Starts(window)
    BY <1>3 DEF Starts
  <2>2. QED
    BY <1>3, <1>7, <1>8, <2>1
<1>11. ASSUME NEW k \in 1 .. tree.count - 1 PROVE Inside(window, tree, k, intervals'[k])
  <2>1. k \in Starts(window) /\ Pos(tree.word[k]) = k /\ Lcp(tree.word[k]) >= Tags
    <3>1. tree.count \in 1 .. Len(window) /\ Pos(tree.word[k]) = k /\ Lcp(tree.word[k]) >= Tags
      BY <1>1 DEF TreeOK
    <3>2. QED
      BY <1>3, <3>1 DEF Starts
  <2>2. CASE \E d \in Deep : Pos(open_intervals[d]) = k
    <3>1. PICK d \in Deep : Pos(open_intervals[d]) = k /\ intervals'[k] = open_intervals[d - 1]
      BY <1>8, <2>1, <2>2
    <3>2. QED
      BY <1>1, <1>3, <1>7, <3>1, InsideMade
  <2>3. CASE ~ \E d \in Deep : Pos(open_intervals[d]) = k
    <3>1. intervals'[k] = intervals[k]
      BY <1>8, <2>1, <2>3
    <3>2. ASSUME NEW d \in 1 .. Len(open_intervals), open_intervals[d] = tree.word[k]
          PROVE  FALSE
      <4>1. d # 1
        <5> SUFFICES ASSUME d = 1 PROVE FALSE
          OBVIOUS
        <5>1. tree.word[k] = 0
          BY <1>1, <3>2 DEF StackOK
        <5>2. QED
          BY <2>1, <5>1, WordZero, Limits
      <4>2. d \in Deep
        BY <4>1 DEF Deep
      <4>3. Pos(open_intervals[d]) = k
        BY <2>1, <3>2
      <4>4. QED
        BY <2>3, <4>2, <4>3
    <3>3. QED
      BY <1>1, <3>1, <3>2 DEF ClosedOK
  <2>4. QED
    BY <2>2, <2>3
<1>12. UpOK(tree)'
  <2>1. intervals' \in [Starts(window) -> Nat]
    BY <1>9, Limits DEF Words
  <2>2. QED
    BY <1>2, <1>10, <1>11, <2>1 DEF UpOK
<1>13. ASSUME NEW k \in 1 .. tree.count - 1 PROVE intervals'[k] # Visited(0)
  <2>1. k \in Starts(window)
    BY <1>1, <1>3 DEF TreeOK, Starts
  <2>2. 0 \in 0 .. PosLimit - 1
    BY Limits
  <2>3. Visited(0) \notin Words
    BY <2>2, VisitedParts
  <2>4. QED
    BY <1>9, <2>1, <2>3
<1>14. MatchesOK'
  <2>1. match' = [p \in start .. n - 1 |-> <<>>]
    BY <1>1, <1>2 DEF NothingListed
  <2>2. ListOK(window, 0, <<>>) /\ \A p : ListOK(window, p, <<>>)
    BY MatchFinderAssumption DEF ListOK
  <2>3. <<>> \in Seq(Listed)
    OBVIOUS
  <2>4. QED
    BY <1>2, <1>3, <2>1, <2>2, <2>3 DEF MatchesOK
<1>15. LinksOK' /\ AscendOK(tree)' /\ WalkOK(tree)'
  <2>1. \A p \in Starts(window) : ~(p < 0)
    BY <1>3 DEF Starts
  <2>2. QED
    BY <1>2, <2>1 DEF LinksOK, AscendOK, WalkOK
<1>16. found' = NothingFound
  BY <1>1, <1>2 DEF NothingListed
<1>17. r' \in 0 .. n' /\ r' < n'
  BY <1>2, <1>3
<1>18. QED
  BY <1>1, <1>2, <1>4, <1>6, <1>12, <1>13, <1>14, <1>15, <1>16, <1>17 DEF FindWith

LEMMA VisitedTypes ==
  ASSUME WindowOK, NEW q \in Starts(window)
  PROVE  /\ Visited(q) \in Nat /\ Visited(q) >= VISITED /\ Visited(q) \notin Words
         /\ Visited(q) - VISITED = q /\ Visited(q) % VISITED = q /\ Lcp(Visited(q)) = 0
         /\ Visited(q) # 0 /\ q \in Nat /\ q < n
<1>1. q \in 0 .. PosLimit - 1 /\ q \in Nat /\ q < n
  BY Limits DEF WindowOK, Starts, n
<1>2. /\ Visited(q) \in Nat /\ Visited(q) >= VISITED /\ Visited(q) \notin Words
      /\ Visited(q) - VISITED = q /\ Visited(q) % VISITED = q /\ Lcp(Visited(q)) = 0
  BY <1>1, VisitedParts
<1>3. Visited(q) # 0
  <2>1. VISITED \in Nat \ {0}
    BY Limits
  <2>2. QED
    BY <1>2, <2>1
<1>4. QED
  BY <1>1, <1>2, <1>3

LEMMA UpIs ==
  ASSUME NEW tree, WindowOK, TreeOK(window, tree), UpOK(tree), NEW k \in 1 .. tree.count - 1
  PROVE  /\ k \in Starts(window) /\ Pos(tree.word[k]) = k /\ Lcp(tree.word[k]) >= Tags
         /\ Of(window, tree, tree.rep[k], tree.word[k]) => tree.word[k] \in Words
         /\ tree.word[k] \in Words
         /\ Inside(window, tree, k, intervals[k]) => intervals[k] \in Words
         /\ intervals[k] \in Words => Inside(window, tree, k, intervals[k])
         /\ intervals[k] \in Words \/ \E q \in Starts(window) : SeenFrom(tree, k, q)
         /\ \A q \in Starts(window) : intervals[k] = Visited(q) => SeenFrom(tree, k, q)
<1>1. /\ k \in Starts(window) /\ Pos(tree.word[k]) = k /\ Lcp(tree.word[k]) >= Tags
      /\ window \in Seq(Byte)
  <2>1. tree.count \in 1 .. Len(window) /\ Len(window) \in Nat
    BY DEF TreeOK, WindowOK
  <2>2. QED
    BY <2>1 DEF TreeOK, WindowOK, Starts
<1>2. tree.word[k] \in Words /\ tree.rep[k] \in Starts(window)
  BY <1>1 DEF TreeOK
<1>3. Inside(window, tree, k, intervals[k]) => intervals[k] \in Words
  BY <1>1, <1>2, OfTypes DEF Inside
<1>4. \/ Inside(window, tree, k, intervals[k])
      \/ \E q \in Starts(window) : SeenFrom(tree, k, q)
  BY DEF UpOK
<1>5. ASSUME NEW q \in Starts(window), SeenFrom(tree, k, q) PROVE intervals[k] \notin Words
  BY <1>5, VisitedTypes DEF SeenFrom
<1>6. ASSUME NEW q \in Starts(window), intervals[k] = Visited(q) PROVE SeenFrom(tree, k, q)
  <2>1. intervals[k] \notin Words
    BY <1>6, VisitedTypes
  <2>2. PICK o \in Starts(window) : SeenFrom(tree, k, o)
    BY <1>3, <1>4, <2>1
  <2>3. Visited(o) = Visited(q)
    BY <1>6, <2>2 DEF SeenFrom
  <2>4. o = q
    BY <2>3, VisitedTypes
  <2>5. QED
    BY <2>2, <2>4
<1>7. QED
  BY <1>1, <1>2, <1>3, <1>4, <1>5, <1>6

(* An interval of this position is visited. *)
LEMMA VisitUp ==
  ASSUME NEW tree, WindowOK, TreeOK(window, tree), UpOK(tree), NEW k \in 1 .. tree.count - 1,
         r \in Starts(window), Of(window, tree, r, tree.word[k]), window' = window,
         intervals' = [intervals EXCEPT ![k] = Visited(r)], r' = r \/ r' = r + 1
  PROVE  /\ UpOK(tree)' /\ intervals'[k] = Visited(r)
         /\ \A j \in Starts(window) : j # k => intervals'[j] = intervals[j]
         /\ \A i \in 1 .. tree.count - 1 : \A q \in Starts(window) :
              intervals'[i] = Visited(q) => q <= r
<1>1. k \in Starts(window) /\ k # 0 /\ r \in Nat /\ r <= r' /\ Visited(r) \in Nat
      /\ 0 \in Starts(window) /\ tree.count \in 1 .. Len(window) /\ Len(window) \in Nat
  BY UpIs, VisitedTypes, SMTT(30) DEF WindowOK, Starts, TreeOK
<1>2. /\ intervals' \in [Starts(window) -> Nat] /\ intervals'[k] = Visited(r)
      /\ \A j \in Starts(window) : j # k => intervals'[j] = intervals[j]
  BY <1>1 DEF UpOK
<1>3. ASSUME NEW j \in 1 .. tree.count - 1
      PROVE  \/ Inside(window, tree, j, intervals'[j])
             \/ \E q \in Starts(window) : SeenFrom(tree, j, q)'
  <2>1. CASE j = k
    BY <1>1, <1>2, <2>1 DEF SeenFrom
  <2>2. CASE j # k
    <3>1. intervals'[j] = intervals[j]
      BY <1>1, <1>2, <2>2 DEF Starts
    <3>2. CASE Inside(window, tree, j, intervals[j])
      BY <3>1, <3>2
    <3>3. CASE \E q \in Starts(window) : SeenFrom(tree, j, q)
      <4>1. PICK q \in Starts(window) : SeenFrom(tree, j, q)
        BY <3>3
      <4>2. q \in Nat
        BY VisitedTypes
      <4>3. SeenFrom(tree, j, q)'
        BY <1>1, <3>1, <4>1, <4>2 DEF SeenFrom
      <4>4. QED
        BY <4>3
    <3>4. QED
      BY <3>2, <3>3 DEF UpOK
  <2>3. QED
    BY <2>1, <2>2
<1>4. intervals'[0] = 0
  BY <1>1, <1>2 DEF UpOK
<1>5. UpOK(tree)'
  <2>1. \A j \in 1 .. tree.count - 1 :
          Inside(window, tree, j, intervals'[j]) => Inside(window, tree, j, intervals[j])'
    OBVIOUS
  <2>2. QED
    BY <1>2, <1>3, <1>4 DEF UpOK
<1>6. ASSUME NEW j \in 1 .. tree.count - 1, NEW q \in Starts(window), intervals'[j] = Visited(q)
      PROVE  q <= r
  <2>1. CASE j = k
    <3>1. q = r
      BY <1>2, <1>6, <2>1, VisitedTypes
    <3>2. QED
      BY <1>1, <3>1
  <2>2. CASE j # k
    <3>1. intervals'[j] = intervals[j]
      BY <1>1, <1>2, <2>2 DEF Starts
    <3>2. SeenFrom(tree, j, q)
      BY <1>6, <3>1, UpIs
    <3>3. QED
      BY <3>2 DEF SeenFrom
  <2>3. QED
    BY <2>1, <2>2
<1>7. QED
  BY <1>2, <1>5, <1>6

(* A position is done with: its list is stored. *)
LEMMA NextPositionStep ==
  ASSUME NEW tree, FindWith(tree), r < n, NEW f, FoundOK(f), NextPosition(f),
         window' = window, start' = start,
         UpOK(tree)', PositionsOK(tree)', pos_data'[r] = 0,
         \A k \in 1 .. tree.count - 1 : \A q \in Starts(window) :
           intervals'[k] = Visited(q) => q <= r,
         \A p \in Starts(window) : p < r /\ pos_data'[p] # 0 =>
           \E q \in Starts(window) :
             intervals'[Pos(pos_data'[p])] = Visited(q) /\ p < q /\ q <= r
  PROVE  FindWith(tree)'
<1>1. /\ WindowOK /\ TreeOK(window, tree) /\ MatchesOK /\ r \in 0 .. n /\ n = Len(window)
      /\ Len(window) \in Nat /\ start \in Nat
  BY DEF FindWith, WindowOK, n, Starts
<1>2. /\ match' = IF r < start THEN match ELSE [match EXCEPT ![r] = f.list]
      /\ found' = NothingFound /\ r' = r + 1
      /\ phase' = IF r' = n THEN "done" ELSE "find"
  BY DEF NextPosition, nOffset
<1>3. WindowOK' /\ n' = n /\ r \in Nat
  BY <1>1 DEF WindowOK, n
<1>4. MatchesOK'
  <2>1. CASE r < start
    BY <1>1, <1>2, <1>3, <2>1 DEF MatchesOK
  <2>2. CASE ~(r < start)
    <3>1. ListOK(window, r, f.list) /\ f.list \in Seq(Listed)
      BY DEF FoundOK, ListOK
    <3>2. r \in start .. n - 1
      BY <1>1, <1>3, <2>2
    <3>3. match' = [match EXCEPT ![r] = f.list]
      BY <1>2, <2>2
    <3>4. QED
      BY <1>1, <1>3, <3>1, <3>2, <3>3 DEF MatchesOK
  <2>3. QED
    BY <2>1, <2>2
<1>5. LinksOK'
  <2>1. ASSUME NEW p \in Starts(window), p < r', pos_data'[p] # 0
        PROVE  \E q \in Starts(window) :
                 /\ intervals'[Pos(pos_data'[p])] = Visited(q) /\ p < q /\ q <= r'
                 /\ q = r' => phase' \in {"link", "follow"} /\ p < match_pos'
    <3>1. p \in Nat /\ p # r
      BY <2>1, <1>1 DEF Starts
    <3>2. p < r
      BY <1>2, <1>3, <2>1, <3>1
    <3>3. PICK q \in Starts(window) :
            intervals'[Pos(pos_data'[p])] = Visited(q) /\ p < q /\ q <= r
      BY <2>1, <3>2
    <3>4. q \in Nat
      BY DEF Starts
    <3>5. q <= r' /\ q # r'
      BY <1>2, <1>3, <3>3, <3>4
    <3>6. QED
      BY <3>3, <3>5
  <2>2. QED
    BY <2>1 DEF LinksOK, LinkOK
<1>6. ASSUME NEW k \in 1 .. tree.count - 1, phase' = "find" PROVE intervals'[k] # Visited(r')
  <2>1. r' \in Starts(window)
    BY <1>1, <1>2, <1>3, <1>6 DEF Starts
  <2>2. ~(r' <= r)
    BY <1>2, <1>3
  <2>3. QED
    BY <2>1, <2>2
<1>7. AscendOK(tree)' /\ WalkOK(tree)'
  BY <1>2 DEF AscendOK, WalkOK
<1>8. r' \in 0 .. n' /\ (phase' # "done" => r' < n') /\ phase' \in {"find", "done"}
  BY <1>1, <1>2, <1>3
<1>9. QED
  BY <1>1, <1>2, <1>3, <1>4, <1>5, <1>6, <1>7, <1>8 DEF FindWith

LEMMA LookUpStep ==
  ASSUME NEW tree, FindWith(tree), LookUp
  PROVE  FindWith(tree)'
<1>1. /\ WindowOK /\ TreeOK(window, tree) /\ PositionsOK(tree) /\ MatchesOK /\ r \in 0 .. n
      /\ UpOK(tree) /\ LinksOK
  BY DEF FindWith
<1>2. /\ phase = "find" /\ ref' = pos_data[r] /\ super_ref' = intervals[Pos(pos_data[r])]
      /\ pos_data' = [pos_data EXCEPT ![r] = 0] /\ phase' = "ascend"
      /\ window' = window /\ start' = start /\ intervals' = intervals /\ r' = r
      /\ found' = found /\ match' = match /\ match_pos' = match_pos
  BY DEF LookUp, buildVars, nOffset
<1>3. r < n /\ found = NothingFound /\ \A k \in 1 .. tree.count - 1 : intervals[k] # Visited(r)
  BY <1>2 DEF FindWith
<1>4. r \in Starts(window) /\ window \in Seq(Byte) /\ n = Len(window) /\ Len(window) \in Nat
  BY <1>1, <1>3 DEF WindowOK, Starts, n
<1>5. WindowOK' /\ MatchesOK' /\ n' = n
  BY <1>1, <1>2 DEF WindowOK, MatchesOK, n
<1>6. PositionsOK(tree)' /\ pos_data'[r] = 0
      /\ \A p \in Starts(window) : p # r => pos_data'[p] = pos_data[p]
  <2>1. Of(window, tree, r, 0)
    BY <1>1, <1>4, OfRoot
  <2>2. pos_data \in [Starts(window) -> Words] /\ 0 \in Words
    BY <1>1, WordZero DEF PositionsOK
  <2>3. /\ pos_data' \in [Starts(window) -> Words] /\ pos_data'[r] = 0
        /\ \A p \in Starts(window) : p # r => pos_data'[p] = pos_data[p]
    BY <1>2, <1>4, <2>2
  <2>4. ASSUME NEW p \in Starts(window) PROVE Of(window, tree, p, pos_data'[p])
    <3>1. CASE p = r
      BY <2>1, <2>3, <3>1
    <3>2. CASE p # r
      BY <1>1, <2>3, <3>2 DEF PositionsOK
    <3>3. QED
      BY <3>1, <3>2
  <2>5. QED
    BY <1>2, <2>3, <2>4 DEF PositionsOK
<1>7. UpOK(tree)'
  BY <1>1, <1>2 DEF UpOK, SeenFrom
<1>8. LinksOK'
  <2>1. ASSUME NEW p \in Starts(window), p < r PROVE LinkOK(p)'
    <3>1. LinkOK(p)
      BY <1>1, <2>1 DEF LinksOK
    <3>2. pos_data'[p] = pos_data[p]
      BY <1>4, <1>6, <2>1 DEF Starts
    <3>3. QED
      BY <1>2, <3>1, <3>2 DEF LinkOK
  <2>2. QED
    BY <1>2, <2>1 DEF LinksOK
<1>9. AscendOK(tree)'
  <2>1. Of(window, tree, r, pos_data[r])
    BY <1>1, <1>4 DEF PositionsOK
  <2>2. QED
    BY <1>2, <1>3, <2>1 DEF AscendOK
<1>10. WalkOK(tree)'
  BY <1>2 DEF WalkOK
<1>11. QED
  BY <1>1, <1>2, <1>3, <1>5, <1>6, <1>7, <1>8, <1>9, <1>10 DEF FindWith

(* Links lead to visited intervals: setting one that is not leaves them be. *)
LEMMA LinksStay ==
  ASSUME NEW tree, FindWith(tree), NEW k \in Starts(window), intervals[k] \in Words,
         window' = window, pos_data' = pos_data, r' = r,
         \A i \in Starts(window) : i # k => intervals'[i] = intervals[i],
         phase \notin {"link", "follow"}
  PROVE  /\ LinksOK'
         /\ \A p \in Starts(window) : p < r /\ pos_data'[p] # 0 =>
              \E q \in Starts(window) :
                intervals'[Pos(pos_data'[p])] = Visited(q) /\ p < q /\ q < r
<1>1. WindowOK /\ TreeOK(window, tree) /\ PositionsOK(tree) /\ LinksOK /\ window \in Seq(Byte)
      /\ r \in Int
  BY DEF FindWith, WindowOK
<1>2. ASSUME NEW p \in Starts(window), p < r, pos_data[p] # 0
      PROVE  \E q \in Starts(window) :
               intervals'[Pos(pos_data[p])] = Visited(q) /\ p < q /\ q < r
  <2>1. LinkOK(p)
    BY <1>1, <1>2 DEF LinksOK
  <2>2. PICK q \in Starts(window) :
          /\ intervals[Pos(pos_data[p])] = Visited(q) /\ p < q /\ q <= r
          /\ q = r => phase \in {"link", "follow"} /\ p < match_pos
    BY <1>2, <2>1 DEF LinkOK
  <2>3. q < r
    <3>1. q # r /\ q \in Nat
      BY <2>2, <1>1, VisitedTypes
    <3>2. QED
      BY <1>1, <2>2, <3>1
  <2>4. Pos(pos_data[p]) # k
    BY <1>1, <2>2, VisitedTypes
  <2>5. Pos(pos_data[p]) \in Starts(window)
    BY <1>1, OfTypes DEF PositionsOK
  <2>6. QED
    BY <2>2, <2>3, <2>4, <2>5
<1>3. LinksOK'
  <2>1. ASSUME NEW p \in Starts(window), p < r, pos_data[p] # 0
        PROVE  \E q \in Starts(window) :
                 /\ intervals'[Pos(pos_data[p])] = Visited(q) /\ p < q /\ q <= r
                 /\ q = r => phase' \in {"link", "follow"} /\ p < match_pos'
    <3>1. PICK q \in Starts(window) :
            intervals'[Pos(pos_data[p])] = Visited(q) /\ p < q /\ q < r
      BY <1>2, <2>1
    <3>2. q \in Nat
      BY <1>1, VisitedTypes
    <3>3. q <= r /\ q # r
      BY <1>1, <3>1, <3>2
    <3>4. QED
      BY <3>1, <3>3
  <2>2. QED
    BY <2>1 DEF LinksOK, LinkOK
<1>4. QED
  BY <1>2, <1>3

LEMMA AscendStep ==
  ASSUME NEW tree, FindWith(tree), Ascend
  PROVE  FindWith(tree)'
<1>1. /\ WindowOK /\ TreeOK(window, tree) /\ PositionsOK(tree) /\ MatchesOK /\ r \in 0 .. n
      /\ UpOK(tree) /\ LinksOK
  BY DEF FindWith
<1>2. /\ phase = "ascend" /\ Lcp(super_ref) # 0
      /\ intervals' = [intervals EXCEPT ![Pos(ref)] = Visited(r)]
      /\ ref' = super_ref /\ super_ref' = intervals[Pos(super_ref)]
      /\ pos_data' = pos_data /\ phase' = phase
      /\ window' = window /\ start' = start /\ r' = r
      /\ found' = found /\ match' = match /\ match_pos' = match_pos
  BY DEF Ascend, buildVars, nOffset
<1>3. /\ r < n /\ found = NothingFound /\ pos_data[r] = 0
      /\ Of(window, tree, r, ref) /\ super_ref = intervals[Pos(ref)]
      /\ \A k \in 1 .. tree.count - 1 : intervals[k] = Visited(r) => ref < tree.word[k]
  BY <1>2 DEF FindWith, AscendOK
<1>4. r \in Starts(window) /\ window \in Seq(Byte) /\ n = Len(window) /\ Len(window) \in Nat
  BY <1>1, <1>3 DEF WindowOK, Starts, n
<1>5. WindowOK' /\ MatchesOK' /\ n' = n /\ PositionsOK(tree)'
  BY <1>1, <1>2 DEF WindowOK, MatchesOK, n, PositionsOK
<1>6. PICK k \in 1 .. tree.count - 1 : k = Pos(ref) /\ ref = tree.word[k] /\ ref \in Words
  <2>1. Pos(ref) # 0
    BY <1>1, <1>2, <1>3, WordZero DEF UpOK
  <2>2. Pos(ref) \in 1 .. tree.count - 1 /\ ref \in Words
    BY <1>1, <1>3, <1>4, <2>1, OfTypes
  <2>3. QED
    BY <1>3, <2>2 DEF Of
<1>7. k \in Starts(window) /\ super_ref \in Words /\ Inside(window, tree, k, super_ref)
  <2>1. super_ref \in Words
    <3>1. ASSUME NEW q \in Starts(window), SeenFrom(tree, k, q) PROVE FALSE
      BY <1>1, <1>2, <1>3, <1>6, <3>1, VisitedTypes DEF SeenFrom
    <3>2. QED
      BY <1>1, <1>3, <1>6, <3>1, UpIs
  <2>2. QED
    BY <1>1, <1>3, <1>6, <2>1, UpIs
<1>8. Of(window, tree, r, super_ref) /\ Lcp(super_ref) < Lcp(ref)
  <2>1. Of(window, tree, r, super_ref)
    BY <1>1, <1>3, <1>4, <1>6, <1>7, OfUp
  <2>2. QED
    BY <1>6, <1>7, <2>1 DEF Inside
<1>9. /\ UpOK(tree)' /\ intervals'[k] = Visited(r)
      /\ \A i \in Starts(window) : i # k => intervals'[i] = intervals[i]
  <2>1. Of(window, tree, r, tree.word[k])
    BY <1>3, <1>6
  <2>2. window' = window /\ intervals' = [intervals EXCEPT ![k] = Visited(r)] /\ r' = r
    BY <1>2, <1>6
  <2>3. QED
    BY <1>1, <1>4, <2>1, <2>2, VisitUp
<1>10. LinksOK'
  BY <1>2, <1>3, <1>6, <1>7, <1>9, LinksStay
<1>11. super_ref < ref /\ super_ref \in Nat /\ ref \in Nat
  BY <1>6, <1>7, <1>8, WordOrder, Limits DEF Words
<1>12. AscendOK(tree)'
  <2>1. intervals'[Pos(super_ref)] = intervals[Pos(super_ref)]
    <3>1. Pos(super_ref) \in Starts(window) /\ super_ref = tree.word[Pos(super_ref)]
      BY <1>1, <1>4, <1>8, OfTypes DEF Of
    <3>2. Pos(super_ref) # k
      BY <1>6, <1>11, <3>1
    <3>3. QED
      BY <1>9, <3>1, <3>2
  <2>2. ASSUME NEW i \in 1 .. tree.count - 1, intervals'[i] = Visited(r)
        PROVE  super_ref < tree.word[i]
    <3>1. CASE i = k
      BY <1>6, <1>11, <3>1
    <3>2. CASE i # k
      <4>1. i \in Starts(window) /\ tree.word[i] \in Words
        BY <1>1, UpIs
      <4>2. ref < tree.word[i]
        BY <1>3, <1>9, <2>2, <3>2, <4>1
      <4>3. tree.word[i] \in Nat
        BY <4>1, Limits DEF Words
      <4>4. QED
        BY <1>11, <4>2, <4>3
    <3>3. QED
      BY <3>1, <3>2
  <2>3. QED
    BY <1>2, <1>8, <2>1, <2>2 DEF AscendOK
<1>13. WalkOK(tree)'
  BY <1>2 DEF WalkOK
<1>14. QED
  BY <1>1, <1>2, <1>3, <1>5, <1>9, <1>10, <1>12, <1>13 DEF FindWith

LEMMA FirstVisitStep ==
  ASSUME NEW tree, FindWith(tree), FirstVisit
  PROVE  FindWith(tree)'
<1>1. /\ WindowOK /\ TreeOK(window, tree) /\ PositionsOK(tree) /\ MatchesOK /\ r \in 0 .. n
      /\ UpOK(tree) /\ LinksOK
  BY DEF FindWith
<1>2. /\ phase = "ascend" /\ super_ref = 0
      /\ intervals' = IF ref = 0 THEN intervals
                      ELSE [intervals EXCEPT ![Pos(ref)] = Visited(r)]
      /\ NextPosition(NothingFound)
      /\ window' = window /\ start' = start /\ pos_data' = pos_data
  BY DEF FirstVisit, buildVars, nOffset
<1>3. /\ r < n /\ pos_data[r] = 0 /\ Of(window, tree, r, ref) /\ super_ref = intervals[Pos(ref)]
  BY <1>2 DEF FindWith, AscendOK
<1>4. r \in Starts(window) /\ window \in Seq(Byte) /\ n = Len(window) /\ Len(window) \in Nat
      /\ r' = r + 1 /\ r \in Nat
  BY <1>1, <1>2, <1>3 DEF WindowOK, Starts, n, NextPosition
<1>5. PositionsOK(tree)' /\ FoundOK(NothingFound)
  BY <1>1, <1>2, NothingIsOK DEF PositionsOK
<1>6. ASSUME NEW p \in Starts(window), p < r, pos_data[p] # 0
      PROVE  \E q \in Starts(window) :
               intervals[Pos(pos_data[p])] = Visited(q) /\ p < q /\ q < r
  <2>1. LinkOK(p)
    BY <1>1, <1>6 DEF LinksOK
  <2>2. PICK q \in Starts(window) :
          /\ intervals[Pos(pos_data[p])] = Visited(q) /\ p < q /\ q <= r
          /\ q = r => phase \in {"link", "follow"} /\ p < match_pos
    BY <1>6, <2>1 DEF LinkOK
  <2>3. q # r /\ q \in Nat
    BY <1>1, <1>2, <2>2, VisitedTypes
  <2>4. QED
    BY <1>4, <2>2, <2>3
<1>7. /\ UpOK(tree)'
      /\ \A i \in 1 .. tree.count - 1 : \A q \in Starts(window) :
           intervals'[i] = Visited(q) => q <= r
      /\ \A p \in Starts(window) : p < r /\ pos_data[p] # 0 =>
           \E q \in Starts(window) :
             intervals'[Pos(pos_data[p])] = Visited(q) /\ p < q /\ q <= r
  <2>1. CASE ref = 0
    <3>1. intervals' = intervals
      BY <1>2, <2>1
    <3>2. \A i \in 1 .. tree.count - 1 : \A q \in Starts(window) :
            intervals[i] = Visited(q) => q <= r
      BY <1>1, UpIs DEF SeenFrom
    <3>3. UpOK(tree)'
      <4>1. ASSUME NEW i \in 1 .. tree.count - 1, NEW q \in Starts(window), SeenFrom(tree, i, q)
            PROVE  SeenFrom(tree, i, q)'
        <5>1. q \in Nat
          BY <1>1, VisitedTypes
        <5>2. QED
          BY <1>2, <1>4, <3>1, <4>1, <5>1 DEF SeenFrom
      <4>2. QED
        BY <1>1, <1>2, <3>1, <4>1 DEF UpOK
    <3>4. ASSUME NEW p \in Starts(window), p < r, pos_data[p] # 0
          PROVE  \E q \in Starts(window) :
                   intervals'[Pos(pos_data[p])] = Visited(q) /\ p < q /\ q <= r
      <4>1. PICK q \in Starts(window) :
              intervals[Pos(pos_data[p])] = Visited(q) /\ p < q /\ q < r
        BY <1>6, <3>4
      <4>2. q \in Nat
        BY <1>1, VisitedTypes
      <4>3. QED
        BY <1>4, <3>1, <4>1, <4>2
    <3>5. QED
      BY <3>1, <3>2, <3>3, <3>4
  <2>2. CASE ref # 0
    <3>1. PICK k \in 1 .. tree.count - 1 : k = Pos(ref) /\ ref = tree.word[k]
      <4>1. Pos(ref) \in 1 .. tree.count - 1
        BY <1>1, <1>3, <1>4, <2>2, OfTypes
      <4>2. QED
        BY <1>3, <4>1 DEF Of
    <3>2. intervals' = [intervals EXCEPT ![k] = Visited(r)]
      BY <1>2, <2>2, <3>1
    <3>3. /\ UpOK(tree)'
          /\ \A j \in Starts(window) : j # k => intervals'[j] = intervals[j]
          /\ \A i \in 1 .. tree.count - 1 : \A q \in Starts(window) :
               intervals'[i] = Visited(q) => q <= r
      <4>1. Of(window, tree, r, tree.word[k])
        BY <1>3, <3>1
      <4>2. window' = window /\ (r' = r \/ r' = r + 1)
        BY <1>2, <1>4
      <4>3. /\ WindowOK /\ TreeOK(window, tree) /\ UpOK(tree) /\ r \in Starts(window)
            /\ intervals' = [intervals EXCEPT ![k] = Visited(r)]
        BY <1>1, <1>4, <3>2
      <4>4. QED
        BY <4>1, <4>2, <4>3, VisitUp
    <3>4. ASSUME NEW p \in Starts(window), p < r, pos_data[p] # 0
          PROVE  \E q \in Starts(window) :
                   intervals'[Pos(pos_data[p])] = Visited(q) /\ p < q /\ q <= r
      <4>1. PICK q \in Starts(window) :
              intervals[Pos(pos_data[p])] = Visited(q) /\ p < q /\ q < r
        BY <1>6, <3>4
      <4>2. q \in Nat /\ Visited(q) # 0
        BY <1>1, VisitedTypes
      <4>3. Pos(pos_data[p]) # k
        BY <1>2, <1>3, <3>1, <4>1, <4>2
      <4>4. Pos(pos_data[p]) \in Starts(window)
        BY <1>1, <1>4, OfTypes DEF PositionsOK
      <4>5. intervals'[Pos(pos_data[p])] = Visited(q)
        BY <3>3, <4>1, <4>3, <4>4
      <4>6. QED
        BY <1>4, <4>1, <4>2, <4>5
    <3>5. QED
      BY <3>3, <3>4
  <2>3. QED
    BY <2>1, <2>2
<1>8. QED
  BY <1>2, <1>3, <1>5, <1>7, NextPositionStep

LEMMA VisitedBeforeStep ==
  ASSUME NEW tree, FindWith(tree), VisitedBefore
  PROVE  FindWith(tree)'
<1>1. /\ WindowOK /\ TreeOK(window, tree) /\ PositionsOK(tree) /\ MatchesOK /\ r \in 0 .. n
      /\ UpOK(tree) /\ LinksOK
  BY DEF FindWith
<1>2. /\ phase = "ascend" /\ super_ref >= VISITED /\ match_pos' = super_ref - VISITED
      /\ found' = Reported(NothingFound, match_pos', ref) /\ phase' = "link"
      /\ intervals' = intervals /\ pos_data' = pos_data /\ r' = r /\ ref' = ref
      /\ super_ref' = super_ref /\ match' = match /\ window' = window /\ start' = start
  BY DEF VisitedBefore, buildVars
<1>3. /\ r < n /\ pos_data[r] = 0 /\ Of(window, tree, r, ref) /\ super_ref = intervals[Pos(ref)]
      /\ \A k \in 1 .. tree.count - 1 : intervals[k] = Visited(r) => ref < tree.word[k]
  BY <1>2 DEF FindWith, AscendOK
<1>4. r \in Starts(window) /\ window \in Seq(Byte) /\ n = Len(window) /\ Len(window) \in Nat
      /\ r \in Nat
  BY <1>1, <1>3 DEF WindowOK, Starts, n
<1>5. PICK k \in 1 .. tree.count - 1 :
        k = Pos(ref) /\ ref = tree.word[k] /\ ref \in Words /\ Pos(ref) # 0
  <2>1. Pos(ref) # 0
    <3>1. VISITED \in Nat \ {0}
      BY Limits
    <3>2. QED
      BY <1>1, <1>2, <1>3, <3>1 DEF UpOK
  <2>2. Pos(ref) \in 1 .. tree.count - 1 /\ ref \in Words
    BY <1>1, <1>3, <1>4, <2>1, OfTypes
  <2>3. QED
    BY <1>3, <2>1, <2>2 DEF Of
<1>6. PICK q \in Starts(window) : SeenFrom(tree, k, q)
  <2>1. intervals[k] \notin Words
    <3>1. intervals[k] >= VISITED
      BY <1>2, <1>3, <1>5
    <3>2. VISITED \in Nat
      BY Limits
    <3>3. QED
      BY <3>1, <3>2 DEF Words
  <2>2. QED
    BY <1>1, <2>1, UpIs
<1>7. super_ref = Visited(q) /\ q <= r /\ Of(window, tree, q, ref)
  BY <1>3, <1>5, <1>6 DEF SeenFrom
<1>8. q \in Nat /\ match_pos' = q
  BY <1>1, <1>2, <1>7, VisitedTypes
<1>9. q # r
  <2> SUFFICES ASSUME q = r PROVE FALSE
    OBVIOUS
  <2>1. intervals[k] = Visited(r)
    BY <1>3, <1>5, <1>7
  <2>2. ref < ref
    BY <1>3, <1>5, <2>1
  <2>3. ref \in Nat
    BY <1>5, Limits DEF Words
  <2>4. QED
    BY <2>2, <2>3
<1>10. q \in 0 .. r - 1
  BY <1>4, <1>7, <1>8, <1>9
<1>11. FoundOK(found') /\ FoundBehind(found', q)
  <2>1. Length(ref) \in 1 .. LCP_MAX
    BY <1>1, <1>3, <1>4, <1>5, OfTypes, TaggedLength
  <2>2. Agree(window, r, q, Length(ref))
    BY <1>1, <1>3, <1>4, <1>7, OfBoth
  <2>3. FoundOK(NothingFound) /\ NothingFound.list = <<>>
    BY <1>1, NothingIsOK DEF NothingFound
  <2>4. QED
    BY <1>1, <1>2, <1>4, <1>8, <1>10, <2>1, <2>2, <2>3, ReportedOK
<1>12. WalkOK(tree)'
  <2>1. FoundOK(found)' /\ FoundBehind(found, match_pos)'
    BY <1>2, <1>8, <1>11 DEF FoundOK, FoundBehind, room, nOffset
  <2>2. intervals[Pos(ref)] = Visited(q)
    BY <1>3, <1>7
  <2>3. q <= q
    BY <1>8
  <2>4. QED
    BY <1>2, <1>3, <1>5, <1>7, <1>8, <1>10, <2>1, <2>2, <2>3 DEF WalkOK
<1>13. LinksOK'
  <2>1. 0 \in Starts(window) /\ intervals[0] \in Words
    BY <1>1, <1>4, WordZero DEF UpOK, Starts
  <2>2. QED
    BY <1>2, <2>1, LinksStay
<1>14. WindowOK' /\ MatchesOK' /\ n' = n /\ PositionsOK(tree)' /\ UpOK(tree)'
  BY <1>1, <1>2 DEF WindowOK, MatchesOK, n, PositionsOK, UpOK, SeenFrom
<1>15. AscendOK(tree)'
  BY <1>2 DEF AscendOK
<1>16. QED
  BY <1>1, <1>2, <1>3, <1>12, <1>13, <1>14, <1>15 DEF FindWith

(* A link of the position that is looked at leads on to a later one. *)
LEMMA LinkIs ==
  ASSUME NEW tree, FindWith(tree), phase \in {"link", "follow"}, link # 0
  PROVE  \E q \in Starts(window) :
           /\ intervals[Pos(link)] = Visited(q) /\ match_pos < q /\ q < r
           /\ Of(window, tree, q, link) /\ Of(window, tree, match_pos, link)
           /\ link \in Words /\ Pos(link) \in 1 .. tree.count - 1
           /\ match_pos \in Starts(window)
<1>1. /\ WindowOK /\ TreeOK(window, tree) /\ PositionsOK(tree) /\ r \in 0 .. n
      /\ UpOK(tree) /\ LinksOK /\ r < n /\ match_pos \in 0 .. r - 1
  BY DEF FindWith, WalkOK
<1>2. match_pos \in Starts(window) /\ match_pos < r /\ window \in Seq(Byte) /\ r \in Nat
      /\ match_pos \in Nat
  BY <1>1 DEF WindowOK, Starts, n
<1>3. LinkOK(match_pos)
  BY <1>1, <1>2 DEF LinksOK
<1>4. PICK q \in Starts(window) :
        intervals[Pos(link)] = Visited(q) /\ match_pos < q /\ q <= r
        /\ (q = r => match_pos < match_pos)
  BY <1>3 DEF LinkOK, link
<1>5. q < r
  <2>1. q # r /\ q \in Nat
    BY <1>1, <1>2, <1>4, VisitedTypes
  <2>2. QED
    BY <1>2, <1>4, <2>1
<1>6. Of(window, tree, match_pos, link)
  BY <1>1, <1>2 DEF PositionsOK, link
<1>7. Pos(link) \in 1 .. tree.count - 1 /\ link \in Words
  <2>1. Pos(link) # 0
    BY <1>1, <1>2, <1>6, OfTypes
  <2>2. QED
    BY <1>1, <1>2, <1>6, <2>1, OfTypes
<1>8. SeenFrom(tree, Pos(link), q)
  BY <1>1, <1>4, <1>7, UpIs
<1>9. Of(window, tree, q, link)
  BY <1>6, <1>8 DEF SeenFrom, Of
<1>10. QED
  BY <1>2, <1>4, <1>5, <1>6, <1>7, <1>9

LEMMA FollowLinkStep ==
  ASSUME NEW tree, FindWith(tree), FollowLink
  PROVE  FindWith(tree)'
<1>1. /\ WindowOK /\ TreeOK(window, tree) /\ PositionsOK(tree) /\ MatchesOK /\ r \in 0 .. n
      /\ UpOK(tree) /\ LinksOK
  BY DEF FindWith
<1>2. /\ phase \in {"link", "follow"} /\ link > ref
      /\ match_pos' = intervals[Pos(link)] % VISITED
      /\ found' = IF phase = "link" THEN Reported(found, match_pos', ref) ELSE found
      /\ phase' = "follow"
      /\ intervals' = intervals /\ pos_data' = pos_data /\ r' = r /\ ref' = ref
      /\ match' = match /\ window' = window /\ start' = start
  BY DEF FollowLink, buildVars
<1>3. /\ r < n /\ pos_data[r] = 0
      /\ Of(window, tree, r, ref) /\ Pos(ref) # 0
      /\ match_pos \in 0 .. r - 1 /\ Of(window, tree, match_pos, ref)
      /\ \E q \in Starts(window) : intervals[Pos(ref)] = Visited(q) /\ q <= match_pos
      /\ FoundOK(found) /\ FoundBehind(found, match_pos)
  BY <1>2 DEF FindWith, WalkOK
<1>4. r \in Starts(window) /\ window \in Seq(Byte) /\ n = Len(window) /\ Len(window) \in Nat
      /\ r \in Nat /\ match_pos \in Nat
  BY <1>1, <1>3 DEF WindowOK, Starts, n
<1>5. ref \in Words /\ ref \in Nat /\ Length(ref) \in 1 .. LCP_MAX
  <2>1. ref \in Words /\ Lcp(ref) >= Tags
    BY <1>1, <1>3, <1>4, OfTypes
  <2>2. QED
    BY <2>1, TaggedLength, Limits DEF Words
<1>6. link # 0
  BY <1>2, <1>5
<1>7. PICK q \in Starts(window) :
        /\ intervals[Pos(link)] = Visited(q) /\ match_pos < q /\ q < r
        /\ Of(window, tree, q, link) /\ Of(window, tree, match_pos, link)
        /\ link \in Words /\ match_pos \in Starts(window)
  BY <1>2, <1>6, LinkIs
<1>8. match_pos' = q /\ q \in Nat /\ q \in 0 .. r - 1
  <2>1. match_pos' = q /\ q \in Nat
    BY <1>1, <1>2, <1>7, VisitedTypes
  <2>2. QED
    BY <1>4, <1>7, <2>1
<1>9. Of(window, tree, q, ref)
  <2>1. Length(ref) <= Length(link)
    <3>1. link \in Nat
      BY <1>7, Limits DEF Words
    <3>2. ref <= link
      BY <1>2, <1>5, <3>1
    <3>3. QED
      BY <1>5, <1>7, <3>2, WordOrder
  <2>2. Length(link) \in Nat
    BY <1>7, WordSplit, Limits
  <2>3. Agree(window, match_pos, q, Length(link))
    BY <1>1, <1>4, <1>7, OfBoth
  <2>4. QED
    BY <1>1, <1>3, <1>4, <1>7, <2>1, <2>2, <2>3, OfOther
<1>10. FoundOK(found') /\ FoundBehind(found', q)
  <2>1. found.list # <<>> => r - q < found.offset
    <3>1. found.offset \in Nat
      BY <1>3 DEF FoundOK
    <3>2. QED
      BY <1>3, <1>4, <1>7, <1>8, <3>1 DEF FoundBehind
  <2>2. Agree(window, r, q, Length(ref))
    BY <1>1, <1>3, <1>4, <1>9, OfBoth
  <2>3. CASE phase = "link"
    <3>1. found' = Reported(found, q, ref)
      BY <1>2, <1>8, <2>3
    <3>2. FoundOK(Reported(found, q, ref)) /\ FoundBehind(Reported(found, q, ref), q)
      BY <1>1, <1>3, <1>4, <1>5, <1>8, <2>1, <2>2, ReportedOK
    <3>3. QED
      BY <3>1, <3>2
  <2>4. CASE phase # "link"
    <3>1. found' = found
      BY <1>2, <2>4
    <3>2. found.offset \in Nat
      BY <1>3 DEF FoundOK
    <3>3. FoundBehind(found, q)
      BY <1>4, <1>8, <2>1, <3>2 DEF FoundBehind
    <3>4. QED
      BY <1>3, <3>1, <3>3
  <2>5. QED
    BY <2>3, <2>4
<1>11. WalkOK(tree)'
  <2>1. FoundOK(found)' /\ FoundBehind(found, match_pos)'
    BY <1>2, <1>8, <1>10 DEF FoundOK, FoundBehind, room, nOffset
  <2>2. PICK o \in Starts(window) : intervals[Pos(ref)] = Visited(o) /\ o <= match_pos
    BY <1>3
  <2>3. o <= q
    <3>1. o \in Nat
      BY <1>1, VisitedTypes
    <3>2. QED
      BY <1>4, <1>7, <1>8, <2>2, <3>1
  <2>4. QED
    BY <1>2, <1>3, <1>8, <1>9, <2>1, <2>2, <2>3 DEF WalkOK
<1>12. LinksOK'
  <2>1. ASSUME NEW p \in Starts(window), p < r PROVE LinkOK(p)'
    <3>1. LinkOK(p)
      BY <1>1, <2>1 DEF LinksOK
    <3>2. p < match_pos => p < match_pos'
      <4>1. p \in Nat
        BY <1>1, VisitedTypes
      <4>2. QED
        BY <1>4, <1>7, <1>8, <4>1
    <3>3. QED
      BY <1>2, <3>1, <3>2 DEF LinkOK
  <2>2. QED
    BY <1>2, <2>1 DEF LinksOK
<1>13. WindowOK' /\ MatchesOK' /\ n' = n /\ PositionsOK(tree)' /\ UpOK(tree)'
  BY <1>1, <1>2 DEF WindowOK, MatchesOK, n, PositionsOK, UpOK, SeenFrom
<1>14. AscendOK(tree)'
  BY <1>2 DEF AscendOK
<1>15. QED
  BY <1>1, <1>2, <1>3, <1>11, <1>12, <1>13, <1>14 DEF FindWith

LEMMA FollowedAllStep ==
  ASSUME NEW tree, FindWith(tree), FollowedAll
  PROVE  FindWith(tree)'
<1>1. /\ WindowOK /\ TreeOK(window, tree) /\ PositionsOK(tree) /\ MatchesOK /\ r \in 0 .. n
      /\ UpOK(tree) /\ LinksOK
  BY DEF FindWith
<1>2. /\ phase \in {"link", "follow"} /\ link <= ref
      /\ intervals' = [intervals EXCEPT ![Pos(ref)] = Visited(r)]
      /\ pos_data' = [pos_data EXCEPT ![match_pos] = ref]
      /\ IF link = 0
         THEN NextPosition(Relink(found))
         ELSE /\ ref' = link
              /\ match_pos' = intervals'[Pos(link)] % VISITED
              /\ found' = Reported(Relink(found), match_pos', link)
              /\ phase' = "link" /\ r' = r /\ match' = match
      /\ window' = window /\ start' = start
  BY DEF FollowedAll, buildVars, nOffset
<1>3. /\ r < n /\ pos_data[r] = 0
      /\ Of(window, tree, r, ref) /\ Pos(ref) # 0
      /\ match_pos \in 0 .. r - 1 /\ Of(window, tree, match_pos, ref)
      /\ FoundOK(found) /\ FoundBehind(found, match_pos)
  BY <1>2 DEF FindWith, WalkOK
<1>4. /\ r \in Starts(window) /\ window \in Seq(Byte) /\ n = Len(window) /\ Len(window) \in Nat
      /\ r \in Nat /\ match_pos \in Nat /\ match_pos \in Starts(window) /\ match_pos < r
  BY <1>1, <1>3 DEF WindowOK, Starts, n
<1>5. ref \in Words /\ ref \in Nat /\ Length(ref) \in 1 .. LCP_MAX
  <2>1. ref \in Words /\ Lcp(ref) >= Tags
    BY <1>1, <1>3, <1>4, OfTypes
  <2>2. QED
    BY <2>1, TaggedLength, Limits DEF Words
<1>6. PICK k \in 1 .. tree.count - 1 : k = Pos(ref) /\ ref = tree.word[k]
  <2>1. Pos(ref) \in 1 .. tree.count - 1
    BY <1>1, <1>3, <1>4, OfTypes
  <2>2. QED
    BY <1>3, <2>1 DEF Of
<1>7. PICK o \in Starts(window) : intervals[k] = Visited(o) /\ o <= match_pos
  <2>1. \E o \in Starts(window) : intervals[Pos(ref)] = Visited(o) /\ o <= match_pos
    BY <1>2 DEF FindWith, WalkOK
  <2>2. QED
    BY <1>6, <2>1
<1>8. r' = r \/ r' = r + 1
  BY <1>2 DEF NextPosition
<1>9. /\ UpOK(tree)' /\ intervals'[k] = Visited(r)
      /\ \A j \in Starts(window) : j # k => intervals'[j] = intervals[j]
      /\ \A i \in 1 .. tree.count - 1 : \A q \in Starts(window) :
           intervals'[i] = Visited(q) => q <= r
  <2>1. Of(window, tree, r, tree.word[k])
    BY <1>3, <1>6
  <2>2. intervals' = [intervals EXCEPT ![k] = Visited(r)] /\ window' = window
    BY <1>2, <1>6
  <2>3. QED
    BY <1>1, <1>4, <1>8, <2>1, <2>2, VisitUp
<1>10. /\ pos_data' \in [Starts(window) -> Words] /\ pos_data'[match_pos] = ref
       /\ \A p \in Starts(window) : p # match_pos => pos_data'[p] = pos_data[p]
  BY <1>1, <1>2, <1>4, <1>5 DEF PositionsOK
<1>11. PositionsOK(tree)' /\ pos_data'[r] = 0
  <2>1. ASSUME NEW p \in Starts(window) PROVE Of(window, tree, p, pos_data'[p])
    <3>1. CASE p = match_pos
      BY <1>3, <1>10, <3>1
    <3>2. CASE p # match_pos
      BY <1>1, <1>10, <3>2 DEF PositionsOK
    <3>3. QED
      BY <3>1, <3>2
  <2>2. PositionsOK(tree)'
    BY <1>2, <1>10, <2>1 DEF PositionsOK
  <2>3. QED
    BY <1>3, <1>4, <1>10, <2>2
<1>12. ASSUME NEW p \in Starts(window), p < r, pos_data'[p] # 0
       PROVE  \E q \in Starts(window) :
                /\ intervals'[Pos(pos_data'[p])] = Visited(q) /\ p < q /\ q <= r
                /\ q = r => p <= match_pos
  <2>1. CASE p = match_pos
    <3>1. intervals'[Pos(pos_data'[p])] = Visited(r)
      BY <1>6, <1>9, <1>10, <2>1
    <3>2. QED
      BY <1>4, <2>1, <3>1
  <2>2. CASE p # match_pos
    <3>1. pos_data'[p] = pos_data[p] /\ pos_data[p] # 0 /\ p \in Nat
      BY <1>1, <1>10, <1>12, <2>2, VisitedTypes
    <3>2. LinkOK(p)
      BY <1>1, <1>12 DEF LinksOK
    <3>3. PICK q \in Starts(window) :
            /\ intervals[Pos(pos_data[p])] = Visited(q) /\ p < q /\ q <= r
            /\ q = r => p < match_pos
      BY <3>1, <3>2 DEF LinkOK
    <3>4. q \in Nat /\ o \in Nat
      BY <1>1, VisitedTypes
    <3>5. CASE Pos(pos_data[p]) = k
      <4>1. q = o
        BY <1>1, <1>7, <3>3, <3>5, VisitedTypes
      <4>2. intervals'[Pos(pos_data'[p])] = Visited(r)
        BY <1>9, <3>1, <3>5
      <4>3. p <= match_pos
        BY <1>4, <1>7, <3>1, <3>3, <3>4, <4>1
      <4>4. QED
        BY <1>4, <1>12, <4>2, <4>3
    <3>6. CASE Pos(pos_data[p]) # k
      <4>1. Pos(pos_data[p]) \in Starts(window)
        BY <1>1, <1>4, OfTypes DEF PositionsOK
      <4>2. intervals'[Pos(pos_data'[p])] = Visited(q)
        BY <1>9, <3>1, <3>3, <3>6, <4>1
      <4>3. q = r => p <= match_pos
        BY <1>4, <3>1, <3>3
      <4>4. QED
        BY <3>3, <4>2, <4>3
    <3>7. QED
      BY <3>5, <3>6
  <2>3. QED
    BY <2>1, <2>2
<1>13. FoundOK(Relink(found)) /\ FoundBehind(Relink(found), match_pos)
  <2>1. CASE r - match_pos # found.offset
    <3>1. Relink(found) = Reported(found, match_pos, ref)
      BY <2>1 DEF Relink, nOffset
    <3>2. found.list # <<>> => r - match_pos < found.offset
      <4>1. found.offset \in Nat
        BY <1>3 DEF FoundOK
      <4>2. QED
        BY <1>3, <1>4, <2>1, <4>1 DEF FoundBehind
    <3>3. Agree(window, r, match_pos, Length(ref))
      BY <1>1, <1>3, <1>4, OfBoth
    <3>4. QED
      BY <1>1, <1>3, <1>4, <1>5, <3>1, <3>2, <3>3, ReportedOK
  <2>2. CASE r - match_pos = found.offset
    BY <1>3, <2>2 DEF Relink, nOffset
  <2>3. QED
    BY <2>1, <2>2
<1>14. CASE link = 0
  <2>1. NextPosition(Relink(found))
    BY <1>2, <1>14
  <2>2. \A p \in Starts(window) : p < r /\ pos_data'[p] # 0 =>
          \E q \in Starts(window) :
            intervals'[Pos(pos_data'[p])] = Visited(q) /\ p < q /\ q <= r
    BY <1>12
  <2>3. QED
    BY <1>2, <1>3, <1>9, <1>11, <1>13, <2>1, <2>2, NextPositionStep
<1>15. CASE link # 0
  <2>1. /\ ref' = link /\ match_pos' = intervals'[Pos(link)] % VISITED
        /\ found' = Reported(Relink(found), match_pos', link)
        /\ phase' = "link" /\ r' = r /\ match' = match
    BY <1>2, <1>15
  <2>2. PICK q \in Starts(window) :
          /\ intervals[Pos(link)] = Visited(q) /\ match_pos < q /\ q < r
          /\ Of(window, tree, q, link) /\ Of(window, tree, match_pos, link)
          /\ link \in Words /\ Pos(link) \in 1 .. tree.count - 1
    BY <1>2, <1>15, LinkIs
  <2>3. q \in Nat /\ o \in Nat /\ q \in 0 .. r - 1
    <3>1. q \in Nat /\ o \in Nat
      BY <1>1, VisitedTypes
    <3>2. QED
      BY <1>4, <2>2, <3>1
  <2>4. Pos(link) # k
    <3> SUFFICES ASSUME Pos(link) = k PROVE FALSE
      OBVIOUS
    <3>1. q = o
      BY <1>1, <1>7, <2>2, VisitedTypes
    <3>2. o <= match_pos /\ match_pos < q
      BY <1>7, <2>2
    <3>3. o \in Int /\ q \in Int /\ match_pos \in Int
      BY <1>4, <2>3
    <3>4. QED
      BY <3>1, <3>2, <3>3
  <2>5. intervals'[Pos(link)] = Visited(q) /\ Pos(link) # 0
    <3>1. Pos(link) \in Starts(window) /\ Pos(link) # 0
      BY <1>1, <1>4, <2>2 DEF TreeOK, Starts
    <3>2. QED
      BY <1>9, <2>2, <2>4, <3>1
  <2>6. match_pos' = q
    BY <1>1, <2>1, <2>5, VisitedTypes
  <2>7. Of(window, tree, r, link)
    <3>1. Length(link) <= Length(ref)
      BY <1>2, <1>5, <2>2, WordOrder
    <3>2. Agree(window, match_pos, r, Length(ref))
      BY <1>1, <1>3, <1>4, OfBoth
    <3>3. Length(ref) \in Nat
      BY <1>5, WordSplit, Limits
    <3>4. QED
      BY <1>1, <1>4, <2>2, <3>1, <3>2, <3>3, OfOther
  <2>8. Length(link) \in 1 .. LCP_MAX
    <3>1. Lcp(link) >= Tags
      BY <1>1, <1>4, <2>5, <2>7, OfTypes
    <3>2. QED
      BY <2>2, <3>1, TaggedLength
  <2>9. FoundOK(found') /\ FoundBehind(found', q)
    <3> DEFINE f == Relink(found)
    <3>1. FoundOK(f) /\ FoundBehind(f, match_pos)
      BY <1>13
    <3>2. found' = Reported(f, q, link)
      BY <2>1, <2>6
    <3> HIDE DEF f
    <3>3. f.list # <<>> => r - q < f.offset
      <4>1. f.offset \in Nat
        BY <3>1 DEF FoundOK
      <4>2. QED
        BY <1>4, <2>2, <2>3, <3>1, <4>1 DEF FoundBehind
    <3>4. Agree(window, r, q, Length(link))
      BY <1>1, <1>4, <2>2, <2>7, OfBoth
    <3>5. FoundOK(Reported(f, q, link)) /\ FoundBehind(Reported(f, q, link), q)
      BY <1>1, <1>4, <2>3, <2>8, <3>1, <3>3, <3>4, ReportedOK
    <3>6. QED
      BY <3>2, <3>5
  <2>10. WalkOK(tree)'
    <3>1. FoundOK(found)' /\ FoundBehind(found, match_pos)'
      BY <1>2, <2>1, <2>6, <2>9 DEF FoundOK, FoundBehind, room, nOffset
    <3>2. q <= q
      BY <2>3
    <3>3. QED
      BY <1>2, <2>1, <2>2, <2>3, <2>5, <2>6, <2>7, <3>1, <3>2 DEF WalkOK
  <2>11. LinksOK'
    <3>1. ASSUME NEW p \in Starts(window), p < r, pos_data'[p] # 0
          PROVE  \E i \in Starts(window) :
                   /\ intervals'[Pos(pos_data'[p])] = Visited(i) /\ p < i /\ i <= r
                   /\ i = r => phase' \in {"link", "follow"} /\ p < match_pos'
      <4>1. PICK i \in Starts(window) :
              /\ intervals'[Pos(pos_data'[p])] = Visited(i) /\ p < i /\ i <= r
              /\ i = r => p <= match_pos
        BY <1>12, <3>1
      <4>2. p \in Nat
        BY <1>1, VisitedTypes
      <4>3. p <= match_pos => p < match_pos'
        BY <1>4, <2>2, <2>3, <2>6, <4>2
      <4>4. QED
        BY <2>1, <4>1, <4>3
    <3>2. QED
      BY <1>2, <2>1, <3>1 DEF LinksOK, LinkOK
  <2>12. WindowOK' /\ MatchesOK' /\ n' = n
    BY <1>1, <1>2, <2>1 DEF WindowOK, MatchesOK, n
  <2>13. AscendOK(tree)'
    BY <2>1 DEF AscendOK
  <2>14. QED
    BY <1>1, <1>2, <1>3, <1>9, <1>11, <2>1, <2>10, <2>11, <2>12, <2>13 DEF FindWith
<1>16. QED
  BY <1>14, <1>15

-----------------------------------------------------------------------------
(***************************************************************************)
(* The inductive invariant, and what it says of the lists.                 *)
(***************************************************************************)
FInv == BuildInv \/ FindInv

LEMMA FinderStutters ==
  ASSUME FInv, UNCHANGED vars
  PROVE  FInv'
<1>1. /\ window' = window /\ start' = start /\ intervals' = intervals /\ pos_data' = pos_data
      /\ open_intervals' = open_intervals /\ next_interval_idx' = next_interval_idx
      /\ r' = r /\ prev_pos' = prev_pos /\ ref' = ref /\ super_ref' = super_ref
      /\ match_pos' = match_pos /\ found' = found /\ match' = match /\ phase' = phase
  BY DEF vars
<1>2. ASSUME NEW tree, BuildWith(tree) PROVE BuildWith(tree)'
  BY <1>1, <1>2 DEF BuildWith, WindowOK, SuffixesLeft, Before, PositionsOK, ClosedOK,
                    NothingListed, n
<1>3. ASSUME NEW tree, FindWith(tree) PROVE FindWith(tree)'
  <2>1. UpOK(tree)' /\ LinksOK' /\ AscendOK(tree)'
    BY <1>1, <1>3 DEF FindWith, UpOK, SeenFrom, LinksOK, LinkOK, AscendOK
  <2>2. WalkOK(tree)'
    BY <1>1, <1>3 DEF FindWith, WalkOK, FoundOK, FoundBehind, room, nOffset
  <2>3. QED
    BY <1>1, <1>3, <2>1, <2>2 DEF FindWith, WindowOK, PositionsOK, MatchesOK, n
<1>4. QED
  BY <1>2, <1>3 DEF FInv, BuildInv, FindInv

LEMMA FinderStep ==
  ASSUME FInv, Next
  PROVE  FInv'
<1>1. ASSUME NEW tree, BuildWith(tree) PROVE FInv'
  <2>1. phase \in {"build", "close"}
    BY <1>1 DEF BuildWith
  <2>2. CASE Continue
    BY <1>1, <2>2, ContinueStep DEF FInv, BuildInv
  <2>3. CASE Open
    BY <1>1, <2>3, OpenStep DEF FInv
  <2>4. CASE Close
    BY <1>1, <2>4, CloseStep DEF FInv, BuildInv
  <2>5. CASE CloseDeepest
    BY <1>1, <2>5, CloseDeepestStep DEF FInv
  <2>6. CASE FinishBuild
    BY <1>1, <2>6, FinishStep DEF FInv, FindInv
  <2>7. QED
    BY <2>1, <2>2, <2>3, <2>4, <2>5, <2>6
    DEF Next, LookUp, Ascend, FirstVisit, VisitedBefore, FollowLink, FollowedAll
<1>2. ASSUME NEW tree, FindWith(tree) PROVE FInv'
  <2>1. phase \notin {"build", "close"}
    BY <1>2 DEF FindWith
  <2>2. LookUp \/ Ascend \/ FirstVisit \/ VisitedBefore \/ FollowLink \/ FollowedAll
    BY <2>1 DEF Next, Continue, Open, Close, CloseDeepest, FinishBuild
  <2>3. FindWith(tree)'
    BY <1>2, <2>2, LookUpStep, AscendStep, FirstVisitStep, VisitedBeforeStep, FollowLinkStep,
       FollowedAllStep
  <2>4. QED
    BY <2>3 DEF FInv, FindInv
<1>3. QED
  BY <1>1, <1>2 DEF FInv, BuildInv, FindInv

LEMMA ListsHold == FInv => WindowOK /\ MatchesOK
<1>1. ASSUME NEW tree, BuildWith(tree) PROVE WindowOK /\ MatchesOK
  <2>1. WindowOK /\ match = [p \in start .. n - 1 |-> <<>>]
    BY <1>1 DEF BuildWith, NothingListed
  <2>2. \A p : ListOK(window, p, <<>>)
    BY MatchFinderAssumption DEF ListOK
  <2>3. QED
    BY <2>1, <2>2 DEF MatchesOK
<1>2. ASSUME NEW tree, FindWith(tree) PROVE WindowOK /\ MatchesOK
  BY <1>2 DEF FindWith
<1>3. QED
  BY <1>1, <1>2 DEF FInv, BuildInv, FindInv

(***************************************************************************)
(* What the lists promise to the parser at any time, the unfinished ones   *)
(* included: lengths and depths it has room for, within the limit that is  *)
(* set for a match, no more entries than it takes, ever nearer ones, and   *)
(* every variant a copy of earlier bytes.                                  *)
(***************************************************************************)
THEOREM ListsArePromised == Spec => [](WindowOK /\ MatchesOK)
<1>1. Init => FInv
  BY InitBuild DEF FInv
<1>2. FInv /\ [Next]_vars => FInv'
  BY FinderStep, FinderStutters
<1>3. QED
  BY <1>1, <1>2, ListsHold, PTL DEF Spec

(***************************************************************************)
(* Every entry of every list, at every depth, is a copy of earlier bytes   *)
(* of the window: for every window, tag and limit, whatever the tree of    *)
(* intervals and the links between the positions are.                      *)
(***************************************************************************)
THEOREM MatchesAreCorrect == Spec => []EveryMatchIsCorrect
<1>1. WindowOK /\ MatchesOK => EveryMatchIsCorrect
  <2> SUFFICES ASSUME MatchesOK, NEW p \in DOMAIN match, NEW k \in DOMAIN match[p],
                      NEW v \in Variants(match[p][k])
               PROVE  CorrectMatch(window, p, v)
    BY DEF EveryMatchIsCorrect
  <2>1. p \in start .. n - 1 /\ match[p] \in Seq(Listed) /\ ListOK(window, p, match[p])
    BY DEF MatchesOK
  <2>2. k \in 1 .. Len(match[p])
    BY <2>1
  <2>3. EntryOK(window, p, match[p][k])
    BY <2>1, <2>2 DEF ListOK
  <2>4. QED
    BY <2>3 DEF EntryOK
<1>2. QED
  BY <1>1, ListsArePromised, PTL
=============================================================================
