------------------------------ MODULE Parsing ------------------------------
(***************************************************************************)
(* What the parser and the reduction of kc_shrink.c have in common: the    *)
(* table best_match they work on, what its commands are taken to cost, and *)
(* what the writer then makes of them.                                     *)
(*                                                                         *)
(* A window is a dictionary and the payload behind it, as bytes; positions *)
(* start at 0, so the byte at position p is text[p + 1].  best is a        *)
(* function from the positions of the payload to matches, with NoMatch     *)
(* where there is none.                                                    *)
(***************************************************************************)
EXTENDS KcFormat, FiniteSetsExt, SequencesExt

CONSTANTS
  TokenCost,     \* g_kc_token_cost: --speed plus 1
  MaxMatchLen    \* g_kc_max_match_len: --max-match, 0 for no limit

ASSUME ParsingAssumption ==
  /\ TokenCost \in Nat \ {0}
  /\ MaxMatchLen \in Nat

MIN_ENCODED_MATCH_SIZE == 2

NoMatch == [length |-> 0, offset |-> 0]

kc_limit_match_len_local(length) ==
  IF MaxMatchLen > 0 /\ length > MaxMatchLen THEN MaxMatchLen ELSE length

(* The bytes of the match are those its offset earlier (memcmp). *)
SameBytes(text, pos, offset, length) ==
  \A k \in 1 .. length : text[pos + k] = text[pos + k - offset]

CorrectMatch(text, pos, m) ==
  /\ m.offset \in 1 .. pos
  /\ pos + m.length <= Len(text)
  /\ SameBytes(text, pos, m.offset, m.length)

(* A table the parser can leave: its first byte is a literal, its matches  *)
(* are correct, and none begins inside another.                            *)
IsTable(text, dictionary, table) ==
  LET positions == dictionary .. Len(text) - 1
  IN  /\ table \in [positions -> [length : 0 .. MAX_VARLEN, offset : Nat]]
      /\ table[dictionary].length = 0
      /\ \A p \in positions : table[p].length # 0 => CorrectMatch(text, p, table[p])
      /\ \A p \in positions : \A q \in p + 1 .. p + table[p].length - 1 : table[q].length = 0

(* A single byte, which only a repetition can be, has a literal before it. *)
SinglesApart(table) ==
  \A p \in DOMAIN table : table[p].length = 1 =>
    \A q \in DOMAIN table : q < p => q + table[q].length # p

-----------------------------------------------------------------------------
(* Costs in bits, without the bits of the literals themselves. *)

kc_offset_bit_cost(offset, dali) ==
  IF dali
  THEN ByteBits - 1 + kc_dali_length_bit_cost((offset - 1) \div LowOffsets + 1)
  ELSE IF offset <= LowOffsets THEN ByteBits ELSE 2 * ByteBits

salvador_get_literals_varlen_size(length) ==
  IF length > 0 THEN TokenCost + kc_dali_length_bit_cost(length) ELSE 0

salvador_get_match_varlen_size_norep(length) == kc_dali_length_bit_cost(length - 1)

salvador_get_match_varlen_size_rep(length) == kc_dali_length_bit_cost(length)

-----------------------------------------------------------------------------
(***************************************************************************)
(* The size of what salvador_write_block makes of the table, from the bits *)
(* and bytes it writes: each command bit weighs TokenCost, and the first   *)
(* run, which has none, counts as if it had one.  The walk is the          *)
(* writer's: a match is taken if it has two bytes or repeats the last      *)
(* offset behind literals; everything else is a literal.                   *)
(***************************************************************************)
CodeSize(value, skip_first_bit) == Len(kc_write_dali_length(value, skip_first_bit))

RunSize(num_literals) ==
  IF num_literals = 0 THEN 0
  ELSE TokenCost + CodeSize(num_literals, FALSE) + ByteBits * num_literals

RepeatSize(length) == TokenCost + CodeSize(length, FALSE)

OffsetMatchSize(m, dali) ==
  LET high == (m.offset - 1) \div LowOffsets
  IN  TokenCost + ByteBits
      + (IF dali THEN CodeSize(high + 1, FALSE)
         ELSE IF high = 0 THEN 1 ELSE 1 + ByteBits)
      + (IF m.length > 2 THEN CodeSize(m.length - 1, TRUE) ELSE 0)

StartOfWalk(start) == [next |-> start, rep_offset |-> 1, size |-> 0, unused |-> {}]

(* unused: matches that the writer steps over, inside others or as literals. *)
WalkOn(walk, pos, m, dali) ==
  LET num_literals == pos - walk.next
      repeated     == m.offset = walk.rep_offset /\ num_literals # 0
  IN  IF num_literals >= 0 /\ (m.length >= 2 \/ repeated)
      THEN [walk EXCEPT
              !.next = pos + m.length, !.rep_offset = m.offset,
              !.size = @ + RunSize(num_literals)
                         + (IF repeated THEN RepeatSize(m.length)
                            ELSE OffsetMatchSize(m, dali))]
      ELSE [walk EXCEPT !.unused = @ \cup {pos}]

Walk(best, start, end, dali) ==
  LET walk[pos \in start .. end] ==    \* up to pos
        IF pos = start THEN StartOfWalk(start)
        ELSE IF best[pos - 1].length = 0 THEN walk[pos - 1]
        ELSE WalkOn(walk[pos - 1], pos - 1, best[pos - 1], dali)
  IN  walk[end]

WrittenSize(best, start, end, dali) ==
  LET walk == Walk(best, start, end, dali) IN walk.size + RunSize(end - walk.next)
=============================================================================
