------------------------------ MODULE MCVerify ------------------------------
(***************************************************************************)
(* Round trips with two-bit bytes: every short text over two letters, and  *)
(* longer ones with literals and matches long enough to be rotated, with   *)
(* offsets of every high part, and of the largest size and one more.       *)
(* Windows with a dictionary, and blocks of programs.                      *)
(***************************************************************************)
EXTENDS Roundtrip

CONSTANTS MaxLen, Longer

Texts == UNION {[1 .. n -> {0, 1}] : n \in 0 .. MaxLen}

LongTexts == {
  <<0, 1, 2, 3, 1, 3, 2, 0, 3>>,
  <<0, 1, 2, 3, 0, 1, 2, 3, 0, 1, 2, 3>>,
  <<2, 0, 1, 3, 3, 1, 0, 2, 0, 2, 1, 3, 3>>,
  <<0, 0, 1, 0, 2, 0, 3, 1, 1, 2, 1, 3, 2, 2, 3>>,
  <<0, 0, 1, 0, 2, 0, 3, 1, 1, 2, 1, 3, 2, 2, 3, 3>> }   \* one byte too long

MCOriginals == Texts \cup (IF Longer THEN LongTexts ELSE {})

(***************************************************************************)
(* For the writer alone: every short window over two letters, cut into     *)
(* dictionary and payload at every place, and payloads of the largest size *)
(* and of one more, with an output that some of them do not fit.           *)
(***************************************************************************)
Limit == <<0, 0, 1, 0, 2, 0, 3, 1, 1, 2, 1, 3, 2, 2, 3, 3>>

MCWindows ==
  UNION {[text : [1 .. n -> {0, 1}], dictionary : 0 .. n] : n \in 0 .. MaxLen}
    \cup {[text |-> Limit, dictionary |-> n] : n \in 0 .. 2}

(* Both builds, with the stream and the output at different places on their pages. *)
Placed(source, to, fast) == [source |-> source, target |-> to, fast |-> fast]

MCBuilds ==
  {Placed(32, 7, TRUE), Placed(33, 4, TRUE), Placed(35, 6, TRUE), Placed(34, 1, FALSE)}

(* Blocks in either order that overlap, touch and leave gaps, at both ends *)
(* of the memory; blocks outside it, too far apart, empty, and one that    *)
(* can be packed so badly that it does not fit.                            *)
At(address, bytes) == [address |-> address, bytes |-> bytes]

MCPrograms ==
  {<<At(a, u), At(b, v)>> : a \in {0, 1, 2}, b \in {0, 3}, u \in {<<1>>, <<1, 1>>},
                            v \in {<<2, 1>>, <<>>}}
    \cup {<<At(14, u), At(12, <<1>>)>> : u \in {<<2>>, <<2, 1>>, <<2, 1, 3>>}}
    \cup {<<At(a, <<>>), At(15, <<3>>)>> : a \in {-1, 0, 15, 16}}
    \cup {<<At(9, <<1, 2>>), At(5, <<2>>), At(7, <<2, 0>>)>>,
          <<At(15, <<1>>), At(0, <<1>>)>>,
          <<At(4, <<0, 1, 2, 3, 0, 1, 2, 3, 0, 1, 2, 3>>)>>}
=============================================================================
