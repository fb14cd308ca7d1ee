----------------------------- MODULE BitReader -----------------------------
(***************************************************************************)
(* Reading a stream from a cursor: what read_bit and read_byte of          *)
(* kcrunch.c, and the shift register of the assembly decoders, get out of  *)
(* it.  A number is read at once; nothing else happens while it is read.   *)
(*                                                                         *)
(* A cursor is the place of the next byte and the control byte at hand     *)
(* with the number of its bits that are still unread.  Behind the end of   *)
(* the bytes there is 0; a cursor that went there has src > Len(bytes).    *)
(***************************************************************************)
EXTENDS KcFormat

Cursor(src) == [src |-> src, byte |-> 0, left |-> 0]

ByteAt(bytes, src) == IF src \in 0 .. Len(bytes) - 1 THEN bytes[src + 1] ELSE 0

(* The n-th bit from the cursor; control bytes follow one another here.    *)
BitAt(bytes, c, n) ==
  LET k == n - c.left - 1
  IN  IF n <= c.left
      THEN Bit(c.byte, c.left - n)
      ELSE Bit(ByteAt(bytes, c.src + k \div ByteBits), ByteBits - 1 - (k % ByteBits))

AfterBits(bytes, c, n) ==
  LET more    == n - c.left
      fetched == (more + ByteBits - 1) \div ByteBits
  IN  IF n <= c.left
      THEN [c EXCEPT !.left = @ - n]
      ELSE [src  |-> c.src + fetched,
            byte |-> ByteAt(bytes, c.src + fetched - 1),
            left |-> fetched * ByteBits - more]

AfterBytes(c, n) == [c EXCEPT !.src = @ + n]

(***************************************************************************)
(* read_interlaced_elias_gamma: control and payload bits take turns, from  *)
(* the payload bit on when skip says that the control bit was elsewhere,   *)
(* until a control bit is 1.  A run of zeros that leads out of the bytes   *)
(* is no number; its length is that of all the bits there are.             *)
(***************************************************************************)
CodeBits(bytes, c, skip) ==
  LET all  == c.left + ByteBits * (Len(bytes) - c.src)
      ends == {n \in 1 .. all : n % 2 = (IF skip THEN 0 ELSE 1) /\ BitAt(bytes, c, n) = 1}
  IN  IF ends = {} THEN all + 1 ELSE CHOOSE n \in ends : \A m \in ends : n <= m

(* ... and with the payload turned back: read_interlaced_elias_gamma_le.   *)
Number_NotTurned(bytes, c, skip) ==    \* mutant: the reader without _le
  LET count == CodeBits(bytes, c, skip) \div 2
      PayloadAt(k) == BitAt(bytes, c, IF skip THEN 2 * k - 1 ELSE 2 * k)
      gathered[k \in 0 .. count] ==
        IF k = 0 THEN 1 ELSE 2 * gathered[k - 1] + PayloadAt(k)
  IN  gathered[count]

Number(bytes, c, skip) ==
  LET count == CodeBits(bytes, c, skip) \div 2
      PayloadAt(k) == BitAt(bytes, c, IF skip THEN 2 * k - 1 ELSE 2 * k)
      gathered[k \in 0 .. count] ==
        IF k = 0 THEN 1 ELSE 2 * gathered[k - 1] + PayloadAt(k)
  IN  Unrotated(gathered[count], 2 ^ count)

AfterNumber(bytes, c, skip) == AfterBits(bytes, c, CodeBits(bytes, c, skip))
=============================================================================
