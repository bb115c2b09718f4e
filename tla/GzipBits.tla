------------------------------ MODULE GzipBits ------------------------------
(***************************************************************************)
(* engine/gnugzip/bits.go: bit strings of varying length through a 16-bit  *)
(* buffer into bytes.  A bit writer is a record; the buffer's bits above   *)
(* valid are zero, so that a bitwise or is an addition.                    *)
(***************************************************************************)
EXTENDS Integers, Sequences, FiniteSetsExt, Once

BufBits == 16

NewBits == [buf |-> 0, valid |-> 0, out |-> <<>>]

PutShort(b, w) == [b EXCEPT !.out = @ \o <<w % 256, w \div 256>>]

\* What fits goes into the buffer; a full buffer is put out and what was left
\* over of value starts the next.
SendBits(b, value, length) ==
    LET free   == BufBits - b.valid
        filled == b.buf + (value % 2^free) * 2^b.valid
    IN  IF length > free
        THEN [PutShort(b, filled) EXCEPT !.buf = value \div 2^free,
                                         !.valid = b.valid + length - BufBits]
        ELSE [b EXCEPT !.buf = filled, !.valid = b.valid + length]

RECURSIVE BiReverse(_, _)
BiReverse(code, length) ==
    IF length = 0 THEN 0
    ELSE (code % 2) * 2^(length - 1) + BiReverse(code \div 2, length - 1)

BiWindup(b) ==
    LET out == IF b.valid > 8 THEN PutShort(b, b.buf).out
               ELSE IF b.valid > 0 THEN Append(b.out, b.buf) ELSE b.out
    IN  [buf |-> 0, valid |-> 0, out |-> out]

\* A stored block's data behind its length and the length's complement.
CopyBlock(b, data) ==
    LET n == Len(data) % 2^16
        h == PutShort(PutShort(BiWindup(b), n), 2^16 - 1 - n)
    IN  [h EXCEPT !.out = @ \o data]
=============================================================================
