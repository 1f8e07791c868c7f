--------------------------- MODULE MCAluPrograms ---------------------------
(* Bytes of 2 bits, words of 4, longs of 8; the long operands are the boundaries. *)
EXTENDS AluPrograms

MCBits == [Byte |-> 2, Word |-> 4, Long |-> 8]
MCLongValues == {0, 1, 2, 7, 8, 85, 126, 127, 128, 129, 170, 240, 248, 254, 255}
=============================================================================
