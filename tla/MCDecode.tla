------------------------------ MODULE MCDecode ------------------------------
(* Every opcode word but the ones that differ in data only: displacement bytes,
   MOVEQ data and A-line numbers are sampled. *)
EXTENDS Decode

MCModels == {"M68000", "M68010", "M68020", "M68040", "M68060"}

MCOpcodes == {op \in 0 .. 65535 : Group(op) \in {6, 7, 10} => op % 256 \in {0, 1, 128, 255}}

\* A brief index word, a full-format one in the first and in the second place,
\* register masks (D0 only; A0 and D0; A7 in predecrement order), a 64-bit MULL.
MCStreams == {<<0, 0, 0>>, <<257, 0, 0>>, <<0, 289, 0>>, <<1025, 2049, 0>>}
=============================================================================
