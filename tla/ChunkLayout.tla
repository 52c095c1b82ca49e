---------------------------- MODULE ChunkLayout ----------------------------
(***************************************************************************)
(* How download_chunked divides a file of `total' bytes among `c' parallel *)
(* connections: every chunk takes total / c bytes, the last one takes what *)
(* the integer division leaves over as well.                               *)
(***************************************************************************)
EXTENDS Integers

ChunkStart(total, c, i) == i * (total \div c)

\* The last byte of chunk i, inclusive.
ChunkEnd(total, c, i) ==
  IF i = c - 1 THEN total - 1 ELSE (i + 1) * (total \div c) - 1

\* The length ChunkProgress::is_complete compares `completed' with.
ChunkLength(total, c, i) == ChunkEnd(total, c, i) - ChunkStart(total, c, i) + 1
=============================================================================
