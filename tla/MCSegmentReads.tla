--------------------------- MODULE MCSegmentReads ---------------------------
(***************************************************************************)
(* A small instance of SegmentReads.  After a header of one cell, a        *)
(* segment of nine holds two batches of a two-cell record exactly, or one  *)
(* other batch and a tail of zeroes.                                       *)
(***************************************************************************)
EXTENDS SegmentReads

MCShapes == {<<2>>, <<3, 2>>}
=============================================================================
