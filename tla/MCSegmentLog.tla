---------------------------- MODULE MCSegmentLog ----------------------------
(***************************************************************************)
(* Small instances of SegmentLog: batches of one or two records of one or  *)
(* two cells, so that one batch can end where another's record began.      *)
(***************************************************************************)
EXTENDS SegmentLog

MCShapes == {<<1>>, <<2>>, <<1, 1>>, <<2, 1>>}
=============================================================================
