----------------------------- MODULE MCGtidSeq ------------------------------
(***************************************************************************)
(* GtidSeq for TLC: two uuids, a stream of five bytes, segments that span  *)
(* three, cells that start at one per segment.  Runs of gnos, gaps, uuid   *)
(* changes and the span limit all force a segment switch; trimming leaves  *)
(* partial segments and a non-empty pool.                                  *)
(***************************************************************************)
EXTENDS GtidSeq, TLC

CONSTANTS A, B
MCUuids == {A, B}
MCSymmetry == Permutations(MCUuids)
=============================================================================
