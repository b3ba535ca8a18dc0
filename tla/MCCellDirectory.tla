-------------------------- MODULE MCCellDirectory --------------------------
(* Small instance of CellDirectory: two cells, one aggregate, two          *)
(* transfers.  The u64 limits are small, so that exhaustion of revisions,  *)
(* generations and fences is reached too.                                  *)
EXTENDS CellDirectory

CONSTANTS c1, c2, a1, t1, t2, k1, r1, h1
=============================================================================
