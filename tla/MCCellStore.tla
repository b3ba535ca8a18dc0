---------------------------- MODULE MCCellStore ----------------------------
(* Small instances of CellStore.  A lease lasts twice its renewal interval *)
(* and its write margin, so that a renewal can be made in time and can be  *)
(* missed; the rollback tolerance is one production period, as in the      *)
(* code.                                                                   *)
EXTENDS CellStore

CONSTANTS k1
=============================================================================
