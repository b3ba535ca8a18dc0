-------------------------- MODULE MCTwoCellHandoff --------------------------
(* Small instance of TwoCellHandoff: two cells, one player that can cross  *)
(* there and back, so that the second transfer meets the history of the    *)
(* first.  Receipts are pairs of a fence and an event sequence number.     *)
EXTENDS TwoCellHandoff

CONSTANTS c1, c2, p1, t1, t2, h1, LastEvent

ReceiptPairs == Fences \X (0..LastEvent)
EventNumbers == 1..LastEvent
=============================================================================
