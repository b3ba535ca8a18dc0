--------------------------- MODULE MCInterestSession ---------------------------
(* One session of a player or a spectator, a worker with one cell or two,  *)
(* two grids of which the client may see one at a time.                    *)
EXTENDS InterestSession

MCGrids == <<"g1", "g2">>
MCBounds == [steps |-> 2, crossings |-> 2, intents |-> 1, timeouts |-> 1,
             requests |-> 1, sessions |-> 2, total |-> 3]
=============================================================================
