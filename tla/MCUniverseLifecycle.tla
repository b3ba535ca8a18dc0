------------------------ MODULE MCUniverseLifecycle ------------------------
(* A small instance of UniverseLifecycle: a cell that the migration left     *)
(* asleep with two quanta of work, and two workers that may hold it.         *)
EXTENDS UniverseLifecycle

CONSTANTS c1, h1, h2, grid

NoNeighbors == {}
Placed      == [m \in Members |-> [cell |-> c1, gen |-> 1]]
Frozen      == [c \in Cells |-> [ev |-> 0, ack |-> 0, sched |-> 0, cutoff |-> 1]]
Records     == [c \in Cells |-> 7]
Queued      == [c \in Cells |-> 2]
=============================================================================
