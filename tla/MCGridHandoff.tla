---------------------------- MODULE MCGridHandoff ----------------------------
(* Small instance of GridHandoff: a grid with its owner and a guest aboard *)
(* in one cell, and a player who stays in the other.                       *)
EXTENDS GridHandoff

CONSTANTS c1, c2, grid, owner, guest, other, t1, h1

OneWay   == {<<c1, c2>>}
Genesis  == [m \in Members |-> [cell |-> IF m = other THEN c2 ELSE c1, gen |-> 1]]
Crew     == {{grid, owner, guest}}
=============================================================================
