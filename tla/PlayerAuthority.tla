-------------------------- MODULE PlayerAuthority --------------------------
(***************************************************************************)
(* What a handoff promises about a player, without directory, cells'       *)
(* journals, packages or crashes: one cell holds the player, the player is *)
(* either able to act there or frozen, accepted operations accumulate, and *)
(* the holder changes only while the player is frozen, by one placement    *)
(* generation at a time, with every accepted operation kept.               *)
(***************************************************************************)
EXTENDS Naturals

CONSTANTS
    Cells,          \* the cells that can hold a player
    Players,        \* the players
    MaxGeneration,  \* the last placement generation
    MaxOperations   \* bound on accepted operations

VARIABLES
    holder,      \* the cell the player is placed in
    generation,  \* how often it has moved, 0 before it is registered
    frozen,      \* it cannot act
    operations   \* operations accepted so far

authorityVars == <<holder, generation, frozen, operations>>

InitAuthority ==
    /\ \E c \in Cells : holder = [p \in Players |-> c]
    /\ generation = [p \in Players |-> 0]
    /\ frozen = [p \in Players |-> FALSE]
    /\ operations = [p \in Players |-> 0]

Register(p) ==
    /\ generation[p] = 0
    /\ generation' = [generation EXCEPT ![p] = 1]
    /\ UNCHANGED <<holder, frozen, operations>>

Play(p) ==
    /\ ~frozen[p]
    /\ generation[p] > 0
    /\ operations[p] < MaxOperations
    /\ operations' = [operations EXCEPT ![p] = @ + 1]
    /\ UNCHANGED <<holder, generation, frozen>>

Freeze(p) ==
    /\ ~frozen[p]
    /\ frozen' = [frozen EXCEPT ![p] = TRUE]
    /\ UNCHANGED <<holder, generation, operations>>

Move(p, c) ==
    /\ frozen[p]
    /\ c # holder[p]
    /\ generation[p] \in 1..(MaxGeneration - 1)
    /\ holder' = [holder EXCEPT ![p] = c]
    /\ generation' = [generation EXCEPT ![p] = @ + 1]
    /\ UNCHANGED <<frozen, operations>>

Thaw(p) ==
    /\ frozen[p]
    /\ frozen' = [frozen EXCEPT ![p] = FALSE]
    /\ UNCHANGED <<holder, generation, operations>>

NextAuthority ==
    \E p \in Players :
        \/ Register(p)
        \/ Play(p)
        \/ Freeze(p)
        \/ \E c \in Cells : Move(p, c)
        \/ Thaw(p)

SpecAuthority == InitAuthority /\ [][NextAuthority]_authorityVars

(* A frozen player is eventually thawed, wherever it then is.              *)
FairSpecAuthority == SpecAuthority /\ \A p \in Players : WF_authorityVars(Thaw(p))
=============================================================================
