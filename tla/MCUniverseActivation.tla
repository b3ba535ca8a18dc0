------------------------ MODULE MCUniverseActivation ------------------------
(* Instances of UniverseActivation: two cells, envelopes for the first two *)
(* versions of the universe.                                               *)
EXTENDS UniverseActivation, TLC

MCCellOrder == <<"origin", "neighbour">>

Envelope(nonce, bound, signatures, from, at, until) ==
    [nonce |-> nonce, version |-> bound, signatures |-> signatures,
     from |-> from, at |-> at, until |-> until]

\* Two envelopes for the universe as it is, one of them good from time 1 on,
\* and one for the universe after a restart of the worker.
MCEnvelopes == {Envelope(1, 0, 2, 0, 0, 1), Envelope(2, 0, 2, 0, 1, 2),
                Envelope(3, 2, 2, 0, 1, 2)}

ProcessSymmetry == Permutations(Processes)
=============================================================================
