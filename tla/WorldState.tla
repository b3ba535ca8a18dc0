---------------------------- MODULE WorldState ----------------------------
(***************************************************************************)
(* The canonical world of one cell (model.rs) and what the event code asks *)
(* of it.  A world is a record:                                            *)
(*                                                                         *)
(*   seq, tick   journal sequence and simulation tick                      *)
(*   players     player -> suit, life and control state                    *)
(*   inv         inventory id -> domain, contents, capacity                *)
(*   grids       grid id -> owner, anchoring, pose, blocks                 *)
(*   voxels      voxel coordinate -> the ore its material yields           *)
(*   queues      machine block -> production jobs, head first              *)
(*   clock       last committed production quantum                         *)
(*   ledger      where every unit of resource came from and went           *)
(*   drops       death drop -> its inventory and owner                     *)
(*   ops         player -> operation history (absent until the first one)  *)
(*   locks       player -> the package of a handoff that is under way      *)
(*   reserved    player -> the quarantined package it may be imported from *)
(*                                                                         *)
(* Space is a line: a coordinate is an integer, blocks and voxels touch at *)
(* distance one, and a grid's pose is its offset on the line.  Ids are     *)
(* tuples made of the numbers the code formats into its id strings.        *)
(***************************************************************************)
EXTENDS Integers, Sequences, FiniteSets, FiniteSetsExt, SequencesExt, Functions

CONSTANT Rules   \* the content manifest: see MCEngine

\* The outcome of a fallible step: one value, or none when it is refused.
When(condition, outcome) == IF condition THEN {outcome} ELSE {}

(* Contents and inventories ***********************************************)

Resources == {"ore", "refined", "component"}
Nothing == [r \in Resources |-> 0]
Plus(c, d) == [r \in Resources |-> c[r] + d[r]]
Minus(c, d) == [r \in Resources |-> c[r] - d[r]]
Covers(c, d) == \A r \in Resources : c[r] >= d[r]
Of(r, n) == [Nothing EXCEPT ![r] = n]

Liters(c) == MapThenSumSet(LAMBDA r : c[r] * Rules.liters[r], Resources)
CanAdd(i, c) == Liters(i.contents) + Liters(c) <= i.capacity

\* The ids the event code derives from a player, a block or an event.
NoInventory == <<"none", "", 0, 0, 0>>
Carried(p) == <<"carried", p, 0, 0, 0>>
CargoOf(b) == <<"cargo", "", b[1], b[2], 0>>
MachineDrop(n, b) == <<"machine", "", b[1], b[2], n>>
DeathDrop(p, n) == <<"death", p, 0, 0, n>>
NoBlock == <<0, 0>>

PlayerDomain(p) == [kind |-> "player", owner |-> p, block |-> NoBlock]
CargoDomain(b) == [kind |-> "cargo", owner |-> "", block |-> b]
DroppedDomain(p) == [kind |-> "dropped", owner |-> p, block |-> NoBlock]

\* Inputs, outputs and duration of a number of batches of a recipe.
Quantities(recipe, batches) ==
    LET rule == Rules.recipe[recipe]
        times(c) == [r \in Resources |-> batches * c[r]]
    IN [in |-> times(rule.in), out |-> times(rule.out),
        ticks |-> batches * rule.ticks]

(* Blocks and grids *******************************************************)

NewBlock(at, kind, health, complete, inventory) ==
    [at |-> at, kind |-> kind, health |-> health,
     complete |-> complete, inv |-> inventory]

MaxHealth(kind) == Rules.block[kind].health
Cost(kind) == Rules.block[kind].cost
CeilQuarter(n) == (n + 3) \div 4

Coordinates(g) == {g.blocks[b].at : b \in DOMAIN g.blocks}
Near(c, d) == c - d \in {-1, 1}

\* A grid is powered when its completed blocks make or store at least what
\* the completed blocks need; an anchor needs power only while engaged.
PowerOnline(g) ==
    LET done == {b \in DOMAIN g.blocks : g.blocks[b].complete}
        rule(b) == Rules.block[g.blocks[b].kind]
        supply == MapThenSumSet(LAMBDA b : rule(b).makes + rule(b).stores, done)
        idle(b) == g.blocks[b].kind = "anchor" /\ ~g.anchored
        demand == MapThenSumSet(LAMBDA b : IF idle(b) THEN 0 ELSE rule(b).needs, done)
    IN supply > 0 /\ supply >= demand

\* A completed anchor block on or next to an occupied voxel.
AnchorTouches(g, voxels) ==
    \E b \in DOMAIN g.blocks :
        /\ g.blocks[b].kind = "anchor"
        /\ g.blocks[b].complete
        /\ \E v \in DOMAIN voxels : (g.pose + g.blocks[b].at) - v \in -1..1

\* Mutant: nobody looks at what a mined voxel supports.
LastSupportIgnored(w, v) == FALSE

\* Mining coordinate v would take an anchored grid's last support.
LastSupport(w, v) ==
    \E g \in DOMAIN w.grids :
        /\ w.grids[g].anchored
        /\ AnchorTouches(w.grids[g], w.voxels)
        /\ ~AnchorTouches(w.grids[g], Restrict(w.voxels, DOMAIN w.voxels \ {v}))

GridsWith(w, b) == {g \in DOMAIN w.grids : b \in DOMAIN w.grids[g].blocks}
BlockExists(w, b) == GridsWith(w, b) # {}
GridOf(w, b) == CHOOSE g \in GridsWith(w, b) : TRUE
BlockIn(w, b) == w.grids[GridOf(w, b)].blocks[b]

IsCargo(w, i) ==
    /\ i \in DOMAIN w.inv
    /\ w.inv[i].domain.kind = "cargo"
    /\ LET b == w.inv[i].domain.block
       IN /\ BlockExists(w, b)
          /\ BlockIn(w, b).kind = "cargo"
          /\ BlockIn(w, b).complete
          /\ BlockIn(w, b).inv = i

\* Machine and cargo share a grid, and every block from one to the other is
\* complete and has conveyor ports.
RouteExists(w, machine, i) ==
    /\ BlockExists(w, machine)
    /\ IsCargo(w, i)
    /\ LET cargo == w.inv[i].domain.block
           g == w.grids[GridOf(w, machine)]
           from == BlockIn(w, machine).at
           to == BlockIn(w, cargo).at
           ported(c) == \E b \in DOMAIN g.blocks :
               /\ g.blocks[b].at = c
               /\ g.blocks[b].complete
               /\ Rules.block[g.blocks[b].kind].ports
       IN /\ GridOf(w, cargo) = GridOf(w, machine)
          /\ \A c \in (from..to) \cup (to..from) : ported(c)

\* The economic owner of an inventory, as a set of at most one player.
OwnerOf(w, i) ==
    IF i \notin DOMAIN w.inv THEN {}
    ELSE IF w.inv[i].domain.kind \in {"player", "dropped"}
    THEN {w.inv[i].domain.owner}
    ELSE LET b == w.inv[i].domain.block
         IN {w.grids[g].owner : g \in {h \in GridsWith(w, b) :
                 w.grids[h].blocks[b].inv = i}}

Alive(w, p) == w.players[p].life = 0
Locked(w, p) == p \in DOMAIN w.locks
Jobs(w) == UNION {ToSet(w.queues[m]) : m \in DOMAIN w.queues}

(* Conservation ***********************************************************)

Live(w) ==
    [r \in Resources |->
        MapThenSumSet(LAMBDA i : w.inv[i].contents[r], DOMAIN w.inv)
        + MapThenSumSet(LAMBDA j : j.reserved[r] + j.pending[r], Jobs(w))]

Installed(w) ==
    MapThenSumSet(LAMBDA g :
        MapThenSumSet(LAMBDA b : Cost(w.grids[g].blocks[b].kind),
                      DOMAIN w.grids[g].blocks), DOMAIN w.grids)

Recipes == {"refining", "component"}

\* Everything that ever entered is in an inventory, in escrow, in a block, or
\* accounted for as consumed, destroyed or exported.
Conserved(w) ==
    LET l == w.ledger
        made(r) == MapThenSumSet(LAMBDA k : l.batches[k] * Rules.recipe[k].out[r], Recipes)
        used(r) == MapThenSumSet(LAMBDA k : l.batches[k] * Rules.recipe[k].in[r], Recipes)
        mined == Of("ore", l.mined)
        built == Of("component", Installed(w) + l.destroyed)
        live == Live(w)
    IN \A r \in Resources :
        l.genesis[r] + mined[r] + made(r) + l.imported[r]
            = live[r] + used(r) + built[r] + l.exported[r]

(* Operation histories ****************************************************)

NoHistory == [committed |-> 0, compacted |-> 0, retained |-> << >>]
HistoryOf(w, p) == IF p \in DOMAIN w.ops THEN w.ops[p] ELSE NoHistory

Overfull(retained) == Cardinality(DOMAIN retained) > Rules.retention

\* Appending a record to a history, dropping the oldest past the retention
\* bound; refused unless it is the next operation and its event is newer than
\* every retained one of its cell.
RecordOperation(h, n, record) ==
    LET kept == [k \in DOMAIN h.retained \cup {n} |->
                    IF k = n THEN record ELSE h.retained[k]]
        oldest == Min(DOMAIN kept)
        next == n = h.committed + 1
        newer == \A k \in DOMAIN h.retained :
                    h.retained[k].cell = record.cell => h.retained[k].event < record.event
    IN When(next /\ newer,
         IF Overfull(kept)
         THEN [committed |-> n, compacted |-> oldest,
               retained |-> Restrict(kept, DOMAIN kept \ {oldest})]
         ELSE [committed |-> n, compacted |-> h.compacted, retained |-> kept])

(* What the cell validates before it runs an intent or stages a transfer **)

ValidPlayers(w) ==
    \A p \in DOMAIN w.players :
        /\ Carried(p) \in DOMAIN w.inv
        /\ w.inv[Carried(p)].domain = PlayerDomain(p)

ValidClock(w) == (w.clock.seq = 0) <=> (w.clock.at = 0)

ValidGrids(w) ==
    /\ \A g \in DOMAIN w.grids : \A b \in DOMAIN w.grids[g].blocks :
        LET block == w.grids[g].blocks[b]
        IN /\ GridsWith(w, b) = {g}
           /\ \A c \in DOMAIN w.grids[g].blocks :
                c # b => w.grids[g].blocks[c].at # block.at
           /\ block.health \in 1..MaxHealth(block.kind)
           /\ block.kind = "cargo" <=> block.inv # NoInventory
    /\ \A g \in DOMAIN w.grids :
        w.grids[g].anchored => AnchorTouches(w.grids[g], w.voxels)

ValidInventories(w) ==
    /\ \A i \in DOMAIN w.inv :
        LET d == w.inv[i].domain
        IN /\ w.inv[i].capacity > 0
           /\ Liters(w.inv[i].contents) <= w.inv[i].capacity
           /\ d.kind = "player" => d.owner \in DOMAIN w.players /\ i = Carried(d.owner)
           /\ d.kind = "cargo" => BlockExists(w, d.block) /\ BlockIn(w, d.block).inv = i
    /\ \A g \in DOMAIN w.grids : \A b \in DOMAIN w.grids[g].blocks :
        LET i == w.grids[g].blocks[b].inv
        IN i = NoInventory \/ (i \in DOMAIN w.inv /\ w.inv[i].domain = CargoDomain(b))

ValidQueues(w) ==
    /\ Cardinality({j.id : j \in Jobs(w)})
         = MapThenSumSet(LAMBDA m : Len(w.queues[m]), DOMAIN w.queues)
    /\ \A m \in DOMAIN w.queues :
        LET queue == w.queues[m]
        IN /\ Len(queue) \in 1..Rules.queueLimit
           /\ BlockExists(w, m)
           /\ BlockIn(w, m).complete
           /\ \A k \in DOMAIN queue :
                LET job == queue[k]
                    quantities == Quantities(job.recipe, job.batches)
                IN /\ job.recipe \in Rules.block[BlockIn(w, m).kind].runs
                   /\ job.owner = w.grids[GridOf(w, m)].owner
                   /\ job.machine = m
                   /\ job.id \in 1..w.seq
                   /\ job.duration = quantities.ticks
                   /\ job.progress \in 0..job.duration
                   /\ k > 1 => job.progress = 0
                   /\ IF job.progress < job.duration
                      THEN job.reserved = quantities.in /\ job.pending = Nothing
                      ELSE job.reserved = Nothing /\ job.pending = quantities.out
                   /\ OwnerOf(w, job.src) = {job.owner}
                   /\ OwnerOf(w, job.dst) = {job.owner}

ValidDrops(w) ==
    \A d \in DOMAIN w.drops :
        /\ d \in DOMAIN w.inv
        /\ w.inv[d].domain = DroppedDomain(w.drops[d].owner)
        /\ w.drops[d].created <= w.seq

ValidHistories(w) ==
    \A p \in DOMAIN w.ops :
        LET h == w.ops[p]
        IN /\ p \in DOMAIN w.players
           /\ h.committed > 0
           /\ ~Overfull(h.retained)
           /\ DOMAIN h.retained = (h.compacted + 1)..h.committed
           /\ \A k \in DOMAIN h.retained :
                /\ h.retained[k].cell = "here" => h.retained[k].event <= w.seq
                /\ \A l \in DOMAIN h.retained :
                     k < l /\ h.retained[k].cell = h.retained[l].cell
                        => h.retained[k].event < h.retained[l].event

ValidTransfers(w) ==
    /\ DOMAIN w.locks \subseteq DOMAIN w.players
    /\ \A p \in DOMAIN w.reserved :
        p \notin DOMAIN w.players /\ Carried(p) \notin DOMAIN w.inv

ValidWorld(w) ==
    /\ ValidClock(w)
    /\ ValidPlayers(w)
    /\ ValidGrids(w)
    /\ ValidInventories(w)
    /\ ValidQueues(w)
    /\ ValidDrops(w)
    /\ ValidHistories(w)
    /\ ValidTransfers(w)
=============================================================================
