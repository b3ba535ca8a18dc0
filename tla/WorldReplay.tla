---------------------------- MODULE WorldReplay ----------------------------
(***************************************************************************)
(* What applying an event does (WorldState::apply_event and the transfer   *)
(* stages of handoff.rs).  The same code runs when an event is committed   *)
(* and when the journal is replayed, so it checks everything again: an     *)
(* event that prepares but does not apply would stop the cell.             *)
(***************************************************************************)
EXTENDS WorldEvents

\* Adding and removing keys of a function.
Put(f, k, v) == [x \in DOMAIN f \cup {k} |-> IF x = k THEN v ELSE f[x]]
Drop(f, k) == Restrict(f, DOMAIN f \ {k})

HumanTypes == {"control", "suit", "respawn", "mine", "queue", "transfer", "build",
               "weld", "steer", "anchor", "damage"}

(* Who may commit what ****************************************************)

Envelope(w, e) ==
    /\ (e.payload.type \in HumanTypes) <=> (e.actor # NoActor)
    /\ e.actor # NoActor =>
        /\ e.actor \in DOMAIN w.players
        /\ Attempt(w, e.actor, e.op, e.print) = "fresh"
        /\ e.print = MessageOf(e)
        /\ ~Locked(w, e.actor)
        /\ Alive(w, e.actor) \/ e.payload.type = "respawn"
    /\ e.payload.type \in {"oxygen", "death"} =>
        e.payload.player \in DOMAIN w.players /\ ~Locked(w, e.payload.player)
    /\ e.payload.type = "physics" => \A p \in DOMAIN e.payload.players : ~Locked(w, p)

(* The effect of each payload *********************************************)

ApplyControl(w, p, x) ==
    LET actor == w.players[p]
    IN When(/\ x.epoch = actor.epoch
            /\ x.input > actor.received
            /\ x.expires = w.tick + Rules.lease
            /\ Len(actor.pending) < FrameLimit,
            [w EXCEPT !.players[p].received = x.input,
                      !.players[p].pending = Append(@, [input |-> x.input, expires |-> x.expires])])

ApplySuit(w, p, x) ==
    LET kind == IF x.jetpack THEN "eva"
                ELSE IF w.players[p].kind = "eva" THEN "airborne" ELSE w.players[p].kind
    IN {[w EXCEPT !.players[p].helmet = x.helmet, !.players[p].jetpack = x.jetpack,
                  !.players[p].boots = x.boots, !.players[p].kind = kind]}

ApplyOxygen(w, x) ==
    When(x \in LifeSupportPayload(w, x.player),
         [w EXCEPT !.players[x.player].oxygen = x.oxygen])

ApplyDeath(w, x) ==
    LET p == x.player
        drop == DeathDrop(p, x.death)
        dead == [Neutral(w.players[p], w.tick) EXCEPT
                    !.oxygen = 0, !.jetpack = FALSE, !.boots = FALSE,
                    !.kind = "airborne", !.life = x.death]
        emptied == [w.inv EXCEPT ![Carried(p)].contents = Nothing]
        dropped == Put(emptied, drop, [domain |-> DroppedDomain(p), contents |-> x.carried,
                                       capacity |-> w.inv[Carried(p)].capacity])
    IN When(x \in IncapacitationPayload(w, p),
            IF x.carried = Nothing
            THEN [w EXCEPT !.players[p] = dead]
            ELSE [w EXCEPT !.players[p] = dead, !.inv = dropped,
                           !.drops = Put(@, drop, [owner |-> p, created |-> x.death])])

\* A new movement epoch starts: inputs are numbered from zero again.
ApplyRespawn(w, p, x) ==
    When(x \in PrepareRespawn(w, p, [type |-> "respawn"]),
         [w EXCEPT !.players[p] =
            [Neutral(w.players[p], w.tick) EXCEPT
                !.place = "vacuum", !.epoch = @ + 1, !.received = 0, !.processed = 0,
                !.oxygen = Rules.respawnOxygen, !.helmet = TRUE, !.jetpack = TRUE,
                !.boots = FALSE, !.kind = "eva", !.life = 0]])

ApplyMine(w, p, x) ==
    When(/\ x.at \in DOMAIN w.voxels
         /\ x.ore = w.voxels[x.at]
         /\ CanAdd(w.inv[Carried(p)], Of("ore", x.ore))
         /\ ~LastSupport(w, x.at),
         [w EXCEPT !.voxels = Drop(@, x.at),
                   !.inv[Carried(p)].contents = Plus(@, Of("ore", x.ore)),
                   !.ledger.mined = @ + x.ore])

ApplyQueue(w, p, x) ==
    LET job == x.job
        quantities == Quantities(job.recipe, job.batches)
    IN When(/\ job.id = w.seq + 1
            /\ job.owner = p
            /\ Queueable(w, p, job.machine, job.recipe, job.src, job.dst)
            /\ job.reserved = quantities.in
            /\ job.duration = quantities.ticks
            /\ job.progress = 0
            /\ job.pending = Nothing
            /\ Covers(w.inv[job.src].contents, job.reserved),
            [w EXCEPT !.inv[job.src].contents = Minus(@, job.reserved),
                      !.queues = Put(@, job.machine, Append(QueueOf(w, job.machine), job))])

\* The payload must be the quantum the world plans itself.  It moves contents
\* and jobs, and pays the owners of completed batches; a machine whose outcome
\* changes nothing is left alone.
ApplyQuantum(w, x) ==
    {[w EXCEPT !.inv = plan.world.inv,
               !.queues = plan.world.queues,
               !.ledger = plan.world.ledger,
               !.players = [p \in DOMAIN w.players |->
                    [w.players[p] EXCEPT !.xp = plan.world.players[p].xp]],
               !.clock = x.occurrence] :
        plan \in {q \in PlanQuantum(w) : /\ NextOccurrenceValid(w, x.occurrence)
                                         /\ q.outcomes = x.outcomes}}

ApplyTransfer(w, p, x) ==
    When(Transferable(w, p, x),
         [w EXCEPT !.inv[x.src].contents = Minus(@, Of(x.resource, x.quantity)),
                   !.inv[x.dst].contents = Plus(@, Of(x.resource, x.quantity))])

ApplyBuild(w, p, x) ==
    LET cost == Cost(x.frame.kind)
        paid == [w EXCEPT !.inv[Carried(p)].contents["component"] = @ - cost,
                          !.grids[x.grid].blocks = Put(@, x.id, x.frame),
                          !.ledger.built = @ + 1]
        store == [domain |-> CargoDomain(x.id), contents |-> Nothing,
                  capacity |-> Rules.cargoLiters]
    IN When(/\ x.id = <<x.frame.at, w.seq + 1>>
            /\ ~BlockExists(w, x.id)
            /\ x.frame.inv \notin DOMAIN w.inv
            /\ x.frame.health = CeilQuarter(MaxHealth(x.frame.kind))
            /\ ~x.frame.complete
            /\ Placeable(w, p, x.grid, x.frame.at)
            /\ w.inv[Carried(p)].contents["component"] >= cost,
            IF x.frame.kind = "cargo" THEN [paid EXCEPT !.inv = Put(@, x.frame.inv, store)]
            ELSE paid)

ApplyWeld(w, p, x) ==
    LET block == w.grids[x.grid].blocks[x.block]
    IN When(/\ OwnsGrid(w, p, x.grid)
            /\ x.block \in DOMAIN w.grids[x.grid].blocks
            /\ block.health = x.before
            /\ x.before < MaxHealth(block.kind)
            /\ x.after = Welded(block)
            /\ x.completed = (~block.complete /\ x.after = MaxHealth(block.kind)),
            [w EXCEPT !.grids[x.grid].blocks[x.block].health = x.after,
                      !.grids[x.grid].blocks[x.block].complete = @ \/ x.completed])

ApplyGridControl(w, p, x) ==
    When(Steerable(w, p, x.grid), [w EXCEPT !.grids[x.grid].moving = x.moving])

\* Engaging stops the grid, and spends its one reward if it still has it.
ApplyAnchor(w, p, x) ==
    When(/\ OwnsGrid(w, p, x.grid)
         /\ x.anchored # w.grids[x.grid].anchored
         /\ x.anchored => CanAnchor(w, x.grid)
         /\ x.reward = (x.anchored /\ w.grids[x.grid].eligible),
         [w EXCEPT !.grids[x.grid].anchored = x.anchored,
                   !.grids[x.grid].eligible = @ /\ ~x.reward,
                   !.grids[x.grid].moving = @ /\ ~x.anchored])

(* Damage and splits ******************************************************)

Component(coordinates, c) ==
    {d \in coordinates : (c..d) \cup (d..c) \subseteq coordinates}

KeepsReward(grid, rank, primary) == grid.eligible /\ rank = primary

\* The fragments of a grid that lost a block.  The one with the control core
\* (else the first) keeps the id and the anchor reward; every fragment stays
\* anchored only if it touches a voxel itself.
Fragments(w, id) ==
    LET grid == w.grids[id]
        coordinates == Coordinates(grid)
        parts == {Component(coordinates, c) : c \in coordinates}
        rank(part) == Cardinality({other \in parts : Min(other) < Min(part)})
        within(part) == {b \in DOMAIN grid.blocks : grid.blocks[b].at \in part}
        cores == {part \in parts : \E b \in within(part) : grid.blocks[b].kind = "core"}
        primary == Min({rank(part) : part \in IF cores = {} THEN parts ELSE cores})
        name(part) == IF rank(part) = primary THEN id ELSE id \o <<w.seq + 1, rank(part)>>
        fragment(part) == [grid EXCEPT
            !.blocks = Restrict(@, within(part)),
            !.eligible = KeepsReward(grid, rank(part), primary),
            !.moving = @ /\ Cardinality(parts) = 1]
        settled(g) == [g EXCEPT !.anchored = @ /\ AnchorTouches(g, w.voxels)]
    IN [n \in {name(part) : part \in parts} |->
            settled(fragment(CHOOSE part \in parts : name(part) = n))]

SplitDisconnected(w, id) ==
    LET rest == Drop(w.grids, id)
        parts == Fragments(w, id)
    IN When(DOMAIN parts \cap DOMAIN rest = {},
            [w EXCEPT !.grids = [g \in DOMAIN rest \cup DOMAIN parts |->
                                    IF g \in DOMAIN parts THEN parts[g] ELSE rest[g]]])

\* A destroyed cargo's inventory becomes a drop of the grid's owner, and so
\* does everything a destroyed machine held in escrow.
DestroyBlock(w, id, b) ==
    LET block == w.grids[id].blocks[b]
        owner == w.grids[id].owner
        escrow == FoldLeft(LAMBDA c, job : Plus(c, Plus(job.reserved, job.pending)),
                           Nothing, QueueOf(w, b))
        removed == [w EXCEPT !.grids[id].blocks = Drop(@, b),
                             !.ledger.destroyed = @ + Cost(block.kind)]
        sealed == IF block.inv = NoInventory THEN removed
                  ELSE [removed EXCEPT !.inv[block.inv].domain = DroppedDomain(owner)]
        drop == MachineDrop(w.seq + 1, b)
        spilled == [sealed EXCEPT
            !.queues = Drop(@, b),
            !.inv = Put(@, drop, [domain |-> DroppedDomain(owner), contents |-> escrow,
                                  capacity |-> Rules.unlimited])]
        rest == IF b \notin DOMAIN w.queues THEN {sealed}
                ELSE When(drop \notin DOMAIN w.inv, spilled)
    IN UNION {SplitDisconnected(v, id) : v \in rest}

ApplyDamage(w, x) ==
    IF x.grid \notin DOMAIN w.grids \/ x.block \notin DOMAIN w.grids[x.grid].blocks
        \/ x.amount # Rules.damage
    THEN {}
    ELSE IF w.grids[x.grid].blocks[x.block].health > x.amount
    THEN {[w EXCEPT !.grids[x.grid].blocks[x.block].health = @ - x.amount]}
    ELSE DestroyBlock(w, x.grid, x.block)

(* Physics ****************************************************************)

\* Every grid exactly once, and an anchored grid does not move.
GridsAccounted(w, x) ==
    /\ DOMAIN x.grids = DOMAIN w.grids
    /\ \A g \in DOMAIN w.grids : w.grids[g].anchored => x.grids[g] = w.grids[g].pose

\* Every living player that is not locked exactly once, standing as its suit
\* allows.  Controls and leases are recomputed, not taken over.  The last
\* conjunct is the order check, which forgets to leave locked players out.
PlayersAccounted(w, x) ==
    /\ DOMAIN x.players = Simulated(w)
    /\ \A p \in Simulated(w) :
        /\ x.players[p].kind \in KindsFor(w.players[p])
        /\ x.players[p].control = Schedule(w.players[p], w.tick, x.steps).control
    /\ Simulated(w) = {p \in DOMAIN w.players : Alive(w, p)}

MovedPlayers(w, x) ==
    [p \in DOMAIN w.players |->
        IF p \in Simulated(w)
        THEN [Schedule(w.players[p], w.tick, x.steps) EXCEPT
                !.place = x.players[p].place, !.kind = x.players[p].kind]
        ELSE w.players[p]]

ApplyPhysics(w, x) ==
    When(x.steps \in 1..Rules.stepLimit /\ GridsAccounted(w, x) /\ PlayersAccounted(w, x),
         [w EXCEPT
            !.tick = @ + x.steps,
            !.grids = [g \in DOMAIN @ |-> [@[g] EXCEPT !.pose = x.grids[g]]],
            !.players = MovedPlayers(w, x)])

(* Handoffs ***************************************************************)

\* Mutant: the history stays behind.
ClosureForgetful(w, p) ==
    [player |-> p, body |-> w.players[p], inv |-> w.inv[Carried(p)], ops |-> NoHistory]

\* The closure a handoff moves: the player, what it carries, its history.
Closure(w, p) ==
    [player |-> p, body |-> w.players[p], inv |-> w.inv[Carried(p)], ops |-> HistoryOf(w, p)]

\* Only a free-floating player already across the boundary can be packed.
CanPack(w, p) ==
    /\ w.players[p].kind = "eva"
    /\ ~w.players[p].boots
    /\ w.players[p].place = "beyond"

StageLock(w, pack) ==
    LET p == pack.player
    IN When(/\ p \in DOMAIN w.players
            /\ ~Locked(w, p)
            /\ Closure(w, p) = pack
            /\ \A job \in Jobs(w) : Carried(p) \notin {job.src, job.dst},
            [w EXCEPT !.locks = Put(@, p, pack)])

Intact(w, pack) ==
    /\ Locked(w, pack.player)
    /\ w.locks[pack.player] = pack
    /\ Closure(w, pack.player) = pack

StageUnlock(w, pack) ==
    When(Intact(w, pack), [w EXCEPT !.locks = Drop(@, pack.player)])

StageExport(w, pack) ==
    LET p == pack.player
    IN When(Intact(w, pack),
            [w EXCEPT !.players = Drop(@, p), !.inv = Drop(@, Carried(p)),
                      !.ops = Drop(@, p), !.locks = Drop(@, p),
                      !.ledger.exported = Plus(@, pack.inv.contents)])

Unknown(w, p) ==
    p \notin DOMAIN w.players /\ Carried(p) \notin DOMAIN w.inv /\ p \notin DOMAIN w.ops

StageQuarantine(w, pack) ==
    When(Unknown(w, pack.player) /\ pack.player \notin DOMAIN w.reserved,
         [w EXCEPT !.reserved = Put(@, pack.player, pack)])

\* The player as the destination admits it: a new epoch, no input pending.
Rebased(body) ==
    [Neutral(body, 0) EXCEPT !.epoch = @ + 1, !.processed = body.received]

StageImport(w, pack) ==
    LET p == pack.player
    IN When(Unknown(w, p) /\ p \in DOMAIN w.reserved /\ w.reserved[p] = pack,
            [w EXCEPT !.players = Put(@, p, Rebased(pack.body)),
                      !.inv = Put(@, Carried(p), pack.inv),
                      !.ops = IF pack.ops = NoHistory THEN @ ELSE Put(@, p, pack.ops),
                      !.reserved = Drop(@, p),
                      !.ledger.imported = Plus(@, pack.inv.contents)])

StageRelease(w, pack) ==
    LET p == pack.player
    IN When(Unknown(w, p) /\ p \in DOMAIN w.reserved /\ w.reserved[p] = pack,
            [w EXCEPT !.reserved = Drop(@, p)])

TransferTypes == {"prepared", "unlocked", "exported", "quarantined", "imported", "released"}

(* Applying an event ******************************************************)

Effect(w, e) ==
    LET x == e.payload
        p == e.actor
    IN CASE x.type = "control" -> ApplyControl(w, p, x)
         [] x.type = "suit" -> ApplySuit(w, p, x)
         [] x.type = "oxygen" -> ApplyOxygen(w, x)
         [] x.type = "death" -> ApplyDeath(w, x)
         [] x.type = "respawn" -> ApplyRespawn(w, p, x)
         [] x.type = "mine" -> ApplyMine(w, p, x)
         [] x.type = "queue" -> ApplyQueue(w, p, x)
         [] x.type = "quantum" -> ApplyQuantum(w, x)
         [] x.type = "transfer" -> ApplyTransfer(w, p, x)
         [] x.type = "build" -> ApplyBuild(w, p, x)
         [] x.type = "weld" -> ApplyWeld(w, p, x)
         [] x.type = "steer" -> ApplyGridControl(w, p, x)
         [] x.type = "anchor" -> ApplyAnchor(w, p, x)
         [] x.type = "damage" -> ApplyDamage(w, x)
         [] x.type = "physics" -> ApplyPhysics(w, x)
         [] x.type = "prepared" -> StageLock(w, x.pack)
         [] x.type = "unlocked" -> StageUnlock(w, x.pack)
         [] x.type = "exported" -> StageExport(w, x.pack)
         [] x.type = "quarantined" -> StageQuarantine(w, x.pack)
         [] x.type = "imported" -> StageImport(w, x.pack)
         [] x.type = "released" -> StageRelease(w, x.pack)
         [] OTHER -> {}

\* The experience an event brings its actor.
Reward(x) ==
    CASE x.type = "mine" -> x.ore * Rules.reward["ore"]
      [] x.type = "build" -> Rules.reward["frame"]
      [] x.type = "weld" -> IF x.completed THEN Rules.reward["block"] ELSE 0
      [] x.type = "anchor" -> IF x.reward THEN Rules.reward["anchor"] ELSE 0
      [] OTHER -> 0

Rewarded(w, e) ==
    IF e.actor = NoActor THEN w
    ELSE [w EXCEPT !.players[e.actor].xp = @ + Reward(e.payload)]

\* The worlds after the event's operation is recorded: none if the history
\* refuses it.
Recorded(w, e) ==
    IF e.actor = NoActor THEN {w}
    ELSE {[w EXCEPT !.ops = Put(@, e.actor, h)] :
            h \in RecordOperation(HistoryOf(w, e.actor), e.op,
                                  [print |-> e.print, cell |-> "here", event |-> w.seq])}

\* Every event must conserve resources; a transfer stage must also leave a
\* world that validates as a whole.
Apply(w, e) ==
    IF ~Envelope(w, e) THEN {}
    ELSE {v \in UNION {Recorded([Rewarded(u, e) EXCEPT !.seq = w.seq + 1], e) :
                          u \in Effect(w, e)} :
             /\ Conserved(v)
             /\ e.payload.type \in TransferTypes => ValidWorld(v)}
=============================================================================
