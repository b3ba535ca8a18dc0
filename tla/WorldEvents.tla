---------------------------- MODULE WorldEvents ----------------------------
(***************************************************************************)
(* What the engine prepares from a client message or a timer, and what     *)
(* applying the resulting event does to the world (WorldState in           *)
(* engine.rs, the transfer stages of handoff.rs).  Both are partial and    *)
(* are written as sets of at most one outcome: the empty set is a refusal. *)
(*                                                                         *)
(* An event is [actor, op, print, payload]; actor is NoActor for a system  *)
(* event.  The fingerprint of an intent is the message itself.  The tool   *)
(* ray, collision and the solver are external: any existing target may be  *)
(* the one aimed at, and a physics step moves what is free to move.        *)
(***************************************************************************)
EXTENDS WorldState

NoActor == ""

(* Operation attempts *****************************************************)

\* What an operation number means to the actor's history: a fresh one, the
\* repetition of a retained one, or a refusal (gap, conflict, compacted).
Attempt(w, p, n, print) ==
    LET h == HistoryOf(w, p)
    IN IF n \in DOMAIN h.retained
       THEN IF h.retained[n].print = print THEN "retained" ELSE "refused"
       ELSE IF n = h.committed + 1 THEN "fresh" ELSE "refused"

(* Ownership and use ******************************************************)

Functional(w, i) ==
    \/ w.inv[i].domain.kind = "player"
    \/ w.inv[i].domain.kind = "cargo" /\ BlockExists(w, w.inv[i].domain.block)
        /\ BlockIn(w, w.inv[i].domain.block).complete

OwnsInventory(w, p, i) ==
    /\ i \in DOMAIN w.inv
    /\ w.inv[i].domain.kind # "dropped"
    /\ OwnerOf(w, i) = {p}
    /\ w.inv[i].domain.kind = "player" => i = Carried(p)

OwnsGrid(w, p, g) == g \in DOMAIN w.grids /\ w.grids[g].owner = p

(* What a client message prepares *****************************************)

FrameLimit == Rules.lease   \* the lease, which is below the 64 frames allowed

PrepareControl(w, p, m) ==
    LET actor == w.players[p]
    IN When(/\ m.epoch = actor.epoch
            /\ m.input > actor.received
            /\ Len(actor.pending) < FrameLimit,
            [type |-> "control", epoch |-> m.epoch, input |-> m.input,
             expires |-> w.tick + Rules.lease])

PrepareSuit(w, p, m) ==
    LET actor == w.players[p]
    IN When(<<actor.helmet, actor.jetpack, actor.boots>> # <<m.helmet, m.jetpack, m.boots>>,
            [type |-> "suit", helmet |-> m.helmet, jetpack |-> m.jetpack, boots |-> m.boots])

\* The recovery corridor always has a clear point in the cells modelled.
PrepareRespawn(w, p, m) ==
    When(~Alive(w, p) /\ w.inv[Carried(p)].contents = Nothing,
         [type |-> "respawn", death |-> w.players[p].life])

\* Mutant: prepare does not look for the last support of an anchored grid.
PrepareMineUnsupported(w, p, m) ==
    When(m.at \in DOMAIN w.voxels /\ CanAdd(w.inv[Carried(p)], Of("ore", w.voxels[m.at])),
         [type |-> "mine", at |-> m.at, ore |-> w.voxels[m.at]])

PrepareMine(w, p, m) ==
    When(/\ m.at \in DOMAIN w.voxels
         /\ CanAdd(w.inv[Carried(p)], Of("ore", w.voxels[m.at]))
         /\ ~LastSupport(w, m.at),
         [type |-> "mine", at |-> m.at, ore |-> w.voxels[m.at]])

Routed(w, p, machine, i) ==
    OwnsInventory(w, p, i) /\ IsCargo(w, i) /\ RouteExists(w, machine, i)

QueueOf(w, machine) == IF machine \in DOMAIN w.queues THEN w.queues[machine] ELSE << >>

Queueable(w, p, machine, recipe, src, dst) ==
    /\ BlockExists(w, machine)
    /\ OwnsGrid(w, p, GridOf(w, machine))
    /\ BlockIn(w, machine).complete
    /\ recipe \in Rules.block[BlockIn(w, machine).kind].runs
    /\ Len(QueueOf(w, machine)) < Rules.queueLimit
    /\ Routed(w, p, machine, src)
    /\ Routed(w, p, machine, dst)

PrepareQueue(w, p, m) ==
    LET quantities == Quantities(m.recipe, m.batches)
    IN When(/\ Queueable(w, p, m.machine, m.recipe, m.src, m.dst)
            /\ m.batches > 0
            /\ Covers(w.inv[m.src].contents, quantities.in),
            [type |-> "queue",
             job |-> [id |-> w.seq + 1, owner |-> p, machine |-> m.machine,
                      recipe |-> m.recipe, batches |-> m.batches,
                      src |-> m.src, dst |-> m.dst,
                      progress |-> 0, duration |-> quantities.ticks,
                      reserved |-> quantities.in, pending |-> Nothing]])

Transferable(w, p, m) ==
    /\ m.src # m.dst
    /\ m.quantity > 0
    /\ OwnsInventory(w, p, m.src)
    /\ OwnsInventory(w, p, m.dst)
    /\ Functional(w, m.src)
    /\ Functional(w, m.dst)
    /\ w.inv[m.src].contents[m.resource] >= m.quantity
    /\ CanAdd(w.inv[m.dst], Of(m.resource, m.quantity))

PrepareTransfer(w, p, m) ==
    When(Transferable(w, p, m),
         [type |-> "transfer", src |-> m.src, dst |-> m.dst,
          resource |-> m.resource, quantity |-> m.quantity])

Placeable(w, p, g, at) ==
    /\ OwnsGrid(w, p, g)
    /\ Cardinality(DOMAIN w.grids[g].blocks) < Rules.gridBlocks
    /\ at \notin Coordinates(w.grids[g])
    /\ \E c \in Coordinates(w.grids[g]) : Near(c, at)

PrepareBuild(w, p, m) ==
    LET id == <<m.at, w.seq + 1>>
    IN When(/\ Placeable(w, p, m.grid, m.at)
            /\ w.inv[Carried(p)].contents["component"] >= Cost(m.kind),
            [type |-> "build", grid |-> m.grid, id |-> id,
             frame |-> NewBlock(m.at, m.kind, CeilQuarter(MaxHealth(m.kind)), FALSE,
                                IF m.kind = "cargo" THEN CargoOf(id) ELSE NoInventory)])

Welded(block) ==
    LET most == MaxHealth(block.kind)
        more == block.health + CeilQuarter(most)
    IN IF more > most THEN most ELSE more

PrepareWeld(w, p, m) ==
    LET block == w.grids[m.grid].blocks[m.block]
    IN When(/\ OwnsGrid(w, p, m.grid)
            /\ m.block \in DOMAIN w.grids[m.grid].blocks
            /\ block.health < MaxHealth(block.kind),
            [type |-> "weld", grid |-> m.grid, block |-> m.block,
             before |-> block.health, after |-> Welded(block),
             completed |-> ~block.complete /\ Welded(block) = MaxHealth(block.kind)])

Steerable(w, p, g) ==
    OwnsGrid(w, p, g) /\ ~w.grids[g].anchored /\ PowerOnline(w.grids[g])

PrepareGridControl(w, p, m) ==
    When(Steerable(w, p, m.grid),
         [type |-> "steer", grid |-> m.grid, moving |-> m.moving])

CanAnchor(w, g) == PowerOnline(w.grids[g]) /\ AnchorTouches(w.grids[g], w.voxels)

PrepareAnchor(w, p, m) ==
    LET anchored == ~w.grids[m.grid].anchored
    IN When(OwnsGrid(w, p, m.grid) /\ (anchored => CanAnchor(w, m.grid)),
            [type |-> "anchor", grid |-> m.grid, anchored |-> anchored,
             reward |-> anchored /\ w.grids[m.grid].eligible])

\* Anyone may damage anything: the hand tool has no ownership check.
PrepareDamage(w, p, m) ==
    When(m.grid \in DOMAIN w.grids /\ m.block \in DOMAIN w.grids[m.grid].blocks,
         [type |-> "damage", grid |-> m.grid, block |-> m.block, amount |-> Rules.damage])

PayloadFor(w, p, m) ==
    CASE m.type = "control" -> PrepareControl(w, p, m)
      [] m.type = "suit" -> PrepareSuit(w, p, m)
      [] m.type = "respawn" -> PrepareRespawn(w, p, m)
      [] m.type = "mine" -> PrepareMine(w, p, m)
      [] m.type = "queue" -> PrepareQueue(w, p, m)
      [] m.type = "transfer" -> PrepareTransfer(w, p, m)
      [] m.type = "build" -> PrepareBuild(w, p, m)
      [] m.type = "weld" -> PrepareWeld(w, p, m)
      [] m.type = "steer" -> PrepareGridControl(w, p, m)
      [] m.type = "anchor" -> PrepareAnchor(w, p, m)
      [] m.type = "damage" -> PrepareDamage(w, p, m)

\* Direct refining and crafting are refused before they are looked at.
Prepare(w, p, n, m) ==
    IF /\ p \in DOMAIN w.players
       /\ ~Locked(w, p)
       /\ Attempt(w, p, n, m) = "fresh"
       /\ Alive(w, p) \/ m.type = "respawn"
       /\ m.type \notin {"refine", "craft"}
    THEN {[actor |-> p, op |-> n, print |-> m, payload |-> payload] :
             payload \in PayloadFor(w, p, m)}
    ELSE {}

SystemEvent(payload) ==
    [actor |-> NoActor, op |-> 0, print |-> [type |-> "none"], payload |-> payload]

\* The client message a human event stands for, rebuilt from its payload.
MessageOf(e) ==
    LET x == e.payload
    IN CASE x.type = "control" -> [type |-> "control", epoch |-> x.epoch, input |-> x.input]
         [] x.type = "suit" ->
              [type |-> "suit", helmet |-> x.helmet, jetpack |-> x.jetpack, boots |-> x.boots]
         [] x.type = "respawn" -> [type |-> "respawn"]
         [] x.type = "mine" -> [type |-> "mine", at |-> x.at]
         [] x.type = "queue" ->
              [type |-> "queue", machine |-> x.job.machine, recipe |-> x.job.recipe,
               batches |-> x.job.batches, src |-> x.job.src, dst |-> x.job.dst]
         [] x.type = "transfer" ->
              [type |-> "transfer", src |-> x.src, dst |-> x.dst,
               resource |-> x.resource, quantity |-> x.quantity]
         [] x.type = "build" ->
              [type |-> "build", grid |-> x.grid, at |-> x.frame.at, kind |-> x.frame.kind]
         [] x.type \in {"weld", "damage"} ->
              [type |-> x.type, grid |-> x.grid, block |-> x.block]
         [] x.type = "steer" -> [type |-> "steer", grid |-> x.grid, moving |-> x.moving]
         [] x.type = "anchor" -> [type |-> "anchor", grid |-> x.grid]

(* Life support ***********************************************************)

\* Suit oxygen after one second, from the helmet and the air outside.
NextOxygen(w, p) ==
    LET suit == w.players[p]
        delta == Rules.oxygen[suit.helmet, suit.place = "air"]
        next == suit.oxygen + delta
    IN IF next < 0 THEN 0 ELSE IF next > Rules.tank THEN Rules.tank ELSE next

Depleting(w, p) ==
    /\ p \in DOMAIN w.players
    /\ Alive(w, p)
    /\ w.players[p].oxygen > 0
    /\ NextOxygen(w, p) = 0

\* A death names the event that caused it; what was carried goes into a drop.
IncapacitationPayload(w, p) ==
    When(/\ Depleting(w, p)
         /\ w.inv[Carried(p)].domain = PlayerDomain(p)
         /\ DeathDrop(p, w.seq + 1) \notin DOMAIN w.inv,
         [type |-> "death", player |-> p, death |-> w.seq + 1,
          carried |-> w.inv[Carried(p)].contents])

LifeSupportPayload(w, p) ==
    IF p \notin DOMAIN w.players \/ ~Alive(w, p) \/ w.players[p].oxygen = 0
        \/ NextOxygen(w, p) = w.players[p].oxygen
    THEN {}
    ELSE IF NextOxygen(w, p) = 0 THEN IncapacitationPayload(w, p)
    ELSE {[type |-> "oxygen", player |-> p, oxygen |-> NextOxygen(w, p)]}

(* Production *************************************************************)

MachineOutcome(w, m) ==
    LET job == Head(w.queues[m])
        grid == w.grids[GridOf(w, m)]
        paused(kind) == [machine |-> m, kind |-> kind,
                         progress |-> job.progress, outputs |-> Nothing]
        moved(kind, progress, outputs) ==
            [machine |-> m, kind |-> kind, progress |-> progress, outputs |-> outputs]
        room(c) == CanAdd(w.inv[job.dst], c)
        later == Min({job.progress + Rules.quantum, job.duration})
        made == Quantities(job.recipe, job.batches).out
    IN IF ~BlockIn(w, m).complete \/ job.recipe \notin Rules.block[BlockIn(w, m).kind].runs
       THEN paused("no machine")
       ELSE IF ~PowerOnline(grid) THEN paused("no power")
       ELSE IF ~RouteExists(w, m, job.src) \/ ~RouteExists(w, m, job.dst)
       THEN paused("no route")
       ELSE IF job.progress = job.duration
       THEN IF room(job.pending) THEN moved("delivered", job.progress, job.pending)
            ELSE paused("blocked")
       ELSE IF later < job.duration THEN moved("advanced", later, Nothing)
       ELSE moved(IF room(made) THEN "completed and delivered" ELSE "completed", later, made)

ChangesState(outcome) ==
    outcome.kind \in {"advanced", "completed", "completed and delivered", "delivered"}

Runnable(w) == \E m \in DOMAIN w.queues : ChangesState(MachineOutcome(w, m))

PopHead(queues, m) ==
    IF Len(queues[m]) = 1 THEN Restrict(queues, DOMAIN queues \ {m})
    ELSE [queues EXCEPT ![m] = Tail(@)]

Deliver(w, m, outputs) ==
    [w EXCEPT !.inv[Head(w.queues[m]).dst].contents = Plus(@, outputs),
              !.queues = PopHead(@, m)]

\* A completed batch is credited to the job's owner, who must be in the cell.
CreditOwner(w, job) ==
    When(job.owner \in DOMAIN w.players,
         [w EXCEPT !.players[job.owner].xp = @ + job.batches * Rules.reward[job.recipe],
                   !.ledger.batches[job.recipe] = @ + job.batches])

ApplyOutcome(w, o) ==
    CASE o.kind = "advanced" ->
            {[w EXCEPT !.queues[o.machine] = <<[Head(@) EXCEPT !.progress = o.progress]>> \o Tail(@)]}
      [] o.kind = "delivered" -> {Deliver(w, o.machine, o.outputs)}
      [] o.kind = "completed and delivered" ->
            {Deliver(v, o.machine, o.outputs) : v \in CreditOwner(w, Head(w.queues[o.machine]))}
      [] o.kind = "completed" ->
            {[v EXCEPT !.queues[o.machine] =
                <<[Head(@) EXCEPT !.progress = o.progress, !.reserved = Nothing,
                                  !.pending = o.outputs]>> \o Tail(@)] :
                v \in CreditOwner(w, Head(w.queues[o.machine]))}
      [] OTHER -> {w}

\* Machines in canonical order: by block, since grids share no cargo.
Machines(w) ==
    SetToSortSeq(DOMAIN w.queues, LAMBDA a, b : a[1] < b[1] \/ (a[1] = b[1] /\ a[2] < b[2]))

\* One second of every machine, each planned after the ones before it.
PlanQuantum(w) ==
    LET step(plans, m) ==
            UNION {{[world |-> v, outcomes |-> Append(plan.outcomes, MachineOutcome(plan.world, m))] :
                       v \in ApplyOutcome(plan.world, MachineOutcome(plan.world, m))} :
                   plan \in plans}
    IN FoldLeft(step, {[world |-> w, outcomes |-> << >>]}, Machines(w))

NextOccurrenceValid(w, o) ==
    /\ o.seq = w.clock.seq + 1
    /\ IF w.clock.seq = 0 THEN o.at > 0 ELSE o.at >= w.clock.at + 1

QuantumPayload(w, o) ==
    {[type |-> "quantum", occurrence |-> o, outcomes |-> plan.outcomes] :
        plan \in IF NextOccurrenceValid(w, o) THEN PlanQuantum(w) ELSE {}}

(* Physics ****************************************************************)

\* A suit that nothing steers: no frame waits, no lease runs.
Neutral(player, tick) ==
    [player EXCEPT !.pending = << >>, !.control = 0, !.expires = tick]

\* One substep of a player's control queue: expired frames are skipped, the
\* next one takes over, and a lapsed lease leaves the suit neutral.
ControlSubstep(player, tick) ==
    LET frames == player.pending
        live == {k \in DOMAIN frames : tick < frames[k].expires}
        first == IF live = {} THEN Len(frames) + 1 ELSE Min(live)
        skipped == [player EXCEPT
            !.pending = SubSeq(frames, first, Len(frames)),
            !.processed = IF first = 1 THEN @ ELSE frames[first - 1].input]
        taken == IF skipped.pending = << >> THEN skipped
                 ELSE LET frame == Head(skipped.pending)
                      IN [skipped EXCEPT !.pending = Tail(@), !.processed = frame.input,
                                         !.control = frame.input, !.expires = frame.expires]
    IN IF tick >= taken.expires THEN [taken EXCEPT !.control = 0] ELSE taken

\* The control queue after a number of substeps, neutral when the lease has
\* lapsed by the end of the last one.
Schedule(player, tick, steps) ==
    LET run[k \in 0..steps] ==
            IF k = 0 THEN player ELSE ControlSubstep(run[k - 1], tick + k - 1)
        after == run[steps]
    IN IF tick + steps < after.expires THEN after ELSE [after EXCEPT !.control = 0]

Simulated(w) == {p \in DOMAIN w.players : Alive(w, p) /\ ~Locked(w, p)}
Free(w) == {g \in DOMAIN w.grids : ~w.grids[g].anchored}

\* How a living player can stand after a step: EVA with the jetpack on.
KindsFor(player) == IF player.jetpack THEN {"eva"} ELSE {"airborne", "grounded"}

=============================================================================
