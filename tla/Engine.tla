------------------------------- MODULE Engine -------------------------------
(***************************************************************************)
(* The runtime of one hosted cell (Runtime in engine.rs) under the two-cell*)
(* coordinator: client intents, the advance loop (physics, life support,   *)
(* due production, handoff of players who crossed the boundary), crashes,  *)
(* and the reopening that first catches production up and then reconciles  *)
(* unfinished handoffs.  The coordinator is single-threaded, so the cell's *)
(* handlers interleave only between the stages below; a crash may fall     *)
(* between any two of them, and a failed commit leaves the journal with or *)
(* without the event.  Journal and lifecycle files are CellStore's: here   *)
(* the disk is the world and the occurrence they recover to.               *)
(***************************************************************************)
EXTENDS WorldReplay

CONSTANTS
    Scenarios,  \* name -> where the cell starts, what clients send, the bounds
    Roster      \* the players in canonical id order

VARIABLES
    scenario,   \* the chosen one of Scenarios
    world,      \* the runtime's canonical state
    next,       \* the durable next production occurrence, as the runtime has it
    disk,       \* the world and next occurrence a reopen recovers
    now,        \* trusted time, in seconds
    stage,      \* what the single thread is doing
    todo,       \* players whose life-support second may still be committed
    cutoff,     \* the instant an activation catches production up to
    outside,    \* player -> the package the other cell would send back
    faults,     \* crashes and failed commits so far
    log,        \* player -> its committed operations, here and outside
    answered,   \* receipts handed to clients
    prizes,     \* anchor rewards paid so far
    rejected    \* types of prepared events that were then refused

canonical == <<world, next, disk>>
ghosts == <<log, answered, prizes, rejected>>
vars == <<scenario, world, next, disk, now, stage, todo, cutoff, outside, faults,
          log, answered, prizes, rejected>>

Setting == Scenarios[scenario]
Players == ToSet(Roster)
Stages == {"idle", "advance", "crossing", "leaving", "arriving",
           "halted", "down", "activating", "reconcile"}

None == [seq |-> 0, at |-> 0]

WorldFields == {"seq", "tick", "players", "inv", "grids", "voxels", "queues", "clock",
                "ledger", "drops", "ops", "locks", "reserved"}
PlayerFields == {"life", "epoch", "received", "processed", "pending", "expires", "control",
                 "oxygen", "helmet", "jetpack", "boots", "kind", "place", "xp"}
GridFields == {"owner", "eligible", "anchored", "pose", "moving", "blocks"}

\* A world in which nothing is under way: no job, operation or handoff, and
\* suits that nothing steers and nothing waits for.
AtRest(w) ==
    /\ DOMAIN w = WorldFields
    /\ w.seq \in Nat /\ w.tick \in Nat /\ w.clock = None
    /\ w.queues = << >> /\ w.ops = << >> /\ w.locks = << >> /\ w.reserved = << >>
    /\ DOMAIN w.players \subseteq Players
    /\ \A p \in DOMAIN w.players :
        LET suit == w.players[p]
        IN /\ DOMAIN suit = PlayerFields
           /\ suit.received \in Nat /\ suit.processed = suit.received
           /\ suit.pending = << >> /\ suit.control = 0
    /\ IsFiniteSet(DOMAIN w.grids)
    /\ \A g \in DOMAIN w.grids : DOMAIN w.grids[g] = GridFields

\* The lease and the longest physics step are numbers of ticks.
ASSUME RulesAssumption == Rules.lease \in Nat /\ Rules.stepLimit \in Nat

\* System events are nobody's.
ASSUME RosterAssumption == NoActor \notin Players

\* A cell starts at rest, and clients number their inputs.
ASSUME ScenariosAssumption ==
    \A name \in DOMAIN Scenarios :
        /\ AtRest(Scenarios[name].world)
        /\ \A intent \in Scenarios[name].intents :
            intent[2].type = "control" => intent[2].input \in Nat

Init ==
    /\ scenario \in DOMAIN Scenarios
    /\ world = Setting.world
    /\ next = None
    /\ disk = [world |-> world, next |-> None]
    /\ now = 1
    /\ stage = "idle"
    /\ todo = << >>
    /\ cutoff = 0
    /\ outside = << >>
    /\ faults = 0
    /\ log = [p \in Players |-> << >>]
    /\ answered = {}
    /\ prizes = 0
    /\ rejected = {}

(* What the handlers submit ***********************************************)

\* Every handler ends in the same commit path.  A submission is its event, and
\* where the thread goes when the event commits or is refused.
Submission(e, then, refused, rest) ==
    [event |-> e, then |-> then, refused |-> refused, todo |-> rest]

\* The event a handler asks for when it cannot prepare one.
Unprepared == SystemEvent([type |-> "unprepared"])
EventsOf(payloads) ==
    IF payloads = {} THEN {Unprepared} ELSE {SystemEvent(x) : x \in payloads}

Room == world.seq < Setting.events

NextOp(p) == HistoryOf(world, p).committed + 1

\* execute_as of an operation not seen before.
Intents ==
    {Submission(e, "idle", "idle", << >>) : e \in
        IF stage = "idle" /\ Room
        THEN UNION {Prepare(world, intent[1], NextOp(intent[1]), intent[2]) :
                       intent \in Setting.intents}
        ELSE {}}

\* The outcome of a step of the solver: anything may move that is free to.
Outcome(steps, poses, places, kinds) ==
    [type |-> "physics", steps |-> steps, grids |-> poses,
     players |-> [p \in Simulated(world) |->
        [place |-> places[p], kind |-> kinds[p],
         control |-> Schedule(world.players[p], world.tick, steps).control]]]

Poses(g) == IF world.grids[g].anchored THEN {world.grids[g].pose}
            ELSE {world.grids[g].pose} \cup Setting.poses

\* Functions that take each argument to a member of its own set.
EachFrom(domain, options(_)) ==
    {f \in [domain -> UNION {options(x) : x \in domain}] : \A x \in domain : f[x] \in options(x)}

\* The advance begins with a physics step, if anything can move.
PhysicsSteps ==
    IF /\ stage = "idle"
       /\ Room
       /\ world.tick < Setting.ticks
       /\ Simulated(world) # {} \/ Free(world) # {}
    THEN {Submission(SystemEvent(Outcome(steps, poses, places, kinds)), "advance", "halted", Roster) :
            steps \in Setting.steps,
            poses \in EachFrom(DOMAIN world.grids, Poses),
            places \in [Simulated(world) -> Setting.places],
            kinds \in EachFrom(Simulated(world), LAMBDA p : KindsFor(world.players[p]))}
    ELSE {}

\* Life support, player by player in canonical order.  The milliseconds a
\* player has accumulated are not durable, so any of the rest may be the next
\* whose second is complete.
LifeSupport ==
    UNION {{Submission(SystemEvent(x), "advance", "halted", SubSeq(todo, k + 1, Len(todo))) :
               x \in LifeSupportPayload(world, todo[k])} : k \in DOMAIN todo}

\* A quantum that is due, in the advance or in the catch-up of an activation;
\* one that cannot be prepared is an error of the whole advance.
Due(instant) == next # None /\ next.at <= instant

Production ==
    IF (stage = "advance" /\ Due(now)) \/ (stage = "activating" /\ Due(cutoff))
    THEN {Submission(e, stage, IF stage = "advance" THEN "halted" ELSE "down", << >>) :
            e \in EventsOf(QuantumPayload(world, next))}
    ELSE {}

Crossers(w) == {p \in DOMAIN w.players : w.players[p].place = "beyond"}
Onward(w) == IF Crossers(w) = {} THEN "idle" ELSE "crossing"
Transfer(type, pack) == [type |-> type, pack |-> pack]

\* A player who crossed the boundary is locked for its handoff; one that
\* cannot be packed makes the coordinator stop.
Departures ==
    IF stage = "crossing" /\ Room
    THEN {Submission(e, "leaving", "halted", << >>) : e \in UNION
            {EventsOf(When(CanPack(world, p), Transfer("prepared", Closure(world, p)))) :
                p \in Crossers(world)}}
    ELSE {}

\* The directory's decision on a locked player is carried out, either live or
\* when a reopened coordinator reconciles; a refusal stops the coordinator.
Resolutions ==
    LET left(p) == {Transfer(type, world.locks[p]) : type \in {"exported", "unlocked"}}
        came(p) == {Transfer(type, world.reserved[p]) : type \in {"imported", "released"}}
        of(payloads, then, refused) ==
            {Submission(SystemEvent(x), then, refused, << >>) : x \in UNION payloads}
    IN CASE stage = "leaving" ->
              of({left(p) : p \in DOMAIN world.locks}, "onward", "halted")
         [] stage = "arriving" ->
              of({came(p) : p \in DOMAIN world.reserved}, "idle", "halted")
         [] stage = "reconcile" ->
              of({left(p) : p \in DOMAIN world.locks}
                    \cup {came(p) : p \in DOMAIN world.reserved}, "reconcile", "down")
         [] OTHER -> {}

\* A player comes back from the other cell.
Arrivals ==
    IF stage = "idle" /\ Room
    THEN {Submission(SystemEvent(Transfer("quarantined", outside[p])), "arriving", "idle", << >>) :
             p \in DOMAIN outside}
    ELSE {}

\* Intents and new handoffs first validate the whole world.
Submissions ==
    PhysicsSteps \cup LifeSupport \cup Production \cup Resolutions \cup Arrivals
        \cup IF stage \in {"idle", "crossing"} /\ ValidWorld(world)
             THEN Intents \cup Departures
             ELSE {}

(* Committing *************************************************************)

\* Mutant: any event re-arms.
ResultingNextRearming(after, e) ==
    LET arm(at) == {[seq |-> after.clock.seq + 1, at |-> at]}
    IN IF ~Runnable(after) THEN {None}
       ELSE IF e.payload.type = "quantum" THEN arm(e.payload.occurrence.at + 1)
       ELSE arm(Max({now + 1, after.clock.at + 1}))

\* The next occurrence after an event: a quantum schedules its successor one
\* second on, runnable production keeps the one it has, and production that
\* becomes runnable is armed one second from now.
ResultingNext(after, e) ==
    LET arm(at) == {[seq |-> after.clock.seq + 1, at |-> at]}
    IN IF ~Runnable(after) THEN {None}
       ELSE IF e.payload.type = "quantum" THEN arm(e.payload.occurrence.at + 1)
       ELSE IF Runnable(world) THEN {next} \ {None}
       ELSE arm(Max({now + 1, after.clock.at + 1}))

\* The world and occurrence an event commits with, if it is accepted.
Outcomes(e) ==
    UNION {{[world |-> w, next |-> n] : n \in ResultingNext(w, e)} : w \in Apply(world, e)}

\* The package the other cell would send back: it admitted the player under
\* a new epoch, and the player has come back to the boundary since.
Sent(pack) == [pack EXCEPT !.body = [Rebased(pack.body) EXCEPT !.place = "air"]]

\* What is durable once the event is in the journal.  An export that landed
\* puts the player into the other cell, whether or not this one was told.
Landed(e, c) ==
    /\ disk' = c
    /\ log' = IF e.actor = NoActor THEN log
              ELSE [log EXCEPT ![e.actor] =
                        Append(@, [op |-> e.op, cell |-> "here", event |-> c.world.seq])]
    /\ prizes' = IF e.payload.type = "anchor" /\ e.payload.reward THEN prizes + 1 ELSE prizes
    /\ outside' = CASE e.payload.type = "exported" ->
                        Put(outside, e.payload.pack.player, Sent(e.payload.pack))
                   [] e.payload.type = "imported" -> Drop(outside, e.payload.pack.player)
                   [] OTHER -> outside

\* The event is durable, and an intent is answered with its receipt.
Commits(s, c) ==
    /\ world' = c.world
    /\ next' = c.next
    /\ Landed(s.event, c)
    /\ answered' = IF s.event.actor = NoActor THEN answered
                   ELSE answered \cup {[player |-> s.event.actor, op |-> s.event.op,
                                        cell |-> "here", event |-> c.world.seq]}
    /\ stage' = IF s.then = "onward" THEN Onward(c.world) ELSE s.then
    /\ todo' = s.todo
    /\ UNCHANGED <<faults, rejected>>

\* The store's answer is an error: the cell stops, and the event may or may
\* not be in the journal.
CommitFails(s, c) ==
    /\ faults < Setting.faults
    /\ faults' = faults + 1
    /\ Landed(s.event, c) \/ UNCHANGED <<disk, log, prizes, outside>>
    /\ stage' = IF stage \in {"activating", "reconcile"} THEN "down" ELSE "halted"
    /\ todo' = << >>
    /\ UNCHANGED <<world, next, answered, rejected>>

\* Transfer stages are not prepared from the world and may well be refused.
Refuses(s) ==
    /\ stage' = s.refused
    /\ todo' = << >>
    /\ rejected' = rejected \cup ({s.event.payload.type} \ ({"unprepared"} \cup TransferTypes))
    /\ UNCHANGED <<canonical, faults, outside, log, answered, prizes>>

Submit(s) ==
    LET outcomes == Outcomes(s.event)
    IN /\ \/ \E c \in outcomes : Commits(s, c) \/ CommitFails(s, c)
          \/ outcomes = {} /\ Refuses(s)
       /\ UNCHANGED <<scenario, now, cutoff>>

(* Steps that commit nothing **********************************************)

\* execute_as of a retained operation: the receipt it got the first time.
Repeat(p, n) ==
    /\ stage = "idle"
    /\ p \in DOMAIN world.players
    /\ ~Locked(world, p)
    /\ n \in DOMAIN HistoryOf(world, p).retained
    /\ LET record == HistoryOf(world, p).retained[n]
       IN answered' = answered \cup
            {[player |-> p, op |-> n, cell |-> record.cell, event |-> record.event]}
    /\ UNCHANGED <<scenario, canonical, now, stage, todo, cutoff, outside, faults, log, prizes, rejected>>

\* An advance in which no whole physics step has accumulated, nothing moves,
\* or the outcome lay outside the hosted cells and was discarded.
AdvanceAtRest ==
    /\ stage = "idle"
    /\ Room
    /\ stage' = "advance"
    /\ todo' = Roster
    /\ UNCHANGED <<scenario, canonical, now, cutoff, outside, faults, ghosts>>

\* Nobody else is due, and no quantum is due or the catch-up budget is spent.
EndAdvance ==
    /\ stage = "advance"
    /\ stage' = Onward(world)
    /\ todo' = << >>
    /\ UNCHANGED <<scenario, canonical, now, cutoff, outside, faults, ghosts>>

\* The player acts in the other cell, whose events are numbered on their own.
PlayOutside(p) ==
    /\ stage = "idle"
    /\ p \in DOMAIN outside
    /\ outside[p].ops.committed < Setting.outsideOps
    /\ LET n == outside[p].ops.committed + 1
       IN /\ \E h \in RecordOperation(outside[p].ops, n,
                        [print |-> [type |-> "outside"], cell |-> "beyond", event |-> n]) :
                outside' = [outside EXCEPT ![p].ops = h]
          /\ log' = [log EXCEPT ![p] = Append(@, [op |-> n, cell |-> "beyond", event |-> n])]
    /\ UNCHANGED <<scenario, canonical, now, stage, todo, cutoff, faults, answered, prizes, rejected>>

Crash ==
    /\ stage # "down"
    /\ faults < Setting.faults
    /\ faults' = faults + 1
    /\ stage' = "down"
    /\ todo' = << >>
    /\ UNCHANGED <<scenario, canonical, now, cutoff, outside, ghosts>>

\* The store recovers what is durable and records the activation's cut-off.
Reopen ==
    /\ stage \in {"down", "halted"}
    /\ world' = disk.world
    /\ next' = disk.next
    /\ stage' = "activating"
    /\ cutoff' = now
    /\ UNCHANGED <<scenario, disk, now, todo, outside, faults, ghosts>>

\* Production missed while the cell was down is caught up before any handoff
\* is looked at.
Activated ==
    /\ stage = "activating"
    /\ ~Due(cutoff)
    /\ stage' = "reconcile"
    /\ cutoff' = 0
    /\ UNCHANGED <<scenario, canonical, now, todo, outside, faults, ghosts>>

Reconciled ==
    /\ stage = "reconcile"
    /\ DOMAIN world.locks = {} /\ DOMAIN world.reserved = {}
    /\ stage' = "idle"
    /\ UNCHANGED <<scenario, canonical, now, todo, cutoff, outside, faults, ghosts>>

Pass ==
    /\ stage \in {"idle", "down"}
    /\ now < Setting.time
    /\ now' = now + 1
    /\ UNCHANGED <<scenario, canonical, stage, todo, cutoff, outside, faults, ghosts>>

Next ==
    \/ \E s \in Submissions : Submit(s)
    \/ \E p \in Players : \E n \in 1..Rules.retention + 1 : Repeat(p, n)
    \/ AdvanceAtRest
    \/ EndAdvance
    \/ \E p \in Players : PlayOutside(p)
    \/ Crash
    \/ Reopen
    \/ Activated
    \/ Reconciled
    \/ Pass

Spec == Init /\ [][Next]_vars

(* Properties *************************************************************)

TypeOK ==
    /\ scenario \in DOMAIN Scenarios
    /\ stage \in Stages
    /\ ToSet(todo) \subseteq Players
    /\ now \in 1..Setting.time
    /\ cutoff \in 0..now
    /\ faults \in 0..Setting.faults
    /\ next.seq \in Nat /\ next.at \in Nat
    /\ DOMAIN outside \subseteq Players
    /\ DOMAIN world.players \subseteq Players

\* Whatever prepare, life support and the production plan yield is accepted by
\* apply_event, which checks everything again: an event that prepares but does
\* not apply would be refused after the client was told it is well formed, and
\* for a timer would stop the cell.  (prepare against apply_event, engine.rs)
PreparedApplies == rejected = {}

\* apply_event does not validate the whole world, but every later intent and
\* every handoff stage does: no sequence of mining, building, welding, damage,
\* production, death, respawn and handoff may leave a world that fails it (an
\* anchored grid without support, a job whose cargo went, a history with a
\* gap), in memory or in what a reopen recovers.  (validate_authority_graph)
WorldStaysValid == TypeOK /\ \A w \in {world, disk.world} : ValidWorld(w)

\* The durable next occurrence exists exactly while some machine can move: no
\* event that unblocks a machine (a transfer out of a full cargo, a weld, power
\* restored) leaves it unscheduled, and none that blocks the last one leaves an
\* occurrence behind, also across a crash.  (resulting_next, advance_due)
ArmedIffRunnable ==
    \A c \in {[world |-> world, next |-> next], disk} : (c.next # None) = Runnable(c.world)

\* Each player's operations take effect once and in order, through failed
\* commits that landed, crashes, retries and a trip to the other cell; every
\* receipt handed out names the event that carries the operation.
\* (validate_operation_attempt, record_processed_operation, the closure)
OncePerOperation ==
    /\ \A p \in Players :
        /\ \A k \in DOMAIN log[p] : log[p][k].op = k
        /\ p \in DOMAIN disk.world.players =>
            HistoryOf(disk.world, p).committed = Len(log[p])
    /\ \A a \in answered :
        /\ a.op \in DOMAIN log[a.player]
        /\ log[a.player][a.op] = [op |-> a.op, cell |-> a.cell, event |-> a.event]

\* Control frames of an epoch are taken in order and at most once, a dead or
\* arriving player has none, and nothing steers a suit past its lease.
\* (PlayerControlQueued, PhysicsStepCommitted, death, respawn, import)
FramesOrdered ==
    \A p \in DOMAIN world.players :
        LET player == world.players[p]
            inputs == <<player.processed>> \o [k \in DOMAIN player.pending |-> player.pending[k].input]
        IN /\ \A k \in 2..Len(inputs) : inputs[k - 1] < inputs[k]
           /\ Last(inputs) <= player.received
           /\ Alive(world, p) => Last(inputs) = player.received
           /\ ~Alive(world, p) => player.pending = << >> /\ player.control = 0
           /\ player.control # 0 => world.tick < player.expires

\* An anchor reward that was available at the start is paid at most once,
\* however the grid is damaged, split, unanchored and anchored again.
\* (split_disconnected_grid, GridAnchorChanged)
AnchorRewardOnce ==
    LET eligible(w) == Cardinality({g \in DOMAIN w.grids : w.grids[g].eligible})
    IN prizes + eligible(disk.world) <= eligible(Setting.world)

\* Client activity never postpones a quantum that is already due to run: an
\* armed occurrence is replaced only by its own commit or by production
\* becoming blocked, also across a crash.  (resulting_next, engine.rs)
ActivityNeverPostpones ==
    [][\/ disk.next = None
       \/ disk'.next \in {None, disk.next}
       \/ disk'.world.clock = disk.next]_vars

\* What a player did counts once: operations, control frames and the reward.
EffectsOnce == OncePerOperation /\ FramesOrdered /\ AnchorRewardOnce

\* The schedule follows the world and nothing else.
ScheduleTrue == []ArmedIffRunnable /\ ActivityNeverPostpones

\* An armed occurrence can be committed: production "can continue without ...
\* a gameplay session" (ADR-0022), and a grid's owner may be offline.
ArmedQuantumCommits == next # None => QuantumPayload(world, next) # {}
=============================================================================
