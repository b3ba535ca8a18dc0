------------------------------ MODULE MCEngine ------------------------------
(***************************************************************************)
(* Small worlds for the engine.  Quantities and power are the manifest's   *)
(* (power in twentieths); a second is two ticks, an input lease three, and *)
(* a suit's tank a few seconds of air.                                     *)
(***************************************************************************)
EXTENDS Engine

Costs(n) == [health |-> 100, cost |-> n, makes |-> 0, stores |-> 0, needs |-> 0,
             ports |-> FALSE, runs |-> {}]

MCRules ==
    [liters |-> [r \in Resources |-> CASE r = "ore" -> 37 [] r = "refined" -> 15 [] OTHER -> 22],
     recipe |-> [k \in Recipes |->
        IF k = "refining" THEN [in |-> Of("ore", 2), out |-> Of("refined", 1), ticks |-> 4]
        ELSE [in |-> Of("refined", 1), out |-> Of("component", 1), ticks |-> 3]],
     block |->
        [structural |-> Costs(1),
         core |-> [Costs(1) EXCEPT !.health = 180, !.needs = 40],
         source |-> [Costs(1) EXCEPT !.health = 140, !.makes = 240],
         battery |-> [Costs(1) EXCEPT !.health = 120, !.makes = 40, !.stores = 400],
         cargo |-> [Costs(1) EXCEPT !.health = 110, !.needs = 5, !.ports = TRUE],
         conveyor |-> [Costs(1) EXCEPT !.health = 90, !.needs = 2, !.ports = TRUE],
         anchor |-> [Costs(1) EXCEPT !.health = 160, !.needs = 20],
         refinery |-> [Costs(4) EXCEPT !.health = 180, !.needs = 100, !.ports = TRUE,
                                       !.runs = {"refining"}],
         assembler |-> [Costs(4) EXCEPT !.health = 160, !.needs = 80, !.ports = TRUE,
                                        !.runs = {"component"}]],
     reward |-> [ore |-> 5, refining |-> 12, component |-> 18, frame |-> 5, block |-> 20,
                 anchor |-> 40],
     oxygen |-> [helmet \in BOOLEAN, air \in BOOLEAN |->
        IF helmet THEN IF air THEN 0 ELSE -1 ELSE IF air THEN 3 ELSE -4],
     tank |-> 5, respawnOxygen |-> 3, damage |-> 35, quantum |-> 2, stepLimit |-> 4,
     lease |-> 3, retention |-> 2, queueLimit |-> 2, gridBlocks |-> 5,
     cargoLiters |-> 8000, unlimited |-> 1000000]

Suit == [life |-> 0, epoch |-> 1, received |-> 0, processed |-> 0, pending |-> << >>,
         expires |-> 0, control |-> 0, oxygen |-> 4, helmet |-> TRUE, jetpack |-> TRUE,
         boots |-> FALSE, kind |-> "eva", place |-> "vacuum", xp |-> 0]

Block(at, kind, health) ==
    NewBlock(at, kind, health, TRUE, IF kind = "cargo" THEN CargoOf(<<at, 0>>) ELSE NoInventory)

\* A grid of the given kinds on consecutive coordinates from zero, of which
\* the ones in weak are one hit from destruction.
GridOfKinds(owner, eligible, anchored, kinds, weak) ==
    [owner |-> owner, eligible |-> eligible, anchored |-> anchored, pose |-> 0,
     moving |-> FALSE,
     blocks |-> [b \in {<<k - 1, 0>> : k \in DOMAIN kinds} |->
        LET kind == kinds[b[1] + 1]
        IN Block(b[1], kind, IF b[1] \in weak THEN 30 ELSE MaxHealth(kind))]]

\* A world whose players carry, and whose cargo blocks hold, the contents given.
World(players, carried, grids, stored, voxels) ==
    LET cargo == {b \in UNION {DOMAIN grids[g].blocks : g \in DOMAIN grids} :
                    \E g \in DOMAIN grids : b \in DOMAIN grids[g].blocks
                                            /\ grids[g].blocks[b].kind = "cargo"}
        inventories == {Carried(p) : p \in players} \cup {CargoOf(b) : b \in cargo}
        contents(i) == IF i[1] = "carried" THEN carried ELSE stored[i[3]]
        inv == [i \in inventories |->
                   [domain |-> IF i[1] = "carried" THEN PlayerDomain(i[2])
                               ELSE CargoDomain(<<i[3], i[4]>>),
                    contents |-> contents(i),
                    capacity |-> IF i[1] = "carried" THEN 1200 ELSE 8000]]
        bare == [seq |-> 0, tick |-> 0, players |-> [p \in players |-> Suit], inv |-> inv,
                 grids |-> grids, voxels |-> voxels, queues |-> << >>,
                 clock |-> None, drops |-> << >>, ops |-> << >>, locks |-> << >>,
                 reserved |-> << >>,
                 ledger |-> [genesis |-> Nothing, mined |-> 0,
                             batches |-> [k \in Recipes |-> 0], built |-> 0,
                             destroyed |-> 0, imported |-> Nothing, exported |-> Nothing]]
    IN [bare EXCEPT !.ledger.genesis = Plus(Live(bare), Of("component", Installed(bare)))]

One(g) == [id \in {<<1>>} |-> g]
NoVoxels == << >>

By(p, messages) == {<<p, m>> : m \in messages}

\* Refining into a cargo with no room for the result, beside an assembler.
Industry ==
    LET g == GridOfKinds("a", FALSE, FALSE, <<"cargo", "refinery", "cargo", "assembler", "battery">>, {1})
        stored == [k \in {0, 2} |-> IF k = 0 THEN Of("ore", 2) ELSE Of("refined", 533)]
        job(recipe, at, src, dst) ==
            [type |-> "queue", machine |-> <<at, 0>>, recipe |-> recipe, batches |-> 1,
             src |-> CargoOf(<<src, 0>>), dst |-> CargoOf(<<dst, 0>>)]
    IN [world |-> World({"a"}, Nothing, One(g), stored, NoVoxels),
        intents |-> By("a", {job("refining", 1, 0, 2), job("component", 3, 2, 2),
                             [type |-> "transfer", src |-> CargoOf(<<2, 0>>), dst |-> CargoOf(<<0, 0>>),
                              resource |-> "refined", quantity |-> 533],
                             [type |-> "damage", grid |-> <<1>>, block |-> <<1, 0>>],
                             [type |-> "refine"]}),
        events |-> 5, time |-> 4, faults |-> 0,
        ticks |-> 0, steps |-> {}, poses |-> {}, places |-> {"air"}, outsideOps |-> 0]

\* An anchored grid on the last two voxels that hold it.
Construction ==
    LET g == GridOfKinds("a", TRUE, TRUE, <<"anchor", "structural", "battery">>, {1})
    IN [world |-> World({"a"}, Of("component", 1), One(g), << >>, [v \in {-1, 1} |-> 1]),
        intents |-> By("a", {[type |-> "mine", at |-> -1], [type |-> "mine", at |-> 1],
                             [type |-> "build", grid |-> <<1>>, at |-> 3, kind |-> "cargo"],
                             [type |-> "weld", grid |-> <<1>>, block |-> <<1, 0>>],
                             [type |-> "anchor", grid |-> <<1>>],
                             [type |-> "steer", grid |-> <<1>>, moving |-> TRUE],
                             [type |-> "damage", grid |-> <<1>>, block |-> <<1, 0>>]}),
        events |-> 5, time |-> 1, faults |-> 0,
        ticks |-> 2, steps |-> {2}, poses |-> {5}, places |-> {"air"}, outsideOps |-> 0]

\* A suit with a second of air left: inputs, death and respawn.
Life ==
    [world |-> [World({"a"}, Of("ore", 1), << >>, << >>, NoVoxels) EXCEPT
                    !.players["a"].oxygen = 1],
     intents |-> By("a", {[type |-> "control", epoch |-> e, input |-> k] : e \in 1..2, k \in 1..2}
        \cup {[type |-> "suit", helmet |-> h, jetpack |-> h, boots |-> FALSE] : h \in BOOLEAN}
        \cup {[type |-> "respawn"]}),
     events |-> 5, time |-> 1, faults |-> 1,
     ticks |-> 3, steps |-> {1, 3}, poses |-> {}, places |-> {"vacuum", "air"}, outsideOps |-> 0]

\* A player with a job under way crosses the boundary and comes back.
Trip ==
    LET g == GridOfKinds("a", FALSE, FALSE, <<"cargo", "refinery", "battery">>, {})
    IN [world |-> [World({"a"}, Of("component", 1), One(g), [k \in {0} |-> Of("ore", 2)], NoVoxels)
                     EXCEPT !.players["a"].place = "air"],
        intents |-> By("a", {[type |-> "queue", machine |-> <<1, 0>>, recipe |-> "refining", batches |-> 1,
                              src |-> CargoOf(<<0, 0>>), dst |-> CargoOf(<<0, 0>>)],
                             [type |-> "control", epoch |-> 1, input |-> 1],
                             [type |-> "control", epoch |-> 3, input |-> 2]}),
        events |-> 7, time |-> 3, faults |-> 1,
        ticks |-> 4, steps |-> {2}, poses |-> {}, places |-> {"air", "beyond"}, outsideOps |-> 2]

MCScenarios == [industry |-> Industry, construction |-> Construction, life |-> Life, trip |-> Trip]
MCRoster == <<"a", "b">>
TripOnly == [trip |-> Trip]
=============================================================================
