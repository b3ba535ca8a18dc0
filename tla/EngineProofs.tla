------------------------------ MODULE EngineProofs ------------------------------
(***************************************************************************)
(* What the engine of a cell promises whatever its content manifest, its   *)
(* players and their worlds: the durable production occurrence is there    *)
(* exactly while a machine can move and is never postponed (resulting_next *)
(* and advance_due, crates/verse-simulation/src/engine.rs), and what a     *)
(* player did counts once, through failed commits, crashes, retries and a  *)
(* trip to the other cell (validate_operation_attempt, the control queue   *)
(* and the anchor reward).                                                 *)
(*                                                                         *)
(* The first part says what each event does to the parts of the world the  *)
(* promises speak of; the rest is the inductive invariant.                 *)
(***************************************************************************)
EXTENDS Engine, FiniteSetTheorems, WellFoundedInduction, TLAPS

-----------------------------------------------------------------------------
(* The shape of a world. *)

Frames == [input : Nat, expires : Nat]

(* The frames a player has received: taken and waiting ones are numbered   *)
(* upwards, and none is newer than the last one received.                  *)
QueueOk(q) ==
    /\ DOMAIN q = PlayerFields
    /\ q.received \in Nat /\ q.processed \in Nat /\ q.processed <= q.received
    /\ q.pending \in Seq(Frames)
    /\ \A k \in 1..Len(q.pending) :
          /\ q.pending[k].input <= q.received
          /\ IF k = 1 THEN q.processed < q.pending[k].input
                      ELSE q.pending[k - 1].input < q.pending[k].input
    /\ q.life = 0 => IF q.pending = << >> THEN q.processed = q.received
                     ELSE q.pending[Len(q.pending)].input = q.received

(* Beside, the dead wait for nothing, and a lease bounds what steers.      *)
PlayerOk(q, tick) ==
    /\ QueueOk(q)
    /\ q.life # 0 => q.pending = << >> /\ q.control = 0
    /\ q.control # 0 => tick < q.expires

WorldOk(w) ==
    /\ DOMAIN w = WorldFields
    /\ w.seq \in Nat /\ w.tick \in Nat /\ w.clock.seq \in Nat
    /\ \A p \in DOMAIN w.players : PlayerOk(w.players[p], w.tick)
    /\ \A g \in DOMAIN w.grids : DOMAIN w.grids[g] = GridFields

Eligible(w) == {g \in DOMAIN w.grids : w.grids[g].eligible}

(* What the effect of an event, transfers apart, leaves alone.             *)
Books(w, v) ==
    /\ DOMAIN v = WorldFields
    /\ v.seq = w.seq /\ v.ops = w.ops /\ v.locks = w.locks /\ v.reserved = w.reserved
Kept(w, v) ==
    /\ WorldOk(v)
    /\ Books(w, v)
    /\ DOMAIN v.players = DOMAIN w.players
    /\ Eligible(v) \subseteq Eligible(w)

\* An event that touches neither players nor grids (transfers of cargo, mining).
LEMMA KeptOutside ==
  ASSUME NEW w, WorldOk(w), NEW v, Books(w, v),
         v.tick = w.tick, v.clock = w.clock, v.players = w.players, v.grids = w.grids
  PROVE  Kept(w, v)
BY DEF Kept, WorldOk, Eligible, Books

\* An event that changes one player (inputs, suit, oxygen, death and respawn).
LEMMA KeptForPlayer ==
  ASSUME NEW w, WorldOk(w), NEW v, Books(w, v), NEW p \in DOMAIN w.players,
         v.tick = w.tick, v.clock = w.clock, v.grids = w.grids,
         DOMAIN v.players = DOMAIN w.players,
         \A q \in DOMAIN w.players : q # p => v.players[q] = w.players[q],
         PlayerOk(v.players[p], w.tick)
  PROVE  Kept(w, v)
<1>1. \A q \in DOMAIN v.players : PlayerOk(v.players[q], v.tick)
  BY DEF WorldOk
<1> QED BY <1>1 DEF Kept, WorldOk, Eligible, Books

\* An event that changes one grid but not its reward (welds, controls).
LEMMA KeptForGrid ==
  ASSUME NEW w, WorldOk(w), NEW v, Books(w, v),
         v.tick = w.tick, v.clock = w.clock, v.players = w.players,
         \A g \in DOMAIN v.grids : /\ DOMAIN v.grids[g] = GridFields
                                   /\ v.grids[g].eligible => g \in Eligible(w)
  PROVE  Kept(w, v)
BY DEF Kept, WorldOk, Eligible, Books

-----------------------------------------------------------------------------
(* The effects on players. *)

\* A control frame newer than the last one received waits behind the others
\* (PlayerControlQueued).
LEMMA ControlKeeps ==
  ASSUME NEW w, WorldOk(w), NEW p \in DOMAIN w.players, NEW x, x.input \in Nat,
         NEW v \in ApplyControl(w, p, x), Rules.lease \in Nat, Alive(w, p)
  PROVE  Kept(w, v)
<1> DEFINE q == w.players[p]
           f == [input |-> x.input, expires |-> x.expires]
           r == [q EXCEPT !.received = x.input, !.pending = Append(q.pending, f)]
           pl == [w.players EXCEPT ![p].received = x.input,
                                   ![p].pending = Append(@, f)]
<1>1. /\ v = [w EXCEPT !.players[p].received = x.input,
                       !.players[p].pending = Append(@, f)]
      /\ x.input > q.received
      /\ x.expires = w.tick + Rules.lease
  BY DEF ApplyControl, When
<1>2. /\ v.players = pl /\ v.tick = w.tick /\ v.grids = w.grids /\ v.clock = w.clock
      /\ Books(w, v)
  BY <1>1 DEF WorldFields, WorldOk, Books
<1>3. PlayerOk(q, w.tick) /\ DOMAIN q = PlayerFields
  BY DEF WorldOk, PlayerOk, QueueOk
<1>4. DOMAIN pl = DOMAIN w.players /\ \A o \in DOMAIN w.players : o # p => pl[o] = w.players[o]
  OBVIOUS
<1>5. pl[p] = r
  BY <1>3 DEF PlayerFields
<1>6. f \in Frames
  BY <1>1 DEF Frames, WorldOk
<1>7. /\ r.received = x.input /\ r.pending = Append(q.pending, f) /\ r.processed = q.processed
      /\ r.life = q.life /\ r.control = q.control /\ r.expires = q.expires
      /\ DOMAIN r = PlayerFields
  BY <1>3 DEF PlayerFields
<1>8. PlayerOk(r, w.tick)
  <2> DEFINE s == q.pending
             z == Append(s, f)
  <2>1. /\ q.received \in Nat /\ q.processed \in Nat /\ q.processed <= q.received
        /\ s \in Seq(Frames) /\ q.life = 0
        /\ q.control # 0 => w.tick < q.expires
    BY <1>3 DEF PlayerOk, QueueOk, Alive
  <2>2. /\ z \in Seq(Frames) /\ Len(z) = Len(s) + 1 /\ z[Len(s) + 1] = f
        /\ \A k \in 1..Len(s) : z[k] = s[k]
        /\ Len(s) \in Nat /\ z # << >>
    BY <2>1, <1>6
  <2>3. IF s = << >> THEN q.processed = q.received /\ Len(s) = 0
        ELSE s[Len(s)].input = q.received /\ Len(s) \in 1..Len(s)
    BY <1>3, <2>1, <2>2 DEF PlayerOk, QueueOk
  <2>4. \A k \in 1..Len(s) :
          /\ s[k].input <= q.received /\ s[k].input \in Nat
          /\ IF k = 1 THEN q.processed < s[k].input ELSE s[k - 1].input < s[k].input
    <3>1. \A k \in 1..Len(s) : s[k] \in Frames
      BY <2>1
    <3>2. \A k \in 1..Len(s) : s[k].input \in Nat
      BY <3>1 DEF Frames
    <3> QED BY <1>3, <2>1, <3>2 DEF PlayerOk, QueueOk
  <2> DEFINE n == x.input
             b == q.received
             a == q.processed
  <2>10. n \in Nat /\ b \in Nat /\ a \in Nat /\ n > b /\ a <= b /\ f.input = n
    BY <1>1, <2>1
  <2> HIDE DEF s, z, f, n, a, b
  <2>5. ASSUME NEW k \in 1..Len(z)
        PROVE  /\ z[k].input <= n
               /\ IF k = 1 THEN a < z[k].input ELSE z[k - 1].input < z[k].input
    <3>0. /\ IF s = << >> THEN a = b /\ Len(s) = 0 ELSE s[Len(s)].input = b /\ Len(s) \in 1..Len(s)
          /\ \A i \in 1..Len(s) : /\ s[i].input <= b /\ s[i].input \in Nat
                                   /\ IF i = 1 THEN a < s[i].input ELSE s[i - 1].input < s[i].input
      BY <2>3, <2>4 DEF a, b
    <3>1. CASE k \in 1..Len(s)
      <4>1. k # 1 => k - 1 \in 1..Len(s)
        BY <2>2, <3>1
      <4>2. z[k] = s[k] /\ (k # 1 => z[k - 1] = s[k - 1])
        BY <2>2, <3>1, <4>1
      <4>3. s[k].input <= n
        BY <2>10, <3>0, <3>1
      <4> QED BY <3>0, <3>1, <4>2, <4>3
    <3>2. CASE k = Len(s) + 1
      <4>1. z[k].input = n
        BY <2>2, <2>10, <3>2
      <4>2. CASE s = << >>
        BY <2>10, <3>0, <3>2, <4>1, <4>2
      <4>3. CASE s # << >>
        <5>1. k # 1 /\ z[k - 1] = s[Len(s)]
          BY <2>2, <3>0, <3>2, <4>3
        <5>2. z[k - 1].input = b
          BY <3>0, <4>3, <5>1
        <5> QED BY <2>10, <4>1, <5>1, <5>2
      <4> QED BY <4>2, <4>3
    <3> QED BY <2>2, <3>1, <3>2
  <2>6. z[Len(z)].input = n /\ a <= n
    BY <2>2, <2>10
  <2>7. /\ r.received = n /\ r.pending = z /\ r.processed = a
        /\ r.life = q.life /\ r.control = q.control /\ r.expires = q.expires
        /\ DOMAIN r = PlayerFields
    BY <1>7 DEF n, a, z, s
  <2> HIDE DEF r
  <2> QED BY <2>1, <2>2, <2>5, <2>6, <2>7, <2>10 DEF PlayerOk, QueueOk
<1> HIDE DEF pl, r, f
<1>9. /\ DOMAIN v.players = DOMAIN w.players
      /\ \A o \in DOMAIN w.players : o # p => v.players[o] = w.players[o]
      /\ PlayerOk(v.players[p], w.tick)
  BY <1>2, <1>4, <1>5, <1>8
<1> QED BY <1>2, <1>9, KeptForPlayer

\* A suit's switches change nothing the queue holds (PlayerSuitChanged).
LEMMA SuitKeeps ==
  ASSUME NEW w, WorldOk(w), NEW p \in DOMAIN w.players, NEW x,
         NEW v \in ApplySuit(w, p, x)
  PROVE  Kept(w, v)
<1> DEFINE q == w.players[p]
           pl(kind) == [w.players EXCEPT ![p].helmet = x.helmet, ![p].jetpack = x.jetpack,
                  ![p].boots = x.boots, ![p].kind = kind]
<1>1. PICK kind : v = [w EXCEPT !.players[p].helmet = x.helmet, !.players[p].jetpack = x.jetpack,
                  !.players[p].boots = x.boots, !.players[p].kind = kind]
  BY DEF ApplySuit
<1>2. /\ v.players = pl(kind) /\ v.tick = w.tick /\ v.grids = w.grids /\ v.clock = w.clock
      /\ Books(w, v)
  BY <1>1 DEF WorldFields, WorldOk, Books
<1>3. PlayerOk(q, w.tick) /\ DOMAIN q = PlayerFields
  BY DEF WorldOk, PlayerOk, QueueOk
<1>4. /\ DOMAIN pl(kind) = DOMAIN w.players
      /\ \A o \in DOMAIN w.players : o # p => pl(kind)[o] = w.players[o]
  OBVIOUS
<1> DEFINE r == pl(kind)[p]
<1>5. /\ r.received = q.received /\ r.pending = q.pending /\ r.processed = q.processed
      /\ r.life = q.life /\ r.control = q.control /\ r.expires = q.expires
      /\ DOMAIN r = PlayerFields
  BY <1>3 DEF PlayerFields
<1> HIDE DEF r
<1>6. PlayerOk(r, w.tick)
  BY <1>3, <1>5 DEF PlayerOk, QueueOk
<1>7. PlayerOk(v.players[p], w.tick)
  BY <1>2, <1>6 DEF r
<1> HIDE DEF pl
<1> QED BY <1>2, <1>4, <1>7, KeptForPlayer

\* A second of breathing changes the tank only (PlayerOxygenChanged).
LEMMA OxygenKeeps ==
  ASSUME NEW w, WorldOk(w), NEW x, x.player \in DOMAIN w.players,
         NEW v \in ApplyOxygen(w, x)
  PROVE  Kept(w, v)
<1> DEFINE p == x.player
           q == w.players[p]
           pl == [w.players EXCEPT ![p].oxygen = x.oxygen]
<1>1. v = [w EXCEPT !.players[p].oxygen = x.oxygen]
  BY DEF ApplyOxygen, When
<1>2. /\ v.players = pl /\ v.tick = w.tick /\ v.grids = w.grids /\ v.clock = w.clock
      /\ Books(w, v)
  BY <1>1 DEF WorldFields, WorldOk, Books
<1>3. PlayerOk(q, w.tick) /\ DOMAIN q = PlayerFields
  BY DEF WorldOk, PlayerOk, QueueOk
<1>4. DOMAIN pl = DOMAIN w.players /\ \A o \in DOMAIN w.players : o # p => pl[o] = w.players[o]
  OBVIOUS
<1> DEFINE r == pl[p]
<1>5. /\ r.received = q.received /\ r.pending = q.pending /\ r.processed = q.processed
      /\ r.life = q.life /\ r.control = q.control /\ r.expires = q.expires
      /\ DOMAIN r = PlayerFields
  BY <1>3 DEF PlayerFields
<1> HIDE DEF r
<1>6. PlayerOk(r, w.tick)
  BY <1>3, <1>5 DEF PlayerOk, QueueOk
<1>7. PlayerOk(v.players[p], w.tick)
  BY <1>2, <1>6 DEF r
<1> HIDE DEF pl, p
<1> QED BY <1>2, <1>4, <1>7, KeptForPlayer DEF p

\* A suit whose queue is emptied and that nothing steers.
LEMMA NeutralFields ==
  ASSUME NEW q, DOMAIN q = PlayerFields, NEW t
  PROVE  /\ DOMAIN Neutral(q, t) = PlayerFields
         /\ Neutral(q, t).pending = << >> /\ Neutral(q, t).control = 0
         /\ Neutral(q, t).received = q.received /\ Neutral(q, t).processed = q.processed
         /\ Neutral(q, t).life = q.life
BY DEF Neutral, PlayerFields

\* A suit at rest is well formed whatever the tick is.
LEMMA RestingOk ==
  ASSUME NEW q, DOMAIN q = PlayerFields, q.received \in Nat, q.processed \in Nat,
         q.pending = << >>, q.control = 0, q.processed <= q.received,
         q.life = 0 => q.processed = q.received, NEW t
  PROVE  PlayerOk(q, t)
<1>1. << >> \in Seq(Frames) /\ Len(<< >>) = 0
  OBVIOUS
<1>2. \A k \in 1..Len(<< >>) : FALSE
  BY <1>1
<1>3. QueueOk(q)
  <2>1. q.pending \in Seq(Frames) /\ (\A k \in 1..Len(q.pending) : FALSE)
    BY <1>1, <1>2
  <2> QED BY <2>1 DEF QueueOk
<1> QED BY <1>3 DEF PlayerOk

\* Death empties the queue and drops what was carried (PlayerIncapacitated).
LEMMA DeathKeeps ==
  ASSUME NEW w, WorldOk(w), NEW x, x.player \in DOMAIN w.players,
         NEW v \in ApplyDeath(w, x)
  PROVE  Kept(w, v)
<1> DEFINE p == x.player
           q == w.players[p]
           neutral == Neutral(q, w.tick)
           dead == [neutral EXCEPT !.oxygen = 0, !.jetpack = FALSE, !.boots = FALSE,
                                   !.kind = "airborne", !.life = x.death]
           pl == [w.players EXCEPT ![p] = dead]
<1>0. x \in IncapacitationPayload(w, p)
  BY DEF ApplyDeath, When
<1>1. /\ \/ v = [w EXCEPT !.players[p] = dead]
         \/ \E i, d : v = [w EXCEPT !.players[p] = dead, !.inv = i, !.drops = d]
  BY DEF ApplyDeath, When
<1>2. x.death = w.seq + 1
  <2> HIDE DEF p
  <2> QED BY <1>0 DEF IncapacitationPayload, When
<1>3. /\ v.players = pl /\ v.tick = w.tick /\ v.grids = w.grids /\ v.clock = w.clock
      /\ Books(w, v)
  <2> HIDE DEF dead
  <2>1. CASE v = [w EXCEPT !.players[p] = dead]
    BY <2>1 DEF WorldFields, WorldOk, Books
  <2>2. CASE \E i, d : v = [w EXCEPT !.players[p] = dead, !.inv = i, !.drops = d]
    <3>1. PICK i, d : v = [w EXCEPT !.players[p] = dead, !.inv = i, !.drops = d]
      BY <2>2
    <3> QED BY <3>1 DEF WorldFields, WorldOk, Books
  <2> QED BY <1>1, <2>1, <2>2
<1>4. PlayerOk(q, w.tick) /\ DOMAIN q = PlayerFields /\ w.seq \in Nat
  BY DEF WorldOk, PlayerOk, QueueOk
<1>5. /\ DOMAIN neutral = PlayerFields
      /\ neutral.pending = << >> /\ neutral.control = 0
      /\ neutral.received = q.received /\ neutral.processed = q.processed
  BY <1>4, NeutralFields
<1> HIDE DEF neutral
<1>6. /\ DOMAIN dead = PlayerFields /\ dead.pending = << >> /\ dead.control = 0
      /\ dead.received = q.received /\ dead.processed = q.processed
      /\ dead.life = w.seq + 1
  BY <1>2, <1>5 DEF PlayerFields
<1> HIDE DEF dead
<1>7. PlayerOk(dead, w.tick)
  <2>1. q.received \in Nat /\ q.processed \in Nat /\ q.processed <= q.received
    BY <1>4 DEF PlayerOk, QueueOk
  <2>2. dead.life # 0
    BY <1>4, <1>6
  <2> QED BY <1>6, <2>1, <2>2, RestingOk
<1>8. /\ DOMAIN pl = DOMAIN w.players /\ pl[p] = dead
      /\ \A o \in DOMAIN w.players : o # p => pl[o] = w.players[o]
  OBVIOUS
<1> HIDE DEF pl, p
<1> QED BY <1>3, <1>7, <1>8, KeptForPlayer DEF p

\* Respawn numbers inputs from zero again (PlayerRespawned).
LEMMA RespawnKeeps ==
  ASSUME NEW w, WorldOk(w), NEW p \in DOMAIN w.players, NEW x,
         NEW v \in ApplyRespawn(w, p, x)
  PROVE  Kept(w, v)
<1> DEFINE q == w.players[p]
           neutral == Neutral(q, w.tick)
           alive == [neutral EXCEPT
                !.place = "vacuum", !.epoch = @ + 1, !.received = 0, !.processed = 0,
                !.oxygen = Rules.respawnOxygen, !.helmet = TRUE, !.jetpack = TRUE,
                !.boots = FALSE, !.kind = "eva", !.life = 0]
           pl == [w.players EXCEPT ![p] = alive]
<1>1. v = [w EXCEPT !.players[p] = alive]
  BY DEF ApplyRespawn, When
<1>3. /\ v.players = pl /\ v.tick = w.tick /\ v.grids = w.grids /\ v.clock = w.clock
      /\ Books(w, v)
  <2> HIDE DEF alive
  <2> QED BY <1>1 DEF WorldFields, WorldOk, Books
<1>4. DOMAIN q = PlayerFields
  BY DEF WorldOk, PlayerOk, QueueOk
<1>5. /\ DOMAIN neutral = PlayerFields
      /\ neutral.pending = << >> /\ neutral.control = 0
  BY <1>4, NeutralFields
<1> HIDE DEF neutral
<1>6. /\ DOMAIN alive = PlayerFields /\ alive.pending = << >> /\ alive.control = 0
      /\ alive.received = 0 /\ alive.processed = 0
  BY <1>5 DEF PlayerFields
<1> HIDE DEF alive
<1>7. PlayerOk(alive, w.tick)
  BY <1>6, RestingOk
<1>8. /\ DOMAIN pl = DOMAIN w.players /\ pl[p] = alive
      /\ \A o \in DOMAIN w.players : o # p => pl[o] = w.players[o]
  OBVIOUS
<1> HIDE DEF pl
<1> QED BY <1>3, <1>7, <1>8, KeptForPlayer

\* A quantum pays experience and follows its occurrence
\* (ProductionQuantumCommitted).
LEMMA QuantumKeeps ==
  ASSUME NEW w, WorldOk(w), NEW x, NEW v \in ApplyQuantum(w, x)
  PROVE  Kept(w, v) /\ v.clock = x.occurrence
<1>1. PICK plan \in PlanQuantum(w) :
        /\ NextOccurrenceValid(w, x.occurrence)
        /\ v = [w EXCEPT !.inv = plan.world.inv,
               !.queues = plan.world.queues,
               !.ledger = plan.world.ledger,
               !.players = [p \in DOMAIN w.players |->
                    [w.players[p] EXCEPT !.xp = plan.world.players[p].xp]],
               !.clock = x.occurrence]
  BY DEF ApplyQuantum
<1> DEFINE pl == [p \in DOMAIN w.players |->
                    [w.players[p] EXCEPT !.xp = plan.world.players[p].xp]]
<1>2. v = [w EXCEPT !.inv = plan.world.inv,
               !.queues = plan.world.queues,
               !.ledger = plan.world.ledger,
               !.players = pl,
               !.clock = x.occurrence]
  BY <1>1
<1>3. /\ DOMAIN pl = DOMAIN w.players
      /\ \A p \in DOMAIN w.players : \E n : pl[p] = [w.players[p] EXCEPT !.xp = n]
  OBVIOUS
<1> HIDE DEF pl
<1>4. /\ v.players = pl /\ v.tick = w.tick /\ v.grids = w.grids /\ v.clock = x.occurrence
      /\ Books(w, v)
  BY <1>2 DEF WorldFields, WorldOk, Books
<1>5. ASSUME NEW p \in DOMAIN w.players
      PROVE  PlayerOk(pl[p], w.tick)
  <2>1. PICK n : pl[p] = [w.players[p] EXCEPT !.xp = n]
    BY <1>3
  <2>2. PlayerOk(w.players[p], w.tick) /\ DOMAIN w.players[p] = PlayerFields
    BY DEF WorldOk, PlayerOk, QueueOk
  <2> DEFINE q == w.players[p]
             r == pl[p]
  <2>3. /\ r.received = q.received /\ r.pending = q.pending /\ r.processed = q.processed
        /\ r.life = q.life /\ r.control = q.control /\ r.expires = q.expires
        /\ DOMAIN r = PlayerFields
    BY <2>1, <2>2 DEF PlayerFields
  <2> HIDE DEF r
  <2>4. PlayerOk(r, w.tick)
    BY <2>2, <2>3 DEF PlayerOk, QueueOk
  <2> QED BY <2>4 DEF r
<1>6. v.clock.seq \in Nat
  BY <1>1, <1>4 DEF NextOccurrenceValid, WorldOk
<1> QED BY <1>3, <1>4, <1>5, <1>6 DEF Kept, WorldOk, Eligible, Books

-----------------------------------------------------------------------------
(* The control queue over the substeps of a physics step.                  *)

\* Every set of naturals that is not empty has a least element (what the
\* inductions on substeps rest on).
LEMMA LeastNatural ==
  ASSUME NEW T \in SUBSET Nat, T # {}
  PROVE  \E n \in T : \A m \in T : n <= m
<1> DEFINE R == OpToRel(<, Nat)
<1>1. IsWellFoundedOn(R, Nat)
  BY NatLessThanWellFounded
<1>2. \A x, y \in Nat : x < y => <<x, y>> \in R
  BY DEF OpToRel
<1> HIDE DEF R
<1>3. PICK n \in T : \A m \in T : ~ (<<m, n>> \in R)
  BY <1>1, WFMin
<1>4. ASSUME NEW m \in T PROVE n <= m
  <2>1. n \in Nat /\ m \in Nat
    OBVIOUS
  <2>2. ~ (m < n)
    BY <1>2, <1>3, <2>1
  <2> QED BY <2>1, <2>2
<1> QED BY <1>4

\* Min is that element (the first frame that has not expired).
LEMMA MinIsLeast ==
  ASSUME NEW T \in SUBSET Nat, T # {}
  PROVE  Min(T) \in T /\ \A m \in T : Min(T) <= m
BY LeastNatural DEF Min

\* One substep skips expired frames and takes the next one
\* (advance_player_control_for_substep).
LEMMA SubstepKeeps ==
  ASSUME NEW q, QueueOk(q), q.life = 0, NEW t
  PROVE  /\ QueueOk(ControlSubstep(q, t))
         /\ ControlSubstep(q, t).life = 0
<1> DEFINE s == q.pending
           live == {k \in DOMAIN s : t < s[k].expires}
           first == IF live = {} THEN Len(s) + 1 ELSE Min(live)
           skipped == [q EXCEPT
              !.pending = SubSeq(s, first, Len(s)),
              !.processed = IF first = 1 THEN @ ELSE s[first - 1].input]
           taken == IF skipped.pending = << >> THEN skipped
                    ELSE LET frame == Head(skipped.pending)
                         IN [skipped EXCEPT !.pending = Tail(@), !.processed = frame.input,
                                            !.control = frame.input, !.expires = frame.expires]
<1>1. ControlSubstep(q, t) = IF t >= taken.expires THEN [taken EXCEPT !.control = 0] ELSE taken
  BY DEF ControlSubstep
<1>2. /\ s \in Seq(Frames) /\ Len(s) \in Nat /\ DOMAIN s = 1..Len(s)
      /\ DOMAIN q = PlayerFields
      /\ q.received \in Nat /\ q.processed \in Nat /\ q.processed <= q.received
  BY DEF QueueOk
<1>3. first \in 1..(Len(s) + 1)
  <2>1. CASE live = {}
    BY <1>2, <2>1
  <2>2. CASE live # {}
    <3>1. live \in SUBSET Nat /\ live \subseteq 1..Len(s)
      BY <1>2
    <3> HIDE DEF live
    <3>2. Min(live) \in live
      BY <2>2, <3>1, MinIsLeast
    <3>3. first = Min(live)
      BY <2>2
    <3>4. Min(live) \in 1..Len(s)
      BY <3>1, <3>2
    <3> HIDE DEF first, s
    <3> QED BY <1>2, <3>3, <3>4
  <2> QED BY <2>1, <2>2
<1> HIDE DEF live
<1> HIDE DEF first
<1>4. \A k \in 1..Len(s) :
         /\ s[k] \in Frames /\ s[k].input \in Nat /\ s[k].input <= q.received
         /\ IF k = 1 THEN q.processed < s[k].input ELSE s[k - 1].input < s[k].input
  <2>1. \A k \in 1..Len(s) : s[k] \in Frames
    BY <1>2
  <2>2. \A k \in 1..Len(s) : s[k].input \in Nat
    BY <2>1 DEF Frames
  <2> QED BY <2>1, <2>2 DEF QueueOk
<1>5. IF s = << >> THEN q.processed = q.received
      ELSE s[Len(s)].input = q.received
  BY DEF QueueOk
<1> DEFINE z == SubSeq(s, first, Len(s))
           n == Len(s) + 1 - first
           a == IF first = 1 THEN q.processed ELSE s[first - 1].input
<1>6. /\ z \in Seq(Frames) /\ Len(z) = n /\ n \in Nat
      /\ \A k \in 1..n : z[k] = s[k + first - 1]
  BY <1>2, <1>3
<1>7. /\ skipped.pending = z /\ skipped.processed = a
      /\ skipped.received = q.received /\ skipped.life = 0
      /\ DOMAIN skipped = PlayerFields
  BY <1>2 DEF PlayerFields
<1> HIDE DEF s, z, n, a, skipped
<1>8. a \in Nat /\ a <= q.received
  <2>1. CASE first = 1
    BY <1>2, <2>1 DEF a
  <2>2. CASE first # 1
    <3>1. first - 1 \in 1..Len(s)
      BY <1>2, <1>3, <2>2
    <3> QED BY <1>4, <2>2, <3>1 DEF a
  <2> QED BY <2>1, <2>2
<1>9. \A k \in 1..n : k + first - 1 \in 1..Len(s)
  BY <1>2, <1>3, <1>6 DEF n
<1>10. ASSUME NEW k \in 1..n
       PROVE  /\ z[k].input \in Nat /\ z[k].input <= q.received /\ z[k] \in Frames
              /\ IF k = 1 THEN a < z[k].input ELSE z[k - 1].input < z[k].input
  <2> DEFINE j == k + first - 1
  <2>1. j \in 1..Len(s) /\ z[k] = s[j]
    BY <1>6, <1>9
  <2>2. CASE k = 1
    <3>1. j = first
      BY <1>3, <2>2
    <3>2. a = IF j = 1 THEN q.processed ELSE s[j - 1].input
      BY <3>1 DEF a
    <3> HIDE DEF j
    <3> QED BY <1>4, <2>1, <2>2, <3>2
  <2>3. CASE k # 1
    <3>1. k - 1 \in 1..n /\ j # 1 /\ z[k - 1] = s[j - 1]
      <4>1. k - 1 \in 1..n
        BY <1>6, <2>3
      <4>2. z[k - 1] = s[(k - 1) + first - 1] /\ (k - 1) + first - 1 = j - 1
        BY <1>3, <1>6, <4>1
      <4> QED BY <1>3, <2>3, <4>1, <4>2
    <3> HIDE DEF j
    <3> QED BY <1>4, <2>1, <2>3, <3>1
  <2> QED BY <2>2, <2>3
<1>11. IF z = << >> THEN a = q.received ELSE z[n].input = q.received /\ n \in 1..n
  <2>1. CASE n = 0
    <3>1. z = << >> /\ first = Len(s) + 1
      BY <1>2, <1>3, <1>6, <2>1 DEF n
    <3>2. CASE s = << >>
      <4>1. Len(s) = 0
        BY <3>2
      <4> QED BY <1>5, <3>1, <3>2, <4>1 DEF a
    <3>3. CASE s # << >>
      <4>1. Len(s) # 0
        BY <1>2, <3>3
      <4> QED BY <1>2, <1>5, <3>1, <3>3, <4>1 DEF a
    <3> QED BY <3>2, <3>3
  <2>2. CASE n # 0
    <3>1. n \in 1..n /\ z # << >> /\ n + first - 1 = Len(s) /\ Len(s) # 0
      BY <1>2, <1>3, <1>6, <2>2 DEF n
    <3>2. z[n] = s[Len(s)] /\ s # << >>
      BY <1>6, <3>1
    <3> QED BY <1>5, <3>1, <3>2
  <2> QED BY <2>1, <2>2
<1>12. QueueOk(taken) /\ taken.life = 0
  <2>1. CASE z = << >>
    <3>1. taken = skipped
      BY <1>7, <2>1
    <3>2. \A k \in 1..Len(z) : FALSE
      BY <2>1
    <3> HIDE DEF taken
    <3> QED BY <1>2, <1>6, <1>7, <1>8, <1>11, <2>1, <3>1, <3>2 DEF QueueOk
  <2>2. CASE z # << >>
    <3> DEFINE f == Head(z)
               y == Tail(z)
               r == [skipped EXCEPT !.pending = Tail(@), !.processed = f.input,
                                    !.control = f.input, !.expires = f.expires]
    <3>1. taken = r
      BY <1>7, <2>2
    <3>2. /\ r.pending = y /\ r.processed = f.input /\ r.received = q.received /\ r.life = 0
          /\ DOMAIN r = PlayerFields
      BY <1>7 DEF PlayerFields
    <3>3. n # 0 /\ 1 \in 1..n /\ f = z[1] /\ y \in Seq(Frames) /\ Len(y) = n - 1
          /\ \A k \in 1..(n - 1) : y[k] = z[k + 1] /\ k + 1 \in 1..n
      BY <1>6, <2>2
    <3>4. f.input \in Nat /\ f.input <= q.received
      BY <1>10, <3>3
    <3> HIDE DEF taken, r, f, y
    <3>5. ASSUME NEW k \in 1..Len(y)
          PROVE  /\ y[k].input <= q.received
                 /\ IF k = 1 THEN f.input < y[k].input ELSE y[k - 1].input < y[k].input
      <4>1. k \in 1..(n - 1) /\ k + 1 \in 1..n /\ k + 1 # 1 /\ y[k] = z[k + 1] /\ (k + 1) - 1 = k
        BY <1>6, <3>3
      <4>2. z[k].input < z[k + 1].input /\ z[k + 1].input <= q.received
        BY <1>10, <4>1
      <4>3. CASE k = 1
        BY <3>3, <4>1, <4>2, <4>3
      <4>4. CASE k # 1
        <5>1. k - 1 \in 1..(n - 1) /\ (k - 1) + 1 = k
          BY <1>6, <4>1, <4>4
        <5>2. y[k - 1] = z[k]
          BY <3>3, <5>1
        <5> QED BY <4>1, <4>2, <4>4, <5>2
      <4> QED BY <4>3, <4>4
    <3>6. IF y = << >> THEN f.input = q.received ELSE y[Len(y)].input = q.received
      <4>1. CASE n = 1
        <5>1. y = << >>
          BY <3>3, <4>1
        <5> QED BY <1>11, <2>2, <3>3, <4>1, <5>1
      <4>2. CASE n # 1
        <5>1. n - 1 \in 1..(n - 1) /\ (n - 1) + 1 = n /\ y # << >>
          BY <1>6, <3>3, <4>2
        <5>2. y[n - 1] = z[n]
          BY <3>3, <5>1
        <5> QED BY <1>11, <2>2, <3>3, <5>1, <5>2
      <4> QED BY <4>1, <4>2
    <3> QED BY <1>2, <3>1, <3>2, <3>3, <3>4, <3>5, <3>6 DEF QueueOk
  <2> QED BY <2>1, <2>2
<1> HIDE DEF taken
<1>13. /\ QueueOk([taken EXCEPT !.control = 0])
       /\ [taken EXCEPT !.control = 0].life = 0
  <2> DEFINE r == [taken EXCEPT !.control = 0]
  <2>1. /\ r.received = taken.received /\ r.pending = taken.pending
        /\ r.processed = taken.processed /\ r.life = taken.life
        /\ DOMAIN r = PlayerFields
    BY <1>12 DEF QueueOk, PlayerFields
  <2> HIDE DEF r
  <2>2. QueueOk(r) /\ r.life = 0
    BY <1>12, <2>1 DEF QueueOk
  <2> QED BY <2>2 DEF r
<1> QED BY <1>1, <1>12, <1>13

(* The states of a queue after each substep. *)
Substeps(player, tick, steps, run) ==
    run = [k \in 0..steps |->
            IF k = 0 THEN player ELSE ControlSubstep(run[k - 1], tick + k - 1)]

\* The substeps of a physics step, one after the other: the recursion that
\* Schedule is written with has a solution.
LEMMA SubstepsDefined ==
  ASSUME NEW player, NEW tick \in Nat, NEW steps \in Nat
  PROVE  \E run : Substeps(player, tick, steps, run)
<1> DEFINE Body(r, k) == IF k = 0 THEN player ELSE ControlSubstep(r[k - 1], tick + k - 1)
           Runs(n) == \E run : run = [k \in 0..n |-> Body(run, k)]
           T == {n \in Nat : ~Runs(n)}
<1>1. ASSUME NEW n \in Nat, n # 0, Runs(n - 1)
      PROVE  Runs(n)
  <2>1. PICK run : run = [k \in 0..(n - 1) |-> Body(run, k)]
    BY <1>1
  <2> DEFINE new == [k \in 0..n |-> IF k = n THEN Body(run, n) ELSE run[k]]
  <2>2. ASSUME NEW k \in 0..n
        PROVE  new[k] = Body(new, k)
    <3>1. CASE k = 0
      <4>1. k # n /\ k \in 0..(n - 1)
        BY <1>1, <3>1
      <4>2. new[k] = run[k] /\ run[k] = Body(run, k)
        BY <2>1, <4>1
      <4> QED BY <3>1, <4>2
    <3>2. CASE k # 0
      <4>1. k - 1 \in 0..(n - 1) /\ k - 1 \in 0..n /\ k - 1 # n
        BY <1>1, <3>2
      <4>2. new[k - 1] = run[k - 1]
        BY <4>1
      <4>3. new[k] = Body(run, k)
        <5>1. CASE k = n
          BY <5>1
        <5>2. CASE k # n
          <6>1. k \in 0..(n - 1)
            BY <5>2
          <6> QED BY <2>1, <5>2, <6>1
        <5> QED BY <5>1, <5>2
      <4>4. Body(run, k) = Body(new, k)
        BY <3>2, <4>2
      <4> QED BY <4>3, <4>4
    <3> QED BY <3>1, <3>2
  <2>3. new = [k \in 0..n |-> Body(new, k)]
    <3>1. new = [k \in 0..n |-> new[k]]
      OBVIOUS
    <3> HIDE DEF new
    <3> HIDE DEF Body
    <3> QED BY <2>2, <3>1
  <2> HIDE DEF new
  <2> QED BY <2>3
<1>2. Runs(0)
  <2> DEFINE new == [k \in 0..0 |-> player]
  <2>1. new = [k \in 0..0 |-> Body(new, k)]
    OBVIOUS
  <2> HIDE DEF new
  <2> QED BY <2>1
<1> HIDE DEF Runs
<1>3. T = {}
  <2> SUFFICES ASSUME T # {} PROVE FALSE
    OBVIOUS
  <2>1. T \in SUBSET Nat
    OBVIOUS
  <2>2. PICK n \in T : \A m \in T : n <= m
    BY <2>1, LeastNatural
  <2>3. n \in Nat /\ ~Runs(n)
    BY <2>1
  <2>4. n # 0
    BY <1>2, <2>3
  <2>5. n - 1 \in Nat /\ ~(n <= n - 1)
    BY <2>3, <2>4
  <2>6. n - 1 \notin T
    BY <2>2, <2>5
  <2>7. Runs(n - 1)
    BY <2>5, <2>6
  <2> QED BY <1>1, <2>3, <2>4, <2>7
<1>4. Runs(steps)
  BY <1>3
<1>5. PICK run : run = [k \in 0..steps |-> Body(run, k)]
  BY <1>4 DEF Runs
<1> QED BY <1>5 DEF Substeps

\* After the substeps the queue is as ordered as before, and a lapsed lease
\* leaves the suit neutral (PhysicsStepCommitted).
LEMMA ScheduleKeeps ==
  ASSUME NEW q, QueueOk(q), q.life = 0, NEW tick \in Nat, NEW steps \in Nat
  PROVE  PlayerOk(Schedule(q, tick, steps), tick + steps)
<1> DEFINE Runs(run) == Substeps(q, tick, steps, run)
           queue == CHOOSE run : Runs(run)
           after == queue[steps]
<1>1. Schedule(q, tick, steps)
        = IF tick + steps < after.expires THEN after ELSE [after EXCEPT !.control = 0]
  BY DEF Schedule, Substeps
<1>2. Runs(queue)
  <2>1. \E run : Runs(run)
    BY SubstepsDefined
  <2> HIDE DEF Runs
  <2> QED BY <2>1
<1> HIDE DEF queue
<1>3. /\ queue[0] = q
      /\ \A k \in 1..steps : queue[k] = ControlSubstep(queue[k - 1], tick + k - 1)
  <2>1. \A k \in 0..steps : queue[k]
           = IF k = 0 THEN q ELSE ControlSubstep(queue[k - 1], tick + k - 1)
    BY <1>2 DEF Substeps
  <2> QED BY <2>1
<1> HIDE DEF Runs
<1> DEFINE T == {k \in 0..steps : ~(QueueOk(queue[k]) /\ queue[k].life = 0)}
<1>4. T = {}
  <2> SUFFICES ASSUME T # {} PROVE FALSE
    OBVIOUS
  <2>1. T \in SUBSET Nat
    OBVIOUS
  <2>2. PICK n \in T : \A m \in T : n <= m
    BY <2>1, LeastNatural
  <2>3. n \in 0..steps /\ ~(QueueOk(queue[n]) /\ queue[n].life = 0)
    BY <2>2
  <2>4. n # 0
    BY <1>3, <2>3
  <2>5. n \in 1..steps /\ n - 1 \in 0..steps /\ ~(n <= n - 1)
    BY <2>3, <2>4
  <2>6. n - 1 \notin T
    BY <2>2, <2>5
  <2>7. QueueOk(queue[n - 1]) /\ queue[n - 1].life = 0
    BY <2>5, <2>6
  <2>8. queue[n] = ControlSubstep(queue[n - 1], tick + n - 1)
    BY <1>3, <2>5
  <2> HIDE DEF T
  <2> QED BY <2>3, <2>7, <2>8, SubstepKeeps
<1>5. QueueOk(after) /\ after.life = 0
  <2>1. steps \in 0..steps
    OBVIOUS
  <2> QED BY <1>4, <2>1
<1> HIDE DEF after
<1>6. CASE tick + steps < after.expires
  BY <1>1, <1>5, <1>6 DEF PlayerOk
<1>7. CASE ~(tick + steps < after.expires)
  <2> DEFINE r == [after EXCEPT !.control = 0]
  <2>1. /\ r.received = after.received /\ r.pending = after.pending
        /\ r.processed = after.processed /\ r.life = after.life /\ r.control = 0
        /\ DOMAIN r = PlayerFields
    BY <1>5 DEF QueueOk, PlayerFields
  <2> HIDE DEF r
  <2>2. PlayerOk(r, tick + steps)
    BY <1>5, <2>1 DEF QueueOk, PlayerOk
  <2> QED BY <1>1, <1>7, <2>2 DEF r
<1> QED BY <1>6, <1>7

\* A physics step moves what is free to move and runs the queues of the
\* living (PhysicsStepCommitted).
LEMMA PhysicsKeeps ==
  ASSUME NEW w, WorldOk(w), NEW x, Rules.stepLimit \in Nat,
         NEW v \in ApplyPhysics(w, x)
  PROVE  Kept(w, v)
<1> DEFINE pl == MovedPlayers(w, x)
           gr == [g \in DOMAIN w.grids |-> [w.grids[g] EXCEPT !.pose = x.grids[g]]]
<1>1. /\ x.steps \in 1..Rules.stepLimit
      /\ PlayersAccounted(w, x)
      /\ v = [w EXCEPT !.tick = @ + x.steps,
                       !.grids = gr,
                       !.players = MovedPlayers(w, x)]
  BY DEF ApplyPhysics, When
<1>2. x.steps \in Nat
  BY <1>1
<1>3. \A p \in DOMAIN w.players : p \notin Simulated(w) => w.players[p].life # 0
  BY <1>1 DEF PlayersAccounted, Alive
<1>4. /\ DOMAIN pl = DOMAIN w.players
      /\ \A p \in DOMAIN w.players :
           pl[p] = IF p \in Simulated(w)
                   THEN [Schedule(w.players[p], w.tick, x.steps) EXCEPT
                           !.place = x.players[p].place, !.kind = x.players[p].kind]
                   ELSE w.players[p]
  BY DEF MovedPlayers
<1>5. /\ DOMAIN gr = DOMAIN w.grids
      /\ \A g \in DOMAIN w.grids : /\ DOMAIN gr[g] = GridFields
                                   /\ gr[g].eligible = w.grids[g].eligible
  BY DEF WorldOk, GridFields
<1> HIDE DEF pl, gr
<1>6. /\ v.players = pl /\ v.grids = gr /\ v.tick = w.tick + x.steps /\ v.clock = w.clock
      /\ Books(w, v)
  BY <1>1 DEF WorldFields, WorldOk, Books, pl
<1>7. ASSUME NEW p \in DOMAIN w.players
      PROVE  PlayerOk(pl[p], w.tick + x.steps)
  <2> DEFINE q == w.players[p]
  <2>1. PlayerOk(q, w.tick) /\ w.tick \in Nat
    BY DEF WorldOk
  <2>2. CASE p \in Simulated(w)
    <3>1. q.life = 0
      BY <2>2 DEF Simulated, Alive
    <3> DEFINE s == Schedule(q, w.tick, x.steps)
               r == [s EXCEPT !.place = x.players[p].place, !.kind = x.players[p].kind]
    <3>2. PlayerOk(s, w.tick + x.steps)
      BY <1>2, <2>1, <3>1, ScheduleKeeps DEF PlayerOk
    <3> HIDE DEF s
    <3>3. /\ r.received = s.received /\ r.pending = s.pending /\ r.processed = s.processed
          /\ r.life = s.life /\ r.control = s.control /\ r.expires = s.expires
          /\ DOMAIN r = PlayerFields
      BY <3>2 DEF PlayerFields, PlayerOk, QueueOk
    <3>4. pl[p] = r
      BY <1>4, <2>2 DEF s
    <3> HIDE DEF r
    <3>5. PlayerOk(r, w.tick + x.steps)
      BY <3>2, <3>3 DEF PlayerOk, QueueOk
    <3> QED BY <3>4, <3>5
  <2>3. CASE p \notin Simulated(w)
    <3>1. pl[p] = q
      BY <1>4, <2>3
    <3>2. q.life # 0
      BY <1>3, <2>3
    <3> QED BY <2>1, <3>1, <3>2 DEF PlayerOk
  <2> QED BY <2>2, <2>3
<1>8. v.tick \in Nat
  BY <1>2, <1>6 DEF WorldOk
<1> QED BY <1>4, <1>5, <1>6, <1>7, <1>8 DEF Kept, WorldOk, Eligible, Books

-----------------------------------------------------------------------------
(* The effects on voxels, cargo, jobs and grids. *)

\* Mining fills the miner's inventory (VoxelMined).
LEMMA MineKeeps ==
  ASSUME NEW w, WorldOk(w), NEW p, NEW x, NEW v \in ApplyMine(w, p, x)
  PROVE  Kept(w, v)
<1>1. v = [w EXCEPT !.voxels = Drop(@, x.at),
                   !.inv[Carried(p)].contents = Plus(@, Of("ore", x.ore)),
                   !.ledger.mined = @ + x.ore]
  BY DEF ApplyMine, When
<1>2. /\ Books(w, v) /\ v.tick = w.tick /\ v.clock = w.clock
      /\ v.players = w.players /\ v.grids = w.grids
  BY <1>1 DEF WorldOk, WorldFields, Books
<1> QED BY <1>2, KeptOutside

\* A job is queued and its inputs are reserved (ProductionQueued).
LEMMA QueueKeeps ==
  ASSUME NEW w, WorldOk(w), NEW p, NEW x, NEW v \in ApplyQueue(w, p, x)
  PROVE  Kept(w, v)
<1>1. /\ Books(w, v) /\ v.tick = w.tick /\ v.clock = w.clock
      /\ v.players = w.players /\ v.grids = w.grids
  BY DEF ApplyQueue, When, WorldOk, WorldFields, Books
<1> QED BY <1>1, KeptOutside

\* Contents move between two inventories (InventoryTransferred).
LEMMA TransferKeeps ==
  ASSUME NEW w, WorldOk(w), NEW p, NEW x, NEW v \in ApplyTransfer(w, p, x)
  PROVE  Kept(w, v)
<1>1. v = [w EXCEPT !.inv[x.src].contents = Minus(@, Of(x.resource, x.quantity)),
                   !.inv[x.dst].contents = Plus(@, Of(x.resource, x.quantity))]
  BY DEF ApplyTransfer, When
<1>2. /\ Books(w, v) /\ v.tick = w.tick /\ v.clock = w.clock
      /\ v.players = w.players /\ v.grids = w.grids
  BY <1>1 DEF WorldOk, WorldFields, Books
<1> QED BY <1>2, KeptOutside

\* A frame is placed on a grid (BlockFramePlaced).
LEMMA BuildKeeps ==
  ASSUME NEW w, WorldOk(w), NEW p, NEW x, NEW v \in ApplyBuild(w, p, x)
  PROVE  Kept(w, v)
<1> DEFINE n == w.inv[Carried(p)].contents["component"] - Cost(x.frame.kind)
           gr == [w.grids EXCEPT ![x.grid].blocks = Put(@, x.id, x.frame)]
           store == [domain |-> CargoDomain(x.id), contents |-> Nothing,
                     capacity |-> Rules.cargoLiters]
           paid == [w EXCEPT !.inv[Carried(p)].contents["component"] = @ - Cost(x.frame.kind),
                          !.grids[x.grid].blocks = Put(@, x.id, x.frame),
                          !.ledger.built = @ + 1]
<1>1. v = paid \/ v = [paid EXCEPT !.inv = Put(@, x.frame.inv, store)]
  BY DEF ApplyBuild, When
<1>2. /\ Books(w, paid) /\ paid.tick = w.tick /\ paid.clock = w.clock
      /\ paid.players = w.players /\ paid.grids = gr
  BY DEF WorldOk, WorldFields, Books
<1>3. \A g \in DOMAIN gr : /\ DOMAIN gr[g] = GridFields /\ g \in DOMAIN w.grids
                           /\ gr[g].eligible = w.grids[g].eligible
  BY DEF WorldOk, GridFields
<1> HIDE DEF paid, gr
<1>4. /\ Books(w, v) /\ v.tick = w.tick /\ v.clock = w.clock
      /\ v.players = w.players /\ v.grids = gr
  BY <1>1, <1>2 DEF Books, WorldFields
<1>5. \A g \in DOMAIN v.grids : /\ DOMAIN v.grids[g] = GridFields
                                /\ v.grids[g].eligible => g \in Eligible(w)
  BY <1>3, <1>4 DEF Eligible
<1> QED BY <1>4, <1>5, KeptForGrid

\* A block is repaired (BlockWelded).
LEMMA WeldKeeps ==
  ASSUME NEW w, WorldOk(w), NEW p, NEW x, NEW v \in ApplyWeld(w, p, x)
  PROVE  Kept(w, v)
<1> DEFINE gr == [w.grids EXCEPT ![x.grid].blocks[x.block].health = x.after,
                                 ![x.grid].blocks[x.block].complete = @ \/ x.completed]
<1>1. v = [w EXCEPT !.grids[x.grid].blocks[x.block].health = x.after,
                    !.grids[x.grid].blocks[x.block].complete = @ \/ x.completed]
  BY DEF ApplyWeld, When
<1>2. /\ Books(w, v) /\ v.tick = w.tick /\ v.clock = w.clock
      /\ v.players = w.players /\ v.grids = gr
  BY <1>1 DEF WorldOk, WorldFields, Books
<1>3. \A g \in DOMAIN gr : /\ DOMAIN gr[g] = GridFields /\ g \in DOMAIN w.grids
                           /\ gr[g].eligible = w.grids[g].eligible
  BY DEF WorldOk, GridFields
<1> HIDE DEF gr
<1>5. \A g \in DOMAIN v.grids : /\ DOMAIN v.grids[g] = GridFields
                                /\ v.grids[g].eligible => g \in Eligible(w)
  BY <1>2, <1>3 DEF Eligible
<1> QED BY <1>2, <1>5, KeptForGrid

\* A grid is steered (GridControlChanged).
LEMMA SteerKeeps ==
  ASSUME NEW w, WorldOk(w), NEW p, NEW x, NEW v \in ApplyGridControl(w, p, x)
  PROVE  Kept(w, v)
<1> DEFINE gr == [w.grids EXCEPT ![x.grid].moving = x.moving]
<1>1. v = [w EXCEPT !.grids[x.grid].moving = x.moving]
  BY DEF ApplyGridControl, When
<1>2. /\ Books(w, v) /\ v.tick = w.tick /\ v.clock = w.clock
      /\ v.players = w.players /\ v.grids = gr
  BY <1>1 DEF WorldOk, WorldFields, Books
<1>3. \A g \in DOMAIN gr : /\ DOMAIN gr[g] = GridFields /\ g \in DOMAIN w.grids
                           /\ gr[g].eligible = w.grids[g].eligible
  BY DEF WorldOk, GridFields
<1> HIDE DEF gr
<1>5. \A g \in DOMAIN v.grids : /\ DOMAIN v.grids[g] = GridFields
                                /\ v.grids[g].eligible => g \in Eligible(w)
  BY <1>2, <1>3 DEF Eligible
<1> QED BY <1>2, <1>5, KeptForGrid

\* The reward an anchor pays is the grid's own, and it is spent
\* (GridAnchorChanged).
LEMMA AnchorKeeps ==
  ASSUME NEW w, WorldOk(w), NEW p, NEW x, NEW v \in ApplyAnchor(w, p, x)
  PROVE  /\ Kept(w, v)
         /\ x.reward => x.grid \in Eligible(w) \ Eligible(v)
<1> DEFINE gr == [w.grids EXCEPT ![x.grid].anchored = x.anchored,
                                 ![x.grid].eligible = @ /\ ~x.reward,
                                 ![x.grid].moving = @ /\ ~x.anchored]
<1>1. /\ v = [w EXCEPT !.grids[x.grid].anchored = x.anchored,
                   !.grids[x.grid].eligible = @ /\ ~x.reward,
                   !.grids[x.grid].moving = @ /\ ~x.anchored]
      /\ x.reward = (x.anchored /\ w.grids[x.grid].eligible)
      /\ x.grid \in DOMAIN w.grids
  BY DEF ApplyAnchor, When, OwnsGrid
<1>2. /\ Books(w, v) /\ v.tick = w.tick /\ v.clock = w.clock
      /\ v.players = w.players /\ v.grids = gr
  BY <1>1 DEF WorldOk, WorldFields, Books
<1>3. /\ DOMAIN gr = DOMAIN w.grids
      /\ \A g \in DOMAIN w.grids : g # x.grid => gr[g] = w.grids[g]
  OBVIOUS
<1>4. /\ DOMAIN gr[x.grid] = GridFields
      /\ gr[x.grid].eligible = (w.grids[x.grid].eligible /\ ~x.reward)
  BY <1>1 DEF WorldOk, GridFields
<1> HIDE DEF gr
<1>5. \A g \in DOMAIN v.grids : /\ DOMAIN v.grids[g] = GridFields
                                /\ v.grids[g].eligible => g \in Eligible(w)
  BY <1>2, <1>3, <1>4 DEF Eligible, WorldOk
<1>6. x.reward => x.grid \in Eligible(w) /\ x.grid \notin Eligible(v)
  BY <1>1, <1>2, <1>4 DEF Eligible
<1> QED BY <1>2, <1>5, <1>6, KeptForGrid

\* Of the fragments of a grid only the one that keeps its name can have its
\* reward (split_disconnected_grid).
LEMMA FragmentsKeep ==
  ASSUME NEW w, NEW id, DOMAIN w.grids[id] = GridFields,
         NEW n \in DOMAIN Fragments(w, id)
  PROVE  /\ DOMAIN Fragments(w, id)[n] = GridFields
         /\ Fragments(w, id)[n].eligible => n = id /\ w.grids[id].eligible
<1> DEFINE grid == w.grids[id]
           coordinates == Coordinates(grid)
           parts == {Component(coordinates, c) : c \in coordinates}
           rank(part) == Cardinality({other \in parts : Min(other) < Min(part)})
           within(part) == {b \in DOMAIN grid.blocks : grid.blocks[b].at \in part}
           cores == {part \in parts : \E b \in within(part) : grid.blocks[b].kind = "core"}
           primary == Min({rank(part) : part \in IF cores = {} THEN parts ELSE cores})
           name(part) == IF rank(part) = primary THEN id ELSE id \o <<w.seq + 1, rank(part)>>
           fragment(part) == [grid EXCEPT
            !.blocks = Restrict(@, within(part)),
            !.eligible = KeepsReward(grid, rank(part), primary),
            !.moving = @ /\ Cardinality(parts) = 1]
           settled(g) == [g EXCEPT !.anchored = @ /\ AnchorTouches(g, w.voxels)]
           named(m) == CHOOSE part \in parts : name(part) = m
<1>1. Fragments(w, id) = [m \in {name(part) : part \in parts} |-> settled(fragment(named(m)))]
  BY DEF Fragments
<1> HIDE DEF parts, rank, within, cores, primary
<1>2. n \in {name(part) : part \in parts}
      /\ Fragments(w, id)[n] = settled(fragment(named(n)))
  <2> HIDE DEF name, settled, fragment, named
  <2> QED BY <1>1
<1>3. name(named(n)) = n
  <2>1. \E part \in parts : name(part) = n
    BY <1>2
  <2> HIDE DEF name
  <2> QED BY <2>1
<1> DEFINE f == fragment(named(n))
<1>4. DOMAIN f = GridFields /\ f.eligible = KeepsReward(grid, rank(named(n)), primary)
  <2> HIDE DEF named
  <2> QED BY DEF GridFields
<1> HIDE DEF f
<1>5. DOMAIN settled(f) = GridFields /\ settled(f).eligible = f.eligible
  BY <1>4 DEF GridFields
<1>6. KeepsReward(grid, rank(named(n)), primary)
        => name(named(n)) = id /\ grid.eligible
  <2> HIDE DEF named
  <2> QED BY DEF KeepsReward
<1> QED BY <1>2, <1>3, <1>4, <1>5, <1>6 DEF f


\* A grid that lost a block falls apart into its fragments
\* (split_disconnected_grid).
LEMMA SplitKeeps ==
  ASSUME NEW w, WorldOk(w), NEW id \in DOMAIN w.grids, NEW v \in SplitDisconnected(w, id)
  PROVE  Kept(w, v)
<1> DEFINE rest == Drop(w.grids, id)
           parts == Fragments(w, id)
           gr == [g \in DOMAIN rest \cup DOMAIN parts |->
                     IF g \in DOMAIN parts THEN parts[g] ELSE rest[g]]
<1>1. v = [w EXCEPT !.grids = gr]
  BY DEF SplitDisconnected, When
<1>2. \A n \in DOMAIN parts : /\ DOMAIN parts[n] = GridFields
                              /\ parts[n].eligible => n = id /\ w.grids[id].eligible
  BY FragmentsKeep DEF WorldOk
<1>3. \A g \in DOMAIN rest : g \in DOMAIN w.grids /\ rest[g] = w.grids[g]
  BY DEF Drop, Restrict
<1> HIDE DEF parts, rest
<1>4. \A g \in DOMAIN gr : \/ g \in DOMAIN parts /\ gr[g] = parts[g]
                           \/ g \in DOMAIN rest /\ gr[g] = rest[g]
  OBVIOUS
<1> HIDE DEF gr
<1>5. /\ Books(w, v) /\ v.tick = w.tick /\ v.clock = w.clock
      /\ v.players = w.players /\ v.grids = gr
  BY <1>1 DEF WorldOk, WorldFields, Books
<1>6. \A g \in DOMAIN v.grids : /\ DOMAIN v.grids[g] = GridFields
                                /\ v.grids[g].eligible => g \in Eligible(w)
  BY <1>2, <1>3, <1>4, <1>5 DEF Eligible, WorldOk
<1> QED BY <1>5, <1>6, KeptForGrid

\* What a destroyed block held becomes a drop, and the grid may fall apart
\* (destroy_block).
LEMMA DestroyKeeps ==
  ASSUME NEW w, WorldOk(w), NEW id \in DOMAIN w.grids, NEW b,
         NEW v \in DestroyBlock(w, id, b)
  PROVE  Kept(w, v)
<1> DEFINE block == w.grids[id].blocks[b]
        owner == w.grids[id].owner
        escrow == FoldLeft(LAMBDA c, job : Plus(c, Plus(job.reserved, job.pending)),
                           Nothing, QueueOf(w, b))
        removed == [w EXCEPT !.grids[id].blocks = Drop(@, b),
                             !.ledger.destroyed = @ + Cost(block.kind)]
        sealed == IF block.inv = NoInventory THEN removed
                  ELSE [removed EXCEPT !.inv[block.inv].domain = DroppedDomain(owner)]
        drop == MachineDrop(w.seq + 1, b)
        spilled == [sealed EXCEPT
            !.queues = Drop(@, b),
            !.inv = Put(@, drop, [domain |-> DroppedDomain(owner), contents |-> escrow,
                                  capacity |-> Rules.unlimited])]
        rest == IF b \notin DOMAIN w.queues THEN {sealed}
                ELSE When(drop \notin DOMAIN w.inv, spilled)
        gr == [w.grids EXCEPT ![id].blocks = Drop(@, b)]
        Same(u) == /\ Books(w, u) /\ u.tick = w.tick /\ u.clock = w.clock
                   /\ u.players = w.players /\ u.grids = gr
<1>1. v \in UNION {SplitDisconnected(u, id) : u \in rest}
  BY DEF DestroyBlock
<1>2. Same(removed)
  BY DEF WorldOk, WorldFields, Books
<1> HIDE DEF removed, gr, escrow, drop, owner, block
<1>3. Same(sealed)
  BY <1>2 DEF WorldFields, Books
<1> HIDE DEF sealed
<1>4. Same(spilled)
  BY <1>3 DEF WorldFields, Books
<1> HIDE DEF spilled
<1>5. rest \subseteq {sealed, spilled}
  BY DEF When
<1> HIDE DEF rest
<1>6. PICK u \in {sealed, spilled} : v \in SplitDisconnected(u, id)
  BY <1>1, <1>5
<1>7. Same(u)
  BY <1>3, <1>4, <1>6
<1>8. /\ DOMAIN gr = DOMAIN w.grids
      /\ \A g \in DOMAIN w.grids : /\ DOMAIN gr[g] = GridFields
                                   /\ gr[g].eligible = w.grids[g].eligible
  BY DEF WorldOk, GridFields, gr
<1>9. Kept(w, u)
  <2>1. \A g \in DOMAIN u.grids : /\ DOMAIN u.grids[g] = GridFields
                                  /\ u.grids[g].eligible => g \in Eligible(w)
    BY <1>7, <1>8 DEF Eligible
  <2> HIDE DEF gr
  <2> QED BY <1>7, <2>1, KeptForGrid
<1>10. Kept(u, v)
  <2>1. WorldOk(u) /\ id \in DOMAIN u.grids
    BY <1>7, <1>8, <1>9 DEF Kept
  <2> QED BY <1>6, <2>1, SplitKeeps
<1> QED BY <1>9, <1>10 DEF Kept, Books

\* A block is damaged or destroyed (BlockDamaged).
LEMMA DamageKeeps ==
  ASSUME NEW w, WorldOk(w), NEW x, NEW v \in ApplyDamage(w, x)
  PROVE  Kept(w, v)
<1> DEFINE gr == [w.grids EXCEPT ![x.grid].blocks[x.block].health = @ - x.amount]
<1>1. /\ x.grid \in DOMAIN w.grids
      /\ \/ v = [w EXCEPT !.grids[x.grid].blocks[x.block].health = @ - x.amount]
         \/ v \in DestroyBlock(w, x.grid, x.block)
  BY DEF ApplyDamage
<1>2. CASE v = [w EXCEPT !.grids[x.grid].blocks[x.block].health = @ - x.amount]
  <2>1. /\ Books(w, v) /\ v.tick = w.tick /\ v.clock = w.clock
        /\ v.players = w.players /\ v.grids = gr
    BY <1>2 DEF WorldOk, WorldFields, Books
  <2>2. \A g \in DOMAIN gr : /\ DOMAIN gr[g] = GridFields /\ g \in DOMAIN w.grids
                             /\ gr[g].eligible = w.grids[g].eligible
    BY DEF WorldOk, GridFields
  <2> HIDE DEF gr
  <2>3. \A g \in DOMAIN v.grids : /\ DOMAIN v.grids[g] = GridFields
                                  /\ v.grids[g].eligible => g \in Eligible(w)
    BY <2>1, <2>2 DEF Eligible
  <2> QED BY <2>1, <2>3, KeptForGrid
<1>3. CASE v \in DestroyBlock(w, x.grid, x.block)
  BY <1>1, <1>3, DestroyKeeps
<1> QED BY <1>1, <1>2, <1>3

-----------------------------------------------------------------------------
(* Whole events. *)

\* The effect of a client's event (the human arms of apply_event).
LEMMA HumanEffect ==
  ASSUME NEW w, WorldOk(w), NEW e, e.payload.type \in HumanTypes,
         e.actor \in DOMAIN w.players, Rules.lease \in Nat,
         Alive(w, e.actor) \/ e.payload.type = "respawn",
         e.payload.type = "control" => e.payload.input \in Nat,
         NEW u \in Effect(w, e)
  PROVE  /\ Kept(w, u)
         /\ e.payload.type = "anchor" /\ e.payload.reward
              => e.payload.grid \in Eligible(w) \ Eligible(u)
<1> DEFINE x == e.payload
           p == e.actor
<1>1. CASE x.type = "control"
  <2>1. u \in ApplyControl(w, p, x) /\ Alive(w, p)
    BY <1>1 DEF Effect
  <2> QED BY <1>1, <2>1, ControlKeeps
<1>2. CASE x.type = "suit"
  <2>1. u \in ApplySuit(w, p, x)
    BY <1>2 DEF Effect
  <2> QED BY <1>2, <2>1, SuitKeeps
<1>3. CASE x.type = "respawn"
  <2>1. u \in ApplyRespawn(w, p, x)
    BY <1>3 DEF Effect
  <2> QED BY <1>3, <2>1, RespawnKeeps
<1>4. CASE x.type = "mine"
  <2>1. u \in ApplyMine(w, p, x)
    BY <1>4 DEF Effect
  <2> QED BY <1>4, <2>1, MineKeeps
<1>5. CASE x.type = "queue"
  <2>1. u \in ApplyQueue(w, p, x)
    BY <1>5 DEF Effect
  <2> QED BY <1>5, <2>1, QueueKeeps
<1>6. CASE x.type = "transfer"
  <2>1. u \in ApplyTransfer(w, p, x)
    BY <1>6 DEF Effect
  <2> QED BY <1>6, <2>1, TransferKeeps
<1>7. CASE x.type = "build"
  <2>1. u \in ApplyBuild(w, p, x)
    BY <1>7 DEF Effect
  <2> QED BY <1>7, <2>1, BuildKeeps
<1>8. CASE x.type = "weld"
  <2>1. u \in ApplyWeld(w, p, x)
    BY <1>8 DEF Effect
  <2> QED BY <1>8, <2>1, WeldKeeps
<1>9. CASE x.type = "steer"
  <2>1. u \in ApplyGridControl(w, p, x)
    BY <1>9 DEF Effect
  <2> QED BY <1>9, <2>1, SteerKeeps
<1>10. CASE x.type = "anchor"
  <2>1. u \in ApplyAnchor(w, p, x)
    BY <1>10 DEF Effect
  <2> QED BY <1>10, <2>1, AnchorKeeps
<1>11. CASE x.type = "damage"
  <2>1. u \in ApplyDamage(w, x)
    BY <1>11 DEF Effect
  <2> QED BY <1>11, <2>1, DamageKeeps
<1> QED BY <1>1, <1>2, <1>3, <1>4, <1>5, <1>6, <1>7, <1>8, <1>9, <1>10, <1>11 DEF HumanTypes

\* Experience is paid and the event is numbered.
Settled(u, e, n) == [Rewarded(u, e) EXCEPT !.seq = n]

\* Experience and the number of an event touch nothing else.
LEMMA SettledKeeps ==
  ASSUME NEW u, WorldOk(u), NEW e, NEW n \in Nat,
         e.actor # NoActor => e.actor \in DOMAIN u.players
  PROVE  LET v == Settled(u, e, n)
         IN /\ WorldOk(v) /\ v.seq = n
            /\ v.ops = u.ops /\ v.locks = u.locks /\ v.reserved = u.reserved
            /\ v.clock = u.clock /\ v.grids = u.grids
            /\ DOMAIN v.players = DOMAIN u.players
            /\ e.actor = NoActor => v.players = u.players
<1> DEFINE v == Settled(u, e, n)
<1>1. CASE e.actor = NoActor
  <2>1. v = [u EXCEPT !.seq = n]
    BY <1>1 DEF Settled, Rewarded
  <2>2. /\ DOMAIN v = WorldFields /\ v.seq = n /\ v.tick = u.tick /\ v.players = u.players
        /\ v.ops = u.ops /\ v.locks = u.locks /\ v.reserved = u.reserved
        /\ v.clock = u.clock /\ v.grids = u.grids
    BY <2>1 DEF WorldOk, WorldFields
  <2> HIDE DEF v
  <2>3. WorldOk(v)
    BY <2>2 DEF WorldOk
  <2> QED BY <2>2, <2>3 DEF v
<1>2. CASE e.actor # NoActor
  <2> DEFINE p == e.actor
             q == u.players[p]
             pl == [u.players EXCEPT ![p].xp = @ + Reward(e.payload)]
  <2>1. v = [[u EXCEPT !.players[p].xp = @ + Reward(e.payload)] EXCEPT !.seq = n]
    BY <1>2 DEF Settled, Rewarded
  <2>2. /\ DOMAIN v = WorldFields /\ v.seq = n /\ v.tick = u.tick /\ v.players = pl
        /\ v.ops = u.ops /\ v.locks = u.locks /\ v.reserved = u.reserved
        /\ v.clock = u.clock /\ v.grids = u.grids
    BY <2>1 DEF WorldOk, WorldFields
  <2> HIDE DEF v
  <2>3. p \in DOMAIN u.players /\ PlayerOk(q, u.tick) /\ DOMAIN q = PlayerFields
    BY <1>2 DEF WorldOk, PlayerOk, QueueOk
  <2>4. /\ DOMAIN pl = DOMAIN u.players
        /\ \A o \in DOMAIN u.players : o # p => pl[o] = u.players[o]
    OBVIOUS
  <2> DEFINE r == pl[p]
  <2>5. /\ r.received = q.received /\ r.pending = q.pending /\ r.processed = q.processed
        /\ r.life = q.life /\ r.control = q.control /\ r.expires = q.expires
        /\ DOMAIN r = PlayerFields
    BY <2>3 DEF PlayerFields
  <2> HIDE DEF r
  <2>6. PlayerOk(r, u.tick)
    BY <2>3, <2>5 DEF PlayerOk, QueueOk
  <2>7. \A o \in DOMAIN pl : PlayerOk(pl[o], u.tick)
    BY <2>4, <2>6 DEF WorldOk, r
  <2> HIDE DEF pl
  <2>8. WorldOk(v)
    BY <2>2, <2>7 DEF WorldOk
  <2> QED BY <1>2, <2>2, <2>4, <2>8 DEF v
<1> QED BY <1>1, <1>2

\* What a client's event does: it takes the actor's next operation, and pays
\* an anchor's reward only by spending it (apply_event).
LEMMA HumanEvent ==
  ASSUME NEW w, WorldOk(w), NEW e, e.actor # NoActor, Rules.lease \in Nat,
         e.print.type = "control" => e.print.input \in Nat,
         NEW v \in Apply(w, e)
  PROVE  /\ WorldOk(v) /\ v.seq = w.seq + 1
         /\ e.actor \in DOMAIN w.players /\ e.payload.type \in HumanTypes
         /\ DOMAIN v.players = DOMAIN w.players
         /\ v.locks = w.locks /\ v.reserved = w.reserved
         /\ Eligible(v) \subseteq Eligible(w)
         /\ e.payload.type = "anchor" /\ e.payload.reward
              => e.payload.grid \in Eligible(w) \ Eligible(v)
         /\ \E h \in RecordOperation(HistoryOf(w, e.actor), e.op,
                        [print |-> e.print, cell |-> "here", event |-> w.seq + 1]) :
              v.ops = Put(w.ops, e.actor, h)
<1>1. Envelope(w, e)
  BY DEF Apply
<1>2. PICK u \in Effect(w, e) : v \in Recorded(Settled(u, e, w.seq + 1), e)
  BY <1>1 DEF Apply, Settled
<1>3. /\ e.payload.type \in HumanTypes /\ e.actor \in DOMAIN w.players
      /\ Alive(w, e.actor) \/ e.payload.type = "respawn"
      /\ e.print = MessageOf(e)
  BY <1>1 DEF Envelope
<1>4. e.payload.type = "control" => e.payload.input \in Nat
  <2> SUFFICES ASSUME e.payload.type = "control" PROVE e.payload.input \in Nat
    OBVIOUS
  <2>1. e.print = [type |-> "control", epoch |-> e.payload.epoch, input |-> e.payload.input]
    BY <1>3 DEF MessageOf
  <2> QED BY <2>1
<1>5. /\ Kept(w, u)
      /\ e.payload.type = "anchor" /\ e.payload.reward
           => e.payload.grid \in Eligible(w) \ Eligible(u)
  BY <1>2, <1>3, <1>4, HumanEffect
<1> DEFINE n == w.seq + 1
           s == Settled(u, e, n)
<1>6. n \in Nat /\ WorldOk(u) /\ e.actor \in DOMAIN u.players
  BY <1>3, <1>5 DEF WorldOk, Kept
<1>7. /\ WorldOk(s) /\ s.seq = n
      /\ s.ops = u.ops /\ s.locks = u.locks /\ s.reserved = u.reserved
      /\ s.grids = u.grids /\ DOMAIN s.players = DOMAIN u.players
  BY <1>6, SettledKeeps
<1> HIDE DEF s
<1>8. PICK h \in RecordOperation(HistoryOf(s, e.actor), e.op,
                        [print |-> e.print, cell |-> "here", event |-> s.seq]) :
        v = [s EXCEPT !.ops = Put(s.ops, e.actor, h)]
  BY <1>2 DEF Recorded, s
<1>9. /\ DOMAIN v = WorldFields /\ v.seq = s.seq /\ v.tick = s.tick /\ v.players = s.players
      /\ v.ops = Put(s.ops, e.actor, h) /\ v.locks = s.locks /\ v.reserved = s.reserved
      /\ v.clock = s.clock /\ v.grids = s.grids
  <2>1. DOMAIN s = WorldFields
    BY <1>7 DEF WorldOk
  <2> QED BY <1>8, <2>1 DEF WorldFields
<1>10. WorldOk(v) /\ Eligible(v) = Eligible(u)
  BY <1>7, <1>9 DEF WorldOk, Eligible
<1>11. HistoryOf(s, e.actor) = HistoryOf(w, e.actor) /\ s.ops = w.ops
  BY <1>5, <1>7 DEF Kept, Books, HistoryOf
<1>12. \E hh \in RecordOperation(HistoryOf(w, e.actor), e.op,
                        [print |-> e.print, cell |-> "here", event |-> w.seq + 1]) :
              v.ops = Put(w.ops, e.actor, hh)
  BY <1>7, <1>8, <1>9, <1>11
<1> QED BY <1>3, <1>5, <1>7, <1>9, <1>10, <1>12 DEF Kept, Books

\* What a timer's event does: life support, a quantum or a physics step
\* (apply_event).
LEMMA TimerEvent ==
  ASSUME NEW w, WorldOk(w), NEW e, e.actor = NoActor, Rules.stepLimit \in Nat,
         e.payload.type \in {"oxygen", "death", "quantum", "physics"},
         NEW v \in Apply(w, e)
  PROVE  /\ WorldOk(v)
         /\ DOMAIN v.players = DOMAIN w.players
         /\ v.ops = w.ops /\ v.locks = w.locks /\ v.reserved = w.reserved
         /\ Eligible(v) \subseteq Eligible(w)
         /\ e.payload.type = "quantum" => v.clock = e.payload.occurrence
<1> DEFINE x == e.payload
<1>1. Envelope(w, e)
  BY DEF Apply
<1>2. PICK u \in Effect(w, e) : v \in Recorded(Settled(u, e, w.seq + 1), e)
  BY <1>1 DEF Apply, Settled
<1>3. v = Settled(u, e, w.seq + 1)
  BY <1>2 DEF Recorded
<1>4. Kept(w, u) /\ (x.type = "quantum" => u.clock = x.occurrence)
  <2>1. CASE x.type = "oxygen"
    <3>1. u \in ApplyOxygen(w, x) /\ x.player \in DOMAIN w.players
      BY <1>1, <2>1 DEF Effect, Envelope
    <3> QED BY <2>1, <3>1, OxygenKeeps
  <2>2. CASE x.type = "death"
    <3>1. u \in ApplyDeath(w, x) /\ x.player \in DOMAIN w.players
      BY <1>1, <2>2 DEF Effect, Envelope
    <3> QED BY <2>2, <3>1, DeathKeeps
  <2>3. CASE x.type = "quantum"
    <3>1. u \in ApplyQuantum(w, x)
      BY <2>3 DEF Effect
    <3> QED BY <2>3, <3>1, QuantumKeeps
  <2>4. CASE x.type = "physics"
    <3>1. u \in ApplyPhysics(w, x)
      BY <2>4 DEF Effect
    <3> QED BY <2>4, <3>1, PhysicsKeeps
  <2> QED BY <2>1, <2>2, <2>3, <2>4
<1>5. w.seq + 1 \in Nat /\ WorldOk(u)
  BY <1>4 DEF WorldOk, Kept
<1>6. /\ WorldOk(v)
      /\ v.ops = u.ops /\ v.locks = u.locks /\ v.reserved = u.reserved
      /\ v.clock = u.clock /\ v.grids = u.grids /\ v.players = u.players
  BY <1>3, <1>5, SettledKeeps
<1>7. Eligible(v) = Eligible(u)
  BY <1>6 DEF Eligible
<1> QED BY <1>4, <1>6, <1>7 DEF Kept, Books

-----------------------------------------------------------------------------
(* What is durable: the world of the journal, the packages in the other    *)
(* cell, the operations each player committed and the rewards paid.        *)

Entry == [op : Nat, cell : {"here", "beyond"}, event : Nat]
LogOk(l) ==
    /\ l \in [Players -> Seq(Entry)]
    /\ \A p \in Players : \A k \in 1..Len(l[p]) : l[p][k].op = k

(* A history is the end of its player's log.                               *)
Fits(h, s) ==
    /\ h.committed = Len(s)
    /\ DOMAIN h.retained \subseteq 1..Len(s)
    /\ \A k \in DOMAIN h.retained :
          h.retained[k].cell = s[k].cell /\ h.retained[k].event = s[k].event

PackOk(p, pack) ==
    /\ DOMAIN pack = {"player", "body", "inv", "ops"}
    /\ pack.player = p
    /\ DOMAIN pack.body = PlayerFields
    /\ pack.body.received \in Nat

(* A player is in the world or in the other cell, and what is quarantined  *)
(* is the package the other cell sends back.                               *)
Places(w, out) ==
    /\ DOMAIN w.players \subseteq Players
    /\ DOMAIN out \subseteq Players
    /\ DOMAIN w.players \cap DOMAIN out = {}
    /\ DOMAIN w.locks \subseteq DOMAIN w.players
    /\ \A p \in DOMAIN out : PackOk(p, out[p])
    /\ \A p \in DOMAIN w.reserved : p \in DOMAIN out /\ w.reserved[p] = out[p]

Histories(w, out, l) ==
    /\ LogOk(l)
    /\ \A p \in DOMAIN w.players : Fits(HistoryOf(w, p), l[p])
    /\ \A p \in DOMAIN out : Fits(out[p].ops, l[p])

Rewards(w, n, most) ==
    /\ n \in Nat /\ most \in Nat
    /\ IsFiniteSet(Eligible(w))
    /\ n + Cardinality(Eligible(w)) <= most

Durable(w, out, l, n, most) ==
    WorldOk(w) /\ Places(w, out) /\ Histories(w, out, l) /\ Rewards(w, n, most)

\* Recording an operation keeps a history the end of the log
\* (record_processed_operation).
LEMMA RecordFits ==
  ASSUME NEW s \in Seq(Entry), NEW h, Fits(h, s), NEW n, NEW record,
         NEW g \in RecordOperation(h, n, record),
         NEW new \in Entry, new.cell = record.cell, new.event = record.event
  PROVE  /\ n = Len(s) + 1
         /\ Fits(g, Append(s, new))
<1> DEFINE kept == [k \in DOMAIN h.retained \cup {n} |->
                       IF k = n THEN record ELSE h.retained[k]]
           z == Append(s, new)
<1>1. n = Len(s) + 1 /\ Len(s) \in Nat
  BY DEF RecordOperation, When, Fits
<1>2. \/ g = [committed |-> n, compacted |-> Min(DOMAIN kept),
               retained |-> Restrict(kept, DOMAIN kept \ {Min(DOMAIN kept)})]
      \/ g = [committed |-> n, compacted |-> h.compacted, retained |-> kept]
  BY DEF RecordOperation, When
<1>3. /\ DOMAIN kept = DOMAIN h.retained \cup {n}
      /\ kept[n] = record
      /\ \A k \in DOMAIN h.retained : k # n => kept[k] = h.retained[k]
  OBVIOUS
<1> HIDE DEF kept
<1>4. /\ g.committed = n /\ DOMAIN g.retained \subseteq DOMAIN kept
      /\ \A k \in DOMAIN g.retained : g.retained[k] = kept[k]
  BY <1>2 DEF Restrict
<1>5. /\ Len(z) = n /\ z[n] = new
      /\ \A k \in 1..Len(s) : z[k] = s[k]
  BY <1>1
<1> HIDE DEF z
<1>6. ASSUME NEW k \in DOMAIN g.retained
      PROVE  /\ k \in 1..Len(z)
             /\ g.retained[k].cell = z[k].cell /\ g.retained[k].event = z[k].event
  <2>1. CASE k = n
    <3>1. k \in 1..n
      BY <1>1, <2>1
    <3> QED BY <1>3, <1>4, <1>5, <2>1, <3>1
  <2>2. CASE k # n
    <3>1. k \in DOMAIN h.retained /\ g.retained[k] = h.retained[k]
      BY <1>3, <1>4, <2>2
    <3>2. k \in 1..Len(s)
      BY <3>1 DEF Fits
    <3>3. k \in 1..Len(z) /\ z[k] = s[k]
      BY <1>1, <1>5, <3>2
    <3> QED BY <3>1, <3>3 DEF Fits
  <2> QED BY <2>1, <2>2
<1>7. Fits(g, z)
  BY <1>4, <1>5, <1>6 DEF Fits
<1> QED BY <1>1, <1>7 DEF z

\* The log one operation longer.
LEMMA LogGrows ==
  ASSUME NEW l, LogOk(l), NEW p \in Players, NEW new \in Entry,
         new.op = Len(l[p]) + 1
  PROVE  LET m == [l EXCEPT ![p] = Append(@, new)]
         IN /\ LogOk(m) /\ m[p] = Append(l[p], new)
            /\ \A q \in Players : q # p => m[q] = l[q]
            /\ \A q \in Players : \A k \in 1..Len(l[q]) :
                 k \in 1..Len(m[q]) /\ m[q][k] = l[q][k]
<1> DEFINE m == [l EXCEPT ![p] = Append(@, new)]
           s == l[p]
           z == Append(s, new)
<1>1. l \in [Players -> Seq(Entry)] /\ s \in Seq(Entry)
  BY DEF LogOk
<1>2. /\ z \in Seq(Entry) /\ Len(z) = Len(s) + 1 /\ z[Len(s) + 1] = new
      /\ \A k \in 1..Len(s) : z[k] = s[k]
      /\ Len(s) \in Nat
  BY <1>1
<1>3. /\ m[p] = z /\ \A q \in Players : q # p => m[q] = l[q]
  BY <1>1
<1>4. m \in [Players -> Seq(Entry)]
  BY <1>1, <1>2
<1> HIDE DEF m, z
<1>5. ASSUME NEW k \in 1..Len(z)
      PROVE  z[k].op = k
  <2>1. CASE k = Len(s) + 1
    BY <1>2, <2>1
  <2>2. CASE k # Len(s) + 1
    <3>1. k \in 1..Len(s)
      BY <1>2, <2>2
    <3> QED BY <1>2, <3>1 DEF LogOk
  <2> QED BY <2>1, <2>2
<1>6. LogOk(m)
  BY <1>3, <1>4, <1>5 DEF LogOk
<1>7. ASSUME NEW q \in Players, NEW k \in 1..Len(l[q])
      PROVE  k \in 1..Len(m[q]) /\ m[q][k] = l[q][k]
  <2>1. CASE q = p
    <3>1. k \in 1..Len(s) /\ m[q] = z
      BY <1>3, <2>1
    <3>2. k \in 1..Len(z)
      BY <1>2, <3>1
    <3> QED BY <1>2, <2>1, <3>1, <3>2
  <2>2. CASE q # p
    BY <1>3, <2>2
  <2> QED BY <2>1, <2>2
<1> QED BY <1>3, <1>6, <1>7 DEF m, z

\* Spending a reward leaves one grid less to pay.
LEMMA RewardSpent ==
  ASSUME NEW w, NEW v, NEW n, NEW most, Rewards(w, n, most),
         Eligible(v) \subseteq Eligible(w), NEW g \in Eligible(w) \ Eligible(v)
  PROVE  Rewards(v, n + 1, most)
<1> DEFINE E == Eligible(w)
           F == Eligible(v)
<1>1. IsFiniteSet(E) /\ IsFiniteSet(F) /\ F # E
  BY FS_Subset DEF Rewards
<1>2. Cardinality(E) \in Nat /\ Cardinality(F) \in Nat /\ Cardinality(F) < Cardinality(E)
  <2> HIDE DEF E, F
  <2>1. F \subseteq E
    BY DEF E, F
  <2>2. Cardinality(F) <= Cardinality(E) /\ (Cardinality(F) = Cardinality(E) => F = E)
    BY <1>1, <2>1, FS_Subset
  <2>3. Cardinality(E) \in Nat /\ Cardinality(F) \in Nat
    BY <1>1, FS_CardinalityType
  <2> QED BY <1>1, <2>2, <2>3
<1> QED BY <1>1, <1>2 DEF Rewards

\* Losing grids that could be paid spends nothing.
LEMMA RewardKept ==
  ASSUME NEW w, NEW v, NEW n, NEW most, Rewards(w, n, most),
         Eligible(v) \subseteq Eligible(w)
  PROVE  Rewards(v, n, most)
<1>1. /\ IsFiniteSet(Eligible(v)) /\ Cardinality(Eligible(v)) <= Cardinality(Eligible(w))
      /\ Cardinality(Eligible(v)) \in Nat /\ Cardinality(Eligible(w)) \in Nat
  BY FS_Subset, FS_CardinalityType DEF Rewards
<1> QED BY <1>1 DEF Rewards

-----------------------------------------------------------------------------
(* The stages of a handoff. *)

\* Numbering an event disturbs nothing durable.
LEMMA SettledDurable ==
  ASSUME NEW u, NEW out, NEW l, NEW n, NEW most, Durable(u, out, l, n, most),
         NEW e, e.actor = NoActor, NEW k \in Nat
  PROVE  Durable(Settled(u, e, k), out, l, n, most)
<1> DEFINE v == Settled(u, e, k)
<1>1. WorldOk(u)
  BY DEF Durable
<1>2. /\ WorldOk(v)
      /\ v.ops = u.ops /\ v.locks = u.locks /\ v.reserved = u.reserved
      /\ v.clock = u.clock /\ v.grids = u.grids /\ v.players = u.players
  BY <1>1, SettledKeeps
<1> HIDE DEF v
<1>3. Places(v, out)
  BY <1>2 DEF Durable, Places
<1>4. Histories(v, out, l)
  <2>1. \A p : HistoryOf(v, p) = HistoryOf(u, p)
    BY <1>2 DEF HistoryOf
  <2> QED BY <1>2, <2>1 DEF Durable, Histories
<1>5. Eligible(v) = Eligible(u)
  BY <1>2 DEF Eligible
<1>6. Rewards(v, n, most)
  BY <1>5 DEF Durable, Rewards
<1> QED BY <1>2, <1>3, <1>4, <1>6 DEF Durable, v

\* What stays as it is when a transfer stage leaves the grids alone.
LEMMA RewardsFromGrids ==
  ASSUME NEW w, NEW u, u.grids = w.grids, NEW n, NEW most, Rewards(w, n, most)
  PROVE  Rewards(u, n, most)
BY DEF Rewards, Eligible

\* A lock holds a player of this cell (HandoffPrepared, HandoffUnlocked).
LEMMA LockStage ==
  ASSUME NEW w, NEW out, NEW l, NEW n, NEW most, Durable(w, out, l, n, most),
         NEW pack, NEW u \in StageLock(w, pack) \cup StageUnlock(w, pack)
  PROVE  Durable(u, out, l, n, most) /\ u.reserved = w.reserved
<1>1. WorldOk(w)
  BY DEF Durable
<1>2. PICK k : /\ u = [w EXCEPT !.locks = k]
               /\ DOMAIN k \subseteq DOMAIN w.locks \cup DOMAIN w.players
  <2>1. CASE u \in StageLock(w, pack)
    <3>1. /\ u = [w EXCEPT !.locks = Put(w.locks, pack.player, pack)]
          /\ pack.player \in DOMAIN w.players
      BY <2>1 DEF StageLock, When
    <3> DEFINE k == Put(w.locks, pack.player, pack)
    <3>2. DOMAIN k \subseteq DOMAIN w.locks \cup DOMAIN w.players
      BY <3>1 DEF Put
    <3> HIDE DEF k
    <3> QED BY <3>1, <3>2 DEF k
  <2>2. CASE u \in StageUnlock(w, pack)
    <3>1. u = [w EXCEPT !.locks = Drop(w.locks, pack.player)]
      BY <2>2 DEF StageUnlock, When
    <3> DEFINE k == Drop(w.locks, pack.player)
    <3>2. DOMAIN k \subseteq DOMAIN w.locks \cup DOMAIN w.players
      BY DEF Drop, Restrict
    <3> HIDE DEF k
    <3> QED BY <3>1, <3>2 DEF k
  <2> QED BY <2>1, <2>2
<1>3. /\ DOMAIN u = WorldFields /\ u.seq = w.seq /\ u.tick = w.tick /\ u.clock = w.clock
      /\ u.players = w.players /\ u.grids = w.grids /\ u.ops = w.ops
      /\ u.reserved = w.reserved /\ u.locks = k
  BY <1>1, <1>2 DEF WorldOk, WorldFields
<1>4. WorldOk(u)
  BY <1>1, <1>3 DEF WorldOk
<1>5. Places(u, out)
  BY <1>2, <1>3 DEF Durable, Places
<1>6. Histories(u, out, l)
  <2>1. \A p : HistoryOf(u, p) = HistoryOf(w, p)
    BY <1>3 DEF HistoryOf
  <2> QED BY <1>3, <2>1 DEF Durable, Histories
<1>7. Rewards(u, n, most)
  BY <1>3, RewardsFromGrids DEF Durable
<1> QED BY <1>3, <1>4, <1>5, <1>6, <1>7 DEF Durable

\* The package of a player of this cell.
LEMMA ClosureFacts ==
  ASSUME NEW w, NEW p, NEW pack, pack = Closure(w, p)
  PROVE  /\ DOMAIN pack = {"player", "body", "inv", "ops"}
         /\ pack.player = p /\ pack.body = w.players[p] /\ pack.ops = HistoryOf(w, p)
BY DEF Closure

\* A player admitted elsewhere starts a new epoch with nothing waiting.
LEMMA RebasedFacts ==
  ASSUME NEW b, DOMAIN b = PlayerFields, b.received \in Nat
  PROVE  /\ DOMAIN Rebased(b) = PlayerFields
         /\ Rebased(b).received = b.received /\ Rebased(b).processed = b.received
         /\ Rebased(b).pending = << >> /\ Rebased(b).control = 0
         /\ \A t : PlayerOk(Rebased(b), t)
<1> DEFINE m == Neutral(b, 0)
           r == [m EXCEPT !.epoch = @ + 1, !.processed = b.received]
<1>1. /\ DOMAIN m = PlayerFields /\ m.pending = << >> /\ m.control = 0
      /\ m.received = b.received
  BY NeutralFields
<1>2. Rebased(b) = r
  BY DEF Rebased
<1> HIDE DEF m
<1>3. /\ DOMAIN r = PlayerFields /\ r.received = b.received /\ r.processed = b.received
      /\ r.pending = << >> /\ r.control = 0
  BY <1>1 DEF PlayerFields
<1> HIDE DEF r
<1>4. \A t : PlayerOk(r, t)
  BY <1>3, RestingOk
<1> QED BY <1>2, <1>3, <1>4

\* The package the other cell sends back carries the same history.
LEMMA SentFacts ==
  ASSUME NEW p, NEW pack, PackOk(p, pack)
  PROVE  PackOk(p, Sent(pack)) /\ Sent(pack).ops = pack.ops
<1> DEFINE r == Rebased(pack.body)
           b == [r EXCEPT !.place = "air"]
<1>1. DOMAIN r = PlayerFields /\ r.received \in Nat
  BY RebasedFacts DEF PackOk
<1> HIDE DEF r
<1>2. DOMAIN b = PlayerFields /\ b.received \in Nat
  BY <1>1 DEF PlayerFields
<1>3. Sent(pack) = [pack EXCEPT !.body = b]
  BY DEF Sent, r
<1> HIDE DEF b
<1> QED BY <1>2, <1>3 DEF PackOk

\* An export takes the player, its history and its lock away, and the other
\* cell has them (HandoffExported).
LEMMA ExportStage ==
  ASSUME NEW w, NEW out, NEW l, NEW n, NEW most, Durable(w, out, l, n, most),
         NEW pack, NEW u \in StageExport(w, pack)
  PROVE  /\ Durable(u, Put(out, pack.player, Sent(pack)), l, n, most)
         /\ u.reserved = w.reserved
<1> DEFINE p == pack.player
           o == Put(out, p, Sent(pack))
<1>1. WorldOk(w) /\ Places(w, out) /\ Histories(w, out, l) /\ Rewards(w, n, most)
  BY DEF Durable
<1>2. /\ u = [w EXCEPT !.players = Drop(w.players, p), !.inv = Drop(@, Carried(p)),
                       !.ops = Drop(w.ops, p), !.locks = Drop(w.locks, p),
                       !.ledger.exported = Plus(@, pack.inv.contents)]
      /\ p \in DOMAIN w.locks /\ pack = Closure(w, p)
  BY DEF StageExport, When, Intact, Locked
<1>3. /\ DOMAIN u = WorldFields /\ u.seq = w.seq /\ u.tick = w.tick /\ u.clock = w.clock
      /\ u.players = Drop(w.players, p) /\ u.grids = w.grids /\ u.ops = Drop(w.ops, p)
      /\ u.reserved = w.reserved /\ u.locks = Drop(w.locks, p)
  BY <1>1, <1>2 DEF WorldOk, WorldFields
<1>4. p \in DOMAIN w.players /\ p \in Players /\ p \notin DOMAIN out
  BY <1>1, <1>2 DEF Places
<1>5. PackOk(p, pack) /\ pack.ops = HistoryOf(w, p)
  <2>1. /\ DOMAIN pack = {"player", "body", "inv", "ops"}
        /\ pack.body = w.players[p] /\ pack.ops = HistoryOf(w, p)
    BY <1>2, ClosureFacts
  <2>2. DOMAIN pack.body = PlayerFields /\ pack.body.received \in Nat
    BY <1>1, <1>4, <2>1 DEF WorldOk, PlayerOk, QueueOk
  <2> QED BY <2>1, <2>2 DEF PackOk
<1>6. PackOk(p, Sent(pack)) /\ Sent(pack).ops = HistoryOf(w, p)
  BY <1>5, SentFacts
<1> HIDE DEF p
<1>7. /\ DOMAIN u.players = DOMAIN w.players \ {p} /\ DOMAIN u.locks = DOMAIN w.locks \ {p}
      /\ DOMAIN u.ops = DOMAIN w.ops \ {p}
      /\ \A q \in DOMAIN u.players : u.players[q] = w.players[q]
      /\ \A q \in DOMAIN u.ops : u.ops[q] = w.ops[q]
  BY <1>3 DEF Drop, Restrict
<1>8. /\ DOMAIN o = DOMAIN out \cup {p} /\ o[p] = Sent(pack)
      /\ \A q \in DOMAIN out : q # p => o[q] = out[q]
  BY DEF Put
<1> HIDE DEF o
<1>9. WorldOk(u)
  BY <1>1, <1>3, <1>7 DEF WorldOk
<1>10. Places(u, o)
  <2>1. \A q \in DOMAIN o : PackOk(q, o[q])
    BY <1>1, <1>6, <1>8 DEF Places
  <2>2. \A q \in DOMAIN u.reserved : q \in DOMAIN o /\ u.reserved[q] = o[q]
    BY <1>1, <1>3, <1>4, <1>8 DEF Places
  <2>3. /\ DOMAIN u.players \subseteq Players /\ DOMAIN o \subseteq Players
        /\ DOMAIN u.players \cap DOMAIN o = {} /\ DOMAIN u.locks \subseteq DOMAIN u.players
    BY <1>1, <1>4, <1>7, <1>8 DEF Places
  <2> QED BY <2>1, <2>2, <2>3 DEF Places
<1>11. Histories(u, o, l)
  <2>1. \A q \in DOMAIN u.players : HistoryOf(u, q) = HistoryOf(w, q)
    BY <1>7 DEF HistoryOf
  <2>2. \A q \in DOMAIN o : Fits(o[q].ops, l[q])
    BY <1>1, <1>4, <1>6, <1>8 DEF Histories
  <2> QED BY <1>1, <1>7, <2>1, <2>2 DEF Histories
<1>12. Rewards(u, n, most)
  BY <1>1, <1>3, RewardsFromGrids
<1> QED BY <1>3, <1>9, <1>10, <1>11, <1>12 DEF Durable, o, p

\* A returning player's package is set aside (HandoffQuarantined).
LEMMA QuarantineStage ==
  ASSUME NEW w, NEW out, NEW l, NEW n, NEW most, Durable(w, out, l, n, most),
         NEW p \in DOMAIN out, NEW u \in StageQuarantine(w, out[p])
  PROVE  /\ Durable(u, out, l, n, most)
         /\ DOMAIN u.reserved = DOMAIN w.reserved \cup {p}
<1> DEFINE r == Put(w.reserved, p, out[p])
<1>1. WorldOk(w) /\ Places(w, out) /\ Histories(w, out, l) /\ Rewards(w, n, most)
  BY DEF Durable
<1>2. out[p].player = p
  BY <1>1 DEF Places, PackOk
<1>3. u = [w EXCEPT !.reserved = r]
  BY <1>2 DEF StageQuarantine, When
<1>4. /\ DOMAIN r = DOMAIN w.reserved \cup {p} /\ r[p] = out[p]
      /\ \A q \in DOMAIN w.reserved : q # p => r[q] = w.reserved[q]
  BY DEF Put
<1> HIDE DEF r
<1>5. /\ DOMAIN u = WorldFields /\ u.seq = w.seq /\ u.tick = w.tick /\ u.clock = w.clock
      /\ u.players = w.players /\ u.grids = w.grids /\ u.ops = w.ops
      /\ u.reserved = r /\ u.locks = w.locks
  BY <1>1, <1>3 DEF WorldOk, WorldFields
<1>6. WorldOk(u)
  BY <1>1, <1>5 DEF WorldOk
<1>7. \A q \in DOMAIN u.reserved : q \in DOMAIN out /\ u.reserved[q] = out[q]
  BY <1>1, <1>4, <1>5 DEF Places
<1>8. Places(u, out)
  BY <1>1, <1>5, <1>7 DEF Places
<1>9. Histories(u, out, l)
  <2>1. \A q : HistoryOf(u, q) = HistoryOf(w, q)
    BY <1>5 DEF HistoryOf
  <2> QED BY <1>1, <1>5, <2>1 DEF Histories
<1>10. Rewards(u, n, most)
  BY <1>1, <1>5, RewardsFromGrids
<1> QED BY <1>4, <1>5, <1>6, <1>8, <1>9, <1>10 DEF Durable

\* A returning player is admitted with the history it comes with
\* (HandoffImported).
LEMMA ImportStage ==
  ASSUME NEW w, NEW out, NEW l, NEW n, NEW most, Durable(w, out, l, n, most),
         NEW pack, NEW u \in StageImport(w, pack)
  PROVE  /\ Durable(u, Drop(out, pack.player), l, n, most)
         /\ pack.player \in DOMAIN w.reserved
         /\ DOMAIN u.reserved = DOMAIN w.reserved \ {pack.player}
<1> DEFINE p == pack.player
           o == Drop(out, p)
           b == Rebased(pack.body)
<1>1. WorldOk(w) /\ Places(w, out) /\ Histories(w, out, l) /\ Rewards(w, n, most)
  BY DEF Durable
<1>2. /\ p \notin DOMAIN w.players /\ p \notin DOMAIN w.ops
      /\ p \in DOMAIN w.reserved /\ w.reserved[p] = pack
  BY DEF StageImport, When, Unknown
<1>3. PICK k : /\ u = [w EXCEPT !.players = Put(w.players, p, b),
                                !.inv = Put(@, Carried(p), pack.inv),
                                !.ops = k,
                                !.reserved = Drop(w.reserved, p),
                                !.ledger.imported = Plus(@, pack.inv.contents)]
               /\ k = IF pack.ops = NoHistory THEN w.ops ELSE Put(w.ops, p, pack.ops)
  BY DEF StageImport, When
<1>4. p \in DOMAIN out /\ out[p] = pack /\ PackOk(p, pack) /\ p \in Players
  BY <1>1, <1>2 DEF Places
<1>5. \A t : PlayerOk(b, t)
  BY <1>4, RebasedFacts DEF PackOk
<1>6. \A q : IF q = p THEN (IF q \in DOMAIN k THEN k[q] ELSE NoHistory) = pack.ops
             ELSE (q \in DOMAIN k <=> q \in DOMAIN w.ops) /\ (q \in DOMAIN k => k[q] = w.ops[q])
  <2>1. CASE pack.ops = NoHistory
    BY <1>2, <1>3, <2>1
  <2>2. CASE pack.ops # NoHistory
    <3>1. k = Put(w.ops, p, pack.ops)
      BY <1>3, <2>2
    <3>2. /\ DOMAIN k = DOMAIN w.ops \cup {p} /\ k[p] = pack.ops
          /\ \A j \in DOMAIN w.ops : j # p => k[j] = w.ops[j]
      BY <3>1 DEF Put
    <3> HIDE DEF p
    <3> QED BY <3>2
  <2> QED BY <2>1, <2>2
<1> HIDE DEF b
<1>7. /\ DOMAIN u = WorldFields /\ u.seq = w.seq /\ u.tick = w.tick /\ u.clock = w.clock
      /\ u.players = Put(w.players, p, b) /\ u.grids = w.grids /\ u.ops = k
      /\ u.reserved = Drop(w.reserved, p) /\ u.locks = w.locks
  BY <1>1, <1>3 DEF WorldOk, WorldFields
<1> HIDE DEF p
<1>8. /\ DOMAIN u.players = DOMAIN w.players \cup {p} /\ u.players[p] = b
      /\ \A q \in DOMAIN w.players : q # p => u.players[q] = w.players[q]
      /\ DOMAIN u.reserved = DOMAIN w.reserved \ {p}
      /\ \A q \in DOMAIN u.reserved : u.reserved[q] = w.reserved[q]
  BY <1>7 DEF Put, Drop, Restrict
<1>9. /\ DOMAIN o = DOMAIN out \ {p} /\ \A q \in DOMAIN o : o[q] = out[q]
  BY DEF Drop, Restrict
<1> HIDE DEF o
<1>10. WorldOk(u)
  BY <1>1, <1>5, <1>7, <1>8 DEF WorldOk
<1>11. Places(u, o)
  <2>1. \A q \in DOMAIN o : PackOk(q, o[q])
    BY <1>1, <1>9 DEF Places
  <2>2. \A q \in DOMAIN u.reserved : q \in DOMAIN o /\ u.reserved[q] = o[q]
    BY <1>1, <1>8, <1>9 DEF Places
  <2>3. /\ DOMAIN u.players \subseteq Players /\ DOMAIN o \subseteq Players
        /\ DOMAIN u.players \cap DOMAIN o = {} /\ DOMAIN u.locks \subseteq DOMAIN u.players
    BY <1>1, <1>4, <1>7, <1>8, <1>9 DEF Places
  <2> QED BY <2>1, <2>2, <2>3 DEF Places
<1>12. Histories(u, o, l)
  <2>1. HistoryOf(u, p) = pack.ops
    BY <1>6, <1>7 DEF HistoryOf
  <2>2. \A q : q # p => HistoryOf(u, q) = HistoryOf(w, q)
    BY <1>6, <1>7 DEF HistoryOf
  <2>3. Fits(pack.ops, l[p])
    BY <1>1, <1>4 DEF Histories
  <2>4. \A q \in DOMAIN u.players : Fits(HistoryOf(u, q), l[q])
    BY <1>1, <1>8, <2>1, <2>2, <2>3 DEF Histories
  <2>5. \A q \in DOMAIN o : Fits(o[q].ops, l[q])
    BY <1>1, <1>9 DEF Histories
  <2> QED BY <1>1, <2>4, <2>5 DEF Histories
<1>13. Rewards(u, n, most)
  BY <1>1, <1>7, RewardsFromGrids
<1> QED BY <1>2, <1>8, <1>10, <1>11, <1>12, <1>13 DEF Durable, o, p

\* A quarantined package is given up (HandoffReleased).
LEMMA ReleaseStage ==
  ASSUME NEW w, NEW out, NEW l, NEW n, NEW most, Durable(w, out, l, n, most),
         NEW pack, NEW u \in StageRelease(w, pack)
  PROVE  /\ Durable(u, out, l, n, most)
         /\ pack.player \in DOMAIN w.reserved
         /\ DOMAIN u.reserved = DOMAIN w.reserved \ {pack.player}
<1> DEFINE p == pack.player
<1>1. WorldOk(w) /\ Places(w, out) /\ Histories(w, out, l) /\ Rewards(w, n, most)
  BY DEF Durable
<1>2. p \in DOMAIN w.reserved /\ u = [w EXCEPT !.reserved = Drop(w.reserved, p)]
  BY DEF StageRelease, When
<1>3. /\ DOMAIN u = WorldFields /\ u.seq = w.seq /\ u.tick = w.tick /\ u.clock = w.clock
      /\ u.players = w.players /\ u.grids = w.grids /\ u.ops = w.ops
      /\ u.reserved = Drop(w.reserved, p) /\ u.locks = w.locks
  BY <1>1, <1>2 DEF WorldOk, WorldFields
<1> HIDE DEF p
<1>4. /\ DOMAIN u.reserved = DOMAIN w.reserved \ {p}
      /\ \A q \in DOMAIN u.reserved : u.reserved[q] = w.reserved[q]
  BY <1>3 DEF Drop, Restrict
<1>5. WorldOk(u)
  BY <1>1, <1>3 DEF WorldOk
<1>6. Places(u, out)
  BY <1>1, <1>3, <1>4 DEF Places
<1>7. Histories(u, out, l)
  <2>1. \A q : HistoryOf(u, q) = HistoryOf(w, q)
    BY <1>3 DEF HistoryOf
  <2> QED BY <1>1, <1>3, <2>1 DEF Histories
<1>8. Rewards(u, n, most)
  BY <1>1, <1>3, RewardsFromGrids
<1> QED BY <1>2, <1>4, <1>5, <1>6, <1>7, <1>8 DEF Durable, p

-----------------------------------------------------------------------------
(* What is durable once an event is in the journal (Landed). *)

Logged(l, e, v) ==
    IF e.actor = NoActor THEN l
    ELSE [l EXCEPT ![e.actor] =
             Append(@, [op |-> e.op, cell |-> "here", event |-> v.seq])]
Paid(n, e) == IF e.payload.type = "anchor" /\ e.payload.reward THEN n + 1 ELSE n
Sends(out, e) ==
    CASE e.payload.type = "exported" -> Put(out, e.payload.pack.player, Sent(e.payload.pack))
      [] e.payload.type = "imported" -> Drop(out, e.payload.pack.player)
      [] OTHER -> out

\* A client's event is its actor's next operation, in the world and in the log.
LEMMA HumanLands ==
  ASSUME NEW w, NEW out, NEW l, NEW n, NEW most, Durable(w, out, l, n, most),
         NEW e, e.actor # NoActor, Rules.lease \in Nat,
         e.print.type = "control" => e.print.input \in Nat,
         NEW v \in Apply(w, e)
  PROVE  /\ Durable(v, Sends(out, e), Logged(l, e, v), Paid(n, e), most)
         /\ v.reserved = w.reserved
         /\ e.actor \in Players /\ e.op = Len(l[e.actor]) + 1
         /\ e.op \in Nat /\ v.seq \in Nat
<1> DEFINE p == e.actor
           new == [op |-> e.op, cell |-> "here", event |-> v.seq]
           m == [l EXCEPT ![p] = Append(@, new)]
<1>1. WorldOk(w) /\ Places(w, out) /\ Histories(w, out, l) /\ Rewards(w, n, most)
  BY DEF Durable
<1>2. /\ WorldOk(v) /\ v.seq = w.seq + 1
      /\ p \in DOMAIN w.players /\ e.payload.type \in HumanTypes
      /\ DOMAIN v.players = DOMAIN w.players
      /\ v.locks = w.locks /\ v.reserved = w.reserved
      /\ Eligible(v) \subseteq Eligible(w)
      /\ e.payload.type = "anchor" /\ e.payload.reward
           => e.payload.grid \in Eligible(w) \ Eligible(v)
  BY <1>1, HumanEvent
<1>3. PICK h \in RecordOperation(HistoryOf(w, p), e.op,
                        [print |-> e.print, cell |-> "here", event |-> w.seq + 1]) :
              v.ops = Put(w.ops, p, h)
  BY <1>1, HumanEvent
<1>4. p \in Players /\ p \notin DOMAIN out
  BY <1>1, <1>2 DEF Places
<1> DEFINE s == l[p]
           record == [print |-> e.print, cell |-> "here", event |-> w.seq + 1]
<1>5. s \in Seq(Entry) /\ Fits(HistoryOf(w, p), s) /\ Len(s) \in Nat
  BY <1>1, <1>2, <1>4 DEF Histories, LogOk
<1>6. e.op = Len(s) + 1
  BY <1>3, <1>5 DEF RecordOperation, When, Fits
<1>7. new \in Entry /\ new.op = Len(s) + 1 /\ new.cell = "here" /\ new.event = w.seq + 1
  BY <1>1, <1>2, <1>5, <1>6 DEF Entry, WorldOk
<1> HIDE DEF new
<1>8. Fits(h, Append(s, new))
  <2>1. new.cell = record.cell /\ new.event = record.event
    BY <1>7
  <2>2. h \in RecordOperation(HistoryOf(w, p), e.op, record)
    BY <1>3
  <2> HIDE DEF record
  <2> QED BY <1>5, <1>7, <2>1, <2>2, RecordFits
<1>9. /\ LogOk(m) /\ m[p] = Append(s, new)
      /\ \A q \in Players : q # p => m[q] = l[q]
  BY <1>1, <1>4, <1>7, LogGrows DEF Histories
<1>10. Logged(l, e, v) = m
  BY DEF Logged, new
<1> HIDE DEF m, p
<1>11. /\ HistoryOf(v, p) = h
       /\ \A q : q # p => HistoryOf(v, q) = HistoryOf(w, q)
  BY <1>3 DEF HistoryOf, Put
<1>12. Histories(v, out, m)
  <2>1. \A q \in DOMAIN v.players : q \in Players /\ Fits(HistoryOf(v, q), m[q])
    BY <1>1, <1>2, <1>8, <1>9, <1>11 DEF Histories, Places
  <2>2. \A q \in DOMAIN out : Fits(out[q].ops, m[q])
    BY <1>1, <1>4, <1>9 DEF Histories, Places
  <2> QED BY <1>9, <2>1, <2>2 DEF Histories
<1>13. Places(v, out)
  BY <1>1, <1>2 DEF Places
<1>14. Rewards(v, Paid(n, e), most)
  <2>1. CASE e.payload.type = "anchor" /\ e.payload.reward
    <3>1. e.payload.grid \in Eligible(w) \ Eligible(v) /\ Paid(n, e) = n + 1
      BY <1>2, <2>1 DEF Paid
    <3> QED BY <1>1, <1>2, <3>1, RewardSpent
  <2>2. CASE ~(e.payload.type = "anchor" /\ e.payload.reward)
    <3>1. Paid(n, e) = n
      BY <2>2 DEF Paid
    <3> QED BY <1>1, <1>2, <3>1, RewardKept
  <2> QED BY <2>1, <2>2
<1>15. Sends(out, e) = out
  BY <1>2 DEF Sends, HumanTypes
<1>16. Durable(v, Sends(out, e), Logged(l, e, v), Paid(n, e), most)
  BY <1>2, <1>10, <1>12, <1>13, <1>14, <1>15 DEF Durable
<1>17. v.seq \in Nat /\ e.op \in Nat
  BY <1>2, <1>5, <1>6 DEF WorldOk
<1> QED BY <1>2, <1>4, <1>6, <1>16, <1>17 DEF p

\* A timer's event takes nobody's operation and pays no reward.
LEMMA TimerLands ==
  ASSUME NEW w, NEW out, NEW l, NEW n, NEW most, Durable(w, out, l, n, most),
         NEW e, e.actor = NoActor, Rules.stepLimit \in Nat,
         e.payload.type \in {"oxygen", "death", "quantum", "physics"},
         NEW v \in Apply(w, e)
  PROVE  /\ Durable(v, Sends(out, e), Logged(l, e, v), Paid(n, e), most)
         /\ v.reserved = w.reserved
         /\ e.payload.type = "quantum" => v.clock = e.payload.occurrence
<1>1. WorldOk(w) /\ Places(w, out) /\ Histories(w, out, l) /\ Rewards(w, n, most)
  BY DEF Durable
<1>2. /\ WorldOk(v)
      /\ DOMAIN v.players = DOMAIN w.players
      /\ v.ops = w.ops /\ v.locks = w.locks /\ v.reserved = w.reserved
      /\ Eligible(v) \subseteq Eligible(w)
      /\ e.payload.type = "quantum" => v.clock = e.payload.occurrence
  BY <1>1, TimerEvent
<1>3. Sends(out, e) = out /\ Logged(l, e, v) = l /\ Paid(n, e) = n
  BY DEF Sends, Logged, Paid
<1>4. Places(v, out)
  BY <1>1, <1>2 DEF Places
<1>5. Histories(v, out, l)
  <2>1. \A q : HistoryOf(v, q) = HistoryOf(w, q)
    BY <1>2 DEF HistoryOf
  <2> QED BY <1>1, <1>2, <2>1 DEF Histories
<1>6. Rewards(v, n, most)
  BY <1>1, <1>2, RewardKept
<1> QED BY <1>2, <1>3, <1>4, <1>5, <1>6 DEF Durable

\* A handoff stage moves a player between the cells with its history.
LEMMA TransferLands ==
  ASSUME NEW w, NEW out, NEW l, NEW n, NEW most, Durable(w, out, l, n, most),
         NEW e, e.actor = NoActor, e.payload.type \in TransferTypes,
         e.payload.type = "quarantined" => \E p \in DOMAIN out : e.payload.pack = out[p],
         NEW v \in Apply(w, e)
  PROVE  /\ Durable(v, Sends(out, e), Logged(l, e, v), Paid(n, e), most)
         /\ e.payload.type \in {"prepared", "unlocked", "exported"} => v.reserved = w.reserved
         /\ e.payload.type = "quarantined" =>
              DOMAIN v.reserved = DOMAIN w.reserved \cup {e.payload.pack.player}
         /\ e.payload.type \in {"imported", "released"} =>
              /\ e.payload.pack.player \in DOMAIN w.reserved
              /\ DOMAIN v.reserved = DOMAIN w.reserved \ {e.payload.pack.player}
<1> DEFINE x == e.payload
           pack == e.payload.pack
           after == Sends(out, e)
<1>1. PICK u \in Effect(w, e) : v = Settled(u, e, w.seq + 1)
  BY DEF Apply, Recorded, Settled
<1>2. w.seq + 1 \in Nat
  BY DEF Durable, WorldOk
<1>3. Logged(l, e, v) = l /\ Paid(n, e) = n
  BY DEF Logged, Paid, TransferTypes
<1>4. /\ Durable(u, after, l, n, most)
      /\ x.type \in {"prepared", "unlocked", "exported"} => u.reserved = w.reserved
      /\ x.type = "quarantined" => DOMAIN u.reserved = DOMAIN w.reserved \cup {pack.player}
      /\ x.type \in {"imported", "released"} =>
           /\ pack.player \in DOMAIN w.reserved
           /\ DOMAIN u.reserved = DOMAIN w.reserved \ {pack.player}
  <2>1. CASE x.type = "prepared"
    <3>1. u \in StageLock(w, pack) /\ after = out
      BY <2>1 DEF Effect, Sends
    <3> QED BY <2>1, <3>1, LockStage
  <2>2. CASE x.type = "unlocked"
    <3>1. u \in StageUnlock(w, pack) /\ after = out
      BY <2>2 DEF Effect, Sends
    <3> QED BY <2>2, <3>1, LockStage
  <2>3. CASE x.type = "exported"
    <3>1. u \in StageExport(w, pack) /\ after = Put(out, pack.player, Sent(pack))
      BY <2>3 DEF Effect, Sends
    <3>2. /\ Durable(u, Put(out, pack.player, Sent(pack)), l, n, most)
          /\ u.reserved = w.reserved
      BY <3>1, ExportStage
    <3> QED BY <2>3, <3>1, <3>2
  <2>4. CASE x.type = "quarantined"
    <3>1. u \in StageQuarantine(w, pack) /\ after = out
      BY <2>4 DEF Effect, Sends
    <3>2. PICK p \in DOMAIN out : pack = out[p]
      BY <2>4
    <3>3. pack.player = p
      BY <3>2 DEF Durable, Places, PackOk
    <3>4. Durable(u, out, l, n, most) /\ DOMAIN u.reserved = DOMAIN w.reserved \cup {p}
      BY <3>1, <3>2, QuarantineStage
    <3> QED BY <2>4, <3>1, <3>3, <3>4
  <2>5. CASE x.type = "imported"
    <3>1. u \in StageImport(w, pack) /\ after = Drop(out, pack.player)
      BY <2>5 DEF Effect, Sends
    <3>2. /\ Durable(u, Drop(out, pack.player), l, n, most)
          /\ pack.player \in DOMAIN w.reserved
          /\ DOMAIN u.reserved = DOMAIN w.reserved \ {pack.player}
      BY <3>1, ImportStage
    <3> QED BY <2>5, <3>1, <3>2
  <2>6. CASE x.type = "released"
    <3>1. u \in StageRelease(w, pack) /\ after = out
      BY <2>6 DEF Effect, Sends
    <3>2. /\ Durable(u, out, l, n, most)
          /\ pack.player \in DOMAIN w.reserved
          /\ DOMAIN u.reserved = DOMAIN w.reserved \ {pack.player}
      BY <3>1, ReleaseStage
    <3> QED BY <2>6, <3>1, <3>2
  <2> QED BY <2>1, <2>2, <2>3, <2>4, <2>5, <2>6 DEF TransferTypes
<1>5. Durable(v, after, l, n, most)
  <2> HIDE DEF after
  <2> QED BY <1>1, <1>2, <1>4, SettledDurable
<1>6. v.reserved = u.reserved
  BY <1>1, <1>2, <1>4, SettledKeeps DEF Durable
<1> QED BY <1>3, <1>4, <1>5, <1>6

-----------------------------------------------------------------------------
(* The stages of the single thread. *)

Running == stage \notin {"halted", "down"}
Most == Cardinality(Eligible(Setting.world))

(* Life support runs in an advance only; a package is quarantined from its *)
(* arrival until it is resolved, and nothing else happens in between.      *)
CalmAt(at, rest, w) ==
    /\ at \in Stages
    /\ at # "advance" => rest = << >>
    /\ at \in {"idle", "advance", "crossing", "leaving"} => DOMAIN w.reserved = {}
    /\ at = "arriving" => \E p \in DOMAIN w.reserved : DOMAIN w.reserved = {p}

(* Every receipt handed out names the event that carries the operation.    *)
Answer(a, l) ==
    /\ a.player \in Players
    /\ a.op \in 1..Len(l[a.player])
    /\ l[a.player][a.op] = [op |-> a.op, cell |-> a.cell, event |-> a.event]
AnswersTrue == \A a \in answered : Answer(a, log)

(* In memory and on disk is the same world while the cell runs.            *)
EngineInv ==
    /\ scenario \in DOMAIN Scenarios
    /\ disk = [world |-> disk.world, next |-> disk.next]
    /\ Running => disk = [world |-> world, next |-> next]
    /\ CalmAt(stage, todo, world)
    /\ WorldOk(world)
    /\ Durable(disk.world, outside, log, prizes, Most)
    /\ AnswersTrue
    /\ ArmedIffRunnable

(* What a handler submits, by the stage it runs in.                        *)
FromClient(s) ==
    /\ stage = "idle" /\ s.event.actor # NoActor
    /\ s.event.print.type = "control" => s.event.print.input \in Nat
    /\ s.then = "idle" /\ s.refused = "idle" /\ s.todo = << >>
FromAdvance(s) ==
    /\ stage \in {"idle", "advance"} /\ s.event.actor = NoActor
    /\ s.event.payload.type \in {"physics", "oxygen", "death"}
    /\ s.then = "advance" /\ s.refused = "halted"
FromProduction(s) ==
    /\ stage \in {"advance", "activating"} /\ s.event.actor = NoActor
    /\ s.event.payload.type = "quantum" /\ s.event.payload.occurrence = next
    /\ s.then = stage /\ s.refused \in {"halted", "down"} /\ s.todo = << >>
FromHandoff(s) ==
    /\ s.event.actor = NoActor /\ s.todo = << >>
    /\ \/ /\ stage = "crossing" /\ s.event.payload.type = "prepared"
          /\ s.then = "leaving" /\ s.refused = "halted"
       \/ /\ stage = "leaving" /\ s.event.payload.type \in {"exported", "unlocked"}
          /\ s.then = "onward" /\ s.refused = "halted"
       \/ /\ stage = "arriving" /\ s.event.payload.type \in {"imported", "released"}
          /\ s.then = "idle" /\ s.refused = "halted"
       \/ /\ stage = "reconcile"
          /\ s.event.payload.type \in {"exported", "unlocked", "imported", "released"}
          /\ s.then = "reconcile" /\ s.refused = "down"
       \/ /\ stage = "idle" /\ s.event.payload.type = "quarantined"
          /\ \E p \in DOMAIN outside : s.event.payload.pack = outside[p]
          /\ s.then = "arriving" /\ s.refused = "idle"
FromNobody(s) ==
    /\ Running /\ s.event.actor = NoActor /\ s.event.payload.type = "unprepared"
    /\ s.refused \in {"halted", "down"}

Submitted(s) ==
    FromClient(s) \/ FromAdvance(s) \/ FromProduction(s) \/ FromHandoff(s) \/ FromNobody(s)

\* What the handlers submit is of one of these kinds.
LEMMA SubmittedBy ==
  ASSUME EngineInv, NEW s \in Submissions
  PROVE  Submitted(s)
<1>1. CASE s \in PhysicsSteps
  <2>1. /\ stage = "idle"
        /\ \E steps, poses, places, kinds :
             s = Submission(SystemEvent(Outcome(steps, poses, places, kinds)),
                            "advance", "halted", Roster)
    BY <1>1 DEF PhysicsSteps, EachFrom
  <2>2. PICK steps, poses, places, kinds :
             s = Submission(SystemEvent(Outcome(steps, poses, places, kinds)),
                            "advance", "halted", Roster)
    BY <2>1
  <2>3. Outcome(steps, poses, places, kinds).type = "physics"
    BY DEF Outcome
  <2> QED BY <2>1, <2>2, <2>3 DEF Submission, SystemEvent, Submitted, FromAdvance
<1>2. CASE s \in LifeSupport
  <2>1. PICK k \in DOMAIN todo : \E x \in LifeSupportPayload(world, todo[k]) :
          s = Submission(SystemEvent(x), "advance", "halted", SubSeq(todo, k + 1, Len(todo)))
    BY <1>2 DEF LifeSupport
  <2>2. stage = "advance"
    BY <2>1 DEF EngineInv, CalmAt
  <2>3. \A x \in LifeSupportPayload(world, todo[k]) : x.type \in {"oxygen", "death"}
    BY DEF LifeSupportPayload, IncapacitationPayload, When
  <2> QED BY <2>1, <2>2, <2>3 DEF Submission, SystemEvent, Submitted, FromAdvance
<1>3. CASE s \in Production
  <2>1. /\ stage \in {"advance", "activating"}
        /\ \E e \in EventsOf(QuantumPayload(world, next)) :
             s = Submission(e, stage, IF stage = "advance" THEN "halted" ELSE "down", << >>)
    BY <1>3 DEF Production
  <2>2. PICK e \in EventsOf(QuantumPayload(world, next)) :
             s = Submission(e, stage, IF stage = "advance" THEN "halted" ELSE "down", << >>)
    BY <2>1
  <2>3. e = Unprepared \/ \E x \in QuantumPayload(world, next) : e = SystemEvent(x)
    BY DEF EventsOf
  <2>4. \A x \in QuantumPayload(world, next) : x.type = "quantum" /\ x.occurrence = next
    BY DEF QuantumPayload
  <2> QED BY <2>1, <2>2, <2>3, <2>4
        DEF Submission, SystemEvent, Unprepared, Submitted, FromProduction, FromNobody, Running
<1>4. CASE s \in Resolutions
  <2>1. \/ /\ stage = "leaving"
           /\ \E x : /\ x.type \in {"exported", "unlocked"}
                     /\ s = Submission(SystemEvent(x), "onward", "halted", << >>)
        \/ /\ stage = "arriving"
           /\ \E x : /\ x.type \in {"imported", "released"}
                     /\ s = Submission(SystemEvent(x), "idle", "halted", << >>)
        \/ /\ stage = "reconcile"
           /\ \E x : /\ x.type \in {"exported", "unlocked", "imported", "released"}
                     /\ s = Submission(SystemEvent(x), "reconcile", "down", << >>)
    BY <1>4 DEF Resolutions, Transfer
  <2> QED BY <2>1 DEF Submission, SystemEvent, Submitted, FromHandoff
<1>5. CASE s \in Arrivals
  <2>1. PICK p \in DOMAIN outside :
          s = Submission(SystemEvent(Transfer("quarantined", outside[p])), "arriving", "idle", << >>)
    BY <1>5 DEF Arrivals
  <2>2. stage = "idle"
    BY <1>5 DEF Arrivals
  <2> QED BY <2>1, <2>2 DEF Submission, SystemEvent, Transfer, Submitted, FromHandoff
<1>6. CASE s \in Intents
  <2>1. /\ stage = "idle"
        /\ \E intent \in Setting.intents :
             \E e \in Prepare(world, intent[1], NextOp(intent[1]), intent[2]) :
               s = Submission(e, "idle", "idle", << >>)
    BY <1>6 DEF Intents
  <2>2. PICK intent \in Setting.intents :
             \E e \in Prepare(world, intent[1], NextOp(intent[1]), intent[2]) :
               s = Submission(e, "idle", "idle", << >>)
    BY <2>1
  <2>3. PICK e \in Prepare(world, intent[1], NextOp(intent[1]), intent[2]) :
               s = Submission(e, "idle", "idle", << >>)
    BY <2>2
  <2>4. e.actor = intent[1] /\ e.print = intent[2] /\ intent[1] \in DOMAIN world.players
    BY DEF Prepare
  <2>5. disk.world = world
    BY <2>1 DEF EngineInv, Running
  <2>6. e.actor \in Players
    BY <2>4, <2>5 DEF EngineInv, Durable, Places
  <2>7. e.print.type = "control" => e.print.input \in Nat
    BY <2>4, ScenariosAssumption DEF EngineInv, Setting
  <2>8. e.actor # NoActor
    BY <2>6, RosterAssumption
  <2> QED BY <2>1, <2>3, <2>7, <2>8 DEF Submission, Submitted, FromClient
<1>7. CASE s \in Departures
  <2>1. /\ stage = "crossing"
        /\ \E p \in Crossers(world) :
             \E e \in EventsOf(When(CanPack(world, p), Transfer("prepared", Closure(world, p)))) :
               s = Submission(e, "leaving", "halted", << >>)
    BY <1>7 DEF Departures
  <2>2. PICK p \in Crossers(world) :
             \E e \in EventsOf(When(CanPack(world, p), Transfer("prepared", Closure(world, p)))) :
               s = Submission(e, "leaving", "halted", << >>)
    BY <2>1
  <2>3. PICK e \in EventsOf(When(CanPack(world, p), Transfer("prepared", Closure(world, p)))) :
               s = Submission(e, "leaving", "halted", << >>)
    BY <2>2
  <2>4. e = Unprepared \/ e = SystemEvent(Transfer("prepared", Closure(world, p)))
    BY DEF EventsOf, When
  <2> QED BY <2>1, <2>3, <2>4
        DEF Submission, SystemEvent, Transfer, Unprepared, Submitted, FromHandoff, FromNobody, Running
<1> QED BY <1>1, <1>2, <1>3, <1>4, <1>5, <1>6, <1>7 DEF Submissions

Then(s, w) == IF s.then = "onward" THEN Onward(w) ELSE s.then

\* The occurrence an event leaves is there exactly while a machine can move,
\* and only the quantum itself or a standstill replaces one (resulting_next).
LEMMA NextFollows ==
  ASSUME ArmedIffRunnable, NEW v, WorldOk(v), NEW e, NEW n \in ResultingNext(v, e),
         e.payload.type = "quantum" => v.clock = next
  PROVE  /\ (n # None) = Runnable(v)
         /\ next = None \/ n \in {None, next} \/ v.clock = next
<1> DEFINE Arm(at) == [seq |-> v.clock.seq + 1, at |-> at]
<1>1. \A at : Arm(at) # None
  BY DEF WorldOk, None
<1>2. next # None <=> Runnable(world)
  BY DEF ArmedIffRunnable
<1>3. n \in IF ~Runnable(v) THEN {None}
            ELSE IF e.payload.type = "quantum" THEN {Arm(e.payload.occurrence.at + 1)}
            ELSE IF Runnable(world) THEN {next} \ {None}
            ELSE {Arm(Max({now + 1, v.clock.at + 1}))}
  BY DEF ResultingNext
<1> HIDE DEF Arm
<1>4. CASE ~Runnable(v)
  <2>1. n = None /\ Runnable(v) \in BOOLEAN
    BY <1>3, <1>4 DEF Runnable
  <2> QED BY <1>4, <2>1
<1>5. CASE Runnable(v) /\ e.payload.type = "quantum"
  BY <1>1, <1>3, <1>5
<1>6. CASE Runnable(v) /\ e.payload.type # "quantum" /\ Runnable(world)
  BY <1>3, <1>6
<1>7. CASE Runnable(v) /\ e.payload.type # "quantum" /\ ~Runnable(world)
  BY <1>1, <1>2, <1>3, <1>7
<1> QED BY <1>4, <1>5, <1>6, <1>7

\* Where the thread goes when it is done with the players who left.
LEMMA OnwardCalm ==
  ASSUME NEW w, DOMAIN w.reserved = {}
  PROVE  CalmAt(Onward(w), << >>, w)
BY DEF CalmAt, Onward, Stages

\* What a submitted event leaves in the journal, and where the thread goes
\* (the commit path of the runtime).
LEMMA Lands ==
  ASSUME EngineInv, NEW s \in Submissions, NEW c \in Outcomes(s.event)
  PROVE  /\ Running
         /\ c = [world |-> c.world, next |-> c.next]
         /\ Durable(c.world, Sends(outside, s.event), Logged(log, s.event, c.world),
                    Paid(prizes, s.event), Most)
         /\ (c.next # None) = Runnable(c.world)
         /\ next = None \/ c.next \in {None, next} \/ c.world.clock = next
         /\ CalmAt(Then(s, c.world), s.todo, c.world)
         /\ s.event.actor # NoActor =>
              /\ s.event.actor \in Players /\ s.event.op = Len(log[s.event.actor]) + 1
              /\ s.event.op \in Nat /\ c.world.seq \in Nat
<1> DEFINE e == s.event
           v == c.world
<1>1. /\ c = [world |-> c.world, next |-> c.next]
      /\ v \in Apply(world, e) /\ c.next \in ResultingNext(v, e)
  BY DEF Outcomes
<1>2. Submitted(s)
  BY SubmittedBy
<1>3. Running
  BY <1>2 DEF Submitted, FromClient, FromAdvance, FromProduction, FromHandoff, FromNobody, Running
<1>4. /\ disk.world = world /\ Durable(world, outside, log, prizes, Most)
      /\ CalmAt(stage, todo, world) /\ ArmedIffRunnable
  BY <1>3 DEF EngineInv
<1> HIDE DEF v, e
<1> DEFINE Good == Durable(v, Sends(outside, e), Logged(log, e, v), Paid(prizes, e), Most)
           Calm == CalmAt(Then(s, v), s.todo, v)
           Op == e.actor # NoActor => /\ e.actor \in Players /\ e.op = Len(log[e.actor]) + 1
                                      /\ e.op \in Nat /\ v.seq \in Nat
<1>5. Good /\ Calm /\ Op /\ (e.payload.type = "quantum" => v.clock = next)
  <2>1. CASE FromClient(s)
    <3>1. stage = "idle" /\ e.actor # NoActor /\ (e.print.type = "control" => e.print.input \in Nat)
      BY <2>1 DEF FromClient, e
    <3>2. Good /\ Op /\ v.reserved = world.reserved
      BY <1>1, <1>4, <3>1, RulesAssumption, HumanLands DEF e
    <3>3. Calm
      BY <1>4, <2>1, <3>2 DEF FromClient, CalmAt, Then
    <3>4. e.payload.type # "quantum"
      BY <1>1, <3>1 DEF Apply, Envelope, HumanTypes, e
    <3> QED BY <3>2, <3>3, <3>4
  <2>2. CASE FromAdvance(s)
    <3>1. e.actor = NoActor /\ e.payload.type \in {"physics", "oxygen", "death"}
      BY <2>2 DEF FromAdvance, e
    <3>2. Good /\ v.reserved = world.reserved
      BY <1>1, <1>4, <3>1, RulesAssumption, TimerLands DEF e
    <3>3. Calm
      BY <1>4, <2>2, <3>2 DEF FromAdvance, CalmAt, Then, Stages
    <3> QED BY <3>1, <3>2, <3>3
  <2>3. CASE FromProduction(s)
    <3>1. e.actor = NoActor /\ e.payload.type = "quantum" /\ e.payload.occurrence = next
      BY <2>3 DEF FromProduction, e
    <3>2. Good /\ v.reserved = world.reserved /\ v.clock = next
      BY <1>1, <1>4, <3>1, RulesAssumption, TimerLands DEF e
    <3>3. Calm
      BY <1>4, <2>3, <3>2 DEF FromProduction, CalmAt, Then, Stages
    <3> QED BY <3>1, <3>2, <3>3
  <2>4. CASE FromHandoff(s)
    <3>1. /\ e.actor = NoActor /\ e.payload.type \in TransferTypes
          /\ e.payload.type = "quarantined" => \E p \in DOMAIN outside : e.payload.pack = outside[p]
      BY <2>4 DEF FromHandoff, TransferTypes, e
    <3>2. /\ Good
          /\ e.payload.type \in {"prepared", "unlocked", "exported"} => v.reserved = world.reserved
          /\ e.payload.type = "quarantined" =>
              DOMAIN v.reserved = DOMAIN world.reserved \cup {e.payload.pack.player}
          /\ e.payload.type \in {"imported", "released"} =>
              /\ e.payload.pack.player \in DOMAIN world.reserved
              /\ DOMAIN v.reserved = DOMAIN world.reserved \ {e.payload.pack.player}
      BY <1>1, <1>4, <3>1, TransferLands DEF e
    <3>3. s.todo = << >>
      BY <2>4 DEF FromHandoff
    <3>4. Calm
      <4>1. CASE stage = "crossing"
        <5>1. DOMAIN v.reserved = {} /\ Then(s, v) = "leaving"
          BY <1>4, <2>4, <3>2, <4>1 DEF FromHandoff, CalmAt, Then, e
        <5> QED BY <3>3, <5>1 DEF CalmAt, Stages
      <4>2. CASE stage = "leaving"
        <5>1. DOMAIN v.reserved = {} /\ Then(s, v) = Onward(v)
          BY <1>4, <2>4, <3>2, <4>2 DEF FromHandoff, CalmAt, Then, e
        <5> QED BY <3>3, <5>1, OnwardCalm
      <4>3. CASE stage = "arriving"
        <5>1. e.payload.type \in {"imported", "released"} /\ Then(s, v) = "idle"
          BY <2>4, <4>3 DEF FromHandoff, Then, e
        <5>2. PICK p \in DOMAIN world.reserved : DOMAIN world.reserved = {p}
          BY <1>4, <4>3 DEF CalmAt
        <5>3. DOMAIN v.reserved = {}
          BY <3>2, <5>1, <5>2
        <5> QED BY <3>3, <5>1, <5>3 DEF CalmAt, Stages
      <4>4. CASE stage = "reconcile"
        <5>1. Then(s, v) = "reconcile"
          BY <2>4, <4>4 DEF FromHandoff, Then
        <5> QED BY <3>3, <5>1 DEF CalmAt, Stages
      <4>5. CASE stage = "idle"
        <5>1. e.payload.type = "quarantined" /\ Then(s, v) = "arriving"
          BY <2>4, <4>5 DEF FromHandoff, Then, e
        <5>2. DOMAIN v.reserved = {e.payload.pack.player}
          BY <1>4, <3>2, <4>5, <5>1 DEF CalmAt
        <5> QED BY <3>3, <5>1, <5>2 DEF CalmAt, Stages
      <4> QED BY <2>4, <4>1, <4>2, <4>3, <4>4, <4>5 DEF FromHandoff
    <3>5. e.payload.type # "quantum"
      BY <3>1 DEF TransferTypes
    <3> QED BY <3>1, <3>2, <3>4, <3>5
  <2>5. CASE FromNobody(s)
    <3>1. e.payload.type = "unprepared"
      BY <2>5 DEF FromNobody, e
    <3>2. Effect(world, e) = {}
      BY <3>1 DEF Effect
    <3> QED BY <1>1, <3>2 DEF Apply, e
  <2> QED BY <1>2, <2>1, <2>2, <2>3, <2>4, <2>5 DEF Submitted
<1>6. WorldOk(v)
  BY <1>5 DEF Durable
<1>7. /\ (c.next # None) = Runnable(v)
      /\ next = None \/ c.next \in {None, next} \/ v.clock = next
  BY <1>1, <1>4, <1>5, <1>6, NextFollows DEF e
<1> QED BY <1>1, <1>3, <1>5, <1>7 DEF v, e

\* The cell starts at rest.
LEMMA EngineInit ==
  ASSUME Init PROVE EngineInv
<1> DEFINE w == Setting.world
<1>1. AtRest(w) /\ world = w /\ scenario \in DOMAIN Scenarios
  BY ScenariosAssumption DEF Init, Setting
<1>2. /\ disk = [world |-> world, next |-> None] /\ next = None /\ outside = << >>
      /\ prizes = 0 /\ answered = {} /\ log = [p \in Players |-> << >>] /\ stage = "idle"
      /\ todo = << >>
  BY DEF Init
<1> HIDE DEF w
<1>3. WorldOk(w)
  <2>1. \A p \in DOMAIN w.players : PlayerOk(w.players[p], w.tick)
    <3> SUFFICES ASSUME NEW p \in DOMAIN w.players PROVE PlayerOk(w.players[p], w.tick)
      OBVIOUS
    <3> DEFINE q == w.players[p]
    <3>1. /\ DOMAIN q = PlayerFields /\ q.received \in Nat /\ q.processed = q.received
          /\ q.pending = << >> /\ q.control = 0
      BY <1>1 DEF AtRest
    <3> HIDE DEF q
    <3>2. PlayerOk(q, w.tick)
      BY <3>1, RestingOk
    <3> QED BY <3>2 DEF q
  <2>2. w.clock.seq \in Nat
    BY <1>1 DEF AtRest, None
  <2> QED BY <1>1, <2>1, <2>2 DEF AtRest, WorldOk
<1>4. Places(w, << >>)
  BY <1>1 DEF AtRest, Places
<1>5. Histories(w, << >>, log)
  <2>1. log \in [Players -> Seq(Entry)] /\ \A p \in Players : log[p] = << >>
    BY <1>2
  <2>2. LogOk(log)
    BY <2>1 DEF LogOk
  <2>3. \A p : HistoryOf(w, p) = NoHistory
    BY <1>1 DEF AtRest, HistoryOf
  <2>4. Fits(NoHistory, << >>)
    BY DEF Fits, NoHistory
  <2>5. \A p \in DOMAIN w.players : p \in Players
    BY <1>1 DEF AtRest
  <2> QED BY <2>1, <2>2, <2>3, <2>4, <2>5 DEF Histories
<1>6. Rewards(w, 0, Most)
  <2>1. IsFiniteSet(DOMAIN w.grids) /\ Eligible(w) \subseteq DOMAIN w.grids
    BY <1>1 DEF AtRest, Eligible
  <2>2. IsFiniteSet(Eligible(w))
    BY <2>1, FS_Subset
  <2>3. Cardinality(Eligible(w)) \in Nat /\ Most = Cardinality(Eligible(w))
    BY <2>2, FS_CardinalityType DEF Most, w
  <2> QED BY <2>2, <2>3 DEF Rewards
<1>7. Durable(disk.world, outside, log, prizes, Most)
  BY <1>1, <1>2, <1>3, <1>4, <1>5, <1>6 DEF Durable
<1>8. Runnable(w) = FALSE
  BY <1>1 DEF AtRest, Runnable
<1>9. ArmedIffRunnable
  <2> SUFFICES ASSUME NEW c \in {[world |-> world, next |-> next], disk}
               PROVE  (c.next # None) = Runnable(c.world)
    BY DEF ArmedIffRunnable
  <2>1. c.next = None /\ c.world = w
    BY <1>1, <1>2
  <2> QED BY <1>8, <2>1
<1>10. CalmAt(stage, todo, world)
  BY <1>1, <1>2 DEF CalmAt, Stages, AtRest
<1>11. AnswersTrue
  BY <1>2 DEF AnswersTrue
<1> QED BY <1>1, <1>2, <1>3, <1>7, <1>9, <1>10, <1>11 DEF EngineInv, Running

-----------------------------------------------------------------------------
(* The steps. *)

\* Receipts stay true as the log grows, and a client's receipt names the entry
\* its event has made.
LEMMA AnswersGrow ==
  ASSUME LogOk(log), NEW e, NEW v,
         e.actor # NoActor => /\ e.actor \in Players /\ e.op = Len(log[e.actor]) + 1
                              /\ e.op \in Nat /\ v.seq \in Nat
  PROVE  /\ \A a : Answer(a, log) => Answer(a, Logged(log, e, v))
         /\ e.actor # NoActor =>
              Answer([player |-> e.actor, op |-> e.op, cell |-> "here", event |-> v.seq],
                     Logged(log, e, v))
<1>1. CASE e.actor = NoActor
  BY <1>1 DEF Logged
<1>2. CASE e.actor # NoActor
  <2> DEFINE p == e.actor
             new == [op |-> e.op, cell |-> "here", event |-> v.seq]
             m == [log EXCEPT ![p] = Append(@, new)]
             r == [player |-> p, op |-> e.op, cell |-> "here", event |-> v.seq]
  <2>1. p \in Players /\ new \in Entry /\ new.op = Len(log[p]) + 1
    BY <1>2 DEF Entry
  <2>2. Logged(log, e, v) = m
    BY <1>2 DEF Logged
  <2>3. log[p] \in Seq(Entry) /\ Len(log[p]) \in Nat /\ e.op = Len(log[p]) + 1
    BY <1>2, <2>1 DEF LogOk
  <2>4. r.player = p /\ r.op = e.op /\ new = [op |-> r.op, cell |-> r.cell, event |-> r.event]
    OBVIOUS
  <2> HIDE DEF new
  <2>5. /\ LogOk(m) /\ m[p] = Append(log[p], new)
        /\ \A q \in Players : \A k \in 1..Len(log[q]) :
                 k \in 1..Len(m[q]) /\ m[q][k] = log[q][k]
    BY <2>1, LogGrows
  <2> HIDE DEF m
  <2>6. ASSUME NEW a, Answer(a, log)
        PROVE  Answer(a, m)
    <3>1. a.player \in Players /\ a.op \in 1..Len(log[a.player])
      BY <2>6 DEF Answer
    <3>2. a.op \in 1..Len(m[a.player]) /\ m[a.player][a.op] = log[a.player][a.op]
      BY <2>5, <3>1
    <3> QED BY <2>6, <3>1, <3>2 DEF Answer
  <2>7. e.op \in 1..Len(m[p]) /\ m[p][e.op] = new
    BY <2>3, <2>5, <2>1
  <2>8. Answer(r, m)
    <3> HIDE DEF r
    <3> QED BY <2>1, <2>4, <2>7 DEF Answer
  <2> QED BY <2>2, <2>6, <2>8
<1> QED BY <1>1, <1>2

\* The durable part of a step in which an event landed.
LEMMA LandedIs ==
  ASSUME NEW s, NEW c, Landed(s.event, c)
  PROVE  /\ disk' = c /\ outside' = Sends(outside, s.event)
         /\ log' = Logged(log, s.event, c.world) /\ prizes' = Paid(prizes, s.event)
BY DEF Landed, Sends, Logged, Paid

(* What [](A)_vars of ActivityNeverPostpones says of a step.               *)
Kindly ==
    \/ disk.next = None
    \/ disk'.next \in {None, disk.next}
    \/ disk'.world.clock = disk.next

\* An event that commits.
LEMMA CommitStep ==
  ASSUME EngineInv, NEW s \in Submissions, NEW c \in Outcomes(s.event),
         Commits(s, c), scenario' = scenario
  PROVE  EngineInv' /\ Kindly
<1> DEFINE e == s.event
           v == c.world
           l == Logged(log, e, v)
           receipt == [player |-> e.actor, op |-> e.op, cell |-> "here", event |-> v.seq]
<1>1. /\ Running
      /\ c = [world |-> v, next |-> c.next]
      /\ Durable(v, Sends(outside, e), l, Paid(prizes, e), Most)
      /\ (c.next # None) = Runnable(v)
      /\ next = None \/ c.next \in {None, next} \/ v.clock = next
      /\ CalmAt(Then(s, v), s.todo, v)
      /\ e.actor # NoActor => /\ e.actor \in Players /\ e.op = Len(log[e.actor]) + 1
                              /\ e.op \in Nat /\ v.seq \in Nat
  BY Lands
<1>2. /\ world' = v /\ next' = c.next /\ Landed(e, c)
      /\ answered' = IF e.actor = NoActor THEN answered ELSE answered \cup {receipt}
      /\ stage' = Then(s, v) /\ todo' = s.todo
  BY DEF Commits, Then
<1>3. /\ disk' = c /\ outside' = Sends(outside, e) /\ log' = l /\ prizes' = Paid(prizes, e)
  BY <1>2, LandedIs
<1>4. disk = [world |-> world, next |-> next] /\ LogOk(log)
  BY <1>1 DEF EngineInv, Durable, Histories
<1>5. /\ \A a : Answer(a, log) => Answer(a, l)
      /\ e.actor # NoActor => Answer(receipt, l)
  BY <1>1, <1>4, AnswersGrow
<1> HIDE DEF e, v, l, receipt
<1>6. \A a \in answered' : Answer(a, log')
  BY <1>2, <1>3, <1>5 DEF EngineInv, AnswersTrue
<1>7. Most' = Most /\ scenario' \in DOMAIN Scenarios
  BY DEF EngineInv, Most, Setting
<1>8. Durable(disk'.world, outside', log', prizes', Most')
  BY <1>1, <1>3, <1>7 DEF v
<1>9. WorldOk(world')
  BY <1>1, <1>2 DEF Durable
<1>10. disk' = [world |-> world', next |-> next']
  BY <1>1, <1>2, <1>3
<1>11. ArmedIffRunnable'
  BY <1>1, <1>2, <1>3, <1>10 DEF ArmedIffRunnable, v
<1>12. EngineInv'
  BY <1>1, <1>2, <1>3, <1>6, <1>7, <1>8, <1>9, <1>10, <1>11 DEF EngineInv, AnswersTrue
<1>13. Kindly
  BY <1>1, <1>3, <1>4 DEF Kindly, v
<1> QED BY <1>12, <1>13

\* A commit that fails: the event may be in the journal all the same.
LEMMA CommitFailStep ==
  ASSUME EngineInv, NEW s \in Submissions, NEW c \in Outcomes(s.event),
         CommitFails(s, c), scenario' = scenario
  PROVE  EngineInv' /\ Kindly
<1> DEFINE e == s.event
           v == c.world
           l == Logged(log, e, v)
<1>1. /\ Running
      /\ c = [world |-> v, next |-> c.next]
      /\ Durable(v, Sends(outside, e), l, Paid(prizes, e), Most)
      /\ (c.next # None) = Runnable(v)
      /\ next = None \/ c.next \in {None, next} \/ v.clock = next
      /\ e.actor # NoActor => /\ e.actor \in Players /\ e.op = Len(log[e.actor]) + 1
                              /\ e.op \in Nat /\ v.seq \in Nat
  BY Lands
<1>2. /\ world' = world /\ next' = next /\ answered' = answered /\ todo' = << >>
      /\ stage' \in {"halted", "down"}
      /\ Landed(e, c) \/ UNCHANGED <<disk, log, prizes, outside>>
  BY DEF CommitFails
<1>3. Most' = Most /\ scenario' \in DOMAIN Scenarios
  BY DEF EngineInv, Most, Setting
<1>4. disk = [world |-> world, next |-> next] /\ LogOk(log)
  BY <1>1 DEF EngineInv, Durable, Histories
<1>5. CalmAt(stage', todo', world') /\ ~Running'
  BY <1>2 DEF CalmAt, Stages, Running
<1>6. /\ Durable(disk'.world, outside', log', prizes', Most')
      /\ AnswersTrue' /\ ArmedIffRunnable' /\ Kindly
  <2>1. CASE Landed(e, c)
    <3>1. /\ disk' = c /\ outside' = Sends(outside, e) /\ log' = l /\ prizes' = Paid(prizes, e)
      BY <2>1, LandedIs
    <3>2. \A a : Answer(a, log) => Answer(a, l)
      BY <1>1, <1>4, AnswersGrow
    <3> HIDE DEF e, v, l
    <3>3. AnswersTrue'
      BY <1>2, <3>1, <3>2 DEF EngineInv, AnswersTrue
    <3>4. Durable(disk'.world, outside', log', prizes', Most')
      BY <1>1, <1>3, <3>1 DEF v
    <3>5. ArmedIffRunnable'
      BY <1>1, <1>2, <3>1 DEF EngineInv, ArmedIffRunnable, v
    <3>6. Kindly
      BY <1>1, <1>4, <3>1 DEF Kindly, v
    <3> QED BY <3>3, <3>4, <3>5, <3>6
  <2>2. CASE UNCHANGED <<disk, log, prizes, outside>>
    <3>1. Durable(disk'.world, outside', log', prizes', Most')
      BY <1>3, <2>2 DEF EngineInv
    <3>2. AnswersTrue' /\ ArmedIffRunnable'
      BY <1>2, <2>2 DEF EngineInv, AnswersTrue, ArmedIffRunnable
    <3>3. Kindly
      BY <2>2 DEF Kindly
    <3> QED BY <3>1, <3>2, <3>3
  <2> QED BY <1>2, <2>1, <2>2
<1>7. WorldOk(world')
  BY <1>2 DEF EngineInv
<1>8. disk' = [world |-> disk'.world, next |-> disk'.next]
  BY <1>1, <1>2 DEF Landed, EngineInv
<1> QED BY <1>3, <1>5, <1>6, <1>7, <1>8 DEF EngineInv

\* What a step that lands nothing keeps.
LEMMA UntouchedKept ==
  ASSUME EngineInv, scenario' = scenario, UNCHANGED <<canonical, outside, log, prizes>>,
         Running' => Running, CalmAt(stage', todo', world), AnswersTrue'
  PROVE  EngineInv' /\ Kindly
<1>1. Most' = Most /\ scenario' \in DOMAIN Scenarios
  BY DEF EngineInv, Most, Setting
<1>2. /\ world' = world /\ next' = next /\ disk' = disk /\ outside' = outside
      /\ log' = log /\ prizes' = prizes
  BY DEF canonical
<1>3. Durable(disk'.world, outside', log', prizes', Most')
  BY <1>1, <1>2 DEF EngineInv
<1>4. ArmedIffRunnable'
  BY <1>2 DEF EngineInv, ArmedIffRunnable
<1>5. /\ Running' => disk' = [world |-> world', next |-> next']
      /\ disk' = [world |-> disk'.world, next |-> disk'.next]
  BY <1>2 DEF EngineInv
<1>6. CalmAt(stage', todo', world') /\ WorldOk(world')
  BY <1>2 DEF EngineInv
<1>7. Kindly
  BY <1>2 DEF Kindly
<1> QED BY <1>1, <1>3, <1>4, <1>5, <1>6, <1>7 DEF EngineInv

\* A refused event.
LEMMA RefuseStep ==
  ASSUME EngineInv, NEW s \in Submissions, Refuses(s), scenario' = scenario
  PROVE  EngineInv' /\ Kindly
<1>1. \/ s.refused \in {"halted", "down"}
      \/ s.refused = "idle" /\ stage = "idle"
  BY SubmittedBy
     DEF Submitted, FromClient, FromAdvance, FromProduction, FromHandoff, FromNobody
<1>2. /\ stage' = s.refused /\ todo' = << >> /\ answered' = answered
      /\ UNCHANGED <<canonical, outside, log, prizes>>
  BY DEF Refuses
<1>3. CalmAt(stage', todo', world)
  BY <1>1, <1>2 DEF EngineInv, CalmAt, Stages
<1>4. AnswersTrue' /\ (Running' => Running)
  BY <1>1, <1>2 DEF EngineInv, AnswersTrue, Running
<1> QED BY <1>2, <1>3, <1>4, UntouchedKept

\* The receipt of a retained operation is the one it got (execute_as).
LEMMA RepeatStep ==
  ASSUME EngineInv, NEW p \in Players, NEW n, Repeat(p, n)
  PROVE  EngineInv' /\ Kindly
<1> DEFINE h == HistoryOf(world, p)
           a == [player |-> p, op |-> n, cell |-> h.retained[n].cell,
                 event |-> h.retained[n].event]
<1>1. /\ p \in DOMAIN world.players /\ n \in DOMAIN h.retained
      /\ answered' = answered \cup {a}
      /\ stage = "idle" /\ stage' = stage /\ todo' = todo /\ scenario' = scenario
      /\ UNCHANGED <<canonical, outside, log, prizes>>
  BY DEF Repeat
<1>2. Fits(h, log[p]) /\ LogOk(log)
  BY <1>1 DEF EngineInv, Running, Durable, Histories
<1>3. Answer(a, log)
  <2> HIDE DEF h
  <2>1. n \in 1..Len(log[p]) /\ a.cell = log[p][n].cell /\ a.event = log[p][n].event
    BY <1>1, <1>2 DEF Fits
  <2>2. log[p][n] \in Entry /\ log[p][n].op = n
    BY <1>2, <2>1 DEF LogOk
  <2>3. log[p][n] = [op |-> n, cell |-> log[p][n].cell, event |-> log[p][n].event]
    BY <2>2 DEF Entry
  <2>4. a.player = p /\ a.op = n
    OBVIOUS
  <2> HIDE DEF a
  <2> QED BY <2>1, <2>3, <2>4 DEF Answer
<1> HIDE DEF a, h
<1>4. AnswersTrue'
  BY <1>1, <1>3 DEF EngineInv, AnswersTrue
<1>5. CalmAt(stage', todo', world) /\ (Running' => Running)
  BY <1>1 DEF EngineInv, Running
<1> QED BY <1>1, <1>4, <1>5, UntouchedKept

\* The player acts in the other cell: its history and its log grow there.
LEMMA PlayStep ==
  ASSUME EngineInv, NEW p \in Players, PlayOutside(p)
  PROVE  EngineInv' /\ Kindly
<1> DEFINE n == outside[p].ops.committed + 1
           new == [op |-> n, cell |-> "beyond", event |-> n]
           record == [print |-> [type |-> "outside"], cell |-> "beyond", event |-> n]
           s == log[p]
           m == [log EXCEPT ![p] = Append(@, new)]
<1>1. /\ stage = "idle" /\ p \in DOMAIN outside
      /\ log' = m
      /\ UNCHANGED <<scenario, canonical, stage, todo, answered, prizes>>
  BY DEF PlayOutside
<1>2. PICK h \in RecordOperation(outside[p].ops, n, record) :
         outside' = [outside EXCEPT ![p].ops = h]
  BY DEF PlayOutside
<1> DEFINE w == disk.world
<1>3. /\ disk = [world |-> world, next |-> next] /\ DOMAIN w.reserved = {}
      /\ WorldOk(w) /\ Places(w, outside) /\ Histories(w, outside, log)
      /\ Rewards(w, prizes, Most)
  BY <1>1 DEF EngineInv, Running, CalmAt, Durable
<1>4. Fits(outside[p].ops, s) /\ LogOk(log) /\ s \in Seq(Entry) /\ Len(s) \in Nat
  <2>1. Fits(outside[p].ops, s) /\ LogOk(log)
    BY <1>1, <1>3 DEF Histories
  <2>2. s \in Seq(Entry)
    BY <2>1 DEF LogOk
  <2> QED BY <2>1, <2>2
<1>5. /\ n = Len(s) + 1 /\ new \in Entry /\ new.op = n
      /\ new.cell = record.cell /\ new.event = record.event
  <2>1. n = Len(s) + 1
    BY <1>4 DEF Fits
  <2> HIDE DEF n
  <2> QED BY <1>4, <2>1 DEF Entry
<1> HIDE DEF new, record, n
<1>6. Fits(h, Append(s, new))
  BY <1>2, <1>4, <1>5, RecordFits
<1>7. /\ LogOk(m) /\ m[p] = Append(s, new)
      /\ \A q \in Players : q # p => m[q] = log[q]
      /\ \A q \in Players : \A k \in 1..Len(log[q]) :
                 k \in 1..Len(m[q]) /\ m[q][k] = log[q][k]
  BY <1>4, <1>5, LogGrows
<1> DEFINE o == [outside EXCEPT ![p].ops = h]
<1>8. /\ DOMAIN o = DOMAIN outside /\ \A q \in DOMAIN outside : q # p => o[q] = outside[q]
      /\ PackOk(p, o[p]) /\ o[p].ops = h
  BY <1>1, <1>3 DEF Places, PackOk
<1> HIDE DEF m, o
<1>9. Histories(w, o, m)
  <2>1. \A q \in DOMAIN w.players : q # p /\ q \in Players
    BY <1>1, <1>3 DEF Places
  <2>2. ASSUME NEW q \in DOMAIN o
        PROVE  Fits(o[q].ops, m[q])
    <3>1. q \in DOMAIN outside /\ q \in Players
      BY <1>3, <1>8 DEF Places
    <3>2. CASE q = p
      BY <1>6, <1>7, <1>8, <3>2
    <3>3. CASE q # p
      <4>1. o[q] = outside[q] /\ m[q] = log[q]
        BY <1>7, <1>8, <3>1, <3>3
      <4> QED BY <1>3, <3>1, <4>1 DEF Histories
    <3> QED BY <3>2, <3>3
  <2> QED BY <1>3, <1>7, <2>1, <2>2 DEF Histories
<1>10. Places(w, o)
  BY <1>3, <1>8 DEF Places
<1>11. Most' = Most /\ scenario' \in DOMAIN Scenarios
  BY <1>1 DEF EngineInv, Most, Setting
<1>12. /\ world' = world /\ next' = next /\ disk' = disk /\ outside' = o
       /\ log' = m /\ prizes' = prizes
  BY <1>1, <1>2 DEF canonical, o
<1>13. Durable(disk'.world, outside', log', prizes', Most')
  BY <1>3, <1>9, <1>10, <1>11, <1>12 DEF Durable
<1>14. AnswersTrue'
  <2>1. ASSUME NEW a, Answer(a, log)
        PROVE  Answer(a, m)
    <3>1. a.player \in Players /\ a.op \in 1..Len(log[a.player])
      BY <2>1 DEF Answer
    <3>2. a.op \in 1..Len(m[a.player]) /\ m[a.player][a.op] = log[a.player][a.op]
      BY <1>7, <3>1
    <3> QED BY <2>1, <3>1, <3>2 DEF Answer
  <2> QED BY <1>1, <1>12, <2>1 DEF EngineInv, AnswersTrue
<1>15. ArmedIffRunnable' /\ Kindly
  BY <1>12 DEF EngineInv, ArmedIffRunnable, Kindly
<1>16. /\ CalmAt(stage', todo', world') /\ WorldOk(world')
       /\ disk' = [world |-> world', next |-> next']
       /\ disk' = [world |-> disk'.world, next |-> disk'.next]
  BY <1>1, <1>3, <1>12 DEF EngineInv
<1> QED BY <1>11, <1>13, <1>14, <1>15, <1>16 DEF EngineInv

\* A reopen recovers what is durable.
LEMMA ReopenStep ==
  ASSUME EngineInv, Reopen
  PROVE  EngineInv' /\ Kindly
<1>1. /\ world' = disk.world /\ next' = disk.next /\ disk' = disk /\ stage' = "activating"
      /\ stage \in {"down", "halted"}
      /\ UNCHANGED <<scenario, todo, outside, log, answered, prizes>>
  BY DEF Reopen, ghosts
<1>2. Most' = Most /\ scenario' \in DOMAIN Scenarios
  BY <1>1 DEF EngineInv, Most, Setting
<1>3. Durable(disk'.world, outside', log', prizes', Most') /\ WorldOk(world')
  BY <1>1, <1>2 DEF EngineInv, Durable
<1>4. CalmAt(stage', todo', world')
  BY <1>1 DEF EngineInv, CalmAt, Stages
<1>5. AnswersTrue' /\ ArmedIffRunnable' /\ Kindly
  BY <1>1 DEF EngineInv, AnswersTrue, ArmedIffRunnable, Kindly
<1>6. /\ disk' = [world |-> world', next |-> next']
      /\ disk' = [world |-> disk'.world, next |-> disk'.next]
  BY <1>1 DEF EngineInv
<1> QED BY <1>2, <1>3, <1>4, <1>5, <1>6 DEF EngineInv

\* Every step keeps the invariant, and postpones no quantum.
LEMMA EngineStep ==
  ASSUME EngineInv, [Next]_vars
  PROVE  EngineInv' /\ Kindly
<1>1. ASSUME NEW s \in Submissions, Submit(s) PROVE EngineInv' /\ Kindly
  <2>1. scenario' = scenario
    BY <1>1 DEF Submit
  <2>2. \/ \E c \in Outcomes(s.event) : Commits(s, c) \/ CommitFails(s, c)
        \/ Refuses(s)
    BY <1>1 DEF Submit
  <2> QED BY <2>1, <2>2, CommitStep, CommitFailStep, RefuseStep
<1>2. ASSUME NEW p \in Players, NEW n, Repeat(p, n) PROVE EngineInv' /\ Kindly
  BY <1>2, RepeatStep
<1>3. CASE AdvanceAtRest
  <2>1. /\ stage = "idle" /\ stage' = "advance" /\ scenario' = scenario
        /\ UNCHANGED <<canonical, outside, log, answered, prizes>>
    BY <1>3 DEF AdvanceAtRest, ghosts
  <2>2. CalmAt(stage', todo', world) /\ AnswersTrue' /\ Running
    BY <2>1 DEF EngineInv, CalmAt, Stages, AnswersTrue, Running
  <2> QED BY <2>1, <2>2, UntouchedKept
<1>4. CASE EndAdvance
  <2>1. /\ stage = "advance" /\ stage' = Onward(world) /\ todo' = << >> /\ scenario' = scenario
        /\ UNCHANGED <<canonical, outside, log, answered, prizes>>
    BY <1>4 DEF EndAdvance, ghosts
  <2>2. CalmAt(stage', todo', world)
    BY <2>1, OnwardCalm DEF EngineInv, CalmAt
  <2>3. AnswersTrue' /\ Running
    BY <2>1 DEF EngineInv, AnswersTrue, Running
  <2> QED BY <2>1, <2>2, <2>3, UntouchedKept
<1>5. ASSUME NEW p \in Players, PlayOutside(p) PROVE EngineInv' /\ Kindly
  BY <1>5, PlayStep
<1>6. CASE Crash
  <2>1. /\ stage' = "down" /\ todo' = << >> /\ scenario' = scenario
        /\ UNCHANGED <<canonical, outside, log, answered, prizes>>
    BY <1>6 DEF Crash, ghosts
  <2>2. CalmAt(stage', todo', world) /\ AnswersTrue' /\ ~Running'
    BY <2>1 DEF EngineInv, CalmAt, Stages, AnswersTrue, Running
  <2> QED BY <2>1, <2>2, UntouchedKept
<1>7. CASE Reopen
  BY <1>7, ReopenStep
<1>8. CASE Activated
  <2>1. /\ stage = "activating" /\ stage' = "reconcile" /\ todo' = todo /\ scenario' = scenario
        /\ UNCHANGED <<canonical, outside, log, answered, prizes>>
    BY <1>8 DEF Activated, ghosts
  <2>2. CalmAt(stage', todo', world) /\ AnswersTrue' /\ Running
    BY <2>1 DEF EngineInv, CalmAt, Stages, AnswersTrue, Running
  <2> QED BY <2>1, <2>2, UntouchedKept
<1>9. CASE Reconciled
  <2>1. /\ stage = "reconcile" /\ stage' = "idle" /\ todo' = todo /\ scenario' = scenario
        /\ DOMAIN world.reserved = {}
        /\ UNCHANGED <<canonical, outside, log, answered, prizes>>
    BY <1>9 DEF Reconciled, ghosts
  <2>2. CalmAt(stage', todo', world) /\ AnswersTrue' /\ Running
    BY <2>1 DEF EngineInv, CalmAt, Stages, AnswersTrue, Running
  <2> QED BY <2>1, <2>2, UntouchedKept
<1>10. CASE Pass
  <2>1. /\ UNCHANGED <<scenario, canonical, stage, todo, outside, log, answered, prizes>>
    BY <1>10 DEF Pass, ghosts
  <2>2. CalmAt(stage', todo', world) /\ AnswersTrue' /\ (Running' => Running)
    BY <2>1 DEF EngineInv, AnswersTrue, Running
  <2> QED BY <2>1, <2>2, UntouchedKept
<1>11. CASE UNCHANGED vars
  <2>1. /\ UNCHANGED <<scenario, canonical, stage, todo, outside, log, answered, prizes>>
    BY <1>11 DEF vars, canonical
  <2>2. CalmAt(stage', todo', world) /\ AnswersTrue' /\ (Running' => Running)
    BY <2>1 DEF EngineInv, AnswersTrue, Running
  <2> QED BY <2>1, <2>2, UntouchedKept
<1> QED BY <1>1, <1>2, <1>3, <1>4, <1>5, <1>6, <1>7, <1>8, <1>9, <1>10, <1>11 DEF Next

-----------------------------------------------------------------------------
(* The properties. *)

\* The numbers of the frames a player has been sent, the last one taken first.
LEMMA InputsOrdered ==
  ASSUME NEW q, QueueOk(q)
  PROVE  LET inputs == <<q.processed>> \o [k \in DOMAIN q.pending |-> q.pending[k].input]
         IN /\ \A k \in 2..Len(inputs) : inputs[k - 1] < inputs[k]
            /\ Last(inputs) <= q.received
            /\ q.life = 0 => Last(inputs) = q.received
<1> DEFINE s == q.pending
           tail == [k \in DOMAIN s |-> s[k].input]
           inputs == <<q.processed>> \o tail
<1>1. /\ s \in Seq(Frames) /\ q.processed \in Nat /\ q.received \in Nat
      /\ q.processed <= q.received
      /\ \A k \in 1..Len(s) :
          /\ s[k].input <= q.received
          /\ IF k = 1 THEN q.processed < s[k].input ELSE s[k - 1].input < s[k].input
      /\ q.life = 0 => IF s = << >> THEN q.processed = q.received
                       ELSE s[Len(s)].input = q.received
  BY DEF QueueOk
<1>2. DOMAIN s = 1..Len(s) /\ Len(s) \in Nat /\ \A k \in 1..Len(s) : s[k].input \in Nat
  <2>1. DOMAIN s = 1..Len(s) /\ Len(s) \in Nat /\ \A k \in 1..Len(s) : s[k] \in Frames
    BY <1>1
  <2>2. \A f \in Frames : f.input \in Nat
    BY DEF Frames
  <2> HIDE DEF s
  <2> QED BY <2>1, <2>2
<1> HIDE DEF s
<1>3. tail \in Seq(Nat) /\ Len(tail) = Len(s) /\ \A k \in 1..Len(s) : tail[k] = s[k].input
  <2>1. tail = [k \in 1..Len(s) |-> s[k].input]
    BY <1>2
  <2>2. tail \in [1..Len(s) -> Nat]
    BY <1>2, <2>1
  <2> QED BY <1>2, <2>1, <2>2
<1> HIDE DEF tail
<1>4. <<q.processed>> \in Seq(Nat) /\ Len(<<q.processed>>) = 1 /\ <<q.processed>>[1] = q.processed
  BY <1>1
<1>5. /\ inputs \in Seq(Nat) /\ Len(inputs) = Len(s) + 1 /\ inputs[1] = q.processed
      /\ \A k \in 1..Len(s) : inputs[k + 1] = s[k].input
  BY <1>2, <1>3, <1>4
<1>6. Last(inputs) = inputs[Len(s) + 1]
  BY <1>5 DEF Last
<1> HIDE DEF inputs
<1>7. ASSUME NEW k \in 2..Len(inputs)
      PROVE  inputs[k - 1] < inputs[k]
  <2>1. k - 1 \in 1..Len(s) /\ inputs[k] = s[k - 1].input
    BY <1>2, <1>5
  <2>2. CASE k = 2
    BY <1>1, <1>5, <2>1, <2>2
  <2>3. CASE k # 2
    <3>1. k - 2 \in 1..Len(s) /\ inputs[k - 1] = s[k - 2].input /\ k - 1 # 1
      BY <1>2, <1>5, <2>1, <2>3
    <3>2. s[k - 2].input < s[k - 1].input
      BY <1>1, <2>1, <3>1
    <3> QED BY <2>1, <3>1, <3>2
  <2> QED BY <2>2, <2>3
<1>8. CASE s = << >>
  <2>1. Len(s) = 0
    BY <1>8
  <2>2. Last(inputs) = q.processed
    BY <1>5, <1>6, <2>1
  <2> QED BY <1>1, <1>7, <1>8, <2>2 DEF s, tail, inputs
<1>9. CASE s # << >>
  <2>1. Len(s) \in 1..Len(s)
    BY <1>1, <1>2, <1>9
  <2>2. Last(inputs) = s[Len(s)].input
    BY <1>5, <1>6, <2>1
  <2> QED BY <1>1, <1>7, <1>9, <2>1, <2>2 DEF s, tail, inputs
<1> QED BY <1>8, <1>9

\* The invariant implies that operations, control frames and the anchor
\* reward count once.
LEMMA EffectsFollow ==
  ASSUME EngineInv PROVE EffectsOnce
<1>1. OncePerOperation
  <2>1. LogOk(log) /\ \A p \in DOMAIN disk.world.players : Fits(HistoryOf(disk.world, p), log[p])
    BY DEF EngineInv, Durable, Histories
  <2>2. ASSUME NEW p \in Players
        PROVE  /\ \A k \in DOMAIN log[p] : log[p][k].op = k
               /\ p \in DOMAIN disk.world.players =>
                    HistoryOf(disk.world, p).committed = Len(log[p])
    <3>1. log[p] \in Seq(Entry)
      BY <2>1 DEF LogOk
    <3>2. DOMAIN log[p] = 1..Len(log[p])
      BY <3>1
    <3> QED BY <2>1, <3>2 DEF LogOk, Fits
  <2>3. ASSUME NEW a \in answered
        PROVE  /\ a.op \in DOMAIN log[a.player]
               /\ log[a.player][a.op] = [op |-> a.op, cell |-> a.cell, event |-> a.event]
    <3>1. Answer(a, log)
      BY DEF EngineInv, AnswersTrue
    <3>2. log[a.player] \in Seq(Entry)
      BY <2>1, <3>1 DEF LogOk, Answer
    <3>3. DOMAIN log[a.player] = 1..Len(log[a.player])
      BY <3>2
    <3> QED BY <3>1, <3>3 DEF Answer
  <2> QED BY <2>2, <2>3 DEF OncePerOperation
<1>2. FramesOrdered
  <2> SUFFICES ASSUME NEW p \in DOMAIN world.players
               PROVE  LET player == world.players[p]
                          inputs == <<player.processed>> \o
                                    [k \in DOMAIN player.pending |-> player.pending[k].input]
                      IN /\ \A k \in 2..Len(inputs) : inputs[k - 1] < inputs[k]
                         /\ Last(inputs) <= player.received
                         /\ Alive(world, p) => Last(inputs) = player.received
                         /\ ~Alive(world, p) => player.pending = << >> /\ player.control = 0
                         /\ player.control # 0 => world.tick < player.expires
    BY DEF FramesOrdered
  <2> DEFINE q == world.players[p]
             inputs == <<q.processed>> \o [k \in DOMAIN q.pending |-> q.pending[k].input]
  <2>1. PlayerOk(q, world.tick)
    BY DEF EngineInv, WorldOk
  <2>2. Alive(world, p) <=> q.life = 0
    BY DEF Alive
  <2>3. /\ \A k \in 2..Len(inputs) : inputs[k - 1] < inputs[k]
        /\ Last(inputs) <= q.received
        /\ q.life = 0 => Last(inputs) = q.received
    <3> HIDE DEF q
    <3> QED BY <2>1, InputsOrdered DEF PlayerOk
  <2> HIDE DEF inputs
  <2>4. /\ Alive(world, p) => Last(inputs) = q.received
        /\ ~Alive(world, p) => q.pending = << >> /\ q.control = 0
        /\ q.control # 0 => world.tick < q.expires
    BY <2>1, <2>2, <2>3 DEF PlayerOk
  <2> QED BY <2>3, <2>4 DEF inputs
<1>3. AnchorRewardOnce
  BY DEF EngineInv, Durable, Rewards, Most, AnchorRewardOnce, Eligible
<1> QED BY <1>1, <1>2, <1>3 DEF EffectsOnce

\* The invariant holds in every state.
THEOREM EngineAlways == Spec => []EngineInv
<1>1. EngineInv /\ [Next]_vars => EngineInv'
  BY EngineStep
<1> QED BY EngineInit, <1>1, PTL DEF Spec

\* Operations, control frames and the anchor reward count once: through failed
\* commits that landed, crashes, retries, deaths and trips to the other cell.
\* (validate_operation_attempt, advance_player_control_for_substep,
\* split_disconnected_grid)
THEOREM EffectsOnceCorrect == Spec => []EffectsOnce
<1> QED BY EngineAlways, EffectsFollow, PTL

\* An occurrence of production is armed exactly while a machine can move, in
\* memory and on disk, and client activity never postpones it.
\* (resulting_next, advance_due)
THEOREM ScheduleTrueCorrect == Spec => ScheduleTrue
<1>1. EngineInv => ArmedIffRunnable
  BY DEF EngineInv
<1>2. EngineInv /\ [Next]_vars => [\/ disk.next = None
                                   \/ disk'.next \in {None, disk.next}
                                   \/ disk'.world.clock = disk.next]_vars
  BY EngineStep DEF Kindly
<1> QED BY EngineAlways, <1>1, <1>2, PTL DEF Spec, ScheduleTrue, ActivityNeverPostpones
====
