----------------------------- MODULE InterestView -----------------------------
(***************************************************************************)
(* What one connected client is shown: the projector that derives the next *)
(* interest frame from a canonical world and the connection's cursor       *)
(* (verse-simulation projection.rs), and the verifier with which the       *)
(* client accepts or refuses that frame (verse-interest-verifier lib.rs).  *)
(*                                                                         *)
(* A world is [cell, seq, tick, op, ents]: ents gives, for each entity of  *)
(* the cell, its public payload [zone, shape].  The zone is the entity's   *)
(* address, reduced to its band of distance from the observer's anchor     *)
(* (0 within the enter radius, 1 between the enter and the exit radius, 2  *)
(* beyond); shape stands for the fields whose change is structural.  A     *)
(* grid of shape 1 holds a cargo of the pilot.  op is the pilot's          *)
(* committed operation sequence.                                           *)
(*                                                                         *)
(* A view hash is collision free, so a hash is the view it digests; a      *)
(* baseline id is a digest of session and epoch and is not kept apart.     *)
(***************************************************************************)
EXTENDS Naturals, FiniteSets, Sequences, SequencesExt

CONSTANTS Pilot,           \* the player bound to gameplay sessions
          Grids,           \* sequence of the other entities, in identity order
          UpdateInterval,  \* band.update_interval_ticks of a grid
          ExitTicks,       \* policy.exit_consecutive_ticks
          MaxGrids         \* band.maximum_entities of grids

ASSUME BandAssumption == /\ UpdateInterval \in Nat \ {0}
                         /\ ExitTicks \in Nat \ {0}
                         /\ MaxGrids \in Nat

Entities == {Pilot} \cup Range(Grids)
Zones == 0..2
Payload == [zone : Zones, shape : 0..1]

NoPrivate == [op |-> 0, pos |-> 0, cargo |-> {}]
NoLink == [transfer |-> 0, cell |-> "none"]
NoView == [epoch |-> 0, delta |-> 0, cell |-> "none", link |-> NoLink,
           ents |-> <<>>, private |-> NoPrivate]

-----------------------------------------------------------------------------
(* The projector. *)

\* A fresh cursor of a session; role is "player" or "spectator".
NewCursor(role) ==
  [role |-> role, epoch |-> 1, delta |-> 0, members |-> <<>>,
   hash |-> NoView, last |-> 0, private |-> NoPrivate, link |-> NoLink]

FreshBaseline(cursor) ==
  [NewCursor(cursor.role) EXCEPT !.epoch = cursor.epoch + 1]

FreshTransferBaseline(cursor, transfer, cell) ==
  [FreshBaseline(cursor) EXCEPT !.link = [transfer |-> transfer, cell |-> cell]]

FirstFrame(cursor) == cursor.hash = NoView

\* The bound player is needed for control: no radius and no budget drops it.
Critical(cursor, e) == cursor.role = "player" /\ e = Pilot

StructuralChange(cursor, world, e) ==
  /\ e \in DOMAIN cursor.members
  /\ cursor.members[e].pay.shape # world.ents[e].shape

\* Mutant: a structural change waits for the update interval.
DueByInterval(cursor, world, e) ==
  FirstFrame(cursor) \/ Critical(cursor, e) \/ e = Pilot \/ world.tick % UpdateInterval = 0

\* Whether this frame carries e's current payload or repeats the last one;
\* the update interval of players is one tick.
Due(cursor, world, e) ==
  \/ FirstFrame(cursor)
  \/ Critical(cursor, e)
  \/ StructuralChange(cursor, world, e)
  \/ e = Pilot
  \/ world.tick % UpdateInterval = 0

\* The first tick at which a member may have left, as far as frames tell.
FirstUnobserved(cursor, world) ==
  IF cursor.last # 0 /\ world.tick > cursor.last THEN cursor.last + 1 ELSE world.tick

OutsideSince(cursor, world, e) ==
  IF cursor.members[e].out # 0 THEN cursor.members[e].out
                               ELSE FirstUnobserved(cursor, world)

Eligible(cursor, world, e) ==
  \/ Critical(cursor, e)
  \/ world.ents[e].zone = 0
  \/ /\ e \in DOMAIN cursor.members
     /\ \/ world.ents[e].zone = 1
        \/ world.tick + 1 < OutsideSince(cursor, world, e) + ExitTicks

\* Grids compete for their kind's budget: members first, then nearer ones,
\* then in identity order.  (The global budget of the manifest is the sum
\* of the kinds', so the budget of a kind is the one that binds.)
Outranks(cursor, world, f, e) ==
  LET rank(x) == IF x \in DOMAIN cursor.members THEN 1 ELSE 2
      at(x) == CHOOSE i \in DOMAIN Grids : Grids[i] = x
  IN  \/ rank(f) < rank(e)
      \/ rank(f) = rank(e) /\ world.ents[f].zone < world.ents[e].zone
      \/ rank(f) = rank(e) /\ world.ents[f].zone = world.ents[e].zone /\ at(f) < at(e)

Kept(cursor, world) ==
  LET eligible == {e \in DOMAIN world.ents : Eligible(cursor, world, e)}
  IN  {e \in eligible :
         \/ e = Pilot
         \/ Cardinality({f \in eligible \ {Pilot} : Outranks(cursor, world, f, e)}) < MaxGrids}

\* The membership a frame records for a kept entity.
MemberOf(cursor, world, sequence, e) ==
  LET old == e \in DOMAIN cursor.members
      current == ~old \/ Due(cursor, world, e)
      pay == IF current THEN world.ents[e] ELSE cursor.members[e].pay
  IN  [pay |-> pay,
       rev |-> IF old /\ cursor.members[e].pay = pay
               THEN cursor.members[e].rev ELSE sequence + 1,
       out |-> IF old /\ ~Critical(cursor, e) /\ world.ents[e].zone = 2
               THEN OutsideSince(cursor, world, e) ELSE 0]

\* The pilot's private state, reduced to what the visible grids account for.
FilteredPrivate(cursor, world, visible) ==
  IF cursor.role = "player"
  THEN [op |-> world.op, pos |-> world.ents[Pilot].zone,
        cargo |-> {g \in visible \ {Pilot} : world.ents[g].shape = 1}]
  ELSE NoPrivate

\* Mutant: the removal evidence is ignored.
RemovalWithoutEvidence(world, removals, e) ==
  IF e \in DOMAIN world.ents THEN "out_of_interest" ELSE "destroyed"

RemovalReason(world, removals, e) ==
  IF e \in removals THEN "transferred"
  ELSE IF e \in DOMAIN world.ents THEN "out_of_interest" ELSE "destroyed"

\* A frame cannot be projected: the actor is elsewhere, the tick went back,
\* removal evidence names a live entity, or the transfer link another cell.
CannotProject(cursor, world, removals) ==
  \/ cursor.role = "player" /\ Pilot \notin DOMAIN world.ents
  \/ world.tick < cursor.last
  \/ removals \cap DOMAIN world.ents # {}
  \/ cursor.link # NoLink /\ cursor.link.cell # world.cell

\* project_interest_frame: the next frame and the cursor that goes with it.
ProjectFrame(cursor, world, removals) ==
  LET first == FirstFrame(cursor)
      sequence == IF first THEN 0 ELSE cursor.delta + 1
      kept == Kept(cursor, world)
      members == [e \in kept |-> MemberOf(cursor, world, sequence, e)]
      shown == [e \in kept |-> [rev |-> members[e].rev, pay |-> members[e].pay]]
      before == DOMAIN cursor.members
      private == FilteredPrivate(cursor, world, kept)
      view == [epoch |-> cursor.epoch, delta |-> sequence, cell |-> world.cell,
               link |-> cursor.link, ents |-> shown, private |-> private]
      restructured == \/ private.op # cursor.private.op
                      \/ private.cargo # cursor.private.cargo
  IN  [frame |-> [kind |-> IF first THEN "baseline" ELSE "delta",
                  epoch |-> cursor.epoch, delta |-> sequence, cell |-> world.cell,
                  seq |-> world.seq, tick |-> world.tick, link |-> cursor.link,
                  previous |-> cursor.hash, hash |-> view,
                  entered |-> [e \in kept \ before |-> shown[e]],
                  replaced |-> [e \in {x \in kept \cap before :
                                         members[x].rev # cursor.members[x].rev} |-> shown[e]],
                  removed |-> [e \in before \ kept |-> RemovalReason(world, removals, e)],
                  private |-> IF first \/ restructured THEN {private} ELSE {},
                  motion |-> IF ~first /\ ~restructured /\ private.pos # cursor.private.pos
                             THEN {private.pos} ELSE {}],
       cursor |-> [cursor EXCEPT !.members = members, !.delta = sequence, !.hash = view,
                                 !.last = world.tick, !.private = private, !.link = NoLink]]

-----------------------------------------------------------------------------
(* The verifier.  Its committed state is [welcome, registry, view, at,     *)
(* handoff]: at is the canonical event sequence and tick of the view.      *)

NoHandoff == [transfer |-> 0, cell |-> "none", phase |-> "none", epoch |-> 0]

NewVerifier == [welcome |-> "none", registry |-> FALSE, view |-> NoView,
                at |-> [seq |-> 0, tick |-> 0], handoff |-> NoHandoff]

NextPhase(phase) == CASE phase = "none" -> "preparing"
                      [] phase = "preparing" -> "importing"
                      [] OTHER -> "verifying"

\* Every private record must resolve to what the same view shows.
Linked(role, private, ents) ==
  IF role = "player"
  THEN /\ Pilot \in DOMAIN ents
       /\ ents[Pilot].pay.zone = private.pos
       /\ \A g \in private.cargo : g \in DOMAIN ents /\ ents[g].pay.shape = 1
  ELSE private = NoPrivate

\* The view a frame installs on top of the committed one.
ResultingView(v, m) ==
  LET old == IF m.kind = "delta" THEN v.view ELSE NoView
      left == (DOMAIN old.ents \cup DOMAIN m.entered) \ DOMAIN m.removed
      private == IF m.private # {} THEN CHOOSE p \in m.private : TRUE
                 ELSE IF m.motion # {}
                      THEN [old.private EXCEPT !.pos = CHOOSE p \in m.motion : TRUE]
                      ELSE old.private
  IN  [epoch |-> m.epoch, delta |-> m.delta, cell |-> m.cell, link |-> m.link,
       ents |-> [e \in left |-> IF e \in DOMAIN m.entered THEN m.entered[e]
                                ELSE IF e \in DOMAIN m.replaced THEN m.replaced[e]
                                ELSE old.ents[e]],
       private |-> private]

\* The checks that a baseline and a delta share: role, linkage, wire hash.
ValidContent(v, m) ==
  LET view == ResultingView(v, m)
  IN  /\ v.welcome = "spectator" => m.private \subseteq {NoPrivate} /\ m.motion = {}
      /\ Linked(v.welcome, view.private, view.ents)
      /\ view = m.hash

ValidBaseline(v, m) ==
  /\ m.delta = 0 /\ m.previous = NoView
  /\ DOMAIN m.replaced = {} /\ DOMAIN m.removed = {}
  /\ m.link # NoLink => v.welcome = "player" /\ m.link.cell = m.cell

\* The frontier a baseline must continue.
BaselineContinues(v, m) ==
  IF v.handoff # NoHandoff
  THEN /\ v.handoff.phase = "verifying"
       /\ m.link.transfer = v.handoff.transfer /\ m.link.cell = v.handoff.cell
       /\ m.epoch = v.handoff.epoch + 1
  ELSE v.view # NoView => /\ m.epoch > v.view.epoch
                          /\ m.seq >= v.at.seq /\ m.tick >= v.at.tick

DeltaContinues(v, m) ==
  /\ m.epoch = v.view.epoch /\ m.delta = v.view.delta + 1
  /\ m.previous = v.view
  /\ m.seq >= v.at.seq /\ m.tick >= v.at.tick

ValidDelta(v, m) ==
  /\ m.link = NoLink /\ m.cell = v.view.cell
  /\ ~(m.private # {} /\ m.motion # {})
  /\ DOMAIN m.entered \cap DOMAIN v.view.ents = {}
  /\ DOMAIN m.replaced \subseteq DOMAIN v.view.ents
  /\ DOMAIN m.removed \subseteq DOMAIN v.view.ents
  /\ \A e \in DOMAIN m.replaced : m.replaced[e].rev > v.view.ents[e].rev
  /\ DOMAIN m.replaced \cap DOMAIN m.removed = {}

HandoffContinues(v, m) ==
  /\ m.transfer = v.handoff.transfer /\ m.cell = v.handoff.cell
  /\ m.phase \in {v.handoff.phase, NextPhase(v.handoff.phase)}

\* stage: why the verifier refuses message m, or "none".
Refusal(v, m) ==
  CASE m.kind = "welcome" -> IF v.welcome = "none" THEN "none" ELSE "unexpected"
    [] m.kind = "registry" -> IF v.welcome # "none" /\ ~v.registry THEN "none" ELSE "unexpected"
    [] m.kind = "receipt" -> IF v.view # NoView THEN "none" ELSE "unexpected"
    [] m.kind = "handoff" ->
         IF v.welcome # "player" \/ ~v.registry THEN "unexpected"
         ELSE IF v.handoff # NoHandoff
              THEN IF HandoffContinues(v, m) THEN "none" ELSE "frontier_mismatch"
         ELSE IF v.view = NoView \/ m.phase # "preparing" THEN "unexpected"
         ELSE IF m.cell = v.view.cell THEN "invalid" ELSE "none"
    [] m.kind = "baseline" ->
         IF ~v.registry THEN "unexpected"
         ELSE IF ~ValidBaseline(v, m) \/ ~ValidContent(v, m) THEN "invalid"
         ELSE IF (v.handoff = NoHandoff) # (m.link = NoLink) THEN "invalid"
         ELSE IF BaselineContinues(v, m) THEN "none" ELSE "frontier_mismatch"
    [] m.kind = "delta" ->
         IF v.view = NoView THEN "unexpected"
         ELSE IF ~DeltaContinues(v, m) THEN "frontier_mismatch"
         ELSE IF ValidDelta(v, m) /\ ValidContent(v, m) THEN "none" ELSE "invalid"
    [] OTHER -> "none"

\* commit: the verifier after it installed an accepted message.
Installed(v, m) ==
  CASE m.kind = "welcome" -> [v EXCEPT !.welcome = m.role]
    [] m.kind = "registry" -> [v EXCEPT !.registry = TRUE]
    [] m.kind = "handoff" ->
         [v EXCEPT !.view = NoView,
                   !.handoff = [transfer |-> m.transfer, cell |-> m.cell, phase |-> m.phase,
                                epoch |-> IF v.handoff = NoHandoff THEN v.view.epoch
                                                                   ELSE v.handoff.epoch]]
    [] m.kind \in {"baseline", "delta"} ->
         [v EXCEPT !.view = ResultingView(v, m), !.handoff = NoHandoff,
                   !.at = [seq |-> m.seq, tick |-> m.tick]]
    [] OTHER -> v
=============================================================================
