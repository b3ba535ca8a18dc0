---------------------------- MODULE InterestSession ----------------------------
(***************************************************************************)
(* One WebSocket session of the simulation worker and the client at its    *)
(* other end (services/simulation-worker lib.rs, websocket_session and     *)
(* SessionTransport; the client is the browser's VerifiedFrameBridge).     *)
(*                                                                         *)
(* The worker hosts either one cell or the two cells of the coordinator.   *)
(* The pilot's placement, the worlds, the replication feeds and the last   *)
(* completed handoff change under the runtime lock, in one step each.  The *)
(* session takes one branch of its select loop per step, so a step of the  *)
(* world may fall between any two of them; frames and acknowledgements     *)
(* travel in two FIFO queues, so an acknowledgement may be arbitrarily     *)
(* late and a frame may time out first.                                    *)
(*                                                                         *)
(* A transfer is named by the placement generation it produces.            *)
(***************************************************************************)
EXTENDS InterestView

CONSTANTS MaxRecoveries,   \* MAX_RECOVERIES_PER_WINDOW
          Bounds           \* how often the environment acts: [steps, crossings,
                           \* intents, timeouts, requests, sessions], and
                           \* the total but for sessions

VARIABLES role,      \* of the session: "player" or "spectator"
          twoCell,   \* whether the worker hosts the two-cell coordinator
          world,     \* the canonical world of each cell
          route,     \* the pilot's resident route [cell, gen]
          revision,  \* projection_revision, or the public origin bundle
          feed,      \* ReplicationFeed of players and of the public
          handoff,   \* the pilot's last completed transfer, 0 for none
          session,   \* the session task: its select loop and SessionTransport
          client,    \* the client: verifier, bridge and what it saw
          down, up,  \* server to client and client to server, in order
          spent,     \* how often the environment acted
          left,      \* for each entity, the tick it passed the exit radius, or 0
          executed   \* the last executed intent: composed for and run at a route

vars == <<role, twoCell, world, route, revision, feed, handoff, session, client,
          down, up, spent, left, executed>>
hostVars == <<role, twoCell, world, route, revision, feed, handoff, left, executed>>

Cells == {"origin", "east"}
Other(cell) == IF cell = "origin" THEN "east" ELSE "origin"
NoRoute == [cell |-> "none", gen |-> 0]
Budgets == DOMAIN Bounds
May(what) == spent[what] < Bounds[what] /\ spent["total"] < Bounds["total"]
Spend(what) == spent' = [spent EXCEPT ![what] = @ + 1, !["total"] = @ + 1]

NoFeed == [structural |-> 0, motion |-> 0]
NoPending == [purpose |-> "none", cursor |-> NewCursor("spectator"), route |-> NoRoute,
              overtook |-> FALSE]
NewSession(state) ==
  [state |-> state, reason |-> "none", acked |-> NewCursor(role), resident |-> NoRoute,
   initial |-> NoRoute, pending |-> NoPending, superseded |-> NoView, recoveries |-> 0,
   event |-> 0, full |-> 0, last |-> 0, seen |-> 0]
NewClient == [verifier |-> NewVerifier, asked |-> FALSE, route |-> NoRoute, refused |-> "none"]

-----------------------------------------------------------------------------
(* The replication feed. *)

Published(f, kind, seq) ==
  CASE kind = "structural" /\ seq > f.structural ->
         [structural |-> seq, motion |-> IF f.motion <= seq THEN 0 ELSE f.motion]
    [] kind = "motion" /\ seq > f.structural /\ seq > f.motion -> [f EXCEPT !.motion = seq]
    [] OTHER -> f

\* Mutant: only structural changes are looked for.
BehindStructurally(f, s) == f.structural > s.full

\* next_after: something newer than what the session's frames represent.
Behind(f, s) == f.structural > s.full \/ f.motion > s.event

-----------------------------------------------------------------------------
(* The world: AppState::advance and execute_as_at. *)

\* Publication in the two-cell host: the players' feed carries the sequence
\* of the pilot's cell, the public feed that of the origin.
PublishTwoCell(worlds, kind, crossed, home) ==
  /\ feed' = [player |-> Published(IF crossed THEN NoFeed ELSE feed.player, kind,
                                   worlds[home].seq),
              public |-> IF worlds["origin"].seq # world["origin"].seq
                         THEN Published(feed.public, kind, worlds["origin"].seq)
                         ELSE feed.public]
  /\ revision' = IF worlds["origin"].seq = world["origin"].seq THEN revision
                 ELSE [world |-> worlds["origin"],
                       removals |-> IF ~crossed THEN revision.removals
                                    ELSE IF home = "origin" THEN revision.removals \ {Pilot}
                                    ELSE revision.removals \cup {Pilot}]

PublishOneCell(worlds, kind) ==
  /\ feed' = [player |-> Published(feed.player, kind, worlds["origin"].seq),
              public |-> Published(feed.public, kind, worlds["origin"].seq)]
  /\ revision' = [world |-> worlds["origin"], removals |-> {}]

Publish(worlds, kind, crossed, home) ==
  IF twoCell THEN PublishTwoCell(worlds, kind, crossed, home) ELSE PublishOneCell(worlds, kind)

Ticked(w) == [w EXCEPT !.seq = @ + 1, !.tick = @ + 1]

\* An advance in which entity e of a cell moves to another band.
Move(cell, e, zone) ==
  LET w == [Ticked(world[cell]) EXCEPT !.ents[e].zone = zone]
      worlds == [world EXCEPT ![cell] = w]
  IN  /\ May("steps") /\ Spend("steps")
      /\ zone # world[cell].ents[e].zone
      /\ world' = worlds
      /\ left' = [left EXCEPT ![e] = IF zone = 2 THEN w.tick ELSE 0]
      /\ Publish(worlds, "motion", FALSE, route.cell)
      /\ UNCHANGED <<role, twoCell, route, handoff, session, client, down, up, executed>>

\* An advance that changes a grid structurally, or destroys it.
Restructure(g, destroyed) ==
  LET w == Ticked(world["origin"])
      worlds == [world EXCEPT !["origin"] =
                   IF destroyed THEN [w EXCEPT !.ents = [e \in DOMAIN @ \ {g} |-> @[e]]]
                                ELSE [w EXCEPT !.ents[g].shape = 1 - @]]
  IN  /\ May("steps") /\ Spend("steps")
      /\ world' = worlds
      /\ left' = [left EXCEPT ![g] = IF destroyed THEN 0 ELSE @]
      /\ Publish(worlds, "structural", FALSE, route.cell)
      /\ UNCHANGED <<role, twoCell, route, handoff, session, client, down, up, executed>>

\* An advance in which the pilot crosses the boundary: the coordinator
\* completes the durable handoff before the lock is released.
Cross ==
  LET from == route.cell
      to == Other(from)
      pilot == [world[from].ents[Pilot] EXCEPT !.zone = 0]
      source == [Ticked(world[from]) EXCEPT !.ents = [e \in DOMAIN @ \ {Pilot} |-> @[e]]]
      destination == [Ticked(world[to]) EXCEPT
                        !.ents = [e \in DOMAIN @ \cup {Pilot} |-> IF e = Pilot THEN pilot ELSE @[e]],
                        !.op = world[from].op]
      worlds == [c \in Cells |-> IF c = from THEN source ELSE destination]
  IN  /\ twoCell /\ May("crossings") /\ Spend("crossings")
      /\ world' = worlds
      /\ route' = [cell |-> to, gen |-> route.gen + 1]
      /\ handoff' = route.gen + 1
      /\ left' = [left EXCEPT ![Pilot] = 0]
      /\ Publish(worlds, "structural", TRUE, to)
      /\ UNCHANGED <<role, twoCell, session, client, down, up, executed>>

-----------------------------------------------------------------------------
(* SessionTransport. *)

Live == session.state = "live"
Awaiting(s) == s.pending # NoPending
RecoveryPending(s) == s.pending.purpose \in {"recovery", "handoff"}
RouteStale(s) == twoCell /\ role = "player" /\ s.resident # NoRoute /\ s.resident # route

\* Every way out of the session task: it releases the pilot and the socket.
Close(s, reason) ==
  /\ session' = [s EXCEPT !.state = "closed", !.reason = reason, !.pending = NoPending]
  /\ down' = <<>> /\ up' = <<>>

\* A frame as the session sends it, with the route it was projected for.
Routed(frame, at) ==
  [f \in DOMAIN frame \cup {"route"} |-> IF f = "route" THEN at ELSE frame[f]]

\* What a session projects: a player of the two-cell host through its route.
RoutedAway(at) == twoCell /\ role = "player" /\ at # route
Projected(at) == IF twoCell /\ role = "player"
                 THEN [world |-> world[at.cell], removals |-> {}] ELSE revision

Pending(s, frontier, purpose, at) ==
  [s EXCEPT !.pending = [purpose |-> purpose, cursor |-> frontier, route |-> at,
                         overtook |-> purpose = "handoff" /\ @.purpose = "recovery"]]

\* stage: the next frame of the session, fresh or from the acknowledged view.
Candidate(s, fresh) ==
  IF ~fresh THEN s.acked
  ELSE FreshBaseline(IF Awaiting(s) THEN s.pending.cursor ELSE s.acked)
StageRoute(s) ==
  IF s.pending.route # NoRoute THEN s.pending.route
  ELSE IF s.resident # NoRoute THEN s.resident ELSE s.initial
Purpose(s, fresh) ==
  IF s.acked.hash = NoView /\ s.initial # NoRoute THEN "initial"
  ELSE IF fresh THEN "recovery" ELSE "ordinary"
Superseding(s, fresh) ==
  IF fresh THEN [s EXCEPT !.superseded = s.pending.cursor.hash] ELSE s

Stage(s, fresh, rest) ==
  LET at == StageRoute(s)
      candidate == Candidate(s, fresh)
      next == Superseding(s, fresh)
      initial == Purpose(s, fresh) = "initial"
  IN  IF RoutedAway(at) \/ CannotProject(candidate, Projected(at).world, Projected(at).removals)
      THEN IF RouteStale(s)
           THEN session' = next /\ up' = rest /\ UNCHANGED down
           ELSE Close(next, "projection_failed")
      ELSE LET p == ProjectFrame(candidate, Projected(at).world, Projected(at).removals)
           IN  /\ session' = [Pending(next, p.cursor, Purpose(s, fresh),
                                      IF initial THEN s.initial ELSE NoRoute)
                               EXCEPT !.event = p.frame.seq, !.full = p.frame.seq]
               /\ down' = Append(down, Routed(p.frame, at))
               /\ up' = rest

\* permit_recovery: the window of ten seconds may have elapsed in between.
Permitted(s, elapsed) == elapsed \/ s.recoveries < MaxRecoveries
Permit(s, elapsed) == [s EXCEPT !.recoveries = IF elapsed THEN 1 ELSE @ + 1]

\* acknowledge: the pending frame becomes the acknowledged one, and the frame
\* of a new route moves the mutation permit.
Acknowledged(s) ==
  [s EXCEPT !.acked = s.pending.cursor, !.pending = NoPending, !.superseded = NoView,
            !.resident = IF s.pending.purpose \in {"initial", "handoff"}
                         THEN s.pending.route ELSE @]

-----------------------------------------------------------------------------
(* The session task. *)

Subscribe ==
  /\ session.state \in {"off", "closed"} /\ spent["sessions"] < Bounds["sessions"]
  /\ spent' = [spent EXCEPT !["sessions"] = @ + 1]
  /\ session' = [NewSession("subscribed") EXCEPT !.seen = handoff]
  /\ client' = NewClient
  /\ UNCHANGED <<hostVars, down, up>>

\* initial_session_projection and stage_initial, then the three first messages.
Bootstrap ==
  LET at == IF twoCell /\ role = "player" THEN route ELSE NoRoute
      fresh == [session EXCEPT !.initial = at, !.last = IF at = NoRoute THEN 0 ELSE handoff]
      p == ProjectFrame(NewCursor(role), Projected(at).world, Projected(at).removals)
  IN  /\ session.state = "subscribed"
      /\ IF CannotProject(NewCursor(role), Projected(at).world, Projected(at).removals)
         THEN Close(fresh, "projection_failed")
         ELSE /\ session' = [Pending(fresh, p.cursor,
                                     IF at = NoRoute THEN "ordinary" ELSE "initial", at)
                              EXCEPT !.state = "live", !.event = p.frame.seq, !.full = p.frame.seq]
              /\ down' = <<[kind |-> "welcome", role |-> role], [kind |-> "registry"],
                           Routed(p.frame, at)>>
              /\ UNCHANGED up
      /\ UNCHANGED <<hostVars, client, spent>>

\* stage_transfer refuses a completion the session's route does not precede.
TransferContinues(s) ==
  /\ s.acked.hash # NoView /\ s.resident # NoRoute
  /\ s.resident.cell = Other(route.cell) /\ s.resident.gen + 1 = handoff
  /\ handoff = route.gen

Phase(phase) == [kind |-> "handoff", transfer |-> handoff, cell |-> route.cell, phase |-> phase]

OnHandoff ==
  LET s == [session EXCEPT !.seen = handoff]
      candidate == FreshTransferBaseline(s.acked, handoff, route.cell)
      p == ProjectFrame(candidate, world[route.cell], {})
      next == [s EXCEPT !.superseded = s.pending.cursor.hash, !.last = handoff,
                        !.event = p.frame.seq, !.full = p.frame.seq]
  IN  /\ Live /\ session.seen # handoff
      /\ IF role = "spectator" \/ handoff = s.last
         THEN session' = s /\ UNCHANGED <<down, up>>
         ELSE IF ~TransferContinues(s)
         THEN Close(s, "handoff_route_discontinuity")
         ELSE /\ session' = Pending(next, p.cursor, "handoff", route)
              /\ down' = down \o <<Phase("preparing"), Phase("importing"), Phase("verifying"),
                                   Routed(p.frame, route)>>
              /\ UNCHANGED up
      /\ UNCHANGED <<hostVars, client, spent>>

\* The pending frame is older than the acknowledgement timeout.  A frame whose
\* acknowledgement can no longer come is timed out sooner or later.
\* The timeout of thirty seconds exceeds the recovery window of ten, so the
\* recovery it starts is always permitted.
Hopeless == down = <<>> /\ \A i \in DOMAIN up : up[i].kind # "ack"
AckTimeout ==
  /\ Live /\ Awaiting(session)
  /\ \/ Hopeless /\ UNCHANGED spent
     \/ ~Hopeless /\ May("timeouts") /\ Spend("timeouts")
  /\ IF RecoveryPending(session)
     THEN Close(session, "interest_ack_timeout")
     ELSE Stage(Permit(session, TRUE), TRUE, up)
  /\ UNCHANGED <<hostVars, client>>

ReplicationTick ==
  /\ Live /\ ~Awaiting(session)
  /\ Behind(IF role = "player" THEN feed.player ELSE feed.public, session)
  /\ Stage(session, FALSE, up)
  /\ UNCHANGED <<hostVars, client, spent>>

Arrived(kind) == Live /\ up # <<>> /\ Head(up).kind = kind

OnAcknowledge ==
  /\ Arrived("ack")
  /\ LET view == Head(up).view IN
     \/ /\ Awaiting(session) /\ view = session.pending.cursor.hash
        /\ session' = Acknowledged(session) /\ up' = Tail(up) /\ UNCHANGED down
     \/ /\ ~(Awaiting(session) /\ view = session.pending.cursor.hash)
        /\ \/ view = session.acked.hash
           \/ RecoveryPending(session) /\ view = session.superseded
        /\ up' = Tail(up) /\ UNCHANGED <<session, down>>
  /\ UNCHANGED <<hostVars, client, spent>>

\* An acknowledgement that matches nothing the session still knows.
ForeignAck ==
  /\ Arrived("ack")
  /\ Head(up).view # session.acked.hash
  /\ ~(Awaiting(session) /\ Head(up).view = session.pending.cursor.hash)
  /\ ~(RecoveryPending(session) /\ Head(up).view = session.superseded)

OnForeignAcknowledge ==
  /\ ForeignAck
  /\ IF RecoveryPending(session) \/ ~Permitted(session, FALSE)
     THEN Close(session, "interest_recovery_rate_limited")
     ELSE Stage(Permit(session, FALSE), TRUE, Tail(up))
  /\ UNCHANGED <<hostVars, client, spent>>

OnRequestSnapshot ==
  /\ Arrived("request")
  /\ IF RecoveryPending(session) \/ RouteStale(session)
     THEN up' = Tail(up) /\ UNCHANGED <<session, down>>
     ELSE IF ~Permitted(session, FALSE)
     THEN Close(session, "interest_recovery_rate_limited")
     ELSE Stage(Permit(session, FALSE), TRUE, Tail(up))
  /\ UNCHANGED <<hostVars, client, spent>>

\* Mutant: controls follow the directory instead of the session's permit.
ExecutesAnywhere(s) == role = "player"

\* execute_as_at with the session's mutation permit.  A build flips a grid's
\* shape where there is one; every intent consumes an operation sequence.
Executes(s) == role = "player" /\ (twoCell => s.resident = route)

OnIntent ==
  /\ Arrived("intent")
  /\ up' = Tail(up)
  /\ down' = Append(down, [kind |-> "receipt"])
  /\ IF ~Executes(session)
     THEN UNCHANGED <<world, feed, revision, executed>>
     ELSE LET here == world[route.cell]
              built == {g \in DOMAIN here.ents \ {Pilot} : Head(up).build /\ g = Grids[1]}
              w == [here EXCEPT !.seq = @ + 1, !.op = @ + 1,
                      !.ents = [e \in DOMAIN @ |-> IF e \in built
                                                   THEN [here.ents[e] EXCEPT !.shape = 1 - @]
                                                   ELSE @[e]]]
              worlds == [world EXCEPT ![route.cell] = w]
          IN  /\ world' = worlds
              /\ executed' = [composed |-> Head(up).route,
                              at |-> IF twoCell THEN route ELSE NoRoute]
              /\ Publish(worlds, IF Head(up).build THEN "structural" ELSE "motion", FALSE, route.cell)
  /\ UNCHANGED <<role, twoCell, route, handoff, left, session, client, spent>>

-----------------------------------------------------------------------------
(* The client: it verifies, installs and acknowledges one message at a     *)
(* time, asks once for a snapshot when a frame does not continue its view, *)
(* and otherwise closes.                                                   *)

ClientReceives ==
  LET m == Head(down)
      v == client.verifier
      refusal == Refusal(v, m)
  IN  /\ Live /\ down # <<>>
      /\ CASE refusal = "none" ->
                LET framed == m.kind \in {"baseline", "delta"} IN
                /\ client' = [client EXCEPT !.verifier = Installed(v, m),
                                            !.route = IF framed THEN m.route
                                                      ELSE IF m.kind = "handoff" THEN NoRoute ELSE @]
                /\ up' = IF framed THEN Append(up, [kind |-> "ack", view |-> m.hash]) ELSE up
                /\ down' = Tail(down) /\ UNCHANGED session
           [] refusal = "frontier_mismatch" /\ ~client.asked ->
                /\ client' = [client EXCEPT !.asked = TRUE, !.refused = m.kind]
                /\ up' = Append(up, [kind |-> "request"])
                /\ down' = Tail(down) /\ UNCHANGED session
           [] OTHER ->
                /\ client' = [client EXCEPT !.refused = IF @ = "none" THEN m.kind ELSE @]
                /\ Close(session, "client_closed")
      /\ UNCHANGED <<hostVars, spent>>

Greeted == Live /\ client.verifier.welcome # "none"

ClientRequests ==
  /\ Greeted /\ May("requests") /\ Spend("requests")
  /\ up' = Append(up, [kind |-> "request"])
  /\ UNCHANGED <<hostVars, session, client, down>>

ClientIntends(build) ==
  /\ Greeted /\ May("intents") /\ Spend("intents")
  /\ up' = Append(up, [kind |-> "intent", build |-> build, route |-> client.route])
  /\ UNCHANGED <<hostVars, session, client, down>>

-----------------------------------------------------------------------------
NewWorld(cell, ents) == [cell |-> cell, seq |-> 1, tick |-> 1, op |-> 1, ents |-> ents]

Init ==
  /\ role \in {"player", "spectator"}
  /\ twoCell \in BOOLEAN
  /\ world = [c \in Cells |->
                NewWorld(c, [e \in (IF c = "origin" THEN Entities ELSE {}) |->
                               [zone |-> 0, shape |-> IF e = Grids[1] THEN 1 ELSE 0]])]
  /\ route = [cell |-> "origin", gen |-> 1]
  /\ revision = [world |-> world["origin"], removals |-> {}]
  /\ feed = [player |-> NoFeed, public |-> NoFeed]
  /\ handoff = 0
  /\ session = NewSession("off")
  /\ client = NewClient
  /\ down = <<>> /\ up = <<>>
  /\ spent = [b \in Budgets |-> 0]
  /\ left = [e \in Entities |-> 0]
  /\ executed = [composed |-> NoRoute, at |-> NoRoute]

WorldStep ==
  \/ \E cell \in Cells, zone \in Zones : \E e \in DOMAIN world[cell].ents : Move(cell, e, zone)
  \/ \E g \in DOMAIN world["origin"].ents \ {Pilot} :
        Restructure(g, FALSE) \/ Restructure(g, TRUE)
  \/ Cross

SessionStep ==
  \/ Subscribe \/ Bootstrap \/ OnHandoff \/ AckTimeout \/ ReplicationTick
  \/ OnAcknowledge \/ OnForeignAcknowledge \/ OnRequestSnapshot \/ OnIntent

ClientStep ==
  \/ ClientReceives \/ ClientRequests
  \/ \E build \in BOOLEAN : ClientIntends(build)

Next == WorldStep \/ SessionStep \/ ClientStep

Spec == Init /\ [][Next]_vars

-----------------------------------------------------------------------------
(* Properties. *)

TypeOK ==
  /\ role \in {"player", "spectator"} /\ twoCell \in BOOLEAN
  /\ \A c \in Cells : /\ DOMAIN world[c].ents \subseteq Entities
                      /\ \A e \in DOMAIN world[c].ents : world[c].ents[e] \in Payload
  /\ route.cell \in Cells /\ handoff \in 0..route.gen
  /\ session.state \in {"off", "subscribed", "live", "closed"}
  /\ session.pending.purpose \in {"none", "ordinary", "recovery", "initial", "handoff"}
  /\ session.recoveries \in 0..MaxRecoveries
  /\ revision.removals \subseteq {Pilot}
  /\ \A b \in Budgets : spent[b] \in 0..Bounds[b]

\* Every frame the worker sends continues what the client holds: deltas after
\* lost time, recovery baselines after timeouts and resynchronisation, handoff
\* phases and destination baselines pass every check of the verifier (frontier,
\* revisions, private linkage, view hash).  The one exception is a destination
\* baseline that overtook a recovery baseline the client had already installed
\* (stage_transfer continues the acknowledged epoch, not the pending one).
FramesAccepted ==
  client.refused # "none" =>
    /\ client.refused = "baseline"
    /\ session.pending.overtook \/ session.state = "closed"

\* A control composed against one cell's view never runs in another cell: what
\* execute_as_at runs was composed after the client had installed the baseline
\* of the very placement it runs in, however late the acknowledgement is.
QueuedControlsFail == executed.composed = executed.at

\* No frame shows an entity that has been beyond the exit radius for the
\* policy's consecutive ticks, even when frames were held back by a missing
\* acknowledgement (select's lower bound on outside_since_tick).
OutsideNeverLingers ==
  [][session'.pending # session.pending =>
       \A e \in DOMAIN session'.pending.cursor.members :
          ~Critical(session'.pending.cursor, e) /\ left[e] # 0
             => world["origin"].tick + 1 < left[e] + ExitTicks]_vars

\* A removal says what happened: an entity that still lives in some cell is
\* never reported destroyed, and one that left the cell is reported transferred.
RemovalsTellTheTruth ==
  [][\A i \in DOMAIN down' :
       i > Len(down) /\ down'[i].kind = "delta" =>
         \A e \in DOMAIN down'[i].removed :
           LET alive == {c \in Cells : e \in DOMAIN world[c].ents} IN
           CASE down'[i].removed[e] = "destroyed" -> alive = {}
             [] down'[i].removed[e] = "transferred" -> alive = {Other(down'[i].cell)}
             [] OTHER -> down'[i].cell \in alive]_vars

\* The public bundle always pairs a world with the removal evidence for that
\* world, so no session is ever closed because its frame cannot be projected,
\* except a player's whose first baseline a handoff made obsolete.
ProjectionNeverFails ==
  session.reason = "projection_failed" => /\ role = "player" /\ twoCell
                                          /\ session.resident = NoRoute

\* Once the first baseline is acknowledged, a late acknowledgement is always
\* recognised as the acknowledged, pending or superseded frame: it neither
\* closes the session nor starts a further recovery.  Again the exception is a
\* handoff that overtook a recovery, which forgets the frame superseded before.
LateAcksHarmless ==
  ForeignAck => session.acked.hash = NoView \/ session.pending.overtook

\* When neither the session nor the client has anything left to do, the client
\* sees its cell as it is: no change that was published while a frame was in
\* flight, being recovered or being handed off is lost.  (Motion of a grid that
\* is not due in the last frame may lag.)
Shows(view, w) ==
  /\ view.cell = w.cell
  /\ \A e \in DOMAIN view.ents : e \in DOMAIN w.ents /\ view.ents[e].pay.shape = w.ents[e].shape
  /\ role = "player" => view.private.op = w.op
Quiet ==
  /\ Live /\ down = <<>> /\ up = <<>> /\ session.seen = handoff /\ ~Awaiting(session)
  /\ ~Behind(IF role = "player" THEN feed.player ELSE feed.public, session)
NothingMissed ==
  Quiet => Shows(client.verifier.view,
                 IF role = "player" THEN world[route.cell] ELSE world["origin"])

\* Neither a frame nor a late acknowledgement breaks the session, and no bundle
\* is one that cannot be projected.
SessionHolds == TypeOK /\ FramesAccepted /\ ProjectionNeverFails /\ LateAcksHarmless

\* What the frames say of entities that go is so, and said in time.
DeparturesTrue == RemovalsTellTheTruth /\ OutsideNeverLingers
=============================================================================
