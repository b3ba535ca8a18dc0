------------------------------ MODULE WorkerHost ------------------------------
(***************************************************************************)
(* The single-cell worker process around its runtime (services/            *)
(* simulation-worker lib.rs): the supervisor task that advances, drains    *)
(* and dispatches the cell, and the session tasks that claim a player,     *)
(* wake the cell and leave it again.                                       *)
(*                                                                         *)
(* The tasks run on several threads.  What a task does under the runtime   *)
(* mutex is one step; everything it reads or sends before it takes or      *)
(* after it drops that mutex is a step of its own.  The authority status   *)
(* is a watch channel: a session sees that it changed and the last value,  *)
(* not the values in between.  lifecycle_signal.notify_waiters wakes only  *)
(* a notified() future that already exists.                                *)
(*                                                                         *)
(* What a session shows its client is InterestSession; what the runtime    *)
(* makes durable at each transition is CellStore.  The mode Draining is    *)
(* left in the step that enters it unless a write fails.                   *)
(***************************************************************************)
EXTENDS Naturals, FiniteSets

CONSTANTS Sessions,   \* session tasks the worker may run at a time
          Players,    \* local-development players present in the cell
          MaxWork,    \* bound of the armed production quanta
          MaxFaults   \* how many storage operations may fail

Sup == "supervisor"
Tasks == Sessions \cup {Sup}
Nobody == "nobody"
Spectator == "spectator"

ASSUME HostAssumption ==
  /\ MaxWork \in Nat /\ MaxFaults \in Nat
  /\ Sup \notin Sessions /\ Nobody \notin Sessions /\ Spectator \notin Players

VARIABLES mode,       \* hosted.lifecycle.observed_mode
          open,       \* hosted.runtime is present
          health,     \* "ok", "fenced" (the store refuses writes) or "halted"
          work,       \* armed production quanta
          authority,  \* the authority watch
          unseen,     \* per session: authority.changed() is ready
          claims,     \* connected_players
          recent,     \* last_player_activity is younger than idle_drain_after
          gate,       \* holder of activation_gate
          woken,      \* the supervisor's notified() future was woken
          pc,         \* where each task is
          player,     \* the binding of each session
          faults      \* storage operations that failed

vars == <<mode, open, health, work, authority, unseen, claims, recent, gate, woken,
          pc, player, faults>>
cellVars == <<mode, open, health, work, faults>>
peopleVars == <<claims, recent, player>>

Modes == {"sleeping", "background", "activating", "active", "draining"}
SupervisorPlaces == {"loop", "tick", "idle", "drain", "wait", "timed", "dispatch",
                     "drowsy", "asleep", "failed"}
SessionPlaces == {"off", "hello", "check", "greet", "live", "closing"}
SharedPlaces == {"gate", "ensure", "step", "publish", "fence"}

\* The session holds, or is about to release, the claim of its player.
Holding(s) == player[s] \in Players /\ pc[s] \notin {"off", "hello"}

-----------------------------------------------------------------------------
(* The channels. *)

Send(status) == authority' = status /\ unseen' = [s \in Sessions |-> pc[s] # "off"]
Quiet == UNCHANGED <<authority, unseen>>
PublishFenced == IF authority = "fenced" THEN Quiet ELSE Send("fenced")
NotifyWaiters == woken' = (woken \/ pc[Sup] \in {"timed", "asleep"})

Goto(t, place) == pc' = [pc EXCEPT ![t] = place]
At(t, place) == pc[t] = place

\* The session task ends, and its watch receiver with it.
Ends(s) == Goto(s, "off") /\ unseen' = [unseen EXCEPT ![s] = FALSE]
Fails == faults < MaxFaults /\ faults' = faults + 1

\* Mutant: a session that ends leaves its player claimed.
ReleaseKept(s) == player' = [player EXCEPT ![s] = Spectator] /\ UNCHANGED <<claims, recent, woken>>

\* release_player; a spectator holds no claim.
Release(s) ==
  /\ player' = [player EXCEPT ![s] = Spectator]
  /\ IF player[s] \in Players
     THEN claims' = claims \ {player[s]} /\ recent' = TRUE /\ NotifyWaiters
     ELSE UNCHANGED <<claims, recent, woken>>

-----------------------------------------------------------------------------
(* ensure_active, which sessions and the supervisor share. *)

\* The guard of the activation gate is held until ensure_active returns.
EnterGate(t) ==
  /\ At(t, "gate") /\ gate = Nobody
  /\ gate' = t /\ Goto(t, "ensure")
  /\ UNCHANGED <<cellVars, peopleVars, authority, unseen, woken>>

Returned(t) == Goto(t, IF t = Sup THEN "loop" ELSE "check") /\ gate' = Nobody

\* Mutant: only the supervisor's errors are handled, the player stays claimed.
ReturnedErrorKeeps(t) ==
  /\ gate' = Nobody
  /\ Goto(t, IF t = Sup THEN "failed" ELSE "off")
  /\ player' = IF t = Sup THEN player ELSE [player EXCEPT ![t] = Spectator]
  /\ UNCHANGED <<claims, recent, woken>>

\* An error of ensure_active ends the supervisor; a session releases its player.
ReturnedError(t) ==
  /\ gate' = Nobody
  /\ IF t = Sup THEN Goto(t, "failed") /\ UNCHANGED <<peopleVars, woken>>
                ELSE Goto(t, "off") /\ Release(t)

CheckActive(t) ==
  /\ At(t, "ensure")
  /\ IF authority = "active" THEN Returned(t) ELSE Goto(t, "step") /\ UNCHANGED gate
  /\ UNCHANGED <<cellVars, peopleVars, authority, unseen, woken>>

\* A sleeping host that cannot open its runtime returns without fencing.
OpenFails(t) ==
  /\ At(t, "step") /\ ~open /\ Fails
  /\ ReturnedError(t)
  /\ unseen' = [s \in Sessions |-> unseen[s] /\ s # t]
  /\ UNCHANGED <<mode, open, health, work, authority>>

\* The mode in which the engine's activation_step finds the cell.
Found == IF open THEN mode ELSE "activating"

\* Mutant: the durable wake cut-off is forgotten, so catch-up never ends.
CaughtUpNever(left) == FALSE

\* Catch-up through the cut-off commits some quanta; what remains armed may
\* be due later.
CaughtUp(left) == left \in 0..work

\* activation_step under the runtime mutex.
ActivationStep(t) ==
  /\ At(t, "step")
  /\ Send("activating")
  /\ open' = TRUE
  /\ \/ /\ \/ health = "halted"
           \/ Found \notin {"active", "background", "activating"}
           \/ health = "fenced" /\ Found # "active"
        /\ mode' = Found /\ Goto(t, "fence") /\ UNCHANGED <<health, work, faults>>
     \/ /\ health # "halted" /\ Found = "active"
        /\ mode' = Found /\ Goto(t, "publish") /\ UNCHANGED <<health, work, faults>>
     \/ /\ health = "ok" /\ Found \in {"background", "activating"}
        /\ UNCHANGED health
        /\ \/ /\ \E left \in 0..work : CaughtUp(left) /\ work' = left
              /\ mode' = "active" /\ Goto(t, "publish") /\ UNCHANGED faults
           \/ /\ \E left \in 1..work : left < work /\ work' = left
              /\ mode' = "activating" /\ Goto(t, "ensure") /\ UNCHANGED faults
     \/ /\ health = "ok" /\ Found \in {"background", "activating"}
        /\ Fails /\ health' \in {"fenced", "halted"}
        /\ mode' \in {Found, "activating"} /\ Goto(t, "fence") /\ UNCHANGED work
  /\ UNCHANGED <<peopleVars, gate, woken>>

\* The mutex is dropped before the status is sent.
PublishActive(t) ==
  /\ At(t, "publish")
  /\ Send("active") /\ NotifyWaiters
  /\ Returned(t)
  /\ UNCHANGED <<cellVars, peopleVars>>

\* The same after an error; the supervisor also fences after a failed dispatch.
PublishError(t) ==
  /\ At(t, "fence")
  /\ PublishFenced
  /\ IF gate = t THEN ReturnedError(t)
     ELSE Goto(t, "failed") /\ UNCHANGED <<peopleVars, woken, gate>>
  /\ UNCHANGED cellVars

-----------------------------------------------------------------------------
(* supervise. *)

SupervisorReads ==
  /\ At(Sup, "loop")
  /\ Goto(Sup, CASE mode = "active" -> "tick" [] mode = "background" -> "wait"
                 [] mode = "sleeping" -> "drowsy" [] mode = "activating" -> "gate"
                 [] OTHER -> "loop")
  /\ UNCHANGED <<cellVars, peopleVars, authority, unseen, gate, woken>>

SupervisorTick ==
  /\ At(Sup, "tick")
  /\ claims = {} /\ ~recent
  /\ Goto(Sup, "idle")
  /\ UNCHANGED <<cellVars, peopleVars, authority, unseen, gate, woken>>

\* drain_to_background_or_sleeping announces the drain before it takes the mutex.
AnnounceDrain ==
  /\ At(Sup, "idle")
  /\ Send("draining") /\ Goto(Sup, "drain")
  /\ UNCHANGED <<cellVars, peopleVars, gate, woken>>

\* Releasing the cell closes the runtime.
FallAsleep ==
  /\ mode' = "sleeping" /\ open' = FALSE
  /\ Send("sleeping") /\ NotifyWaiters /\ Goto(Sup, "loop")

DrainRefused == health = "halted" \/ ~open \/ mode # "active"

Drain ==
  /\ At(Sup, "drain")
  /\ \/ /\ health = "ok" /\ ~DrainRefused /\ UNCHANGED <<health, work, faults>>
        /\ IF work = 0 THEN FallAsleep
           ELSE /\ mode' = "background" /\ UNCHANGED open
                /\ Send("background") /\ NotifyWaiters /\ Goto(Sup, "loop")
     \/ /\ DrainRefused \/ health = "fenced"
        /\ PublishFenced /\ Goto(Sup, "failed") /\ UNCHANGED <<cellVars, woken>>
     \/ /\ health = "ok" /\ ~DrainRefused /\ Fails
        /\ mode' \in {"active", "draining"} /\ health' = "fenced"
        /\ PublishFenced /\ Goto(Sup, "failed") /\ UNCHANGED <<open, work, woken>>
  /\ UNCHANGED <<peopleVars, gate>>

\* advance under the runtime mutex; due production is part of it.
Advance ==
  /\ At(Sup, "tick")
  /\ claims # {} \/ recent
  /\ \/ /\ health = "ok" /\ mode = "active" /\ open
        /\ work' \in 0..work /\ Goto(Sup, "loop")
        /\ Quiet /\ UNCHANGED <<health, faults>>
     \/ /\ health = "ok" /\ mode = "active" /\ open /\ Fails
        /\ health' = "halted" /\ PublishFenced /\ Goto(Sup, "failed") /\ UNCHANGED work
     \/ /\ health # "ok"
        /\ health' = "halted" /\ PublishFenced /\ Goto(Sup, "failed")
        /\ UNCHANGED <<work, faults>>
  /\ UNCHANGED <<mode, open, peopleVars, gate, woken>>

\* production_wait_millis: the next occurrence is due now, or the task waits
\* for it with a notified() future created here.
ProductionWait ==
  /\ At(Sup, "wait")
  /\ \/ health = "halted" /\ Goto(Sup, "failed")
     \/ health # "halted" /\ Goto(Sup, "dispatch")
     \/ health # "halted" /\ work > 0 /\ Goto(Sup, "timed")
  /\ UNCHANGED <<cellVars, peopleVars, authority, unseen, gate, woken>>

WaitEnds ==
  /\ At(Sup, "timed")
  /\ Goto(Sup, "dispatch") \/ (woken /\ Goto(Sup, "loop"))
  /\ woken' = FALSE
  /\ UNCHANGED <<cellVars, peopleVars, authority, unseen, gate>>

\* background_dispatch_step: the engine refuses it outside Background.
Dispatch ==
  /\ At(Sup, "dispatch") /\ open
  /\ \/ /\ mode # "background" \/ health # "ok"
        /\ Goto(Sup, "fence") /\ UNCHANGED <<cellVars, woken>> /\ Quiet
     \/ /\ mode = "background" /\ health = "ok" /\ UNCHANGED <<health, faults>>
        /\ \/ work' = 0 /\ FallAsleep
           \/ /\ \E left \in 1..work : left < work /\ work' = left
              /\ Goto(Sup, "loop") /\ UNCHANGED <<mode, open, woken>> /\ Quiet
     \/ /\ mode = "background" /\ health = "ok" /\ Fails
        /\ health' \in {"fenced", "halted"} /\ Goto(Sup, "fence")
        /\ UNCHANGED <<mode, open, work, woken>> /\ Quiet
  /\ UNCHANGED <<peopleVars, gate>>

AwaitSignal ==
  /\ At(Sup, "drowsy")
  /\ Goto(Sup, "asleep")
  /\ UNCHANGED <<cellVars, peopleVars, authority, unseen, gate, woken>>

SignalArrives ==
  /\ At(Sup, "asleep") /\ woken
  /\ Goto(Sup, "loop") /\ woken' = FALSE
  /\ UNCHANGED <<cellVars, peopleVars, authority, unseen, gate>>

IdleTimePasses ==
  /\ recent /\ recent' = FALSE
  /\ UNCHANGED <<cellVars, authority, unseen, claims, gate, woken, pc, player>>

-----------------------------------------------------------------------------
(* websocket_session and complete_handshake. *)

\* The session subscribes first and then asks admission_block_reason.  A
\* failed supervisor shuts the listener down.
Connect(s) ==
  /\ At(s, "off") /\ pc[Sup] # "failed"
  /\ authority \notin {"draining", "fenced"}
  /\ unseen' = [unseen EXCEPT ![s] = FALSE]
  /\ Goto(s, "hello")
  /\ UNCHANGED <<cellVars, peopleVars, authority, gate, woken>>

\* A spectator neither claims nor wakes anything.
HelloSpectator(s) ==
  /\ At(s, "hello")
  /\ IF authority = "active" THEN Goto(s, "check") /\ UNCHANGED unseen ELSE Ends(s)
  /\ UNCHANGED <<cellVars, peopleVars, authority, gate, woken>>

\* claim_player, then ensure_active.
HelloPlayer(s, p) ==
  /\ At(s, "hello")
  /\ IF p \in claims
     THEN Ends(s) /\ UNCHANGED <<peopleVars, woken>>
     ELSE /\ claims' = claims \cup {p} /\ recent' = TRUE /\ NotifyWaiters
          /\ player' = [player EXCEPT ![s] = p]
          /\ Goto(s, "gate") /\ UNCHANGED unseen
  /\ UNCHANGED <<cellVars, authority, gate>>

\* The handshake deadline, a malformed hello or a closed socket.
HandshakeEnds(s) ==
  /\ At(s, "hello") /\ Ends(s)
  /\ UNCHANGED <<cellVars, peopleVars, authority, gate, woken>>

\* unavailable_reason after the handshake.
CheckAvailable(s) ==
  /\ At(s, "check")
  /\ IF authority = "active"
     THEN Goto(s, "greet") /\ UNCHANGED <<peopleVars, woken, unseen>>
     ELSE Ends(s) /\ Release(s)
  /\ UNCHANGED <<cellVars, authority, gate>>

\* Mutant: the session subscribes to the authority when its loop starts.
SubscribedLate(s) == unseen' = [unseen EXCEPT ![s] = FALSE]

\* The subscription taken at the start of the session is the one it uses.
Subscribed(s) == UNCHANGED unseen

\* The first messages are written; their failure is a Leave soon after.
Greet(s) ==
  /\ At(s, "greet") /\ Goto(s, "live")
  /\ Subscribed(s)
  /\ UNCHANGED <<cellVars, peopleVars, authority, gate, woken>>

\* The authority branch of the select loop.
OnAuthority(s) ==
  /\ At(s, "live") /\ unseen[s]
  /\ unseen' = [unseen EXCEPT ![s] = FALSE]
  /\ IF authority \in {"active", "activating"} THEN UNCHANGED pc ELSE Goto(s, "closing")
  /\ UNCHANGED <<cellVars, peopleVars, authority, gate, woken>>

\* execute_as_at of a player's control, under the runtime mutex.
Intent(s) ==
  /\ At(s, "live") /\ player[s] \in Players
  /\ \/ /\ ~open \/ mode # "active"
        /\ Goto(s, "closing") /\ UNCHANGED cellVars
        /\ IF open /\ health = "halted" THEN PublishFenced ELSE Quiet
     \/ /\ open /\ mode = "active" /\ health = "ok"
        /\ work' \in {w \in {work, work + 1} : w <= MaxWork}
        /\ Quiet /\ UNCHANGED <<mode, open, health, faults, pc>>
     \/ /\ open /\ mode = "active"
        /\ \/ health # "ok" /\ UNCHANGED faults
           \/ health = "ok" /\ Fails
        /\ health' = "halted" /\ PublishFenced /\ Goto(s, "closing")
        /\ UNCHANGED <<mode, open, work>>
  /\ UNCHANGED <<peopleVars, gate, woken>>

\* The client closes, or the transport gives the session up.
Leave(s) ==
  /\ At(s, "live") /\ Goto(s, "closing")
  /\ UNCHANGED <<cellVars, peopleVars, authority, unseen, gate, woken>>

\* The fatal message has been written, or its timeout has passed.
Closed(s) ==
  /\ At(s, "closing")
  /\ Release(s) /\ Ends(s)
  /\ UNCHANGED <<cellVars, authority, gate>>

-----------------------------------------------------------------------------
Init ==
  /\ mode \in {"sleeping", "background", "activating", "active"}
  /\ open = (mode # "sleeping")
  /\ work \in IF mode = "sleeping" THEN {0} ELSE 0..MaxWork
  /\ health = "ok" /\ authority = mode
  /\ unseen = [s \in Sessions |-> FALSE]
  /\ claims = {} /\ recent = TRUE /\ gate = Nobody /\ woken = FALSE
  /\ pc = [t \in Tasks |-> IF t = Sup THEN "loop" ELSE "off"]
  /\ player = [s \in Sessions |-> Spectator]
  /\ faults = 0

Activation(t) ==
  EnterGate(t) \/ CheckActive(t) \/ OpenFails(t) \/ ActivationStep(t)
    \/ PublishActive(t) \/ PublishError(t)

Supervise ==
  \/ SupervisorReads \/ SupervisorTick \/ AnnounceDrain \/ Drain \/ Advance
  \/ ProductionWait \/ WaitEnds \/ Dispatch \/ AwaitSignal \/ SignalArrives

Session(s) ==
  \/ Connect(s) \/ HelloSpectator(s) \/ HandshakeEnds(s) \/ CheckAvailable(s)
  \/ Greet(s) \/ OnAuthority(s) \/ Intent(s) \/ Leave(s) \/ Closed(s)
  \/ \E p \in Players : HelloPlayer(s, p)

Next ==
  \/ \E t \in Tasks : Activation(t)
  \/ Supervise
  \/ \E s \in Sessions : Session(s)
  \/ IdleTimePasses

Spec == Init /\ [][Next]_vars

\* The runtime schedules every task that can run; the activation gate is a
\* tokio Mutex and serves its waiters in order; handshakes have a deadline,
\* closing writes a timeout, and idle time passes.
Fairness ==
  /\ \A t \in Tasks :
       SF_vars(EnterGate(t) \/ CheckActive(t) \/ ActivationStep(t) \/ PublishActive(t)
                 \/ PublishError(t))
  /\ WF_vars(Supervise)
  /\ \A s \in Sessions :
       WF_vars(HandshakeEnds(s) \/ CheckAvailable(s) \/ Greet(s) \/ OnAuthority(s) \/ Closed(s))
  /\ WF_vars(IdleTimePasses)

FairSpec == Spec /\ Fairness

-----------------------------------------------------------------------------
(* Properties. *)

TypeOK ==
  /\ mode \in Modes /\ open \in BOOLEAN /\ health \in {"ok", "fenced", "halted"}
  /\ work \in 0..MaxWork /\ faults \in 0..MaxFaults
  /\ authority \in Modes \cup {"fenced"}
  /\ claims \subseteq Players /\ recent \in BOOLEAN /\ woken \in BOOLEAN
  /\ gate \in Tasks \cup {Nobody}
  /\ pc[Sup] \in SupervisorPlaces \cup SharedPlaces
  /\ \A s \in Sessions : /\ pc[s] \in SessionPlaces \cup SharedPlaces
                         /\ player[s] \in Players \cup {Spectator}
                         /\ unseen[s] \in BOOLEAN

\* A player is claimed exactly while one session holds it: no error path of
\* the handshake, of the activation or of the session leaks a claim (the player
\* could never connect again and the cell never drain), and no two sessions
\* control one player.
ClaimsMatchSessions ==
  /\ TypeOK
  /\ claims = {player[s] : s \in {x \in Sessions : Holding(x)}}
  /\ \A s, t \in Sessions : Holding(s) /\ Holding(t) /\ player[s] = player[t] => s = t

\* A session that went live is always told when the cell stops being available:
\* whatever falls between its checks and its loop, a status other than Active or
\* Activating is still to be seen by it.
SessionsAreTold ==
  \A s \in Sessions :
    pc[s] = "live" /\ authority \notin {"active", "activating"} => unseen[s]

\* Admission ends: a player who claimed gets the cell or an answer, however
\* many sessions and the supervisor compete for the activation.  (Sessions are
\* interchangeable, so one of them stands for all.)
AdmissionEnds ==
  LET s == CHOOSE x \in Sessions : TRUE
  IN  pc[s] \in SharedPlaces ~> pc[s] \in {"live", "off"}

\* A cell nobody uses goes to sleep once its production is done, unless the
\* supervisor failed or slept through the wake-up of a session that came
\* and left between its reading of the mode and its call of notified().
UnusedCellSleeps ==
  <>[](\A s \in Sessions : pc[s] = "off")
    => <>[](\/ mode = "sleeping"
            \/ pc[Sup] = "failed"
            \/ pc[Sup] = "asleep" /\ ~woken)

\* Gameplay admission during Background wakes the cell: the supervisor, and the
\* server with it, stops only because some storage operation failed.
WakeIsNoFailure == pc[Sup] = "failed" => faults > 0
=============================================================================
