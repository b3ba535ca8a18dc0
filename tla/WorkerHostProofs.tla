-------------------------- MODULE WorkerHostProofs --------------------------
(***************************************************************************)
(* Proofs about WorkerHost for every set of session tasks and of players,  *)
(* every amount of work and every number of failing storage operations.    *)
(*                                                                         *)
(* Neither property is inductive.  That claims follow the sessions needs   *)
(* to know that a session which failed behind the activation gate still    *)
(* holds that gate (otherwise it would leave by the supervisor's exit,     *)
(* with its player claimed), and that a session without a player is bound  *)
(* to the spectator.  That a live session is told needs the same of the    *)
(* session that is being greeted.                                          *)
(***************************************************************************)
EXTENDS WorkerHost, TLAPS

\* Types, with the domains that TypeOK leaves open.
HostTypes ==
  /\ mode \in Modes /\ health \in {"ok", "fenced", "halted"}
  /\ work \in 0..MaxWork /\ faults \in 0..MaxFaults
  /\ authority \in Modes \cup {"fenced"}
  /\ claims \subseteq Players
  /\ gate \in Tasks \cup {Nobody}
  /\ pc \in [Tasks -> SupervisorPlaces \cup SessionPlaces \cup SharedPlaces]
  /\ player \in [Sessions -> Players \cup {Spectator}]

\* The flags.
FlagTypes ==
  /\ open \in BOOLEAN /\ recent \in BOOLEAN /\ woken \in BOOLEAN
  /\ unseen \in [Sessions -> BOOLEAN]

\* Each task is at a place of its own kind.
PlacesInv ==
  /\ pc[Sup] \in SupervisorPlaces \cup SharedPlaces
  /\ \A s \in Sessions : pc[s] \in SessionPlaces \cup SharedPlaces

\* Between taking and dropping the activation gate a task is its holder.
GateInv ==
  /\ \A t \in Tasks : pc[t] \in {"ensure", "step", "publish"} => gate = t
  /\ \A s \in Sessions : pc[s] = "fence" => gate = s

\* The claims are those of the sessions that hold a player, one each.
ClaimInv ==
  /\ \A s \in Sessions : pc[s] \in {"off", "hello"} => player[s] = Spectator
  /\ \A s \in Sessions : player[s] \in Players => player[s] \in claims
  /\ \A p \in claims : \E s \in Sessions : player[s] = p
  /\ \A s, t \in Sessions : player[s] \in Players /\ player[s] = player[t] => s = t

\* From the greeting on a session will see a status that ends it.
ToldInv ==
  \A s \in Sessions :
    pc[s] \in {"greet", "live"} /\ authority \notin {"active", "activating"} => unseen[s]

HostInv == HostTypes /\ FlagTypes /\ PlacesInv /\ GateInv /\ ClaimInv /\ ToldInv

\* EnterGate preserves the invariant.
LEMMA EnterGateKeeps ==
  ASSUME NEW t \in Tasks, HostInv, EnterGate(t)
  PROVE  HostInv'
<1> USE HostAssumption DEF HostInv, EnterGate, At, Goto, cellVars, peopleVars
<1>1. HostTypes'
  BY DEF HostTypes, Tasks, Modes, SupervisorPlaces, SessionPlaces, SharedPlaces
<1>6. FlagTypes'
  BY DEF FlagTypes
<1>2. PlacesInv'
  BY DEF HostTypes, PlacesInv, Tasks, SupervisorPlaces, SessionPlaces, SharedPlaces
<1>3. GateInv'
  <2>1. Nobody \notin Tasks
    BY DEF Tasks, Nobody, Sup
  <2>2. \A u \in Tasks : pc[u] \notin {"ensure", "step", "publish"}
    BY <2>1 DEF GateInv
  <2>3. \A u \in Sessions : pc[u] # "fence"
    BY <2>1 DEF GateInv, Tasks
  <2> QED BY <2>2, <2>3 DEF HostTypes, GateInv, Tasks
<1>4. ClaimInv'
  BY DEF HostTypes, PlacesInv, GateInv, ClaimInv, Tasks
<1>5. ToldInv'
  BY DEF HostTypes, PlacesInv, GateInv, ToldInv, FlagTypes, Tasks
<1> QED BY <1>1, <1>2, <1>3, <1>4, <1>5, <1>6

\* CheckActive preserves the invariant.
LEMMA CheckActiveKeeps ==
  ASSUME NEW t \in Tasks, HostInv, CheckActive(t)
  PROVE  HostInv'
<1> USE HostAssumption DEF HostInv, CheckActive, At, Goto, Returned, cellVars, peopleVars
<1>1. HostTypes'
  BY DEF HostTypes, Tasks, Modes, SupervisorPlaces, SessionPlaces, SharedPlaces
<1>6. FlagTypes'
  BY DEF FlagTypes
<1>2. PlacesInv'
  BY DEF HostTypes, PlacesInv, Tasks, SupervisorPlaces, SessionPlaces, SharedPlaces
<1>3. GateInv'
  BY DEF HostTypes, PlacesInv, GateInv, Tasks, SupervisorPlaces, SessionPlaces, SharedPlaces
<1>4. ClaimInv'
  BY DEF HostTypes, PlacesInv, GateInv, ClaimInv, Tasks
<1>5. ToldInv'
  BY DEF HostTypes, PlacesInv, GateInv, ToldInv, FlagTypes, Tasks
<1> QED BY <1>1, <1>2, <1>3, <1>4, <1>5, <1>6

\* OpenFails preserves the invariant.
LEMMA OpenFailsKeeps ==
  ASSUME NEW t \in Tasks, HostInv, OpenFails(t)
  PROVE  HostInv'
<1> USE HostAssumption DEF HostInv, OpenFails, At, Goto, Fails, ReturnedError, Release, NotifyWaiters, cellVars, peopleVars
<1>1. HostTypes'
  BY DEF HostTypes, Tasks, Modes, SupervisorPlaces, SessionPlaces, SharedPlaces
<1>6. FlagTypes'
  BY DEF FlagTypes
<1>2. PlacesInv'
  BY DEF HostTypes, PlacesInv, Tasks, SupervisorPlaces, SessionPlaces, SharedPlaces
<1>3. GateInv'
  BY DEF HostTypes, PlacesInv, GateInv, Tasks, SupervisorPlaces, SessionPlaces, SharedPlaces
<1>4. ClaimInv'
  BY DEF HostTypes, PlacesInv, GateInv, ClaimInv, Tasks
<1>5. ToldInv'
  BY DEF HostTypes, PlacesInv, GateInv, ToldInv, FlagTypes, Tasks
<1> QED BY <1>1, <1>2, <1>3, <1>4, <1>5, <1>6

\* ActivationStep preserves the invariant.
LEMMA ActivationStepKeeps ==
  ASSUME NEW t \in Tasks, HostInv, ActivationStep(t)
  PROVE  HostInv'
<1> USE HostAssumption DEF HostInv, ActivationStep, At, Goto, Send, Found, CaughtUp, Fails, cellVars, peopleVars
<1>1. HostTypes'
  BY DEF HostTypes, Tasks, Modes, SupervisorPlaces, SessionPlaces, SharedPlaces
<1>6. FlagTypes'
  BY DEF FlagTypes
<1>2. PlacesInv'
  BY DEF HostTypes, PlacesInv, Tasks, SupervisorPlaces, SessionPlaces, SharedPlaces
<1>3. GateInv'
  BY DEF HostTypes, PlacesInv, GateInv, Tasks, SupervisorPlaces, SessionPlaces, SharedPlaces
<1>4. ClaimInv'
  BY DEF HostTypes, PlacesInv, GateInv, ClaimInv, Tasks
<1>5. ToldInv'
  BY DEF HostTypes, PlacesInv, GateInv, ToldInv, FlagTypes, Tasks
<1> QED BY <1>1, <1>2, <1>3, <1>4, <1>5, <1>6

\* PublishActive preserves the invariant.
LEMMA PublishActiveKeeps ==
  ASSUME NEW t \in Tasks, HostInv, PublishActive(t)
  PROVE  HostInv'
<1> USE HostAssumption DEF HostInv, PublishActive, At, Goto, Send, NotifyWaiters, Returned, cellVars, peopleVars
<1>1. HostTypes'
  BY DEF HostTypes, Tasks, Modes, SupervisorPlaces, SessionPlaces, SharedPlaces
<1>6. FlagTypes'
  BY DEF FlagTypes
<1>2. PlacesInv'
  BY DEF HostTypes, PlacesInv, Tasks, SupervisorPlaces, SessionPlaces, SharedPlaces
<1>3. GateInv'
  BY DEF HostTypes, PlacesInv, GateInv, Tasks, SupervisorPlaces, SessionPlaces, SharedPlaces
<1>4. ClaimInv'
  BY DEF HostTypes, PlacesInv, GateInv, ClaimInv, Tasks
<1>5. ToldInv'
  BY DEF HostTypes, PlacesInv, GateInv, ToldInv, FlagTypes, Tasks
<1> QED BY <1>1, <1>2, <1>3, <1>4, <1>5, <1>6

\* PublishError preserves the invariant.
LEMMA PublishErrorKeeps ==
  ASSUME NEW t \in Tasks, HostInv, PublishError(t)
  PROVE  HostInv'
<1> USE HostAssumption DEF HostInv, PublishError, At, Goto, Send, Quiet, PublishFenced, ReturnedError, Release, NotifyWaiters, cellVars, peopleVars
<1>1. HostTypes'
  BY DEF HostTypes, Tasks, Modes, SupervisorPlaces, SessionPlaces, SharedPlaces
<1>6. FlagTypes'
  BY DEF FlagTypes
<1>2. PlacesInv'
  BY DEF HostTypes, PlacesInv, GateInv, Tasks, SupervisorPlaces, SessionPlaces, SharedPlaces
<1>3. GateInv'
  BY DEF HostTypes, PlacesInv, GateInv, Tasks, SupervisorPlaces, SessionPlaces, SharedPlaces
<1>4. ClaimInv'
  BY DEF HostTypes, PlacesInv, GateInv, ClaimInv, Tasks
<1>5. ToldInv'
  BY DEF HostTypes, PlacesInv, GateInv, ToldInv, FlagTypes, Tasks
<1> QED BY <1>1, <1>2, <1>3, <1>4, <1>5, <1>6

\* SupervisorReads preserves the invariant.
LEMMA SupervisorReadsKeeps ==
  ASSUME HostInv, SupervisorReads
  PROVE  HostInv'
<1> USE HostAssumption DEF HostInv, SupervisorReads, At, Goto, cellVars, peopleVars
<1>1. HostTypes'
  BY DEF HostTypes, Tasks, Modes, SupervisorPlaces, SessionPlaces, SharedPlaces
<1>6. FlagTypes'
  BY DEF FlagTypes
<1>2. PlacesInv'
  BY DEF HostTypes, PlacesInv, Tasks, SupervisorPlaces, SessionPlaces, SharedPlaces
<1>3. GateInv'
  BY DEF HostTypes, PlacesInv, GateInv, Tasks, SupervisorPlaces, SessionPlaces, SharedPlaces
<1>4. ClaimInv'
  BY DEF HostTypes, PlacesInv, GateInv, ClaimInv, Tasks
<1>5. ToldInv'
  BY DEF HostTypes, PlacesInv, GateInv, ToldInv, FlagTypes, Tasks
<1> QED BY <1>1, <1>2, <1>3, <1>4, <1>5, <1>6

\* SupervisorTick preserves the invariant.
LEMMA SupervisorTickKeeps ==
  ASSUME HostInv, SupervisorTick
  PROVE  HostInv'
<1> USE HostAssumption DEF HostInv, SupervisorTick, At, Goto, cellVars, peopleVars
<1>1. HostTypes'
  BY DEF HostTypes, Tasks, Modes, SupervisorPlaces, SessionPlaces, SharedPlaces
<1>6. FlagTypes'
  BY DEF FlagTypes
<1>2. PlacesInv'
  BY DEF HostTypes, PlacesInv, Tasks, SupervisorPlaces, SessionPlaces, SharedPlaces
<1>3. GateInv'
  BY DEF HostTypes, PlacesInv, GateInv, Tasks, SupervisorPlaces, SessionPlaces, SharedPlaces
<1>4. ClaimInv'
  BY DEF HostTypes, PlacesInv, GateInv, ClaimInv, Tasks
<1>5. ToldInv'
  BY DEF HostTypes, PlacesInv, GateInv, ToldInv, FlagTypes, Tasks
<1> QED BY <1>1, <1>2, <1>3, <1>4, <1>5, <1>6

\* AnnounceDrain preserves the invariant.
LEMMA AnnounceDrainKeeps ==
  ASSUME HostInv, AnnounceDrain
  PROVE  HostInv'
<1> USE HostAssumption DEF HostInv, AnnounceDrain, At, Goto, Send, cellVars, peopleVars
<1>1. HostTypes'
  BY DEF HostTypes, Tasks, Modes, SupervisorPlaces, SessionPlaces, SharedPlaces
<1>6. FlagTypes'
  BY DEF FlagTypes
<1>2. PlacesInv'
  BY DEF HostTypes, PlacesInv, Tasks, SupervisorPlaces, SessionPlaces, SharedPlaces
<1>3. GateInv'
  BY DEF HostTypes, PlacesInv, GateInv, Tasks, SupervisorPlaces, SessionPlaces, SharedPlaces
<1>4. ClaimInv'
  BY DEF HostTypes, PlacesInv, GateInv, ClaimInv, Tasks
<1>5. ToldInv'
  BY DEF HostTypes, PlacesInv, GateInv, ToldInv, FlagTypes, Tasks
<1> QED BY <1>1, <1>2, <1>3, <1>4, <1>5, <1>6

\* Drain preserves the invariant.
LEMMA DrainKeeps ==
  ASSUME HostInv, Drain
  PROVE  HostInv'
<1> USE HostAssumption DEF HostInv, Drain, At, Goto, Send, Quiet, PublishFenced, NotifyWaiters, FallAsleep, DrainRefused, Fails, cellVars, peopleVars
<1>1. HostTypes'
  BY DEF HostTypes, Tasks, Modes, SupervisorPlaces, SessionPlaces, SharedPlaces
<1>6. FlagTypes'
  BY DEF FlagTypes
<1>2. PlacesInv'
  BY DEF HostTypes, PlacesInv, Tasks, SupervisorPlaces, SessionPlaces, SharedPlaces
<1>3. GateInv'
  BY DEF HostTypes, PlacesInv, GateInv, Tasks, SupervisorPlaces, SessionPlaces, SharedPlaces
<1>4. ClaimInv'
  BY DEF HostTypes, PlacesInv, GateInv, ClaimInv, Tasks
<1>5. ToldInv'
  <2> SUFFICES ASSUME NEW s \in Sessions, pc'[s] \in {"greet", "live"},
                      authority' \notin {"active", "activating"}
               PROVE  unseen'[s]
    BY DEF ToldInv
  <2>1. pc[s] \in {"greet", "live"}
    BY DEF HostTypes, Tasks
  <2>2. CASE UNCHANGED <<authority, unseen>>
    BY <2>1, <2>2 DEF ToldInv
  <2>3. CASE unseen' = [x \in Sessions |-> pc[x] # "off"]
    BY <2>1, <2>3
  <2> QED BY <2>2, <2>3
<1> QED BY <1>1, <1>2, <1>3, <1>4, <1>5, <1>6

\* Advance preserves the invariant.
LEMMA AdvanceKeeps ==
  ASSUME HostInv, Advance
  PROVE  HostInv'
<1> USE HostAssumption DEF HostInv, Advance, At, Goto, Send, Quiet, PublishFenced, Fails, cellVars, peopleVars
<1>1. HostTypes'
  BY DEF HostTypes, Tasks, Modes, SupervisorPlaces, SessionPlaces, SharedPlaces
<1>6. FlagTypes'
  BY DEF FlagTypes
<1>2. PlacesInv'
  BY DEF HostTypes, PlacesInv, Tasks, SupervisorPlaces, SessionPlaces, SharedPlaces
<1>3. GateInv'
  BY DEF HostTypes, PlacesInv, GateInv, Tasks, SupervisorPlaces, SessionPlaces, SharedPlaces
<1>4. ClaimInv'
  BY DEF HostTypes, PlacesInv, GateInv, ClaimInv, Tasks
<1>5. ToldInv'
  <2> SUFFICES ASSUME NEW s \in Sessions, pc'[s] \in {"greet", "live"},
                      authority' \notin {"active", "activating"}
               PROVE  unseen'[s]
    BY DEF ToldInv
  <2>1. pc[s] \in {"greet", "live"}
    BY DEF HostTypes, Tasks
  <2>2. CASE UNCHANGED <<authority, unseen>>
    BY <2>1, <2>2 DEF ToldInv
  <2>3. CASE unseen' = [x \in Sessions |-> pc[x] # "off"]
    BY <2>1, <2>3
  <2> QED BY <2>2, <2>3
<1> QED BY <1>1, <1>2, <1>3, <1>4, <1>5, <1>6

\* ProductionWait preserves the invariant.
LEMMA ProductionWaitKeeps ==
  ASSUME HostInv, ProductionWait
  PROVE  HostInv'
<1> USE HostAssumption DEF HostInv, ProductionWait, At, Goto, cellVars, peopleVars
<1>1. HostTypes'
  BY DEF HostTypes, Tasks, Modes, SupervisorPlaces, SessionPlaces, SharedPlaces
<1>6. FlagTypes'
  BY DEF FlagTypes
<1>2. PlacesInv'
  BY DEF HostTypes, PlacesInv, Tasks, SupervisorPlaces, SessionPlaces, SharedPlaces
<1>3. GateInv'
  BY DEF HostTypes, PlacesInv, GateInv, Tasks, SupervisorPlaces, SessionPlaces, SharedPlaces
<1>4. ClaimInv'
  BY DEF HostTypes, PlacesInv, GateInv, ClaimInv, Tasks
<1>5. ToldInv'
  BY DEF HostTypes, PlacesInv, GateInv, ToldInv, FlagTypes, Tasks
<1> QED BY <1>1, <1>2, <1>3, <1>4, <1>5, <1>6

\* WaitEnds preserves the invariant.
LEMMA WaitEndsKeeps ==
  ASSUME HostInv, WaitEnds
  PROVE  HostInv'
<1> USE HostAssumption DEF HostInv, WaitEnds, At, Goto, cellVars, peopleVars
<1>1. HostTypes'
  BY DEF HostTypes, Tasks, Modes, SupervisorPlaces, SessionPlaces, SharedPlaces
<1>6. FlagTypes'
  BY DEF FlagTypes
<1>2. PlacesInv'
  BY DEF HostTypes, PlacesInv, Tasks, SupervisorPlaces, SessionPlaces, SharedPlaces
<1>3. GateInv'
  BY DEF HostTypes, PlacesInv, GateInv, Tasks, SupervisorPlaces, SessionPlaces, SharedPlaces
<1>4. ClaimInv'
  BY DEF HostTypes, PlacesInv, GateInv, ClaimInv, Tasks
<1>5. ToldInv'
  BY DEF HostTypes, PlacesInv, GateInv, ToldInv, FlagTypes, Tasks
<1> QED BY <1>1, <1>2, <1>3, <1>4, <1>5, <1>6

\* Dispatch preserves the invariant.
LEMMA DispatchKeeps ==
  ASSUME HostInv, Dispatch
  PROVE  HostInv'
<1> USE HostAssumption DEF HostInv, Dispatch, At, Goto, Send, Quiet, NotifyWaiters, FallAsleep, Fails, cellVars, peopleVars
<1>1. HostTypes'
  <2>1. work' \in 0..MaxWork /\ faults' \in 0..MaxFaults
    <3>1. work \in 0..MaxWork /\ faults \in 0..MaxFaults
      BY DEF HostTypes
    <3>2. work' = work \/ work' = 0 \/ \E left \in 1..work : work' = left
      OBVIOUS
    <3>3. work' \in 0..MaxWork
      BY <3>1, <3>2
    <3>4. faults' = faults \/ (faults < MaxFaults /\ faults' = faults + 1)
      OBVIOUS
    <3>5. faults' \in 0..MaxFaults
      BY <3>1, <3>4
    <3> QED BY <3>3, <3>5
  <2>2. pc' \in [Tasks -> SupervisorPlaces \cup SessionPlaces \cup SharedPlaces]
    BY DEF HostTypes, Tasks, SupervisorPlaces, SharedPlaces
  <2>3. /\ mode' \in Modes /\ health' \in {"ok", "fenced", "halted"}
        /\ authority' \in Modes \cup {"fenced"}
    BY DEF HostTypes, Modes
  <2> QED BY <2>1, <2>2, <2>3 DEF HostTypes
<1>6. FlagTypes'
  BY DEF FlagTypes
<1>2. PlacesInv'
  BY DEF HostTypes, PlacesInv, Tasks, SupervisorPlaces, SessionPlaces, SharedPlaces
<1>3. GateInv'
  BY DEF HostTypes, PlacesInv, GateInv, Tasks, SupervisorPlaces, SessionPlaces, SharedPlaces
<1>4. ClaimInv'
  BY DEF HostTypes, PlacesInv, GateInv, ClaimInv, Tasks
<1>5. ToldInv'
  BY DEF HostTypes, PlacesInv, GateInv, ToldInv, FlagTypes, Tasks
<1> QED BY <1>1, <1>2, <1>3, <1>4, <1>5, <1>6

\* AwaitSignal preserves the invariant.
LEMMA AwaitSignalKeeps ==
  ASSUME HostInv, AwaitSignal
  PROVE  HostInv'
<1> USE HostAssumption DEF HostInv, AwaitSignal, At, Goto, cellVars, peopleVars
<1>1. HostTypes'
  BY DEF HostTypes, Tasks, Modes, SupervisorPlaces, SessionPlaces, SharedPlaces
<1>6. FlagTypes'
  BY DEF FlagTypes
<1>2. PlacesInv'
  BY DEF HostTypes, PlacesInv, Tasks, SupervisorPlaces, SessionPlaces, SharedPlaces
<1>3. GateInv'
  BY DEF HostTypes, PlacesInv, GateInv, Tasks, SupervisorPlaces, SessionPlaces, SharedPlaces
<1>4. ClaimInv'
  BY DEF HostTypes, PlacesInv, GateInv, ClaimInv, Tasks
<1>5. ToldInv'
  BY DEF HostTypes, PlacesInv, GateInv, ToldInv, FlagTypes, Tasks
<1> QED BY <1>1, <1>2, <1>3, <1>4, <1>5, <1>6

\* SignalArrives preserves the invariant.
LEMMA SignalArrivesKeeps ==
  ASSUME HostInv, SignalArrives
  PROVE  HostInv'
<1> USE HostAssumption DEF HostInv, SignalArrives, At, Goto, cellVars, peopleVars
<1>1. HostTypes'
  BY DEF HostTypes, Tasks, Modes, SupervisorPlaces, SessionPlaces, SharedPlaces
<1>6. FlagTypes'
  BY DEF FlagTypes
<1>2. PlacesInv'
  BY DEF HostTypes, PlacesInv, Tasks, SupervisorPlaces, SessionPlaces, SharedPlaces
<1>3. GateInv'
  BY DEF HostTypes, PlacesInv, GateInv, Tasks, SupervisorPlaces, SessionPlaces, SharedPlaces
<1>4. ClaimInv'
  BY DEF HostTypes, PlacesInv, GateInv, ClaimInv, Tasks
<1>5. ToldInv'
  BY DEF HostTypes, PlacesInv, GateInv, ToldInv, FlagTypes, Tasks
<1> QED BY <1>1, <1>2, <1>3, <1>4, <1>5, <1>6

\* IdleTimePasses preserves the invariant.
LEMMA IdleTimePassesKeeps ==
  ASSUME HostInv, IdleTimePasses
  PROVE  HostInv'
<1> USE HostAssumption DEF HostInv, IdleTimePasses, cellVars, peopleVars
<1>1. HostTypes'
  BY DEF HostTypes, Tasks, Modes, SupervisorPlaces, SessionPlaces, SharedPlaces
<1>6. FlagTypes'
  BY DEF FlagTypes
<1>2. PlacesInv'
  BY DEF HostTypes, PlacesInv, Tasks, SupervisorPlaces, SessionPlaces, SharedPlaces
<1>3. GateInv'
  BY DEF HostTypes, PlacesInv, GateInv, Tasks, SupervisorPlaces, SessionPlaces, SharedPlaces
<1>4. ClaimInv'
  BY DEF HostTypes, PlacesInv, GateInv, ClaimInv, Tasks
<1>5. ToldInv'
  BY DEF HostTypes, PlacesInv, GateInv, ToldInv, FlagTypes, Tasks
<1> QED BY <1>1, <1>2, <1>3, <1>4, <1>5, <1>6

\* Connect preserves the invariant.
LEMMA ConnectKeeps ==
  ASSUME NEW s \in Sessions, HostInv, Connect(s)
  PROVE  HostInv'
<1> USE HostAssumption DEF HostInv, Connect, At, Goto, cellVars, peopleVars
<1>1. HostTypes'
  BY DEF HostTypes, Tasks, Modes, SupervisorPlaces, SessionPlaces, SharedPlaces
<1>6. FlagTypes'
  BY DEF FlagTypes
<1>2. PlacesInv'
  BY DEF HostTypes, PlacesInv, Tasks, SupervisorPlaces, SessionPlaces, SharedPlaces
<1>3. GateInv'
  BY DEF HostTypes, PlacesInv, GateInv, Tasks, SupervisorPlaces, SessionPlaces, SharedPlaces
<1>4. ClaimInv'
  BY DEF HostTypes, PlacesInv, GateInv, ClaimInv, Tasks
<1>5. ToldInv'
  BY DEF HostTypes, PlacesInv, GateInv, ToldInv, FlagTypes, Tasks
<1> QED BY <1>1, <1>2, <1>3, <1>4, <1>5, <1>6

\* HelloSpectator preserves the invariant.
LEMMA HelloSpectatorKeeps ==
  ASSUME NEW s \in Sessions, HostInv, HelloSpectator(s)
  PROVE  HostInv'
<1> USE HostAssumption DEF HostInv, HelloSpectator, At, Goto, Ends, cellVars, peopleVars
<1>1. HostTypes'
  BY DEF HostTypes, Tasks, Modes, SupervisorPlaces, SessionPlaces, SharedPlaces
<1>6. FlagTypes'
  BY DEF FlagTypes
<1>2. PlacesInv'
  BY DEF HostTypes, PlacesInv, Tasks, SupervisorPlaces, SessionPlaces, SharedPlaces
<1>3. GateInv'
  BY DEF HostTypes, PlacesInv, GateInv, Tasks, SupervisorPlaces, SessionPlaces, SharedPlaces
<1>4. ClaimInv'
  BY DEF HostTypes, PlacesInv, GateInv, ClaimInv, Tasks
<1>5. ToldInv'
  BY DEF HostTypes, PlacesInv, GateInv, ToldInv, FlagTypes, Tasks
<1> QED BY <1>1, <1>2, <1>3, <1>4, <1>5, <1>6

\* HandshakeEnds preserves the invariant.
LEMMA HandshakeEndsKeeps ==
  ASSUME NEW s \in Sessions, HostInv, HandshakeEnds(s)
  PROVE  HostInv'
<1> USE HostAssumption DEF HostInv, HandshakeEnds, At, Goto, Ends, cellVars, peopleVars
<1>1. HostTypes'
  BY DEF HostTypes, Tasks, Modes, SupervisorPlaces, SessionPlaces, SharedPlaces
<1>6. FlagTypes'
  BY DEF FlagTypes
<1>2. PlacesInv'
  BY DEF HostTypes, PlacesInv, Tasks, SupervisorPlaces, SessionPlaces, SharedPlaces
<1>3. GateInv'
  BY DEF HostTypes, PlacesInv, GateInv, Tasks, SupervisorPlaces, SessionPlaces, SharedPlaces
<1>4. ClaimInv'
  BY DEF HostTypes, PlacesInv, GateInv, ClaimInv, Tasks
<1>5. ToldInv'
  BY DEF HostTypes, PlacesInv, GateInv, ToldInv, FlagTypes, Tasks
<1> QED BY <1>1, <1>2, <1>3, <1>4, <1>5, <1>6

\* CheckAvailable preserves the invariant.
LEMMA CheckAvailableKeeps ==
  ASSUME NEW s \in Sessions, HostInv, CheckAvailable(s)
  PROVE  HostInv'
<1> USE HostAssumption DEF HostInv, CheckAvailable, At, Goto, Ends, Release, NotifyWaiters, cellVars, peopleVars
<1>1. HostTypes'
  BY DEF HostTypes, Tasks, Modes, SupervisorPlaces, SessionPlaces, SharedPlaces
<1>6. FlagTypes'
  BY DEF FlagTypes
<1>2. PlacesInv'
  BY DEF HostTypes, PlacesInv, Tasks, SupervisorPlaces, SessionPlaces, SharedPlaces
<1>3. GateInv'
  BY DEF HostTypes, PlacesInv, GateInv, Tasks, SupervisorPlaces, SessionPlaces, SharedPlaces
<1>4. ClaimInv'
  BY DEF HostTypes, PlacesInv, GateInv, ClaimInv, Tasks
<1>5. ToldInv'
  BY DEF HostTypes, PlacesInv, GateInv, ToldInv, FlagTypes, Tasks
<1> QED BY <1>1, <1>2, <1>3, <1>4, <1>5, <1>6

\* Greet preserves the invariant.
LEMMA GreetKeeps ==
  ASSUME NEW s \in Sessions, HostInv, Greet(s)
  PROVE  HostInv'
<1> USE HostAssumption DEF HostInv, Greet, At, Goto, Subscribed, cellVars, peopleVars
<1>1. HostTypes'
  BY DEF HostTypes, Tasks, Modes, SupervisorPlaces, SessionPlaces, SharedPlaces
<1>6. FlagTypes'
  BY DEF FlagTypes
<1>2. PlacesInv'
  BY DEF HostTypes, PlacesInv, Tasks, SupervisorPlaces, SessionPlaces, SharedPlaces
<1>3. GateInv'
  BY DEF HostTypes, PlacesInv, GateInv, Tasks, SupervisorPlaces, SessionPlaces, SharedPlaces
<1>4. ClaimInv'
  BY DEF HostTypes, PlacesInv, GateInv, ClaimInv, Tasks
<1>5. ToldInv'
  BY DEF HostTypes, PlacesInv, GateInv, ToldInv, FlagTypes, Tasks
<1> QED BY <1>1, <1>2, <1>3, <1>4, <1>5, <1>6

\* OnAuthority preserves the invariant.
LEMMA OnAuthorityKeeps ==
  ASSUME NEW s \in Sessions, HostInv, OnAuthority(s)
  PROVE  HostInv'
<1> USE HostAssumption DEF HostInv, OnAuthority, At, Goto, cellVars, peopleVars
<1>1. HostTypes'
  BY DEF HostTypes, Tasks, Modes, SupervisorPlaces, SessionPlaces, SharedPlaces
<1>6. FlagTypes'
  BY DEF FlagTypes
<1>2. PlacesInv'
  BY DEF HostTypes, PlacesInv, Tasks, SupervisorPlaces, SessionPlaces, SharedPlaces
<1>3. GateInv'
  BY DEF HostTypes, PlacesInv, GateInv, Tasks, SupervisorPlaces, SessionPlaces, SharedPlaces
<1>4. ClaimInv'
  BY DEF HostTypes, PlacesInv, GateInv, ClaimInv, Tasks
<1>5. ToldInv'
  BY DEF HostTypes, PlacesInv, GateInv, ToldInv, FlagTypes, Tasks
<1> QED BY <1>1, <1>2, <1>3, <1>4, <1>5, <1>6

\* Intent preserves the invariant.
LEMMA IntentKeeps ==
  ASSUME NEW s \in Sessions, HostInv, Intent(s)
  PROVE  HostInv'
<1> USE HostAssumption DEF HostInv, Intent, At, Goto, Send, Quiet, PublishFenced, Fails, cellVars, peopleVars
<1>1. HostTypes'
  BY DEF HostTypes, Tasks, Modes, SupervisorPlaces, SessionPlaces, SharedPlaces
<1>6. FlagTypes'
  BY DEF FlagTypes
<1>2. PlacesInv'
  BY DEF HostTypes, PlacesInv, Tasks, SupervisorPlaces, SessionPlaces, SharedPlaces
<1>3. GateInv'
  BY DEF HostTypes, PlacesInv, GateInv, Tasks, SupervisorPlaces, SessionPlaces, SharedPlaces
<1>4. ClaimInv'
  BY DEF HostTypes, PlacesInv, GateInv, ClaimInv, Tasks
<1>5. ToldInv'
  BY DEF HostTypes, PlacesInv, GateInv, ToldInv, FlagTypes, Tasks
<1> QED BY <1>1, <1>2, <1>3, <1>4, <1>5, <1>6

\* Leave preserves the invariant.
LEMMA LeaveKeeps ==
  ASSUME NEW s \in Sessions, HostInv, Leave(s)
  PROVE  HostInv'
<1> USE HostAssumption DEF HostInv, Leave, At, Goto, cellVars, peopleVars
<1>1. HostTypes'
  BY DEF HostTypes, Tasks, Modes, SupervisorPlaces, SessionPlaces, SharedPlaces
<1>6. FlagTypes'
  BY DEF FlagTypes
<1>2. PlacesInv'
  BY DEF HostTypes, PlacesInv, Tasks, SupervisorPlaces, SessionPlaces, SharedPlaces
<1>3. GateInv'
  BY DEF HostTypes, PlacesInv, GateInv, Tasks, SupervisorPlaces, SessionPlaces, SharedPlaces
<1>4. ClaimInv'
  BY DEF HostTypes, PlacesInv, GateInv, ClaimInv, Tasks
<1>5. ToldInv'
  BY DEF HostTypes, PlacesInv, GateInv, ToldInv, FlagTypes, Tasks
<1> QED BY <1>1, <1>2, <1>3, <1>4, <1>5, <1>6

\* Closed preserves the invariant.
LEMMA ClosedKeeps ==
  ASSUME NEW s \in Sessions, HostInv, Closed(s)
  PROVE  HostInv'
<1> USE HostAssumption DEF HostInv, Closed, At, Goto, Ends, Release, NotifyWaiters, cellVars, peopleVars
<1>1. HostTypes'
  BY DEF HostTypes, Tasks, Modes, SupervisorPlaces, SessionPlaces, SharedPlaces
<1>6. FlagTypes'
  BY DEF FlagTypes
<1>2. PlacesInv'
  BY DEF HostTypes, PlacesInv, Tasks, SupervisorPlaces, SessionPlaces, SharedPlaces
<1>3. GateInv'
  BY DEF HostTypes, PlacesInv, GateInv, Tasks, SupervisorPlaces, SessionPlaces, SharedPlaces
<1>4. ClaimInv'
  BY DEF HostTypes, PlacesInv, GateInv, ClaimInv, Tasks
<1>5. ToldInv'
  BY DEF HostTypes, PlacesInv, GateInv, ToldInv, FlagTypes, Tasks
<1> QED BY <1>1, <1>2, <1>3, <1>4, <1>5, <1>6

\* HelloPlayer preserves the invariant.
LEMMA HelloPlayerKeeps ==
  ASSUME NEW s \in Sessions, NEW p \in Players, HostInv, HelloPlayer(s, p)
  PROVE  HostInv'
<1> USE HostAssumption DEF HostInv, HelloPlayer, At, Goto, Ends, NotifyWaiters, cellVars, peopleVars
<1>1. HostTypes'
  BY DEF HostTypes, Tasks, Modes, SupervisorPlaces, SessionPlaces, SharedPlaces
<1>6. FlagTypes'
  BY DEF FlagTypes
<1>2. PlacesInv'
  BY DEF HostTypes, PlacesInv, Tasks, SupervisorPlaces, SessionPlaces, SharedPlaces
<1>3. GateInv'
  BY DEF HostTypes, PlacesInv, GateInv, Tasks, SupervisorPlaces, SessionPlaces, SharedPlaces
<1>4. ClaimInv'
  BY DEF HostTypes, PlacesInv, GateInv, ClaimInv, Tasks
<1>5. ToldInv'
  BY DEF HostTypes, PlacesInv, GateInv, ToldInv, FlagTypes, Tasks
<1> QED BY <1>1, <1>2, <1>3, <1>4, <1>5, <1>6
-----------------------------------------------------------------------------
(* The theorems *)

\* The invariant holds at the start: no session, no claim, the gate open.
LEMMA HostInit == Init => HostInv
<1> SUFFICES ASSUME Init PROVE HostInv
  OBVIOUS
<1> USE HostAssumption DEF Init
<1>1. HostTypes
  BY DEF HostTypes, Tasks, Modes, SupervisorPlaces, SessionPlaces, SharedPlaces
<1>2. FlagTypes
  BY DEF FlagTypes
<1>3. PlacesInv /\ GateInv /\ ClaimInv /\ ToldInv
  BY DEF PlacesInv, GateInv, ClaimInv, ToldInv, Tasks, SupervisorPlaces, SessionPlaces, SharedPlaces
<1> QED BY <1>1, <1>2, <1>3 DEF HostInv

\* Every step of every task preserves it.
LEMMA HostInductive ==
  ASSUME HostInv, [Next]_vars
  PROVE  HostInv'
<1>1. ASSUME NEW t \in Tasks, Activation(t)
      PROVE  HostInv'
  BY <1>1, EnterGateKeeps, CheckActiveKeeps, OpenFailsKeeps, ActivationStepKeeps,
     PublishActiveKeeps, PublishErrorKeeps DEF Activation
<1>2. CASE Supervise
  BY <1>2, SupervisorReadsKeeps, SupervisorTickKeeps, AnnounceDrainKeeps, DrainKeeps, AdvanceKeeps,
     ProductionWaitKeeps, WaitEndsKeeps, DispatchKeeps, AwaitSignalKeeps, SignalArrivesKeeps
  DEF Supervise
<1>3. ASSUME NEW s \in Sessions, Session(s)
      PROVE  HostInv'
  BY <1>3, ConnectKeeps, HelloSpectatorKeeps, HandshakeEndsKeeps, CheckAvailableKeeps, GreetKeeps,
     OnAuthorityKeeps, IntentKeeps, LeaveKeeps, ClosedKeeps, HelloPlayerKeeps DEF Session
<1>4. CASE IdleTimePasses
  BY <1>4, IdleTimePassesKeeps
<1>5. CASE UNCHANGED vars
  BY <1>5 DEF vars, HostInv, HostTypes, FlagTypes, PlacesInv, GateInv, ClaimInv, ToldInv
<1> QED BY <1>1, <1>2, <1>3, <1>4, <1>5 DEF Next

\* The invariant holds in every behaviour of the worker.
THEOREM HostInvariant == Spec => []HostInv
<1>1. Init => HostInv
  BY HostInit
<1>2. HostInv /\ [Next]_vars => HostInv'
  BY HostInductive
<1> QED BY <1>1, <1>2, PTL DEF Spec

\* claim_player and release_player balance on every path: a player is claimed
\* exactly while one session holds it, whatever fails in between.
THEOREM ClaimsCorrect == Spec => []ClaimsMatchSessions
<1>1. ASSUME HostInv PROVE ClaimsMatchSessions
  <2>1. TypeOK
    BY <1>1 DEF HostInv, HostTypes, FlagTypes, PlacesInv, TypeOK
  <2>2. \A s \in Sessions : Holding(s) <=> player[s] \in Players
    BY <1>1, HostAssumption DEF HostInv, ClaimInv, Holding
  <2>3. claims = {player[s] : s \in {x \in Sessions : Holding(x)}}
    BY <1>1, <2>2 DEF HostInv, HostTypes, ClaimInv
  <2>4. \A s, t \in Sessions : Holding(s) /\ Holding(t) /\ player[s] = player[t] => s = t
    BY <1>1, <2>2 DEF HostInv, ClaimInv
  <2> QED BY <2>1, <2>3, <2>4 DEF ClaimsMatchSessions
<1> QED BY <1>1, HostInvariant, PTL

\* A live session never misses that its cell is gone: the status that ends it
\* is still to be seen, whatever fell between its checks and its loop.
THEOREM SessionsAreToldCorrect == Spec => []SessionsAreTold
<1>1. HostInv => SessionsAreTold
  BY DEF HostInv, ToldInv, SessionsAreTold
<1> QED BY <1>1, HostInvariant, PTL

\* The gate is exclusive: no two tasks are inside ensure_active, a
\* supervisor step or a publication at once.
GateExclusion ==
  \A t, u \in Tasks :
    (/\ pc[t] \in {"ensure", "step", "publish"}
     /\ pc[u] \in {"ensure", "step", "publish"}) => t = u

\* The activation gate admits one task at a time, whatever order the sessions
\* and the supervisor ask for it in.
THEOREM GateExclusive == Spec => []GateExclusion
<1>1. HostInv => GateExclusion
  BY DEF HostInv, GateInv, GateExclusion
<1> QED BY <1>1, HostInvariant, PTL
=============================================================================
