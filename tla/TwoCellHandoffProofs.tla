------------------------ MODULE TwoCellHandoffProofs ------------------------
(***************************************************************************)
(* Proofs about TwoCellHandoff, for every number of cells, players and     *)
(* transfers and every number of crashes and failed writes: the cells, the *)
(* artifacts and the directory file fit together at every crash point, and *)
(* one cell at most lets a player act.                                     *)
(*                                                                         *)
(* Neither is inductive.  What a cell event may do was decided by the      *)
(* directory writes before it, so the invariant says, for each phase of a  *)
(* transfer, which of its cell events can have happened and what each has  *)
(* left in the cell (LedgersInv), where the player of an unfinished        *)
(* transfer is present and locked (PlayersInv), and why no second transfer *)
(* starts beside it (ControlInv): an unfinished transfer is the task of    *)
(* the coordinator, is pending in its opening, or keeps it from being      *)
(* ready.                                                                  *)
(*                                                                         *)
(* Further, that no crash, failed write or takeover brings                 *)
(* reconcile_transfer (crates/verse-simulation/src/two_cell.rs) to a step  *)
(* that its own checks refuse, which rests on how the files of a transfer  *)
(* agree (SagaInv), and that the coordinator implements PlayerAuthority.   *)
(***************************************************************************)
EXTENDS TwoCellHandoff, CellDirectoryProofs

Known(t)      == disk.transfers[t].phase # "Absent"
Unfinished(t) == disk.transfers[t].phase \notin Terminal \cup {"Absent"}

Event(c, t, kind) == world[c].boundary[t][kind].event

(* The coordinator.                                                        *)
ControlInv ==
    /\ stage = "down" => ~open /\ task = None /\ ~failed
    /\ stage # "down" => open
    /\ failed => task = None
    /\ ~failed => doc = disk
    /\ \A t \in pending : Known(t)
    /\ task # None => package[task] # None
    /\ stage = "opening" /\ task # None => Known(task) /\ assigned = Cells
    /\ \A t \in Transfers : Known(t) => package[t] # None
    /\ \A t \in Transfers : Unfinished(t) =>
          stage = "down" \/ failed \/ task = t \/ (stage = "opening" /\ t \in pending)

OneAtATime == \A t, u \in Transfers : Unfinished(t) /\ Unfinished(u) => t = u

(* Fences only grow, and each boundary keeps the one it was written under. *)
BoundariesInv ==
    \A c \in Cells :
        /\ disk.assignments[c].fence <= world[c].fence
        /\ \A t \in Transfers, kind \in Kinds :
              /\ world[c].boundary[t][kind].fence <= world[c].fence
              /\ kind \notin {"Quarantine", "Import"} =>
                    world[c].boundary[t][kind].receipt = None

(* No cell knows a transfer that the directory does not.                   *)
Untouched(t) ==
    \A c \in Cells :
        /\ \A kind \in Kinds : Event(c, t, kind) = 0
        /\ world[c].witness[t] = "None"
        /\ world[c].reservation[t] = None
        /\ \A p \in Aggregates : world[c].lock[p] # t

(* The events of a transfer, what they left, and the phases they need.     *)
Ledger(t) ==
    LET r == disk.transfers[t]
        s == r.source
        d == r.destination
        locked == world[s].lock[r.aggregate] = t
    IN  /\ Event(d, t, "Import") # 0 <=> world[d].witness[t] = "Import"
        /\ Event(s, t, "Export") # 0 <=> world[s].witness[t] = "Export"
        /\ Event(d, t, "Import") # 0 => r.phase \in PostCommit
        /\ Event(s, t, "Export") # 0 => r.phase \in {"Imported", "Finalized"} /\ ~locked
        /\ Event(s, t, "Prepare") # 0 /\ r.phase \in PreCommit => locked
        /\ r.phase = "Committed" => locked
        /\ r.phase = "Imported" /\ Event(s, t, "Export") = 0 => locked
        /\ Event(s, t, "AbortSource") # 0 => r.phase \in {"Aborting", "Aborted"} /\ ~locked
        /\ Event(d, t, "AbortDestination") # 0 =>
              r.phase \in {"Aborting", "Aborted"} /\ world[d].reservation[t] = None
        /\ r.phase \in Terminal => ~locked

LedgersInv ==
    \A t \in Transfers : IF Known(t) THEN Ledger(t) ELSE Untouched(t)

(* The player of an unfinished transfer: at the source until its export,   *)
(* at the destination from its import, locked at the source if at all.     *)
Carried(t) ==
    LET r == disk.transfers[t]
        p == r.aggregate
    IN  /\ r.phase = "Imported" => disk.placements[p].cell = r.destination
        /\ \A c \in Cells :
              /\ Present(c, p) <=> \/ c = r.source /\ Event(c, t, "Export") = 0
                                   \/ c = r.destination /\ Event(c, t, "Import") # 0
              /\ world[c].lock[p] # None => world[c].lock[p] = t /\ c = r.source

(* Any other player: in one cell, where it is placed, and not locked.      *)
Idle(p) ==
    \E c \in Cells :
        /\ disk.placements[p].state # "Absent" => disk.placements[p].cell = c
        /\ \A d \in Cells : /\ Present(d, p) <=> d = c
                            /\ world[d].lock[p] = None

PlayersInv ==
    /\ \A t \in Transfers : Unfinished(t) => Carried(t)
    /\ \A p \in Aggregates :
          (\A t \in Transfers : Unfinished(t) => disk.transfers[t].aggregate # p) => Idle(p)

(* What relates the directory file and the cells.                          *)
DataInv == OneAtATime /\ BoundariesInv /\ LedgersInv /\ PlayersInv /\ ProofsAreCellEvents

HandoffInv == DirectoryFull /\ TypeOKHandoff /\ ControlInv /\ DataInv

-----------------------------------------------------------------------------
(* The worlds of the cells.                                                *)

(* What an event with its boundary changes in a world.                     *)
LEMMA RecordedFields ==
    ASSUME NEW w \in World, NEW t \in Transfers, NEW kind \in Kinds,
           NEW rcpt \in Receipts \cup {None}, w.sequence + 1 \in Events
    PROVE  LET e == Recorded(w, t, kind, rcpt) IN
           /\ e \in World
           /\ e.fence = w.fence
           /\ e.player = w.player /\ e.lock = w.lock
           /\ e.reservation = w.reservation /\ e.witness = w.witness
           /\ e.boundary[t][kind].event # 0
           /\ e.boundary[t][kind].fence = w.fence
           /\ e.boundary[t][kind].receipt = rcpt
           /\ \A u \in Transfers, k \in Kinds :
                 u # t \/ k # kind => e.boundary[u][k] = w.boundary[u][k]
<1> DEFINE b  == [event |-> w.sequence + 1, fence |-> w.fence, receipt |-> rcpt]
           bs == [w.boundary EXCEPT ![t] = [@ EXCEPT ![kind] = b]]
           e  == Recorded(w, t, kind, rcpt)
<1>1. b \in Boundary /\ b.event # 0 /\ b.fence = w.fence /\ b.receipt = rcpt
  BY DirectoryAssumption DEF World, Boundary
<1> HIDE DEF b
<1>2. w.boundary \in [Transfers -> [Kinds -> Boundary]]
  BY DEF World
<1>3. /\ bs \in [Transfers -> [Kinds -> Boundary]]
      /\ bs[t][kind] = b
      /\ \A u \in Transfers, k \in Kinds : u # t \/ k # kind => bs[u][k] = w.boundary[u][k]
  BY <1>1, <1>2
<1>4. e.boundary = bs
  BY DEF Recorded, World, b
<1>5. e = [w EXCEPT !.sequence = w.sequence + 1, !.boundary = bs]
  <2>1. e = [w EXCEPT !.sequence = w.sequence + 1, !.boundary = e.boundary]
    BY DEF Recorded, World
  <2> QED BY <1>4, <2>1
<1> HIDE DEF e, bs
<1>6. e \in World
  BY <1>3, <1>5, Zenon DEF World
<1>7. /\ e.fence = w.fence
      /\ e.player = w.player /\ e.lock = w.lock
      /\ e.reservation = w.reservation /\ e.witness = w.witness
  BY <1>5 DEF World
<1> QED BY <1>1, <1>3, <1>4, <1>6, <1>7 DEF e

(* A committed event replaces the world of its cell or changes no world.   *)
LEMMA CommitEventFrame ==
    ASSUME TypeOKHandoff, NEW c \in Cells, NEW w, w \in World, NEW o, CommitEvent(c, w, o)
    PROVE  /\ world' \in [Cells -> World]
           /\ halt' \in [Cells -> {"no", "seen", "unseen"}]
           /\ \/ world' = world
              \/ world'[c] = w /\ \A e \in Cells \ {c} : world'[e] = world[e]
BY DEF TypeOKHandoff, CommitEvent

(* What the staging functions leave alone, and what they change.           *)
Staged(w, e) ==
    e \in World /\ e.sequence = w.sequence /\ e.fence = w.fence /\ e.boundary = w.boundary

LEMMA LockFields ==
    ASSUME NEW w \in World, NEW t \in Transfers, NEW k \in Package
    PROVE  LET e == StagePreparedLock(w, t, k) IN
           /\ Staged(w, e)
           /\ e.player = w.player
           /\ e.reservation = w.reservation
           /\ e.witness = w.witness
           /\ e.lock = [w.lock EXCEPT ![k.player] = t]
BY Zenon DEF StagePreparedLock, Staged, World, Package

LEMMA QuarantineFields ==
    ASSUME NEW w \in World, NEW t \in Transfers, NEW k \in Package,
           ReceiptFor(w, t) \in Receipts
    PROVE  LET e == StageQuarantine(w, t) IN
           /\ Staged(w, e)
           /\ e.player = w.player
           /\ e.lock = w.lock
           /\ e.witness = w.witness
           /\ e.reservation = [w.reservation EXCEPT ![t] = ReceiptFor(w, t)]
BY Zenon DEF StageQuarantine, Staged, World, Package

LEMMA ImportFields ==
    ASSUME NEW w \in World, NEW t \in Transfers, NEW k \in Package
    PROVE  LET e == StageImport(w, t, k) IN
           /\ Staged(w, e)
           /\ e.player = [w.player EXCEPT ![k.player] = k.closure]
           /\ e.lock = w.lock
           /\ e.reservation = [w.reservation EXCEPT ![t] = None]
           /\ e.witness = [w.witness EXCEPT ![t] = "Import"]
BY Zenon DEF StageImport, Staged, World, Package

LEMMA ExportFields ==
    ASSUME NEW w \in World, NEW t \in Transfers, NEW k \in Package
    PROVE  LET e == StageExport(w, t, k) IN
           /\ Staged(w, e)
           /\ e.player = [w.player EXCEPT ![k.player] = None]
           /\ e.lock = [w.lock EXCEPT ![k.player] = None]
           /\ e.reservation = w.reservation
           /\ e.witness = [w.witness EXCEPT ![t] = "Export"]
BY Zenon DEF StageExport, Staged, World, Package

LEMMA UnlockFields ==
    ASSUME NEW w \in World, NEW t \in Transfers, NEW k \in Package
    PROVE  LET e == StageAbortedSource(w, k) IN
           /\ Staged(w, e)
           /\ e.player = w.player
           /\ e.reservation = w.reservation
           /\ e.witness = w.witness
           /\ e.lock = [w.lock EXCEPT ![k.player] = None]
BY Zenon DEF StageAbortedSource, Staged, World, Package

LEMMA ReleaseFields ==
    ASSUME NEW w \in World, NEW t \in Transfers, NEW k \in Package
    PROVE  LET e == StageAbortedDestination(w, t) IN
           /\ Staged(w, e)
           /\ e.player = w.player
           /\ e.lock = w.lock
           /\ e.witness = w.witness
           /\ e.reservation = [w.reservation EXCEPT ![t] = None]
BY Zenon DEF StageAbortedDestination, Staged, World, Package

-----------------------------------------------------------------------------
(* How the invariant is kept.                                              *)

(* The types that all steps rest on.                                       *)
LEMMA HandoffTypes ==
    ASSUME HandoffInv
    PROVE  /\ disk \in Document /\ doc \in Document
           /\ \A t \in Transfers : disk.transfers[t] \in Transfer
           /\ \A p \in Aggregates : disk.placements[p] \in Placement
           /\ \A c \in Cells : disk.assignments[c] \in Assignment
           /\ \A c \in Cells : world[c] \in World
BY GetTypes DEF HandoffInv, TypeOKHandoff, TypeOK

(* A step that changes no world and no transfer.                           *)
LEMMA TransfersKeep ==
    ASSUME DataInv, UNCHANGED world, disk'.transfers = disk.transfers,
           \A c \in Cells : disk'.assignments[c].fence <= world[c].fence,
           PlayersInv'
    PROVE  DataInv'
<1> USE DEF DataInv
<1>1. OneAtATime'
  BY DEF OneAtATime, Unfinished
<1>2. BoundariesInv'
  BY DEF BoundariesInv
<1>3. LedgersInv'
  <2> SUFFICES ASSUME NEW t \in Transfers
               PROVE  IF Known(t)' THEN Ledger(t)' ELSE Untouched(t)'
    BY DEF LedgersInv
  <2>1. IF Known(t) THEN Ledger(t) ELSE Untouched(t)
    BY DEF LedgersInv
  <2>2. Known(t)' = Known(t) /\ Ledger(t)' = Ledger(t) /\ Untouched(t)' = Untouched(t)
    BY DEF Known, Ledger, Untouched, Event
  <2> QED BY <2>1, <2>2
<1>4. ProofsAreCellEvents'
  <2>1. \A t \in Transfers : ExactProofs(t)' = ExactProofs(t)
    BY DEF ExactProofs, ExactEvent, ProofOf
  <2> QED BY <2>1 DEF ProofsAreCellEvents
<1> QED BY <1>1, <1>2, <1>3, <1>4

LEMMA AssignmentsKeep ==
    ASSUME DataInv, UNCHANGED world, disk'.transfers = disk.transfers,
           disk'.placements = disk.placements,
           \A c \in Cells : disk'.assignments[c].fence <= world[c].fence
    PROVE  DataInv'
<1>1. PlayersInv'
  BY DEF DataInv, PlayersInv, Unfinished, Carried, Idle, Present, Event
<1> QED BY <1>1, TransfersKeep

LEMMA NothingKeeps ==
    ASSUME DataInv, UNCHANGED <<world, disk>>
    PROVE  DataInv'
BY AssignmentsKeep DEF DataInv, BoundariesInv

(* A step that changes of the worlds only fences, which grow, and what     *)
(* players did.                                                            *)
LEMMA WorldsKeep ==
    ASSUME HandoffInv, UNCHANGED disk,
           \A c \in Cells :
               /\ world'[c].fence \in Nat /\ world[c].fence <= world'[c].fence
               /\ world'[c].lock = world[c].lock
               /\ world'[c].reservation = world[c].reservation
               /\ world'[c].witness = world[c].witness
               /\ world'[c].boundary = world[c].boundary
               /\ \A p \in Aggregates :
                     world'[c].player[p] # None <=> world[c].player[p] # None
    PROVE  DataInv'
<1>1. DataInv
  BY DEF HandoffInv
<1>2. /\ \A c \in Cells : world[c] \in World /\ disk.assignments[c] \in Assignment
      /\ \A t \in Transfers : disk.transfers[t] \in Transfer
  BY HandoffTypes
<1>3. \A c \in Cells : /\ world[c].fence \in Nat /\ disk.assignments[c].fence \in Nat
                       /\ \A t \in Transfers, kind \in Kinds :
                             world[c].boundary[t][kind].fence \in Nat
  BY <1>2 DEF World, Boundary, Assignment
<1>4. OneAtATime'
  BY <1>1 DEF DataInv, OneAtATime, Unfinished
<1>5. BoundariesInv'
  BY <1>1, <1>3 DEF DataInv, BoundariesInv
<1>6. LedgersInv'
  <2> SUFFICES ASSUME NEW t \in Transfers
               PROVE  IF Known(t)' THEN Ledger(t)' ELSE Untouched(t)'
    BY DEF LedgersInv
  <2>1. IF Known(t) THEN Ledger(t) ELSE Untouched(t)
    BY <1>1 DEF DataInv, LedgersInv
  <2>2. Ledger(t) => Ledger(t)'
    BY <1>2, ZenonT(60) DEF Ledger, Event, Transfer
  <2>3. Untouched(t) => Untouched(t)'
    BY DEF Untouched, Event
  <2> QED BY <2>1, <2>2, <2>3 DEF Known
<1>7. PlayersInv'
  <2>1. ASSUME NEW t \in Transfers, Carried(t)
        PROVE  Carried(t)'
    BY <1>2, <2>1 DEF Carried, Event, Present, Transfer
  <2>2. ASSUME NEW p \in Aggregates, Idle(p)
        PROVE  Idle(p)'
    BY <2>2 DEF Idle, Present
  <2> QED BY <1>1, <2>1, <2>2 DEF DataInv, PlayersInv, Unfinished
<1>8. ProofsAreCellEvents'
  <2>1. ASSUME NEW c \in Cells, NEW t \in Transfers, NEW kind \in Kinds, NEW q \in Proof,
               ExactEvent(c, t, kind, q)
        PROVE  ExactEvent(c, t, kind, q)'
    <3>1. q.fence \in Nat
      BY DEF Proof
    <3> QED BY <1>3, <2>1, <3>1 DEF ExactEvent, ProofOf
  <2> QED BY <1>1, <1>2, <2>1 DEF DataInv, ProofsAreCellEvents, ExactProofs, Kinds, Transfer
<1> QED BY <1>4, <1>5, <1>6, <1>7, <1>8 DEF DataInv

(* An event of the unfinished transfer t in cell c.                        *)
LEMMA EventEffect ==
    ASSUME TypeOKHandoff, NEW c \in Cells, NEW t \in Transfers, NEW kind \in Kinds, NEW e,
           Staged(world[c], e), NEW rcpt \in Receipts \cup {None},
           world[c].sequence + 1 \in Events,
           world'[c] = Recorded(e, t, kind, rcpt),
           \A b \in Cells \ {c} : world'[b] = world[b]
    PROVE  /\ world'[c].lock = e.lock /\ world'[c].player = e.player
           /\ world'[c].reservation = e.reservation /\ world'[c].witness = e.witness
           /\ \A b \in Cells : world'[b].fence = world[b].fence
           /\ world'[c].boundary[t][kind].event # 0
           /\ world'[c].boundary[t][kind].fence = world[c].fence
           /\ world'[c].boundary[t][kind].receipt = rcpt
           /\ \A b \in Cells, u \in Transfers, k \in Kinds :
                 b # c \/ u # t \/ k # kind =>
                     world'[b].boundary[u][k] = world[b].boundary[u][k]
BY RecordedFields DEF Staged, TypeOKHandoff

LEMMA EventKeeps ==
    ASSUME HandoffInv, NEW c \in Cells, NEW t \in Transfers, Unfinished(t),
           NEW kind \in Kinds, Event(c, t, kind) = 0,
           NEW e, Staged(world[c], e), NEW rcpt \in Receipts \cup {None},
           kind \notin {"Quarantine", "Import"} => rcpt = None,
           world[c].sequence + 1 \in Events,
           world'[c] = Recorded(e, t, kind, rcpt),
           \A b \in Cells \ {c} : world'[b] = world[b],
           UNCHANGED disk,
           \A u \in Transfers \ {t} : /\ e.witness[u] = world[c].witness[u]
                                      /\ e.reservation[u] = world[c].reservation[u],
           \A q \in Aggregates \ {disk.transfers[t].aggregate} :
               e.player[q] = world[c].player[q] /\ e.lock[q] = world[c].lock[q],
           e.lock[disk.transfers[t].aggregate] \in
               {world[c].lock[disk.transfers[t].aggregate], t, None},
           Ledger(t)', Carried(t)'
    PROVE  DataInv'
<1>1. TypeOKHandoff /\ DataInv /\ disk.transfers[t].aggregate \in Aggregates
  BY HandoffTypes DEF HandoffInv, Transfer
<1>2. /\ world'[c].lock = e.lock /\ world'[c].player = e.player
      /\ world'[c].reservation = e.reservation /\ world'[c].witness = e.witness
  BY <1>1, EventEffect
<1>3. /\ \A b \in Cells : world'[b].fence = world[b].fence
      /\ world'[c].boundary[t][kind].event # 0
      /\ world'[c].boundary[t][kind].fence = world[c].fence
      /\ world'[c].boundary[t][kind].receipt = rcpt
      /\ \A b \in Cells, u \in Transfers, k \in Kinds :
            b # c \/ u # t \/ k # kind =>
                world'[b].boundary[u][k] = world[b].boundary[u][k]
  BY <1>1, EventEffect
<1>4. OneAtATime'
  BY <1>1 DEF DataInv, OneAtATime, Unfinished
<1>5. BoundariesInv'
  <2>1. \A b \in Cells : world[b].fence \in Nat
    BY <1>1 DEF TypeOKHandoff, World
  <2> QED BY <1>1, <1>3, <2>1 DEF DataInv, BoundariesInv
<1>6. LedgersInv'
  <2> SUFFICES ASSUME NEW u \in Transfers, u # t
               PROVE  IF Known(u)' THEN Ledger(u)' ELSE Untouched(u)'
    BY DEF LedgersInv, Known, Unfinished
  <2>1. /\ \A b \in Cells, k \in Kinds : Event(b, u, k)' = Event(b, u, k)
        /\ \A b \in Cells : /\ world'[b].witness[u] = world[b].witness[u]
                            /\ world'[b].reservation[u] = world[b].reservation[u]
    BY <1>2, <1>3 DEF Event
  <2>2. \A b \in Cells, q \in Aggregates : world'[b].lock[q] = u => world[b].lock[q] = u
    BY <1>1, <1>2, DirectoryAssumption
  <2>3. Known(u) => Ledger(u) /\ ~Unfinished(u)
    BY <1>1 DEF DataInv, LedgersInv, OneAtATime
  <2>4. disk.transfers[u].source \in Cells /\ disk.transfers[u].destination \in Cells
        /\ disk.transfers[u].aggregate \in Aggregates
    BY HandoffTypes DEF Transfer
  <2>5. CASE Known(u)
    <3>1. disk.transfers[u].phase \in Terminal
      BY <2>3, <2>5 DEF Known, Unfinished
    <3>2. Ledger(u)'
      BY <2>1, <2>2, <2>3, <2>4, <2>5, <3>1 DEF Ledger, Terminal, PreCommit, PostCommit, Kinds
    <3> QED BY <2>5, <3>2 DEF Known
  <2>6. CASE ~Known(u)
    <3>1. Untouched(u)
      BY <1>1, <2>6 DEF DataInv, LedgersInv
    <3>2. Untouched(u)'
      BY <2>1, <2>2, <3>1 DEF Untouched
    <3> QED BY <2>6, <3>2 DEF Known
  <2> QED BY <2>5, <2>6
<1>7. PlayersInv'
  <2>1. \A u \in Transfers : Unfinished(u)' => u = t
    BY <1>1 DEF DataInv, OneAtATime, Unfinished
  <2>2. ASSUME NEW q \in Aggregates, q # disk.transfers[t].aggregate, Idle(q)
        PROVE  Idle(q)'
    BY <1>2, <2>2 DEF Idle, Present
  <2>3. ASSUME NEW q \in Aggregates,
               \A u \in Transfers : Unfinished(u)' => disk'.transfers[u].aggregate # q
        PROVE  Idle(q)'
    BY <1>1, <2>2, <2>3 DEF DataInv, PlayersInv, Unfinished
  <2> QED BY <2>1, <2>3 DEF PlayersInv
<1>8. ProofsAreCellEvents'
  <2>1. ASSUME NEW b \in Cells, NEW u \in Transfers, NEW k \in Kinds, NEW q,
               ExactEvent(b, u, k, q)
        PROVE  ExactEvent(b, u, k, q)'
    BY <1>3, <2>1 DEF ExactEvent, ProofOf, Event
  <2>2. \A u \in Transfers : /\ disk.transfers[u].source \in Cells
                             /\ disk.transfers[u].destination \in Cells
    BY HandoffTypes DEF Transfer
  <2> QED BY <1>1, <2>1, <2>2 DEF DataInv, ProofsAreCellEvents, ExactProofs, Kinds
<1> QED BY <1>4, <1>5, <1>6, <1>7, <1>8 DEF DataInv

-----------------------------------------------------------------------------
(* The events of a transfer.                                               *)

(* What the next step says of the record and of the events before it.      *)
LEMMA StepMeans ==
    ASSUME NEW t, ~failed => doc = disk, NEW name, Running(t, name)
    PROVE  LET r == disk.transfers[t] IN
           /\ task = t /\ ~failed /\ doc = disk
           /\ name = "prepareTransfer" => r.phase = "Absent"
           /\ name = "lock" => r.phase \in PreCommit /\ ~Seen(r.source, t, "Prepare")
           /\ name = "quarantine" =>
                 r.phase \in PreCommit /\ ~Seen(r.destination, t, "Quarantine")
           /\ name = "persistReceipt" =>
                 r.phase \in PreCommit /\ Seen(r.destination, t, "Quarantine")
           /\ name = "import" => r.phase = "Committed" /\ ~Seen(r.destination, t, "Import")
           /\ name = "export" => r.phase = "Imported" /\ ~Seen(r.source, t, "Export")
           /\ name = "abortSource" => r.phase = "Aborting" /\ ~Seen(r.source, t, "AbortSource")
           /\ name = "abortDestination" =>
                 r.phase = "Aborting" /\ ~Seen(r.destination, t, "AbortDestination")
BY DEF Running, StepName, CleanupProof, PreCommit

(* The control part of a step of the reconciliation that leaves the file   *)
(* alone.                                                                  *)
LEMMA TaskStepKeeps ==
    ASSUME HandoffInv, task # None, ~failed, NEW o, Result(o), TaskAfter(o, FALSE),
           UNCHANGED <<dirVars, package, stage, opened, assigned, pending>>,
           world' \in [Cells -> World], halt' \in [Cells -> {"no", "seen", "unseen"}],
           receipt' \in [Transfers -> Receipts \cup {None}],
           DataInv'
    PROVE  HandoffInv'
<1>1. DirectoryFull'
  BY DEF HandoffInv, DirectoryFull, dirVars
<1>2. TypeOKHandoff'
  <2>1. faults' \in 0..MaxFaults
    BY HandoffAssumption DEF HandoffInv, TypeOKHandoff, Result
  <2>4. failed' \in BOOLEAN
    BY Zenon DEF HandoffInv, TypeOKHandoff, Result
  <2>2. TypeOK'
    BY DEF HandoffInv, TypeOKHandoff, TypeOK, dirVars
  <2>3. task' \in Transfers \cup {None}
    BY DEF HandoffInv, TypeOKHandoff, TaskAfter
  <2> QED BY <2>1, <2>2, <2>3, <2>4 DEF HandoffInv, TypeOKHandoff
<1>3. ControlInv'
  BY DEF HandoffInv, ControlInv, Known, Unfinished, Result, TaskAfter, dirVars
<1> QED BY <1>1, <1>2, <1>3 DEF HandoffInv

(* A cell event of the transfer that the coordinator works on: whether its *)
(* write fails or not, and is seen or not, it keeps the invariant if the   *)
(* event itself keeps what concerns that transfer.                         *)
Landed(c, t, kind, e) ==
    /\ world'[c].lock = e.lock /\ world'[c].player = e.player
    /\ world'[c].reservation = e.reservation /\ world'[c].witness = e.witness
    /\ \A b \in Cells \ {c} : world'[b] = world[b]
    /\ Event(c, t, kind)' # 0
    /\ \A b \in Cells, n \in Kinds :
          b # c \/ n # kind => Event(b, t, n)' = Event(b, t, n)
    /\ UNCHANGED disk

LEMMA CellStepKeeps ==
    ASSUME HandoffInv, NEW c \in Cells, NEW t \in Transfers, Unfinished(t),
           task = t, ~failed,
           NEW kind \in Kinds, ~Seen(c, t, kind),
           NEW e, Staged(world[c], e), NEW rcpt \in Receipts \cup {None},
           kind \notin {"Quarantine", "Import"} => rcpt = None,
           \A u \in Transfers \ {t} : /\ e.witness[u] = world[c].witness[u]
                                      /\ e.reservation[u] = world[c].reservation[u],
           \A q \in Aggregates \ {disk.transfers[t].aggregate} :
               e.player[q] = world[c].player[q] /\ e.lock[q] = world[c].lock[q],
           e.lock[disk.transfers[t].aggregate] \in
               {world[c].lock[disk.transfers[t].aggregate], t, None},
           NEW o, CellStep(c, Recorded(e, t, kind, rcpt), o),
           Event(c, t, kind) = 0 /\ Landed(c, t, kind, e) =>
               Ledger(t)' /\ Carried(t)'
    PROVE  HandoffInv'
<1> DEFINE w == Recorded(e, t, kind, rcpt)
<1>1. CommitEvent(c, w, o) /\ world[c].sequence + 1 \in Events /\ Event(c, t, kind) = 0
  BY DEF CellStep, CommitEvent, Seen, Event
<1>2. w \in World
  <2>1. e \in World /\ e.sequence + 1 \in Events
    BY <1>1 DEF Staged
  <2> QED BY <2>1, RecordedFields
<1>3. TypeOKHandoff /\ DataInv
  BY DEF HandoffInv
<1> HIDE DEF w
<1>4. /\ world' \in [Cells -> World]
      /\ halt' \in [Cells -> {"no", "seen", "unseen"}]
      /\ \/ world' = world
         \/ world'[c] = w /\ \A b \in Cells \ {c} : world'[b] = world[b]
  BY <1>1, <1>2, <1>3, CommitEventFrame
<1>5. UNCHANGED disk /\ UNCHANGED receipt
  BY DEF CellStep, dirVars
<1>6. DataInv'
  <2>1. CASE world' = world
    BY <1>3, <1>5, <2>1, NothingKeeps
  <2>2. CASE world'[c] = w /\ \A b \in Cells \ {c} : world'[b] = world[b]
    <3>1. Landed(c, t, kind, e)
      BY <1>1, <1>3, <1>5, <2>2, EventEffect DEF Landed, Event, w
    <3>2. Ledger(t)' /\ Carried(t)'
      BY <1>1, <3>1
    <3> QED BY <1>1, <1>5, <2>2, <3>2, EventKeeps DEF w
  <2> QED BY <1>4, <2>1, <2>2
<1>7. task # None
  BY DirectoryAssumption
<1> QED BY <1>3, <1>4, <1>5, <1>6, <1>7, TaskStepKeeps, Zenon DEF CellStep, TypeOKHandoff

(* The two cells, the player and the package of a transfer.                *)
Parties(t, s, d, p, k) ==
    /\ disk.transfers[t].source = s
    /\ disk.transfers[t].destination = d
    /\ disk.transfers[t].aggregate = p
    /\ package[t] = k

LEMMA PartiesKnown ==
    ASSUME HandoffInv, NEW t \in Transfers, Unfinished(t)
    PROVE  /\ \E s, d \in Cells, p \in Aggregates, k \in Package :
                 s # d /\ Parties(t, s, d, p, k)
           /\ Ledger(t) /\ Carried(t)
<1> DEFINE r == disk.transfers[t]
<1>1. Known(t)
  BY DEF Known, Unfinished
<1>2. r \in Transfer
  BY HandoffTypes
<1>3. r.source # r.destination
  BY <1>1 DEF HandoffInv, DirectoryFull, DocFull, DocInv, ValidTransfer, ValidTransferIdentity,
              Known
<1>4. package[t] \in Package
  BY <1>1 DEF HandoffInv, TypeOKHandoff, ControlInv
<1>5. Ledger(t) /\ Carried(t)
  BY <1>1 DEF HandoffInv, DataInv, LedgersInv, PlayersInv
<1> QED BY <1>2, <1>3, <1>4, <1>5 DEF Parties, Transfer

(* The player is locked at the source.                                     *)
LEMMA PreparedKeeps ==
    ASSUME HandoffInv, NEW t \in Transfers, NEW o, CommitPlayerTransferPrepared(t, o)
    PROVE  HandoffInv'
<1>1. LET r == disk.transfers[t] IN
      /\ task = t /\ ~failed /\ doc = disk
      /\ r.phase \in PreCommit /\ ~Seen(r.source, t, "Prepare")
  BY StepMeans DEF CommitPlayerTransferPrepared, HandoffInv, ControlInv
<1>2. Unfinished(t) /\ disk.transfers[t].phase \in PreCommit
  BY <1>1 DEF Unfinished, PreCommit, Terminal
<1>3. PICK s \in Cells, d \in Cells, p \in Aggregates, k \in Package :
          s # d /\ Parties(t, s, d, p, k)
  BY <1>2, PartiesKnown
<1> DEFINE w == world[s]
           e == StagePreparedLock(w, t, k)
<1>4. /\ StagePreparedLockOk(w, t, k, disk.transfers[t]) /\ k.player = p
      /\ CellStep(s, Recorded(e, t, "Prepare", None), o)
  BY <1>1, <1>3 DEF CommitPlayerTransferPrepared, Parties, StagePreparedLockOk, Matches
<1>5. w \in World
  BY HandoffTypes
<1>6. /\ Staged(w, e)
      /\ e.player = w.player /\ e.reservation = w.reservation /\ e.witness = w.witness
      /\ e.lock = [w.lock EXCEPT ![p] = t]
  BY <1>4, <1>5, LockFields
<1> HIDE DEF e, w
<1>7. e.lock[p] = t /\ \A q \in Aggregates \ {p} : e.lock[q] = w.lock[q]
  BY <1>5, <1>6 DEF World
<1>8. ASSUME Event(s, t, "Prepare") = 0, Landed(s, t, "Prepare", e)
      PROVE  Ledger(t)' /\ Carried(t)'
  <2>1. Ledger(t) /\ Carried(t)
    BY <1>2, PartiesKnown
  <2>2. /\ \A c \in Cells : Event(c, t, "Export")' = Event(c, t, "Export")
        /\ \A c \in Cells : Event(c, t, "Import")' = Event(c, t, "Import")
        /\ Event(s, t, "AbortSource")' = Event(s, t, "AbortSource")
        /\ Event(d, t, "AbortDestination")' = Event(d, t, "AbortDestination")
    BY <1>8 DEF Landed, Kinds
  <2>3. \A c \in Cells : /\ world'[c].player[p] = world[c].player[p]
                         /\ world'[c].lock[p] = IF c = s THEN t ELSE world[c].lock[p]
                         /\ world'[c].witness[t] = world[c].witness[t]
                         /\ world'[c].reservation[t] = world[c].reservation[t]
    BY <1>6, <1>7, <1>8 DEF Landed, w
  <2>4. Ledger(t)'
    BY <1>2, <1>3, <1>8, <2>1, <2>2, <2>3
       DEF Landed, PreCommit, PostCommit, Terminal, Parties, Ledger
  <2>5. Carried(t)'
    BY <1>3, <1>8, <2>1, <2>2, <2>3 DEF Carried, Present, Landed, Parties
  <2> QED BY <2>4, <2>5
<1>9. /\ task = t /\ ~failed /\ ~Seen(s, t, "Prepare") /\ "Prepare" \in Kinds
      /\ p = disk.transfers[t].aggregate
      /\ \A u \in Transfers \ {t} : /\ e.witness[u] = world[s].witness[u]
                                   /\ e.reservation[u] = world[s].reservation[u]
      /\ \A q \in Aggregates \ {p} :
            e.player[q] = world[s].player[q] /\ e.lock[q] = world[s].lock[q]
      /\ Staged(world[s], e)
  BY <1>1, <1>3, <1>6, <1>7 DEF Kinds, Parties, w
<1> QED BY <1>2, <1>4, <1>7, <1>8, <1>9, CellStepKeeps

(* The receipt that a destination issues or has issued: its cell is        *)
(* assigned, so that its fence is a real one.                              *)
LEMMA ReceiptIssued ==
    ASSUME HandoffInv, NEW t \in Transfers, Unfinished(t),
           NEW d \in Cells, disk.transfers[t].destination = d
    PROVE  ReceiptFor(world[d], t) \in Receipts
<1> DEFINE w == world[d]
<1>1. w \in World
  BY HandoffTypes
<1>2. disk.assignments[d].state = "Assigned" /\ ValidAssignment(disk.assignments[d])
  BY DEF HandoffInv, DirectoryFull, DocFull, DocInv, PinsHold, Pins, Unfinished
<1>3. disk.assignments[d].fence \in Nat \ {0} /\ disk.assignments[d].fence <= w.fence
  BY <1>2, HandoffTypes, DirectoryAssumption
     DEF Assignment, ValidAssignment, HandoffInv, DataInv, BoundariesInv
<1>4. w.fence \in Fences /\ w.sequence \in Events \cup {0}
  BY <1>1, <1>3, DirectoryAssumption DEF World, Fences
<1> QED BY <1>1, <1>4, HandoffAssumption DEF ReceiptFor, World

(* The destination reserves a place for the player.                        *)
LEMMA QuarantinedKeeps ==
    ASSUME HandoffInv, NEW t \in Transfers, NEW o, CommitPlayerTransferQuarantined(t, o)
    PROVE  HandoffInv'
<1>1. LET r == disk.transfers[t] IN
      /\ task = t /\ ~failed /\ doc = disk
      /\ r.phase \in PreCommit /\ ~Seen(r.destination, t, "Quarantine")
  BY StepMeans DEF CommitPlayerTransferQuarantined, HandoffInv, ControlInv
<1>2. Unfinished(t) /\ disk.transfers[t].phase \in PreCommit
  BY <1>1 DEF Unfinished, PreCommit, Terminal
<1>3. PICK s \in Cells, d \in Cells, p \in Aggregates, k \in Package :
          s # d /\ Parties(t, s, d, p, k)
  BY <1>2, PartiesKnown
<1> DEFINE w == world[d]
           e == StageQuarantine(w, t)
<1>4. /\ k \in Package
      /\ CellStep(d, Recorded(e, t, "Quarantine", ReceiptFor(w, t)), o)
  BY <1>1, <1>3 DEF CommitPlayerTransferQuarantined, Parties
<1>5. w \in World
  BY HandoffTypes
<1>10. ReceiptFor(w, t) \in Receipts
  BY <1>2, <1>3, ReceiptIssued DEF Parties
<1>6. /\ Staged(w, e)
      /\ e.player = w.player
      /\ e.lock = w.lock
      /\ e.witness = w.witness
      /\ e.reservation = [w.reservation EXCEPT ![t] = ReceiptFor(w, t)]
  BY <1>4, <1>5, <1>10, QuarantineFields
<1> HIDE DEF e, w
<1>7. /\ \A u \in Transfers \ {t} : /\ e.witness[u] = w.witness[u]
                                   /\ e.reservation[u] = w.reservation[u]
      /\ \A q \in Aggregates \ {p} : e.player[q] = w.player[q] /\ e.lock[q] = w.lock[q]
      /\ e.lock[p] \in {w.lock[p], t, None}
  BY <1>5, <1>6 DEF World
<1>8. ASSUME Event(d, t, "Quarantine") = 0, Landed(d, t, "Quarantine", e)
      PROVE  Ledger(t)' /\ Carried(t)'
  <2>1. Ledger(t) /\ Carried(t)
    BY <1>2, PartiesKnown
  <2>2. /\ \A c \in Cells : Event(c, t, "Export")' = Event(c, t, "Export")
        /\ \A c \in Cells : Event(c, t, "Import")' = Event(c, t, "Import")
        /\ Event(s, t, "Prepare")' = Event(s, t, "Prepare")
        /\ Event(s, t, "AbortSource")' = Event(s, t, "AbortSource")
        /\ Event(d, t, "AbortDestination")' = Event(d, t, "AbortDestination")
        /\ Event(d, t, "Quarantine")' # 0
    BY <1>3, <1>8 DEF Landed, Kinds
  <2>3. \A c \in Cells : /\ world'[c].player[p] = world[c].player[p]
                         /\ world'[c].lock[p] = world[c].lock[p]
                         /\ world'[c].witness[t] = world[c].witness[t]
    BY <1>3, <1>5, <1>6, <1>8 DEF Landed, World, w
  <2>4. Ledger(t)'
    BY <1>2, <1>3, <1>8, <2>1, <2>2, <2>3, DirectoryAssumption
       DEF Landed, PreCommit, PostCommit, Terminal, Parties, Ledger
  <2>5. Carried(t)'
    BY <1>2, <1>3, <1>8, <2>1, <2>2, <2>3
       DEF Carried, Present, Landed, Parties, Ledger, PreCommit, PostCommit
  <2> QED BY <2>4, <2>5
<1>9. /\ task = t /\ ~failed /\ ~Seen(d, t, "Quarantine") /\ "Quarantine" \in Kinds
      /\ p = disk.transfers[t].aggregate /\ Staged(world[d], e)
  BY <1>1, <1>3, <1>6 DEF Kinds, Parties, w
<1> QED BY <1>2, <1>4, <1>7, <1>8, <1>9, <1>10, CellStepKeeps DEF w

(* The destination takes the player in.                                    *)
LEMMA ImportedKeeps ==
    ASSUME HandoffInv, NEW t \in Transfers, NEW o, CommitPlayerTransferImported(t, o)
    PROVE  HandoffInv'
<1>1. LET r == disk.transfers[t] IN
      /\ task = t /\ ~failed /\ doc = disk
      /\ r.phase = "Committed" /\ ~Seen(r.destination, t, "Import")
  BY StepMeans DEF CommitPlayerTransferImported, HandoffInv, ControlInv
<1>2. Unfinished(t) /\ disk.transfers[t].phase = "Committed"
  BY <1>1 DEF Unfinished, PreCommit, Terminal
<1>3. PICK s \in Cells, d \in Cells, p \in Aggregates, k \in Package :
          s # d /\ Parties(t, s, d, p, k)
  BY <1>2, PartiesKnown
<1> DEFINE w == world[d]
           e == StageImport(w, t, k)
<1>4. /\ k.player = p /\ receipt[t] # None
      /\ CellStep(d, Recorded(e, t, "Import", receipt[t]), o)
  BY <1>1, <1>3 DEF CommitPlayerTransferImported, Parties, StageImportOk, Matches
<1>5. w \in World
  BY HandoffTypes
<1>10. k.closure # None /\ receipt[t] \in Receipts
  BY <1>4, HandoffValues DEF Package, HandoffInv, TypeOKHandoff
<1>6. /\ Staged(w, e)
      /\ e.player = [w.player EXCEPT ![p] = k.closure]
      /\ e.lock = w.lock
      /\ e.reservation = [w.reservation EXCEPT ![t] = None]
      /\ e.witness = [w.witness EXCEPT ![t] = "Import"]
  BY <1>4, <1>5, ImportFields
<1> HIDE DEF e, w
<1>7. /\ \A u \in Transfers \ {t} : /\ e.witness[u] = w.witness[u]
                                   /\ e.reservation[u] = w.reservation[u]
      /\ \A q \in Aggregates \ {p} : e.player[q] = w.player[q] /\ e.lock[q] = w.lock[q]
      /\ e.lock[p] \in {w.lock[p], t, None}
  BY <1>5, <1>6 DEF World
<1>8. ASSUME Event(d, t, "Import") = 0, Landed(d, t, "Import", e)
      PROVE  Ledger(t)' /\ Carried(t)'
  <2>1. Ledger(t) /\ Carried(t)
    BY <1>2, PartiesKnown
  <2>2. /\ \A c \in Cells : Event(c, t, "Export")' = Event(c, t, "Export")
        /\ \A c \in Cells \ {d} : Event(c, t, "Import")' = Event(c, t, "Import")
        /\ Event(s, t, "Prepare")' = Event(s, t, "Prepare")
        /\ Event(s, t, "AbortSource")' = Event(s, t, "AbortSource")
        /\ Event(d, t, "AbortDestination")' = Event(d, t, "AbortDestination")
        /\ Event(d, t, "Import")' # 0
    BY <1>3, <1>8 DEF Landed, Kinds
  <2>3. \A c \in Cells : /\ world'[c].player[p] = IF c = d THEN k.closure ELSE world[c].player[p]
                         /\ world'[c].lock[p] = world[c].lock[p]
                         /\ world'[c].witness[t] = IF c = d THEN "Import" ELSE world[c].witness[t]
                         /\ c = d => world'[c].reservation[t] = None
    BY <1>3, <1>5, <1>6, <1>8 DEF Landed, World, w
  <2>4. Ledger(t)'
    BY <1>2, <1>3, <1>8, <2>1, <2>2, <2>3, DirectoryAssumption
       DEF Landed, PreCommit, PostCommit, Terminal, Parties, Ledger
  <2>5. Carried(t)'
    BY <1>2, <1>3, <1>10, <1>8, <2>1, <2>2, <2>3
       DEF Carried, Present, Landed, Parties, Ledger, PreCommit, PostCommit
  <2> QED BY <2>4, <2>5
<1>9. /\ task = t /\ ~failed /\ ~Seen(d, t, "Import") /\ "Import" \in Kinds
      /\ p = disk.transfers[t].aggregate /\ Staged(world[d], e)
  BY <1>1, <1>3, <1>6 DEF Kinds, Parties, w
<1> QED BY <1>2, <1>4, <1>7, <1>8, <1>9, <1>10, CellStepKeeps DEF w

(* The source gives the player up.                                         *)
LEMMA ExportedKeeps ==
    ASSUME HandoffInv, NEW t \in Transfers, NEW o, CommitPlayerTransferExported(t, o)
    PROVE  HandoffInv'
<1>1. LET r == disk.transfers[t] IN
      /\ task = t /\ ~failed /\ doc = disk
      /\ r.phase = "Imported" /\ ~Seen(r.source, t, "Export")
  BY StepMeans DEF CommitPlayerTransferExported, HandoffInv, ControlInv
<1>2. Unfinished(t) /\ disk.transfers[t].phase = "Imported"
  BY <1>1 DEF Unfinished, PreCommit, Terminal
<1>3. PICK s \in Cells, d \in Cells, p \in Aggregates, k \in Package :
          s # d /\ Parties(t, s, d, p, k)
  BY <1>2, PartiesKnown
<1> DEFINE w == world[s]
           e == StageExport(w, t, k)
<1>4. /\ k.player = p
      /\ CellStep(s, Recorded(e, t, "Export", None), o)
  BY <1>1, <1>3 DEF CommitPlayerTransferExported, Parties, StageExportOk, Matches
<1>5. w \in World
  BY HandoffTypes
<1>6. /\ Staged(w, e)
      /\ e.player = [w.player EXCEPT ![p] = None]
      /\ e.lock = [w.lock EXCEPT ![p] = None]
      /\ e.reservation = w.reservation
      /\ e.witness = [w.witness EXCEPT ![t] = "Export"]
  BY <1>4, <1>5, ExportFields
<1> HIDE DEF e, w
<1>7. /\ \A u \in Transfers \ {t} : /\ e.witness[u] = w.witness[u]
                                   /\ e.reservation[u] = w.reservation[u]
      /\ \A q \in Aggregates \ {p} : e.player[q] = w.player[q] /\ e.lock[q] = w.lock[q]
      /\ e.lock[p] \in {w.lock[p], t, None}
  BY <1>5, <1>6 DEF World
<1>8. ASSUME Event(s, t, "Export") = 0, Landed(s, t, "Export", e)
      PROVE  Ledger(t)' /\ Carried(t)'
  <2>1. Ledger(t) /\ Carried(t)
    BY <1>2, PartiesKnown
  <2>2. /\ \A c \in Cells \ {s} : Event(c, t, "Export")' = Event(c, t, "Export")
        /\ \A c \in Cells : Event(c, t, "Import")' = Event(c, t, "Import")
        /\ Event(s, t, "Prepare")' = Event(s, t, "Prepare")
        /\ Event(s, t, "AbortSource")' = Event(s, t, "AbortSource")
        /\ Event(d, t, "AbortDestination")' = Event(d, t, "AbortDestination")
        /\ Event(s, t, "Export")' # 0
    BY <1>3, <1>8 DEF Landed, Kinds
  <2>3. \A c \in Cells : /\ world'[c].player[p] = IF c = s THEN None ELSE world[c].player[p]
                         /\ world'[c].lock[p] = IF c = s THEN None ELSE world[c].lock[p]
                         /\ world'[c].witness[t] = IF c = s THEN "Export" ELSE world[c].witness[t]
                         /\ world'[c].reservation[t] = world[c].reservation[t]
    BY <1>3, <1>5, <1>6, <1>8 DEF Landed, World, w
  <2>4. Ledger(t)'
    BY <1>2, <1>3, <1>8, <2>1, <2>2, <2>3, DirectoryAssumption
       DEF Landed, PreCommit, PostCommit, Terminal, Parties, Ledger
  <2>5. Carried(t)'
    BY <1>2, <1>3, <1>8, <2>1, <2>2, <2>3
       DEF Carried, Present, Landed, Parties, Ledger, PreCommit, PostCommit
  <2> QED BY <2>4, <2>5
<1>9. /\ task = t /\ ~failed /\ ~Seen(s, t, "Export") /\ "Export" \in Kinds
      /\ p = disk.transfers[t].aggregate /\ Staged(world[s], e)
  BY <1>1, <1>3, <1>6 DEF Kinds, Parties, w
<1> QED BY <1>2, <1>4, <1>7, <1>8, <1>9, CellStepKeeps DEF w

(* The source unlocks the player of an aborted transfer.                   *)
LEMMA AbortedSourceKeeps ==
    ASSUME HandoffInv, NEW t \in Transfers, NEW o, CommitPlayerTransferAborted(t, "Source", o)
    PROVE  HandoffInv'
<1>1. LET r == disk.transfers[t] IN
      /\ task = t /\ ~failed /\ doc = disk
      /\ r.phase = "Aborting" /\ ~Seen(r.source, t, "AbortSource")
  BY StepMeans DEF CommitPlayerTransferAborted, HandoffInv, ControlInv
<1>2. Unfinished(t) /\ disk.transfers[t].phase = "Aborting"
  BY <1>1 DEF Unfinished, PreCommit, Terminal
<1>3. PICK s \in Cells, d \in Cells, p \in Aggregates, k \in Package :
          s # d /\ Parties(t, s, d, p, k)
  BY <1>2, PartiesKnown
<1> DEFINE w == world[s]
           e == StageAbortedSource(w, k)
<1>4. /\ k.player = p
      /\ CellStep(s, Recorded(e, t, "AbortSource", None), o)
  BY <1>1, <1>3 DEF CommitPlayerTransferAborted, Parties, StageAbortedSourceOk, Matches, RoleCell
<1>5. w \in World
  BY HandoffTypes
<1>6. /\ Staged(w, e)
      /\ e.player = w.player
      /\ e.lock = [w.lock EXCEPT ![p] = None]
      /\ e.reservation = w.reservation
      /\ e.witness = w.witness
  BY <1>4, <1>5, UnlockFields, Zenon
<1> HIDE DEF e, w
<1>7. /\ \A u \in Transfers \ {t} : /\ e.witness[u] = w.witness[u]
                                   /\ e.reservation[u] = w.reservation[u]
      /\ \A q \in Aggregates \ {p} : e.player[q] = w.player[q] /\ e.lock[q] = w.lock[q]
      /\ e.lock[p] \in {w.lock[p], t, None}
  BY <1>5, <1>6 DEF World
<1>8. ASSUME Event(s, t, "AbortSource") = 0, Landed(s, t, "AbortSource", e)
      PROVE  Ledger(t)' /\ Carried(t)'
  <2>1. Ledger(t) /\ Carried(t)
    BY <1>2, PartiesKnown
  <2>2. /\ \A c \in Cells : Event(c, t, "Export")' = Event(c, t, "Export")
        /\ \A c \in Cells : Event(c, t, "Import")' = Event(c, t, "Import")
        /\ Event(s, t, "Prepare")' = Event(s, t, "Prepare")
        /\ Event(d, t, "AbortDestination")' = Event(d, t, "AbortDestination")
        /\ Event(s, t, "AbortSource")' # 0
    BY <1>3, <1>8 DEF Landed, Kinds
  <2>3. \A c \in Cells : /\ world'[c].player[p] = world[c].player[p]
                         /\ world'[c].lock[p] = IF c = s THEN None ELSE world[c].lock[p]
                         /\ world'[c].witness[t] = world[c].witness[t]
                         /\ world'[c].reservation[t] = world[c].reservation[t]
    BY <1>3, <1>5, <1>6, <1>8 DEF Landed, World, w
  <2>4. Ledger(t)'
    BY <1>2, <1>3, <1>8, <2>1, <2>2, <2>3, DirectoryAssumption
       DEF Landed, PreCommit, PostCommit, Terminal, Parties, Ledger
  <2>5. Carried(t)'
    BY <1>2, <1>3, <1>8, <2>1, <2>2, <2>3
       DEF Carried, Present, Landed, Parties, Ledger, PreCommit, PostCommit
  <2> QED BY <2>4, <2>5
<1>9. /\ task = t /\ ~failed /\ ~Seen(s, t, "AbortSource") /\ "AbortSource" \in Kinds
      /\ p = disk.transfers[t].aggregate /\ Staged(world[s], e)
  BY <1>1, <1>3, <1>6 DEF Kinds, Parties, w
<1> QED BY <1>2, <1>4, <1>7, <1>8, <1>9, CellStepKeeps DEF w

(* The destination gives the place free that it reserved.                  *)
LEMMA AbortedDestinationKeeps ==
    ASSUME HandoffInv, NEW t \in Transfers, NEW o, CommitPlayerTransferAborted(t, "Destination", o)
    PROVE  HandoffInv'
<1>1. LET r == disk.transfers[t] IN
      /\ task = t /\ ~failed /\ doc = disk
      /\ r.phase = "Aborting" /\ ~Seen(r.destination, t, "AbortDestination")
  BY StepMeans DEF CommitPlayerTransferAborted, HandoffInv, ControlInv
<1>2. Unfinished(t) /\ disk.transfers[t].phase = "Aborting"
  BY <1>1 DEF Unfinished, PreCommit, Terminal
<1>3. PICK s \in Cells, d \in Cells, p \in Aggregates, k \in Package :
          s # d /\ Parties(t, s, d, p, k)
  BY <1>2, PartiesKnown
<1> DEFINE w == world[d]
           e == StageAbortedDestination(w, t)
<1>4. /\ k.player = p
      /\ CellStep(d, Recorded(e, t, "AbortDestination", None), o)
  BY <1>1, <1>3 DEF CommitPlayerTransferAborted, Parties, StageAbortedDestinationOk, Matches, RoleCell
<1>5. w \in World
  BY HandoffTypes
<1>6. /\ Staged(w, e)
      /\ e.player = w.player
      /\ e.lock = w.lock
      /\ e.witness = w.witness
      /\ e.reservation = [w.reservation EXCEPT ![t] = None]
  BY <1>4, <1>5, ReleaseFields
<1> HIDE DEF e, w
<1>7. /\ \A u \in Transfers \ {t} : /\ e.witness[u] = w.witness[u]
                                   /\ e.reservation[u] = w.reservation[u]
      /\ \A q \in Aggregates \ {p} : e.player[q] = w.player[q] /\ e.lock[q] = w.lock[q]
      /\ e.lock[p] \in {w.lock[p], t, None}
  BY <1>5, <1>6 DEF World
<1>8. ASSUME Event(d, t, "AbortDestination") = 0, Landed(d, t, "AbortDestination", e)
      PROVE  Ledger(t)' /\ Carried(t)'
  <2>1. Ledger(t) /\ Carried(t)
    BY <1>2, PartiesKnown
  <2>2. /\ \A c \in Cells : Event(c, t, "Export")' = Event(c, t, "Export")
        /\ \A c \in Cells : Event(c, t, "Import")' = Event(c, t, "Import")
        /\ Event(s, t, "Prepare")' = Event(s, t, "Prepare")
        /\ Event(s, t, "AbortSource")' = Event(s, t, "AbortSource")
        /\ Event(d, t, "AbortDestination")' # 0
    BY <1>3, <1>8 DEF Landed, Kinds
  <2>3. \A c \in Cells : /\ world'[c].player[p] = world[c].player[p]
                         /\ world'[c].lock[p] = world[c].lock[p]
                         /\ world'[c].witness[t] = world[c].witness[t]
                         /\ world'[c].reservation[t] = IF c = d THEN None ELSE world[c].reservation[t]
    BY <1>3, <1>5, <1>6, <1>8 DEF Landed, World, w
  <2>4. Ledger(t)'
    BY <1>2, <1>3, <1>8, <2>1, <2>2, <2>3, DirectoryAssumption
       DEF Landed, PreCommit, PostCommit, Terminal, Parties, Ledger
  <2>5. Carried(t)'
    BY <1>2, <1>3, <1>8, <2>1, <2>2, <2>3
       DEF Carried, Present, Landed, Parties, Ledger, PreCommit, PostCommit
  <2> QED BY <2>4, <2>5
<1>9. /\ task = t /\ ~failed /\ ~Seen(d, t, "AbortDestination") /\ "AbortDestination" \in Kinds
      /\ p = disk.transfers[t].aggregate /\ Staged(world[d], e)
  BY <1>1, <1>3, <1>6 DEF Kinds, Parties, w
<1> QED BY <1>2, <1>4, <1>7, <1>8, <1>9, CellStepKeeps DEF w

(* The receipt is copied out of the destination's boundary.                *)
LEMMA PersistReceiptKeeps ==
    ASSUME HandoffInv, NEW t \in Transfers, NEW o, PersistQuarantineReceipt(t, o)
    PROVE  HandoffInv'
<1>1. task = t /\ ~failed /\ task # None
  BY DirectoryAssumption DEF PersistQuarantineReceipt, Running
<1>2. receipt' \in [Transfers -> Receipts \cup {None}]
  <2>1. disk.transfers[t].destination \in Cells /\ doc = disk
    BY <1>1, HandoffTypes DEF Transfer, HandoffInv, ControlInv
  <2>2. world[disk.transfers[t].destination].boundary[t]["Quarantine"].receipt
            \in Receipts \cup {None}
    BY <2>1, HandoffTypes DEF World, Boundary, Kinds
  <2> QED BY <2>1, <2>2 DEF PersistQuarantineReceipt, HandoffInv, TypeOKHandoff
<1>3. DataInv'
  BY NothingKeeps DEF PersistQuarantineReceipt, dirVars, HandoffInv
<1> QED BY <1>1, <1>2, <1>3, TaskStepKeeps, Zenon
        DEF PersistQuarantineReceipt, HandoffInv, TypeOKHandoff

-----------------------------------------------------------------------------
(* The records of a transfer.                                              *)

(* What a write leaves in the file.                                        *)
LEMMA WrittenFields ==
    ASSUME doc = disk, NEW next \in Document, NEW o, CommitDocument(next, o)
    PROVE  /\ o = "ok" => doc' = disk'
           /\ UNCHANGED open
           /\ \/ UNCHANGED disk
              \/ /\ disk'.transfers = next.transfers
                 /\ disk'.placements = next.placements
                 /\ disk'.assignments = next.assignments
BY DEF CommitDocument, Document

(* A write that changes transfer t, and with it the placement of its       *)
(* player.                                                                 *)
LEMMA RecordKeeps ==
    ASSUME HandoffInv, NEW t \in Transfers, NEW p \in Aggregates, UNCHANGED world,
           disk'.assignments = disk.assignments,
           \A u \in Transfers \ {t} :
               disk'.transfers[u] = disk.transfers[u] /\ ~Unfinished(u),
           \A q \in Aggregates \ {p} : disk'.placements[q] = disk.placements[q],
           Unfinished(t) => disk.transfers[t].aggregate = p,
           disk'.transfers[t].aggregate = p,
           Known(t)', Ledger(t)', ExactProofs(t)',
           Unfinished(t)' => Carried(t)',
           ~Unfinished(t)' => Idle(p)'
    PROVE  DataInv'
<1>1. DataInv
  BY DEF HandoffInv
<1>2. \A u \in Transfers \ {t} : Unfinished(u)' = Unfinished(u) /\ Known(u)' = Known(u)
  BY DEF Unfinished, Known
<1>3. OneAtATime'
  BY <1>2 DEF OneAtATime
<1>4. BoundariesInv'
  BY <1>1 DEF DataInv, BoundariesInv
<1>5. LedgersInv'
  <2> SUFFICES ASSUME NEW u \in Transfers \ {t}
               PROVE  IF Known(u)' THEN Ledger(u)' ELSE Untouched(u)'
    BY DEF LedgersInv
  <2>1. IF Known(u) THEN Ledger(u) ELSE Untouched(u)
    BY <1>1 DEF DataInv, LedgersInv
  <2>2. disk'.transfers[u] = disk.transfers[u]
    OBVIOUS
  <2>3. Untouched(u) => Untouched(u)'
    BY DEF Untouched, Event
  <2>4. Ledger(u) => Ledger(u)'
    BY <2>2, Zenon DEF Ledger, Event
  <2> QED BY <1>2, <2>1, <2>3, <2>4
<1>6. PlayersInv'
  <2>1. ASSUME NEW q \in Aggregates \ {p} PROVE Idle(q)'
    <3>1. Idle(q)
      BY <1>1, <2>1 DEF DataInv, PlayersInv
    <3> QED BY <2>1, <3>1 DEF Idle, Present
  <2> QED BY <1>2, <2>1 DEF PlayersInv
<1>7. ProofsAreCellEvents'
  <2>1. ASSUME NEW u \in Transfers \ {t}, ExactProofs(u)
        PROVE  ExactProofs(u)'
    <3>1. disk'.transfers[u] = disk.transfers[u]
      OBVIOUS
    <3>2. ASSUME NEW c, NEW k, NEW q, ExactEvent(c, u, k, q)
          PROVE  ExactEvent(c, u, k, q)'
      BY <3>2 DEF ExactEvent, ProofOf
    <3> QED BY <2>1, <3>1, <3>2 DEF ExactProofs
  <2> QED BY <1>1, <1>2, <2>1 DEF DataInv, ProofsAreCellEvents, Known
<1> QED BY <1>3, <1>4, <1>5, <1>6, <1>7 DEF DataInv

(* A step of the reconciliation that writes the record n, the last one if  *)
(* n is terminal.                                                          *)
Records(o, n) ==
    \/ DirectoryStep(o, FALSE)
    \/ DirectoryStep(o, TRUE) /\ n.phase \in Terminal

(* The control part of a step of the reconciliation that writes the file.  *)
LEMMA DirectoryStepKeeps ==
    ASSUME HandoffInv, NEW t \in Transfers, task = t, ~failed, NextDirectory,
           NEW next \in Document, NEW o, CommitDocument(next, o),
           Records(o, next.transfers[t]),
           \A u \in Transfers \ {t} : next.transfers[u] = disk.transfers[u],
           next.transfers[t].phase # "Absent",
           UNCHANGED disk => DataInv',
           (/\ disk'.transfers = next.transfers
            /\ disk'.placements = next.placements
            /\ disk'.assignments = next.assignments) => DataInv'
    PROVE  HandoffInv'
<1>0. Result(o)
  BY Zenon DEF Records, DirectoryStep
<1>1. doc = disk
  BY DEF HandoffInv, ControlInv
<1>2. /\ o = "ok" => doc' = disk'
      /\ UNCHANGED open
      /\ \/ UNCHANGED disk
         \/ /\ disk'.transfers = next.transfers
            /\ disk'.placements = next.placements
            /\ disk'.assignments = next.assignments
  BY <1>1, WrittenFields
<1>3. DataInv'
  BY <1>2
<1>4. DirectoryFull'
  BY FullInductive DEF HandoffInv
<1>5. TypeOKHandoff'
  <2>1. faults' \in 0..MaxFaults
    BY <1>0, HandoffAssumption DEF HandoffInv, TypeOKHandoff, Result
  <2>2. failed' \in BOOLEAN
    BY <1>0, Zenon DEF HandoffInv, TypeOKHandoff, Result
  <2>3. TypeOK'
    BY <1>4 DEF DirectoryFull, DocFull, DocInv, TypeOK
  <2>4. task' \in Transfers \cup {None}
    BY DEF Records, DirectoryStep, TaskAfter
  <2> QED BY <2>1, <2>2, <2>3, <2>4, Zenon DEF HandoffInv, TypeOKHandoff, Records, DirectoryStep
<1>6. ControlInv'
  <2>1. \A u \in Transfers : Known(u) => Known(u)'
    BY <1>2 DEF Known
  <2>2. \A u \in Transfers \ {t} : Known(u)' = Known(u) /\ Unfinished(u)' = Unfinished(u)
    BY <1>2 DEF Known, Unfinished
  <2>3. pending \subseteq Transfers /\ task # None
    BY DirectoryAssumption DEF HandoffInv, TypeOKHandoff
  <2>4. o = "ok" => /\ failed' = failed
                    /\ \/ task' = task
                       \/ task' = None /\ next.transfers[t].phase \in Terminal
    BY DEF Records, DirectoryStep, Result, TaskAfter
  <2>5. o # "ok" => failed' = TRUE /\ task' = None
    BY DEF Records, DirectoryStep, Result, TaskAfter
  <2>6. o = "ok" => Known(t)' /\ (next.transfers[t].phase \in Terminal => ~Unfinished(t)')
    <3>1. ASSUME o = "ok" PROVE disk'.transfers = next.transfers
      BY <3>1 DEF CommitDocument, Document
    <3> QED BY <3>1 DEF Known, Unfinished
  <2>7. \A u \in Transfers \ {t} : ~Unfinished(u) \/ (stage = "opening" /\ u \in pending)
    BY <2>3 DEF HandoffInv, ControlInv
  <2>8. UNCHANGED <<package, stage, assigned, pending>>
    BY Zenon DEF Records, DirectoryStep
  <2> QED BY <1>2, <2>1, <2>2, <2>3, <2>4, <2>5, <2>6, <2>7, <2>8 DEF HandoffInv, ControlInv
<1> QED BY <1>3, <1>4, <1>5, <1>6 DEF HandoffInv

(* A proof that the directory accepts is the event of its cell.            *)
LEMMA ProofExact ==
    ASSUME HandoffInv, NEW c \in Cells, NEW t \in Transfers, NEW kind \in Kinds,
           NEW g \in Generations, NEW x, NEW m, NEW k,
           ProofBinds(Resolved(ProofOf(c, t, kind), g), x, m, k)
    PROVE  /\ ExactEvent(c, t, kind, Resolved(ProofOf(c, t, kind), g))
           /\ Event(c, t, kind) # 0
           /\ kind \notin {"Quarantine", "Import"} => ProofOf(c, t, kind) \in CellProofs
           /\ ProofOf(c, t, kind).receipt \in Receipts =>
                 ProofOf(c, t, kind) \in ReceiptProofs
<1> DEFINE b == world[c].boundary[t][kind]
           q == ProofOf(c, t, kind)
           z == Resolved(q, g)
<1>1. b \in Boundary
  BY HandoffTypes DEF World
<1>2. /\ b.fence <= world[c].fence
      /\ kind \notin {"Quarantine", "Import"} => b.receipt = None
  BY DEF HandoffInv, DataInv, BoundariesInv
<1>3. q = [package |-> t, generation |-> 0, fence |-> b.fence, event |-> b.event,
           receipt |-> b.receipt]
  BY DEF ProofOf
<1> HIDE DEF q, b
<1>4. z = [package |-> t, generation |-> g, fence |-> b.fence, event |-> b.event,
           receipt |-> b.receipt]
  BY <1>3 DEF Resolved
<1>5. b.fence \in Fences /\ b.event \in Events
  <2>1. z.fence # 0 /\ z.event # 0
    BY DEF ProofBinds, q
  <2> QED BY <1>1, <1>4, <2>1, DirectoryAssumption DEF Boundary, Fences
<1>6. t \in Packages /\ 0 \in 0..MaxGeneration
  BY HandoffAssumption, DirectoryAssumption
<1>7. /\ kind \notin {"Quarantine", "Import"} => q \in CellProofs
      /\ q.receipt \in Receipts => q \in ReceiptProofs
  BY <1>2, <1>3, <1>5, <1>6 DEF CellProofs, ReceiptProofs
<1>8. b.event # 0
  BY <1>5, DirectoryAssumption
<1>9. ExactEvent(c, t, kind, z)
  <2>1. z.generation = g /\ z.fence = b.fence
    BY <1>4
  <2> QED BY <1>2, <1>8, <2>1 DEF ExactEvent, b, q
<1> QED BY <1>7, <1>8, <1>9 DEF q, b, Event

(* A step of the reconciliation that writes a record of the transfer t.    *)
LEMMA SagaStepKeeps ==
    ASSUME HandoffInv, NEW t \in Transfers, Unfinished(t), task = t, ~failed,
           NextDirectory, NEW next \in Document, NEW o, CommitDocument(next, o),
           NEW s \in Cells, NEW d \in Cells, NEW p \in Aggregates, NEW k,
           Parties(t, s, d, p, k),
           next.assignments = disk.assignments,
           \A u \in Transfers \ {t} : next.transfers[u] = disk.transfers[u],
           \A q \in Aggregates \ {p} : next.placements[q] = disk.placements[q],
           NEW n, next.transfers[t] = n,
           n.aggregate = p, n.source = s, n.destination = d,
           n.phase # "Absent",
           Records(o, n),
           LET r == disk.transfers[t] IN
           /\ n.prepare = r.prepare \/ ExactEvent(s, t, "Prepare", n.prepare)
           /\ n.quarantine = r.quarantine \/ ExactEvent(d, t, "Quarantine", n.quarantine)
           /\ n.import = r.import \/ ExactEvent(d, t, "Import", n.import)
           /\ n.finalization = r.finalization \/ ExactEvent(s, t, "Export", n.finalization)
           /\ n.sourceAbort = r.sourceAbort \/ ExactEvent(s, t, "AbortSource", n.sourceAbort)
           /\ n.destAbort = r.destAbort \/ ExactEvent(d, t, "AbortDestination", n.destAbort),
           disk'.transfers[t] = n /\ disk'.placements = next.placements /\ UNCHANGED world =>
               /\ Ledger(t)'
               /\ n.phase \notin Terminal => Carried(t)'
               /\ n.phase \in Terminal => Idle(p)'
    PROVE  HandoffInv'
<1>1. UNCHANGED world
  BY Zenon DEF Records, DirectoryStep
<1>2. DataInv /\ ExactProofs(t)
  BY DEF HandoffInv, DataInv, ProofsAreCellEvents, Unfinished
<1>3. UNCHANGED disk => DataInv'
  BY <1>1, <1>2, NothingKeeps
<1>4. ASSUME disk'.transfers = next.transfers, disk'.placements = next.placements,
             disk'.assignments = next.assignments
      PROVE  DataInv'
  <2>1. disk'.transfers[t] = n
    BY <1>4
  <2>2. /\ Ledger(t)'
        /\ n.phase \notin Terminal => Carried(t)'
        /\ n.phase \in Terminal => Idle(p)'
    BY <1>1, <1>4, <2>1
  <2>3. Known(t)' /\ (Unfinished(t)' <=> n.phase \notin Terminal)
    BY <2>1 DEF Known, Unfinished
  <2>4. ExactProofs(t)'
    <3>1. ASSUME NEW c, NEW e, NEW q, ExactEvent(c, t, e, q)
          PROVE  ExactEvent(c, t, e, q)'
      BY <1>1, <3>1 DEF ExactEvent, ProofOf
    <3> QED BY <1>2, <2>1, <3>1 DEF ExactProofs, Parties
  <2>5. \A u \in Transfers \ {t} :
            disk'.transfers[u] = disk.transfers[u] /\ ~Unfinished(u)
    BY <1>2, <1>4 DEF DataInv, OneAtATime
  <2>6. /\ \A q \in Aggregates \ {p} : disk'.placements[q] = disk.placements[q]
        /\ disk.transfers[t].aggregate = p /\ disk'.transfers[t].aggregate = p
        /\ disk'.assignments = disk.assignments
    BY <1>4, <2>1 DEF Parties
  <2> QED BY <1>1, <2>2, <2>3, <2>4, <2>5, <2>6, RecordKeeps
<1> QED BY <1>3, <1>4, DirectoryStepKeeps

(* The source's lock is recorded.                                          *)
LEMMA RecordSourcePreparedStepKeeps ==
    ASSUME HandoffInv, NEW t \in Transfers, NEW o \in Outcomes, RecordSourcePreparedStep(t, o)
    PROVE  HandoffInv'
<1>1. task = t /\ ~failed /\ doc = disk /\ DirectoryStep(o, FALSE)
  BY Zenon DEF RecordSourcePreparedStep, Running, HandoffInv, ControlInv
<1>2. PICK g \in Generations :
          RecordSourcePrepared(t, ProofOf(disk.transfers[t].source, t, "Prepare"), g, o)
  BY <1>1 DEF RecordSourcePreparedStep
<1>3. Unfinished(t) /\ disk.transfers[t].phase = "Prepared"
  BY <1>1, <1>2 DEF RecordSourcePrepared, RecordSourcePreparedOk, Unfinished, Terminal
<1>4. PICK s \in Cells, d \in Cells, p \in Aggregates, k \in Package :
          s # d /\ Parties(t, s, d, p, k)
  BY <1>3, PartiesKnown
<1> DEFINE r == disk.transfers[t]
           q == ProofOf(s, t, "Prepare")
           z == Resolved(q, g)
           n == [r EXCEPT !.prepare = z]
           next == RecordSourcePreparedDoc(disk, t, q, g)
<1>5. r \in Transfer /\ disk \in Document
  BY HandoffTypes
<1>6. /\ CommitDocument(next, o) /\ RecordSourcePrepared(t, q, g, o)
      /\ ProofBinds(z, disk.assignments[s], r.sourceGen, r.package)
  BY <1>1, <1>2, <1>4 DEF RecordSourcePrepared, RecordSourcePreparedOk, ProofAccepted, Parties
<1>7. ExactEvent(s, t, "Prepare", z) /\ q \in CellProofs
  BY <1>6, ProofExact DEF Kinds
<1>8. NextDirectory
  BY <1>6, <1>7 DEF NextDirectory, TransferStep
<1>9. next \in Document
  BY <1>5, <1>7, ProofTypes, TransferTypes
<1>10. /\ next.assignments = disk.assignments /\ next.placements = disk.placements
       /\ \A u \in Transfers : next.transfers[u] = IF u = t THEN n ELSE disk.transfers[u]
  BY <1>5, Frames DEF RecordSourcePreparedDoc
<1> HIDE DEF next, z
<1>11. /\ n.aggregate = p /\ n.source = s /\ n.destination = d /\ n.phase = "Prepared"
       /\ n.prepare = z /\ n.quarantine = r.quarantine /\ n.import = r.import
       /\ n.finalization = r.finalization /\ n.sourceAbort = r.sourceAbort
       /\ n.destAbort = r.destAbort
  BY <1>3, <1>4, <1>5 DEF Transfer, Parties
<1> HIDE DEF n
<1>12. ASSUME disk'.transfers[t] = n, disk'.placements = next.placements, UNCHANGED world
       PROVE  Ledger(t)' /\ Carried(t)'
  <2>1. Ledger(t) /\ Carried(t)
    BY <1>3, PartiesKnown
  <2>2. Ledger(t)'
    BY <1>3, <1>4, <1>11, <1>12, <2>1 DEF Ledger, Event, Parties, Terminal, PreCommit, PostCommit
  <2>3. Carried(t)'
    BY <1>3, <1>4, <1>11, <1>12, <2>1 DEF Carried, Event, Present, Parties
  <2> QED BY <2>2, <2>3
<1>13. /\ next.transfers[t] = n /\ n.phase # "Absent" /\ n.phase \notin Terminal
       /\ \A u \in Transfers \ {t} : next.transfers[u] = disk.transfers[u]
       /\ \A a \in Aggregates \ {p} : next.placements[a] = disk.placements[a]
       /\ Records(o, n)
  BY <1>1, <1>10, <1>11, Zenon DEF Terminal, Records
<1> QED BY <1>1, <1>3, <1>4, <1>6, <1>7, <1>8, <1>9, <1>10, <1>11, <1>12, <1>13, SagaStepKeeps

(* The quarantine of the destination is recorded.                          *)
LEMMA RecordQuarantineStepKeeps ==
    ASSUME HandoffInv, NEW t \in Transfers, NEW o \in Outcomes, RecordQuarantineStep(t, o)
    PROVE  HandoffInv'
<1>1. task = t /\ ~failed /\ doc = disk /\ DirectoryStep(o, FALSE)
  BY Zenon DEF RecordQuarantineStep, Running, HandoffInv, ControlInv
<1>2. PICK g \in Generations :
          RecordQuarantine(t, ProofOf(disk.transfers[t].destination, t, "Quarantine"), g, o)
  BY <1>1 DEF RecordQuarantineStep
<1>3. Unfinished(t) /\ disk.transfers[t].phase = "Prepared"
  BY <1>1, <1>2 DEF RecordQuarantine, RecordQuarantineOk, Unfinished, Terminal
<1>4. PICK s \in Cells, d \in Cells, p \in Aggregates, k \in Package :
          s # d /\ Parties(t, s, d, p, k)
  BY <1>3, PartiesKnown
<1> DEFINE r == disk.transfers[t]
           q == ProofOf(d, t, "Quarantine")
           z == Resolved(q, g)
           n == [r EXCEPT !.phase = "Quarantined", !.receipt = q.receipt, !.quarantine = z]
           next == RecordQuarantineDoc(disk, t, q, g)
<1>5. r \in Transfer /\ disk \in Document
  BY HandoffTypes
<1>6. /\ CommitDocument(next, o) /\ RecordQuarantine(t, q, g, o)
      /\ ProofBinds(z, disk.assignments[d], r.destGen, r.package)
  BY <1>1, <1>2, <1>4 DEF RecordQuarantine, RecordQuarantineOk, ProofAccepted, Parties
<1>7. ExactEvent(d, t, "Quarantine", z) /\ Event(d, t, "Quarantine") # 0 /\ q \in ReceiptProofs
  <2>1. q.receipt \in Receipts
    BY <1>1, <1>2, <1>4 DEF RecordQuarantine, RecordQuarantineOk, Parties
  <2> QED BY <1>6, <2>1, ProofExact DEF Kinds
<1>8. NextDirectory
  BY <1>6, <1>7 DEF NextDirectory, TransferStep
<1>9. next \in Document
  BY <1>5, <1>7, ProofTypes, TransferTypes
<1>10. /\ next.assignments = disk.assignments /\ next.placements = disk.placements
       /\ \A u \in Transfers : next.transfers[u] = IF u = t THEN n ELSE disk.transfers[u]
  BY <1>5, Frames DEF RecordQuarantineDoc
<1> HIDE DEF next, z
<1>11. /\ n.aggregate = p /\ n.source = s /\ n.destination = d /\ n.phase = "Quarantined"
       /\ n.prepare = r.prepare /\ n.quarantine = z /\ n.import = r.import
       /\ n.finalization = r.finalization /\ n.sourceAbort = r.sourceAbort /\ n.destAbort = r.destAbort
  BY <1>3, <1>4, <1>5 DEF Transfer, Parties
<1> HIDE DEF n
<1>12. ASSUME disk'.transfers[t] = n, disk'.placements = next.placements, UNCHANGED world
       PROVE  Ledger(t)' /\ Carried(t)'
  <2>1. Ledger(t) /\ Carried(t)
    BY <1>3, PartiesKnown
  <2>2. Ledger(t)'
    BY <1>3, <1>4, <1>7, <1>11, <1>12, <2>1
       DEF Ledger, Event, Parties, Terminal, PreCommit, PostCommit
  <2>3. Carried(t)'
    BY <1>3, <1>4, <1>11, <1>12, <2>1 DEF Carried, Event, Present, Parties
  <2> QED BY <2>2, <2>3
<1>13. /\ next.transfers[t] = n /\ n.phase # "Absent" /\ n.phase \notin Terminal
       /\ \A u \in Transfers \ {t} : next.transfers[u] = disk.transfers[u]
       /\ \A a \in Aggregates \ {p} : next.placements[a] = disk.placements[a]
       /\ Records(o, n)
  BY <1>1, <1>10, <1>11, Zenon DEF Terminal, Records
<1> QED BY <1>1, <1>3, <1>4, <1>6, <1>7, <1>8, <1>9, <1>10, <1>11, <1>12, <1>13, SagaStepKeeps

(* The cleanup of the source is recorded.                                  *)
LEMMA RecordSourceCleanupStepKeeps ==
    ASSUME HandoffInv, NEW t \in Transfers, NEW o \in Outcomes, RecordAbortCleanupStep(t, "Source", o)
    PROVE  HandoffInv'
<1>1. task = t /\ ~failed /\ doc = disk /\ DirectoryStep(o, FALSE)
  BY Zenon DEF RecordAbortCleanupStep, Running, HandoffInv, ControlInv
<1>2. PICK g \in Generations :
          RecordAbortCleanup(t, "Source", ProofOf(disk.transfers[t].source, t, "AbortSource"), g, o)
  BY <1>1 DEF RecordAbortCleanupStep, RoleCell, AbortKind
<1>3. Unfinished(t) /\ disk.transfers[t].phase = "Aborting"
  BY <1>1, <1>2 DEF RecordAbortCleanup, RecordAbortCleanupOk, Unfinished, Terminal
<1>4. PICK s \in Cells, d \in Cells, p \in Aggregates, k \in Package :
          s # d /\ Parties(t, s, d, p, k)
  BY <1>3, PartiesKnown
<1> DEFINE r == disk.transfers[t]
           q == ProofOf(s, t, "AbortSource")
           z == Resolved(q, g)
           n == [r EXCEPT !.sourceAbort = z]
           next == RecordAbortCleanupDoc(disk, t, "Source", q, g)
<1>5. r \in Transfer /\ disk \in Document
  BY HandoffTypes
<1>6. /\ CommitDocument(next, o) /\ RecordAbortCleanup(t, "Source", q, g, o)
      /\ ProofBinds(z, disk.assignments[s], RoleMinGen(r, "Source"), r.package)
  BY <1>1, <1>2, <1>4 DEF RecordAbortCleanup, RecordAbortCleanupOk, ProofAccepted, Parties, RoleCell
<1>7. ExactEvent(s, t, "AbortSource", z) /\ Event(s, t, "AbortSource") # 0 /\ q \in CellProofs
  BY <1>6, ProofExact DEF Kinds
<1>8. NextDirectory
  BY <1>6, <1>7 DEF NextDirectory, TransferStep, AbortRoles
<1>9. next \in Document
  BY <1>5, <1>7, ProofTypes, TransferTypes
<1>10. /\ next.assignments = disk.assignments /\ next.placements = disk.placements
       /\ \A u \in Transfers : next.transfers[u] = IF u = t THEN n ELSE disk.transfers[u]
  BY <1>5, Frames DEF RecordAbortCleanupDoc
<1> HIDE DEF next, z
<1>11. /\ n.aggregate = p /\ n.source = s /\ n.destination = d /\ n.phase = "Aborting"
       /\ n.prepare = r.prepare /\ n.quarantine = r.quarantine /\ n.import = r.import
       /\ n.finalization = r.finalization /\ n.sourceAbort = z /\ n.destAbort = r.destAbort
  BY <1>3, <1>4, <1>5 DEF Transfer, Parties
<1> HIDE DEF n
<1>12. ASSUME disk'.transfers[t] = n, disk'.placements = next.placements, UNCHANGED world
       PROVE  Ledger(t)' /\ Carried(t)'
  <2>1. Ledger(t) /\ Carried(t)
    BY <1>3, PartiesKnown
  <2>2. Ledger(t)'
    BY <1>3, <1>4, <1>7, <1>11, <1>12, <2>1
       DEF Ledger, Event, Parties, Terminal, PreCommit, PostCommit
  <2>3. Carried(t)'
    BY <1>3, <1>4, <1>11, <1>12, <2>1 DEF Carried, Event, Present, Parties
  <2> QED BY <2>2, <2>3
<1>13. /\ next.transfers[t] = n /\ n.phase # "Absent" /\ n.phase \notin Terminal
       /\ \A u \in Transfers \ {t} : next.transfers[u] = disk.transfers[u]
       /\ \A a \in Aggregates \ {p} : next.placements[a] = disk.placements[a]
       /\ Records(o, n)
  BY <1>1, <1>10, <1>11, Zenon DEF Terminal, Records
<1> QED BY <1>1, <1>3, <1>4, <1>6, <1>7, <1>8, <1>9, <1>10, <1>11, <1>12, <1>13, SagaStepKeeps

(* The cleanup of the destination is recorded.                             *)
LEMMA RecordDestinationCleanupStepKeeps ==
    ASSUME HandoffInv, NEW t \in Transfers, NEW o \in Outcomes, RecordAbortCleanupStep(t, "Destination", o)
    PROVE  HandoffInv'
<1>1. task = t /\ ~failed /\ doc = disk /\ DirectoryStep(o, FALSE)
  BY Zenon DEF RecordAbortCleanupStep, Running, HandoffInv, ControlInv
<1>2. PICK g \in Generations :
          RecordAbortCleanup(t, "Destination", ProofOf(disk.transfers[t].destination, t, "AbortDestination"), g, o)
  BY <1>1 DEF RecordAbortCleanupStep, RoleCell, AbortKind
<1>3. Unfinished(t) /\ disk.transfers[t].phase = "Aborting"
  BY <1>1, <1>2 DEF RecordAbortCleanup, RecordAbortCleanupOk, Unfinished, Terminal
<1>4. PICK s \in Cells, d \in Cells, p \in Aggregates, k \in Package :
          s # d /\ Parties(t, s, d, p, k)
  BY <1>3, PartiesKnown
<1> DEFINE r == disk.transfers[t]
           q == ProofOf(d, t, "AbortDestination")
           z == Resolved(q, g)
           n == [r EXCEPT !.destAbort = z]
           next == RecordAbortCleanupDoc(disk, t, "Destination", q, g)
<1>5. r \in Transfer /\ disk \in Document
  BY HandoffTypes
<1>6. /\ CommitDocument(next, o) /\ RecordAbortCleanup(t, "Destination", q, g, o)
      /\ ProofBinds(z, disk.assignments[d], RoleMinGen(r, "Destination"), r.package)
  BY <1>1, <1>2, <1>4 DEF RecordAbortCleanup, RecordAbortCleanupOk, ProofAccepted, Parties, RoleCell
<1>7. ExactEvent(d, t, "AbortDestination", z) /\ Event(d, t, "AbortDestination") # 0 /\ q \in CellProofs
  BY <1>6, ProofExact DEF Kinds
<1>8. NextDirectory
  BY <1>6, <1>7 DEF NextDirectory, TransferStep, AbortRoles
<1>9. next \in Document
  BY <1>5, <1>7, ProofTypes, TransferTypes
<1>10. /\ next.assignments = disk.assignments /\ next.placements = disk.placements
       /\ \A u \in Transfers : next.transfers[u] = IF u = t THEN n ELSE disk.transfers[u]
  BY <1>5, Frames DEF RecordAbortCleanupDoc
<1> HIDE DEF next, z
<1>11. /\ n.aggregate = p /\ n.source = s /\ n.destination = d /\ n.phase = "Aborting"
       /\ n.prepare = r.prepare /\ n.quarantine = r.quarantine /\ n.import = r.import
       /\ n.finalization = r.finalization /\ n.sourceAbort = r.sourceAbort /\ n.destAbort = z
  BY <1>3, <1>4, <1>5 DEF Transfer, Parties
<1> HIDE DEF n
<1>12. ASSUME disk'.transfers[t] = n, disk'.placements = next.placements, UNCHANGED world
       PROVE  Ledger(t)' /\ Carried(t)'
  <2>1. Ledger(t) /\ Carried(t)
    BY <1>3, PartiesKnown
  <2>2. Ledger(t)'
    BY <1>3, <1>4, <1>7, <1>11, <1>12, <2>1
       DEF Ledger, Event, Parties, Terminal, PreCommit, PostCommit
  <2>3. Carried(t)'
    BY <1>3, <1>4, <1>11, <1>12, <2>1 DEF Carried, Event, Present, Parties
  <2> QED BY <2>2, <2>3
<1>13. /\ next.transfers[t] = n /\ n.phase # "Absent" /\ n.phase \notin Terminal
       /\ \A u \in Transfers \ {t} : next.transfers[u] = disk.transfers[u]
       /\ \A a \in Aggregates \ {p} : next.placements[a] = disk.placements[a]
       /\ Records(o, n)
  BY <1>1, <1>10, <1>11, Zenon DEF Terminal, Records
<1> QED BY <1>1, <1>3, <1>4, <1>6, <1>7, <1>8, <1>9, <1>10, <1>11, <1>12, <1>13, SagaStepKeeps

(* The import of the destination is recorded.                              *)
LEMMA RecordImportedStepKeeps ==
    ASSUME HandoffInv, NEW t \in Transfers, NEW o \in Outcomes, RecordImportedStep(t, o)
    PROVE  HandoffInv'
<1>1. task = t /\ ~failed /\ doc = disk /\ DirectoryStep(o, FALSE)
  BY Zenon DEF RecordImportedStep, Running, HandoffInv, ControlInv
<1>2. PICK g \in Generations :
          RecordImported(t, ProofOf(disk.transfers[t].destination, t, "Import"), g, o)
  BY <1>1 DEF RecordImportedStep
<1>3. Unfinished(t) /\ disk.transfers[t].phase = "Committed"
  BY <1>1, <1>2 DEF RecordImported, RecordImportedOk, Unfinished, Terminal
<1>4. PICK s \in Cells, d \in Cells, p \in Aggregates, k \in Package :
          s # d /\ Parties(t, s, d, p, k)
  BY <1>3, PartiesKnown
<1> DEFINE r == disk.transfers[t]
           q == ProofOf(d, t, "Import")
           z == Resolved(q, g)
           n == [r EXCEPT !.phase = "Imported", !.import = z]
           x == disk.placements[p]
           y == [x EXCEPT !.state = "Resident", !.transfer = None]
           next == RecordImportedDoc(disk, t, q, g)
<1>5. /\ r \in Transfer /\ disk \in Document /\ x \in Placement
      /\ PhaseProofs(r)
  BY <1>3, HandoffTypes, Existing DEF HandoffInv, DirectoryFull, DocFull
<1>6. /\ CommitDocument(next, o) /\ RecordImported(t, q, g, o)
      /\ ProofBinds(z, disk.assignments[d], r.destGen, r.package)
      /\ x.cell = d /\ q.receipt = r.receipt
  BY <1>1, <1>2, <1>4
     DEF RecordImported, RecordImportedOk, ProofAccepted, BoundInTransit, Parties
<1>7. ExactEvent(d, t, "Import", z) /\ Event(d, t, "Import") # 0 /\ q \in ReceiptProofs
  <2>1. q.receipt \in Receipts
    BY <1>3, <1>5, <1>6 DEF PhaseProofs, PostCommit, Transfer
  <2> QED BY <1>6, <2>1, ProofExact DEF Kinds
<1>8. NextDirectory
  BY <1>6, <1>7 DEF NextDirectory, TransferStep
<1>9. next \in Document
  BY <1>5, <1>7, ProofTypes, TransferTypes
<1>10. /\ next.assignments = disk.assignments
       /\ \A a \in Aggregates :
             next.placements[a] = IF a = p THEN y ELSE disk.placements[a]
       /\ \A u \in Transfers : next.transfers[u] = IF u = t THEN n ELSE disk.transfers[u]
  <2>1. next = SetTransfer(SetPlacement(disk, p, y), t, n)
    BY <1>4 DEF RecordImportedDoc, Settle, Parties
  <2>2. y \in Placement
    BY <1>5, Zenon DEF Placement, PlacementStates
  <2>3. z \in Proof
    BY <1>7, ProofTypes, ResolvedType
  <2> HIDE DEF z, next
  <2>4. n \in Transfer
    BY <1>5, <2>3, Zenon DEF Transfer, Phases, PostCommit
  <2> HIDE DEF n, y
  <2> QED BY <1>5, <2>1, <2>2, <2>4, BothFrames
<1> HIDE DEF next, z
<1>11. /\ n.aggregate = p /\ n.source = s /\ n.destination = d /\ n.phase = "Imported"
       /\ n.prepare = r.prepare /\ n.quarantine = r.quarantine /\ n.import = z
       /\ n.finalization = r.finalization /\ n.sourceAbort = r.sourceAbort
       /\ n.destAbort = r.destAbort
       /\ y.cell = d
  BY <1>3, <1>4, <1>5, <1>6 DEF Transfer, Placement, Parties
<1> HIDE DEF n, y
<1>12. ASSUME disk'.transfers[t] = n, disk'.placements = next.placements, UNCHANGED world
       PROVE  Ledger(t)' /\ Carried(t)'
  <2>1. Ledger(t) /\ Carried(t)
    BY <1>3, PartiesKnown
  <2>2. Ledger(t)'
    BY <1>3, <1>4, <1>7, <1>11, <1>12, <2>1
       DEF Ledger, Event, Parties, Terminal, PreCommit, PostCommit
  <2>3. disk'.placements[p].cell = d
    BY <1>10, <1>11, <1>12
  <2>4. Carried(t)'
    BY <1>3, <1>4, <1>11, <1>12, <2>1, <2>3 DEF Carried, Event, Present, Parties
  <2> QED BY <2>2, <2>4
<1>13. /\ next.transfers[t] = n /\ n.phase # "Absent" /\ n.phase \notin Terminal
       /\ \A u \in Transfers \ {t} : next.transfers[u] = disk.transfers[u]
       /\ \A a \in Aggregates \ {p} : next.placements[a] = disk.placements[a]
       /\ Records(o, n)
  BY <1>1, <1>10, <1>11, Zenon DEF Terminal, Records
<1> QED BY <1>1, <1>3, <1>4, <1>6, <1>7, <1>8, <1>9, <1>10, <1>11, <1>12, <1>13, SagaStepKeeps

(* The commit: from here on the player belongs to the destination.  Its    *)
(* source copy is locked, since the prepare event is on record.            *)
LEMMA CommitTransferStepKeeps ==
    ASSUME HandoffInv, NEW t \in Transfers, NEW o \in Outcomes, CommitTransferStep(t, o)
    PROVE  HandoffInv'
<1>1. task = t /\ ~failed /\ doc = disk /\ DirectoryStep(o, FALSE)
  BY Zenon DEF CommitTransferStep, Running, HandoffInv, ControlInv
<1> DEFINE r == disk.transfers[t]
<1>2. CommitTransfer(t, r.priorGen, o) /\ r.prepare # NoProof
  BY <1>1 DEF CommitTransferStep, CommitTransfer, CommitTransferOk
<1>3. Unfinished(t) /\ r.phase = "Quarantined"
  BY <1>1, <1>2 DEF CommitTransfer, CommitTransferOk, Unfinished, Terminal
<1>4. PICK s \in Cells, d \in Cells, p \in Aggregates, k \in Package :
          s # d /\ Parties(t, s, d, p, k)
  BY <1>3, PartiesKnown
<1> DEFINE n == [r EXCEPT !.phase = "Committed"]
           y == [disk.placements[p] EXCEPT !.cell = d, !.generation = r.resultGen,
                                           !.state = "InTransit"]
           next == CommitTransferDoc(disk, t)
<1>5. /\ r \in Transfer /\ disk \in Document /\ disk.placements[p] \in Placement
      /\ ValidTransferIdentity(r)
  BY <1>3, HandoffTypes DEF HandoffInv, DirectoryFull, DocFull, DocInv, ValidTransfer
<1>6. CommitDocument(next, o)
  BY <1>1, <1>2 DEF CommitTransfer
<1>7. Event(s, t, "Prepare") # 0
  BY <1>2, <1>3, <1>4, Zenon
     DEF HandoffInv, DataInv, ProofsAreCellEvents, ExactProofs, ExactEvent, Event, Parties
<1>8. NextDirectory
  <2>1. r.priorGen \in Generations
    BY <1>5, DirectoryAssumption DEF ValidTransferIdentity, Transfer, Generations
  <2> QED BY <1>2, <2>1 DEF NextDirectory, TransferStep
<1>10. /\ next \in Document /\ next.assignments = disk.assignments
       /\ \A a \in Aggregates :
             next.placements[a] = IF a = p THEN y ELSE disk.placements[a]
       /\ \A u \in Transfers : next.transfers[u] = IF u = t THEN n ELSE disk.transfers[u]
  <2>1. next = SetTransfer(SetPlacement(disk, p, y), t, n)
    BY <1>4 DEF CommitTransferDoc, Parties
  <2>2. y \in Placement
    BY <1>5, Zenon DEF Placement, PlacementStates, Transfer
  <2>3. n \in Transfer
    BY <1>5 DEF Transfer, Phases, PostCommit
  <2> HIDE DEF n, y, next
  <2> QED BY <1>5, <2>1, <2>2, <2>3, BothFrames
<1> HIDE DEF next, y
<1>11. /\ n.aggregate = p /\ n.source = s /\ n.destination = d /\ n.phase = "Committed"
       /\ n.prepare = r.prepare /\ n.quarantine = r.quarantine /\ n.import = r.import
       /\ n.finalization = r.finalization /\ n.sourceAbort = r.sourceAbort
       /\ n.destAbort = r.destAbort
  BY <1>4, <1>5 DEF Transfer, Parties
<1> HIDE DEF n
<1>12. ASSUME disk'.transfers[t] = n, disk'.placements = next.placements, UNCHANGED world
       PROVE  Ledger(t)' /\ Carried(t)'
  <2>1. Ledger(t) /\ Carried(t)
    BY <1>3, PartiesKnown
  <2>2. Ledger(t)'
    BY <1>3, <1>4, <1>7, <1>11, <1>12, <2>1
       DEF Ledger, Event, Parties, Terminal, PreCommit, PostCommit
  <2>3. Carried(t)'
    BY <1>3, <1>4, <1>11, <1>12, <2>1 DEF Carried, Event, Present, Parties
  <2> QED BY <2>2, <2>3
<1>13. /\ next.transfers[t] = n /\ n.phase # "Absent" /\ n.phase \notin Terminal
       /\ \A u \in Transfers \ {t} : next.transfers[u] = disk.transfers[u]
       /\ \A a \in Aggregates \ {p} : next.placements[a] = disk.placements[a]
       /\ Records(o, n)
  BY <1>1, <1>10, <1>11, Zenon DEF Terminal, Records
<1> QED BY <1>1, <1>3, <1>4, <1>6, <1>8, <1>10, <1>11, <1>12, <1>13, SagaStepKeeps

(* The export of the source is recorded: the player is at the destination  *)
(* and nowhere locked.                                                     *)
LEMMA FinalizeTransferStepKeeps ==
    ASSUME HandoffInv, NEW t \in Transfers, NEW o \in Outcomes, FinalizeTransferStep(t, o)
    PROVE  HandoffInv'
<1>1. task = t /\ ~failed /\ doc = disk /\ DirectoryStep(o, TRUE)
  BY Zenon DEF FinalizeTransferStep, Running, HandoffInv, ControlInv
<1>2. PICK g \in Generations :
          FinalizeTransfer(t, ProofOf(disk.transfers[t].source, t, "Export"), g, o)
  BY <1>1 DEF FinalizeTransferStep
<1>3. Unfinished(t) /\ disk.transfers[t].phase = "Imported"
  BY <1>1, <1>2 DEF FinalizeTransfer, FinalizeTransferOk, Unfinished, Terminal
<1>4. PICK s \in Cells, d \in Cells, p \in Aggregates, k \in Package :
          s # d /\ Parties(t, s, d, p, k)
  BY <1>3, PartiesKnown
<1> DEFINE r == disk.transfers[t]
           q == ProofOf(s, t, "Export")
           z == Resolved(q, g)
           n == [r EXCEPT !.phase = "Finalized", !.finalization = z]
           next == FinalizeTransferDoc(disk, t, q, g)
<1>5. /\ r \in Transfer /\ disk \in Document
      /\ PhaseProofs(r)
  BY <1>3, HandoffTypes, Existing DEF HandoffInv, DirectoryFull, DocFull
<1>6. /\ CommitDocument(next, o) /\ FinalizeTransfer(t, q, g, o)
      /\ ProofBinds(z, disk.assignments[s], r.sourceGen, r.package)
      /\ disk.placements[p].cell = d
  BY <1>1, <1>2, <1>4 DEF FinalizeTransfer, FinalizeTransferOk, ProofAccepted, Parties
<1>7. ExactEvent(s, t, "Export", z) /\ Event(s, t, "Export") # 0 /\ q \in CellProofs
  BY <1>6, ProofExact DEF Kinds
<1>8. NextDirectory
  BY <1>6, <1>7 DEF NextDirectory, TransferStep
<1>9. next \in Document
  BY <1>5, <1>7, ProofTypes, TransferTypes
<1>10. /\ next.assignments = disk.assignments /\ next.placements = disk.placements
       /\ \A u \in Transfers : next.transfers[u] = IF u = t THEN n ELSE disk.transfers[u]
  BY <1>5, Frames DEF FinalizeTransferDoc
<1> HIDE DEF next, z
<1>11. /\ n.aggregate = p /\ n.source = s /\ n.destination = d /\ n.phase = "Finalized"
       /\ n.prepare = r.prepare /\ n.quarantine = r.quarantine /\ n.import = r.import
       /\ n.finalization = z /\ n.sourceAbort = r.sourceAbort /\ n.destAbort = r.destAbort
  BY <1>3, <1>4, <1>5 DEF Transfer, Parties
<1> HIDE DEF n
<1>14. Event(d, t, "Import") # 0
  BY <1>3, <1>4, <1>5, Zenon
     DEF HandoffInv, DataInv, ProofsAreCellEvents, ExactProofs, ExactEvent, Event, Parties,
         PhaseProofs
<1>12. ASSUME disk'.transfers[t] = n, disk'.placements = next.placements, UNCHANGED world
       PROVE  Ledger(t)' /\ Idle(p)'
  <2>1. Ledger(t) /\ Carried(t)
    BY <1>3, PartiesKnown
  <2>2. Ledger(t)'
    BY <1>3, <1>4, <1>7, <1>11, <1>12, <2>1
       DEF Ledger, Event, Parties, Terminal, PreCommit, PostCommit
  <2>3. \A c \in Cells : (Present(c, p) <=> c = d) /\ world[c].lock[p] = None
    BY <1>4, <1>7, <1>14, <2>1 DEF Carried, Ledger, Parties
  <2>4. Idle(p)'
    BY <1>6, <1>10, <1>12, <2>3 DEF Idle, Present
  <2> QED BY <2>2, <2>4
<1>13. /\ next.transfers[t] = n /\ n.phase # "Absent" /\ n.phase \in Terminal
       /\ \A u \in Transfers \ {t} : next.transfers[u] = disk.transfers[u]
       /\ \A a \in Aggregates \ {p} : next.placements[a] = disk.placements[a]
       /\ Records(o, n)
  BY <1>1, <1>10, <1>11, Zenon DEF Terminal, Records
<1> QED BY <1>1, <1>3, <1>4, <1>6, <1>7, <1>8, <1>9, <1>10, <1>11, <1>12, <1>13, SagaStepKeeps

(* The aborted transfer leaves its player at the source, unlocked by the   *)
(* event that the source's cleanup proof names.                            *)
LEMMA FinalizeAbortStepKeeps ==
    ASSUME HandoffInv, NEW t \in Transfers, NEW o \in Outcomes, FinalizeAbortStep(t, o)
    PROVE  HandoffInv'
<1>1. task = t /\ ~failed /\ doc = disk /\ DirectoryStep(o, TRUE)
  BY Zenon DEF FinalizeAbortStep, Running, HandoffInv, ControlInv
<1> DEFINE r == disk.transfers[t]
<1>2. FinalizeAbort(t, o) /\ r.sourceAbort # NoProof /\ r.destAbort # NoProof
  BY <1>1 DEF FinalizeAbortStep, FinalizeAbort, FinalizeAbortOk
<1>3. Unfinished(t) /\ r.phase = "Aborting"
  BY <1>1, <1>2 DEF FinalizeAbort, FinalizeAbortOk, Unfinished, Terminal
<1>4. PICK s \in Cells, d \in Cells, p \in Aggregates, k \in Package :
          s # d /\ Parties(t, s, d, p, k)
  BY <1>3, PartiesKnown
<1> DEFINE n == [r EXCEPT !.phase = "Aborted"]
           x == disk.placements[p]
           y == [x EXCEPT !.state = "Resident", !.transfer = None]
           next == FinalizeAbortDoc(disk, t)
<1>5. r \in Transfer /\ disk \in Document /\ x \in Placement
  BY HandoffTypes
<1>6. CommitDocument(next, o) /\ x.cell = s
  BY <1>1, <1>2, <1>4 DEF FinalizeAbort, FinalizeAbortOk, BoundAtSource, Parties
<1>7. Event(s, t, "AbortSource") # 0 /\ Event(d, t, "AbortDestination") # 0
  BY <1>2, <1>3, <1>4, Zenon
     DEF HandoffInv, DataInv, ProofsAreCellEvents, ExactProofs, ExactEvent, Event, Parties
<1>8. NextDirectory
  BY <1>2 DEF NextDirectory, TransferStep
<1>10. /\ next \in Document /\ next.assignments = disk.assignments
       /\ \A a \in Aggregates :
             next.placements[a] = IF a = p THEN y ELSE disk.placements[a]
       /\ \A u \in Transfers : next.transfers[u] = IF u = t THEN n ELSE disk.transfers[u]
  <2>1. next = SetTransfer(SetPlacement(disk, p, y), t, n)
    BY <1>4 DEF FinalizeAbortDoc, Settle, Parties
  <2>2. y \in Placement
    BY <1>5, Zenon DEF Placement, PlacementStates
  <2>3. n \in Transfer
    BY <1>5 DEF Transfer, Phases
  <2> HIDE DEF n, y, next
  <2> QED BY <1>5, <2>1, <2>2, <2>3, BothFrames
<1> HIDE DEF next
<1>11. /\ n.aggregate = p /\ n.source = s /\ n.destination = d /\ n.phase = "Aborted"
       /\ n.prepare = r.prepare /\ n.quarantine = r.quarantine /\ n.import = r.import
       /\ n.finalization = r.finalization /\ n.sourceAbort = r.sourceAbort
       /\ n.destAbort = r.destAbort
       /\ y.cell = s
  BY <1>4, <1>5, <1>6 DEF Transfer, Parties, Placement
<1> HIDE DEF n, y
<1>12. ASSUME disk'.transfers[t] = n, disk'.placements = next.placements, UNCHANGED world
       PROVE  Ledger(t)' /\ Idle(p)'
  <2>1. Ledger(t) /\ Carried(t)
    BY <1>3, PartiesKnown
  <2>2. Ledger(t)'
    BY <1>3, <1>4, <1>7, <1>11, <1>12, <2>1
       DEF Ledger, Event, Parties, Terminal, PreCommit, PostCommit
  <2>3. \A c \in Cells : (Present(c, p) <=> c = s) /\ world[c].lock[p] = None
    BY <1>3, <1>4, <1>7, <2>1 DEF Carried, Ledger, Parties, PostCommit
  <2>4. disk'.placements[p].cell = s
    BY <1>10, <1>11, <1>12
  <2>5. Idle(p)'
    BY <1>12, <2>3, <2>4 DEF Idle, Present
  <2> QED BY <2>2, <2>5
<1>13. /\ next.transfers[t] = n /\ n.phase # "Absent" /\ n.phase \in Terminal
       /\ \A u \in Transfers \ {t} : next.transfers[u] = disk.transfers[u]
       /\ \A a \in Aggregates \ {p} : next.placements[a] = disk.placements[a]
       /\ Records(o, n)
  BY <1>1, <1>10, <1>11, Zenon DEF Terminal, Records
<1> QED BY <1>1, <1>3, <1>4, <1>6, <1>8, <1>10, <1>11, <1>12, <1>13, SagaStepKeeps

(* A new transfer starts beside no other: its player is in one cell, not   *)
(* locked, and no cell has an event of it.                                 *)
LEMMA PrepareStepKeeps ==
    ASSUME HandoffInv, NEW t \in Transfers, NEW o \in Outcomes, PrepareStep(t, o)
    PROVE  HandoffInv'
<1> DEFINE p == package[t].player
           d == package[t].destination
           x == disk.placements[p]
           s == x.cell
           n == NewTransfer(disk, p, d, t)
           y == [x EXCEPT !.state = "Preparing", !.transfer = t]
           next == PrepareTransferDoc(disk, p, t, d, t)
<1>1. task = t /\ ~failed /\ doc = disk /\ DirectoryStep(o, FALSE)
  BY Zenon DEF PrepareStep, Running, HandoffInv, ControlInv
<1>2. /\ PrepareTransfer(p, package[t].priorGen, t, d, t, o)
      /\ CommitDocument(next, o)
      /\ disk.transfers[t].phase = "Absent"
      /\ x.state = "Resident" /\ s # d /\ x.generation < MaxGeneration
      /\ x.generation = package[t].priorGen
  BY <1>1 DEF PrepareStep, PrepareTransfer, PrepareTransferOk
<1>3. task # None
  BY <1>1, DirectoryAssumption
<1>4. p \in Aggregates /\ d \in Cells
  BY <1>1, <1>3 DEF HandoffInv, ControlInv, TypeOKHandoff, Package
<1>5. x \in Placement /\ disk \in Document /\ s \in Cells
  BY <1>4, HandoffTypes DEF Placement
<1>6. \A u \in Transfers : ~Unfinished(u)
  BY <1>1, <1>2, <1>3 DEF HandoffInv, ControlInv, Known, Unfinished
<1>7. Idle(p) /\ Untouched(t)
  BY <1>2, <1>4, <1>6 DEF HandoffInv, DataInv, PlayersInv, LedgersInv, Known
<1>8. NextDirectory
  <2>1. package[t].priorGen \in Generations
    <3>1. x.generation # 0
      BY <1>2, <1>4 DEF HandoffInv, DirectoryFull, DocFull, DocInv, ValidPlacement
    <3> QED BY <1>2, <1>5, <3>1, DirectoryAssumption DEF Placement, Generations
  <2>2. t \in Packages
    BY HandoffAssumption
  <2> QED BY <1>2, <1>4, <2>1, <2>2 DEF NextDirectory, TransferStep
<1> HIDE DEF p, d
<1>9. n \in Transfer /\ y \in Placement
  <2>1. disk.assignments[s] \in Assignment /\ disk.assignments[d] \in Assignment
    BY <1>4, <1>5, HandoffTypes
  <2>2. x.generation + 1 \in 0..MaxGeneration
    BY <1>2, <1>5, DirectoryAssumption DEF Placement
  <2>3. t \in Packages
    BY HandoffAssumption
  <2> QED BY <1>4, <1>5, <2>1, <2>2, <2>3, AbsentTypes, ZenonT(60)
          DEF NewTransfer, AbsentTransfer, Transfer, Placement, PlacementStates, Assignment,
              Phases, PreCommit
<1>10. /\ n.aggregate = p /\ n.source = s /\ n.destination = d /\ n.phase = "Prepared"
       /\ n.prepare = NoProof /\ n.quarantine = NoProof /\ n.import = NoProof
       /\ n.finalization = NoProof /\ n.sourceAbort = NoProof /\ n.destAbort = NoProof
  BY DEF NewTransfer, AbsentTransfer
<1> HIDE DEF n
<1>11. /\ next \in Document /\ next.assignments = disk.assignments
       /\ \A a \in Aggregates :
             next.placements[a] = IF a = p THEN y ELSE disk.placements[a]
       /\ \A u \in Transfers : next.transfers[u] = IF u = t THEN n ELSE disk.transfers[u]
  <2>1. next = SetTransfer(SetPlacement(disk, p, y), t, n)
    BY DEF PrepareTransferDoc, n
  <2> HIDE DEF next, y
  <2> QED BY <1>4, <1>5, <1>9, <2>1, BothFrames
<1> HIDE DEF next, y
<1>12. UNCHANGED world
  BY <1>1 DEF DirectoryStep
<1>13. UNCHANGED disk => DataInv'
  BY <1>12, NothingKeeps DEF HandoffInv
<1>14. ASSUME disk'.transfers = next.transfers, disk'.placements = next.placements,
              disk'.assignments = next.assignments
       PROVE  DataInv'
  <2>1. disk'.transfers[t] = n
    BY <1>11, <1>14
  <2>2. PICK c \in Cells : /\ x.state # "Absent" => x.cell = c
                           /\ \A b \in Cells : /\ Present(b, p) <=> b = c
                                               /\ world[b].lock[p] = None
    BY <1>7 DEF Idle
  <2>3. c = s
    BY <1>2, <2>2
  <2>4. Ledger(t)'
    <3>1. /\ \A b \in Cells, e \in Kinds : world[b].boundary[t][e].event = 0
          /\ world[s].lock[p] # t
          /\ world[s].witness[t] = "None" /\ world[d].witness[t] = "None"
      BY <1>4, <1>5, <1>7 DEF Untouched, Event
    <3> QED BY <1>4, <1>5, <1>10, <1>12, <2>1, <3>1
            DEF Ledger, Event, Kinds, Terminal, PostCommit
  <2>5. Carried(t)'
    <3>1. \A b \in Cells, e \in Kinds : world[b].boundary[t][e].event = 0
      BY <1>7 DEF Untouched, Event
    <3> QED BY <1>4, <1>5, <1>10, <1>12, <2>1, <2>2, <2>3, <3>1
            DEF Carried, Event, Present, Kinds
  <2>6. ExactProofs(t)'
    BY <1>10, <2>1 DEF ExactProofs, ExactEvent
  <2>7. /\ Known(t)' /\ Unfinished(t)'
        /\ disk'.transfers[t].aggregate = p /\ disk'.assignments = disk.assignments
    BY <1>10, <1>11, <1>14, <2>1 DEF Known, Unfinished, Terminal
  <2>8. /\ \A u \in Transfers \ {t} :
              disk'.transfers[u] = disk.transfers[u] /\ ~Unfinished(u)
        /\ \A q \in Aggregates \ {p} : disk'.placements[q] = disk.placements[q]
    BY <1>6, <1>11, <1>14
  <2> QED BY <1>4, <1>6, <1>12, <2>4, <2>5, <2>6, <2>7, <2>8, RecordKeeps
<1>15. /\ Records(o, next.transfers[t]) /\ next.transfers[t].phase # "Absent"
       /\ \A u \in Transfers \ {t} : next.transfers[u] = disk.transfers[u]
  BY <1>1, <1>10, <1>11, Zenon DEF Records
<1> QED BY <1>1, <1>2, <1>8, <1>11, <1>13, <1>14, <1>15, DirectoryStepKeeps

-----------------------------------------------------------------------------
(* The opening, the end of the process, and gameplay.                      *)

(* The process starts, or it ends at whatever point it has reached.        *)
LEMMA StartOpenKeeps ==
    ASSUME HandoffInv, StartOpen
    PROVE  HandoffInv'
<1>1. UNCHANGED <<world, disk>> /\ doc' = disk /\ open'
  BY DEF StartOpen, OpenDirectory
<1>2. DataInv'
  BY <1>1, NothingKeeps DEF HandoffInv
<1>3. DirectoryFull'
  BY FullInductive DEF HandoffInv, StartOpen, NextDirectory
<1>4. TypeOKHandoff'
  <2>1. TypeOK'
    BY <1>3 DEF DirectoryFull, DocFull, DocInv, TypeOK
  <2> QED BY <2>1, Zenon DEF HandoffInv, TypeOKHandoff, StartOpen
<1>5. ControlInv'
  BY <1>1 DEF HandoffInv, ControlInv, StartOpen, Known, Unfinished
<1> QED BY <1>2, <1>3, <1>4, <1>5 DEF HandoffInv

LEMMA StopKeeps ==
    ASSUME HandoffInv, Crash \/ GiveUp
    PROVE  HandoffInv'
<1>1. Stop /\ CloseDirectory /\ faults' \in 0..MaxFaults
  BY HandoffAssumption DEF Crash, GiveUp, Stop, HandoffInv, TypeOKHandoff
<1>2. UNCHANGED <<world, disk>> /\ doc' = disk /\ ~open'
  BY <1>1 DEF Stop, CloseDirectory
<1>3. DataInv'
  BY <1>2, NothingKeeps DEF HandoffInv
<1>4. DirectoryFull'
  BY <1>1, FullInductive DEF HandoffInv, NextDirectory
<1>5. TypeOKHandoff'
  <2>1. TypeOK'
    BY <1>4 DEF DirectoryFull, DocFull, DocInv, TypeOK
  <2> QED BY <1>1, <2>1, Zenon DEF HandoffInv, TypeOKHandoff, Stop
<1>6. ControlInv'
  BY <1>1, <1>2 DEF HandoffInv, ControlInv, Stop, Known, Unfinished
<1> QED BY <1>3, <1>4, <1>5, <1>6 DEF HandoffInv

(* A store opened under its next fence.                                    *)
LEMMA OpenCellKeeps ==
    ASSUME HandoffInv, NEW c \in Cells, OpenCell(c)
    PROVE  HandoffInv'
<1> DEFINE w == world[c]
           f == w.fence + 1
           v == [w EXCEPT !.fence = f]
<1>1. world \in [Cells -> World] /\ w \in World /\ w.fence < MaxFence
  BY DEF HandoffInv, TypeOKHandoff, OpenCell
<1>2. world' = [world EXCEPT ![c] = v]
  <2>1. world' = [world EXCEPT ![c].fence = f]
    BY DEF OpenCell
  <2> QED BY <1>1, <2>1
<1>3. f \in 0..MaxFence /\ w.fence <= f
  BY <1>1, DirectoryAssumption DEF World
<1> HIDE DEF f, w
<1>4. /\ v \in World /\ v.fence = f /\ v.player = w.player /\ v.lock = w.lock
      /\ v.reservation = w.reservation /\ v.witness = w.witness /\ v.boundary = w.boundary
  BY <1>1, <1>3, Zenon DEF World
<1> HIDE DEF v
<1>5. world'[c] = v /\ \A b \in Cells \ {c} : world'[b] = world[b]
  BY <1>1, <1>2
<1>6. world' \in [Cells -> World]
  BY <1>1, <1>2, <1>4
<1>7. \A b \in Cells :
          /\ world'[b].fence \in Nat /\ world[b].fence <= world'[b].fence
          /\ world'[b].player = world[b].player
          /\ world'[b].lock = world[b].lock
          /\ world'[b].reservation = world[b].reservation
          /\ world'[b].witness = world[b].witness
          /\ world'[b].boundary = world[b].boundary
  <2>1. \A b \in Cells : world[b].fence \in Nat
    BY <1>1 DEF World
  <2>2. f \in Nat
    BY <1>3, DirectoryAssumption
  <2> QED BY <1>3, <1>4, <1>5, <2>1, <2>2 DEF w
<1>8. UNCHANGED dirVars /\ UNCHANGED disk
  BY DEF OpenCell, dirVars
<1>9. DataInv'
  BY <1>7, <1>8, WorldsKeep
<1>10. DirectoryFull'
  BY <1>8 DEF HandoffInv, DirectoryFull, dirVars
<1>11. TypeOKHandoff'
  <2>1. TypeOK'
    BY <1>10 DEF DirectoryFull, DocFull, DocInv, TypeOK
  <2> QED BY <1>6, <2>1 DEF HandoffInv, TypeOKHandoff, OpenCell
<1>12. ControlInv'
  BY <1>8 DEF HandoffInv, ControlInv, OpenCell, Known, Unfinished, dirVars
<1> QED BY <1>9, <1>10, <1>11, <1>12 DEF HandoffInv

(* The successor generation is issued under the fence of the open store.   *)
LEMMA AssignCellKeeps ==
    ASSUME HandoffInv, NEW c \in Cells, NEW o \in Outcomes, AssignCell(c, o)
    PROVE  HandoffInv'
<1> DEFINE f == world[c].fence
           gen == doc.assignments[c].generation
<1>0. ~failed => doc = disk
  BY DEF HandoffInv, ControlInv
<1>1. /\ stage = "opening" /\ ~failed /\ doc = disk /\ Result(o)
      /\ c \in opened \ assigned
      /\ assigned' = IF o = "ok" THEN assigned \cup {c} ELSE assigned
      /\ UNCHANGED <<world, halt, package, receipt, stage, opened, pending, task>>
  BY <1>0 DEF AssignCell
<1>2. PICK h \in Holders : Claim(c, gen, h, f, o) \/ RecoverAssignment(c, gen, h, f, o)
  BY DEF AssignCell
<1> DEFINE next == AssignDoc(disk, c, h, f)
<1>3. CommitDocument(next, o) /\ f > disk.assignments[c].fence
  BY <1>1, <1>2 DEF Claim, RecoverAssignment, ClaimOk, RecoverAssignmentOk
<1>4. /\ world[c] \in World /\ disk.assignments[c] \in Assignment /\ disk \in Document
      /\ doc.assignments[c] \in Assignment
  BY <1>1, HandoffTypes
<1>5. f \in Fences /\ gen \in 0..MaxGeneration
  BY <1>3, <1>4, DirectoryAssumption DEF World, Assignment, Fences
<1>6. DirectoryFull'
  <2>1. NextDirectory
    BY <1>2, <1>5 DEF NextDirectory, AssignmentStep
  <2> QED BY <2>1, FullInductive DEF HandoffInv
<1>7. DataInv'
  <2>1. /\ next.transfers = disk.transfers /\ next.placements = disk.placements
        /\ \A b \in Cells : next.assignments[b] =
              IF b = c THEN Issue(disk.assignments[c], h, f) ELSE disk.assignments[b]
    BY <1>4, Frames DEF AssignDoc
  <2>2. Issue(disk.assignments[c], h, f).fence = f
    BY DEF Issue
  <2>3. \A b \in Cells : disk.assignments[b].fence <= world[b].fence /\ world[b] \in World
    BY HandoffTypes DEF HandoffInv, DataInv, BoundariesInv
  <2>5. next = [disk EXCEPT !.assignments = next.assignments]
    BY <1>4 DEF AssignDoc, SetAssignment, Document
  <2> HIDE DEF next
  <2>6. \/ UNCHANGED disk
        \/ /\ disk'.transfers = next.transfers
           /\ disk'.placements = next.placements
           /\ disk'.assignments = next.assignments
    BY <1>3, <1>4, <2>5 DEF CommitDocument, Document
  <2>7. CASE UNCHANGED disk
    BY <1>1, <2>7, NothingKeeps DEF HandoffInv
  <2>8. CASE /\ disk'.transfers = next.transfers
             /\ disk'.placements = next.placements
             /\ disk'.assignments = next.assignments
    <3>1. f <= world[c].fence
      BY <1>4, DirectoryAssumption DEF World
    <3>2. \A b \in Cells : disk'.assignments[b].fence <= world[b].fence
      BY <2>1, <2>2, <2>3, <2>8, <3>1
    <3> QED BY <1>1, <2>1, <2>8, <3>2, AssignmentsKeep DEF HandoffInv
  <2> QED BY <2>6, <2>7, <2>8
<1>8. /\ task = None /\ open' = open
      /\ o = "ok" => doc' = disk'
      /\ disk'.transfers = disk.transfers
  <2>1. task = None
    BY <1>1 DEF HandoffInv, ControlInv, TypeOKHandoff
  <2>2. next.transfers = disk.transfers
    BY <1>4, Frames DEF AssignDoc
  <2>3. next = [disk EXCEPT !.assignments = next.assignments]
    BY <1>4 DEF AssignDoc, SetAssignment, Document
  <2> HIDE DEF next
  <2> QED BY <1>3, <1>4, <2>1, <2>2, <2>3 DEF CommitDocument, Document
<1>9. TypeOKHandoff'
  <2>1. TypeOK'
    BY <1>6 DEF DirectoryFull, DocFull, DocInv, TypeOK
  <2>2. faults' \in 0..MaxFaults
    BY <1>1, HandoffAssumption DEF HandoffInv, TypeOKHandoff, Result
  <2>3. failed' \in BOOLEAN
    BY <1>1, Zenon DEF HandoffInv, TypeOKHandoff, Result
  <2> QED BY <1>1, <2>1, <2>2, <2>3 DEF HandoffInv, TypeOKHandoff
<1>10. ControlInv'
  BY <1>1, <1>8 DEF HandoffInv, ControlInv, Result, Known, Unfinished
<1> QED BY <1>6, <1>7, <1>9, <1>10 DEF HandoffInv

(* Steps of the coordinator that touch neither file nor cells.             *)
LEMMA ControlStepKeeps ==
    ASSUME HandoffInv, UNCHANGED <<dirVars, world, halt, package, receipt, opened, assigned,
                                   faults>>,
           stage' \in {"down", "opening", "ready"}, pending' \subseteq Transfers,
           task' \in Transfers \cup {None}, failed' \in BOOLEAN,
           ControlInv'
    PROVE  HandoffInv'
<1>1. DataInv'
  BY NothingKeeps DEF HandoffInv, dirVars
<1>2. DirectoryFull'
  BY DEF HandoffInv, DirectoryFull, dirVars
<1>3. TypeOKHandoff'
  <2>1. TypeOK'
    BY <1>2 DEF DirectoryFull, DocFull, DocInv, TypeOK
  <2> QED BY <2>1 DEF HandoffInv, TypeOKHandoff
<1> QED BY <1>1, <1>2, <1>3 DEF HandoffInv

LEMMA OpeningKeeps ==
    ASSUME HandoffInv, FinishOpen \/ \E t \in Transfers : ReconcileNext(t)
    PROVE  HandoffInv'
<1>1. CASE FinishOpen
  <2>1. UNCHANGED dirVars /\ UNCHANGED disk /\ UNCHANGED doc /\ UNCHANGED open
    BY <1>1 DEF FinishOpen, dirVars
  <2>2. ControlInv'
    BY <1>1, <2>1 DEF HandoffInv, ControlInv, FinishOpen, Reconciled, Known, Unfinished
  <2> QED BY <1>1, <2>2, ControlStepKeeps DEF FinishOpen, HandoffInv, TypeOKHandoff
<1>2. ASSUME NEW t \in Transfers, ReconcileNext(t)
      PROVE  HandoffInv'
  <2>1. UNCHANGED disk /\ UNCHANGED doc /\ UNCHANGED open /\ doc = disk /\ Known(t)
    BY <1>2 DEF ReconcileNext, dirVars, HandoffInv, ControlInv
  <2>2. /\ task' = IF disk.transfers[t].phase \in Terminal THEN None ELSE t
        /\ stage = "opening" /\ ~failed /\ assigned = Cells /\ task = None
        /\ pending' = pending \ {t}
        /\ UNCHANGED <<package, stage, assigned, failed>>
    BY <1>2, <2>1 DEF ReconcileNext
  <2>3. \A u \in Transfers : Known(u)' = Known(u) /\ Unfinished(u)' = Unfinished(u)
    BY <2>1 DEF Known, Unfinished
  <2>4. task' # None => task' = t /\ package[t] # None
    BY <2>1, <2>2 DEF HandoffInv, ControlInv
  <2>5. ASSUME NEW u \in Transfers, Unfinished(u)
        PROVE  task' = u \/ u \in pending'
    <3>1. u \in pending
      BY <2>2, <2>5, DirectoryAssumption DEF HandoffInv, ControlInv
    <3> QED BY <2>2, <2>5, <3>1 DEF Unfinished
  <2>6. \A u \in pending : u \in Transfers /\ Known(u)
    BY DEF HandoffInv, ControlInv, TypeOKHandoff
  <2>7. ControlInv'
    BY <2>1, <2>2, <2>3, <2>4, <2>5, <2>6 DEF HandoffInv, ControlInv
  <2> QED BY <1>2, <2>2, <2>7, ControlStepKeeps DEF ReconcileNext, HandoffInv, TypeOKHandoff
<1> QED BY <1>1, <1>2

LEMMA StepRefusedKeeps ==
    ASSUME HandoffInv, NEW t \in Transfers, StepRefused(t)
    PROVE  HandoffInv'
<1>1. /\ UNCHANGED disk /\ UNCHANGED doc /\ UNCHANGED open
      /\ failed' = TRUE /\ task' = None /\ task = t /\ t # None
      /\ UNCHANGED <<package, stage, assigned, pending>>
  BY DirectoryAssumption DEF StepRefused, dirVars
<1>2. ControlInv'
  BY <1>1 DEF HandoffInv, ControlInv, Known, Unfinished
<1> QED BY <1>2, ControlStepKeeps DEF StepRefused, HandoffInv, TypeOKHandoff

(* A player found in one cell is registered there.                         *)
LEMMA RegisterResidentKeeps ==
    ASSUME HandoffInv, NEW c \in Cells, NEW p \in Aggregates, NEW o \in Outcomes,
           RegisterResident(c, p, o)
    PROVE  HandoffInv'
<1> DEFINE y == [state |-> "Resident", cell |-> c, generation |-> 1, transfer |-> None]
           next == RegisterPlacementDoc(disk, p, c)
<1>0. ~failed => doc = disk
  BY DEF HandoffInv, ControlInv
<1>1. /\ stage = "opening" /\ ~failed /\ doc = disk /\ task = None /\ pending = {}
      /\ Present(c, p) /\ Result(o) /\ CommitDocument(next, o)
      /\ UNCHANGED <<world, halt, package, receipt, stage, opened, assigned, pending, task>>
  BY <1>0 DEF RegisterResident, Reconciled, RegisterPlacement
<1>2. disk \in Document
  BY HandoffTypes
<1>3. DirectoryFull'
  <2>1. NextDirectory
    BY DEF RegisterResident, NextDirectory
  <2> QED BY <2>1, FullInductive DEF HandoffInv
<1>4. /\ next.transfers = disk.transfers /\ next.assignments = disk.assignments
      /\ \A q \in Aggregates : next.placements[q] = IF q = p THEN y ELSE disk.placements[q]
  BY <1>2, Frames DEF RegisterPlacementDoc
<1>5. y.cell = c
  OBVIOUS
<1>6. next = [disk EXCEPT !.placements = next.placements]
  BY <1>2 DEF RegisterPlacementDoc, SetPlacement, Document
<1> HIDE DEF next, y
<1>7. /\ UNCHANGED open
      /\ o = "ok" => doc' = disk'
      /\ disk'.transfers = disk.transfers
      /\ disk'.assignments = disk.assignments
      /\ disk'.placements = next.placements \/ UNCHANGED disk
  BY <1>1, <1>2, <1>6 DEF CommitDocument, Document
<1>8. \A t \in Transfers : ~Unfinished(t)
  <2>1. task \notin Transfers
    BY <1>1, DirectoryAssumption
  <2> QED BY <1>1, <2>1 DEF HandoffInv, ControlInv
<1>9. DataInv'
  <2>1. CASE UNCHANGED disk
    BY <1>1, <2>1, NothingKeeps DEF HandoffInv
  <2>2. CASE disk'.placements = next.placements
    <3>1. \A q \in Aggregates : Idle(q)
      BY <1>8 DEF HandoffInv, DataInv, PlayersInv
    <3>2. ASSUME NEW q \in Aggregates, q # p
          PROVE  Idle(q)'
      BY <1>1, <1>4, <2>2, <3>1, <3>2 DEF Idle, Present
    <3>3. Idle(p)'
      <4>1. \A d \in Cells : (Present(d, p) <=> d = c) /\ world[d].lock[p] = None
        BY <1>1, <3>1 DEF Idle
      <4>2. disk'.placements[p].cell = c
        BY <1>4, <1>5, <2>2
      <4> QED BY <1>1, <4>1, <4>2 DEF Idle, Present
    <3>4. PlayersInv'
      BY <1>7, <1>8, <3>2, <3>3 DEF PlayersInv, Unfinished
    <3>5. \A b \in Cells : disk'.assignments[b].fence <= world[b].fence
      BY <1>7 DEF HandoffInv, DataInv, BoundariesInv
    <3> QED BY <1>1, <1>7, <3>4, <3>5, TransfersKeep DEF HandoffInv
  <2> QED BY <1>7, <2>1, <2>2
<1>10. TypeOKHandoff'
  <2>1. TypeOK'
    BY <1>3 DEF DirectoryFull, DocFull, DocInv, TypeOK
  <2>2. faults' \in 0..MaxFaults
    BY <1>1, HandoffAssumption DEF HandoffInv, TypeOKHandoff, Result
  <2>3. failed' \in BOOLEAN
    BY <1>1, Zenon DEF HandoffInv, TypeOKHandoff, Result
  <2> QED BY <1>1, <2>1, <2>2, <2>3 DEF HandoffInv, TypeOKHandoff
<1>11. ControlInv'
  BY <1>1, <1>7 DEF HandoffInv, ControlInv, Result, Known, Unfinished
<1> QED BY <1>3, <1>9, <1>10, <1>11 DEF HandoffInv

(* A gameplay event: the world v of cell c differs in what players did.    *)
LEMMA GameplayKeeps ==
    ASSUME HandoffInv, Ready, NEW c \in Cells, NEW v \in World, NEW o, CommitEvent(c, v, o),
           Result(o),
           LET w == world[c] IN
           /\ v.fence = w.fence /\ v.lock = w.lock /\ v.reservation = w.reservation
           /\ v.witness = w.witness /\ v.boundary = w.boundary
           /\ \A p \in Aggregates : v.player[p] # None <=> w.player[p] # None,
           UNCHANGED <<dirVars, package, receipt, stage, opened, assigned, pending, task>>
    PROVE  HandoffInv'
<1>1. TypeOKHandoff /\ UNCHANGED disk /\ UNCHANGED doc /\ UNCHANGED open
  BY DEF HandoffInv, dirVars
<1>2. /\ world' \in [Cells -> World]
      /\ halt' \in [Cells -> {"no", "seen", "unseen"}]
      /\ \/ world' = world
         \/ world'[c] = v /\ \A e \in Cells \ {c} : world'[e] = world[e]
  BY <1>1, CommitEventFrame
<1>3. \A b \in Cells : world[b].fence \in Nat
  BY <1>1 DEF TypeOKHandoff, World
<1>4. DataInv'
  <2>1. CASE world' = world
    BY <1>1, <2>1, NothingKeeps DEF HandoffInv
  <2>2. CASE world'[c] = v /\ \A e \in Cells \ {c} : world'[e] = world[e]
    BY <1>1, <1>3, <2>2, WorldsKeep
  <2> QED BY <1>2, <2>1, <2>2
<1>5. DirectoryFull'
  BY <1>1 DEF HandoffInv, DirectoryFull
<1>6. TypeOKHandoff'
  <2>1. TypeOK'
    BY <1>5 DEF DirectoryFull, DocFull, DocInv, TypeOK
  <2>2. faults' \in 0..MaxFaults
    BY <1>1, HandoffAssumption DEF TypeOKHandoff, Result
  <2>3. failed' \in BOOLEAN
    BY <1>1, Zenon DEF TypeOKHandoff, Result
  <2> QED BY <1>1, <1>2, <2>1, <2>2, <2>3 DEF TypeOKHandoff
<1>7. ControlInv'
  BY <1>1 DEF HandoffInv, ControlInv, Ready, Result, Known, Unfinished
<1> QED BY <1>4, <1>5, <1>6, <1>7 DEF HandoffInv

(* The world after an accepted operation, and after a physics step that    *)
(* moves a player.                                                         *)
Played(w, p) ==
    [w EXCEPT !.sequence = @ + 1, !.player[p].operations = @ + 1]

Moved(w, p, dst) ==
    [w EXCEPT !.sequence = @ + 1, !.player[p].at = dst]

(* The world v differs from w in the copy of p, which becomes x.           *)
Differs(w, v, p, x) ==
    /\ v \in World /\ x \in Closure
    /\ v.fence = w.fence /\ v.lock = w.lock
    /\ v.reservation = w.reservation /\ v.witness = w.witness
    /\ v.boundary = w.boundary
    /\ v.player = [w.player EXCEPT ![p] = x]

LEMMA PlayedFields ==
    ASSUME NEW w \in World, NEW p \in Aggregates, w.player[p] # None,
           w.sequence + 1 \in Events, w.player[p].operations < MaxOperations
    PROVE  \E x : /\ Differs(w, Played(w, p), p, x)
                  /\ x.operations = w.player[p].operations + 1
<1> DEFINE n == w.player[p].operations + 1
           x == [w.player[p] EXCEPT !.operations = n]
           v == Played(w, p)
<1>1. w.player[p] \in Closure
  BY DEF World
<1>2. n \in 0..MaxOperations
  BY <1>1, HandoffAssumption DEF Closure
<1>3. v = [w EXCEPT !.sequence = w.sequence + 1, !.player = [w.player EXCEPT ![p] = x]]
  BY <1>1 DEF Played, World, Closure
<1> HIDE DEF n, v
<1>4. x \in Closure /\ x.operations = n
  BY <1>1, <1>2 DEF Closure
<1> HIDE DEF x
<1>5. /\ v \in World /\ v.fence = w.fence /\ v.lock = w.lock
      /\ v.reservation = w.reservation /\ v.witness = w.witness /\ v.boundary = w.boundary
      /\ v.player = [w.player EXCEPT ![p] = x]
  BY <1>3, <1>4, Zenon DEF World
<1> QED BY <1>4, <1>5, Zenon DEF Differs, v, n

LEMMA MovedFields ==
    ASSUME NEW w \in World, NEW p \in Aggregates, w.player[p] # None,
           w.sequence + 1 \in Events, NEW dst \in Cells
    PROVE  \E x : /\ Differs(w, Moved(w, p, dst), p, x)
                  /\ x.operations = w.player[p].operations
<1> DEFINE x == [w.player[p] EXCEPT !.at = dst]
           v == Moved(w, p, dst)
<1>1. w.player[p] \in Closure
  BY DEF World
<1>2. v = [w EXCEPT !.sequence = w.sequence + 1, !.player = [w.player EXCEPT ![p] = x]]
  BY <1>1 DEF Moved, World, Closure
<1> HIDE DEF v
<1>3. x \in Closure /\ x.operations = w.player[p].operations
  BY <1>1 DEF Closure
<1> HIDE DEF x
<1>4. /\ v \in World /\ v.fence = w.fence /\ v.lock = w.lock
      /\ v.reservation = w.reservation /\ v.witness = w.witness /\ v.boundary = w.boundary
      /\ v.player = [w.player EXCEPT ![p] = x]
  BY <1>2, <1>3, Zenon DEF World
<1> QED BY <1>3, <1>4, Zenon DEF Differs, v

(* What the gameplay actions do to the cell of the player.                 *)
LEMMA ExecuteMeans ==
    ASSUME HandoffInv, NEW p \in Aggregates, NEW o, ExecuteAsAt(p, o)
    PROVE  \E c \in Cells : \E v, x :
              /\ c = disk.placements[p].cell /\ disk.placements[p].state = "Resident"
              /\ Unlocked(c, p) /\ CommitEvent(c, v, o)
              /\ Differs(world[c], v, p, x)
              /\ world[c].player[p].operations < MaxOperations
              /\ x.operations = world[c].player[p].operations + 1
<1>1. doc = disk
  BY DEF ExecuteAsAt, Ready, HandoffInv, ControlInv
<1>2. PICK c \in Cells : c = disk.placements[p].cell
  BY HandoffTypes DEF Placement
<1>3. /\ disk.placements[p].state = "Resident" /\ Unlocked(c, p)
      /\ world[c].player[p].operations < MaxOperations
      /\ CommitEvent(c, Played(world[c], p), o)
  BY <1>1, <1>2 DEF ExecuteAsAt, Played
<1>4. world[c].sequence + 1 \in Events /\ world[c].player[p] # None
  BY <1>3 DEF CommitEvent, Unlocked, Present
<1>5. world[c] \in World
  BY HandoffTypes
<1>6. PICK x : /\ Differs(world[c], Played(world[c], p), p, x)
               /\ x.operations = world[c].player[p].operations + 1
  BY <1>3, <1>4, <1>5, PlayedFields
<1> QED BY <1>2, <1>3, <1>6

LEMMA AdvanceMeans ==
    ASSUME HandoffInv, NEW p \in Aggregates, NEW o,
           NEW c \in Cells, NEW dst \in Cells, AdvanceCell(c, p, dst, o)
    PROVE  \E v, x :
              /\ Unlocked(c, p) /\ CommitEvent(c, v, o)
              /\ Differs(world[c], v, p, x)
              /\ x.operations = world[c].player[p].operations
<1>1. Unlocked(c, p) /\ CommitEvent(c, Moved(world[c], p, dst), o)
  BY DEF AdvanceCell, Moved
<1>2. world[c].sequence + 1 \in Events /\ world[c].player[p] # None
  BY <1>1 DEF CommitEvent, Unlocked, Present
<1>3. world[c] \in World
  BY HandoffTypes
<1>4. PICK x : /\ Differs(world[c], Moved(world[c], p, dst), p, x)
               /\ x.operations = world[c].player[p].operations
  BY <1>2, <1>3, MovedFields
<1> QED BY <1>1, <1>4

LEMMA PlayKeeps ==
    ASSUME HandoffInv, NEW p \in Aggregates, NEW o,
           ExecuteAsAt(p, o) \/ \E c, dst \in Cells : AdvanceCell(c, p, dst, o)
    PROVE  HandoffInv'
<1>1. \E c \in Cells : \E v, x :
          /\ Unlocked(c, p) /\ CommitEvent(c, v, o)
          /\ Differs(world[c], v, p, x)
  <2>1. CASE ExecuteAsAt(p, o)
    BY <2>1, ExecuteMeans
  <2>2. CASE \E c, dst \in Cells : AdvanceCell(c, p, dst, o)
    BY <2>2, AdvanceMeans
  <2> QED BY <2>1, <2>2
<1>2. PICK c \in Cells : \E v, x :
          /\ Unlocked(c, p) /\ CommitEvent(c, v, o)
          /\ Differs(world[c], v, p, x)
  BY <1>1
<1>3. PICK v, x :
          /\ Unlocked(c, p) /\ CommitEvent(c, v, o)
          /\ Differs(world[c], v, p, x)
  BY <1>2
<1>4. /\ Ready /\ Result(o)
      /\ UNCHANGED <<dirVars, package, receipt, stage, opened, assigned, pending, task>>
  BY Zenon DEF ExecuteAsAt, AdvanceCell
<1>5. \A q \in Aggregates : v.player[q] # None <=> world[c].player[q] # None
  <2>1. x # None
    BY <1>3, HandoffValues DEF Differs
  <2>2. world[c].player[p] # None
    BY <1>3 DEF Unlocked, Present
  <2>3. world[c] \in World
    BY HandoffTypes
  <2> QED BY <1>3, <2>1, <2>2, <2>3 DEF Differs, World
<1> QED BY <1>3, <1>4, <1>5, GameplayKeeps, Zenon DEF Differs

(* The package of a new transfer is published before the directory learns  *)
(* of the transfer.                                                        *)
LEMMA PersistPackageKeeps ==
    ASSUME HandoffInv, NEW p \in Aggregates, NEW t \in Transfers, NEW o,
           PersistPackage(p, t, o)
    PROVE  HandoffInv'
<1> DEFINE c == disk.placements[p].cell
           x == world[c].player[p]
           k == [player |-> p, source |-> c, destination |-> x.at,
                 sourceGen |-> disk.assignments[c].generation,
                 destGen |-> disk.assignments[x.at].generation,
                 priorGen |-> disk.placements[p].generation,
                 fence |-> world[c].fence, closure |-> x]
<1>0. ~failed => doc = disk
  BY DEF HandoffInv, ControlInv
<1>1. /\ Ready /\ doc = disk /\ x # None /\ package[t] = None /\ Result(o)
      /\ package' = IF o = "lost" THEN package ELSE [package EXCEPT ![t] = k]
      /\ task' = IF o = "ok" THEN t ELSE None
      /\ UNCHANGED <<dirVars, world, halt, receipt, stage, opened, assigned, pending>>
  BY <1>0, ZenonT(60) DEF PersistPackage, Ready, Present
<1>2. UNCHANGED disk /\ UNCHANGED doc /\ UNCHANGED open
  BY <1>1, Zenon DEF dirVars
<1>3. disk.placements[p] \in Placement /\ c \in Cells
  BY HandoffTypes DEF Placement
<1>4. world[c] \in World
  BY <1>3, HandoffTypes
<1>5. x \in Closure
  BY <1>1, <1>4, Zenon DEF World
<1>6. disk.assignments[c] \in Assignment /\ disk.assignments[x.at] \in Assignment
  <2>1. x.at \in Cells
    BY <1>5 DEF Closure
  <2> QED BY <1>3, <2>1, HandoffTypes
<1> HIDE DEF c, x
<1>7. k \in Package
  BY <1>3, <1>4, <1>5, <1>6 DEF Package, Placement, Assignment, World, Closure
<1> HIDE DEF k
<1>8. k # None
  BY <1>7, HandoffValues
<1>9. package \in [Transfers -> Package \cup {None}]
  BY DEF HandoffInv, TypeOKHandoff
<1>10. /\ package' \in [Transfers -> Package \cup {None}]
       /\ \A u \in Transfers : package[u] # None => package'[u] # None
       /\ o # "lost" => package'[t] # None
  BY <1>1, <1>7, <1>8, <1>9
<1>11. DataInv'
  BY <1>1, <1>2, NothingKeeps DEF HandoffInv
<1>12. DirectoryFull'
  BY <1>2 DEF HandoffInv, DirectoryFull
<1>13. TypeOKHandoff'
  <2>1. TypeOK'
    BY <1>12 DEF DirectoryFull, DocFull, DocInv, TypeOK
  <2>2. faults' \in 0..MaxFaults
    BY <1>1, HandoffAssumption DEF HandoffInv, TypeOKHandoff, Result
  <2>3. failed' \in BOOLEAN
    BY <1>1, Zenon DEF HandoffInv, TypeOKHandoff, Result
  <2> QED BY <1>1, <1>10, <2>1, <2>2, <2>3 DEF HandoffInv, TypeOKHandoff
<1>14. ControlInv'
  <2>1. stage = "ready" /\ task = None /\ ~failed
    BY <1>1 DEF Ready
  <2>2. \A u \in Transfers : ~Unfinished(u)
    BY <2>1, DirectoryAssumption DEF HandoffInv, ControlInv
  <2>3. \A u \in Transfers : Known(u)' = Known(u) /\ ~Unfinished(u)'
    BY <1>2, <2>2 DEF Known, Unfinished
  <2>4. failed' => task' = None
    BY <1>1, <2>1, Zenon DEF Result
  <2>5. task' # None => task' = t /\ package'[t] # None
    BY <1>1, <1>10
  <2>6. /\ open /\ \A u \in Transfers : Known(u) => package[u] # None
        /\ \A u \in pending : Known(u) /\ u \in Transfers
    BY <2>1 DEF HandoffInv, ControlInv, TypeOKHandoff
  <2>7. stage' = "ready" /\ pending' = pending
    BY <1>1, <2>1
  <2> QED BY <1>1, <1>2, <1>10, <2>3, <2>4, <2>5, <2>6, <2>7 DEF ControlInv
<1> QED BY <1>11, <1>12, <1>13, <1>14 DEF HandoffInv

(* An abort is asked for, or asked for again, after a failure.             *)
LEMMA AbortTransferKeeps ==
    ASSUME HandoffInv, ReopenAfterIoError, NEW t \in Transfers, NEW o \in Outcomes,
           AbortTransfer(t, o)
    PROVE  HandoffInv'
<1> DEFINE r == disk.transfers[t]
           next == RequestAbortDoc(disk, t)
           n == [r EXCEPT !.phase = "Aborting"]
<1>1. /\ stage = "ready" /\ failed /\ task = None /\ doc = disk /\ open
      /\ UNCHANGED <<world, halt, package, receipt, stage, opened, assigned, pending>>
  BY DEF AbortTransfer, Usable
<1>2. \/ RequestAbort(t, o) /\ CommitDocument(next, o) /\ r.phase \in PreCommit
      \/ UNCHANGED dirVars /\ r.phase = "Aborting" /\ o = "ok"
  BY <1>1 DEF AbortTransfer, RequestAbort, RequestAbortOk
<1>3. Unfinished(t)
  BY <1>2 DEF Unfinished, PreCommit, Terminal
<1>4. PICK s \in Cells, d \in Cells, p \in Aggregates, k \in Package :
          s # d /\ Parties(t, s, d, p, k)
  BY <1>3, PartiesKnown
<1>5. r \in Transfer /\ disk \in Document
  BY HandoffTypes
<1>6. /\ next.assignments = disk.assignments /\ next.placements = disk.placements
      /\ \A u \in Transfers : next.transfers[u] = IF u = t THEN n ELSE disk.transfers[u]
  BY <1>5, Frames DEF RequestAbortDoc
<1>7. next = [disk EXCEPT !.transfers = next.transfers]
  BY <1>5 DEF RequestAbortDoc, SetTransfer, Document
<1> HIDE DEF next
<1>8. /\ n.aggregate = p /\ n.source = s /\ n.destination = d /\ n.phase = "Aborting"
      /\ n.prepare = r.prepare /\ n.quarantine = r.quarantine /\ n.import = r.import
      /\ n.finalization = r.finalization /\ n.sourceAbort = r.sourceAbort
      /\ n.destAbort = r.destAbort
  BY <1>4, <1>5 DEF Transfer, Parties
<1> HIDE DEF n
<1>9. /\ UNCHANGED open
      /\ o = "ok" => doc' = disk'
      /\ \/ UNCHANGED disk
         \/ /\ disk'.transfers = next.transfers
            /\ disk'.placements = disk.placements
            /\ disk'.assignments = disk.assignments
  <2>1. CASE CommitDocument(next, o)
    BY <1>1, <1>5, <1>6, <1>7, <2>1 DEF CommitDocument, Document
  <2>2. CASE UNCHANGED dirVars /\ o = "ok"
    BY <1>1, <2>2 DEF dirVars
  <2> QED BY <1>2, <2>1, <2>2
<1>10. DirectoryFull'
  <2>1. NextDirectory \/ UNCHANGED dirVars
    BY <1>2 DEF NextDirectory, TransferStep
  <2> QED BY <2>1, FullInductive DEF HandoffInv
<1>11. DataInv'
  <2>1. CASE UNCHANGED disk
    BY <1>1, <2>1, NothingKeeps DEF HandoffInv
  <2>2. CASE /\ disk'.transfers = next.transfers
             /\ disk'.placements = disk.placements
             /\ disk'.assignments = disk.assignments
    <3>1. disk'.transfers[t] = n
      BY <1>6, <2>2
    <3>2. Ledger(t) /\ Carried(t) /\ ExactProofs(t)
      BY <1>3, PartiesKnown DEF HandoffInv, DataInv, ProofsAreCellEvents, Unfinished
    <3>3. r.phase \in PreCommit \cup {"Aborting"}
      BY <1>2
    <3>4. Ledger(t)'
      BY <1>1, <1>4, <1>8, <3>1, <3>2, <3>3
         DEF Ledger, Event, Parties, Terminal, PreCommit, PostCommit
    <3>5. Carried(t)'
      BY <1>1, <1>4, <1>8, <3>1, <3>2, <3>3 DEF Carried, Event, Present, Parties
    <3>6. ExactProofs(t)'
      <4>1. ASSUME NEW b, NEW e, NEW q, ExactEvent(b, t, e, q)
            PROVE  ExactEvent(b, t, e, q)'
        BY <1>1, <4>1 DEF ExactEvent, ProofOf
      <4> QED BY <1>4, <1>8, <3>1, <3>2, <4>1 DEF ExactProofs, Parties
    <3>7. /\ Known(t)' /\ Unfinished(t)'
          /\ disk.transfers[t].aggregate = p /\ disk'.transfers[t].aggregate = p
      BY <1>4, <1>8, <3>1 DEF Known, Unfinished, Terminal, Parties
    <3>8. \A u \in Transfers \ {t} :
              disk'.transfers[u] = disk.transfers[u] /\ ~Unfinished(u)
      BY <1>3, <1>6, <2>2 DEF HandoffInv, DataInv, OneAtATime
    <3> QED BY <1>1, <2>2, <3>4, <3>5, <3>6, <3>7, <3>8, RecordKeeps
  <2> QED BY <1>9, <2>1, <2>2
<1>12. \/ /\ o = "ok" /\ UNCHANGED faults
          /\ \/ failed' = TRUE /\ task' = None
             \/ failed' = FALSE /\ task' = t
       \/ o # "ok" /\ failed' = TRUE /\ task' = None /\ faults' \in 0..MaxFaults
  <2>1. CASE o = "ok"
    <3>1. /\ failed' = ~VerifyTransferRecordProofs(doc', t)
          /\ task' = IF failed' THEN None ELSE t
          /\ UNCHANGED faults
      BY <2>1 DEF AbortTransfer
    <3> QED BY <2>1, <3>1
  <2>2. CASE o # "ok"
    BY <1>1, <2>2, HandoffAssumption
       DEF AbortTransfer, Result, HandoffInv, TypeOKHandoff
  <2> QED BY <2>1, <2>2, Zenon
<1>13. TypeOKHandoff'
  <2>1. TypeOK'
    BY <1>10 DEF DirectoryFull, DocFull, DocInv, TypeOK
  <2>2. failed' \in BOOLEAN /\ task' \in Transfers \cup {None}
    BY <1>12, Zenon
  <2>3. faults' \in 0..MaxFaults
    BY <1>12 DEF HandoffInv, TypeOKHandoff
  <2> QED BY <1>1, <2>1, <2>2, <2>3 DEF HandoffInv, TypeOKHandoff
<1>14. ControlInv'
  <2>1. Known(t) /\ pending \subseteq Transfers /\ \A u \in Transfers \ {t} : ~Unfinished(u)
    BY <1>3 DEF HandoffInv, DataInv, OneAtATime, Known, Unfinished, TypeOKHandoff
  <2>2. \A u \in Transfers : Known(u) => Known(u)'
    BY <1>6, <1>8, <1>9 DEF Known
  <2>3. \A u \in Transfers : Known(u)' => Known(u)
    BY <1>6, <1>9, <2>1 DEF Known
  <2>4. \A u \in Transfers \ {t} : ~Unfinished(u)'
    BY <1>6, <1>9, <2>1 DEF Unfinished
  <2> QED BY <1>1, <1>9, <1>12, <2>1, <2>2, <2>3, <2>4 DEF HandoffInv, ControlInv
<1> QED BY <1>10, <1>11, <1>13, <1>14 DEF HandoffInv

-----------------------------------------------------------------------------
(* The invariant.                                                          *)

LEMMA InitKeeps ==
    ASSUME InitHandoff
    PROVE  HandoffInv
<1>1. DirectoryFull
  <2>1. Blank(InitialDocument)
    BY DEF Blank, InitialDocument
  <2>2. Ordered(InitialDocument)
    <3>1. \A c \in Cells : InitialDocument.assignments[c].generation = 0
      BY DEF InitialDocument, CanonicalAssignment
    <3> QED BY <3>1, DirectoryAssumption DEF Ordered, OrderedHistory, Generations
  <2> QED BY <2>1, <2>2, InitialDocInv, Zenon DEF InitHandoff, DirectoryFull, DocFull
<1>2. \A t \in Transfers : disk.transfers[t].phase = "Absent"
  BY DEF InitHandoff, InitialDocument, AbsentTransfer
<1>3. \A p \in Aggregates : disk.placements[p].state = "Absent"
  BY DEF InitHandoff, InitialDocument, AbsentPlacement
<1>4. \A c \in Cells : disk.assignments[c].fence = 0
  BY DEF InitHandoff, InitialDocument, CanonicalAssignment
<1>5. \A c \in Cells : InitialWorld(c) \in World
  <2> SUFFICES ASSUME NEW c \in Cells
               PROVE  InitialWorld(c) \in World
    OBVIOUS
  <2>1. [operations |-> 0, at |-> c] \in Closure
    BY HandoffAssumption DEF Closure
  <2>2. NoBoundary \in Boundary
    BY DirectoryAssumption DEF NoBoundary, Boundary
  <2>3. 0 \in 0..MaxFence
    BY DirectoryAssumption
  <2> QED BY <2>1, <2>2, <2>3 DEF InitialWorld, World
<1>6. \A c \in Cells :
          /\ world[c].fence = 0
          /\ \A t \in Transfers :
                /\ world[c].reservation[t] = None /\ world[c].witness[t] = "None"
                /\ \A kind \in Kinds : world[c].boundary[t][kind] = NoBoundary
          /\ \A p \in Aggregates :
                /\ world[c].lock[p] = None
                /\ world[c].player[p] = IF c = Origin THEN [operations |-> 0, at |-> c] ELSE None
  BY DEF InitHandoff, InitialWorld
<1>7. TypeOKHandoff
  <2>1. TypeOK
    BY <1>1 DEF DirectoryFull, DocFull, DocInv, TypeOK
  <2>2. world \in [Cells -> World] /\ halt \in [Cells -> {"no", "seen", "unseen"}]
    BY <1>5 DEF InitHandoff
  <2>3. faults \in 0..MaxFaults
    BY HandoffAssumption DEF InitHandoff
  <2> QED BY <2>1, <2>2, <2>3, Zenon DEF InitHandoff, TypeOKHandoff
<1>8. ControlInv
  BY <1>2, DirectoryAssumption DEF InitHandoff, ControlInv, Known, Unfinished
<1>9. OneAtATime
  BY <1>2 DEF OneAtATime, Unfinished
<1>14. \A c \in Cells, t \in Transfers, kind \in Kinds :
          /\ world[c].boundary[t][kind].event = 0
          /\ world[c].boundary[t][kind].fence = 0
          /\ world[c].boundary[t][kind].receipt = None
  <2>1. NoBoundary.event = 0 /\ NoBoundary.fence = 0 /\ NoBoundary.receipt = None
    BY DEF NoBoundary
  <2> QED BY <1>6, <2>1, Zenon
<1>10. BoundariesInv
  <2> SUFFICES ASSUME NEW c \in Cells
               PROVE  /\ disk.assignments[c].fence <= world[c].fence
                      /\ \A t \in Transfers, kind \in Kinds :
                            /\ world[c].boundary[t][kind].fence <= world[c].fence
                            /\ kind \notin {"Quarantine", "Import"} =>
                                  world[c].boundary[t][kind].receipt = None
    BY DEF BoundariesInv
  <2>1. world[c].fence = 0 /\ disk.assignments[c].fence = 0
    BY <1>4, <1>6, Zenon
  <2> QED BY <1>14, <2>1
<1>11. LedgersInv
  <2>1. ASSUME NEW t \in Transfers
        PROVE  Untouched(t)
    <3>1. t # None
      BY DirectoryAssumption
    <3> QED BY <1>6, <1>14, <3>1, Zenon DEF Untouched, Event
  <2> QED BY <1>2, <2>1 DEF LedgersInv, Known
<1>12. PlayersInv
  <2>1. [operations |-> 0, at |-> Origin] # None
    <3>1. [operations |-> 0, at |-> Origin] \in Closure
      BY HandoffAssumption DEF Closure
    <3> QED BY <3>1, HandoffValues
  <2>2. \A p \in Aggregates, c \in Cells : Present(c, p) <=> c = Origin
    BY <1>6, <2>1, Zenon DEF Present
  <2>3. ASSUME NEW p \in Aggregates
        PROVE  Idle(p)
    <3>1. /\ disk.placements[p].state = "Absent"
          /\ \A c \in Cells : (Present(c, p) <=> c = Origin) /\ world[c].lock[p] = None
      BY <1>3, <1>6, <2>2, Zenon
    <3> QED BY <3>1, HandoffAssumption DEF Idle
  <2> QED BY <1>2, <2>3 DEF PlayersInv, Unfinished
<1>13. ProofsAreCellEvents
  BY <1>2 DEF ProofsAreCellEvents
<1> QED BY <1>1, <1>7, <1>8, <1>9, <1>10, <1>11, <1>12, <1>13 DEF HandoffInv, DataInv

(* Every step of the reconciliation keeps the invariant.                   *)
LEMMA ReconcileKeeps ==
    ASSUME HandoffInv, NEW t \in Transfers
    PROVE  /\ \A o \in Outcomes : ReconcileDirectory(t, o) => HandoffInv'
           /\ \A o : ReconcileCell(t, o) => HandoffInv'
<1>1. ASSUME NEW o \in Outcomes, ReconcileDirectory(t, o)
      PROVE  HandoffInv'
  <2>1. \A role \in AbortRoles : RecordAbortCleanupStep(t, role, o) => HandoffInv'
    BY RecordSourceCleanupStepKeeps, RecordDestinationCleanupStepKeeps DEF AbortRoles
  <2> QED BY <1>1, <2>1, PrepareStepKeeps, RecordSourcePreparedStepKeeps,
             RecordQuarantineStepKeeps, CommitTransferStepKeeps, RecordImportedStepKeeps,
             FinalizeTransferStepKeeps, FinalizeAbortStepKeeps
          DEF ReconcileDirectory
<1>2. ASSUME NEW o, ReconcileCell(t, o)
      PROVE  HandoffInv'
  <2>1. \A role \in AbortRoles : CommitPlayerTransferAborted(t, role, o) => HandoffInv'
    BY AbortedSourceKeeps, AbortedDestinationKeeps DEF AbortRoles
  <2> QED BY <1>2, <2>1, PreparedKeeps, QuarantinedKeeps, ImportedKeeps, ExportedKeeps
          DEF ReconcileCell
<1> QED BY <1>1, <1>2

LEMMA HandoffInductive ==
    ASSUME HandoffInv, ReopenAfterIoError, [NextHandoff]_vars
    PROVE  HandoffInv'
<1>1. ASSUME NEW o \in Outcomes, OpenStep(o)
      PROVE  HandoffInv'
  BY <1>1, AssignCellKeeps, RegisterResidentKeeps DEF OpenStep
<1>2. CASE Progress
  <2>1. "ok" \in Outcomes
    BY DEF Outcomes
  <2> QED BY <1>1, <1>2, <2>1, StartOpenKeeps, OpenCellKeeps, OpeningKeeps, ReconcileKeeps,
             PersistReceiptKeeps, StepRefusedKeeps, StopKeeps
          DEF Progress
<1>3. CASE Faulty
  <2>1. IoFaults \subseteq Outcomes
    BY DEF Outcomes
  <2> QED BY <1>1, <1>3, <2>1, ReconcileKeeps, PersistReceiptKeeps, StopKeeps DEF Faulty
<1>4. CASE Gameplay
  BY <1>4, PlayKeeps, PersistPackageKeeps DEF Gameplay
<1>5. CASE \E t \in Transfers, o \in Outcomes : AbortTransfer(t, o)
  BY <1>5, AbortTransferKeeps
<1>6. CASE UNCHANGED vars
  <2>1. UNCHANGED dirVars /\ UNCHANGED handoffVars
    BY <1>6 DEF vars
  <2>2. TypeOKHandoff'
    <3>1. TypeOK'
      BY <2>1 DEF HandoffInv, TypeOKHandoff, TypeOK, dirVars
    <3> QED BY <2>1, <3>1 DEF HandoffInv, TypeOKHandoff, handoffVars
  <2>3. ControlInv'
    BY <2>1 DEF HandoffInv, ControlInv, Known, Unfinished, handoffVars, dirVars
  <2> QED BY <2>1, <2>2, <2>3, ControlStepKeeps
          DEF HandoffInv, TypeOKHandoff, handoffVars
<1> QED BY <1>2, <1>3, <1>4, <1>5, <1>6 DEF NextHandoff

(* The invariant of every behaviour of the coordinator, as the code uses   *)
(* the directory: it gives up a handle whose write failed.                 *)
THEOREM HandoffInvariant ==
    ASSUME ReopenAfterIoError
    PROVE  SpecHandoff => []HandoffInv
<1>1. InitHandoff => HandoffInv
  BY InitKeeps
<1>2. HandoffInv /\ [NextHandoff]_vars => HandoffInv'
  BY HandoffInductive
<1> QED BY <1>1, <1>2, PTL DEF SpecHandoff

(* Cells, artifacts and the directory file fit together at every crash     *)
(* point of reconcile_transfer: every proof in the file is the event of    *)
(* its cell, and exports, imports, commits and aborts pair as they must.   *)
THEOREM HandoffConsistentCorrect ==
    ASSUME ReopenAfterIoError
    PROVE  SpecHandoff => []HandoffConsistent
<1>1. ASSUME HandoffInv
      PROVE  HandoffConsistent
  <2>1. TypeOKHandoff /\ ProofsAreCellEvents
    BY <1>1 DEF HandoffInv, DataInv
  <2>2. ASSUME NEW t \in Transfers, Known(t)
        PROVE  LET r == disk.transfers[t]
                   export == world[r.source].witness[t] = "Export"
                   import == world[r.destination].witness[t] = "Import"
               IN  /\ export => import
                   /\ import => r.phase \in PostCommit
                   /\ r.phase = "Finalized" => export /\ import
                   /\ r.phase = "Aborted" =>
                         /\ world[r.source].lock[r.aggregate] # t
                         /\ world[r.destination].reservation[t] = None
    <3> DEFINE r == disk.transfers[t]
    <3>1. Ledger(t) /\ ExactProofs(t)
      BY <1>1, <2>2 DEF HandoffInv, DataInv, LedgersInv, ProofsAreCellEvents, Known
    <3>2. PhaseProofs(r)
      BY <1>1, <2>2, Existing DEF HandoffInv, DirectoryFull, DocFull, Known
    <3>3. /\ r.phase \in {"Imported", "Finalized"} => Event(r.destination, t, "Import") # 0
          /\ r.phase = "Finalized" => Event(r.source, t, "Export") # 0
          /\ r.phase = "Aborted" => Event(r.destination, t, "AbortDestination") # 0
      BY <3>1, <3>2, Zenon DEF PhaseProofs, ExactProofs, ExactEvent, Event
    <3> QED BY <3>1, <3>3 DEF Ledger, Terminal
  <2>3. WitnessesPair
    BY <2>2 DEF WitnessesPair, Known
  <2> QED BY <2>1, <2>3 DEF HandoffConsistent
<1> QED BY <1>1, HandoffInvariant, PTL

(* At every instant, crashes and lost acknowledgements included, each      *)
(* player exists in some cell, and only the cell that the directory file   *)
(* names may let it act.                                                   *)
THEOREM SoleAuthorityCorrect ==
    ASSUME ReopenAfterIoError
    PROVE  SpecHandoff => []SoleAuthority
<1>1. ASSUME HandoffInv
      PROVE  SoleAuthority
  <2> SUFFICES ASSUME NEW p \in Aggregates
               PROVE  /\ \E c \in Cells : Present(c, p)
                      /\ \A c \in Cells :
                            /\ Unlocked(c, p) => c = Holder(p)
                            /\ Present(c, p) /\ c # Holder(p) =>
                                  disk.transfers[world[c].lock[p]].phase \in PostCommit
    BY DEF SoleAuthority
  <2>1. CASE Idle(p)
    <3>1. PICK c \in Cells :
              /\ disk.placements[p].state # "Absent" => disk.placements[p].cell = c
              /\ \A d \in Cells : /\ Present(d, p) <=> d = c
                                  /\ world[d].lock[p] = None
      BY <2>1 DEF Idle
    <3>2. Holder(p) = c
      BY <3>1 DEF Holder
    <3> QED BY <3>1, <3>2 DEF Unlocked
  <2>2. CASE ~Idle(p)
    <3>1. PICK t \in Transfers : Unfinished(t) /\ disk.transfers[t].aggregate = p
      BY <1>1, <2>2 DEF HandoffInv, DataInv, PlayersInv
    <3>2. PICK s \in Cells, d \in Cells, a \in Aggregates, k \in Package :
              s # d /\ Parties(t, s, d, a, k)
      BY <1>1, <3>1, PartiesKnown
    <3> DEFINE r == disk.transfers[t]
               x == disk.placements[p]
    <3>3. a = p /\ Ledger(t) /\ Carried(t)
      BY <1>1, <3>1, <3>2, PartiesKnown DEF Parties
    <3>4. /\ PlacementMatches(x, t, r) /\ x.state # "Absent" /\ PhaseProofs(r)
          /\ r \in Transfer
      BY <1>1, <3>1, Existing, HandoffTypes
         DEF HandoffInv, DirectoryFull, DocFull, DocInv, ValidTransfer, Unfinished
    <3>5. Holder(p) = x.cell
      BY <3>4 DEF Holder
    <3>6. r.phase \in PreCommit \cup {"Aborting", "Committed", "Imported"}
      BY <3>1, <3>4 DEF Unfinished, Transfer, Phases, PostCommit, Terminal
    <3>7. CASE r.phase \in PreCommit \cup {"Aborting"}
      <4>1. x.cell = s
        BY <3>2, <3>4, <3>7 DEF PlacementMatches, BoundAtSource, Parties, PreCommit
      <4>2. \A c \in Cells : Present(c, p) <=> c = s
        BY <3>2, <3>3, <3>7 DEF Carried, Ledger, Parties, PreCommit, PostCommit
      <4> QED BY <3>5, <4>1, <4>2 DEF Unlocked
    <3>8. CASE r.phase \in {"Committed", "Imported"}
      <4>1. x.cell = d
        <5>1. CASE r.phase = "Committed"
          BY <3>2, <3>4, <5>1 DEF PlacementMatches, BoundInTransit, Parties, PreCommit
        <5>2. CASE r.phase = "Imported"
          BY <3>2, <3>3, <5>2 DEF Carried, Parties
        <5> QED BY <3>8, <5>1, <5>2
      <4>2. \A c \in Cells : Present(c, p) => c = d \/ (c = s /\ Event(s, t, "Export") = 0)
        BY <3>2, <3>3 DEF Carried, Parties
      <4>3. Event(s, t, "Export") = 0 => world[s].lock[p] = t
        BY <3>2, <3>3, <3>8 DEF Ledger, Parties
      <4>4. \E c \in Cells : Present(c, p)
        <5>1. CASE Event(s, t, "Export") = 0
          BY <3>2, <3>3, <5>1 DEF Carried, Parties
        <5>2. CASE Event(s, t, "Export") # 0
          <6>1. r.phase = "Imported"
            BY <3>2, <3>3, <3>8, <5>2 DEF Ledger, Parties
          <6>2. Event(d, t, "Import") # 0
            BY <1>1, <3>1, <3>2, <3>4, <6>1, Zenon
               DEF HandoffInv, DataInv, ProofsAreCellEvents, ExactProofs, ExactEvent, Event,
                   Parties, PhaseProofs
          <6> QED BY <3>2, <3>3, <6>2 DEF Carried, Parties
        <5> QED BY <5>1, <5>2
      <4>5. t # None /\ r.phase \in PostCommit
        BY <3>8, DirectoryAssumption DEF PostCommit
      <4> QED BY <3>5, <4>1, <4>2, <4>3, <4>4, <4>5 DEF Unlocked
    <3> QED BY <3>6, <3>7, <3>8
  <2> QED BY <2>1, <2>2
<1> QED BY <1>1, HandoffInvariant, PTL

-----------------------------------------------------------------------------
(***************************************************************************)
(* TwoCellHandoff implements PlayerAuthority: every step of the            *)
(* coordinator, its crashes and failed writes included, is a step of one   *)
(* player's authority or none, for every number of cells, players and      *)
(* transfers.  The lock of the source is Freeze, the directory write that  *)
(* commits the transfer is Move, the import, or the unlock of an abort, is *)
(* Thaw; what the directory records, the quarantine and the export change  *)
(* nothing that a client of the player can tell.                           *)
(*                                                                         *)
(* The mapping rests on HandoffInv and on two facts more: a locked copy    *)
(* cannot change, so that it still equals its package when the destination *)
(* imports that, and a player the directory does not place has never       *)
(* moved.                                                                  *)
(***************************************************************************)

LockedCopies ==
    \A c \in Cells, p \in Aggregates :
        LET t == world[c].lock[p]
        IN  t # None => world[c].player[p] = package[t].closure

Unregistered ==
    \A p \in Aggregates :
        disk.placements[p].state = "Absent" => disk.placements[p].generation = 0

AuthorityInv == HandoffInv /\ LockedCopies /\ Unregistered

(* What PlayerAuthority says of a player.                                  *)
Generation(p) == disk.placements[p].generation
Frozen(p)     == ~Unlocked(Holder(p), p)
Operations(p) == CurrentCopy(p).operations

(* The values of one player before and after a step.                       *)
Same(p) ==
    /\ Holder(p)' = Holder(p)
    /\ Generation(p)' = Generation(p)
    /\ Frozen(p)' <=> Frozen(p)
    /\ Operations(p)' = Operations(p)

Registers(p) ==
    /\ Generation(p) = 0 /\ Generation(p)' = 1
    /\ Holder(p)' = Holder(p)
    /\ Frozen(p)' <=> Frozen(p)
    /\ Operations(p)' = Operations(p)

Plays(p) ==
    /\ ~Frozen(p) /\ Generation(p) > 0 /\ Operations(p) < MaxOperations
    /\ Operations(p)' = Operations(p) + 1
    /\ Holder(p)' = Holder(p)
    /\ Generation(p)' = Generation(p)
    /\ ~Frozen(p)'

Freezes(p) ==
    /\ ~Frozen(p) /\ Frozen(p)'
    /\ Holder(p)' = Holder(p)
    /\ Generation(p)' = Generation(p)
    /\ Operations(p)' = Operations(p)

Moves(p) ==
    /\ Frozen(p) /\ Frozen(p)'
    /\ Holder(p)' \in Cells /\ Holder(p)' # Holder(p)
    /\ Generation(p) \in 1..(MaxGeneration - 1)
    /\ Generation(p)' = Generation(p) + 1
    /\ Operations(p)' = Operations(p)

Thaws(p) ==
    /\ Frozen(p) /\ ~Frozen(p)'
    /\ Holder(p)' = Holder(p)
    /\ Generation(p)' = Generation(p)
    /\ Operations(p)' = Operations(p)

-----------------------------------------------------------------------------
(* The steps of PlayerAuthority.                                           *)

AuthorityStep == [Authority!NextAuthority]_(Authority!authorityVars)

LEMMA NoPlayerChanges ==
    ASSUME \A q \in Aggregates : Same(q)
    PROVE  AuthorityStep
<1>1. [q \in Aggregates |-> Holder(q)]' = [q \in Aggregates |-> Holder(q)]
  BY DEF Same
<1>2. [q \in Aggregates |-> disk.placements[q].generation]'
      = [q \in Aggregates |-> disk.placements[q].generation]
  BY DEF Same, Generation
<1>3. [q \in Aggregates |-> ~Unlocked(Holder(q), q)]'
      = [q \in Aggregates |-> ~Unlocked(Holder(q), q)]
  BY DEF Same, Frozen
<1>4. [q \in Aggregates |-> CurrentCopy(q).operations]'
      = [q \in Aggregates |-> CurrentCopy(q).operations]
  BY DEF Same, Operations
<1> QED BY <1>1, <1>2, <1>3, <1>4 DEF AuthorityStep, Authority!authorityVars

LEMMA PlayerChanges ==
    ASSUME NEW p \in Aggregates, \A q \in Aggregates \ {p} : Same(q),
           \/ Same(p) \/ Registers(p) \/ Plays(p) \/ Freezes(p) \/ Moves(p) \/ Thaws(p)
    PROVE  AuthorityStep
<1> DEFINE h == [q \in Aggregates |-> Holder(q)]
           n == [q \in Aggregates |-> disk.placements[q].generation]
           f == [q \in Aggregates |-> ~Unlocked(Holder(q), q)]
           m == [q \in Aggregates |-> CurrentCopy(q).operations]
<1>1. /\ h[p] = Holder(p) /\ n[p] = Generation(p) /\ m[p] = Operations(p)
      /\ h'[p] = Holder(p)' /\ n'[p] = Generation(p)' /\ m'[p] = Operations(p)'
  BY DEF Generation, Operations
<1>2. /\ f[p] <=> Frozen(p)
      /\ f'[p] <=> Frozen(p)'
  BY Zenon DEF Frozen
<1>3. \A q \in Aggregates \ {p} :
          /\ h'[q] = h[q] /\ n'[q] = n[q] /\ m'[q] = m[q]
          /\ f'[q] = f[q]
  <2> SUFFICES ASSUME NEW q \in Aggregates \ {p}
               PROVE  h'[q] = h[q] /\ n'[q] = n[q] /\ m'[q] = m[q] /\ f'[q] = f[q]
    OBVIOUS
  <2>1. Same(q)
    OBVIOUS
  <2>2. h'[q] = h[q] /\ n'[q] = n[q] /\ m'[q] = m[q]
    BY <2>1 DEF Same, Generation, Operations
  <2>3. f'[q] = f[q]
    BY <2>1 DEF Same, Frozen
  <2> QED BY <2>2, <2>3
<1>4. /\ h' = [h EXCEPT ![p] = Holder(p)']
      /\ Holder(p)' = Holder(p) => h' = h
  BY <1>1, <1>3, Zenon
<1>5. /\ n' = [n EXCEPT ![p] = Generation(p)']
      /\ Generation(p)' = Generation(p) => n' = n
  BY <1>1, <1>3, Zenon
<1>6. /\ m' = [m EXCEPT ![p] = Operations(p)']
      /\ Operations(p)' = Operations(p) => m' = m
  BY <1>1, <1>3, Zenon
<1>7. /\ Frozen(p)' => f' = [f EXCEPT ![p] = TRUE]
      /\ ~Frozen(p)' => f' = [f EXCEPT ![p] = FALSE]
      /\ (Frozen(p)' <=> Frozen(p)) => f' = f
  BY <1>2, <1>3, Zenon
<1>8. CASE Same(p)
  BY <1>8, NoPlayerChanges
<1>9. CASE Registers(p)
  <2>1. n[p] = 0 /\ n' = [n EXCEPT ![p] = 1] /\ h' = h /\ f' = f /\ m' = m
    BY <1>1, <1>4, <1>5, <1>6, <1>7, <1>9 DEF Registers
  <2>2. Authority!Register(p)
    BY <2>1 DEF Authority!Register
  <2> QED BY <2>2 DEF AuthorityStep, Authority!NextAuthority
<1>10. CASE Plays(p)
  <2>1. /\ n[p] > 0 /\ m[p] < MaxOperations /\ m' = [m EXCEPT ![p] = m[p] + 1]
        /\ h' = h /\ n' = n /\ f' = f
    BY <1>1, <1>4, <1>5, <1>6, <1>7, <1>10, Zenon DEF Plays
  <2>2. ~f[p]
    BY <1>2, <1>10 DEF Plays
  <2>3. Authority!Play(p)
    BY <2>1, <2>2 DEF Authority!Play
  <2> QED BY <2>3 DEF AuthorityStep, Authority!NextAuthority
<1>11. CASE Freezes(p)
  <2>1. f' = [f EXCEPT ![p] = TRUE] /\ h' = h /\ n' = n /\ m' = m
    BY <1>4, <1>5, <1>6, <1>7, <1>11 DEF Freezes
  <2>2. ~f[p]
    BY <1>2, <1>11 DEF Freezes
  <2>3. Authority!Freeze(p)
    BY <2>1, <2>2 DEF Authority!Freeze
  <2> QED BY <2>3 DEF AuthorityStep, Authority!NextAuthority
<1>12. CASE Moves(p)
  <2> DEFINE c == Holder(p)'
  <2>1. /\ c \in Cells /\ c # h[p] /\ n[p] \in 1..(MaxGeneration - 1)
        /\ h' = [h EXCEPT ![p] = c] /\ n' = [n EXCEPT ![p] = n[p] + 1]
        /\ f' = f /\ m' = m
    BY <1>1, <1>4, <1>5, <1>6, <1>7, <1>12, Zenon DEF Moves
  <2>2. f[p]
    BY <1>2, <1>12 DEF Moves
  <2>3. \E d \in Cells : Authority!Move(p, d)
    BY <2>1, <2>2, Zenon DEF Authority!Move
  <2> QED BY <2>3 DEF AuthorityStep, Authority!NextAuthority
<1>13. CASE Thaws(p)
  <2>1. f' = [f EXCEPT ![p] = FALSE] /\ h' = h /\ n' = n /\ m' = m
    BY <1>4, <1>5, <1>6, <1>7, <1>13 DEF Thaws
  <2>2. f[p]
    BY <1>2, <1>13 DEF Thaws
  <2>3. Authority!Thaw(p)
    BY <2>1, <2>2 DEF Authority!Thaw
  <2> QED BY <2>3 DEF AuthorityStep, Authority!NextAuthority
<1> QED BY <1>8, <1>9, <1>10, <1>11, <1>12, <1>13

-----------------------------------------------------------------------------
(* Where a player is.                                                      *)

(* The holder names one cell, and CurrentCopy one copy.                    *)
Placed(p) ==
    /\ Holder(p) \in Cells
    /\ disk.placements[p].state = "Absent" => Present(Holder(p), p)
    /\ \E c \in Cells : Present(c, p)
    /\ disk.placements[p].state = "Absent" \/ ~Present(Holder(p), p) =>
          \A b, c \in Cells : Present(b, p) /\ Present(c, p) => b = c

(* A player in transfer, phase by phase.                                   *)
InTransfer(t, p, s, d) ==
    LET r == disk.transfers[t]
    IN  /\ disk.placements[p].state # "Absent"
        /\ \A c \in Cells \ {s, d} : ~Present(c, p)
        /\ world[d].lock[p] = None
        /\ r.phase \in PreCommit \cup {"Aborting"} =>
              Holder(p) = s /\ Present(s, p) /\ ~Present(d, p)
        /\ r.phase = "Committed" =>
              Holder(p) = d /\ Present(s, p) /\ world[s].lock[p] = t
        /\ r.phase = "Imported" => Holder(p) = d /\ Present(d, p)

LEMMA TransferPlaces ==
    ASSUME HandoffInv, NEW t \in Transfers, Unfinished(t),
           NEW s \in Cells, NEW d \in Cells, s # d, NEW p \in Aggregates, NEW k,
           Parties(t, s, d, p, k)
    PROVE  InTransfer(t, p, s, d)
<1> DEFINE r == disk.transfers[t]
           x == disk.placements[p]
<1>1. Ledger(t) /\ Carried(t)
  BY PartiesKnown
<1>2. /\ PlacementMatches(x, t, r) /\ x.state # "Absent" /\ PhaseProofs(r)
      /\ r \in Transfer
  BY Existing, HandoffTypes
     DEF HandoffInv, DirectoryFull, DocFull, DocInv, ValidTransfer, Unfinished, Parties
<1>3. Holder(p) = x.cell
  BY <1>2 DEF Holder
<1>4. \A c \in Cells \ {s, d} : ~Present(c, p)
  BY <1>1 DEF Carried, Parties
<1>5. world[d].lock[p] = None
  BY <1>1 DEF Carried, Parties
<1>6. r.phase \in PreCommit \cup {"Aborting"} =>
          Holder(p) = s /\ Present(s, p) /\ ~Present(d, p)
  <2> SUFFICES ASSUME r.phase \in PreCommit \cup {"Aborting"}
               PROVE  Holder(p) = s /\ Present(s, p) /\ ~Present(d, p)
    OBVIOUS
  <2>1. x.cell = s
    BY <1>2 DEF PlacementMatches, BoundAtSource, Parties, PreCommit
  <2>2. Present(s, p) /\ ~Present(d, p)
    BY <1>1 DEF Carried, Ledger, Parties, PreCommit, PostCommit
  <2> QED BY <1>3, <2>1, <2>2
<1>7. r.phase = "Committed" => Holder(p) = d /\ Present(s, p) /\ world[s].lock[p] = t
  <2> SUFFICES ASSUME r.phase = "Committed"
               PROVE  Holder(p) = d /\ Present(s, p) /\ world[s].lock[p] = t
    OBVIOUS
  <2>1. x.cell = d
    BY <1>2 DEF PlacementMatches, BoundInTransit, Parties, PreCommit
  <2>2. Present(s, p) /\ world[s].lock[p] = t
    BY <1>1 DEF Carried, Ledger, Parties
  <2> QED BY <1>3, <2>1, <2>2
<1>8. r.phase = "Imported" => Holder(p) = d /\ Present(d, p)
  <2> SUFFICES ASSUME r.phase = "Imported"
               PROVE  Holder(p) = d /\ Present(d, p)
    OBVIOUS
  <2>1. Event(d, t, "Import") # 0
    BY <1>2, Zenon DEF HandoffInv, DataInv, ProofsAreCellEvents, ExactProofs, ExactEvent, Event,
                Parties, PhaseProofs
  <2> QED BY <1>1, <1>3, <2>1 DEF Carried, Parties
<1> QED BY <1>2, <1>4, <1>5, <1>6, <1>7, <1>8 DEF InTransfer

LEMMA AllPlaced ==
    ASSUME NEW p \in Aggregates
    PROVE  /\ HandoffInv => Placed(p)
           /\ HandoffInv' => Placed(p)'
<1>1. HandoffInv => Placed(p)
  <2> SUFFICES ASSUME HandoffInv
               PROVE  Placed(p)
    OBVIOUS
  <2>1. CASE Idle(p)
    <3>1. PICK c \in Cells :
              /\ disk.placements[p].state # "Absent" => disk.placements[p].cell = c
              /\ \A d \in Cells : Present(d, p) <=> d = c
      BY <2>1 DEF Idle
    <3>2. Holder(p) = c
      BY <3>1 DEF Holder
    <3> QED BY <3>1, <3>2 DEF Placed
  <2>2. CASE ~Idle(p)
    <3>1. PICK t \in Transfers : Unfinished(t) /\ disk.transfers[t].aggregate = p
      BY <2>2 DEF HandoffInv, DataInv, PlayersInv
    <3>2. PICK s, d \in Cells, a \in Aggregates, k \in Package :
              s # d /\ Parties(t, s, d, a, k)
      BY <3>1, PartiesKnown
    <3>3. a = p
      BY <3>1, <3>2 DEF Parties
    <3>4. InTransfer(t, p, s, d)
      BY <3>1, <3>2, <3>3, TransferPlaces
    <3>5. disk.transfers[t].phase \in PreCommit \cup {"Aborting", "Committed", "Imported"}
      BY <3>1, HandoffTypes DEF Unfinished, Transfer, Phases, PostCommit, Terminal
    <3> QED BY <3>4, <3>5 DEF InTransfer, Placed
  <2> QED BY <2>1, <2>2
<1>2. HandoffInv' => Placed(p)'
  BY <1>1, PTL
<1> QED BY <1>1, <1>2

(* The copy that CurrentCopy names.                                        *)
LEMMA CopyFound ==
    ASSUME NEW p \in Aggregates, NEW c \in Cells
    PROVE  /\ Placed(p) /\ Present(c, p) /\ (Present(Holder(p), p) => c = Holder(p)) =>
                  Operations(p) = world[c].player[p].operations
           /\ (Placed(p) /\ Present(c, p) /\ (Present(Holder(p), p) => c = Holder(p)) =>
                  Operations(p) = world[c].player[p].operations)'
<1>1. Placed(p) /\ Present(c, p) /\ (Present(Holder(p), p) => c = Holder(p)) =>
          Operations(p) = world[c].player[p].operations
  BY DEF Placed, Operations, CurrentCopy
<1>2. (Placed(p) /\ Present(c, p) /\ (Present(Holder(p), p) => c = Holder(p)) =>
          Operations(p) = world[c].player[p].operations)'
  BY <1>1, PTL
<1> QED BY <1>1, <1>2

(* What a step that leaves the placement of p where it is has to keep.     *)
StaysPlaced(p) ==
    LET x == disk.placements[p]
        y == disk'.placements[p]
    IN  /\ y.cell = x.cell
        /\ y.generation = x.generation
        /\ y.state = "Absent" <=> x.state = "Absent"

StaysIn(c, p) ==
    /\ Present(c, p)' <=> Present(c, p)
    /\ world'[c].lock[p] = None <=> world[c].lock[p] = None
    /\ Present(c, p) =>
          world'[c].player[p].operations = world[c].player[p].operations

(* No copy of the player changes.                                          *)
LEMMA SameCopies ==
    ASSUME NEW p \in Aggregates, HandoffInv, HandoffInv', StaysPlaced(p),
           \A c \in Cells : StaysIn(c, p)
    PROVE  Same(p)
<1>1. Placed(p) /\ Placed(p)'
  BY AllPlaced
<1>2. /\ Holder(p) \in Cells /\ Holder(p)' \in Cells
      /\ \A c \in Cells : Present(c, p)' <=> Present(c, p)
      /\ \E c \in Cells : Present(c, p)
  BY <1>1 DEF Placed, StaysIn
<1>3. Holder(p)' = Holder(p)
  <2>1. CASE disk.placements[p].state = "Absent"
    BY <1>1, <1>2, <2>1 DEF Placed, StaysPlaced
  <2>2. CASE disk.placements[p].state # "Absent"
    BY <2>2 DEF Holder, StaysPlaced
  <2> QED BY <2>1, <2>2
<1>4. Generation(p)' = Generation(p)
  BY DEF Generation, StaysPlaced
<1>5. Frozen(p)' <=> Frozen(p)
  BY <1>2, <1>3 DEF Frozen, Unlocked, StaysIn
<1>6. PICK c \in Cells : Present(c, p) /\ (Present(Holder(p), p) => c = Holder(p))
  BY <1>2
<1>7. Present(c, p)' /\ (Present(Holder(p), p)' => c = Holder(p)')
  BY <1>2, <1>3, <1>6
<1>8. Operations(p) = world[c].player[p].operations
  BY <1>1, <1>6, CopyFound
<1>9. Operations(p)' = world'[c].player[p].operations
  BY <1>1, <1>7, CopyFound
<1>10. Operations(p)' = Operations(p)
  BY <1>6, <1>8, <1>9 DEF StaysIn
<1> QED BY <1>3, <1>4, <1>5, <1>10 DEF Same

(* The copy at the holder does not change.                                 *)
LEMMA SameAtHolder ==
    ASSUME NEW p \in Aggregates, HandoffInv, HandoffInv', StaysPlaced(p),
           NEW c \in Cells, Holder(p) = c, disk.placements[p].state # "Absent",
           Present(c, p), StaysIn(c, p)
    PROVE  Same(p)
<1>1. Placed(p) /\ Placed(p)'
  BY AllPlaced
<1>2. Holder(p)' = c
  BY DEF Holder, StaysPlaced
<1>3. Generation(p)' = Generation(p)
  BY DEF Generation, StaysPlaced
<1>4. Frozen(p)' <=> Frozen(p)
  BY <1>2 DEF Frozen, Unlocked, StaysIn
<1>5. Operations(p) = world[c].player[p].operations
  BY <1>1, CopyFound
<1>6. Operations(p)' = world'[c].player[p].operations
  BY <1>1, <1>2, CopyFound DEF StaysIn
<1>7. Operations(p)' = Operations(p)
  BY <1>5, <1>6 DEF StaysIn
<1> QED BY <1>2, <1>3, <1>4, <1>7 DEF Same

-----------------------------------------------------------------------------
(* The steps of the coordinator.                                           *)

(* What is shown of each step.                                             *)
Simulates == AuthorityStep /\ LockedCopies' /\ Unregistered'

(* A lock names a transfer whose package is published.                     *)
LEMMA LocksKnown ==
    ASSUME HandoffInv, NEW c \in Cells, NEW p \in Aggregates, world[c].lock[p] # None
    PROVE  world[c].lock[p] \in Transfers /\ package[world[c].lock[p]] # None
<1>1. PICK t \in Transfers : Unfinished(t) /\ disk.transfers[t].aggregate = p
  BY DEF HandoffInv, DataInv, PlayersInv, Idle
<1>2. Carried(t)
  BY <1>1, PartiesKnown
<1>3. world[c].lock[p] = t
  BY <1>1, <1>2 DEF Carried
<1>4. package[t] # None
  BY <1>1 DEF HandoffInv, ControlInv, Known, Unfinished
<1> QED BY <1>3, <1>4

(* Locks that stay, on copies that stay, and new locks on packaged copies. *)
LEMMA LockedCopiesKept ==
    ASSUME AuthorityInv,
           \A t \in Transfers : package[t] # None => package'[t] = package[t],
           \A c \in Cells, p \in Aggregates : world'[c].lock[p] # None =>
               \/ /\ world'[c].lock[p] = world[c].lock[p]
                  /\ world'[c].player[p] = world[c].player[p]
               \/ world'[c].player[p] = package'[world'[c].lock[p]].closure
    PROVE  LockedCopies'
<1> SUFFICES ASSUME NEW c \in Cells, NEW p \in Aggregates,
                    world'[c].lock[p] # None,
                    world'[c].lock[p] = world[c].lock[p],
                    world'[c].player[p] = world[c].player[p]
             PROVE  world'[c].player[p] = package'[world'[c].lock[p]].closure
  BY DEF LockedCopies
<1>1. world[c].lock[p] \in Transfers /\ package[world[c].lock[p]] # None
  BY LocksKnown DEF AuthorityInv
<1>2. world[c].player[p] = package[world[c].lock[p]].closure
  BY DEF AuthorityInv, LockedCopies
<1> QED BY <1>1, <1>2

(* Placements that stay are registered or not as before.                   *)
LEMMA UnregisteredKept ==
    ASSUME AuthorityInv, \A p \in Aggregates : StaysPlaced(p)
    PROVE  Unregistered'
BY DEF AuthorityInv, Unregistered, StaysPlaced

(* A step that changes no world, and no placement but in what a transfer   *)
(* marks on it.                                                            *)
LEMMA QuietStep ==
    ASSUME AuthorityInv, HandoffInv', UNCHANGED world,
           \A t \in Transfers : package[t] # None => package'[t] = package[t],
           \A p \in Aggregates : StaysPlaced(p)
    PROVE  Simulates
<1>1. \A p \in Aggregates : Same(p)
  BY SameCopies DEF StaysIn, Present, AuthorityInv
<1>2. AuthorityStep
  BY <1>1, NoPlayerChanges
<1>3. LockedCopies'
  BY LockedCopiesKept
<1> QED BY <1>2, <1>3, UnregisteredKept DEF Simulates

(* A cell event of the transfer t of the player p.                         *)
LEMMA EventStep ==
    ASSUME AuthorityInv, HandoffInv', NEW c \in Cells, NEW t \in Transfers,
           NEW kind \in Kinds, NEW e, Staged(world[c], e), NEW rcpt \in Receipts \cup {None},
           NEW o, CellStep(c, Recorded(e, t, kind, rcpt), o),
           NEW p \in Aggregates,
           \A q \in Aggregates \ {p} :
               e.player[q] = world[c].player[q] /\ e.lock[q] = world[c].lock[q],
           \/ e.lock[p] = None
           \/ e.lock[p] = world[c].lock[p] /\ e.player[p] = world[c].player[p]
           \/ e.player[p] = package[e.lock[p]].closure,
           (/\ world'[c].lock = e.lock /\ world'[c].player = e.player
            /\ \A b \in Cells \ {c} : world'[b] = world[b]
            /\ \A q \in Aggregates : StaysPlaced(q)) => Same(p) \/ Freezes(p) \/ Thaws(p)
    PROVE  Simulates
<1> DEFINE w == Recorded(e, t, kind, rcpt)
<1>1. /\ CommitEvent(c, w, o) /\ world[c].sequence + 1 \in Events
      /\ UNCHANGED disk /\ UNCHANGED package
  BY DEF CellStep, CommitEvent, dirVars
<1>2. TypeOKHandoff
  BY DEF AuthorityInv, HandoffInv
<1>3. w \in World
  BY <1>1, RecordedFields DEF Staged
<1> HIDE DEF w
<1>4. \A q \in Aggregates : StaysPlaced(q)
  BY <1>1 DEF StaysPlaced
<1>5. CASE world' = world
  BY <1>1, <1>4, <1>5, QuietStep
<1>6. CASE world'[c] = w /\ \A b \in Cells \ {c} : world'[b] = world[b]
  <2>1. world'[c].lock = e.lock /\ world'[c].player = e.player
    BY <1>1, <1>2, <1>6, EventEffect DEF w
  <2>2. ASSUME NEW q \in Aggregates \ {p}
        PROVE  Same(q)
    <3>1. \A b \in Cells : StaysIn(b, q)
      BY <1>6, <2>1 DEF StaysIn, Present
    <3> QED BY <1>4, <3>1, SameCopies DEF AuthorityInv
  <2>3. AuthorityStep
    BY <1>4, <1>6, <2>1, <2>2, PlayerChanges
  <2>4. LockedCopies'
    BY <1>1, <1>6, <2>1, LockedCopiesKept
  <2> QED BY <1>4, <2>3, <2>4, UnregisteredKept DEF Simulates
<1> QED BY <1>1, <1>2, <1>3, <1>5, <1>6, CommitEventFrame

(* The lock of the source freezes the player, unless it was locked.        *)
LEMMA PreparedStep ==
    ASSUME AuthorityInv, HandoffInv', NEW t \in Transfers, NEW o,
           CommitPlayerTransferPrepared(t, o)
    PROVE  Simulates
<1>1. /\ HandoffInv /\ task = t /\ ~failed /\ doc = disk
      /\ disk.transfers[t].phase \in PreCommit
  BY StepMeans DEF CommitPlayerTransferPrepared, AuthorityInv, HandoffInv, ControlInv
<1>2. Unfinished(t)
  BY <1>1 DEF Unfinished, PreCommit, Terminal
<1>3. PICK s \in Cells, d \in Cells, p \in Aggregates, k \in Package :
          s # d /\ Parties(t, s, d, p, k)
  BY <1>1, <1>2, PartiesKnown
<1> DEFINE w == world[s]
           e == StagePreparedLock(w, t, k)
<1>4. /\ k.player = p /\ k = package[t]
      /\ w.lock[p] = t \/ w.player[p] = k.closure
      /\ CellStep(s, Recorded(e, t, "Prepare", None), o)
  BY <1>1, <1>3 DEF CommitPlayerTransferPrepared, Parties, StagePreparedLockOk, Matches
<1>5. w \in World
  BY <1>1, HandoffTypes
<1>6. Staged(w, e) /\ e.player = w.player /\ e.lock = [w.lock EXCEPT ![p] = t]
  BY <1>4, <1>5, LockFields
<1>7. InTransfer(t, p, s, d)
  BY <1>1, <1>2, <1>3, TransferPlaces
<1> HIDE DEF e, w
<1>8. e.lock[p] = t /\ \A q \in Aggregates \ {p} : e.lock[q] = w.lock[q]
  BY <1>5, <1>6 DEF World
<1>9. ASSUME world'[s].lock = e.lock, world'[s].player = e.player,
             \A b \in Cells \ {s} : world'[b] = world[b],
             \A q \in Aggregates : StaysPlaced(q)
      PROVE  Same(p) \/ Freezes(p)
  <2>1. /\ Holder(p) = s /\ Present(s, p) /\ disk.placements[p].state # "Absent"
        /\ t # None /\ Present(s, p)'
    BY <1>1, <1>6, <1>7, <1>9, DirectoryAssumption DEF InTransfer, Present, w
  <2>2. CASE w.lock[p] # None
    <3>1. StaysIn(s, p)
      BY <1>6, <1>8, <1>9, <2>1, <2>2 DEF StaysIn, Present, w
    <3> QED BY <1>1, <1>9, <2>1, <3>1, SameAtHolder
  <2>3. CASE w.lock[p] = None
    <3>1. Placed(p) /\ Placed(p)'
      BY <1>1, AllPlaced
    <3>2. Holder(p)' = s
      BY <1>9, <2>1 DEF StaysPlaced, Holder
    <3>3. /\ Operations(p) = world[s].player[p].operations
          /\ Operations(p)' = world'[s].player[p].operations
      BY <2>1, <3>1, <3>2, CopyFound
    <3>4. world'[s].player = world[s].player /\ world'[s].lock[p] = t
      BY <1>6, <1>8, <1>9 DEF w
    <3>5. ~Frozen(p) /\ Frozen(p)'
      BY <2>1, <2>3, <3>2, <3>4 DEF Frozen, Unlocked, w
    <3> QED BY <1>9, <2>1, <3>2, <3>3, <3>4, <3>5 DEF Freezes, Generation, StaysPlaced
  <2> QED BY <2>2, <2>3
<1>10. /\ Staged(world[s], e) /\ "Prepare" \in Kinds
       /\ \A q \in Aggregates \ {p} :
             e.player[q] = world[s].player[q] /\ e.lock[q] = world[s].lock[q]
       /\ \/ e.lock[p] = world[s].lock[p] /\ e.player[p] = world[s].player[p]
          \/ e.player[p] = package[e.lock[p]].closure
  BY <1>4, <1>6, <1>8 DEF Kinds, w
<1> QED BY <1>4, <1>9, <1>10, EventStep

(* The reservation at the destination, and its release, tell nothing.      *)
LEMMA QuarantinedStep ==
    ASSUME AuthorityInv, HandoffInv', NEW t \in Transfers, NEW o,
           CommitPlayerTransferQuarantined(t, o)
    PROVE  Simulates
<1>1. /\ HandoffInv /\ task = t /\ ~failed /\ doc = disk
      /\ disk.transfers[t].phase \in PreCommit
  BY StepMeans DEF CommitPlayerTransferQuarantined, AuthorityInv, HandoffInv, ControlInv
<1>2. Unfinished(t)
  BY <1>1 DEF Unfinished, PreCommit, Terminal
<1>3. PICK s \in Cells, d \in Cells, p \in Aggregates, k \in Package :
          s # d /\ Parties(t, s, d, p, k)
  BY <1>1, <1>2, PartiesKnown
<1> DEFINE w == world[d]
           x == ReceiptFor(w, t)
           e == StageQuarantine(w, t)
<1>4. CellStep(d, Recorded(e, t, "Quarantine", x), o)
  BY <1>1, <1>3 DEF CommitPlayerTransferQuarantined, Parties
<1>5. w \in World
  BY <1>1, HandoffTypes
<1>6. x \in Receipts
  BY <1>1, <1>2, <1>3, ReceiptIssued DEF Parties
<1>7. Staged(w, e) /\ e.player = w.player /\ e.lock = w.lock
  BY <1>5, <1>6, QuarantineFields, Zenon
<1> HIDE DEF e, w, x
<1>8. ASSUME world'[d].lock = e.lock, world'[d].player = e.player,
             \A b \in Cells \ {d} : world'[b] = world[b],
             \A q \in Aggregates : StaysPlaced(q)
      PROVE  Same(p)
  <2>1. \A c \in Cells : StaysIn(c, p)
    BY <1>7, <1>8 DEF StaysIn, Present, w
  <2> QED BY <1>1, <1>8, <2>1, SameCopies
<1>9. Staged(world[d], e) /\ e.player = world[d].player /\ e.lock = world[d].lock
      /\ "Quarantine" \in Kinds
  BY <1>7 DEF Kinds, w
<1> QED BY <1>4, <1>6, <1>8, <1>9, EventStep

(* The import thaws the player: what the destination takes in is the       *)
(* package, which the locked copy at the source still equals.              *)
LEMMA ImportedStep ==
    ASSUME AuthorityInv, HandoffInv', NEW t \in Transfers, NEW o,
           CommitPlayerTransferImported(t, o)
    PROVE  Simulates
<1>1. /\ HandoffInv /\ task = t /\ ~failed /\ doc = disk
      /\ disk.transfers[t].phase = "Committed"
      /\ ~Seen(disk.transfers[t].destination, t, "Import")
  BY StepMeans DEF CommitPlayerTransferImported, AuthorityInv, HandoffInv, ControlInv
<1>2. Unfinished(t)
  BY <1>1 DEF Unfinished, PreCommit, Terminal
<1>3. PICK s \in Cells, d \in Cells, p \in Aggregates, k \in Package :
          s # d /\ Parties(t, s, d, p, k)
  BY <1>1, <1>2, PartiesKnown
<1> DEFINE w == world[d]
           e == StageImport(w, t, k)
<1>4. /\ k.player = p /\ k = package[t] /\ receipt[t] \in Receipts
      /\ StageImportOk(w, t, k, disk.transfers[t], receipt[t])
      /\ CellStep(d, Recorded(e, t, "Import", receipt[t]), o)
  <2>1. /\ k = package[t] /\ receipt[t] # None
        /\ StageImportOk(w, t, k, disk.transfers[t], receipt[t])
        /\ CellStep(d, Recorded(e, t, "Import", receipt[t]), o)
    BY <1>1, <1>3 DEF CommitPlayerTransferImported, Parties
  <2>2. k.player = p
    BY <1>3, <2>1 DEF StageImportOk, Matches, Parties
  <2>3. receipt[t] \in Receipts
    BY <1>1, <2>1 DEF HandoffInv, TypeOKHandoff
  <2> QED BY <2>1, <2>2, <2>3
<1>5. w \in World
  BY <1>1, HandoffTypes
<1>6. /\ Staged(w, e)
      /\ e.player = [w.player EXCEPT ![p] = k.closure]
      /\ e.lock = w.lock
      /\ e.reservation = [w.reservation EXCEPT ![t] = None]
      /\ e.witness = [w.witness EXCEPT ![t] = "Import"]
  <2>1. k.player = p
    BY <1>4
  <2> QED BY <1>5, <2>1, ImportFields
<1>7. InTransfer(t, p, s, d) /\ Ledger(t)
  BY <1>1, <1>2, <1>3, TransferPlaces, PartiesKnown
<1> HIDE DEF e
<1>8. e.player[p] = k.closure /\ \A q \in Aggregates \ {p} : e.player[q] = w.player[q]
  BY <1>5, <1>6 DEF World
<1>9. ~Present(d, p)
  <2>1. Event(d, t, "Import") = 0
    BY <1>1, <1>3, <1>4 DEF CellStep, CommitEvent, Seen, Event, Parties
  <2>2. w.witness[t] # "Import"
    BY <1>3, <1>7, <2>1 DEF Ledger, Parties
  <2> QED BY <1>3, <1>4, <2>2 DEF StageImportOk, Present
<1>10. ASSUME world'[d].lock = e.lock, world'[d].player = e.player,
              \A b \in Cells \ {d} : world'[b] = world[b],
              \A q \in Aggregates : StaysPlaced(q)
       PROVE  Thaws(p)
  <2>1. /\ Holder(p) = d /\ Present(s, p) /\ world[s].lock[p] = t /\ t # None
        /\ world[d].lock[p] = None /\ disk.placements[p].state # "Absent"
    BY <1>1, <1>7, DirectoryAssumption DEF InTransfer
  <2>2. Placed(p) /\ Placed(p)'
    BY <1>1, AllPlaced
  <2>3. Holder(p)' = d
    BY <1>10, <2>1 DEF StaysPlaced, Holder
  <2>4. k.closure # None
    BY HandoffValues DEF Package
  <2>5. Present(d, p)'
    BY <1>8, <1>10, <2>4 DEF Present
  <2>6. /\ Operations(p) = world[s].player[p].operations
        /\ Operations(p)' = world'[d].player[p].operations
    BY <1>9, <2>1, <2>2, <2>3, <2>5, CopyFound
  <2>7. world[s].player[p] = k.closure
    BY <1>4, <2>1 DEF AuthorityInv, LockedCopies
  <2>8. Operations(p)' = Operations(p)
    BY <1>8, <1>10, <2>6, <2>7
  <2>9. Frozen(p) /\ ~Frozen(p)'
    BY <1>6, <1>9, <1>10, <2>1, <2>3, <2>5 DEF Frozen, Unlocked
  <2> QED BY <1>10, <2>1, <2>3, <2>8, <2>9 DEF Thaws, Generation, StaysPlaced
<1>11. /\ Staged(world[d], e) /\ "Import" \in Kinds /\ e.lock = world[d].lock
       /\ \A q \in Aggregates \ {p} : e.player[q] = world[d].player[q]
       /\ e.lock[p] = None
  BY <1>1, <1>6, <1>7, <1>8 DEF Kinds, InTransfer
<1> HIDE DEF w
<1> QED BY <1>4, <1>10, <1>11, EventStep

(* The export removes the copy at the source, which is not the holder.     *)
LEMMA ExportedStep ==
    ASSUME AuthorityInv, HandoffInv', NEW t \in Transfers, NEW o,
           CommitPlayerTransferExported(t, o)
    PROVE  Simulates
<1>1. /\ HandoffInv /\ task = t /\ ~failed /\ doc = disk
      /\ disk.transfers[t].phase = "Imported"
  BY StepMeans DEF CommitPlayerTransferExported, AuthorityInv, HandoffInv, ControlInv
<1>2. Unfinished(t)
  BY <1>1 DEF Unfinished, PreCommit, Terminal
<1>3. PICK s \in Cells, d \in Cells, p \in Aggregates, k \in Package :
          s # d /\ Parties(t, s, d, p, k)
  BY <1>1, <1>2, PartiesKnown
<1> DEFINE w == world[s]
           e == StageExport(w, t, k)
<1>4. /\ k.player = p
      /\ CellStep(s, Recorded(e, t, "Export", None), o)
  BY <1>1, <1>3 DEF CommitPlayerTransferExported, Parties, StageExportOk, Matches
<1>5. w \in World
  BY <1>1, HandoffTypes
<1>6. /\ Staged(w, e)
      /\ e.player = [w.player EXCEPT ![p] = None]
      /\ e.lock = [w.lock EXCEPT ![p] = None]
      /\ e.reservation = w.reservation
      /\ e.witness = [w.witness EXCEPT ![t] = "Export"]
  BY <1>4, <1>5, ExportFields
<1>7. InTransfer(t, p, s, d)
  BY <1>1, <1>2, <1>3, TransferPlaces
<1> HIDE DEF e
<1>8. /\ e.lock[p] = None
      /\ \A q \in Aggregates \ {p} : e.player[q] = w.player[q] /\ e.lock[q] = w.lock[q]
  BY <1>5, <1>6 DEF World
<1>9. ASSUME \A b \in Cells \ {s} : world'[b] = world[b],
             \A q \in Aggregates : StaysPlaced(q)
      PROVE  Same(p)
  <2>1. Holder(p) = d /\ Present(d, p) /\ disk.placements[p].state # "Absent"
    BY <1>1, <1>7 DEF InTransfer
  <2>2. StaysIn(d, p)
    BY <1>3, <1>9 DEF StaysIn, Present
  <2> QED BY <1>1, <1>9, <2>1, <2>2, SameAtHolder
<1>10. Staged(world[s], e) /\ "Export" \in Kinds
  BY <1>6 DEF Kinds
<1> QED BY <1>4, <1>8, <1>9, <1>10, EventStep

(* The unlock of an abort thaws the player, unless it was not locked.      *)
LEMMA AbortedSourceStep ==
    ASSUME AuthorityInv, HandoffInv', NEW t \in Transfers, NEW o,
           CommitPlayerTransferAborted(t, "Source", o)
    PROVE  Simulates
<1>1. /\ HandoffInv /\ task = t /\ ~failed /\ doc = disk
      /\ disk.transfers[t].phase = "Aborting"
  BY StepMeans DEF CommitPlayerTransferAborted, AuthorityInv, HandoffInv, ControlInv
<1>2. Unfinished(t)
  BY <1>1 DEF Unfinished, PreCommit, Terminal
<1>3. PICK s \in Cells, d \in Cells, p \in Aggregates, k \in Package :
          s # d /\ Parties(t, s, d, p, k)
  BY <1>1, <1>2, PartiesKnown
<1> DEFINE w == world[s]
           e == StageAbortedSource(w, k)
<1>4. /\ k.player = p
      /\ CellStep(s, Recorded(e, t, "AbortSource", None), o)
  BY <1>1, <1>3
     DEF CommitPlayerTransferAborted, Parties, StageAbortedSourceOk, Matches, RoleCell
<1>5. w \in World
  BY <1>1, HandoffTypes
<1>6. Staged(w, e) /\ e.player = w.player /\ e.lock = [w.lock EXCEPT ![p] = None]
  BY <1>4, <1>5, UnlockFields
<1>7. InTransfer(t, p, s, d)
  BY <1>1, <1>2, <1>3, TransferPlaces
<1> HIDE DEF e
<1>8. e.lock[p] = None /\ \A q \in Aggregates \ {p} : e.lock[q] = w.lock[q]
  BY <1>5, <1>6 DEF World
<1>9. ASSUME world'[s].lock = e.lock, world'[s].player = e.player,
             \A b \in Cells \ {s} : world'[b] = world[b],
             \A q \in Aggregates : StaysPlaced(q)
      PROVE  Same(p) \/ Thaws(p)
  <2>1. /\ Holder(p) = s /\ Present(s, p) /\ disk.placements[p].state # "Absent"
        /\ Present(s, p)'
    BY <1>1, <1>6, <1>7, <1>9 DEF InTransfer, Present
  <2>2. CASE w.lock[p] = None
    <3>1. StaysIn(s, p)
      BY <1>6, <1>8, <1>9, <2>1, <2>2 DEF StaysIn, Present
    <3> QED BY <1>1, <1>9, <2>1, <3>1, SameAtHolder
  <2>3. CASE w.lock[p] # None
    <3>1. Placed(p) /\ Placed(p)'
      BY <1>1, AllPlaced
    <3>2. Holder(p)' = s
      BY <1>9, <2>1 DEF StaysPlaced, Holder
    <3>3. /\ Operations(p) = world[s].player[p].operations
          /\ Operations(p)' = world'[s].player[p].operations
      BY <2>1, <3>1, <3>2, CopyFound
    <3>4. Frozen(p) /\ ~Frozen(p)'
      BY <1>8, <1>9, <2>1, <2>3, <3>2 DEF Frozen, Unlocked
    <3> QED BY <1>6, <1>9, <2>1, <3>2, <3>3, <3>4 DEF Thaws, Generation, StaysPlaced
  <2> QED BY <2>2, <2>3
<1>10. Staged(world[s], e) /\ "AbortSource" \in Kinds /\ e.player = world[s].player
  BY <1>6 DEF Kinds
<1> QED BY <1>4, <1>8, <1>9, <1>10, EventStep

LEMMA AbortedDestinationStep ==
    ASSUME AuthorityInv, HandoffInv', NEW t \in Transfers, NEW o,
           CommitPlayerTransferAborted(t, "Destination", o)
    PROVE  Simulates
<1>1. /\ HandoffInv /\ task = t /\ ~failed /\ doc = disk
      /\ disk.transfers[t].phase = "Aborting"
  BY StepMeans DEF CommitPlayerTransferAborted, AuthorityInv, HandoffInv, ControlInv
<1>2. Unfinished(t)
  BY <1>1 DEF Unfinished, PreCommit, Terminal
<1>3. PICK s \in Cells, d \in Cells, p \in Aggregates, k \in Package :
          s # d /\ Parties(t, s, d, p, k)
  BY <1>1, <1>2, PartiesKnown
<1> DEFINE w == world[d]
           e == StageAbortedDestination(w, t)
<1>4. CellStep(d, Recorded(e, t, "AbortDestination", None), o)
  BY <1>1, <1>3 DEF CommitPlayerTransferAborted, Parties, RoleCell
<1>5. w \in World
  BY <1>1, HandoffTypes
<1>6. Staged(w, e) /\ e.player = w.player /\ e.lock = w.lock
  BY <1>5, ReleaseFields, Zenon
<1> HIDE DEF e
<1>7. ASSUME world'[d].lock = e.lock, world'[d].player = e.player,
             \A b \in Cells \ {d} : world'[b] = world[b],
             \A q \in Aggregates : StaysPlaced(q)
      PROVE  Same(p)
  <2>1. \A c \in Cells : StaysIn(c, p)
    BY <1>6, <1>7 DEF StaysIn, Present
  <2> QED BY <1>1, <1>7, <2>1, SameCopies
<1>8. Staged(world[d], e) /\ e.player = world[d].player /\ e.lock = world[d].lock
      /\ "AbortDestination" \in Kinds
  BY <1>6 DEF Kinds
<1> HIDE DEF w
<1> QED BY <1>4, <1>7, <1>8, EventStep

-----------------------------------------------------------------------------
(* Gameplay, the opening, and the directory's records.                     *)

(* An accepted operation is Play, a step of physics is not seen.           *)
LEMMA PlayStep ==
    ASSUME AuthorityInv, HandoffInv', NEW p \in Aggregates, NEW o,
           ExecuteAsAt(p, o) \/ \E c, dst \in Cells : AdvanceCell(c, p, dst, o)
    PROVE  Simulates
<1>1. HandoffInv /\ TypeOKHandoff
  BY DEF AuthorityInv, HandoffInv
<1>2. UNCHANGED disk /\ UNCHANGED package
  BY Zenon DEF ExecuteAsAt, AdvanceCell, dirVars
<1>3. \A q \in Aggregates : StaysPlaced(q)
  BY <1>2 DEF StaysPlaced
<1>4. ASSUME NEW c \in Cells, NEW v, NEW x, Unlocked(c, p), CommitEvent(c, v, o),
             Differs(world[c], v, p, x),
             world' # world => Same(p) \/ Plays(p)
      PROVE  Simulates
  <2>1. CASE world' = world
    BY <1>2, <1>3, <2>1, QuietStep
  <2>2. CASE world' # world
    <3>1. world'[c] = v /\ \A b \in Cells \ {c} : world'[b] = world[b]
      BY <1>1, <1>4, <2>2, CommitEventFrame DEF Differs
    <3>2. world[c] \in World
      BY <1>1, HandoffTypes
    <3>3. /\ v.lock = world[c].lock
          /\ \A q \in Aggregates \ {p} : v.player[q] = world[c].player[q]
      BY <1>4, <3>2 DEF Differs, World
    <3>4. ASSUME NEW q \in Aggregates \ {p}
          PROVE  Same(q)
      <4>1. \A b \in Cells : StaysIn(b, q)
        BY <3>1, <3>3 DEF StaysIn, Present
      <4> QED BY <1>1, <1>3, <4>1, SameCopies
    <3>5. AuthorityStep
      BY <1>4, <2>2, <3>4, PlayerChanges
    <3>6. LockedCopies'
      <4>1. world[c].lock[p] = None
        BY <1>4 DEF Unlocked
      <4> QED BY <1>2, <3>1, <3>3, <4>1, LockedCopiesKept
    <3> QED BY <1>3, <3>5, <3>6, UnregisteredKept DEF Simulates
  <2> QED BY <2>1, <2>2
<1>5. CASE ExecuteAsAt(p, o)
  <2>1. PICK c \in Cells : \E v, x :
            /\ c = disk.placements[p].cell /\ disk.placements[p].state = "Resident"
            /\ Unlocked(c, p) /\ CommitEvent(c, v, o)
            /\ Differs(world[c], v, p, x)
            /\ world[c].player[p].operations < MaxOperations
            /\ x.operations = world[c].player[p].operations + 1
    BY <1>1, <1>5, ExecuteMeans
  <2>2. PICK v, x :
            /\ c = disk.placements[p].cell /\ disk.placements[p].state = "Resident"
            /\ Unlocked(c, p) /\ CommitEvent(c, v, o)
            /\ Differs(world[c], v, p, x)
            /\ world[c].player[p].operations < MaxOperations
            /\ x.operations = world[c].player[p].operations + 1
    BY <2>1, Zenon
  <2>3. Holder(p) = c
    BY <2>2 DEF Holder
  <2>4. ASSUME world' # world
        PROVE  Plays(p)
    <3>1. world'[c] = v
      BY <1>1, <2>2, <2>4, CommitEventFrame DEF Differs
    <3>2. world[c] \in World
      BY <1>1, <2>2, HandoffTypes
    <3>3. v.player[p] = x /\ v.lock = world[c].lock /\ x # None
      BY <2>2, <3>2, HandoffValues DEF Differs, World
    <3>4. Placed(p) /\ Placed(p)'
      BY <1>1, AllPlaced
    <3>5. Holder(p)' = c
      BY <1>2, <2>2, <2>3 DEF Holder
    <3>6. Present(c, p) /\ Present(c, p)' /\ Unlocked(c, p)'
      BY <2>2, <3>1, <3>3 DEF Unlocked, Present
    <3>7. /\ Operations(p) = world[c].player[p].operations
          /\ Operations(p)' = world'[c].player[p].operations
      BY <2>2, <2>3, <3>4, <3>5, <3>6, CopyFound
    <3>8. Generation(p) > 0 /\ Generation(p)' = Generation(p)
      <4>1. disk.placements[p] \in Placement /\ ValidPlacement(disk.placements[p])
        BY <1>1, HandoffTypes DEF HandoffInv, DirectoryFull, DocFull, DocInv
      <4>2. disk.placements[p].generation \in Nat \ {0}
        BY <2>2, <4>1, DirectoryAssumption DEF Placement, ValidPlacement
      <4> QED BY <1>2, <4>2 DEF Generation
    <3>9. ~Frozen(p) /\ ~Frozen(p)'
      BY <2>2, <2>3, <3>5, <3>6 DEF Frozen
    <3> QED BY <2>2, <2>3, <3>1, <3>3, <3>5, <3>7, <3>8, <3>9 DEF Plays
  <2> QED BY <1>4, <2>2, <2>4
<1>6. ASSUME NEW c \in Cells, NEW dst \in Cells, AdvanceCell(c, p, dst, o)
      PROVE  Simulates
  <2>1. PICK v, x :
            /\ Unlocked(c, p) /\ CommitEvent(c, v, o)
            /\ Differs(world[c], v, p, x)
            /\ x.operations = world[c].player[p].operations
    BY <1>1, <1>6, AdvanceMeans
  <2>2. ASSUME world' # world
        PROVE  Same(p)
    <3>1. world'[c] = v /\ \A b \in Cells \ {c} : world'[b] = world[b]
      BY <1>1, <2>1, <2>2, CommitEventFrame DEF Differs
    <3>2. world[c] \in World
      BY <1>1, HandoffTypes
    <3>3. v.player[p] = x /\ v.lock = world[c].lock /\ x # None
      BY <2>1, <3>2, HandoffValues DEF Differs, World
    <3>4. \A b \in Cells : StaysIn(b, p)
      BY <2>1, <3>1, <3>3 DEF StaysIn, Present, Unlocked
    <3> QED BY <1>1, <1>3, <3>4, SameCopies
  <2> QED BY <1>4, <2>1, <2>2
<1> QED BY <1>5, <1>6

(* The next fence of a store that is opened changes no player.             *)
LEMMA OpenCellStep ==
    ASSUME AuthorityInv, HandoffInv', NEW c \in Cells, OpenCell(c)
    PROVE  Simulates
<1>1. UNCHANGED disk /\ UNCHANGED package /\ HandoffInv
  BY DEF OpenCell, dirVars, AuthorityInv
<1>2. \A b \in Cells : world'[b].player = world[b].player /\ world'[b].lock = world[b].lock
  BY <1>1 DEF OpenCell, HandoffInv, TypeOKHandoff, World
<1>3. \A q \in Aggregates : StaysPlaced(q)
  BY <1>1 DEF StaysPlaced
<1>4. ASSUME NEW q \in Aggregates
      PROVE  Same(q)
  <2>1. \A b \in Cells : StaysIn(b, q)
    BY <1>2 DEF StaysIn, Present
  <2> QED BY <1>1, <1>3, <2>1, SameCopies
<1>5. AuthorityStep
  BY <1>4, NoPlayerChanges
<1>6. LockedCopies'
  BY <1>1, <1>2, LockedCopiesKept
<1> QED BY <1>3, <1>5, <1>6, UnregisteredKept DEF Simulates

(* Writes of the directory file: what they leave of a placement.           *)
LEMMA AssignmentWritten ==
    ASSUME AuthorityInv, HandoffInv', doc = disk, UNCHANGED world, UNCHANGED package,
           NEW c \in Cells, NEW x, NEW o, CommitDocument(SetAssignment(disk, c, x), o)
    PROVE  Simulates
<1>1. disk \in Document
  BY HandoffTypes DEF AuthorityInv
<1>2. disk'.placements = disk.placements
  BY <1>1, Zenon DEF CommitDocument, SetAssignment, Document
<1> QED BY <1>2, QuietStep DEF StaysPlaced

LEMMA TransferWritten ==
    ASSUME AuthorityInv, HandoffInv', doc = disk, UNCHANGED world, UNCHANGED package,
           NEW t \in Transfers, NEW r, NEW o, CommitDocument(SetTransfer(disk, t, r), o)
    PROVE  Simulates
<1>1. disk \in Document
  BY HandoffTypes DEF AuthorityInv
<1>2. disk'.placements = disk.placements
  BY <1>1, Zenon DEF CommitDocument, SetTransfer, Document
<1> QED BY <1>2, QuietStep DEF StaysPlaced

LEMMA PlacementFields ==
    ASSUME HandoffInv, doc = disk, NEW p \in Aggregates, NEW y, NEW o,
           \/ CommitDocument(SetPlacement(disk, p, y), o)
           \/ \E t, r : CommitDocument(SetTransfer(SetPlacement(disk, p, y), t, r), o)
    PROVE  \/ UNCHANGED disk
           \/ /\ disk'.placements[p] = y
              /\ \A q \in Aggregates \ {p} : disk'.placements[q] = disk.placements[q]
<1>1. disk \in Document
  BY HandoffTypes
<1>2. UNCHANGED disk \/ disk'.placements = [disk.placements EXCEPT ![p] = y]
  BY <1>1, Zenon DEF CommitDocument, SetPlacement, SetTransfer, Document
<1> QED BY <1>1, <1>2 DEF Document

LEMMA MarkWritten ==
    ASSUME AuthorityInv, HandoffInv', doc = disk, UNCHANGED world, UNCHANGED package,
           NEW t, NEW r, NEW p \in Aggregates, NEW y, NEW o,
           CommitDocument(SetTransfer(SetPlacement(disk, p, y), t, r), o),
           y.cell = disk.placements[p].cell,
           y.generation = disk.placements[p].generation,
           y.state # "Absent", disk.placements[p].state # "Absent"
    PROVE  Simulates
<1>1. \A q \in Aggregates : StaysPlaced(q)
  BY PlacementFields, Zenon DEF StaysPlaced, AuthorityInv
<1> QED BY <1>1, QuietStep

(* The steps of the coordinator that tell nothing.                         *)
LEMMA ControlStep ==
    ASSUME AuthorityInv, HandoffInv',
           \/ StartOpen \/ FinishOpen \/ Crash \/ GiveUp \/ UNCHANGED vars
           \/ \E t \in Transfers : ReconcileNext(t) \/ StepRefused(t)
           \/ \E t \in Transfers : \E o : PersistQuarantineReceipt(t, o)
    PROVE  Simulates
<1>1. UNCHANGED world /\ UNCHANGED package /\ UNCHANGED disk
  BY Zenon DEF StartOpen, OpenDirectory, FinishOpen, Crash, GiveUp, Stop, CloseDirectory,
         ReconcileNext, StepRefused, PersistQuarantineReceipt, vars, dirVars, handoffVars
<1> QED BY <1>1, QuietStep DEF StaysPlaced

(* A package is published once, under an identifier of its own.            *)
LEMMA PersistPackageStep ==
    ASSUME AuthorityInv, HandoffInv', NEW p \in Aggregates, NEW t \in Transfers, NEW o,
           PersistPackage(p, t, o)
    PROVE  Simulates
<1>1. UNCHANGED world /\ UNCHANGED disk
  BY Zenon DEF PersistPackage, dirVars
<1>2. package \in [Transfers -> Package \cup {None}]
  BY DEF AuthorityInv, HandoffInv, TypeOKHandoff
<1>3. \A u \in Transfers : package[u] # None => package'[u] = package[u]
  <2>1. package[t] = None
    BY ZenonT(60) DEF PersistPackage
  <2>2. \A u \in Transfers \ {t} : package'[u] = package[u]
    BY <1>2, Zenon DEF PersistPackage
  <2> QED BY <2>1, <2>2
<1> QED BY <1>1, <1>3, QuietStep DEF StaysPlaced

LEMMA AssignCellStep ==
    ASSUME AuthorityInv, HandoffInv', NEW c \in Cells, NEW o, AssignCell(c, o)
    PROVE  Simulates
<1>1. doc = disk /\ UNCHANGED world /\ UNCHANGED package
  BY DEF AssignCell, AuthorityInv, HandoffInv, ControlInv
<1>2. \E x : CommitDocument(SetAssignment(disk, c, x), o)
  BY <1>1 DEF AssignCell, Claim, RecoverAssignment, AssignDoc
<1> QED BY <1>1, <1>2, AssignmentWritten

(* The coordinator asks for an abort only of a directory that has not      *)
(* failed it.                                                              *)
LEMMA AbortTransferStep ==
    ASSUME AuthorityInv, HandoffInv', ReopenAfterIoError, NEW t \in Transfers, NEW o,
           AbortTransfer(t, o)
    PROVE  Simulates
<1>1. doc = disk /\ UNCHANGED world /\ UNCHANGED package
  BY DEF AbortTransfer, Usable
<1>2. CASE RequestAbort(t, o)
  <2>1. \E r : CommitDocument(SetTransfer(disk, t, r), o)
    BY <1>1, <1>2 DEF RequestAbort, RequestAbortDoc
  <2> QED BY <1>1, <2>1, TransferWritten
<1>3. CASE UNCHANGED dirVars
  BY <1>1, <1>3, QuietStep DEF StaysPlaced, dirVars
<1> QED BY <1>2, <1>3 DEF AbortTransfer

(* The records of a transfer, the commit apart.                            *)
LEMMA RecordStep ==
    ASSUME AuthorityInv, HandoffInv', NEW t \in Transfers, NEW o,
           \/ RecordSourcePreparedStep(t, o) \/ RecordQuarantineStep(t, o)
           \/ FinalizeTransferStep(t, o)
           \/ \E role \in AbortRoles : RecordAbortCleanupStep(t, role, o)
    PROVE  Simulates
<1>1. doc = disk /\ UNCHANGED world /\ UNCHANGED package
  BY Zenon DEF RecordSourcePreparedStep, RecordQuarantineStep, FinalizeTransferStep,
         RecordAbortCleanupStep, Running, DirectoryStep, AuthorityInv, HandoffInv, ControlInv
<1>2. \E r : CommitDocument(SetTransfer(disk, t, r), o)
  <2>1. CASE RecordSourcePreparedStep(t, o)
    BY <1>1, <2>1
       DEF RecordSourcePreparedStep, RecordSourcePrepared, RecordSourcePreparedDoc
  <2>2. CASE RecordQuarantineStep(t, o)
    BY <1>1, <2>2, Zenon DEF RecordQuarantineStep, RecordQuarantine, RecordQuarantineDoc
  <2>3. CASE FinalizeTransferStep(t, o)
    BY <1>1, <2>3, Zenon DEF FinalizeTransferStep, FinalizeTransfer, FinalizeTransferDoc
  <2>4. ASSUME NEW role \in AbortRoles, RecordAbortCleanupStep(t, role, o)
        PROVE  \E r : CommitDocument(SetTransfer(disk, t, r), o)
    BY <1>1, <2>4 DEF RecordAbortCleanupStep, RecordAbortCleanup, RecordAbortCleanupDoc
  <2> QED BY <2>1, <2>2, <2>3, <2>4
<1> QED BY <1>1, <1>2, TransferWritten

(* Prepare, import and abort mark a placement and leave it where it is.    *)
LEMMA MarkStep ==
    ASSUME AuthorityInv, HandoffInv', NEW t \in Transfers, NEW o,
           PrepareStep(t, o) \/ RecordImportedStep(t, o) \/ FinalizeAbortStep(t, o)
    PROVE  Simulates
<1>1. doc = disk /\ UNCHANGED world /\ UNCHANGED package /\ HandoffInv /\ package[t] \in Package
  <2>1. HandoffInv /\ TypeOKHandoff /\ ControlInv
    BY DEF AuthorityInv, HandoffInv
  <2>2. task = t /\ ~failed /\ UNCHANGED world /\ UNCHANGED package
    BY Zenon DEF PrepareStep, RecordImportedStep, FinalizeAbortStep, Running, DirectoryStep
  <2>3. doc = disk /\ package[t] # None
    BY <2>1, <2>2, DirectoryAssumption DEF ControlInv
  <2> QED BY <2>1, <2>2, <2>3 DEF TypeOKHandoff
<1>2. disk \in Document /\ disk.transfers[t] \in Transfer
  BY <1>1, HandoffTypes
<1>3. PICK p \in Aggregates : \E y, r :
          /\ CommitDocument(SetTransfer(SetPlacement(disk, p, y), t, r), o)
          /\ y.cell = disk.placements[p].cell
          /\ y.generation = disk.placements[p].generation
          /\ y.state # "Absent" /\ disk.placements[p].state # "Absent"
  <2>1. CASE PrepareStep(t, o)
    <3> DEFINE a == package[t].player
               y == [disk.placements[a] EXCEPT !.state = "Preparing", !.transfer = t]
    <3>1. a \in Aggregates
      BY <1>1 DEF Package
    <3>2. /\ \E r : CommitDocument(SetTransfer(SetPlacement(disk, a, y), t, r), o)
          /\ disk.placements[a].state = "Resident"
      BY <1>1, <2>1
         DEF PrepareStep, PrepareTransfer, PrepareTransferOk, PrepareTransferDoc
    <3>3. disk.placements[a] \in Placement
      BY <1>1, <3>1, HandoffTypes
    <3>4. /\ y.cell = disk.placements[a].cell
          /\ y.generation = disk.placements[a].generation
          /\ y.state = "Preparing"
      BY <3>3 DEF Placement
    <3> HIDE DEF a, y
    <3> QED BY <3>1, <3>2, <3>4
  <2>2. CASE RecordImportedStep(t, o) \/ FinalizeAbortStep(t, o)
    <3> DEFINE a == disk.transfers[t].aggregate
               y == [disk.placements[a] EXCEPT !.state = "Resident", !.transfer = None]
    <3>1. a \in Aggregates
      BY <1>2 DEF Transfer
    <3>2. \E r : CommitDocument(SetTransfer(SetPlacement(disk, a, y), t, r), o)
      BY <1>1, <2>2, ZenonT(60)
         DEF RecordImportedStep, RecordImported, RecordImportedDoc, Settle,
             FinalizeAbortStep, FinalizeAbort, FinalizeAbortDoc
    <3>3. disk.placements[a].state # "Absent"
      BY <1>1, <2>2, Zenon
         DEF RecordImportedStep, RecordImported, RecordImportedOk, BoundInTransit,
             FinalizeAbortStep, FinalizeAbort, FinalizeAbortOk, BoundAtSource
    <3>4. disk.placements[a] \in Placement
      BY <1>1, <3>1, HandoffTypes
    <3>5. /\ y.cell = disk.placements[a].cell
          /\ y.generation = disk.placements[a].generation
          /\ y.state = "Resident"
      BY <3>4 DEF Placement
    <3> HIDE DEF a, y
    <3> QED BY <3>1, <3>2, <3>3, <3>5
  <2> QED BY <2>1, <2>2
<1> QED BY <1>1, <1>3, MarkWritten

-----------------------------------------------------------------------------
(* The two writes that place a player.                                     *)

(* Registration names the one cell that holds the player.                  *)
LEMMA RegisterResidentStep ==
    ASSUME AuthorityInv, HandoffInv', NEW c \in Cells, NEW p \in Aggregates, NEW o,
           RegisterResident(c, p, o)
    PROVE  Simulates
<1> DEFINE y == [state |-> "Resident", cell |-> c, generation |-> 1, transfer |-> None]
<1>1. /\ HandoffInv /\ doc = disk /\ UNCHANGED world /\ UNCHANGED package
      /\ Present(c, p) /\ disk.placements[p].state = "Absent"
      /\ CommitDocument(SetPlacement(disk, p, y), o)
  <2>1. HandoffInv /\ doc = disk /\ UNCHANGED world /\ UNCHANGED package /\ Present(c, p)
    BY DEF RegisterResident, Reconciled, AuthorityInv, HandoffInv, ControlInv
  <2> QED BY <2>1 DEF RegisterResident, RegisterPlacement, RegisterPlacementOk,
                      RegisterPlacementDoc
<1>2. y.state = "Resident" /\ y.cell = c /\ y.generation = 1
  OBVIOUS
<1>3. \/ UNCHANGED disk
      \/ /\ disk'.placements[p] = y
         /\ \A q \in Aggregates \ {p} : disk'.placements[q] = disk.placements[q]
  BY <1>1, PlacementFields
<1> HIDE DEF y
<1>4. CASE UNCHANGED disk
  BY <1>1, <1>4, QuietStep DEF StaysPlaced
<1>5. CASE /\ disk'.placements[p] = y
           /\ \A q \in Aggregates \ {p} : disk'.placements[q] = disk.placements[q]
  <2>1. \A q \in Aggregates \ {p} : Same(q)
    BY <1>1, <1>5, SameCopies DEF StaysPlaced, StaysIn, Present
  <2>2. Placed(p) /\ Placed(p)'
    BY <1>1, AllPlaced
  <2>3. Holder(p) = c /\ Holder(p)' = c /\ Present(c, p)'
    <3>1. Holder(p) = c
      BY <1>1, <2>2 DEF Placed
    <3> QED BY <1>1, <1>2, <1>5, <3>1 DEF Holder, Present
  <2>4. Generation(p) = 0 /\ Generation(p)' = 1
    BY <1>1, <1>2, <1>5 DEF Generation, AuthorityInv, Unregistered
  <2>5. Frozen(p)' <=> Frozen(p)
    BY <1>1, <2>3 DEF Frozen, Unlocked, Present
  <2>6. Operations(p)' = Operations(p)
    <3>1. /\ Operations(p) = world[c].player[p].operations
          /\ Operations(p)' = world'[c].player[p].operations
      BY <1>1, <2>2, <2>3, CopyFound
    <3> QED BY <1>1, <3>1
  <2>7. AuthorityStep
    BY <2>1, <2>3, <2>4, <2>5, <2>6, PlayerChanges DEF Registers
  <2>8. LockedCopies'
    BY <1>1, LockedCopiesKept
  <2>9. Unregistered'
    BY <1>2, <1>5 DEF AuthorityInv, Unregistered
  <2> QED BY <2>7, <2>8, <2>9 DEF Simulates
<1> QED BY <1>3, <1>4, <1>5

(* The commit moves a player that is locked at the source to a destination *)
(* that does not hold it yet.                                              *)
LEMMA MovedByCommit ==
    ASSUME AuthorityInv, HandoffInv', UNCHANGED world, UNCHANGED package,
           NEW s \in Cells, NEW d \in Cells, NEW p \in Aggregates, s # d,
           Holder(p) = s, Present(s, p), ~Present(d, p), world[s].lock[p] # None,
           disk.placements[p].state # "Absent",
           disk.placements[p].generation \in 1..(MaxGeneration - 1),
           disk'.placements[p].cell = d,
           disk'.placements[p].generation = disk.placements[p].generation + 1,
           disk'.placements[p].state # "Absent",
           \A q \in Aggregates \ {p} : disk'.placements[q] = disk.placements[q]
    PROVE  Simulates
<1>1. Placed(p) /\ Placed(p)'
  BY AllPlaced DEF AuthorityInv
<1>2. \A q \in Aggregates \ {p} : Same(q)
  BY SameCopies DEF AuthorityInv, StaysPlaced, StaysIn, Present
<1>3. Holder(p)' = d /\ ~Present(d, p)' /\ Present(s, p)'
  BY DEF Holder, Present
<1>4. Frozen(p) /\ Frozen(p)'
  BY <1>3 DEF Frozen, Unlocked
<1>5. Operations(p)' = Operations(p)
  <2>1. /\ Operations(p) = world[s].player[p].operations
        /\ Operations(p)' = world'[s].player[p].operations
    BY <1>1, <1>3, CopyFound
  <2> QED BY <2>1
<1>6. Moves(p)
  BY <1>3, <1>4, <1>5 DEF Moves, Generation
<1>7. AuthorityStep
  BY <1>2, <1>6, PlayerChanges
<1>8. LockedCopies'
  BY LockedCopiesKept
<1>9. Unregistered'
  BY DEF AuthorityInv, Unregistered
<1> QED BY <1>7, <1>8, <1>9 DEF Simulates

LEMMA CommitStep ==
    ASSUME AuthorityInv, HandoffInv', NEW t \in Transfers, NEW o, CommitTransferStep(t, o)
    PROVE  Simulates
<1> DEFINE r == disk.transfers[t]
<1>1. /\ HandoffInv /\ task = t /\ ~failed /\ doc = disk
      /\ UNCHANGED world /\ UNCHANGED package
  <2>1. HandoffInv /\ ControlInv
    BY DEF AuthorityInv, HandoffInv
  <2>2. task = t /\ ~failed /\ UNCHANGED world /\ UNCHANGED package
    BY DEF CommitTransferStep, Running, DirectoryStep
  <2> QED BY <2>1, <2>2 DEF ControlInv
<1>2. /\ CommitDocument(CommitTransferDoc(disk, t), o)
      /\ r.phase = "Quarantined" /\ r.prepare # NoProof
      /\ BoundAtSource(disk.placements[r.aggregate], t, r)
  BY <1>1 DEF CommitTransferStep, CommitTransfer, CommitTransferOk
<1>3. Unfinished(t)
  BY <1>2 DEF Unfinished, Terminal
<1>4. PICK s \in Cells, d \in Cells, p \in Aggregates, k \in Package :
          s # d /\ Parties(t, s, d, p, k)
  BY <1>1, <1>3, PartiesKnown
<1> DEFINE x == disk.placements[p]
           y == [x EXCEPT !.cell = d, !.generation = r.resultGen, !.state = "InTransit"]
<1>5. r \in Transfer /\ x \in Placement /\ ValidTransferIdentity(r)
  BY <1>1, <1>3, HandoffTypes
     DEF HandoffInv, DirectoryFull, DocFull, DocInv, ValidTransfer, Unfinished
<1>6. y.cell = d /\ y.generation = r.resultGen /\ y.state = "InTransit"
  BY <1>5 DEF Placement
<1>7. \E n : CommitDocument(SetTransfer(SetPlacement(disk, p, y), t, n), o)
  BY <1>2, <1>4 DEF CommitTransferDoc, Parties
<1> HIDE DEF y
<1>8. \/ UNCHANGED disk
      \/ /\ disk'.placements[p] = y
         /\ \A q \in Aggregates \ {p} : disk'.placements[q] = disk.placements[q]
  BY <1>1, <1>7, PlacementFields, Zenon
<1>9. CASE UNCHANGED disk
  BY <1>1, <1>9, QuietStep DEF StaysPlaced
<1>10. CASE /\ disk'.placements[p] = y
            /\ \A q \in Aggregates \ {p} : disk'.placements[q] = disk.placements[q]
  <2>1. InTransfer(t, p, s, d) /\ Ledger(t)
    BY <1>1, <1>3, <1>4, TransferPlaces, PartiesKnown
  <2>2. Holder(p) = s /\ Present(s, p) /\ ~Present(d, p) /\ x.state # "Absent"
    BY <1>2, <2>1 DEF InTransfer, PreCommit
  <2>3. Event(s, t, "Prepare") # 0
    BY <1>1, <1>2, <1>4, Zenon
       DEF HandoffInv, DataInv, ProofsAreCellEvents, ExactProofs, ExactEvent, Event, Parties
  <2>4. world[s].lock[p] # None
    BY <1>2, <1>4, <2>1, <2>3, DirectoryAssumption DEF Ledger, Parties, PreCommit
  <2>5. x.generation \in 1..(MaxGeneration - 1) /\ r.resultGen = x.generation + 1
    <3>1. x.generation = r.priorGen
      BY <1>2, <1>4 DEF BoundAtSource, Parties
    <3> QED BY <1>5, <3>1, DirectoryAssumption DEF ValidTransferIdentity, Transfer
  <2> QED BY <1>1, <1>4, <1>6, <1>10, <2>2, <2>4, <2>5, MovedByCommit
<1> QED BY <1>8, <1>9, <1>10

-----------------------------------------------------------------------------
(* The refinement.                                                         *)

LEMMA ReconcileStep ==
    ASSUME AuthorityInv, HandoffInv', NEW t \in Transfers, NEW o
    PROVE  /\ ReconcileDirectory(t, o) => Simulates
           /\ ReconcileCell(t, o) => Simulates
<1>1. ASSUME ReconcileDirectory(t, o)
      PROVE  Simulates
  BY <1>1, MarkStep, RecordStep, CommitStep DEF ReconcileDirectory
<1>2. ASSUME ReconcileCell(t, o)
      PROVE  Simulates
  <2>1. \A role \in AbortRoles : CommitPlayerTransferAborted(t, role, o) => Simulates
    BY AbortedSourceStep, AbortedDestinationStep DEF AbortRoles
  <2> QED BY <1>2, <2>1, PreparedStep, QuarantinedStep, ImportedStep, ExportedStep
          DEF ReconcileCell
<1> QED BY <1>1, <1>2

LEMMA EveryStepSimulates ==
    ASSUME AuthorityInv, HandoffInv', ReopenAfterIoError, [NextHandoff]_vars
    PROVE  Simulates
<1>1. ASSUME NEW o, OpenStep(o)
      PROVE  Simulates
  BY <1>1, AssignCellStep, RegisterResidentStep DEF OpenStep
<1>2. CASE Progress
  BY <1>1, <1>2, ControlStep, OpenCellStep, ReconcileStep DEF Progress
<1>3. CASE Faulty
  BY <1>1, <1>3, ControlStep, ReconcileStep DEF Faulty
<1>4. CASE Gameplay
  BY <1>4, PlayStep, PersistPackageStep DEF Gameplay
<1>5. CASE \E t \in Transfers, o \in Outcomes : AbortTransfer(t, o)
  BY <1>5, AbortTransferStep
<1>6. CASE UNCHANGED vars
  BY <1>6, ControlStep
<1> QED BY <1>2, <1>3, <1>4, <1>5, <1>6 DEF NextHandoff

LEMMA InitSimulates ==
    ASSUME InitHandoff
    PROVE  AuthorityInv /\ Authority!InitAuthority
<1>1. HandoffInv
  BY InitKeeps
<1>2. \A p \in Aggregates : /\ disk.placements[p].state = "Absent"
                            /\ disk.placements[p].generation = 0
  BY DEF InitHandoff, InitialDocument, AbsentPlacement
<1>3. \A c \in Cells, p \in Aggregates :
          /\ world[c].lock[p] = None
          /\ world[c].player[p] = IF c = Origin THEN [operations |-> 0, at |-> c] ELSE None
  BY DEF InitHandoff, InitialWorld
<1>4. AuthorityInv
  BY <1>1, <1>2, <1>3, Zenon DEF AuthorityInv, LockedCopies, Unregistered
<1>5. ASSUME NEW p \in Aggregates
      PROVE  /\ Holder(p) = Origin
             /\ Unlocked(Holder(p), p)
             /\ CurrentCopy(p).operations = 0
  <2>1. [operations |-> 0, at |-> Origin] # None
    <3>1. [operations |-> 0, at |-> Origin] \in Closure
      BY HandoffAssumption DEF Closure
    <3> QED BY <3>1, HandoffValues
  <2>2. \A c \in Cells : Present(c, p) <=> c = Origin
    BY <1>3, <2>1, HandoffAssumption, Zenon DEF Present
  <2>3. Holder(p) = Origin
    BY <1>2, <2>2, HandoffAssumption DEF Holder
  <2>4. CurrentCopy(p) = [operations |-> 0, at |-> Origin]
    BY <1>3, <2>2, <2>3, HandoffAssumption DEF CurrentCopy
  <2> QED BY <1>3, <2>2, <2>3, <2>4, HandoffAssumption DEF Unlocked
<1>6. [p \in Aggregates |-> Holder(p)] = [p \in Aggregates |-> Origin]
  BY <1>5
<1>7. [p \in Aggregates |-> disk.placements[p].generation] = [p \in Aggregates |-> 0]
  BY <1>2
<1>8. [p \in Aggregates |-> ~Unlocked(Holder(p), p)] = [p \in Aggregates |-> FALSE]
  BY <1>5, Zenon
<1>9. [p \in Aggregates |-> CurrentCopy(p).operations] = [p \in Aggregates |-> 0]
  BY <1>5
<1>10. Authority!InitAuthority
  BY <1>6, <1>7, <1>8, <1>9, HandoffAssumption, Zenon DEF Authority!InitAuthority
<1> QED BY <1>4, <1>10

(* The coordinator's safety is that of PlayerAuthority, crashes, failed    *)
(* writes and lost acknowledgements included: no accepted operation of a   *)
(* player is lost or accepted while it is frozen, and its holder changes   *)
(* only while it is frozen, one placement generation at a time.            *)
THEOREM AuthorityRefined ==
    ASSUME ReopenAfterIoError
    PROVE  SpecHandoff => Authority!SpecAuthority
<1>1. InitHandoff => AuthorityInv /\ Authority!InitAuthority
  BY InitSimulates
<1>2. AuthorityInv /\ [NextHandoff]_vars => AuthorityInv' /\ AuthorityStep
  <2> SUFFICES ASSUME AuthorityInv, [NextHandoff]_vars
               PROVE  AuthorityInv' /\ AuthorityStep
    OBVIOUS
  <2>1. HandoffInv'
    BY HandoffInductive DEF AuthorityInv
  <2>2. Simulates
    BY <2>1, EveryStepSimulates
  <2> QED BY <2>1, <2>2 DEF Simulates, AuthorityInv
<1> QED BY <1>1, <1>2, PTL DEF SpecHandoff, Authority!SpecAuthority, AuthorityStep


-----------------------------------------------------------------------------
(* That the saga never meets a step its own checks refuse.  Beside what    *)
(* HandoffInv says, this rests on how far the package, the receipt, the    *)
(* reservation, the copies of the player and the fences of the events      *)
(* agree while a transfer is unfinished.                                   *)

(* The coordinator: the cells it holds run under the fence of their        *)
(* assignment, and none has halted while it opens.                         *)
CellsCurrent ==
    /\ stage = "ready" => assigned = Cells
    /\ \A c \in assigned :
          /\ disk.assignments[c].state = "Assigned"
          /\ disk.assignments[c].fence = world[c].fence
    /\ stage # "ready" /\ ~failed => \A c \in Cells : halt[c] = "no"

(* A transfer whose package is written but which the directory does not    *)
(* know: the package says what the directory and the source still say.     *)
Starting(t) ==
    LET k == package[t]
    IN  /\ stage = "ready"
        /\ PrepareTransferOk(disk, k.player, k.priorGen, t, k.destination)
        /\ k.source = disk.placements[k.player].cell
        /\ k.sourceGen = disk.assignments[k.source].generation
        /\ k.destGen = disk.assignments[k.destination].generation
        /\ k.closure = world[k.source].player[k.player]

TaskInv ==
    task # None => IF Known(task) THEN Unfinished(task) ELSE Starting(task)

(* What is left when no transfer is unfinished.                            *)
PackagesFenced ==
    \A t \in Transfers : package[t] # None => package[t].fence <= world[package[t].source].fence

ReceiptsKnown == \A t \in Transfers : ~Known(t) => receipt[t] = None

ReservationsUsed ==
    \A c \in Cells, t \in Transfers :
        world[c].reservation[t] # None =>
            Unfinished(t) /\ c = disk.transfers[t].destination

PlacementsUsed ==
    \A p \in Aggregates :
        disk.placements[p].state \notin {"Absent", "Resident"} =>
            \E t \in Transfers : Unfinished(t) /\ disk.transfers[t].aggregate = p

(* An unfinished transfer: its package is the one of its record,           *)
Bound(t) ==
    LET r == disk.transfers[t]
    IN  /\ Matches(package[t], r)
        /\ r.package = t
        /\ r.sourceGen <= disk.assignments[r.source].generation
        /\ r.destGen <= disk.assignments[r.destination].generation

(* each of its events was written under the fence of a generation that     *)
(* began no earlier than the transfer,                                     *)
IssuedAt(c, t, kind, min) ==
    Event(c, t, kind) # 0 =>
        /\ world[c].boundary[t][kind].fence # 0
        /\ \E g \in Generations :
              /\ g >= min
              /\ disk.assignments[c].history[g] = world[c].boundary[t][kind].fence

Issued(t) ==
    LET r == disk.transfers[t]
    IN  /\ \A kind \in {"Prepare", "Export", "AbortSource"} :
              IssuedAt(r.source, t, kind, r.sourceGen)
        /\ \A kind \in {"Quarantine", "Import", "AbortDestination"} :
              IssuedAt(r.destination, t, kind, r.destGen)

(* the copies of the player are the packaged one,                          *)
Copied(t) ==
    LET r == disk.transfers[t]
        copy(c) == world[c].player[r.aggregate]
    IN  /\ Event(r.source, t, "Export") = 0 => copy(r.source) = package[t].closure
        /\ Event(r.destination, t, "Import") # 0 => copy(r.destination) = package[t].closure
        /\ world[r.source].witness[t] # "Import"
        /\ world[r.destination].witness[t] # "Export"

(* the receipt is one and the same wherever it is kept, and the place is   *)
(* reserved from the quarantine to the import or the abort,                *)
Receipted(t) ==
    LET r == disk.transfers[t]
        w == world[r.destination]
        issued == w.boundary[t]["Quarantine"].receipt
        held == w.reservation[t]
        done(kind) == Event(r.destination, t, kind) # 0
    IN  /\ done("Quarantine") => issued # None
        /\ receipt[t] # None => done("Quarantine") /\ receipt[t] = issued
        /\ r.receipt # None => receipt[t] # None
        /\ done("Import") => w.boundary[t]["Import"].receipt = r.receipt
        /\ held # None => /\ done("Quarantine") /\ ~done("Import") /\ held = issued
                          /\ held[1] \in Nat /\ held[1] <= w.fence
        /\ done("Quarantine") /\ ~done("Import") /\ ~done("AbortDestination") => held # None
        /\ r.phase = "Aborting" => held \in {None, r.receipt}

(* and the directory knows what its phase needs.                           *)
Advanced(t) ==
    LET r == disk.transfers[t]
        x == disk.placements[r.aggregate]
    IN  /\ r.phase = "Quarantined" => r.prepare # NoProof
        /\ r.phase = "Imported" => x.state = "Resident" /\ x.generation = r.resultGen

Saga(t) == Bound(t) /\ Issued(t) /\ Copied(t) /\ Receipted(t) /\ Advanced(t)

SagaControl == CellsCurrent /\ TaskInv

SagaData ==
    /\ PackagesFenced /\ ReceiptsKnown /\ ReservationsUsed /\ PlacementsUsed
    /\ \A t \in Transfers : Unfinished(t) => Saga(t)

SagaInv == SagaControl /\ SagaData

-----------------------------------------------------------------------------
(* No step of the saga is refused.                                         *)

(* The event of a generation that began no earlier than the transfer is    *)
(* accepted as a proof.                                                    *)
LEMMA IssuedAccepted ==
    ASSUME HandoffInv, NEW t \in Transfers, Unfinished(t), disk.transfers[t].package = t,
           NEW c \in {disk.transfers[t].source, disk.transfers[t].destination},
           NEW kind \in Kinds, NEW min, IssuedAt(c, t, kind, min), Event(c, t, kind) # 0
    PROVE  \E g \in Generations : ProofAccepted(disk, t, c, min, ProofOf(c, t, kind), g)
<1> DEFINE b == world[c].boundary[t][kind]
           x == disk.assignments[c]
           q == ProofOf(c, t, kind)
<1>1. c \in Cells /\ disk.transfers[t] \in Transfer
  BY HandoffTypes DEF Transfer
<1>2. b \in Boundary /\ x \in Assignment
  BY <1>1, HandoffTypes DEF World
<1>3. PICK g \in Generations : g >= min /\ x.history[g] = b.fence /\ b.fence # 0
  BY DEF IssuedAt, Event
<1>4. x.state = "Assigned"
  BY <1>1 DEF HandoffInv, DirectoryFull, DocFull, DocInv, PinsHold, Pins, Unfinished
<1> DEFINE z == [package |-> t, generation |-> g, fence |-> b.fence, event |-> b.event,
                 receipt |-> b.receipt]
<1>5. q = [package |-> t, generation |-> 0, fence |-> b.fence, event |-> b.event,
           receipt |-> b.receipt]
  BY DEF ProofOf
<1>6. b.event # 0
  BY DEF Event
<1>7. z \in Proof
  <2>1. g \in 0..MaxGeneration /\ t \in Packages
    BY DirectoryAssumption, HandoffAssumption DEF Generations
  <2> HIDE DEF b
  <2> QED BY <1>2, <2>1 DEF Proof, Boundary
<1>8. ProofBinds(z, x, min, t) /\ Resolved(z, 0) = q
  BY <1>3, <1>5, <1>6 DEF ProofBinds, Resolved
<1> HIDE DEF z, q, x
<1>9. ProofAccepted(disk, t, c, min, Resolved(z, 0), z.generation)
  BY <1>1, <1>4, <1>7, <1>8, RecordedProofAccepted DEF HandoffInv, DirectoryFull, x
<1>10. z.generation = g
  BY DEF z
<1> QED BY <1>8, <1>9, <1>10 DEF q

(* Which step is next, and what it finds.                                  *)
LEMMA StepCases ==
    ASSUME HandoffInv, NEW t \in Transfers, doc = disk,
           disk.transfers[t].phase \notin Terminal
    PROVE  LET r == disk.transfers[t] IN
           \/ StepName(t) = "prepareTransfer" /\ r.phase = "Absent"
           \/ /\ StepName(t) = "recordAbortSource" /\ r.phase = "Aborting"
              /\ r.sourceAbort = NoProof /\ Seen(r.source, t, "AbortSource")
           \/ StepName(t) = "abortSource" /\ r.phase = "Aborting"
           \/ /\ StepName(t) = "recordAbortDestination" /\ r.phase = "Aborting"
              /\ r.destAbort = NoProof /\ Seen(r.destination, t, "AbortDestination")
           \/ StepName(t) = "abortDestination" /\ r.phase = "Aborting"
           \/ /\ StepName(t) = "finalizeAbort" /\ r.phase = "Aborting"
              /\ r.sourceAbort # NoProof /\ r.destAbort # NoProof
           \/ StepName(t) = "lock" /\ r.phase \in PreCommit
           \/ /\ StepName(t) = "recordSourcePrepared" /\ r.phase \in PreCommit
              /\ Seen(r.source, t, "Prepare") /\ r.prepare = NoProof
           \/ StepName(t) = "quarantine" /\ r.phase \in PreCommit
           \/ StepName(t) = "persistReceipt" /\ r.phase \in PreCommit
           \/ /\ StepName(t) = "recordQuarantine" /\ r.phase = "Prepared"
              /\ r.prepare # NoProof /\ Seen(r.destination, t, "Quarantine")
           \/ /\ StepName(t) = "commitTransfer" /\ r.phase = "Quarantined"
              /\ r.prepare # NoProof
           \/ /\ StepName(t) = "recordImported" /\ r.phase = "Committed"
              /\ Seen(r.destination, t, "Import")
           \/ StepName(t) = "import" /\ r.phase = "Committed"
           \/ StepName(t) = "export" /\ r.phase = "Imported"
           \/ /\ StepName(t) = "finalizeTransfer" /\ r.phase = "Imported"
              /\ Seen(r.source, t, "Export")
<1> DEFINE r == disk.transfers[t]
<1>1. r \in Transfer /\ doc.transfers[t] = r
  BY HandoffTypes
<1>2. r.phase \in PreCommit \cup {"Absent", "Aborting", "Committed", "Imported"}
  BY <1>1 DEF Transfer, Phases, PostCommit, Terminal
<1> HIDE DEF r
<1>3. CASE r.phase = "Absent"
  BY <1>1, <1>3 DEF StepName, r
<1>4. CASE r.phase = "Aborting"
  BY <1>1, <1>4 DEF StepName, CleanupProof, r
<1>5. CASE r.phase \in PreCommit
  BY <1>1, <1>5 DEF StepName, CleanupProof, PreCommit, r
<1>6. CASE r.phase \in {"Committed", "Imported"}
  BY <1>1, <1>6 DEF StepName, CleanupProof, PreCommit, r
<1> QED BY <1>2, <1>3, <1>4, <1>5, <1>6

(* What a step of an unfinished transfer can rely on.                      *)
LEMMA SagaFacts ==
    ASSUME HandoffInv, SagaData, NEW t \in Transfers, Unfinished(t)
    PROVE  LET r == disk.transfers[t]
               x == disk.placements[r.aggregate] IN
           /\ r \in Transfer /\ Known(t)
           /\ Ledger(t) /\ Carried(t) /\ ExactProofs(t) /\ Saga(t)
           /\ PhaseProofs(r) /\ ValidTransferIdentity(r) /\ PlacementMatches(x, t, r)
           /\ ValidProofs(disk, r)
           /\ disk.assignments[r.source].state = "Assigned"
           /\ disk.assignments[r.destination].state = "Assigned"
           /\ package[t] \in Package
           /\ package[t].fence <= world[r.source].fence
<1> DEFINE r == disk.transfers[t]
<1>1. Known(t)
  BY DEF Known, Unfinished
<1>2. r \in Transfer /\ Ledger(t) /\ Carried(t)
  BY HandoffTypes, PartiesKnown
<1>3. ExactProofs(t) /\ Saga(t)
  BY <1>1 DEF HandoffInv, DataInv, ProofsAreCellEvents, Known, SagaData
<1>4. /\ PhaseProofs(r) /\ ValidTransferIdentity(r) /\ ValidProofs(disk, r)
      /\ PlacementMatches(disk.placements[r.aggregate], t, r)
  BY <1>1 DEF HandoffInv, DirectoryFull, DocFull, DocInv, ValidTransfer, Known
<1>5. /\ disk.assignments[r.source].state = "Assigned"
      /\ disk.assignments[r.destination].state = "Assigned"
  BY <1>2 DEF HandoffInv, DirectoryFull, DocFull, DocInv, PinsHold, Pins, Unfinished, Transfer
<1>6. package[t] \in Package /\ package[t] # None
  BY <1>1 DEF HandoffInv, TypeOKHandoff, ControlInv
<1>7. package[t].fence <= world[r.source].fence
  BY <1>3, <1>6 DEF SagaData, PackagesFenced, Saga, Bound, Matches
<1> QED BY <1>1, <1>2, <1>3, <1>4, <1>5, <1>6, <1>7

(* The receipt on record is the one the destination issued and holds.      *)
LEMMA ReceiptAgrees ==
    ASSUME HandoffInv, SagaData, NEW t \in Transfers, Unfinished(t),
           disk.transfers[t].receipt # None
    PROVE  LET r == disk.transfers[t] IN
           /\ receipt[t] = r.receipt
           /\ Event(r.destination, t, "Quarantine") # 0
           /\ world[r.destination].boundary[t]["Quarantine"].receipt = r.receipt
<1> DEFINE r == disk.transfers[t]
           b == world[r.destination].boundary[t]["Quarantine"]
<1>1. /\ r \in Transfer /\ PhaseProofs(r) /\ ExactProofs(t) /\ Receipted(t) /\ ValidProofs(disk, r)
  BY SagaFacts DEF Saga
<1>2. r.quarantine # NoProof /\ r.receipt = r.quarantine.receipt
  BY <1>1 DEF PhaseProofs, ValidProofs
<1>3. r.quarantine.receipt = b.receipt
  BY <1>1, <1>2, Zenon DEF ExactProofs, ExactEvent, Resolved, ProofOf
<1> QED BY <1>1, <1>2, <1>3, Zenon DEF Receipted

(* Each step of an unfinished transfer passes its checks.                  *)
LEMMA CellStepsAccepted ==
    ASSUME HandoffInv, SagaInv, NEW t \in Transfers, Unfinished(t), doc = disk
    PROVE  LET r == disk.transfers[t]
               k == package[t]
               src == world[r.source]
               dst == world[r.destination] IN
           /\ r.phase \in PreCommit =>
                 StagePreparedLockOk(src, t, k, r) /\ StageQuarantineOk(dst, t, k)
           /\ r.phase = "Committed" =>
                 receipt[t] # None /\ StageImportOk(dst, t, k, r, receipt[t])
           /\ r.phase = "Imported" => StageExportOk(src, t, k, r)
           /\ r.phase = "Aborting" =>
                 StageAbortedSourceOk(src, t, k, r) /\ StageAbortedDestinationOk(dst, t, k, r)
<1>0. SagaData
  BY DEF SagaInv
<1>1. PICK s \in Cells, d \in Cells, p \in Aggregates, k \in Package :
          s # d /\ Parties(t, s, d, p, k)
  BY PartiesKnown
<1> DEFINE r == disk.transfers[t]
<1>2. /\ r \in Transfer
      /\ Ledger(t) /\ Carried(t) /\ PhaseProofs(r)
      /\ Bound(t) /\ Copied(t) /\ Receipted(t) /\ Advanced(t)
      /\ k.fence <= world[s].fence
  BY <1>0, <1>1, SagaFacts DEF Saga, Parties
<1>3. /\ Matches(k, r) /\ k.player = p
      /\ k.closure # None
  BY <1>1, <1>2, HandoffValues DEF Bound, Parties, Matches, Package
<1>4. /\ world[s] \in World /\ world[d] \in World
      /\ world[s].fence \in Nat /\ world[d].fence \in Nat /\ k.fence \in Nat
  BY <1>1, HandoffTypes DEF World, Package
<1>5. /\ world[s].lock[p] \in {None, t}
      /\ (world[s].player[p] # None) <=> Event(s, t, "Export") = 0
      /\ (world[d].player[p] # None) <=> Event(d, t, "Import") # 0
      /\ Event(s, t, "Export") = 0 => world[s].player[p] = k.closure
      /\ Event(d, t, "Import") # 0 => world[d].player[p] = k.closure
      /\ world[s].witness[t] = IF Event(s, t, "Export") # 0 THEN "Export" ELSE "None"
      /\ world[d].witness[t] = IF Event(d, t, "Import") # 0 THEN "Import" ELSE "None"
  BY <1>1, <1>2, <1>4 DEF Carried, Ledger, Copied, Parties, Present, World
<1>6. CASE r.phase \in PreCommit
  <2>1. Event(s, t, "Export") = 0 /\ Event(d, t, "Import") = 0
    BY <1>1, <1>2, <1>6 DEF Ledger, Parties, PreCommit, PostCommit
  <2>2. StagePreparedLockOk(world[s], t, k, r)
    BY <1>2, <1>3, <1>4, <1>5, <1>6, <2>1 DEF StagePreparedLockOk
  <2>3. ASSUME NEW u \in Transfers, ReservedFor(world[d], u, p)
        PROVE  world[d].reservation[t] # None
    BY <1>0, <2>3 DEF ReservedFor, SagaData, ReservationsUsed, HandoffInv, DataInv, OneAtATime
  <2>4. StageQuarantineOk(world[d], t, k)
    BY <1>3, <1>5, <2>1, <2>3 DEF StageQuarantineOk
  <2> QED BY <1>1, <1>6, <2>2, <2>4 DEF Parties, PreCommit
<1>7. CASE r.phase = "Committed"
  <2>1. r.receipt # None
    BY <1>2, <1>7 DEF PhaseProofs, PostCommit
  <2>2. /\ receipt[t] = r.receipt /\ receipt[t] # None
        /\ Event(d, t, "Quarantine") # 0
        /\ world[d].boundary[t]["Quarantine"].receipt = r.receipt
    BY <1>0, <1>1, <2>1, ReceiptAgrees DEF Parties
  <2>3. StageImportOk(world[d], t, k, r, receipt[t])
    <3>1. CASE Event(d, t, "Import") # 0
      BY <1>3, <1>5, <1>7, <2>2, <3>1 DEF StageImportOk, PostCommit
    <3>2. CASE Event(d, t, "Import") = 0
      <4>1. Event(d, t, "AbortDestination") = 0
        BY <1>1, <1>2, <1>7 DEF Ledger, Parties
      <4>2. /\ world[d].reservation[t] = receipt[t]
            /\ world[d].fence >= receipt[t][1]
        BY <1>1, <1>2, <1>4, <2>2, <3>2, <4>1 DEF Receipted, Parties
      <4> QED BY <1>3, <1>5, <1>7, <2>2, <3>2, <4>2 DEF StageImportOk, PostCommit
    <3> QED BY <3>1, <3>2
  <2> QED BY <1>1, <1>7, <2>2, <2>3 DEF Parties, PreCommit
<1>8. CASE r.phase = "Imported"
  <2>1. Event(s, t, "Export") = 0 => world[s].lock[p] = t
    BY <1>1, <1>2, <1>8 DEF Ledger, Parties
  <2>2. StageExportOk(world[s], t, k, r)
    BY <1>2, <1>3, <1>4, <1>5, <1>8, <2>1 DEF StageExportOk, PostCommit
  <2> QED BY <1>1, <1>8, <2>2 DEF Parties, PreCommit
<1>9. CASE r.phase = "Aborting"
  <2>1. Event(s, t, "Export") = 0 /\ Event(d, t, "Import") = 0
    BY <1>1, <1>2, <1>9 DEF Ledger, Parties, PreCommit, PostCommit
  <2>2. StageAbortedSourceOk(world[s], t, k, r)
    BY <1>3, <1>5, <1>9, <2>1 DEF StageAbortedSourceOk
  <2>3. StageAbortedDestinationOk(world[d], t, k, r)
    BY <1>1, <1>2, <1>3, <1>5, <1>9, <2>1 DEF StageAbortedDestinationOk, Receipted, Parties
  <2> QED BY <1>1, <1>9, <2>2, <2>3 DEF Parties, PreCommit
<1> QED BY <1>6, <1>7, <1>8, <1>9

(* Each write of the directory that reconcile_transfer makes passes the    *)
(* checks of cell_directory.rs, the generation of its proof resolved.      *)
LEMMA RecordStepsAccepted ==
    ASSUME HandoffInv, SagaInv, NEW t \in Transfers, Unfinished(t)
    PROVE  LET r == disk.transfers[t] IN
           /\ r.phase \in PreCommit /\ Seen(r.source, t, "Prepare") /\ r.prepare = NoProof =>
                 \E g \in Generations :
                    RecordSourcePreparedOk(disk, t, ProofOf(r.source, t, "Prepare"), g)
           /\ r.phase = "Prepared" /\ r.prepare # NoProof /\ Seen(r.destination, t, "Quarantine") =>
                 \E g \in Generations :
                    RecordQuarantineOk(disk, t, ProofOf(r.destination, t, "Quarantine"), g)
           /\ r.phase = "Quarantined" /\ r.prepare # NoProof => CommitTransferOk(disk, t, r.priorGen)
           /\ r.phase = "Committed" /\ Seen(r.destination, t, "Import") =>
                 \E g \in Generations :
                    RecordImportedOk(disk, t, ProofOf(r.destination, t, "Import"), g)
           /\ r.phase = "Imported" /\ Seen(r.source, t, "Export") =>
                 \E g \in Generations :
                    FinalizeTransferOk(disk, t, ProofOf(r.source, t, "Export"), g)
           /\ r.phase = "Aborting" /\ r.sourceAbort = NoProof /\ Seen(r.source, t, "AbortSource") =>
                 \E g \in Generations :
                    RecordAbortCleanupOk(disk, t, "Source", ProofOf(r.source, t, "AbortSource"), g)
           /\ (r.phase = "Aborting" /\ r.destAbort = NoProof
               /\ Seen(r.destination, t, "AbortDestination")) =>
                 \E g \in Generations :
                    RecordAbortCleanupOk(disk, t, "Destination",
                                         ProofOf(r.destination, t, "AbortDestination"), g)
           /\ r.phase = "Aborting" /\ r.sourceAbort # NoProof /\ r.destAbort # NoProof =>
                 FinalizeAbortOk(disk, t)
<1> DEFINE r == disk.transfers[t]
           x == disk.placements[r.aggregate]
           q(c, kind) == ProofOf(c, t, kind)
<1>1. SagaData
  BY DEF SagaInv
<1>2. /\ r \in Transfer /\ Carried(t) /\ Bound(t) /\ Issued(t) /\ Receipted(t) /\ Advanced(t)
      /\ PhaseProofs(r) /\ PlacementMatches(x, t, r)
      /\ disk.assignments[r.source].state = "Assigned"
      /\ disk.assignments[r.destination].state = "Assigned"
  BY <1>1, SagaFacts DEF Saga
<1>3. ASSUME NEW kind \in {"Prepare", "Export", "AbortSource"}, Seen(r.source, t, kind)
      PROVE  \E g \in Generations : ProofAccepted(disk, t, r.source, r.sourceGen, q(r.source, kind), g)
  <2>1. Event(r.source, t, kind) # 0 /\ kind \in Kinds
    BY <1>3 DEF Seen, Event, Kinds
  <2>2. IssuedAt(r.source, t, kind, r.sourceGen) /\ r.package = t
    BY <1>2 DEF Issued, Bound
  <2> QED BY <2>1, <2>2, IssuedAccepted
<1>4. ASSUME NEW kind \in {"Quarantine", "Import", "AbortDestination"}, Seen(r.destination, t, kind)
      PROVE  \E g \in Generations :
                ProofAccepted(disk, t, r.destination, r.destGen, q(r.destination, kind), g)
  <2>1. Event(r.destination, t, kind) # 0 /\ kind \in Kinds
    BY <1>4 DEF Seen, Event, Kinds
  <2>2. IssuedAt(r.destination, t, kind, r.destGen) /\ r.package = t
    BY <1>2 DEF Issued, Bound
  <2> QED BY <2>1, <2>2, IssuedAccepted
<1>5. \A c, kind : q(c, kind).receipt = world[c].boundary[t][kind].receipt
  BY DEF ProofOf
<1> HIDE DEF q
<1>6. ASSUME r.phase \in PreCommit, Seen(r.source, t, "Prepare"), r.prepare = NoProof
      PROVE  \E g \in Generations : RecordSourcePreparedOk(disk, t, q(r.source, "Prepare"), g)
  <2>1. r.phase = "Prepared"
    BY <1>2, <1>6 DEF Advanced, PreCommit
  <2> QED BY <1>3, <1>6, <2>1 DEF RecordSourcePreparedOk
<1>7. ASSUME r.phase = "Prepared", r.prepare # NoProof, Seen(r.destination, t, "Quarantine")
      PROVE  \E g \in Generations : RecordQuarantineOk(disk, t, q(r.destination, "Quarantine"), g)
  <2>1. r.receipt = None
    BY <1>2, <1>7 DEF PhaseProofs
  <2>2. q(r.destination, "Quarantine").receipt \in Receipts
    <3>1. world[r.destination].boundary[t]["Quarantine"].receipt # None
      BY <1>2, <1>7, Zenon DEF Receipted, Seen, Event
    <3>2. world[r.destination].boundary[t]["Quarantine"] \in Boundary
      BY <1>2, HandoffTypes DEF World, Kinds, Transfer
    <3> QED BY <1>5, <3>1, <3>2 DEF Boundary
  <2> QED BY <1>4, <1>7, <2>1, <2>2 DEF RecordQuarantineOk
<1>8. ASSUME r.phase = "Quarantined", r.prepare # NoProof
      PROVE  CommitTransferOk(disk, t, r.priorGen)
  <2>1. r.receipt # None /\ r.quarantine # NoProof
    BY <1>2, <1>8 DEF PhaseProofs
  <2>2. BoundAtSource(x, t, r)
    BY <1>2, <1>8 DEF PlacementMatches, PreCommit
  <2>3. /\ disk.assignments[r.source].generation >= r.sourceGen
        /\ disk.assignments[r.destination].generation >= r.destGen
    <3>1. /\ r.sourceGen \in Nat /\ r.destGen \in Nat
          /\ r.source \in Cells /\ r.destination \in Cells
      BY <1>2, DirectoryAssumption DEF Transfer
    <3>2. /\ disk.assignments[r.source].generation \in Nat
          /\ disk.assignments[r.destination].generation \in Nat
      BY <3>1, HandoffTypes, DirectoryAssumption DEF Assignment
    <3> QED BY <1>2, <3>1, <3>2 DEF Bound
  <2> QED BY <1>2, <1>8, <2>1, <2>2, <2>3 DEF CommitTransferOk
<1>9. ASSUME r.phase = "Committed", Seen(r.destination, t, "Import")
      PROVE  \E g \in Generations : RecordImportedOk(disk, t, q(r.destination, "Import"), g)
  <2>1. BoundInTransit(x, t, r)
    BY <1>2, <1>9 DEF PlacementMatches, PreCommit
  <2>2. q(r.destination, "Import").receipt = r.receipt
    BY <1>2, <1>5, <1>9, Zenon DEF Receipted, Seen, Event
  <2> QED BY <1>4, <1>9, <2>1, <2>2 DEF RecordImportedOk
<1>10. ASSUME r.phase = "Imported", Seen(r.source, t, "Export")
       PROVE  \E g \in Generations : FinalizeTransferOk(disk, t, q(r.source, "Export"), g)
  <2>1. x.state = "Resident" /\ x.generation = r.resultGen /\ x.cell = r.destination
    BY <1>2, <1>10 DEF Advanced, Carried
  <2> QED BY <1>3, <1>10, <2>1 DEF FinalizeTransferOk
<1>11. ASSUME r.phase = "Aborting"
       PROVE  /\ r.sourceAbort = NoProof /\ Seen(r.source, t, "AbortSource") =>
                    \E g \in Generations :
                        RecordAbortCleanupOk(disk, t, "Source", q(r.source, "AbortSource"), g)
              /\ r.destAbort = NoProof /\ Seen(r.destination, t, "AbortDestination") =>
                    \E g \in Generations :
                        RecordAbortCleanupOk(disk, t, "Destination",
                                             q(r.destination, "AbortDestination"), g)
              /\ r.sourceAbort # NoProof /\ r.destAbort # NoProof => FinalizeAbortOk(disk, t)
  <2>1. BoundAtSource(x, t, r)
    BY <1>2, <1>11 DEF PlacementMatches
  <2>2. RoleCell(r, "Source") = r.source /\ RoleMinGen(r, "Source") = r.sourceGen
        /\ CleanupProof(r, "Source") = r.sourceAbort
    BY DEF RoleCell, RoleMinGen, CleanupProof
  <2>3. RoleCell(r, "Destination") = r.destination /\ RoleMinGen(r, "Destination") = r.destGen
        /\ CleanupProof(r, "Destination") = r.destAbort
    BY DEF RoleCell, RoleMinGen, CleanupProof
  <2> QED BY <1>3, <1>4, <1>11, <2>1, <2>2, <2>3 DEF RecordAbortCleanupOk, FinalizeAbortOk
<1> QED BY <1>6, <1>7, <1>8, <1>9, <1>10, <1>11 DEF q

(* Nor does open find proofs or roster in disagreement.                    *)
LEMMA OpenAccepted ==
    ASSUME HandoffInv, SagaInv
    PROVE  ~OpenRefused
<1> SUFFICES ASSUME stage = "opening", ~failed, task = None
             PROVE  /\ \A t \in pending : VerifyTransferRecordProofs(doc, t)
                    /\ pending = {} => RosterAgrees
  BY DEF OpenRefused
<1>1. doc = disk /\ \A c \in Cells : halt[c] = "no"
  BY DEF HandoffInv, ControlInv, SagaInv, SagaControl, CellsCurrent
<1>2. ASSUME NEW t \in pending
      PROVE  VerifyTransferRecordProofs(doc, t)
  <2> DEFINE r == disk.transfers[t]
  <2>1. t \in Transfers /\ Known(t)
    BY DEF HandoffInv, TypeOKHandoff, ControlInv
  <2>2. ExactProofs(t)
    BY <2>1 DEF HandoffInv, DataInv, ProofsAreCellEvents, Known
  <2>3. r.source \in Cells /\ r.destination \in Cells
    BY <2>1, HandoffTypes DEF Transfer
  <2>4. ASSUME NEW c \in Cells, NEW kind, NEW q, ExactEvent(c, t, kind, q)
        PROVE  ProofVerifies(c, t, kind, q)
    BY <1>1, <2>4 DEF ExactEvent, ProofVerifies, Seen
  <2> QED BY <1>1, <2>2, <2>3, <2>4 DEF VerifyTransferRecordProofs, ExactProofs
<1>3. ASSUME pending = {}
      PROVE  RosterAgrees
  <2>1. \A t \in Transfers : ~Unfinished(t)
    BY <1>3, DirectoryAssumption DEF HandoffInv, ControlInv
  <2>2. ASSUME NEW p \in Aggregates, NEW c \in Cells, Present(c, p)
        PROVE  /\ \A d \in Cells \ {c} : ~Present(d, p)
               /\ \/ disk.placements[p].state = "Absent"
                  \/ disk.placements[p].state = "Resident" /\ disk.placements[p].cell = c
    <3>1. Idle(p)
      BY <2>1 DEF HandoffInv, DataInv, PlayersInv
    <3>2. disk.placements[p].state \in {"Absent", "Resident"}
      BY <2>1 DEF SagaInv, SagaData, PlacementsUsed
    <3> QED BY <2>2, <3>1, <3>2 DEF Idle
  <2> QED BY <1>1, <2>2 DEF RosterAgrees
<1> QED BY <1>2, <1>3

(* No state of the invariant is a wedged one.                              *)
LEMMA NothingRefused ==
    ASSUME HandoffInv, SagaInv
    PROVE  NeverWedged
<1>1. ASSUME NEW t \in Transfers, task = t
      PROVE  StepAccepted(t)
  <2> DEFINE r == disk.transfers[t]
  <2>1. doc = disk /\ t # None
    BY <1>1, DirectoryAssumption DEF HandoffInv, ControlInv
  <2>2. IF Known(t) THEN Unfinished(t) ELSE Starting(t)
    BY <1>1, <2>1 DEF SagaInv, SagaControl, TaskInv
  <2>3. CASE ~Known(t)
    <3>1. StepName(t) = "prepareTransfer"
      BY <2>1, <2>3 DEF StepName, Known
    <3> QED BY <2>1, <2>2, <2>3, <3>1 DEF StepAccepted, Starting
  <2>4. CASE Unfinished(t)
    <3>1. r.phase \notin Terminal /\ r.phase # "Absent"
      BY <2>4 DEF Unfinished
    <3> QED BY <2>1, <2>4, <3>1, StepCases, CellStepsAccepted, RecordStepsAccepted, Zenon
            DEF StepAccepted
  <2> QED BY <2>2, <2>3, <2>4
<1>2. task # None => StepAccepted(task)
  BY <1>1 DEF HandoffInv, TypeOKHandoff
<1> QED BY <1>2, OpenAccepted DEF NeverWedged

-----------------------------------------------------------------------------
(* How it is kept.                                                         *)

(* A step that changes no transfer that is under way, nor what its cells   *)
(* keep for it: the histories of the cells grow, a player may be placed    *)
(* for the first time, a package may be written.                           *)
Grown(x, y) == FencesKept(x, y) /\ x.generation <= y.generation

(* A step that lets fences, generations and copies of idle players grow and*)
(* leaves the records, events and reservations alone keeps the saga.       *)
LEMMA SagaStable ==
    ASSUME HandoffInv, SagaData, UNCHANGED receipt, disk'.transfers = disk.transfers,
           \A c \in Cells :
               /\ Grown(disk.assignments[c], disk'.assignments[c])
               /\ disk'.assignments[c].generation \in Nat,
           \A p \in Aggregates :
               \/ disk'.placements[p] = disk.placements[p]
               \/ disk.placements[p].state = "Absent" /\ disk'.placements[p].state = "Resident",
           \A c \in Cells :
               /\ world'[c].fence \in Nat /\ world[c].fence <= world'[c].fence
               /\ world'[c].reservation = world[c].reservation
               /\ world'[c].witness = world[c].witness
               /\ world'[c].boundary = world[c].boundary,
           \A t \in Transfers, c \in Cells : Unfinished(t) =>
               LET p == disk.transfers[t].aggregate
               IN  world'[c].player[p] = world[c].player[p],
           \A t \in Transfers : package[t] # None => package'[t] = package[t],
           \A t \in Transfers : package[t] = None /\ package'[t] # None =>
               package'[t].fence <= world'[package'[t].source].fence
    PROVE  SagaData'
<1>1. \A t \in Transfers : /\ disk.transfers[t] \in Transfer
                           /\ Known(t)' = Known(t) /\ Unfinished(t)' = Unfinished(t)
  BY HandoffTypes DEF Known, Unfinished
<1>2. /\ PackagesFenced /\ ReceiptsKnown /\ ReservationsUsed /\ PlacementsUsed
      /\ \A t \in Transfers : Unfinished(t) => Saga(t)
  BY DEF SagaData
<1>3. \A c \in Cells : world[c].fence \in Nat /\ disk.assignments[c].generation \in Nat
  BY HandoffTypes, DirectoryAssumption DEF World, Assignment
<1>4. PackagesFenced'
  <2> SUFFICES ASSUME NEW t \in Transfers, package'[t] # None, package[t] # None
               PROVE  package'[t].fence <= world'[package'[t].source].fence
    BY DEF PackagesFenced
  <2>1. package[t] \in Package /\ package'[t] = package[t]
    BY DEF HandoffInv, TypeOKHandoff
  <2>2. package[t].fence \in Nat /\ package[t].source \in Cells
    BY <2>1, DirectoryAssumption DEF Package
  <2> QED BY <1>2, <1>3, <2>1, <2>2 DEF PackagesFenced
<1>5. ReceiptsKnown'
  BY <1>1, <1>2 DEF ReceiptsKnown
<1>6. ReservationsUsed'
  BY <1>1, <1>2 DEF ReservationsUsed
<1>7. PlacementsUsed'
  BY <1>1, <1>2 DEF PlacementsUsed
<1>8. ASSUME NEW t \in Transfers, Unfinished(t)
      PROVE  Saga(t)'
  <2> DEFINE r == disk.transfers[t]
             p == r.aggregate
  <2>1. /\ disk'.transfers[t] = r /\ r.source \in Cells /\ r.destination \in Cells
        /\ p \in Aggregates /\ r.sourceGen \in Nat /\ r.destGen \in Nat
    BY <1>1, DirectoryAssumption DEF Transfer
  <2>2. package'[t] = package[t]
    BY <1>8, SagaFacts, HandoffValues
  <2>3. \A c \in Cells, kind \in Kinds :
            /\ Event(c, t, kind)' = Event(c, t, kind)
            /\ world'[c].boundary[t][kind] = world[c].boundary[t][kind]
    BY DEF Event
  <2>4. Saga(t)
    BY <1>2, <1>8
  <2>5. Bound(t)'
    BY <1>3, <2>1, <2>2, <2>4 DEF Saga, Bound, Grown, Matches
  <2>6. Issued(t)'
    <3>1. ASSUME NEW c \in Cells, NEW kind \in Kinds, NEW min, IssuedAt(c, t, kind, min)
          PROVE  IssuedAt(c, t, kind, min)'
      <4> SUFFICES ASSUME Event(c, t, kind) # 0
                   PROVE  /\ world[c].boundary[t][kind].fence # 0
                          /\ \E g \in Generations :
                                /\ g >= min
                                /\ disk'.assignments[c].history[g]
                                        = world[c].boundary[t][kind].fence
        BY <2>3 DEF IssuedAt
      <4>1. PICK g \in Generations :
                /\ g >= min
                /\ disk.assignments[c].history[g] = world[c].boundary[t][kind].fence
                /\ world[c].boundary[t][kind].fence # 0
        BY <3>1 DEF IssuedAt
      <4>2. disk'.assignments[c].history[g] = disk.assignments[c].history[g]
        BY <4>1 DEF Grown, FencesKept
      <4> QED BY <4>1, <4>2
    <3>2. \A c \in Cells, kind \in Kinds, min \in Nat :
              IssuedAt(c, t, kind, min) => IssuedAt(c, t, kind, min)'
      BY <3>1
    <3> QED BY <2>1, <2>4, <3>2 DEF Saga, Issued, Kinds
  <2>7. Copied(t)'
    BY <1>8, <2>1, <2>2, <2>3, <2>4 DEF Saga, Copied, Kinds
  <2>8. Receipted(t)'
    <3> DEFINE w == world[r.destination]
               v == world'[r.destination]
               held == w.reservation[t]
    <3>1. /\ v.reservation[t] = held /\ w.fence \in Nat /\ v.fence \in Nat
          /\ w.fence <= v.fence
      BY <1>3, <2>1
    <3>2. held # None => held[1] \in Nat /\ held[1] <= v.fence
      <4>1. held # None => held[1] \in Nat /\ held[1] <= w.fence
        BY <2>4 DEF Saga, Receipted
      <4> HIDE DEF held
      <4> QED BY <3>1, <4>1
    <3>3. /\ \A kind \in {"Quarantine", "Import", "AbortDestination"} :
                /\ Event(r.destination, t, kind)' = Event(r.destination, t, kind)
                /\ v.boundary[t][kind] = w.boundary[t][kind]
      BY <2>1, <2>3 DEF Kinds
    <3> QED BY <2>1, <2>4, <3>1, <3>2, <3>3, ZenonT(60) DEF Saga, Receipted
  <2>9. Advanced(t)'
    BY <2>1, <2>4 DEF Saga, Advanced
  <2> QED BY <2>5, <2>6, <2>7, <2>8, <2>9 DEF Saga
<1> QED BY <1>1, <1>4, <1>5, <1>6, <1>7, <1>8 DEF SagaData

(* The other way round: a step that changes one transfer that is, or will  *)
(* be, under way, and is the only one.                                     *)
LEMMA SagaAlone ==
    ASSUME HandoffInv, SagaData, UNCHANGED package,
           NEW t \in Transfers, NEW s \in Cells, NEW d \in Cells, NEW p \in Aggregates,
           disk'.transfers[t].aggregate = p,
           disk'.transfers[t].source = s, disk'.transfers[t].destination = d,
           Known(t)',
           Unfinished(t) => disk.transfers[t].aggregate = p /\ disk.transfers[t].destination = d,
           \A u \in Transfers \ {t} :
               /\ disk'.transfers[u] = disk.transfers[u] /\ ~Unfinished(u)
               /\ receipt'[u] = receipt[u],
           \A q \in Aggregates \ {p} : disk'.placements[q] = disk.placements[q],
           \A c \in Cells :
               /\ world'[c].fence \in Nat /\ world[c].fence <= world'[c].fence
               /\ \A u \in Transfers : u # t \/ c # d =>
                      world'[c].reservation[u] = world[c].reservation[u],
           Unfinished(t)' => Saga(t)',
           ~Unfinished(t)' => /\ world'[d].reservation[t] = None
                              /\ disk'.placements[p].state = "Resident"
    PROVE  SagaData'
<1>1. \A u \in Transfers \ {t} : Known(u)' = Known(u) /\ ~Unfinished(u)'
  BY DEF Known, Unfinished
<1>2. PackagesFenced /\ ReceiptsKnown /\ ReservationsUsed /\ PlacementsUsed
  BY DEF SagaData
<1>3. \A c \in Cells : world[c].fence \in Nat
  BY HandoffTypes DEF World
<1>4. PackagesFenced'
  <2> SUFFICES ASSUME NEW u \in Transfers, package[u] # None
               PROVE  package[u].fence <= world'[package[u].source].fence
    BY DEF PackagesFenced
  <2>1. package[u] \in Package
    BY DEF HandoffInv, TypeOKHandoff
  <2>2. package[u].fence \in Nat /\ package[u].source \in Cells
    BY <2>1, DirectoryAssumption DEF Package
  <2> QED BY <1>2, <1>3, <2>2 DEF PackagesFenced
<1>5. ReceiptsKnown'
  BY <1>1, <1>2 DEF ReceiptsKnown
<1>6. ReservationsUsed'
  <2> SUFFICES ASSUME NEW c \in Cells, NEW u \in Transfers, world'[c].reservation[u] # None
               PROVE  Unfinished(u)' /\ c = disk'.transfers[u].destination
    BY DEF ReservationsUsed
  <2>1. CASE u # t \/ c # d
    BY <1>2, <2>1 DEF ReservationsUsed
  <2>2. CASE u = t /\ c = d
    BY <2>2
  <2> QED BY <2>1, <2>2
<1>7. PlacementsUsed'
  <2> SUFFICES ASSUME NEW q \in Aggregates, disk'.placements[q].state \notin {"Absent", "Resident"}
               PROVE  \E u \in Transfers : Unfinished(u)' /\ disk'.transfers[u].aggregate = q
    BY DEF PlacementsUsed
  <2>1. CASE q = p
    BY <2>1
  <2>2. CASE q # p
    BY <1>2, <2>2 DEF PlacementsUsed
  <2> QED BY <2>1, <2>2
<1> QED BY <1>1, <1>4, <1>5, <1>6, <1>7 DEF SagaData

(* A step that leaves the files alone keeps the saga.                      *)
LEMMA SagaSame ==
    ASSUME HandoffInv, SagaData, UNCHANGED <<disk, world, package, receipt>>
    PROVE  SagaData'
<1>1. \A c \in Cells : /\ world[c].fence \in Nat
                       /\ disk.assignments[c].generation \in Nat
  BY HandoffTypes, DirectoryAssumption DEF World, Assignment
<1>2. \A c \in Cells : Grown(disk.assignments[c], disk'.assignments[c])
  BY <1>1 DEF Grown, FencesKept
<1>3. \A c \in Cells : world'[c] = world[c] /\ world[c].fence <= world'[c].fence
  BY <1>1
<1> QED BY <1>1, <1>2, <1>3, SagaStable

(* The opening and the end of the process.                                 *)
LEMMA StartStopSaga ==
    ASSUME HandoffInv, SagaInv, StartOpen \/ Crash \/ GiveUp
    PROVE  SagaInv'
<1>1. /\ UNCHANGED <<disk, world, package, receipt>>
      /\ assigned' = {} /\ task' = None /\ stage' \in {"opening", "down"}
      /\ \A c \in Cells : halt'[c] = "no"
  <2>1. CASE StartOpen
    <3>1. stage = "down" /\ ~failed
      BY <2>1 DEF StartOpen, HandoffInv, ControlInv
    <3> QED BY <2>1, <3>1 DEF StartOpen, OpenDirectory, SagaInv, SagaControl, CellsCurrent
  <2>2. CASE Stop
    BY <2>2 DEF Stop, CloseDirectory
  <2> QED BY <2>1, <2>2 DEF Crash, GiveUp
<1>2. SagaData'
  BY <1>1, SagaSame DEF SagaInv
<1>3. SagaControl'
  BY <1>1 DEF SagaControl, CellsCurrent, TaskInv
<1> QED BY <1>2, <1>3 DEF SagaInv

(* Opening a cell store raises the fence of a cell not assigned yet: what  *)
(* its reservations were built from stays below it.                        *)
LEMMA OpenCellSaga ==
    ASSUME HandoffInv, SagaInv, NEW c \in Cells, OpenCell(c)
    PROVE  SagaInv'
<1>1. /\ c \notin assigned /\ stage = "opening"
      /\ UNCHANGED <<disk, halt, package, receipt, stage, assigned, task, failed>>
  BY DEF OpenCell, HandoffInv, TypeOKHandoff, dirVars
<1>2. task = None
  BY <1>1 DEF HandoffInv, ControlInv
<1>3. world \in [Cells -> World] /\ \A b \in Cells : world[b] \in World
  BY DEF HandoffInv, TypeOKHandoff
<1>4. /\ world'[c] = [world[c] EXCEPT !.fence = world[c].fence + 1]
      /\ \A b \in Cells \ {c} : world'[b] = world[b]
  BY <1>3 DEF OpenCell
<1>5. \A b \in Cells :
          /\ world'[b].fence \in Nat /\ world[b].fence <= world'[b].fence
          /\ world'[b].player = world[b].player
          /\ world'[b].reservation = world[b].reservation
          /\ world'[b].witness = world[b].witness
          /\ world'[b].boundary = world[b].boundary
  <2>1. \A b \in Cells : world[b].fence \in Nat
    BY <1>3, DirectoryAssumption DEF World
  <2>2. /\ world'[c].fence = world[c].fence + 1
        /\ world'[c].player = world[c].player
        /\ world'[c].reservation = world[c].reservation
        /\ world'[c].witness = world[c].witness
        /\ world'[c].boundary = world[c].boundary
    BY <1>3, <1>4 DEF World
  <2> SUFFICES ASSUME NEW b \in Cells
               PROVE  /\ world'[b].fence \in Nat /\ world[b].fence <= world'[b].fence
                      /\ world'[b].player = world[b].player
                      /\ world'[b].reservation = world[b].reservation
                      /\ world'[b].witness = world[b].witness
                      /\ world'[b].boundary = world[b].boundary
    OBVIOUS
  <2>3. CASE b = c
    BY <2>1, <2>2, <2>3
  <2>4. CASE b # c
    BY <1>4, <2>1, <2>4
  <2> QED BY <2>3, <2>4
<1>6. SagaData'
  <2>1. \A b \in Cells : /\ disk.assignments[b].generation \in Nat
                         /\ Grown(disk.assignments[b], disk'.assignments[b])
    BY <1>1, HandoffTypes, DirectoryAssumption DEF Assignment, Grown, FencesKept
  <2> QED BY <1>1, <1>5, <2>1, SagaStable DEF SagaInv
<1>7. SagaControl'
  <2>1. \A b \in assigned : world'[b] = world[b]
    BY <1>1, <1>4 DEF HandoffInv, TypeOKHandoff
  <2>2. CellsCurrent'
    BY <1>1, <2>1 DEF SagaInv, SagaControl, CellsCurrent
  <2> QED BY <1>1, <1>2, <2>2 DEF SagaControl, TaskInv
<1> QED BY <1>6, <1>7 DEF SagaInv

(* A claim or a recovery puts the fence of the opened store on record under*)
(* a new generation; the history keeps the fences that events name.        *)
LEMMA AssignCellSaga ==
    ASSUME HandoffInv, SagaInv, NEW c \in Cells, NEW o \in Outcomes, AssignCell(c, o)
    PROVE  SagaInv'
<1> DEFINE f == world[c].fence
           gen == doc.assignments[c].generation
           old == disk.assignments[c]
<1>0. ~failed => doc = disk
  BY DEF HandoffInv, ControlInv
<1>1. /\ stage = "opening" /\ ~failed /\ doc = disk /\ Result(o)
      /\ c \in opened \ assigned
      /\ assigned' = IF o = "ok" THEN assigned \cup {c} ELSE assigned
      /\ UNCHANGED <<world, halt, package, receipt, stage, opened, pending, task>>
  BY <1>0 DEF AssignCell
<1>2. task = None
  BY <1>1 DEF HandoffInv, ControlInv
<1>3. PICK h \in Holders : Claim(c, gen, h, f, o) \/ RecoverAssignment(c, gen, h, f, o)
  BY DEF AssignCell
<1> DEFINE new == Issue(old, h, f)
           next == AssignDoc(disk, c, h, f)
<1>4. /\ CommitDocument(next, o) /\ f > old.fence
      /\ old.generation < MaxGeneration
  BY <1>1, <1>3 DEF Claim, RecoverAssignment, ClaimOk, RecoverAssignmentOk
<1>5. disk \in Document /\ world[c] \in World /\ old \in Assignment
  BY HandoffTypes
<1>6. ValidAssignment(old)
  BY DEF HandoffInv, DirectoryFull, DocFull, DocInv
<1>7. f \in Fences /\ old.generation \in Nat
  BY <1>4, <1>5, DirectoryAssumption DEF World, Assignment, Fences
<1>8. /\ new.generation = old.generation + 1 /\ new.fence = f /\ new.state = "Assigned"
      /\ FencesKept(old, new)
  BY <1>4, <1>5, <1>6, <1>7, IssueExtends DEF Issue, FencesKept
<1>9. /\ next.transfers = disk.transfers /\ next.placements = disk.placements
      /\ \A b \in Cells : next.assignments[b] = IF b = c THEN new ELSE disk.assignments[b]
  BY <1>5, Frames DEF AssignDoc
<1>10. next = [disk EXCEPT !.assignments = next.assignments]
  BY <1>5 DEF AssignDoc, SetAssignment, Document
<1> HIDE DEF new, next
<1>11. /\ disk'.transfers = disk.transfers /\ disk'.placements = disk.placements
       /\ \/ o # "ok" /\ disk'.assignments = disk.assignments
          \/ disk'.assignments = next.assignments
  BY <1>4, <1>5, <1>9, <1>10 DEF CommitDocument, Document
<1>12. \A b \in Cells : /\ Grown(disk.assignments[b], disk'.assignments[b])
                        /\ disk'.assignments[b].generation \in Nat
                        /\ world[b].fence \in Nat /\ world[b].fence <= world'[b].fence
  <2>1. \A b \in Cells : disk.assignments[b].generation \in Nat /\ world[b].fence \in Nat
    BY HandoffTypes, DirectoryAssumption DEF Assignment, World
  <2>2. Grown(old, new) /\ new.generation \in Nat
    BY <1>7, <1>8 DEF Grown
  <2>3. \A b \in Cells : Grown(disk.assignments[b], disk.assignments[b])
    BY <2>1 DEF Grown, FencesKept
  <2> QED BY <1>1, <1>9, <1>11, <2>1, <2>2, <2>3
<1>13. SagaData'
  BY <1>1, <1>11, <1>12, SagaStable DEF SagaInv
<1>14. SagaControl'
  <2>1. CellsCurrent
    BY DEF SagaInv, SagaControl
  <2>2. ASSUME NEW b \in assigned'
        PROVE  /\ disk'.assignments[b].state = "Assigned"
               /\ disk'.assignments[b].fence = world'[b].fence
    <3>1. assigned \subseteq Cells
      BY DEF HandoffInv, TypeOKHandoff
    <3>2. CASE b = c /\ o = "ok"
      BY <1>1, <1>8, <1>9, <1>11, <3>2
    <3>3. CASE b \in assigned
      BY <1>1, <1>9, <1>11, <2>1, <3>1, <3>3 DEF CellsCurrent
    <3> QED BY <1>1, <3>2, <3>3
  <2> QED BY <1>1, <1>2, <2>1, <2>2 DEF SagaControl, CellsCurrent, TaskInv
<1> QED BY <1>13, <1>14 DEF SagaInv

(* The opening takes a record to reconcile, ends, or stops at a step that  *)
(* was refused.                                                            *)
LEMMA OpeningSaga ==
    ASSUME HandoffInv, SagaInv,
           FinishOpen \/ \E t \in Transfers : ReconcileNext(t) \/ StepRefused(t)
    PROVE  SagaInv'
<1>1. /\ UNCHANGED <<disk, world, halt, package, receipt, assigned>>
      /\ ~failed' => ~failed
      /\ stage' = "ready" => assigned = Cells
      /\ stage = "ready" => stage' = "ready"
  BY DEF FinishOpen, Reconciled, ReconcileNext, StepRefused, dirVars, SagaInv, SagaControl,
         CellsCurrent
<1>2. SagaData'
  BY <1>1, SagaSame DEF SagaInv
<1>3. CellsCurrent'
  BY <1>1 DEF SagaInv, SagaControl, CellsCurrent
<1>4. TaskInv'
  <2>1. CASE FinishOpen
    BY <2>1 DEF FinishOpen, Reconciled, TaskInv
  <2>2. ASSUME NEW t \in Transfers, ReconcileNext(t)
        PROVE  TaskInv'
    <3>1. doc = disk /\ Known(t)
      BY <2>2 DEF ReconcileNext, HandoffInv, ControlInv
    <3>2. task' # None => Known(t)' /\ Unfinished(t)' /\ task' = t
      BY <1>1, <2>2, <3>1 DEF ReconcileNext, Known, Unfinished
    <3> QED BY <3>2 DEF TaskInv
  <2>3. ASSUME NEW t \in Transfers, StepRefused(t)
        PROVE  TaskInv'
    BY <2>3 DEF StepRefused, TaskInv
  <2> QED BY <2>1, <2>2, <2>3
<1> QED BY <1>2, <1>3, <1>4 DEF SagaInv, SagaControl

(* register_resident_players places a player that was not placed before:   *)
(* no transfer can be under way for it.                                    *)
LEMMA RegisterResidentSaga ==
    ASSUME HandoffInv, SagaInv, NEW c \in Cells, NEW p \in Aggregates, NEW o \in Outcomes,
           RegisterResident(c, p, o)
    PROVE  SagaInv'
<1> DEFINE y == [state |-> "Resident", cell |-> c, generation |-> 1, transfer |-> None]
           next == RegisterPlacementDoc(disk, p, c)
<1>0. ~failed => doc = disk
  BY DEF HandoffInv, ControlInv
<1>1. /\ ~failed /\ task = None /\ Result(o) /\ CommitDocument(next, o)
      /\ doc = disk /\ disk.placements[p].state = "Absent" /\ stage = "opening"
      /\ UNCHANGED <<world, halt, package, receipt, stage, opened, assigned, pending, task>>
  BY <1>0 DEF RegisterResident, Reconciled, RegisterPlacement, RegisterPlacementOk
<1>2. disk \in Document
  BY HandoffTypes
<1>3. /\ next.transfers = disk.transfers /\ next.assignments = disk.assignments
      /\ \A q \in Aggregates : next.placements[q] = IF q = p THEN y ELSE disk.placements[q]
  BY <1>2, Frames DEF RegisterPlacementDoc
<1>4. y.state = "Resident"
  OBVIOUS
<1>5. next = [disk EXCEPT !.placements = next.placements]
  BY <1>2 DEF RegisterPlacementDoc, SetPlacement, Document
<1> HIDE DEF next, y
<1>6. /\ disk'.transfers = disk.transfers
      /\ disk'.assignments = disk.assignments
      /\ disk'.placements = next.placements \/ disk'.placements = disk.placements
  BY <1>1, <1>2, <1>5 DEF CommitDocument, Document
<1>7. \A b \in Cells : /\ disk.assignments[b].generation \in Nat
                       /\ Grown(disk.assignments[b], disk'.assignments[b])
                       /\ world[b].fence \in Nat /\ world[b].fence <= world'[b].fence
  BY <1>1, <1>6, HandoffTypes, DirectoryAssumption DEF Assignment, World, Grown, FencesKept
<1>8. SagaData'
  BY <1>1, <1>3, <1>4, <1>6, <1>7, SagaStable DEF SagaInv
<1>9. SagaControl'
  BY <1>1, <1>6 DEF SagaInv, SagaControl, CellsCurrent, TaskInv
<1> QED BY <1>8, <1>9 DEF SagaInv

(* Gameplay, which meets no transfer that is under way.                    *)
LEMMA GameplaySaga ==
    ASSUME HandoffInv, SagaInv, NEW p \in Aggregates, NEW o,
           ExecuteAsAt(p, o) \/ \E c, dst \in Cells : AdvanceCell(c, p, dst, o)
    PROVE  SagaInv'
<1>1. \E c \in Cells : \E v, x : CommitEvent(c, v, o) /\ Differs(world[c], v, p, x)
  <2>1. CASE ExecuteAsAt(p, o)
    BY <2>1, ExecuteMeans
  <2>2. CASE \E c, dst \in Cells : AdvanceCell(c, p, dst, o)
    BY <2>2, AdvanceMeans
  <2> QED BY <2>1, <2>2
<1>2. PICK c \in Cells : \E v, x : CommitEvent(c, v, o) /\ Differs(world[c], v, p, x)
  BY <1>1
<1>3. PICK v, x : CommitEvent(c, v, o) /\ Differs(world[c], v, p, x)
  BY <1>2
<1>4. /\ Ready
      /\ UNCHANGED <<disk, doc, package, receipt, stage, opened, assigned, pending, task>>
  BY Zenon DEF ExecuteAsAt, AdvanceCell, dirVars
<1>5. task = None /\ \A t \in Transfers : ~Unfinished(t)
  BY <1>4, DirectoryAssumption DEF Ready, HandoffInv, ControlInv
<1>6. \/ world' = world
      \/ world'[c] = v /\ \A b \in Cells \ {c} : world'[b] = world[b]
  BY <1>3, CommitEventFrame DEF HandoffInv, Differs
<1>7. \A b \in Cells :
          /\ world[b].fence \in Nat
          /\ world'[b].fence = world[b].fence
          /\ world'[b].reservation = world[b].reservation
          /\ world'[b].witness = world[b].witness
          /\ world'[b].boundary = world[b].boundary
  <2>1. \A b \in Cells : world[b].fence \in Nat
    BY HandoffTypes DEF World
  <2>2. CASE world' = world
    BY <2>1, <2>2
  <2>3. CASE world'[c] = v /\ \A b \in Cells \ {c} : world'[b] = world[b]
    <3>1. ASSUME NEW b \in Cells, b = c
          PROVE  /\ world'[b].fence = world[b].fence
                 /\ world'[b].reservation = world[b].reservation
                 /\ world'[b].witness = world[b].witness
                 /\ world'[b].boundary = world[b].boundary
      BY <1>3, <2>3, <3>1 DEF Differs
    <3> QED BY <2>1, <2>3, <3>1
  <2> QED BY <1>6, <2>2, <2>3
<1>8. \A b \in Cells : /\ disk.assignments[b].generation \in Nat
                       /\ Grown(disk.assignments[b], disk'.assignments[b])
  BY <1>4, HandoffTypes, DirectoryAssumption DEF Assignment, Grown, FencesKept
<1>9. SagaData'
  <2>1. \A b \in Cells : world[b].fence <= world'[b].fence /\ world'[b].fence \in Nat
    BY <1>7
  <2> QED BY <1>4, <1>5, <1>7, <1>8, <2>1, SagaStable DEF SagaInv
<1>10. SagaControl'
  <2>1. assigned \subseteq Cells /\ stage = "ready"
    BY <1>4 DEF Ready, HandoffInv, TypeOKHandoff
  <2> QED BY <1>4, <1>5, <1>7, <2>1 DEF SagaInv, SagaControl, CellsCurrent, TaskInv
<1> QED BY <1>9, <1>10 DEF SagaInv

(* handoff_player up to its artifact: what the package says is still so    *)
(* when the directory is asked to prepare the transfer.                    *)
LEMMA PersistPackageSaga ==
    ASSUME HandoffInv, SagaInv, NEW p \in Aggregates, NEW t \in Transfers, NEW o,
           PersistPackage(p, t, o)
    PROVE  SagaInv'
<1> DEFINE c == disk.placements[p].cell
           x == world[c].player[p]
           k == [player |-> p, source |-> c, destination |-> x.at,
                 sourceGen |-> disk.assignments[c].generation,
                 destGen |-> disk.assignments[x.at].generation,
                 priorGen |-> disk.placements[p].generation,
                 fence |-> world[c].fence, closure |-> x]
<1>0. ~failed => doc = disk
  BY DEF HandoffInv, ControlInv
<1>1. /\ Ready /\ doc = disk /\ x # None /\ package[t] = None
      /\ disk.placements[p].state = "Resident" /\ disk.placements[p].transfer = None
      /\ x.at # c
      /\ disk.assignments[c].state = "Assigned" /\ disk.assignments[x.at].state = "Assigned"
      /\ disk.placements[p].generation < MaxGeneration
      /\ package' = IF o = "lost" THEN package ELSE [package EXCEPT ![t] = k]
      /\ task' = IF o = "ok" THEN t ELSE None
      /\ UNCHANGED <<disk, doc, world, halt, receipt, stage, opened, assigned, pending>>
  BY <1>0, ZenonT(60) DEF PersistPackage, Ready, Present, dirVars
<1>2. /\ stage = "ready" /\ ~Known(t)
      /\ \A u \in Transfers : ~Unfinished(u)
      /\ package \in [Transfers -> Package \cup {None}]
  BY <1>1, DirectoryAssumption, Zenon DEF Ready, HandoffInv, ControlInv, TypeOKHandoff
<1>3. c \in Cells
  BY HandoffTypes DEF Placement
<1> HIDE DEF c, x
<1>4. /\ k.source = c /\ k.fence = world[c].fence /\ k.player = p
      /\ k.closure = x /\ k.priorGen = disk.placements[p].generation
      /\ k.destination = x.at
      /\ k.sourceGen = disk.assignments[c].generation
      /\ k.destGen = disk.assignments[x.at].generation
  OBVIOUS
<1> HIDE DEF k
<1>5. /\ \A u \in Transfers : package[u] # None => package'[u] = package[u]
      /\ \A u \in Transfers : package[u] = None /\ package'[u] # None =>
             u = t /\ package'[u] = k
      /\ o = "ok" => package'[t] = k
  BY <1>1, <1>2
<1>6. SagaData'
  <2>1. \A b \in Cells : /\ disk.assignments[b].generation \in Nat /\ world[b].fence \in Nat
                         /\ Grown(disk.assignments[b], disk'.assignments[b])
    BY <1>1, HandoffTypes, DirectoryAssumption DEF Assignment, World, Grown, FencesKept
  <2>2. \A b \in Cells : world'[b].fence \in Nat /\ world[b].fence <= world'[b].fence
    BY <1>1, <2>1
  <2>3. k.fence <= world'[k.source].fence
    BY <1>1, <1>3, <1>4, <2>1
  <2> QED BY <1>1, <1>2, <1>5, <2>1, <2>2, <2>3, SagaStable DEF SagaInv
<1>7. CellsCurrent'
  BY <1>1, <1>2 DEF SagaInv, SagaControl, CellsCurrent
<1>8. TaskInv'
  <2> SUFFICES ASSUME o = "ok" PROVE Starting(t)' /\ ~Known(t)'
    BY <1>1 DEF TaskInv
  <2>1. PrepareTransferOk(disk, p, disk.placements[p].generation, t, x.at)
    BY <1>1, <1>2 DEF PrepareTransferOk, Known, c
  <2>2. package'[t] = k
    BY <1>5
  <2> QED BY <1>1, <1>2, <1>4, <2>1, <2>2, Zenon DEF Starting, Known, c, x
<1> QED BY <1>6, <1>7, <1>8 DEF SagaInv, SagaControl

(* The receipt of the quarantine is kept.                                  *)
LEMMA PersistReceiptSaga ==
    ASSUME HandoffInv, SagaInv, NEW t \in Transfers, NEW o, PersistQuarantineReceipt(t, o)
    PROVE  SagaInv'
<1> DEFINE r == disk.transfers[t]
           issued == world[r.destination].boundary[t]["Quarantine"].receipt
<1>1. /\ task = t /\ ~failed /\ doc = disk
      /\ r.phase \in PreCommit /\ Seen(r.destination, t, "Quarantine")
  BY StepMeans DEF PersistQuarantineReceipt, HandoffInv, ControlInv
<1>2. Unfinished(t)
  BY <1>1 DEF Unfinished, PreCommit, Terminal
<1>3. /\ receipt' = IF o = "lost" THEN receipt ELSE [receipt EXCEPT ![t] = issued]
      /\ Result(o) /\ TaskAfter(o, FALSE)
      /\ UNCHANGED <<disk, world, halt, package, stage, assigned>>
  BY <1>1, Zenon DEF PersistQuarantineReceipt, dirVars
<1>4. r \in Transfer /\ Saga(t) /\ Known(t)
  BY <1>2, SagaFacts DEF SagaInv
<1>5. Event(r.destination, t, "Quarantine") # 0
  BY <1>1 DEF Seen, Event
<1>6. receipt \in [Transfers -> Receipts \cup {None}]
  BY DEF HandoffInv, TypeOKHandoff
<1> HIDE DEF issued
<1>7. /\ receipt'[t] \in {receipt[t], issued}
      /\ \A u \in Transfers \ {t} : receipt'[u] = receipt[u]
  BY <1>3, <1>6
<1>8. issued # None
  BY <1>4, <1>5 DEF Saga, Receipted, issued
<1>9. Receipted(t)'
  <2>1. receipt'[t] # None => receipt'[t] = issued
    BY <1>4, <1>7 DEF Saga, Receipted, issued
  <2>2. r.receipt # None => receipt'[t] # None
    BY <1>4, <1>7, <1>8 DEF Saga, Receipted
  <2> QED BY <1>3, <1>4, <1>5, <2>1, <2>2, ZenonT(60) DEF Saga, Receipted, Event, issued
<1>10. Saga(t)'
  BY <1>3, <1>4, <1>9, Zenon DEF Saga, Bound, Issued, IssuedAt, Copied, Advanced, Event
<1>11. SagaData'
  <2>1. \A c \in Cells : world[c].fence \in Nat
    BY HandoffTypes DEF World
  <2>2. /\ r.source \in Cells /\ r.destination \in Cells /\ r.aggregate \in Aggregates
        /\ Known(t)' /\ Unfinished(t)'
    BY <1>2, <1>3, <1>4 DEF Transfer, Known, Unfinished
  <2>3. \A u \in Transfers \ {t} : ~Unfinished(u)
    BY <1>2 DEF HandoffInv, DataInv, OneAtATime
  <2>4. \A c \in Cells : world'[c].fence \in Nat /\ world[c].fence <= world'[c].fence
    BY <1>3, <2>1
  <2> QED BY <1>3, <1>7, <1>10, <2>2, <2>3, <2>4, SagaAlone DEF SagaInv
<1>12. SagaControl'
  <2>1. task' \in {t, None} /\ Unfinished(t)' /\ Known(t)'
    BY <1>1, <1>2, <1>3, <1>4 DEF TaskAfter, Unfinished, Known
  <2>2. CellsCurrent'
    BY <1>1, <1>3 DEF SagaInv, SagaControl, CellsCurrent, Result
  <2> QED BY <2>1, <2>2 DEF SagaControl, TaskInv
<1> QED BY <1>11, <1>12 DEF SagaInv

(* A cell event of the transfer that the coordinator works on: its cell is *)
(* held under the current assignment, so that the event is one of its      *)
(* generation.                                                             *)
Logged(c, t, kind, e, rcpt) ==
    /\ Landed(c, t, kind, e)
    /\ world'[c].boundary[t][kind].receipt = rcpt
    /\ world'[c].boundary[t][kind].fence = world[c].fence
    /\ \A b \in Cells, n \in Kinds :
          b # c \/ n # kind => world'[b].boundary[t][n] = world[b].boundary[t][n]
    /\ \A b \in Cells : world'[b].fence = world[b].fence
    /\ UNCHANGED <<package, receipt>>

AtSource == {"Prepare", "Export", "AbortSource"}

(* The cells of the transfer at work run under the fence of the assignment *)
(* in force, so an event they write now names its generation.              *)
LEMMA HeldCurrent ==
    ASSUME HandoffInv, SagaInv, NEW t \in Transfers, Unfinished(t), task = t, NEW c \in Cells
    PROVE  /\ assigned = Cells
           /\ disk.assignments[c].fence = world[c].fence
           /\ world[c].fence # 0
           /\ disk.assignments[c].generation \in Generations
           /\ disk.assignments[c].history[disk.assignments[c].generation] = world[c].fence
<1>1. assigned = Cells
  BY DirectoryAssumption DEF HandoffInv, ControlInv, TypeOKHandoff, SagaInv, SagaControl,
     CellsCurrent
<1>2. /\ disk.assignments[c].state = "Assigned"
      /\ disk.assignments[c].fence = world[c].fence
  BY <1>1 DEF SagaInv, SagaControl, CellsCurrent
<1>3. disk.assignments[c] \in Assignment /\ ValidAssignment(disk.assignments[c])
  BY HandoffTypes DEF HandoffInv, DirectoryFull, DocFull, DocInv
<1>4. disk.assignments[c].fence # 0 /\ disk.assignments[c].generation \in Generations
  BY <1>2, <1>3, DirectoryAssumption DEF ValidAssignment, Assignment, Generations
<1>5. disk.assignments[c].history[disk.assignments[c].generation] = disk.assignments[c].fence
  BY <1>3, <1>4, DirectoryAssumption DEF ValidAssignment, ValidHistory, Generations
<1> QED BY <1>1, <1>2, <1>4, <1>5

(* A cell event of the transfer at work keeps the saga when the world it   *)
(* leaves agrees with the record.                                          *)
LEMMA CellStepSaga ==
    ASSUME HandoffInv, SagaInv, NEW t \in Transfers, Unfinished(t),
           NEW s \in Cells, NEW d \in Cells, s # d, NEW p \in Aggregates, NEW k,
           Parties(t, s, d, p, k), task = t, ~failed,
           NEW kind \in Kinds, NEW c \in Cells, c = IF kind \in AtSource THEN s ELSE d,
           ~Seen(c, t, kind),
           NEW e, Staged(world[c], e), NEW rcpt \in Receipts \cup {None},
           \A u \in Transfers : u # t \/ c # d => e.reservation[u] = world[c].reservation[u],
           NEW o, CellStep(c, Recorded(e, t, kind, rcpt), o),
           Event(c, t, kind) = 0 /\ Logged(c, t, kind, e, rcpt) => Copied(t)' /\ Receipted(t)'
    PROVE  SagaInv'
<1> DEFINE w == Recorded(e, t, kind, rcpt)
           r == disk.transfers[t]
<1>1. CommitEvent(c, w, o) /\ world[c].sequence + 1 \in Events /\ Event(c, t, kind) = 0
  BY DEF CellStep, CommitEvent, Seen, Event
<1>2. w \in World
  <2>1. e \in World /\ e.sequence + 1 \in Events
    BY <1>1 DEF Staged
  <2> QED BY <2>1, RecordedFields
<1>3. TypeOKHandoff /\ DataInv
  BY DEF HandoffInv
<1> HIDE DEF w
<1>4. \/ world' = world
      \/ world'[c] = w /\ \A b \in Cells \ {c} : world'[b] = world[b]
  BY <1>1, <1>2, <1>3, CommitEventFrame
<1>5. UNCHANGED <<disk, package, receipt, stage, assigned>> /\ TaskAfter(o, FALSE) /\ Result(o)
  BY Zenon DEF CellStep, dirVars
<1>6. /\ r \in Transfer /\ Saga(t) /\ Known(t)
      /\ r.source = s /\ r.destination = d /\ r.aggregate = p
  BY SagaFacts DEF SagaInv, Parties
<1>7. \A b \in Cells : world[b].fence \in Nat /\ world[b].fence <= world[b].fence
  BY HandoffTypes DEF World
<1>8. ASSUME world'[c] = w, \A b \in Cells \ {c} : world'[b] = world[b]
      PROVE  Logged(c, t, kind, e, rcpt)
  <2>1. world'[c] = Recorded(e, t, kind, rcpt)
    BY <1>8 DEF w
  <2>2. /\ e \in World /\ e.sequence + 1 \in Events
        /\ e.fence = world[c].fence /\ e.boundary = world[c].boundary
    BY <1>1 DEF Staged
  <2>3. /\ world'[c].fence = world[c].fence
        /\ world'[c].lock = e.lock /\ world'[c].player = e.player
        /\ world'[c].reservation = e.reservation /\ world'[c].witness = e.witness
    BY <2>1, <2>2, RecordedFields
  <2>4. /\ world'[c].boundary[t][kind].event # 0
        /\ world'[c].boundary[t][kind].fence = world[c].fence
        /\ world'[c].boundary[t][kind].receipt = rcpt
    BY <2>1, <2>2, RecordedFields
  <2>5. \A u \in Transfers, n \in Kinds :
            u # t \/ n # kind => world'[c].boundary[u][n] = world[c].boundary[u][n]
    BY <2>1, <2>2, RecordedFields
  <2>6. \A b \in Cells, n \in Kinds :
            b # c \/ n # kind => world'[b].boundary[t][n] = world[b].boundary[t][n]
    BY <1>8, <2>5
  <2>7. \A b \in Cells : world'[b].fence = world[b].fence
    BY <1>8, <2>3
  <2>8. Landed(c, t, kind, e)
    BY <1>5, <1>8, <2>3, <2>4, <2>6 DEF Landed, Event
  <2> QED BY <1>5, <2>4, <2>6, <2>7, <2>8 DEF Logged
<1>9. \A b \in Cells : world'[b].fence = world[b].fence
  BY <1>4, <1>8 DEF Logged
<1>10. SagaData'
  <2>1. CASE world' = world
    BY <1>5, <2>1, SagaSame DEF SagaInv
  <2>2. CASE world'[c] = w /\ \A b \in Cells \ {c} : world'[b] = world[b]
    <3>1. Logged(c, t, kind, e, rcpt)
      BY <1>8, <2>2
    <3>2. Copied(t)' /\ Receipted(t)'
      BY <1>1, <3>1
    <3>3. Bound(t)' /\ Advanced(t)'
      BY <1>5, <1>6 DEF Saga, Bound, Advanced
    <3>4. Issued(t)'
      <4> DEFINE IssuedLater(b, n, min) ==
                   world'[b].boundary[t][n].event # 0 =>
                       /\ world'[b].boundary[t][n].fence # 0
                       /\ \E g \in Generations :
                             /\ g >= min
                             /\ disk'.assignments[b].history[g] = world'[b].boundary[t][n].fence
      <4>1. /\ r.sourceGen <= disk.assignments[s].generation
            /\ r.destGen <= disk.assignments[d].generation
        BY <1>6 DEF Saga, Bound
      <4>2. ASSUME NEW b \in Cells, NEW n \in Kinds, NEW min, IssuedAt(b, t, n, min),
                   b = c /\ n = kind => min <= disk.assignments[c].generation
            PROVE  IssuedLater(b, n, min)
        <5>1. CASE b = c /\ n = kind
          <6>1. world'[c].boundary[t][kind].fence = world[c].fence
            BY <3>1 DEF Logged
          <6>2. /\ world[c].fence # 0
                /\ disk.assignments[c].generation \in Generations
                /\ disk.assignments[c].history[disk.assignments[c].generation] = world[c].fence
            BY HeldCurrent
          <6>3. disk.assignments[c].generation >= min
            BY <4>2, <5>1
          <6> QED BY <1>5, <5>1, <6>1, <6>2, <6>3 DEF IssuedLater
        <5>2. CASE b # c \/ n # kind
          BY <1>5, <3>1, <4>2, <5>2 DEF Logged, IssuedAt, IssuedLater, Event
        <5> QED BY <5>1, <5>2
      <4>3. ASSUME NEW n \in AtSource PROVE IssuedAt(s, t, n, r.sourceGen)'
        <5>1. n \in Kinds /\ IssuedAt(s, t, n, r.sourceGen)
          BY <1>6 DEF Saga, Issued, AtSource, Kinds
        <5>2. c = s \/ n # kind
          OBVIOUS
        <5>3. s = c /\ n = kind => r.sourceGen <= disk.assignments[c].generation
          BY <4>1, <5>2
        <5>4. IssuedLater(s, n, r.sourceGen)
          BY <4>2, <5>1, <5>3
        <5> QED BY <1>5, <5>4 DEF IssuedAt, IssuedLater, Event
      <4>4. ASSUME NEW n \in {"Quarantine", "Import", "AbortDestination"}
            PROVE  IssuedAt(d, t, n, r.destGen)'
        <5>1. n \in Kinds /\ IssuedAt(d, t, n, r.destGen)
          BY <1>6 DEF Saga, Issued, Kinds
        <5>2. c = d \/ n # kind
          BY DEF AtSource
        <5>3. d = c /\ n = kind => r.destGen <= disk.assignments[c].generation
          BY <4>1, <5>2
        <5>4. IssuedLater(d, n, r.destGen)
          BY <4>2, <5>1, <5>3
        <5> QED BY <1>5, <5>4 DEF IssuedAt, IssuedLater, Event
      <4> QED BY <1>5, <1>6, <4>3, <4>4 DEF Issued, AtSource
    <3>5. Saga(t)'
      BY <3>2, <3>3, <3>4 DEF Saga
    <3>6. \A u \in Transfers \ {t} : ~Unfinished(u)
      BY DEF HandoffInv, DataInv, OneAtATime
    <3>7. /\ Known(t)' /\ Unfinished(t)'
          /\ disk'.transfers = disk.transfers /\ disk'.placements = disk.placements
          /\ UNCHANGED <<package, receipt>>
      BY <1>5, <1>6 DEF Known, Unfinished
    <3>8. \A b \in Cells :
              /\ world'[b].fence \in Nat /\ world[b].fence <= world'[b].fence
              /\ \A u \in Transfers : u # t \/ b # d =>
                     world'[b].reservation[u] = world[b].reservation[u]
      BY <1>7, <1>9, <3>1 DEF Logged, Landed
    <3> QED BY <1>6, <3>5, <3>6, <3>7, <3>8, SagaAlone DEF SagaInv
  <2> QED BY <1>4, <2>1, <2>2
<1>11. CellsCurrent'
  <2>1. stage # "ready" /\ ~failed' => \A b \in Cells : halt'[b] = "no"
    BY <1>1, <1>5 DEF CommitEvent, Result, SagaInv, SagaControl, CellsCurrent
  <2>2. assigned \subseteq Cells
    BY DEF HandoffInv, TypeOKHandoff
  <2> QED BY <1>5, <1>9, <2>1, <2>2 DEF SagaInv, SagaControl, CellsCurrent
<1>12. TaskInv'
  BY <1>5, <1>6 DEF TaskAfter, TaskInv, Known, Unfinished
<1> QED BY <1>10, <1>11, <1>12 DEF SagaInv, SagaControl

(* What most events leave as it was.                                       *)
LEMMA CopiedSame ==
    ASSUME NEW t, NEW s, NEW d, NEW p, NEW k, Parties(t, s, d, p, k), Copied(t),
           UNCHANGED <<disk, package>>,
           \A b \in {s, d} : /\ world'[b].player[p] = world[b].player[p]
                             /\ world'[b].witness[t] = world[b].witness[t],
           Event(s, t, "Export")' = Event(s, t, "Export"),
           Event(d, t, "Import")' = Event(d, t, "Import")
    PROVE  Copied(t)'
BY DEF Copied, Parties

(* What the receipts say stays when the destination's reservation and      *)
(* boundaries do.                                                          *)
LEMMA ReceiptedSame ==
    ASSUME NEW t, NEW s, NEW d, NEW p, NEW k, Parties(t, s, d, p, k), Receipted(t),
           UNCHANGED <<disk, receipt>>,
           world'[d].fence = world[d].fence,
           world'[d].reservation[t] = world[d].reservation[t],
           \A n \in {"Quarantine", "Import", "AbortDestination"} :
               world'[d].boundary[t][n] = world[d].boundary[t][n]
    PROVE  Receipted(t)'
BY Zenon DEF Receipted, Parties, Event

(* The lock at the source: the copy stays the packaged one.                *)
LEMMA PreparedSaga ==
    ASSUME HandoffInv, SagaInv, NEW t \in Transfers, NEW o, CommitPlayerTransferPrepared(t, o)
    PROVE  SagaInv'
<1>1. LET r == disk.transfers[t] IN
      /\ task = t /\ ~failed /\ doc = disk
      /\ r.phase \in PreCommit /\ ~Seen(r.source, t, "Prepare")
  BY StepMeans DEF CommitPlayerTransferPrepared, HandoffInv, ControlInv
<1>2. Unfinished(t)
  BY <1>1 DEF Unfinished, PreCommit, Terminal
<1>3. PICK s \in Cells, d \in Cells, p \in Aggregates, k \in Package :
          s # d /\ Parties(t, s, d, p, k)
  BY <1>2, PartiesKnown
<1> DEFINE w == world[s]
           e == StagePreparedLock(w, t, k)
<1>4. CellStep(s, Recorded(e, t, "Prepare", None), o)
  BY <1>1, <1>3 DEF CommitPlayerTransferPrepared, Parties
<1>5. w \in World /\ Saga(t)
  BY <1>2, HandoffTypes, SagaFacts DEF SagaInv
<1>6. /\ Staged(w, e)
      /\ e.player = w.player /\ e.reservation = w.reservation /\ e.witness = w.witness
  BY <1>5, LockFields, ZenonT(60)
<1> HIDE DEF e
<1>7. ASSUME Logged(s, t, "Prepare", e, None)
      PROVE  Copied(t)' /\ Receipted(t)'
  <2>1. \A b \in Cells : /\ world'[b].player = world[b].player
                         /\ world'[b].witness = world[b].witness
                         /\ world'[b].reservation = world[b].reservation
                         /\ world'[b].fence = world[b].fence
    BY <1>6, <1>7 DEF Logged, Landed
  <2>2. \A b \in Cells, n \in Kinds \ {"Prepare"} :
            world'[b].boundary[t][n] = world[b].boundary[t][n]
    BY <1>7 DEF Logged
  <2>3. UNCHANGED <<disk, package, receipt>>
    BY <1>7 DEF Logged, Landed
  <2>4. Copied(t)'
    BY <1>3, <1>5, <2>1, <2>2, <2>3, CopiedSame DEF Saga, Event, Kinds
  <2>5. Receipted(t)'
    BY <1>3, <1>5, <2>1, <2>2, <2>3, ReceiptedSame DEF Saga, Kinds
  <2> QED BY <2>4, <2>5
<1>8. /\ task = t /\ ~failed /\ ~Seen(s, t, "Prepare")
      /\ "Prepare" \in Kinds /\ "Prepare" \in AtSource
      /\ \A u \in Transfers : e.reservation[u] = world[s].reservation[u]
  BY <1>1, <1>3, <1>6 DEF Kinds, AtSource, Parties
<1> QED BY <1>2, <1>3, <1>4, <1>6, <1>7, <1>8, CellStepSaga, Zenon

(* The quarantine issues the receipt that its reservation holds.           *)
LEMMA QuarantinedSaga ==
    ASSUME HandoffInv, SagaInv, NEW t \in Transfers, NEW o, CommitPlayerTransferQuarantined(t, o)
    PROVE  SagaInv'
<1>1. LET r == disk.transfers[t] IN
      /\ task = t /\ ~failed /\ doc = disk
      /\ r.phase \in PreCommit /\ ~Seen(r.destination, t, "Quarantine")
  BY StepMeans DEF CommitPlayerTransferQuarantined, HandoffInv, ControlInv
<1>2. Unfinished(t)
  BY <1>1 DEF Unfinished, PreCommit, Terminal
<1>3. PICK s \in Cells, d \in Cells, p \in Aggregates, k \in Package :
          s # d /\ Parties(t, s, d, p, k)
  BY <1>2, PartiesKnown
<1> DEFINE w == world[d]
           rcpt == ReceiptFor(w, t)
           e == StageQuarantine(w, t)
<1>4. CellStep(d, Recorded(e, t, "Quarantine", rcpt), o)
  BY <1>1, <1>3 DEF CommitPlayerTransferQuarantined, Parties
<1>5. w \in World /\ Saga(t) /\ Ledger(t) /\ rcpt \in Receipts
  BY <1>2, <1>3, HandoffTypes, SagaFacts, ReceiptIssued DEF SagaInv, Parties
<1>6. /\ Staged(w, e)
      /\ e.player = w.player /\ e.witness = w.witness
      /\ e.reservation = [w.reservation EXCEPT ![t] = rcpt]
  BY <1>3, <1>5, QuarantineFields
<1>9. e.reservation[t] = rcpt
      /\ \A u \in Transfers \ {t} : e.reservation[u] = w.reservation[u]
  BY <1>5, <1>6 DEF World
<1> HIDE DEF e
<1>7. ASSUME Event(d, t, "Quarantine") = 0, Logged(d, t, "Quarantine", e, rcpt)
      PROVE  Copied(t)' /\ Receipted(t)'
  <2>1. \A b \in Cells : /\ world'[b].player = world[b].player
                         /\ world'[b].witness = world[b].witness
                         /\ world'[b].fence = world[b].fence
    BY <1>6, <1>7 DEF Logged, Landed
  <2>2. \A b \in Cells, n \in Kinds \ {"Quarantine"} :
            world'[b].boundary[t][n] = world[b].boundary[t][n]
    BY <1>7 DEF Logged
  <2>3. UNCHANGED <<disk, package, receipt>>
    BY <1>7 DEF Logged, Landed
  <2>4. Copied(t)'
    BY <1>3, <1>5, <2>1, <2>2, <2>3, CopiedSame DEF Saga, Event, Kinds
  <2>5. /\ world'[d].reservation[t] = rcpt
        /\ Event(d, t, "Quarantine")' # 0
        /\ world'[d].boundary[t]["Quarantine"].receipt = rcpt
    BY <1>7, <1>9 DEF Logged, Landed
  <2>6. /\ disk.transfers[t].destination = d /\ disk.transfers[t].phase \in PreCommit
        /\ Receipted(t)
    BY <1>1, <1>3, <1>5 DEF Parties, Saga
  <2>7. receipt[t] = None /\ disk.transfers[t].receipt = None /\ w.reservation[t] = None
    BY <1>7, <2>6 DEF Receipted
  <2>8. rcpt[1] = w.fence /\ rcpt # None /\ w.fence \in Nat
    <3>1. rcpt = <<w.fence, w.sequence>>
      BY <2>7 DEF ReceiptFor
    <3> QED BY <1>5, <3>1, HandoffAssumption, DirectoryAssumption DEF World
  <2>9. Event(d, t, "Import")' = 0 /\ Event(d, t, "AbortDestination")' = 0
    <3>1. Event(d, t, "Import") = 0 /\ Event(d, t, "AbortDestination") = 0
      BY <1>5, <2>6 DEF Ledger, PreCommit, PostCommit
    <3> QED BY <2>2, <3>1 DEF Event, Kinds
  <2> HIDE DEF rcpt, w
  <2>10. Receipted(t)'
    BY <2>1, <2>3, <2>5, <2>6, <2>7, <2>8, <2>9 DEF Receipted, PreCommit, w
  <2> QED BY <2>4, <2>10
<1>8. /\ task = t /\ ~failed /\ ~Seen(d, t, "Quarantine")
      /\ "Quarantine" \in Kinds /\ "Quarantine" \notin AtSource
  BY <1>1, <1>3 DEF Kinds, AtSource, Parties
<1> HIDE DEF rcpt
<1> QED BY <1>2, <1>3, <1>4, <1>5, <1>6, <1>7, <1>8, <1>9, CellStepSaga, Zenon

(* The import brings the packaged copy and uses the reservation up.        *)
LEMMA ImportedSaga ==
    ASSUME HandoffInv, SagaInv, NEW t \in Transfers, NEW o, CommitPlayerTransferImported(t, o)
    PROVE  SagaInv'
<1>1. LET r == disk.transfers[t] IN
      /\ task = t /\ ~failed /\ doc = disk
      /\ r.phase = "Committed" /\ ~Seen(r.destination, t, "Import")
  BY StepMeans DEF CommitPlayerTransferImported, HandoffInv, ControlInv
<1>2. Unfinished(t)
  BY <1>1 DEF Unfinished, PreCommit, Terminal
<1>3. PICK s \in Cells, d \in Cells, p \in Aggregates, k \in Package :
          s # d /\ Parties(t, s, d, p, k)
  BY <1>2, PartiesKnown
<1> DEFINE w == world[d]
           rcpt == receipt[t]
           e == StageImport(w, t, k)
<1>4. /\ k.player = p /\ rcpt # None /\ disk.transfers[t].receipt = rcpt
      /\ CellStep(d, Recorded(e, t, "Import", rcpt), o)
  BY <1>1, <1>3 DEF CommitPlayerTransferImported, Parties, StageImportOk, Matches
<1>5. w \in World /\ Saga(t) /\ Ledger(t) /\ rcpt \in Receipts \cup {None}
  BY <1>2, <1>3, HandoffTypes, SagaFacts DEF SagaInv, Parties, HandoffInv, TypeOKHandoff
<1>6. /\ Staged(w, e)
      /\ e.player = [w.player EXCEPT ![p] = k.closure]
      /\ e.reservation = [w.reservation EXCEPT ![t] = None]
      /\ e.witness = [w.witness EXCEPT ![t] = "Import"]
  <2>1. w \in World
    BY <1>5
  <2> HIDE DEF w
  <2> QED BY <1>4, <2>1, ImportFields
<1> HIDE DEF e
<1>7. /\ e.player[p] = k.closure /\ e.reservation[t] = None /\ e.witness[t] = "Import"
      /\ \A u \in Transfers \ {t} : e.reservation[u] = w.reservation[u]
  BY <1>5, <1>6 DEF World
<1> HIDE DEF rcpt
<1>8. ASSUME Logged(d, t, "Import", e, rcpt)
      PROVE  Copied(t)' /\ Receipted(t)'
  <2>1. /\ \A b \in Cells \ {d} : world'[b] = world[b]
        /\ world'[d].fence = world[d].fence
        /\ world'[d].player[p] = k.closure /\ world'[d].witness[t] = "Import"
        /\ world'[d].reservation[t] = None
        /\ Event(d, t, "Import")' # 0
        /\ world'[d].boundary[t]["Import"].receipt = rcpt
    BY <1>7, <1>8 DEF Logged, Landed
  <2>2. \A n \in Kinds \ {"Import"} : world'[d].boundary[t][n] = world[d].boundary[t][n]
    BY <1>8 DEF Logged
  <2>3. UNCHANGED <<disk, package, receipt>>
    BY <1>8 DEF Logged, Landed
  <2>4. /\ disk.transfers[t].source = s /\ disk.transfers[t].destination = d
        /\ disk.transfers[t].aggregate = p /\ package[t] = k
    BY <1>3 DEF Parties
  <2>5. Copied(t)'
    <3>1. world'[s] = world[s] /\ Event(s, t, "Export")' = Event(s, t, "Export")
      BY <1>3, <2>1 DEF Event
    <3>2. Copied(t)
      BY <1>5 DEF Saga
    <3> QED BY <2>1, <2>3, <2>4, <3>1, <3>2 DEF Copied
  <2>6. Receipted(t)'
    <3>1. Event(d, t, "Quarantine")' = Event(d, t, "Quarantine")
          /\ world'[d].boundary[t]["Quarantine"] = world[d].boundary[t]["Quarantine"]
      BY <2>2 DEF Event, Kinds
    <3>2. Receipted(t)
      BY <1>5 DEF Saga
    <3> QED BY <1>1, <1>4, <2>1, <2>3, <2>4, <3>1, <3>2 DEF Receipted, rcpt
  <2> QED BY <2>5, <2>6
<1>9. /\ task = t /\ ~failed /\ ~Seen(d, t, "Import")
      /\ "Import" \in Kinds /\ "Import" \notin AtSource
  BY <1>1, <1>3 DEF Kinds, AtSource, Parties
<1> QED BY <1>2, <1>3, <1>4, <1>5, <1>6, <1>7, <1>8, <1>9, CellStepSaga, ZenonT(60)

(* The export takes away a copy that the destination has.                  *)
LEMMA ExportedSaga ==
    ASSUME HandoffInv, SagaInv, NEW t \in Transfers, NEW o, CommitPlayerTransferExported(t, o)
    PROVE  SagaInv'
<1>1. LET r == disk.transfers[t] IN
      /\ task = t /\ ~failed /\ doc = disk
      /\ r.phase = "Imported" /\ ~Seen(r.source, t, "Export")
  BY StepMeans DEF CommitPlayerTransferExported, HandoffInv, ControlInv
<1>2. Unfinished(t)
  BY <1>1 DEF Unfinished, PreCommit, Terminal
<1>3. PICK s \in Cells, d \in Cells, p \in Aggregates, k \in Package :
          s # d /\ Parties(t, s, d, p, k)
  BY <1>2, PartiesKnown
<1> DEFINE w == world[s]
           e == StageExport(w, t, k)
<1>4. CellStep(s, Recorded(e, t, "Export", None), o)
  BY <1>1, <1>3 DEF CommitPlayerTransferExported, Parties
<1>5. w \in World /\ Saga(t)
  BY <1>2, HandoffTypes, SagaFacts DEF SagaInv
<1>6. /\ Staged(w, e)
      /\ e.reservation = w.reservation
      /\ e.witness = [w.witness EXCEPT ![t] = "Export"]
  <2>1. w \in World
    BY <1>5
  <2> HIDE DEF w
  <2> QED BY <2>1, ExportFields
<1> HIDE DEF e
<1>7. e.witness[t] = "Export"
  BY <1>5, <1>6 DEF World
<1>8. ASSUME Logged(s, t, "Export", e, None)
      PROVE  Copied(t)' /\ Receipted(t)'
  <2>1. /\ \A b \in Cells \ {s} : world'[b] = world[b]
        /\ world'[s].witness[t] = "Export"
        /\ Event(s, t, "Export")' # 0
    BY <1>7, <1>8 DEF Logged, Landed
  <2>2. world'[d] = world[d]
    BY <1>3, <2>1
  <2>3. UNCHANGED <<disk, package, receipt>>
    BY <1>8 DEF Logged, Landed
  <2>4. /\ disk.transfers[t].source = s /\ disk.transfers[t].destination = d
        /\ disk.transfers[t].aggregate = p /\ package[t] = k
    BY <1>3 DEF Parties
  <2>5. Copied(t)'
    BY <1>5, <2>1, <2>2, <2>3, <2>4 DEF Saga, Copied, Event
  <2>6. Receipted(t)'
    BY <1>3, <1>5, <2>2, <2>3, ReceiptedSame DEF Saga
  <2> QED BY <2>5, <2>6
<1>9. /\ task = t /\ ~failed /\ ~Seen(s, t, "Export")
      /\ "Export" \in Kinds /\ "Export" \in AtSource
      /\ \A u \in Transfers : e.reservation[u] = world[s].reservation[u]
  BY <1>1, <1>3, <1>6 DEF Kinds, AtSource, Parties
<1> QED BY <1>2, <1>3, <1>4, <1>6, <1>8, <1>9, CellStepSaga

(* The abort at the source unlocks the copy, which is still the packaged   *)
(* one.                                                                    *)
LEMMA AbortedSourceSaga ==
    ASSUME HandoffInv, SagaInv, NEW t \in Transfers, NEW o,
           CommitPlayerTransferAborted(t, "Source", o)
    PROVE  SagaInv'
<1>1. LET r == disk.transfers[t] IN
      /\ task = t /\ ~failed /\ doc = disk
      /\ r.phase = "Aborting" /\ ~Seen(r.source, t, "AbortSource")
  BY StepMeans DEF CommitPlayerTransferAborted, HandoffInv, ControlInv
<1>2. Unfinished(t)
  BY <1>1 DEF Unfinished, PreCommit, Terminal
<1>3. PICK s \in Cells, d \in Cells, p \in Aggregates, k \in Package :
          s # d /\ Parties(t, s, d, p, k)
  BY <1>2, PartiesKnown
<1> DEFINE w == world[s]
           e == StageAbortedSource(w, k)
<1>4. CellStep(s, Recorded(e, t, "AbortSource", None), o)
  BY <1>1, <1>3 DEF CommitPlayerTransferAborted, Parties, RoleCell
<1>5. w \in World /\ Saga(t)
  BY <1>2, HandoffTypes, SagaFacts DEF SagaInv
<1>6. /\ Staged(w, e)
      /\ e.player = w.player /\ e.reservation = w.reservation /\ e.witness = w.witness
  BY <1>5, UnlockFields, Zenon
<1> HIDE DEF e
<1>7. ASSUME Logged(s, t, "AbortSource", e, None)
      PROVE  Copied(t)' /\ Receipted(t)'
  <2>1. \A b \in Cells : /\ world'[b].player = world[b].player
                         /\ world'[b].witness = world[b].witness
                         /\ world'[b].reservation = world[b].reservation
                         /\ world'[b].fence = world[b].fence
    BY <1>6, <1>7 DEF Logged, Landed
  <2>2. \A b \in Cells, n \in Kinds \ {"AbortSource"} :
            world'[b].boundary[t][n] = world[b].boundary[t][n]
    BY <1>7 DEF Logged
  <2>3. UNCHANGED <<disk, package, receipt>>
    BY <1>7 DEF Logged, Landed
  <2>4. Copied(t)'
    BY <1>3, <1>5, <2>1, <2>2, <2>3, CopiedSame DEF Saga, Event, Kinds
  <2>5. Receipted(t)'
    BY <1>3, <1>5, <2>1, <2>2, <2>3, ReceiptedSame DEF Saga, Kinds
  <2> QED BY <2>4, <2>5
<1>8. /\ task = t /\ ~failed /\ ~Seen(s, t, "AbortSource")
      /\ "AbortSource" \in Kinds /\ "AbortSource" \in AtSource
      /\ \A u \in Transfers : e.reservation[u] = world[s].reservation[u]
  BY <1>1, <1>3, <1>6 DEF Kinds, AtSource, Parties
<1> QED BY <1>2, <1>3, <1>4, <1>6, <1>7, <1>8, CellStepSaga

(* The abort at the destination gives the reservation up.                  *)
LEMMA AbortedDestinationSaga ==
    ASSUME HandoffInv, SagaInv, NEW t \in Transfers, NEW o,
           CommitPlayerTransferAborted(t, "Destination", o)
    PROVE  SagaInv'
<1>1. LET r == disk.transfers[t] IN
      /\ task = t /\ ~failed /\ doc = disk
      /\ r.phase = "Aborting" /\ ~Seen(r.destination, t, "AbortDestination")
  BY StepMeans DEF CommitPlayerTransferAborted, HandoffInv, ControlInv
<1>2. Unfinished(t)
  BY <1>1 DEF Unfinished, PreCommit, Terminal
<1>3. PICK s \in Cells, d \in Cells, p \in Aggregates, k \in Package :
          s # d /\ Parties(t, s, d, p, k)
  BY <1>2, PartiesKnown
<1> DEFINE w == world[d]
           e == StageAbortedDestination(w, t)
<1>4. CellStep(d, Recorded(e, t, "AbortDestination", None), o)
  BY <1>1, <1>3 DEF CommitPlayerTransferAborted, Parties, RoleCell
<1>5. w \in World /\ Saga(t)
  BY <1>2, HandoffTypes, SagaFacts DEF SagaInv
<1>6. /\ Staged(w, e)
      /\ e.player = w.player /\ e.witness = w.witness
      /\ e.reservation = [w.reservation EXCEPT ![t] = None]
  BY <1>3, <1>5, ReleaseFields
<1> HIDE DEF e
<1>7. e.reservation[t] = None
      /\ \A u \in Transfers \ {t} : e.reservation[u] = w.reservation[u]
  BY <1>5, <1>6 DEF World
<1>8. ASSUME Logged(d, t, "AbortDestination", e, None)
      PROVE  Copied(t)' /\ Receipted(t)'
  <2>1. \A b \in Cells : /\ world'[b].player = world[b].player
                         /\ world'[b].witness = world[b].witness
                         /\ world'[b].fence = world[b].fence
    BY <1>6, <1>8 DEF Logged, Landed
  <2>2. \A b \in Cells, n \in Kinds \ {"AbortDestination"} :
            world'[b].boundary[t][n] = world[b].boundary[t][n]
    BY <1>8 DEF Logged
  <2>3. UNCHANGED <<disk, package, receipt>>
    BY <1>8 DEF Logged, Landed
  <2>4. Copied(t)'
    BY <1>3, <1>5, <2>1, <2>2, <2>3, CopiedSame DEF Saga, Event, Kinds
  <2>5. /\ world'[d].reservation[t] = None
        /\ Event(d, t, "AbortDestination")' # 0
        /\ \A n \in {"Quarantine", "Import"} :
              world'[d].boundary[t][n] = world[d].boundary[t][n]
    BY <1>7, <1>8, <2>2 DEF Logged, Landed, Kinds
  <2>6. disk.transfers[t].destination = d /\ Receipted(t)
    BY <1>3, <1>5 DEF Parties, Saga
  <2>7. Receipted(t)'
    BY <2>3, <2>5, <2>6, Zenon DEF Receipted, Event
  <2> QED BY <2>4, <2>7
<1>9. /\ task = t /\ ~failed /\ ~Seen(d, t, "AbortDestination")
      /\ "AbortDestination" \in Kinds /\ "AbortDestination" \notin AtSource
  BY <1>1, <1>3 DEF Kinds, AtSource, Parties
<1> QED BY <1>2, <1>3, <1>4, <1>6, <1>7, <1>8, <1>9, CellStepSaga, Zenon

-----------------------------------------------------------------------------
(* The records of a transfer.                                              *)

(* A write that turns the record of t into n: what n says of its receipt   *)
(* and of its phase must be what the cells hold.                           *)
RecordFits(t, n, y) ==
    LET r == disk.transfers[t]
        held == world[r.destination].reservation[t]
    IN  /\ n.phase # "Absent"
        /\ n.aggregate = r.aggregate /\ n.source = r.source /\ n.destination = r.destination
        /\ n.sourceGen = r.sourceGen /\ n.destGen = r.destGen
        /\ n.priorGen = r.priorGen /\ n.package = r.package
        /\ n.phase \in Terminal => held = None /\ y.state = "Resident"
        /\ n.receipt # None => receipt[t] # None
        /\ Event(r.destination, t, "Import") # 0 => n.receipt = r.receipt
        /\ n.phase = "Aborting" => held \in {None, n.receipt}
        /\ n.phase = "Quarantined" => n.prepare # NoProof
        /\ n.phase = "Imported" => y.state = "Resident" /\ y.generation = n.resultGen

(* A write of a record that fits keeps the saga of the other transfers,    *)
(* and what the package, the receipt and the events say of this one.       *)
LEMMA RecordSagaData ==
    ASSUME HandoffInv, SagaData, NEW t \in Transfers, Unfinished(t),
           UNCHANGED <<world, package, receipt>>,
           disk'.assignments = disk.assignments,
           \A u \in Transfers \ {t} : disk'.transfers[u] = disk.transfers[u],
           \A q \in Aggregates \ {disk.transfers[t].aggregate} :
               disk'.placements[q] = disk.placements[q],
           RecordFits(t, disk'.transfers[t], disk'.placements[disk.transfers[t].aggregate])
    PROVE  SagaData'
<1> DEFINE r == disk.transfers[t]
           n == disk'.transfers[t]
           p == r.aggregate
           y == disk'.placements[p]
<1>1. r \in Transfer /\ Saga(t)
  BY SagaFacts
<1>2. /\ r.source \in Cells /\ r.destination \in Cells /\ p \in Aggregates
  BY <1>1 DEF Transfer
<1>3. /\ n.aggregate = p /\ n.source = r.source /\ n.destination = r.destination
      /\ n.sourceGen = r.sourceGen /\ n.destGen = r.destGen
      /\ n.priorGen = r.priorGen /\ n.package = r.package
      /\ n.phase # "Absent"
  BY DEF RecordFits
<1>4. ASSUME n.phase \notin Terminal
      PROVE  Saga(t)'
  <2>1. Bound(t)'
    BY <1>1, <1>3 DEF Saga, Bound, Matches
  <2>2. Issued(t)'
    <3> DEFINE Later(c, kind, min) ==
                 world'[c].boundary[t][kind].event # 0 =>
                     /\ world'[c].boundary[t][kind].fence # 0
                     /\ \E g \in Generations :
                           /\ g >= min
                           /\ disk'.assignments[c].history[g]
                                   = world'[c].boundary[t][kind].fence
    <3>1. \A c, kind, min : IssuedAt(c, t, kind, min) => Later(c, kind, min)
      BY DEF IssuedAt, Event
    <3> HIDE DEF Later
    <3>2. /\ \A kind \in {"Prepare", "Export", "AbortSource"} :
                Later(r.source, kind, r.sourceGen)
          /\ \A kind \in {"Quarantine", "Import", "AbortDestination"} :
                Later(r.destination, kind, r.destGen)
      BY <1>1, <3>1 DEF Saga, Issued
    <3>3. /\ \A kind \in {"Prepare", "Export", "AbortSource"} :
                Later(n.source, kind, n.sourceGen)
          /\ \A kind \in {"Quarantine", "Import", "AbortDestination"} :
                Later(n.destination, kind, n.destGen)
      BY <1>3, <3>2
    <3> QED BY <3>3, Zenon DEF Issued, IssuedAt, Event, Later
  <2>3. Copied(t)'
    BY <1>1, <1>3, ZenonT(60) DEF Saga, Copied, Event
  <2>4. Receipted(t)'
    BY <1>1, <1>3, Zenon DEF Saga, Receipted, Event, RecordFits
  <2>5. Advanced(t)'
    BY <1>3 DEF Advanced, RecordFits
  <2> QED BY <2>1, <2>2, <2>3, <2>4, <2>5 DEF Saga
<1>5. Known(t)' /\ (Unfinished(t)' <=> n.phase \notin Terminal)
  BY <1>3 DEF Known, Unfinished
<1>6. ~Unfinished(t)' => world'[r.destination].reservation[t] = None /\ y.state = "Resident"
  BY <1>5 DEF RecordFits
<1>7. \A u \in Transfers \ {t} : ~Unfinished(u)
  BY DEF HandoffInv, DataInv, OneAtATime
<1>8. \A c \in Cells : /\ world'[c] = world[c]
                       /\ world'[c].fence \in Nat /\ world[c].fence <= world'[c].fence
  <2>1. \A c \in Cells : world[c].fence \in Nat
    BY HandoffTypes DEF World
  <2> QED BY <2>1
<1> QED BY <1>2, <1>3, <1>4, <1>5, <1>6, <1>7, <1>8, SagaAlone

(* A step of the reconciliation that writes the record n, the last one     *)
(* when n is terminal.                                                     *)
LEMMA RecordSaga ==
    ASSUME HandoffInv, SagaInv, NEW t \in Transfers, Unfinished(t), task = t, ~failed,
           NEW next \in Document, NEW o, CommitDocument(next, o), NEW n, NEW p,
           n.phase \notin Terminal => DirectoryStep(o, FALSE),
           n.phase \in Terminal => DirectoryStep(o, TRUE),
           disk.transfers[t].aggregate = p,
           next.assignments = disk.assignments, next.transfers[t] = n,
           \A u \in Transfers \ {t} : next.transfers[u] = disk.transfers[u],
           \A q \in Aggregates \ {p} : next.placements[q] = disk.placements[q],
           RecordFits(t, n, next.placements[p])
    PROVE  SagaInv'
<1>1. doc = disk
  BY DEF HandoffInv, ControlInv
<1>2. \/ UNCHANGED disk
      \/ /\ disk'.transfers = next.transfers
         /\ disk'.placements = next.placements
         /\ disk'.assignments = next.assignments
  BY <1>1, WrittenFields
<1>3. /\ UNCHANGED <<world, halt, package, receipt, stage, assigned>> /\ Result(o)
      /\ n.phase \notin Terminal => TaskAfter(o, FALSE)
      /\ n.phase \in Terminal => TaskAfter(o, TRUE)
  BY Zenon DEF DirectoryStep
<1>4. SagaData'
  <2>1. CASE UNCHANGED disk
    BY <1>3, <2>1, SagaSame DEF SagaInv
  <2>2. CASE /\ disk'.transfers = next.transfers
             /\ disk'.placements = next.placements
             /\ disk'.assignments = next.assignments
    BY <1>3, <2>2, RecordSagaData DEF SagaInv
  <2> QED BY <1>2, <2>1, <2>2
<1>5. CellsCurrent'
  <2>1. disk'.assignments = disk.assignments
    BY <1>2
  <2> QED BY <1>3, <2>1 DEF Result, SagaInv, SagaControl, CellsCurrent
<1>6. TaskInv'
  <2> SUFFICES ASSUME task' # None PROVE Known(t)' /\ Unfinished(t)' /\ task' = t
    BY DEF TaskInv
  <2>1. o = "ok" /\ n.phase \notin Terminal /\ task' = t
    BY <1>3 DEF TaskAfter
  <2>2. disk'.transfers[t] = n
    BY <2>1 DEF CommitDocument, Document
  <2>3. n.phase # "Absent"
    BY DEF RecordFits
  <2> QED BY <2>1, <2>2, <2>3 DEF Known, Unfinished
<1> QED BY <1>4, <1>5, <1>6 DEF SagaInv, SagaControl

(* The proof that engine.rs derives from a boundary is a proof.            *)
LEMMA ProofOfType ==
    ASSUME HandoffInv, NEW c \in Cells, NEW t \in Transfers, NEW kind \in Kinds
    PROVE  ProofOf(c, t, kind) \in Proof
<1> DEFINE b == world[c].boundary[t][kind]
<1>1. b \in Boundary
  BY HandoffTypes DEF World
<1>2. 0 \in 0..MaxGeneration /\ t \in Packages
  BY DirectoryAssumption, HandoffAssumption
<1> HIDE DEF b
<1>3. [package |-> t, generation |-> 0, fence |-> b.fence, event |-> b.event,
       receipt |-> b.receipt] \in Proof
  BY <1>1, <1>2 DEF Proof, Boundary
<1> QED BY <1>3 DEF ProofOf, b

(* record_source_prepared adds the proof of the lock.                      *)
LEMMA RecordSourcePreparedSaga ==
    ASSUME HandoffInv, SagaInv, NEW t \in Transfers, NEW o, RecordSourcePreparedStep(t, o)
    PROVE  SagaInv'
<1> DEFINE r == disk.transfers[t]
           q == ProofOf(r.source, t, "Prepare")
<1>1. task = t /\ ~failed /\ doc = disk /\ DirectoryStep(o, FALSE)
  BY Zenon DEF RecordSourcePreparedStep, Running, HandoffInv, ControlInv
<1>2. PICK g \in Generations : RecordSourcePrepared(t, q, g, o)
  BY <1>1 DEF RecordSourcePreparedStep
<1> DEFINE z == Resolved(q, g)
           n == [r EXCEPT !.prepare = z]
           next == RecordSourcePreparedDoc(disk, t, q, g)
<1>3. Unfinished(t) /\ r.phase = "Prepared" /\ CommitDocument(next, o)
  BY <1>1, <1>2 DEF RecordSourcePrepared, RecordSourcePreparedOk, Unfinished, Terminal
<1>4. r \in Transfer /\ disk \in Document /\ Saga(t)
  BY <1>3, HandoffTypes, SagaFacts DEF SagaInv
<1>5. q \in Proof
  BY <1>4, ProofOfType DEF Kinds, Transfer
<1> HIDE DEF q
<1>6. next \in Document
  BY <1>4, <1>5, TransferTypes
<1>7. /\ next.assignments = disk.assignments /\ next.placements = disk.placements
      /\ \A u \in Transfers : next.transfers[u] = IF u = t THEN n ELSE disk.transfers[u]
  BY <1>4, Frames DEF RecordSourcePreparedDoc
<1> HIDE DEF next, z
<1>8. /\ n.phase = "Prepared" /\ n.receipt = r.receipt
      /\ n.aggregate = r.aggregate /\ n.source = r.source /\ n.destination = r.destination
      /\ n.sourceGen = r.sourceGen /\ n.destGen = r.destGen
      /\ n.priorGen = r.priorGen /\ n.package = r.package
  BY <1>3, <1>4 DEF Transfer
<1> HIDE DEF n
<1>9. RecordFits(t, n, next.placements[r.aggregate])
  BY <1>4, <1>8 DEF RecordFits, Saga, Receipted, Terminal
<1>10. n.phase \notin Terminal /\ next.transfers[t] = n
  BY <1>7, <1>8 DEF Terminal
<1> QED BY <1>1, <1>3, <1>6, <1>7, <1>9, <1>10, RecordSaga, Zenon

(* record_quarantine adds the receipt, which is an artifact by then.       *)
LEMMA RecordQuarantineSaga ==
    ASSUME HandoffInv, SagaInv, NEW t \in Transfers, NEW o, RecordQuarantineStep(t, o)
    PROVE  SagaInv'
<1> DEFINE r == disk.transfers[t]
           q == ProofOf(r.destination, t, "Quarantine")
<1>1. task = t /\ ~failed /\ doc = disk /\ DirectoryStep(o, FALSE)
  BY Zenon DEF RecordQuarantineStep, Running, HandoffInv, ControlInv
<1>2. PICK g \in Generations : RecordQuarantine(t, q, g, o)
  BY <1>1 DEF RecordQuarantineStep
<1> DEFINE z == Resolved(q, g)
           n == [r EXCEPT !.phase = "Quarantined", !.receipt = q.receipt, !.quarantine = z]
           next == RecordQuarantineDoc(disk, t, q, g)
<1>3. /\ Unfinished(t) /\ r.phase = "Prepared" /\ CommitDocument(next, o)
      /\ r.prepare # NoProof
  BY <1>1, <1>2 DEF RecordQuarantine, RecordQuarantineOk, Unfinished, Terminal
<1>4. r \in Transfer /\ disk \in Document /\ Saga(t) /\ Ledger(t)
  BY <1>3, HandoffTypes, SagaFacts DEF SagaInv
<1>5. q \in Proof
  BY <1>4, ProofOfType DEF Kinds, Transfer
<1>11. receipt[t] # None
  <2>1. StepName(t) = "recordQuarantine"
    BY DEF RecordQuarantineStep, Running
  <2> QED BY <1>1, <1>3, <2>1 DEF StepName, PreCommit
<1> HIDE DEF q
<1>6. next \in Document
  BY <1>4, <1>5, TransferTypes
<1>7. /\ next.assignments = disk.assignments /\ next.placements = disk.placements
      /\ \A u \in Transfers : next.transfers[u] = IF u = t THEN n ELSE disk.transfers[u]
  BY <1>4, Frames DEF RecordQuarantineDoc
<1> HIDE DEF next, z
<1>8. /\ n.phase = "Quarantined" /\ n.prepare = r.prepare
      /\ n.aggregate = r.aggregate /\ n.source = r.source /\ n.destination = r.destination
      /\ n.sourceGen = r.sourceGen /\ n.destGen = r.destGen
      /\ n.priorGen = r.priorGen /\ n.package = r.package
  BY <1>4 DEF Transfer
<1> HIDE DEF n
<1>9. RecordFits(t, n, next.placements[r.aggregate])
  <2>1. Event(r.destination, t, "Import") = 0
    BY <1>3, <1>4 DEF Ledger, PostCommit
  <2> QED BY <1>3, <1>8, <1>11, <2>1 DEF RecordFits, Terminal
<1>10. n.phase \notin Terminal /\ next.transfers[t] = n
  BY <1>7, <1>8 DEF Terminal
<1> QED BY <1>1, <1>3, <1>6, <1>7, <1>9, <1>10, RecordSaga, Zenon

(* commit_transfer moves the placement, not yet resident.                  *)
LEMMA CommitTransferSaga ==
    ASSUME HandoffInv, SagaInv, NEW t \in Transfers, NEW o, CommitTransferStep(t, o)
    PROVE  SagaInv'
<1> DEFINE r == disk.transfers[t]
           p == r.aggregate
           x == disk.placements[p]
           n == [r EXCEPT !.phase = "Committed"]
           y == [x EXCEPT !.cell = r.destination, !.generation = r.resultGen,
                          !.state = "InTransit"]
           next == CommitTransferDoc(disk, t)
<1>1. task = t /\ ~failed /\ doc = disk /\ DirectoryStep(o, FALSE)
  BY Zenon DEF CommitTransferStep, Running, HandoffInv, ControlInv
<1>2. Unfinished(t) /\ r.phase = "Quarantined" /\ CommitDocument(next, o)
  BY <1>1 DEF CommitTransferStep, CommitTransfer, CommitTransferOk, Unfinished, Terminal
<1>3. r \in Transfer /\ disk \in Document /\ Saga(t) /\ p \in Aggregates /\ x \in Placement
  BY <1>2, HandoffTypes, SagaFacts DEF SagaInv, Transfer
<1>4. /\ next \in Document /\ next.assignments = disk.assignments
      /\ \A a \in Aggregates :
            next.placements[a] = IF a = p THEN y ELSE disk.placements[a]
      /\ \A u \in Transfers : next.transfers[u] = IF u = t THEN n ELSE disk.transfers[u]
  <2>1. next = SetTransfer(SetPlacement(disk, p, y), t, n)
    BY DEF CommitTransferDoc
  <2>2. y \in Placement
    BY <1>3, Zenon DEF Placement, PlacementStates, Transfer
  <2>3. n \in Transfer
    BY <1>3 DEF Transfer, Phases, PostCommit
  <2> HIDE DEF n, y, next, p
  <2> QED BY <1>3, <2>1, <2>2, <2>3, BothFrames
<1> HIDE DEF next, y
<1>5. /\ n.phase = "Committed" /\ n.receipt = r.receipt
      /\ n.aggregate = r.aggregate /\ n.source = r.source /\ n.destination = r.destination
      /\ n.sourceGen = r.sourceGen /\ n.destGen = r.destGen
      /\ n.priorGen = r.priorGen /\ n.package = r.package
  BY <1>3 DEF Transfer
<1> HIDE DEF n
<1>6. RecordFits(t, n, next.placements[p])
  BY <1>3, <1>5 DEF RecordFits, Saga, Receipted, Terminal
<1>7. /\ n.phase \notin Terminal /\ next.transfers[t] = n
      /\ \A a \in Aggregates \ {p} : next.placements[a] = disk.placements[a]
  BY <1>4, <1>5 DEF Terminal
<1> QED BY <1>1, <1>2, <1>4, <1>6, <1>7, RecordSaga, ZenonT(60)

(* record_imported makes the player resident at the destination, in the    *)
(* generation that the commit gave it.                                     *)
LEMMA RecordImportedSaga ==
    ASSUME HandoffInv, SagaInv, NEW t \in Transfers, NEW o, RecordImportedStep(t, o)
    PROVE  SagaInv'
<1> DEFINE r == disk.transfers[t]
           p == r.aggregate
           x == disk.placements[p]
           q == ProofOf(r.destination, t, "Import")
<1>1. task = t /\ ~failed /\ doc = disk /\ DirectoryStep(o, FALSE)
  BY Zenon DEF RecordImportedStep, Running, HandoffInv, ControlInv
<1>2. PICK g \in Generations : RecordImported(t, q, g, o)
  BY <1>1 DEF RecordImportedStep
<1> DEFINE z == Resolved(q, g)
           n == [r EXCEPT !.phase = "Imported", !.import = z]
           y == [x EXCEPT !.state = "Resident", !.transfer = None]
           next == RecordImportedDoc(disk, t, q, g)
<1>3. /\ Unfinished(t) /\ r.phase = "Committed" /\ CommitDocument(next, o)
      /\ x.generation = r.resultGen
  BY <1>1, <1>2 DEF RecordImported, RecordImportedOk, BoundInTransit, Unfinished, Terminal
<1>4. r \in Transfer /\ disk \in Document /\ Saga(t) /\ p \in Aggregates /\ x \in Placement
  BY <1>3, HandoffTypes, SagaFacts DEF SagaInv, Transfer
<1>5. z \in Proof
  BY <1>4, ProofOfType, ResolvedType DEF Kinds, Transfer
<1>6. next = SetTransfer(SetPlacement(disk, p, y), t, n)
  BY DEF RecordImportedDoc, Settle
<1> HIDE DEF z, next
<1>7. y \in Placement /\ y.state = "Resident" /\ y.generation = x.generation
  BY <1>4, Zenon DEF Placement, PlacementStates
<1>8. n \in Transfer
  BY <1>4, <1>5, Zenon DEF Transfer, Phases, PostCommit
<1>9. /\ n.phase = "Imported" /\ n.receipt = r.receipt /\ n.resultGen = r.resultGen
      /\ n.aggregate = r.aggregate /\ n.source = r.source /\ n.destination = r.destination
      /\ n.sourceGen = r.sourceGen /\ n.destGen = r.destGen
      /\ n.priorGen = r.priorGen /\ n.package = r.package
  BY <1>4 DEF Transfer
<1> HIDE DEF n, y
<1>10. /\ next \in Document /\ next.assignments = disk.assignments
       /\ \A a \in Aggregates :
             next.placements[a] = IF a = p THEN y ELSE disk.placements[a]
       /\ \A u \in Transfers : next.transfers[u] = IF u = t THEN n ELSE disk.transfers[u]
  BY <1>4, <1>6, <1>7, <1>8, BothFrames
<1>11. next.placements[p] = y /\ next.transfers[t] = n
  BY <1>4, <1>10
<1>12. RecordFits(t, n, next.placements[p])
  BY <1>3, <1>4, <1>7, <1>9, <1>11 DEF RecordFits, Saga, Receipted, Terminal
<1>13. /\ n.phase \notin Terminal
       /\ \A a \in Aggregates \ {p} : next.placements[a] = disk.placements[a]
  BY <1>9, <1>10 DEF Terminal
<1>14. \A u \in Transfers \ {t} : next.transfers[u] = disk.transfers[u]
  BY <1>10
<1>15. next \in Document /\ next.assignments = disk.assignments
  BY <1>10
<1>16. Unfinished(t) /\ CommitDocument(next, o)
  BY <1>3
<1>17. next.transfers[t] = n
  BY <1>11
<1>18. task = t /\ ~failed /\ DirectoryStep(o, FALSE)
  BY <1>1, Zenon
<1> HIDE DEF x
<1> QED BY <1>12, <1>13, <1>14, <1>15, <1>16, <1>17, <1>18, RecordSaga, Zenon

(* The transfer ends where the player is: its import has used the          *)
(* reservation up.                                                         *)
LEMMA FinalizeTransferSaga ==
    ASSUME HandoffInv, SagaInv, NEW t \in Transfers, NEW o, FinalizeTransferStep(t, o)
    PROVE  SagaInv'
<1> DEFINE r == disk.transfers[t]
           p == r.aggregate
           q == ProofOf(r.source, t, "Export")
<1>1. task = t /\ ~failed /\ doc = disk /\ DirectoryStep(o, TRUE)
  BY Zenon DEF FinalizeTransferStep, Running, HandoffInv, ControlInv
<1>2. PICK g \in Generations : FinalizeTransfer(t, q, g, o)
  BY <1>1 DEF FinalizeTransferStep
<1> DEFINE z == Resolved(q, g)
           n == [r EXCEPT !.phase = "Finalized", !.finalization = z]
           next == FinalizeTransferDoc(disk, t, q, g)
<1>3. /\ Unfinished(t) /\ r.phase = "Imported" /\ CommitDocument(next, o)
      /\ disk.placements[p].state = "Resident"
  BY <1>1, <1>2 DEF FinalizeTransfer, FinalizeTransferOk, Unfinished, Terminal
<1>4. /\ r \in Transfer /\ disk \in Document /\ Saga(t) /\ PhaseProofs(r) /\ ExactProofs(t)
      /\ p \in Aggregates
  BY <1>3, HandoffTypes, SagaFacts DEF SagaInv, Transfer
<1>5. q \in Proof
  BY <1>4, ProofOfType DEF Kinds, Transfer
<1> HIDE DEF q
<1>6. next \in Document
  BY <1>4, <1>5, TransferTypes
<1>7. /\ next.assignments = disk.assignments /\ next.placements = disk.placements
      /\ \A u \in Transfers : next.transfers[u] = IF u = t THEN n ELSE disk.transfers[u]
  BY <1>4, Frames DEF FinalizeTransferDoc
<1> HIDE DEF next, z
<1>8. /\ n.phase = "Finalized" /\ n.receipt = r.receipt
      /\ n.aggregate = r.aggregate /\ n.source = r.source /\ n.destination = r.destination
      /\ n.sourceGen = r.sourceGen /\ n.destGen = r.destGen
      /\ n.priorGen = r.priorGen /\ n.package = r.package
  BY <1>4 DEF Transfer
<1> HIDE DEF n
<1>9. world[r.destination].reservation[t] = None
  <2>1. Event(r.destination, t, "Import") # 0
    BY <1>3, <1>4, Zenon DEF PhaseProofs, ExactProofs, ExactEvent, Event
  <2> QED BY <1>4, <2>1 DEF Saga, Receipted
<1>10. RecordFits(t, n, next.placements[p])
  BY <1>3, <1>4, <1>7, <1>8, <1>9 DEF RecordFits, Saga, Receipted
<1>11. n.phase \in Terminal /\ next.transfers[t] = n
  BY <1>7, <1>8 DEF Terminal
<1> QED BY <1>1, <1>3, <1>6, <1>7, <1>10, <1>11, RecordSaga, Zenon

(* A cleanup proof of either cell leaves the transfer aborting.            *)
LEMMA RecordAbortCleanupSaga ==
    ASSUME HandoffInv, SagaInv, NEW t \in Transfers, NEW role \in AbortRoles, NEW o,
           RecordAbortCleanupStep(t, role, o)
    PROVE  SagaInv'
<1> DEFINE r == disk.transfers[t]
           p == r.aggregate
           q == ProofOf(RoleCell(r, role), t, AbortKind(role))
<1>1. task = t /\ ~failed /\ doc = disk /\ DirectoryStep(o, FALSE)
  BY Zenon DEF RecordAbortCleanupStep, Running, HandoffInv, ControlInv
<1>2. PICK g \in Generations : RecordAbortCleanup(t, role, q, g, o)
  BY <1>1 DEF RecordAbortCleanupStep
<1> DEFINE z == Resolved(q, g)
           n == IF role = "Source" THEN [r EXCEPT !.sourceAbort = z]
                                   ELSE [r EXCEPT !.destAbort = z]
           next == RecordAbortCleanupDoc(disk, t, role, q, g)
<1>3. Unfinished(t) /\ r.phase = "Aborting" /\ CommitDocument(next, o)
  BY <1>1, <1>2 DEF RecordAbortCleanup, RecordAbortCleanupOk, Unfinished, Terminal
<1>4. r \in Transfer /\ disk \in Document /\ Saga(t) /\ p \in Aggregates
  BY <1>3, HandoffTypes, SagaFacts DEF SagaInv, Transfer
<1>5. q \in Proof
  <2>1. RoleCell(r, role) \in Cells /\ AbortKind(role) \in Kinds
    BY <1>4 DEF Kinds, Transfer, AbortKind, RoleCell
  <2> QED BY <2>1, ProofOfType
<1> HIDE DEF q
<1>6. next \in Document
  BY <1>4, <1>5, TransferTypes
<1>7. /\ next.assignments = disk.assignments /\ next.placements = disk.placements
      /\ \A u \in Transfers : next.transfers[u] = IF u = t THEN n ELSE disk.transfers[u]
  BY <1>4, Frames DEF RecordAbortCleanupDoc
<1> HIDE DEF next, z
<1>8. /\ n.phase = "Aborting" /\ n.receipt = r.receipt
      /\ n.aggregate = r.aggregate /\ n.source = r.source /\ n.destination = r.destination
      /\ n.sourceGen = r.sourceGen /\ n.destGen = r.destGen
      /\ n.priorGen = r.priorGen /\ n.package = r.package
  <2>1. CASE role = "Source"
    BY <1>3, <1>4, <2>1 DEF Transfer
  <2>2. CASE role # "Source"
    BY <1>3, <1>4, <2>2 DEF Transfer
  <2> QED BY <2>1, <2>2
<1> HIDE DEF n
<1>9. RecordFits(t, n, next.placements[p])
  BY <1>3, <1>4, <1>8 DEF RecordFits, Saga, Receipted, Terminal
<1>10. n.phase \notin Terminal /\ next.transfers[t] = n
  BY <1>7, <1>8 DEF Terminal
<1> QED BY <1>1, <1>3, <1>6, <1>7, <1>9, <1>10, RecordSaga, Zenon

(* The aborted transfer holds no place: its destination has given the      *)
(* reservation up in the event that its cleanup proof names.               *)
LEMMA FinalizeAbortSaga ==
    ASSUME HandoffInv, SagaInv, NEW t \in Transfers, NEW o, FinalizeAbortStep(t, o)
    PROVE  SagaInv'
<1> DEFINE r == disk.transfers[t]
           p == r.aggregate
           x == disk.placements[p]
           n == [r EXCEPT !.phase = "Aborted"]
           y == [x EXCEPT !.state = "Resident", !.transfer = None]
           next == FinalizeAbortDoc(disk, t)
<1>1. task = t /\ ~failed /\ doc = disk /\ DirectoryStep(o, TRUE)
  BY Zenon DEF FinalizeAbortStep, Running, HandoffInv, ControlInv
<1>2. /\ Unfinished(t) /\ r.phase = "Aborting" /\ CommitDocument(next, o)
      /\ r.destAbort # NoProof
  BY <1>1 DEF FinalizeAbortStep, FinalizeAbort, FinalizeAbortOk, Unfinished, Terminal
<1>3. /\ r \in Transfer /\ disk \in Document /\ Saga(t) /\ p \in Aggregates /\ x \in Placement
      /\ Ledger(t) /\ ExactProofs(t)
  BY <1>2, HandoffTypes, SagaFacts DEF SagaInv, Transfer
<1>4. next = SetTransfer(SetPlacement(disk, p, y), t, n)
  BY DEF FinalizeAbortDoc, Settle
<1> HIDE DEF next
<1>5. y \in Placement /\ y.state = "Resident"
  BY <1>3, Zenon DEF Placement, PlacementStates
<1>6. n \in Transfer
  BY <1>3 DEF Transfer, Phases
<1>7. /\ n.phase = "Aborted" /\ n.receipt = r.receipt
      /\ n.aggregate = r.aggregate /\ n.source = r.source /\ n.destination = r.destination
      /\ n.sourceGen = r.sourceGen /\ n.destGen = r.destGen
      /\ n.priorGen = r.priorGen /\ n.package = r.package
  BY <1>3 DEF Transfer
<1> HIDE DEF n, y
<1>8. /\ next \in Document /\ next.assignments = disk.assignments
      /\ \A a \in Aggregates :
            next.placements[a] = IF a = p THEN y ELSE disk.placements[a]
      /\ \A u \in Transfers : next.transfers[u] = IF u = t THEN n ELSE disk.transfers[u]
  BY <1>3, <1>4, <1>5, <1>6, BothFrames
<1>9. next.placements[p] = y /\ next.transfers[t] = n
  BY <1>3, <1>8
<1>10. world[r.destination].reservation[t] = None
  BY <1>2, <1>3, Zenon DEF Ledger, ExactProofs, ExactEvent, Event
<1>11. RecordFits(t, n, next.placements[p])
  BY <1>3, <1>5, <1>7, <1>9, <1>10 DEF RecordFits, Saga, Receipted
<1>12. /\ n.phase \in Terminal
       /\ \A a \in Aggregates \ {p} : next.placements[a] = disk.placements[a]
       /\ \A u \in Transfers \ {t} : next.transfers[u] = disk.transfers[u]
  BY <1>7, <1>8 DEF Terminal
<1>13. /\ next \in Document /\ next.assignments = disk.assignments
       /\ Unfinished(t) /\ CommitDocument(next, o)
       /\ task = t /\ ~failed /\ DirectoryStep(o, TRUE) /\ next.transfers[t] = n
  BY <1>1, <1>2, <1>8, <1>9, Zenon
<1> HIDE DEF x
<1> QED BY <1>11, <1>12, <1>13, RecordSaga, Zenon

-----------------------------------------------------------------------------
(* The abort and the start of a transfer.                                  *)

(* An abort that is not asked for between the quarantine of the player and *)
(* its record: what the destination holds is what the record says, so the  *)
(* cleanup of the destination will be accepted.                            *)
LEMMA AbortTransferSaga ==
    ASSUME HandoffInv, SagaInv, ReopenAfterIoError, "quarantining" \notin AbortPoints,
           NEW t \in Transfers, NEW o \in Outcomes, AbortTransfer(t, o)
    PROVE  SagaInv'
<1> DEFINE r == disk.transfers[t]
           p == r.aggregate
           x == disk.placements[p]
           next == RequestAbortDoc(disk, t)
           n == [r EXCEPT !.phase = "Aborting"]
<1>1. /\ stage = "ready" /\ failed /\ task = None /\ doc = disk /\ open
      /\ UNCHANGED <<world, halt, package, receipt, stage, opened, assigned, pending>>
  BY DEF AbortTransfer, Usable
<1>2. \/ CommitDocument(next, o) /\ r.phase \in PreCommit
      \/ UNCHANGED dirVars /\ r.phase = "Aborting" /\ o = "ok"
  BY <1>1 DEF AbortTransfer, RequestAbort, RequestAbortOk
<1>3. Unfinished(t)
  BY <1>2 DEF Unfinished, PreCommit, Terminal
<1>4. r \in Transfer /\ disk \in Document /\ Saga(t) /\ Ledger(t)
  BY <1>3, HandoffTypes, SagaFacts DEF SagaInv
<1>5. /\ next.assignments = disk.assignments /\ next.placements = disk.placements
      /\ \A u \in Transfers : next.transfers[u] = IF u = t THEN n ELSE disk.transfers[u]
  BY <1>4, Frames DEF RequestAbortDoc
<1>6. next \in Document
  <2>1. n \in Transfer
    BY <1>4 DEF Transfer, Phases
  <2> QED BY <1>4, <2>1, SetTypes DEF RequestAbortDoc
<1> HIDE DEF next
<1>7. /\ n.phase = "Aborting" /\ n.receipt = r.receipt
      /\ n.aggregate = r.aggregate /\ n.source = r.source /\ n.destination = r.destination
      /\ n.sourceGen = r.sourceGen /\ n.destGen = r.destGen
      /\ n.priorGen = r.priorGen /\ n.package = r.package
  BY <1>4 DEF Transfer
<1> HIDE DEF n
<1>8. UNCHANGED disk \/
      /\ disk'.transfers = next.transfers /\ disk'.placements = disk.placements
      /\ disk'.assignments = disk.assignments
  <2>1. CASE CommitDocument(next, o)
    BY <1>1, <1>5, <1>6, <2>1, WrittenFields, Zenon
  <2>2. CASE UNCHANGED dirVars
    BY <2>2 DEF dirVars
  <2> QED BY <1>2, <2>1, <2>2
<1>9. o = "ok" => disk'.transfers[t].phase = "Aborting"
  <2>1. CASE CommitDocument(next, o) /\ o = "ok"
    BY <1>5, <1>6, <1>7, <2>1 DEF CommitDocument, Document
  <2>2. CASE UNCHANGED dirVars /\ r.phase = "Aborting"
    BY <2>2 DEF dirVars
  <2> QED BY <1>2, <2>1, <2>2
<1>10. world[r.destination].reservation[t] \in {None, r.receipt}
  <2> DEFINE held == world[r.destination].reservation[t]
  <2>1. r.receipt # None \/ held = None
    BY <1>1 DEF AbortTransfer, AbortPoint
  <2>2. CASE r.receipt # None
    <3>1. world[r.destination].boundary[t]["Quarantine"].receipt = r.receipt
      BY <1>3, <2>2, ReceiptAgrees DEF SagaInv
    <3> QED BY <1>4, <3>1 DEF Saga, Receipted
  <2> QED BY <2>1, <2>2
<1>11. SagaData'
  <2>1. CASE UNCHANGED disk
    BY <1>1, <2>1, SagaSame DEF SagaInv
  <2>2. CASE /\ disk'.transfers = next.transfers /\ disk'.placements = disk.placements
             /\ disk'.assignments = disk.assignments
    <3>1. disk'.transfers[t] = n
      BY <1>5, <2>2
    <3>2. CASE r.phase \in PreCommit
      <4>1. Event(r.destination, t, "Import") = 0
        BY <1>4, <3>2 DEF Ledger, PreCommit, PostCommit
      <4>2. RecordFits(t, disk'.transfers[t], disk'.placements[p])
        BY <1>4, <1>7, <1>10, <3>1, <4>1 DEF RecordFits, Saga, Receipted, Terminal
      <4>3. \A u \in Transfers \ {t} : disk'.transfers[u] = disk.transfers[u]
        BY <1>5, <2>2
      <4> QED BY <1>1, <1>3, <2>2, <4>2, <4>3, RecordSagaData DEF SagaInv
    <3>3. CASE UNCHANGED dirVars
      BY <1>1, <3>3, SagaSame DEF SagaInv, dirVars
    <3> QED BY <1>2, <3>2, <3>3
  <2> QED BY <1>8, <2>1, <2>2
<1>12. CellsCurrent'
  <2>1. disk'.assignments = disk.assignments
    BY <1>8
  <2> QED BY <1>1, <2>1 DEF SagaInv, SagaControl, CellsCurrent
<1>13. TaskInv'
  <2> SUFFICES ASSUME task' # None PROVE Known(t)' /\ Unfinished(t)' /\ task' = t
    BY DEF TaskInv
  <2>1. o = "ok" /\ task' = t
    BY <1>1 DEF AbortTransfer, Result
  <2> QED BY <1>9, <2>1 DEF Known, Unfinished, Terminal
<1> QED BY <1>11, <1>12, <1>13 DEF SagaInv, SagaControl

(* A new transfer starts from what its package was written from: nothing   *)
(* has moved in between, and no cell has an event of it.                   *)
LEMMA PrepareStepSaga ==
    ASSUME HandoffInv, SagaInv, NEW t \in Transfers, NEW o, PrepareStep(t, o)
    PROVE  SagaInv'
<1> DEFINE k == package[t]
           p == k.player
           d == k.destination
           x == disk.placements[p]
           s == x.cell
           n == NewTransfer(disk, p, d, t)
           y == [x EXCEPT !.state = "Preparing", !.transfer = t]
           next == PrepareTransferDoc(disk, p, t, d, t)
<1>1. task = t /\ ~failed /\ doc = disk /\ DirectoryStep(o, FALSE)
  BY Zenon DEF PrepareStep, Running, HandoffInv, ControlInv
<1>2. /\ CommitDocument(next, o)
      /\ disk.transfers[t].phase = "Absent" /\ x.generation = k.priorGen
      /\ x.generation < MaxGeneration /\ s # d
  BY <1>1 DEF PrepareStep, PrepareTransfer, PrepareTransferOk
<1>3. task # None
  BY <1>1, DirectoryAssumption
<1>4. k \in Package /\ p \in Aggregates /\ d \in Cells
  BY <1>1, <1>3 DEF HandoffInv, ControlInv, TypeOKHandoff, Package
<1>5. x \in Placement /\ disk \in Document /\ s \in Cells
  BY <1>4, HandoffTypes DEF Placement
<1>6. ~Known(t) /\ \A u \in Transfers : ~Unfinished(u)
  BY <1>1, <1>2, <1>3 DEF HandoffInv, ControlInv, Known, Unfinished
<1>7. Starting(t) /\ Untouched(t) /\ receipt[t] = None
  <2>1. Starting(t)
    BY <1>1, <1>3, <1>6 DEF SagaInv, SagaControl, TaskInv
  <2>2. Untouched(t)
    BY <1>6 DEF HandoffInv, DataInv, LedgersInv
  <2>3. receipt[t] = None
    BY <1>6 DEF SagaInv, SagaData, ReceiptsKnown
  <2> QED BY <2>1, <2>2, <2>3
<1>8. /\ k.source = s /\ k.sourceGen = disk.assignments[s].generation
      /\ k.destGen = disk.assignments[d].generation
      /\ k.closure = world[s].player[p]
  BY <1>7 DEF Starting
<1> HIDE DEF k, p, d
<1>9. n \in Transfer /\ y \in Placement
  <2>1. disk.assignments[s] \in Assignment /\ disk.assignments[d] \in Assignment
    BY <1>4, <1>5, HandoffTypes
  <2>2. x.generation + 1 \in 0..MaxGeneration
    BY <1>2, <1>5, DirectoryAssumption DEF Placement
  <2>3. t \in Packages
    BY HandoffAssumption
  <2> QED BY <1>4, <1>5, <2>1, <2>2, <2>3, AbsentTypes, ZenonT(60)
          DEF NewTransfer, AbsentTransfer, Transfer, Placement, PlacementStates, Assignment,
              Phases, PreCommit
<1>10. /\ n.aggregate = p /\ n.source = s /\ n.destination = d /\ n.phase = "Prepared"
       /\ n.sourceGen = k.sourceGen /\ n.destGen = k.destGen /\ n.priorGen = k.priorGen
       /\ n.package = t /\ n.receipt = None
  BY <1>2, <1>8 DEF NewTransfer, AbsentTransfer
<1> HIDE DEF n
<1>11. /\ next \in Document /\ next.assignments = disk.assignments
       /\ \A a \in Aggregates :
             next.placements[a] = IF a = p THEN y ELSE disk.placements[a]
       /\ \A u \in Transfers : next.transfers[u] = IF u = t THEN n ELSE disk.transfers[u]
  <2>1. next = SetTransfer(SetPlacement(disk, p, y), t, n)
    BY DEF PrepareTransferDoc, n
  <2> HIDE DEF next, y
  <2> QED BY <1>4, <1>5, <1>9, <2>1, BothFrames
<1> HIDE DEF next, y
<1>12. UNCHANGED <<world, halt, package, receipt, stage, assigned>> /\ Result(o)
  BY <1>1 DEF DirectoryStep
<1>13. \/ UNCHANGED disk
       \/ /\ disk'.transfers = next.transfers
          /\ disk'.placements = next.placements
          /\ disk'.assignments = next.assignments
  BY <1>1, <1>2, <1>11, WrittenFields
<1>14. ASSUME disk'.transfers = next.transfers, disk'.placements = next.placements,
              disk'.assignments = next.assignments
       PROVE  SagaData'
  <2>1. disk'.transfers[t] = n /\ disk'.assignments = disk.assignments
    BY <1>11, <1>14
  <2>2. k.player = p /\ k.source = s /\ k.destination = d
    BY <1>8 DEF p, d
  <2>3. Bound(t)'
    <3>1. disk.assignments[s].generation \in Nat /\ disk.assignments[d].generation \in Nat
      BY <1>4, <1>5, HandoffTypes, DirectoryAssumption DEF Assignment
    <3> QED BY <1>8, <1>10, <1>12, <2>1, <2>2, <3>1 DEF Bound, Matches, k
  <2>4. \A c \in Cells, kind \in Kinds : world[c].boundary[t][kind].event = 0
    BY <1>7 DEF Untouched, Event
  <2>5. Issued(t)'
    <3>1. \A kind \in {"Prepare", "Export", "AbortSource"} :
              world'[s].boundary[t][kind].event = 0
      BY <1>5, <1>12, <2>4 DEF Kinds
    <3>2. \A kind \in {"Quarantine", "Import", "AbortDestination"} :
              world'[d].boundary[t][kind].event = 0
      BY <1>4, <1>12, <2>4 DEF Kinds
    <3> QED BY <1>10, <2>1, <3>1, <3>2 DEF Issued, IssuedAt, Event
  <2>6. Copied(t)'
    <3>1. /\ world'[d].boundary[t]["Import"].event = 0
          /\ world'[s].witness[t] = "None" /\ world'[d].witness[t] = "None"
      BY <1>4, <1>5, <1>7, <1>12, <2>4 DEF Untouched, Kinds
    <3>2. package'[t].closure = world'[s].player[p]
      BY <1>8, <1>12 DEF k
    <3> QED BY <1>10, <2>1, <3>1, <3>2 DEF Copied, Event
  <2>7. Receipted(t)'
    <3>1. /\ \A kind \in {"Quarantine", "Import", "AbortDestination"} :
                 world'[d].boundary[t][kind].event = 0
          /\ world'[d].reservation[t] = None
          /\ receipt'[t] = None
      BY <1>4, <1>7, <1>12, <2>4 DEF Untouched, Kinds
    <3> QED BY <1>10, <2>1, <3>1 DEF Receipted, Event
  <2>8. Advanced(t)'
    BY <1>10, <2>1 DEF Advanced
  <2>9. /\ Known(t)' /\ Unfinished(t)' /\ disk'.transfers[t].aggregate = p
        /\ disk'.transfers[t].source = s /\ disk'.transfers[t].destination = d
    BY <1>10, <2>1 DEF Known, Unfinished, Terminal
  <2>10. \A u \in Transfers \ {t} :
            /\ disk'.transfers[u] = disk.transfers[u] /\ ~Unfinished(u)
            /\ receipt'[u] = receipt[u]
    BY <1>6, <1>11, <1>12, <1>14
  <2>11. \A q \in Aggregates \ {p} : disk'.placements[q] = disk.placements[q]
    BY <1>11, <1>14
  <2>12. \A c \in Cells : /\ world'[c].fence \in Nat /\ world[c].fence <= world'[c].fence
                          /\ world'[c].reservation = world[c].reservation
    BY <1>12, HandoffTypes DEF World
  <2>13. Saga(t)'
    BY <2>3, <2>5, <2>6, <2>7, <2>8 DEF Saga
  <2>14. SagaData /\ UNCHANGED package /\ ~Unfinished(t)
    BY <1>6, <1>12 DEF SagaInv
  <2> HIDE DEF x
  <2> QED BY <1>4, <1>5, <2>9, <2>10, <2>11, <2>12, <2>13, <2>14, SagaAlone
<1>15. SagaData'
  BY <1>12, <1>13, <1>14, SagaSame DEF SagaInv
<1>16. CellsCurrent'
  <2>1. disk'.assignments = disk.assignments
    BY <1>11, <1>13
  <2> QED BY <1>12, <2>1 DEF Result, SagaInv, SagaControl, CellsCurrent
<1>17. TaskInv'
  <2> SUFFICES ASSUME task' # None PROVE Known(t)' /\ Unfinished(t)' /\ task' = t
    BY DEF TaskInv
  <2>1. o = "ok" /\ task' = t
    BY <1>1 DEF DirectoryStep, TaskAfter
  <2>2. disk'.transfers[t] = n
    BY <1>2, <1>11, <2>1 DEF CommitDocument, Document
  <2> QED BY <1>10, <2>1, <2>2 DEF Known, Unfinished, Terminal
<1> QED BY <1>15, <1>16, <1>17 DEF SagaInv, SagaControl

-----------------------------------------------------------------------------
(* The invariant.                                                          *)

(* Before the coordinator first opens, no transfer, package or reservation *)
(* exists.                                                                 *)
LEMMA InitSaga ==
    ASSUME InitHandoff
    PROVE  SagaInv
<1>1. \A t \in Transfers : ~Known(t) /\ ~Unfinished(t)
  BY DEF InitHandoff, InitialDocument, AbsentTransfer, Known, Unfinished
<1>2. \A p \in Aggregates : disk.placements[p].state = "Absent"
  BY DEF InitHandoff, InitialDocument, AbsentPlacement
<1>3. \A c \in Cells, t \in Transfers : world[c].reservation[t] = None
  BY DEF InitHandoff, InitialWorld
<1>4. \A t \in Transfers : package[t] = None /\ receipt[t] = None
  BY DEF InitHandoff
<1>5. CellsCurrent
  BY DEF InitHandoff, CellsCurrent
<1>6. TaskInv
  BY DEF InitHandoff, TaskInv
<1> QED BY <1>1, <1>2, <1>3, <1>4, <1>5, <1>6
        DEF SagaInv, SagaControl, SagaData, PackagesFenced, ReceiptsKnown, ReservationsUsed,
            PlacementsUsed

(* Every step of the reconciliation keeps it.                              *)
LEMMA ReconcileSaga ==
    ASSUME HandoffInv, SagaInv, NEW t \in Transfers, NEW o,
           ReconcileDirectory(t, o) \/ ReconcileCell(t, o)
    PROVE  SagaInv'
<1>1. \A role \in AbortRoles : CommitPlayerTransferAborted(t, role, o) => SagaInv'
  BY AbortedSourceSaga, AbortedDestinationSaga DEF AbortRoles
<1> QED BY <1>1, PrepareStepSaga, RecordSourcePreparedSaga, RecordQuarantineSaga,
           CommitTransferSaga, RecordImportedSaga, FinalizeTransferSaga,
           RecordAbortCleanupSaga, FinalizeAbortSaga, PreparedSaga, QuarantinedSaga,
           ImportedSaga, ExportedSaga
        DEF ReconcileDirectory, ReconcileCell

(* Every step of the coordinator keeps it, where no abort is asked for     *)
(* between the quarantine of a player and its record.                      *)
LEMMA SagaInductive ==
    ASSUME HandoffInv, SagaInv, ReopenAfterIoError, "quarantining" \notin AbortPoints,
           [NextHandoff]_vars
    PROVE  SagaInv'
<1>1. ASSUME NEW o \in Outcomes, OpenStep(o)
      PROVE  SagaInv'
  BY <1>1, AssignCellSaga, RegisterResidentSaga DEF OpenStep
<1>2. CASE Progress
  <2>1. "ok" \in Outcomes
    BY DEF Outcomes
  <2> QED BY <1>1, <1>2, <2>1, StartStopSaga, OpenCellSaga, OpeningSaga, ReconcileSaga,
             PersistReceiptSaga
          DEF Progress
<1>3. CASE Faulty
  <2>1. IoFaults \subseteq Outcomes
    BY DEF Outcomes
  <2> QED BY <1>1, <1>3, <2>1, ReconcileSaga, PersistReceiptSaga, StartStopSaga DEF Faulty
<1>4. CASE Gameplay
  BY <1>4, GameplaySaga, PersistPackageSaga DEF Gameplay
<1>5. CASE \E t \in Transfers, o \in Outcomes : AbortTransfer(t, o)
  BY <1>5, AbortTransferSaga
<1>6. CASE UNCHANGED vars
  <2>1. /\ UNCHANGED <<disk, world, halt, package, receipt, stage, assigned, task, failed>>
    BY <1>6 DEF vars, dirVars, handoffVars
  <2>2. SagaData'
    BY <2>1, SagaSame DEF SagaInv
  <2>3. CellsCurrent'
    BY <2>1 DEF SagaInv, SagaControl, CellsCurrent
  <2>4. TaskInv'
    BY <2>1 DEF SagaInv, SagaControl, TaskInv, Known, Unfinished, Starting
  <2> QED BY <2>2, <2>3, <2>4 DEF SagaInv, SagaControl
<1> QED BY <1>2, <1>3, <1>4, <1>5, <1>6 DEF NextHandoff

(* No order of crashes, failed writes and takeovers brings                 *)
(* reconcile_transfer to a step that its own checks refuse, and open       *)
(* always finds proofs and roster in agreement: shown for callers that     *)
(* give up a handle whose write failed, and that ask for no abort between  *)
(* the quarantine of a player and its record (from there the destination's *)
(* cleanup is refused, see the README).                                    *)
THEOREM NeverWedgedCorrect ==
    ASSUME ReopenAfterIoError, "quarantining" \notin AbortPoints
    PROVE  SpecHandoff => []NeverWedged
<1>1. InitHandoff => SagaInv
  BY InitSaga
<1>2. HandoffInv /\ SagaInv /\ [NextHandoff]_vars => SagaInv'
  BY SagaInductive
<1>3. HandoffInv /\ SagaInv => NeverWedged
  BY NothingRefused
<1>4. SpecHandoff => []HandoffInv
  BY HandoffInvariant
<1> QED BY <1>1, <1>2, <1>3, <1>4, PTL DEF SpecHandoff

=============================================================================
