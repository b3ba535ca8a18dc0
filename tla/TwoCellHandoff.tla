--------------------------- MODULE TwoCellHandoff ---------------------------
(***************************************************************************)
(* The local two-cell coordinator: one directory, two independently fenced *)
(* cell stores and the package artifacts, driven through the handoff saga  *)
(* by LocalTwoCellRuntime (crates/verse-simulation/src/two_cell.rs), the   *)
(* transfer events of handoff.rs and the proofs of engine.rs.              *)
(*                                                                         *)
(* Each durable write of the saga is one action, so that the process can   *)
(* stop between any two of them; every write can also fail.  The local     *)
(* variable `transfer' of reconcile_transfer always equals the record in   *)
(* the directory's memory when it is read, and a step whose event or proof *)
(* is already durable changes nothing, so the next effective step of the   *)
(* reconciliation is a function of the state.                              *)
(*                                                                         *)
(* Abstractions.  The closure of a player (pose, inventory, operation      *)
(* history) is a counter of accepted operations and the cell its address   *)
(* lies in.  The artifact store refuses a second package under one         *)
(* transfer id, so transfer t stands for its package hash.  A quarantine   *)
(* receipt is the pair of the destination's fence and event sequence it    *)
(* was built from.  The cell store itself (journal, lifecycle record,      *)
(* boundary file) is one durable record here and is refined elsewhere.     *)
(***************************************************************************)
EXTENDS CellDirectory

CONSTANTS
    Origin,         \* the cell LocalTwoCellRuntime::open opens first
    AbortPoints,    \* where callers ask for an abort, see AbortPoint
    MaxFaults,      \* bound on crashes and failed writes
    MaxOperations,  \* bound on accepted operations of a player
    MaxGameplay     \* bound on a cell's event sequence for gameplay events

ASSUME HandoffAssumption ==
    /\ Origin \in Cells
    /\ AbortPoints \subseteq {"unproved", "quarantining", "proved"}
    /\ MaxFaults \in Nat
    /\ MaxOperations \in Nat
    /\ MaxGameplay \in Nat
    /\ Packages = Transfers
    /\ Fences \X (Events \cup {0}) \subseteq Receipts
    /\ \A c \in Cells : \E d \in Cells : d # c

VARIABLES
    world,      \* per cell, the durable world and transfer boundaries
    halt,       \* per cell, Runtime::halted and what its memory has seen
    package,    \* the package artifacts
    receipt,    \* the quarantine receipt artifacts
    stage,      \* "down", "opening", "ready"
    opened,     \* cells whose store this process has opened
    assigned,   \* cells whose assignment this process holds
    pending,    \* transfers that open has still to reconcile
    task,       \* the transfer reconcile_transfer works on
    failed,     \* a call on this coordinator has failed
    faults      \* faults so far

handoffVars ==
    <<world, halt, package, receipt, stage, opened, assigned, pending, task,
      failed, faults>>

vars == <<dirVars, handoffVars>>

-----------------------------------------------------------------------------
(* Durable cell state.                                                     *)

Kinds == {"Prepare", "Quarantine", "Import", "Export", "AbortSource",
          "AbortDestination"}

Closure == [operations : 0..MaxOperations, at : Cells]

Boundary == [event : Events \cup {0}, fence : 0..MaxFence,
             receipt : Receipts \cup {None}]

NoBoundary == [event |-> 0, fence |-> 0, receipt |-> None]

World ==
    [sequence    : Events \cup {0},
     fence       : 0..MaxFence,
     player      : [Aggregates -> Closure \cup {None}],
     lock        : [Aggregates -> Transfers \cup {None}],
     reservation : [Transfers -> Receipts \cup {None}],
     witness     : [Transfers -> {"None", "Import", "Export"}],
     boundary    : [Transfers -> [Kinds -> Boundary]]]

Package ==
    [player : Aggregates, source : Cells, destination : Cells,
     sourceGen : 0..MaxGeneration, destGen : 0..MaxGeneration,
     priorGen : 0..MaxGeneration, fence : 0..MaxFence, closure : Closure]

(* None, which marks what is absent, is neither a closure nor a package.   *)
ASSUME HandoffValues == None \notin Closure /\ None \notin Package

Present(c, p) == world[c].player[p] # None
Unlocked(c, p) == Present(c, p) /\ world[c].lock[p] = None

(* The boundary that Store::transfer_boundary returns: after an error that *)
(* followed the journal write, memory may lack the last durable event.     *)
Seen(c, t, kind) ==
    LET b == world[c].boundary[t][kind]
    IN  /\ b.event # 0
        /\ halt[c] = "unseen" => b.event < world[c].sequence

(* The proof that engine.rs derives from a durable boundary.               *)
ProofOf(c, t, kind) ==
    LET b == world[c].boundary[t][kind]
    IN  [package |-> t, generation |-> 0, fence |-> b.fence,
         event |-> b.event, receipt |-> b.receipt]

(* commit_world_event of a transfer event: the next world w, one event     *)
(* later, with its boundary.                                               *)
EventOutcomes == {"ok", "lost", "late", "unseen"}

Recorded(w, t, kind, rcpt) ==
    [w EXCEPT !.sequence = @ + 1,
              !.boundary[t][kind] =
                  [event |-> w.sequence + 1, fence |-> w.fence, receipt |-> rcpt]]

CommitEvent(c, w, outcome) ==
    /\ halt[c] = "no"
    /\ world[c].sequence + 1 \in Events
    /\ \/ /\ outcome = "ok"
          /\ world' = [world EXCEPT ![c] = w]
          /\ UNCHANGED halt
       \/ /\ outcome = "lost"
          /\ halt' = [halt EXCEPT ![c] = "seen"]
          /\ UNCHANGED world
       \/ /\ outcome = "late"
          /\ world' = [world EXCEPT ![c] = w]
          /\ halt' = [halt EXCEPT ![c] = "seen"]
       \/ /\ outcome = "unseen"
          /\ world' = [world EXCEPT ![c] = w]
          /\ halt' = [halt EXCEPT ![c] = "unseen"]

-----------------------------------------------------------------------------
(* The staging functions of handoff.rs.  StageX is the world after the     *)
(* event, StageXOk the checks without which it is rejected.                *)

Matches(k, r) ==
    /\ r.aggregate = k.player
    /\ r.source = k.source
    /\ r.destination = k.destination
    /\ r.sourceGen = k.sourceGen
    /\ r.destGen = k.destGen
    /\ r.priorGen = k.priorGen

(* Variants of an operation with a plausible fault are named for it: they  *)
(* show that the properties notice it, and no specification uses them.     *)
StagePreparedLockOkSameFence(w, t, k, r) ==
    /\ r.phase \in PreCommit
    /\ Matches(k, r)
    /\ \/ w.lock[k.player] = t
       \/ /\ w.lock[k.player] = None
          /\ w.fence = k.fence
          /\ w.player[k.player] = k.closure

StagePreparedLockOk(w, t, k, r) ==
    /\ r.phase \in PreCommit
    /\ Matches(k, r)
    /\ \/ w.lock[k.player] = t
       \/ /\ w.lock[k.player] = None
          /\ w.fence >= k.fence
          /\ w.player[k.player] = k.closure

StagePreparedLockForgotten(w, t, k) == w

StagePreparedLock(w, t, k) ==
    [w EXCEPT !.lock[k.player] = t]

(* The receipt a destination issues, or the one its reservation retains.   *)
ReceiptFor(w, t) ==
    IF w.reservation[t] # None THEN w.reservation[t]
    ELSE <<w.fence, w.sequence>>

ReservedFor(w, u, p) == w.reservation[u] # None /\ package[u].player = p

StageQuarantineOk(w, t, k) ==
    \/ w.reservation[t] # None
    \/ /\ w.player[k.player] = None
       /\ \A u \in Transfers : ~ReservedFor(w, u, k.player)

StageQuarantine(w, t) ==
    [w EXCEPT !.reservation[t] = ReceiptFor(w, t)]

StageImportOkSameFence(w, t, k, r, rcpt) ==
    /\ r.phase \in PostCommit
    /\ Matches(k, r)
    /\ r.receipt = rcpt
    /\ w.witness[t] = "None"
    /\ w.reservation[t] = rcpt
    /\ w.fence = rcpt[1]
    /\ w.player[k.player] = None

StageImportOk(w, t, k, r, rcpt) ==
    /\ r.phase \in PostCommit
    /\ Matches(k, r)
    /\ r.receipt = rcpt
    /\ \/ /\ w.witness[t] = "Import"
          /\ w.player[k.player] = k.closure
       \/ /\ w.witness[t] = "None"
          /\ w.reservation[t] = rcpt
          /\ w.fence >= rcpt[1]
          /\ w.player[k.player] = None

StageImport(w, t, k) ==
    [w EXCEPT !.player[k.player] = k.closure,
              !.reservation[t] = None,
              !.witness[t] = "Import"]

StageExportOk(w, t, k, r) ==
    /\ r.phase \in PostCommit
    /\ Matches(k, r)
    /\ \/ /\ w.witness[t] = "Export"
          /\ w.player[k.player] = None
       \/ /\ w.witness[t] = "None"
          /\ w.fence >= k.fence
          /\ w.lock[k.player] = t
          /\ w.player[k.player] = k.closure

StageExport(w, t, k) ==
    [w EXCEPT !.player[k.player] = None,
              !.lock[k.player] = None,
              !.witness[t] = "Export"]

StageAbortedSourceOk(w, t, k, r) ==
    /\ r.phase = "Aborting"
    /\ Matches(k, r)
    /\ \/ /\ w.lock[k.player] = None
          /\ w.player[k.player] # None
          /\ w.witness[t] = "None"
       \/ /\ w.lock[k.player] = t
          /\ w.player[k.player] = k.closure

StageAbortedSourceStillLocked(w, k) == w

StageAbortedSource(w, k) == [w EXCEPT !.lock[k.player] = None]

StageAbortedDestinationOk(w, t, k, r) ==
    /\ r.phase = "Aborting"
    /\ Matches(k, r)
    /\ w.player[k.player] = None
    /\ w.witness[t] = "None"
    /\ w.reservation[t] \in {None, r.receipt}

StageAbortedDestination(w, t) ==
    [w EXCEPT !.reservation[t] = None]

-----------------------------------------------------------------------------
(* A call that fails returns to its caller; every failure is a fault,      *)
(* except the refusals that follow from an earlier one.                    *)

Result(outcome) ==
    IF outcome = "ok"
    THEN UNCHANGED <<failed, faults>>
    ELSE /\ faults < MaxFaults
         /\ faults' = faults + 1
         /\ failed' = TRUE

(* After a failed step reconcile_transfer returns; after the last it is    *)
(* done.                                                                   *)
TaskAfter(outcome, done) == task' = IF outcome # "ok" \/ done THEN None ELSE task

-----------------------------------------------------------------------------
(* LocalTwoCellRuntime::open.                                              *)

StartOpen ==
    /\ stage = "down"
    /\ OpenDirectory
    /\ stage' = "opening"
    /\ opened' = {}
    /\ assigned' = {}
    /\ pending' = {t \in Transfers : disk.transfers[t].phase # "Absent"}
    /\ task' = None
    /\ failed' = FALSE
    /\ UNCHANGED <<world, halt, package, receipt, faults>>

(* Runtime::open_directory_managed_for_cell acquires the next store fence. *)
OpenCell(c) ==
    /\ stage = "opening" /\ ~failed
    /\ c \notin opened
    /\ opened = assigned
    /\ c # Origin => Origin \in assigned
    /\ world[c].fence < MaxFence
    /\ world' = [world EXCEPT ![c].fence = @ + 1]
    /\ opened' = opened \cup {c}
    /\ UNCHANGED <<dirVars, halt, package, receipt, stage, assigned, pending,
                   task, failed, faults>>

(* The directory then issues the successor generation under that fence.    *)
AssignCell(c, outcome) ==
    /\ stage = "opening" /\ ~failed
    /\ c \in opened \ assigned
    /\ LET gen == doc.assignments[c].generation
       IN  \E h \in Holders :
             \/ Claim(c, gen, h, world[c].fence, outcome)
             \/ RecoverAssignment(c, gen, h, world[c].fence, outcome)
    /\ assigned' = IF outcome = "ok" THEN assigned \cup {c} ELSE assigned
    /\ Result(outcome)
    /\ UNCHANGED <<world, halt, package, receipt, stage, opened, pending, task>>

(* verify_transfer_record_proofs on both cells: every proof on record is   *)
(* the replayed cell event.                                                *)
ProofVerifies(c, t, kind, q) ==
    q # NoProof =>
        /\ Seen(c, t, kind)
        /\ Resolved(ProofOf(c, t, kind), q.generation) = q

VerifyTransferRecordProofs(d, t) ==
    LET r == d.transfers[t]
    IN  /\ ProofVerifies(r.source, t, "Prepare", r.prepare)
        /\ ProofVerifies(r.destination, t, "Quarantine", r.quarantine)
        /\ ProofVerifies(r.destination, t, "Import", r.import)
        /\ ProofVerifies(r.source, t, "Export", r.finalization)
        /\ ProofVerifies(r.source, t, "AbortSource", r.sourceAbort)
        /\ ProofVerifies(r.destination, t, "AbortDestination", r.destAbort)

(* reconcile_transfers takes the records in the order of their random ids: *)
(* terminal ones are only verified.                                        *)
ReconcileNext(t) ==
    /\ stage = "opening" /\ ~failed
    /\ assigned = Cells
    /\ task = None
    /\ t \in pending
    /\ VerifyTransferRecordProofs(doc, t)
    /\ pending' = pending \ {t}
    /\ task' = IF doc.transfers[t].phase \in Terminal THEN None ELSE t
    /\ UNCHANGED <<dirVars, world, halt, package, receipt, stage, opened,
                   assigned, failed, faults>>

(* register_resident_players.                                              *)
RosterAgrees ==
    \A p \in Aggregates, c \in Cells :
        Present(c, p) =>
            /\ \A d \in Cells \ {c} : ~Present(d, p)
            /\ \/ doc.placements[p].state = "Absent"
               \/ /\ doc.placements[p].state = "Resident"
                  /\ doc.placements[p].cell = c

Reconciled ==
    /\ stage = "opening" /\ ~failed
    /\ assigned = Cells
    /\ task = None
    /\ pending = {}
    /\ RosterAgrees

RegisterResident(c, p, outcome) ==
    /\ Reconciled
    /\ Present(c, p)
    /\ RegisterPlacement(p, c, outcome)
    /\ Result(outcome)
    /\ UNCHANGED <<world, halt, package, receipt, stage, opened, assigned,
                   pending, task>>

FinishOpen ==
    /\ Reconciled
    /\ \A p \in Aggregates, c \in Cells :
          Present(c, p) => doc.placements[p].state # "Absent"
    /\ stage' = "ready"
    /\ UNCHANGED <<dirVars, world, halt, package, receipt, opened, assigned,
                   pending, task, failed, faults>>

(* The states in which open returns an error because reconciliation or the *)
(* roster disagrees.  NeverWedged shows that none is reached, so there is  *)
(* no step for it.                                                         *)
OpenRefused ==
    /\ stage = "opening" /\ ~failed
    /\ assigned = Cells
    /\ task = None
    /\ \/ \E t \in pending : ~VerifyTransferRecordProofs(doc, t)
       \/ pending = {} /\ ~RosterAgrees

(* The process ends: by a crash at any point, or because the coordinator   *)
(* failed and its host gives it up.                                        *)
Stop ==
    /\ stage' = "down"
    /\ CloseDirectory
    /\ halt' = [c \in Cells |-> "no"]
    /\ opened' = {}
    /\ assigned' = {}
    /\ pending' = {}
    /\ task' = None
    /\ failed' = FALSE
    /\ UNCHANGED <<world, package, receipt>>

Crash ==
    /\ stage # "down" /\ ~failed
    /\ faults < MaxFaults
    /\ faults' = faults + 1
    /\ Stop

GiveUp ==
    /\ stage # "down" /\ failed
    /\ UNCHANGED faults
    /\ Stop

-----------------------------------------------------------------------------
(* Gameplay on a ready coordinator.                                        *)

Ready == stage = "ready" /\ task = None /\ ~failed

(* execute_as_at: the current route names the one resident placement, and  *)
(* the cell accepts operations of players it has not locked.               *)
ExecuteAsAt(p, outcome) ==
    LET c == doc.placements[p].cell
    IN  /\ Ready
        /\ doc.placements[p].state = "Resident"
        /\ Unlocked(c, p)
        /\ world[c].player[p].operations < MaxOperations
        /\ world[c].sequence < MaxGameplay
        /\ CommitEvent(c, [world[c] EXCEPT
              !.sequence = @ + 1,
              !.player[p].operations = @ + 1],
              outcome)
        /\ Result(outcome)
        /\ UNCHANGED <<dirVars, package, receipt, stage, opened, assigned,
                       pending, task>>

(* A physics step of advance_with_outcome moves the players of a cell,     *)
(* locked ones apart, possibly across its boundary; the directory is not   *)
(* asked.                                                                  *)
AdvanceCell(c, p, dst, outcome) ==
    /\ Ready
    /\ Unlocked(c, p)
    /\ world[c].player[p].at # dst
    /\ world[c].sequence < MaxGameplay
    /\ CommitEvent(c, [world[c] EXCEPT
          !.sequence = @ + 1,
          !.player[p].at = dst], outcome)
    /\ Result(outcome)
    /\ UNCHANGED <<dirVars, package, receipt, stage, opened, assigned, pending,
                   task>>

-----------------------------------------------------------------------------
(* handoff_player, up to the directory's prepare.                          *)

(* The artifact publication can fail before or after the file is in place. *)
ArtifactOutcomes == {"ok", "lost", "late"}

PersistPackage(p, t, outcome) ==
    LET c == doc.placements[p].cell
        x == world[c].player[p]
    IN  /\ Ready
        /\ doc.placements[p].state = "Resident"
        /\ doc.placements[p].transfer = None
        /\ Present(c, p)
        /\ x.at # c
        /\ doc.assignments[c].state = "Assigned"
        /\ doc.assignments[x.at].state = "Assigned"
        /\ doc.placements[p].generation < MaxGeneration
        /\ package[t] = None
        /\ package' = IF outcome = "lost" THEN package ELSE
              [package EXCEPT ![t] =
                 [player |-> p, source |-> c, destination |-> x.at,
                  sourceGen |-> doc.assignments[c].generation,
                  destGen |-> doc.assignments[x.at].generation,
                  priorGen |-> doc.placements[p].generation,
                  fence |-> world[c].fence, closure |-> x]]
        /\ task' = IF outcome = "ok" THEN t ELSE None
        /\ Result(outcome)
        /\ UNCHANGED <<dirVars, world, halt, receipt, stage, opened, assigned,
                       pending>>

-----------------------------------------------------------------------------
(* reconcile_transfer.                                                     *)

StepName(t) ==
    LET r == doc.transfers[t]
        abortingAt(role) == r.phase = "Aborting" /\ CleanupProof(r, role) = NoProof
    IN  IF r.phase = "Absent" THEN "prepareTransfer"
        ELSE IF abortingAt("Source") THEN
            IF Seen(r.source, t, "AbortSource") THEN "recordAbortSource" ELSE "abortSource"
        ELSE IF abortingAt("Destination") THEN
            IF Seen(r.destination, t, "AbortDestination") THEN "recordAbortDestination"
            ELSE "abortDestination"
        ELSE IF r.phase = "Aborting" THEN "finalizeAbort"
        ELSE IF r.phase \in PreCommit THEN
            IF ~Seen(r.source, t, "Prepare") THEN "lock"
            ELSE IF r.prepare = NoProof THEN "recordSourcePrepared"
            ELSE IF ~Seen(r.destination, t, "Quarantine") THEN "quarantine"
            ELSE IF receipt[t] = None THEN "persistReceipt"
            ELSE IF r.phase = "Prepared" THEN "recordQuarantine" ELSE "commitTransfer"
        ELSE IF r.phase = "Committed" THEN
            IF Seen(r.destination, t, "Import") THEN "recordImported" ELSE "import"
        ELSE IF r.phase = "Imported" /\ ~Seen(r.source, t, "Export") THEN "export"
        ELSE "finalizeTransfer"

Running(t, name) == task = t /\ ~failed /\ StepName(t) = name

(* A step that writes the directory.                                       *)
DirectoryStep(outcome, done) ==
    /\ Result(outcome)
    /\ TaskAfter(outcome, done)
    /\ UNCHANGED <<world, halt, package, receipt, stage, opened, assigned, pending>>

(* A step that commits a cell event.                                       *)
CellStep(c, w, outcome) ==
    /\ CommitEvent(c, w, outcome)
    /\ Result(outcome)
    /\ TaskAfter(outcome, FALSE)
    /\ UNCHANGED <<dirVars, package, receipt, stage, opened, assigned, pending>>

PrepareStep(t, outcome) ==
    LET k == package[t]
    IN  /\ Running(t, "prepareTransfer")
        /\ PrepareTransfer(k.player, k.priorGen, t, k.destination, t, outcome)
        /\ DirectoryStep(outcome, FALSE)

CommitPlayerTransferPrepared(t, outcome) ==
    LET r == doc.transfers[t]
        w == world[r.source]
    IN  /\ Running(t, "lock")
        /\ StagePreparedLockOk(w, t, package[t], r)
        /\ CellStep(r.source,
                    Recorded(StagePreparedLock(w, t, package[t]), t, "Prepare", None),
                    outcome)

RecordSourcePreparedStep(t, outcome) ==
    /\ Running(t, "recordSourcePrepared")
    /\ \E g \in Generations :
          RecordSourcePrepared(t, ProofOf(doc.transfers[t].source, t, "Prepare"), g, outcome)
    /\ DirectoryStep(outcome, FALSE)

CommitPlayerTransferQuarantined(t, outcome) ==
    LET r == doc.transfers[t]
        w == world[r.destination]
    IN  /\ Running(t, "quarantine")
        /\ StageQuarantineOk(w, t, package[t])
        /\ CellStep(r.destination,
                    Recorded(StageQuarantine(w, t), t, "Quarantine", ReceiptFor(w, t)),
                    outcome)

PersistQuarantineReceipt(t, outcome) ==
    LET r == doc.transfers[t]
    IN  /\ Running(t, "persistReceipt")
        /\ receipt' = IF outcome = "lost" THEN receipt ELSE
              [receipt EXCEPT ![t] = world[r.destination].boundary[t]["Quarantine"].receipt]
        /\ Result(outcome)
        /\ TaskAfter(outcome, FALSE)
        /\ UNCHANGED <<dirVars, world, halt, package, stage, opened, assigned, pending>>

RecordQuarantineStep(t, outcome) ==
    /\ Running(t, "recordQuarantine")
    /\ \E g \in Generations :
          RecordQuarantine(t, ProofOf(doc.transfers[t].destination, t, "Quarantine"), g, outcome)
    /\ DirectoryStep(outcome, FALSE)

CommitTransferStep(t, outcome) ==
    /\ Running(t, "commitTransfer")
    /\ CommitTransfer(t, doc.transfers[t].priorGen, outcome)
    /\ DirectoryStep(outcome, FALSE)

CommitPlayerTransferImported(t, outcome) ==
    LET r == doc.transfers[t]
        w == world[r.destination]
    IN  /\ Running(t, "import")
        /\ receipt[t] # None
        /\ StageImportOk(w, t, package[t], r, receipt[t])
        /\ CellStep(r.destination,
                    Recorded(StageImport(w, t, package[t]), t, "Import", receipt[t]),
                    outcome)

RecordImportedStep(t, outcome) ==
    /\ Running(t, "recordImported")
    /\ \E g \in Generations :
          RecordImported(t, ProofOf(doc.transfers[t].destination, t, "Import"), g, outcome)
    /\ DirectoryStep(outcome, FALSE)

CommitPlayerTransferExported(t, outcome) ==
    LET r == doc.transfers[t]
        w == world[r.source]
    IN  /\ Running(t, "export")
        /\ StageExportOk(w, t, package[t], r)
        /\ CellStep(r.source,
                    Recorded(StageExport(w, t, package[t]), t, "Export", None),
                    outcome)

FinalizeTransferStep(t, outcome) ==
    /\ Running(t, "finalizeTransfer")
    /\ \E g \in Generations :
          FinalizeTransfer(t, ProofOf(doc.transfers[t].source, t, "Export"), g, outcome)
    /\ DirectoryStep(outcome, TRUE)

CommitPlayerTransferAborted(t, role, outcome) ==
    LET r == doc.transfers[t]
        c == RoleCell(r, role)
        w == world[c]
    IN  \/ /\ role = "Source"
           /\ Running(t, "abortSource")
           /\ StageAbortedSourceOk(w, t, package[t], r)
           /\ CellStep(c, Recorded(StageAbortedSource(w, package[t]), t, "AbortSource", None),
                       outcome)
        \/ /\ role = "Destination"
           /\ Running(t, "abortDestination")
           /\ StageAbortedDestinationOk(w, t, package[t], r)
           /\ CellStep(c, Recorded(StageAbortedDestination(w, t), t, "AbortDestination", None),
                       outcome)

AbortKind(role) == IF role = "Source" THEN "AbortSource" ELSE "AbortDestination"

RecordAbortCleanupStep(t, role, outcome) ==
    /\ Running(t, IF role = "Source" THEN "recordAbortSource" ELSE "recordAbortDestination")
    /\ \E g \in Generations :
          RecordAbortCleanup(t, role,
              ProofOf(RoleCell(doc.transfers[t], role), t, AbortKind(role)), g, outcome)
    /\ DirectoryStep(outcome, FALSE)

FinalizeAbortStep(t, outcome) ==
    /\ Running(t, "finalizeAbort")
    /\ FinalizeAbort(t, outcome)
    /\ DirectoryStep(outcome, TRUE)

(* The checks of the next step, which is refused when they fail.           *)
StepAccepted(t) ==
    LET r == doc.transfers[t]
        k == package[t]
        name == StepName(t)
        src == world[r.source]
        dst == world[r.destination]
        some(Ok(_)) == \E g \in Generations : Ok(g)
    IN  CASE name = "prepareTransfer" ->
                PrepareTransferOk(doc, k.player, k.priorGen, t, k.destination)
          [] name = "lock" -> StagePreparedLockOk(src, t, k, r)
          [] name = "recordSourcePrepared" ->
                some(LAMBDA g : RecordSourcePreparedOk(doc, t, ProofOf(r.source, t, "Prepare"), g))
          [] name = "quarantine" -> StageQuarantineOk(dst, t, k)
          [] name = "persistReceipt" -> TRUE
          [] name = "recordQuarantine" ->
                some(LAMBDA g : RecordQuarantineOk(doc, t, ProofOf(r.destination, t, "Quarantine"), g))
          [] name = "commitTransfer" -> CommitTransferOk(doc, t, r.priorGen)
          [] name = "import" -> receipt[t] # None /\ StageImportOk(dst, t, k, r, receipt[t])
          [] name = "recordImported" ->
                some(LAMBDA g : RecordImportedOk(doc, t, ProofOf(r.destination, t, "Import"), g))
          [] name = "export" -> StageExportOk(src, t, k, r)
          [] name = "finalizeTransfer" ->
                some(LAMBDA g : FinalizeTransferOk(doc, t, ProofOf(r.source, t, "Export"), g))
          [] name = "abortSource" -> StageAbortedSourceOk(src, t, k, r)
          [] name = "abortDestination" -> StageAbortedDestinationOk(dst, t, k, r)
          [] name = "recordAbortSource" ->
                some(LAMBDA g : RecordAbortCleanupOk(doc, t, "Source",
                                    ProofOf(r.source, t, "AbortSource"), g))
          [] name = "recordAbortDestination" ->
                some(LAMBDA g : RecordAbortCleanupOk(doc, t, "Destination",
                                    ProofOf(r.destination, t, "AbortDestination"), g))
          [] name = "finalizeAbort" -> FinalizeAbortOk(doc, t)

(* A step on a cell whose runtime has halted is refused as well.           *)
StepHalted(t) ==
    LET r == doc.transfers[t]
    IN  \/ StepName(t) \in {"lock", "export", "abortSource"} /\ halt[r.source] # "no"
        \/ StepName(t) \in {"quarantine", "import", "abortDestination"}
              /\ halt[r.destination] # "no"

StepRefused(t) ==
    /\ task = t /\ ~failed
    /\ ~StepAccepted(t) \/ StepHalted(t)
    /\ failed' = TRUE
    /\ task' = None
    /\ UNCHANGED <<dirVars, world, halt, package, receipt, stage, opened, assigned,
                   pending, faults>>

-----------------------------------------------------------------------------
(* abort_transfer on the coordinator whose handoff_player has failed: its  *)
(* halted flag is not asked.                                               *)

(* How far the transfer has come when the abort is asked for.              *)
AbortPoint(t) ==
    LET r == doc.transfers[t]
    IN  IF r.receipt = None /\ world[r.destination].reservation[t] # None THEN "quarantining"
        ELSE IF r.prepare = NoProof THEN "unproved"
        ELSE "proved"

AbortTransfer(t, outcome) ==
    /\ stage = "ready" /\ failed
    /\ task = None /\ Usable
    /\ AbortPoint(t) \in AbortPoints
    /\ \/ RequestAbort(t, outcome)
       \/ /\ outcome = "ok"
          /\ doc.transfers[t].phase = "Aborting"
          /\ RequestAbortRetry(doc, t)
          /\ UNCHANGED dirVars
    /\ IF outcome = "ok"
       THEN /\ failed' = ~VerifyTransferRecordProofs(doc', t)
            /\ task' = IF failed' THEN None ELSE t
            /\ UNCHANGED faults
       ELSE /\ Result(outcome)
            /\ UNCHANGED task
    /\ UNCHANGED <<world, halt, package, receipt, stage, opened, assigned, pending>>

-----------------------------------------------------------------------------
(* The specification.                                                      *)

InitialWorld(c) ==
    [sequence    |-> 0,
     fence       |-> 0,
     player      |-> [p \in Aggregates |->
                        IF c = Origin THEN [operations |-> 0, at |-> c] ELSE None],
     lock        |-> [p \in Aggregates |-> None],
     reservation |-> [t \in Transfers |-> None],
     witness     |-> [t \in Transfers |-> "None"],
     boundary    |-> [t \in Transfers |-> [k \in Kinds |-> NoBoundary]]]

InitHandoff ==
    /\ doc = InitialDocument
    /\ disk = InitialDocument
    /\ open = FALSE
    /\ world = [c \in Cells |-> InitialWorld(c)]
    /\ halt = [c \in Cells |-> "no"]
    /\ package = [t \in Transfers |-> None]
    /\ receipt = [t \in Transfers |-> None]
    /\ stage = "down"
    /\ opened = {}
    /\ assigned = {}
    /\ pending = {}
    /\ task = None
    /\ failed = FALSE
    /\ faults = 0

OpenStep(o) ==
    \/ \E c \in Cells : AssignCell(c, o)
    \/ \E c \in Cells, p \in Aggregates : RegisterResident(c, p, o)

ReconcileDirectory(t, o) ==
    \/ PrepareStep(t, o)
    \/ RecordSourcePreparedStep(t, o)
    \/ RecordQuarantineStep(t, o)
    \/ CommitTransferStep(t, o)
    \/ RecordImportedStep(t, o)
    \/ FinalizeTransferStep(t, o)
    \/ \E role \in AbortRoles : RecordAbortCleanupStep(t, role, o)
    \/ FinalizeAbortStep(t, o)

ReconcileCell(t, o) ==
    \/ CommitPlayerTransferPrepared(t, o)
    \/ CommitPlayerTransferQuarantined(t, o)
    \/ CommitPlayerTransferImported(t, o)
    \/ CommitPlayerTransferExported(t, o)
    \/ \E role \in AbortRoles : CommitPlayerTransferAborted(t, role, o)

(* Steps of the coordinator that need no input and meet no fault.          *)
Progress ==
    \/ StartOpen
    \/ \E c \in Cells : OpenCell(c)
    \/ OpenStep("ok")
    \/ \E t \in Transfers :
          \/ ReconcileNext(t)
          \/ ReconcileDirectory(t, "ok")
          \/ ReconcileCell(t, "ok")
          \/ PersistQuarantineReceipt(t, "ok")
          \/ StepRefused(t)
    \/ FinishOpen
    \/ GiveUp

Faulty ==
    \/ \E o \in IoFaults :
          \/ OpenStep(o)
          \/ \E t \in Transfers : ReconcileDirectory(t, o)
    \/ \E t \in Transfers, o \in EventOutcomes \ {"ok"} : ReconcileCell(t, o)
    \/ \E t \in Transfers, o \in ArtifactOutcomes \ {"ok"} : PersistQuarantineReceipt(t, o)
    \/ Crash

Gameplay ==
    \/ \E p \in Aggregates, o \in EventOutcomes :
          \/ ExecuteAsAt(p, o)
          \/ \E c \in Cells, dst \in Cells : AdvanceCell(c, p, dst, o)
    \/ \E p \in Aggregates, t \in Transfers, o \in ArtifactOutcomes : PersistPackage(p, t, o)

NextHandoff ==
    \/ Progress
    \/ Faulty
    \/ Gameplay
    \/ \E t \in Transfers, o \in Outcomes : AbortTransfer(t, o)

SpecHandoff == InitHandoff /\ [][NextHandoff]_vars

(* The host restarts a coordinator that stopped, a call that has begun     *)
(* returns, and a coordinator that keeps failing is given up; faults,      *)
(* gameplay and aborts are never promised.                                 *)
FairSpecHandoff == SpecHandoff /\ WF_vars(Progress) /\ SF_vars(GiveUp)

-----------------------------------------------------------------------------
(* Properties.                                                             *)

(* Worlds, artifacts and coordinator state stay in their ranges.           *)
TypeOKHandoff ==
    /\ TypeOK
    /\ world \in [Cells -> World]
    /\ halt \in [Cells -> {"no", "seen", "unseen"}]
    /\ package \in [Transfers -> Package \cup {None}]
    /\ receipt \in [Transfers -> Receipts \cup {None}]
    /\ stage \in {"down", "opening", "ready"}
    /\ assigned \subseteq opened /\ opened \subseteq Cells
    /\ pending \subseteq Transfers
    /\ task \in Transfers \cup {None}
    /\ failed \in BOOLEAN
    /\ faults \in 0..MaxFaults

(* The cell the durable directory places a player in; before registration  *)
(* it is the one that holds it.                                            *)
Holder(p) ==
    IF disk.placements[p].state # "Absent" THEN disk.placements[p].cell
    ELSE CHOOSE c \in Cells : Present(c, p)

(* At every instant, crashes and lost acknowledgements included, a player  *)
(* exists in some cell, and only the cell the durable directory names may  *)
(* let it act: a copy elsewhere is locked for a transfer of this player.   *)
SoleAuthority ==
    \A p \in Aggregates :
        /\ \E c \in Cells : Present(c, p)
        /\ \A c \in Cells :
              /\ Unlocked(c, p) => c = Holder(p)
              /\ Present(c, p) /\ c # Holder(p) =>
                    disk.transfers[world[c].lock[p]].phase \in PostCommit

(* The player as its client knows it: placed where the durable directory   *)
(* says, frozen unless that cell has an unlocked copy, with the operations *)
(* of that cell's copy, or of the only copy while the import is due.       *)
CurrentCopy(p) ==
    IF Present(Holder(p), p) THEN world[Holder(p)].player[p]
    ELSE world[CHOOSE c \in Cells : Present(c, p)].player[p]

Authority ==
    INSTANCE PlayerAuthority WITH
        Players    <- Aggregates,
        holder     <- [p \in Aggregates |-> Holder(p)],
        generation <- [p \in Aggregates |-> disk.placements[p].generation],
        frozen     <- [p \in Aggregates |-> ~Unlocked(Holder(p), p)],
        operations <- [p \in Aggregates |-> CurrentCopy(p).operations]

ExactEvent(c, t, kind, q) ==
    q # NoProof =>
        /\ world[c].boundary[t][kind].event # 0
        /\ Resolved(ProofOf(c, t, kind), q.generation) = q
        /\ q.fence <= world[c].fence

ExactProofs(t) ==
    LET r == disk.transfers[t]
    IN  /\ ExactEvent(r.source, t, "Prepare", r.prepare)
        /\ ExactEvent(r.destination, t, "Quarantine", r.quarantine)
        /\ ExactEvent(r.destination, t, "Import", r.import)
        /\ ExactEvent(r.source, t, "Export", r.finalization)
        /\ ExactEvent(r.source, t, "AbortSource", r.sourceAbort)
        /\ ExactEvent(r.destination, t, "AbortDestination", r.destAbort)

(* Every proof that reaches the directory file is the exact cell event of  *)
(* its fence, and that fence is one of the cell's: whatever generation     *)
(* wrote the event, a successor that reopens finds the proof verified.     *)
ProofsAreCellEvents ==
    \A t \in Transfers : disk.transfers[t].phase # "Absent" => ExactProofs(t)

(* The two ledgers agree: a transfer is exported only after it was         *)
(* imported and committed, imported only from its commit, a finalized one  *)
(* has both witnesses, and an aborted one neither, nor a lock or a         *)
(* reservation.                                                            *)
WitnessesPair ==
    \A t \in Transfers :
        LET r == disk.transfers[t]
            export == world[r.source].witness[t] = "Export"
            import == world[r.destination].witness[t] = "Import"
        IN  r.phase # "Absent" =>
              /\ export => import
              /\ import => r.phase \in PostCommit
              /\ r.phase = "Finalized" => export /\ import
              /\ r.phase = "Aborted" =>
                    /\ world[r.source].lock[r.aggregate] # t
                    /\ world[r.destination].reservation[t] = None

(* What the cells, the artifacts and the directory file say about a        *)
(* transfer fits together at every crash point of reconcile_transfer.      *)
HandoffConsistent == TypeOKHandoff /\ ProofsAreCellEvents /\ WitnessesPair

(* No order of crashes, failed writes and takeovers brings the saga to a   *)
(* step that its own checks refuse: a reconciliation stops only because a  *)
(* cell has halted, and open never finds proofs or roster in disagreement. *)
NeverWedged ==
    /\ task # None => StepAccepted(task)
    /\ ~OpenRefused

(* Every transfer ends finalized or aborted once faults stop.              *)
TransfersTerminate ==
    \A t \in Transfers :
        (disk.transfers[t].phase \notin Terminal \cup {"Absent"})
            ~> (disk.transfers[t].phase \in Terminal)

(* The coordinator, its crashes and failed writes included, implements     *)
(* PlayerAuthority: no accepted operation is lost or accepted while the    *)
(* player is frozen, the holder changes only while it is frozen, and a     *)
(* frozen player acts again, at one cell or the other.                     *)
ImplementsFairAuthority == Authority!FairSpecAuthority

=============================================================================
