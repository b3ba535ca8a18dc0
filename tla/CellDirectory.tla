--------------------------- MODULE CellDirectory ---------------------------
(***************************************************************************)
(* The durable universe directory of schema 2: which worker generation     *)
(* holds each proof cell, in which cell every mobile aggregate is placed,  *)
(* and how far each transfer between the two cells has come                *)
(* (crates/verse-simulation/src/cell_directory.rs, LocalCellDirectory).    *)
(*                                                                         *)
(* Every operation of the code clones the in-memory document, checks it,   *)
(* edits the clone, and hands it to commit_document, which writes it to    *)
(* the file and only then installs it in memory.  The module follows that  *)
(* shape: XOk is the condition under which operation X writes, XDoc the    *)
(* document it writes, and action X their combination with one of the      *)
(* outcomes the atomic file replacement can have.  XRetry is the           *)
(* condition under which the operation returns the record it finds,        *)
(* without a write; every other call is an error that changes nothing.     *)
(*                                                                         *)
(* Abstractions.  Text identities (cell keys, aggregate, transfer and      *)
(* holder ids) are model values, taken to be well formed.  A package hash  *)
(* is the content address of an immutable package, so that it stands for   *)
(* the transfer id, cells and placement generations that a proof repeats   *)
(* and the code compares one by one.  The sequence number, hash and world  *)
(* hash of a cell event are one number that names the event.  A key that   *)
(* a map of the code lacks is the value 0, or a record in state "Absent".  *)
(***************************************************************************)
EXTENDS Naturals, FiniteSets

CONSTANTS
    Cells,          \* the canonical cells of the universe
    Aggregates,     \* mobile aggregates: players and grids
    Transfers,      \* transfer identities
    Packages,       \* content addresses of transfer packages
    Receipts,       \* content addresses of quarantine receipts
    Holders,        \* worker identities
    Events,         \* durable cell events
    MaxRevision,    \* the last directory revision (u64::MAX)
    MaxGeneration,  \* the last assignment and placement generation (u64::MAX)
    MaxFence,       \* the last store fencing token (u64::MAX)
    None,           \* no holder, no active transfer, no receipt, no package
    IoFaults,       \* subset of {"lost", "unacknowledged"}
    ReopenAfterIoError  \* callers give up a handle whose write failed

ASSUME DirectoryAssumption ==
    /\ MaxRevision \in Nat \ {0}
    /\ MaxGeneration \in Nat \ {0}
    /\ MaxFence \in Nat \ {0}
    /\ Cells # {}
    /\ Aggregates # {}
    /\ Events \subseteq Nat \ {0}
    /\ IoFaults \subseteq {"lost", "unacknowledged"}
    /\ ReopenAfterIoError \in BOOLEAN
    /\ None \notin Transfers
    /\ None \notin Holders
    /\ None \notin Receipts

VARIABLES
    doc,    \* LocalCellDirectory::document, the document in memory
    disk,   \* the document in cell-directory.json
    open    \* a process holds the directory lock and a valid handle

dirVars == <<doc, disk, open>>

-----------------------------------------------------------------------------
(* The document.                                                           *)

Generations == 1..MaxGeneration
Fences      == 1..MaxFence

AssignmentStates == {"Sleeping", "Assigned"}
PlacementStates  == {"Absent", "Resident", "Preparing", "InTransit"}
PreCommit        == {"Prepared", "Quarantined"}
PostCommit       == {"Committed", "Imported", "Finalized"}
Phases           == PreCommit \cup PostCommit \cup {"Aborting", "Aborted"}
Terminal         == {"Finalized", "Aborted"}

Assignment ==
    [generation : 0..MaxGeneration,
     fence      : 0..MaxFence,
     history    : [Generations -> 0..MaxFence],
     state      : AssignmentStates,
     holder     : Holders \cup {None}]

Placement ==
    [state      : PlacementStates,
     cell       : Cells,
     generation : 0..MaxGeneration,
     transfer   : Transfers \cup {None}]

Proof ==
    [package    : Packages \cup {None},
     generation : 0..MaxGeneration,
     fence      : 0..MaxFence,
     event      : Events \cup {0},
     receipt    : Receipts \cup {None}]

NoProof ==
    [package |-> None, generation |-> 0, fence |-> 0, event |-> 0,
     receipt |-> None]

Transfer ==
    [phase        : Phases \cup {"Absent"},
     aggregate    : Aggregates,
     source       : Cells,
     destination  : Cells,
     sourceGen    : 0..MaxGeneration,
     destGen      : 0..MaxGeneration,
     priorGen     : 0..MaxGeneration,
     resultGen    : 0..MaxGeneration,
     package      : Packages \cup {None},
     receipt      : Receipts \cup {None},
     prepare      : Proof,
     quarantine   : Proof,
     import       : Proof,
     finalization : Proof,
     sourceAbort  : Proof,
     destAbort    : Proof]

Document ==
    [revision    : 1..MaxRevision,
     assignments : [Cells -> Assignment],
     placements  : [Aggregates -> Placement],
     transfers   : [Transfers -> Transfer]]

AnyCell      == CHOOSE c \in Cells : TRUE
AnyAggregate == CHOOSE a \in Aggregates : TRUE

AbsentPlacement ==
    [state |-> "Absent", cell |-> AnyCell, generation |-> 0, transfer |-> None]

AbsentTransfer ==
    [phase |-> "Absent", aggregate |-> AnyAggregate,
     source |-> AnyCell, destination |-> AnyCell,
     sourceGen |-> 0, destGen |-> 0, priorGen |-> 0, resultGen |-> 0,
     package |-> None, receipt |-> None,
     prepare |-> NoProof, quarantine |-> NoProof, import |-> NoProof,
     finalization |-> NoProof, sourceAbort |-> NoProof, destAbort |-> NoProof]

(* canonical_assignments: every cell of a new universe sleeps.             *)
CanonicalAssignment ==
    [generation |-> 0, fence |-> 0, history |-> [g \in Generations |-> 0],
     state |-> "Sleeping", holder |-> None]

InitialDocument ==
    [revision    |-> 1,
     assignments |-> [c \in Cells |-> CanonicalAssignment],
     placements  |-> [a \in Aggregates |-> AbsentPlacement],
     transfers   |-> [t \in Transfers |-> AbsentTransfer]]

-----------------------------------------------------------------------------
(* validate_document, the condition under which a stored document opens.   *)

(* The fencing history maps exactly the generations 1..generation to       *)
(* strictly increasing fences and ends in the current fence.               *)
ValidHistory(x) ==
    /\ \A g \in Generations : (x.history[g] # 0) <=> (g <= x.generation)
    /\ \A g \in Generations :
          g > 1 /\ g <= x.generation => x.history[g - 1] < x.history[g]
    /\ x.fence = IF x.generation = 0 THEN 0 ELSE x.history[x.generation]

ValidAssignment(x) ==
    /\ x.state = "Sleeping" => x.holder = None
    /\ x.state = "Assigned" => /\ x.generation # 0
                               /\ x.fence # 0
                               /\ x.holder # None
    /\ ValidHistory(x)

ValidPlacement(p) ==
    p.state # "Absent" =>
        /\ p.generation # 0
        /\ (p.state = "Resident") <=> (p.transfer = None)

(* validate_historical_proof_authority together with the bounds that the   *)
(* five validate_*_proof functions share.                                  *)
ProofBinds(q, x, minGen, package) ==
    /\ q.package = package
    /\ q.generation >= minGen
    /\ q.generation \in Generations
    /\ q.fence # 0
    /\ q.event # 0
    /\ x.history[q.generation] = q.fence

ValidProofs(d, r) ==
    LET src == d.assignments[r.source]
        dst == d.assignments[r.destination]
    IN  /\ r.prepare # NoProof => ProofBinds(r.prepare, src, r.sourceGen, r.package)
        /\ r.quarantine # NoProof =>
              /\ ProofBinds(r.quarantine, dst, r.destGen, r.package)
              /\ r.receipt = r.quarantine.receipt
        /\ r.import # NoProof =>
              /\ ProofBinds(r.import, dst, r.destGen, r.package)
              /\ r.receipt = r.import.receipt
        /\ r.finalization # NoProof =>
              ProofBinds(r.finalization, src, r.sourceGen, r.package)
        /\ r.sourceAbort # NoProof =>
              ProofBinds(r.sourceAbort, src, r.sourceGen, r.package)
        /\ r.destAbort # NoProof =>
              ProofBinds(r.destAbort, dst, r.destGen, r.package)

(* The placement is where the phase of the transfer says.                  *)
BoundAtSource(p, t, r) ==
    /\ p.state = "Preparing"
    /\ p.cell = r.source
    /\ p.generation = r.priorGen
    /\ p.transfer = t

BoundInTransit(p, t, r) ==
    /\ p.state = "InTransit"
    /\ p.cell = r.destination
    /\ p.generation = r.resultGen
    /\ p.transfer = t

PlacementMatches(p, t, r) ==
    CASE r.phase \in PreCommit \cup {"Aborting"} -> BoundAtSource(p, t, r)
      [] r.phase = "Committed" -> BoundInTransit(p, t, r)
      [] r.phase \in {"Imported", "Finalized"} ->
            \/ p.generation > r.resultGen
            \/ p.generation = r.resultGen /\ p.cell = r.destination
      [] r.phase = "Aborted" ->
            \/ p.generation > r.priorGen
            \/ p.generation = r.priorGen /\ p.cell = r.source
      [] OTHER -> TRUE

(* Which proofs each phase must and must not carry.  The conjunct on the   *)
(* prepare proof is kept apart because request_abort can break it.         *)
PrepareProofPresent(r) ==
    r.prepare = NoProof => r.phase \in {"Prepared", "Aborted"}

PhaseProofs(r) ==
    /\ r.phase = "Prepared" => r.receipt = None
    /\ r.phase \in {"Quarantined"} \cup PostCommit =>
          r.receipt # None /\ r.quarantine # NoProof
    /\ (r.quarantine # NoProof) <=> (r.receipt # None)
    /\ (r.import # NoProof) <=> (r.phase \in {"Imported", "Finalized"})
    /\ (r.finalization # NoProof) <=> (r.phase = "Finalized")
    /\ r.sourceAbort # NoProof \/ r.destAbort # NoProof =>
          r.phase \in {"Aborting", "Aborted"}
    /\ r.phase = "Aborted" => r.sourceAbort # NoProof /\ r.destAbort # NoProof

ValidTransferIdentity(r) ==
    /\ r.source # r.destination
    /\ r.sourceGen # 0
    /\ r.destGen # 0
    /\ r.priorGen # 0
    /\ r.resultGen = r.priorGen + 1

ValidTransfer(d, t) ==
    LET r == d.transfers[t]
        p == d.placements[r.aggregate]
    IN  r.phase # "Absent" =>
          /\ p.state # "Absent"
          /\ ValidTransferIdentity(r)
          /\ ValidProofs(d, r)
          /\ PlacementMatches(p, t, r)
          /\ PhaseProofs(r)

ValidateDocument(d) ==
    /\ \A c \in Cells : ValidAssignment(d.assignments[c])
    /\ \A a \in Aggregates : ValidPlacement(d.placements[a])
    /\ \A t \in Transfers :
          /\ ValidTransfer(d, t)
          /\ d.transfers[t].phase # "Absent" => PrepareProofPresent(d.transfers[t])

-----------------------------------------------------------------------------
(* commit_document and write_json_atomic.  The file is replaced by a       *)
(* rename and the parent directory is then synchronised: an error before   *)
(* the rename loses the write, an error after it leaves the new document   *)
(* in the file and the old one in memory.                                  *)

Outcomes == {"ok"} \cup IoFaults

CommitDocument(next, outcome) ==
    /\ doc.revision < MaxRevision
    /\ LET written == [next EXCEPT !.revision = doc.revision + 1]
       IN  \/ /\ outcome = "ok"
              /\ doc' = written
              /\ disk' = written
           \/ /\ outcome = "lost"
              /\ UNCHANGED <<doc, disk>>
           \/ /\ outcome = "unacknowledged"
              /\ disk' = written
              /\ UNCHANGED doc
    /\ UNCHANGED open

(* A handle accepts calls while it is open; with ReopenAfterIoError its    *)
(* callers stop using it once a write has left memory behind the file.     *)
Usable ==
    /\ open
    /\ ReopenAfterIoError => doc = disk

(* LocalCellDirectory::open under the exclusive lock file.                 *)
OpenDirectory ==
    /\ ~open
    /\ ValidateDocument(disk)
    /\ open' = TRUE
    /\ doc' = disk
    /\ UNCHANGED disk

(* Drop, or the end of the process: the lock goes and memory is gone; the  *)
(* variable doc then repeats the file.                                     *)
CloseDirectory ==
    /\ open
    /\ open' = FALSE
    /\ doc' = disk
    /\ UNCHANGED disk

-----------------------------------------------------------------------------
(* Cell assignments.                                                       *)

SetAssignment(d, c, x) == [d EXCEPT !.assignments = [@ EXCEPT ![c] = x]]
SetPlacement(d, a, p)  == [d EXCEPT !.placements = [@ EXCEPT ![a] = p]]
SetTransfer(d, t, r)   == [d EXCEPT !.transfers = [@ EXCEPT ![t] = r]]

(* The successor generation is bound for ever to the fence it was issued   *)
(* under.                                                                  *)
Issue(x, h, f) ==
    [generation |-> x.generation + 1,
     fence      |-> f,
     history    |-> [x.history EXCEPT ![x.generation + 1] = f],
     state      |-> "Assigned",
     holder     |-> h]

AssignDoc(d, c, h, f) == SetAssignment(d, c, Issue(d.assignments[c], h, f))

ClaimOk(d, c, gen, f) ==
    LET x == d.assignments[c]
    IN  /\ x.generation = gen
        /\ x.state = "Sleeping"
        /\ x.holder = None
        /\ x.generation < MaxGeneration
        /\ f > x.fence

Claim(c, gen, h, f, outcome) ==
    /\ Usable
    /\ ClaimOk(doc, c, gen, f)
    /\ CommitDocument(AssignDoc(doc, c, h, f), outcome)

(* Variants of an operation with a plausible fault are named for it: they  *)
(* show that the properties notice it, and no specification uses them.     *)
RecoverAssignmentOkReusesFence(d, c, gen, f) ==
    LET x == d.assignments[c]
    IN  /\ x.generation = gen
        /\ x.state = "Assigned"
        /\ x.generation < MaxGeneration
        /\ f >= x.fence

RecoverAssignmentOk(d, c, gen, f) ==
    LET x == d.assignments[c]
    IN  /\ x.generation = gen
        /\ x.state = "Assigned"
        /\ x.generation < MaxGeneration
        /\ f > x.fence

RecoverAssignment(c, gen, h, f, outcome) ==
    /\ Usable
    /\ RecoverAssignmentOk(doc, c, gen, f)
    /\ CommitDocument(AssignDoc(doc, c, h, f), outcome)

(* A transfer that has not reached a terminal phase pins both its cells.   *)
Pins(d, t, c) ==
    LET r == d.transfers[t]
    IN  /\ r.phase \notin Terminal \cup {"Absent"}
        /\ c \in {r.source, r.destination}

ReleaseOkIgnoresDestination(d, c, gen, h) ==
    LET x == d.assignments[c]
    IN  /\ x.generation = gen
        /\ x.state = "Assigned"
        /\ x.holder = h
        /\ \A t \in Transfers : Pins(d, t, c) => d.transfers[t].source # c

ReleaseOk(d, c, gen, h) ==
    LET x == d.assignments[c]
    IN  /\ x.generation = gen
        /\ x.state = "Assigned"
        /\ x.holder = h
        /\ \A t \in Transfers : ~Pins(d, t, c)

ReleaseDoc(d, c) ==
    SetAssignment(d, c, [d.assignments[c] EXCEPT !.state = "Sleeping",
                                                 !.holder = None])

Release(c, gen, h, outcome) ==
    /\ Usable
    /\ ReleaseOk(doc, c, gen, h)
    /\ CommitDocument(ReleaseDoc(doc, c), outcome)

-----------------------------------------------------------------------------
(* Placements and the transfer saga.                                       *)

RegisterPlacementOk(d, a) == d.placements[a].state = "Absent"

RegisterPlacementDoc(d, a, c) ==
    SetPlacement(d, a, [state |-> "Resident", cell |-> c,
                        generation |-> 1, transfer |-> None])

RegisterPlacement(a, c, outcome) ==
    /\ Usable
    /\ RegisterPlacementOk(doc, a)
    /\ CommitDocument(RegisterPlacementDoc(doc, a, c), outcome)

PrepareTransferRetry(d, a, gen, t, dst, k) ==
    LET r == d.transfers[t]
    IN  /\ r.phase # "Absent"
        /\ r.aggregate = a
        /\ r.destination = dst
        /\ r.priorGen = gen
        /\ r.package = k

PrepareTransferOk(d, a, gen, t, dst) ==
    LET p == d.placements[a]
    IN  /\ d.transfers[t].phase = "Absent"
        /\ p.state = "Resident"
        /\ p.transfer = None
        /\ d.assignments[p.cell].state = "Assigned"
        /\ d.assignments[dst].state = "Assigned"
        /\ p.generation = gen
        /\ p.cell # dst
        /\ p.generation < MaxGeneration

NewTransfer(d, a, dst, k) ==
    LET p == d.placements[a]
    IN  [AbsentTransfer EXCEPT
            !.phase       = "Prepared",
            !.aggregate   = a,
            !.source      = p.cell,
            !.destination = dst,
            !.sourceGen   = d.assignments[p.cell].generation,
            !.destGen     = d.assignments[dst].generation,
            !.priorGen    = p.generation,
            !.resultGen   = p.generation + 1,
            !.package     = k]

PrepareTransferDoc(d, a, t, dst, k) ==
    SetTransfer(
        SetPlacement(d, a, [d.placements[a] EXCEPT !.state = "Preparing",
                                                   !.transfer = t]),
        t, NewTransfer(d, a, dst, k))

PrepareTransfer(a, gen, t, dst, k, outcome) ==
    /\ Usable
    /\ PrepareTransferOk(doc, a, gen, t, dst)
    /\ CommitDocument(PrepareTransferDoc(doc, a, t, dst, k), outcome)

(* resolve_proof_generation: the fence of a cell event names one durable   *)
(* generation g, and a generation the proof claims must be that one.       *)
ResolvesTo(x, claimed, f, g) ==
    /\ x.state = "Assigned"
    /\ f # 0
    /\ {h \in Generations : x.history[h] = f} = {g}
    /\ claimed \in {0, g}

(* What each record operation stores: the proof at its own generation.     *)
Resolved(q, g) == [q EXCEPT !.generation = g]

(* The checks common to the record operations: the fence resolves in the   *)
(* cell's history, and the proof binds the package of the transfer.        *)
ProofAccepted(d, t, c, minGen, q, g) ==
    /\ ResolvesTo(d.assignments[c], q.generation, q.fence, g)
    /\ ProofBinds(Resolved(q, g), d.assignments[c], minGen, d.transfers[t].package)

RecordSourcePreparedRetryUnresolved(d, t, q, g) ==
    LET r == d.transfers[t]
    IN  /\ r.phase # "Absent"
        /\ ProofAccepted(d, t, r.source, r.sourceGen, q, g)
        /\ r.prepare = q

RecordSourcePreparedRetry(d, t, q, g) ==
    LET r == d.transfers[t]
    IN  /\ r.phase # "Absent"
        /\ ProofAccepted(d, t, r.source, r.sourceGen, q, g)
        /\ r.prepare = Resolved(q, g)

RecordSourcePreparedOk(d, t, q, g) ==
    LET r == d.transfers[t]
    IN  /\ r.phase = "Prepared"
        /\ ProofAccepted(d, t, r.source, r.sourceGen, q, g)
        /\ r.prepare = NoProof

RecordSourcePreparedDoc(d, t, q, g) ==
    SetTransfer(d, t, [d.transfers[t] EXCEPT !.prepare = Resolved(q, g)])

RecordSourcePrepared(t, q, g, outcome) ==
    /\ Usable
    /\ RecordSourcePreparedOk(doc, t, q, g)
    /\ CommitDocument(RecordSourcePreparedDoc(doc, t, q, g), outcome)

RecordQuarantineRetry(d, t, q, g) ==
    LET r == d.transfers[t]
    IN  /\ r.phase = "Quarantined"
        /\ r.package = q.package
        /\ ResolvesTo(d.assignments[r.destination], q.generation, q.fence, g)
        /\ r.receipt = q.receipt
        /\ r.quarantine = Resolved(q, g)

RecordQuarantineOk(d, t, q, g) ==
    LET r == d.transfers[t]
    IN  /\ r.phase = "Prepared"
        /\ r.receipt = None
        /\ r.prepare # NoProof
        /\ q.receipt \in Receipts
        /\ ProofAccepted(d, t, r.destination, r.destGen, q, g)

RecordQuarantineDocLiveAuthority(d, t, q, g) ==
    LET dst == d.assignments[d.transfers[t].destination]
    IN  SetTransfer(d, t, [d.transfers[t] EXCEPT
            !.phase = "Quarantined",
            !.receipt = q.receipt,
            !.quarantine = [q EXCEPT !.generation = dst.generation, !.fence = dst.fence]])

RecordQuarantineDocSwapsHashes(d, t, q, g) ==
    SetTransfer(d, t, [d.transfers[t] EXCEPT !.phase = "Quarantined",
                                             !.receipt = q.package,
                                             !.quarantine = Resolved(q, g)])

RecordQuarantineDoc(d, t, q, g) ==
    SetTransfer(d, t, [d.transfers[t] EXCEPT !.phase = "Quarantined",
                                             !.receipt = q.receipt,
                                             !.quarantine = Resolved(q, g)])

RecordQuarantine(t, q, g, outcome) ==
    /\ Usable
    /\ RecordQuarantineOk(doc, t, q, g)
    /\ CommitDocument(RecordQuarantineDoc(doc, t, q, g), outcome)

CommitTransferRetry(d, t, gen) ==
    /\ d.transfers[t].phase \in PostCommit
    /\ d.transfers[t].priorGen = gen

CommitTransferOkUnquarantined(d, t, gen) ==
    LET r == d.transfers[t]
    IN  /\ r.phase \in PreCommit
        /\ r.priorGen = gen
        /\ BoundAtSource(d.placements[r.aggregate], t, r)

CommitTransferOk(d, t, gen) ==
    LET r == d.transfers[t]
        src == d.assignments[r.source]
        dst == d.assignments[r.destination]
    IN  /\ r.phase = "Quarantined"
        /\ r.priorGen = gen
        /\ r.receipt # None
        /\ r.prepare # NoProof
        /\ r.quarantine # NoProof
        /\ src.state = "Assigned"
        /\ dst.state = "Assigned"
        /\ src.generation >= r.sourceGen
        /\ dst.generation >= r.destGen
        /\ BoundAtSource(d.placements[r.aggregate], t, r)

CommitTransferDocSameGeneration(d, t) ==
    LET r == d.transfers[t]
    IN  SetTransfer(
            SetPlacement(d, r.aggregate,
                [d.placements[r.aggregate] EXCEPT !.cell = r.destination,
                                                  !.state = "InTransit"]),
            t, [r EXCEPT !.phase = "Committed"])

CommitTransferDoc(d, t) ==
    LET r == d.transfers[t]
    IN  SetTransfer(
            SetPlacement(d, r.aggregate,
                [d.placements[r.aggregate] EXCEPT !.cell = r.destination,
                                                  !.generation = r.resultGen,
                                                  !.state = "InTransit"]),
            t, [r EXCEPT !.phase = "Committed"])

CommitTransfer(t, gen, outcome) ==
    /\ Usable
    /\ CommitTransferOk(doc, t, gen)
    /\ CommitDocument(CommitTransferDoc(doc, t), outcome)

RecordImportedRetry(d, t, q, g) ==
    LET r == d.transfers[t]
    IN  /\ r.phase \in {"Imported", "Finalized"}
        /\ ResolvesTo(d.assignments[r.destination], q.generation, q.fence, g)
        /\ r.import = Resolved(q, g)

RecordImportedOk(d, t, q, g) ==
    LET r == d.transfers[t]
    IN  /\ r.phase = "Committed"
        /\ BoundInTransit(d.placements[r.aggregate], t, r)
        /\ ProofAccepted(d, t, r.destination, r.destGen, q, g)
        /\ q.receipt = r.receipt

SettleStillBound(d, a) ==
    SetPlacement(d, a, [d.placements[a] EXCEPT !.state = "Resident"])

(* The aggregate becomes resident where its placement is.                  *)
Settle(d, a) ==
    SetPlacement(d, a, [d.placements[a] EXCEPT !.state = "Resident",
                                               !.transfer = None])

RecordImportedDoc(d, t, q, g) ==
    LET r == d.transfers[t]
    IN  SetTransfer(Settle(d, r.aggregate), t,
                    [r EXCEPT !.phase = "Imported", !.import = Resolved(q, g)])

RecordImported(t, q, g, outcome) ==
    /\ Usable
    /\ RecordImportedOk(doc, t, q, g)
    /\ CommitDocument(RecordImportedDoc(doc, t, q, g), outcome)

FinalizeTransferRetry(d, t, q, g) ==
    LET r == d.transfers[t]
    IN  /\ r.phase = "Finalized"
        /\ ResolvesTo(d.assignments[r.source], q.generation, q.fence, g)
        /\ r.finalization = Resolved(q, g)

FinalizeTransferOk(d, t, q, g) ==
    LET r == d.transfers[t]
        p == d.placements[r.aggregate]
    IN  /\ r.phase = "Imported"
        /\ p.state = "Resident"
        /\ p.cell = r.destination
        /\ p.generation = r.resultGen
        /\ ProofAccepted(d, t, r.source, r.sourceGen, q, g)

FinalizeTransferDoc(d, t, q, g) ==
    SetTransfer(d, t, [d.transfers[t] EXCEPT !.phase = "Finalized",
                                             !.finalization = Resolved(q, g)])

FinalizeTransfer(t, q, g, outcome) ==
    /\ Usable
    /\ FinalizeTransferOk(doc, t, q, g)
    /\ CommitDocument(FinalizeTransferDoc(doc, t, q, g), outcome)

-----------------------------------------------------------------------------
(* The abort branch.                                                       *)

RequestAbortRetry(d, t) == d.transfers[t].phase \in {"Aborting", "Aborted"}

RequestAbortOk(d, t) ==
    LET r == d.transfers[t]
    IN  /\ r.phase \in PreCommit
        /\ BoundAtSource(d.placements[r.aggregate], t, r)

RequestAbortDoc(d, t) ==
    SetTransfer(d, t, [d.transfers[t] EXCEPT !.phase = "Aborting"])

RequestAbort(t, outcome) ==
    /\ Usable
    /\ RequestAbortOk(doc, t)
    /\ CommitDocument(RequestAbortDoc(doc, t), outcome)

AbortRoles == {"Source", "Destination"}

RoleCell(r, role)     == IF role = "Source" THEN r.source ELSE r.destination
RoleMinGen(r, role)   == IF role = "Source" THEN r.sourceGen ELSE r.destGen
CleanupProof(r, role) == IF role = "Source" THEN r.sourceAbort ELSE r.destAbort

RecordAbortCleanupRetry(d, t, role, q, g) ==
    LET r == d.transfers[t]
    IN  /\ r.phase = "Aborting"
        /\ ProofAccepted(d, t, RoleCell(r, role), RoleMinGen(r, role), q, g)
        /\ CleanupProof(r, role) = Resolved(q, g)

RecordAbortCleanupOk(d, t, role, q, g) ==
    LET r == d.transfers[t]
    IN  /\ r.phase = "Aborting"
        /\ ProofAccepted(d, t, RoleCell(r, role), RoleMinGen(r, role), q, g)
        /\ CleanupProof(r, role) = NoProof

RecordAbortCleanupDoc(d, t, role, q, g) ==
    SetTransfer(d, t,
        IF role = "Source"
        THEN [d.transfers[t] EXCEPT !.sourceAbort = Resolved(q, g)]
        ELSE [d.transfers[t] EXCEPT !.destAbort = Resolved(q, g)])

RecordAbortCleanup(t, role, q, g, outcome) ==
    /\ Usable
    /\ RecordAbortCleanupOk(doc, t, role, q, g)
    /\ CommitDocument(RecordAbortCleanupDoc(doc, t, role, q, g), outcome)

FinalizeAbortOk(d, t) ==
    LET r == d.transfers[t]
    IN  /\ r.phase = "Aborting"
        /\ r.sourceAbort # NoProof
        /\ r.destAbort # NoProof
        /\ BoundAtSource(d.placements[r.aggregate], t, r)

FinalizeAbortDoc(d, t) ==
    LET r == d.transfers[t]
    IN  SetTransfer(Settle(d, r.aggregate), t, [r EXCEPT !.phase = "Aborted"])

FinalizeAbort(t, outcome) ==
    /\ Usable
    /\ FinalizeAbortOk(doc, t)
    /\ CommitDocument(FinalizeAbortDoc(doc, t), outcome)

-----------------------------------------------------------------------------
(* The specification: any caller, any arguments, any order.                *)

CellProofs ==
    [package : Packages, generation : 0..MaxGeneration, fence : Fences,
     event : Events, receipt : {None}]

ReceiptProofs ==
    [package : Packages, generation : 0..MaxGeneration, fence : Fences,
     event : Events, receipt : Receipts]

InitDirectory ==
    /\ disk = InitialDocument
    /\ doc = InitialDocument
    /\ open = TRUE

AssignmentStep ==
    \E c \in Cells, gen \in 0..MaxGeneration, h \in Holders, o \in Outcomes :
        \/ \E f \in Fences : Claim(c, gen, h, f, o)
        \/ \E f \in Fences : RecoverAssignment(c, gen, h, f, o)
        \/ Release(c, gen, h, o)

TransferStep(t) ==
    \E o \in Outcomes :
        \/ \E a \in Aggregates, gen \in Generations, dst \in Cells, k \in Packages :
              PrepareTransfer(a, gen, t, dst, k, o)
        \/ \E q \in CellProofs, g \in Generations : RecordSourcePrepared(t, q, g, o)
        \/ \E q \in ReceiptProofs, g \in Generations : RecordQuarantine(t, q, g, o)
        \/ \E gen \in Generations : CommitTransfer(t, gen, o)
        \/ \E q \in ReceiptProofs, g \in Generations : RecordImported(t, q, g, o)
        \/ \E q \in CellProofs, g \in Generations : FinalizeTransfer(t, q, g, o)
        \/ RequestAbort(t, o)
        \/ \E role \in AbortRoles, q \in CellProofs, g \in Generations :
              RecordAbortCleanup(t, role, q, g, o)
        \/ FinalizeAbort(t, o)

NextDirectory ==
    \/ OpenDirectory
    \/ CloseDirectory
    \/ AssignmentStep
    \/ \E a \in Aggregates, c \in Cells, o \in Outcomes : RegisterPlacement(a, c, o)
    \/ \E t \in Transfers : TransferStep(t)

SpecDirectory == InitDirectory /\ [][NextDirectory]_dirVars

-----------------------------------------------------------------------------
(* Properties.                                                             *)

(* Every field of the documents in memory and on disk stays in its range.  *)
TypeOK ==
    /\ doc \in Document
    /\ disk \in Document
    /\ open \in BOOLEAN

(* The generation-to-fence history of every cell is contiguous, strictly   *)
(* increasing and ends in the current fence, whatever order claims,        *)
(* releases and successor recoveries come in: no two generations of a cell *)
(* share a fence, so a cell event's fence names one generation.            *)
FenceHistoriesValid ==
    \A d \in {doc, disk}, c \in Cells : ValidAssignment(d.assignments[c])

(* Phase, placement and proofs of every transfer agree in every document   *)
(* the code writes, the clause of PrepareProofPresent apart, although no   *)
(* operation re-validates the document it is about to commit.              *)
TransfersConsistent ==
    \A d \in {doc, disk} :
        /\ \A a \in Aggregates : ValidPlacement(d.placements[a])
        /\ \A t \in Transfers : ValidTransfer(d, t)

PinsHold(d) ==
    \A t \in Transfers, c \in Cells :
        Pins(d, t, c) => d.assignments[c].state = "Assigned"

(* Both cells of a transfer stay assigned until it is finalized or its     *)
(* abort has both cleanup proofs: release cannot slip between the steps.   *)
PinnedCellsAssigned ==
    \A d \in {doc, disk} : PinsHold(d)

(* A committed transfer, seen from the placement it moved.                 *)
CommittedTransfers(d, a) ==
    {t \in Transfers : d.transfers[t].phase \in PostCommit
                         /\ d.transfers[t].aggregate = a}

Custody(d, a) ==
    \A t \in CommittedTransfers(d, a) :
        LET r == d.transfers[t]
            p == d.placements[a]
        IN  /\ r.resultGen <= p.generation
            /\ r.resultGen = p.generation => p.cell = r.destination
            /\ \A u \in CommittedTransfers(d, a) \ {t} :
                  LET s == d.transfers[u]
                  IN  /\ s.priorGen # r.priorGen
                      /\ s.priorGen = r.resultGen => s.source = r.destination

(* Two transfers never commit from the same placement generation, and      *)
(* consecutive ones hand over at the same cell: the committed transfers of *)
(* an aggregate form one chain of custody that ends at its placement.      *)
CustodyChain ==
    \A d \in {doc, disk}, a \in Aggregates : Custody(d, a)

CommitsMove(d, e) ==
    \A a \in Aggregates :
        LET p == d.placements[a]
            q == e.placements[a]
        IN  p.state # "Absent" /\ <<q.cell, q.generation>> # <<p.cell, p.generation>> =>
              \E t \in Transfers :
                LET r == d.transfers[t]
                IN  /\ p.transfer = t
                    /\ r.phase = "Quarantined"
                    /\ e.transfers[t].phase = "Committed"
                    /\ q.cell = r.destination
                    /\ q.generation = p.generation + 1
                    /\ r.prepare # NoProof
                    /\ r.quarantine # NoProof
                    /\ \A c \in {r.source, r.destination} :
                          d.assignments[c].state = "Assigned"

(* The durable placement of an aggregate changes cell only in the step     *)
(* that durably commits the transfer bound to it, one generation up, with  *)
(* both cell proofs on record and both cells assigned: the directory       *)
(* compare-and-swap is the sole linearization point of a handoff.          *)
SoleCommitPoint == [][CommitsMove(disk, disk')]_dirVars

RecordAdvances(r, s) ==
    /\ r.phase \in PostCommit => s.phase \in PostCommit
    /\ r.phase \in Terminal => s = r
    /\ r.prepare # NoProof => s.prepare = r.prepare
    /\ r.quarantine # NoProof => s.quarantine = r.quarantine
    /\ r.import # NoProof => s.import = r.import

FencesKept(x, y) ==
    \A g \in Generations : x.history[g] # 0 => y.history[g] = x.history[g]

NothingTakenBack(d, e) ==
    /\ \A t \in Transfers : RecordAdvances(d.transfers[t], e.transfers[t])
    /\ \A c \in Cells : FencesKept(d.assignments[c], e.assignments[c])

(* What the file says about a transfer is never taken back: a durably      *)
(* committed transfer stays committed, a terminal phase and every recorded *)
(* proof are final, a generation keeps its fence.                          *)
DurableProgress == [][NothingTakenBack(disk, disk')]_dirVars

(* The durable document moves only forward: placements at commit points,   *)
(* transfers, proofs and fences never back.                                *)
DurableHistory == SoleCommitPoint /\ DurableProgress

RepeatedCallsRecognised(d, t) ==
    LET r == d.transfers[t]
        assigned(c) == d.assignments[c].state = "Assigned"
        repeated(q, Retry(_, _)) ==
            q # NoProof => Retry(Resolved(q, 0), q.generation)
    IN  /\ PrepareTransferRetry(d, r.aggregate, r.priorGen, t, r.destination, r.package)
        /\ r.phase \in PostCommit => CommitTransferRetry(d, t, r.priorGen)
        /\ assigned(r.source) =>
              /\ repeated(r.prepare,
                    LAMBDA q, g : RecordSourcePreparedRetry(d, t, q, g))
              /\ repeated(r.finalization,
                    LAMBDA q, g : FinalizeTransferRetry(d, t, q, g))
              /\ r.phase = "Aborting" => repeated(r.sourceAbort,
                    LAMBDA q, g : RecordAbortCleanupRetry(d, t, "Source", q, g))
        /\ assigned(r.destination) =>
              /\ r.phase = "Quarantined" => repeated(r.quarantine,
                    LAMBDA q, g : RecordQuarantineRetry(d, t, q, g))
              /\ repeated(r.import,
                    LAMBDA q, g : RecordImportedRetry(d, t, q, g))
              /\ r.phase = "Aborting" => repeated(r.destAbort,
                    LAMBDA q, g : RecordAbortCleanupRetry(d, t, "Destination", q, g))

(* A caller that lost the answer of a record operation and repeats it with *)
(* the same cell event, of which it knows the fence but no generation, is  *)
(* told the record and writes nothing, however many successor generations  *)
(* the cell has had since; so is one that repeats prepare or commit.       *)
RetriesRecognised ==
    \A t \in Transfers :
        doc.transfers[t].phase # "Absent" => RepeatedCallsRecognised(doc, t)

(* Every document the directory has written opens again: a process that    *)
(* stops at any point of a transfer can be succeeded by another.           *)
EveryDocumentReopens == ValidateDocument(disk)
=============================================================================
