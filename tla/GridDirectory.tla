--------------------------- MODULE GridDirectory ---------------------------
(***************************************************************************)
(* The schema 3 document of the cell directory (cell_directory_v3.rs): the *)
(* assignments of the cells, the placements of the members of a grid's     *)
(* closure, and the transfers that move a whole closure.  The module has   *)
(* no variables: an operation is a condition XOk on a document and the     *)
(* document X that it stages.  A staged document is sealed, and sealing    *)
(* validates it, so that an operation can also be refused by what it would *)
(* have written (Sealed).                                                  *)
(*                                                                         *)
(* Left out: identifiers, schema numbers, byte bounds.  A hash stands for  *)
(* what it is the hash of, and the hash of a proof for the kind and the    *)
(* event number of the proof.                                              *)
(***************************************************************************)
EXTENDS Naturals, Sequences, FiniteSets

CONSTANTS
  Cells,            \* the two cells of the universe
  Neighbors,        \* the pairs of cells that share a face
  Members,          \* the aggregates: a grid and the players aboard
  Root,             \* the grid among them
  Transfers,        \* transfer identifiers
  Retired,          \* the identifiers that protocol 18 used up
  Holders,          \* worker processes
  GenesisPlacement, \* member -> the cell and the generation the migration left
  MaxGeneration,    \* u64::MAX of an assignment generation
  MaxRevision       \* u64::MAX of a directory revision

None == "none"

ASSUME GridDirectoryAssumption ==
  /\ Neighbors \subseteq Cells \X Cells
  /\ Root \in Members /\ Retired \subseteq Transfers
  /\ GenesisPlacement \in [Members -> [cell : Cells, gen : Nat \ {0}]]
  /\ MaxGeneration \in Nat \ {0} /\ MaxRevision \in Nat \ {0}
  /\ None \notin Cells \cup Transfers \cup Holders

-----------------------------------------------------------------------------
(* Records *)

SourceKinds      == {"prepare", "export", "finalize", "srcAbort"}
DestinationKinds == {"quarantine", "import", "activate", "dstAbort"}
ProofKinds       == SourceKinds \cup DestinationKinds
Phases == {"Prepared", "Quarantined", "Committed", "Imported", "Finalized",
           "Aborting", "Aborted"}
TerminalPhases == {"Finalized", "Aborted"}

\* DirectoryPhaseProofV3: a cell event, the authority it was written under,
\* its trusted time (0: it has none), the quarantine receipt it names (0: none),
\* the event numbers of the proofs it binds, and whether an abort took
\* something away.
NoBinding == [k \in {"export", "import", "activate"} |-> 0]
NoProof   == [gen |-> 0, fence |-> 0, seq |-> 0, time |-> 0, receipt |-> 0,
              binds |-> NoBinding, removed |-> FALSE]
Has(r, k) == r.proofs[k] # NoProof

\* CellTransferRecordV3; prior maps each member to its placement generation.
NewTransfer(src, dst, sgen, dgen, pkg, prior) ==
  [source |-> src, destination |-> dst, sgen |-> sgen, dgen |-> dgen,
   package |-> pkg, prior |-> prior, receipt |-> 0,
   proofs |-> [k \in ProofKinds |-> NoProof], phase |-> "Prepared"]
NoTransfer == [phase |-> "absent"]
Known(d, t) == d.transfers[t] # NoTransfer
MembersOf(r) == DOMAIN r.prior
KindCell(r, k) == IF k \in SourceKinds THEN r.source ELSE r.destination
KindMinGen(r, k) == IF k \in SourceKinds THEN r.sgen ELSE r.dgen
CellGen(d, c) == Len(d.assign[c].fences)
Fence(d, c)   == d.assign[c].fences[CellGen(d, c)]

\* The document the migration leaves: both cells sleep.
GenesisDocument ==
  [rev |-> 1,
   assign |-> [c \in Cells |-> [state |-> "Sleeping", holder |-> None, fences |-> <<1>>]],
   place  |-> [m \in Members |-> [cell |-> GenesisPlacement[m].cell,
                                  gen |-> GenesisPlacement[m].gen,
                                  state |-> "Resident", transfer |-> None]],
   transfers |-> [t \in Transfers |-> NoTransfer]]

-----------------------------------------------------------------------------
(* What a document has to satisfy *)

ValidAssignment(a) ==
  /\ a.state \in {"Sleeping", "Assigned"}
  /\ (a.state = "Sleeping") <=> (a.holder = None)
  /\ a.state = "Assigned" => Len(a.fences) > 0
  /\ \A g \in 1..Len(a.fences) : a.fences[g] > IF g = 1 THEN 0 ELSE a.fences[g - 1]

ValidPlacementV3(p) ==
  /\ p.gen > 0
  /\ (p.state = "Resident") <=> (p.transfer = None)

\* The proofs that a phase has, and those it must not have yet.
PhaseMatrix(r) ==
  LET H(k) == Has(r, k)
      NoneOf(ks) == \A k \in ks : ~H(k)
      Aborts == {"srcAbort", "dstAbort"}
      AfterCommit == {"export", "import", "activate", "finalize"}
  IN /\ (r.receipt # 0) <=> H("quarantine")
     /\ H("quarantine") => H("prepare")
     /\ CASE r.phase = "Prepared" -> ~H("quarantine") /\ NoneOf(AfterCommit \cup Aborts)
          [] r.phase = "Quarantined" -> H("quarantine") /\ NoneOf(AfterCommit \cup Aborts)
          [] r.phase = "Committed" ->
               H("quarantine") /\ NoneOf({"import", "activate", "finalize"} \cup Aborts)
          [] r.phase = "Imported" ->
               /\ H("quarantine") /\ H("export") /\ H("import")
               /\ NoneOf({"finalize"} \cup Aborts)
          [] r.phase = "Finalized" ->
               H("quarantine") /\ (\A k \in AfterCommit : H(k)) /\ NoneOf(Aborts)
          [] r.phase = "Aborting" -> NoneOf(AfterCommit)
          [] r.phase = "Aborted" -> NoneOf(AfterCommit) /\ \A k \in Aborts : H(k)

\* A later event of a cell has a later number and no older authority.
ProofOrder(r, k1, k2) ==
  Has(r, k1) /\ Has(r, k2) =>
    /\ r.proofs[k2].gen >= r.proofs[k1].gen
    /\ r.proofs[k2].seq > r.proofs[k1].seq
ProofsOrdered(r) ==
  /\ ProofOrder(r, "prepare", "export")   /\ ProofOrder(r, "export", "finalize")
  /\ ProofOrder(r, "quarantine", "import") /\ ProofOrder(r, "import", "activate")
  /\ ProofOrder(r, "prepare", "srcAbort") /\ ProofOrder(r, "quarantine", "dstAbort")

\* The typed proofs that a phase proof is decoded to.
PrepareBinding(r, p)    == p.time = 0 /\ p.binds = NoBinding
QuarantineBinding(r, p) == p.time > 0 /\ p.binds = NoBinding
ExportBinding(r, p)     == p.time > 0 /\ p.binds = NoBinding
ImportBinding(r, p) ==
  LET export == r.proofs["export"] IN
  /\ Has(r, "export") /\ p.binds = [NoBinding EXCEPT !["export"] = export.seq]
  /\ p.time >= export.time /\ p.time >= r.proofs["quarantine"].time
ActivationBinding(r, p) ==
  LET import == r.proofs["import"] IN
  /\ Has(r, "import") /\ p.binds = [NoBinding EXCEPT !["import"] = import.seq]
  /\ p.time >= import.time /\ p.gen >= import.gen /\ p.fence >= import.fence
  /\ p.seq > import.seq
FinalizationBinding(r, p) ==
  /\ \A k \in {"export", "import", "activate"} : Has(r, k) /\ p.binds[k] = r.proofs[k].seq
  /\ r.proofs["export"].time <= r.proofs["import"].time
  /\ r.proofs["import"].time <= r.proofs["activate"].time
  /\ r.proofs["activate"].time <= p.time
AbortBinding(r, p) == p.time > 0 /\ p.binds = NoBinding

\* A source abort may name the receipt or not; prepare and finalization never do.
ReceiptBinding(r, k, p) ==
  CASE k = "srcAbort" -> p.receipt \in {0, r.receipt}
    [] k \in {"prepare", "finalize"} -> p.receipt = 0
    [] OTHER -> p.receipt = r.receipt

KindBinding(r, k, p) ==
  CASE k = "prepare"    -> PrepareBinding(r, p)
    [] k = "quarantine" -> QuarantineBinding(r, p)
    [] k = "export"     -> ExportBinding(r, p)
    [] k = "import"     -> ImportBinding(r, p)
    [] k = "activate"   -> ActivationBinding(r, p)
    [] k = "finalize"   -> FinalizationBinding(r, p)
    [] OTHER            -> AbortBinding(r, p)

ValidPhaseProof(r, k, fences) ==
  LET p == r.proofs[k] IN
  p # NoProof =>
    /\ p.gen >= KindMinGen(r, k) /\ p.gen \in 1..Len(fences) /\ fences[p.gen] = p.fence
    /\ p.seq > 0
    /\ KindBinding(r, k, p)
    /\ ReceiptBinding(r, k, p)

ValidPhaseProofs(d, r) ==
  /\ \A k \in ProofKinds : ValidPhaseProof(r, k, d.assign[KindCell(r, k)].fences)
  /\ ProofsOrdered(r)
  /\ PhaseMatrix(r)

\* A member's placement while its transfer is in a phase.
MemberMatchesPhase(d, t, m) ==
  LET r == d.transfers[t]
      p == d.place[m]
      At(cell, gen, state, transfer) ==
        p = [cell |-> cell, gen |-> gen, state |-> state, transfer |-> transfer]
  IN CASE r.phase \in {"Prepared", "Quarantined", "Aborting"} ->
            At(r.source, r.prior[m], "Preparing", t)
       [] r.phase = "Committed" -> At(r.destination, r.prior[m] + 1, "InTransit", t)
       [] r.phase \in {"Imported", "Finalized"} ->
            p.gen > r.prior[m] + 1 \/ At(r.destination, r.prior[m] + 1, "Resident", None)
       [] r.phase = "Aborted" ->
            p.gen > r.prior[m] \/ At(r.source, r.prior[m], "Resident", None)

\* The moves of a member that were committed.
Advances(d, m) ==
  {t \in Transfers : /\ Known(d, t) /\ d.transfers[t].phase \in {"Committed", "Imported", "Finalized"}
                     /\ m \in MembersOf(d.transfers[t])}
\* The committed moves lead, without gap or fork, from a cell and generation to the placement.
HistoryReaches(d, m, gen, cell) ==
  LET Move(g) == {t \in Advances(d, m) : d.transfers[t].prior[m] = g}
      CellAfter[g \in gen..d.place[m].gen] ==
        IF g = gen THEN cell
        ELSE LET from == {t \in Move(g - 1) : d.transfers[t].source = CellAfter[g - 1]}
             IN IF Cardinality(from) = 1
                THEN d.transfers[CHOOSE t \in from : TRUE].destination ELSE None
  IN gen <= d.place[m].gen /\ CellAfter[d.place[m].gen] = d.place[m].cell

\* validate_transfers, per transfer.
ValidTransferV3(d, t) ==
  LET r == d.transfers[t] IN
  /\ t \notin Retired
  /\ Root \in MembersOf(r)
  /\ \A m \in MembersOf(r) : r.prior[m] >= GenesisPlacement[m].gen
  /\ <<r.source, r.destination>> \in Neighbors
  /\ r.sgen \in 1..CellGen(d, r.source) /\ r.dgen \in 1..CellGen(d, r.destination)
  /\ r.phase \notin TerminalPhases =>
       d.assign[r.source].state = "Assigned" /\ d.assign[r.destination].state = "Assigned"
  /\ ValidPhaseProofs(d, r)
  /\ \A m \in MembersOf(r) :
       /\ MemberMatchesPhase(d, t, m)
       /\ r.phase \in {"Imported", "Finalized"} /\ d.place[m].gen > r.prior[m] + 1 =>
            HistoryReaches(d, m, r.prior[m] + 1, r.destination)
       /\ r.phase = "Aborted" /\ d.place[m].gen > r.prior[m] =>
            HistoryReaches(d, m, r.prior[m], r.source)
  /\ \A m \in Members : d.place[m].transfer = t => m \in MembersOf(r)

ValidFloors(d) ==
  \A m \in Members :
    /\ d.place[m].gen >= GenesisPlacement[m].gen
    /\ HistoryReaches(d, m, GenesisPlacement[m].gen, GenesisPlacement[m].cell)
    /\ \A t, u \in Advances(d, m) :
         /\ d.transfers[t].prior[m] = d.transfers[u].prior[m]
         /\ d.transfers[t].source = d.transfers[u].source
         => t = u

ValidDocument(d) ==
  /\ d.rev \in 1..MaxRevision
  /\ \A c \in Cells : ValidAssignment(d.assign[c])
  /\ \A m \in Members : ValidPlacementV3(d.place[m])
  /\ \A t \in Transfers : Known(d, t) => ValidTransferV3(d, t)
  /\ ValidFloors(d)
  /\ \A m \in Members : d.place[m].transfer # None => Known(d, d.place[m].transfer)

\* finish_v3_transaction: the staged document with the next revision must validate.
Finish(d)    == [d EXCEPT !.rev = @ + 1]
Sealed(d, n) == d.rev < MaxRevision /\ ValidDocument(Finish(n))

-----------------------------------------------------------------------------
(* Cell authority *)

\* transition_cell_authority under claim_cell ("Sleeping") or recover_cell ("Assigned").
TransitionOk(d, c, gen, from) ==
  /\ gen < MaxGeneration
  /\ CellGen(d, c) = gen /\ d.assign[c].state = from
Transition(d, c, h) ==
  [d EXCEPT !.assign[c] = [state |-> "Assigned", holder |-> h,
                           fences |-> Append(@.fences, Fence(d, c) + 1)]]
\* The first document of a history with a generation tells which transition made it.
TransitionPredecessor(history, c, gen) ==
  LET at == {i \in DOMAIN history : CellGen(history[i], c) = gen + 1}
  IN IF at = {} \/ \E i \in at : i = 1 THEN None
     ELSE history[(CHOOSE i \in at : \A j \in at : i <= j) - 1].assign[c].state
TransitionRetry(history, d, c, gen, h, from) ==
  /\ CellGen(d, c) = gen + 1 /\ d.assign[c].state = "Assigned" /\ d.assign[c].holder = h
  /\ d.assign[c].fences[gen] + 1 = Fence(d, c)
  /\ TransitionPredecessor(history, c, gen) = from

ReleaseOkV3(d, c, gen, h) ==
  /\ d.assign[c].state = "Assigned" /\ CellGen(d, c) = gen /\ d.assign[c].holder = h
  /\ \A t \in Transfers : Known(d, t) /\ d.transfers[t].phase \notin TerminalPhases =>
       c \notin {d.transfers[t].source, d.transfers[t].destination}
ReleaseV3(d, c) == [d EXCEPT !.assign[c].state = "Sleeping", !.assign[c].holder = None]
\* Who held the generation that now sleeps.
ReleasePredecessor(history, c, gen) ==
  LET at == {i \in 2..Len(history) :
               /\ CellGen(history[i], c) = gen /\ history[i].assign[c].state = "Sleeping"
               /\ CellGen(history[i - 1], c) = gen /\ history[i - 1].assign[c].state = "Assigned"}
  IN IF at = {} THEN None ELSE history[(CHOOSE i \in at : \A j \in at : i <= j) - 1].assign[c].holder
ReleaseRetryV3(history, d, c, gen, h) ==
  /\ d.assign[c].state = "Sleeping" /\ CellGen(d, c) = gen
  /\ ReleasePredecessor(history, c, gen) = h

-----------------------------------------------------------------------------
(* The placements of a closure move together *)

PlacementsReady(d, t, r, transition) ==
  /\ \A m \in Members : d.place[m].transfer = t => m \in MembersOf(r)
  /\ \A m \in MembersOf(r) :
       d.place[m] = CASE transition = "Prepare" ->
                           [cell |-> r.source, gen |-> r.prior[m], state |-> "Resident", transfer |-> None]
                      [] transition = "Import" ->
                           [cell |-> r.destination, gen |-> r.prior[m] + 1,
                            state |-> "InTransit", transfer |-> t]
                      [] OTHER ->
                           [cell |-> r.source, gen |-> r.prior[m], state |-> "Preparing", transfer |-> t]
MovePlacements(d, t, r, transition) ==
  [m \in Members |->
     IF m \notin MembersOf(r) THEN d.place[m]
     ELSE CASE transition = "Prepare" -> [d.place[m] EXCEPT !.state = "Preparing", !.transfer = t]
            [] transition = "Commit" ->
                 [d.place[m] EXCEPT !.cell = r.destination, !.gen = r.prior[m] + 1, !.state = "InTransit"]
            [] OTHER -> [d.place[m] EXCEPT !.state = "Resident", !.transfer = None]]

-----------------------------------------------------------------------------
(* The transfer operations *)

SameMaterial(r, q) ==
  \A f \in {"source", "destination", "sgen", "dgen", "package", "prior"} : r[f] = q[f]
PrepareRetryV3(d, t, q) == Known(d, t) /\ SameMaterial(d.transfers[t], q)
PrepareOkV3(d, t, q) ==
  /\ ~Known(d, t)
  /\ d.assign[q.source].state = "Assigned" /\ d.assign[q.destination].state = "Assigned"
  /\ CellGen(d, q.source) = q.sgen /\ CellGen(d, q.destination) = q.dgen
  /\ <<q.source, q.destination>> \in Neighbors
  /\ PlacementsReady(d, t, q, "Prepare")
PrepareV3(d, t, q) ==
  [d EXCEPT !.place = MovePlacements(d, t, q, "Prepare"), !.transfers[t] = q]

\* Mutant: a proof is stored under the authority that reports it.
SetProofLive(d, t, k, p) ==
  LET c == KindCell(d.transfers[t], k) IN
  [d EXCEPT !.transfers[t].proofs[k] = [p EXCEPT !.gen = CellGen(d, c), !.fence = Fence(d, c)]]
SetProof(d, t, k, p) == [d EXCEPT !.transfers[t].proofs[k] = p]
\* A proof that is already there is accepted again, and no other one of its kind.
ProofRetry(d, t, k, p) == Known(d, t) /\ d.transfers[t].proofs[k] = p
Awaits(d, t, k, phases) == Known(d, t) /\ d.transfers[t].phase \in phases /\ ~Has(d.transfers[t], k)

SourcePreparedOk(d, t) == Awaits(d, t, "prepare", {"Prepared"})
SourcePrepared(d, t, p) == SetProof(d, t, "prepare", p)

\* Mutant: an abort that was requested keeps out the quarantine proof.
QuarantinedOkPrepared(d, t) ==
  Awaits(d, t, "quarantine", {"Prepared"}) /\ Has(d.transfers[t], "prepare")
QuarantinedOk(d, t) ==
  /\ Awaits(d, t, "quarantine", {"Prepared", "Aborting"})
  /\ Has(d.transfers[t], "prepare") /\ ~Has(d.transfers[t], "dstAbort")
Quarantined(d, t, p) ==
  [SetProof(d, t, "quarantine", p) EXCEPT
     !.transfers[t].receipt = p.receipt,
     !.transfers[t].phase = IF @ = "Prepared" THEN "Quarantined" ELSE @]

CommitOkV3(d, t) ==
  /\ Known(d, t) /\ d.transfers[t].phase = "Quarantined"
  /\ Has(d.transfers[t], "prepare") /\ Has(d.transfers[t], "quarantine")
  /\ PlacementsReady(d, t, d.transfers[t], "Commit")
CommitV3(d, t) ==
  [d EXCEPT !.place = MovePlacements(d, t, d.transfers[t], "Commit"), !.transfers[t].phase = "Committed"]

SourceExportedOk(d, t) == Awaits(d, t, "export", {"Committed"}) /\ ~Has(d.transfers[t], "import")
SourceExported(d, t, p) == SetProof(d, t, "export", p)

DestinationImportedOk(d, t) ==
  /\ Awaits(d, t, "import", {"Committed"}) /\ Has(d.transfers[t], "export")
  /\ PlacementsReady(d, t, d.transfers[t], "Import")
DestinationImported(d, t, p) ==
  [SetProof(d, t, "import", p) EXCEPT !.place = MovePlacements(d, t, d.transfers[t], "Import"),
                                      !.transfers[t].phase = "Imported"]

DestinationActivatedOk(d, t) == Awaits(d, t, "activate", {"Imported"}) /\ Has(d.transfers[t], "import")
DestinationActivated(d, t, p) == SetProof(d, t, "activate", p)

SourceFinalizedOk(d, t) ==
  Awaits(d, t, "finalize", {"Imported"}) /\ Has(d.transfers[t], "import") /\ Has(d.transfers[t], "activate")
SourceFinalized(d, t, p) == [SetProof(d, t, "finalize", p) EXCEPT !.transfers[t].phase = "Finalized"]

RequestAbortOkV3(d, t) == Known(d, t) /\ d.transfers[t].phase \in {"Prepared", "Quarantined"}
RequestAbortV3(d, t) == [d EXCEPT !.transfers[t].phase = "Aborting"]

AbortCleanupOk(d, t, k) == k \in {"srcAbort", "dstAbort"} /\ Awaits(d, t, k, {"Aborting"})
AbortCleanup(d, t, k, p) == SetProof(d, t, k, p)

FinalizeAbortOkV3(d, t) ==
  /\ Known(d, t) /\ d.transfers[t].phase = "Aborting"
  /\ Has(d.transfers[t], "srcAbort") /\ Has(d.transfers[t], "dstAbort")
  /\ PlacementsReady(d, t, d.transfers[t], "Abort")
FinalizeAbortV3(d, t) ==
  [d EXCEPT !.place = MovePlacements(d, t, d.transfers[t], "Abort"), !.transfers[t].phase = "Aborted"]
=============================================================================
