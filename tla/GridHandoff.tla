---------------------------- MODULE GridHandoff ----------------------------
(***************************************************************************)
(* A directory of schema 3 and the world-21 cells it assigns, composed: a  *)
(* closure of a grid and the players aboard is moved from cell to cell     *)
(* while workers claim, recover and release the cells and their machines   *)
(* run.                                                                    *)
(*                                                                         *)
(* A cell event is durable at once and so is a directory document: their   *)
(* files are opened up in UniverseLifecycle.  Nobody coordinates the       *)
(* steps of a transfer: whoever holds a cell may stage any event that      *)
(* passes its checks, at any time, and hand its proof to the directory     *)
(* later, or never.                                                        *)
(***************************************************************************)
EXTENDS GridCell

CONSTANTS
  Crews,      \* the closures that may be captured: the grid and who stands on it
  MaxTime,    \* last tick of the trusted clock
  MaxClaims,  \* generations of all cells together
  MaxQuanta   \* production occurrences of all cells together

VARIABLES
  dir,      \* the directory document
  cell,     \* the state of every cell
  package   \* the package captured for a transfer

gridVars == <<dir, cell, package>>

ASSUME GridHandoffAssumption ==
  Crews \subseteq SUBSET Members /\ MaxTime \in Nat \ {0} /\ MaxClaims \in Nat /\ MaxQuanta \in Nat

Init ==
  /\ dir = GenesisDocument
  /\ cell = [c \in Cells |-> InitialCell(c)]
  /\ package = [t \in Transfers |-> NoPackage]

-----------------------------------------------------------------------------
(* Workers *)

Generations == MapThenSumSet(LAMBDA c : CellGen(dir, c), Cells)

ClaimCell(c, h) ==
  LET next == Transition(dir, c, h) IN
  /\ Generations < MaxClaims
  /\ TransitionOk(dir, c, CellGen(dir, c), "Sleeping") /\ Sealed(dir, next)
  /\ dir' = Finish(next)
  /\ UNCHANGED <<cell, package>>

RecoverCell(c, h) ==
  LET next == Transition(dir, c, h) IN
  /\ Generations < MaxClaims
  /\ TransitionOk(dir, c, CellGen(dir, c), "Assigned") /\ Sealed(dir, next)
  /\ dir' = Finish(next)
  /\ UNCHANGED <<cell, package>>

ReleaseCell(c) ==
  LET next == ReleaseV3(dir, c) IN
  /\ ReleaseOkV3(dir, c, CellGen(dir, c), dir.assign[c].holder) /\ Sealed(dir, next)
  /\ dir' = Finish(next)
  /\ UNCHANGED <<cell, package>>

-----------------------------------------------------------------------------
(* A transfer *)

\* extract_grid_closure under the authority of both cells.
CapturePackage(t, c, dst, aboard) ==
  LET pkg == Package(cell[c], dir, c, dst, aboard) IN
  /\ package[t] = NoPackage
  /\ dir.assign[c].state = "Assigned" /\ dir.assign[dst].state = "Assigned"
  /\ CaptureOk(Rebound(cell[c], dir, c), c, aboard)
  /\ RebindOk(cell[c], dir, c) /\ ValidWire(pkg)
  /\ package' = [package EXCEPT ![t] = pkg]
  /\ UNCHANGED <<dir, cell>>

PrepareTransfer(t) ==
  LET next == PrepareV3(dir, t, TransferOf(package[t])) IN
  /\ package[t] # NoPackage
  /\ PrepareOkV3(dir, t, TransferOf(package[t])) /\ Sealed(dir, next)
  /\ dir' = Finish(next)
  /\ UNCHANGED <<cell, package>>

\* new_proven_system: rebind, stage, and commit what validates.
EventOk(t, k, time) ==
  LET c == KindCell(dir.transfers[t], k)
      s == Rebound(cell[c], dir, c)
  IN /\ StageOk(s, dir, t, k, time)
     /\ EventReady(cell[c], dir, t, k)
     /\ ValidCell(Stage(s, dir, t, k, time), c)
CellEvent(t, k, time) ==
  LET c == KindCell(dir.transfers[t], k) IN
  /\ Known(dir, t) /\ EventOk(t, k, time)
  /\ cell' = [cell EXCEPT ![c] = Stage(Rebound(@, dir, c), dir, t, k, time)]
  /\ UNCHANGED <<dir, package>>

\* The directory operation that takes the proof of a cell event.
RecordOk(d, t, k) ==
  CASE k = "prepare"    -> SourcePreparedOk(d, t)
    [] k = "quarantine" -> QuarantinedOk(d, t)
    [] k = "export"     -> SourceExportedOk(d, t)
    [] k = "import"     -> DestinationImportedOk(d, t)
    [] k = "activate"   -> DestinationActivatedOk(d, t)
    [] k = "finalize"   -> SourceFinalizedOk(d, t)
    [] OTHER            -> AbortCleanupOk(d, t, k)
Recorded(d, t, k, p) ==
  CASE k = "prepare"    -> SourcePrepared(d, t, p)
    [] k = "quarantine" -> Quarantined(d, t, p)
    [] k = "export"     -> SourceExported(d, t, p)
    [] k = "import"     -> DestinationImported(d, t, p)
    [] k = "activate"   -> DestinationActivated(d, t, p)
    [] k = "finalize"   -> SourceFinalized(d, t, p)
    [] OTHER            -> AbortCleanup(d, t, k, p)

\* The proof is found in the rebound cell, and the directory takes it.
ProofFound(t, k) ==
  LET c == KindCell(dir.transfers[t], k) IN
  EventReady(cell[c], dir, t, k) /\ Reconciled(Rebound(cell[c], dir, c), dir, t, k)
RecordProof(t, k) ==
  LET next == Recorded(dir, t, k, cell[KindCell(dir.transfers[t], k)].done[k][t]) IN
  /\ Known(dir, t) /\ RecordOk(dir, t, k)
  /\ ProofFound(t, k) /\ Sealed(dir, next)
  /\ dir' = Finish(next)
  /\ UNCHANGED <<cell, package>>

CommitTransfer(t) ==
  /\ CommitOkV3(dir, t) /\ Sealed(dir, CommitV3(dir, t))
  /\ dir' = Finish(CommitV3(dir, t))
  /\ UNCHANGED <<cell, package>>

RequestAbort(t) ==
  /\ RequestAbortOkV3(dir, t) /\ Sealed(dir, RequestAbortV3(dir, t))
  /\ dir' = Finish(RequestAbortV3(dir, t))
  /\ UNCHANGED <<cell, package>>

FinalizeAbort(t) ==
  /\ FinalizeAbortOkV3(dir, t) /\ Sealed(dir, FinalizeAbortV3(dir, t))
  /\ dir' = Finish(FinalizeAbortV3(dir, t))
  /\ UNCHANGED <<cell, package>>

-----------------------------------------------------------------------------
(* Production *)

Quanta == MapThenSumSet(LAMBDA c : cell[c].quanta, Cells)

ProductionOccurrence(c, at, works) ==
  LET s == Rebound(cell[c], dir, c)
      next == StageProduction(s, dir, c, at, works)
  IN /\ Quanta < MaxQuanta
     /\ \E now \in 1..MaxTime : OccurrenceOk(s, at, now)
     /\ RebindOk(cell[c], dir, c)
     /\ ValidCell(next, c)
     /\ cell' = [cell EXCEPT ![c] = next]
     /\ UNCHANGED <<dir, package>>

-----------------------------------------------------------------------------

Worker(c) ==
  \/ \E h \in Holders : ClaimCell(c, h) \/ RecoverCell(c, h)
  \/ ReleaseCell(c)
  \/ \E at \in 1..MaxTime, works \in BOOLEAN : ProductionOccurrence(c, at, works)

Transfer(t) ==
  \/ \E pair \in Neighbors, aboard \in Crews :
       CapturePackage(t, pair[1], pair[2], aboard)
  \/ PrepareTransfer(t)
  \/ \E k \in ProofKinds : (\E time \in 1..MaxTime : CellEvent(t, k, time)) \/ RecordProof(t, k)
  \/ CommitTransfer(t) \/ RequestAbort(t) \/ FinalizeAbort(t)

Next == (\E c \in Cells : Worker(c)) \/ (\E t \in Transfers : Transfer(t))

Spec == Init /\ [][Next]_gridVars

-----------------------------------------------------------------------------
(* Properties *)

AnyProof ==
  [gen : 0..MaxGeneration, fence : 0..MaxGeneration, seq : Nat, time : 0..MaxTime,
   receipt : Nat, binds : [{"export", "import", "activate"} -> Nat], removed : BOOLEAN]

\* The documents, states and packages that the code can hold.
TypeOK ==
  /\ dir.rev \in 1..MaxRevision
  /\ \A m \in Members : dir.place[m].cell \in Cells /\ dir.place[m].transfer \in Transfers \cup {None}
  /\ \A c \in Cells :
       /\ CellGen(dir, c) \in 1..MaxGeneration
       /\ cell[c].here \subseteq Members /\ cell[c].fence \in 1..Fence(dir, c)
       /\ cell[c].lock.transfer \in Transfers \cup {None}
       /\ cell[c].pending \cup cell[c].tombs \cup cell[c].released \subseteq Transfers
       /\ cell[c].quanta \in 0..MaxQuanta /\ cell[c].clock \in 0..MaxTime
       /\ cell[c].done \in [ProofKinds -> [Transfers -> AnyProof]]
  /\ \A t \in Transfers : Known(dir, t) => dir.transfers[t].package = package[t]

CellOf(t, k)  == KindCell(dir.transfers[t], k)
DidEvent(t, k) == Did(cell[CellOf(t, k)], k, t)
InTransit(t)  == Known(dir, t) /\ DidEvent(t, "export") /\ ~DidEvent(t, "import")
Homes(m)      == {c \in Cells : m \in cell[c].here}
\* A resident that no lock and no pending import freezes can act.
Playable(c, m) ==
  /\ m \in cell[c].here
  /\ \A t \in Frozen(cell[c]) : m \notin MembersIn(cell[c].bound[t])

\* A member is in one cell, or in the package between an export and the
\* import of it: the two commits of a move neither copy nor lose it
\* (grid_handoff_v2/state.rs, stage_export and stage_import).
EachMemberOnce ==
  \A m \in Members :
    LET between == {t \in Transfers : InTransit(t) /\ m \in MembersIn(package[t])} IN
    Cardinality(Homes(m)) + Cardinality(between) = 1

\* Where a member can act is where the directory places it, and it can act
\* wherever the transfers that involve it have ended
\* (locked_transfer_for_subject, activation, abort cleanup).
PlayableWherePlaced ==
  /\ \A m \in Members, c \in Cells : Playable(c, m) => dir.place[m].cell = c
  /\ \A m \in Members : dir.place[m].state = "Resident" =>
       \/ Playable(dir.place[m].cell, m)
       \/ \E t \in Transfers : /\ Known(dir, t) /\ m \in MembersIn(package[t])
                               /\ dir.transfers[t].phase = "Imported" /\ ~DidEvent(t, "activate")

\* A closure crosses as a whole, and its players with the machine's job.
ClosureStaysTogether ==
  \A t \in Transfers : Known(dir, t) =>
    /\ \A m, n \in MembersOf(dir.transfers[t]) : Homes(m) = Homes(n)
    /\ \A c \in Cells : cell[c].job # NoJob => Root \in cell[c].here

\* Custody: every member is in one place, as one closure, and acts only where
\* the directory places it, through every crash and takeover of a move.
CustodyHolds ==
  TypeOK /\ EachMemberOnce /\ PlayableWherePlaced /\ ClosureStaysTogether

\* The directory's proofs are the records of committed cell events, under
\* whatever fence the cell had then, so that a call that is repeated by a
\* later generation is recognised (validate_phase_proof, apply_v3_*_proof).
ProofsAreRecords ==
  \A t \in Transfers : Known(dir, t) =>
    /\ PrepareRetryV3(dir, t, TransferOf(package[t]))
    /\ \A k \in ProofKinds : Has(dir.transfers[t], k) =>
         ProofRetry(dir, t, k, cell[CellOf(t, k)].done[k][t])

Assigned(c) == dir.assign[c].state = "Assigned"
Wedged(c)   == Assigned(c) /\ ~RebindOk(cell[c], dir, c)
WedgedIn(t) == Wedged(dir.transfers[t].source) \/ Wedged(dir.transfers[t].destination)

\* A directory that awaits a proof takes the one that the cell has: no
\* committed event is refused later for what happened since (the reconcile
\* functions of state.rs and the operations of cell_directory_v3.rs).
AwaitedProofsAccepted ==
  \A t \in Transfers, k \in ProofKinds :
    Known(dir, t) /\ RecordOk(dir, t, k) /\ DidEvent(t, k) /\ ~WedgedIn(t) =>
      /\ ProofFound(t, k)
      /\ Sealed(dir, Recorded(dir, t, k, cell[CellOf(t, k)].done[k][t]))

\* Directory and cells understand each other's proofs in every generation.
ProofsAgree == ProofsAreRecords /\ AwaitedProofsAccepted

\* A transfer that has begun can always go on, at some later time of the
\* clock: to the end after the commit, and back once an abort is requested.
\* Before that it can at least be aborted.
NeverStuck ==
  \A t \in Transfers :
    Known(dir, t) /\ dir.transfers[t].phase \notin TerminalPhases =>
      \/ \E k \in ProofKinds : RecordOk(dir, t, k) /\ DidEvent(t, k)
      \/ \E k \in ProofKinds : EventOk(t, k, MaxTime)
      \/ CommitOkV3(dir, t) /\ Sealed(dir, CommitV3(dir, t))
      \/ FinalizeAbortOkV3(dir, t) /\ Sealed(dir, FinalizeAbortV3(dir, t))
      \/ dir.transfers[t].phase = "Prepared" /\ Sealed(dir, RequestAbortV3(dir, t))
      \/ WedgedIn(t)

\* Only a quarantine that is a cell's last event keeps a successor out of it.
OnlyQuarantineWedges ==
  \A c \in Cells : Wedged(c) =>
    \E t \in Transfers : /\ Reserved(cell[c], t) /\ cell[c].seq = cell[c].reserve[t].seq
                         /\ cell[c].reserve[t].fence < Fence(dir, c)

\* No state is a dead end, but for the one of OnlyQuarantineWedges.
TransfersCanGoOn == NeverStuck /\ OnlyQuarantineWedges

\* An imported machine rests for the rearm time: no work of it is done in an
\* occurrence before that (production.rs, import boundary).
ImportedMachineRests ==
  \A c \in Cells, t \in Transfers :
    /\ Did(cell[c], "import", t) /\ cell[c].bound[t].job # NoJob
    /\ cell[c].job # cell[c].bound[t].job
    => cell[c].clock >= cell[c].done["import"][t].time + Rearm

\* The work left in the machine, wherever its grid is.
WorkLeft ==
  LET holding == {c \in Cells : cell[c].job # NoJob}
      moving  == {t \in Transfers : InTransit(t)}
  IN MapThenSumSet(LAMBDA c : cell[c].job.left, holding)
       + MapThenSumSet(LAMBDA t : package[t].job.left, moving)
\* No move gives back work that a production event has done: a package taken
\* before such an event is refused (source_lock_matches).
WorkNeverReturns == [][WorkLeft' <= WorkLeft]_gridVars

\* A move neither repeats nor hastens the production of the machine aboard.
ProductionUnmoved == []ImportedMachineRests /\ WorkNeverReturns

=============================================================================
