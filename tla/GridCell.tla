----------------------------- MODULE GridCell -----------------------------
(***************************************************************************)
(* The state of a cell of a world-21 universe as the handoff of grids sees *)
(* it (grid_handoff_v2/state.rs), the canonical events that change it      *)
(* (event_v17.rs, dispatcher_v17.rs), the package a closure travels in     *)
(* (grid_handoff_v2.rs) and the pause of imported production               *)
(* (production.rs).  Like GridDirectory the module has no variables.       *)
(*                                                                         *)
(* Every change is an event: the state is rebound to the authority of the  *)
(* directory head, the event is staged on it (XStage), and the result is   *)
(* refused unless it validates (ValidCell).                                *)
(*                                                                         *)
(* A state changes by an event, which moves the frontier, or by a rebind,  *)
(* which changes the fence alone.  Of the world hashes that a record       *)
(* compares while its event is the frontier, only a hash that covers the   *)
(* fence can therefore fail to match, and only that one is kept.           *)
(***************************************************************************)
EXTENDS GridDirectory, FiniteSetsExt

CONSTANTS
  Owner,     \* the member that owns the grid
  JobWork,   \* the quanta the job in the grid's machine takes
  Rearm      \* PRODUCTION_IMPORT_REARM_MILLIS in ticks of the trusted clock

ASSUME GridCellAssumption ==
  Owner \in Members \ {Root} /\ JobWork \in Nat \ {0} /\ Rearm \in Nat \ {0}

-----------------------------------------------------------------------------
(* The state of a cell *)

NoJob     == [creator |-> None, at |-> 0, left |-> 0]
NoLock    == [transfer |-> None, seq |-> 0]
NoReserve == [seq |-> 0, time |-> 0, fence |-> 0]
NoHold    == [transfer |-> None, job |-> NoJob, at |-> 0]
NoPackage == [seq |-> 0]

\* DraftGridTransferCellStateV2.  bound is the package a cell has bound a
\* transfer to; done the records of its committed events; witness what the
\* ledger counts as imported or exported; hold the eligibility of the
\* imported machine, released the ones that a production event consumed.
InitialCell(c) ==
  LET home == GenesisPlacement[Root].cell = c IN
  [seq |-> 1, fence |-> 1,
   here |-> {m \in Members : GenesisPlacement[m].cell = c},
   job |-> IF home THEN [creator |-> c, at |-> 1, left |-> JobWork] ELSE NoJob,
   lock |-> NoLock,
   reserve |-> [t \in Transfers |-> NoReserve],
   pending |-> {}, tombs |-> {}, released |-> {}, hold |-> NoHold,
   quanta |-> 0, clock |-> 0,
   bound |-> [t \in Transfers |-> NoPackage],
   done |-> [k \in ProofKinds |-> [t \in Transfers |-> NoProof]],
   imported |-> [t \in Transfers |-> 0], exported |-> [t \in Transfers |-> 0]]

Did(s, k, t)   == s.done[k][t] # NoProof
MembersIn(pkg) == DOMAIN pkg.prior
Reserved(s, t) == s.reserve[t] # NoReserve
LockedFor(s, t) == s.lock.transfer = t
Witnessed(s, t) == s.imported[t] # 0 \/ s.exported[t] # 0

SumOver(f) == MapThenSumSet(LAMBDA t : f[t], Transfers)
\* conservation(): a member carries one unit; what is here was here, or came, and did not go.
Conserved(s, c) ==
  Cardinality(s.here) + SumOver(s.exported) =
    Cardinality(InitialCell(c).here) + SumOver(s.imported)

-----------------------------------------------------------------------------
(* The closure and its package *)

\* The grid, its owner and whoever else stands on it, all of them here.
CompleteClosure(s, aboard) == Root \in aboard /\ Owner \in aboard /\ aboard \subseteq s.here
\* The queue of the grid's machine travels with the grid.
ClosureJob(s, aboard) == IF Root \in aboard THEN s.job ELSE NoJob
CaptureOk(s, c, aboard) == CompleteClosure(s, aboard) /\ s.hold = NoHold
Package(s, d, c, dst, aboard) ==
  [source |-> c, destination |-> dst, sgen |-> CellGen(d, c), dgen |-> CellGen(d, dst),
   sfence |-> Fence(d, c), dfence |-> Fence(d, dst),
   prior |-> [m \in aboard |-> d.place[m].gen], seq |-> s.seq, job |-> ClosureJob(s, aboard)]
\* The grid, its owner and riders, and no one else.
PackageMembers(pkg) == Root \in MembersIn(pkg) /\ Owner \in MembersIn(pkg)
AdjacentCells(pkg)  == <<pkg.source, pkg.destination>> \in Neighbors
\* validate_wire: what a package must satisfy whoever presents it.
ValidWire(pkg) ==
  /\ PackageMembers(pkg) /\ AdjacentCells(pkg)
  /\ pkg.sgen > 0 /\ pkg.dgen > 0 /\ pkg.sfence > 0 /\ pkg.dfence > 0
  /\ pkg.job.creator = pkg.source => pkg.job.at <= pkg.seq
TransferOf(pkg) ==
  NewTransfer(pkg.source, pkg.destination, pkg.sgen, pkg.dgen, pkg, pkg.prior)

SubjectsPresent(s, pkg) == MembersIn(pkg) \subseteq s.here
SameJob(a, b)           == a.creator = b.creator /\ a.at = b.at
ClosurePresent(s, pkg)  == SubjectsPresent(s, pkg) /\ SameJob(s.job, pkg.job)
ClosureAbsent(s, pkg)   ==
  MembersIn(pkg) \cap s.here = {} /\ (pkg.job = NoJob \/ ~SameJob(s.job, pkg.job))
\* No member and no queue of the package is in the destination already.
DestinationFree(s, pkg) == MembersIn(pkg) \cap s.here = {} /\ (pkg.job # NoJob => s.job = NoJob)
\* Mutant: the closure is compared by its identities.
LockMatchesIdentity(s, pkg) == ClosurePresent(s, pkg)
\* locked_closure_matches: extracting the closure again yields the same root.
LockMatches(s, pkg)     == ClosurePresent(s, pkg) /\ s.job = pkg.job
Frozen(s) ==
  (IF s.lock = NoLock THEN {} ELSE {s.lock.transfer})
    \cup {t \in Transfers : Reserved(s, t)} \cup s.pending

-----------------------------------------------------------------------------
(* validate_after_gameplay_body *)

\* A record is never ahead of the state that holds it.
Retained(s, k, t) ==
  Did(s, k, t) => s.fence >= s.done[k][t].fence /\ s.seq >= s.done[k][t].seq

ValidPrepare(s, c, t) == Retained(s, "prepare", t) /\ (Did(s, "prepare", t) => s.bound[t].source = c)

\* While the quarantine is the last event, the receipt's world must come out
\* again when the reservation is taken away; its hash covers the fence.
ValidQuarantine(s, c, t) ==
  /\ Retained(s, "quarantine", t)
  /\ Did(s, "quarantine", t) =>
       /\ s.bound[t].destination = c
       /\ s.seq = s.done["quarantine"][t].seq =>
            Reserved(s, t) /\ s.reserve[t].fence = s.fence

ValidLock(s, c) ==
  s.lock # NoLock =>
    LET t == s.lock.transfer IN
    /\ s.bound[t].source = c /\ s.fence >= s.bound[t].sfence
    /\ Did(s, "prepare", t) /\ s.done["prepare"][t].seq = s.lock.seq
    /\ LockMatches(s, s.bound[t])
    /\ ~Witnessed(s, t)

ValidReservation(s, c, t) ==
  Reserved(s, t) =>
    /\ s.bound[t].destination = c /\ s.fence >= s.bound[t].dfence
    /\ Did(s, "quarantine", t)
    /\ s.done["quarantine"][t].seq = s.reserve[t].seq
    /\ s.done["quarantine"][t].time = s.reserve[t].time
    /\ ClosureAbsent(s, s.bound[t])
    /\ ~Witnessed(s, t)

HoldLive(s, t) == s.bound[t].job = NoJob \/ s.hold.transfer = t
ValidPending(s, c, t) ==
  t \in s.pending =>
    /\ s.bound[t].destination = c
    /\ Did(s, "import", t)
    /\ IF HoldLive(s, t) THEN ClosurePresent(s, s.bound[t]) ELSE SubjectsPresent(s, s.bound[t])
    /\ s.bound[t].job # NoJob => SameJob(s.job, s.bound[t].job) \/ t \in s.released
    /\ s.imported[t] # 0
    /\ s.lock = NoLock /\ ~Reserved(s, t)
    /\ ~Did(s, "export", t) /\ ~Did(s, "activate", t)
    /\ ~Did(s, "srcAbort", t) /\ ~Did(s, "dstAbort", t)

ValidExport(s, c, t) ==
  /\ Retained(s, "export", t)
  /\ Did(s, "export", t) =>
       /\ s.bound[t].source = c
       /\ s.exported[t] # 0
       /\ s.lock = NoLock
       /\ ClosureAbsent(s, s.bound[t])

ValidFinalization(s, c, t) ==
  /\ Retained(s, "finalize", t)
  /\ (t \in s.tombs) <=> Did(s, "finalize", t)
  /\ Did(s, "finalize", t) =>
       /\ Did(s, "export", t) /\ s.exported[t] # 0
       /\ s.lock = NoLock /\ ~Reserved(s, t) /\ t \notin s.pending
       /\ ~Did(s, "import", t) /\ ~Did(s, "activate", t) /\ ~Did(s, "srcAbort", t)
       /\ ClosureAbsent(s, s.bound[t])

ValidImport(s, c, t) ==
  /\ Retained(s, "import", t)
  /\ Did(s, "import", t) =>
       /\ s.bound[t].destination = c
       /\ s.imported[t] # 0
       /\ (t \in s.pending) # Did(s, "activate", t)
       /\ ~LockedFor(s, t) /\ ~Reserved(s, t) /\ ~Did(s, "export", t) /\ ~Did(s, "dstAbort", t)

ValidActivation(s, c, t) ==
  /\ Retained(s, "activate", t)
  /\ Did(s, "activate", t) =>
       /\ Did(s, "import", t) /\ t \notin s.pending
       /\ s.done["activate"][t].seq > s.done["import"][t].seq
       /\ s.seq = s.done["activate"][t].seq =>
            IF HoldLive(s, t) THEN ClosurePresent(s, s.bound[t]) ELSE SubjectsPresent(s, s.bound[t])
       /\ ~LockedFor(s, t) /\ ~Reserved(s, t) /\ ~Did(s, "export", t) /\ ~Did(s, "dstAbort", t)
       /\ s.imported[t] # 0

\* A released hold is no longer live, and was the hold of a committed import.
ValidReleases(s) ==
  /\ s.hold.transfer \notin s.released
  /\ \A t \in s.released : Did(s, "import", t)
ValidHold(s) ==
  s.hold # NoHold =>
    /\ Did(s, "import", s.hold.transfer)
    /\ s.job = s.hold.job /\ s.job = s.bound[s.hold.transfer].job

ValidAbort(s, c, t) ==
  \A k \in {"srcAbort", "dstAbort"} :
    /\ Retained(s, k, t)
    /\ Did(s, k, t) => /\ c = IF k = "srcAbort" THEN s.bound[t].source ELSE s.bound[t].destination
                       /\ ~LockedFor(s, t) /\ ~Reserved(s, t) /\ t \notin s.pending
                       /\ ~Did(s, "export", t) /\ ~Witnessed(s, t)

FrozenDisjoint(s) ==
  \A t, u \in Frozen(s) : t # u => MembersIn(s.bound[t]) \cap MembersIn(s.bound[u]) = {}

ValidJobOrigin(s, c) == s.job.creator = c => s.job.at \in 1..s.seq

ValidCell(s, c) ==
  /\ Conserved(s, c) /\ ValidJobOrigin(s, c)
  /\ ValidLock(s, c) /\ ValidReleases(s) /\ ValidHold(s) /\ FrozenDisjoint(s)
  /\ \A t \in Transfers :
       /\ ValidPrepare(s, c, t) /\ ValidQuarantine(s, c, t) /\ ValidReservation(s, c, t)
       /\ ValidPending(s, c, t) /\ ValidExport(s, c, t) /\ ValidFinalization(s, c, t)
       /\ ValidImport(s, c, t) /\ ValidActivation(s, c, t) /\ ValidAbort(s, c, t)

-----------------------------------------------------------------------------
(* Authority *)

\* Generations are numbered without gaps and every fence exceeds the one before.
FencingHistoryValid(fences) ==
  Len(fences) > 0 /\ \A g \in DOMAIN fences : fences[g] > IF g = 1 THEN 0 ELSE fences[g - 1]

\* rebind_cell_authority_after_validation: a successor fence replaces the fence.
Rebound(s, d, c) == [s EXCEPT !.fence = Fence(d, c)]
RebindOk(s, d, c) ==
  /\ d.assign[c].state = "Assigned"
  /\ Fence(d, c) >= s.fence
  /\ Cardinality({g \in 1..CellGen(d, c) : d.assign[c].fences[g] = s.fence}) = 1
  /\ ValidCell(s, c) /\ ValidCell(Rebound(s, d, c), c)

\* The proofs that an authority in a phase must and must not carry, each bound
\* to the ones before it.
AuthorityMatrix(r) ==
  LET has    == {k \in ProofKinds : Has(r, k)}
      moved  == {"export", "import", "activate", "finalize"}
      aborts == {"srcAbort", "dstAbort"}
      Only(must, may) == must \subseteq has /\ has \subseteq must \cup may
      staged == {"prepare", "quarantine"}
  IN /\ CASE r.phase = "Prepared"    -> Only({}, {"prepare"})
          [] r.phase = "Quarantined" -> Only(staged, {})
          [] r.phase = "Committed"   -> Only(staged, {"export"})
          [] r.phase = "Imported"    -> Only(staged \cup {"export", "import"}, {"activate"})
          [] r.phase = "Finalized"   -> Only(staged \cup moved, {})
          [] r.phase = "Aborting"    -> Only({}, staged \cup aborts)
          [] r.phase = "Aborted"     -> Only(aborts, staged)
     /\ ("quarantine" \in has) <=> (r.receipt # 0)
     /\ "quarantine" \in has => "prepare" \in has
     /\ \A later \in has \cap moved, earlier \in {"export", "import", "activate"} :
          r.proofs[later].binds[earlier] # 0 =>
            earlier \in has /\ r.proofs[later].binds[earlier] = r.proofs[earlier].seq

\* validate_package of the authority that the directory head grants.
AuthorityBinds(d, t) ==
  LET r == d.transfers[t]
      pkg == r.package
  IN /\ ValidWire(pkg) /\ AuthorityMatrix(r) /\ SameMaterial(r, TransferOf(pkg))
     /\ FencingHistoryValid(d.assign[r.source].fences)
     /\ FencingHistoryValid(d.assign[r.destination].fences)
     /\ d.assign[r.source].fences[pkg.sgen] = pkg.sfence
     /\ d.assign[r.destination].fences[pkg.dgen] = pkg.dfence
     /\ \A k \in ProofKinds : Has(r, k) =>
          d.assign[KindCell(r, k)].fences[r.proofs[k].gen] = r.proofs[k].fence

\* A cell event of a kind can be staged: both ends of the transfer are assigned,
\* and the state takes the fence of the cell's authority.
EventReady(s, d, t, k) ==
  LET c == KindCell(d.transfers[t], k) IN
  Known(d, t) /\ AuthorityBinds(d, t) /\ RebindOk(s, d, c)

-----------------------------------------------------------------------------
(* Proofs *)

EventProof(s, d, c, time, receipt, binds, removed) ==
  [gen |-> CellGen(d, c), fence |-> Fence(d, c), seq |-> s.seq + 1, time |-> time,
   receipt |-> receipt, binds |-> binds, removed |-> removed]
PrepareProof(s, d, t, time) ==
  EventProof(s, d, d.transfers[t].source, 0, 0, NoBinding, FALSE)
QuarantineProof(s, d, t, time) ==
  EventProof(s, d, d.transfers[t].destination, time, s.seq + 1, NoBinding, FALSE)
ExportProof(s, d, t, time) ==
  EventProof(s, d, d.transfers[t].source, time, d.transfers[t].receipt, NoBinding, FALSE)
ImportProof(s, d, t, time) ==
  EventProof(s, d, d.transfers[t].destination, time, d.transfers[t].receipt,
             [NoBinding EXCEPT !["export"] = d.transfers[t].proofs["export"].seq], FALSE)
ActivationProof(s, d, t, time) ==
  EventProof(s, d, d.transfers[t].destination, time, d.transfers[t].receipt,
             [NoBinding EXCEPT !["import"] = s.done["import"][t].seq], FALSE)
FinalizationProof(s, d, t, time) ==
  EventProof(s, d, d.transfers[t].source, time, 0,
             [k \in {"export", "import", "activate"} |-> d.transfers[t].proofs[k].seq], FALSE)
AbortProof(s, d, t, time, side) ==
  EventProof(s, d, KindCell(d.transfers[t], side), time,
             IF side = "dstAbort" /\ Reserved(s, t) THEN s.reserve[t].seq ELSE d.transfers[t].receipt,
             NoBinding, IF side = "srcAbort" THEN LockedFor(s, t) ELSE Reserved(s, t))

\* The event moves the frontier and leaves its record.
Commit(s, d, t, k, proof) ==
  [s EXCEPT !.seq = proof.seq, !.fence = proof.fence,
            !.bound[t] = d.transfers[t].package, !.done[k][t] = proof]

-----------------------------------------------------------------------------
(* Staging an event of the source or of the destination *)

Untouched(s, t) ==
  /\ s.bound[t] = NoPackage
  /\ \A k \in ProofKinds : ~Did(s, k, t)
Overlapping(s, pkg) == \E u \in Frozen(s) : MembersIn(s.bound[u]) \cap MembersIn(pkg) # {}

StagePreparedOk(s, d, t, time) ==
  LET r == d.transfers[t] IN
  /\ r.phase = "Prepared" /\ ~Has(r, "prepare")
  /\ s.hold = NoHold
  /\ s.lock = NoLock /\ Untouched(s, t) /\ ~Overlapping(s, r.package)
  /\ r.package.seq = s.seq /\ LockMatches(s, r.package)
StagePrepared(s, d, t, time) ==
  LET p == PrepareProof(s, d, t, time) IN
  [Commit(s, d, t, "prepare", p) EXCEPT !.lock = [transfer |-> t, seq |-> p.seq]]

StageQuarantineOk(s, d, t, time) ==
  LET r == d.transfers[t] IN
  /\ r.phase = "Prepared" /\ Has(r, "prepare") /\ time > 0
  /\ DestinationFree(s, r.package)
  /\ Untouched(s, t) /\ ~Overlapping(s, r.package)
StageQuarantine(s, d, t, time) ==
  LET p == QuarantineProof(s, d, t, time) IN
  [Commit(s, d, t, "quarantine", p) EXCEPT
     !.reserve[t] = [seq |-> p.seq, time |-> time, fence |-> p.fence]]

StageExportOk(s, d, t, time) ==
  LET r == d.transfers[t] IN
  /\ r.phase = "Committed" /\ ~Has(r, "export") /\ time > 0
  /\ ~Did(s, "export", t) /\ ~Reserved(s, t) /\ ~Did(s, "srcAbort", t) /\ ~Witnessed(s, t)
  /\ LockedFor(s, t) /\ LockMatches(s, r.package)
StageExport(s, d, t, time) ==
  LET pkg == d.transfers[t].package IN
  [Commit(s, d, t, "export", ExportProof(s, d, t, time)) EXCEPT
     !.here = @ \ MembersIn(pkg), !.job = NoJob, !.lock = NoLock,
     !.exported[t] = Cardinality(MembersIn(pkg))]

\* Mutant: the import does not wait for the export.
StageImportOkUnexported(s, d, t, time) ==
  LET r == d.transfers[t] IN
  /\ r.phase = "Committed" /\ ~Has(r, "import")
  /\ ~Did(s, "import", t) /\ Reserved(s, t) /\ s.bound[t] = r.package
  /\ time >= s.reserve[t].time /\ ClosureAbsent(s, r.package)
StageImportOk(s, d, t, time) ==
  LET r == d.transfers[t] IN
  /\ r.phase = "Committed" /\ Has(r, "export") /\ ~Has(r, "import")
  /\ ~Did(s, "import", t) /\ t \notin s.pending /\ ~Did(s, "export", t) /\ ~Did(s, "dstAbort", t)
  /\ Reserved(s, t) /\ s.bound[t] = r.package /\ r.receipt = s.reserve[t].seq
  /\ time > 0 /\ time >= s.reserve[t].time /\ time >= r.proofs["export"].time
  /\ ClosureAbsent(s, r.package)
  /\ \A u \in Frozen(s) \ {t} : MembersIn(s.bound[u]) \cap MembersIn(r.package) = {}
\* derive_imported_production_eligibilities: an imported queue rests for the rearm time.
HoldFor(pkg, t, time) ==
  IF pkg.job = NoJob THEN NoHold ELSE [transfer |-> t, job |-> pkg.job, at |-> time + Rearm]
StageImport(s, d, t, time) ==
  LET pkg == d.transfers[t].package IN
  [Commit(s, d, t, "import", ImportProof(s, d, t, time)) EXCEPT
     !.reserve[t] = NoReserve, !.pending = @ \cup {t},
     !.here = @ \cup MembersIn(pkg), !.job = pkg.job,
     !.hold = IF pkg.job = NoJob THEN @ ELSE HoldFor(pkg, t, time),
     !.imported[t] = Cardinality(MembersIn(pkg))]

StageActivationOk(s, d, t, time) ==
  LET r == d.transfers[t] IN
  /\ r.phase = "Imported" /\ Has(r, "import") /\ ~Has(r, "activate")
  /\ r.proofs["import"] = s.done["import"][t] /\ ~Did(s, "activate", t)
  /\ time >= s.done["import"][t].time
  /\ t \in s.pending /\ s.bound[t] = r.package
StageActivation(s, d, t, time) ==
  [Commit(s, d, t, "activate", ActivationProof(s, d, t, time)) EXCEPT !.pending = @ \ {t}]

StageFinalizationOk(s, d, t, time) ==
  LET r == d.transfers[t] IN
  /\ r.phase = "Imported" /\ Has(r, "activate") /\ ~Has(r, "finalize")
  /\ r.proofs["export"] = s.done["export"][t] /\ ~Did(s, "finalize", t)
  /\ time >= r.proofs["activate"].time
  /\ s.lock = NoLock /\ ~Reserved(s, t) /\ t \notin s.pending
  /\ ~Did(s, "import", t) /\ ~Did(s, "activate", t) /\ ~Did(s, "srcAbort", t)
  /\ ClosureAbsent(s, s.bound[t])
StageFinalization(s, d, t, time) ==
  [Commit(s, d, t, "finalize", FinalizationProof(s, d, t, time)) EXCEPT !.tombs = @ \cup {t}]

\* A cell gives back what it froze; the directory must know of what it froze.
StageSourceAbortOk(s, d, t, time) ==
  LET r == d.transfers[t] IN
  /\ r.phase = "Aborting" /\ time > 0 /\ ~Has(r, "srcAbort") /\ ~Did(s, "srcAbort", t)
  /\ s.lock # NoLock => LockedFor(s, t)
  /\ Has(r, "prepare") => LockedFor(s, t)
StageSourceAbort(s, d, t, time) ==
  [Commit(s, d, t, "srcAbort", AbortProof(s, d, t, time, "srcAbort")) EXCEPT !.lock = NoLock]
StageDestinationAbortOk(s, d, t, time) ==
  LET r == d.transfers[t] IN
  /\ r.phase = "Aborting" /\ time > 0 /\ ~Has(r, "dstAbort") /\ ~Did(s, "dstAbort", t)
  /\ ClosureAbsent(s, r.package)
  /\ Reserved(s, t) => s.bound[t] = r.package /\ r.receipt = s.reserve[t].seq
  /\ Has(r, "quarantine") => Reserved(s, t)
StageDestinationAbort(s, d, t, time) ==
  [Commit(s, d, t, "dstAbort", AbortProof(s, d, t, time, "dstAbort")) EXCEPT !.reserve[t] = NoReserve]

\* dispatch_rebound_event_v17.
StageOk(s, d, t, k, time) ==
  CASE k = "prepare"    -> StagePreparedOk(s, d, t, time)
    [] k = "quarantine" -> StageQuarantineOk(s, d, t, time)
    [] k = "export"     -> StageExportOk(s, d, t, time)
    [] k = "import"     -> StageImportOk(s, d, t, time)
    [] k = "activate"   -> StageActivationOk(s, d, t, time)
    [] k = "finalize"   -> StageFinalizationOk(s, d, t, time)
    [] k = "srcAbort"   -> StageSourceAbortOk(s, d, t, time)
    [] OTHER            -> StageDestinationAbortOk(s, d, t, time)
Stage(s, d, t, k, time) ==
  CASE k = "prepare"    -> StagePrepared(s, d, t, time)
    [] k = "quarantine" -> StageQuarantine(s, d, t, time)
    [] k = "export"     -> StageExport(s, d, t, time)
    [] k = "import"     -> StageImport(s, d, t, time)
    [] k = "activate"   -> StageActivation(s, d, t, time)
    [] k = "finalize"   -> StageFinalization(s, d, t, time)
    [] k = "srcAbort"   -> StageSourceAbort(s, d, t, time)
    [] OTHER            -> StageDestinationAbort(s, d, t, time)

-----------------------------------------------------------------------------
(* Finding the proof of an event that is already committed *)

ReconcilePrepared(s, d, t) ==
  /\ d.transfers[t].phase \in {"Prepared", "Quarantined", "Committed"}
  /\ LockedFor(s, t) /\ s.bound[t] = d.transfers[t].package
ReconcileQuarantined(s, d, t) ==
  LET r == d.transfers[t] IN
  /\ Reserved(s, t) /\ s.bound[t] = r.package
  /\ CASE r.phase = "Prepared" -> Has(r, "prepare")
       [] r.phase = "Quarantined" -> r.receipt = s.reserve[t].seq
       [] r.phase = "Aborting" ->
            Has(r, "prepare") /\ (Has(r, "quarantine") => r.receipt = s.reserve[t].seq)
       [] OTHER -> FALSE
ReconcileExport(s, d, t) ==
  LET r == d.transfers[t] IN
  /\ Did(s, "export", t) /\ s.bound[t] = r.package /\ r.receipt = s.done["export"][t].receipt
  /\ r.phase \in {"Committed", "Imported", "Finalized"}
  /\ s.lock = NoLock /\ ClosureAbsent(s, s.bound[t]) /\ s.exported[t] # 0
ReconcileImport(s, d, t) ==
  LET r == d.transfers[t] IN
  /\ Did(s, "import", t) /\ s.bound[t] = r.package
  /\ r.phase \in {"Committed", "Imported", "Finalized"}
  /\ (t \in s.pending) # Did(s, "activate", t)
ReconcileActivation(s, d, t) ==
  /\ Did(s, "import", t) /\ Did(s, "activate", t) /\ t \notin s.pending
  /\ d.transfers[t].phase \in {"Imported", "Finalized"}
ReconcileFinalization(s, d, t) ==
  /\ Did(s, "export", t) /\ Did(s, "finalize", t) /\ t \in s.tombs
  /\ d.transfers[t].phase \in {"Imported", "Finalized"}
  /\ ClosureAbsent(s, s.bound[t])
ReconcileAbort(s, d, t, side) ==
  LET r == d.transfers[t] IN
  /\ Did(s, side, t) /\ s.bound[t] = r.package
  /\ r.phase \in {"Aborting", "Aborted"}
  /\ IF side = "srcAbort" THEN s.done[side][t].receipt \in {0, r.receipt}
                          ELSE s.done[side][t].receipt = r.receipt

\* The directory either has no proof of the kind yet, or this one.
Reconciled(s, d, t, k) ==
  /\ Did(s, k, t)
  /\ Has(d.transfers[t], k) => d.transfers[t].proofs[k] = s.done[k][t]
  /\ CASE k = "prepare"    -> ReconcilePrepared(s, d, t)
       [] k = "quarantine" -> ReconcileQuarantined(s, d, t)
       [] k = "export"     -> ReconcileExport(s, d, t)
       [] k = "import"     -> ReconcileImport(s, d, t)
       [] k = "activate"   -> ReconcileActivation(s, d, t)
       [] k = "finalize"   -> ReconcileFinalization(s, d, t)
       [] OTHER            -> ReconcileAbort(s, d, t, k)

-----------------------------------------------------------------------------
(* A production occurrence *)

\* validate_next_occurrence_for_world, and the delivery at its time or later.
OccurrenceOk(s, at, now) ==
  /\ IF s.quanta = 0 THEN at > 0 ELSE at >= s.clock + Rearm
  /\ now >= at
Due(s, at)       == s.hold # NoHold /\ at >= s.hold.at
Evaluates(s, at) == s.job # NoJob /\ (s.hold = NoHold \/ Due(s, at))
\* One second of work, unless the machine is blocked; the last one empties the queue.
AfterOneSecond(job, works) ==
  IF ~works THEN job
  ELSE IF job.left = 1 THEN NoJob ELSE [job EXCEPT !.left = @ - 1]
StageProduction(s, d, c, at, works) ==
  [Rebound(s, d, c) EXCEPT
     !.seq = @ + 1, !.quanta = @ + 1, !.clock = at,
     !.job = IF Evaluates(s, at) THEN AfterOneSecond(@, works) ELSE @,
     !.released = IF Due(s, at) THEN @ \cup {s.hold.transfer} ELSE @,
     !.hold = IF Due(s, at) THEN NoHold ELSE @]
=============================================================================
