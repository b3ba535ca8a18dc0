------------------------- MODULE UniverseLifecycle -------------------------
(***************************************************************************)
(* The activated universe at work (protocol19_install.rs): one process     *)
(* holds the install lock, the directory history, the write-ahead head of  *)
(* the universe and the store of every cell, and a dispatch takes a cell   *)
(* through claim, production quanta and release.  Four durable stores take *)
(* part in a dispatch and none of them commits together with another:      *)
(*                                                                         *)
(*   dir    directory-v3 history: journal, then head (cell_directory_v3.rs)*)
(*   wal    universe lifecycle head: one atomically replaced file          *)
(*   life   per cell: lifecycle journal, then head (lifecycle_v2.rs)       *)
(*   world  per cell: event head with the pending event, event journal,    *)
(*          boundary journal, committed head (store_v21/event_journal.rs)  *)
(*                                                                         *)
(* Every action makes at most one durable write.  A write may fail after   *)
(* it took effect, or torn; the store is then poisoned and the dispatch    *)
(* returns an error.  The process may stop between any two actions.        *)
(***************************************************************************)
EXTENDS LifecycleRecord, SequencesExt

CONSTANTS
  Work,       \* cell -> quanta that change the state of the cell
  MaxTime,    \* bound on the trusted clock
  MaxRecords, \* cell -> bound on the lifecycle revision at which a dispatch starts
  MaxFaults   \* bound on crashes, failed writes and clock rollbacks

ASSUME UniverseAssumption ==
  /\ \A c \in Cells : Work[c] \in Nat /\ MaxRecords[c] \in Nat
  /\ MaxTime \in Nat \ {0} /\ MaxFaults \in Nat

VARIABLES dir, wal, life, world,  \* durable
          mem,                    \* what the process believes, and the poisoned stores
          run,                    \* where the process is
          now, faults
disk == <<dir, wal, life, world>>
vars == <<dir, wal, life, world, mem, run, now, faults>>

-----------------------------------------------------------------------------
(* The files *)

Events == [ev : Nat, seq : Nat, at : Nat, time : Nat, gen : Nat, dirRev : Nat]
\* How far an event has got: pending head, event line, boundary line (torn or whole).
EventTails == {"clean", "pending", "torn", "line", "boundTorn", "bound"}

FrontierOf(c, log) ==
  IF log = <<>> THEN Frontier(Genesis[c].ev, Genesis[c].ack, Genesis[c].sched)
  ELSE Frontier(Last(log).ev, Last(log).seq, Last(log).at)

TornLine == [torn |-> TRUE]
\* What recovery makes of a file that a crash left behind: a torn line goes, a
\* whole line counts; an event counts once its line is whole.
RecoveredRecord(l) == IF l.tail \in {Nil, TornLine} THEN l.at ELSE l.tail
RecoveredLog(w) ==
  IF w.tail \in {"line", "boundTorn", "bound"} THEN Append(w.log, w.event) ELSE w.log

\* LifecycleRuntimePreflightV2
Bootstrapping(l) == RecoveredRecord(l) = Nil
Absent(l) == l.files = "absent"

-----------------------------------------------------------------------------
(* The read-only preflight of an open *)

\* LifecycleStoreV2::recover without repair, and the view of directory and world.
LifePreflight(c) ==
  LET l == life[c]
      r == RecoveredRecord(l)
  IN /\ l.tail \notin {Nil, TornLine} =>
          PrepareOk(l.at, l.tail, dir.log, c)
     /\ l.at = Nil /\ r # Nil => r = InitialRecord(c, dir.log[1])
     /\ r # Nil => RecoveryView(r, Last(dir.log), c, FrontierOf(c, RecoveredLog(world[c])))

\* Replay authenticates an event by the document it was accepted under.
EventAuthority(c, e) ==
  /\ e.dirRev \in DOMAIN dir.log
  /\ dir.log[e.dirRev].assign[c].state = "Assigned" /\ CellGen(dir.log[e.dirRev], c) = e.gen
WorldPreflight(c) == \A i \in DOMAIN RecoveredLog(world[c]) :
                       EventAuthority(c, RecoveredLog(world[c])[i])

\* validate_preflight_lifecycle_commitments
CommitmentAccepted(c) ==
  LET l == life[c]
      r == RecoveredRecord(l)
  IN IF wal.pending # Nil /\ wal.pending.cell = c
     THEN \/ wal.pending.prior = 0 /\ Bootstrapping(l)
          \/ ~Bootstrapping(l) /\ r.rev \in {wal.pending.prior, wal.pending.rec.rev}
     ELSE \/ wal.cells[c] = 0 /\ Absent(l)
          \/ wal.cells[c] > 0 /\ ~Bootstrapping(l) /\ r.rev = wal.cells[c]

DirectoryPreflight == Len(dir.log) \in {dir.head, dir.head + 1} /\ dir.head >= 1
PreflightOk ==
  /\ DirectoryPreflight
  /\ \A c \in Cells : WorldPreflight(c) /\ LifePreflight(c)
  /\ IF wal = Nil THEN \A c \in Cells : Absent(life[c]) ELSE \A c \in Cells : CommitmentAccepted(c)

-----------------------------------------------------------------------------
(* The process *)

Down   == [at |-> "down", cell |-> None, holder |-> None, t |-> 0, rec |-> Nil, then |-> None]
Idle   == [Down EXCEPT !.at = "idle"]
NoMem  == [docs |-> 0, wal |-> Nil, life |-> [c \in Cells |-> Nil],
           events |-> [c \in Cells |-> 0], poison |-> {}]
Opening == run.at \in {"opendir", "cells", "reconcile"} \/ run.then = "reconcile"

\* The stores that a failed write poisons.
DirStore      == <<"dir", None>>
WalStore      == <<"wal", None>>
LifeStore(c)  == <<"life", c>>
WorldStore(c) == <<"world", c>>

\* The locked tips in memory.
Doc        == dir.log[mem.docs]
Documents  == SubSeq(dir.log, 1, mem.docs)
MemWorld(c) == SubSeq(world[c].log, 1, mem.events[c])
MemFrontier(c) == FrontierOf(c, MemWorld(c))
Record     == mem.life[run.cell]
Runnable(c) == mem.events[c] < Work[c]

GoTo(label) == run' = [run EXCEPT !.at = label]
Refuse      == run' = Idle
Unwritten   == UNCHANGED <<disk, mem, now, faults>>

Init ==
  /\ dir = [log |-> <<GenesisDocument>>, head |-> 1, torn |-> FALSE]
  /\ wal = Nil
  /\ life = [c \in Cells |-> [files |-> "absent", at |-> Nil, tail |-> Nil]]
  /\ world = [c \in Cells |-> [log |-> <<>>, tail |-> "clean", event |-> Nil]]
  /\ mem = NoMem /\ run = Down
  /\ now = 1 /\ faults = 0

\* A write that reports an error: its effect is one of the outcomes, the store
\* is poisoned, and the open or the dispatch is over.
Fails(store) ==
  /\ faults < MaxFaults /\ faults' = faults + 1
  /\ IF Opening THEN run' = Down /\ mem' = NoMem
     ELSE run' = Idle /\ mem' = [mem EXCEPT !.poison = @ \cup {store}]
  /\ UNCHANGED now

-----------------------------------------------------------------------------
(* append_committed_lifecycle: write-ahead head, cell journal, cell head,  *)
(* write-ahead head                                                        *)

AppendOk(rec) ==
  LET c == run.cell IN
  /\ mem.wal.pending = Nil /\ mem.wal.cells[c] = mem.life[c].rev
  /\ LifeStore(c) \notin mem.poison
  /\ PrepareOk(mem.life[c], rec, Documents, c)
Appending(rec, t, then) ==
  run' = IF AppendOk(rec) THEN [run EXCEPT !.at = "begin", !.t = t, !.rec = rec, !.then = then]
         ELSE Idle

\* UniverseLifecycleStoreV1::persist
PersistOk == WalStore \notin mem.poison /\ wal = mem.wal
BeginHead == [mem.wal EXCEPT !.pending =
                [cell |-> run.cell, prior |-> mem.wal.cells[run.cell], rec |-> run.rec]]
BeginAppend ==
  /\ run.at = "begin"
  /\ IF PersistOk
     THEN \/ wal' = BeginHead /\ mem' = [mem EXCEPT !.wal = BeginHead]
             /\ GoTo(IF life[run.cell].files = "pair" THEN "line" ELSE "reconcile")
             /\ UNCHANGED <<now, faults>>
          \/ wal' \in {wal, BeginHead} /\ Fails(WalStore)
     ELSE Refuse /\ UNCHANGED <<wal, mem, now, faults>>
  /\ UNCHANGED <<dir, life, world>>

\* materialize_prepared: the line and its sync ...
MaterializeLine ==
  /\ run.at = "line"
  /\ \/ life' = [life EXCEPT ![run.cell].tail = run.rec] /\ GoTo("head")
        /\ UNCHANGED <<mem, now, faults>>
     \/ /\ \E tail \in {Nil, TornLine, run.rec} : life' = [life EXCEPT ![run.cell].tail = tail]
        /\ Fails(LifeStore(run.cell))
  /\ UNCHANGED <<dir, wal, world>>
\* ... then the head.
Headed == [life EXCEPT ![run.cell].at = run.rec, ![run.cell].tail = Nil]
MaterializeHead ==
  /\ run.at = "head"
  /\ \/ life' = Headed /\ mem' = [mem EXCEPT !.life[run.cell] = run.rec] /\ GoTo("finish")
        /\ UNCHANGED <<now, faults>>
     \/ life' \in {life, Headed} /\ Fails(LifeStore(run.cell))
  /\ UNCHANGED <<dir, wal, world>>

\* Mutant: the commitment of the cell stays where it was.
FinishHeadForgets == [mem.wal EXCEPT !.pending = Nil]
FinishHead == [mem.wal EXCEPT !.cells[mem.wal.pending.cell] = mem.wal.pending.rec.rev,
                              !.pending = Nil]
FinishAppend ==
  /\ run.at = "finish"
  /\ \/ wal' = FinishHead /\ mem' = [mem EXCEPT !.wal = FinishHead] /\ GoTo(run.then)
        /\ UNCHANGED <<now, faults>>
     \/ wal' \in {wal, FinishHead} /\ Fails(WalStore)
  /\ UNCHANGED <<dir, life, world>>

-----------------------------------------------------------------------------
(* Authority *)

\* MaxGeneration bounds the runs: a request that would pass it is not made.
Ask(kind, t) ==
  LET c == run.cell
      h == run.holder
  IN IF RequestOk(Record, Doc, c, kind, h, t, MemFrontier(c))
        /\ (kind = "Release" \/ CellGen(Doc, c) < MaxGeneration)
     THEN Appending(Request(Record, Doc, c, kind, h, t), t, "directory")
     ELSE Refuse

\* reconcile_or_acquire_background_authority
Acquire ==
  LET c == run.cell
      a == Doc.assign[c]
  IN /\ run.at = "acquire"
     /\ IF Record.op # Nil THEN GoTo("directory")
        ELSE IF a.state = "Sleeping" THEN Ask("Claim", run.t)
        ELSE IF Record.holder = a.holder /\ Record.holder = run.holder /\ run.t < Record.exp
        THEN IF Record.pending # Nil THEN GoTo("resume")
             ELSE IF RenewOk(Record, Doc, c, run.t, MemFrontier(c), Record.next)
             THEN Appending(Renew(Record, Doc, c, run.t, MemFrontier(c), Record.next), run.t, "resume")
             ELSE Refuse
        ELSE Ask("Recovery", run.t)
     /\ Unwritten

\* finish_authority_operation: the directory transition of the recorded
\* operation, or the recognition that it is already there.
OperationRetry(op, c) ==
  IF op.kind = "Release" THEN ReleaseRetryV3(Documents, Doc, c, op.gen, op.holder)
  ELSE TransitionRetry(Documents, Doc, c, op.gen, op.holder, StartState(op.kind))
OperationOk(op, c) ==
  IF op.kind = "Release" THEN ReleaseOkV3(Doc, c, op.gen, op.holder)
  ELSE TransitionOk(Doc, c, op.gen, StartState(op.kind))
\* Mutant: the assignment goes to whoever dispatches.
OperationDocumentForCaller(op, c) ==
  IF op.kind = "Release" THEN ReleaseV3(Doc, c) ELSE Transition(Doc, c, run.holder)
OperationDocument(op, c) ==
  IF op.kind = "Release" THEN ReleaseV3(Doc, c) ELSE Transition(Doc, c, op.holder)
DirectoryOperation ==
  LET c  == run.cell
      op == Record.op
  IN /\ run.at = "directory"
     /\ IF ~MonotonicTime(run.t, Record) THEN Refuse
        ELSE IF OperationRetry(op, c) THEN GoTo("finalize")
        ELSE IF /\ OperationOk(op, c) /\ Sealed(Doc, OperationDocument(op, c))
                /\ DirStore \notin mem.poison
        THEN run' = [run EXCEPT !.at = "dirline", !.rec = Finish(OperationDocument(op, c))]
        ELSE Refuse
     /\ Unwritten
\* append_document: the line and its sync, then the head.
DirectoryLine ==
  LET line == [dir EXCEPT !.log = Append(@, run.rec)] IN
  /\ run.at = "dirline"
  /\ \/ dir' = line /\ GoTo("dirhead") /\ UNCHANGED <<mem, now, faults>>
     \/ dir' \in {dir, line, [dir EXCEPT !.torn = TRUE]} /\ Fails(DirStore)
  /\ UNCHANGED <<wal, life, world>>
DirectoryHead ==
  LET headed == [dir EXCEPT !.head = @ + 1] IN
  /\ run.at = "dirhead"
  /\ \/ /\ dir' = headed /\ mem' = [mem EXCEPT !.docs = @ + 1] /\ GoTo("finalize")
        /\ UNCHANGED <<now, faults>>
     \/ dir' \in {dir, headed} /\ Fails(DirStore)
  /\ UNCHANGED <<wal, life, world>>

\* The finalized record.  A dispatch never goes on under another's holder.
Finalize ==
  LET c == run.cell
      f == MemFrontier(c)
      then == IF Record.op.holder = run.holder THEN "resume" ELSE "acquire"
  IN /\ run.at = "finalize"
     /\ IF FinalizeSleepingOk(Record, Doc, c, run.t, f)
        THEN Appending(FinalizeSleeping(Record, Doc, c, run.t, f), run.t, then)
        ELSE IF FinalizeAssignedOk(Record, Doc, c, run.t, f)
        THEN Appending(FinalizeAssigned(Record, Doc, c, run.t, f), run.t, then)
        ELSE Refuse
     /\ Unwritten

-----------------------------------------------------------------------------
(* dispatch_background_production *)

\* The bound stops new dispatches only, never one that has something to settle.
Dispatch(c, h) ==
  /\ run.at = "idle"
  /\ mem.life[c].rev < MaxRecords[c] \/ mem.life[c].op # Nil \/ mem.life[c].pending # Nil
  /\ run' = [at |-> "acquire", cell |-> c, holder |-> h, t |-> now, rec |-> Nil, then |-> None]
  /\ Unwritten

\* A sleeping cell has nothing to dispatch.
Resume ==
  /\ run.at = "resume"
  /\ IF Record.mode = "Sleeping" THEN Refuse ELSE GoTo("pending")
  /\ Unwritten

\* The next production quantum the world accepts.
WorldAccepts(c, o) ==
  LET f == MemFrontier(c) IN
  o.seq = f.ack + 1 /\ (IF f.ack = 0 THEN o.at > 0 ELSE o.at >= f.sched + Quantum)
\* append_production_occurrence, as far as the first write.
Write(then) ==
  LET c == run.cell
      o == Record.pending.occ
  IN run' = IF /\ EventAppendAuthority(Record, Doc, c, now, MemFrontier(c))
               /\ WorldAccepts(c, o) /\ WorldStore(c) \notin mem.poison
            THEN [run EXCEPT !.at = "evhead", !.t = now, !.then = then,
                             !.rec = [ev |-> MemFrontier(c).ev + 1, seq |-> o.seq, at |-> o.at,
                                      time |-> now, gen |-> CellGen(Doc, c), dirRev |-> Doc.rev]]
            ELSE Idle

\* reconcile_pending_production: the world decides whether the occurrence committed.
ReconcilePending ==
  LET f == MemFrontier(run.cell) IN
  /\ run.at = "pending"
  /\ IF Record.pending = Nil THEN GoTo("arm")
     ELSE IF f.ev = Record.pending.prior THEN Write("acknowledge")
     ELSE IF PendingSuccessor(Record, f) THEN GoTo("acknowledge")
     ELSE Refuse
  /\ Unwritten
AcknowledgePending ==
  LET c == run.cell
      f == MemFrontier(c)
      next == IF Runnable(c) THEN Occurrence(f, Record.pending.occ.at + Quantum) ELSE Nil
  IN /\ run.at = "acknowledge"
     /\ IF now >= Last(MemWorld(c)).time /\ AcknowledgeOk(Record, Doc, c, now, f, next)
        THEN Appending(Acknowledge(Record, now, f, next), now, "arm")
        ELSE Refuse
     /\ Unwritten

\* Arm the first occurrence of a runnable cell; release an idle one.
Arm ==
  LET c == run.cell
      f == MemFrontier(c)
      o == Occurrence(f, now + Quantum)
  IN /\ run.at = "arm"
     /\ IF Record.next # Nil THEN run' = [run EXCEPT !.at = "due", !.t = now]
        ELSE IF ~Runnable(c) THEN Ask("Release", now)
        ELSE IF RenewOk(Record, Doc, c, now, f, o)
        THEN Appending(Renew(Record, Doc, c, now, f, o), now, "due")
        ELSE Refuse
     /\ Unwritten
\* The occurrence is due, and neither budget of the dispatch is used up.
BeginDue ==
  LET c == run.cell
      f == MemFrontier(c)
  IN /\ run.at = "due"
     /\ IF Record.next.at <= run.t /\ BeginCommitOk(Record, Doc, c, run.t, f)
        THEN Appending(BeginCommit(Record, run.t, f), run.t, "fresh")
        ELSE Refuse
     /\ Unwritten
\* A new sample of trusted time at the boundary of the world write.
FreshAuthority == run.at = "fresh" /\ Write("pending") /\ Unwritten
\* MAX_BACKGROUND_QUANTA_PER_DISPATCH or MAX_BACKGROUND_DISPATCH_TIME is used up.
BudgetSpent == run.at \in {"due", "fresh"} /\ Refuse /\ Unwritten

-----------------------------------------------------------------------------
(* append_live: pending head, event line, boundary line, committed head *)

WorldStep(from, tail, torn, label) ==
  LET c == run.cell
      At(x) == [world EXCEPT ![c].tail = x, ![c].event = run.rec]
  IN /\ run.at = from
     /\ \/ world' = At(tail) /\ GoTo(label) /\ UNCHANGED <<mem, now, faults>>
        \/ world' \in ({world, At(tail)} \cup {At(x) : x \in torn}) /\ Fails(WorldStore(c))
     /\ UNCHANGED <<dir, wal, life>>
EventHead     == WorldStep("evhead", "pending", {}, "evline")
EventLine     == WorldStep("evline", "line", {"torn"}, "evbound")
EventBoundary == WorldStep("evbound", "bound", {"boundTorn"}, "evcommit")
Committed(c) == [world EXCEPT ![c].log = Append(@, world[c].event),
                              ![c].tail = "clean", ![c].event = Nil]
EventCommit ==
  LET c == run.cell IN
  /\ run.at = "evcommit"
  /\ \/ /\ world' = Committed(c) /\ mem' = [mem EXCEPT !.events[c] = @ + 1]
        /\ GoTo(run.then) /\ UNCHANGED <<now, faults>>
     \/ world' \in {world, Committed(c)} /\ Fails(WorldStore(c))
  /\ UNCHANGED <<dir, wal, life>>

-----------------------------------------------------------------------------
(* Opening *)

\* DraftCellDirectoryHistoryStoreV3::recover
OpenDirectory ==
  /\ run.at \in {"down", "opendir"}
  /\ \/ dir.torn /\ dir' = [dir EXCEPT !.torn = FALSE]
     \/ ~dir.torn /\ dir.head < Len(dir.log) /\ dir' = [dir EXCEPT !.head = Len(dir.log)]
  /\ GoTo("opendir") /\ UNCHANGED <<wal, life, world, mem, now, faults>>
Preflight ==
  /\ run.at \in {"down", "opendir"} /\ ~dir.torn /\ dir.head = Len(dir.log)
  /\ PreflightOk
  /\ GoTo("cells") /\ mem' = [NoMem EXCEPT !.docs = Len(dir.log)]
  /\ UNCHANGED <<disk, now, faults>>

\* replay with repair, one write at a time.
RepairWorld(c) ==
  /\ run.at = "cells"
  /\ \/ world[c].tail = "torn" /\ world' = [world EXCEPT ![c].tail = "pending"]
     \/ world[c].tail = "pending" /\ world' = [world EXCEPT ![c].tail = "clean", ![c].event = Nil]
     \/ world[c].tail = "boundTorn" /\ world' = [world EXCEPT ![c].tail = "line"]
     \/ world[c].tail = "line" /\ world' = [world EXCEPT ![c].tail = "bound"]
     \/ world[c].tail = "bound" /\ world' = Committed(c)
  /\ UNCHANGED <<dir, wal, life, mem, run, now, faults>>

\* open_or_bootstrap
OpenUniverse ==
  LET head == IF wal = Nil THEN [cells |-> [c \in Cells |-> 0], pending |-> Nil] ELSE wal IN
  /\ run.at = "cells" /\ \A c \in Cells : world[c].tail = "clean"
  /\ wal' = head
  /\ mem' = [mem EXCEPT !.wal = head, !.events = [c \in Cells |-> Len(world[c].log)]]
  /\ GoTo("reconcile")
  /\ UNCHANGED <<dir, life, world, now, faults>>

\* reconcile_universe_lifecycle.  A lifecycle store is repaired when it is
\* opened; a bootstrap creates its two files first.
RepairLife(c) ==
  /\ run.at = "reconcile" /\ life[c].tail # Nil
  /\ life' = [life EXCEPT ![c].at = RecoveredRecord(life[c]), ![c].tail = Nil]
  /\ UNCHANGED <<dir, wal, world, mem, run, now, faults>>
CreateLifeFiles(c) ==
  /\ run.at = "reconcile" /\ wal.pending # Nil /\ wal.pending.cell = c
  /\ \/ life[c].files = "absent" /\ life' = [life EXCEPT ![c].files = "history"]
     \/ life[c].files = "history" /\ life' = [life EXCEPT ![c].files = "pair"]
  /\ UNCHANGED <<dir, wal, world, mem, run, now, faults>>
\* The pending append is finished, or made first.
\* Mutant: only an append that was not made yet is finished.
ReconcileAppendUnmade ==
  LET p == wal.pending
      l == life[p.cell]
  IN /\ run.at = "reconcile" /\ p # Nil /\ l.files = "pair" /\ l.tail = Nil
     /\ (IF l.at = Nil THEN 0 ELSE l.at.rev) = p.prior
     /\ PrepareOk(l.at, p.rec, Documents, p.cell)
     /\ run' = [Down EXCEPT !.at = "line", !.cell = p.cell, !.rec = p.rec, !.then = "reconcile"]
     /\ mem' = [mem EXCEPT !.life[p.cell] = l.at]
     /\ UNCHANGED <<disk, now, faults>>
ReconcileAppend ==
  LET p == wal.pending
      l == life[p.cell]
      Replay(label) == run' = [Down EXCEPT !.at = label, !.cell = p.cell, !.rec = p.rec,
                                           !.then = "reconcile"]
  IN /\ run.at = "reconcile" /\ p # Nil /\ l.files = "pair" /\ l.tail = Nil
     /\ \/ l.at = p.rec /\ Replay("finish") /\ UNCHANGED mem
        \/ /\ (IF l.at = Nil THEN 0 ELSE l.at.rev) = p.prior
           /\ PrepareOk(l.at, p.rec, Documents, p.cell)
           /\ Replay("line") /\ mem' = [mem EXCEPT !.life[p.cell] = l.at]
     /\ UNCHANGED <<disk, now, faults>>
\* The first record of a cell that has none.
Bootstrap(c) ==
  /\ run.at = "reconcile" /\ wal.pending = Nil
  /\ wal.cells[c] = 0 /\ Absent(life[c]) /\ InitialOk(c, Doc)
  /\ run' = [Down EXCEPT !.at = "begin", !.cell = c, !.rec = InitialRecord(c, Doc),
                         !.then = "reconcile"]
  /\ Unwritten
Opened ==
  /\ run.at = "reconcile" /\ wal.pending = Nil
  /\ \A c \in Cells : /\ wal.cells[c] > 0 /\ life[c].tail = Nil
                      /\ life[c].at # Nil /\ life[c].at.rev = wal.cells[c]
                      /\ RecoveryView(life[c].at, Doc, c, MemFrontier(c))
  /\ mem' = [mem EXCEPT !.life = [c \in Cells |-> life[c].at]]
  /\ run' = Idle /\ UNCHANGED <<disk, now, faults>>

-----------------------------------------------------------------------------
(* Time and failure *)

Tick == now < MaxTime /\ now' = now + 1 /\ UNCHANGED <<disk, mem, run, faults>>
ClockBack ==
  /\ now > 1 /\ faults < MaxFaults
  /\ now' = now - 1 /\ faults' = faults + 1 /\ UNCHANGED <<disk, mem, run>>
Crash ==
  /\ run.at # "down" /\ faults < MaxFaults
  /\ run' = Down /\ mem' = NoMem /\ faults' = faults + 1 /\ UNCHANGED <<disk, now>>
\* The owner closes the activated world and opens it again; no dispatch is under way.
Close == run.at = "idle" /\ run' = Down /\ mem' = NoMem /\ UNCHANGED <<disk, now, faults>>

Working ==
  \/ BeginAppend \/ MaterializeLine \/ MaterializeHead \/ FinishAppend
  \/ Acquire \/ DirectoryOperation \/ DirectoryLine \/ DirectoryHead \/ Finalize
  \/ Resume \/ ReconcilePending \/ AcknowledgePending \/ Arm \/ BeginDue \/ FreshAuthority
  \/ EventHead \/ EventLine \/ EventBoundary \/ EventCommit
Reopening ==
  \/ OpenDirectory \/ Preflight \/ OpenUniverse \/ ReconcileAppend \/ Opened
  \/ \E c \in Cells : RepairWorld(c) \/ RepairLife(c) \/ CreateLifeFiles(c) \/ Bootstrap(c)
Next ==
  \/ \E c \in Cells, h \in Holders : Dispatch(c, h)
  \/ Working \/ BudgetSpent \/ Reopening
  \/ Tick \/ ClockBack \/ Crash \/ Close
Spec == Init /\ [][Next]_vars

-----------------------------------------------------------------------------
(* Properties *)

CommittedOp(c) == IF life[c].at = Nil THEN Nil ELSE life[c].at.op
CommittedPending(c) == IF life[c].at = Nil THEN Nil ELSE life[c].at.pending

TypeOK ==
  /\ dir.head \in 1..Len(dir.log) /\ dir.torn \in BOOLEAN
  /\ \A i \in DOMAIN dir.log : dir.log[i].rev = i /\ ValidDocument(dir.log[i])
  /\ \A c \in Cells : /\ life[c].files \in {"absent", "history", "pair"}
                      /\ life[c].at # Nil => ValidRecord(life[c].at)
                      /\ world[c].tail \in EventTails /\ world[c].log \in Seq(Events)
                      /\ IF world[c].tail = "clean" THEN world[c].event = Nil ELSE world[c].event \in Events
  /\ wal # Nil => \A c \in Cells : wal.cells[c] \in Nat
  /\ now \in 1..MaxTime /\ faults \in 0..MaxFaults

\* Wherever the process stops, and whatever the last write left, the universe
\* opens again: the preflight of open_with_lifecycle_initialization_failpoint
\* accepts the directory, the write-ahead head, every lifecycle journal and
\* every event journal together.
AlwaysReopens == PreflightOk

\* The files have their types and open again after a stop at any step.
FilesReopen == TypeOK /\ AlwaysReopens

\* dispatch_background_production commits every quantum once, in order, a
\* quantum apart and never before its time, under generations that only grow.
ProductionOnSchedule ==
  \A c \in Cells :
    LET log == world[c].log IN
    \A i \in DOMAIN log :
      /\ log[i].seq = Genesis[c].ack + i
      /\ log[i].time >= log[i].at
      /\ i > 1 => log[i].at = log[i - 1].at + Quantum /\ log[i].gen >= log[i - 1].gen

\* A cell that is released, or on its way to it, has no work that could run and
\* nothing that is still to be acknowledged.
ReleasedIsIdle ==
  \A c \in Cells :
    LET r == life[c].at IN
    r # Nil /\ r.gen > 1 /\ r.mode # "Background" =>
      Len(world[c].log) >= Work[c] /\ r.pending = Nil /\ r.ack = FrontierOf(c, world[c].log).ack

\* Production keeps its schedule, and a cell is given up only when it has none.
ScheduleKept == ProductionOnSchedule /\ ReleasedIsIdle

\* A step that extends the directory history does what a committed record asks.
AuthorityRequested ==
  dir'.log # dir.log =>
    \E c \in Cells :
      LET op == CommittedOp(c)
          n  == Last(dir'.log)
      IN /\ op # Nil
         /\ (wal.cells[c] = life[c].at.rev \/ (wal.pending # Nil /\ wal.pending.rec = life[c].at))
         /\ \A d \in Cells \ {c} : n.assign[d] = Last(dir.log).assign[d]
         /\ CellGen(n, c) = op.gen + (IF op.kind = "Release" THEN 0 ELSE 1)
         /\ n.assign[c].holder = IF op.kind = "Release" THEN None ELSE op.holder

\* The directory changes an assignment only in the way that a lifecycle record
\* asked for which the cell has committed; the write-ahead head names that
\* record, as committed or (its own last write failed) as still pending.
RequestsPrecedeAuthority == [][AuthorityRequested]_vars

\* A step leaves every file alone whose store has failed.
PoisonObserved ==
  mem'.docs # 0 =>
    /\ DirStore \in mem.poison => dir' = dir
    /\ WalStore \in mem.poison => wal' = wal /\ life' = life
    /\ \A c \in Cells :
         /\ LifeStore(c) \in mem.poison => life'[c] = life[c]
         /\ WorldStore(c) \in mem.poison => world'[c] = world[c]

\* After a write whose outcome is uncertain the store takes no further write
\* before the universe is opened again; nor does any lifecycle journal once the
\* write-ahead head is uncertain.  (The world does: a lifecycle that failed to
\* record a recovery leaves the holder's pending quantum free to commit.)
UncertainStoresStop == [][PoisonObserved]_vars

\* Each write follows the one it rests on, also when its outcome is uncertain.
WritesOrdered == RequestsPrecedeAuthority /\ UncertainStoresStop

\* The process runs; a universe with an uncertain store is closed and opened
\* again; every cell is dispatched again and again, by whichever worker; trusted
\* time passes.  Faults are bounded by MaxFaults.
Fairness ==
  /\ WF_vars(Working) /\ WF_vars(Reopening) /\ WF_vars(Tick)
  /\ SF_vars(Close /\ mem.poison # {})
  /\ \A c \in Cells : SF_vars(\E h \in Holders : Dispatch(c, h))
FairSpec == Spec /\ Fairness

\* A recorded claim, recovery or release is carried through: its directory
\* transition is made or recognised, and the record is finalized.
OperationsSettle == \A c \in Cells : (CommittedOp(c) # Nil) ~> (CommittedOp(c) = Nil)

\* An intent to commit a quantum is acknowledged in the end, by this worker or
\* by the one that recovers the cell (as long as MaxGeneration admits one).
AtBound(c) == CellGen(Last(dir.log), c) = MaxGeneration
PendingSettles ==
  \A c \in Cells : (CommittedPending(c) # Nil) ~> (CommittedPending(c) = Nil \/ AtBound(c))

\* A universe that is opened becomes ready, whatever it was interrupted in.
RestartsComplete == (run.at = "down") ~> (run.at = "idle")

\* What was begun is carried through, over any restart.
EverythingSettles == OperationsSettle /\ PendingSettles /\ RestartsComplete
=============================================================================
