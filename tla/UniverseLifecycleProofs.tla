---------------------- MODULE UniverseLifecycleProofs ----------------------
(***************************************************************************)
(* Proofs about UniverseLifecycle: for every set of cells and of workers,  *)
(* every amount of work and every number of crashes, failed writes and     *)
(* clock rollbacks, the four stores of a dispatch are written in the order *)
(* in which each rests on the one before.                                  *)
(*                                                                         *)
(* Whether a write may be made is checked actions earlier than it is made, *)
(* against what the process believes.  The invariant therefore says, for   *)
(* every place of the process, what the beliefs have to do with the files: *)
(* a belief may differ from a file only when the store is poisoned, and a  *)
(* lifecycle record that differs asks for nothing the directory would do.  *)
(***************************************************************************)
EXTENDS UniverseLifecycle, SequenceTheorems, TLAPS

-----------------------------------------------------------------------------
(* Shapes *)

OpenPlaces   == {"opendir", "cells", "reconcile"}
AppendPlaces == {"begin", "line", "head", "finish"}
EventPlaces  == {"evhead", "evline", "evbound", "evcommit"}
PlainPlaces  == {"acquire", "finalize", "resume", "pending", "acknowledge", "arm", "due", "fresh"}
DirPlaces    == {"directory", "dirline", "dirhead"}
Places == {"down", "idle"} \cup OpenPlaces \cup AppendPlaces \cup EventPlaces
            \cup PlainPlaces \cup DirPlaces
\* Where an append, and a production event, returns to.
AppendThens == {"directory", "resume", "acquire", "arm", "due", "fresh"}
EventThens  == {"acknowledge", "pending"}

\* A dispatch never touches placements and transfers.
Assignments == [state : {"Sleeping", "Assigned"}, holder : Holders \cup {None},
                fences : Seq(Nat) \ {<<>>}]
LifecycleDocuments ==
  [rev : Nat, assign : [Cells -> Assignments],
   place : {GenesisDocument.place}, transfers : {GenesisDocument.transfers}]

IsRecord(r) ==
  /\ {"rev", "op"} \subseteq DOMAIN r
  /\ r.op # Nil => r.op.holder \in Holders

DirShape ==
  /\ dir = [log |-> dir.log, head |-> dir.head, torn |-> dir.torn]
  /\ dir.log \in Seq(LifecycleDocuments) /\ dir.log # <<>>
WalShape ==
  wal # Nil =>
    /\ wal = [cells |-> wal.cells, pending |-> wal.pending]
    /\ DOMAIN wal.cells = Cells
    /\ wal.pending # Nil => wal.pending.cell \in Cells /\ IsRecord(wal.pending.rec)
LifeShape ==
  /\ DOMAIN life = Cells
  /\ \A c \in Cells :
       /\ DOMAIN life[c] = {"files", "at", "tail"}
       /\ life[c].at # Nil => IsRecord(life[c].at) /\ life[c].files = "pair"
       /\ life[c].tail \notin {Nil, TornLine} => IsRecord(life[c].tail)
       /\ life[c].tail # Nil => life[c].files = "pair"
DiskShape == DirShape /\ WalShape /\ LifeShape /\ DOMAIN world = Cells

MemShape ==
  /\ mem = [docs |-> mem.docs, wal |-> mem.wal, life |-> mem.life,
            events |-> mem.events, poison |-> mem.poison]
  /\ DOMAIN mem.life = Cells
RunShape ==
  /\ run = [at |-> run.at, cell |-> run.cell, holder |-> run.holder, t |-> run.t,
            rec |-> run.rec, then |-> run.then]
  /\ run.at \in Places

-----------------------------------------------------------------------------
(* Beliefs *)

\* The universe is open: nothing of the opening is left to do.
Ready == run.at \notin OpenPlaces \cup {"down"} /\ run.then # "reconcile"
Busy  == Ready /\ run.at # "idle"

BusyInv == Busy => run.cell \in Cells /\ run.holder \in Holders

\* While the universe is opened every store has just been read.
OpeningInv ==
  ~Ready =>
    /\ mem.poison = {}
    /\ run.at \in {"down"} \cup OpenPlaces \cup AppendPlaces
    /\ run.at \notin {"down", "opendir"} => mem.docs = Len(dir.log)
    /\ run.at \in {"reconcile"} \cup AppendPlaces => mem.wal = wal /\ wal # Nil
    /\ run.at \in {"down", "opendir", "cells"} => run.then # "reconcile"

\* A record on its way into the journals of a cell.
AppendInv ==
  /\ run.at \in AppendPlaces =>
       /\ run.cell \in Cells /\ IsRecord(run.rec) /\ run.then \in AppendThens \cup {"reconcile"}
       /\ run.then = "directory" => run.rec.op # Nil
  /\ run.at = "begin" => mem.wal.pending = Nil
  /\ run.at \in {"line", "head", "finish"} =>
       /\ mem.wal = wal /\ wal # Nil /\ wal.pending # Nil /\ WalStore \notin mem.poison
       /\ wal.pending.cell = run.cell /\ wal.pending.rec = run.rec
  /\ run.at \in {"line", "head"} => life[run.cell].files = "pair"
  /\ run.at \in {"begin", "line", "head"} => LifeStore(run.cell) \notin mem.poison
  /\ run.at = "finish" /\ Ready => mem.life[run.cell] = run.rec

\* The operation a record asks for is one that the directory would carry out.
Actionable(r, c) == r.op # Nil /\ OperationOk(r.op, c)

AskInv == run.at \in {"begin", "line", "head"} /\ Ready => ~Actionable(Record, run.cell)

\* What the process believes of the journals of the open universe.
ReadyInv ==
  Ready =>
    /\ mem.wal # Nil /\ wal # Nil
    /\ WalStore \notin mem.poison => mem.wal = wal
    /\ mem.docs \in 1..Len(dir.log)
    /\ DirStore \notin mem.poison => Len(dir.log) = mem.docs + (IF run.at = "dirhead" THEN 1 ELSE 0)
    /\ \A c \in Cells :
         /\ IsRecord(mem.life[c]) /\ mem.life[c] # Nil
         /\ life[c].at # Nil
         /\ life[c].at # mem.life[c] => ~Actionable(mem.life[c], c)
         /\ \/ wal.cells[c] = mem.life[c].rev
            \/ /\ wal.pending # Nil /\ wal.pending.cell = c
               /\ wal.pending.rec = mem.life[c]

\* The directory transition of a recorded operation.
DirInv ==
  /\ run.at \in DirPlaces => Ready /\ Record.op # Nil
  /\ run.at \in {"dirline", "dirhead"} =>
       DirStore \notin mem.poison /\ life[run.cell].at = Record
  /\ run.at = "dirline" =>
       OperationOk(Record.op, run.cell) /\ run.rec = Finish(OperationDocument(Record.op, run.cell))
  /\ run.at = "dirhead" =>
       \A c \in Cells \ {run.cell} : Last(dir.log).assign[c] = Doc.assign[c]

\* A production event on its way into the world.
EventInv ==
  run.at \in EventPlaces =>
    Ready /\ run.then \in EventThens /\ WorldStore(run.cell) \notin mem.poison

LifecycleInv ==
  /\ DiskShape /\ MemShape /\ RunShape
  /\ BusyInv /\ OpeningInv /\ AppendInv /\ AskInv /\ ReadyInv /\ DirInv /\ EventInv

-----------------------------------------------------------------------------
(* Lemmas about documents and records *)

\* What a staged transition or release is.
LEMMA StagedDocuments ==
  ASSUME NEW d \in LifecycleDocuments, NEW c \in Cells
  PROVE  /\ \A h \in Holders :
              LET n == Finish(Transition(d, c, h)) IN
              /\ n \in LifecycleDocuments
              /\ \A b \in Cells \ {c} : n.assign[b] = d.assign[b]
              /\ CellGen(n, c) = CellGen(d, c) + 1 /\ n.assign[c].holder = h
         /\ LET n == Finish(ReleaseV3(d, c)) IN
              /\ n \in LifecycleDocuments
              /\ \A b \in Cells \ {c} : n.assign[b] = d.assign[b]
              /\ CellGen(n, c) = CellGen(d, c) /\ n.assign[c].holder = None
<1> DEFINE a == d.assign[c]
<1>1. a \in Assignments /\ a.fences \in Seq(Nat) /\ a.fences # <<>>
  BY DEF LifecycleDocuments, Assignments
<1>2. Len(a.fences) \in 1..Len(a.fences) /\ Fence(d, c) \in Nat
  BY <1>1 DEF Fence, CellGen
<1>3. ASSUME NEW h \in Holders
      PROVE  LET n == Finish(Transition(d, c, h)) IN
              /\ n \in LifecycleDocuments
              /\ \A b \in Cells \ {c} : n.assign[b] = d.assign[b]
              /\ CellGen(n, c) = CellGen(d, c) + 1 /\ n.assign[c].holder = h
  <2> DEFINE x == [state |-> "Assigned", holder |-> h, fences |-> Append(a.fences, Fence(d, c) + 1)]
             n == Finish(Transition(d, c, h))
  <2>1. /\ Append(a.fences, Fence(d, c) + 1) \in Seq(Nat) \ {<<>>}
        /\ Len(Append(a.fences, Fence(d, c) + 1)) = Len(a.fences) + 1
    <3>1. Fence(d, c) + 1 \in Nat
      BY <1>2
    <3>2. ASSUME NEW q \in Seq(Nat), NEW e \in Nat
          PROVE  Append(q, e) \in Seq(Nat) /\ Append(q, e) # <<>> /\ Len(Append(q, e)) = Len(q) + 1
      BY AppendProperties
    <3> QED BY <1>1, <3>1, <3>2, Zenon
  <2>2. x \in Assignments
    BY <2>1 DEF Assignments
  <2>3. n = [d EXCEPT !.assign = [d.assign EXCEPT ![c] = x], !.rev = d.rev + 1]
    <3>1. Transition(d, c, h) = [d EXCEPT !.assign = [d.assign EXCEPT ![c] = x]]
      BY DEF Transition
    <3>2. [d EXCEPT !.assign = [d.assign EXCEPT ![c] = x]].rev = d.rev
      BY DEF LifecycleDocuments
    <3> QED BY <3>1, <3>2 DEF Finish
  <2>7. x.fences = Append(a.fences, Fence(d, c) + 1) /\ x.holder = h
    OBVIOUS
  <2> HIDE DEF x, n
  <2>4. n \in LifecycleDocuments /\ n.assign = [d.assign EXCEPT ![c] = x]
    <3>1. d.assign \in [Cells -> Assignments]
      BY DEF LifecycleDocuments
    <3>2. [d.assign EXCEPT ![c] = x] \in [Cells -> Assignments]
      BY <2>2, <3>1
    <3>3. d.rev + 1 \in Nat
      BY DEF LifecycleDocuments
    <3> QED BY <2>3, <3>2, <3>3 DEF LifecycleDocuments
  <2>5. \A b \in Cells : n.assign[b] = IF b = c THEN x ELSE d.assign[b]
    BY <2>4 DEF LifecycleDocuments
  <2>6. CellGen(n, c) = CellGen(d, c) + 1 /\ n.assign[c].holder = h
    BY <2>1, <2>5, <2>7 DEF CellGen
  <2> QED BY <2>4, <2>5, <2>6 DEF n
<1>4. LET n == Finish(ReleaseV3(d, c)) IN
        /\ n \in LifecycleDocuments
        /\ \A b \in Cells \ {c} : n.assign[b] = d.assign[b]
        /\ CellGen(n, c) = CellGen(d, c) /\ n.assign[c].holder = None
  <2> DEFINE x == [a EXCEPT !.state = "Sleeping", !.holder = None]
             n == Finish(ReleaseV3(d, c))
  <2>1. x \in Assignments /\ x.fences = a.fences /\ x.holder = None
    BY <1>1 DEF Assignments
  <2>2. n = [d EXCEPT !.assign = [d.assign EXCEPT ![c] = x], !.rev = d.rev + 1]
    <3>1. ReleaseV3(d, c) = [d EXCEPT !.assign = [d.assign EXCEPT ![c] = x]]
      BY DEF ReleaseV3, LifecycleDocuments, Assignments
    <3>2. [d EXCEPT !.assign = [d.assign EXCEPT ![c] = x]].rev = d.rev
      BY DEF LifecycleDocuments
    <3> QED BY <3>1, <3>2 DEF Finish
  <2> HIDE DEF x, n
  <2>3. n \in LifecycleDocuments /\ n.assign = [d.assign EXCEPT ![c] = x]
    <3>1. d.assign \in [Cells -> Assignments]
      BY DEF LifecycleDocuments
    <3>2. [d.assign EXCEPT ![c] = x] \in [Cells -> Assignments]
      BY <2>1, <3>1
    <3>3. d.rev + 1 \in Nat
      BY DEF LifecycleDocuments
    <3> QED BY <2>2, <3>2, <3>3 DEF LifecycleDocuments
  <2>4. \A b \in Cells : n.assign[b] = IF b = c THEN x ELSE d.assign[b]
    BY <2>3 DEF LifecycleDocuments
  <2> QED BY <2>1, <2>3, <2>4 DEF CellGen, n
<1> QED BY <1>3, <1>4

\* Every transition of a record is a record, and a request asks.
LEMMA RecordShapes ==
  ASSUME NEW r, IsRecord(r), NEW doc, NEW c, NEW now0, NEW f, NEW next
  PROVE  /\ \A kind, h : h \in Holders =>
              IsRecord(Request(r, doc, c, kind, h, now0)) /\ Request(r, doc, c, kind, h, now0).op # Nil
         /\ IsRecord(FinalizeAssigned(r, doc, c, now0, f))
         /\ IsRecord(FinalizeSleeping(r, doc, c, now0, f))
         /\ IsRecord(Renew(r, doc, c, now0, f, next))
         /\ IsRecord(BeginCommit(r, now0, f))
         /\ IsRecord(Acknowledge(r, now0, f, next))
<1> USE DEF IsRecord, Successor, InstallFrontier
<1>1. ASSUME NEW kind, NEW h \in Holders
      PROVE  /\ IsRecord(Request(r, doc, c, kind, h, now0))
             /\ Request(r, doc, c, kind, h, now0).op # Nil
  BY DEF Request, Nil
<1>2. IsRecord(FinalizeAssigned(r, doc, c, now0, f))
  BY DEF FinalizeAssigned
<1>3. IsRecord(FinalizeSleeping(r, doc, c, now0, f))
  BY DEF FinalizeSleeping
<1>4. IsRecord(Renew(r, doc, c, now0, f, next))
  BY DEF Renew
<1>5. IsRecord(BeginCommit(r, now0, f))
  BY DEF BeginCommit
<1>6. IsRecord(Acknowledge(r, now0, f, next))
  BY DEF Acknowledge
<1> QED BY <1>1, <1>2, <1>3, <1>4, <1>5, <1>6

\* A record is not the absent one, nor a torn line.
LEMMA RecordsPresent ==
  ASSUME NEW r, IsRecord(r)
  PROVE  r # Nil /\ r # TornLine
<1>1. "rev" \in DOMAIN r
  BY DEF IsRecord
<1>2. DOMAIN Nil = {"absent"} /\ DOMAIN TornLine = {"torn"}
  BY DEF Nil, TornLine
<1> QED BY <1>1, <1>2

-----------------------------------------------------------------------------
(* Steps of the open universe that write nothing *)

\* The process goes on to a place that assumes nothing.
LEMMA MovingKeeps ==
  ASSUME LifecycleInv, Ready, run.at # "dirhead", UNCHANGED <<disk, mem>>, Ready', RunShape',
         run'.at \in PlainPlaces \cup {"idle", "directory"},
         run'.at # "idle" => run'.cell \in Cells /\ run'.holder \in Holders,
         run'.at = "directory" => mem.life[run'.cell].op # Nil
  PROVE  LifecycleInv'
<1> USE DEF LifecycleInv, disk
<1>1. DiskShape' /\ MemShape'
  BY DEF DiskShape, DirShape, WalShape, LifeShape, MemShape
<1>2. BusyInv' /\ OpeningInv' /\ EventInv'
  BY DEF BusyInv, Busy, OpeningInv, EventInv, PlainPlaces, EventPlaces
<1>3. AppendInv' /\ AskInv'
  BY DEF AppendInv, AskInv, PlainPlaces, AppendPlaces
<1>4. ReadyInv'
  BY DEF ReadyInv, Actionable, OperationOk, Doc, PlainPlaces
<1>5. DirInv'
  BY DEF DirInv, Record, DirPlaces, PlainPlaces
<1> QED BY <1>1, <1>2, <1>3, <1>4, <1>5

\* The dispatch is refused.
LEMMA RefusingKeeps ==
  ASSUME LifecycleInv, Ready, run.at # "dirhead", UNCHANGED <<disk, mem>>, run' = Idle
  PROVE  LifecycleInv'
<1>1. Ready' /\ RunShape' /\ run'.at = "idle"
  BY DEF Ready, RunShape, Idle, Down, OpenPlaces, Places, None
<1> QED BY <1>1, MovingKeeps

\* GoTo within a dispatch.
LEMMA GoingKeeps ==
  ASSUME LifecycleInv, Busy, run.at # "dirhead", UNCHANGED <<disk, mem>>,
         NEW label \in PlainPlaces \cup {"directory"}, GoTo(label),
         label = "directory" => Record.op # Nil
  PROVE  LifecycleInv'
<1>1. /\ run' = [run EXCEPT !.at = label] /\ RunShape
      /\ run.cell \in Cells /\ run.holder \in Holders
  BY DEF GoTo, LifecycleInv, BusyInv
<1>2. RunShape' /\ run'.at = label /\ run'.then = run.then
      /\ run'.cell = run.cell /\ run'.holder = run.holder
  BY <1>1 DEF RunShape, Places, PlainPlaces, DirPlaces
<1>3. Ready' /\ Ready
  BY <1>2 DEF Ready, Busy, PlainPlaces, OpenPlaces
<1> QED BY <1>1, <1>2, <1>3, MovingKeeps DEF Record, PlainPlaces

\* The beginning of an append, or its refusal.
LEMMA AppendingKeeps ==
  ASSUME LifecycleInv, Busy, run.at # "dirhead", UNCHANGED <<disk, mem>>,
         NEW rec, NEW t, NEW then \in AppendThens, Appending(rec, t, then),
         IsRecord(rec), then = "directory" => rec.op # Nil, ~Actionable(Record, run.cell)
  PROVE  LifecycleInv'
<1>1. CASE run' = Idle
  BY <1>1, RefusingKeeps DEF Busy
<1>2. CASE run' # Idle
  <2>1. /\ run' = [run EXCEPT !.at = "begin", !.t = t, !.rec = rec, !.then = then]
        /\ mem.wal.pending = Nil /\ LifeStore(run.cell) \notin mem.poison
    BY <1>2 DEF Appending, AppendOk
  <2>2. RunShape /\ run.cell \in Cells /\ run.holder \in Holders /\ Ready
    BY DEF LifecycleInv, BusyInv, Busy
  <2>3. /\ RunShape' /\ run'.at = "begin" /\ run'.rec = rec /\ run'.then = then
        /\ run'.cell = run.cell /\ run'.holder = run.holder
    BY <2>1, <2>2 DEF RunShape, Places, AppendPlaces
  <2>4. Ready'
    BY <2>3 DEF Ready, OpenPlaces, AppendThens
  <2> USE DEF LifecycleInv, disk
  <2>5. DiskShape' /\ MemShape'
    BY DEF DiskShape, DirShape, WalShape, LifeShape, MemShape
  <2>6. BusyInv' /\ OpeningInv' /\ EventInv'
    BY <2>2, <2>3, <2>4 DEF BusyInv, Busy, OpeningInv, EventInv, EventPlaces
  <2>7. AppendInv' /\ AskInv'
    BY <2>1, <2>2, <2>3 DEF AppendInv, AskInv, AppendPlaces, Actionable, OperationOk, Doc, Record, LifeStore
  <2>8. ReadyInv'
    BY <2>2, <2>3 DEF ReadyInv, Actionable, OperationOk, Doc
  <2>9. DirInv'
    BY <2>3 DEF DirInv, DirPlaces
  <2> QED BY <2>3, <2>5, <2>6, <2>7, <2>8, <2>9
<1> QED BY <1>1, <1>2

\* A request for authority.
LEMMA AskKeeps ==
  ASSUME LifecycleInv, Busy, run.at # "dirhead", UNCHANGED <<disk, mem>>,
         NEW kind, NEW t, Ask(kind, t)
  PROVE  LifecycleInv'
<1> DEFINE rec == Request(Record, Doc, run.cell, kind, run.holder, t)
<1>1. /\ run.cell \in Cells /\ run.holder \in Holders /\ Ready /\ IsRecord(Record)
  BY DEF LifecycleInv, BusyInv, Busy, ReadyInv, Record
<1>2. CASE run' = Idle
  BY <1>1, <1>2, RefusingKeeps
<1>3. CASE run' # Idle
  <2>1. Appending(rec, t, "directory") /\ Record.op = Nil
    BY <1>3 DEF Ask, Refuse, RequestOk
  <2>2. IsRecord(rec) /\ rec.op # Nil
    BY <1>1, RecordShapes
  <2>3. ~Actionable(Record, run.cell)
    BY <2>1 DEF Actionable
  <2> HIDE DEF rec
  <2> QED BY <2>1, <2>2, <2>3, AppendingKeeps DEF AppendThens
<1> QED BY <1>2, <1>3

\* Acquire keeps the invariant.
LEMMA AcquireKeeps ==
  ASSUME LifecycleInv, Acquire
  PROVE  LifecycleInv'
<1>1. Busy /\ run.at = "acquire" /\ UNCHANGED <<disk, mem>>
  BY DEF LifecycleInv, OpeningInv, Acquire, Unwritten, Busy, Ready, OpenPlaces, AppendPlaces
<1>2. Ready /\ IsRecord(Record)
  BY <1>1 DEF LifecycleInv, BusyInv, Busy, ReadyInv, Record
<1>3. CASE Record.op # Nil /\ GoTo("directory")
  BY <1>1, <1>3, GoingKeeps
<1>4. CASE GoTo("resume")
  BY <1>1, <1>4, GoingKeeps DEF PlainPlaces
<1>5. CASE \E kind : Ask(kind, run.t)
  BY <1>1, <1>5, AskKeeps
<1>6. CASE run' = Idle
  BY <1>1, <1>2, <1>6, RefusingKeeps
<1>7. ASSUME RenewOk(Record, Doc, run.cell, run.t, MemFrontier(run.cell), Record.next),
             Appending(Renew(Record, Doc, run.cell, run.t, MemFrontier(run.cell), Record.next),
                       run.t, "resume")
      PROVE  LifecycleInv'
  <2>1. ~Actionable(Record, run.cell)
    BY <1>7 DEF RenewOk, LiveAuthority, Actionable
  <2>2. IsRecord(Renew(Record, Doc, run.cell, run.t, MemFrontier(run.cell), Record.next))
    BY <1>2, RecordShapes
  <2> QED BY <1>1, <1>7, <2>1, <2>2, AppendingKeeps DEF AppendThens
<1> QED BY <1>3, <1>4, <1>5, <1>6, <1>7 DEF Acquire, Refuse

\* Finalize keeps the invariant: what it finalizes the directory has done.
LEMMA FinalizeKeeps ==
  ASSUME LifecycleInv, Finalize
  PROVE  LifecycleInv'
<1> DEFINE c == run.cell
           f == MemFrontier(c)
<1>1. Busy /\ run.at = "finalize" /\ UNCHANGED <<disk, mem>>
  BY DEF LifecycleInv, OpeningInv, Finalize, Unwritten, Busy, Ready, OpenPlaces, AppendPlaces
<1>2. /\ Ready /\ IsRecord(Record) /\ run.cell \in Cells /\ Doc \in LifecycleDocuments
  BY <1>1 DEF LifecycleInv, BusyInv, Busy, ReadyInv, Record, Doc, DiskShape, DirShape
<1>3. CASE run' = Idle
  BY <1>1, <1>2, <1>3, RefusingKeeps
<1>4. CASE run' # Idle
  <2>1. PICK then \in {"resume", "acquire"} :
          \/ /\ FinalizeSleepingOk(Record, Doc, c, run.t, f)
             /\ Appending(FinalizeSleeping(Record, Doc, c, run.t, f), run.t, then)
          \/ /\ FinalizeAssignedOk(Record, Doc, c, run.t, f)
             /\ Appending(FinalizeAssigned(Record, Doc, c, run.t, f), run.t, then)
    BY <1>4 DEF Finalize, Refuse
  <2>2. ~Actionable(Record, c)
    <3>1. CASE FinalizeSleepingOk(Record, Doc, c, run.t, f)
      BY <3>1 DEF FinalizeSleepingOk, Actionable, OperationOk, ReleaseOkV3
    <3>2. CASE FinalizeAssignedOk(Record, Doc, c, run.t, f)
      <4>1. CellGen(Doc, c) \in Nat
        BY <1>2 DEF CellGen, LifecycleDocuments, Assignments
      <4>2. CellGen(Doc, c) = Record.op.gen + 1 /\ Record.op.kind # "Release"
        BY <3>2 DEF FinalizeAssignedOk
      <4> QED BY <4>1, <4>2 DEF Actionable, OperationOk, TransitionOk
    <3> QED BY <2>1, <3>1, <3>2
  <2>3. /\ IsRecord(FinalizeSleeping(Record, Doc, c, run.t, f))
        /\ IsRecord(FinalizeAssigned(Record, Doc, c, run.t, f))
    BY <1>2, RecordShapes
  <2> QED BY <1>1, <2>1, <2>2, <2>3, AppendingKeeps DEF AppendThens
<1> QED BY <1>3, <1>4

\* The steps of a production dispatch before the world is written.
LEMMA ProductionKeeps ==
  ASSUME LifecycleInv, Resume \/ AcknowledgePending \/ Arm \/ BeginDue \/ BudgetSpent
  PROVE  LifecycleInv'
<1> DEFINE c == run.cell
           f == MemFrontier(c)
<1>1. Busy /\ run.at \in PlainPlaces /\ UNCHANGED <<disk, mem>>
  BY DEF LifecycleInv, OpeningInv, Resume, AcknowledgePending, Arm, BeginDue, BudgetSpent, Unwritten,
         Busy, Ready, OpenPlaces, AppendPlaces, PlainPlaces
<1>2. Ready /\ IsRecord(Record) /\ run.at # "dirhead" /\ RunShape
      /\ run.cell \in Cells /\ run.holder \in Holders
  BY <1>1 DEF LifecycleInv, BusyInv, Busy, ReadyInv, Record, PlainPlaces
<1>3. CASE run' = Idle
  BY <1>1, <1>2, <1>3, RefusingKeeps
<1>4. CASE Resume /\ run' # Idle
  <2>1. GoTo("pending")
    BY <1>4 DEF Resume, Refuse
  <2> QED BY <1>1, <1>2, <2>1, GoingKeeps DEF PlainPlaces
<1>5. CASE AcknowledgePending /\ run' # Idle
  <2>1. PICK next : /\ AcknowledgeOk(Record, Doc, c, now, f, next)
                    /\ Appending(Acknowledge(Record, now, f, next), now, "arm")
    BY <1>5 DEF AcknowledgePending, Refuse
  <2>2. ~Actionable(Record, run.cell)
    BY <2>1 DEF AcknowledgeOk, LiveAuthority, Actionable
  <2>3. IsRecord(Acknowledge(Record, now, f, next))
    BY <1>2, RecordShapes
  <2> QED BY <1>1, <1>2, <2>1, <2>2, <2>3, AppendingKeeps DEF AppendThens
<1>6. CASE Arm /\ run' # Idle
  <2>1. CASE run' = [run EXCEPT !.at = "due", !.t = now]
    <3>1. /\ RunShape' /\ run'.at = "due" /\ run'.then = run.then
          /\ run'.cell = run.cell /\ run'.holder = run.holder
      BY <1>2, <2>1 DEF RunShape, Places, PlainPlaces
    <3>2. Ready'
      BY <1>2, <3>1 DEF Ready, OpenPlaces
    <3> QED BY <1>1, <1>2, <3>1, <3>2, MovingKeeps DEF PlainPlaces
  <2>2. CASE Ask("Release", now)
    BY <1>1, <1>2, <2>2, AskKeeps
  <2>3. ASSUME NEW o, RenewOk(Record, Doc, c, now, f, o),
               Appending(Renew(Record, Doc, c, now, f, o), now, "due")
        PROVE  LifecycleInv'
    <3>1. ~Actionable(Record, run.cell)
      BY <2>3 DEF RenewOk, LiveAuthority, Actionable
    <3>2. IsRecord(Renew(Record, Doc, c, now, f, o))
      BY <1>2, RecordShapes
    <3> QED BY <1>1, <1>2, <2>3, <3>1, <3>2, AppendingKeeps DEF AppendThens
  <2> QED BY <1>6, <2>1, <2>2, <2>3 DEF Arm, Refuse
<1>7. CASE BeginDue /\ run' # Idle
  <2>1. /\ BeginCommitOk(Record, Doc, c, run.t, f)
        /\ Appending(BeginCommit(Record, run.t, f), run.t, "fresh")
    BY <1>7 DEF BeginDue, Refuse
  <2>2. ~Actionable(Record, run.cell)
    BY <2>1 DEF BeginCommitOk, LiveAuthority, Actionable
  <2>3. IsRecord(BeginCommit(Record, run.t, f))
    BY <1>2, RecordShapes
  <2> QED BY <1>1, <1>2, <2>1, <2>2, <2>3, AppendingKeeps DEF AppendThens
<1> QED BY <1>3, <1>4, <1>5, <1>6, <1>7 DEF BudgetSpent, Refuse

\* A dispatch starts.
LEMMA DispatchKeeps ==
  ASSUME LifecycleInv, NEW c \in Cells, NEW h \in Holders, Dispatch(c, h)
  PROVE  LifecycleInv'
<1>1. run.at = "idle" /\ UNCHANGED <<disk, mem>>
  BY DEF Dispatch, Unwritten
<1>2. Ready
  BY <1>1 DEF LifecycleInv, OpeningInv, OpenPlaces, AppendPlaces
<1>3. /\ RunShape' /\ Ready' /\ run'.at = "acquire" /\ run'.cell = c /\ run'.holder = h
  BY DEF Dispatch, RunShape, Ready, Places, PlainPlaces, OpenPlaces, None
<1> QED BY <1>1, <1>2, <1>3, MovingKeeps DEF PlainPlaces

-----------------------------------------------------------------------------
(* The world *)

\* The first write of an event is due.
LEMMA WriteKeeps ==
  ASSUME LifecycleInv, ReconcilePending \/ FreshAuthority
  PROVE  LifecycleInv'
<1>1. Busy /\ run.at \in {"pending", "fresh"} /\ UNCHANGED <<disk, mem>>
  BY DEF LifecycleInv, OpeningInv, ReconcilePending, FreshAuthority, Unwritten,
         Busy, Ready, OpenPlaces, AppendPlaces
<1>2. Ready /\ RunShape /\ run.cell \in Cells /\ run.holder \in Holders
  BY <1>1 DEF LifecycleInv, BusyInv, Busy
<1>3. CASE run' = Idle
  BY <1>1, <1>2, <1>3, RefusingKeeps
<1>4. CASE GoTo("arm") \/ GoTo("acknowledge")
  BY <1>1, <1>4, GoingKeeps DEF PlainPlaces
<1>5. ASSUME NEW then \in EventThens, Write(then), run' # Idle
      PROVE  LifecycleInv'
  <2>1. PICK rec : /\ run' = [run EXCEPT !.at = "evhead", !.t = now, !.then = then, !.rec = rec]
                   /\ WorldStore(run.cell) \notin mem.poison
    BY <1>5 DEF Write
  <2>2. /\ RunShape' /\ run'.at = "evhead" /\ run'.then = then
        /\ run'.cell = run.cell /\ run'.holder = run.holder
    BY <1>2, <2>1 DEF RunShape, Places, EventPlaces
  <2>3. Ready'
    BY <2>2 DEF Ready, OpenPlaces, EventThens
  <2> USE DEF LifecycleInv, disk
  <2>4. DiskShape' /\ MemShape'
    BY <1>1 DEF DiskShape, DirShape, WalShape, LifeShape, MemShape
  <2>5. BusyInv' /\ OpeningInv' /\ EventInv'
    BY <1>1, <1>2, <2>1, <2>2, <2>3 DEF BusyInv, Busy, OpeningInv, EventInv, EventPlaces, WorldStore
  <2>6. AppendInv' /\ AskInv' /\ DirInv'
    BY <2>2 DEF AppendInv, AskInv, AppendPlaces, DirInv, DirPlaces
  <2>7. ReadyInv'
    BY <1>1, <1>2, <2>2 DEF ReadyInv, Actionable, OperationOk, Doc
  <2> QED BY <2>2, <2>4, <2>5, <2>6, <2>7
<1> QED BY <1>3, <1>4, <1>5 DEF ReconcilePending, FreshAuthority, Refuse, EventThens

-----------------------------------------------------------------------------
(* Failed writes *)

\* A write fails: the opening is over, or its store is poisoned.
LEMMA FailureKeeps ==
  ASSUME LifecycleInv, run.at # "down", NEW store, Fails(store), DiskShape', Ready => ReadyInv'
  PROVE  LifecycleInv'
<1>1. Opening <=> ~Ready
  BY DEF Opening, Ready, OpenPlaces
<1>2. CASE ~Ready
  <2>1. run' = Down /\ mem' = NoMem
    BY <1>1, <1>2 DEF Fails
  <2>2. /\ MemShape' /\ RunShape' /\ mem'.poison = {}
        /\ run'.at = "down" /\ run'.then = None
    BY <2>1 DEF MemShape, RunShape, NoMem, Down, Places
  <2>3. ~Ready'
    BY <2>2 DEF Ready
  <2>4. BusyInv' /\ OpeningInv' /\ EventInv' /\ ReadyInv'
    BY <2>2, <2>3 DEF BusyInv, Busy, OpeningInv, EventInv, ReadyInv, EventPlaces, AppendPlaces, None
  <2>5. AppendInv' /\ AskInv' /\ DirInv'
    BY <2>2 DEF AppendInv, AskInv, DirInv, AppendPlaces, DirPlaces
  <2> QED BY <2>2, <2>4, <2>5 DEF LifecycleInv
<1>3. CASE Ready
  <2>1. run' = Idle /\ mem' = [mem EXCEPT !.poison = @ \cup {store}]
    BY <1>1, <1>3 DEF Fails
  <2>2. /\ MemShape' /\ RunShape' /\ run'.at = "idle" /\ run'.then = None
    BY <2>1 DEF LifecycleInv, MemShape, RunShape, Idle, Down, Places
  <2>3. Ready' /\ ~Busy'
    BY <2>2 DEF Ready, Busy, OpenPlaces, None
  <2>4. BusyInv' /\ OpeningInv' /\ EventInv'
    BY <2>2, <2>3 DEF BusyInv, OpeningInv, EventInv, EventPlaces
  <2>5. AppendInv' /\ AskInv' /\ DirInv'
    BY <2>2 DEF AppendInv, AskInv, DirInv, AppendPlaces, DirPlaces
  <2> QED BY <1>3, <2>2, <2>4, <2>5 DEF LifecycleInv
<1> QED BY <1>2, <1>3

\* What a failed write leaves of the beliefs.
LEMMA FailureForgets ==
  ASSUME LifecycleInv, Ready, NEW store, Fails(store)
  PROVE  /\ run' = Idle /\ run'.at = "idle" /\ Ready'
         /\ mem'.docs = mem.docs /\ mem'.wal = mem.wal /\ mem'.life = mem.life
         /\ mem'.events = mem.events /\ mem'.poison = mem.poison \cup {store}
<1>1. ~Opening
  BY DEF Opening, Ready, OpenPlaces
<1> QED BY <1>1 DEF Fails, LifecycleInv, MemShape, Idle, Down, Ready, OpenPlaces, None

-----------------------------------------------------------------------------
(* The write-ahead head and the lifecycle journals *)

\* The two heads of an append.
LEMMA AppendHeads ==
  ASSUME LifecycleInv, run.at \in AppendPlaces, mem.wal = wal, wal # Nil
  PROVE  /\ BeginHead = [cells |-> wal.cells,
                         pending |-> [cell |-> run.cell, prior |-> wal.cells[run.cell], rec |-> run.rec]]
         /\ wal.pending # Nil =>
              FinishHead = [cells |-> [wal.cells EXCEPT ![wal.pending.cell] = wal.pending.rec.rev],
                            pending |-> Nil]
         /\ BeginHead # Nil /\ BeginHead.pending # Nil
         /\ wal.pending # Nil => FinishHead # Nil
<1> DEFINE cells == wal.cells
           pending == wal.pending
           p == [cell |-> run.cell, prior |-> wal.cells[run.cell], rec |-> run.rec]
<1>1. wal = [cells |-> cells, pending |-> pending]
  BY DEF LifecycleInv, DiskShape, WalShape
<1>2. BeginHead = [[cells |-> cells, pending |-> pending] EXCEPT !.pending = p]
  BY <1>1 DEF BeginHead
<1>3. FinishHead = [[cells |-> cells, pending |-> pending]
                      EXCEPT !.cells[pending.cell] = pending.rec.rev, !.pending = Nil]
  BY <1>1 DEF FinishHead
<1> HIDE DEF cells, pending
<1>4. BeginHead = [cells |-> cells, pending |-> p]
  BY <1>2
<1>5. FinishHead = [cells |-> [cells EXCEPT ![pending.cell] = pending.rec.rev], pending |-> Nil]
  BY <1>3
<1>6. DOMAIN Nil = {"absent"}
  BY DEF Nil
<1>7. DOMAIN BeginHead = {"cells", "pending"} /\ DOMAIN FinishHead = {"cells", "pending"}
  BY <1>4, <1>5
<1>8. DOMAIN p = {"cell", "prior", "rec"} /\ BeginHead.pending = p
  BY <1>4
<1>9. BeginHead # Nil /\ FinishHead # Nil
  BY <1>6, <1>7
<1>10. BeginHead.pending # Nil
  BY <1>6, <1>8
<1> QED BY <1>4, <1>5, <1>9, <1>10 DEF cells, pending

\* BeginAppend keeps the invariant.
LEMMA BeginAppendKeeps ==
  ASSUME LifecycleInv, BeginAppend
  PROVE  LifecycleInv'
<1> DEFINE p == [cell |-> run.cell, prior |-> wal.cells[run.cell], rec |-> run.rec]
<1>1. /\ run.at = "begin" /\ UNCHANGED <<dir, life, world>> /\ run.cell \in Cells
      /\ IsRecord(run.rec) /\ run.then \in AppendThens \cup {"reconcile"}
      /\ mem.wal.pending = Nil /\ LifeStore(run.cell) \notin mem.poison
      /\ run.then = "directory" => run.rec.op # Nil
  BY DEF LifecycleInv, BeginAppend, AppendInv, AppendPlaces
<1>2. CASE ~PersistOk
  <2>1. Ready
    BY <1>1, <1>2 DEF LifecycleInv, OpeningInv, PersistOk, AppendPlaces
  <2> QED BY <1>1, <1>2, <2>1, RefusingKeeps DEF BeginAppend, Refuse, disk
<1>3. CASE PersistOk
  <2>1. mem.wal = wal /\ wal # Nil /\ WalStore \notin mem.poison /\ wal.pending = Nil
    BY <1>1, <1>3 DEF LifecycleInv, OpeningInv, ReadyInv, PersistOk, AppendPlaces
  <2>2. /\ BeginHead = [cells |-> wal.cells, pending |-> p]
        /\ BeginHead # Nil /\ BeginHead.pending # Nil
    BY <1>1, <2>1, AppendHeads DEF AppendPlaces
  <2>3. /\ BeginHead.cells = wal.cells /\ BeginHead.pending = p
        /\ p.cell = run.cell /\ p.rec = run.rec
    BY <2>2
  <2> HIDE DEF p
  <2>4. wal' \in {wal, BeginHead} => DiskShape'
    <3>1. wal' \in {wal, BeginHead} => WalShape'
      <4>1. CASE wal' = wal
        BY <4>1 DEF LifecycleInv, DiskShape, WalShape
      <4>2. CASE wal' = BeginHead
        BY <1>1, <2>1, <2>2, <2>3, <4>2 DEF LifecycleInv, DiskShape, WalShape, IsRecord
      <4> QED BY <4>1, <4>2
    <3> QED BY <1>1, <3>1 DEF LifecycleInv, DiskShape, DirShape, LifeShape
  <2>5. CASE wal' \in {wal, BeginHead} /\ Fails(WalStore)
    <3>1. ASSUME Ready PROVE ReadyInv'
      BY <1>1, <2>1, <2>2, <2>3, <2>5, <3>1, FailureForgets
      DEF LifecycleInv, ReadyInv, Actionable, OperationOk, Doc
    <3> QED BY <1>1, <2>4, <2>5, <3>1, FailureKeeps
  <2>6. ASSUME wal' = BeginHead, mem' = [mem EXCEPT !.wal = BeginHead],
               GoTo(IF life[run.cell].files = "pair" THEN "line" ELSE "reconcile")
        PROVE  LifecycleInv'
    <3>1. /\ MemShape' /\ mem'.docs = mem.docs /\ mem'.wal = BeginHead /\ mem'.life = mem.life
          /\ mem'.poison = mem.poison /\ mem'.events = mem.events
      BY <2>6 DEF LifecycleInv, MemShape
    <3>2. /\ RunShape' /\ run'.cell = run.cell /\ run'.holder = run.holder
          /\ run'.rec = run.rec /\ run'.then = run.then
          /\ run'.at = IF life[run.cell].files = "pair" THEN "line" ELSE "reconcile"
      BY <2>6 DEF LifecycleInv, RunShape, GoTo, Places, AppendPlaces, OpenPlaces
    <3>3. Ready => life[run.cell].files = "pair" /\ run'.at = "line" /\ Busy
      BY <1>1, <3>2 DEF LifecycleInv, ReadyInv, DiskShape, LifeShape, Busy
    <3>4. Ready' <=> Ready
      BY <1>1, <3>2, <3>3 DEF Ready, OpenPlaces
    <3>5. BusyInv' /\ EventInv' /\ DirInv'
      BY <3>2, <3>3, <3>4 DEF LifecycleInv, BusyInv, Busy, EventInv, EventPlaces, DirInv, DirPlaces
    <3>6. OpeningInv'
      BY <1>1, <2>2, <2>6, <3>1, <3>2, <3>4 DEF LifecycleInv, OpeningInv, OpenPlaces, AppendPlaces
    <3>7. AppendInv'
      BY <1>1, <2>1, <2>2, <2>3, <2>6, <3>1, <3>2, <3>3, <3>4
      DEF LifecycleInv, AppendInv, AppendPlaces, LifeStore
    <3>8. AskInv'
      BY <1>1, <3>1, <3>2, <3>4 DEF LifecycleInv, AskInv, Actionable, OperationOk, Doc, Record
    <3>9. ReadyInv'
      BY <1>1, <2>1, <2>2, <2>3, <2>6, <3>1, <3>2, <3>4
      DEF LifecycleInv, ReadyInv, Actionable, OperationOk, Doc
    <3> QED BY <2>4, <2>6, <3>1, <3>2, <3>5, <3>6, <3>7, <3>8, <3>9 DEF LifecycleInv
  <2> QED BY <1>3, <2>5, <2>6 DEF BeginAppend
<1> QED BY <1>2, <1>3

\* MaterializeLine keeps the invariant.
LEMMA MaterializeLineKeeps ==
  ASSUME LifecycleInv, MaterializeLine
  PROVE  LifecycleInv'
<1>1. /\ run.at = "line" /\ UNCHANGED <<dir, wal, world>> /\ run.cell \in Cells
      /\ IsRecord(run.rec) /\ life[run.cell].files = "pair"
  BY DEF LifecycleInv, MaterializeLine, AppendInv, AppendPlaces
<1>2. PICK tail \in {Nil, TornLine, run.rec} : life' = [life EXCEPT ![run.cell].tail = tail]
  BY DEF MaterializeLine
<1>3. \A c \in Cells : /\ life'[c].files = life[c].files /\ life'[c].at = life[c].at
                       /\ life'[c].tail = IF c = run.cell THEN tail ELSE life[c].tail
  BY <1>1, <1>2 DEF LifecycleInv, DiskShape, LifeShape
<1>4. DiskShape'
  <2>1. LifeShape'
    <3>1. DOMAIN life' = Cells /\ \A c \in Cells : DOMAIN life'[c] = {"files", "at", "tail"}
      BY <1>1, <1>2 DEF LifecycleInv, DiskShape, LifeShape
    <3> QED BY <1>1, <1>3, <3>1 DEF LifecycleInv, DiskShape, LifeShape, IsRecord
  <2> QED BY <1>1, <2>1 DEF LifecycleInv, DiskShape, DirShape, WalShape
<1>5. CASE Fails(LifeStore(run.cell))
  <2>1. ASSUME Ready PROVE ReadyInv'
    BY <1>1, <1>3, <1>5, <2>1, FailureForgets
    DEF LifecycleInv, ReadyInv, Actionable, OperationOk, Doc, WalStore, DirStore, LifeStore
  <2> QED BY <1>1, <1>4, <1>5, <2>1, FailureKeeps
<1>6. CASE GoTo("head") /\ UNCHANGED mem
  <2>1. /\ RunShape' /\ run'.cell = run.cell /\ run'.holder = run.holder
        /\ run'.rec = run.rec /\ run'.then = run.then /\ run'.at = "head"
    BY <1>6 DEF LifecycleInv, RunShape, GoTo, Places, AppendPlaces
  <2>2. (Ready' <=> Ready) /\ (Busy' <=> Busy)
    BY <1>1, <2>1 DEF Ready, Busy, OpenPlaces
  <2>3. MemShape' /\ BusyInv' /\ EventInv' /\ DirInv'
    BY <1>6, <2>1, <2>2
    DEF LifecycleInv, MemShape, BusyInv, EventInv, EventPlaces, DirInv, DirPlaces
  <2>4. OpeningInv'
    BY <1>1, <1>6, <2>1, <2>2 DEF LifecycleInv, OpeningInv, OpenPlaces, AppendPlaces
  <2>5. AppendInv'
    BY <1>1, <1>3, <1>6, <2>1, <2>2 DEF LifecycleInv, AppendInv, AppendPlaces, LifeStore
  <2>6. AskInv'
    BY <1>1, <1>6, <2>1, <2>2 DEF LifecycleInv, AskInv, Actionable, OperationOk, Doc, Record
  <2>7. ReadyInv'
    BY <1>1, <1>3, <1>6, <2>1, <2>2 DEF LifecycleInv, ReadyInv, Actionable, OperationOk, Doc
  <2> QED BY <1>4, <2>1, <2>3, <2>4, <2>5, <2>6, <2>7 DEF LifecycleInv
<1> QED BY <1>5, <1>6 DEF MaterializeLine

\* MaterializeHead keeps the invariant: a failed one leaves a record in memory
\* that asks for nothing.
LEMMA MaterializeHeadKeeps ==
  ASSUME LifecycleInv, MaterializeHead
  PROVE  LifecycleInv'
<1>1. /\ run.at = "head" /\ UNCHANGED <<dir, wal, world>> /\ run.cell \in Cells
      /\ IsRecord(run.rec) /\ life[run.cell].files = "pair"
      /\ wal # Nil /\ wal.pending # Nil /\ wal.pending.cell = run.cell /\ wal.pending.rec = run.rec
  BY DEF LifecycleInv, MaterializeHead, AppendInv, AppendPlaces
<1>2. /\ Headed = [life EXCEPT ![run.cell].at = run.rec, ![run.cell].tail = Nil]
      /\ run.rec # Nil
  BY <1>1, RecordsPresent DEF Headed
<1>3. \A c \in Cells : /\ Headed[c].files = life[c].files
                       /\ Headed[c].at = IF c = run.cell THEN run.rec ELSE life[c].at
                       /\ Headed[c].tail = IF c = run.cell THEN Nil ELSE life[c].tail
  BY <1>1, <1>2 DEF LifecycleInv, DiskShape, LifeShape
<1>4. life' \in {life, Headed} => DiskShape'
  <2>1. ASSUME life' = Headed PROVE LifeShape'
    <3>1. DOMAIN life' = Cells /\ \A c \in Cells : DOMAIN life'[c] = {"files", "at", "tail"}
      BY <1>1, <1>2, <2>1 DEF LifecycleInv, DiskShape, LifeShape
    <3> QED BY <1>1, <1>3, <2>1, <3>1 DEF LifecycleInv, DiskShape, LifeShape, IsRecord
  <2>2. ASSUME life' = life PROVE LifeShape'
    BY <2>2 DEF LifecycleInv, DiskShape, LifeShape
  <2> QED BY <1>1, <2>1, <2>2 DEF LifecycleInv, DiskShape, DirShape, WalShape
<1>5. CASE life' \in {life, Headed} /\ Fails(LifeStore(run.cell))
  <2>1. ASSUME Ready PROVE ReadyInv'
    <3>1. /\ run'.at = "idle" /\ mem'.docs = mem.docs /\ mem'.wal = mem.wal /\ mem'.life = mem.life
          /\ mem'.poison = mem.poison \cup {LifeStore(run.cell)}
      BY <1>5, <2>1, FailureForgets
    <3>2. ~Actionable(mem.life[run.cell], run.cell)
      BY <1>1, <2>1 DEF LifecycleInv, AskInv, Record
    <3>3. \A c \in Cells : life'[c].at \in {life[c].at, Headed[c].at}
      BY <1>5
    <3>4. \A c \in Cells : life'[c].at # Nil /\ (life'[c].at # mem.life[c] => ~Actionable(mem.life[c], c))
      <4> TAKE c \in Cells
      <4>1. CASE c = run.cell
        BY <1>2, <1>3, <2>1, <3>2, <3>3, <4>1 DEF LifecycleInv, ReadyInv
      <4>2. CASE c # run.cell
        BY <1>3, <2>1, <3>3, <4>2 DEF LifecycleInv, ReadyInv
      <4> QED BY <4>1, <4>2
    <3> QED BY <1>1, <2>1, <3>1, <3>4
        DEF LifecycleInv, ReadyInv, Actionable, OperationOk, Doc, WalStore, DirStore, LifeStore
  <2> QED BY <1>1, <1>4, <1>5, <2>1, FailureKeeps
<1>6. CASE life' = Headed /\ mem' = [mem EXCEPT !.life[run.cell] = run.rec] /\ GoTo("finish")
  <2>1. /\ RunShape' /\ run'.cell = run.cell /\ run'.holder = run.holder
        /\ run'.rec = run.rec /\ run'.then = run.then /\ run'.at = "finish"
    BY <1>6 DEF LifecycleInv, RunShape, GoTo, Places, AppendPlaces
  <2>2. (Ready' <=> Ready) /\ (Busy' <=> Busy)
    BY <1>1, <2>1 DEF Ready, Busy, OpenPlaces
  <2>3. /\ MemShape' /\ mem'.docs = mem.docs /\ mem'.wal = mem.wal
        /\ mem'.poison = mem.poison /\ mem'.events = mem.events
        /\ \A c \in Cells : mem'.life[c] = IF c = run.cell THEN run.rec ELSE mem.life[c]
    BY <1>1, <1>6 DEF LifecycleInv, MemShape
  <2>4. BusyInv' /\ EventInv' /\ DirInv' /\ AskInv'
    BY <2>1, <2>2
    DEF LifecycleInv, BusyInv, EventInv, EventPlaces, DirInv, DirPlaces, AskInv
  <2>5. OpeningInv'
    BY <1>1, <2>1, <2>2, <2>3 DEF LifecycleInv, OpeningInv, OpenPlaces, AppendPlaces
  <2>6. AppendInv'
    BY <1>1, <2>1, <2>2, <2>3 DEF LifecycleInv, AppendInv, AppendPlaces
  <2>7. ReadyInv'
    <3>1. ASSUME Ready, NEW c \in Cells
          PROVE  /\ IsRecord(mem'.life[c]) /\ mem'.life[c] # Nil /\ life'[c].at # Nil
                 /\ life'[c].at # mem'.life[c] => ~Actionable(mem.life[c], c)'
                 /\ \/ wal.cells[c] = mem'.life[c].rev
                    \/ wal.pending # Nil /\ wal.pending.cell = c /\ wal.pending.rec = mem'.life[c]
      <4>1. CASE c = run.cell
        BY <1>1, <1>2, <1>3, <1>6, <2>3, <4>1
      <4>2. CASE c # run.cell
        BY <1>1, <1>3, <1>6, <2>3, <3>1, <4>2
        DEF LifecycleInv, ReadyInv, Actionable, OperationOk, Doc
      <4> QED BY <4>1, <4>2
    <3> QED BY <1>1, <2>1, <2>2, <2>3, <3>1 DEF LifecycleInv, ReadyInv
  <2> QED BY <1>4, <1>6, <2>1, <2>3, <2>4, <2>5, <2>6, <2>7 DEF LifecycleInv
<1> QED BY <1>5, <1>6 DEF MaterializeHead

\* FinishAppend keeps the invariant.
LEMMA FinishAppendKeeps ==
  ASSUME LifecycleInv, FinishAppend
  PROVE  LifecycleInv'
<1> DEFINE cells == [wal.cells EXCEPT ![wal.pending.cell] = wal.pending.rec.rev]
<1>1. /\ run.at = "finish" /\ UNCHANGED <<dir, life, world>> /\ run.cell \in Cells
      /\ IsRecord(run.rec) /\ run.then \in AppendThens \cup {"reconcile"}
      /\ run.then = "directory" => run.rec.op # Nil
      /\ mem.wal = wal /\ wal # Nil /\ wal.pending # Nil /\ WalStore \notin mem.poison
      /\ wal.pending.cell = run.cell /\ wal.pending.rec = run.rec
      /\ Ready => mem.life[run.cell] = run.rec
  BY DEF LifecycleInv, FinishAppend, AppendInv, AppendPlaces
<1>2. FinishHead = [cells |-> cells, pending |-> Nil] /\ FinishHead # Nil
  BY <1>1, AppendHeads DEF AppendPlaces
<1>3. /\ DOMAIN cells = Cells
      /\ \A c \in Cells : cells[c] = IF c = run.cell THEN run.rec.rev ELSE wal.cells[c]
  BY <1>1 DEF LifecycleInv, DiskShape, WalShape
<1> HIDE DEF cells
<1>4. FinishHead.cells = cells /\ FinishHead.pending = Nil
  BY <1>2
<1>5. wal' \in {wal, FinishHead} => DiskShape'
  <2>1. ASSUME wal' = FinishHead PROVE WalShape'
    BY <1>2, <1>3, <1>4, <2>1 DEF WalShape
  <2>2. ASSUME wal' = wal PROVE WalShape'
    BY <2>2 DEF LifecycleInv, DiskShape, WalShape
  <2> QED BY <1>1, <2>1, <2>2 DEF LifecycleInv, DiskShape, DirShape, LifeShape
\* Either head names the record that every cell is believed to be at.
<1>6. ASSUME Ready, wal' \in {wal, FinishHead}
      PROVE  \A c \in Cells : \/ wal'.cells[c] = mem.life[c].rev
                              \/ /\ wal'.pending # Nil /\ wal'.pending.cell = c
                                 /\ wal'.pending.rec = mem.life[c]
  <2>1. CASE wal' = wal
    BY <1>6, <2>1 DEF LifecycleInv, ReadyInv
  <2>2. CASE wal' = FinishHead
    BY <1>1, <1>3, <1>4, <1>6, <2>2 DEF LifecycleInv, ReadyInv
  <2> QED BY <1>6, <2>1, <2>2
<1>7. CASE wal' \in {wal, FinishHead} /\ Fails(WalStore)
  <2>1. ASSUME Ready PROVE ReadyInv'
    BY <1>1, <1>2, <1>6, <1>7, <2>1, FailureForgets
    DEF LifecycleInv, ReadyInv, Actionable, OperationOk, Doc
  <2> QED BY <1>1, <1>5, <1>7, <2>1, FailureKeeps
<1>8. CASE wal' = FinishHead /\ mem' = [mem EXCEPT !.wal = FinishHead] /\ GoTo(run.then)
  <2>1. /\ MemShape' /\ mem'.docs = mem.docs /\ mem'.wal = FinishHead /\ mem'.life = mem.life
        /\ mem'.poison = mem.poison /\ mem'.events = mem.events
    BY <1>8 DEF LifecycleInv, MemShape
  <2>2. /\ RunShape' /\ run'.cell = run.cell /\ run'.holder = run.holder
        /\ run'.rec = run.rec /\ run'.then = run.then /\ run'.at = run.then
    BY <1>1, <1>8 DEF LifecycleInv, RunShape, GoTo, Places, AppendThens, DirPlaces, PlainPlaces, OpenPlaces
  <2>3. (Ready' <=> Ready) /\ (Busy' <=> Busy)
    BY <1>1, <2>2 DEF Ready, Busy, OpenPlaces, AppendThens
  <2>4. run'.at \notin AppendPlaces \cup EventPlaces
    BY <1>1, <2>2 DEF AppendThens, AppendPlaces, EventPlaces
  <2>5. BusyInv' /\ EventInv' /\ AskInv' /\ AppendInv'
    BY <2>2, <2>3, <2>4 DEF LifecycleInv, BusyInv, EventInv, AskInv, AppendInv, AppendPlaces
  <2>6. OpeningInv'
    BY <1>1, <1>2, <1>8, <2>1, <2>2, <2>3
    DEF LifecycleInv, OpeningInv, OpenPlaces, AppendPlaces, AppendThens, Ready
  <2>7. DirInv'
    <3>1. run.then = "directory" => Ready
      BY <1>1 DEF Ready, OpenPlaces
    <3> QED BY <1>1, <2>1, <2>2, <2>3, <3>1 DEF DirInv, DirPlaces, AppendThens, Record
  <2>8. ReadyInv'
    BY <1>1, <1>2, <1>6, <1>8, <2>1, <2>2, <2>3
    DEF LifecycleInv, ReadyInv, Actionable, OperationOk, Doc, AppendThens
  <2> QED BY <1>5, <1>8, <2>1, <2>2, <2>5, <2>6, <2>7, <2>8 DEF LifecycleInv
<1> QED BY <1>7, <1>8 DEF FinishAppend

-----------------------------------------------------------------------------
(* The directory history *)

\* DirectoryOperation keeps the invariant: what it stages is the operation
\* that the cell has committed.
LEMMA DirectoryOperationKeeps ==
  ASSUME LifecycleInv, DirectoryOperation
  PROVE  LifecycleInv'
<1>1. run.at = "directory" /\ UNCHANGED <<disk, mem>>
  BY DEF DirectoryOperation, Unwritten
<1>2. Ready /\ Busy /\ RunShape /\ run.cell \in Cells /\ run.holder \in Holders /\ Record.op # Nil
  BY <1>1 DEF LifecycleInv, BusyInv, Busy, DirInv, DirPlaces
<1>3. CASE run' = Idle
  BY <1>1, <1>2, <1>3, RefusingKeeps
<1>4. CASE GoTo("finalize")
  BY <1>1, <1>2, <1>4, GoingKeeps DEF PlainPlaces
<1>5. ASSUME OperationOk(Record.op, run.cell), DirStore \notin mem.poison,
             run' = [run EXCEPT !.at = "dirline",
                                !.rec = Finish(OperationDocument(Record.op, run.cell))]
      PROVE  LifecycleInv'
  <2>1. /\ RunShape' /\ run'.at = "dirline" /\ run'.then = run.then
        /\ run'.cell = run.cell /\ run'.holder = run.holder
        /\ run'.rec = Finish(OperationDocument(Record.op, run.cell))
    BY <1>2, <1>5 DEF RunShape, Places, DirPlaces
  <2>2. Ready'
    BY <1>2, <2>1 DEF Ready, OpenPlaces
  <2> USE DEF LifecycleInv, disk
  <2>3. DiskShape' /\ MemShape'
    BY <1>1 DEF DiskShape, DirShape, WalShape, LifeShape, MemShape
  <2>4. BusyInv' /\ OpeningInv' /\ EventInv'
    BY <1>2, <2>1, <2>2 DEF BusyInv, Busy, OpeningInv, EventInv, EventPlaces
  <2>5. AppendInv' /\ AskInv'
    BY <2>1 DEF AppendInv, AskInv, AppendPlaces
  <2>6. ReadyInv'
    BY <1>1, <1>2, <2>1 DEF ReadyInv, Actionable, OperationOk, Doc
  <2>7. DirInv'
    <3>1. life[run.cell].at = Record
      BY <1>2, <1>5 DEF ReadyInv, Actionable, Record
    <3>2. UNCHANGED <<Record, Doc>>
      BY <1>1, <2>1 DEF Record, Doc
    <3>3. UNCHANGED <<OperationOk(Record.op, run.cell), OperationDocument(Record.op, run.cell)>>
      BY <2>1, <3>2 DEF OperationOk, OperationDocument
    <3> QED BY <1>1, <1>2, <1>5, <2>1, <2>2, <3>1, <3>2, <3>3 DEF DirInv, DirPlaces
  <2> QED BY <2>1, <2>3, <2>4, <2>5, <2>6, <2>7
<1> QED BY <1>3, <1>4, <1>5 DEF DirectoryOperation, Refuse

\* The document that is about to be written.
LEMMA StagedTransition ==
  ASSUME LifecycleInv, run.at = "dirline"
  PROVE  /\ Ready /\ Busy /\ run.cell \in Cells /\ Record.op # Nil /\ Record.op.holder \in Holders
         /\ DirStore \notin mem.poison /\ life[run.cell].at = Record
         /\ mem.docs = Len(dir.log) /\ Doc = Last(dir.log) /\ Doc \in LifecycleDocuments
         /\ run.rec \in LifecycleDocuments
         /\ \A c \in Cells \ {run.cell} : run.rec.assign[c] = Doc.assign[c]
         /\ CellGen(run.rec, run.cell) = Record.op.gen + (IF Record.op.kind = "Release" THEN 0 ELSE 1)
         /\ run.rec.assign[run.cell].holder =
              IF Record.op.kind = "Release" THEN None ELSE Record.op.holder
<1>1. /\ Ready /\ Busy /\ run.cell \in Cells /\ Record.op # Nil
      /\ DirStore \notin mem.poison /\ life[run.cell].at = Record
      /\ OperationOk(Record.op, run.cell)
      /\ run.rec = Finish(OperationDocument(Record.op, run.cell))
  BY DEF LifecycleInv, BusyInv, Busy, DirInv, DirPlaces
<1>2. Record.op.holder \in Holders
  BY <1>1 DEF LifecycleInv, ReadyInv, IsRecord, Record
<1>3. mem.docs = Len(dir.log) /\ Doc = Last(dir.log) /\ Doc \in LifecycleDocuments
  <2>1. mem.docs \in 1..Len(dir.log) /\ mem.docs = Len(dir.log) /\ dir.log \in Seq(LifecycleDocuments)
    BY <1>1 DEF LifecycleInv, ReadyInv, DiskShape, DirShape
  <2> QED BY <2>1 DEF Doc, Last
<1>4. CASE Record.op.kind = "Release"
  <2>1. CellGen(Doc, run.cell) = Record.op.gen
    BY <1>1, <1>4 DEF OperationOk, ReleaseOkV3
  <2>2. run.rec = Finish(ReleaseV3(Doc, run.cell))
    BY <1>1, <1>4 DEF OperationDocument
  <2>3. CellGen(Doc, run.cell) \in Nat
    BY <1>1, <1>3 DEF CellGen, LifecycleDocuments, Assignments
  <2>4. LET n == Finish(ReleaseV3(Doc, run.cell)) IN
          /\ n \in LifecycleDocuments
          /\ \A b \in Cells \ {run.cell} : n.assign[b] = Doc.assign[b]
          /\ CellGen(n, run.cell) = CellGen(Doc, run.cell) /\ n.assign[run.cell].holder = None
    BY <1>1, <1>3, StagedDocuments
  <2> QED BY <1>1, <1>2, <1>3, <1>4, <2>1, <2>2, <2>3, <2>4
<1>5. CASE Record.op.kind # "Release"
  <2>1. CellGen(Doc, run.cell) = Record.op.gen
    BY <1>1, <1>5 DEF OperationOk, TransitionOk
  <2>2. run.rec = Finish(Transition(Doc, run.cell, Record.op.holder))
    BY <1>1, <1>5 DEF OperationDocument
  <2>3. \A h \in Holders :
          LET n == Finish(Transition(Doc, run.cell, h)) IN
          /\ n \in LifecycleDocuments
          /\ \A b \in Cells \ {run.cell} : n.assign[b] = Doc.assign[b]
          /\ CellGen(n, run.cell) = CellGen(Doc, run.cell) + 1 /\ n.assign[run.cell].holder = h
    BY <1>1, <1>3, StagedDocuments
  <2> QED BY <1>1, <1>2, <1>3, <1>5, <2>1, <2>2, <2>3
<1> QED BY <1>4, <1>5

\* The line that is appended.
LEMMA AppendedLine ==
  ASSUME LifecycleInv, run.at = "dirline", dir' = [dir EXCEPT !.log = Append(@, run.rec)]
  PROVE  /\ DirShape' /\ Len(dir'.log) = Len(dir.log) + 1 /\ Last(dir'.log) = run.rec
         /\ \A i \in 1..Len(dir.log) : dir'.log[i] = dir.log[i]
<1>1. dir.log \in Seq(LifecycleDocuments) /\ run.rec \in LifecycleDocuments
  BY StagedTransition DEF LifecycleInv, DiskShape, DirShape
<1>2. dir' = [log |-> Append(dir.log, run.rec), head |-> dir.head, torn |-> dir.torn]
  BY DEF LifecycleInv, DiskShape, DirShape
<1>3. ASSUME NEW S, NEW q \in Seq(S), NEW e \in S
      PROVE  Append(q, e) \in Seq(S) /\ Append(q, e) # <<>>
  BY AppendProperties
<1>4. /\ Append(dir.log, run.rec) \in Seq(LifecycleDocuments)
      /\ Append(dir.log, run.rec) # <<>>
  BY <1>1, <1>3, Zenon
<1>6. /\ Len(Append(dir.log, run.rec)) = Len(dir.log) + 1
      /\ Append(dir.log, run.rec)[Len(dir.log) + 1] = run.rec
      /\ \A i \in 1..Len(dir.log) : Append(dir.log, run.rec)[i] = dir.log[i]
  <2> HIDE DEF LifecycleDocuments
  <2> QED BY <1>1
<1>5. dir'.log = Append(dir.log, run.rec) /\ dir'.head = dir.head /\ dir'.torn = dir.torn
  BY <1>2
<1> QED BY <1>2, <1>4, <1>5, <1>6 DEF DirShape, Last

\* DirectoryLine keeps the invariant: the document in memory stays the one that
\* the line follows.
LEMMA DirectoryLineKeeps ==
  ASSUME LifecycleInv, DirectoryLine
  PROVE  LifecycleInv'
<1> DEFINE line == [dir EXCEPT !.log = Append(@, run.rec)]
<1>1. run.at = "dirline" /\ UNCHANGED <<wal, life, world>>
  BY DEF DirectoryLine
<1>2. /\ Ready /\ Busy /\ run.cell \in Cells /\ Record.op # Nil /\ DirStore \notin mem.poison
      /\ life[run.cell].at = Record /\ mem.docs = Len(dir.log) /\ Doc = Last(dir.log)
      /\ \A c \in Cells \ {run.cell} : run.rec.assign[c] = Doc.assign[c]
  BY <1>1, StagedTransition
<1>3. dir' = line => /\ DirShape' /\ Len(dir'.log) = Len(dir.log) + 1 /\ Last(dir'.log) = run.rec
                     /\ \A i \in 1..Len(dir.log) : dir'.log[i] = dir.log[i]
  BY <1>1, AppendedLine
<1>4. dir' \in {dir, line, [dir EXCEPT !.torn = TRUE]} =>
        /\ DirShape' /\ Len(dir'.log) >= Len(dir.log)
        /\ \A i \in 1..Len(dir.log) : dir'.log[i] = dir.log[i]
  <2>1. dir.log \in Seq(LifecycleDocuments)
    BY DEF LifecycleInv, DiskShape, DirShape
  <2>2. dir' = dir => DirShape' /\ dir'.log = dir.log
    BY DEF LifecycleInv, DiskShape, DirShape
  <2>3. dir' = [dir EXCEPT !.torn = TRUE] => DirShape' /\ dir'.log = dir.log
    BY DEF LifecycleInv, DiskShape, DirShape
  <2>4. Len(dir.log) \in Nat
    BY <2>1
  <2> QED BY <1>3, <2>2, <2>3, <2>4
<1>5. mem.docs \in 1..Len(dir.log) /\ Len(dir.log) \in Nat
  BY <1>2 DEF LifecycleInv, ReadyInv, DiskShape, DirShape
<1>6. CASE dir' \in {dir, line, [dir EXCEPT !.torn = TRUE]} /\ Fails(DirStore)
  <2>1. DiskShape'
    BY <1>1, <1>4, <1>6 DEF LifecycleInv, DiskShape, WalShape, LifeShape
  <2>2. ReadyInv'
    <3>1. /\ run'.at = "idle" /\ mem'.docs = mem.docs /\ mem'.wal = mem.wal /\ mem'.life = mem.life
          /\ mem'.poison = mem.poison \cup {DirStore}
      BY <1>2, <1>6, FailureForgets
    <3>2. Doc' = Doc /\ mem.docs \in 1..Len(dir'.log)
      <4>1. DirShape' => Len(dir'.log) \in Nat
        BY DEF DirShape
      <4> QED BY <1>4, <1>5, <1>6, <3>1, <4>1 DEF Doc
    <3> QED BY <1>1, <1>2, <3>1, <3>2
        DEF LifecycleInv, ReadyInv, Actionable, OperationOk, DirStore, WalStore
  <2> QED BY <1>1, <1>6, <2>1, <2>2, FailureKeeps
<1>7. CASE dir' = line /\ GoTo("dirhead") /\ UNCHANGED mem
  <2>1. /\ RunShape' /\ run'.cell = run.cell /\ run'.holder = run.holder
        /\ run'.then = run.then /\ run'.at = "dirhead"
    BY <1>7 DEF LifecycleInv, RunShape, GoTo, Places, DirPlaces
  <2>2. Ready' /\ Busy'
    BY <1>2, <2>1 DEF Ready, Busy, OpenPlaces
  <2>3. Doc' = Doc
    BY <1>3, <1>5, <1>7 DEF Doc
  <2>4. DiskShape' /\ MemShape'
    BY <1>1, <1>3, <1>7 DEF LifecycleInv, DiskShape, WalShape, LifeShape, MemShape
  <2>5. BusyInv' /\ OpeningInv' /\ EventInv' /\ AppendInv' /\ AskInv'
    BY <1>2, <2>1, <2>2 DEF LifecycleInv, BusyInv, OpeningInv, EventInv, EventPlaces,
                            AppendInv, AskInv, AppendPlaces
  <2>6. ReadyInv'
    BY <1>1, <1>2, <1>3, <1>5, <1>7, <2>1, <2>3 DEF LifecycleInv, ReadyInv, Actionable, OperationOk
  <2>7. DirInv'
    <3>1. Record' = Record
      BY <1>7, <2>1 DEF Record
    <3> QED BY <1>1, <1>2, <1>3, <1>7, <2>1, <2>2, <2>3, <3>1 DEF DirInv
  <2> QED BY <2>1, <2>4, <2>5, <2>6, <2>7 DEF LifecycleInv
<1> QED BY <1>6, <1>7 DEF DirectoryLine

\* Whether an operation can be carried out depends on its own cell.
LEMMA OperationsAreLocal ==
  ASSUME NEW d \in LifecycleDocuments, NEW e \in LifecycleDocuments, NEW c \in Cells,
         d.assign[c] = e.assign[c]
  PROVE  /\ \A gen, from : TransitionOk(d, c, gen, from) <=> TransitionOk(e, c, gen, from)
         /\ \A gen, h : ReleaseOkV3(d, c, gen, h) <=> ReleaseOkV3(e, c, gen, h)
<1>1. d.transfers = e.transfers
  BY DEF LifecycleDocuments
<1>2. ASSUME NEW gen, NEW from PROVE TransitionOk(d, c, gen, from) <=> TransitionOk(e, c, gen, from)
  BY DEF TransitionOk, CellGen
<1>3. ASSUME NEW gen, NEW h PROVE ReleaseOkV3(d, c, gen, h) <=> ReleaseOkV3(e, c, gen, h)
  BY <1>1 DEF ReleaseOkV3, CellGen, Known
<1> QED BY <1>2, <1>3

\* DirectoryHead keeps the invariant.
LEMMA DirectoryHeadKeeps ==
  ASSUME LifecycleInv, DirectoryHead
  PROVE  LifecycleInv'
<1> DEFINE headed == [dir EXCEPT !.head = @ + 1]
<1>1. run.at = "dirhead" /\ UNCHANGED <<wal, life, world>> /\ Ready /\ Busy
      /\ run.cell \in Cells /\ run.holder \in Holders /\ DirStore \notin mem.poison
      /\ life[run.cell].at = Record
      /\ \A c \in Cells \ {run.cell} : Last(dir.log).assign[c] = Doc.assign[c]
  BY DEF LifecycleInv, DirectoryHead, DirInv, DirPlaces, Busy, BusyInv
<1>2. dir' \in {dir, headed} => DiskShape' /\ dir'.log = dir.log
  BY <1>1 DEF LifecycleInv, DiskShape, DirShape, WalShape, LifeShape
<1>3. CASE dir' \in {dir, headed} /\ Fails(DirStore)
  <2>1. ReadyInv'
    <3>1. /\ run'.at = "idle" /\ mem'.docs = mem.docs /\ mem'.wal = mem.wal /\ mem'.life = mem.life
          /\ mem'.poison = mem.poison \cup {DirStore}
      BY <1>1, <1>3, FailureForgets
    <3> QED BY <1>1, <1>2, <1>3, <3>1
        DEF LifecycleInv, ReadyInv, Actionable, OperationOk, Doc, DirStore, WalStore
  <2> QED BY <1>1, <1>2, <1>3, <2>1, FailureKeeps
<1>4. CASE dir' = headed /\ mem' = [mem EXCEPT !.docs = @ + 1] /\ GoTo("finalize")
  <2>1. /\ RunShape' /\ run'.cell = run.cell /\ run'.holder = run.holder
        /\ run'.then = run.then /\ run'.at = "finalize"
    BY <1>4 DEF LifecycleInv, RunShape, GoTo, Places, PlainPlaces
  <2>2. Ready' /\ Busy'
    BY <1>1, <2>1 DEF Ready, Busy, OpenPlaces
  <2>3. /\ MemShape' /\ mem'.docs = mem.docs + 1 /\ mem'.wal = mem.wal /\ mem'.life = mem.life
        /\ mem'.poison = mem.poison /\ mem'.events = mem.events
    BY <1>4 DEF LifecycleInv, MemShape
  <2>4. BusyInv' /\ OpeningInv' /\ EventInv' /\ AppendInv' /\ AskInv' /\ DirInv'
    BY <1>1, <2>1, <2>2 DEF LifecycleInv, BusyInv, OpeningInv, EventInv, EventPlaces,
                            AppendInv, AskInv, AppendPlaces, DirInv, DirPlaces
  <2>5. /\ mem.docs \in 1..Len(dir.log) /\ Len(dir.log) = mem.docs + 1
        /\ dir.log \in Seq(LifecycleDocuments) /\ Len(dir.log) \in Nat
    BY <1>1 DEF LifecycleInv, ReadyInv, DiskShape, DirShape
  <2>6. Doc' = Last(dir.log) /\ Doc' \in LifecycleDocuments /\ Doc \in LifecycleDocuments
    <3> HIDE DEF LifecycleDocuments
    <3> QED BY <1>2, <1>4, <2>3, <2>5 DEF Doc, Last
  <2>7. ASSUME NEW c \in Cells \ {run.cell}
        PROVE  Actionable(mem.life[c], c)' <=> Actionable(mem.life[c], c)
    <3>1. Doc'.assign[c] = Doc.assign[c]
      BY <1>1, <2>6
    <3>2. /\ \A gen, from : TransitionOk(Doc', c, gen, from) <=> TransitionOk(Doc, c, gen, from)
          /\ \A gen, h : ReleaseOkV3(Doc', c, gen, h) <=> ReleaseOkV3(Doc, c, gen, h)
      BY <2>6, <3>1, OperationsAreLocal
    <3> QED BY <2>3, <3>2 DEF Actionable, OperationOk
  <2>8. ReadyInv'
    <3>1. ASSUME NEW c \in Cells
          PROVE  life[c].at # mem.life[c] => ~Actionable(mem.life[c], c)'
      <4>1. CASE c = run.cell
        BY <1>1, <4>1 DEF Record
      <4>2. CASE c # run.cell
        BY <1>1, <2>7, <4>2 DEF LifecycleInv, ReadyInv
      <4> QED BY <4>1, <4>2
    <3> QED BY <1>1, <1>2, <1>4, <2>1, <2>3, <2>5, <3>1 DEF LifecycleInv, ReadyInv
  <2> QED BY <1>2, <1>4, <2>1, <2>3, <2>4, <2>8 DEF LifecycleInv
<1> QED BY <1>3, <1>4 DEF DirectoryHead

-----------------------------------------------------------------------------
(* The event journals *)

\* Each write of an event keeps the invariant.
LEMMA WorldStepKeeps ==
  ASSUME LifecycleInv, EventHead \/ EventLine \/ EventBoundary
  PROVE  LifecycleInv'
<1>1. /\ run.at \in {"evhead", "evline", "evbound"} /\ UNCHANGED <<dir, wal, life>>
      /\ DOMAIN world' = DOMAIN world
      /\ \/ Fails(WorldStore(run.cell))
         \/ /\ UNCHANGED mem
            /\ \E label \in {"evline", "evbound", "evcommit"} : GoTo(label)
  BY DEF EventHead, EventLine, EventBoundary, WorldStep
<1>2. Ready /\ Busy /\ run.cell \in Cells /\ run.then \in EventThens
      /\ WorldStore(run.cell) \notin mem.poison
  BY <1>1 DEF LifecycleInv, EventInv, EventPlaces, BusyInv, Busy
<1>3. DiskShape'
  BY <1>1 DEF LifecycleInv, DiskShape, DirShape, WalShape, LifeShape
<1>4. CASE Fails(WorldStore(run.cell))
  <2>1. ReadyInv'
    BY <1>1, <1>2, <1>4, FailureForgets
    DEF LifecycleInv, ReadyInv, Actionable, OperationOk, Doc, DirStore, WalStore, WorldStore
  <2> QED BY <1>1, <1>3, <1>4, <2>1, FailureKeeps
<1>5. ASSUME UNCHANGED mem, NEW label \in {"evline", "evbound", "evcommit"}, GoTo(label)
      PROVE  LifecycleInv'
  <2>1. /\ RunShape' /\ run'.cell = run.cell /\ run'.holder = run.holder
        /\ run'.then = run.then /\ run'.at = label
    BY <1>5 DEF LifecycleInv, RunShape, GoTo, Places, EventPlaces
  <2>2. Ready' /\ Busy'
    BY <1>2, <2>1 DEF Ready, Busy, OpenPlaces
  <2>3. BusyInv' /\ OpeningInv' /\ AppendInv' /\ AskInv' /\ DirInv'
    BY <1>2, <2>1, <2>2 DEF LifecycleInv, BusyInv, OpeningInv, AppendInv, AskInv, AppendPlaces,
                            DirInv, DirPlaces
  <2>4. EventInv' /\ MemShape'
    BY <1>2, <1>5, <2>1, <2>2 DEF LifecycleInv, EventInv, MemShape, WorldStore
  <2>5. ReadyInv'
    BY <1>1, <1>2, <1>5, <2>1 DEF LifecycleInv, ReadyInv, Actionable, OperationOk, Doc
  <2> QED BY <1>3, <2>1, <2>3, <2>4, <2>5 DEF LifecycleInv
<1> QED BY <1>1, <1>4, <1>5

\* EventCommit keeps the invariant.
LEMMA EventCommitKeeps ==
  ASSUME LifecycleInv, EventCommit
  PROVE  LifecycleInv'
<1>1. /\ run.at = "evcommit" /\ UNCHANGED <<dir, wal, life>>
      /\ DOMAIN world' = DOMAIN world
  BY DEF EventCommit, Committed
<1>2. Ready /\ Busy /\ run.cell \in Cells /\ run.holder \in Holders /\ run.then \in EventThens
  BY <1>1 DEF LifecycleInv, EventInv, EventPlaces, BusyInv, Busy
<1>3. DiskShape'
  BY <1>1 DEF LifecycleInv, DiskShape, DirShape, WalShape, LifeShape
<1>4. CASE Fails(WorldStore(run.cell))
  <2>1. ReadyInv'
    BY <1>1, <1>2, <1>4, FailureForgets
    DEF LifecycleInv, ReadyInv, Actionable, OperationOk, Doc, DirStore, WalStore, WorldStore
  <2> QED BY <1>1, <1>3, <1>4, <2>1, FailureKeeps
<1>5. CASE mem' = [mem EXCEPT !.events[run.cell] = @ + 1] /\ GoTo(run.then)
  <2>1. /\ RunShape' /\ run'.cell = run.cell /\ run'.holder = run.holder
        /\ run'.then = run.then /\ run'.at = run.then
    BY <1>2, <1>5 DEF LifecycleInv, RunShape, GoTo, Places, EventThens, PlainPlaces
  <2>2. Ready' /\ Busy' /\ run'.at \in PlainPlaces
    BY <1>2, <2>1 DEF Ready, Busy, OpenPlaces, EventThens, PlainPlaces
  <2>3. /\ MemShape' /\ mem'.docs = mem.docs /\ mem'.wal = mem.wal /\ mem'.life = mem.life
        /\ mem'.poison = mem.poison
    BY <1>5 DEF LifecycleInv, MemShape
  <2>4. BusyInv' /\ OpeningInv' /\ AppendInv' /\ AskInv' /\ DirInv' /\ EventInv'
    BY <1>2, <2>1, <2>2 DEF LifecycleInv, BusyInv, OpeningInv, AppendInv, AskInv, AppendPlaces,
                            DirInv, DirPlaces, EventInv, EventPlaces, PlainPlaces
  <2>5. ReadyInv'
    BY <1>1, <1>2, <2>1, <2>2, <2>3
    DEF LifecycleInv, ReadyInv, Actionable, OperationOk, Doc, PlainPlaces
  <2> QED BY <1>3, <2>1, <2>3, <2>4, <2>5 DEF LifecycleInv
<1> QED BY <1>4, <1>5 DEF EventCommit

-----------------------------------------------------------------------------
(* Opening, stopping, time *)

\* The opening goes on.
LEMMA OpeningKeeps ==
  ASSUME DiskShape', MemShape', RunShape', OpeningInv', run'.at \in OpenPlaces
  PROVE  LifecycleInv'
<1>1. ~Ready'
  BY DEF Ready
<1>2. BusyInv' /\ EventInv' /\ ReadyInv'
  BY <1>1 DEF BusyInv, Busy, EventInv, ReadyInv, EventPlaces, OpenPlaces
<1>3. AppendInv' /\ AskInv' /\ DirInv'
  BY DEF AppendInv, AskInv, DirInv, AppendPlaces, DirPlaces, OpenPlaces
<1> QED BY <1>2, <1>3 DEF LifecycleInv

\* The directory is recovered, and the preflight made.
LEMMA OpenDirectoryKeeps ==
  ASSUME LifecycleInv, OpenDirectory \/ Preflight
  PROVE  LifecycleInv'
<1>1. run.at \in {"down", "opendir"} /\ ~Ready /\ mem.poison = {} /\ run.then # "reconcile"
  BY DEF OpenDirectory, Preflight, LifecycleInv, OpeningInv, Ready, OpenPlaces
<1>2. CASE OpenDirectory
  <2>1. /\ RunShape' /\ run'.at = "opendir" /\ run'.then = run.then
    BY <1>2 DEF OpenDirectory, GoTo, LifecycleInv, RunShape, Places, OpenPlaces
  <2>2. DiskShape' /\ MemShape'
    BY <1>2 DEF OpenDirectory, LifecycleInv, DiskShape, DirShape, WalShape, LifeShape, MemShape
  <2>3. OpeningInv'
    BY <1>1, <1>2, <2>1 DEF OpenDirectory, OpeningInv, OpenPlaces, AppendPlaces
  <2> QED BY <2>1, <2>2, <2>3, OpeningKeeps DEF OpenPlaces
<1>3. CASE Preflight
  <2>1. /\ RunShape' /\ run'.at = "cells" /\ run'.then = run.then
    BY <1>3 DEF Preflight, GoTo, LifecycleInv, RunShape, Places, OpenPlaces
  <2>2. DiskShape'
    BY <1>3 DEF Preflight, disk, LifecycleInv, DiskShape, DirShape, WalShape, LifeShape
  <2>3. MemShape' /\ mem'.docs = Len(dir.log) /\ mem'.poison = {}
    BY <1>3 DEF Preflight, MemShape, NoMem
  <2>4. OpeningInv'
    BY <1>1, <1>3, <2>1, <2>3 DEF Preflight, disk, OpeningInv, OpenPlaces, AppendPlaces
  <2> QED BY <2>1, <2>2, <2>3, <2>4, OpeningKeeps DEF OpenPlaces
<1> QED BY <1>2, <1>3

\* The worlds are repaired, and the write-ahead head is read or made.
LEMMA OpenUniverseKeeps ==
  ASSUME LifecycleInv, OpenUniverse \/ \E c \in Cells : RepairWorld(c)
  PROVE  LifecycleInv'
<1>1. /\ run.at = "cells" /\ ~Ready /\ mem.poison = {} /\ run.then # "reconcile"
      /\ mem.docs = Len(dir.log)
  BY DEF OpenUniverse, RepairWorld, LifecycleInv, OpeningInv, Ready, OpenPlaces
<1>2. CASE \E c \in Cells : RepairWorld(c)
  <2>1. /\ UNCHANGED <<dir, wal, life, mem, run>> /\ DOMAIN world' = DOMAIN world
    BY <1>2 DEF RepairWorld, Committed
  <2>2. DiskShape' /\ MemShape' /\ RunShape'
    BY <2>1 DEF LifecycleInv, DiskShape, DirShape, WalShape, LifeShape, MemShape, RunShape
  <2>3. OpeningInv'
    BY <1>1, <2>1 DEF OpeningInv, OpenPlaces, AppendPlaces
  <2> QED BY <1>1, <2>1, <2>2, <2>3, OpeningKeeps DEF OpenPlaces
<1>3. CASE OpenUniverse
  <2> DEFINE none == [cells |-> [c \in Cells |-> 0], pending |-> Nil]
  <2>1. /\ RunShape' /\ run'.at = "reconcile" /\ run'.then = run.then
    BY <1>3 DEF OpenUniverse, GoTo, LifecycleInv, RunShape, Places, OpenPlaces
  <2>2. none # Nil
    <3>1. DOMAIN none = {"cells", "pending"} /\ DOMAIN Nil = {"absent"}
      BY DEF Nil
    <3> QED BY <3>1
  <2>3. none = [cells |-> none.cells, pending |-> none.pending] /\ DOMAIN none.cells = Cells
        /\ none.pending = Nil
    OBVIOUS
  <2>4. wal' = IF wal = Nil THEN none ELSE wal
    BY <1>3 DEF OpenUniverse
  <2> HIDE DEF none
  <2>5. wal' # Nil /\ WalShape'
    BY <2>2, <2>3, <2>4 DEF LifecycleInv, DiskShape, WalShape
  <2>6. DiskShape'
    BY <1>3, <2>5 DEF OpenUniverse, LifecycleInv, DiskShape, DirShape, LifeShape
  <2>7. MemShape' /\ mem'.docs = mem.docs /\ mem'.wal = wal' /\ mem'.poison = mem.poison
    BY <1>3 DEF OpenUniverse, LifecycleInv, MemShape
  <2>8. OpeningInv'
    BY <1>1, <1>3, <2>1, <2>5, <2>7 DEF OpenUniverse, OpeningInv, OpenPlaces, AppendPlaces
  <2> QED BY <2>1, <2>6, <2>7, <2>8, OpeningKeeps DEF OpenPlaces
<1> QED BY <1>2, <1>3

\* The lifecycle stores are repaired, and the files of a bootstrap made.
LEMMA RepairLifeKeeps ==
  ASSUME LifecycleInv, NEW c \in Cells, RepairLife(c) \/ CreateLifeFiles(c)
  PROVE  LifecycleInv'
<1>1. run.at = "reconcile" /\ ~Ready /\ UNCHANGED <<dir, wal, world, mem, run>>
  BY DEF RepairLife, CreateLifeFiles, Ready, OpenPlaces
<1>2. LifeShape
  BY DEF LifecycleInv, DiskShape
<1>3. DOMAIN life' = Cells /\ \A b \in Cells : DOMAIN life'[b] = {"files", "at", "tail"}
  BY <1>2 DEF RepairLife, CreateLifeFiles, LifeShape
<1>4. \A b \in Cells \ {c} : life'[b] = life[b]
  BY <1>2 DEF RepairLife, CreateLifeFiles, LifeShape
<1>5. LifeShape'
  <2>1. CASE RepairLife(c)
    <3>1. /\ life[c].tail # Nil /\ life'[c].files = life[c].files
          /\ life'[c].at = RecoveredRecord(life[c]) /\ life'[c].tail = Nil
      BY <1>2, <2>1 DEF RepairLife, LifeShape
    <3> QED BY <1>2, <1>3, <1>4, <3>1 DEF LifeShape, RecoveredRecord, IsRecord
  <2>2. CASE CreateLifeFiles(c)
    <3>1. life[c].files # "pair" /\ life'[c].at = life[c].at /\ life'[c].tail = life[c].tail
      BY <1>2, <2>2 DEF CreateLifeFiles, LifeShape
    <3> QED BY <1>2, <1>3, <1>4, <3>1 DEF LifeShape, IsRecord
  <2> QED BY <2>1, <2>2
<1>6. DiskShape' /\ MemShape' /\ RunShape' /\ OpeningInv'
  BY <1>1, <1>5 DEF LifecycleInv, DiskShape, DirShape, WalShape, MemShape, RunShape, OpeningInv, Ready
<1> QED BY <1>1, <1>6, OpeningKeeps DEF OpenPlaces

\* An append that the opening makes or finishes.
LEMMA ReconcileKeeps ==
  ASSUME LifecycleInv, ReconcileAppend \/ \E c \in Cells : Bootstrap(c)
  PROVE  LifecycleInv'
<1>1. /\ run.at = "reconcile" /\ ~Ready /\ mem.poison = {} /\ mem.docs = Len(dir.log)
      /\ mem.wal = wal /\ wal # Nil /\ UNCHANGED disk
  BY DEF ReconcileAppend, Bootstrap, Unwritten, LifecycleInv, OpeningInv, Ready, OpenPlaces
<1>2. DiskShape'
  BY <1>1 DEF disk, LifecycleInv, DiskShape, DirShape, WalShape, LifeShape
<1>3. /\ MemShape' /\ mem'.docs = mem.docs /\ mem'.wal = mem.wal /\ mem'.poison = mem.poison
  BY DEF ReconcileAppend, Bootstrap, Unwritten, LifecycleInv, MemShape
\* Where it goes on.
<1> DEFINE Replays ==
      /\ RunShape' /\ run'.then = "reconcile" /\ run'.at \in {"begin", "line", "finish"}
      /\ run'.cell \in Cells /\ IsRecord(run'.rec)
      /\ run'.at = "begin" => wal.pending = Nil
      /\ run'.at \in {"line", "finish"} => /\ wal.pending # Nil /\ wal.pending.cell = run'.cell
                                            /\ wal.pending.rec = run'.rec
      /\ run'.at = "line" => life[run'.cell].files = "pair"
<1>4. Replays
  <2>1. CASE ReconcileAppend
    <3>1. /\ wal.pending # Nil /\ life[wal.pending.cell].files = "pair"
          /\ \E label \in {"line", "finish"} :
               run' = [Down EXCEPT !.at = label, !.cell = wal.pending.cell, !.rec = wal.pending.rec,
                                   !.then = "reconcile"]
      BY <2>1 DEF ReconcileAppend
    <3>2. wal.pending.cell \in Cells /\ IsRecord(wal.pending.rec)
      BY <1>1, <3>1 DEF LifecycleInv, DiskShape, WalShape
    <3> QED BY <3>1, <3>2 DEF RunShape, Places, AppendPlaces, Down
  <2>2. ASSUME NEW c \in Cells, Bootstrap(c) PROVE Replays
    <3>1. IsRecord(InitialRecord(c, Doc))
      BY DEF IsRecord, InitialRecord
    <3>2. /\ wal.pending = Nil
          /\ run' = [Down EXCEPT !.at = "begin", !.cell = c, !.rec = InitialRecord(c, Doc),
                                 !.then = "reconcile"]
      BY <2>2 DEF Bootstrap
    <3> QED BY <3>1, <3>2 DEF RunShape, Places, AppendPlaces, Down
  <2> QED BY <2>1, <2>2
<1>5. ~Ready'
  BY <1>4 DEF Ready
<1>6. BusyInv' /\ EventInv' /\ ReadyInv' /\ AskInv' /\ DirInv'
  BY <1>4, <1>5 DEF BusyInv, Busy, EventInv, EventPlaces, ReadyInv, AskInv, DirInv, DirPlaces
<1>7. OpeningInv'
  BY <1>1, <1>3, <1>4, <1>5 DEF disk, OpeningInv, AppendPlaces, OpenPlaces
<1>8. AppendInv'
  BY <1>1, <1>3, <1>4, <1>5 DEF disk, AppendInv, AppendPlaces
<1> QED BY <1>2, <1>3, <1>4, <1>6, <1>7, <1>8 DEF LifecycleInv

\* The universe is open: what the process believes is what it has read.
LEMMA OpenedKeeps ==
  ASSUME LifecycleInv, Opened
  PROVE  LifecycleInv'
<1>1. /\ run.at = "reconcile" /\ mem.poison = {} /\ mem.docs = Len(dir.log)
      /\ mem.wal = wal /\ wal # Nil /\ UNCHANGED disk
  BY DEF Opened, LifecycleInv, OpeningInv, Ready, OpenPlaces
<1>2. DiskShape'
  BY <1>1 DEF disk, LifecycleInv, DiskShape, DirShape, WalShape, LifeShape
<1>3. /\ MemShape' /\ mem'.docs = mem.docs /\ mem'.wal = mem.wal /\ mem'.poison = mem.poison
      /\ \A c \in Cells : mem'.life[c] = life[c].at
  BY DEF Opened, LifecycleInv, MemShape
<1>4. RunShape' /\ run'.at = "idle" /\ run'.then = None
  BY DEF Opened, RunShape, Idle, Down, Places
<1>5. Ready' /\ ~Busy'
  BY <1>4 DEF Ready, Busy, OpenPlaces, None
<1>6. BusyInv' /\ EventInv' /\ OpeningInv' /\ AskInv' /\ DirInv' /\ AppendInv'
  BY <1>4, <1>5 DEF BusyInv, EventInv, EventPlaces, OpeningInv, AskInv, DirInv, DirPlaces,
                    AppendInv, AppendPlaces
<1>7. ReadyInv'
  <2>1. Len(dir.log) \in 1..Len(dir.log)
    BY DEF LifecycleInv, DiskShape, DirShape
  <2>2. \A c \in Cells : life[c].at # Nil /\ IsRecord(life[c].at) /\ life[c].at.rev = wal.cells[c]
    BY DEF Opened, LifecycleInv, DiskShape, LifeShape
  <2> QED BY <1>1, <1>3, <1>4, <2>1, <2>2 DEF disk, ReadyInv
<1> QED BY <1>2, <1>3, <1>4, <1>6, <1>7 DEF LifecycleInv

\* The process stops.
LEMMA StoppingKeeps ==
  ASSUME LifecycleInv, Crash \/ Close
  PROVE  LifecycleInv'
<1>1. run' = Down /\ mem' = NoMem /\ UNCHANGED disk
  BY DEF Crash, Close
<1>2. /\ MemShape' /\ RunShape' /\ mem'.poison = {} /\ run'.at = "down" /\ run'.then = None
  BY <1>1 DEF MemShape, RunShape, NoMem, Down, Places
<1>3. ~Ready'
  BY <1>2 DEF Ready
<1>4. DiskShape'
  BY <1>1 DEF disk, LifecycleInv, DiskShape, DirShape, WalShape, LifeShape
<1>5. BusyInv' /\ OpeningInv' /\ EventInv' /\ ReadyInv'
  BY <1>2, <1>3 DEF BusyInv, Busy, OpeningInv, EventInv, ReadyInv, EventPlaces, AppendPlaces, None
<1>6. AppendInv' /\ AskInv' /\ DirInv'
  BY <1>2 DEF AppendInv, AskInv, DirInv, AppendPlaces, DirPlaces
<1> QED BY <1>2, <1>4, <1>5, <1>6 DEF LifecycleInv

\* Time passes, and stuttering.
LEMMA WaitingKeeps ==
  ASSUME LifecycleInv, UNCHANGED <<disk, mem, run>>
  PROVE  LifecycleInv'
BY DEF disk, LifecycleInv, DiskShape, DirShape, WalShape, LifeShape, MemShape, RunShape,
       BusyInv, Busy, Ready, OpeningInv, AppendInv, AskInv, Actionable, OperationOk, Record, Doc,
       ReadyInv, DirInv, OperationDocument, EventInv

-----------------------------------------------------------------------------
(* The invariant *)

LEMMA LifecycleInitially ==
  ASSUME Init
  PROVE  LifecycleInv
<1>1. GenesisDocument \in LifecycleDocuments
  <2>1. GenesisDocument.assign \in [Cells -> Assignments]
    <3>1. <<1>> \in Seq(Nat) \ {<<>>}
      OBVIOUS
    <3> QED BY <3>1 DEF GenesisDocument, Assignments
  <2> QED BY <2>1 DEF GenesisDocument, LifecycleDocuments
<1>2. DirShape
  <2>1. dir.log = <<GenesisDocument>> /\ dir = [log |-> dir.log, head |-> dir.head, torn |-> dir.torn]
    BY DEF Init
  <2> HIDE DEF LifecycleDocuments
  <2>2. <<GenesisDocument>> \in Seq(LifecycleDocuments) /\ <<GenesisDocument>> # <<>>
    BY <1>1
  <2> QED BY <2>1, <2>2 DEF DirShape
<1>3. WalShape /\ LifeShape /\ DOMAIN world = Cells
  BY DEF Init, WalShape, LifeShape
<1>4. /\ MemShape /\ RunShape /\ mem.poison = {} /\ run.at = "down" /\ run.then = None
  BY DEF Init, MemShape, RunShape, NoMem, Down, Places
<1>5. ~Ready
  BY <1>4 DEF Ready
<1>6. BusyInv /\ OpeningInv /\ EventInv /\ ReadyInv
  BY <1>4, <1>5 DEF BusyInv, Busy, OpeningInv, EventInv, ReadyInv, EventPlaces, AppendPlaces, None
<1>7. AppendInv /\ AskInv /\ DirInv
  BY <1>4 DEF AppendInv, AskInv, DirInv, AppendPlaces, DirPlaces
<1> QED BY <1>2, <1>3, <1>4, <1>6, <1>7 DEF LifecycleInv, DiskShape

LEMMA LifecycleInductive ==
  ASSUME LifecycleInv, [Next]_vars
  PROVE  LifecycleInv'
<1>1. CASE \E c \in Cells, h \in Holders : Dispatch(c, h)
  BY <1>1, DispatchKeeps
<1>2. CASE Working
  BY <1>2, BeginAppendKeeps, MaterializeLineKeeps, MaterializeHeadKeeps, FinishAppendKeeps,
     AcquireKeeps, DirectoryOperationKeeps, DirectoryLineKeeps, DirectoryHeadKeeps, FinalizeKeeps,
     ProductionKeeps, WriteKeeps, WorldStepKeeps, EventCommitKeeps
  DEF Working
<1>3. CASE BudgetSpent
  BY <1>3, ProductionKeeps
<1>4. CASE Reopening
  BY <1>4, OpenDirectoryKeeps, OpenUniverseKeeps, RepairLifeKeeps, ReconcileKeeps, OpenedKeeps
  DEF Reopening
<1>5. CASE Tick \/ ClockBack \/ UNCHANGED vars
  <2>1. UNCHANGED <<disk, mem, run>>
    BY <1>5 DEF Tick, ClockBack, vars, disk
  <2> QED BY <2>1, WaitingKeeps
<1>6. CASE Crash \/ Close
  BY <1>6, StoppingKeeps
<1> QED BY <1>1, <1>2, <1>3, <1>4, <1>5, <1>6 DEF Next

\* At every place of a dispatch and of an opening, what the process believes of
\* a store is what the file says, unless a write of that store has failed; and a
\* lifecycle record that memory and file disagree on asks for nothing that the
\* directory would do (protocol19_install.rs).
THEOREM LifecycleInvariant == Spec => []LifecycleInv
BY LifecycleInitially, LifecycleInductive, PTL DEF Spec

-----------------------------------------------------------------------------
(* The order of the writes *)

\* The directory grows by the line of a dispatch alone.
LEMMA OnlyDirectoryLine ==
  ASSUME LifecycleInv, [Next]_vars, dir'.log # dir.log
  PROVE  DirectoryLine /\ dir' = [dir EXCEPT !.log = Append(@, run.rec)]
<1>1. dir' # dir /\ dir = [log |-> dir.log, head |-> dir.head, torn |-> dir.torn]
  BY DEF LifecycleInv, DiskShape, DirShape
<1>2. ~OpenDirectory
  BY <1>1 DEF OpenDirectory
<1>3. ~DirectoryHead
  BY <1>1 DEF DirectoryHead
<1>4. ~(\/ BeginAppend \/ MaterializeLine \/ MaterializeHead \/ FinishAppend
        \/ EventHead \/ EventLine \/ EventBoundary \/ EventCommit)
  BY <1>1 DEF BeginAppend, MaterializeLine, MaterializeHead, FinishAppend,
              EventHead, EventLine, EventBoundary, WorldStep, EventCommit
<1>5. ~(\/ Acquire \/ DirectoryOperation \/ Finalize \/ Resume \/ ReconcilePending
        \/ AcknowledgePending \/ Arm \/ BeginDue \/ FreshAuthority \/ BudgetSpent)
  BY <1>1 DEF Acquire, DirectoryOperation, Finalize, Resume, ReconcilePending, AcknowledgePending,
              Arm, BeginDue, FreshAuthority, BudgetSpent, Unwritten, disk
<1>6. ~(\/ Preflight \/ OpenUniverse \/ ReconcileAppend \/ Opened
        \/ \E c \in Cells : RepairWorld(c) \/ RepairLife(c) \/ CreateLifeFiles(c) \/ Bootstrap(c))
  BY <1>1 DEF Preflight, OpenUniverse, ReconcileAppend, Opened, RepairWorld, RepairLife,
              CreateLifeFiles, Bootstrap, Unwritten, disk
<1>7. ~(\/ Tick \/ ClockBack \/ Crash \/ Close \/ UNCHANGED vars
        \/ \E c \in Cells, h \in Holders : Dispatch(c, h))
  BY <1>1 DEF Tick, ClockBack, Crash, Close, Dispatch, Unwritten, disk, vars
<1>8. DirectoryLine
  BY <1>2, <1>3, <1>4, <1>5, <1>6, <1>7 DEF Next, Working, Reopening
<1>9. dir' # [dir EXCEPT !.torn = TRUE]
  BY <1>1
<1> QED BY <1>1, <1>8, <1>9 DEF DirectoryLine

\* That line is what a committed record asks for, and the write-ahead head
\* names the record.
LEMMA AuthorityIsRequested ==
  ASSUME LifecycleInv, [Next]_vars
  PROVE  AuthorityRequested
<1> SUFFICES ASSUME dir'.log # dir.log
             PROVE  AuthorityRequested
  BY DEF AuthorityRequested
<1> DEFINE c == run.cell
<1>1. DirectoryLine /\ dir' = [dir EXCEPT !.log = Append(@, run.rec)] /\ run.at = "dirline"
  BY OnlyDirectoryLine DEF DirectoryLine
<1>2. Last(dir'.log) = run.rec
  BY <1>1, AppendedLine
<1>3. /\ Ready /\ c \in Cells /\ Record.op # Nil /\ life[c].at = Record /\ Doc = Last(dir.log)
      /\ \A d \in Cells \ {c} : run.rec.assign[d] = Doc.assign[d]
      /\ CellGen(run.rec, c) = Record.op.gen + (IF Record.op.kind = "Release" THEN 0 ELSE 1)
      /\ run.rec.assign[c].holder = IF Record.op.kind = "Release" THEN None ELSE Record.op.holder
  BY <1>1, StagedTransition
<1>4. life[c].at # Nil /\ CommittedOp(c) = Record.op
  BY <1>3 DEF LifecycleInv, ReadyInv, CommittedOp
<1>5. wal.cells[c] = life[c].at.rev \/ (wal.pending # Nil /\ wal.pending.rec = life[c].at)
  BY <1>3 DEF LifecycleInv, ReadyInv, Record
<1> QED BY <1>2, <1>3, <1>4, <1>5 DEF AuthorityRequested

\* No step writes a store that has failed.
LEMMA PoisonIsObserved ==
  ASSUME LifecycleInv, [Next]_vars
  PROVE  PoisonObserved
<1>1. CASE UNCHANGED disk
  BY <1>1 DEF disk, PoisonObserved
<1>2. CASE Reopening
  <2>1. run.at \in OpenPlaces \cup {"down"}
    BY <1>2 DEF Reopening, OpenDirectory, Preflight, OpenUniverse, ReconcileAppend, Opened,
                RepairWorld, RepairLife, CreateLifeFiles, Bootstrap, OpenPlaces
  <2>2. mem.poison = {}
    BY <2>1 DEF LifecycleInv, OpeningInv, Ready
  <2> QED BY <2>2 DEF PoisonObserved
<1>3. CASE BeginAppend
  <2>1. UNCHANGED <<dir, life, world>> /\ (wal' = wal \/ WalStore \notin mem.poison)
    BY <1>3 DEF BeginAppend, PersistOk
  <2> QED BY <2>1 DEF PoisonObserved
<1>4. CASE FinishAppend
  <2>1. UNCHANGED <<dir, life, world>> /\ WalStore \notin mem.poison
    BY <1>4 DEF FinishAppend, LifecycleInv, AppendInv
  <2> QED BY <2>1 DEF PoisonObserved
<1>5. CASE MaterializeLine \/ MaterializeHead
  <2>1. /\ UNCHANGED <<dir, wal, world>> /\ run.cell \in Cells
        /\ WalStore \notin mem.poison /\ LifeStore(run.cell) \notin mem.poison
    BY <1>5 DEF MaterializeLine, MaterializeHead, LifecycleInv, AppendInv, AppendPlaces
  <2>2. \A c \in Cells \ {run.cell} : life'[c] = life[c]
    BY <1>5 DEF MaterializeLine, MaterializeHead, Headed, LifecycleInv, DiskShape, LifeShape
  <2> QED BY <2>1, <2>2 DEF PoisonObserved
<1>6. CASE DirectoryLine \/ DirectoryHead
  <2>1. UNCHANGED <<wal, life, world>> /\ DirStore \notin mem.poison
    BY <1>6 DEF DirectoryLine, DirectoryHead, LifecycleInv, DirInv
  <2> QED BY <2>1 DEF PoisonObserved
<1>7. CASE EventHead \/ EventLine \/ EventBoundary \/ EventCommit
  <2>1. /\ UNCHANGED <<dir, wal, life>> /\ WorldStore(run.cell) \notin mem.poison
        /\ DOMAIN world = Cells
    BY <1>7 DEF EventHead, EventLine, EventBoundary, WorldStep, EventCommit,
                LifecycleInv, EventInv, EventPlaces, DiskShape
  <2>2. \A c \in Cells \ {run.cell} : world'[c] = world[c]
    BY <1>7, <2>1 DEF EventHead, EventLine, EventBoundary, WorldStep, EventCommit, Committed
  <2> QED BY <2>1, <2>2 DEF PoisonObserved
<1>8. CASE \/ Acquire \/ DirectoryOperation \/ Finalize \/ Resume \/ ReconcilePending
           \/ AcknowledgePending \/ Arm \/ BeginDue \/ FreshAuthority \/ BudgetSpent
           \/ \E c \in Cells, h \in Holders : Dispatch(c, h)
  BY <1>1, <1>8 DEF Acquire, DirectoryOperation, Finalize, Resume, ReconcilePending,
              AcknowledgePending, Arm, BeginDue, FreshAuthority, BudgetSpent, Dispatch, Unwritten
<1>9. CASE Tick \/ ClockBack \/ Crash \/ Close \/ UNCHANGED vars
  BY <1>1, <1>9 DEF Tick, ClockBack, Crash, Close, vars, disk
<1> QED BY <1>2, <1>3, <1>4, <1>5, <1>6, <1>7, <1>8, <1>9 DEF Next, Working

\* The directory changes an assignment only as a committed lifecycle record
\* asks, one that the write-ahead head names; and a store whose write has an
\* uncertain outcome is written no more before the universe is opened again.
\* For every number of cells and workers, and wherever crashes, failed writes
\* and clock rollbacks fall (protocol19_install.rs).
THEOREM WritesOrderedCorrect == Spec => WritesOrdered
<1>1. LifecycleInv /\ [Next]_vars => [AuthorityRequested]_vars
  BY AuthorityIsRequested
<1>2. LifecycleInv /\ [Next]_vars => [PoisonObserved]_vars
  BY PoisonIsObserved
<1> QED BY <1>1, <1>2, LifecycleInvariant, PTL
    DEF Spec, WritesOrdered, RequestsPrecedeAuthority, UncertainStoresStop

-----------------------------------------------------------------------------
(***************************************************************************)
(* Wherever the process stops, whatever its last write left, the universe  *)
(* opens again (FilesReopen), and the world keeps its schedule             *)
(* (ScheduleKept).                                                         *)
(*                                                                         *)
(* An open looks at all four stores together, and each dispatch writes     *)
(* them one by one; the invariant therefore says of every record that an   *)
(* open could come to rely on (the one the cell head names, the line after *)
(* it, the append the write-ahead head names) that it fits the directory   *)
(* and the world as they are now, and as a write under way will leave      *)
(* them.                                                                   *)
(***************************************************************************)

(* Records *)

Occurrences == [seq : Nat, at : Nat]
Operations  == [kind : Kinds, gen : Nat, holder : Holders, at : Nat]
LifecycleRecords ==
  [rev : Nat, desired : Modes, mode : Modes, dirRev : Nat, gen : Nat, fence : Nat,
   holder : Holders \cup {None}, exp : Nat, trusted : Nat, ev : Nat, ack : Nat, sched : Nat,
   next : Occurrences \cup {Nil}, op : Operations \cup {Nil},
   pending : [occ : Occurrences, prior : Nat] \cup {Nil}]

\* What a record says by itself: only a running cell commits, and only what was due.
Sound(q) ==
  /\ q \in LifecycleRecords
  /\ q.pending # Nil => q.mode = "Background" /\ q.pending.occ.at <= q.trusted

\* The event of a tail like this counts.
LateTails == {"line", "boundTorn", "bound"}

\* A record that an open can rely on, in the directory doc and the world w.
Fits(q, c, doc, w) ==
  /\ Sound(q)
  /\ RecoveryView(q, doc, c, FrontierOf(c, RecoveredLog(w)))
  /\ q.gen > 1 /\ q.mode # "Background" => Len(w.log) >= Work[c]
  /\ w.tail \in LateTails => q.pending # Nil

-----------------------------------------------------------------------------
(* The files *)

\* The write-ahead head u names an append of the cell.
Pends(c, u) == u # Nil /\ u.pending # Nil /\ u.pending.cell = c

DirectoryOk(d) ==
  /\ d.log[1] = GenesisDocument
  /\ \A i \in DOMAIN d.log : d.log[i].rev = i /\ ValidDocument(d.log[i])
  /\ d.head \in 1..Len(d.log) /\ Len(d.log) \in {d.head, d.head + 1}
  /\ d.torn \in BOOLEAN

\* The lifecycle journal l of a cell, beside the write-ahead head u, the
\* directory history log and the world w.
JournalOk(c, l, u, log, w) ==
  /\ l.files \in {"absent", "history", "pair"}
  /\ l.at # Nil => ValidRecord(l.at) /\ Fits(l.at, c, Last(log), w)
  /\ l.at = Nil => Len(log) = 1 /\ w.log = <<>> /\ w.tail = "clean"
  /\ l.tail # Nil => Pends(c, u)
  /\ l.tail \notin {Nil, TornLine} => l.tail = u.pending.rec /\ PrepareOk(l.at, l.tail, log, c)
  /\ u = Nil => l.files = "absent"
  /\ u # Nil => u.cells[c] \in Nat
  /\ Pends(c, u) =>
       /\ Fits(u.pending.rec, c, Last(log), w)
       /\ \/ l.at = u.pending.rec
          \/ /\ l.at # Nil /\ l.at.rev = u.pending.prior
             /\ PrepareOk(l.at, u.pending.rec, log, c)
          \/ l.at = Nil /\ u.pending.prior = 0 /\ u.pending.rec = InitialRecord(c, log[1])
  /\ u # Nil /\ ~Pends(c, u) =>
       IF u.cells[c] = 0 THEN l.files = "absent" ELSE l.at # Nil /\ l.at.rev = u.cells[c]

\* A document of the history assigns the cell to who wrote the event.
Authentic(c, e, log) ==
  /\ e.dirRev \in DOMAIN log
  /\ log[e.dirRev].assign[c].state = "Assigned" /\ CellGen(log[e.dirRev], c) = e.gen
  /\ e.gen <= CellGen(Last(log), c)
OnSchedule(c, log) ==
  \A i \in DOMAIN log :
    /\ log[i].seq = Genesis[c].ack + i
    /\ log[i].time >= log[i].at
    /\ i > 1 => log[i].at = log[i - 1].at + Quantum /\ log[i].gen >= log[i - 1].gen
Worlds == {w \in [log : Seq(Events), tail : EventTails, event : Events \cup {Nil}] :
             (w.tail = "clean") <=> (w.event = Nil)}
WorldOk(c, w, log) ==
  /\ w \in Worlds
  /\ \A i \in DOMAIN RecoveredLog(w) : Authentic(c, RecoveredLog(w)[i], log)
  /\ OnSchedule(c, RecoveredLog(w))

FilesInv ==
  /\ DirectoryOk(dir)
  /\ \A c \in Cells : JournalOk(c, life[c], wal, dir.log, world[c])
  /\ \A c \in Cells : WorldOk(c, world[c], dir.log)

-----------------------------------------------------------------------------
(* Beliefs about the files *)

\* The process knows every event of the world, or misses the last one.
CaughtUp(w, n) == w.tail \notin LateTails /\ n = Len(w.log)
Behind(w, n)   == IF w.tail \in LateTails THEN n = Len(w.log) ELSE n + 1 = Len(w.log)
KnownFrontier(c, w, n) == FrontierOf(c, SubSeq(w.log, 1, n))

\* The operation op is not yet in the directory doc.
Due(op, doc, c) ==
  IF op.kind = "Release" THEN ReleaseOkV3(doc, c, op.gen, op.holder)
  ELSE TransitionOk(doc, c, op.gen, StartState(op.kind))

\* What the open universe believes of a cell: the record r, the directory doc
\* and the first n events.
BeliefOk(c, r, l, u, log, doc, w, n) ==
  /\ ValidRecord(r) /\ Fits(r, c, Last(log), w)
  /\ l.at # r => Pends(c, u) /\ l.at = u.pending.rec /\ PrepareOk(r, l.at, log, c)
  /\ doc.assign[c] = Last(log).assign[c] \/ (r.op # Nil /\ Due(r.op, doc, c))
  /\ n \in 0..Len(w.log)
  /\ \/ CaughtUp(w, n)
     \/ Behind(w, n) /\ r.pending # Nil /\ SameWorld(r, KnownFrontier(c, w, n))
InEvent(c) == run.at \in EventPlaces /\ run.cell = c
BeliefInv ==
  Ready =>
    /\ DirStore \notin mem.poison => dir.head = mem.docs /\ ~dir.torn
    /\ \A c \in Cells : BeliefOk(c, mem.life[c], life[c], wal, dir.log, Doc, world[c], mem.events[c])
    /\ \A c \in Cells : WorldStore(c) \notin mem.poison =>
         mem.events[c] = Len(world[c].log) /\ (world[c].tail = "clean" \/ InEvent(c))

\* An open has repaired the directory first and the worlds next.
OpenInv ==
  ~Ready =>
    /\ run.at \notin {"down", "opendir"} => dir.head = Len(dir.log) /\ ~dir.torn
    /\ run.at \in {"reconcile"} \cup AppendPlaces =>
         \A c \in Cells : world[c].tail = "clean" /\ mem.events[c] = Len(world[c].log)

\* A record on its way into the journals: rec follows r.
Follows(c, rec, r, log, doc, w, n) ==
  /\ PrepareOk(r, rec, log, c) /\ doc.assign[c] = Last(log).assign[c]
  /\ Behind(w, n) => rec.pending # Nil /\ SameWorld(rec, KnownFrontier(c, w, n))
PreparedInv ==
  LET c == run.cell IN
  /\ run.at \in {"begin", "line", "head"} =>
       /\ Fits(run.rec, c, Last(dir.log), world[c])
       /\ Ready => Follows(c, run.rec, mem.life[c], dir.log, Doc, world[c], mem.events[c])
  /\ run.at = "begin" /\ Ready => mem.wal.cells[c] = mem.life[c].rev
  /\ run.at = "begin" /\ ~Ready =>
       run.rec = InitialRecord(c, dir.log[1]) /\ life[c].at = Nil /\ wal.cells[c] = 0
  /\ run.at \in {"line", "head"} =>
       PrepareOk(life[c].at, run.rec, dir.log, c) /\ (Ready => life[c].at = mem.life[c])
  /\ run.at = "head" => life[c].tail = run.rec
  /\ run.at = "finish" => life[c].at = run.rec /\ life[c].tail = Nil
  /\ run.at = "dirline" => ValidDocument(run.rec)

\* The records of a cell that an open could come to rely on.
RecordsOf(c, l, u) == {l.at} \cup (IF Pends(c, u) THEN {u.pending.rec} ELSE {})

\* An event on its way into the world: every record of its cell expects it.
EventFrontier(e) == Frontier(e.ev, e.seq, e.at)
ProducedInv ==
  LET c == run.cell
      r == mem.life[c]
  IN run.at \in EventPlaces =>
       /\ run.rec \in Events
       /\ r.pending # Nil /\ SameWorld(r, KnownFrontier(c, world[c], mem.events[c]))
       /\ world[c].tail = CASE run.at = "evhead" -> "clean" [] run.at = "evline" -> "pending"
                            [] run.at = "evbound" -> "line" [] OTHER -> "bound"
       /\ run.at # "evhead" => world[c].event = run.rec
       /\ run.at \in {"evhead", "evline"} =>
            /\ \A q \in {r} \cup RecordsOf(c, life[c], wal) : PendingSuccessor(q, EventFrontier(run.rec))
            /\ Authentic(c, run.rec, dir.log)
            /\ OnSchedule(c, Append(world[c].log, run.rec))

TimesInv == now \in 1..MaxTime /\ faults \in 0..MaxFaults /\ run.t \in Nat

ReopenInv ==
  /\ FilesInv /\ DOMAIN mem.events = Cells
  /\ BeliefInv /\ OpenInv /\ PreparedInv /\ ProducedInv

-----------------------------------------------------------------------------
(* The first document, and a history that grows *)

\* The document that the migration leaves is valid.
LEMMA GenesisValid == ValidDocument(GenesisDocument)
<1> DEFINE d == GenesisDocument
<1>1. /\ d.rev = 1
      /\ \A c \in Cells : d.assign[c] = [state |-> "Sleeping", holder |-> None, fences |-> <<1>>]
      /\ \A m \in Members : d.place[m] = [cell |-> GenesisPlacement[m].cell, gen |-> GenesisPlacement[m].gen,
                                          state |-> "Resident", transfer |-> None]
      /\ \A t \in Transfers : d.transfers[t] = NoTransfer
  BY DEF GenesisDocument
<1> HIDE DEF d
<1>2. d.rev \in 1..MaxRevision
  BY <1>1, GridDirectoryAssumption
<1>3. ASSUME NEW c \in Cells
      PROVE  ValidAssignment(d.assign[c])
  <2>1. Len(<<1>>) = 1 /\ \A g \in 1..1 : <<1>>[g] = 1 /\ g = 1
    OBVIOUS
  <2> QED BY <1>1, <2>1 DEF ValidAssignment
<1>4. \A t \in Transfers : ~Known(d, t)
  BY <1>1 DEF Known
<1>5. ASSUME NEW m \in Members
      PROVE  ValidPlacementV3(d.place[m]) /\ d.place[m].transfer = None /\ d.place[m].gen \in Nat
             /\ d.place[m].gen = GenesisPlacement[m].gen /\ d.place[m].cell = GenesisPlacement[m].cell
  <2>1. GenesisPlacement[m] \in [cell : Cells, gen : Nat \ {0}]
    BY GridDirectoryAssumption, Zenon
  <2>2. d.place[m] = [cell |-> GenesisPlacement[m].cell, gen |-> GenesisPlacement[m].gen,
                      state |-> "Resident", transfer |-> None]
    BY <1>1
  <2> QED BY <2>1, <2>2 DEF ValidPlacementV3
<1>6. ASSUME NEW m \in Members
      PROVE  HistoryReaches(d, m, GenesisPlacement[m].gen, GenesisPlacement[m].cell)
  <2> DEFINE g == GenesisPlacement[m].gen
             x == GenesisPlacement[m].cell
             Step(f) == [h \in g..d.place[m].gen |->
               IF h = g THEN x
               ELSE LET from == {t \in {u \in Advances(d, m) : d.transfers[u].prior[m] = h - 1} :
                                   d.transfers[t].source = f[h - 1]}
                    IN IF Cardinality(from) = 1
                       THEN d.transfers[CHOOSE t \in from : TRUE].destination ELSE None]
  <2>1. g \in Nat /\ d.place[m].gen = g /\ g..d.place[m].gen = {g}
    BY <1>5, GridDirectoryAssumption
  <2>2. \A f : Step(f) = [h \in {g} |-> x]
    <3>1. SUFFICES ASSUME NEW f PROVE Step(f) = [h \in {g} |-> x]
      OBVIOUS
    <3>2. DOMAIN Step(f) = {g} /\ Step(f)[g] = x
      BY <2>1
    <3> QED BY <2>1, Zenon
  <2> HIDE DEF Step
  <2>3. (CHOOSE f : f = Step(f)) = [h \in {g} |-> x]
    BY <2>2
  <2>4. HistoryReaches(d, m, g, x) <=>
          g <= d.place[m].gen /\ (CHOOSE f : f = Step(f))[d.place[m].gen] = d.place[m].cell
    BY Zenon DEF HistoryReaches, Step
  <2>5. (CHOOSE f : f = Step(f))[d.place[m].gen] = x
    BY <2>1, <2>3
  <2>6. g <= d.place[m].gen /\ x = d.place[m].cell
    BY <1>5, <2>1
  <2> QED BY <2>4, <2>5, <2>6, Zenon
<1>7. ValidFloors(d)
  <2>1. \A m \in Members : Advances(d, m) = {}
    BY <1>4 DEF Advances
  <2>2. \A m \in Members : d.place[m].gen >= GenesisPlacement[m].gen
    BY <1>5
  <2>3. ASSUME NEW m \in Members
        PROVE  \A t, u \in Advances(d, m) : /\ d.transfers[t].prior[m] = d.transfers[u].prior[m]
                 /\ d.transfers[t].source = d.transfers[u].source
                 => t = u
    BY <2>1, Zenon
  <2> QED BY <1>6, <2>2, <2>3 DEF ValidFloors
<1>8. ValidDocument(d)
  BY <1>2, <1>3, <1>4, <1>5, <1>7 DEF ValidDocument
<1> QED BY <1>8 DEF d

\* What a journal accepts stays accepted when the directory goes on.
LEMMA HistoryGrows ==
  ASSUME NEW h, NEW k, NEW r, NEW n, NEW c, PrepareOk(r, n, h, c),
         \A i \in DOMAIN h : i \in DOMAIN k /\ k[i] = h[i]
  PROVE  PrepareOk(r, n, k, c)
<1>1. n.dirRev \in DOMAIN k /\ k[n.dirRev] = h[n.dirRev]
  BY DEF PrepareOk, DirectoryBinding
<1>2. ValidRecord(n) /\ DirectoryBinding(n, k, c)
  BY <1>1 DEF PrepareOk, DirectoryBinding
<1>3. r # Nil => n.rev = r.rev + 1 /\ ExactSuccessor(r, n, k, c)
  <2>1. r # Nil => n.rev = r.rev + 1 /\ ExactSuccessor(r, n, h, c)
    BY DEF PrepareOk
  <2> QED BY <1>1, <2>1, Zenon DEF ExactSuccessor
<1>4. r = Nil => n.rev = 2
  BY DEF PrepareOk
<1> QED BY <1>2, <1>3, <1>4 DEF PrepareOk

-----------------------------------------------------------------------------
(* Types of what the records are made from *)

Frontiers == [ev : Nat, ack : Nat, sched : Nat]

LEMMA DocumentTypes ==
  ASSUME NEW d \in LifecycleDocuments, NEW c \in Cells
  PROVE  /\ d.rev \in Nat /\ CellGen(d, c) \in Nat \ {0} /\ Fence(d, c) \in Nat
         /\ d.assign[c].state \in {"Sleeping", "Assigned"}
         /\ d.assign[c].holder \in Holders \cup {None}
<1>1. d.assign[c] \in Assignments /\ d.rev \in Nat
  BY DEF LifecycleDocuments
<1>2. d.assign[c].fences \in Seq(Nat) /\ d.assign[c].fences # <<>>
  BY <1>1 DEF Assignments
<1>3. Len(d.assign[c].fences) \in Nat \ {0}
  BY <1>2
<1> QED BY <1>1, <1>2, <1>3 DEF CellGen, Fence, Assignments

LEMMA FrontierTypes ==
  ASSUME NEW c \in Cells, NEW log \in Seq(Events)
  PROVE  FrontierOf(c, log) \in Frontiers
<1>1. CASE log = <<>>
  BY <1>1, LifecycleAssumption DEF FrontierOf, Frontier, Frontiers
<1>2. CASE log # <<>>
  <2>1. Last(log) \in Events
    BY <1>2 DEF Last
  <2> QED BY <1>2, <2>1 DEF FrontierOf, Frontier, Frontiers, Events
<1> QED BY <1>1, <1>2

\* A sound record is not the absent one, and its parts have their types.
LEMMA SoundTypes ==
  ASSUME NEW q, Sound(q)
  PROVE  /\ q # Nil /\ q # TornLine /\ q.pending \in [occ : Occurrences, prior : Nat] \cup {Nil}
         /\ WorldFrontier(q) \in Frontiers
         /\ q.op # Nil => q.op \in Operations
         /\ q.next # Nil => q.next \in Occurrences
         /\ q.pending # Nil => q.pending.occ \in Occurrences /\ q.pending.prior \in Nat
<1>1. q \in LifecycleRecords
  BY DEF Sound
<1>2. q # Nil /\ q # TornLine
  <2>1. DOMAIN Nil = {"absent"} /\ DOMAIN TornLine = {"torn"} /\ "rev" \in DOMAIN q
    BY <1>1 DEF Nil, TornLine, LifecycleRecords
  <2> QED BY <2>1
<1>3. WorldFrontier(q) \in Frontiers
  BY <1>1 DEF WorldFrontier, Frontier, Frontiers, LifecycleRecords
<1>4. /\ q.pending \in [occ : Occurrences, prior : Nat] \cup {Nil}
      /\ q.op \in Operations \cup {Nil} /\ q.next \in Occurrences \cup {Nil}
  BY <1>1 DEF LifecycleRecords
<1> QED BY <1>2, <1>3, <1>4

\* A record fits by what the directory says of its cell.
LEMMA FitsAssignment ==
  ASSUME NEW q, NEW c, NEW doc, NEW other, NEW w, Fits(q, c, doc, w),
         other.assign[c] = doc.assign[c]
  PROVE  Fits(q, c, other, w)
<1>1. /\ CellGen(other, c) = CellGen(doc, c) /\ Fence(other, c) = Fence(doc, c)
  BY DEF CellGen, Fence
<1>2. RecoveryView(q, other, c, FrontierOf(c, RecoveredLog(w)))
  BY <1>1 DEF Fits, RecoveryView, SameAssignment, AssignmentIdentity
<1> QED BY <1>2 DEF Fits

-----------------------------------------------------------------------------
(* A transition of a record that fits makes one that fits *)

\* A record that fits, also if the last event of the world is not yet known.
Staged(c, q, doc, w, n) ==
  /\ Fits(q, c, doc, w)
  /\ Behind(w, n) => q.pending # Nil /\ SameWorld(q, KnownFrontier(c, w, n))

LEMMA KnowsAll ==
  ASSUME NEW c \in Cells, NEW w \in Worlds, NEW n, n \in 0..Len(w.log)
  PROVE  /\ KnownFrontier(c, w, n) \in Frontiers
         /\ FrontierOf(c, RecoveredLog(w)) \in Frontiers
         /\ CaughtUp(w, n) => ~Behind(w, n) /\ KnownFrontier(c, w, n) = FrontierOf(c, RecoveredLog(w))
<1>1. w.log \in Seq(Events) /\ Len(w.log) \in Nat
  BY DEF Worlds
<1>2. SubSeq(w.log, 1, n) \in Seq(Events)
  BY <1>1
<1>3. RecoveredLog(w) \in Seq(Events)
  <2>1. CASE w.tail \in LateTails
    <3>1. w.event \in Events
      BY <2>1 DEF Worlds, LateTails
    <3>2. Append(w.log, w.event) \in Seq(Events)
      BY <1>1, <3>1
    <3> QED BY <2>1, <3>2 DEF RecoveredLog, LateTails
  <2>2. CASE w.tail \notin LateTails
    BY <1>1, <2>2 DEF RecoveredLog, LateTails
  <2> QED BY <2>1, <2>2
<1>4. CaughtUp(w, n) => SubSeq(w.log, 1, n) = w.log /\ RecoveredLog(w) = w.log
  BY <1>1 DEF CaughtUp, RecoveredLog, LateTails
<1>5. CaughtUp(w, n) => ~Behind(w, n)
  BY <1>1 DEF CaughtUp, Behind
<1>6. KnownFrontier(c, w, n) \in Frontiers /\ FrontierOf(c, RecoveredLog(w)) \in Frontiers
  BY <1>2, <1>3, FrontierTypes DEF KnownFrontier
<1> QED BY <1>4, <1>5, <1>6 DEF KnownFrontier

\* The successor of a record is a record.
LEMMA SuccessorTypes ==
  ASSUME NEW r \in LifecycleRecords, NEW t \in Nat
  PROVE  /\ Successor(r, t) \in LifecycleRecords
         /\ LET y == Successor(r, t) IN
              /\ y.rev = r.rev + 1 /\ y.trusted = t /\ y.desired = r.desired /\ y.mode = r.mode
              /\ y.dirRev = r.dirRev /\ y.gen = r.gen /\ y.fence = r.fence /\ y.holder = r.holder
              /\ y.exp = r.exp /\ y.ev = r.ev /\ y.ack = r.ack /\ y.sched = r.sched
              /\ y.next = r.next /\ y.op = r.op /\ y.pending = r.pending
<1> DEFINE e == r.rev + 1
           y == [r EXCEPT !.rev = e, !.trusted = t]
<1>1. e \in Nat
  BY DEF LifecycleRecords
<1>2. Successor(r, t) = y
  BY DEF Successor
<1> HIDE DEF e
<1>3. y \in LifecycleRecords
  BY <1>1 DEF LifecycleRecords
<1>4. /\ y.rev = e /\ y.trusted = t /\ y.desired = r.desired /\ y.mode = r.mode
      /\ y.dirRev = r.dirRev /\ y.gen = r.gen /\ y.fence = r.fence /\ y.holder = r.holder
      /\ y.exp = r.exp /\ y.ev = r.ev /\ y.ack = r.ack /\ y.sched = r.sched
      /\ y.next = r.next /\ y.op = r.op /\ y.pending = r.pending
  BY DEF LifecycleRecords
<1> QED BY <1>2, <1>3, <1>4 DEF e

LEMMA RequestFits ==
  ASSUME NEW c \in Cells, NEW r, NEW doc \in LifecycleDocuments, NEW w, NEW n, Staged(c, r, doc, w, n),
         NEW kind \in Kinds, NEW h \in Holders, NEW t \in Nat, NEW f,
         RequestOk(r, doc, c, kind, h, t, f),
         kind = "Release" => Len(w.log) >= Work[c]
  PROVE  Staged(c, Request(r, doc, c, kind, h, t), doc, w, n)
<1> DEFINE x == Request(r, doc, c, kind, h, t)
<1>1. Sound(r) /\ r \in LifecycleRecords /\ t >= r.trusted
  BY DEF Staged, Fits, Sound, RequestOk, Seals, MonotonicTime
<1>2. /\ CellGen(doc, c) \in Nat
      /\ x.rev = r.rev + 1 /\ x.trusted = t /\ x.dirRev = r.dirRev /\ x.gen = r.gen /\ x.fence = r.fence
      /\ x.holder = r.holder /\ x.exp = r.exp /\ x.ev = r.ev /\ x.ack = r.ack /\ x.sched = r.sched
      /\ x.next = r.next /\ x.pending = r.pending
      /\ x.op = [kind |-> kind, gen |-> CellGen(doc, c), holder |-> h, at |-> t]
      /\ x.mode = IF kind = "Release" THEN "Draining" ELSE r.mode
      /\ x.desired = IF kind = "Release" THEN "Sleeping" ELSE "Background"
  BY <1>1, DocumentTypes DEF Request, Successor, LifecycleRecords
<1>3. x \in LifecycleRecords
  <2>1. [kind |-> kind, gen |-> CellGen(doc, c), holder |-> h, at |-> t] \in Operations
    BY <1>2 DEF Operations
  <2>2. Successor(r, t) \in LifecycleRecords
    BY <1>1, SuccessorTypes
  <2> QED BY <2>1, <2>2 DEF Request, LifecycleRecords, Modes
<1>4. kind = "Release" => r.pending = Nil
  BY DEF RequestOk
<1>5. Sound(x)
  <2>1. r.pending # Nil => r.pending.occ.at \in Nat /\ r.pending.occ.at <= r.trusted /\ r.mode = "Background"
    BY <1>1, SoundTypes DEF Sound, Occurrences
  <2>2. r.trusted \in Nat
    BY <1>1 DEF LifecycleRecords
  <2> QED BY <1>1, <1>2, <1>3, <1>4, <2>1, <2>2 DEF Sound
<1>6. /\ doc.assign[c].state = StartState(kind) /\ SameAssignment(r, doc, c)
      /\ kind = "Release" => doc.assign[c].holder = h
  BY DEF RequestOk, ExactFrontiers, AssignmentIdentity
<1> DEFINE F == FrontierOf(c, RecoveredLog(w))
<1>7. WorldOrPendingSuccessor(x, F)
  <2>1. WorldOrPendingSuccessor(r, F)
    BY DEF Staged, Fits, RecoveryView
  <2> HIDE DEF x, F
  <2> QED BY <1>2, <2>1 DEF WorldOrPendingSuccessor, SameWorld, PendingSuccessor, WorldFrontier
<1>8. RecoveryView(x, doc, c, F)
  <2>1. x.op # Nil /\ x.op.kind = kind /\ x.op.gen = CellGen(doc, c) /\ x.op.holder = h
    <3>1. x.op = [kind |-> kind, gen |-> CellGen(doc, c), holder |-> h, at |-> t]
      BY <1>2
    <3> HIDE DEF x
    <3>2. DOMAIN x.op = {"kind", "gen", "holder", "at"} /\ DOMAIN Nil = {"absent"}
      BY <3>1 DEF Nil
    <3> QED BY <3>1, <3>2
  <2>2. x.fence = r.fence /\ Fence(doc, c) = r.fence
    BY <1>2, <1>6 DEF SameAssignment
  <2> HIDE DEF x, F
  <2> QED BY <1>6, <1>7, <2>1, <2>2 DEF RecoveryView, StartState, Kinds
<1>9. Behind(w, n) => x.pending # Nil /\ SameWorld(x, KnownFrontier(c, w, n))
  <2> HIDE DEF x
  <2> QED BY <1>2 DEF Staged, SameWorld, WorldFrontier
<1>10. /\ x.gen > 1 /\ x.mode # "Background" => Len(w.log) >= Work[c]
       /\ w.tail \in LateTails => x.pending # Nil
  <2> HIDE DEF x
  <2> QED BY <1>2 DEF Staged, Fits
<1> QED BY <1>5, <1>8, <1>9, <1>10 DEF Staged, Fits

LEMMA FinalizeAssignedFits ==
  ASSUME NEW c \in Cells, NEW r, NEW doc \in LifecycleDocuments, NEW w, NEW n, Staged(c, r, doc, w, n),
         NEW t \in Nat, NEW f,
         FinalizeAssignedOk(r, doc, c, t, f)
  PROVE  Staged(c, FinalizeAssigned(r, doc, c, t, f), doc, w, n)
<1> DEFINE x == FinalizeAssigned(r, doc, c, t, f)
<1>1. Sound(r) /\ r \in LifecycleRecords /\ t >= r.trusted
  BY DEF Staged, Fits, Sound, FinalizeAssignedOk, Seals, MonotonicTime
<1>2. /\ doc.assign[c].state = "Assigned" /\ doc.assign[c].holder = r.op.holder
      /\ r.op \in Operations /\ Lease \in Nat
  BY <1>1, SoundTypes, LifecycleAssumption DEF FinalizeAssignedOk
<1> DEFINE y == [Successor(r, t) EXCEPT
              !.mode = "Background", !.dirRev = doc.rev, !.gen = CellGen(doc, c),
              !.fence = Fence(doc, c), !.holder = doc.assign[c].holder,
              !.exp = t + Lease, !.op = Nil]
<1>3. /\ y \in LifecycleRecords
      /\ y.trusted = t /\ y.gen = CellGen(doc, c) /\ y.fence = Fence(doc, c) /\ y.mode = "Background"
      /\ y.holder = doc.assign[c].holder /\ y.ev = r.ev /\ y.ack = r.ack /\ y.sched = r.sched
      /\ y.pending = r.pending /\ y.op = Nil /\ y.next = r.next
  <2> DEFINE z == Successor(r, t)
             e == t + Lease
  <2>1. /\ z \in LifecycleRecords /\ z.trusted = t /\ z.ev = r.ev /\ z.ack = r.ack
        /\ z.sched = r.sched /\ z.pending = r.pending /\ z.next = r.next
    BY <1>1, SuccessorTypes
  <2>2. r.op.holder \in Holders /\ e \in Nat
    BY <1>2 DEF Operations
  <2>3. /\ doc.rev \in Nat /\ CellGen(doc, c) \in Nat /\ Fence(doc, c) \in Nat
        /\ doc.assign[c].holder \in Holders
    BY <1>2, <2>2, DocumentTypes
  <2> HIDE DEF z, e
  <2>4. y = [z EXCEPT !.mode = "Background", !.dirRev = doc.rev, !.gen = CellGen(doc, c),
              !.fence = Fence(doc, c), !.holder = doc.assign[c].holder, !.exp = e, !.op = Nil]
    BY DEF z, e
  <2>5. y \in LifecycleRecords
    <3> DEFINE p == [z EXCEPT !.mode = "Background", !.dirRev = doc.rev, !.gen = CellGen(doc, c),
                              !.fence = Fence(doc, c)]
    <3>1. p \in LifecycleRecords
      BY <2>1, <2>3 DEF LifecycleRecords, Modes
    <3>2. y = [p EXCEPT !.holder = doc.assign[c].holder, !.exp = e, !.op = Nil]
      BY <2>1, <2>4 DEF LifecycleRecords
    <3> HIDE DEF p, y
    <3> QED BY <2>2, <2>3, <3>1, <3>2 DEF LifecycleRecords
  <2>6. /\ y.trusted = z.trusted /\ y.gen = CellGen(doc, c) /\ y.fence = Fence(doc, c)
        /\ y.mode = "Background" /\ y.holder = doc.assign[c].holder /\ y.ev = z.ev /\ y.ack = z.ack
        /\ y.sched = z.sched /\ y.pending = z.pending /\ y.op = Nil /\ y.next = z.next
    BY <2>1, <2>4 DEF LifecycleRecords
  <2> HIDE DEF y
  <2> QED BY <2>1, <2>5, <2>6
<1>4. x = y
  <2>1. ~SameWorld(r, f) => x = y
    BY DEF FinalizeAssigned
  <2>2. SameWorld(r, f) => f.ev = y.ev /\ f.sched = y.sched /\ x = [y EXCEPT !.ev = f.ev, !.sched = f.sched]
    BY <1>3 DEF FinalizeAssigned, InstallFrontier, SameWorld, WorldFrontier, Frontier
  <2> HIDE DEF x, y
  <2>3. [y EXCEPT !.ev = y.ev, !.sched = y.sched] = y
    BY <1>3 DEF LifecycleRecords
  <2> QED BY <2>1, <2>2, <2>3
<1> DEFINE F == FrontierOf(c, RecoveredLog(w))
<1>5. WorldOrPendingSuccessor(r, F)
  BY DEF Staged, Fits, RecoveryView
<1> HIDE DEF x, y, F
<1>6. Sound(x)
  <2>1. r.pending # Nil => r.pending.occ.at \in Nat /\ r.pending.occ.at <= r.trusted
    BY <1>1, SoundTypes DEF Sound, Occurrences
  <2>2. r.trusted \in Nat
    BY <1>1 DEF LifecycleRecords
  <2> QED BY <1>1, <1>3, <1>4, <2>1, <2>2 DEF Sound
<1>7. WorldOrPendingSuccessor(x, F)
  BY <1>3, <1>4, <1>5 DEF WorldOrPendingSuccessor, SameWorld, PendingSuccessor, WorldFrontier
<1>8. RecoveryView(x, doc, c, F)
  BY <1>2, <1>3, <1>4, <1>7 DEF RecoveryView, AssignmentIdentity, SameAssignment
<1>9. Behind(w, n) => x.pending # Nil /\ SameWorld(x, KnownFrontier(c, w, n))
  BY <1>3, <1>4 DEF Staged, SameWorld, WorldFrontier
<1>10. /\ x.mode = "Background"
       /\ w.tail \in LateTails => x.pending # Nil
  BY <1>3, <1>4 DEF Staged, Fits
<1> QED BY <1>6, <1>8, <1>9, <1>10 DEF Staged, Fits, F, x

\* The frontier a record has is the one that is installed.
LEMMA InstallSame ==
  ASSUME NEW y \in LifecycleRecords, NEW f, f.ev = y.ev, f.sched = y.sched
  PROVE  InstallFrontier(y, f) = y
BY DEF InstallFrontier, LifecycleRecords

LEMMA FinalizeSleepingFits ==
  ASSUME NEW c \in Cells, NEW r, NEW doc \in LifecycleDocuments, NEW w, NEW n, Staged(c, r, doc, w, n),
         ValidRecord(r), NEW t \in Nat, NEW f,
         FinalizeSleepingOk(r, doc, c, t, f)
  PROVE  Staged(c, FinalizeSleeping(r, doc, c, t, f), doc, w, n)
<1> DEFINE x == FinalizeSleeping(r, doc, c, t, f)
           z == Successor(r, t)
           y == [z EXCEPT !.mode = "Sleeping", !.dirRev = doc.rev, !.gen = CellGen(doc, c),
                 !.fence = Fence(doc, c), !.holder = None, !.exp = NoExpiry, !.op = Nil, !.pending = Nil]
           F == FrontierOf(c, RecoveredLog(w))
<1>1. Sound(r) /\ r \in LifecycleRecords
  BY DEF Staged, Fits, Sound
<1>2. /\ z \in LifecycleRecords /\ z.trusted = t /\ z.ev = r.ev /\ z.ack = r.ack
      /\ z.sched = r.sched
  BY <1>1, SuccessorTypes
<1>3. /\ doc.assign[c].state = "Sleeping" /\ CellGen(doc, c) = r.op.gen /\ SameWorld(r, f)
      /\ r.op # Nil /\ r.op.kind = "Release"
  BY DEF FinalizeSleepingOk
<1>4. r.mode # "Background" /\ r.gen = CellGen(doc, c) /\ r.pending = Nil
  <2>1. ShapeValid(r)
    BY DEF ValidRecord
  <2>2. r.mode = "Draining" /\ r.op.gen = r.gen
    BY <1>3, <2>1 DEF ShapeValid
  <2> QED BY <1>1, <1>3, <2>2 DEF Sound
<1>5. y \in LifecycleRecords
  <2> HIDE DEF z
  <2> DEFINE p == [z EXCEPT !.mode = "Sleeping", !.dirRev = doc.rev, !.gen = CellGen(doc, c),
                            !.fence = Fence(doc, c)]
  <2>1. /\ doc.rev \in Nat /\ CellGen(doc, c) \in Nat /\ Fence(doc, c) \in Nat
    BY DocumentTypes
  <2>2. p \in LifecycleRecords
    BY <1>2, <2>1 DEF LifecycleRecords, Modes
  <2>3. y = [p EXCEPT !.holder = None, !.exp = NoExpiry, !.op = Nil, !.pending = Nil]
    BY <1>2 DEF LifecycleRecords
  <2> HIDE DEF p, y
  <2> QED BY <2>2, <2>3 DEF LifecycleRecords, NoExpiry
<1>6. /\ y.mode = "Sleeping" /\ y.gen = CellGen(doc, c) /\ y.fence = Fence(doc, c) /\ y.op = Nil
      /\ y.pending = Nil /\ y.ev = r.ev /\ y.ack = r.ack /\ y.sched = r.sched
  <2> HIDE DEF z
  <2> QED BY <1>2 DEF LifecycleRecords
<1>7. x = y
  <2>1. x = InstallFrontier(y, f)
    BY DEF FinalizeSleeping
  <2>2. f.ev = y.ev /\ f.sched = y.sched
    BY <1>3, <1>6 DEF SameWorld, WorldFrontier, Frontier
  <2> HIDE DEF x, y
  <2> QED BY <1>5, <2>1, <2>2, InstallSame
<1> HIDE DEF x, y, z
<1>8. SameWorld(x, F)
  <2>1. WorldOrPendingSuccessor(r, F)
    BY DEF Staged, Fits, RecoveryView
  <2> HIDE DEF F
  <2> QED BY <1>4, <1>6, <1>7, <2>1 DEF WorldOrPendingSuccessor, SameWorld, PendingSuccessor, WorldFrontier
<1> HIDE DEF F
<1>9. RecoveryView(x, doc, c, F)
  BY <1>3, <1>6, <1>7, <1>8 DEF RecoveryView, SameAssignment, WorldOrPendingSuccessor
<1>10. Sound(x) /\ ~Behind(w, n) /\ w.tail \notin LateTails
  BY <1>4, <1>5, <1>6, <1>7 DEF Staged, Fits, Sound
<1>11. x.gen > 1 /\ x.mode # "Background" => Len(w.log) >= Work[c]
  BY <1>4, <1>6, <1>7 DEF Staged, Fits
<1> QED BY <1>9, <1>10, <1>11 DEF Staged, Fits, F, x

LEMMA RenewFits ==
  ASSUME NEW c \in Cells, NEW r, NEW doc \in LifecycleDocuments, NEW w, NEW n, Staged(c, r, doc, w, n),
         NEW t \in Nat, NEW f, NEW next \in Occurrences \cup {Nil},
         RenewOk(r, doc, c, t, f, next)
  PROVE  Staged(c, Renew(r, doc, c, t, f, next), doc, w, n)
<1> DEFINE x == Renew(r, doc, c, t, f, next)
           z == Successor(r, t)
           e == t + Lease
           y == [z EXCEPT !.dirRev = doc.rev, !.exp = e, !.next = next]
           F == FrontierOf(c, RecoveredLog(w))
<1>1. /\ Sound(r) /\ r \in LifecycleRecords /\ t >= r.trusted /\ SameWorld(r, f)
      /\ r.op = Nil /\ r.mode = "Background"
  BY DEF Staged, Fits, Sound, RenewOk, Seals, MonotonicTime, LiveAuthority
<1>2. /\ z \in LifecycleRecords /\ z.trusted = t /\ z.ev = r.ev /\ z.ack = r.ack
      /\ z.sched = r.sched /\ z.gen = r.gen /\ z.fence = r.fence /\ z.mode = r.mode /\ z.op = r.op
      /\ z.pending = r.pending /\ z.holder = r.holder
  BY <1>1, SuccessorTypes
<1>3. doc.rev \in Nat /\ e \in Nat
  BY DocumentTypes, LifecycleAssumption
<1>4. x = InstallFrontier(y, f)
  BY DEF Renew
<1> HIDE DEF x, z, e
<1>5. y \in LifecycleRecords
  BY <1>2, <1>3 DEF LifecycleRecords
<1>6. /\ y.trusted = t /\ y.ev = r.ev /\ y.ack = r.ack /\ y.sched = r.sched /\ y.gen = r.gen
      /\ y.fence = r.fence /\ y.mode = r.mode /\ y.op = r.op /\ y.pending = r.pending
      /\ y.holder = r.holder
  BY <1>2 DEF LifecycleRecords
<1> HIDE DEF y
<1>7. x = y
  <2>1. f.ev = y.ev /\ f.sched = y.sched
    BY <1>1, <1>6 DEF SameWorld, WorldFrontier, Frontier
  <2> QED BY <1>4, <1>5, <2>1, InstallSame
<1>8. WorldOrPendingSuccessor(x, F)
  <2>1. WorldOrPendingSuccessor(r, F)
    BY DEF Staged, Fits, RecoveryView
  <2> HIDE DEF F
  <2> QED BY <1>6, <1>7, <2>1 DEF WorldOrPendingSuccessor, SameWorld, PendingSuccessor, WorldFrontier
<1>9. RecoveryView(x, doc, c, F)
  <2>1. AssignmentIdentity(r, doc, c) /\ doc.assign[c].holder = r.holder
    BY DEF RenewOk, LiveAuthority
  <2> HIDE DEF F
  <2> QED BY <1>1, <1>6, <1>7, <1>8, <2>1 DEF RecoveryView, AssignmentIdentity, SameAssignment
<1>10. Sound(x)
  <2>1. r.pending # Nil => r.pending.occ.at \in Nat /\ r.pending.occ.at <= r.trusted
    BY <1>1, SoundTypes DEF Sound, Occurrences
  <2>2. r.trusted \in Nat
    BY <1>1 DEF LifecycleRecords
  <2> QED BY <1>1, <1>5, <1>6, <1>7, <2>1, <2>2 DEF Sound
<1>11. /\ x.mode = "Background"
       /\ w.tail \in LateTails => x.pending # Nil
       /\ Behind(w, n) => x.pending # Nil /\ SameWorld(x, KnownFrontier(c, w, n))
  BY <1>1, <1>6, <1>7 DEF Staged, Fits, SameWorld, WorldFrontier
<1> QED BY <1>9, <1>10, <1>11 DEF Staged, Fits, F, x

LEMMA BeginCommitFits ==
  ASSUME NEW c \in Cells, NEW r, NEW doc \in LifecycleDocuments, NEW w, NEW n, Staged(c, r, doc, w, n),
         NEW t \in Nat, NEW f,
         BeginCommitOk(r, doc, c, t, f)
  PROVE  Staged(c, BeginCommit(r, t, f), doc, w, n)
<1> DEFINE x == BeginCommit(r, t, f)
           z == Successor(r, t)
           e == [occ |-> r.next, prior |-> f.ev]
           F == FrontierOf(c, RecoveredLog(w))
<1>1. /\ Sound(r) /\ r \in LifecycleRecords /\ SameWorld(r, f) /\ r.next # Nil /\ r.next.at <= t
      /\ r.op = Nil /\ r.mode = "Background" /\ r.pending = Nil
  BY DEF Staged, Fits, Sound, BeginCommitOk, LiveAuthority
<1>2. /\ z \in LifecycleRecords /\ z.trusted = t /\ z.ev = r.ev /\ z.ack = r.ack
      /\ z.sched = r.sched /\ z.gen = r.gen /\ z.fence = r.fence /\ z.mode = r.mode /\ z.op = r.op
      /\ z.holder = r.holder
  BY <1>1, SuccessorTypes
<1>3. e \in [occ : Occurrences, prior : Nat] /\ e.occ = r.next /\ e # Nil
  <2>1. f.ev = r.ev /\ r.ev \in Nat
    BY <1>1 DEF SameWorld, WorldFrontier, Frontier, LifecycleRecords
  <2>2. r.next \in Occurrences
    BY <1>1, SoundTypes
  <2>3. DOMAIN e = {"occ", "prior"} /\ DOMAIN Nil = {"absent"}
    BY DEF Nil
  <2> QED BY <2>1, <2>2, <2>3
<1>4. x = [z EXCEPT !.pending = e]
  BY DEF BeginCommit
<1> HIDE DEF x, z, e
<1>5. x \in LifecycleRecords
  BY <1>2, <1>3, <1>4 DEF LifecycleRecords
<1>6. /\ x.trusted = t /\ x.ev = r.ev /\ x.ack = r.ack /\ x.sched = r.sched /\ x.gen = r.gen
      /\ x.fence = r.fence /\ x.mode = r.mode /\ x.op = r.op /\ x.pending = e
      /\ x.holder = r.holder
  BY <1>2, <1>4 DEF LifecycleRecords
<1>7. SameWorld(x, F)
  <2>1. WorldOrPendingSuccessor(r, F)
    BY DEF Staged, Fits, RecoveryView
  <2> HIDE DEF F
  <2> QED BY <1>1, <1>6, <2>1 DEF WorldOrPendingSuccessor, SameWorld, PendingSuccessor, WorldFrontier
<1> HIDE DEF F
<1>8. RecoveryView(x, doc, c, F)
  <2>1. AssignmentIdentity(r, doc, c) /\ doc.assign[c].holder = r.holder
    BY DEF BeginCommitOk, LiveAuthority
  <2> QED BY <1>1, <1>6, <1>7, <2>1
          DEF RecoveryView, AssignmentIdentity, SameAssignment, WorldOrPendingSuccessor
<1>9. Sound(x)
  BY <1>1, <1>3, <1>5, <1>6 DEF Sound
<1>10. x.mode = "Background" /\ w.tail \notin LateTails /\ ~Behind(w, n)
  BY <1>1, <1>6 DEF Staged, Fits
<1> QED BY <1>8, <1>9, <1>10 DEF Staged, Fits, F, x

LEMMA AcknowledgeFits ==
  ASSUME NEW c \in Cells, NEW r, NEW doc \in LifecycleDocuments, NEW w \in Worlds, NEW n \in 0..Len(w.log),
         Staged(c, r, doc, w, n), ValidRecord(r), CaughtUp(w, n) \/ Behind(w, n),
         NEW t \in Nat, NEW f, f = KnownFrontier(c, w, n), NEW next \in Occurrences \cup {Nil},
         AcknowledgeOk(r, doc, c, t, f, next)
  PROVE  Staged(c, Acknowledge(r, t, f, next), doc, w, n)
<1> DEFINE x == Acknowledge(r, t, f, next)
           z == Successor(r, t)
           F == FrontierOf(c, RecoveredLog(w))
<1>1. /\ Sound(r) /\ r \in LifecycleRecords /\ PendingSuccessor(r, f)
      /\ r.op = Nil /\ r.mode = "Background"
  BY DEF Staged, Fits, Sound, AcknowledgeOk, LiveAuthority
<1>2. /\ z \in LifecycleRecords /\ z.trusted = t
      /\ z.gen = r.gen /\ z.fence = r.fence /\ z.mode = r.mode /\ z.op = r.op
      /\ z.holder = r.holder
  BY <1>1, SuccessorTypes
<1>3. ~Behind(w, n)
  <2>1. r.pending # Nil /\ r.pending.prior = r.ev /\ f.ev = r.ev + 1 /\ r.ev \in Nat
    BY <1>1 DEF PendingSuccessor, ValidRecord, LifecycleRecords
  <2>2. ~SameWorld(r, f)
    BY <2>1 DEF SameWorld, WorldFrontier, Frontier
  <2> QED BY <2>2 DEF Staged
<1>4. CaughtUp(w, n) /\ f = F /\ f \in Frontiers
  BY <1>3, KnowsAll
<1>5. x = [z EXCEPT !.pending = Nil, !.ack = f.ack, !.next = next, !.ev = f.ev, !.sched = f.sched]
  <2>1. x = InstallFrontier([z EXCEPT !.pending = Nil, !.ack = f.ack, !.next = next], f)
    BY DEF Acknowledge
  <2> HIDE DEF x, z
  <2> QED BY <1>2, <2>1 DEF InstallFrontier, LifecycleRecords
<1> HIDE DEF x, z, F
<1>6. f.ev \in Nat /\ f.ack \in Nat /\ f.sched \in Nat /\ f = Frontier(f.ev, f.ack, f.sched)
  BY <1>4 DEF Frontiers, Frontier
<1>7. x \in LifecycleRecords
  BY <1>2, <1>5, <1>6 DEF LifecycleRecords
<1>8. /\ x.ev = f.ev /\ x.ack = f.ack /\ x.sched = f.sched /\ x.gen = r.gen
      /\ x.fence = r.fence /\ x.mode = r.mode /\ x.op = r.op /\ x.pending = Nil
      /\ x.holder = r.holder
  BY <1>2, <1>5 DEF LifecycleRecords
<1>9. RecoveryView(x, doc, c, F)
  <2>1. AssignmentIdentity(r, doc, c) /\ doc.assign[c].holder = r.holder
    BY DEF AcknowledgeOk, LiveAuthority
  <2>2. SameWorld(x, F)
    BY <1>4, <1>6, <1>8 DEF SameWorld, WorldFrontier
  <2> QED BY <1>1, <1>8, <2>1, <2>2
          DEF RecoveryView, AssignmentIdentity, SameAssignment, WorldOrPendingSuccessor
<1>10. Sound(x) /\ x.mode = "Background" /\ w.tail \notin LateTails
  BY <1>1, <1>4, <1>7, <1>8 DEF Sound, CaughtUp
<1> QED BY <1>3, <1>9, <1>10 DEF Staged, Fits, F, x

-----------------------------------------------------------------------------
(* What can follow a record that is under way *)

\* Every record of a cell expects the event that its holder writes.
LEMMA AllExpect ==
  ASSUME NEW c, NEW r, NEW q, NEW doc, NEW w, NEW h, NEW e, Sound(r), ValidRecord(r),
         Fits(q, c, doc, w), PrepareOk(r, q, h, c),
         r.op = Nil, r.pending # Nil, SameWorld(r, FrontierOf(c, RecoveredLog(w))),
         PendingSuccessor(r, e)
  PROVE  PendingSuccessor(q, e)
<1> DEFINE F == FrontierOf(c, RecoveredLog(w))
           d == h[q.dirRev]
<1>1. r # Nil /\ r \in LifecycleRecords /\ q \in LifecycleRecords
  BY SoundTypes DEF Fits, Sound
<1>2. ExactSuccessor(r, q, h, c)
  BY <1>1 DEF PrepareOk
<1>3. CASE q.op # Nil
  <2>1. q = Request(r, d, c, q.op.kind, q.op.holder, q.trusted)
    BY <1>2, <1>3 DEF ExactSuccessor
  <2>2. \A k, x, t : Request(r, d, c, k, x, t).pending = r.pending
    BY <1>1 DEF Request, Successor, LifecycleRecords
  <2>3. q.pending = r.pending
    BY <2>1, <2>2
  <2> QED BY <2>3 DEF PendingSuccessor
<1>4. CASE q.op = Nil
  <2>1. q.pending = Nil /\ PendingSuccessor(r, WorldFrontier(q))
    BY <1>2, <1>4 DEF ExactSuccessor, AcknowledgeOk
  <2>2. WorldFrontier(q) = F
    BY <2>1 DEF Fits, RecoveryView, WorldOrPendingSuccessor, SameWorld, PendingSuccessor
  <2>3. r.ev \in Nat /\ r.pending.prior = r.ev /\ F = WorldFrontier(r)
    BY <1>1 DEF ValidRecord, LifecycleRecords, SameWorld
  <2>4. F.ev = r.ev /\ F.ev = r.ev + 1
    BY <2>1, <2>2, <2>3 DEF PendingSuccessor, WorldFrontier, Frontier
  <2> QED BY <2>3, <2>4
<1> QED BY <1>3, <1>4

\* No record after one whose operation the directory has still to make.
LEMMA NothingAfterDue ==
  ASSUME NEW c \in Cells, NEW r, NEW q, NEW doc \in LifecycleDocuments, NEW w, NEW h, Sound(r),
         Fits(q, c, doc, w), PrepareOk(r, q, h, c), r.op # Nil, Due(r.op, doc, c)
  PROVE  FALSE
<1> DEFINE d == h[q.dirRev]
           F == FrontierOf(c, RecoveredLog(w))
<1>1. r # Nil /\ r \in LifecycleRecords /\ q \in LifecycleRecords /\ r.op \in Operations
  BY SoundTypes DEF Fits, Sound
<1>2. ExactSuccessor(r, q, h, c) /\ RecoveryView(q, doc, c, F)
  BY <1>1 DEF PrepareOk, Fits
<1>3. r.op.gen \in Nat /\ q.op = Nil
  BY <1>1, <1>2 DEF Operations, ExactSuccessor
<1>4. CASE r.op.kind = "Release"
  <2>1. q = FinalizeSleeping(r, d, c, q.trusted, WorldFrontier(r))
    BY <1>2, <1>3, <1>4 DEF ExactSuccessor
  <2>2. \A t, f : FinalizeSleeping(r, d, c, t, f).mode = "Sleeping"
    BY <1>1 DEF FinalizeSleeping, InstallFrontier, Successor, LifecycleRecords
  <2>3. q.mode = "Sleeping"
    BY <2>1, <2>2
  <2>4. doc.assign[c].state = "Sleeping"
    BY <1>2, <1>3, <2>3 DEF RecoveryView
  <2> QED BY <1>4, <2>4 DEF Due, ReleaseOkV3
<1>5. CASE r.op.kind # "Release"
  <2>1. /\ q = FinalizeAssigned(r, d, c, q.trusted, WorldFrontier(r))
        /\ CellGen(d, c) = r.op.gen + 1
    BY <1>2, <1>3, <1>5 DEF ExactSuccessor, FinalizeAssignedOk
  <2>2. \A t, f : /\ FinalizeAssigned(r, d, c, t, f).mode = "Background"
                  /\ FinalizeAssigned(r, d, c, t, f).gen = CellGen(d, c)
    <3> TAKE t, f
    <3> DEFINE y == [Successor(r, t) EXCEPT
              !.mode = "Background", !.dirRev = d.rev, !.gen = CellGen(d, c),
              !.fence = Fence(d, c), !.holder = d.assign[c].holder,
              !.exp = t + Lease, !.op = Nil]
    <3>1. y.mode = "Background" /\ y.gen = CellGen(d, c) /\ {"mode", "gen"} \subseteq DOMAIN y
      BY <1>1 DEF Successor, LifecycleRecords
    <3>2. FinalizeAssigned(r, d, c, t, f) \in {y, [y EXCEPT !.ev = f.ev, !.sched = f.sched]}
      BY DEF FinalizeAssigned, InstallFrontier
    <3> HIDE DEF y
    <3>3. LET x == [y EXCEPT !.ev = f.ev, !.sched = f.sched] IN
            x.mode = "Background" /\ x.gen = CellGen(d, c)
      BY <3>1
    <3> QED BY <3>1, <3>2, <3>3
  <2>3. q.mode = "Background" /\ q.gen = r.op.gen + 1
    BY <2>1, <2>2
  <2>4. CellGen(doc, c) = r.op.gen + 1
    BY <1>2, <1>3, <2>3 DEF RecoveryView, AssignmentIdentity, SameAssignment
  <2> QED BY <1>3, <1>5, <2>4 DEF Due, TransitionOk
<1> QED BY <1>4, <1>5

-----------------------------------------------------------------------------
(* Steps of the open universe that write nothing *)

\* What the process believes of a cell whose assignment it knows.
LEMMA BeliefStaged ==
  ASSUME LifecycleInv, ReopenInv, Ready, NEW c \in Cells
  PROVE  LET r == mem.life[c]
             w == world[c]
             n == mem.events[c]
         IN /\ ValidRecord(r) /\ Sound(r) /\ Doc \in LifecycleDocuments
            /\ w \in Worlds /\ n \in 0..Len(w.log) /\ Len(w.log) \in Nat
            /\ CaughtUp(w, n) \/ Behind(w, n)
            /\ MemFrontier(c) = KnownFrontier(c, w, n)
            /\ Doc.assign[c] = Last(dir.log).assign[c] =>
                 Fits(r, c, Doc, w) /\ Staged(c, r, Doc, w, n)
            /\ Doc.assign[c] # Last(dir.log).assign[c] => r.op # Nil /\ OperationOk(r.op, c)
<1> DEFINE r == mem.life[c]
           w == world[c]
           n == mem.events[c]
<1>1. BeliefOk(c, r, life[c], wal, dir.log, Doc, w, n)
  BY DEF ReopenInv, BeliefInv
<1>2. w \in Worlds
  BY DEF ReopenInv, FilesInv, WorldOk
<1>3. Doc \in LifecycleDocuments
  BY DEF Doc, LifecycleInv, ReadyInv, DiskShape, DirShape
<1>4. /\ ValidRecord(r) /\ Fits(r, c, Last(dir.log), w) /\ Sound(r) /\ n \in 0..Len(w.log)
      /\ CaughtUp(w, n) \/ (Behind(w, n) /\ r.pending # Nil /\ SameWorld(r, KnownFrontier(c, w, n)))
  BY <1>1 DEF BeliefOk, Fits
<1>5. CaughtUp(w, n) => ~Behind(w, n)
  BY <1>2, <1>4, KnowsAll
<1>6. Len(w.log) \in Nat
  BY <1>2 DEF Worlds
<1>7. MemFrontier(c) = KnownFrontier(c, w, n)
  BY DEF MemFrontier, MemWorld, KnownFrontier
<1>8. Doc.assign[c] = Last(dir.log).assign[c] => Fits(r, c, Doc, w) /\ Staged(c, r, Doc, w, n)
  BY <1>4, <1>5, FitsAssignment DEF Staged
<1>9. Doc.assign[c] # Last(dir.log).assign[c] => r.op # Nil /\ OperationOk(r.op, c)
  BY <1>1 DEF BeliefOk, Due, OperationOk
<1> QED BY <1>2, <1>3, <1>4, <1>6, <1>7, <1>8, <1>9

LEMMA QuietReopens ==
  ASSUME ReopenInv, Ready, Ready', run.at \notin EventPlaces,
         UNCHANGED <<disk, mem>>, PreparedInv', ProducedInv'
  PROVE  ReopenInv'
<1> USE DEF ReopenInv, disk
<1>1. FilesInv' /\ DOMAIN mem'.events = Cells
  BY DEF FilesInv
<1>2. OpenInv'
  BY DEF OpenInv
<1>3. Doc' = Doc
  BY DEF Doc
<1>4. BeliefInv'
  BY <1>3 DEF BeliefInv, InEvent
<1> QED BY <1>1, <1>2, <1>4

\* The process goes on to a place that assumes nothing.
LEMMA MovingReopens ==
  ASSUME ReopenInv, Ready, Ready', run.at \notin EventPlaces,
         UNCHANGED <<disk, mem>>, run'.at \notin EventPlaces \cup AppendPlaces \cup {"dirline"}
  PROVE  ReopenInv'
BY QuietReopens DEF PreparedInv, ProducedInv, EventPlaces, AppendPlaces

\* The dispatch is refused.
LEMMA RefusingReopens ==
  ASSUME ReopenInv, Ready, run.at \notin EventPlaces,
         UNCHANGED <<disk, mem>>, run' = Idle
  PROVE  ReopenInv'
<1>1. Ready' /\ run'.at = "idle"
  BY DEF Ready, Idle, Down, OpenPlaces, None
<1> QED BY <1>1, MovingReopens DEF EventPlaces, AppendPlaces

\* GoTo within a dispatch.
LEMMA GoingReopens ==
  ASSUME LifecycleInv, ReopenInv, Busy, run.at \notin EventPlaces,
         UNCHANGED <<disk, mem>>, NEW label \in PlainPlaces \cup {"directory"}, GoTo(label)
  PROVE  ReopenInv'
<1>1. run'.at = label /\ run'.then = run.then /\ Ready
  BY DEF GoTo, LifecycleInv, RunShape, Busy
<1>2. Ready' /\ run'.at \notin EventPlaces \cup AppendPlaces \cup {"dirline"}
  BY <1>1 DEF Ready, PlainPlaces, OpenPlaces, EventPlaces, AppendPlaces
<1> QED BY <1>1, <1>2, MovingReopens

\* The beginning of an append, or its refusal.
LEMMA AppendingReopens ==
  ASSUME LifecycleInv, ReopenInv, Busy, run.at \notin EventPlaces,
         UNCHANGED <<disk, mem>>, NEW rec, NEW t, NEW then \in AppendThens,
         Appending(rec, t, then), Doc.assign[run.cell] = Last(dir.log).assign[run.cell],
         Staged(run.cell, rec, Doc, world[run.cell], mem.events[run.cell])
  PROVE  ReopenInv'
<1> DEFINE c == run.cell
<1>1. CASE run' = Idle
  BY <1>1, RefusingReopens DEF Busy
<1>2. CASE run' # Idle
  <2>1. /\ run' = [run EXCEPT !.at = "begin", !.t = t, !.rec = rec, !.then = then]
        /\ mem.wal.cells[c] = mem.life[c].rev /\ PrepareOk(mem.life[c], rec, Documents, c)
    BY <1>2 DEF Appending, AppendOk
  <2>2. run'.at = "begin" /\ run'.rec = rec /\ run'.then = then /\ run'.cell = c
    BY <2>1 DEF LifecycleInv, RunShape
  <2>3. Ready /\ Ready'
    BY <2>2 DEF Busy, Ready, AppendThens, OpenPlaces
  <2>4. dir.log \in Seq(LifecycleDocuments) /\ mem.docs \in 1..Len(dir.log)
    BY <2>3 DEF LifecycleInv, ReadyInv, DiskShape, DirShape
  <2>5. \A i \in DOMAIN Documents : i \in DOMAIN dir.log /\ dir.log[i] = Documents[i]
    BY <2>4 DEF Documents
  <2>6. PrepareOk(mem.life[c], rec, dir.log, c)
    BY <2>1, <2>5, HistoryGrows
  <2>7. Follows(c, rec, mem.life[c], dir.log, Doc, world[c], mem.events[c])
    BY <2>6 DEF Follows, Staged
  <2>8. Fits(rec, c, Last(dir.log), world[c])
    BY FitsAssignment DEF Staged
  <2>9. dir' = dir /\ life' = life /\ world' = world /\ mem' = mem /\ Doc' = Doc
    BY DEF disk, Doc
  <2>10. PreparedInv'
    BY <2>1, <2>2, <2>3, <2>7, <2>8, <2>9 DEF PreparedInv
  <2>11. ProducedInv'
    BY <2>2 DEF ProducedInv, EventPlaces
  <2> QED BY <2>3, <2>10, <2>11, QuietReopens
<1> QED BY <1>1, <1>2

-----------------------------------------------------------------------------
(* The production event of a dispatch *)

\* The records of a cell of the open universe: the one the process knows, and
\* at most one that follows it.
LEMMA RecordsFollow ==
  ASSUME LifecycleInv, ReopenInv, Ready, NEW c \in Cells, NEW q \in RecordsOf(c, life[c], wal)
  PROVE  /\ Fits(q, c, Last(dir.log), world[c])
         /\ q = mem.life[c] \/ PrepareOk(mem.life[c], q, dir.log, c)
<1> DEFINE r == mem.life[c]
<1>1. JournalOk(c, life[c], wal, dir.log, world[c]) /\ life[c].at # Nil
  BY DEF ReopenInv, FilesInv, LifecycleInv, ReadyInv
<1>2. /\ Fits(r, c, Last(dir.log), world[c])
      /\ life[c].at # r => Pends(c, wal) /\ life[c].at = wal.pending.rec /\ PrepareOk(r, life[c].at, dir.log, c)
  BY DEF ReopenInv, BeliefInv, BeliefOk
<1>3. CASE q = life[c].at
  BY <1>1, <1>2, <1>3 DEF JournalOk
<1>4. CASE q # life[c].at
  <2>1. Pends(c, wal) /\ q = wal.pending.rec
    BY <1>4 DEF RecordsOf
  <2>2. Fits(q, c, Last(dir.log), world[c]) /\ PrepareOk(life[c].at, q, dir.log, c)
    BY <1>1, <1>4, <2>1 DEF JournalOk
  <2> QED BY <1>2, <1>4, <2>1, <2>2
<1> QED BY <1>3, <1>4

\* The frontier of a world on schedule counts its events.
LEMMA ScheduleCounts ==
  ASSUME NEW c \in Cells, NEW log \in Seq(Events), OnSchedule(c, log)
  PROVE  LET f == FrontierOf(c, log) IN
         /\ f.ack = Genesis[c].ack + Len(log)
         /\ log # <<>> => f.sched = Last(log).at /\ f.ack > 0 /\ Len(log) \in DOMAIN log /\ Last(log) = log[Len(log)]
<1>1. Genesis[c].ack \in Nat
  BY LifecycleAssumption
<1>2. CASE log = <<>>
  BY <1>1, <1>2 DEF FrontierOf, Frontier
<1>3. CASE log # <<>>
  <2>1. Len(log) \in DOMAIN log /\ Len(log) > 0 /\ Last(log) = log[Len(log)]
    BY <1>3 DEF Last
  <2>2. Last(log).seq = Genesis[c].ack + Len(log)
    BY <2>1 DEF OnSchedule
  <2> QED BY <1>1, <1>3, <2>1, <2>2 DEF FrontierOf, Frontier
<1> QED BY <1>2, <1>3

LEMMA ScheduleExtends ==
  ASSUME NEW c \in Cells, NEW log \in Seq(Events), NEW e \in Events, OnSchedule(c, log),
         e.seq = FrontierOf(c, log).ack + 1, e.time >= e.at,
         log # <<>> => e.at = Last(log).at + Quantum /\ e.gen >= Last(log).gen
  PROVE  OnSchedule(c, Append(log, e))
<1> DEFINE x == Append(log, e)
<1>1. /\ Len(x) = Len(log) + 1 /\ Len(log) \in Nat /\ DOMAIN x = 1..Len(log) + 1
      /\ \A i \in 1..Len(log) : x[i] = log[i]
      /\ x[Len(log) + 1] = e
  OBVIOUS
<1>2. /\ FrontierOf(c, log).ack = Genesis[c].ack + Len(log) /\ Genesis[c].ack \in Nat
      /\ log # <<>> => Last(log) = log[Len(log)]
  BY ScheduleCounts, LifecycleAssumption
<1> HIDE DEF x
<1>3. SUFFICES ASSUME NEW i \in DOMAIN x
               PROVE  /\ x[i].seq = Genesis[c].ack + i
                      /\ x[i].time >= x[i].at
                      /\ i > 1 => x[i].at = x[i - 1].at + Quantum /\ x[i].gen >= x[i - 1].gen
  BY DEF OnSchedule, x
<1>4. CASE i \in 1..Len(log)
  <2>1. i \in DOMAIN log
    BY <1>4
  <2>2. x[i] = log[i] /\ (i > 1 => x[i - 1] = log[i - 1])
    BY <1>1, <1>4
  <2> QED BY <2>1, <2>2 DEF OnSchedule
<1>5. CASE i = Len(log) + 1
  <2>1. x[i] = e /\ (i > 1 => log # <<>> /\ i - 1 = Len(log) /\ x[i - 1] = log[Len(log)])
    BY <1>1, <1>5
  <2>2. e.seq = Genesis[c].ack + i
    <3>1. \A g, k \in Nat : (g + k) + 1 = g + (k + 1)
      OBVIOUS
    <3>2. e.seq = (Genesis[c].ack + Len(log)) + 1
      BY <1>2
    <3> QED BY <1>1, <1>2, <1>5, <3>1, <3>2
  <2>3. i > 1 => e.at = log[Len(log)].at + Quantum /\ e.gen >= log[Len(log)].gen
    BY <1>2, <2>1
  <2> QED BY <2>1, <2>2, <2>3
<1> QED BY <1>1, <1>3, <1>4, <1>5

\* The first write of an event, or its refusal.
LEMMA WriteReopens ==
  ASSUME LifecycleInv, ReopenInv, TimesInv, Busy, run.at \notin EventPlaces, UNCHANGED <<disk, mem>>,
         NEW then \in EventThens, Write(then)
  PROVE  ReopenInv'
<1> DEFINE c == run.cell
           r == mem.life[c]
           w == world[c]
           n == mem.events[c]
           f == MemFrontier(c)
           o == r.pending.occ
           e == [ev |-> f.ev + 1, seq |-> o.seq, at |-> o.at, time |-> now, gen |-> CellGen(Doc, c),
                 dirRev |-> Doc.rev]
<1>1. CASE run' = Idle
  BY <1>1, RefusingReopens DEF Busy
<1>2. CASE run' # Idle
  <2>1. /\ EventAppendAuthority(r, Doc, c, now, f) /\ WorldAccepts(c, o) /\ WorldStore(c) \notin mem.poison
        /\ run' = [run EXCEPT !.at = "evhead", !.t = now, !.then = then, !.rec = e]
    BY <1>2 DEF Write, Record
  <2>2. run'.at = "evhead" /\ run'.rec = e /\ run'.then = then /\ run'.cell = c
    BY <2>1 DEF LifecycleInv, RunShape
  <2>3. Ready /\ Ready' /\ c \in Cells
    BY <2>2 DEF Busy, Ready, EventThens, OpenPlaces, LifecycleInv, BusyInv
  <2>4. /\ ValidRecord(r) /\ Sound(r) /\ Doc \in LifecycleDocuments /\ w \in Worlds /\ n \in 0..Len(w.log)
        /\ f = KnownFrontier(c, w, n)
        /\ Doc.assign[c] # Last(dir.log).assign[c] => r.op # Nil
    BY <2>3, BeliefStaged
  <2>5. /\ AssignmentIdentity(r, Doc, c) /\ r.op = Nil /\ SameWorld(r, f) /\ r.pending # Nil
        /\ now >= r.trusted
    BY <2>1 DEF EventAppendAuthority, LiveAuthority, MonotonicTime
  <2>6. n = Len(w.log) /\ w.tail = "clean"
    BY <2>1, <2>3 DEF ReopenInv, BeliefInv, InEvent
  <2>7. /\ f = FrontierOf(c, w.log) /\ RecoveredLog(w) = w.log /\ w.log \in Seq(Events)
        /\ f \in Frontiers
    <3>1. CaughtUp(w, n)
      BY <2>6 DEF CaughtUp, LateTails
    <3>2. RecoveredLog(w) = w.log
      BY <2>6 DEF RecoveredLog
    <3> QED BY <2>3, <2>4, <3>1, <3>2, KnowsAll DEF Worlds
  <2>8. /\ r \in LifecycleRecords /\ r.pending.prior = r.ev /\ r.next = o /\ o \in Occurrences
        /\ o.at <= r.trusted
    BY <2>4, <2>5, SoundTypes DEF Sound, ValidRecord
  <2>9. /\ now \in Nat /\ f.ev \in Nat /\ o.seq \in Nat /\ o.at \in Nat /\ r.trusted \in Nat
        /\ CellGen(Doc, c) \in Nat /\ Doc.rev \in Nat
    <3>1. now \in Nat
      BY UniverseAssumption DEF TimesInv
    <3>2. f.ev \in Nat /\ o.seq \in Nat /\ o.at \in Nat /\ r.trusted \in Nat
      BY <2>7, <2>8 DEF Frontiers, Occurrences, LifecycleRecords
    <3> QED BY <2>3, <2>4, <3>1, <3>2, DocumentTypes
  <2>10. e \in Events
    BY <2>9 DEF Events
  <2>11. PendingSuccessor(r, EventFrontier(e))
    <3>1. f.ev = r.ev
      BY <2>5 DEF SameWorld, WorldFrontier, Frontier
    <3> QED BY <2>5, <2>8, <3>1 DEF PendingSuccessor, EventFrontier, Frontier
  <2>12. ASSUME NEW q \in {r} \cup RecordsOf(c, life[c], wal)
         PROVE  PendingSuccessor(q, EventFrontier(e))
    <3>1. CASE q = r
      BY <2>11, <3>1
    <3>2. CASE q # r
      <4>1. Fits(q, c, Last(dir.log), w) /\ PrepareOk(r, q, dir.log, c)
        BY <2>3, <3>2, RecordsFollow
      <4> HIDE DEF e
      <4> QED BY <2>4, <2>5, <2>7, <2>11, <4>1, AllExpect
    <3> QED BY <3>1, <3>2
  <2>13. /\ Last(dir.log).assign[c] = Doc.assign[c] /\ CellGen(Last(dir.log), c) = CellGen(Doc, c)
    BY <2>4, <2>5 DEF CellGen
  <2>14. Authentic(c, e, dir.log)
    <3>1. mem.docs \in DOMAIN dir.log /\ Doc = dir.log[mem.docs]
      BY <2>3 DEF Doc, LifecycleInv, ReadyInv, DiskShape, DirShape
    <3>2. Doc.rev = mem.docs
      BY <3>1 DEF ReopenInv, FilesInv, DirectoryOk
    <3> QED BY <2>5, <2>9, <2>13, <3>1, <3>2 DEF Authentic, AssignmentIdentity
  <2>15. OnSchedule(c, w.log) /\ \A i \in DOMAIN w.log : Authentic(c, w.log[i], dir.log)
    BY <2>3, <2>7 DEF ReopenInv, FilesInv, WorldOk
  <2>16. OnSchedule(c, Append(w.log, e))
    <3>1. e.seq = FrontierOf(c, w.log).ack + 1
      BY <2>1, <2>7 DEF WorldAccepts
    <3>2. e.time >= e.at
      BY <2>5, <2>8, <2>9
    <3>3. ASSUME w.log # <<>>
          PROVE  e.at = Last(w.log).at + Quantum /\ e.gen >= Last(w.log).gen
      <4>1. /\ f.sched = Last(w.log).at /\ f.ack > 0 /\ Len(w.log) \in DOMAIN w.log
            /\ Last(w.log) = w.log[Len(w.log)]
        BY <2>3, <2>7, <2>15, <3>3, ScheduleCounts
      <4>2. f = WorldFrontier(r) /\ r.next # Nil
        <5>1. r.next # Nil
          <6>1. DOMAIN o = {"seq", "at"} /\ DOMAIN Nil = {"absent"}
            BY <2>8 DEF Occurrences, Nil
          <6> QED BY <2>8, <6>1
        <5> QED BY <2>5, <5>1 DEF SameWorld
      <4>3. o.at = f.sched + Quantum
        BY <2>4, <2>8, <4>1, <4>2 DEF ValidRecord, ValidOccurrence
      <4>4. Last(w.log).gen <= CellGen(Doc, c) /\ Last(w.log).gen \in Nat
        <5>1. Authentic(c, Last(w.log), dir.log) /\ Last(w.log) \in Events
          BY <2>7, <2>15, <4>1
        <5> QED BY <2>13, <5>1 DEF Authentic, Events
      <4> QED BY <2>9, <4>1, <4>3, <4>4
    <3> HIDE DEF e
    <3> QED BY <2>3, <2>7, <2>10, <2>15, <3>1, <3>2, <3>3, ScheduleExtends
  <2>17. dir' = dir /\ life' = life /\ world' = world /\ mem' = mem /\ wal' = wal
    BY DEF disk
  <2> HIDE DEF e
  <2>18. ProducedInv'
    <3>1. /\ run'.at \in EventPlaces /\ run'.at = "evhead" /\ run'.rec = e /\ run'.cell = c
          /\ SameWorld(r, KnownFrontier(c, w, n))
      BY <2>2, <2>4, <2>5 DEF EventPlaces
    <3> QED BY <3>1, <2>5, <2>6, <2>10, <2>12, <2>14, <2>16, <2>17 DEF ProducedInv
  <2>19. PreparedInv'
    BY <2>2 DEF PreparedInv
  <2> QED BY <2>3, <2>18, <2>19, QuietReopens
<1> QED BY <1>1, <1>2

-----------------------------------------------------------------------------
(* The decisions of a dispatch *)

\* What every decision starts from.
LEMMA DispatchKnows ==
  ASSUME LifecycleInv, ReopenInv, TimesInv, Busy
  PROVE  LET c == run.cell
             w == world[c]
             n == mem.events[c]
         IN /\ Ready /\ c \in Cells /\ run.holder \in Holders /\ run.t \in Nat /\ now \in Nat
            /\ Record = mem.life[c] /\ ValidRecord(Record) /\ Sound(Record) /\ Record \in LifecycleRecords
            /\ Doc \in LifecycleDocuments
            /\ w \in Worlds /\ n \in 0..Len(w.log) /\ Len(w.log) \in Nat
            /\ CaughtUp(w, n) \/ Behind(w, n)
            /\ MemFrontier(c) = KnownFrontier(c, w, n) /\ MemFrontier(c) \in Frontiers
            /\ Doc.assign[c] = Last(dir.log).assign[c] => Staged(c, Record, Doc, w, n)
            /\ Record.op = Nil => Doc.assign[c] = Last(dir.log).assign[c]
            /\ Doc.assign[c] # Last(dir.log).assign[c] => OperationOk(Record.op, c)
<1>1. Ready /\ run.cell \in Cells /\ run.holder \in Holders
  BY DEF LifecycleInv, BusyInv, Busy
<1>2. run.t \in Nat /\ now \in Nat
  BY UniverseAssumption DEF TimesInv
<1> QED BY <1>1, <1>2, BeliefStaged, KnowsAll DEF Record, Sound

LEMMA AskReopens ==
  ASSUME LifecycleInv, ReopenInv, TimesInv, Busy, run.at \notin EventPlaces, UNCHANGED <<disk, mem>>,
         NEW kind \in Kinds, NEW t \in Nat, Ask(kind, t),
         kind = "Release" => ~Runnable(run.cell)
  PROVE  ReopenInv'
<1> DEFINE c == run.cell
           rec == Request(Record, Doc, c, kind, run.holder, t)
<1>1. CASE run' = Idle
  BY <1>1, RefusingReopens DEF Busy
<1>2. CASE run' # Idle
  <2>1. /\ RequestOk(Record, Doc, c, kind, run.holder, t, MemFrontier(c))
        /\ Appending(rec, t, "directory")
    BY <1>2 DEF Ask, Refuse
  <2>2. Record.op = Nil
    BY <2>1 DEF RequestOk
  <2>3. kind = "Release" => Len(world[c].log) >= Work[c]
    <3>1. Work[c] \in Nat /\ mem.events[c] \in 0..Len(world[c].log) /\ Len(world[c].log) \in Nat
      BY DispatchKnows, UniverseAssumption
    <3> QED BY <3>1 DEF Runnable
  <2>4. Staged(c, rec, Doc, world[c], mem.events[c])
    <3> HIDE DEF Staged
    <3> QED BY <2>1, <2>2, <2>3, DispatchKnows, RequestFits
  <2> HIDE DEF rec
  <2> QED BY <2>1, <2>2, <2>4, DispatchKnows, AppendingReopens DEF AppendThens
<1> QED BY <1>1, <1>2

LEMMA AcquireReopens ==
  ASSUME LifecycleInv, ReopenInv, TimesInv, Acquire
  PROVE  ReopenInv'
<1> DEFINE c == run.cell
           rec == Renew(Record, Doc, c, run.t, MemFrontier(c), Record.next)
<1>1. Busy /\ run.at \notin EventPlaces /\ UNCHANGED <<disk, mem>>
  BY DEF Acquire, Unwritten, Busy, Ready, OpenPlaces, EventPlaces, LifecycleInv, OpeningInv, AppendPlaces
<1>2. CASE GoTo("directory") \/ GoTo("resume")
  BY <1>1, <1>2, GoingReopens DEF PlainPlaces
<1>3. CASE Ask("Claim", run.t) \/ Ask("Recovery", run.t)
  BY <1>1, <1>3, AskReopens, DispatchKnows DEF Kinds
<1>4. CASE Refuse
  BY <1>1, <1>4, RefusingReopens DEF Refuse, Busy
<1>5. CASE /\ RenewOk(Record, Doc, c, run.t, MemFrontier(c), Record.next)
           /\ Appending(rec, run.t, "resume")
  <2>1. Record.op = Nil /\ Record.next \in Occurrences \cup {Nil}
    BY <1>1, <1>5, DispatchKnows DEF RenewOk, LiveAuthority, LifecycleRecords
  <2>2. Staged(c, rec, Doc, world[c], mem.events[c])
    BY <1>1, <1>5, <2>1, DispatchKnows, RenewFits
  <2> HIDE DEF rec
  <2> QED BY <1>1, <1>5, <2>1, <2>2, DispatchKnows, AppendingReopens DEF AppendThens
<1> QED BY <1>2, <1>3, <1>4, <1>5 DEF Acquire

LEMMA DirectoryOperationReopens ==
  ASSUME LifecycleInv, ReopenInv, TimesInv, DirectoryOperation
  PROVE  ReopenInv'
<1>1. Busy /\ run.at \notin EventPlaces /\ UNCHANGED <<disk, mem>> /\ RunShape
  BY DEF DirectoryOperation, Unwritten, Busy, Ready, OpenPlaces, EventPlaces, LifecycleInv, OpeningInv,
         AppendPlaces
<1>2. CASE GoTo("finalize")
  BY <1>1, <1>2, GoingReopens DEF PlainPlaces
<1>3. CASE Refuse
  BY <1>1, <1>3, RefusingReopens DEF Refuse, Busy
<1>4. ASSUME NEW x, run' = [run EXCEPT !.at = "dirline", !.rec = Finish(x)], Sealed(Doc, x)
      PROVE  ReopenInv'
  <2>1. run'.at = "dirline" /\ run'.then = run.then /\ run'.rec = Finish(x)
    BY <1>1, <1>4 DEF RunShape
  <2>2. Ready /\ Ready' /\ run'.at \notin EventPlaces \cup AppendPlaces
    BY <1>1, <2>1 DEF Busy, Ready, OpenPlaces, EventPlaces, AppendPlaces
  <2>3. PreparedInv'
    BY <1>4, <2>1, <2>2 DEF PreparedInv, AppendPlaces, Sealed
  <2>4. ProducedInv'
    BY <2>2 DEF ProducedInv
  <2> QED BY <1>1, <2>2, <2>3, <2>4, QuietReopens
<1> QED BY <1>2, <1>3, <1>4 DEF DirectoryOperation

LEMMA FinalizeReopens ==
  ASSUME LifecycleInv, ReopenInv, TimesInv, Finalize
  PROVE  ReopenInv'
<1> DEFINE c == run.cell
           f == MemFrontier(c)
           then == IF Record.op.holder = run.holder THEN "resume" ELSE "acquire"
           p == FinalizeSleeping(Record, Doc, c, run.t, f)
           q == FinalizeAssigned(Record, Doc, c, run.t, f)
<1>1. Busy /\ run.at \notin EventPlaces /\ UNCHANGED <<disk, mem>> /\ then \in AppendThens
  BY DEF Finalize, Unwritten, Busy, Ready, OpenPlaces, EventPlaces, LifecycleInv, OpeningInv, AppendPlaces,
         AppendThens
<1>2. CASE Refuse
  BY <1>1, <1>2, RefusingReopens DEF Refuse, Busy
<1>3. CASE FinalizeSleepingOk(Record, Doc, c, run.t, f) /\ Appending(p, run.t, then)
  <2>1. Record.op.kind = "Release" /\ Doc.assign[c].state = "Sleeping"
    BY <1>3 DEF FinalizeSleepingOk
  <2>2. ~OperationOk(Record.op, c)
    BY <2>1 DEF OperationOk, ReleaseOkV3
  <2>3. Staged(c, p, Doc, world[c], mem.events[c])
    BY <1>1, <1>3, <2>2, DispatchKnows, FinalizeSleepingFits
  <2> HIDE DEF p, then
  <2> QED BY <1>1, <1>3, <2>2, <2>3, DispatchKnows, AppendingReopens
<1>4. CASE FinalizeAssignedOk(Record, Doc, c, run.t, f) /\ Appending(q, run.t, then)
  <2>1. Record.op # Nil /\ Record.op.kind # "Release" /\ CellGen(Doc, c) = Record.op.gen + 1
    BY <1>4 DEF FinalizeAssignedOk
  <2>2. Record.op.gen \in Nat
    BY <1>1, <2>1, DispatchKnows, SoundTypes DEF Operations
  <2>3. ~OperationOk(Record.op, c)
    BY <2>1, <2>2 DEF OperationOk, TransitionOk
  <2>4. Staged(c, q, Doc, world[c], mem.events[c])
    BY <1>1, <1>4, <2>3, DispatchKnows, FinalizeAssignedFits
  <2> HIDE DEF q, then
  <2> QED BY <1>1, <1>4, <2>3, <2>4, DispatchKnows, AppendingReopens
<1> QED BY <1>2, <1>3, <1>4 DEF Finalize

LEMMA ProductionReopens ==
  ASSUME LifecycleInv, ReopenInv, TimesInv,
         Resume \/ ReconcilePending \/ AcknowledgePending \/ Arm \/ BeginDue \/ FreshAuthority \/ BudgetSpent
  PROVE  ReopenInv'
<1> DEFINE c == run.cell
           f == MemFrontier(c)
<1>1. Busy /\ run.at \notin EventPlaces /\ UNCHANGED <<disk, mem>> /\ RunShape
  <2>1. run.at \in PlainPlaces /\ UNCHANGED <<disk, mem>>
    BY DEF Resume, ReconcilePending, AcknowledgePending, Arm, BeginDue, FreshAuthority, BudgetSpent,
           PlainPlaces, Unwritten
  <2> QED BY <2>1 DEF Busy, Ready, OpenPlaces, EventPlaces, LifecycleInv, OpeningInv, AppendPlaces, PlainPlaces
<1> HIDE DEF c, f
<1>2. ASSUME NEW label \in PlainPlaces, GoTo(label)
      PROVE  ReopenInv'
  BY <1>1, <1>2, GoingReopens
<1>3. CASE Refuse
  BY <1>1, <1>3, RefusingReopens DEF Refuse, Busy
<1>4. ASSUME NEW then \in EventThens, Write(then)
      PROVE  ReopenInv'
  BY <1>1, <1>4, WriteReopens
<1>5. CASE Resume \/ ReconcilePending \/ FreshAuthority \/ BudgetSpent
  BY <1>2, <1>3, <1>4, <1>5 DEF Resume, ReconcilePending, FreshAuthority, BudgetSpent, PlainPlaces, EventThens
<1>6. CASE AcknowledgePending
  <2> DEFINE next == IF Runnable(c) THEN Occurrence(f, Record.pending.occ.at + Quantum) ELSE Nil
             rec == Acknowledge(Record, now, f, next)
  <2>1. CASE AcknowledgeOk(Record, Doc, c, now, f, next) /\ Appending(rec, now, "arm")
    <3>1. Record.op = Nil /\ Record.pending # Nil
      BY <2>1 DEF AcknowledgeOk, LiveAuthority, PendingSuccessor
    <3>2. next \in Occurrences \cup {Nil}
      <4>1. Record.pending.occ.at \in Nat /\ f.ack \in Nat /\ Quantum \in Nat
        BY <1>1, <3>1, DispatchKnows, SoundTypes, LifecycleAssumption DEF Occurrences, Frontiers, c, f
      <4>2. Record.pending.occ.at + Quantum \in Nat /\ f.ack + 1 \in Nat
        BY <4>1
      <4> QED BY <4>2 DEF Occurrence, Occurrences
    <3> HIDE DEF next
    <3>3. Staged(c, rec, Doc, world[c], mem.events[c])
      BY <1>1, <2>1, <3>1, <3>2, DispatchKnows, AcknowledgeFits DEF c, f
    <3> HIDE DEF rec
    <3> QED BY <1>1, <2>1, <3>1, <3>3, DispatchKnows, AppendingReopens DEF c, AppendThens
  <2> QED BY <1>3, <1>6, <2>1 DEF AcknowledgePending, c, f
<1>7. CASE Arm
  <2> DEFINE o == Occurrence(f, now + Quantum)
             rec == Renew(Record, Doc, c, now, f, o)
  <2>1. CASE run' = [run EXCEPT !.at = "due", !.t = now]
    <3>1. run'.at = "due" /\ run'.then = run.then
      BY <1>1, <2>1 DEF RunShape
    <3>2. Ready /\ Ready' /\ run'.at \notin EventPlaces \cup AppendPlaces \cup {"dirline"}
      BY <1>1, <3>1 DEF Busy, Ready, OpenPlaces, EventPlaces, AppendPlaces
    <3> QED BY <1>1, <3>2, MovingReopens
  <2>2. CASE ~Runnable(c) /\ Ask("Release", now)
    BY <1>1, <2>2, AskReopens, DispatchKnows DEF Kinds, c
  <2>3. CASE RenewOk(Record, Doc, c, now, f, o) /\ Appending(rec, now, "due")
    <3>1. Record.op = Nil
      BY <2>3 DEF RenewOk, LiveAuthority
    <3>2. o \in Occurrences \cup {Nil}
      <4>1. now + Quantum \in Nat /\ f.ack + 1 \in Nat
        BY <1>1, DispatchKnows, LifecycleAssumption DEF Frontiers, c, f
      <4> QED BY <4>1 DEF Occurrence, Occurrences
    <3> HIDE DEF o
    <3>3. Staged(c, rec, Doc, world[c], mem.events[c])
      BY <1>1, <2>3, <3>1, <3>2, DispatchKnows, RenewFits DEF c, f
    <3> HIDE DEF rec
    <3> QED BY <1>1, <2>3, <3>1, <3>3, DispatchKnows, AppendingReopens DEF c, AppendThens
  <2> QED BY <1>3, <1>7, <2>1, <2>2, <2>3 DEF Arm, c, f
<1>8. CASE BeginDue
  <2> DEFINE rec == BeginCommit(Record, run.t, f)
  <2>1. CASE BeginCommitOk(Record, Doc, c, run.t, f) /\ Appending(rec, run.t, "fresh")
    <3>1. Record.op = Nil
      BY <2>1 DEF BeginCommitOk, LiveAuthority
    <3>2. Staged(c, rec, Doc, world[c], mem.events[c])
      BY <1>1, <2>1, <3>1, DispatchKnows, BeginCommitFits DEF c, f
    <3> HIDE DEF rec
    <3> QED BY <1>1, <2>1, <3>1, <3>2, DispatchKnows, AppendingReopens DEF c, AppendThens
  <2> QED BY <1>3, <1>8, <2>1 DEF BeginDue, c, f
<1> QED BY <1>5, <1>6, <1>7, <1>8

LEMMA DispatchReopens ==
  ASSUME LifecycleInv, ReopenInv, NEW c \in Cells, NEW h \in Holders, Dispatch(c, h)
  PROVE  ReopenInv'
<1>1. Ready /\ run.at \notin EventPlaces /\ UNCHANGED <<disk, mem>>
  BY DEF Dispatch, Unwritten, Ready, OpenPlaces, EventPlaces, LifecycleInv, OpeningInv, AppendPlaces
<1>2. run'.at = "acquire" /\ run'.then = None
  BY DEF Dispatch
<1>3. Ready' /\ run'.at \notin EventPlaces \cup AppendPlaces \cup {"dirline"}
  BY <1>2 DEF Ready, OpenPlaces, EventPlaces, AppendPlaces, None
<1> QED BY <1>1, <1>3, MovingReopens

-----------------------------------------------------------------------------
(* Stops and failed writes *)

\* The process is gone; only the files count.
LEMMA StoppedReopens ==
  ASSUME FilesInv', run' = Down, mem' = NoMem
  PROVE  ReopenInv'
<1>1. run'.at = "down" /\ DOMAIN mem'.events = Cells /\ ~Ready'
  BY DEF Down, NoMem, Ready
<1> QED BY <1>1 DEF ReopenInv, BeliefInv, OpenInv, PreparedInv, ProducedInv, AppendPlaces, EventPlaces

LEMMA CrashReopens ==
  ASSUME ReopenInv, Crash \/ Close
  PROVE  ReopenInv'
<1>1. run' = Down /\ mem' = NoMem /\ UNCHANGED disk
  BY DEF Crash, Close
<1>2. FilesInv'
  BY <1>1 DEF ReopenInv, FilesInv, disk
<1> QED BY <1>1, <1>2, StoppedReopens

\* What a failed write leaves of the process.
LEMMA FailureLeaves ==
  ASSUME LifecycleInv, run.at # "down", NEW store, Fails(store)
  PROVE  /\ ~Ready => run' = Down /\ mem' = NoMem
         /\ Ready => /\ run' = Idle /\ mem' = [mem EXCEPT !.poison = @ \cup {store}]
                     /\ mem'.docs = mem.docs /\ mem'.wal = mem.wal /\ mem'.life = mem.life
                     /\ mem'.events = mem.events /\ mem'.poison = mem.poison \cup {store}
<1>1. Opening <=> ~Ready
  BY DEF Opening, Ready, OpenPlaces
<1> QED BY <1>1 DEF Fails, LifecycleInv, MemShape

\* A dispatch that is over: the files hold, and so do the beliefs.
LEMMA FailedReopens ==
  ASSUME FilesInv', run' = Idle, BeliefInv', mem'.events = mem.events, DOMAIN mem.events = Cells
  PROVE  ReopenInv'
<1>1. run'.at = "idle" /\ run'.then = None
  BY DEF Idle, Down
<1>2. Ready'
  BY <1>1 DEF Ready, OpenPlaces, None
<1> QED BY <1>1, <1>2 DEF ReopenInv, OpenInv, PreparedInv, ProducedInv, AppendPlaces, EventPlaces

-----------------------------------------------------------------------------
(* The append of a record: write-ahead head, line, head, write-ahead head *)

\* What the process believes of the cells while a record is appended.
LEMMA AppendKnows ==
  ASSUME LifecycleInv, ReopenInv, run.at \in AppendPlaces
  PROVE  /\ run.cell \in Cells /\ wal # Nil /\ DOMAIN life = Cells
         /\ wal = [cells |-> wal.cells, pending |-> wal.pending] /\ DOMAIN wal.cells = Cells
         /\ \A d \in Cells : JournalOk(d, life[d], wal, dir.log, world[d])
         /\ \A d \in Cells : DOMAIN life[d] = {"files", "at", "tail"}
         /\ Ready => mem.wal # Nil /\ life[run.cell].files = "pair"
<1>1. wal # Nil /\ (Ready => mem.wal # Nil /\ life[run.cell].at # Nil)
  BY DEF LifecycleInv, OpeningInv, ReadyInv, AppendInv
<1>2. run.cell \in Cells
  BY DEF LifecycleInv, AppendInv
<1>3. LifeShape /\ WalShape
  BY DEF LifecycleInv, DiskShape
<1> QED BY <1>1, <1>2, <1>3 DEF ReopenInv, FilesInv, LifeShape, WalShape

LEMMA BeginAppendReopens ==
  ASSUME LifecycleInv, ReopenInv, BeginAppend
  PROVE  ReopenInv'
<1> DEFINE c == run.cell
           p == [cell |-> c, prior |-> mem.wal.cells[c], rec |-> run.rec]
           u == [wal EXCEPT !.pending = p]
<1>1. /\ run.at = "begin" /\ run.at \in AppendPlaces /\ UNCHANGED <<dir, life, world>>
      /\ run.at \notin EventPlaces
  BY DEF BeginAppend, AppendPlaces, EventPlaces
<1>2. CASE ~PersistOk
  <2>1. Ready
    BY <1>1, <1>2 DEF LifecycleInv, OpeningInv, PersistOk
  <2> QED BY <1>1, <1>2, <2>1, RefusingReopens DEF BeginAppend, Refuse, disk
<1>3. CASE PersistOk
  <2>1. /\ mem.wal = wal /\ wal.pending = Nil /\ WalStore \notin mem.poison /\ BeginHead = u
        /\ IsRecord(run.rec) /\ run.then \in AppendThens \cup {"reconcile"}
    BY <1>1, <1>3 DEF PersistOk, LifecycleInv, AppendInv, BeginHead
  <2>2. /\ c \in Cells /\ wal # Nil /\ DOMAIN wal.cells = Cells
        /\ wal = [cells |-> wal.cells, pending |-> wal.pending]
        /\ \A d \in Cells : JournalOk(d, life[d], wal, dir.log, world[d])
    BY <1>1, AppendKnows
  <2>3. u = [cells |-> wal.cells, pending |-> p] /\ u.cells = wal.cells /\ u.pending = p /\ u # Nil
    <3>1. u = [cells |-> wal.cells, pending |-> p]
      BY <2>2
    <3>2. DOMAIN u = {"cells", "pending"} /\ DOMAIN Nil = {"absent"}
      BY <3>1 DEF Nil
    <3> QED BY <3>1, <3>2
  <2>4. p # Nil /\ p.cell = c /\ p.prior = wal.cells[c] /\ p.rec = run.rec
    <3>1. DOMAIN p = {"cell", "prior", "rec"} /\ DOMAIN Nil = {"absent"}
      BY DEF Nil
    <3> QED BY <2>1, <3>1
  <2> HIDE DEF p, u
  <2>5. \A d \in Cells : ~Pends(d, wal) /\ (Pends(d, u) <=> d = c)
    BY <2>1, <2>3, <2>4 DEF Pends
  <2>6. Fits(run.rec, c, Last(dir.log), world[c])
    BY <1>1 DEF ReopenInv, PreparedInv
  <2>7. \/ life[c].at # Nil /\ life[c].at.rev = p.prior /\ PrepareOk(life[c].at, p.rec, dir.log, c)
        \/ life[c].at = Nil /\ p.prior = 0 /\ p.rec = InitialRecord(c, dir.log[1])
    <3>1. CASE Ready
      <4>1. /\ Follows(c, run.rec, mem.life[c], dir.log, Doc, world[c], mem.events[c])
            /\ life[c].at = mem.life[c] /\ life[c].at # Nil /\ life[c].files = "pair"
        BY <1>1, <2>2, <2>5, <3>1, AppendKnows
        DEF ReopenInv, PreparedInv, BeliefInv, BeliefOk, LifecycleInv, ReadyInv
      <4>2. life[c].at.rev = wal.cells[c]
        BY <2>2, <2>5, <4>1 DEF JournalOk
      <4> QED BY <2>4, <4>1, <4>2 DEF Follows
    <3>2. CASE ~Ready
      BY <1>1, <2>4, <3>2 DEF ReopenInv, PreparedInv
    <3> QED BY <3>1, <3>2
  <2>8. \A d \in Cells : JournalOk(d, life[d], u, dir.log, world[d])
    <3> TAKE d \in Cells
    <3>1. JournalOk(d, life[d], wal, dir.log, world[d]) /\ ~Pends(d, wal)
      BY <2>2, <2>5
    <3>2. CASE d = c
      BY <2>2, <2>3, <2>4, <2>5, <2>6, <2>7, <3>1, <3>2 DEF JournalOk
    <3>3. CASE d # c
      BY <2>2, <2>3, <2>5, <3>1, <3>3 DEF JournalOk
    <3> QED BY <3>2, <3>3
  <2>9. FilesInv'
    <3>1. wal' \in {wal, u}
      BY <1>3, <2>1 DEF BeginAppend
    <3>2. \A d \in Cells : JournalOk(d, life[d], wal', dir.log, world[d])
      BY <2>2, <2>8, <3>1
    <3> QED BY <1>1, <3>2 DEF ReopenInv, FilesInv
  <2>10. ASSUME Ready, NEW v
         PROVE  \A d \in Cells : BeliefOk(d, mem.life[d], life[d], v, dir.log, Doc, world[d], mem.events[d])
    BY <2>5, <2>10 DEF ReopenInv, BeliefInv, BeliefOk
  <2>11. CASE Fails(WalStore)
    <3>1. CASE ~Ready
      BY <1>1, <2>9, <2>11, <3>1, FailureLeaves, StoppedReopens
    <3>2. CASE Ready
      <4>1. /\ run' = Idle /\ mem'.docs = mem.docs /\ mem'.life = mem.life
            /\ mem'.events = mem.events /\ mem'.poison = mem.poison \cup {WalStore}
        BY <1>1, <2>11, <3>2, FailureLeaves
      <4>2. Doc' = Doc
        BY <1>1, <4>1 DEF Doc
      <4>3. BeliefInv'
        BY <1>1, <2>10, <3>2, <4>1, <4>2 DEF BeliefInv, ReopenInv, InEvent
      <4> QED BY <2>9, <4>1, <4>3, FailedReopens DEF ReopenInv
    <3> QED BY <3>1, <3>2
  <2>12. CASE /\ wal' = BeginHead /\ mem' = [mem EXCEPT !.wal = BeginHead]
              /\ GoTo(IF life[c].files = "pair" THEN "line" ELSE "reconcile")
    <3>1. /\ mem'.docs = mem.docs /\ mem'.life = mem.life
          /\ mem'.events = mem.events /\ mem'.poison = mem.poison
      BY <2>12 DEF LifecycleInv, MemShape
    <3>2. /\ run'.at = IF life[c].files = "pair" THEN "line" ELSE "reconcile"
          /\ run'.then = run.then /\ run'.cell = c /\ run'.rec = run.rec
      BY <2>12 DEF GoTo, LifecycleInv, RunShape
    <3>3. Doc' = Doc
      BY <1>1, <3>1 DEF Doc
    <3>4. CASE Ready
      <4>1. life[c].files = "pair" /\ life[c].at = mem.life[c]
        BY <1>1, <2>2, <2>5, <3>4, AppendKnows DEF ReopenInv, BeliefInv, BeliefOk
      <4>2. run'.at = "line" /\ Ready' /\ run'.at \notin EventPlaces /\ run'.at \in AppendPlaces
        BY <3>2, <3>4, <4>1 DEF Ready, OpenPlaces, EventPlaces, AppendPlaces
      <4>3. BeliefInv'
        BY <1>1, <2>10, <3>1, <3>3, <3>4, <4>2 DEF BeliefInv, ReopenInv, InEvent
      <4>4. Follows(c, run.rec, mem.life[c], dir.log, Doc, world[c], mem.events[c])
        BY <1>1, <3>4 DEF ReopenInv, PreparedInv
      <4>5. PreparedInv'
        <5>1. PrepareOk(life[c].at, run.rec, dir.log, c)
          BY <4>1, <4>4 DEF Follows
        <5> QED BY <1>1, <2>6, <3>1, <3>2, <3>3, <4>1, <4>2, <4>4, <5>1 DEF PreparedInv
      <4> QED BY <2>9, <3>1, <4>2, <4>3, <4>5 DEF ReopenInv, OpenInv, ProducedInv
    <3>5. CASE ~Ready
      <4>1. wal.cells[c] = 0
        BY <1>1, <3>5 DEF ReopenInv, PreparedInv
      <4>2. life[c].files = "absent"
        BY <2>2, <2>5, <4>1 DEF JournalOk
      <4>3. run'.at = "reconcile" /\ ~Ready'
        BY <3>2, <4>2 DEF Ready, OpenPlaces
      <4>4. OpenInv'
        BY <1>1, <3>1, <3>5, <4>3 DEF ReopenInv, OpenInv
      <4> QED BY <2>9, <3>1, <4>3, <4>4
              DEF ReopenInv, BeliefInv, PreparedInv, ProducedInv, EventPlaces
    <3> QED BY <3>4, <3>5
  <2> QED BY <1>3, <2>11, <2>12 DEF BeginAppend
<1> QED BY <1>2, <1>3

\* A journal with another tail.
LEMMA TailReopens ==
  ASSUME LifecycleInv, ReopenInv, NEW c \in Cells, NEW x, Pends(c, wal), wal # Nil,
         x \notin {Nil, TornLine} => x = wal.pending.rec /\ PrepareOk(life[c].at, x, dir.log, c)
  PROVE  LET k == [life EXCEPT ![c].tail = x] IN
         /\ \A d \in Cells : k[d].at = life[d].at /\ k[d].files = life[d].files
         /\ \A d \in Cells : JournalOk(d, k[d], wal, dir.log, world[d])
         /\ k[c].tail = x
<1> DEFINE k == [life EXCEPT ![c].tail = x]
<1>1. DOMAIN life = Cells /\ \A d \in Cells : DOMAIN life[d] = {"files", "at", "tail"}
  BY DEF LifecycleInv, DiskShape, LifeShape
<1>2. /\ \A d \in Cells : k[d].at = life[d].at /\ k[d].files = life[d].files
      /\ \A d \in Cells : d # c => k[d] = life[d]
      /\ k[c].tail = x
  BY <1>1
<1> HIDE DEF k
<1>3. ASSUME NEW d \in Cells
      PROVE  JournalOk(d, k[d], wal, dir.log, world[d])
  <2>1. JournalOk(d, life[d], wal, dir.log, world[d])
    BY DEF ReopenInv, FilesInv
  <2>2. CASE d # c
    BY <1>2, <2>1, <2>2
  <2>3. CASE d = c
    BY <1>2, <2>1, <2>3 DEF JournalOk
  <2> QED BY <2>2, <2>3
<1> QED BY <1>2, <1>3 DEF k

LEMMA MaterializeLineReopens ==
  ASSUME LifecycleInv, ReopenInv, MaterializeLine
  PROVE  ReopenInv'
<1> DEFINE c == run.cell
           k(x) == [life EXCEPT ![c].tail = x]
<1>1. /\ run.at = "line" /\ run.at \in AppendPlaces /\ UNCHANGED <<dir, wal, world>>
      /\ run.at \notin EventPlaces
  BY DEF MaterializeLine, AppendPlaces, EventPlaces
<1>2. /\ c \in Cells /\ Pends(c, wal) /\ wal # Nil /\ wal.pending.rec = run.rec
      /\ IsRecord(run.rec) /\ run.then \in AppendThens \cup {"reconcile"}
  BY <1>1 DEF LifecycleInv, AppendInv, Pends
<1>3. run.rec # Nil /\ run.rec # TornLine /\ PrepareOk(life[c].at, run.rec, dir.log, c)
  BY <1>1, <1>2, RecordsPresent DEF ReopenInv, PreparedInv
<1>4. \A x \in {Nil, TornLine, run.rec} :
        /\ \A d \in Cells : k(x)[d].at = life[d].at /\ k(x)[d].files = life[d].files
        /\ \A d \in Cells : JournalOk(d, k(x)[d], wal, dir.log, world[d])
        /\ k(x)[c].tail = x
  BY <1>2, <1>3, TailReopens
<1>5. \E x \in {Nil, TornLine, run.rec} : life' = k(x)
  BY DEF MaterializeLine
<1> HIDE DEF k
<1>6. /\ \A d \in Cells : life'[d].at = life[d].at /\ life'[d].files = life[d].files
      /\ \A d \in Cells : JournalOk(d, life'[d], wal, dir.log, world[d])
  BY <1>4, <1>5
<1>7. FilesInv'
  BY <1>1, <1>6 DEF ReopenInv, FilesInv
<1>8. ASSUME Ready
      PROVE  \A d \in Cells : BeliefOk(d, mem.life[d], life'[d], wal, dir.log, Doc, world[d], mem.events[d])
  BY <1>6, <1>8 DEF ReopenInv, BeliefInv, BeliefOk
<1>9. CASE Fails(LifeStore(c))
  <2>1. CASE ~Ready
    BY <1>1, <1>7, <1>9, <2>1, FailureLeaves, StoppedReopens
  <2>2. CASE Ready
    <3>1. /\ run' = Idle /\ mem'.docs = mem.docs /\ mem'.life = mem.life
          /\ mem'.events = mem.events /\ mem'.poison = mem.poison \cup {LifeStore(c)}
      BY <1>1, <1>9, <2>2, FailureLeaves
    <3>2. Doc' = Doc
      BY <1>1, <3>1 DEF Doc
    <3>3. BeliefInv'
      BY <1>1, <1>8, <2>2, <3>1, <3>2 DEF BeliefInv, ReopenInv, InEvent
    <3> QED BY <1>7, <3>1, <3>3, FailedReopens DEF ReopenInv
  <2> QED BY <2>1, <2>2
<1>10. CASE life' = k(run.rec) /\ GoTo("head") /\ UNCHANGED mem
  <2>1. run'.at = "head" /\ run'.then = run.then /\ run'.cell = c /\ run'.rec = run.rec
    BY <1>10 DEF GoTo, LifecycleInv, RunShape
  <2>2. life'[c].tail = run.rec /\ Doc' = Doc
    BY <1>1, <1>4, <1>10 DEF Doc
  <2>3. /\ (Ready <=> Ready') /\ run'.at \notin EventPlaces /\ run'.at \in AppendPlaces
    BY <1>1, <2>1 DEF Ready, OpenPlaces, EventPlaces, AppendPlaces
  <2>4. BeliefInv'
    BY <1>1, <1>8, <1>10, <2>2, <2>3 DEF BeliefInv, ReopenInv, InEvent
  <2>5. OpenInv'
    BY <1>1, <1>10, <2>1, <2>3 DEF ReopenInv, OpenInv
  <2>6. PreparedInv'
    <3>1. /\ Fits(run.rec, c, Last(dir.log), world[c]) /\ PrepareOk(life[c].at, run.rec, dir.log, c)
          /\ Ready => /\ Follows(c, run.rec, mem.life[c], dir.log, Doc, world[c], mem.events[c])
                      /\ life[c].at = mem.life[c]
      BY <1>1 DEF ReopenInv, PreparedInv
    <3> QED BY <1>1, <1>2, <1>6, <1>10, <2>1, <2>2, <2>3, <3>1 DEF PreparedInv
  <2> QED BY <1>7, <1>10, <2>3, <2>4, <2>5, <2>6 DEF ReopenInv, ProducedInv
<1> QED BY <1>9, <1>10 DEF MaterializeLine, k

LEMMA MaterializeHeadReopens ==
  ASSUME LifecycleInv, ReopenInv, MaterializeHead
  PROVE  ReopenInv'
<1> DEFINE c == run.cell
<1>1. /\ run.at = "head" /\ run.at \in AppendPlaces /\ UNCHANGED <<dir, wal, world>>
      /\ run.at \notin EventPlaces /\ life' \in {life, Headed}
  BY DEF MaterializeHead, AppendPlaces, EventPlaces
<1>2. /\ c \in Cells /\ Pends(c, wal) /\ wal # Nil /\ wal.pending.rec = run.rec
      /\ IsRecord(run.rec) /\ run.then \in AppendThens \cup {"reconcile"}
  BY <1>1 DEF LifecycleInv, AppendInv, Pends
<1>3. /\ run.rec # Nil /\ ValidRecord(run.rec) /\ Fits(run.rec, c, Last(dir.log), world[c])
      /\ Ready => /\ Follows(c, run.rec, mem.life[c], dir.log, Doc, world[c], mem.events[c])
                  /\ PrepareOk(mem.life[c], run.rec, dir.log, c)
  BY <1>1, <1>2, RecordsPresent DEF ReopenInv, PreparedInv, PrepareOk, Follows
<1>4. /\ DOMAIN Headed = Cells
      /\ Headed[c].at = run.rec /\ Headed[c].tail = Nil /\ Headed[c].files = life[c].files
      /\ \A d \in Cells : d # c => Headed[d] = life[d]
  <2>1. DOMAIN life = Cells /\ DOMAIN life[c] = {"files", "at", "tail"}
    BY <1>2 DEF LifecycleInv, DiskShape, LifeShape
  <2> QED BY <1>2, <2>1 DEF Headed
<1>5. FilesInv'
  <2>1. ASSUME NEW d \in Cells
        PROVE  JournalOk(d, Headed[d], wal, dir.log, world[d])
    <3>1. JournalOk(d, life[d], wal, dir.log, world[d])
      BY DEF ReopenInv, FilesInv
    <3>2. CASE d = c
      BY <1>2, <1>3, <1>4, <3>1, <3>2 DEF JournalOk
    <3>3. CASE d # c
      BY <1>4, <3>1, <3>3
    <3> QED BY <3>2, <3>3
  <2> QED BY <1>1, <2>1 DEF ReopenInv, FilesInv
<1>6. ASSUME Ready
      PROVE  /\ \A d \in Cells :
                  BeliefOk(d, mem.life[d], life'[d], wal, dir.log, Doc, world[d], mem.events[d])
             /\ BeliefOk(c, run.rec, Headed[c], wal, dir.log, Doc, world[c], mem.events[c])
  <2>1. \A d \in Cells : BeliefOk(d, mem.life[d], life[d], wal, dir.log, Doc, world[d], mem.events[d])
    BY <1>6 DEF ReopenInv, BeliefInv
  <2>2. BeliefOk(c, mem.life[c], Headed[c], wal, dir.log, Doc, world[c], mem.events[c])
    BY <1>2, <1>3, <1>4, <1>6, <2>1 DEF BeliefOk
  <2>3. BeliefOk(c, run.rec, Headed[c], wal, dir.log, Doc, world[c], mem.events[c])
    BY <1>2, <1>3, <1>4, <1>6, <2>1 DEF BeliefOk, Follows
  <2> QED BY <1>1, <1>4, <2>1, <2>2, <2>3
<1>7. CASE Fails(LifeStore(c))
  <2>1. CASE ~Ready
    BY <1>1, <1>5, <1>7, <2>1, FailureLeaves, StoppedReopens
  <2>2. CASE Ready
    <3>1. /\ run' = Idle /\ mem'.docs = mem.docs /\ mem'.life = mem.life
          /\ mem'.events = mem.events /\ mem'.poison = mem.poison \cup {LifeStore(c)}
      BY <1>1, <1>7, <2>2, FailureLeaves
    <3>2. Doc' = Doc
      BY <1>1, <3>1 DEF Doc
    <3>3. BeliefInv'
      BY <1>1, <1>6, <2>2, <3>1, <3>2 DEF BeliefInv, ReopenInv, InEvent
    <3> QED BY <1>5, <3>1, <3>3, FailedReopens DEF ReopenInv
  <2> QED BY <2>1, <2>2
<1>8. CASE life' = Headed /\ mem' = [mem EXCEPT !.life[c] = run.rec] /\ GoTo("finish")
  <2>1. run'.at = "finish" /\ run'.then = run.then /\ run'.cell = c /\ run'.rec = run.rec
    BY <1>8 DEF GoTo, LifecycleInv, RunShape
  <2>2. /\ mem'.docs = mem.docs /\ mem'.events = mem.events /\ mem'.poison = mem.poison
        /\ mem'.life[c] = run.rec /\ \A d \in Cells : d # c => mem'.life[d] = mem.life[d]
    BY <1>2, <1>8 DEF LifecycleInv, MemShape
  <2>3. Doc' = Doc
    BY <1>1, <2>2 DEF Doc
  <2>4. /\ (Ready <=> Ready') /\ run'.at \notin EventPlaces /\ run'.at \in AppendPlaces
    BY <1>1, <2>1 DEF Ready, OpenPlaces, EventPlaces, AppendPlaces
  <2>5. BeliefInv'
    <3>1. ASSUME Ready, NEW d \in Cells
          PROVE  BeliefOk(d, mem'.life[d], life'[d], wal, dir.log, Doc, world[d], mem.events[d])
      BY <1>6, <1>8, <2>2, <3>1
    <3> QED BY <1>1, <2>2, <2>3, <2>4, <3>1 DEF BeliefInv, ReopenInv, InEvent
  <2>6. OpenInv'
    BY <1>1, <2>1, <2>2, <2>4 DEF ReopenInv, OpenInv
  <2>7. PreparedInv'
    BY <1>4, <1>8, <2>1 DEF PreparedInv
  <2> QED BY <1>5, <2>2, <2>4, <2>5, <2>6, <2>7 DEF ReopenInv, ProducedInv
<1> QED BY <1>7, <1>8 DEF MaterializeHead

LEMMA FinishAppendReopens ==
  ASSUME LifecycleInv, ReopenInv, FinishAppend
  PROVE  ReopenInv'
<1> DEFINE c == run.cell
           u == [wal EXCEPT !.cells[c] = run.rec.rev, !.pending = Nil]
<1>1. /\ run.at = "finish" /\ run.at \in AppendPlaces /\ UNCHANGED <<dir, life, world>>
      /\ run.at \notin EventPlaces /\ wal' \in {wal, FinishHead}
  BY DEF FinishAppend, AppendPlaces, EventPlaces
<1>2. /\ c \in Cells /\ Pends(c, wal) /\ wal # Nil /\ wal.pending.rec = run.rec
      /\ mem.wal = wal /\ FinishHead = u
      /\ run.then \in AppendThens \cup {"reconcile"}
      /\ Ready => mem.life[c] = run.rec
  BY <1>1 DEF LifecycleInv, AppendInv, Pends, FinishHead
<1>3. life[c].at = run.rec /\ life[c].tail = Nil
  BY <1>1 DEF ReopenInv, PreparedInv
<1>4. /\ \A d \in Cells : JournalOk(d, life[d], wal, dir.log, world[d])
      /\ wal = [cells |-> wal.cells, pending |-> wal.pending] /\ DOMAIN wal.cells = Cells
  BY <1>1, AppendKnows
<1>5. /\ u.cells[c] = run.rec.rev /\ u.pending = Nil /\ u # Nil
      /\ \A d \in Cells : d # c => u.cells[d] = wal.cells[d]
  <2> DEFINE x == [wal.cells EXCEPT ![c] = run.rec.rev]
  <2>1. u = [[wal EXCEPT !.cells = x] EXCEPT !.pending = Nil]
    OBVIOUS
  <2>2. x = [wal.cells EXCEPT ![c] = run.rec.rev]
    OBVIOUS
  <2> HIDE DEF x
  <2>3. [wal EXCEPT !.cells = x] = [cells |-> x, pending |-> wal.pending]
    BY <1>4
  <2>4. u = [cells |-> x, pending |-> Nil]
    <3>1. \A a, b : [[cells |-> a, pending |-> b] EXCEPT !.pending = Nil] = [cells |-> a, pending |-> Nil]
      OBVIOUS
    <3> HIDE DEF u
    <3> QED BY <2>1, <2>3, <3>1, Zenon
  <2>5. DOMAIN u = {"cells", "pending"} /\ DOMAIN Nil = {"absent"}
    BY <2>4 DEF Nil
  <2> HIDE DEF u
  <2> QED BY <1>2, <1>4, <2>2, <2>4, <2>5
<1> HIDE DEF u
<1>6. run.rec # Nil /\ run.rec.rev \in Nat /\ run.rec.rev # 0
  <2>1. Fits(run.rec, c, Last(dir.log), world[c])
    BY <1>2, <1>4 DEF JournalOk
  <2>2. run.rec # Nil /\ run.rec.rev \in Nat
    BY <2>1, SoundTypes DEF Fits, Sound, LifecycleRecords
  <2>3. ValidRecord(run.rec)
    BY <1>2, <1>3, <1>4, <2>2 DEF JournalOk
  <2> QED BY <2>2, <2>3 DEF ValidRecord
<1>7. \A d \in Cells : ~Pends(d, u) /\ (d # c => ~Pends(d, wal))
  BY <1>2, <1>5 DEF Pends
<1>8. \A d \in Cells : JournalOk(d, life[d], u, dir.log, world[d])
  <2> TAKE d \in Cells
  <2>1. JournalOk(d, life[d], wal, dir.log, world[d])
    BY <1>4
  <2>2. CASE d = c
    BY <1>3, <1>5, <1>6, <1>7, <2>1, <2>2 DEF JournalOk
  <2>3. CASE d # c
    BY <1>2, <1>5, <1>7, <2>1, <2>3 DEF JournalOk
  <2> QED BY <2>2, <2>3
<1>9. FilesInv'
  <2>1. \A d \in Cells : JournalOk(d, life[d], wal', dir.log, world[d])
    BY <1>1, <1>2, <1>4, <1>8
  <2> QED BY <1>1, <2>1 DEF ReopenInv, FilesInv
<1>10. ASSUME Ready
       PROVE  \A d \in Cells : BeliefOk(d, mem.life[d], life[d], wal', dir.log, Doc, world[d], mem.events[d])
  <2> TAKE d \in Cells
  <2>1. BeliefOk(d, mem.life[d], life[d], wal, dir.log, Doc, world[d], mem.events[d])
    BY <1>10 DEF ReopenInv, BeliefInv
  <2>2. life[d].at = mem.life[d]
    BY <1>2, <1>3, <1>7, <1>10, <2>1 DEF BeliefOk
  <2> QED BY <2>1, <2>2 DEF BeliefOk
<1>11. CASE Fails(WalStore)
  <2>1. CASE ~Ready
    BY <1>1, <1>9, <1>11, <2>1, FailureLeaves, StoppedReopens
  <2>2. CASE Ready
    <3>1. /\ run' = Idle /\ mem'.docs = mem.docs /\ mem'.life = mem.life
          /\ mem'.events = mem.events /\ mem'.poison = mem.poison \cup {WalStore}
      BY <1>1, <1>11, <2>2, FailureLeaves
    <3>2. Doc' = Doc
      BY <1>1, <3>1 DEF Doc
    <3>3. BeliefInv'
      BY <1>1, <1>10, <2>2, <3>1, <3>2 DEF BeliefInv, ReopenInv, InEvent
    <3> QED BY <1>9, <3>1, <3>3, FailedReopens DEF ReopenInv
  <2> QED BY <2>1, <2>2
<1>12. CASE wal' = FinishHead /\ mem' = [mem EXCEPT !.wal = FinishHead] /\ GoTo(run.then)
  <2>1. /\ mem'.docs = mem.docs /\ mem'.life = mem.life /\ mem'.events = mem.events
        /\ mem'.poison = mem.poison
    BY <1>12 DEF LifecycleInv, MemShape
  <2>2. run'.at = run.then /\ run'.then = run.then /\ run'.cell = c
    BY <1>12 DEF GoTo, LifecycleInv, RunShape
  <2>3. Doc' = Doc
    BY <1>1, <2>1 DEF Doc
  <2>4. /\ (Ready <=> Ready') /\ run'.at \notin EventPlaces \cup AppendPlaces \cup {"dirline", "down", "opendir"}
        /\ ~Ready => run'.at = "reconcile"
    BY <1>1, <1>2, <2>2 DEF Ready, OpenPlaces, EventPlaces, AppendPlaces, AppendThens
  <2>5. BeliefInv'
    BY <1>1, <1>10, <2>1, <2>3, <2>4 DEF BeliefInv, ReopenInv, InEvent
  <2>6. OpenInv'
    BY <1>1, <2>1, <2>4 DEF ReopenInv, OpenInv
  <2>7. PreparedInv' /\ ProducedInv'
    BY <2>4 DEF PreparedInv, ProducedInv, AppendPlaces
  <2> QED BY <1>9, <2>1, <2>5, <2>6, <2>7 DEF ReopenInv
<1> QED BY <1>11, <1>12 DEF FinishAppend

-----------------------------------------------------------------------------
(* The directory transition of a recorded operation *)

\* What a transition or a release does to the assignment of its cell.
LEMMA StagedAssignment ==
  ASSUME NEW d \in LifecycleDocuments, NEW c \in Cells, NEW h \in Holders
  PROVE  /\ LET n == Finish(Transition(d, c, h)) IN
              /\ n.assign[c].state = "Assigned" /\ Fence(n, c) = Fence(d, c) + 1 /\ n.rev = d.rev + 1
         /\ LET n == Finish(ReleaseV3(d, c)) IN
              /\ n.assign[c].state = "Sleeping" /\ Fence(n, c) = Fence(d, c) /\ n.rev = d.rev + 1
<1> DEFINE a == d.assign[c]
<1>1. a \in Assignments /\ a.fences \in Seq(Nat) /\ d.assign \in [Cells -> Assignments]
  BY DEF LifecycleDocuments, Assignments
<1>2. DOMAIN d = {"rev", "assign", "place", "transfers"} /\ Fence(d, c) \in Nat
  BY DocumentTypes DEF LifecycleDocuments
<1>3. LET n == Finish(Transition(d, c, h)) IN
        n.assign[c].state = "Assigned" /\ Fence(n, c) = Fence(d, c) + 1 /\ n.rev = d.rev + 1
  <2> DEFINE q == Append(a.fences, Fence(d, c) + 1)
             x == [state |-> "Assigned", holder |-> h, fences |-> q]
             n == Finish(Transition(d, c, h))
  <2>1. n.assign[c] = x /\ n.rev = d.rev + 1
    BY <1>1, <1>2 DEF Transition, Finish
  <2>2. x.state = "Assigned" /\ x.fences = q
    OBVIOUS
  <2>3. Fence(d, c) + 1 \in Nat
    BY <1>2
  <2> HIDE DEF n, x
  <2>4. q[Len(q)] = Fence(d, c) + 1
    BY <1>1, <2>3
  <2>5. Fence(n, c) = q[Len(q)]
    BY <2>1, <2>2 DEF Fence, CellGen
  <2> QED BY <2>1, <2>2, <2>4, <2>5 DEF n
<1>4. LET n == Finish(ReleaseV3(d, c)) IN
        n.assign[c].state = "Sleeping" /\ Fence(n, c) = Fence(d, c) /\ n.rev = d.rev + 1
  <2> DEFINE x == [a EXCEPT !.state = "Sleeping", !.holder = None]
             n == Finish(ReleaseV3(d, c))
  <2>1. x.state = "Sleeping" /\ x.fences = a.fences
    BY <1>1 DEF Assignments
  <2>2. n.assign[c] = x /\ n.rev = d.rev + 1
    BY <1>1, <1>2 DEF ReleaseV3, Finish
  <2> HIDE DEF n, x
  <2>3. Fence(n, c) = Fence(d, c)
    BY <2>1, <2>2 DEF Fence, CellGen
  <2> QED BY <2>1, <2>2, <2>3 DEF n
<1> QED BY <1>3, <1>4

\* A record fits before and after the transition that it asks for.
LEMMA OperationFits ==
  ASSUME NEW c \in Cells, NEW q, NEW doc \in LifecycleDocuments, NEW w, Fits(q, c, doc, w),
         q.op # Nil, Due(q.op, doc, c), NEW n, n = Finish(IF q.op.kind = "Release" THEN ReleaseV3(doc, c)
                                                        ELSE Transition(doc, c, q.op.holder))
  PROVE  Fits(q, c, n, w) /\ n.rev = doc.rev + 1 /\ CellGen(n, c) >= CellGen(doc, c)
<1> DEFINE F == FrontierOf(c, RecoveredLog(w))
<1>1. q.op \in Operations /\ q \in LifecycleRecords /\ CellGen(doc, c) \in Nat /\ Fence(doc, c) \in Nat
  BY SoundTypes, DocumentTypes DEF Fits, Sound
<1>2. RecoveryView(q, doc, c, F) /\ q.fence \in Nat /\ q.op.kind \in Kinds /\ q.op.holder \in Holders
      /\ q.op.gen \in Nat
  BY <1>1 DEF Fits, LifecycleRecords, Operations
<1>3. CASE q.op.kind = "Release"
  <2>1. /\ n.assign[c].state = "Sleeping" /\ Fence(n, c) = Fence(doc, c) /\ n.rev = doc.rev + 1
        /\ CellGen(n, c) = CellGen(doc, c)
    BY <1>2, <1>3, StagedAssignment, StagedDocuments
  <2>2. RecoveryView(q, n, c, F)
    BY <1>2, <1>3, <2>1 DEF RecoveryView
  <2> QED BY <1>1, <2>1, <2>2 DEF Fits
<1>4. CASE q.op.kind # "Release"
  <2>1. /\ n.assign[c].state = "Assigned" /\ Fence(n, c) = Fence(doc, c) + 1 /\ n.rev = doc.rev + 1
        /\ CellGen(n, c) = CellGen(doc, c) + 1 /\ n.assign[c].holder = q.op.holder
    BY <1>2, <1>4, StagedAssignment, StagedDocuments
  <2>2. CellGen(doc, c) = q.op.gen /\ q.op.kind \in {"Claim", "Recovery"}
    BY <1>2, <1>4 DEF Due, TransitionOk, Kinds
  <2>3. Fence(doc, c) = q.fence
    BY <1>2, <2>2 DEF RecoveryView
  <2>4. RecoveryView(q, n, c, F)
    BY <1>2, <2>1, <2>2, <2>3 DEF RecoveryView
  <2> QED BY <1>1, <2>1, <2>4 DEF Fits
<1> QED BY <1>3, <1>4

\* The line of the directory: every record fits the document it brings.
LEMMA LineFits ==
  ASSUME LifecycleInv, ReopenInv, run.at = "dirline"
  PROVE  LET c == run.cell IN
         /\ Ready /\ c \in Cells /\ DirStore \notin mem.poison /\ Doc = Last(dir.log)
         /\ mem.docs = Len(dir.log) /\ dir.head = Len(dir.log) /\ Len(dir.log) \in Nat \ {0}
         /\ run.rec.rev = Len(dir.log) + 1 /\ ValidDocument(run.rec)
         /\ Record = mem.life[c] /\ Record.op # Nil /\ Due(Record.op, Doc, c)
         /\ \A d \in Cells : /\ d # c => run.rec.assign[d] = Doc.assign[d]
                             /\ CellGen(run.rec, d) >= CellGen(Doc, d)
                             /\ CellGen(run.rec, d) \in Nat /\ CellGen(Doc, d) \in Nat
         /\ \A d \in Cells : \A q \in {mem.life[d]} \cup RecordsOf(d, life[d], wal) :
              Fits(q, d, run.rec, world[d])
<1> DEFINE c == run.cell
           op == Record.op
<1>1. /\ Ready /\ c \in Cells /\ op # Nil /\ op.holder \in Holders /\ DirStore \notin mem.poison
      /\ mem.docs = Len(dir.log) /\ Doc = Last(dir.log) /\ Doc \in LifecycleDocuments
      /\ run.rec \in LifecycleDocuments
      /\ \A d \in Cells \ {c} : run.rec.assign[d] = Doc.assign[d]
  BY StagedTransition
<1>2. OperationOk(op, c) /\ run.rec = Finish(OperationDocument(op, c)) /\ Record = mem.life[c]
  BY DEF LifecycleInv, DirInv, Record
<1>3. Due(op, Doc, c)
  BY <1>2 DEF Due, OperationOk
<1>4. run.rec = Finish(IF op.kind = "Release" THEN ReleaseV3(Doc, c) ELSE Transition(Doc, c, op.holder))
  BY <1>2 DEF OperationDocument
<1>5. dir.head = Len(dir.log) /\ Len(dir.log) \in Nat \ {0} /\ Doc.rev = Len(dir.log)
  <2>1. dir.head = mem.docs
    BY <1>1 DEF ReopenInv, BeliefInv
  <2>2. dir.log \in Seq(LifecycleDocuments) /\ dir.log # <<>>
    BY DEF LifecycleInv, DiskShape, DirShape
  <2>3. Len(dir.log) \in DOMAIN dir.log /\ Len(dir.log) \in Nat \ {0}
    BY <2>2
  <2>4. dir.log[Len(dir.log)].rev = Len(dir.log)
    BY <2>3 DEF ReopenInv, FilesInv, DirectoryOk
  <2> QED BY <1>1, <2>1, <2>3, <2>4 DEF Last
<1>6. ASSUME NEW d \in Cells, NEW q \in {mem.life[d]} \cup RecordsOf(d, life[d], wal)
      PROVE  Fits(q, d, Doc, world[d]) /\ (d = c => q = Record)
  <2>1. /\ Fits(mem.life[d], d, Doc, world[d])
        /\ q # mem.life[d] => Fits(q, d, Doc, world[d]) /\ PrepareOk(mem.life[d], q, dir.log, d)
    BY <1>1, RecordsFollow DEF ReopenInv, BeliefInv, BeliefOk
  <2>2. ASSUME d = c, q # Record
        PROVE  FALSE
    <3>1. Fits(q, c, Doc, world[c]) /\ PrepareOk(Record, q, dir.log, c) /\ Sound(Record)
      BY <1>2, <2>1, <2>2 DEF Fits
    <3> QED BY <1>1, <1>3, <3>1, NothingAfterDue
  <2> QED BY <2>1, <2>2
<1>7. Fits(Record, c, Doc, world[c])
  BY <1>1, <1>2, <1>6
<1>8. Fits(Record, c, run.rec, world[c]) /\ run.rec.rev = Doc.rev + 1 /\ CellGen(run.rec, c) >= CellGen(Doc, c)
  BY <1>1, <1>3, <1>4, <1>7, OperationFits
<1>9. ASSUME NEW d \in Cells
      PROVE  /\ d # c => run.rec.assign[d] = Doc.assign[d]
             /\ CellGen(run.rec, d) >= CellGen(Doc, d)
             /\ CellGen(run.rec, d) \in Nat /\ CellGen(Doc, d) \in Nat
  <2>1. CellGen(run.rec, d) \in Nat /\ CellGen(Doc, d) \in Nat
    BY <1>1, DocumentTypes
  <2>2. d # c => run.rec.assign[d] = Doc.assign[d] /\ CellGen(run.rec, d) = CellGen(Doc, d)
    BY <1>1 DEF CellGen
  <2> QED BY <1>8, <2>1, <2>2
<1>10. ASSUME NEW d \in Cells, NEW q \in {mem.life[d]} \cup RecordsOf(d, life[d], wal)
       PROVE  Fits(q, d, run.rec, world[d])
  <2>1. CASE d = c
    BY <1>6, <1>8, <2>1
  <2>2. CASE d # c
    BY <1>6, <1>9, <2>2, FitsAssignment
  <2> QED BY <2>1, <2>2
<1>11. ValidDocument(run.rec)
  BY DEF ReopenInv, PreparedInv
<1> HIDE DEF Due, Fits
<1> QED BY <1>1, <1>2, <1>3, <1>5, <1>8, <1>9, <1>10, <1>11

LEMMA DirectoryLineFiles ==
  ASSUME LifecycleInv, ReopenInv, DirectoryLine
  PROVE  LET m == Len(dir.log) IN
         /\ FilesInv' /\ dir'.head = dir.head /\ dir'.log[m] = dir.log[m]
         /\ \A d \in Cells : BeliefOk(d, mem.life[d], life[d], wal, dir'.log, Doc, world[d], mem.events[d])
         /\ dir' = [dir EXCEPT !.log = Append(@, run.rec)] => ~dir'.torn
<1> DEFINE c == run.cell
           line == [dir EXCEPT !.log = Append(@, run.rec)]
           torn == [dir EXCEPT !.torn = TRUE]
           m == Len(dir.log)
<1>1. /\ run.at = "dirline" /\ UNCHANGED <<wal, life, world>> /\ run.at \notin EventPlaces
      /\ dir' \in {dir, line, torn}
  BY DEF DirectoryLine, EventPlaces
<1>2. dir = [log |-> dir.log, head |-> dir.head, torn |-> dir.torn]
      /\ dir.log \in Seq(LifecycleDocuments) /\ dir.log # <<>>
  BY DEF LifecycleInv, DiskShape, DirShape
<1>3. /\ Ready /\ c \in Cells /\ DirStore \notin mem.poison /\ Doc = Last(dir.log)
      /\ mem.docs = m /\ dir.head = m /\ m \in Nat \ {0} /\ DOMAIN dir.log = 1..m
      /\ run.rec.rev = m + 1 /\ ValidDocument(run.rec) /\ ~dir.torn
      /\ \A d \in Cells : JournalOk(d, life[d], wal, dir.log, world[d]) /\ WorldOk(d, world[d], dir.log)
      /\ DirectoryOk(dir)
  <2>1. DOMAIN dir.log = 1..m
    BY <1>2
  <2> QED BY <1>1, <2>1, LineFits DEF ReopenInv, FilesInv, BeliefInv
<1>4. CASE dir' = line
  <2>1. /\ dir'.head = dir.head /\ dir'.torn = dir.torn
        /\ Len(dir'.log) = m + 1 /\ Last(dir'.log) = run.rec /\ DOMAIN dir'.log = 1..m + 1
        /\ dir'.log[m + 1] = run.rec
        /\ \A i \in 1..m : dir'.log[i] = dir.log[i]
    <3>1. DirShape' /\ Len(dir'.log) = m + 1 /\ Last(dir'.log) = run.rec
          /\ \A i \in 1..m : dir'.log[i] = dir.log[i]
      BY <1>1, <1>4, AppendedLine
    <3>2. dir'.head = dir.head /\ dir'.torn = dir.torn
      BY <1>2, <1>4
    <3>3. DOMAIN dir'.log = 1..m + 1
      BY <3>1 DEF DirShape
    <3> QED BY <3>1, <3>2, <3>3 DEF Last
  <2>2. DirectoryOk(dir')
    <3>1. dir'.torn \in BOOLEAN /\ dir.log[1] = GenesisDocument
      BY <1>3, <2>1, Zenon DEF DirectoryOk
    <3>2. \A i \in 1..m : dir.log[i].rev = i /\ ValidDocument(dir.log[i])
      BY <1>3 DEF DirectoryOk
    <3>3. \A i \in 1..m + 1 : dir'.log[i].rev = i /\ ValidDocument(dir'.log[i])
      <4> TAKE i \in 1..m + 1
      <4>1. i \in 1..m \/ i = m + 1
        BY <1>3
      <4>2. CASE i \in 1..m
        BY <2>1, <3>2, <4>2
      <4>3. CASE i = m + 1
        BY <1>3, <2>1, <4>3
      <4> QED BY <4>1, <4>2, <4>3
    <3>4. dir'.head \in 1..m + 1 /\ m + 1 \in {dir'.head, dir'.head + 1} /\ 1 \in 1..m
      BY <1>3, <2>1
    <3>5. /\ dir'.log[1] = GenesisDocument
          /\ \A i \in DOMAIN dir'.log : dir'.log[i].rev = i /\ ValidDocument(dir'.log[i])
          /\ dir'.head \in 1..Len(dir'.log) /\ Len(dir'.log) \in {dir'.head, dir'.head + 1}
      BY <2>1, <3>1, <3>3, <3>4
    <3> QED BY <3>1, <3>5, Zenon DEF DirectoryOk
  <2>3. \A i \in DOMAIN dir.log : i \in DOMAIN dir'.log /\ dir'.log[i] = dir.log[i]
    BY <1>3, <2>1
  <2>4. \A d, r, q : PrepareOk(r, q, dir.log, d) => PrepareOk(r, q, dir'.log, d)
    BY <2>3, HistoryGrows
  <2>5. \A d \in Cells : \A q \in {mem.life[d]} \cup RecordsOf(d, life[d], wal) :
          Fits(q, d, Last(dir'.log), world[d])
    BY <1>1, <2>1, LineFits
  <2>6. ASSUME NEW d \in Cells
        PROVE  JournalOk(d, life[d], wal, dir'.log, world[d])
    <3>1. JournalOk(d, life[d], wal, dir.log, world[d]) /\ life[d].at # Nil
      BY <1>3 DEF LifecycleInv, ReadyInv
    <3>2. /\ Fits(life[d].at, d, Last(dir'.log), world[d])
          /\ Pends(d, wal) => Fits(wal.pending.rec, d, Last(dir'.log), world[d])
      BY <2>5 DEF RecordsOf
    <3> QED BY <2>4, <3>1, <3>2 DEF JournalOk
  <2>7. ASSUME NEW d \in Cells
        PROVE  WorldOk(d, world[d], dir'.log)
    <3>1. CellGen(Last(dir'.log), d) >= CellGen(Last(dir.log), d)
          /\ CellGen(Last(dir'.log), d) \in Nat /\ CellGen(Last(dir.log), d) \in Nat
      BY <1>1, <1>3, <2>1, LineFits
    <3>2. ASSUME NEW i \in DOMAIN RecoveredLog(world[d])
          PROVE  Authentic(d, RecoveredLog(world[d])[i], dir'.log)
      <4> DEFINE e == RecoveredLog(world[d])[i]
      <4>1. Authentic(d, e, dir.log)
        BY <1>3 DEF WorldOk
      <4> HIDE DEF e
      <4>2. e.dirRev \in DOMAIN dir.log /\ CellGen(dir.log[e.dirRev], d) = e.gen
        BY <4>1 DEF Authentic
      <4>3. e.gen \in Nat
        <5>1. dir.log[e.dirRev] \in LifecycleDocuments
          BY <1>2, <4>2
        <5> QED BY <4>2, <5>1, DocumentTypes
      <4> QED BY <2>3, <3>1, <4>1, <4>3 DEF Authentic, e
    <3> QED BY <1>3, <3>2 DEF WorldOk
  <2>8. FilesInv'
    BY <1>1, <2>2, <2>6, <2>7 DEF FilesInv
  <2>9. ASSUME NEW d \in Cells
        PROVE  BeliefOk(d, mem.life[d], life[d], wal, dir'.log, Doc, world[d], mem.events[d])
    <3>1. BeliefOk(d, mem.life[d], life[d], wal, dir.log, Doc, world[d], mem.events[d])
      BY <1>3 DEF ReopenInv, BeliefInv
    <3>2. Fits(mem.life[d], d, Last(dir'.log), world[d])
      BY <2>5
    <3>3. Doc.assign[d] = Last(dir'.log).assign[d] \/ (mem.life[d].op # Nil /\ Due(mem.life[d].op, Doc, d))
      BY <1>1, <2>1, LineFits
    <3> QED BY <2>4, <3>1, <3>2, <3>3 DEF BeliefOk
  <2>10. dir'.log[m] = dir.log[m]
    BY <1>3, <2>1
  <2> QED BY <1>3, <2>1, <2>8, <2>9, <2>10
<1>5. CASE dir' \in {dir, torn}
  <2>1. dir'.log = dir.log /\ dir'.head = dir.head /\ dir'.torn \in BOOLEAN
    BY <1>2, <1>3, <1>5 DEF DirectoryOk
  <2>2. FilesInv'
    BY <1>1, <1>3, <2>1 DEF FilesInv, DirectoryOk
  <2>3. \A d \in Cells : BeliefOk(d, mem.life[d], life[d], wal, dir'.log, Doc, world[d], mem.events[d])
    BY <1>3, <2>1 DEF ReopenInv, BeliefInv
  <2>4. dir' = line => ~dir'.torn
    BY <1>2, <1>3
  <2> QED BY <2>1, <2>2, <2>3, <2>4, Zenon
<1> QED BY <1>1, <1>4, <1>5

LEMMA DirectoryLineReopens ==
  ASSUME LifecycleInv, ReopenInv, DirectoryLine
  PROVE  ReopenInv'
<1> DEFINE m == Len(dir.log)
           line == [dir EXCEPT !.log = Append(@, run.rec)]
<1>1. /\ run.at = "dirline" /\ UNCHANGED <<wal, life, world>> /\ run.at \notin EventPlaces \cup AppendPlaces
  BY DEF DirectoryLine, EventPlaces, AppendPlaces
<1>2. /\ FilesInv' /\ dir'.head = dir.head /\ dir'.log[m] = dir.log[m] /\ (dir' = line => ~dir'.torn)
      /\ \A d \in Cells : BeliefOk(d, mem.life[d], life[d], wal, dir'.log, Doc, world[d], mem.events[d])
  BY DirectoryLineFiles
<1>3. Ready /\ mem.docs = m
  BY <1>1, LineFits
<1>4. CASE Fails(DirStore)
  <2>1. /\ run' = Idle /\ mem'.docs = mem.docs /\ mem'.life = mem.life
        /\ mem'.events = mem.events /\ mem'.poison = mem.poison \cup {DirStore}
    BY <1>1, <1>3, <1>4, FailureLeaves
  <2>2. Doc' = Doc
    BY <1>2, <1>3, <2>1 DEF Doc
  <2>3. BeliefInv'
    BY <1>1, <1>2, <1>3, <2>1, <2>2 DEF BeliefInv, ReopenInv, InEvent
  <2> QED BY <1>2, <2>1, <2>3, FailedReopens DEF ReopenInv
<1>5. CASE dir' = line /\ GoTo("dirhead") /\ UNCHANGED mem
  <2>1. run'.at = "dirhead" /\ run'.then = run.then
    BY <1>5 DEF GoTo, LifecycleInv, RunShape
  <2>2. Ready' /\ run'.at \notin EventPlaces \cup AppendPlaces \cup {"dirline"}
    BY <1>3, <2>1 DEF Ready, OpenPlaces, EventPlaces, AppendPlaces
  <2>3. Doc' = Doc
    BY <1>2, <1>3, <1>5 DEF Doc
  <2>4. BeliefInv'
    BY <1>1, <1>2, <1>3, <1>5, <2>2, <2>3 DEF BeliefInv, ReopenInv, InEvent
  <2> QED BY <1>2, <1>5, <2>2, <2>4
          DEF ReopenInv, OpenInv, PreparedInv, ProducedInv, AppendPlaces
<1> QED BY <1>4, <1>5 DEF DirectoryLine

LEMMA DirectoryHeadReopens ==
  ASSUME LifecycleInv, ReopenInv, DirectoryHead
  PROVE  ReopenInv'
<1> DEFINE headed == [dir EXCEPT !.head = @ + 1]
<1>1. /\ run.at = "dirhead" /\ UNCHANGED <<wal, life, world>> /\ run.at \notin EventPlaces \cup AppendPlaces
      /\ dir' \in {dir, headed}
  BY DEF DirectoryHead, EventPlaces, AppendPlaces
<1>2. /\ Ready /\ DirStore \notin mem.poison /\ mem.docs \in Nat /\ Len(dir.log) = mem.docs + 1
      /\ dir = [log |-> dir.log, head |-> dir.head, torn |-> dir.torn]
  BY <1>1 DEF LifecycleInv, DirInv, DirPlaces, ReadyInv, DiskShape, DirShape
<1>3. dir.head = mem.docs /\ ~dir.torn /\ DirectoryOk(dir)
  BY <1>2 DEF ReopenInv, BeliefInv, FilesInv
<1>4. headed.log = dir.log /\ headed.head = mem.docs + 1 /\ headed.torn = dir.torn
  BY <1>2, <1>3
<1> HIDE DEF headed
<1>5. FilesInv'
  <2>1. DirectoryOk(headed)
    BY <1>2, <1>3, <1>4 DEF DirectoryOk
  <2> QED BY <1>1, <1>4, <2>1 DEF ReopenInv, FilesInv
<1>6. \A d \in Cells : BeliefOk(d, mem.life[d], life[d], wal, dir.log, Doc, world[d], mem.events[d])
  BY <1>2 DEF ReopenInv, BeliefInv
<1>7. CASE Fails(DirStore)
  <2>1. /\ run' = Idle /\ mem'.docs = mem.docs /\ mem'.life = mem.life
        /\ mem'.events = mem.events /\ mem'.poison = mem.poison \cup {DirStore}
    BY <1>1, <1>2, <1>7, FailureLeaves
  <2>2. Doc' = Doc /\ dir'.log = dir.log
    BY <1>1, <1>4, <2>1 DEF Doc
  <2>3. BeliefInv'
    BY <1>1, <1>2, <1>6, <2>1, <2>2 DEF BeliefInv, ReopenInv, InEvent
  <2> QED BY <1>5, <2>1, <2>3, FailedReopens DEF ReopenInv
<1>8. CASE dir' = headed /\ mem' = [mem EXCEPT !.docs = @ + 1] /\ GoTo("finalize")
  <2>1. /\ mem'.docs = mem.docs + 1 /\ mem'.life = mem.life /\ mem'.events = mem.events
        /\ mem'.poison = mem.poison
    BY <1>8 DEF LifecycleInv, MemShape
  <2>2. run'.at = "finalize" /\ run'.then = run.then
    BY <1>8 DEF GoTo, LifecycleInv, RunShape
  <2>3. Ready' /\ run'.at \notin EventPlaces \cup AppendPlaces \cup {"dirline"}
    BY <1>2, <2>2 DEF Ready, OpenPlaces, EventPlaces, AppendPlaces
  <2>4. Doc' = Last(dir.log)
    BY <1>2, <1>4, <1>8, <2>1 DEF Doc, Last
  <2>5. \A d \in Cells : BeliefOk(d, mem.life[d], life[d], wal, dir.log, Doc', world[d], mem.events[d])
    BY <1>6, <2>4 DEF BeliefOk
  <2>6. BeliefInv'
    BY <1>1, <1>2, <1>3, <1>4, <1>8, <2>1, <2>3, <2>5 DEF BeliefInv, ReopenInv, InEvent
  <2> QED BY <1>5, <2>1, <2>3, <2>6
          DEF ReopenInv, OpenInv, PreparedInv, ProducedInv, AppendPlaces
<1> QED BY <1>7, <1>8 DEF DirectoryHead, headed

-----------------------------------------------------------------------------
(* The event of a dispatch: pending head, event line, boundary line, head *)

\* A record fits as long as the same events count.
LEMMA FitsMoves ==
  ASSUME NEW c, NEW q, NEW doc, NEW w, NEW k, Fits(q, c, doc, w), RecoveredLog(k) = RecoveredLog(w),
         Len(k.log) \in Nat, Len(w.log) \in Nat, Len(k.log) >= Len(w.log), c \in Cells,
         k.tail \in LateTails => w.tail \in LateTails
  PROVE  Fits(q, c, doc, k)
<1>1. Work[c] \in Nat
  BY UniverseAssumption
<1>2. q.gen > 1 /\ q.mode # "Background" => Len(k.log) >= Work[c]
  BY <1>1 DEF Fits
<1> QED BY <1>2 DEF Fits

\* A journal beside another world.
LEMMA WorldBeside ==
  ASSUME NEW c, NEW l, NEW u, NEW log, NEW w, NEW k, JournalOk(c, l, u, log, w), l.at # Nil,
         \A q \in RecordsOf(c, l, u) : Fits(q, c, Last(log), k)
  PROVE  JournalOk(c, l, u, log, k)
<1>1. Fits(l.at, c, Last(log), k) /\ (Pends(c, u) => Fits(u.pending.rec, c, Last(log), k))
  BY DEF RecordsOf
<1> QED BY <1>1 DEF JournalOk

\* What an event on its way starts from.
LEMMA EventKnows ==
  ASSUME LifecycleInv, ReopenInv, run.at \in EventPlaces
  PROVE  LET c == run.cell
             w == world[c]
             n == mem.events[c]
             r == mem.life[c]
         IN /\ Ready /\ c \in Cells /\ WorldStore(c) \notin mem.poison /\ life[c].at # Nil
            /\ w \in Worlds /\ w.log \in Seq(Events) /\ n = Len(w.log) /\ n \in Nat /\ n \in 0..n
            /\ SubSeq(w.log, 1, n) = w.log
            /\ run.rec \in Events /\ r.pending # Nil /\ SameWorld(r, KnownFrontier(c, w, n))
            /\ JournalOk(c, life[c], wal, dir.log, w) /\ WorldOk(c, w, dir.log)
            /\ BeliefOk(c, r, life[c], wal, dir.log, Doc, w, n)
            /\ \A q \in {r} \cup RecordsOf(c, life[c], wal) : Fits(q, c, Last(dir.log), w)
            /\ run.then \in EventThens
<1> DEFINE c == run.cell
           w == world[c]
           n == mem.events[c]
           r == mem.life[c]
<1>1. /\ Ready /\ c \in Cells /\ WorldStore(c) \notin mem.poison /\ life[c].at # Nil /\ run.then \in EventThens
  BY DEF LifecycleInv, EventInv, BusyInv, Busy, EventPlaces, ReadyInv
<1>2. /\ JournalOk(c, life[c], wal, dir.log, w) /\ WorldOk(c, w, dir.log)
      /\ BeliefOk(c, r, life[c], wal, dir.log, Doc, w, n) /\ n = Len(w.log)
  BY <1>1 DEF ReopenInv, FilesInv, BeliefInv
<1>3. run.rec \in Events /\ r.pending # Nil /\ SameWorld(r, KnownFrontier(c, w, n))
  BY DEF ReopenInv, ProducedInv
<1>4. w \in Worlds /\ w.log \in Seq(Events)
  BY <1>2 DEF WorldOk, Worlds
<1>5. n \in Nat /\ SubSeq(w.log, 1, n) = w.log /\ n \in 0..n
  BY <1>2, <1>4
<1>6. \A q \in {r} \cup RecordsOf(c, life[c], wal) : Fits(q, c, Last(dir.log), w)
  BY <1>1, <1>2, RecordsFollow DEF BeliefOk
<1> QED BY <1>1, <1>2, <1>3, <1>4, <1>5, <1>6

\* Every outcome of a write of the event, before it is committed.
LEMMA EventFiles ==
  ASSUME LifecycleInv, ReopenInv, NEW x,
         \/ run.at = "evhead" /\ x = "pending"
         \/ run.at = "evline" /\ x \in {"torn", "line"}
         \/ run.at = "evbound" /\ x \in {"boundTorn", "bound"}
  PROVE  LET c == run.cell
             k == [log |-> world[c].log, tail |-> x, event |-> run.rec]
         IN /\ JournalOk(c, life[c], wal, dir.log, k) /\ WorldOk(c, k, dir.log)
            /\ BeliefOk(c, mem.life[c], life[c], wal, dir.log, Doc, k, mem.events[c])
<1> DEFINE c == run.cell
           w == world[c]
           n == mem.events[c]
           r == mem.life[c]
           e == run.rec
           k == [log |-> w.log, tail |-> x, event |-> e]
<1>1. /\ Ready /\ c \in Cells /\ life[c].at # Nil
      /\ w \in Worlds /\ w.log \in Seq(Events) /\ n = Len(w.log) /\ n \in Nat /\ n \in 0..n
      /\ SubSeq(w.log, 1, n) = w.log
      /\ e \in Events /\ r.pending # Nil /\ SameWorld(r, KnownFrontier(c, w, n))
      /\ JournalOk(c, life[c], wal, dir.log, w) /\ WorldOk(c, w, dir.log)
      /\ BeliefOk(c, r, life[c], wal, dir.log, Doc, w, n)
      /\ \A q \in {r} \cup RecordsOf(c, life[c], wal) : Fits(q, c, Last(dir.log), w)
  BY EventKnows DEF EventPlaces
<1>2. k.log = w.log /\ k.tail = x /\ k.event = e /\ k \in Worlds
  <2>1. e # Nil
    <3>1. DOMAIN e = {"ev", "seq", "at", "time", "gen", "dirRev"} /\ DOMAIN Nil = {"absent"}
      BY <1>1 DEF Events, Nil
    <3> QED BY <3>1
  <2>2. x \in EventTails /\ x # "clean"
    BY DEF EventTails
  <2> QED BY <1>1, <2>1, <2>2 DEF Worlds
<1> HIDE DEF k
<1>3. CASE x \notin LateTails
  <2>1. w.tail \in {"clean", "pending"}
    BY <1>3 DEF ReopenInv, ProducedInv, EventPlaces, LateTails
  <2>2. RecoveredLog(w) = w.log /\ RecoveredLog(k) = w.log
    BY <1>2, <1>3, <2>1 DEF RecoveredLog, LateTails
  <2>3. \A q \in {r} \cup RecordsOf(c, life[c], wal) : Fits(q, c, Last(dir.log), k)
    BY <1>1, <1>2, <1>3, <2>2, FitsMoves
  <2>4. WorldOk(c, k, dir.log)
    BY <1>1, <1>2, <2>2 DEF WorldOk
  <2>5. CaughtUp(k, n)
    BY <1>1, <1>2, <1>3 DEF CaughtUp
  <2>6. BeliefOk(c, r, life[c], wal, dir.log, Doc, k, n)
    BY <1>1, <1>2, <2>3, <2>5 DEF BeliefOk
  <2> QED BY <1>1, <2>3, <2>4, <2>6, WorldBeside DEF k
<1>4. CASE x \in LateTails
  <2>1. RecoveredLog(k) = Append(w.log, e) /\ Behind(k, n)
    BY <1>1, <1>2, <1>4 DEF RecoveredLog, LateTails, Behind
  <2>2. /\ \A q \in {r} \cup RecordsOf(c, life[c], wal) : Fits(q, c, Last(dir.log), k)
        /\ WorldOk(c, k, dir.log)
    <3>1. CASE run.at = "evbound"
      <4>1. w.tail = "line" /\ w.event = e
        BY <3>1 DEF ReopenInv, ProducedInv, EventPlaces
      <4>2. RecoveredLog(w) = RecoveredLog(k) /\ w.tail \in LateTails
        BY <2>1, <4>1 DEF RecoveredLog, LateTails
      <4>3. \A q \in {r} \cup RecordsOf(c, life[c], wal) : Fits(q, c, Last(dir.log), k)
        BY <1>1, <1>2, <4>2, FitsMoves
      <4> QED BY <1>1, <1>2, <4>2, <4>3 DEF WorldOk
    <3>2. CASE run.at = "evline"
      <4>1. /\ w.tail = "pending"
            /\ \A q \in {r} \cup RecordsOf(c, life[c], wal) : PendingSuccessor(q, EventFrontier(e))
            /\ Authentic(c, e, dir.log) /\ OnSchedule(c, Append(w.log, e))
        BY <3>2 DEF ReopenInv, ProducedInv, EventPlaces
      <4>2. RecoveredLog(w) = w.log
        BY <4>1 DEF RecoveredLog
      <4>3. FrontierOf(c, RecoveredLog(k)) = EventFrontier(e)
        <5>1. Append(w.log, e) # <<>> /\ Last(Append(w.log, e)) = e
          BY <1>1 DEF Last
        <5> QED BY <2>1, <5>1 DEF FrontierOf, EventFrontier
      <4>4. ASSUME NEW q \in {r} \cup RecordsOf(c, life[c], wal)
            PROVE  Fits(q, c, Last(dir.log), k)
        <5>1. Fits(q, c, Last(dir.log), w) /\ PendingSuccessor(q, EventFrontier(e))
          BY <1>1, <4>1
        <5>2. RecoveryView(q, Last(dir.log), c, EventFrontier(e)) /\ q.pending # Nil
          BY <5>1 DEF Fits, RecoveryView, WorldOrPendingSuccessor, PendingSuccessor
        <5> QED BY <1>2, <4>3, <5>1, <5>2 DEF Fits
      <4>5. ASSUME NEW i \in DOMAIN Append(w.log, e)
            PROVE  Authentic(c, Append(w.log, e)[i], dir.log)
        <5>1. i \in DOMAIN w.log => Append(w.log, e)[i] = w.log[i]
          BY <1>1
        <5>2. i \notin DOMAIN w.log => Append(w.log, e)[i] = e
          BY <1>1
        <5> QED BY <1>1, <4>1, <4>2, <5>1, <5>2 DEF WorldOk
      <4> QED BY <1>2, <2>1, <4>1, <4>4, <4>5 DEF WorldOk
    <3> QED BY <1>4, <3>1, <3>2 DEF LateTails
  <2>3. SameWorld(r, KnownFrontier(c, k, n))
    BY <1>1, <1>2 DEF KnownFrontier
  <2>4. BeliefOk(c, r, life[c], wal, dir.log, Doc, k, n)
    BY <1>1, <1>2, <2>1, <2>2, <2>3 DEF BeliefOk
  <2> QED BY <1>1, <2>2, <2>4, WorldBeside DEF k
<1> QED BY <1>3, <1>4

\* Another world of one cell.
LEMMA WorldChanges ==
  ASSUME LifecycleInv, ReopenInv, Ready, NEW c \in Cells, NEW k, UNCHANGED <<dir, wal, life>>,
         world' = [world EXCEPT ![c] = k], JournalOk(c, life[c], wal, dir.log, k), WorldOk(c, k, dir.log)
  PROVE  /\ FilesInv' /\ world'[c] = k
         /\ \A d \in Cells : d # c =>
              BeliefOk(d, mem.life[d], life[d], wal, dir.log, Doc, world'[d], mem.events[d])
         /\ \A d \in Cells : d # c => world'[d] = world[d]
<1>1. DOMAIN world = Cells
  BY DEF LifecycleInv, DiskShape
<1>2. world'[c] = k /\ \A d \in Cells : d # c => world'[d] = world[d]
  BY <1>1
<1>3. FilesInv'
  <2>1. \A d \in Cells : JournalOk(d, life[d], wal, dir.log, world'[d]) /\ WorldOk(d, world'[d], dir.log)
    BY <1>2 DEF ReopenInv, FilesInv
  <2> QED BY <2>1 DEF ReopenInv, FilesInv
<1> QED BY <1>2, <1>3 DEF ReopenInv, BeliefInv

LEMMA EventStepReopens ==
  ASSUME LifecycleInv, ReopenInv, EventHead \/ EventLine \/ EventBoundary
  PROVE  ReopenInv'
<1> DEFINE c == run.cell
           w == world[c]
           Now(x) == [log |-> w.log, tail |-> x, event |-> run.rec]
           At(x) == [world EXCEPT ![c].tail = x, ![c].event = run.rec]
           tail == CASE run.at = "evhead" -> "pending" [] run.at = "evline" -> "line" [] OTHER -> "bound"
           label == CASE run.at = "evhead" -> "evline" [] run.at = "evline" -> "evbound" [] OTHER -> "evcommit"
           Outcomes == CASE run.at = "evhead" -> {"pending"} [] run.at = "evline" -> {"line", "torn"}
                         [] OTHER -> {"bound", "boundTorn"}
<1>1. /\ run.at \in {"evhead", "evline", "evbound"} /\ UNCHANGED <<dir, wal, life>>
      /\ \/ world' = At(tail) /\ GoTo(label) /\ UNCHANGED mem
         \/ (world' = world \/ \E x \in Outcomes : world' = At(x)) /\ Fails(WorldStore(c))
      /\ tail \in Outcomes
  BY DEF EventHead, EventLine, EventBoundary, WorldStep
<1>2. run.at \in EventPlaces /\ run.at \notin AppendPlaces \cup {"dirline", "down"}
  BY <1>1 DEF EventPlaces, AppendPlaces
<1>3. /\ Ready /\ c \in Cells /\ JournalOk(c, life[c], wal, dir.log, w) /\ WorldOk(c, w, dir.log)
      /\ BeliefOk(c, mem.life[c], life[c], wal, dir.log, Doc, w, mem.events[c])
      /\ w \in Worlds /\ WorldStore(c) \notin mem.poison /\ mem.events[c] = Len(w.log)
      /\ run.then \in EventThens
  BY <1>2, EventKnows
<1>4. \A x : At(x) = [world EXCEPT ![c] = Now(x)]
  <2>1. DOMAIN world = Cells
    BY DEF LifecycleInv, DiskShape
  <2>2. ASSUME NEW x
        PROVE  At(x) = [world EXCEPT ![c] = Now(x)]
    <3> DEFINE y == [w EXCEPT !.tail = x]
               z == [world EXCEPT ![c] = y]
    <3>1. y = [log |-> w.log, tail |-> x, event |-> w.event]
      BY <1>3 DEF Worlds
    <3>2. [y EXCEPT !.event = run.rec] = Now(x)
      <4>1. \A l, e, v : [[log |-> l, tail |-> x, event |-> e] EXCEPT !.event = v]
                          = [log |-> l, tail |-> x, event |-> v]
        OBVIOUS
      <4> HIDE DEF y
      <4> QED BY <3>1, <4>1, Zenon
    <3> HIDE DEF y, Now
    <3>3. z[c] = y /\ DOMAIN z = Cells
      BY <1>3, <2>1
    <3>4. [z EXCEPT ![c] = [z[c] EXCEPT !.event = run.rec]] = [world EXCEPT ![c] = Now(x)]
      BY <2>1, <3>2, <3>3
    <3>5. At(x) = [z EXCEPT ![c] = [z[c] EXCEPT !.event = run.rec]]
      BY DEF y
    <3> QED BY <3>4, <3>5
  <2> QED BY <2>2
<1>5. \A x \in Outcomes :
        /\ JournalOk(c, life[c], wal, dir.log, Now(x)) /\ WorldOk(c, Now(x), dir.log)
        /\ BeliefOk(c, mem.life[c], life[c], wal, dir.log, Doc, Now(x), mem.events[c])
  BY <1>1, EventFiles
<1> HIDE DEF Now, At, tail, label, Outcomes
<1>6. /\ FilesInv'
      /\ \A d \in Cells : BeliefOk(d, mem.life[d], life[d], wal, dir.log, Doc, world'[d], mem.events[d])
      /\ \A d \in Cells : d # c => world'[d] = world[d]
  <2>1. CASE world' = world
    BY <1>1, <1>3, <2>1 DEF ReopenInv, FilesInv, BeliefInv
  <2>2. ASSUME NEW x \in Outcomes, world' = At(x)
        PROVE  /\ FilesInv' /\ world'[c] = Now(x)
               /\ \A d \in Cells : d # c =>
                    BeliefOk(d, mem.life[d], life[d], wal, dir.log, Doc, world'[d], mem.events[d])
               /\ \A d \in Cells : d # c => world'[d] = world[d]
    <3>1. world' = [world EXCEPT ![c] = Now(x)]
      BY <1>4, <2>2
    <3>2. JournalOk(c, life[c], wal, dir.log, Now(x)) /\ WorldOk(c, Now(x), dir.log)
      BY <1>5
    <3> QED BY <1>1, <1>3, <3>1, <3>2, WorldChanges
  <2>3. world' = world \/ \E x \in Outcomes : world' = At(x)
    BY <1>1
  <2> QED BY <1>5, <2>1, <2>2, <2>3
<1>7. CASE Fails(WorldStore(c))
  <2>1. /\ run' = Idle /\ mem'.docs = mem.docs /\ mem'.life = mem.life
        /\ mem'.events = mem.events /\ mem'.poison = mem.poison \cup {WorldStore(c)}
    BY <1>2, <1>3, <1>7, FailureLeaves
  <2>2. Doc' = Doc
    BY <1>1, <2>1 DEF Doc
  <2>3. \A d \in Cells : WorldStore(d) \notin mem'.poison => d # c
    BY <2>1
  <2>4. BeliefInv'
    <3>1. DirStore # WorldStore(c)
      BY DEF DirStore, WorldStore
    <3> QED BY <1>1, <1>3, <1>6, <2>1, <2>2, <2>3, <3>1 DEF BeliefInv, ReopenInv, InEvent
  <2> QED BY <1>6, <2>1, <2>4, FailedReopens DEF ReopenInv
<1>8. CASE world' = At(tail) /\ GoTo(label) /\ UNCHANGED mem
  <2>1. run'.at = label /\ run'.then = run.then /\ run'.cell = c /\ run'.rec = run.rec
    BY <1>8 DEF GoTo, LifecycleInv, RunShape
  <2>2. /\ Ready' /\ run'.at \in EventPlaces /\ run'.at \notin AppendPlaces \cup {"dirline"}
    BY <1>1, <1>3, <2>1 DEF Ready, OpenPlaces, EventPlaces, EventThens, AppendPlaces, label
  <2>3. Doc' = Doc
    BY <1>1, <1>8 DEF Doc
  <2>4. world'[c] = Now(tail) /\ Now(tail).log = w.log /\ Now(tail).tail = tail /\ Now(tail).event = run.rec
    <3>1. world'[c] = Now(tail)
      BY <1>3, <1>4, <1>8 DEF LifecycleInv, DiskShape
    <3> QED BY <3>1 DEF Now
  <2>5. BeliefInv'
    <3>1. ASSUME NEW d \in Cells, WorldStore(d) \notin mem.poison
          PROVE  mem.events[d] = Len(world'[d].log) /\ (world'[d].tail = "clean" \/ InEvent(d)')
      <4>1. CASE d = c
        BY <1>3, <2>1, <2>2, <2>4, <4>1 DEF InEvent
      <4>2. CASE d # c
        BY <1>3, <1>6, <3>1, <4>2 DEF ReopenInv, BeliefInv, InEvent
      <4> QED BY <4>1, <4>2
    <3> QED BY <1>1, <1>3, <1>6, <1>8, <2>2, <2>3, <3>1 DEF BeliefInv, ReopenInv
  <2>6. ProducedInv'
    <3>1. /\ run.rec \in Events /\ mem.life[c].pending # Nil
          /\ SameWorld(mem.life[c], KnownFrontier(c, w, mem.events[c]))
          /\ run.at \in {"evhead", "evline"} =>
               /\ \A q \in {mem.life[c]} \cup RecordsOf(c, life[c], wal) : PendingSuccessor(q, EventFrontier(run.rec))
               /\ Authentic(c, run.rec, dir.log) /\ OnSchedule(c, Append(w.log, run.rec))
      BY <1>2 DEF ReopenInv, ProducedInv
    <3>2. KnownFrontier(c, world'[c], mem.events[c]) = KnownFrontier(c, w, mem.events[c])
      BY <2>4 DEF KnownFrontier
    <3>3. /\ tail = CASE label = "evhead" -> "clean" [] label = "evline" -> "pending"
                    [] label = "evbound" -> "line" [] OTHER -> "bound"
          /\ label \in {"evhead", "evline"} => run.at \in {"evhead", "evline"}
      BY <1>1 DEF tail, label
    <3> QED BY <1>1, <1>8, <2>1, <2>4, <3>1, <3>2, <3>3 DEF ProducedInv
  <2> QED BY <1>6, <1>8, <2>2, <2>5, <2>6 DEF ReopenInv, OpenInv, PreparedInv, AppendPlaces
<1> QED BY <1>1, <1>7, <1>8

\* The world of a cell once its event is committed.
LEMMA CommittedWorld ==
  ASSUME LifecycleInv, ReopenInv, NEW c \in Cells, world[c].tail = "bound"
  PROVE  LET w == world[c]
             k == [log |-> Append(w.log, w.event), tail |-> "clean", event |-> Nil]
         IN /\ Committed(c) = [world EXCEPT ![c] = k] /\ k \in Worlds /\ w.log \in Seq(Events)
            /\ RecoveredLog(k) = RecoveredLog(w) /\ Len(w.log) \in Nat /\ Len(k.log) = Len(w.log) + 1
            /\ SubSeq(k.log, 1, Len(w.log)) = w.log
            /\ k.tail = "clean" /\ k.event = Nil /\ k.log = Append(w.log, w.event)
<1> DEFINE w == world[c]
           l == Append(w.log, w.event)
           k == [log |-> l, tail |-> "clean", event |-> Nil]
<1>1. DOMAIN world = Cells /\ w \in Worlds
  BY DEF LifecycleInv, DiskShape, ReopenInv, FilesInv, WorldOk
<1>2. w.log \in Seq(Events) /\ w.event \in Events
  BY <1>1 DEF Worlds
<1>3. /\ l \in Seq(Events) /\ Len(w.log) \in Nat /\ Len(l) = Len(w.log) + 1
      /\ SubSeq(l, 1, Len(w.log)) = w.log
  <2>1. l \in Seq(Events) /\ Len(w.log) \in Nat /\ Len(l) = Len(w.log) + 1
        /\ \A i \in 1..Len(w.log) : l[i] = w.log[i]
    BY <1>2
  <2> HIDE DEF l
  <2> QED BY <1>2, <2>1
<1>4. Committed(c) = [world EXCEPT ![c] = k]
  <2> DEFINE x == [w EXCEPT !.log = l]
             y == [x EXCEPT !.tail = "clean"]
             z == [world EXCEPT ![c] = x]
             v == [z EXCEPT ![c] = y]
  <2>1. [y EXCEPT !.event = Nil] = k
    <3>1. w = [log |-> w.log, tail |-> w.tail, event |-> w.event]
      BY <1>1 DEF Worlds
    <3>2. x = [log |-> l, tail |-> w.tail, event |-> w.event]
      BY <3>1
    <3>3. \A a, t, e : [[log |-> a, tail |-> t, event |-> e] EXCEPT !.tail = "clean"]
                       = [log |-> a, tail |-> "clean", event |-> e]
      OBVIOUS
    <3>4. \A a, t, e : [[log |-> a, tail |-> t, event |-> e] EXCEPT !.event = Nil]
                       = [log |-> a, tail |-> t, event |-> Nil]
      OBVIOUS
    <3> HIDE DEF x, l
    <3>5. y = [log |-> l, tail |-> "clean", event |-> w.event]
      BY <3>2, <3>3, Zenon
    <3> HIDE DEF y
    <3> QED BY <3>4, <3>5, Zenon
  <2> HIDE DEF x, y, k
  <2>2. z[c] = x /\ DOMAIN z = Cells
    BY <1>1
  <2> HIDE DEF z
  <2>3. v[c] = y /\ DOMAIN v = Cells
    BY <2>2
  <2>4. [v EXCEPT ![c] = [v[c] EXCEPT !.event = Nil]] = [z EXCEPT ![c] = k]
    BY <2>1, <2>2, <2>3
  <2>5. [z EXCEPT ![c] = k] = [world EXCEPT ![c] = k]
    BY <1>1, <2>2 DEF z
  <2>6. Committed(c) = [v EXCEPT ![c] = [v[c] EXCEPT !.event = Nil]]
    BY <2>2 DEF Committed, z, x, y
  <2> QED BY <2>4, <2>5, <2>6
<1>5. k \in Worlds
  BY <1>3 DEF Worlds, EventTails
<1>6. RecoveredLog(k) = RecoveredLog(w)
  BY DEF RecoveredLog
<1> QED BY <1>2, <1>3, <1>4, <1>5, <1>6

LEMMA EventCommitReopens ==
  ASSUME LifecycleInv, ReopenInv, EventCommit
  PROVE  ReopenInv'
<1> DEFINE c == run.cell
           w == world[c]
           n == mem.events[c]
           r == mem.life[c]
           k == [log |-> Append(w.log, w.event), tail |-> "clean", event |-> Nil]
<1>1. /\ run.at = "evcommit" /\ UNCHANGED <<dir, wal, life>> /\ world' \in {world, Committed(c)}
      /\ run.at \in EventPlaces /\ run.at \notin AppendPlaces \cup {"dirline", "down"}
  BY DEF EventCommit, EventPlaces, AppendPlaces
<1>2. /\ Ready /\ c \in Cells /\ JournalOk(c, life[c], wal, dir.log, w) /\ WorldOk(c, w, dir.log)
      /\ BeliefOk(c, r, life[c], wal, dir.log, Doc, w, n) /\ life[c].at # Nil
      /\ w \in Worlds /\ WorldStore(c) \notin mem.poison /\ n = Len(w.log)
      /\ r.pending # Nil /\ SameWorld(r, KnownFrontier(c, w, n)) /\ run.then \in EventThens
      /\ SubSeq(w.log, 1, n) = w.log
      /\ \A q \in {r} \cup RecordsOf(c, life[c], wal) : Fits(q, c, Last(dir.log), w)
  BY <1>1, EventKnows
<1>3. w.tail = "bound"
  BY <1>1 DEF ReopenInv, ProducedInv
<1>4. /\ Committed(c) = [world EXCEPT ![c] = k] /\ k \in Worlds
      /\ RecoveredLog(k) = RecoveredLog(w) /\ Len(w.log) \in Nat /\ Len(k.log) = Len(w.log) + 1
      /\ SubSeq(k.log, 1, Len(w.log)) = w.log /\ k.tail = "clean"
  BY <1>2, <1>3, CommittedWorld
<1> HIDE DEF k
<1>5. \A q \in {r} \cup RecordsOf(c, life[c], wal) : Fits(q, c, Last(dir.log), k)
  BY <1>2, <1>4, FitsMoves DEF LateTails
<1>6. JournalOk(c, life[c], wal, dir.log, k) /\ WorldOk(c, k, dir.log)
  BY <1>2, <1>4, <1>5, WorldBeside DEF WorldOk
<1>7. /\ BeliefOk(c, r, life[c], wal, dir.log, Doc, k, n)
      /\ BeliefOk(c, r, life[c], wal, dir.log, Doc, k, n + 1)
  <2>1. Behind(k, n) /\ CaughtUp(k, n + 1) /\ n \in 0..Len(k.log) /\ n + 1 \in 0..Len(k.log)
    BY <1>2, <1>4 DEF Behind, CaughtUp, LateTails
  <2>2. SameWorld(r, KnownFrontier(c, k, n))
    BY <1>2, <1>4 DEF KnownFrontier
  <2> QED BY <1>2, <1>5, <2>1, <2>2 DEF BeliefOk
<1>8. ASSUME world' = Committed(c)
      PROVE  /\ FilesInv' /\ world'[c] = k
             /\ \A d \in Cells : d # c =>
                  BeliefOk(d, mem.life[d], life[d], wal, dir.log, Doc, world'[d], mem.events[d])
             /\ \A d \in Cells : d # c => world'[d] = world[d]
  <2>1. world' = [world EXCEPT ![c] = k] /\ UNCHANGED <<dir, wal, life>>
    BY <1>1, <1>4, <1>8
  <2>2. Ready /\ c \in Cells
    BY <1>2
  <2> QED BY <1>6, <2>1, <2>2, WorldChanges
<1>9. CASE Fails(WorldStore(c))
  <2>1. /\ run' = Idle /\ mem'.docs = mem.docs /\ mem'.life = mem.life
        /\ mem'.events = mem.events /\ mem'.poison = mem.poison \cup {WorldStore(c)}
    BY <1>1, <1>2, <1>9, FailureLeaves
  <2>2. Doc' = Doc
    BY <1>1, <2>1 DEF Doc
  <2>3. /\ FilesInv'
        /\ \A d \in Cells : BeliefOk(d, mem.life[d], life[d], wal, dir.log, Doc, world'[d], mem.events[d])
        /\ \A d \in Cells : d # c => world'[d] = world[d]
    <3>1. CASE world' = world
      BY <1>1, <1>2, <3>1 DEF ReopenInv, FilesInv, BeliefInv
    <3>2. CASE world' = Committed(c)
      BY <1>2, <1>7, <1>8, <3>2
    <3> QED BY <1>1, <3>1, <3>2
  <2>4. BeliefInv'
    <3>1. DirStore # WorldStore(c) /\ \A d \in Cells : WorldStore(d) \notin mem'.poison => d # c
      BY <2>1 DEF DirStore, WorldStore
    <3> QED BY <1>1, <1>2, <2>1, <2>2, <2>3, <3>1 DEF BeliefInv, ReopenInv, InEvent
  <2> QED BY <2>1, <2>3, <2>4, FailedReopens DEF ReopenInv
<1>10. CASE world' = Committed(c) /\ mem' = [mem EXCEPT !.events[c] = @ + 1] /\ GoTo(run.then)
  <2>1. run'.at = run.then /\ run'.then = run.then /\ run'.cell = c /\ run'.rec = run.rec
    BY <1>10 DEF GoTo, LifecycleInv, RunShape
  <2>2. /\ mem'.docs = mem.docs /\ mem'.life = mem.life /\ mem'.poison = mem.poison
        /\ mem'.events[c] = n + 1 /\ DOMAIN mem'.events = Cells
        /\ \A d \in Cells : d # c => mem'.events[d] = mem.events[d]
    BY <1>2, <1>10 DEF LifecycleInv, MemShape, ReopenInv
  <2>3. /\ Ready' /\ run'.at \notin AppendPlaces \cup EventPlaces \cup {"dirline"}
    BY <1>2, <2>1 DEF Ready, OpenPlaces, EventPlaces, EventThens, AppendPlaces
  <2>4. Doc' = Doc
    BY <1>1, <2>2 DEF Doc
  <2>5. /\ FilesInv' /\ world'[c] = k
        /\ \A d \in Cells : d # c =>
             BeliefOk(d, mem.life[d], life[d], wal, dir.log, Doc, world'[d], mem.events[d])
        /\ \A d \in Cells : d # c => world'[d] = world[d]
    BY <1>8, <1>10
  <2>6. BeliefInv'
    <3>1. ASSUME NEW d \in Cells
          PROVE  /\ BeliefOk(d, mem.life[d], life[d], wal, dir.log, Doc, world'[d], mem'.events[d])
                 /\ WorldStore(d) \notin mem.poison =>
                      mem'.events[d] = Len(world'[d].log) /\ world'[d].tail = "clean"
      <4>1. CASE d = c
        BY <1>2, <1>4, <1>7, <2>2, <2>5, <4>1
      <4>2. CASE d # c
        BY <1>2, <2>2, <2>5, <4>2 DEF ReopenInv, BeliefInv, InEvent
      <4> QED BY <4>1, <4>2
    <3> QED BY <1>1, <1>2, <2>2, <2>3, <2>4, <3>1 DEF BeliefInv, ReopenInv
  <2> QED BY <2>2, <2>3, <2>5, <2>6
          DEF ReopenInv, OpenInv, PreparedInv, ProducedInv, AppendPlaces
<1> QED BY <1>9, <1>10 DEF EventCommit

-----------------------------------------------------------------------------
(* Opening *)

\* A step of the opening that is followed by another.
LEMMA OpeningReopens ==
  ASSUME FilesInv', ~Ready', DOMAIN mem'.events = Cells, OpenInv',
         run'.at \in OpenPlaces
  PROVE  ReopenInv'
BY DEF ReopenInv, BeliefInv, PreparedInv, ProducedInv, OpenPlaces, AppendPlaces, EventPlaces

LEMMA DirectoryOpens ==
  ASSUME LifecycleInv, ReopenInv, OpenDirectory \/ Preflight
  PROVE  ReopenInv'
<1>1. /\ RunShape /\ DirShape /\ MemShape /\ FilesInv /\ DOMAIN mem.events = Cells
      /\ DirectoryOk(dir) /\ Len(dir.log) \in Nat \ {0}
  <2>1. DirShape /\ DirectoryOk(dir)
    BY DEF LifecycleInv, DiskShape, ReopenInv, FilesInv
  <2>2. Len(dir.log) \in Nat \ {0}
    BY <2>1 DEF DirShape
  <2> QED BY <2>1, <2>2 DEF LifecycleInv, ReopenInv
<1>2. CASE OpenDirectory
  <2>1. run'.at = "opendir" /\ UNCHANGED <<wal, life, world, mem>>
    BY <1>1, <1>2 DEF OpenDirectory, GoTo, RunShape
  <2>2. dir'.log = dir.log /\ DirectoryOk(dir')
    <3>1. CASE dir.torn /\ dir' = [dir EXCEPT !.torn = FALSE]
      <4>1. dir'.log = dir.log /\ dir'.head = dir.head /\ dir'.torn = FALSE
        BY <1>1, <3>1 DEF DirShape
      <4> QED BY <1>1, <4>1 DEF DirectoryOk
    <3>2. CASE ~dir.torn /\ dir' = [dir EXCEPT !.head = Len(dir.log)]
      <4>1. dir'.log = dir.log /\ dir'.head = Len(dir.log) /\ dir'.torn = dir.torn
        BY <1>1, <3>2 DEF DirShape
      <4>2. Len(dir.log) \in 1..Len(dir.log) /\ Len(dir.log) \in {Len(dir.log), Len(dir.log) + 1}
        BY <1>1
      <4>3. dir.torn \in BOOLEAN
        BY <1>1, Zenon DEF DirectoryOk
      <4>4. dir.log[1] = GenesisDocument /\ \A i \in DOMAIN dir.log : dir.log[i].rev = i /\ ValidDocument(dir.log[i])
        BY <1>1 DEF DirectoryOk
      <4> QED BY <4>1, <4>2, <4>3, <4>4, Zenon DEF DirectoryOk
    <3> QED BY <1>2, <3>1, <3>2 DEF OpenDirectory
  <2>3. FilesInv'
    BY <1>1, <2>1, <2>2 DEF FilesInv
  <2>4. ~Ready' /\ OpenInv' /\ run'.at \in OpenPlaces
    BY <2>1 DEF Ready, OpenInv, OpenPlaces, AppendPlaces
  <2> QED BY <1>1, <2>1, <2>3, <2>4, OpeningReopens
<1>3. CASE Preflight
  <2>1. run'.at = "cells" /\ UNCHANGED disk /\ ~dir.torn /\ dir.head = Len(dir.log)
    BY <1>1, <1>3 DEF Preflight, GoTo, RunShape
  <2>2. mem' = [NoMem EXCEPT !.docs = Len(dir.log)]
    BY <1>3 DEF Preflight
  <2>3. DOMAIN mem'.events = Cells
    BY <2>2 DEF NoMem
  <2>4. FilesInv' /\ ~Ready' /\ OpenInv' /\ run'.at \in OpenPlaces
    BY <1>1, <2>1 DEF disk, FilesInv, Ready, OpenInv, OpenPlaces, AppendPlaces
  <2> QED BY <2>3, <2>4, OpeningReopens
<1> QED BY <1>2, <1>3

LEMMA RepairWorldReopens ==
  ASSUME LifecycleInv, ReopenInv, NEW c \in Cells, RepairWorld(c)
  PROVE  ReopenInv'
<1> DEFINE w == world[c]
<1>1. /\ run.at = "cells" /\ UNCHANGED <<dir, wal, life, mem, run>> /\ w \in Worlds
      /\ JournalOk(c, life[c], wal, dir.log, w) /\ WorldOk(c, w, dir.log) /\ DOMAIN world = Cells
  BY DEF RepairWorld, ReopenInv, FilesInv, WorldOk, LifecycleInv, DiskShape
<1> DEFINE Repaired ==
             \E k : /\ world' = [world EXCEPT ![c] = k] /\ k \in Worlds /\ RecoveredLog(k) = RecoveredLog(w)
                    /\ Len(k.log) \in Nat /\ Len(w.log) \in Nat /\ Len(k.log) >= Len(w.log)
                    /\ k.tail \in LateTails => w.tail \in LateTails
                    /\ w.tail # "clean"
<1>2. Repaired
  <2>1. w = [log |-> w.log, tail |-> w.tail, event |-> w.event] /\ w.log \in Seq(Events)
        /\ Len(w.log) \in Nat
    BY <1>1 DEF Worlds
  <2>2. ASSUME NEW x \in EventTails \ {"clean"}, w.tail # "clean", world' = [world EXCEPT ![c].tail = x],
               x \in LateTails <=> w.tail \in LateTails
        PROVE  Repaired
    <3> DEFINE k == [log |-> w.log, tail |-> x, event |-> w.event]
    <3>1. [w EXCEPT !.tail = x] = k
      BY <2>1
    <3>2. world' = [world EXCEPT ![c] = k]
      BY <2>2, <3>1
    <3>3. k \in Worlds
      BY <1>1, <2>2 DEF Worlds
    <3>4. RecoveredLog(k) = RecoveredLog(w)
      BY <2>2 DEF RecoveredLog, LateTails
    <3>5. k.log = w.log /\ (k.tail \in LateTails => w.tail \in LateTails)
      BY <2>2
    <3> HIDE DEF k
    <3>6. Len(k.log) \in Nat /\ Len(w.log) \in Nat /\ Len(k.log) >= Len(w.log)
      BY <2>1, <3>5
    <3> QED BY <2>2, <3>2, <3>3, <3>4, <3>5, <3>6
  <2>3. CASE w.tail = "torn" /\ world' = [world EXCEPT ![c].tail = "pending"]
    <3> HIDE DEF Repaired
    <3> QED BY <2>2, <2>3 DEF EventTails, LateTails
  <2>4. CASE w.tail = "boundTorn" /\ world' = [world EXCEPT ![c].tail = "line"]
    <3> HIDE DEF Repaired
    <3> QED BY <2>2, <2>4 DEF EventTails, LateTails
  <2>5. CASE w.tail = "line" /\ world' = [world EXCEPT ![c].tail = "bound"]
    <3> HIDE DEF Repaired
    <3> QED BY <2>2, <2>5 DEF EventTails, LateTails
  <2>6. CASE w.tail = "bound" /\ world' = Committed(c)
    <3> DEFINE k == [log |-> Append(w.log, w.event), tail |-> "clean", event |-> Nil]
    <3>1. /\ Committed(c) = [world EXCEPT ![c] = k] /\ k \in Worlds
          /\ RecoveredLog(k) = RecoveredLog(w) /\ Len(w.log) \in Nat /\ Len(k.log) = Len(w.log) + 1
          /\ k.tail = "clean"
      BY <2>6, CommittedWorld
    <3> HIDE DEF k
    <3>2. world' = [world EXCEPT ![c] = k] /\ Len(k.log) \in Nat /\ Len(k.log) >= Len(w.log)
          /\ k.tail \notin LateTails /\ w.tail # "clean"
      BY <2>6, <3>1 DEF LateTails
    <3> QED BY <3>1, <3>2
  <2>7. CASE w.tail = "pending" /\ world' = [world EXCEPT ![c].tail = "clean", ![c].event = Nil]
    <3> DEFINE x == [w EXCEPT !.tail = "clean"]
               z == [world EXCEPT ![c] = x]
               k == [log |-> w.log, tail |-> "clean", event |-> Nil]
    <3>1. x = [log |-> w.log, tail |-> "clean", event |-> w.event]
      BY <2>1
    <3>2. [x EXCEPT !.event = Nil] = k
      <4>1. \A l, e : [[log |-> l, tail |-> "clean", event |-> e] EXCEPT !.event = Nil]
                      = [log |-> l, tail |-> "clean", event |-> Nil]
        OBVIOUS
      <4> HIDE DEF x
      <4> QED BY <3>1, <4>1, Zenon
    <3>3. k \in Worlds /\ RecoveredLog(k) = RecoveredLog(w) /\ k.log = w.log /\ k.tail \notin LateTails
      BY <2>1, <2>7 DEF Worlds, EventTails, RecoveredLog, LateTails
    <3>4. world' = [z EXCEPT ![c] = [z[c] EXCEPT !.event = Nil]]
      BY <2>7
    <3> HIDE DEF x, k
    <3>5. z[c] = x /\ DOMAIN z = Cells
      BY <1>1
    <3>6. world' = [world EXCEPT ![c] = k]
      BY <1>1, <3>2, <3>4, <3>5
    <3>7. w.tail # "clean" /\ Len(k.log) \in Nat /\ Len(w.log) \in Nat /\ Len(k.log) >= Len(w.log)
      BY <2>1, <2>7, <3>3
    <3> QED BY <3>3, <3>6, <3>7
  <2> HIDE DEF Repaired
  <2> QED BY <2>3, <2>4, <2>5, <2>6, <2>7 DEF RepairWorld
<1>3. PICK k : /\ world' = [world EXCEPT ![c] = k] /\ k \in Worlds /\ RecoveredLog(k) = RecoveredLog(w)
               /\ Len(k.log) \in Nat /\ Len(w.log) \in Nat /\ Len(k.log) >= Len(w.log)
               /\ k.tail \in LateTails => w.tail \in LateTails
               /\ w.tail # "clean"
  BY <1>2
<1>4. life[c].at # Nil
  BY <1>1, <1>3 DEF JournalOk
<1>5. \A q \in RecordsOf(c, life[c], wal) : Fits(q, c, Last(dir.log), w)
  BY <1>1, <1>4 DEF RecordsOf, JournalOk
<1>6. \A q \in RecordsOf(c, life[c], wal) : Fits(q, c, Last(dir.log), k)
  BY <1>3, <1>5, FitsMoves
<1>7. JournalOk(c, life[c], wal, dir.log, k) /\ WorldOk(c, k, dir.log)
  BY <1>1, <1>3, <1>4, <1>6, WorldBeside DEF WorldOk
<1>8. world'[c] = k /\ \A d \in Cells : d # c => world'[d] = world[d]
  BY <1>1, <1>3
<1>9. FilesInv'
  <2>1. \A d \in Cells : JournalOk(d, life[d], wal, dir.log, world'[d]) /\ WorldOk(d, world'[d], dir.log)
    BY <1>7, <1>8 DEF ReopenInv, FilesInv
  <2> QED BY <1>1, <2>1 DEF ReopenInv, FilesInv
<1>10. ~Ready' /\ OpenInv' /\ run'.at \in OpenPlaces /\ DOMAIN mem'.events = Cells
  BY <1>1 DEF ReopenInv, Ready, OpenInv, OpenPlaces, AppendPlaces
<1> QED BY <1>9, <1>10, OpeningReopens

LEMMA OpenUniverseReopens ==
  ASSUME LifecycleInv, ReopenInv, OpenUniverse
  PROVE  ReopenInv'
<1> DEFINE none == [cells |-> [c \in Cells |-> 0], pending |-> Nil]
           head == IF wal = Nil THEN none ELSE wal
<1>1. /\ run.at = "cells" /\ UNCHANGED <<dir, life, world>> /\ wal' = head
      /\ mem' = [mem EXCEPT !.wal = head, !.events = [c \in Cells |-> Len(world[c].log)]]
      /\ run'.at = "reconcile" /\ \A c \in Cells : world[c].tail = "clean"
  BY DEF OpenUniverse, GoTo, LifecycleInv, RunShape
<1>2. none # Nil /\ none.pending = Nil /\ \A c \in Cells : none.cells[c] = 0
  <2>1. DOMAIN none = {"cells", "pending"} /\ DOMAIN Nil = {"absent"}
    BY DEF Nil
  <2> QED BY <2>1
<1> HIDE DEF none
<1>3. ASSUME NEW c \in Cells
      PROVE  JournalOk(c, life[c], head, dir.log, world[c])
  <2>1. JournalOk(c, life[c], wal, dir.log, world[c])
    BY DEF ReopenInv, FilesInv
  <2>2. CASE wal # Nil
    BY <2>1, <2>2
  <2>3. CASE wal = Nil
    <3>1. life[c].files = "absent" /\ ~Pends(c, wal)
      BY <2>1, <2>3 DEF JournalOk, Pends
    <3>2. life[c].at = Nil /\ life[c].tail = Nil
      BY <3>1 DEF LifecycleInv, DiskShape, LifeShape
    <3>3. ~Pends(c, none)
      BY <1>2 DEF Pends
    <3> QED BY <1>2, <2>1, <2>3, <3>1, <3>2, <3>3 DEF JournalOk
  <2> QED BY <2>2, <2>3
<1>4. FilesInv'
  BY <1>1, <1>3 DEF ReopenInv, FilesInv
<1>5. mem'.events = [c \in Cells |-> Len(world[c].log)]
  BY <1>1 DEF LifecycleInv, MemShape
<1>6. ~Ready' /\ run'.at \in OpenPlaces /\ OpenInv'
  <2>1. ~Ready
    BY <1>1 DEF Ready, OpenPlaces
  <2> QED BY <1>1, <1>5, <2>1 DEF ReopenInv, OpenInv, Ready, OpenPlaces
<1> QED BY <1>4, <1>5, <1>6, OpeningReopens

LEMMA RepairLifeReopens ==
  ASSUME LifecycleInv, ReopenInv, NEW c \in Cells, RepairLife(c) \/ CreateLifeFiles(c)
  PROVE  ReopenInv'
<1>1. /\ run.at = "reconcile" /\ UNCHANGED <<dir, wal, world, mem, run>> /\ ~Ready /\ wal # Nil
      /\ DOMAIN life = Cells /\ DOMAIN life[c] = {"files", "at", "tail"}
      /\ life[c].tail # Nil => life[c].files = "pair"
      /\ JournalOk(c, life[c], wal, dir.log, world[c])
  <2>1. run.at = "reconcile" /\ UNCHANGED <<dir, wal, world, mem, run>>
    BY DEF RepairLife, CreateLifeFiles
  <2>2. ~Ready
    BY <2>1 DEF Ready, OpenPlaces
  <2> QED BY <2>1, <2>2 DEF LifecycleInv, OpeningInv, DiskShape, LifeShape, ReopenInv, FilesInv
<1>2. /\ JournalOk(c, life'[c], wal, dir.log, world[c])
      /\ \A d \in Cells : d # c => life'[d] = life[d]
  <2>1. CASE RepairLife(c)
    <3>1. /\ life' = [life EXCEPT ![c].at = RecoveredRecord(life[c]), ![c].tail = Nil]
          /\ life[c].tail # Nil
      BY <2>1 DEF RepairLife
    <3>2. /\ life'[c].at = RecoveredRecord(life[c]) /\ life'[c].tail = Nil
          /\ life'[c].files = life[c].files
          /\ \A d \in Cells : d # c => life'[d] = life[d]
      BY <1>1, <3>1
    <3>3. Pends(c, wal) /\ Fits(wal.pending.rec, c, Last(dir.log), world[c])
      BY <1>1, <3>1 DEF JournalOk
    <3>4. CASE life[c].tail = TornLine
      <4>1. life'[c].at = life[c].at
        BY <3>2, <3>4 DEF RecoveredRecord
      <4> QED BY <1>1, <3>2, <3>3, <4>1 DEF JournalOk
    <3>5. CASE life[c].tail # TornLine
      <4>1. life'[c].at = wal.pending.rec /\ ValidRecord(wal.pending.rec)
        BY <1>1, <3>1, <3>2, <3>5 DEF RecoveredRecord, JournalOk, PrepareOk
      <4>2. wal.pending.rec # Nil
        BY <3>3, SoundTypes DEF Fits
      <4> QED BY <1>1, <3>2, <3>3, <4>1, <4>2 DEF JournalOk
    <3> QED BY <3>2, <3>4, <3>5
  <2>2. CASE CreateLifeFiles(c)
    <3>1. /\ Pends(c, wal)
          /\ \E x \in {"history", "pair"} : life' = [life EXCEPT ![c].files = x]
      BY <1>1, <2>2 DEF CreateLifeFiles, Pends
    <3>2. /\ life'[c].at = life[c].at /\ life'[c].tail = life[c].tail
          /\ life'[c].files \in {"history", "pair"}
          /\ \A d \in Cells : d # c => life'[d] = life[d]
      BY <1>1, <3>1
    <3> QED BY <1>1, <3>1, <3>2 DEF JournalOk
  <2> QED BY <2>1, <2>2
<1>3. FilesInv'
  <2>1. \A d \in Cells : JournalOk(d, life'[d], wal, dir.log, world[d])
    BY <1>2 DEF ReopenInv, FilesInv
  <2> QED BY <1>1, <2>1 DEF ReopenInv, FilesInv
<1>4. ~Ready' /\ run'.at \in OpenPlaces /\ OpenInv' /\ DOMAIN mem'.events = Cells
  BY <1>1 DEF ReopenInv, OpenInv, Ready, OpenPlaces
<1> QED BY <1>3, <1>4, OpeningReopens

\* The replay of the pending append starts where the append itself would be.
LEMMA ReconcileReopens ==
  ASSUME LifecycleInv, ReopenInv, ReconcileAppend
  PROVE  ReopenInv'
<1> DEFINE p == wal.pending
           c == p.cell
<1>1. /\ run.at = "reconcile" /\ p # Nil /\ UNCHANGED disk /\ life[c].tail = Nil
      /\ \/ /\ life[c].at = p.rec /\ mem' = mem
            /\ run' = [Down EXCEPT !.at = "finish", !.cell = c, !.rec = p.rec, !.then = "reconcile"]
         \/ /\ PrepareOk(life[c].at, p.rec, Documents, c)
            /\ mem' = [mem EXCEPT !.life[c] = life[c].at]
            /\ run' = [Down EXCEPT !.at = "line", !.cell = c, !.rec = p.rec, !.then = "reconcile"]
  BY DEF ReconcileAppend
<1>2. ~Ready
  BY <1>1 DEF Ready, OpenPlaces
<1>3. wal # Nil /\ mem.docs = Len(dir.log) /\ dir.log \in Seq(LifecycleDocuments) /\ MemShape /\ WalShape
  BY <1>1, <1>2 DEF LifecycleInv, OpeningInv, DiskShape, DirShape
<1>4. c \in Cells /\ Pends(c, wal)
  BY <1>1, <1>3 DEF WalShape, Pends
<1>5. Fits(p.rec, c, Last(dir.log), world[c])
  BY <1>4 DEF ReopenInv, FilesInv, JournalOk
<1>6. FilesInv'
  BY <1>1 DEF ReopenInv, FilesInv, disk
<1>7. mem'.events = mem.events /\ DOMAIN mem.events = Cells
  BY <1>1, <1>3 DEF MemShape, ReopenInv
<1>8. /\ run'.at \in {"line", "finish"} /\ run'.cell = c /\ run'.rec = p.rec /\ run'.then = "reconcile"
      /\ run'.at = "finish" => life[c].at = p.rec
      /\ run'.at = "line" => PrepareOk(life[c].at, p.rec, Documents, c)
  BY <1>1 DEF Down
<1>9. ~Ready' /\ OpenInv'
  BY <1>1, <1>2, <1>7, <1>8 DEF ReopenInv, OpenInv, Ready, disk
<1>10. PreparedInv'
  <2>1. \A i \in DOMAIN Documents : i \in DOMAIN dir.log /\ dir.log[i] = Documents[i]
    BY <1>3 DEF Documents
  <2>2. run'.at = "line" => PrepareOk(life[c].at, p.rec, dir.log, c)
    BY <1>8, <2>1, HistoryGrows
  <2> QED BY <1>1, <1>5, <1>8, <1>9, <2>2 DEF PreparedInv, disk
<1> QED BY <1>6, <1>7, <1>8, <1>9, <1>10 DEF ReopenInv, BeliefInv, ProducedInv, EventPlaces

\* The first record of a cell fits the genesis document and an empty world.
LEMMA InitialFits ==
  ASSUME NEW c \in Cells, NEW w, w.log = <<>>, w.tail = "clean"
  PROVE  Fits(InitialRecord(c, GenesisDocument), c, GenesisDocument, w)
<1> DEFINE d == GenesisDocument
           q == InitialRecord(c, d)
<1>1. d.assign[c] = [state |-> "Sleeping", holder |-> None, fences |-> <<1>>] /\ d.rev = 1
  BY DEF GenesisDocument
<1>2. CellGen(d, c) = 1 /\ Fence(d, c) = 1 /\ d.assign[c].state = "Sleeping"
  <2>1. Len(<<1>>) = 1 /\ <<1>>[1] = 1
    OBVIOUS
  <2> QED BY <1>1, <2>1 DEF CellGen, Fence
<1>3. Genesis[c] \in [ev : Nat, ack : Nat, sched : Nat, cutoff : Nat]
  BY LifecycleAssumption
<1>4. q = [rev |-> 2, desired |-> "Sleeping", mode |-> "Sleeping", dirRev |-> 1, gen |-> 1, fence |-> 1,
           holder |-> None, exp |-> 0, trusted |-> Genesis[c].cutoff, ev |-> Genesis[c].ev,
           ack |-> Genesis[c].ack, sched |-> Genesis[c].sched, next |-> Nil, op |-> Nil, pending |-> Nil]
  BY <1>1, <1>2 DEF InitialRecord, NoExpiry
<1> HIDE DEF d, q
<1>5. q \in LifecycleRecords
  BY <1>3, <1>4 DEF LifecycleRecords, Modes
<1>6. /\ q.pending = Nil /\ q.op = Nil /\ q.mode = "Sleeping" /\ q.gen = 1 /\ q.fence = 1
      /\ WorldFrontier(q) = Frontier(Genesis[c].ev, Genesis[c].ack, Genesis[c].sched)
  BY <1>4 DEF WorldFrontier
<1>7. RecoveredLog(w) = <<>> /\ w.tail \notin LateTails
  BY DEF RecoveredLog, LateTails
<1>8. FrontierOf(c, RecoveredLog(w)) = WorldFrontier(q)
  BY <1>6, <1>7 DEF FrontierOf
<1>9. RecoveryView(q, d, c, FrontierOf(c, RecoveredLog(w)))
  BY <1>2, <1>6, <1>8 DEF RecoveryView, WorldOrPendingSuccessor, SameWorld, SameAssignment
<1>10. Fits(q, c, d, w)
  BY <1>5, <1>6, <1>7, <1>9 DEF Fits, Sound
<1> QED BY <1>10 DEF q, d

LEMMA BootstrapReopens ==
  ASSUME LifecycleInv, ReopenInv, NEW c \in Cells, Bootstrap(c)
  PROVE  ReopenInv'
<1>1. /\ run.at = "reconcile" /\ UNCHANGED <<disk, mem>> /\ wal.cells[c] = 0 /\ life[c].files = "absent"
      /\ run' = [Down EXCEPT !.at = "begin", !.cell = c, !.rec = InitialRecord(c, Doc), !.then = "reconcile"]
  BY DEF Bootstrap, Unwritten, Absent
<1>2. ~Ready
  BY <1>1 DEF Ready, OpenPlaces
<1>3. mem.docs = Len(dir.log)
  BY <1>1, <1>2 DEF LifecycleInv, OpeningInv
<1>4. life[c].at = Nil
  BY <1>1 DEF LifecycleInv, DiskShape, LifeShape
<1>5. Len(dir.log) = 1 /\ world[c].log = <<>> /\ world[c].tail = "clean"
  BY <1>4 DEF ReopenInv, FilesInv, JournalOk
<1>6. Doc = GenesisDocument /\ dir.log[1] = GenesisDocument /\ Last(dir.log) = GenesisDocument
  BY <1>3, <1>5 DEF Doc, Last, ReopenInv, FilesInv, DirectoryOk
<1>7. Fits(InitialRecord(c, GenesisDocument), c, GenesisDocument, world[c])
  BY <1>5, InitialFits
<1>8. FilesInv' /\ DOMAIN mem'.events = Cells
  BY <1>1 DEF ReopenInv, FilesInv, disk
<1>9. /\ run'.at = "begin" /\ run'.cell = c /\ run'.rec = InitialRecord(c, GenesisDocument)
      /\ run'.then = "reconcile"
  BY <1>1, <1>6 DEF Down
<1>10. ~Ready' /\ OpenInv'
  BY <1>1, <1>2, <1>9 DEF ReopenInv, OpenInv, Ready, disk
<1>11. PreparedInv'
  BY <1>1, <1>4, <1>6, <1>7, <1>9, <1>10 DEF PreparedInv, disk
<1> QED BY <1>8, <1>9, <1>10, <1>11 DEF ReopenInv, BeliefInv, ProducedInv, EventPlaces

LEMMA OpenedReopens ==
  ASSUME LifecycleInv, ReopenInv, Opened
  PROVE  ReopenInv'
<1>1. /\ run.at = "reconcile" /\ UNCHANGED disk /\ run' = Idle
      /\ mem' = [mem EXCEPT !.life = [c \in Cells |-> life[c].at]]
      /\ \A c \in Cells : life[c].at # Nil
  BY DEF Opened
<1>2. ~Ready
  BY <1>1 DEF Ready, OpenPlaces
<1>3. /\ mem.docs = Len(dir.log) /\ dir.head = Len(dir.log) /\ ~dir.torn
      /\ \A c \in Cells : world[c].tail = "clean" /\ mem.events[c] = Len(world[c].log)
  BY <1>1, <1>2 DEF LifecycleInv, OpeningInv, ReopenInv, OpenInv
<1>4. /\ mem'.docs = mem.docs /\ mem'.events = mem.events
      /\ mem'.life = [c \in Cells |-> life[c].at]
  BY <1>1 DEF LifecycleInv, MemShape
<1>5. FilesInv'
  BY <1>1 DEF ReopenInv, FilesInv, disk
<1>6. Doc' = Last(dir.log)
  BY <1>1, <1>3, <1>4 DEF Doc, Last, disk
<1>7. ASSUME NEW c \in Cells
      PROVE  BeliefOk(c, life[c].at, life[c], wal, dir.log, Last(dir.log), world[c], mem.events[c])
  <2>1. JournalOk(c, life[c], wal, dir.log, world[c]) /\ world[c] \in Worlds /\ life[c].at # Nil
    BY <1>1 DEF ReopenInv, FilesInv, WorldOk
  <2>2. mem.events[c] \in 0..Len(world[c].log) /\ CaughtUp(world[c], mem.events[c])
    <3>1. Len(world[c].log) \in Nat
      BY <2>1 DEF Worlds
    <3> QED BY <1>3, <3>1 DEF CaughtUp, LateTails
  <2> QED BY <2>1, <2>2 DEF BeliefOk, JournalOk
<1>8. BeliefInv'
  BY <1>1, <1>3, <1>4, <1>6, <1>7 DEF BeliefInv, disk
<1> QED BY <1>1, <1>4, <1>5, <1>8, FailedReopens DEF ReopenInv

\* Time passes, or nothing.
LEMMA WaitingReopens ==
  ASSUME ReopenInv, UNCHANGED <<disk, mem, run>>
  PROVE  ReopenInv'
<1> USE DEF disk
<1>1. FilesInv' /\ DOMAIN mem'.events = Cells
  BY DEF ReopenInv, FilesInv
<1>2. (Ready' <=> Ready) /\ Doc' = Doc
  BY DEF Ready, Doc
<1>3. BeliefInv'
  BY <1>2 DEF ReopenInv, BeliefInv, InEvent
<1>4. OpenInv'
  BY <1>2 DEF ReopenInv, OpenInv
<1>5. PreparedInv'
  BY <1>2 DEF ReopenInv, PreparedInv
<1>6. ProducedInv'
  BY <1>2 DEF ReopenInv, ProducedInv
<1> QED BY <1>1, <1>3, <1>4, <1>5, <1>6 DEF ReopenInv

-----------------------------------------------------------------------------
(* Times *)

\* The times that a step hands on are the ones it has, or a new sample.
LEMMA TimeHandedOn ==
  ASSUME RunShape, [Next]_vars
  PROVE  run'.t \in {0, run.t, now}
<1> USE DEF GoTo, Refuse, Idle, Down
<1>1. ASSUME NEW rec, NEW t, NEW then, t \in {run.t, now}, Appending(rec, t, then)
      PROVE  run'.t \in {0, run.t, now}
  BY <1>1 DEF RunShape, Appending
<1>2. ASSUME NEW kind, NEW t \in {run.t, now}, Ask(kind, t)
      PROVE  run'.t \in {0, run.t, now}
  <2>1. CASE Refuse
    BY <2>1
  <2>2. CASE Appending(Request(Record, Doc, run.cell, kind, run.holder, t), t, "directory")
    BY <1>1, <2>2
  <2> QED BY <1>2, <2>1, <2>2, Zenon DEF Ask
<1>3. ASSUME NEW then, Write(then)
      PROVE  run'.t \in {0, run.t, now}
  BY <1>3 DEF RunShape, Write
<1>4. ASSUME NEW store, Fails(store)
      PROVE  run'.t = 0
  BY <1>4 DEF Fails
<1>5. ASSUME NEW label, GoTo(label)
      PROVE  run'.t = run.t
  BY <1>5 DEF RunShape
<1>6. ASSUME Refuse
      PROVE  run'.t = 0
  BY <1>6
<1> HIDE DEF GoTo, Refuse, Idle, Down
<1>7. CASE BeginAppend \/ MaterializeLine \/ MaterializeHead \/ FinishAppend
           \/ DirectoryLine \/ DirectoryHead \/ EventHead \/ EventLine \/ EventBoundary \/ EventCommit
  BY <1>4, <1>5, <1>6, <1>7 DEF BeginAppend, MaterializeLine, MaterializeHead, FinishAppend,
     DirectoryLine, DirectoryHead, EventHead, EventLine, EventBoundary, WorldStep, EventCommit
<1>8. CASE Acquire
  <2> DEFINE rec == Renew(Record, Doc, run.cell, run.t, MemFrontier(run.cell), Record.next)
  <2>1. \/ GoTo("directory") \/ GoTo("resume") \/ Refuse \/ Ask("Claim", run.t) \/ Ask("Recovery", run.t)
        \/ Appending(rec, run.t, "resume")
    BY <1>8 DEF Acquire
  <2> HIDE DEF rec
  <2> QED BY <1>1, <1>2, <1>5, <1>6, <2>1
<1>9. CASE DirectoryOperation
  <2>1. \/ Refuse \/ GoTo("finalize") \/ \E rec : run' = [run EXCEPT !.at = "dirline", !.rec = rec]
    BY <1>9 DEF DirectoryOperation
  <2>2. ASSUME NEW rec, run' = [run EXCEPT !.at = "dirline", !.rec = rec]
        PROVE  run'.t = run.t
    BY <2>2 DEF RunShape
  <2> QED BY <1>5, <1>6, <2>1, <2>2
<1>10. CASE Finalize
  <2>1. \/ Refuse \/ \E rec, then : Appending(rec, run.t, then)
    BY <1>10 DEF Finalize
  <2> QED BY <1>1, <1>6, <2>1
<1>11. CASE Resume \/ ReconcilePending \/ FreshAuthority \/ BudgetSpent
  <2>1. \/ Refuse \/ GoTo("pending") \/ GoTo("arm") \/ GoTo("acknowledge") \/ Write("acknowledge")
        \/ Write("pending")
    BY <1>11 DEF Resume, ReconcilePending, FreshAuthority, BudgetSpent
  <2> QED BY <1>3, <1>5, <1>6, <2>1
<1>12. CASE AcknowledgePending \/ BeginDue
  <2>1. \/ Refuse \/ \E rec, then : Appending(rec, run.t, then) \/ Appending(rec, now, then)
    BY <1>12 DEF AcknowledgePending, BeginDue
  <2> QED BY <1>1, <1>6, <2>1
<1>13. CASE Arm
  <2>1. \/ Refuse \/ run' = [run EXCEPT !.at = "due", !.t = now] \/ Ask("Release", now)
        \/ \E rec : Appending(rec, now, "due")
    BY <1>13 DEF Arm
  <2>2. run' = [run EXCEPT !.at = "due", !.t = now] => run'.t = now
    BY DEF RunShape
  <2> QED BY <1>1, <1>2, <1>6, <2>1, <2>2
<1>14. CASE OpenDirectory \/ Preflight \/ OpenUniverse
  BY <1>5, <1>14 DEF OpenDirectory, Preflight, OpenUniverse
<1>15. CASE \/ ReconcileAppend \/ Opened \/ Crash \/ Close \/ \E c \in Cells : Bootstrap(c)
  <2>1. CASE ReconcileAppend
    <3>1. \E label \in {"line", "finish"} :
             run' = [Down EXCEPT !.at = label, !.cell = wal.pending.cell, !.rec = wal.pending.rec,
                                 !.then = "reconcile"]
      BY <2>1 DEF ReconcileAppend
    <3> QED BY <3>1 DEF Down
  <2>2. CASE Crash \/ Close
    BY <2>2 DEF Crash, Close, Down
  <2>3. CASE Opened
    BY <2>3 DEF Opened, Idle, Down
  <2>4. ASSUME NEW c \in Cells, Bootstrap(c) PROVE run'.t = 0
    BY <2>4 DEF Bootstrap, Down
  <2> QED BY <1>15, <2>1, <2>2, <2>3, <2>4
<1>16. CASE \/ UNCHANGED vars \/ Tick \/ ClockBack
            \/ \E c \in Cells : RepairWorld(c) \/ RepairLife(c) \/ CreateLifeFiles(c)
  BY <1>16 DEF RepairWorld, RepairLife, CreateLifeFiles, Tick, ClockBack, vars
<1>17. CASE \E c \in Cells, h \in Holders : Dispatch(c, h)
  BY <1>17 DEF Dispatch
<1> QED BY <1>7, <1>8, <1>9, <1>10, <1>11, <1>12, <1>13, <1>14, <1>15, <1>16, <1>17
        DEF Next, Working, Reopening

\* The clock and the faults stay within their bounds.
LEMMA TimesInductive ==
  ASSUME RunShape, TimesInv, [Next]_vars
  PROVE  TimesInv'
<1>1. run'.t \in Nat
  BY TimeHandedOn DEF TimesInv
<1> DEFINE Same == UNCHANGED <<now, faults>>
<1>2. /\ now \in Nat /\ faults \in Nat /\ MaxTime \in Nat /\ MaxFaults \in Nat
      /\ 1 <= now /\ now <= MaxTime /\ faults <= MaxFaults
  BY UniverseAssumption DEF TimesInv
<1>3. \/ Same \/ Tick \/ ClockBack \/ (now' = now /\ faults < MaxFaults /\ faults' = faults + 1)
  <2>1. CASE Working
    <3>1. CASE BeginAppend \/ MaterializeLine \/ MaterializeHead \/ FinishAppend
      BY <3>1 DEF BeginAppend, MaterializeLine, MaterializeHead, FinishAppend, Fails
    <3>2. CASE DirectoryLine \/ DirectoryHead
      BY <3>2 DEF DirectoryLine, DirectoryHead, Fails
    <3>3. CASE EventHead \/ EventLine \/ EventBoundary \/ EventCommit
      BY <3>3 DEF EventHead, EventLine, EventBoundary, WorldStep, EventCommit, Fails
    <3>4. CASE \/ Acquire \/ DirectoryOperation \/ Finalize \/ Resume \/ ReconcilePending
               \/ AcknowledgePending \/ Arm \/ BeginDue \/ FreshAuthority
      BY <3>4 DEF Acquire, DirectoryOperation, Finalize, Resume, ReconcilePending,
         AcknowledgePending, Arm, BeginDue, FreshAuthority, Unwritten
    <3> QED BY <2>1, <3>1, <3>2, <3>3, <3>4 DEF Working
  <2>2. CASE Reopening
    BY <2>2 DEF Reopening, OpenDirectory, Preflight, OpenUniverse, ReconcileAppend, Opened,
       RepairWorld, RepairLife, CreateLifeFiles, Bootstrap, Unwritten
  <2>3. CASE \/ BudgetSpent \/ Crash \/ Close \/ UNCHANGED vars
             \/ \E c \in Cells, h \in Holders : Dispatch(c, h)
    BY <2>3 DEF BudgetSpent, Crash, Close, Dispatch, Unwritten, vars
  <2> QED BY <2>1, <2>2, <2>3 DEF Next
<1>4. now' \in 1..MaxTime /\ faults' \in 0..MaxFaults
  BY <1>2, <1>3 DEF Tick, ClockBack
<1> QED BY <1>1, <1>4 DEF TimesInv

(* The invariant *)

LEMMA ReopenInitially ==
  ASSUME Init
  PROVE  ReopenInv /\ TimesInv
<1>1. /\ dir.log = <<GenesisDocument>> /\ dir.head = 1 /\ dir.torn = FALSE /\ wal = Nil
      /\ \A c \in Cells : /\ life[c] = [files |-> "absent", at |-> Nil, tail |-> Nil]
                          /\ world[c] = [log |-> <<>>, tail |-> "clean", event |-> Nil]
      /\ mem.events = [c \in Cells |-> 0] /\ run = Down /\ now = 1 /\ faults = 0
  BY DEF Init, NoMem
<1>2. Len(dir.log) = 1 /\ DOMAIN dir.log = {1} /\ dir.log[1] = GenesisDocument
  BY <1>1
<1>3. DirectoryOk(dir)
  <2>1. GenesisDocument.rev = 1
    BY DEF GenesisDocument
  <2>2. dir.head \in 1..Len(dir.log) /\ Len(dir.log) \in {dir.head, dir.head + 1}
    BY <1>1, <1>2
  <2>3. dir.torn \in BOOLEAN
    BY <1>1, Zenon
  <2> QED BY <1>2, <2>1, <2>2, <2>3, GenesisValid DEF DirectoryOk
<1>4. ASSUME NEW c \in Cells
      PROVE  JournalOk(c, life[c], wal, dir.log, world[c])
  <2>1. /\ life[c].files = "absent" /\ life[c].at = Nil /\ life[c].tail = Nil /\ ~Pends(c, wal)
        /\ world[c].log = <<>> /\ world[c].tail = "clean"
    BY <1>1 DEF Pends
  <2> QED BY <1>1, <1>2, <2>1 DEF JournalOk
<1>5. ASSUME NEW c \in Cells
      PROVE  WorldOk(c, world[c], dir.log)
  <2>1. world[c] = [log |-> <<>>, tail |-> "clean", event |-> Nil]
    BY <1>1
  <2>2. <<>> \in Seq(Events) /\ DOMAIN <<>> = {}
    OBVIOUS
  <2>3. world[c] \in Worlds
    BY <2>1, <2>2 DEF Worlds, EventTails
  <2>4. RecoveredLog(world[c]) = <<>>
    BY <2>1 DEF RecoveredLog
  <2>5. OnSchedule(c, <<>>)
    BY <2>2 DEF OnSchedule
  <2> QED BY <2>2, <2>3, <2>4, <2>5 DEF WorldOk
<1>6. run.at = "down" /\ run.t = 0 /\ ~Ready
  BY <1>1 DEF Down, Ready
<1>7. FilesInv /\ DOMAIN mem.events = Cells
  BY <1>1, <1>3, <1>4, <1>5 DEF FilesInv
<1>8. TimesInv
  BY <1>1, <1>6, UniverseAssumption DEF TimesInv
<1> QED BY <1>6, <1>7, <1>8
        DEF ReopenInv, BeliefInv, OpenInv, PreparedInv, ProducedInv, AppendPlaces, EventPlaces

LEMMA ReopenInductive ==
  ASSUME LifecycleInv, ReopenInv, TimesInv, [Next]_vars
  PROVE  ReopenInv'
<1>1. CASE \E c \in Cells, h \in Holders : Dispatch(c, h)
  BY <1>1, DispatchReopens
<1>2. CASE Working
  <2>1. CASE BeginAppend \/ MaterializeLine \/ MaterializeHead \/ FinishAppend
    BY <2>1, BeginAppendReopens, MaterializeLineReopens, MaterializeHeadReopens, FinishAppendReopens
  <2>2. CASE DirectoryOperation \/ DirectoryLine \/ DirectoryHead
    BY <2>2, DirectoryOperationReopens, DirectoryLineReopens, DirectoryHeadReopens
  <2>3. CASE Acquire \/ Finalize
    BY <2>3, AcquireReopens, FinalizeReopens
  <2>4. CASE Resume \/ ReconcilePending \/ AcknowledgePending \/ Arm \/ BeginDue \/ FreshAuthority
    BY <2>4, ProductionReopens
  <2>5. CASE EventHead \/ EventLine \/ EventBoundary
    BY <2>5, EventStepReopens
  <2>6. CASE EventCommit
    BY <2>6, EventCommitReopens
  <2> QED BY <1>2, <2>1, <2>2, <2>3, <2>4, <2>5, <2>6 DEF Working
<1>3. CASE BudgetSpent
  BY <1>3, ProductionReopens
<1>4. CASE Reopening
  BY <1>4, DirectoryOpens, OpenUniverseReopens, ReconcileReopens, OpenedReopens, RepairWorldReopens,
     RepairLifeReopens, BootstrapReopens
  DEF Reopening
<1>5. CASE Tick \/ ClockBack \/ UNCHANGED vars
  <2>1. UNCHANGED <<disk, mem, run>>
    BY <1>5 DEF Tick, ClockBack, vars, disk
  <2> QED BY <2>1, WaitingReopens
<1>6. CASE Crash \/ Close
  BY <1>6, CrashReopens
<1> QED BY <1>1, <1>2, <1>3, <1>4, <1>5, <1>6 DEF Next

\* At every point of a dispatch, of a failed write and of an opening, each
\* record that an open could come to rely on fits the directory and the world,
\* as they are and as a write under way will leave them (protocol19_install.rs).
THEOREM ReopenInvariant == Spec => [](ReopenInv /\ TimesInv)
<1>1. Init => ReopenInv /\ TimesInv
  BY ReopenInitially
<1>2. LifecycleInv /\ (ReopenInv /\ TimesInv) /\ [Next]_vars => (ReopenInv /\ TimesInv)'
  <2>1. LifecycleInv => RunShape
    BY DEF LifecycleInv
  <2> QED BY <2>1, ReopenInductive, TimesInductive
<1> QED BY <1>1, <1>2, LifecycleInvariant, PTL DEF Spec

-----------------------------------------------------------------------------
(* What the invariant says of the files *)

\* The files have their types.
LEMMA FilesTyped ==
  ASSUME FilesInv, TimesInv
  PROVE  TypeOK
<1>1. ASSUME NEW c \in Cells
      PROVE  /\ life[c].files \in {"absent", "history", "pair"}
             /\ life[c].at # Nil => ValidRecord(life[c].at)
             /\ wal # Nil => wal.cells[c] \in Nat
  BY DEF FilesInv, JournalOk
<1>2. ASSUME NEW c \in Cells
      PROVE  /\ world[c].tail \in EventTails /\ world[c].log \in Seq(Events)
             /\ IF world[c].tail = "clean" THEN world[c].event = Nil ELSE world[c].event \in Events
  <2>1. world[c] \in Worlds
    BY DEF FilesInv, WorldOk
  <2> QED BY <2>1 DEF Worlds
<1>3. /\ dir.head \in 1..Len(dir.log) /\ dir.torn \in BOOLEAN
      /\ \A i \in DOMAIN dir.log : dir.log[i].rev = i /\ ValidDocument(dir.log[i])
  BY Zenon DEF FilesInv, DirectoryOk
<1> QED BY <1>1, <1>2, <1>3, Zenon DEF TypeOK, TimesInv

\* The record that a recovery leaves is one that an open can rely on.
LEMMA RecoveredFits ==
  ASSUME NEW c, NEW l, NEW u, NEW log, NEW w, JournalOk(c, l, u, log, w), RecoveredRecord(l) # Nil
  PROVE  /\ RecoveredRecord(l) \in RecordsOf(c, l, u)
         /\ Fits(RecoveredRecord(l), c, Last(log), w)
<1>1. CASE l.tail \in {Nil, TornLine}
  BY <1>1 DEF JournalOk, RecoveredRecord, RecordsOf
<1>2. CASE l.tail \notin {Nil, TornLine}
  BY <1>2 DEF JournalOk, RecoveredRecord, RecordsOf
<1> QED BY <1>1, <1>2

\* The lifecycle journal of a cell is accepted ...
LEMMA JournalAccepted ==
  ASSUME FilesInv, NEW c \in Cells
  PROVE  LifePreflight(c)
<1> DEFINE l == life[c]
           r == RecoveredRecord(l)
<1>1. JournalOk(c, l, wal, dir.log, world[c])
  BY DEF FilesInv
<1>2. l.tail \notin {Nil, TornLine} => PrepareOk(l.at, l.tail, dir.log, c)
  BY <1>1 DEF JournalOk
<1>3. l.at = Nil /\ r # Nil => r = InitialRecord(c, dir.log[1])
  <2>1. SUFFICES ASSUME l.at = Nil, r # Nil PROVE r = InitialRecord(c, dir.log[1])
    OBVIOUS
  <2>2. l.tail \notin {Nil, TornLine} /\ r = l.tail
    BY <2>1 DEF RecoveredRecord
  <2>3. Pends(c, wal) /\ r = wal.pending.rec
    BY <1>1, <2>2 DEF JournalOk
  <2> QED BY <1>1, <2>1, <2>3 DEF JournalOk
<1>4. r # Nil => RecoveryView(r, Last(dir.log), c, FrontierOf(c, RecoveredLog(world[c])))
  BY <1>1, RecoveredFits DEF Fits
<1> QED BY <1>2, <1>3, <1>4 DEF LifePreflight

\* ... and so is what the write-ahead head says of the cell.
LEMMA HeadAccepted ==
  ASSUME FilesInv, wal # Nil, NEW c \in Cells
  PROVE  CommitmentAccepted(c)
<1> DEFINE l == life[c]
           r == RecoveredRecord(l)
<1>1. JournalOk(c, l, wal, dir.log, world[c])
  BY DEF FilesInv
<1>2. CASE Pends(c, wal)
  <2>1. wal.pending # Nil /\ wal.pending.cell = c
    BY <1>2 DEF Pends
  <2>2. wal.pending.rec # Nil
    BY <1>1, <1>2, SoundTypes DEF JournalOk, Fits
  <2>3. r \in {l.at, wal.pending.rec}
    BY <1>1 DEF RecoveredRecord, JournalOk
  <2>4. \/ l.at = wal.pending.rec
        \/ l.at # Nil /\ l.at.rev = wal.pending.prior
        \/ l.at = Nil /\ wal.pending.prior = 0
    BY <1>1, <1>2 DEF JournalOk
  <2> HIDE DEF r
  <2>5. \/ wal.pending.prior = 0 /\ r = Nil
        \/ r # Nil /\ r.rev \in {wal.pending.prior, wal.pending.rec.rev}
    BY <2>2, <2>3, <2>4
  <2> QED BY <2>1, <2>5 DEF CommitmentAccepted, Bootstrapping, r
<1>3. CASE ~Pends(c, wal)
  <2>1. l.tail = Nil /\ r = l.at /\ wal.cells[c] \in Nat
    BY <1>1, <1>3 DEF JournalOk, RecoveredRecord
  <2>2. IF wal.cells[c] = 0 THEN l.files = "absent" ELSE l.at # Nil /\ l.at.rev = wal.cells[c]
    BY <1>1, <1>3 DEF JournalOk
  <2>3. ~(wal.pending # Nil /\ wal.pending.cell = c)
    BY <1>3 DEF Pends
  <2>4. wal.cells[c] = 0 \/ wal.cells[c] > 0
    BY <2>1
  <2> QED BY <2>1, <2>2, <2>3, <2>4 DEF CommitmentAccepted, Bootstrapping, Absent
<1> QED BY <1>2, <1>3

\* The preflight of an open accepts all files together.
LEMMA FilesAccepted ==
  ASSUME FilesInv
  PROVE  AlwaysReopens
<1>1. DirectoryPreflight
  BY DEF FilesInv, DirectoryOk, DirectoryPreflight
<1>2. ASSUME NEW c \in Cells
      PROVE  WorldPreflight(c)
  <2>1. \A i \in DOMAIN RecoveredLog(world[c]) : Authentic(c, RecoveredLog(world[c])[i], dir.log)
    BY DEF FilesInv, WorldOk
  <2> QED BY <2>1 DEF WorldPreflight, EventAuthority, Authentic
<1>3. wal = Nil => \A c \in Cells : Absent(life[c])
  BY DEF FilesInv, JournalOk, Absent
<1> QED BY <1>1, <1>2, <1>3, JournalAccepted, HeadAccepted DEF AlwaysReopens, PreflightOk

\* What is recovered is on its schedule, so what is committed is.
LEMMA CommittedOnSchedule ==
  ASSUME FilesInv
  PROVE  ProductionOnSchedule
<1>1. SUFFICES ASSUME NEW c \in Cells PROVE OnSchedule(c, world[c].log)
  BY DEF ProductionOnSchedule, OnSchedule
<1> DEFINE w == world[c]
           log == w.log
<1>2. w \in Worlds /\ OnSchedule(c, RecoveredLog(w))
  BY DEF FilesInv, WorldOk
<1>3. log \in Seq(Events) /\ w.event \in Events \cup {Nil}
  BY <1>2 DEF Worlds
<1>4. CASE RecoveredLog(w) = log
  BY <1>2, <1>4
<1>5. CASE RecoveredLog(w) = Append(log, w.event)
  <2> HIDE DEF log
  <2>1. ASSUME NEW e, NEW i \in DOMAIN log
        PROVE  /\ i \in Nat \ {0} /\ i \in DOMAIN Append(log, e) /\ Append(log, e)[i] = log[i]
               /\ i > 1 => i - 1 \in DOMAIN log /\ Append(log, e)[i - 1] = log[i - 1]
    BY <1>3
  <2>2. OnSchedule(c, log)
    BY <1>2, <1>5, <2>1 DEF OnSchedule
  <2> QED BY <2>2 DEF log
<1> QED BY <1>4, <1>5 DEF RecoveredLog

\* A cell is given up only when it has nothing left to do.
LEMMA GivenUpIdle ==
  ASSUME FilesInv
  PROVE  ReleasedIsIdle
<1>1. SUFFICES ASSUME NEW c \in Cells, life[c].at # Nil, life[c].at.gen > 1, life[c].at.mode # "Background"
               PROVE  /\ Len(world[c].log) >= Work[c] /\ life[c].at.pending = Nil
                      /\ life[c].at.ack = FrontierOf(c, world[c].log).ack
  BY DEF ReleasedIsIdle
<1> DEFINE r == life[c].at
           w == world[c]
<1>2. Fits(r, c, Last(dir.log), w)
  BY <1>1 DEF FilesInv, JournalOk
<1>3. r.pending = Nil /\ w.tail \notin LateTails /\ Len(w.log) >= Work[c]
  BY <1>1, <1>2 DEF Fits, Sound
<1>4. RecoveredLog(w) = w.log
  BY <1>3 DEF RecoveredLog, LateTails
<1>5. SameWorld(r, FrontierOf(c, w.log))
  BY <1>2, <1>3, <1>4 DEF Fits, RecoveryView, WorldOrPendingSuccessor, PendingSuccessor
<1>6. FrontierOf(c, w.log).ack = r.ack
  BY <1>5 DEF SameWorld, WorldFrontier, Frontier
<1> QED BY <1>3, <1>6

\* Wherever the process stops, and whatever its last write left, the preflight
\* of open_with_lifecycle_initialization_failpoint (protocol19_install.rs)
\* accepts the directory, the write-ahead head, every lifecycle journal and
\* every event journal together.  For every number of cells and workers, and
\* wherever crashes, failed and torn writes and clock rollbacks fall.
THEOREM FilesReopenCorrect == Spec => []FilesReopen
<1>1. ReopenInv /\ TimesInv => FilesReopen
  BY FilesTyped, FilesAccepted DEF ReopenInv, FilesReopen
<1> QED BY <1>1, ReopenInvariant, PTL

\* dispatch_background_production (protocol19_install.rs) commits every quantum
\* once, a quantum apart, never before its time and under generations that only
\* grow, over every crash, failed write, recovery and clock rollback; and no
\* cell is released while it has work to run or a commit to acknowledge.
THEOREM ScheduleKeptCorrect == Spec => []ScheduleKept
<1>1. ReopenInv /\ TimesInv => ScheduleKept
  BY CommittedOnSchedule, GivenUpIdle DEF ReopenInv, ScheduleKept
<1> QED BY <1>1, ReopenInvariant, PTL

=============================================================================
