-------------------------- MODULE LifecycleRecord --------------------------
(***************************************************************************)
(* The lifecycle record of an activated cell (grid_handoff_v2/             *)
(* lifecycle_v2.rs): who holds the cell and until when, how far the world  *)
(* has been acknowledged, the production occurrence that is armed, and the *)
(* one authority operation or the one world commit that is under way.  The *)
(* module has no variables: a transition is a condition XOk on a record    *)
(* and the record X that it makes.  Sealing a record validates it          *)
(* (ValidRecord), so a transition can also be refused by what it would     *)
(* have written.                                                           *)
(*                                                                         *)
(* Hashes, schema numbers and the identity of universe, manifest and       *)
(* registry are left out: a world frontier is its event number, and the    *)
(* hash of a record its revision, because each journal has one writer.     *)
(***************************************************************************)
EXTENDS GridDirectory

CONSTANTS
  Quantum,   \* PRODUCTION_QUANTUM_MILLIS
  Lease,     \* AUTHORITY_DURATION_MILLIS
  Margin,    \* EVENT_APPEND_LEASE_MARGIN_MILLIS
  Genesis    \* cell -> the frontier and trusted time that the migration left

ASSUME LifecycleAssumption ==
  /\ Quantum \in Nat \ {0} /\ Lease \in Nat \ {0} /\ Margin \in 0..Lease
  /\ \A c \in Cells : Genesis[c] \in [ev : Nat, ack : Nat, sched : Nat, cutoff : Nat]
  /\ \A c \in Cells : Genesis[c].ack = 0 => Genesis[c].sched = 0

Kinds == {"Claim", "Recovery", "Release"}
Modes == {"Sleeping", "Background", "Draining"}
NoExpiry == 0
\* An optional record that is absent.
Nil == [absent |-> TRUE]

\* LifecycleWorldFrontierV2.
Frontier(ev, ack, sched) == [ev |-> ev, ack |-> ack, sched |-> sched]
WorldFrontier(r) == Frontier(r.ev, r.ack, r.sched)
InstallFrontier(r, f) == [r EXCEPT !.ev = f.ev, !.sched = f.sched]
Occurrence(f, at) == [seq |-> f.ack + 1, at |-> at]

\* The first runtime record, over the sleeping assignment of the genesis document.
InitialOk(c, doc) == doc.rev = GenesisDocument.rev /\ doc.assign[c] = GenesisDocument.assign[c]
InitialRecord(c, doc) ==
  [rev |-> 2, desired |-> "Sleeping", mode |-> "Sleeping", dirRev |-> doc.rev,
   gen |-> CellGen(doc, c), fence |-> Fence(doc, c), holder |-> None, exp |-> NoExpiry,
   trusted |-> Genesis[c].cutoff, ev |-> Genesis[c].ev, ack |-> Genesis[c].ack,
   sched |-> Genesis[c].sched, next |-> Nil, op |-> Nil, pending |-> Nil]

-----------------------------------------------------------------------------
(* What a sealed record has to satisfy *)

\* An armed occurrence is the next cursor; once something has been committed
\* an armed record allows only the next quantum after it.
ValidOccurrence(o, r, f) ==
  /\ o.seq = f.ack + 1 /\ o.at > 0
  /\ r.next # Nil /\ f.ack > 0 => o.at = f.sched + Quantum

\* The mode and the operation under way.
ShapeValid(r) ==
  CASE r.op = Nil ->
         r.mode \in {"Sleeping", "Background"} /\ r.desired = r.mode
    [] OTHER ->
         /\ r.op.gen = r.gen /\ r.op.at = r.trusted
         /\ \/ r.mode = "Sleeping" /\ r.op.kind = "Claim" /\ r.desired = "Background"
            \/ r.mode = "Background" /\ r.op.kind = "Recovery" /\ r.desired = "Background"
            \/ /\ r.mode = "Draining" /\ r.op.kind = "Release"
               /\ r.desired = "Sleeping" /\ r.holder = r.op.holder

ValidRecord(r) ==
  /\ r.rev >= 2 /\ r.trusted > 0
  /\ (r.mode = "Sleeping") <=> (r.holder = None)
  /\ (r.mode = "Sleeping") <=> (r.exp = NoExpiry)
  /\ r.ack <= r.ev
  /\ r.next # Nil => ValidOccurrence(r.next, r, WorldFrontier(r))
  /\ r.pending # Nil => r.next = r.pending.occ /\ r.pending.prior = r.ev
  /\ ShapeValid(r)

-----------------------------------------------------------------------------
(* Frontiers and authority *)

MonotonicTime(now, r) == now >= r.trusted
Successor(r, now) == [r EXCEPT !.rev = @ + 1, !.trusted = now]

SameWorld(r, f) == f = WorldFrontier(r)
\* The world is one exact event ahead: the pending occurrence has committed.
PendingSuccessor(r, f) ==
  /\ r.pending # Nil
  /\ f.ev = r.pending.prior + 1 /\ f.ack = r.pending.occ.seq /\ f.sched = r.pending.occ.at
WorldOrPendingSuccessor(r, f) == SameWorld(r, f) \/ PendingSuccessor(r, f)

SameAssignment(r, doc, c) == CellGen(doc, c) = r.gen /\ Fence(doc, c) = r.fence
\* require_assignment_identity
AssignmentIdentity(r, doc, c) == doc.assign[c].state = "Assigned" /\ SameAssignment(r, doc, c)
\* require_exact_frontiers
ExactFrontiers(r, doc, c, f) == SameWorld(r, f) /\ SameAssignment(r, doc, c)

LiveAuthority(r, doc, c, now) ==
  /\ AssignmentIdentity(r, doc, c)
  /\ r.mode = "Background" /\ r.op = Nil
  /\ r.holder = doc.assign[c].holder /\ now < r.exp
LeaseMargin(now, r) == now + Margin <= r.exp
\* Mutant: a clock that runs back is not noticed.
EventAppendAuthorityAnyTime(r, doc, c, now, f) ==
  /\ LiveAuthority(r, doc, c, now) /\ LeaseMargin(now, r)
  /\ SameWorld(r, f) /\ r.pending # Nil
EventAppendAuthority(r, doc, c, now, f) ==
  /\ MonotonicTime(now, r)
  /\ LiveAuthority(r, doc, c, now) /\ LeaseMargin(now, r)
  /\ SameWorld(r, f) /\ r.pending # Nil

-----------------------------------------------------------------------------
(* The transitions; each ends in seal() *)

Seals(r, now, n) == MonotonicTime(now, r) /\ ValidRecord(n)

\* request_authority: the state of the directory each kind starts from.
StartState(kind) == IF kind = "Claim" THEN "Sleeping" ELSE "Assigned"
Request(r, doc, c, kind, h, now) ==
  [Successor(r, now) EXCEPT
     !.desired = IF kind = "Release" THEN "Sleeping" ELSE "Background",
     !.mode = IF kind = "Release" THEN "Draining" ELSE @,
     !.op = [kind |-> kind, gen |-> CellGen(doc, c), holder |-> h, at |-> now]]
RequestOk(r, doc, c, kind, h, now, f) ==
  /\ IF kind = "Recovery" /\ r.pending # Nil
     THEN AssignmentIdentity(r, doc, c) /\ (f.ev = r.pending.prior \/ PendingSuccessor(r, f))
     ELSE ExactFrontiers(r, doc, c, f)
  /\ r.op = Nil /\ (r.pending # Nil => kind = "Recovery")
  /\ doc.assign[c].state = StartState(kind)
  /\ kind = "Release" => doc.assign[c].holder = h
  /\ Seals(r, now, Request(r, doc, c, kind, h, now))

\* finalize_assigned: the frontier of a pending commit stays at its prior.
FinalizeAssigned(r, doc, c, now, f) ==
  LET n == [Successor(r, now) EXCEPT
              !.mode = "Background", !.dirRev = doc.rev, !.gen = CellGen(doc, c),
              !.fence = Fence(doc, c), !.holder = doc.assign[c].holder,
              !.exp = now + Lease, !.op = Nil]
  IN IF SameWorld(r, f) THEN InstallFrontier(n, f) ELSE n
FinalizeAssignedOk(r, doc, c, now, f) ==
  /\ r.op # Nil /\ r.op.kind \in {"Claim", "Recovery"}
  /\ doc.assign[c].state = "Assigned" /\ doc.assign[c].holder = r.op.holder
  /\ CellGen(doc, c) = r.op.gen + 1
  /\ WorldOrPendingSuccessor(r, f)
  /\ Seals(r, now, FinalizeAssigned(r, doc, c, now, f))

\* finalize_sleeping
FinalizeSleeping(r, doc, c, now, f) ==
  InstallFrontier([Successor(r, now) EXCEPT
     !.mode = "Sleeping", !.dirRev = doc.rev, !.gen = CellGen(doc, c),
     !.fence = Fence(doc, c), !.holder = None, !.exp = NoExpiry,
     !.op = Nil, !.pending = Nil], f)
FinalizeSleepingOk(r, doc, c, now, f) ==
  /\ r.op # Nil /\ r.op.kind = "Release"
  /\ doc.assign[c].state = "Sleeping" /\ CellGen(doc, c) = r.op.gen
  /\ SameWorld(r, f)
  /\ Seals(r, now, FinalizeSleeping(r, doc, c, now, f))

\* renew_and_set_schedule: a fresh lease, and the occurrence to arm (or Nil).
Renew(r, doc, c, now, f, next) ==
  InstallFrontier([Successor(r, now) EXCEPT
     !.dirRev = doc.rev, !.exp = now + Lease, !.next = next], f)
RenewOk(r, doc, c, now, f, next) ==
  /\ LiveAuthority(r, doc, c, now) /\ SameWorld(r, f)
  /\ next # Nil => ValidOccurrence(next, r, f)
  /\ Seals(r, now, Renew(r, doc, c, now, f, next))

\* begin_world_commit: the intent to write the armed occurrence to the world.
BeginCommit(r, now, f) ==
  [Successor(r, now) EXCEPT !.pending = [occ |-> r.next, prior |-> f.ev]]
BeginCommitOk(r, doc, c, now, f) ==
  /\ LiveAuthority(r, doc, c, now) /\ SameWorld(r, f)
  /\ r.next # Nil /\ r.next.at <= now /\ r.pending = Nil
  /\ Seals(r, now, BeginCommit(r, now, f))

\* acknowledge_world_commit: the world holds exactly the pending occurrence.
Acknowledge(r, now, f, next) ==
  InstallFrontier([Successor(r, now) EXCEPT
     !.pending = Nil, !.ack = f.ack, !.next = next], f)
AcknowledgeOk(r, doc, c, now, f, next) ==
  /\ LiveAuthority(r, doc, c, now) /\ PendingSuccessor(r, f)
  /\ Seals(r, now, Acknowledge(r, now, f, next))

-----------------------------------------------------------------------------
(* Replay *)

\* A record is authenticated by the directory document that it names.
DirectoryBinding(r, history, c) ==
  /\ r.dirRev \in DOMAIN history
  /\ LET a == history[r.dirRev].assign[c] IN
     /\ SameAssignment(r, history[r.dirRev], c)
     /\ IF a.state = "Assigned" THEN r.holder = a.holder ELSE r.holder = None

\* validate_exact_successor: n is what the state machine makes of r, over the
\* directory document n names and the frontier r recorded.
ExactSuccessor(r, n, history, c) ==
  LET doc == history[n.dirRev]
      f   == WorldFrontier(r)
      g   == WorldFrontier(n)
      now == n.trusted
  IN CASE r.op = Nil /\ n.op # Nil ->
            /\ RequestOk(r, doc, c, n.op.kind, n.op.holder, now, f)
            /\ n = Request(r, doc, c, n.op.kind, n.op.holder, now)
       [] r.op # Nil /\ n.op = Nil /\ r.op.kind = "Release" ->
            FinalizeSleepingOk(r, doc, c, now, f) /\ n = FinalizeSleeping(r, doc, c, now, f)
       [] r.op # Nil /\ n.op = Nil /\ r.op.kind # "Release" ->
            FinalizeAssignedOk(r, doc, c, now, f) /\ n = FinalizeAssigned(r, doc, c, now, f)
       [] r.op = Nil /\ n.op = Nil /\ r.pending = Nil /\ n.pending = Nil ->
            RenewOk(r, doc, c, now, f, n.next) /\ n = Renew(r, doc, c, now, f, n.next)
       [] r.op = Nil /\ n.op = Nil /\ r.pending = Nil /\ n.pending # Nil ->
            BeginCommitOk(r, doc, c, now, f) /\ n = BeginCommit(r, now, f)
       [] r.op = Nil /\ n.op = Nil /\ r.pending # Nil /\ n.pending = Nil ->
            AcknowledgeOk(r, doc, c, now, g, n.next) /\ n = Acknowledge(r, now, g, n.next)
       [] OTHER -> FALSE

\* prepare_append: a record the journal that ends in r (Nil: empty) accepts.
PrepareOk(r, n, history, c) ==
  /\ ValidRecord(n) /\ DirectoryBinding(n, history, c)
  /\ IF r = Nil THEN n.rev = 2 ELSE n.rev = r.rev + 1 /\ ExactSuccessor(r, n, history, c)

\* validate_recovery_view: the directory is exactly where the record, or the
\* operation it asks for, puts it; and so is the world.
RecoveryView(r, doc, c, f) ==
  LET a == doc.assign[c] IN
  /\ WorldOrPendingSuccessor(r, f)
  /\ CASE r.op = Nil /\ r.mode = "Sleeping" -> a.state = "Sleeping" /\ SameAssignment(r, doc, c)
       [] r.op = Nil /\ r.mode # "Sleeping" ->
            AssignmentIdentity(r, doc, c) /\ a.holder = r.holder
       [] r.op # Nil /\ r.op.kind \in {"Claim", "Recovery"} ->
            \/ a.state = StartState(r.op.kind) /\ CellGen(doc, c) = r.op.gen /\ Fence(doc, c) = r.fence
            \/ /\ a.state = "Assigned" /\ a.holder = r.op.holder
               /\ CellGen(doc, c) = r.op.gen + 1 /\ Fence(doc, c) = r.fence + 1
       [] OTHER ->
            /\ CellGen(doc, c) = r.op.gen /\ Fence(doc, c) = r.fence
            /\ \/ a.state = "Assigned" /\ a.holder = r.op.holder
               \/ a.state = "Sleeping"
=============================================================================
