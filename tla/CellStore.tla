----------------------------- MODULE CellStore -----------------------------
(***************************************************************************)
(* The durable store of one simulation cell and the runtime that owns it   *)
(* (crates/verse-simulation/src/persistence.rs, Store; engine.rs, the      *)
(* lifecycle half of Runtime; services/simulation-worker, the host loop).  *)
(*                                                                         *)
(* Four files survive a crash: the lifecycle record lc, replaced           *)
(* atomically; the event journal and the transfer-boundary journal, lines  *)
(* appended and synced, whose last line a crash can leave torn; and the    *)
(* snapshot snap, replaced atomically.  An operation of the code is a      *)
(* sequence of durable writes.  Its first write is the operation's action  *)
(* and the others wait in todo, one action each, so that a crash can fall  *)
(* between any two.  Memory is lost with the process.                      *)
(*                                                                         *)
(* Abstractions.  A world is the prefix of the journal it was replayed     *)
(* from; of its state only the production clock and whether production is  *)
(* runnable matter here, and an event carries what it makes of the latter. *)
(* A hash stands for what it is the hash of: an event hash for the event,  *)
(* the head of the boundary chain for the boundaries up to it.  One unit   *)
(* of time is the 1000 ms of Quantum.  An operation that returns an I/O    *)
(* error has written all, part or nothing of one file and the runtime is   *)
(* then halted or dropped: Crash and Tear.  The desired mode, revision and *)
(* holder id of the record decide nothing and are left out.                *)
(***************************************************************************)
EXTENDS Integers, Sequences, FiniteSets

CONSTANTS
    Keys,            \* transfer boundary keys: transfer id and kind
    NoKey,           \* the key of an event that is no transfer boundary
    Quantum,         \* the production period, 1000 ms
    LeaseDuration,   \* LEASE_DURATION_MILLIS
    RenewalInterval, \* LEASE_RENEWAL_INTERVAL_MILLIS
    SafetyMargin,    \* LEASE_WRITE_SAFETY_MARGIN_MILLIS
    Tolerance,       \* TRUSTED_CLOCK_ROLLBACK_TOLERANCE_MILLIS
    MaxFence,        \* the last fencing token (u64::MAX)
    MaxTime,         \* bound on the clock
    MaxIntents       \* bound on the events that are not production quanta

ASSUME StoreAssumption ==
    /\ Quantum \in Nat \ {0}
    /\ {LeaseDuration, RenewalInterval, SafetyMargin} \subseteq Nat \ {0}
    /\ SafetyMargin < LeaseDuration
    /\ Tolerance \in Nat
    /\ {MaxFence, MaxIntents} \subseteq Nat
    /\ MaxTime \in Nat \ {0}
    /\ NoKey \notin Keys

VARIABLES
    clock,      \* the clock the store samples
    lc,         \* lifecycle.json
    journal,    \* the event journal
    bnd,        \* the transfer-boundary journal
    snap,       \* the snapshot: its event sequence and fencing token
    host,       \* what the worker process has of the runtime
    todo,       \* the durable writes the current operation still makes
    mem,        \* Store::lifecycle
    world,      \* Runtime::state.event_sequence
    trusted,    \* Store::last_trusted_unix_ms
    recovered   \* Store::recovered_observed_mode, while the store opens

vars == <<clock, lc, journal, bnd, snap, host, todo, mem, world, trusted,
          recovered>>
disk == <<lc, journal, bnd, snap>>
-----------------------------------------------------------------------------
Larger(a, b) == IF a >= b THEN a ELSE b
NoTime == 0
Times == 0 .. MaxTime + LeaseDuration + Quantum
Modes == {"Sleeping", "Activating", "Background", "Active", "Draining"}
HostStates == {"down", "asleep", "opening", "waking", "up"}
Live == {"opening", "waking", "up"}

\* CanonicalEvent; at is occurred_at_unix_ms, runnable what
\* background_production_is_runnable answers in the state after it.
Event == [kind : {"intent", "transfer", "quantum"}, fence : 1 .. MaxFence,
          at : Times, runnable : BOOLEAN, key : Keys \cup {NoKey}]
NoEvent == [kind |-> "none", fence |-> 0, at |-> NoTime, runnable |-> FALSE,
            key |-> NoKey]
TornLine == [NoEvent EXCEPT !.kind = "torn"]
TornBoundary == 0

\* ProductionScheduleOccurrence, or none.
Occurrence == [seq : Nat, at : Times]
NoOccurrence == [seq |-> 0, at |-> NoTime]

\* PendingWorldCommit, or none: seq is 0.
NoPending == [seq |-> 0, event |-> NoEvent, prior |-> NoOccurrence,
              result |-> NoOccurrence]

\* CellLifecycleRecord; mode is observed_mode, last the event of the
\* frontier, head the boundary chain up to its head, and a record of mode
\* "Missing" no file.
NoLifecycle == [mode |-> "Missing", fence |-> 0, renewed |-> NoTime,
                expires |-> NoTime, cutoff |-> NoTime, lastTrusted |-> NoTime,
                seq |-> 0, last |-> NoEvent, head |-> <<>>,
                next |-> NoOccurrence, ack |-> 0, pending |-> NoPending]

\* What a reader keeps of an appended file: the unterminated tail is cut.
Terminated(lines, torn) ==
    IF lines # <<>> /\ lines[Len(lines)] = torn
    THEN SubSeq(lines, 1, Len(lines) - 1)
    ELSE lines

Lines == Terminated(journal, TornLine)
Boundaries == Terminated(bnd, TornBoundary)

StartsWith(s, prefix) ==
    Len(prefix) <= Len(s) /\ SubSeq(s, 1, Len(prefix)) = prefix
-----------------------------------------------------------------------------
(***************************************************************************)
(* The production clock of the world that j[1 .. n] replays to.            *)
(***************************************************************************)
QuantaIn(j, n) == {i \in 1 .. n : j[i].kind = "quantum"}

\* production_clock.last_committed_quantum_sequence
Committed(j, n) == Cardinality(QuantaIn(j, n))

\* production_clock.last_scheduled_for_unix_ms
LastScheduled(j, n) ==
    LET q == QuantaIn(j, n)
    IN IF q = {} THEN NoTime
       ELSE j[CHOOSE i \in q : \A k \in q : k <= i].at

\* background_production_is_runnable
Runnable(j, n) == n > 0 /\ j[n].runnable

\* resulting_next_production_occurrence, for event e applied to j[1 .. n].
ResultingNext(j, n, e, next) ==
    LET after == Append(SubSeq(j, 1, n), e)
        seq == Committed(after, n + 1) + 1
    IN IF ~e.runnable THEN NoOccurrence
       ELSE IF e.kind = "quantum" THEN [seq |-> seq, at |-> e.at + Quantum]
       ELSE IF Runnable(j, n) THEN next
       ELSE [seq |-> seq,
             at |-> Larger(e.at, LastScheduled(after, n + 1)) + Quantum]

\* validate_next_production_occurrence
NextOccurrenceValid(j, n, o) ==
    /\ o.seq = Committed(j, n) + 1
    /\ Committed(j, n) > 0 => o.at >= LastScheduled(j, n) + Quantum
-----------------------------------------------------------------------------
(***************************************************************************)
(* What an opening store demands of the files it finds.                    *)
(***************************************************************************)
\* validate_prior_lifecycle
PriorLifecycleValid(l) ==
    /\ IF l.mode = "Sleeping"
       THEN l.renewed = NoTime /\ l.expires = NoTime /\ l.cutoff = NoTime
       ELSE /\ l.fence > 0
            /\ l.renewed # NoTime
            /\ l.renewed <= l.lastTrusted
            /\ l.lastTrusted < l.expires
            /\ IF l.mode = "Activating"
               THEN l.cutoff # NoTime /\ l.cutoff <= l.lastTrusted
               ELSE l.cutoff = NoTime
    /\ l.next # NoOccurrence => l.next.seq > l.ack
    /\ l.pending # NoPending => l.pending.seq > l.seq

\* The journal parses and no fencing token in it falls: the scan of
\* recover_persisted_fencing_frontier and of load_world.
HistoryReadable(j) ==
    /\ \A i \in 1 .. Len(j) : j[i].kind # "torn" /\ j[i].fence > 0
    /\ \A i \in 1 .. Len(j) : \A k \in 1 .. i : j[k].fence <= j[i].fence

\* recover_persisted_fencing_frontier
PersistedFence(j, s) ==
    Larger(s.fence, IF j = <<>> THEN 0 ELSE j[Len(j)].fence)

\* The snapshot's fencing token separates the events it covers from those
\* that follow it.
SnapshotFenceConsistent(j, s) ==
    \A i \in 1 .. Len(j) : IF i <= s.seq THEN j[i].fence <= s.fence
                                         ELSE j[i].fence >= s.fence

\* load_world_before_lifecycle_reconciliation for a store that holds fence.
WorldLoads(j, s, fence) ==
    /\ HistoryReadable(j)
    /\ SnapshotFenceConsistent(j, s)
    /\ s.seq <= Len(j)
    /\ fence > PersistedFence(j, s)

TransferEvents(j) == {i \in 1 .. Len(j) : j[i].kind = "transfer"}
InFile(b) == {b[i] : i \in 1 .. Len(b)}

\* The early return of load_transfer_boundaries: no boundary was ever
\* written, and none is pending.
NoBoundaryKnown(l, j, b) ==
    /\ l.head = <<>>
    /\ b = <<>>
    /\ ~ \E i \in TransferEvents(j) :
            l.pending # NoPending /\ j[i] = l.pending.event

\* The boundary file, read against the journal and the record.
BoundaryFileValid(l, j, b) ==
    /\ InFile(b) \subseteq TransferEvents(j)
    /\ \A i \in 2 .. Len(b) : b[i - 1] < b[i]
    /\ StartsWith(b, l.head)
    /\ b # l.head =>
          /\ Len(b) = Len(l.head) + 1
          /\ l.pending.seq = b[Len(b)]
          /\ l.pending.event = j[b[Len(b)]]

\* Boundaries of replayed events that the file lacks.
MissingBoundaries(j, b, s) ==
    {i \in TransferEvents(j) : i > s.seq /\ i \notin InFile(b)}

\* Only the pending commit may lack its boundary.
BackfillAllowed(l, j, b, s) ==
    /\ \A i \in TransferEvents(j) : i <= s.seq => i \in InFile(b)
    /\ \A i \in MissingBoundaries(j, b, s) :
          /\ MissingBoundaries(j, b, s) = {i}
          /\ l.pending # NoPending
          /\ l.pending.event = j[i]

\* load_transfer_boundaries succeeds,
BoundariesLoad(l, j, b, s) ==
    \/ NoBoundaryKnown(l, j, b)
    \/ BoundaryFileValid(l, j, b) /\ BackfillAllowed(l, j, b, s)

\* and this is the file it leaves.
BackfilledBoundaries(l, j, b, s) ==
    IF NoBoundaryKnown(l, j, b) \/ MissingBoundaries(j, b, s) = {} THEN b
    ELSE Append(b, CHOOSE i \in MissingBoundaries(j, b, s) : TRUE)

\* The schedule a pending commit resolves to in the world of j.
ResolvedNext(l, j) ==
    IF l.pending = NoPending THEN l.next
    ELSE IF Len(j) < l.pending.seq THEN l.pending.prior
    ELSE l.pending.result

\* reconcile_lifecycle_with_world: the pending commit is this world's last
\* event or has not happened,
PendingResolves(l, j) ==
    l.pending # NoPending =>
        \/ Len(j) < l.pending.seq
        \/ Len(j) = l.pending.seq /\ j[Len(j)] = l.pending.event

\* the recorded frontier is not ahead of the world,
FrontierAgrees(l, j) ==
    /\ l.seq <= Len(j)
    /\ l.seq = Len(j) /\ l.last # NoEvent => l.last = j[Len(j)]

\* and the schedule is the one the world's production clock demands.
ScheduleAgrees(l, j) ==
    LET next == ResolvedNext(l, j)
        done == Committed(j, Len(j))
    IN /\ l.ack <= done
       /\ next # NoOccurrence =>
             /\ Runnable(j, Len(j))
             /\ next.seq = done + 1
             /\ done > 0 => next.at = LastScheduled(j, Len(j)) + Quantum

Reconciles(l, j) ==
    PendingResolves(l, j) /\ FrontierAgrees(l, j) /\ ScheduleAgrees(l, j)

\* The schedule reconciliation records; a runnable world without one is
\* armed from now.
ReconciledNext(l, j, now) ==
    IF ResolvedNext(l, j) = NoOccurrence /\ Runnable(j, Len(j))
    THEN [seq |-> Committed(j, Len(j)) + 1, at |-> now + Quantum]
    ELSE ResolvedNext(l, j)

\* validate_frozen_event_archive
FrozenEventArchiveValid(j, s) ==
    /\ HistoryReadable(j)
    /\ SnapshotFenceConsistent(j, s)
    /\ s.seq <= Len(j)
    /\ \A i, k \in TransferEvents(j) : j[i].key = j[k].key => i = k

\* validate_frozen_transfer_archive
FrozenTransferArchiveValid(l, j, b) ==
    /\ InFile(b) = TransferEvents(j)
    /\ \A i \in 2 .. Len(b) : b[i - 1] < b[i]
    /\ l.head = b

\* FrozenProtocol18Cell::lock_existing, by a process that finds the lock
\* free and expects the fence of the record.
FrozenSourceAccepted ==
    /\ PriorLifecycleValid(lc)
    /\ lc.mode = "Sleeping"
    /\ lc.pending = NoPending
    /\ lc.fence # 0 /\ lc.lastTrusted # NoTime
    /\ FrozenEventArchiveValid(journal, snap)
    /\ lc.seq = Len(journal)
    /\ lc.last = IF journal = <<>> THEN NoEvent ELSE journal[Len(journal)]
    /\ PersistedFence(journal, snap) = lc.fence
    /\ lc.ack = Committed(journal, Len(journal))
    /\ lc.next = NoOccurrence
    /\ ~Runnable(journal, Len(journal))
    /\ FrozenTransferArchiveValid(lc, journal, bnd)
-----------------------------------------------------------------------------
(***************************************************************************)
(* Trusted time and the lease.                                             *)
(***************************************************************************)
\* accept_trusted_time
ClockAccepted(previous) == clock + Tolerance >= previous
Now == Larger(clock, trusted)

\* validate_live_lease_record: the file is the record this store wrote, and
\* its lease runs.
LeaseHeld ==
    /\ ClockAccepted(trusted)
    /\ lc = mem
    /\ mem.expires # NoTime
    /\ Now < mem.expires

\* maintain_live_lease, and so what verify_live_lease_for_write leaves.
Renewed ==
    IF \/ Now - mem.renewed >= RenewalInterval
       \/ mem.expires - Now < SafetyMargin
    THEN [mem EXCEPT !.renewed = Now, !.expires = Now + LeaseDuration,
                     !.lastTrusted = Now]
    ELSE mem

\* persist_lifecycle writes l unless the lease has run out meanwhile.
LeaseRunsUnchecked == ClockAccepted(trusted)
LeaseRuns == ClockAccepted(trusted) /\ Now < mem.expires
Persist(l) ==
    /\ lc' = [l EXCEPT !.lastTrusted = Now]
    /\ mem' = lc'
    /\ trusted' = Now

\* The record with its frontier at the runtime's state.
AtWorld(l) ==
    [l EXCEPT !.seq = world,
              !.last = IF world = 0 THEN NoEvent ELSE journal[world]]
-----------------------------------------------------------------------------
Init ==
    /\ clock = 1
    /\ lc = NoLifecycle
    /\ journal = <<>>
    /\ bnd = <<>>
    /\ snap = [seq |-> 0, fence |-> 0]
    /\ host = "down"
    /\ todo = <<>>
    /\ mem = NoLifecycle
    /\ world = 0
    /\ trusted = NoTime
    /\ recovered = "Missing"

\* The process is gone from the store; what it knew is lost.
Forget(h) ==
    /\ host' = h
    /\ todo' = <<>>
    /\ mem' = NoLifecycle
    /\ world' = 0
    /\ trusted' = NoTime
    /\ recovered' = "Missing"

Tick == clock < MaxTime /\ clock' = clock + 1
        /\ UNCHANGED <<disk, host, todo, mem, world, trusted, recovered>>

ClockBack == clock > 1 /\ clock' = clock - 1
             /\ UNCHANGED <<disk, host, todo, mem, world, trusted, recovered>>

Crash ==
    /\ host # "down"
    /\ Forget("down")
    /\ UNCHANGED <<clock, disk>>

\* A crash while a line is being appended leaves part of it.
Tear ==
    /\ host \in Live
    /\ todo # <<>>
    /\ \/ /\ Head(todo) = "append"
          /\ journal' = Append(journal, TornLine)
          /\ UNCHANGED bnd
       \/ /\ Head(todo) = "boundary"
          /\ bnd' = Append(bnd, TornBoundary)
          /\ UNCHANGED journal
       \/ /\ Head(todo) = "boundaries"
          /\ BoundariesLoad(mem, Lines, Boundaries, snap)
          /\ BackfilledBoundaries(mem, Lines, Boundaries, snap) # Boundaries
          /\ bnd' = Append(Boundaries, TornBoundary)
          /\ UNCHANGED journal
    /\ Forget("down")
    /\ UNCHANGED <<clock, lc, snap>>
-----------------------------------------------------------------------------
(***************************************************************************)
(* Opening: Store::open, load_world, and the engine's three ways to open.  *)
(* A worker process that starts opens its cell hosted, and gives it the    *)
(* mode it was found in; a process whose cell sleeps opens it to activate. *)
(***************************************************************************)
OpenAccepted ==
    /\ lc.mode # "Missing" => PriorLifecycleValid(lc)
    /\ HistoryReadable(Lines)
    /\ ClockAccepted(lc.lastTrusted)
    /\ Larger(lc.fence, PersistedFence(Lines, snap)) < MaxFence

\* An interrupted activation keeps its wake cut-off; any other open has a
\* new one.
WakeCutoff(now) == IF lc.mode = "Activating" THEN lc.cutoff ELSE now

\* open_for_cell_with_clock up to its first write.
Open ==
    /\ host \in {"down", "asleep"}
    /\ OpenAccepted
    /\ LET now == Larger(clock, lc.lastTrusted)
       IN /\ lc' = [lc EXCEPT
                !.mode = "Activating",
                !.fence = Larger(lc.fence, PersistedFence(Lines, snap)) + 1,
                !.renewed = now,
                !.expires = now + LeaseDuration,
                !.cutoff = WakeCutoff(now),
                !.lastTrusted = now]
          /\ trusted' = now
    /\ mem' = lc'
    /\ recovered' = lc.mode
    /\ host' = IF host = "down" THEN "opening" ELSE "waking"
    /\ todo' = <<"boundaries", "load", "reconcile">>
               \o (IF host = "down" THEN <<"restore">> ELSE <<>>)
    /\ UNCHANGED <<clock, journal, bnd, snap, world>>

\* The step at the head of todo is s; rest is what remains after it.
TakeStep(s, rest) ==
    /\ host \in Live
    /\ todo # <<>> /\ Head(todo) = s
    /\ todo' = rest
    /\ host' = IF rest = <<>> THEN "up" ELSE host
    /\ recovered' = IF rest = <<>> THEN "Missing" ELSE recovered

\* load_transfer_boundaries, the torn tail cut first.
LoadBoundaries ==
    /\ TakeStep("boundaries",
                IF BackfilledBoundaries(mem, Lines, Boundaries, snap) # mem.head
                THEN <<"head">> \o Tail(todo)
                ELSE Tail(todo))
    /\ BoundariesLoad(mem, Lines, Boundaries, snap)
    /\ bnd' = BackfilledBoundaries(mem, Lines, Boundaries, snap)
    /\ UNCHANGED <<clock, lc, journal, snap, mem, world, trusted>>

\* open_for_cell_with_clock records the recovered boundary head.
RecordHead ==
    /\ TakeStep("head", Tail(todo))
    /\ lc' = [mem EXCEPT !.head = bnd]
    /\ mem' = lc'
    /\ UNCHANGED <<clock, journal, bnd, snap, world, trusted>>

\* The journal load_world replays, and leaves in the file.
ReplayedJournalToFrontier == SubSeq(Lines, 1, mem.seq)
ReplayedJournal == Lines

\* load_world up to reconciliation: the torn tail is cut, the events are
\* replayed, and the lease maintainer's last renewal is made.
LoadWorld ==
    /\ TakeStep("load", Tail(todo))
    /\ WorldLoads(Lines, snap, mem.fence)
    /\ LeaseHeld
    /\ journal' = ReplayedJournal
    /\ world' = Len(journal')
    /\ lc' = Renewed
    /\ mem' = lc'
    /\ trusted' = Now
    /\ UNCHANGED <<clock, bnd, snap>>

\* reconcile_lifecycle_with_world; a genesis world is then saved at once.
Reconcile ==
    /\ TakeStep("reconcile",
                IF world = 0 THEN <<"snapshot", "frontier">> \o Tail(todo)
                             ELSE Tail(todo))
    /\ LeaseHeld
    /\ Reconciles(mem, journal)
    /\ Persist([AtWorld(mem) EXCEPT
                   !.pending = NoPending,
                   !.next = ReconciledNext(mem, journal, Now),
                   !.ack = Committed(journal, world)])
    /\ UNCHANGED <<clock, journal, bnd, snap, world>>

\* The mode a hosted open gives the cell back: restore_recovered_host_mode.
RestoredMode ==
    IF recovered = "Draining"
    THEN IF Runnable(journal, world) THEN "Background" ELSE "Sleeping"
    ELSE recovered

Restore ==
    /\ TakeStep("restore", IF RestoredMode = "Sleeping"
                           THEN <<"snapshot", "frontier", "sleep">>
                           ELSE Tail(todo))
    /\ \/ /\ RestoredMode = "Background"
          /\ LeaseHeld
          /\ Persist([AtWorld(Renewed) EXCEPT !.mode = "Background",
                                              !.cutoff = NoTime])
       \/ /\ RestoredMode # "Background"
          /\ UNCHANGED <<lc, mem, trusted>>
    /\ UNCHANGED <<clock, journal, bnd, snap, world>>
-----------------------------------------------------------------------------
(***************************************************************************)
(* save_snapshot is two writes; release_to_sleeping is a third.            *)
(***************************************************************************)
SaveSnapshot ==
    /\ TakeStep("snapshot", Tail(todo))
    /\ LeaseHeld
    /\ lc' = Renewed
    /\ mem' = lc'
    /\ trusted' = Now
    /\ snap' = [seq |-> world, fence |-> mem.fence]
    /\ UNCHANGED <<clock, journal, bnd, world>>

RecordFrontier ==
    /\ TakeStep("frontier", Tail(todo))
    /\ LeaseRuns
    /\ Persist(AtWorld(mem))
    /\ UNCHANGED <<clock, journal, bnd, snap, world>>

\* The lease is given up in the record, then the lock; the host drops the
\* runtime.
ReleaseToSleeping ==
    /\ host \in Live
    /\ todo = <<"sleep">>
    /\ ClockAccepted(trusted)
    /\ lc' = [AtWorld(mem) EXCEPT !.mode = "Sleeping", !.renewed = NoTime,
                                  !.expires = NoTime, !.cutoff = NoTime,
                                  !.lastTrusted = Now]
    /\ Forget("asleep")
    /\ UNCHANGED <<clock, journal, bnd, snap>>
-----------------------------------------------------------------------------
(***************************************************************************)
(* commit_world_event: the pending commit is staged, the event appended,   *)
(* its boundary appended, and the commit recorded.                         *)
(***************************************************************************)
Idle(modes) == host = "up" /\ todo = <<>> /\ mem.mode \in modes

\* after_event: a snapshot every so many events.
AfterEvent == {<<>>, <<"snapshot", "frontier">>}

Stage(e) ==
    /\ LeaseHeld
    /\ Persist([Renewed EXCEPT
                   !.pending = [seq |-> world + 1, event |-> e,
                                prior |-> mem.next,
                                result |-> ResultingNext(journal, world, e,
                                                         mem.next)]])
    /\ \E then \in AfterEvent :
          todo' = <<"append">>
                  \o (IF e.kind = "transfer" THEN <<"boundary">> ELSE <<>>)
                  \o <<"commit">>
                  \o (IF e.kind = "quantum" THEN <<"acknowledge">> ELSE <<>>)
                  \o then
    /\ UNCHANGED <<clock, journal, bnd, snap, host, world, recovered>>

\* execute_as: an event a player causes.
ExecuteIntent(runnable) ==
    /\ Idle({"Active"})
    /\ world - Committed(journal, world) < MaxIntents
    /\ runnable /\ Runnable(journal, world) => mem.next # NoOccurrence
    /\ Stage([kind |-> "intent", fence |-> mem.fence, at |-> Now,
              runnable |-> runnable, key |-> NoKey])

\* A boundary event of a player's transfer; production is not touched.
CommitTransfer(key) ==
    /\ Idle({"Active"})
    /\ world - Committed(journal, world) < MaxIntents
    /\ Stage([kind |-> "transfer", fence |-> mem.fence, at |-> Now,
              runnable |-> Runnable(journal, world), key |-> key])

\* One turn of advance_due_production_through: the occurrence that is due,
\* by now when Active or in Background, by the wake cut-off when Activating.
DueBy == IF mem.mode = "Activating" THEN mem.cutoff ELSE Now
ProductionDue == mem.next # NoOccurrence /\ mem.next.at <= DueBy

CommitQuantum(runnable) ==
    /\ Idle({"Active", "Background", "Activating"})
    /\ ProductionDue
    /\ NextOccurrenceValid(journal, world, mem.next)
    /\ Stage([kind |-> "quantum", fence |-> mem.fence, at |-> mem.next.at,
              runnable |-> runnable, key |-> NoKey])

\* append_event; a boundary of this key that is already indexed is refused.
KeyCommitted(e) ==
    \E i \in InFile(bnd) : e.kind = "transfer" /\ journal[i].key = e.key

AppendEvent ==
    /\ TakeStep("append", Tail(todo))
    /\ LeaseHeld
    /\ ~KeyCommitted(mem.pending.event)
    /\ journal' = Append(journal, mem.pending.event)
    /\ lc' = Renewed
    /\ mem' = lc'
    /\ trusted' = Now
    /\ UNCHANGED <<clock, bnd, snap, world>>

AppendBoundary ==
    /\ TakeStep("boundary", Tail(todo))
    /\ bnd' = Append(bnd, mem.pending.seq)
    /\ mem' = [mem EXCEPT !.head = bnd']
    /\ UNCHANGED <<clock, lc, journal, snap, world, trusted>>

CommittedRecordKeepsSchedule ==
    [mem EXCEPT !.seq = mem.pending.seq, !.last = mem.pending.event,
                !.pending = NoPending]
CommittedRecord ==
    [mem EXCEPT !.seq = mem.pending.seq, !.last = mem.pending.event,
                !.next = mem.pending.result, !.pending = NoPending]

RecordCommit ==
    /\ TakeStep("commit", Tail(todo))
    /\ LeaseRuns
    /\ Persist(CommittedRecord)
    /\ world' = mem.pending.seq
    /\ UNCHANGED <<clock, journal, bnd, snap>>

\* acknowledge_production_sequence
Acknowledge ==
    /\ TakeStep("acknowledge", Tail(todo))
    /\ LeaseHeld
    /\ mem.seq = world
    /\ Persist([Renewed EXCEPT !.ack = Committed(journal, world)])
    /\ UNCHANGED <<clock, journal, bnd, snap, world>>
-----------------------------------------------------------------------------
(***************************************************************************)
(* Lifecycle: drain_to_background_or_sleeping, background_dispatch_step    *)
(* and activation_step.                                                    *)
(***************************************************************************)
\* transition_mode
Transition(to) ==
    /\ LeaseHeld
    /\ Persist([AtWorld(Renewed) EXCEPT
                   !.mode = to,
                   !.cutoff = IF to = "Activating" THEN Now ELSE NoTime])

\* What a drain does once Draining is recorded; release_to_sleeping saves
\* the snapshot again.
DrainSteps ==
    <<"snapshot", "frontier">>
    \o (IF Runnable(journal, world) THEN <<"background">>
        ELSE <<"snapshot", "frontier", "sleep">>)

Drain ==
    /\ Idle({"Active"})
    /\ Transition("Draining")
    /\ todo' = DrainSteps
    /\ UNCHANGED <<clock, journal, bnd, snap, host, world, recovered>>

EnterBackground ==
    /\ TakeStep("background", Tail(todo))
    /\ Transition("Background")
    /\ UNCHANGED <<clock, journal, bnd, snap, world>>

\* A background cell with nothing scheduled goes to sleep.
SleepWhenIdle ==
    /\ Idle({"Background"})
    /\ mem.next = NoOccurrence
    /\ todo' = <<"snapshot", "frontier", "sleep">>
    /\ UNCHANGED <<clock, disk, host, mem, world, trusted, recovered>>

\* A player wants the background cell: the wake cut-off is fixed.
WakeBackground ==
    /\ Idle({"Background"})
    /\ Transition("Activating")
    /\ UNCHANGED <<clock, journal, bnd, snap, host, todo, world, recovered>>

\* activation_step with nothing left to catch up.
CaughtUpWhenUnscheduled == mem.next = NoOccurrence
CaughtUp == ~ProductionDue

FinishActivation ==
    /\ Idle({"Activating"})
    /\ CaughtUp
    /\ todo' = <<"snapshot", "frontier", "publish">>
    /\ UNCHANGED <<clock, disk, host, mem, world, trusted, recovered>>

\* publish_active
PublishActive ==
    /\ TakeStep("publish", Tail(todo))
    /\ LeaseHeld
    /\ Persist([AtWorld(Renewed) EXCEPT !.mode = "Active", !.cutoff = NoTime])
    /\ UNCHANGED <<clock, journal, bnd, snap, world>>

\* renew_lease between operations, and the lease maintainer's heartbeat
\* while the world loads.
RenewLease ==
    /\ host \in Live
    /\ todo # <<>> => Head(todo) = "load"
    /\ LeaseHeld
    /\ Renewed # mem
    /\ lc' = Renewed
    /\ mem' = lc'
    /\ trusted' = Now
    /\ UNCHANGED <<clock, journal, bnd, snap, host, todo, world, recovered>>

Step ==
    \/ LoadBoundaries \/ RecordHead \/ LoadWorld \/ Reconcile \/ Restore
    \/ SaveSnapshot \/ RecordFrontier \/ ReleaseToSleeping
    \/ AppendEvent \/ AppendBoundary \/ RecordCommit \/ Acknowledge
    \/ EnterBackground \/ PublishActive

\* A check fails: the lease or the clock is lost, or the files are refused.
\* The runtime halts and its process ends; a failed wake leaves the host.
StepRefused ==
    LET s == Head(todo)
    IN CASE s = "boundaries" -> ~BoundariesLoad(mem, Lines, Boundaries, snap)
         [] s = "load" -> ~(WorldLoads(Lines, snap, mem.fence) /\ LeaseHeld)
         [] s = "reconcile" -> ~(LeaseHeld /\ Reconciles(mem, journal))
         [] s = "restore" -> RestoredMode = "Background" /\ ~LeaseHeld
         [] s = "append" -> ~LeaseHeld \/ KeyCommitted(mem.pending.event)
         [] s \in {"frontier", "commit"} -> ~LeaseRuns
         [] s \in {"snapshot", "acknowledge", "background", "publish"} ->
               ~LeaseHeld
         [] s = "sleep" -> ~ClockAccepted(trusted)
         [] OTHER -> FALSE

Halt ==
    /\ host \in Live
    /\ IF todo = <<>> THEN ~LeaseHeld ELSE StepRefused
    /\ Forget(IF host = "waking" THEN "asleep" ELSE "down")
    /\ UNCHANGED <<clock, disk>>

Next ==
    \/ Tick \/ ClockBack \/ Crash \/ Tear \/ Halt
    \/ Open \/ Step \/ RenewLease
    \/ \E runnable \in BOOLEAN :
          ExecuteIntent(runnable) \/ CommitQuantum(runnable)
    \/ \E key \in Keys : CommitTransfer(key)
    \/ Drain \/ SleepWhenIdle \/ WakeBackground \/ FinishActivation

Spec == Init /\ [][Next]_vars

\* The host loop (supervise, ensure_active) takes the next step of what is
\* under way and of an activation; the step succeeds, or it is refused and
\* the process ends.  Nothing is assumed of players, crashes or the clock.
HostStep ==
    \/ Step \/ Halt \/ FinishActivation
    \/ /\ mem.mode = "Activating"
       /\ \E runnable \in BOOLEAN : CommitQuantum(runnable)

FairSpec == Spec /\ WF_vars(HostStep)
-----------------------------------------------------------------------------
(***************************************************************************)
(* Properties.                                                             *)
(***************************************************************************)
OccurrenceOrNone == Occurrence \cup {NoOccurrence}
PendingOrNone ==
    {NoPending} \cup [seq : Nat \ {0}, event : Event,
                      prior : OccurrenceOrNone, result : OccurrenceOrNone]
Lifecycle ==
    [mode : Modes \cup {"Missing"}, fence : 0 .. MaxFence, renewed : Times,
     expires : Times, cutoff : Times, lastTrusted : Times, seq : Nat,
     last : Event \cup {NoEvent}, head : Seq(Nat \ {0}),
     next : OccurrenceOrNone, ack : Nat, pending : PendingOrNone]

(* The variables have their types; a file has at most its last line torn   *)
(* (truncate_unterminated_tail and load_world cut it before any append).   *)
TypeOK ==
    /\ clock \in 1 .. MaxTime
    /\ lc \in Lifecycle
    /\ mem \in Lifecycle
    /\ Lines \in Seq(Event)
    /\ Boundaries \in Seq(Nat \ {0})
    /\ snap \in [seq : Nat, fence : 0 .. MaxFence]
    /\ host \in HostStates
    /\ world \in 0 .. Len(journal)
    /\ trusted \in Times
    /\ recovered \in Modes \cup {"Missing"}

(* The schedule that the canonical history alone implies: none while       *)
(* production is not runnable; one period after the last quantum of the    *)
(* current runnable stretch; and in a stretch without one, one period      *)
(* after the event that began it, or after the last quantum if later.      *)
ImpliedNext(j) ==
    LET n == Len(j)
        first == CHOOSE i \in 1 .. n :
                    /\ \A k \in i .. n : j[k].runnable
                    /\ ~Runnable(j, i - 1)
        anchor == IF \E i \in QuantaIn(j, n) : i >= first
                  THEN LastScheduled(j, n)
                  ELSE Larger(j[first].at, LastScheduled(j, n))
    IN IF ~Runnable(j, n) THEN NoOccurrence
       ELSE [seq |-> Committed(j, n) + 1, at |-> anchor + Quantum]

(* Production was armed again after an idle stretch, at a time that is not *)
(* one period after the last quantum.                                      *)
Rearmed(j) ==
    /\ Runnable(j, Len(j))
    /\ Committed(j, Len(j)) > 0
    /\ ImpliedNext(j).at # LastScheduled(j, Len(j)) + Quantum

(* "Sleeping, Background, Activating, Active, and Draining recover exactly *)
(* from a hard crash at every durable boundary" (acceptance criterion 10   *)
(* of durable-single-cell-lifecycle.md): no order of writes, torn line,    *)
(* lost lease or clock step leaves files that validate_prior_lifecycle,    *)
(* load_transfer_boundaries, load_world or reconcile_lifecycle_with_world  *)
(* refuses.  The one history that is refused is one whose schedule was     *)
(* armed again after an idle stretch.                                      *)
CrashRecovers ==
    /\ PriorLifecycleValid(lc)
    /\ BoundariesLoad(lc, Lines, Boundaries, snap)
    /\ WorldLoads(Lines, snap, lc.fence + 1)
    /\ Reconciles(lc, Lines)
CrashRecoversUnlessRearmed ==
    lc.mode = "Missing" \/ CrashRecovers \/ Rearmed(Lines)

(* "Recovery reconciles either side from the journal and lifecycle record  *)
(* rather than inventing a new time anchor" (durable-single-cell-          *)
(* lifecycle.md): at every crash point the record and its pending commit   *)
(* resolve to exactly the next occurrence that the journal implies.  So no *)
(* quantum is skipped, run twice or moved in time by a restart.            *)
ScheduleFollowsHistory ==
    lc.mode # "Missing" => ResolvedNext(lc, Lines) = ImpliedNext(Lines)

(* Every transfer event has its boundary under the chain head that the     *)
(* record names, in journal order, but for the one whose commit is         *)
(* pending; no boundary is without its event (commit_world_event,          *)
(* load_transfer_boundaries).                                              *)
BoundariesFollowJournal ==
    LET done == {i \in TransferEvents(Lines) : lc.pending.seq # i}
    IN /\ done \subseteq InFile(lc.head)
       /\ InFile(lc.head) \subseteq InFile(Boundaries)
       /\ InFile(Boundaries) \subseteq TransferEvents(Lines)
       /\ \A i \in 2 .. Len(Boundaries) : Boundaries[i - 1] < Boundaries[i]

(* A cell whose record says Sleeping is complete on disk: the snapshot     *)
(* holds its whole history, and the migration to protocol 19 can freeze    *)
(* it.  Nothing is pending, scheduled, unacknowledged or runnable, and the *)
(* journals have no torn line, no missing boundary and no key twice        *)
(* (release_to_sleeping against FrozenProtocol18Cell::lock_existing).      *)
SleepingIsComplete ==
    lc.mode = "Sleeping" =>
        snap.seq = Len(journal) /\ FrozenSourceAccepted

(* The files agree with each other at every crash point: record, journal,  *)
(* boundary journal and snapshot.                                          *)
StoreConsistent ==
    /\ TypeOK
    /\ ScheduleFollowsHistory
    /\ BoundariesFollowJournal
    /\ SleepingIsComplete

(* No accepted event is lost or changed, and a new one carries the fence   *)
(* of the record, above every fence that earlier owners wrote.             *)
HistoryOnlyGrows ==
    [][/\ StartsWith(Lines', Lines)
       /\ Lines' # Lines => Lines'[Len(Lines')].fence = lc.fence
       /\ host' \in {"opening", "waking"} /\ host \notin Live =>
             lc'.fence > PersistedFence(Lines, snap)]_vars

(* The wake cut-off is fixed when activation starts and survives crashes   *)
(* and further opens, and the cell is Active only once every occurrence    *)
(* due by it is committed (activation_step, open_for_cell_with_clock).     *)
CutoffHonoured ==
    [][lc.mode = "Activating" =>
          /\ lc'.mode = "Activating" => lc'.cutoff = lc.cutoff
          /\ lc'.mode = "Active" =>
                \/ ImpliedNext(Lines) = NoOccurrence
                \/ ImpliedNext(Lines).at > lc.cutoff]_vars

(* Restarts rewrite neither the history nor the cut-off of a wake-up.      *)
RestartsRewriteNothing == HistoryOnlyGrows /\ CutoffHonoured

(* A cell being activated becomes Active unless its process ends: bounded  *)
(* catch-up reaches the cut-off.                                           *)
ActivationCompletes ==
    host = "up" /\ lc.mode = "Activating" ~> lc.mode = "Active" \/ host # "up"

(* A drain ends in Background or Sleeping unless its process ends.         *)
DrainCompletes ==
    lc.mode = "Draining" /\ host = "up" ~> lc.mode # "Draining" \/ host # "up"

(* Neither transitional mode lasts: activation reaches its cut-off and a   *)
(* drain ends, unless the process does.                                    *)
TransitionsComplete == ActivationCompletes /\ DrainCompletes
=============================================================================
