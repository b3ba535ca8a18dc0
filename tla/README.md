# A TLA+ model of The Verse's durable authority

The Verse is a server-authoritative simulation: a worker process holds *cells*
of a universe, each with its own fenced store, and a durable *directory* says
which worker generation holds which cell and in which cell every player and
grid is placed. This directory holds the TLA+ modules that model that
authority and the engine, the sessions and the worker on top of it, the TLC
configurations that check them on small instances, and the TLAPS proofs that
hold for every instance.

## Inventory

| Component | State it keeps | Operations | What is hard | What makes it correct |
|---|---|---|---|---|
| Cell directory, schema 2 (`cell_directory.rs`) | `cell-directory.json`: revision, assignments with generation-to-fence history, placements, transfers with six kinds of proof; the copy in memory; a lock file | open, claim, release, recover_assignment, register_placement, prepare, record prepared/quarantine/imported, commit, finalize, request_abort, record_abort_cleanup, finalize_abort | the file replacement can fail after it took effect; operations do not re-validate what they write; retries under later generations | one chain of custody per aggregate; the commit is the only step that moves a placement; nothing durable is taken back |
| Handoff coordinator (`two_cell.rs`, `handoff.rs`) | two cell runtimes, the directory handle, package and receipt artifacts | open, reconcile, handoff_player, abort_transfer, execute, advance | a saga of some fifteen durable writes in three stores, any of which can fail or be the last before a crash; recovery runs under new fences | one cell at most lets a player act; no accepted operation is lost; the saga always finishes |
| Cell store (`persistence.rs`) | lifecycle record (lease, fence, pending commit), event journal, boundary file, snapshot | open, load, commit_world_event, renew, snapshot, mode transitions, release | three files written in order; torn tails; a lease that expires under a running writer; clock rollback | a stale writer is fenced; recovery resolves a pending commit one way; boundaries equal the journal |
| Engine (`engine.rs`, `event.rs`, `model.rs`, `production.rs`, `config.rs`) | the canonical world, operation histories, control frames, the next production occurrence | execute_as, advance, advance_due, apply_event, handoff stages, reopen and catch-up | an event is prepared against one world and checked again when applied; duplicated and stale operations; commits that fail but landed | exactly-once acceptance; a world that always validates; a schedule that is armed exactly while something can run |
| Directory v3 and grid handoff v2 (`cell_directory_v3.rs`, `grid_handoff_v2.rs`, `grid_handoff_v2/`) | schema 3 documents, cell states with locks, reservations, imports and tombs, packages | claim, recover, release, the eight events and proofs of a grid transfer, commit, abort, production occurrences | whole closures move; proofs of older generations; production between capture and lock | nobody is copied, lost or playable twice; proofs agree; no transfer is stuck |
| Universe lifecycle and store v21 (`protocol19_install.rs`, `lifecycle_v2.rs`, `store_v21/`) | directory history, universe write-ahead head, lifecycle journals, event journals | dispatch: claim, recover, renew, produce, release; open and reconcile | four stores, none of which commits with another; torn and uncertain writes | every stop reopens; no quantum twice, early or lost; what was begun is carried through |
| Protocol 19 prepare, activation, boot (`protocol19_*.rs`, `verse-world-activation`) | prepared-install artifacts and head, activation namespace, the universe-root selector; file locks | prepare, activate, verified boot; the protocol-18 worker they fence | a crash between any two writes, a power failure between a rename and its sync, a worker between its look and its lock, repeated activations | one history: an activated universe always opens and protocol 18 never runs in it again |
| Interest projection and verifier (`projection.rs`, `verse-interest-verifier`) | a cursor per connection; the client's verified view | project, stage, commit, verify | hysteresis, cadence and budgets across lost time; baselines against deltas | the client accepts every frame, and sees what is there |
| Worker sessions (`services/simulation-worker`) | session task, transport, feeds, handoff links | subscribe, publish, acknowledge, time out, resynchronize, hand over, submit | late acknowledgements racing timeouts and handoffs | no change is missed; no control runs in a cell it was not composed for |
| Worker host (`services/simulation-worker`) | claims, authority watch, activation gate, supervisor | admit, activate, advance, drain, dispatch, sleep | several threads around one mutex; checks before it and sends after it; wake-ups that nobody awaits | no leaked claim; sessions are told; an unused cell sleeps |
| Migration transform, manifest, targeting, celestial frames, geology, content, identity, protocol types, physics, clients | static tables, arithmetic, presentation | | | left to unit tests and test vectors |

`PROJECT.json` lists the hazards of the modelled parts, each at its line.

## Modules

    CellDirectory            the directory, its file, its callers in any order
      MCCellDirectory        two cells, one aggregate, two transfers
      CellDirectoryProofs    theorems about CellDirectory
    PlayerAuthority          what a handoff promises about a player
    TwoCellHandoff           coordinator + directory + two cells + artifacts
      MCTwoCellHandoff       two cells, one player that crosses there and back
      TwoCellHandoffProofs   theorems about TwoCellHandoff: custody, that no
                             step of a transfer is refused, and that it
                             implements PlayerAuthority
    CellStore                the files of one cell, its lease, its lifecycle
      MCCellStore            one cell, two owners in succession
      CellStoreProofs        theorems about CellStore
    UniverseActivation       prepare, activate, boot and the worker they fence
      MCUniverseActivation   two processes, two cells, three envelopes
      UniverseActivationProofs  theorems about UniverseActivation
    GridDirectory            schema 3 documents (no variables)
    GridCell                 world-21 cell states and their events (no variables)
    GridHandoff              both composed: workers, transfers, production
      MCGridHandoff          a grid with its owner and a guest, two cells
    LifecycleRecord          the record of an activated cell (no variables)
    UniverseLifecycle        a dispatch over the four stores, and its recovery
      MCUniverseLifecycle    one cell with two quanta of work, two workers
      UniverseLifecycleProofs  the order of the writes, opening again and the
                             schedule, proved
    WorldState               the canonical world and what is asked of it
    WorldEvents              what is prepared from a message or a timer
    WorldReplay              what applying an event does
    Engine                   the runtime: intents, advance, crash, catch-up
      MCEngine               four small worlds
      EngineProofs           theorems about Engine
    InterestView             projector, cursor and verifier (no variables)
    InterestSession          a session, its client and the world it is shown
      MCInterestSession      two grids, a client that sees one at a time
      InterestSessionProofs  that no control runs where it was not composed, and
                             that departures are reported as they happen
    WorkerHost               the worker's tasks around the runtime mutex
      MCWorkerHost           two sessions, two players, one failing write
      WorkerHostProofs       theorems about WorkerHost

How they fit together. `CellDirectory` and `GridDirectory` are two schemas of
one directory. TwoCellHandoff extends the first with an atomic cell; CellStore
opens that cell up into its files, Engine into its world. GridHandoff treats
documents and events as durable at once; UniverseLifecycle, which extends
GridDirectory, opens their stores up. UniverseActivation leads from the first
family to the second. InterestSession shows the worlds of a worker to a client,
and WorkerHost is the process in which Engine, CellStore and the sessions run.

### CellDirectory

`doc` is `LocalCellDirectory::document`, `disk` the document in the file,
`open` whether a process holds the lock. Each operation of the code has three
definitions: `XOk`, the checks after which it writes; `XDoc`, the document it
writes; and the action `X`, which hands it to `CommitDocument`. `XRetry` is the
condition under which the code returns the record it finds. A call that is
neither is an error without effect and no step. `CommitDocument` has three outcomes:
`ok`, `lost` (an error before the rename: nothing changes) and `unacknowledged`
(an error after it: the file is new, memory is old). `ReopenAfterIoError`
states whether callers give up a handle after such an error; the coordinator
does in all its calls except `abort_transfer`.

The specification lets any caller call any operation with any arguments, so
what it shows does not depend on the coordinator's discipline.

### TwoCellHandoff and PlayerAuthority

Extends CellDirectory with the durable world of two cells (player closure,
transfer lock, reservation, witness, transfer boundaries, fence, event
sequence), the artifacts, and the control state of `LocalTwoCellRuntime`.
`StepName` is the next durable write of `reconcile_transfer`: a step whose
event or proof is durable already returns it unchanged, so what comes next is a
function of the state, before and after a crash. `StageXOk`/`StageX` are the checks and
the effect of the staging functions in `handoff.rs`. A cell event has four
outcomes: `ok`, `lost`, `late` (durable, reported as an error, known to
memory) and `unseen` (durable, unknown to the halted runtime).

PlayerAuthority is the abstract promise: a holder, a generation, a frozen flag
and a count of accepted operations. The refinement mapping takes the holder and
the generation from the durable directory, *frozen* from the lock in the
holder's world, and the operations from the holder's copy, or from the only
copy while the import is due.

### CellStore

The four files of a cell (`lc` the lifecycle record, `journal`, `bnd` the
transfer-boundary journal, `snap`), the clock the store samples, and the process:
`mem` is `Store::lifecycle`, `world` the event sequence of the runtime's state,
`trusted` `Store::last_trusted_unix_ms`, `recovered` the mode an opening store
found. An operation of the code is a chain of durable writes: its first write
is the operation's action (`Open`, `Stage` under `ExecuteIntent`,
`CommitTransfer` and `CommitQuantum`, `Drain`, `WakeBackground`) and the others wait in `todo`,
one action each. `Crash` can fall between any two; `Tear` is a crash inside an append; `Halt`
is a check that fails: the lease or the clock is lost, or a file is refused.

A world is the prefix of the journal it was replayed from, and of its contents
only the production clock and whether production is runnable are kept. A hash
stands for what it is the hash of. One time unit is the 1000 ms production
period. What opening demands is written as operators on the files
(`PriorLifecycleValid`, `BoundariesLoad`, `WorldLoads`, `Reconciles`), so
that the same definitions guard the actions and state the recovery property;
`FrozenSourceAccepted` is the acceptance test of the protocol 19 migration.

### UniverseActivation

`files` is the universe directory as running processes see it and `disk` what a
power failure leaves; they have one entry per directory of the code. An atomic
write changes both. The two heads are written in the three steps of
`persist_head` and `persist_selector` (temporary, rename, sync). `held` are the
file locks of each process, all of them tried and never waited for;
`local[p].at` is the place in the command, one action per place. `Halt` stops a
process anywhere and may leave any part of the step it was in; `LosePower` ends
all of them and lets each directory keep or lose what was not synchronized.

The content of the frozen protocol-18 universe is a version number, and so is everything
derived from it; each opening of a protocol-18 cell makes a new version. An
envelope names the version it was signed for, its window, its activation time and
its number of signatures.

### GridDirectory, GridCell, GridHandoff

`GridDirectory` has the schema 3 document and, per operation, `XOk` and the
document that follows; `Sealed` is `finish_v3_transaction`, which validates
every document before it is written, so an operation may also be refused by
what it would have written. `GridCell` has the state of a cell
(`DraftGridTransferCellStateV2`), `ValidCell` (the whole of
`validate_after_gameplay_body`), the package of a closure, the eight stages
(`StageX`) and the eight reconcile functions that find the proof of a
committed event. `GridHandoff` has the variables: any holder may stage any event that passes
its checks at any time and hand its proof over later or never, since no
coordinator exists yet in the code. A cell rebinds to the authority of the
directory head before each event, as `new_proven_system` and the dispatcher do.

A member stands for its whole material: inventories, voxels and blocks are one
unit in the conservation sum. The machine's queue is one job, with the quanta
that are left of it.

### LifecycleRecord, UniverseLifecycle

`LifecycleRecord` is `lifecycle_v2.rs`: the transitions of the record, and
`ValidRecord`, which every sealed record must pass. `UniverseLifecycle` runs a
dispatch (`run.at` is the place in it) over the four stores `dir`, `wal`,
`life`, `world`; every action makes at most one durable write. A write may be
lost, torn, or take effect and report an error: the store is then in
`mem.poison`. `PreflightOk` is what `open_with_lifecycle_initialization`
demands of the files together, and `Reopening` its reconciliation.

### WorldState, WorldEvents, WorldReplay, Engine

A world is a record of players, inventories, grids, voxels, machine queues,
the ledger, drops, operation histories and handoff locks. `Prepare*` in
WorldEvents and `Apply*` in WorldReplay are the two halves of the code: both
check, and both are sets of at most one outcome, so that a disagreement between
them is visible (`rejected`). `ValidWorld` is `validate_authority_graph`.
`Engine` has the single thread: `stage` says whether it is at rest, in the
physics, life-support, production or handoff part of an advance, or reopening. A commit succeeds,
fails without effect, or fails after the event landed; `disk` is what a reopening
recovers.

Space is a line and a pose an offset on it. The tool ray, the collision and the
solver are external: any existing target may be the one aimed at, and a
physics step moves what is free to move. A handoff takes the player's package
out (`outside`), lets it play in the other cell, and brings it back.

### InterestView, InterestSession

`InterestView` is the pure part: `ProjectFrame` derives the next frame from a world
and a cursor (candidates, radii with hysteresis, cadence, budgets, revisions,
removals with their reason, private part), `Refusal` and `Installed` are the client's verifier.
`InterestSession` composes the select loop of the session task, the transport with its pending frame
and superseded acknowledgement, the feeds, the handoff protocol and the client.
`down` and `up` are the two directions of the socket.

A hash of a view is the view. A zone is one of three bands of distance.

### WorkerHost

`pc` places every task. What a task does under the runtime mutex is one step,
what it reads before or sends after it another. The authority watch shows only
its last value (`unseen`), and `woken` is a notification that meets an existing
`notified()` future; one that comes before it is lost, as in the code.

## Runs

Nine runs pass and three are expected to be violated (see Findings).

| Run | Question | Bounds |
|---|---|---|
| `directory` | Do documents stay consistent, custody linear, and durable facts durable, under every order of calls with every argument and lost acknowledgements? | 2 cells, 1 aggregate, 2 transfers, 3 generations, 2 fences, 14 revisions |
| `two_cell` | Does one cell at most let a player act, is no operation lost, is recovery never refused, does every transfer end, and is PlayerAuthority implemented, whichever two writes fail or are the last before a crash? | 2 cells, 1 player, 2 transfers, 2 faults, 1 operation, aborts after the source proof; 92,000 states |
| `store_recovery` | Can a cell be reopened from what any crash leaves, with the schedule and the boundaries its journal implies and no accepted event lost, and do activation and drain end? | 2 fences, times 1 to 3, 2 events besides quanta, 1 boundary key |
| `activation` | Does a selector always open, is protocol 18 always kept out, is what was reported kept, and what protocol 19 did? | 2 processes, 2 cells, 3 envelopes, 1 worker restart, 2 stopped processes, 1 power failure |
| `grid_handoff` | Is a closure never copied, split or lost, are proofs agreed on, can a transfer always go on, and is production neither repeated nor hastened? | 2 cells, a grid with owner and guest and one player who stays, 1 transfer, 3 claims, 2 instants, 1 production occurrence, 2 quanta of work; 67,000 states |
| `universe_lifecycle` | Does every stop reopen, is production on schedule, does a store stop after an uncertain write, and is everything begun carried through? | 1 cell, 2 workers, 3 generations, 3 instants, 2 quanta, 1 fault; 104,000 states |
| `engine` | Does every prepared event apply, the world stay valid, every operation, frame and reward count once, and the schedule follow the machines? | four worlds, each with its own players, messages, time and faults |
| `interest_session` | Does every frame continue the client's view, is no change missed, do removals tell the truth, and does no control run in the wrong cell? | 2 grids of which 1 fits, 2 recoveries, a few moves, changes, timeouts and handoffs |
| `worker_host` | Do claims match sessions, are sessions told, do admissions end, does an unused cell sleep? | 2 sessions, 2 players, 2 quanta, 1 failure |
| `abort_before_proof`, `engine_owner_left`, `background_wake` | violated | 1, 1 and no fault |

Several properties are conjunctions of named parts, one per question; the
comment of each part in its module names the code it is about.

Why these bounds are enough. Schema 2 has no operation on two aggregates, so
one shows every order of calls on it; two transfers are needed because
the second meets the history, the placement generation and the retained proofs
of the first, and two cells because the schema 2 universe has two.
Three generations let a placement go there and back and let the last generation
be refused; two fences per cell let a proof be older than the
generation that reports it and let fences run out. `MaxRevision` stops
the directory run after 13 writes, more than the longest complete transfer plus
two successor recoveries takes. Two faults let a crash meet the recovery from another.
`MaxGameplay` bounds only gameplay events, so that a transfer under way never
runs out of event numbers.

For the store, two fences are two owners of the cell; a crash during the
second's recovery leaves files of which the run shows that a third could open them. Two events let
production become runnable and idle, or runnable again, and let one boundary key
be used twice; three instants let two quanta fall due, a lease of two instants
be renewed or run out, and the clock step back within its tolerance and beyond it.

For the activation, two processes show every race the locks decide, since each lock has one
holder and everyone else gives up; one restart of the worker gives a second version that
an install can be stale for; two envelopes for one version let a retry bring
another one, and a third binds the version after the restart.

For the grid, both cells have to be claimed before a capture, which leaves one
takeover that can fall between any two steps of the transfer, on either side;
the one production occurrence can fall between capture and lock, while the
closure is locked, or in the destination before or after the rest of the import
ends. One transfer, because no second one of the same grid is sealed (see Observations).

For the lifecycle, one fault hits any write of any of the stores and the
reopening after it; three generations are the frozen one, a claim, and a
recovery or a second claim. Each of the four worlds of the engine makes one kind of
conflict happen: a full cargo beside two machines; an anchored grid on
two voxels; a suit with a second of air; a player who crosses with a job
under way.

In the session one of two grids fits, so that budgets decide; the update
interval and the exit time are two ticks, so that a frame can be early, due or
late for both.

No deadlock is checked where at a limit, or when all transfers are used up, the
system may stop. All other limits are the code's `u64::MAX` or bounds on the
environment.

### Fairness

*Handoff* (`FairSpecHandoff`). `WF(Progress)`: a call that has begun returns,
since it is sequential code, and the host restarts a coordinator that stopped, as
its service definition does. `SF(GiveUp)`: a coordinator with a failed call
is halted (`is_halted`), the worker publishes the fenced state and ends, so it
cannot be kept for ever by aborts that fail. Faults, gameplay and aborts
have no fairness.

*Store* (`FairSpec`). `WF(HostStep)`: an operation that has begun makes its
next write or fails a check and ends the process, and `supervise` calls
`ensure_active` while the cell is Activating. Players, the clock, drains and crashes have no
fairness, and the liveness properties excuse a process that ends.

*Lifecycle* (`FairSpec`). The process is sequential (`WF(Working)`,
`WF(Reopening)`); trusted time passes; a universe with a poisoned store is
closed and opened again, since every further call on it fails; every cell is
dispatched again and again by some worker. Faults are finite.

*Worker host* (`FairSpec`). The tasks are tokio tasks and are scheduled;
`SF` for the steps behind the activation gate, a fair tokio mutex; handshakes have a deadline, closing
writes a timeout, and idle time passes. Sessions need never connect, submit or leave.

## Findings

1. *abort_before_proof* (code). `request_abort` accepts a prepared transfer
   whose source proof is not recorded and writes it as `Aborting`;
   `validate_document` refuses such a record, so a stop before the abort
   is complete leaves a universe that cannot be opened. Only tests call
   `abort_transfer` today.
2. *engine_owner_left* (code). A player may cross into the other cell while a
   job of theirs is unfinished. The quantum that completes it credits
   experience to a player who is not in the roster and is refused, so that every advance
   and every reopening of the cell fails from then on.
3. *background_wake* (code). The supervisor decides on a background dispatch
   without the runtime mutex. A player whose admission activates the cell in
   between makes the dispatch fail, and the worker fences itself and shuts down
   although nothing went wrong.

### Observations

What follows was met while modelling and is not a run of its own. Where a
formula or a bound is named, TLC shows it on the model; the others come from
reading the code. Where a passing run would meet one, its property states it as
an exception.

- *Abort while quarantining.* An abort requested after the destination's
  quarantine is durable but before the directory recorded it never completes
  (`two_cell.rs:549`; the handoff document, line 255, says that recovery adopts such a quarantine). In
  TwoCellHandoff with `AbortPoints = {"quarantining"}` and one fault:

      task # None /\ doc.transfers[task].phase = "Aborting" => StepAccepted(task)

- *Abort on a stale handle.* After a commit whose directory sync failed,
  `abort_transfer` works from the stale document and turns the durable commit
  into an abort (`two_cell.rs:477`, `cell_directory.rs:2115`). `DurableProgress`
  fails with `ReopenAfterIoError = FALSE`.
- *Reopening after a re-arm.* When production becomes runnable again after an
  idle interval the engine schedules it one period after the event;
  `reconcile_lifecycle_with_world` (`persistence.rs:1763`) accepts only one
  period after the last quantum, so a stop before the next quantum leaves a
  cell that cannot be opened. `CrashRecovers` fails; `CrashRecoversUnlessRearmed` says
  that this is the only case.
- *A lost install head.* `prepare_or_recover` (`protocol19_install.rs:1995`)
  trusts a head it can see; if its rename was never synchronized, a power failure
  after the activation removes the head that the durable selector names. The
  selector has the same weakness. `ActiveHeadRecoverable`, `ReportsAreTrue` and
  `WorkSurvives` need the premise `FailuresApart`.
- *Operators who refuse each other.* Two processes that try each other's
  activation locks can both give up for ever; with one process that keeps asking the
  activation commits.
- *No return of a grid.* After one finished or aborted transfer of a grid no second
  prepare seals: `validate_transfers` (`cell_directory_v3.rs:5207`) compares the
  old transfer with a placement that has moved on. With a second transfer and both directions in `Neighbors`,
  `PrepareOkV3 => Sealed` fails.
- *A quarantine keeps its successor out.* While the quarantine is a cell's last
  event its receipt must come out of the state again, and the hash covers the
  fence: a successor cannot rebind (`grid_handoff_v2/state.rs:4061`).
  `OnlyQuarantineWedges` says that nothing else does.
- *Catch-up past a lock.* After a crash the catch-up of a reopening runs before
  the reconciliation of handoffs and may complete a job of a locked player
  (`engine.rs:2136`, `handoff.rs:736`); the closure then no longer equals the
  locked package.
- *Crossing and dying.* A player who crosses the boundary and suffocates in the
  same advance cannot be packed, and the coordinator halts on every advance
  until a respawn (`two_cell.rs:322`).
- *A late first acknowledgement* of an initial baseline that was sent again is
  answered by a further baseline, and a handoff that overtakes a recovery
  baseline continues the wrong epoch (`simulation-worker/src/lib.rs:1620`):
  the exceptions of `LateAcksHarmless` and `FramesAccepted`.
- *Authority after the mutex.* `activation_step` publishes `Active` after it
  dropped the mutex (`lib.rs:866`): racing a drain, a session can stay live over a
  sleeping cell. A wake-up between the supervisor's reading of `Sleeping` and its
  `notified()` is lost (`lib.rs:993`): the exception of `UnusedCellSleeps`.
- *Migration and production.* The migration accepts only a quiescent frontier
  (`persistence.rs:625`), and arming after committed production without an
  armed occurrence is refused by the seal of the record (`lifecycle_v2.rs:1257`).

The passing handoff run assumes what the first finding and the first two observations
show to be needed: aborts are requested once the source proof is recorded and
not between a quarantine and its record, and callers reopen after an
unacknowledged write.

## Proofs

Everything here is proved for every set of cells, players, transfers, sessions,
workers and messages and for every limit, from the assumptions the modules
name (`DirectoryAssumption`, `HandoffAssumption`, `HandoffValues`,
`UniverseAssumption` and the like), which TLC evaluates on its instances. They say
only that limits are numbers, that `None` is no member of the other sets, that
the sets which must contain something do, how artifacts are named (packages by transfers,
receipts by fence and event), that the cells of a universe are listed once each, and that
a cell of the engine starts at rest (`ScenariosAssumption`: no job, operation, control frame
or handoff is under way and the production clock has not run, as `WorldState::genesis`
leaves it; what machines, contents, grids and deposits it has is free).
A theorem about `[]P` rests on an inductive invariant,
with one lemma for each action of the specification.

`CellDirectoryProofs`: `TypeOK`, `FenceHistoriesValid`, `TransfersConsistent`, `PinnedCellsAssigned`
and `CustodyChain` are invariants of `SpecDirectory`, whether or not callers
reopen. None of them is inductive alone. `DirectoryInv` joins them for both
documents (`DocInv(d)`: type, assignments, placements, transfers, pins,
custody), and relates `doc` and `disk` only by both satisfying it. The argument
has one lemma per operation: if `DocInv(d)` and `XOk(d, ...)` then
`DocInv(XDoc(d, ...))`. `CommitDocument` then installs a document with `DocInv` in
memory, in the file, in both or in neither, which is why a stale handle does not harm these
five. Custody needs the transfers' placement clause: a transfer commits
only from the placement generation bound to it, and every committed one
has a result generation at most the current. Proofs stay valid across successor
generations because a history only grows.

The same module proves two properties more from `DocFull`, which adds to `DocInv` that an absent
transfer is blank and that fences of a history grow with their generations.
`RetriesRecognised` follows because a fence then resolves to one generation,
the one recorded. `DurableHistory`, an action property, is proved
under `ReopenAfterIoError`: each operation's document advances from the one it was
made from (`Advances`, again one lemma per operation), and with callers who
reopen that is the document in the file. Without the hypothesis it is false
(see *Abort on a stale handle*).

`TwoCellHandoffProofs`: `HandoffConsistent` and `SoleAuthority`, for every
number of crashes and failed writes and for every `AbortPoints`, under
`ReopenAfterIoError`, which is how the coordinator uses the directory. What a
cell event may do was decided by directory writes before it, so neither is
inductive. `HandoffInv` adds: which cell events a transfer can have had in each
of its phases, and what each left in its cell (`LedgersInv`); where the player
of an unfinished transfer is present and locked, and that every other player
is in one cell and unlocked (`PlayersInv`); that fences only grow
(`BoundariesInv`); and that there is one unfinished transfer at a time (`OneAtATime`), because
such a transfer is the coordinator's task, or pending in its opening, or the
coordinator has failed or stopped (`ControlInv`).

The same module proves `NeverWedged`, for every number of crashes, failed writes and
takeovers, under `ReopenAfterIoError` and for every `AbortPoints` without
`"quarantining"` (with it the property is false, see *Abort while quarantining*).
Each step of the saga is accepted only if files written earlier, by other
generations, still agree, and `HandoffInv` does not say that they do. `SagaInv`
adds it: the package repeats the record (`Bound`); each event was written under the fence
of a generation that began no earlier than the transfer, and so resolves to one
(`Issued`); the copies of the player are the packaged one (`Copied`); receipt artifact,
reservation, boundary and record name the same receipt (`Receipted`); a transfer
whose package is written but which is not yet on record could still be prepared (`Starting`);
and beside the one unfinished transfer no reservation or unsettled placement is left.
`NothingRefused` derives the acceptance of each step from it, by the cases of `StepCases`;
then one lemma per action keeps it. The abort is the step that needs the
hypothesis: only when the record names the receipt will the destination's cleanup
accept the reservation it finds.

The same module also proves the refinement: the coordinator implements PlayerAuthority
(`AuthorityRefined`: `SpecHandoff => Authority!SpecAuthority`, the safety part of what the run checks
as `ImplementsFairAuthority`). Each step is shown to be a step of one player, or of none: the
source's lock is Freeze, the directory write that commits is Move, the import
and the unlock of an abort are Thaw, registration is Register, an accepted
operation is Play; all other steps, the lost writes among them, change nothing the mapping shows.
Two facts are needed beside `HandoffInv`: a locked copy equals its
package (`LockedCopies`), so that the import takes in exactly what the source
has, and an absent placement has generation 0 (`Unregistered`).

`UniverseActivationProofs`: `OneHistory`, `ReportsAreTrue`, `ActiveHeadRecoverable`
and the action property `WorkSurvives`, for any number of processes, cells, envelopes,
stops and power failures. Two invariants. `UniverseInv` holds whatever happens: `Placed(p)` says what
a process relies on at its place (its locks, the frozen source, what it has
staged so far, the envelope it has verified, the contents of the activation directory), and
every part of it is about something that only a holder of one of its locks
changes, so that a step of another process cannot disturb it (`OthersPlaced`, the lemma all
others use); a head on disk has its target on disk; a selected envelope binds
the version of the frozen universe. `RecoveryInv` is needed for the properties that
except a power failure after a stop: while no process has stopped, disk and files differ
only between a rename and its sync, beside a selector no install transaction
is under way, and nothing is reported or begun before the selector is
synchronized. `OneHistory` needs only the first.

`UniverseLifecycleProofs`: `WritesOrdered`, an action property, with the
invariant that what the process believes of a store differs from its file only
for a poisoned store, and that a lifecycle record on which memory and file
disagree requests nothing that the directory would still do.

The same module proves `FilesReopen` and `ScheduleKept`, for every number of
cells, workers, crashes, failed or torn writes and clock rollbacks. An open judges
four stores together that each dispatch writes one by one, so neither property is
inductive. `ReopenInv` has one part per question. `FilesInv`: each record an open
could come to rely on (the committed one, the line after it, the append that the
write-ahead head names) `Fits` the directory and the *recovered* world, what is
prepared follows what is committed, and every event, an unfinished one included, was
written under a document of the history and is on schedule. `BeliefInv`: what the
process believes of a cell fits as well; it differs from the files by at most
the append that is pending, the operation that is not yet in the directory and
the last event of the world. `OpenInv`, `PreparedInv` and `ProducedInv` say what a repair has
done so far, and what must hold of a record, a directory line or an event on its way before it
is written, whatever its write then leaves. The argument has one lemma per
transition of the record (a transition of a record that fits makes one that fits: `RequestFits`,
`FinalizeAssignedFits`, `RenewFits`, `BeginCommitFits`, `AcknowledgeFits` and the others)
and one per action. A record with an intent to commit fits both before
and after its event, and one with a requested operation both before and after its directory
line; that is what makes the order of the writes safe.

`CellStoreProofs`: `StoreConsistent`, `CrashRecoversUnlessRearmed` and the two action
properties of `RestartsRewriteNothing`, for any number of events, owners, crashes,
torn lines, lost leases and clock steps. The record, the journals and the snapshot
are written one after the other, each write on the strength of what the process believes of
the files it does not write, so none of them is inductive. `StoreInv` has three parts.
`FilesInv` says what every crash point leaves: the record's frontier is the end of the
journal, or the one pending event is; on either side of that event the schedule is the one the
history implies (`Unresolved`); the boundary journal lacks at most the pending boundary and the
record's head at most that too; fences never fall and the snapshot's separates what it covers.
`MemoryInv` says what the process believes, and `StepsInv` what holds at each place of an
operation and in which order its remaining writes come (`Ordered`), from which a write knows what
preceded it. The schedule rests on `ResultingNextIsImplied`: the next occurrence that a commit
computes from the previous one is the one the longer history implies, a fact about
`ImpliedNext` proved from how the last quantum and the current runnable stretch change with one
event. The exception of `CrashRecoversUnlessRearmed` is needed only for the clause of
`ScheduleAgrees` that demands one period after the last quantum.

`InterestSessionProofs`: `QueuedControlsFail`, for any number of crossings,
controls, timeouts, recoveries and sessions, and whatever the frames show: the verifier and
the projector are used only for the link a frame carries. The property holds because
of the order of the two queues, so the invariant describes them in each phase of a bound session.
In `Opening` it has no permit, and whatever follows an acknowledgement in the
queue was composed for the first route; in `Settled` all frames and controls
are for the permitted route; in `Moving` the pilot has left that route (its
generation is behind the pilot's), the linked baseline is the last frame sent, and only what
follows the acknowledgement of it was composed for the new one. A permit is given by
the acknowledgement itself, so from then on everything left in the queue is for it.
A session that is not bound to a route (`Unrouted`) has no route anywhere.

The same module proves `DeparturesTrue`, for any grids, radius policy and budget,
whatever frames are lost, delayed or staged again. A frame is projected from a cursor that
may be many ticks old, of a cell the pilot may have left and come back to, and for
the public from a bundle that was assembled earlier, so `ShownInv` says what all of these still know.
`WorldsInv`: the pilot is in the cell of its route and in no other, and the grids never
cross. `BundleInv`: the public bundle is the origin of now, with the evidence for it.
`CursorsInv`: the acknowledged and the pending cursor have seen (`Saw`) the cell that the
session will project next, no later than its tick, and of each member beyond the exit radius
they either recorded a tick at which it had not yet stayed outside for longer than it really
has, or last looked before it left. The last clause is what the lower bound on
`outside_since_tick` rests on (`SinceBound`), and it survives every step of the world because an
entity that leaves does so at a tick that no frame has shown (`Ages`). That the cursor is
one of the projected cell at all is the phase argument above (`CandidateSaw`).

`EngineProofs`: `EffectsOnce` and `ScheduleTrue`, for every content manifest, every roster
and every start at rest, whatever clients send. `EngineInv` says that while the cell
runs memory and disk are one world (`Running`), so that a commit that failed and yet landed is
met only by an open; that a package is quarantined from its arrival until it is resolved
and nothing else happens in between (`CalmAt`); that frames wait in increasing order and none is
newer than the last received (`QueueOk`); and, for the durable world only, what is remembered of a
player (`Durable`). An operation is in three places: the history of the world, the package
that is away in the other cell, and the receipts already handed out. `Places` says
that a player is in one of the first two and that a package in quarantine is the one the other cell sent,
`Histories` that each history is the end of the one log of its player, `AnswersTrue` that a receipt
names an entry of that log, `Rewards` that the prizes given and the grids still eligible do not
exceed the first number, which a split keeps because one fragment at most stays eligible. Without
the package the return of a player could run an operation twice, which is why once-only is
not inductive. The first half of the module has one lemma per event payload, for what its effect
does to players, grids and books (`Kept`), the second half one per handler, for what it submits
(`Submitted`) and what each outcome of that submission leaves. The control frames of a physics
step are a recursion over its substeps: `Schedule` keeps the order of the queue because
there is no least substep after which it is broken (the natural numbers are well-founded). That
no activity postpones an occurrence needs `ArmedIffRunnable` before the step: only
then is a missing occurrence the sign of a world in which nothing can move.

`WorkerHostProofs`: `ClaimsMatchSessions`, `SessionsAreTold`, and that the
activation gate has one holder. The invariant gives for each place of a task
what it has claimed, which player it holds, and what it has been told about the authority.

With TLC only: liveness and ENABLED, which are out of the prover's reach
(`TransfersTerminate`, the fairness half of `ImplementsFairAuthority`, `TransitionsComplete`,
`EverythingSettles`, `AdmissionEnds`, `UnusedCellSleeps`); and, so far,
the properties of the grid handoff (`CustodyHolds`, `ProofsAgree`, `TransfersCanGoOn`,
`ProductionUnmoved`); of the engine `PreparedApplies` and `WorldStaysValid`, which need the sums
of `ValidWorld` over whole worlds, hence folds over all inventories and ledgers, kept by every
event; and of the interest sessions `SessionHolds` and `NothingMissed`, which depend on
what the client makes of a frame.

## Plan

1. Done: directory, handoff, cell store, activation, grid handoff, universe
   lifecycle, engine, interest sessions and worker host are modelled and checked;
   the directory, the handoff with its refinement, the cell store, the activation,
   the worker host, the lifecycle, the engine, and the controls and departures of a session are
   proved about.
2. Left to prove: `EachMemberOnce` of the grid handoff from `ValidCell`, which
   every event establishes, and that the engine conserves what `ValidWorld` sums.
3. Left to model: CellStore as an implementation of the atomic cell of
   TwoCellHandoff.

## Not modelled

The data inside a world, a package or a proof beyond what the properties tell
apart (hashes as strings, floating point poses); wording of errors; the
physics solver; targeting geometry; celestial arithmetic, geology, content and
identity tables; the migration transform, a pure function with its own
vectors; canonical JSON and resource limits of the verifier; HTTP routes and
status documents; the shutdown sequence of `main.rs`; the clients. Reading a damaged or
hand-edited file is modelled only as the refusal to open it. Of the cell store,
the universe manifest and the bindings of a file to its cell are left out, since
one cell has only its own files, and so are the revision, holder id and desired
mode of the record, which decide nothing. Grid transfers are not yet admitted by
the world-21 store of the code, so that store is modelled for production events.
The decoding of older event schemas is left out of the engine.

Smaller simplifications, on which no property depends:

- `WorldEvents.Runnable` has no limit on the machines with a queue
  (`MAX_BACKGROUND_QUEUE_BEARING_MACHINES`), since the worlds checked have two at most;
  `WorldState.Overfull` bounds the number of remembered operations and not their bytes;
  `WorldEvents.Placeable` asks for a neighbouring block on every grid, where the code
  lets the first block of an empty grid stand alone, and no grid here is empty.
- `InterestView.Critical` has the bound player only; the code also treats as critical
  the grid or chunk that supports the player.
- `CellStore` joins the renewal of the lease with the write it precedes, and
  `WorkerHost.SupervisorTic` two successive reads under the runtime lock.
- `MCCellDirectory` has two fences, so that the end of the counters (`u64::MAX`) is
  reached by the theorems, which hold for every limit, and not by the run.

The handoff of a player is one call on the exclusively held coordinator
(`two_cell.rs:322`): the game does not run between the packaging and the lock, and the
model has no step of it there.
