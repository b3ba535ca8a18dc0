------------------------- MODULE UniverseActivation -------------------------
(***************************************************************************)
(* The change of a universe from protocol 18 to protocol 19: the prepared  *)
(* install, the signed activation, the verified boot, and the protocol-18  *)
(* worker they must exclude.  Every process works on the same universe     *)
(* directory and holds advisory file locks that end with the process.      *)
(*                                                                         *)
(* `files' is what a running process sees, `disk' what has been            *)
(* synchronized; they differ between a rename and the sync of its          *)
(* directory.  A process may stop anywhere; the power may fail, and then   *)
(* every directory keeps or loses what was not synchronized.               *)
(*                                                                         *)
(* What the install derives from the frozen protocol-18 universe is a      *)
(* function of its content, so a version number stands for the content and *)
(* for every artifact, hash and receipt derived from it.                   *)
(***************************************************************************)
EXTENDS Integers, Sequences, FiniteSets

CONSTANTS
    Processes,       \* command-line processes started by operators
    Tasks,           \* the commands they start
    CellOrder,       \* the cells of the universe in canonical order
    Authorizations,  \* the authorization envelopes operators hold
    MaxVersion,      \* bound: protocol-18 restarts
    MaxTime,         \* bound: the trusted clock
    MaxStops,        \* bound: processes that stop
    MaxPowerFailures \* bound: power failures

Cells == {CellOrder[i] : i \in DOMAIN CellOrder}
Versions == 0..MaxVersion
Threshold == 2       \* signatures of an envelope; the policy has three signers

\* A universe has cells, each once in the canonical order.
ASSUME UniverseAssumption ==
    /\ CellOrder \in Seq(Cells) /\ CellOrder # <<>>
    /\ Cardinality(Cells) = Len(CellOrder)
    /\ Tasks \subseteq {"prepare", "activate", "legacy", "boot"}
    /\ MaxVersion \in Nat /\ MaxTime \in Nat
    /\ MaxStops \in Nat /\ MaxPowerFailures \in Nat

\* An envelope binds a prepared install, has a window [from, until) and a
\* signed activation time, and a nonce that tells two envelopes apart.
ASSUME AuthorizationAssumption ==
    Authorizations \subseteq [nonce : Nat, version : Versions, signatures : Nat,
                              from : Nat, at : Nat, until : Nat]

VARIABLES
    files,         \* the universe directory as processes see it
    disk,          \* what of it survives a power failure
    version,       \* the content of the protocol-18 universe
    sleeping,      \* its cells that are asleep
    cutoff,        \* last trusted time of each version
    work,          \* cells protocol 19 has begun to run
    now,           \* trusted clock
    held,          \* file locks of each process
    local,         \* where each process is, and what it has in memory
    acknowledged,  \* envelopes `activate' reported as committed
    stops,         \* processes that have stopped
    failures       \* power failures so far

vars == <<files, disk, version, sleeping, cutoff, work, now, held, local,
          acknowledged, stops, failures>>
universe == <<version, sleeping, cutoff>>
faults == <<stops, failures>>

Absent == -1
Debris == -2       \* an incomplete namespace, or only some of its files
Contents == Versions \cup {Absent, Debris}

SourceLocks == <<"directory">> \o CellOrder
Locks == {SourceLocks[i] : i \in DOMAIN SourceLocks} \cup {"install", "activation"}
Free(lock) == \A p \in Processes : lock \notin held[p]

Steps == {"idle", "lockSource", "lockInstall", "validate", "reset", "artifacts",
          "stageDirectory", "stageCells", "headTemp", "headRename", "headSync",
          "lockActivation", "resetActivation", "authorize", "writeAuthorization",
          "writeHistory", "selectorTemp", "selectorRename", "selectorSync",
          "bootInstall", "bootActivation", "bootOpen", "bootCells", "running",
          "legacyDirectory", "legacyDirectoryLock", "legacyDirectoryLocked",
          "legacyCell", "legacyCellLock", "legacyCellLocked", "serving"}

Idle == [at |-> "idle", task |-> "prepare", authorization |-> {}, seen |-> {}, next |-> 1]

EmptyFiles ==
    [root |-> [selector |-> {}, temp |-> FALSE],
     install |-> [artifacts |-> Absent, head |-> Absent, temp |-> FALSE],
     directory |-> Absent,
     cells |-> [c \in Cells |-> Absent],
     activation |-> [authorizations |-> {}, histories |-> {}, temp |-> FALSE,
                     lifecycle |-> FALSE]]

\* A protocol-18 universe whose worker has put every cell to sleep.
Init ==
    /\ files = EmptyFiles
    /\ disk = EmptyFiles
    /\ version = 0
    /\ sleeping = Cells
    /\ cutoff = [v \in Versions |-> 0]
    /\ work = {}
    /\ now = 0
    /\ held = [p \in Processes |-> {}]
    /\ local = [p \in Processes |-> Idle]
    /\ acknowledged = {}
    /\ stops = 0
    /\ failures = 0

At(p, step) == local[p].at = step
Goto(p, step) == local' = [local EXCEPT ![p].at = step]
Take(p, lock) == held' = [held EXCEPT ![p] = @ \cup {lock}]

\* A process that returns or dies gives up its locks.
Stop(p) ==
    /\ local' = [local EXCEPT ![p] = Idle]
    /\ held' = [held EXCEPT ![p] = {}]

\* An atomic write: temporary file, sync, rename, sync of the directory.
Written(directory, content) ==
    /\ files' = [files EXCEPT ![directory] = content]
    /\ disk' = [disk EXCEPT ![directory] = content]

Synced(directory) ==
    /\ disk' = [disk EXCEPT ![directory] = files[directory]]
    /\ UNCHANGED files

Selector == files.root.selector
Activated == Selector # {}

-----------------------------------------------------------------------------
(* The commands.  Each looks at the selector before it takes any lock.     *)

Start(p, task, step, authorization, seen) ==
    /\ At(p, "idle") /\ task \in Tasks
    /\ local' = [local EXCEPT ![p] =
           [at |-> step, task |-> task, authorization |-> authorization,
            seen |-> seen, next |-> 1]]
    /\ UNCHANGED <<files, disk, universe, work, now, held, acknowledged, faults>>

StartPrepare(p) == ~Activated /\ Start(p, "prepare", "lockSource", {}, {})

\* With a selector present `activate' is a retry, answered by a verified open.
StartActivate(p, a) ==
    \/ ~Activated /\ Start(p, "activate", "lockSource", {a}, {})
    \/ Activated /\ Start(p, "activate", "bootInstall", {a}, Selector)

StartBoot(p) == Activated /\ Start(p, "boot", "bootInstall", {}, Selector)

StartLegacy(p) == ~Activated /\ Start(p, "legacy", "legacyDirectory", {}, {})

-----------------------------------------------------------------------------
(* The protocol-18 worker: the directory, then each cell, every one with a *)
(* look at the selector before and after its lock.                         *)

\* A refusal ends the process.
Refused(p) ==
    /\ Stop(p)
    /\ UNCHANGED <<files, disk, universe, work, now, acknowledged, faults>>

LockOrRefuse(p, allowed, lock, step) ==
    \/ /\ allowed /\ Free(lock)
       /\ Take(p, lock) /\ Goto(p, step)
       /\ UNCHANGED <<files, disk, universe, work, now, acknowledged, faults>>
    \/ ~(allowed /\ Free(lock)) /\ Refused(p)

\* Bound: a worker that could not open every cell within MaxVersion is not begun.
RestartsLeft == version + Len(CellOrder) <= MaxVersion

\* Mutant: only the look at the start of the process is left.
LegacyFencedAtStart == FALSE
LegacyFenced == Activated

\* A look at the selector with or without a lock held.
Look(p, step) ==
    \/ /\ ~LegacyFenced
       /\ Goto(p, step)
       /\ UNCHANGED <<files, disk, universe, work, now, held, acknowledged, faults>>
    \/ LegacyFenced /\ Refused(p)

LegacyLook(p) ==
    \/ At(p, "legacyDirectory") /\ Look(p, "legacyDirectoryLock")
    \/ At(p, "legacyCell") /\ Look(p, "legacyCellLock")

LegacyDirectoryLock(p) ==
    /\ At(p, "legacyDirectoryLock")
    /\ LockOrRefuse(p, RestartsLeft, "directory", "legacyDirectoryLocked")

LegacyDirectoryOpen(p) == At(p, "legacyDirectoryLocked") /\ Look(p, "legacyCell")

LegacyCellLock(p) ==
    /\ At(p, "legacyCellLock")
    /\ LockOrRefuse(p, TRUE, CellOrder[local[p].next], "legacyCellLocked")

\* Opening a cell ends its sleep and writes a new fence.
LegacyCellOpen(p) ==
    /\ At(p, "legacyCellLocked")
    /\ \/ /\ ~LegacyFenced
          /\ version' = version + 1
          /\ cutoff' = [cutoff EXCEPT ![version + 1] = now]
          /\ sleeping' = sleeping \ {CellOrder[local[p].next]}
          /\ local' = [local EXCEPT
                 ![p].next = @ + 1,
                 ![p].at = IF local[p].next = Len(CellOrder) THEN "serving" ELSE "legacyCell"]
          /\ UNCHANGED <<files, disk, work, now, held, acknowledged, faults>>
       \/ LegacyFenced /\ Refused(p)

\* The worker shuts down; a cell with production scheduled stays in the
\* background, and its source is not frozen.
LegacyDrain(p) ==
    /\ At(p, "serving")
    /\ sleeping' \in SUBSET Cells
    /\ cutoff' = [cutoff EXCEPT ![version] = now]
    /\ Stop(p)
    /\ UNCHANGED <<files, disk, version, work, now, acknowledged, faults>>

-----------------------------------------------------------------------------
(* Prepare: the locks of the frozen source, then the install transaction.  *)

LockSource(p) ==
    /\ At(p, "lockSource")
    /\ LET lock == SourceLocks[local[p].next]
           frozen == lock \in Cells => lock \in sleeping
       IN \/ /\ Free(lock) /\ frozen
             /\ Take(p, lock)
             /\ local' = [local EXCEPT
                    ![p].next = @ + 1,
                    ![p].at = IF local[p].next = Len(SourceLocks)
                              THEN "lockInstall" ELSE "lockSource"]
             /\ UNCHANGED <<files, disk, universe, work, now, acknowledged, faults>>
          \/ ~(Free(lock) /\ frozen) /\ Refused(p)

\* Mutant: an install that does not match is prepared afresh.
CommittedIfUnchanged ==
    /\ files.install.head = version
    /\ work = {}
Committed == files.install.head # Absent

\* The install directory is created and the universe root synchronized.
LockInstall(p) ==
    /\ At(p, "lockInstall")
    /\ Synced("root")
    /\ \/ /\ Free("install")
          /\ Take(p, "install")
          /\ Goto(p, IF Committed THEN "validate" ELSE "reset")
       \/ ~Free("install") /\ Stop(p)
    /\ UNCHANGED <<universe, work, now, acknowledged, faults>>

InstallFileSet ==
    /\ files.install.head # Absent
    /\ files.install.artifacts \in Versions
    /\ ~files.install.temp

\* The committed install must be the one the frozen source yields, untouched.
InstallMatchesSource ==
    /\ InstallFileSet
    /\ files.install.artifacts = version
    /\ files.directory = version
    /\ \A c \in Cells : files.cells[c] = version
    /\ work = {}
    /\ files.install.head = version

\* `prepare' returns; `activate' goes on with the locks it has.
Prepared(p) ==
    \/ local[p].task = "prepare" /\ Stop(p)
    \/ local[p].task = "activate" /\ Goto(p, "lockActivation") /\ UNCHANGED held

ValidateInstall(p) ==
    /\ At(p, "validate")
    /\ \/ /\ InstallMatchesSource
          /\ Prepared(p)
          /\ UNCHANGED <<files, disk, universe, work, now, acknowledged, faults>>
       \/ ~InstallMatchesSource /\ Refused(p)

\* Without a head everything staged so far is removed.
ResetInstall(p) ==
    /\ At(p, "reset")
    /\ files' = [EmptyFiles EXCEPT !.root = files.root, !.activation = files.activation]
    /\ disk' = [EmptyFiles EXCEPT !.root = disk.root, !.activation = disk.activation]
    /\ work' = {}
    /\ Goto(p, "artifacts")
    /\ UNCHANGED <<universe, now, held, acknowledged, faults>>

WriteArtifacts(p) ==
    /\ At(p, "artifacts")
    /\ Written("install", [files.install EXCEPT !.artifacts = version])
    /\ Goto(p, "stageDirectory")
    /\ UNCHANGED <<universe, work, now, held, acknowledged, faults>>

StageDirectory(p) ==
    /\ At(p, "stageDirectory")
    /\ Written("directory", version)
    /\ local' = [local EXCEPT ![p].at = "stageCells", ![p].next = 1]
    /\ UNCHANGED <<universe, work, now, held, acknowledged, faults>>

\* Mutant: the head is written after the first cell.
FirstCellStaged(p) == TRUE
LastCellStaged(p) == local[p].next = Len(CellOrder)

StageCell(p) ==
    /\ At(p, "stageCells")
    /\ Written("cells", [files.cells EXCEPT ![CellOrder[local[p].next]] = version])
    /\ local' = [local EXCEPT ![p].next = @ + 1,
                              ![p].at = IF LastCellStaged(p) THEN "headTemp" ELSE "stageCells"]
    /\ UNCHANGED <<universe, work, now, held, acknowledged, faults>>

WriteHeadTemp(p) ==
    /\ At(p, "headTemp")
    /\ files' = [files EXCEPT !.install.temp = TRUE]
    /\ Goto(p, "headRename")
    /\ UNCHANGED <<disk, universe, work, now, held, acknowledged, faults>>

RenameHead(p) ==
    /\ At(p, "headRename")
    /\ files' = [files EXCEPT !.install.head = version, !.install.temp = FALSE]
    /\ Goto(p, "headSync")
    /\ UNCHANGED <<disk, universe, work, now, held, acknowledged, faults>>

SyncHead(p) ==
    /\ At(p, "headSync")
    /\ Synced("install")
    /\ Prepared(p)
    /\ UNCHANGED <<universe, work, now, acknowledged, faults>>

-----------------------------------------------------------------------------
(* Activate: the envelope, the history head, and the selector last.        *)

LockActivation(p) ==
    /\ At(p, "lockActivation")
    /\ Synced("root")
    /\ \/ /\ Free("activation") /\ ~Activated
          /\ Take(p, "activation")
          /\ Goto(p, "resetActivation")
       \/ ~(Free("activation") /\ ~Activated) /\ Stop(p)
    /\ UNCHANGED <<universe, work, now, acknowledged, faults>>

\* The remains of an earlier attempt; the universe lifecycle head is none.
\* Mutant: the envelope of the earlier attempt is kept.
ClearedActivationKeepsEnvelope ==
    [files.activation EXCEPT !.histories = {}, !.temp = FALSE]
ClearedActivation ==
    [files.activation EXCEPT !.authorizations = {}, !.histories = {}, !.temp = FALSE]

ResetActivation(p) ==
    /\ At(p, "resetActivation")
    /\ \/ /\ ~files.activation.lifecycle
          /\ files' = [files EXCEPT !.root.temp = FALSE, !.activation = ClearedActivation]
          /\ disk' = [disk EXCEPT !.root = [files.root EXCEPT !.temp = FALSE],
                                  !.activation = ClearedActivation]
          /\ Goto(p, "authorize")
          /\ UNCHANGED <<universe, work, now, held, acknowledged, faults>>
       \/ files.activation.lifecycle /\ Refused(p)

VerifyAuthorization(a, prepared, time) ==
    /\ a.from <= a.at /\ a.at < a.until
    /\ a.version = prepared
    /\ a.from <= time /\ time < a.until
    /\ a.signatures = Threshold

\* The clock is read once; the window is not looked at again.
Authorize(p) ==
    /\ At(p, "authorize")
    /\ LET a == CHOOSE x \in local[p].authorization : TRUE
           accepted == /\ VerifyAuthorization(a, files.install.head, now)
                       /\ cutoff[files.install.artifacts] <= now
                       /\ cutoff[files.install.artifacts] <= a.at
       IN \/ /\ accepted
             /\ Goto(p, "writeAuthorization")
             /\ UNCHANGED <<files, disk, universe, work, now, held, acknowledged, faults>>
          \/ ~accepted /\ Refused(p)

WriteAuthorization(p) ==
    /\ At(p, "writeAuthorization")
    /\ Written("activation", [files.activation EXCEPT
                                 !.authorizations = @ \cup local[p].authorization])
    /\ Goto(p, "writeHistory")
    /\ UNCHANGED <<universe, work, now, held, acknowledged, faults>>

WriteHistory(p) ==
    /\ At(p, "writeHistory")
    /\ Written("activation", [files.activation EXCEPT
                                 !.histories = @ \cup local[p].authorization])
    /\ Goto(p, "selectorTemp")
    /\ UNCHANGED <<universe, work, now, held, acknowledged, faults>>

WriteSelectorTemp(p) ==
    /\ At(p, "selectorTemp")
    /\ files' = [files EXCEPT !.root.temp = TRUE]
    /\ Goto(p, "selectorRename")
    /\ UNCHANGED <<disk, universe, work, now, held, acknowledged, faults>>

RenameSelector(p) ==
    /\ At(p, "selectorRename")
    /\ files' = [files EXCEPT !.root = [selector |-> local[p].authorization, temp |-> FALSE]]
    /\ Goto(p, "selectorSync")
    /\ UNCHANGED <<disk, universe, work, now, held, acknowledged, faults>>

ActivationFileSet(a) ==
    /\ files.activation.authorizations = {a}
    /\ files.activation.histories = {a}
    /\ ~files.activation.temp

\* The command answers after a last look at the file set.
SyncSelector(p) ==
    /\ At(p, "selectorSync")
    /\ Synced("root")
    /\ Stop(p)
    /\ acknowledged' = acknowledged \cup {a \in local[p].authorization : ActivationFileSet(a)}
    /\ UNCHANGED <<universe, work, now, faults>>

-----------------------------------------------------------------------------
(* The verified boot, which is also how a repeated `activate' is answered. *)

SelectedInstallValid(a) ==
    /\ InstallFileSet
    /\ files.install.head = a.version
    /\ files.install.artifacts = a.version
    /\ \A c \in Cells : files.cells[c] # Absent

BootInstall(p) ==
    /\ At(p, "bootInstall")
    /\ LockOrRefuse(p, \A a \in local[p].seen : SelectedInstallValid(a),
                    "install", "bootActivation")

SelectedActivationValid(a) ==
    /\ VerifyAuthorization(a, files.install.head, a.at)
    /\ cutoff[files.install.artifacts] <= a.at
    /\ ActivationFileSet(a)

BootActivation(p) ==
    /\ At(p, "bootActivation")
    /\ LockOrRefuse(p, /\ Selector = local[p].seen
                       /\ \A a \in local[p].seen : SelectedActivationValid(a),
                    "activation", "bootOpen")

\* The directory and every cell must be those of the prepared head; cells
\* protocol 19 has run have gone on from there.
SelectedWorldOpens(a) ==
    /\ files.directory = a.version
    /\ \A c \in Cells : files.cells[c] = a.version

\* The first boot writes the universe lifecycle head.
BootOpen(p) ==
    /\ At(p, "bootOpen")
    /\ LET opens == \A a \in local[p].seen : SelectedWorldOpens(a)
       IN \/ /\ opens
             /\ Written("activation", [files.activation EXCEPT !.lifecycle = TRUE])
             /\ local' = [local EXCEPT ![p].at = "bootCells", ![p].next = 1]
             /\ UNCHANGED <<universe, work, now, held, acknowledged, faults>>
          \/ ~opens /\ Refused(p)

\* Each cell's lifecycle is initialized, or found initialized.
BootCell(p) ==
    /\ At(p, "bootCells")
    /\ local[p].next <= Len(CellOrder)
    /\ work' = work \cup {CellOrder[local[p].next]}
    /\ local' = [local EXCEPT ![p].next = @ + 1]
    /\ UNCHANGED <<files, disk, universe, now, held, acknowledged, faults>>

SameAuthorization(p) == local[p].seen = local[p].authorization

\* A boot goes on serving; a repeated `activate' compares envelopes and ends.
Booted(p) ==
    /\ At(p, "bootCells")
    /\ local[p].next > Len(CellOrder)
    /\ \/ local[p].task = "boot" /\ Goto(p, "running") /\ UNCHANGED <<held, acknowledged>>
       \/ /\ local[p].task = "activate" /\ Stop(p)
          /\ acknowledged' = IF SameAuthorization(p)
                             THEN acknowledged \cup local[p].authorization
                             ELSE acknowledged
    /\ UNCHANGED <<files, disk, universe, work, now, faults>>

ShutDown(p) == At(p, "running") /\ Refused(p)

-----------------------------------------------------------------------------
(* Time and failures.                                                      *)

Tick ==
    /\ now < MaxTime
    /\ now' = now + 1
    /\ UNCHANGED <<files, disk, universe, work, held, local, acknowledged, faults>>

\* The reset removes the directory, then cell by cell, then the install files.
PartlyReset ==
    LET without(n) == [files EXCEPT !.directory = Absent,
                                    !.cells = [c \in Cells |->
                                        IF \E i \in 1..n : CellOrder[i] = c
                                        THEN Absent ELSE files.cells[c]]]
    IN {without(n) : n \in 0..Len(CellOrder)}
       \cup {[without(Len(CellOrder)) EXCEPT !.install.artifacts = a] : a \in {Debris, Absent}}

\* What a step that is interrupted may leave behind, unsynchronized.
Leftovers(p) ==
    CASE At(p, "reset") -> PartlyReset
      [] At(p, "artifacts") -> {[files EXCEPT !.install.artifacts = Debris, !.install.temp = TRUE]}
      [] At(p, "stageDirectory") -> {[files EXCEPT !.directory = Debris]}
      [] At(p, "stageCells") -> {[files EXCEPT !.cells[CellOrder[local[p].next]] = Debris]}
      [] At(p, "headTemp") -> {[files EXCEPT !.install.temp = TRUE]}
      [] At(p, "resetActivation") ->
           {[files EXCEPT !.activation.authorizations = {}, !.root.temp = FALSE]}
      [] At(p, "writeAuthorization") \/ At(p, "writeHistory") ->
           {[files EXCEPT !.activation.temp = TRUE]}
      [] At(p, "selectorTemp") -> {[files EXCEPT !.root.temp = TRUE]}
      [] OTHER -> {}

\* A process is killed, or an I/O error ends it.
Halt(p) ==
    /\ ~At(p, "idle")
    /\ stops < MaxStops /\ stops' = stops + 1
    /\ files' \in {files} \cup Leftovers(p)
    /\ Stop(p)
    /\ UNCHANGED <<disk, universe, work, now, acknowledged, failures>>

\* Each directory comes back with its unsynchronized changes or without.
LosePower ==
    /\ failures < MaxPowerFailures /\ failures' = failures + 1
    /\ \E lost \in SUBSET DOMAIN files :
           files' = [d \in DOMAIN files |-> IF d \in lost THEN disk[d] ELSE files[d]]
    /\ disk' = files'
    /\ local' = [p \in Processes |-> Idle]
    /\ held' = [p \in Processes |-> {}]
    /\ UNCHANGED <<universe, work, now, acknowledged, stops>>

-----------------------------------------------------------------------------

Prepare(p) ==
    \/ LockSource(p) \/ LockInstall(p) \/ ValidateInstall(p) \/ ResetInstall(p)
    \/ WriteArtifacts(p) \/ StageDirectory(p) \/ StageCell(p)
    \/ WriteHeadTemp(p) \/ RenameHead(p) \/ SyncHead(p)

Activate(p) ==
    \/ LockActivation(p) \/ ResetActivation(p) \/ Authorize(p)
    \/ WriteAuthorization(p) \/ WriteHistory(p)
    \/ WriteSelectorTemp(p) \/ RenameSelector(p) \/ SyncSelector(p)

Boot(p) ==
    BootInstall(p) \/ BootActivation(p) \/ BootOpen(p) \/ BootCell(p) \/ Booted(p)

Legacy(p) ==
    \/ LegacyLook(p) \/ LegacyDirectoryLock(p) \/ LegacyDirectoryOpen(p)
    \/ LegacyCellLock(p) \/ LegacyCellOpen(p)

Command(p) ==
    \/ StartPrepare(p) \/ StartBoot(p) \/ StartLegacy(p)
    \/ \E a \in Authorizations : StartActivate(p, a)

Next ==
    \/ \E p \in Processes :
           \/ Command(p) \/ Prepare(p) \/ Activate(p) \/ Boot(p) \/ Legacy(p)
           \/ LegacyDrain(p) \/ ShutDown(p) \/ Halt(p)
    \/ Tick
    \/ LosePower

Spec == Init /\ [][Next]_vars

-----------------------------------------------------------------------------
(* Properties.                                                             *)

RootDirectory == [selector : SUBSET Authorizations, temp : BOOLEAN]
InstallDirectory == [artifacts : Contents, head : Versions \cup {Absent}, temp : BOOLEAN]
ActivationDirectory == [authorizations : SUBSET Authorizations,
                        histories : SUBSET Authorizations,
                        temp : BOOLEAN, lifecycle : BOOLEAN]
UniverseDirectory == [root : RootDirectory, install : InstallDirectory,
                      directory : Contents, cells : [Cells -> Contents],
                      activation : ActivationDirectory]

\* Types, and that the lock files written by acquire_install_lock,
\* acquire_activation_lock and the protocol-18 opens have one holder each.
TypeOK ==
    /\ files \in UniverseDirectory
    /\ disk \in UniverseDirectory
    /\ version \in Versions
    /\ sleeping \subseteq Cells
    /\ cutoff \in [Versions -> 0..MaxTime]
    /\ work \subseteq Cells
    /\ now \in 0..MaxTime
    /\ held \in [Processes -> SUBSET Locks]
    /\ local \in [Processes -> [at : Steps, task : {"prepare", "activate", "legacy", "boot"},
                                authorization : SUBSET Authorizations,
                                seen : SUBSET Authorizations,
                                next : 1..(Len(SourceLocks) + 1)]]
    /\ acknowledged \subseteq Authorizations
    /\ stops \in 0..MaxStops
    /\ failures \in 0..MaxPowerFailures
    /\ \A p, q \in Processes : p # q => held[p] \cap held[q] = {}

\* A process that stops, or a power failure, but not one after the other: a
\* head that was renamed and not synchronized is trusted by the next process
\* and gone after a power failure.
FailuresApart == stops = 0 \/ failures = 0

\* From the rename of the selector on, every check the verified boot makes
\* (validate_from_active_head, the signed envelope, the history head, the exact
\* file sets, the directory and the cells) succeeds, whatever processes stopped
\* before or wherever the power failed.
ActiveHeadRecoverable ==
    FailuresApart =>
        \A a \in Selector :
            /\ SelectedInstallValid(a)
            /\ SelectedActivationValid(a)
            /\ SelectedWorldOpens(a)

\* While a selector exists the protocol-18 universe is the one its install was
\* derived from, asleep, with no worker in it: ensure_legacy_protocol_not_activated
\* around each lock leaves no order of steps in which a worker gets through.
OneHistory ==
    \A a \in Selector :
        /\ version = a.version
        /\ sleeping = Cells
        /\ \A p \in Processes : ~At(p, "serving")

\* A prepared-install head is only ever seen beside the complete target it
\* names, although artifacts, directory and cells are staged one by one and
\* prepare may stop anywhere in between.
PreparedIsComplete ==
    Committed =>
        /\ InstallFileSet
        /\ files.install.artifacts = files.install.head
        /\ files.directory = files.install.head
        /\ \A c \in Cells : files.cells[c] = files.install.head

\* An envelope `activate' has reported as committed, at once or to a retry, is
\* the selected one and stays it.
AcknowledgedIsActive == FailuresApart => \A a \in acknowledged : Selector = {a}

\* Types and locks; what prepare and activate have reported is there.
ReportsAreTrue == TypeOK /\ PreparedIsComplete /\ AcknowledgedIsActive

\* What protocol 19 has begun in a cell is never discarded, not even by a
\* `prepare' that looked at the selector before the activation and got its
\* locks after the first boot had ended.
WorkSurvives == [][FailuresApart => work \subseteq work']_vars
=============================================================================
