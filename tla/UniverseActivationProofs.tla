---------------------- MODULE UniverseActivationProofs ----------------------
(***************************************************************************)
(* Proofs about UniverseActivation for every set of processes, cells and   *)
(* envelopes and every bound on restarts, time, stops and power failures.  *)
(***************************************************************************)
EXTENDS UniverseActivation, TLAPS

-----------------------------------------------------------------------------
(* The inductive invariant: what each process relies on at its place, and  *)
(* what holds of the universe directory whatever the processes do.         *)

Staging == {"reset", "artifacts", "stageDirectory", "stageCells", "headTemp",
            "headRename", "headSync"}
Preparing == {"validate"} \cup Staging
Arming == {"writeAuthorization", "writeHistory", "selectorTemp", "selectorRename"}
Clearing == {"resetActivation", "authorize"} \cup Arming
Activating == Clearing \cup {"selectorSync"}
Booting == {"bootOpen", "bootCells", "running"}
OpeningCell == {"legacyDirectoryLocked", "legacyCell", "legacyCellLock", "legacyCellLocked"}
Frozen == {"lockInstall", "lockActivation"} \cup Preparing \cup Activating

\* Who must hold which lock.
HasDirectory(p) ==
    \/ local[p].at \in Frozen \cup OpeningCell \cup {"serving"}
    \/ At(p, "lockSource") /\ local[p].next > 1
HasInstall(p) ==
    local[p].at \in {"lockActivation", "bootActivation"} \cup Preparing \cup Activating \cup Booting
HasActivation(p) == local[p].at \in Activating \cup Booting

LocksHeld(p) ==
    /\ HasDirectory(p) => "directory" \in held[p]
    /\ HasInstall(p) => "install" \in held[p]
    /\ HasActivation(p) => "activation" \in held[p]

Exclusive == \A p, q \in Processes : p # q => held[p] \cap held[q] = {}

\* The protocol-18 universe stands still for whoever has locked it.
SourceFrozen(p) ==
    /\ At(p, "lockSource") =>
           /\ local[p].next <= Len(SourceLocks)
           /\ \A i \in DOMAIN CellOrder : i + 1 < local[p].next => CellOrder[i] \in sleeping
    /\ local[p].at \in Frozen => sleeping = Cells

\* An opening worker has restarts left for the cells still to come.
OpeningBounded(p) ==
    /\ local[p].at \in {"legacyDirectory", "legacyDirectoryLock"} => local[p].next = 1
    /\ local[p].at \in OpeningCell =>
           /\ local[p].next <= Len(CellOrder)
           /\ version + Len(CellOrder) + 1 - local[p].next <= MaxVersion

\* Both directories hold the staged content so far.
StagedDirectory == files.directory = version /\ disk.directory = version
StagedCell(i) == files.cells[CellOrder[i]] = version /\ disk.cells[CellOrder[i]] = version
StagedArtifacts == files.install.artifacts = version

InstallStaged(p) ==
    /\ local[p].at \in Staging \ {"headSync"} => files.install.head = Absent
    /\ local[p].at \in {"stageDirectory", "stageCells", "headTemp", "headRename"} =>
           StagedArtifacts
    /\ local[p].at \in {"stageCells", "headTemp", "headRename"} => StagedDirectory
    /\ At(p, "stageCells") =>
           /\ local[p].next <= Len(CellOrder)
           /\ \A i \in DOMAIN CellOrder : i < local[p].next => StagedCell(i)
    /\ local[p].at \in {"headTemp", "headRename"} => \A i \in DOMAIN CellOrder : StagedCell(i)
    /\ local[p].at \in {"headSync", "lockActivation"} \cup Activating =>
           files.install.head = version

\* `activate' carries one envelope.
Carries(p) ==
    /\ local[p].at \in {"lockActivation"} \cup Activating => local[p].task = "activate"
    /\ local[p].task = "activate" =>
           \E a \in Authorizations : local[p].authorization = {a}

\* What Authorize has found, as far as it outlives the command.
Verified(a) ==
    /\ a.version = version
    /\ a.from <= a.at /\ a.at < a.until
    /\ a.signatures = Threshold
    /\ cutoff[version] <= a.at

ActivationArmed(p) ==
    /\ local[p].at \in Clearing => Selector = {}
    /\ local[p].at \in Arming => \A a \in local[p].authorization : Verified(a)
    /\ At(p, "selectorSync") => Selector = local[p].authorization
    /\ local[p].at \in {"authorize", "writeAuthorization"} =>
           /\ files.activation.authorizations = {} /\ files.activation.histories = {}
           /\ ~files.activation.temp
    /\ At(p, "writeHistory") =>
           /\ files.activation.authorizations = local[p].authorization
           /\ files.activation.histories = {} /\ ~files.activation.temp
    /\ local[p].at \in {"selectorTemp", "selectorRename"} =>
           /\ files.activation.authorizations = local[p].authorization
           /\ files.activation.histories = local[p].authorization
           /\ ~files.activation.temp

BootedFrom(p) ==
    /\ local[p].at \in {"bootInstall", "bootActivation"} \cup Booting => local[p].seen # {}
    /\ local[p].at \in Booting => Selector = local[p].seen

Placed(p) ==
    /\ LocksHeld(p)
    /\ SourceFrozen(p)
    /\ OpeningBounded(p)
    /\ InstallStaged(p)
    /\ Carries(p)
    /\ ActivationArmed(p)
    /\ BootedFrom(p)

\* What a power failure leaves of a committed install, and of the selector.
HeadDurable ==
    /\ Committed => disk.directory = files.directory /\ disk.cells = files.cells
    /\ disk.install.head # Absent => disk.install = files.install
    /\ disk.root.selector \subseteq Selector

\* A selected envelope is the verified one of the frozen universe.
SelectedFrozen ==
    Activated =>
        /\ \A a \in Selector : Verified(a)
        /\ sleeping = Cells
        /\ \A p \in Processes : ~At(p, "serving")

Types ==
    /\ files \in UniverseDirectory
    /\ disk \in UniverseDirectory
    /\ version \in Versions
    /\ sleeping \subseteq Cells
    /\ cutoff \in [Versions -> 0..MaxTime]
    /\ work \subseteq Cells
    /\ now \in 0..MaxTime
    /\ held \in [Processes -> SUBSET Locks]
    /\ local \in [Processes -> [at : Steps, task : {"prepare", "activate", "legacy", "boot"},
                                authorization : SUBSET Authorizations,
                                seen : SUBSET Authorizations,
                                next : 1..(Len(SourceLocks) + 1)]]
    /\ acknowledged \subseteq Authorizations
    /\ stops \in 0..MaxStops
    /\ failures \in 0..MaxPowerFailures

UniverseInv ==
    /\ Types
    /\ Exclusive
    /\ \A p \in Processes : Placed(p)
    /\ PreparedIsComplete
    /\ HeadDurable
    /\ SelectedFrozen

-----------------------------------------------------------------------------
(* The invariant of runs in which power failures and stops do not mix.     *)

\* Without a stop, disk and files differ only between a write and its sync.
DurableUnlessStopped ==
    stops = 0 =>
        /\ disk.activation = files.activation
        /\ disk.install = files.install
           \/ \E q \in Processes : local[q].at \in {"headRename", "headSync"}
        /\ disk.root = files.root
           \/ \E q \in Processes : local[q].at \in {"selectorRename", "selectorSync"}

\* Once a selector exists its install and its files stay.
SelectionKept ==
    /\ Activated => \A q \in Processes : local[q].at \notin Staging
    /\ \A a \in Selector : files.install.head = a.version /\ ActivationFileSet(a)

\* What was reported and what was begun belongs to the selected envelope, and
\* neither happens before the selector is synchronized.
OutcomesSelected ==
    /\ \A a \in acknowledged : Selector = {a}
    /\ work # {} => Activated
    /\ \A q \in Processes : At(q, "selectorSync") => acknowledged = {} /\ work = {}

RecoveryInv ==
    /\ DurableUnlessStopped
    /\ FailuresApart => SelectionKept /\ OutcomesSelected

-----------------------------------------------------------------------------
(* The locks of the source, and who excludes whom.                         *)

(* The cells are those of the canonical order.                             *)
LEMMA CellOrderShape ==
    /\ Len(CellOrder) \in Nat \ {0}
    /\ DOMAIN CellOrder = 1..Len(CellOrder)
    /\ \A i \in 1..Len(CellOrder) : CellOrder[i] \in Cells
    /\ \A c \in Cells : \E i \in 1..Len(CellOrder) : CellOrder[i] = c
<1>1. CellOrder \in Seq(Cells) /\ CellOrder # <<>>
  BY UniverseAssumption
<1>2. DOMAIN CellOrder = 1..Len(CellOrder) /\ Len(CellOrder) \in Nat \ {0}
  BY <1>1
<1> QED BY <1>1, <1>2 DEF Cells

(* The source is locked as the directory and then the cells in order.      *)
LEMMA SourceLocksShape ==
    /\ Len(SourceLocks) = Len(CellOrder) + 1
    /\ SourceLocks[1] = "directory"
    /\ \A i \in 1..Len(CellOrder) : SourceLocks[i + 1] = CellOrder[i]
    /\ \A i \in 1..Len(SourceLocks) : SourceLocks[i] \in Locks
    /\ {"install", "activation"} \subseteq Locks
<1> DEFINE S == Cells \cup {"directory"}
<1>1. CellOrder \in Seq(S)
  BY UniverseAssumption
<1>2. <<"directory">> \in Seq(S) /\ Len(<<"directory">>) = 1
  OBVIOUS
<1>3. SourceLocks \in Seq(S)
  BY <1>1, <1>2 DEF SourceLocks
<1>4. Len(SourceLocks) = Len(CellOrder) + 1
  BY <1>1, <1>2, CellOrderShape DEF SourceLocks
<1>5. SourceLocks[1] = "directory"
  BY <1>1, <1>2 DEF SourceLocks
<1>6. \A i \in 1..Len(CellOrder) : SourceLocks[i + 1] = CellOrder[i]
  BY <1>1, <1>2, CellOrderShape DEF SourceLocks
<1>7. DOMAIN SourceLocks = 1..Len(SourceLocks)
  BY <1>3
<1> QED BY <1>4, <1>5, <1>6, <1>7 DEF Locks

(* Locks exclude: two processes never both stand where the same lock is    *)
(* needed.                                                                 *)
LEMMA HoldersApart ==
    ASSUME UniverseInv, NEW p \in Processes, NEW q \in Processes, p # q
    PROVE  /\ ~(HasDirectory(p) /\ HasDirectory(q))
           /\ ~(HasInstall(p) /\ HasInstall(q))
           /\ ~(HasActivation(p) /\ HasActivation(q))
<1>1. LocksHeld(p) /\ LocksHeld(q)
  BY DEF UniverseInv, Placed
<1>2. held[p] \cap held[q] = {}
  BY DEF UniverseInv, Exclusive
<1> QED BY <1>1, <1>2 DEF LocksHeld

(* What a process relies on at its place is only changed by itself or by   *)
(* one that holds a lock it would need.                                    *)
LEMMA OthersPlaced ==
    ASSUME UniverseInv, NEW p \in Processes, NEW q \in Processes, p # q,
           local'[q] = local[q], held'[q] = held[q],
           HasDirectory(p) \/ UNCHANGED universe,
           \/ HasDirectory(p) \/ HasInstall(p)
           \/ /\ files'.install = files.install
              /\ files'.directory = files.directory /\ disk'.directory = disk.directory
              /\ files'.cells = files.cells /\ disk'.cells = disk.cells,
           HasActivation(p) \/ Selector' = Selector,
           HasActivation(p) \/ HasDirectory(p) \/ files'.activation = files.activation
    PROVE  Placed(q)'
<1>1. Placed(q)
  BY DEF UniverseInv
<1>2. /\ HasDirectory(q)' = HasDirectory(q) /\ HasInstall(q)' = HasInstall(q)
      /\ HasActivation(q)' = HasActivation(q)
  BY DEF HasDirectory, HasInstall, HasActivation, At
<1>3. LocksHeld(q)'
  <2>1. LocksHeld(q)
    BY <1>1 DEF Placed
  <2> QED BY <2>1, <1>2 DEF LocksHeld
<1>4. SourceFrozen(q)'
  <2>1. SourceFrozen(q)
    BY <1>1 DEF Placed
  <2>2. CASE UNCHANGED universe
    BY <2>1, <2>2 DEF SourceFrozen, universe, At
  <2>3. CASE HasDirectory(p)
    <3>1. ~HasDirectory(q)
      BY <2>3, HoldersApart
    <3>2. ~At(q, "lockSource") \/ ~(local[q].next > 1)
      BY <3>1 DEF HasDirectory
    <3>3. local[q].at \notin Frozen
      BY <3>1 DEF HasDirectory
    <3>4. local[q].next \in 1..(Len(SourceLocks) + 1)
      BY DEF UniverseInv, Types
    <3> QED BY <2>1, <3>2, <3>3, <3>4, CellOrderShape, SourceLocksShape DEF SourceFrozen, At
  <2> QED BY <2>2, <2>3
<1>5. OpeningBounded(q)'
  <2>1. OpeningBounded(q)
    BY <1>1 DEF Placed
  <2>2. CASE UNCHANGED universe
    BY <2>1, <2>2 DEF OpeningBounded, universe
  <2>3. CASE HasDirectory(p)
    <3>1. local[q].at \notin OpeningCell
      BY <2>3, HoldersApart DEF HasDirectory
    <3> QED BY <2>1, <3>1 DEF OpeningBounded
  <2> QED BY <2>2, <2>3
<1>6. InstallStaged(q)'
  <2>1. InstallStaged(q)
    BY <1>1 DEF Placed
  <2>2. CASE /\ UNCHANGED universe
             /\ files'.install = files.install
             /\ files'.directory = files.directory /\ disk'.directory = disk.directory
             /\ files'.cells = files.cells /\ disk'.cells = disk.cells
    BY <2>1, <2>2
    DEF InstallStaged, StagedDirectory, StagedCell, StagedArtifacts, universe, At
  <2>3. CASE HasDirectory(p) \/ HasInstall(p)
    <3>1. ~HasDirectory(q) \/ ~HasInstall(q)
      BY <2>3, HoldersApart
    <3>2. local[q].at \notin Staging \cup {"lockActivation"} \cup Activating
      BY <3>1 DEF HasDirectory, HasInstall, Frozen, Preparing
    <3> QED BY <3>2 DEF InstallStaged, At, Staging
  <2> QED BY <2>2, <2>3
<1>7. Carries(q)'
  <2>1. Carries(q)
    BY <1>1 DEF Placed
  <2> QED BY <2>1 DEF Carries
<1>8. ActivationArmed(q)'
  <2>1. ActivationArmed(q)
    BY <1>1 DEF Placed
  <2>2. CASE UNCHANGED universe /\ Selector' = Selector /\ files'.activation = files.activation
    <3>1. \A a : Verified(a)' = Verified(a)
      BY <2>2 DEF Verified, universe
    <3> QED BY <2>1, <2>2, <3>1 DEF ActivationArmed, At
  <2>3. CASE HasDirectory(p) \/ HasActivation(p)
    <3>1. ~HasDirectory(q) \/ ~HasActivation(q)
      BY <2>3, HoldersApart
    <3>2. local[q].at \notin Activating
      BY <3>1 DEF HasDirectory, HasActivation, Frozen
    <3> QED BY <3>2 DEF ActivationArmed, At, Activating, Clearing, Arming
  <2> QED BY <2>2, <2>3
<1>9. BootedFrom(q)'
  <2>1. BootedFrom(q)
    BY <1>1 DEF Placed
  <2>2. HasActivation(p) => local[q].at \notin Booting
    BY HoldersApart DEF HasActivation
  <2> QED BY <2>1, <2>2 DEF BootedFrom
<1> QED BY <1>3, <1>4, <1>5, <1>6, <1>7, <1>8, <1>9 DEF Placed

-----------------------------------------------------------------------------
(* Putting the invariant together after a step.                            *)

Tasked == {"prepare", "activate", "legacy", "boot"}
Place == [at : Steps, task : Tasked, authorization : SUBSET Authorizations,
          seen : SUBSET Authorizations, next : 1..(Len(SourceLocks) + 1)]

\* One process moves, all others stay where they are.
Moves(p) == \A q \in Processes \ {p} : local'[q] = local[q] /\ held'[q] = held[q]

(* Types when the directories and the universe are left alone.             *)
LEMMA QuietTypes ==
    ASSUME Types, UNCHANGED <<files, disk, universe, now>>, work' \subseteq Cells,
           local' \in [Processes -> Place], held' \in [Processes -> SUBSET Locks],
           acknowledged' \subseteq Authorizations,
           stops' \in 0..MaxStops, failures' \in 0..MaxPowerFailures
    PROVE  Types'
BY DEF Types, universe, Place, Tasked

(* A step of one process keeps the invariant when the process is well      *)
(* placed after it and the locks it needs allow what it changes.           *)
LEMMA OneMoved ==
    ASSUME UniverseInv, NEW p \in Processes, Moves(p),
           HasDirectory(p) \/ UNCHANGED universe,
           \/ HasDirectory(p) \/ HasInstall(p)
           \/ /\ files'.install = files.install
              /\ files'.directory = files.directory /\ disk'.directory = disk.directory
              /\ files'.cells = files.cells /\ disk'.cells = disk.cells,
           HasActivation(p) \/ Selector' = Selector,
           HasActivation(p) \/ HasDirectory(p) \/ files'.activation = files.activation,
           Types', Exclusive', Placed(p)', PreparedIsComplete', HeadDurable', SelectedFrozen'
    PROVE  UniverseInv'
<1>1. ASSUME NEW q \in Processes PROVE Placed(q)'
  <2>1. CASE q = p
    BY <2>1
  <2>2. CASE q # p
    <3>1. local'[q] = local[q] /\ held'[q] = held[q]
      BY <2>2 DEF Moves
    <3> QED BY <2>2, <3>1, OthersPlaced
  <2> QED BY <2>1, <2>2
<1> QED BY <1>1 DEF UniverseInv

(* A step that changes neither the directories nor the universe.           *)
LEMMA QuietMove ==
    ASSUME UniverseInv, NEW p \in Processes, Moves(p), UNCHANGED <<files, disk, universe>>,
           Types', Exclusive', Placed(p)', Activated => local'[p].at # "serving"
    PROVE  UniverseInv'
<1>1. Selector' = Selector
  BY DEF Selector
<1>2. PreparedIsComplete'
  BY DEF UniverseInv, PreparedIsComplete, Committed, InstallFileSet
<1>3. HeadDurable'
  BY <1>1 DEF UniverseInv, HeadDurable, Committed
<1>4. SelectedFrozen'
  <2>1. \A a : Verified(a)' = Verified(a)
    BY DEF Verified, universe
  <2>2. SelectedFrozen
    BY DEF UniverseInv
  <2>3. ASSUME NEW q \in Processes, Activated PROVE ~At(q, "serving")'
    BY <2>2, <2>3 DEF SelectedFrozen, Moves, At
  <2> QED BY <1>1, <2>1, <2>2, <2>3 DEF SelectedFrozen, Activated, universe
<1> QED BY <1>1, <1>2, <1>3, <1>4, OneMoved

(* Nothing is asked of a process that has stopped.                         *)
LEMMA IdlePlaced ==
    ASSUME NEW p \in Processes, local'[p] = Idle
    PROVE  Placed(p)'
<1>1. local'[p].at = "idle" /\ local'[p].task = "prepare"
  BY DEF Idle
<1>2. LocksHeld(p)'
  BY <1>1 DEF LocksHeld, HasDirectory, HasInstall, HasActivation, At, Frozen, Preparing,
              Staging, Activating, Clearing, Arming, Booting, OpeningCell
<1>3. SourceFrozen(p)' /\ OpeningBounded(p)' /\ InstallStaged(p)'
  BY <1>1 DEF SourceFrozen, OpeningBounded, InstallStaged, At, Frozen, Preparing,
              Staging, Activating, Clearing, Arming, OpeningCell
<1>4. Carries(p)' /\ ActivationArmed(p)' /\ BootedFrom(p)'
  BY <1>1 DEF Carries, ActivationArmed, BootedFrom, At,
              Activating, Clearing, Arming, Booting
<1> QED BY <1>2, <1>3, <1>4 DEF Placed

(* A process that stops gives up its place and its locks.                  *)
LEMMA Stopped ==
    ASSUME UniverseInv, NEW p \in Processes, Stop(p)
    PROVE  /\ local' \in [Processes -> Place]
           /\ held' \in [Processes -> SUBSET Locks]
           /\ local'[p] = Idle
           /\ Moves(p) /\ Exclusive' /\ Placed(p)'
<1>1. Types /\ Exclusive
  BY DEF UniverseInv
<1>2. Idle \in Place
  BY SourceLocksShape, CellOrderShape DEF Idle, Place, Steps, Tasked
<1>3. local' \in [Processes -> Place] /\ local'[p] = Idle
  BY <1>1, <1>2 DEF Types, Stop, Place, Tasked
<1>4. held' \in [Processes -> SUBSET Locks] /\ held'[p] = {}
  BY <1>1 DEF Types, Stop
<1>5. Moves(p)
  BY <1>1 DEF Moves, Stop, Types
<1>6. Exclusive'
  BY <1>1, <1>4, <1>5 DEF Exclusive, Moves
<1> QED BY <1>3, <1>4, <1>5, <1>6, IdlePlaced

(* A process that goes from one place to another and keeps its locks.      *)
LEMMA Moved ==
    ASSUME UniverseInv, NEW p \in Processes, NEW r \in Place,
           local' = [local EXCEPT ![p] = r], held' = held
    PROVE  /\ local' \in [Processes -> Place]
           /\ held' \in [Processes -> SUBSET Locks]
           /\ local'[p] = r /\ held'[p] = held[p]
           /\ Moves(p) /\ Exclusive'
<1>1. Types /\ Exclusive
  BY DEF UniverseInv
<1>2. local' \in [Processes -> Place] /\ local'[p] = r
  BY <1>1 DEF Types, Place, Tasked
<1>3. Moves(p)
  BY <1>1 DEF Moves, Types
<1>4. Exclusive'
  BY <1>1 DEF Exclusive
<1> QED BY <1>1, <1>2, <1>3, <1>4 DEF Types

(* A process that takes a free lock on its way.                            *)
LEMMA MovedLocking ==
    ASSUME UniverseInv, NEW p \in Processes, NEW r \in Place, NEW lock \in Locks,
           local' = [local EXCEPT ![p] = r], Free(lock), Take(p, lock)
    PROVE  /\ local' \in [Processes -> Place]
           /\ held' \in [Processes -> SUBSET Locks]
           /\ local'[p] = r /\ held'[p] = held[p] \cup {lock}
           /\ Moves(p) /\ Exclusive'
<1>1. Types /\ Exclusive
  BY DEF UniverseInv
<1>2. local' \in [Processes -> Place] /\ local'[p] = r
  BY <1>1 DEF Types, Place, Tasked
<1>3. held' \in [Processes -> SUBSET Locks] /\ held'[p] = held[p] \cup {lock}
  BY <1>1 DEF Types, Take
<1>4. Moves(p)
  BY <1>1 DEF Moves, Types, Take
<1>5. Exclusive'
  BY <1>1, <1>3, <1>4 DEF Exclusive, Moves, Free
<1> QED BY <1>2, <1>3, <1>4, <1>5


\* The process goes to another place of its command.
Goes(p, s, n) == local' = [local EXCEPT ![p] = [local[p] EXCEPT !.at = s, !.next = n]]

(* Where a process is after it has gone on, with a new lock or without.    *)
LEMMA Went ==
    ASSUME UniverseInv, NEW p \in Processes, NEW s \in Steps,
           NEW n \in 1..(Len(SourceLocks) + 1), Goes(p, s, n),
           held' = held \/ \E lock \in Locks : Free(lock) /\ Take(p, lock)
    PROVE  /\ local' \in [Processes -> Place]
           /\ held' \in [Processes -> SUBSET Locks]
           /\ local'[p].at = s /\ local'[p].next = n
           /\ local'[p].task = local[p].task
           /\ local'[p].authorization = local[p].authorization
           /\ local'[p].seen = local[p].seen
           /\ held[p] \subseteq held'[p]
           /\ Moves(p) /\ Exclusive'
<1>1. local[p] \in Place
  BY DEF UniverseInv, Types, Place, Tasked
<1> DEFINE r == [local[p] EXCEPT !.at = s, !.next = n]
<1>2. r \in Place
  BY <1>1 DEF Place
<1>3. /\ r.at = s /\ r.next = n /\ r.task = local[p].task
      /\ r.authorization = local[p].authorization /\ r.seen = local[p].seen
  BY <1>1 DEF Place
<1>4. local' = [local EXCEPT ![p] = r]
  BY DEF Goes
<1> HIDE DEF r
<1>5. CASE held' = held
  BY <1>2, <1>3, <1>4, <1>5, Moved
<1>6. CASE \E lock \in Locks : Free(lock) /\ Take(p, lock)
  <2>1. PICK lock \in Locks : Free(lock) /\ Take(p, lock)
    BY <1>6
  <2>2. /\ local' \in [Processes -> Place] /\ held' \in [Processes -> SUBSET Locks]
        /\ local'[p] = r /\ held'[p] = held[p] \cup {lock}
        /\ Moves(p) /\ Exclusive'
    BY <1>2, <1>4, <2>1, MovedLocking
  <2> QED BY <1>3, <2>2
<1> QED BY <1>5, <1>6

(* Goto keeps the position in the list of cells.                           *)
LEMMA GotoGoes ==
    ASSUME UniverseInv, NEW p \in Processes, NEW s, Goto(p, s)
    PROVE  Goes(p, s, local[p].next) /\ local[p].next \in 1..(Len(SourceLocks) + 1)
<1>1. local[p] \in Place /\ local \in [Processes -> Place]
  BY DEF UniverseInv, Types, Place, Tasked
<1>2. [local[p] EXCEPT !.at = s] = [local[p] EXCEPT !.at = s, !.next = local[p].next]
  BY <1>1 DEF Place
<1>3. local' = [local EXCEPT ![p] = [local[p] EXCEPT !.at = s]]
  BY <1>1 DEF Goto
<1>4. local[p].next \in 1..(Len(SourceLocks) + 1)
  BY <1>1 DEF Place
<1> QED BY <1>2, <1>3, <1>4 DEF Goes

(* A refusal, a shutdown, a stop without remains.                          *)
LEMMA RefusedStep ==
    ASSUME UniverseInv, NEW p \in Processes, Stop(p), UNCHANGED <<files, disk, universe, now>>,
           work' = work, acknowledged' \subseteq Authorizations,
           stops' \in 0..MaxStops, failures' \in 0..MaxPowerFailures
    PROVE  UniverseInv'
<1>1. local'[p].at # "serving"
  BY Stopped DEF Idle
<1>2. Types'
  <2>1. Types
    BY DEF UniverseInv
  <2>2. work \subseteq Cells
    BY <2>1 DEF Types
  <2> QED BY <2>1, <2>2, Stopped, QuietTypes
<1> QED BY <1>1, <1>2, Stopped, QuietMove

(* A refused command ends, and everything else stays.                      *)
LEMMA RefusedInv ==
    ASSUME UniverseInv, NEW p \in Processes, Refused(p)
    PROVE  UniverseInv'
<1>1. Types
  BY DEF UniverseInv
<1>2. /\ Stop(p) /\ UNCHANGED <<files, disk, universe, now>> /\ work' = work
      /\ acknowledged' = acknowledged /\ stops' = stops /\ failures' = failures
  BY DEF Refused, faults
<1>3. /\ acknowledged' \subseteq Authorizations
      /\ stops' \in 0..MaxStops /\ failures' \in 0..MaxPowerFailures
  BY <1>1, <1>2 DEF Types
<1> QED BY <1>2, <1>3, RefusedStep

(* A process that goes on without a change to directories or universe.     *)
LEMMA WentQuietly ==
    ASSUME UniverseInv, NEW p \in Processes, NEW s \in Steps,
           NEW n \in 1..(Len(SourceLocks) + 1), Goes(p, s, n),
           held' = held \/ \E lock \in Locks : Free(lock) /\ Take(p, lock),
           UNCHANGED <<files, disk, universe, now, faults>>,
           acknowledged' = acknowledged, work' \subseteq Cells,
           Placed(p)', Activated => s # "serving"
    PROVE  UniverseInv'
<1>1. Types'
  <2>1. Types
    BY DEF UniverseInv
  <2>2. /\ acknowledged' \subseteq Authorizations
        /\ stops' \in 0..MaxStops /\ failures' \in 0..MaxPowerFailures
    BY <2>1 DEF Types, faults
  <2>3. local' \in [Processes -> Place] /\ held' \in [Processes -> SUBSET Locks]
    BY Went
  <2> QED BY <2>1, <2>2, <2>3, QuietTypes
<1>2. local'[p].at = s /\ Moves(p) /\ Exclusive'
  BY Went
<1> QED BY <1>1, <1>2, QuietMove

-----------------------------------------------------------------------------
(* Starts, looks and locks.                                                *)

(* A command that is started is well placed.                               *)
LEMMA StartInv ==
    ASSUME UniverseInv, NEW p \in Processes, Command(p)
    PROVE  UniverseInv'
<1>1. PICK task \in Tasked, step \in {"lockSource", "bootInstall", "legacyDirectory"},
           authorization \in SUBSET Authorizations, seen \in SUBSET Authorizations :
           /\ Start(p, task, step, authorization, seen)
           /\ task = "activate" => \E a \in Authorizations : authorization = {a}
           /\ step = "bootInstall" => seen # {}
  <2>1. Selector \in SUBSET Authorizations
    BY DEF UniverseInv, Types, UniverseDirectory, RootDirectory, Selector
  <2> QED BY <2>1 DEF Command, StartPrepare, StartActivate, StartBoot, StartLegacy,
               Activated, Tasked
<1> DEFINE r == [at |-> step, task |-> task, authorization |-> authorization,
                 seen |-> seen, next |-> 1]
<1>2. /\ local' = [local EXCEPT ![p] = r] /\ held' = held
      /\ UNCHANGED <<files, disk, universe, now, work, acknowledged, stops, failures>>
  BY <1>1 DEF Start, faults
<1>3. r \in Place
  BY SourceLocksShape, CellOrderShape DEF Place, Steps
<1>4. /\ local' \in [Processes -> Place] /\ held' \in [Processes -> SUBSET Locks]
      /\ local'[p] = r /\ Moves(p) /\ Exclusive'
  BY <1>2, <1>3, Moved
<1>5. Types'
  <2>1. Types
    BY DEF UniverseInv
  <2> QED BY <1>2, <1>4, <2>1, QuietTypes DEF Types
<1>6. Placed(p)'
  <2>1. /\ local'[p].at = step /\ local'[p].task = task
        /\ local'[p].authorization = authorization /\ local'[p].seen = seen
        /\ local'[p].next = 1
    BY <1>4
  <2> HIDE DEF r
  <2>2. LocksHeld(p)'
    BY <2>1 DEF LocksHeld, HasDirectory, HasInstall, HasActivation, At, Frozen, Preparing,
                Staging, Activating, Clearing, Arming, Booting, OpeningCell
  <2>3. SourceFrozen(p)'
    BY <2>1, SourceLocksShape, CellOrderShape DEF SourceFrozen, At, Frozen, Preparing,
                Staging, Activating, Clearing, Arming
  <2>4. OpeningBounded(p)' /\ InstallStaged(p)'
    BY <2>1 DEF OpeningBounded, InstallStaged, At, Staging, Activating, Clearing, Arming,
                OpeningCell
  <2>5. Carries(p)'
    BY <1>1, <2>1 DEF Carries, Activating, Clearing, Arming
  <2>6. ActivationArmed(p)'
    BY <2>1 DEF ActivationArmed, At, Clearing, Arming
  <2>7. BootedFrom(p)'
    BY <1>1, <2>1 DEF BootedFrom, Booting
  <2> QED BY <2>2, <2>3, <2>4, <2>5, <2>6, <2>7 DEF Placed
<1> QED BY <1>2, <1>4, <1>5, <1>6, QuietMove


(* A lock is taken on the way to the next place, or the command ends.      *)
LEMMA LockedStep ==
    ASSUME UniverseInv, NEW p \in Processes, NEW allowed, NEW lock \in Locks, NEW s \in Steps,
           LockOrRefuse(p, allowed, lock, s), s # "serving",
           /\ allowed /\ Goes(p, s, local[p].next) /\ lock \in held'[p]
           /\ held[p] \subseteq held'[p] /\ UNCHANGED <<files, disk, universe>>
           => Placed(p)'
    PROVE  UniverseInv'
<1>1. CASE Refused(p)
  BY <1>1, RefusedInv
<1>2. CASE /\ allowed /\ Free(lock)
           /\ Take(p, lock) /\ Goto(p, s)
           /\ UNCHANGED <<files, disk, universe, work, now, acknowledged, faults>>
  <2>1. Goes(p, s, local[p].next) /\ local[p].next \in 1..(Len(SourceLocks) + 1)
    BY <1>2, GotoGoes
  <2>2. lock \in held'[p] /\ held[p] \subseteq held'[p]
    BY <1>2 DEF UniverseInv, Types, Take
  <2>3. Placed(p)'
    BY <1>2, <2>1, <2>2
  <2>4. work' \subseteq Cells
    BY <1>2 DEF UniverseInv, Types
  <2> QED BY <1>2, <2>1, <2>3, <2>4, WentQuietly
<1> QED BY <1>1, <1>2 DEF LockOrRefuse

(* A look at the selector lets the worker go on, or ends it.               *)
LEMMA LookedStep ==
    ASSUME UniverseInv, NEW p \in Processes, NEW s \in Steps, Look(p, s), s # "serving",
           Goes(p, s, local[p].next) /\ held' = held /\ UNCHANGED <<files, disk, universe>>
           => Placed(p)'
    PROVE  UniverseInv'
<1>1. CASE Refused(p)
  BY <1>1, RefusedInv
<1>2. CASE /\ Goto(p, s)
           /\ UNCHANGED <<files, disk, universe, work, now, held, acknowledged, faults>>
  <2>1. Goes(p, s, local[p].next) /\ local[p].next \in 1..(Len(SourceLocks) + 1)
    BY <1>2, GotoGoes
  <2>2. work' \subseteq Cells
    BY <1>2 DEF UniverseInv, Types
  <2> QED BY <1>2, <2>1, <2>2, WentQuietly
<1> QED BY <1>1, <1>2 DEF Look

(* The fields of a process that has gone on.                               *)
LEMMA WentFields ==
    ASSUME UniverseInv, NEW p \in Processes, NEW s, NEW n, Goes(p, s, n)
    PROVE  /\ local'[p].at = s /\ local'[p].next = n
           /\ local'[p].task = local[p].task
           /\ local'[p].authorization = local[p].authorization
           /\ local'[p].seen = local[p].seen
<1>1. local[p] \in Place /\ local \in [Processes -> Place]
  BY DEF UniverseInv, Types, Place, Tasked
<1> QED BY <1>1 DEF Goes, Place

(* The steps of a protocol-18 worker that change nothing in the universe.  *)
LEMMA LegacyLooks ==
    ASSUME UniverseInv, NEW p \in Processes,
           LegacyLook(p) \/ LegacyDirectoryLock(p) \/ LegacyDirectoryOpen(p) \/ LegacyCellLock(p)
    PROVE  UniverseInv'
<1> USE DEF At, Frozen, Preparing, Staging, Activating, Clearing, Arming, Booting, OpeningCell
<1>1. Placed(p) /\ local[p].next \in 1..(Len(SourceLocks) + 1)
  BY DEF UniverseInv, Types
<1>2. LocksHeld(p) /\ OpeningBounded(p) /\ Carries(p)
  BY <1>1 DEF Placed
<1>3. ASSUME NEW s \in {"legacyDirectoryLock", "legacyDirectoryLocked", "legacyCell",
                        "legacyCellLock", "legacyCellLocked"},
             Goes(p, s, local[p].next), UNCHANGED <<files, disk, universe>>,
             held[p] \subseteq held'[p], s # "legacyDirectoryLock" => "directory" \in held'[p],
             OpeningBounded(p)'
      PROVE  Placed(p)'
  <2>1. /\ local'[p].at = s /\ local'[p].next = local[p].next
        /\ local'[p].task = local[p].task
        /\ local'[p].authorization = local[p].authorization
    BY <1>3, WentFields
  <2>2. LocksHeld(p)'
    BY <1>3, <2>1 DEF LocksHeld, HasDirectory, HasInstall, HasActivation
  <2>3. SourceFrozen(p)' /\ InstallStaged(p)'
    BY <1>3, <2>1 DEF SourceFrozen, InstallStaged
  <2>4. Carries(p)'
    BY <1>2, <1>3, <2>1 DEF Carries
  <2>5. ActivationArmed(p)' /\ BootedFrom(p)'
    BY <1>3, <2>1 DEF ActivationArmed, BootedFrom
  <2> QED BY <1>3, <2>2, <2>3, <2>4, <2>5 DEF Placed
<1>4. CASE LegacyLook(p) /\ At(p, "legacyDirectory")
  <2>1. Look(p, "legacyDirectoryLock")
    BY <1>4 DEF LegacyLook
  <2>2. ASSUME Goes(p, "legacyDirectoryLock", local[p].next), held' = held,
               UNCHANGED <<files, disk, universe>>
        PROVE  Placed(p)'
    <3>1. OpeningBounded(p)'
      BY <1>2, <1>4, <2>2, WentFields DEF OpeningBounded
    <3> QED BY <1>3, <2>2, <3>1
  <2> QED BY <2>1, <2>2, LookedStep DEF Steps
<1>5. CASE LegacyLook(p) /\ At(p, "legacyCell")
  <2>1. Look(p, "legacyCellLock")
    BY <1>5 DEF LegacyLook
  <2>2. ASSUME Goes(p, "legacyCellLock", local[p].next), held' = held,
               UNCHANGED <<files, disk, universe>>
        PROVE  Placed(p)'
    <3>1. OpeningBounded(p)'
      BY <1>2, <1>5, <2>2, WentFields DEF OpeningBounded, universe
    <3>2. "directory" \in held[p]
      BY <1>2, <1>5 DEF LocksHeld, HasDirectory
    <3> QED BY <1>3, <2>2, <3>1, <3>2
  <2> QED BY <2>1, <2>2, LookedStep DEF Steps
<1>6. CASE LegacyDirectoryOpen(p)
  <2>1. At(p, "legacyDirectoryLocked") /\ Look(p, "legacyCell")
    BY <1>6 DEF LegacyDirectoryOpen
  <2>2. ASSUME Goes(p, "legacyCell", local[p].next), held' = held,
               UNCHANGED <<files, disk, universe>>
        PROVE  Placed(p)'
    <3>1. OpeningBounded(p)'
      BY <1>2, <2>1, <2>2, WentFields DEF OpeningBounded, universe
    <3>2. "directory" \in held[p]
      BY <1>2, <2>1 DEF LocksHeld, HasDirectory
    <3> QED BY <1>3, <2>2, <3>1, <3>2
  <2> QED BY <2>1, <2>2, LookedStep DEF Steps
<1>7. CASE LegacyDirectoryLock(p)
  <2>1. /\ At(p, "legacyDirectoryLock")
        /\ LockOrRefuse(p, RestartsLeft, "directory", "legacyDirectoryLocked")
    BY <1>7 DEF LegacyDirectoryLock
  <2>2. ASSUME RestartsLeft, Goes(p, "legacyDirectoryLocked", local[p].next),
               "directory" \in held'[p], held[p] \subseteq held'[p],
               UNCHANGED <<files, disk, universe>>
        PROVE  Placed(p)'
    <3>1. local[p].next = 1
      BY <1>2, <2>1 DEF OpeningBounded
    <3>2. version \in Nat /\ MaxVersion \in Nat
      BY UniverseAssumption DEF UniverseInv, Types, Versions
    <3>3. version' = version
      BY <2>2 DEF universe
    <3>4. local'[p].at = "legacyDirectoryLocked" /\ local'[p].next = 1
      BY <2>2, <3>1, WentFields
    <3>5. OpeningBounded(p)'
      BY <2>2, <3>2, <3>3, <3>4, CellOrderShape DEF OpeningBounded, RestartsLeft
    <3> QED BY <1>3, <2>2, <3>5
  <2>3. "directory" \in Locks
    BY SourceLocksShape, CellOrderShape
  <2> QED BY <2>1, <2>2, <2>3, LockedStep DEF Steps
<1>8. CASE LegacyCellLock(p)
  <2> DEFINE lock == CellOrder[local[p].next]
  <2>1. At(p, "legacyCellLock") /\ LockOrRefuse(p, TRUE, lock, "legacyCellLocked")
    BY <1>8 DEF LegacyCellLock
  <2>2. "directory" \in held[p]
    BY <1>2, <2>1 DEF LocksHeld, HasDirectory
  <2>3. ASSUME Goes(p, "legacyCellLocked", local[p].next), held[p] \subseteq held'[p],
               UNCHANGED <<files, disk, universe>>
        PROVE  Placed(p)'
    <3>1. OpeningBounded(p)'
      BY <1>2, <2>1, <2>3, WentFields DEF OpeningBounded, universe
    <3> QED BY <1>3, <2>2, <2>3, <3>1
  <2>4. local[p].next \in 1..Len(CellOrder)
    BY <1>1, <1>2, <2>1, CellOrderShape, SourceLocksShape DEF OpeningBounded
  <2>5. lock \in Locks
    <3>1. SourceLocks[local[p].next + 1] = lock /\ local[p].next + 1 \in 1..Len(SourceLocks)
      BY <2>4, SourceLocksShape, CellOrderShape
    <3> QED BY <3>1, SourceLocksShape
  <2> HIDE DEF lock
  <2> QED BY <2>1, <2>3, <2>5, LockedStep DEF Steps
<1> QED BY <1>4, <1>5, <1>6, <1>7, <1>8 DEF LegacyLook


(* The source is locked, cell after cell found asleep.                     *)
LEMMA LockSourceInv ==
    ASSUME UniverseInv, NEW p \in Processes, LockSource(p)
    PROVE  UniverseInv'
<1> USE DEF At, Frozen, Preparing, Staging, Activating, Clearing, Arming, Booting, OpeningCell
<1> DEFINE n == local[p].next
           lock == SourceLocks[n]
           s == IF n = Len(SourceLocks) THEN "lockInstall" ELSE "lockSource"
<1>1. Placed(p) /\ n \in 1..(Len(SourceLocks) + 1) /\ local[p] \in Place
      /\ local \in [Processes -> Place] /\ sleeping \subseteq Cells
  BY DEF UniverseInv, Types, Place, Tasked
<1>2. LocksHeld(p) /\ SourceFrozen(p) /\ Carries(p)
  BY <1>1 DEF Placed
<1>3. At(p, "lockSource") /\ n <= Len(SourceLocks) /\ lock \in Locks
  BY <1>1, <1>2, SourceLocksShape, CellOrderShape DEF LockSource, SourceFrozen
<1>4. CASE Refused(p)
  BY <1>4, RefusedInv
<1>5. CASE /\ Free(lock) /\ (lock \in Cells => lock \in sleeping)
           /\ Take(p, lock)
           /\ local' = [local EXCEPT ![p].next = @ + 1, ![p].at = s]
           /\ UNCHANGED <<files, disk, universe, work, now, acknowledged, faults>>
  <2>1. Goes(p, s, n + 1)
    <3>1. local' = [local EXCEPT ![p] = [local[p] EXCEPT !.next = n + 1, !.at = s]]
      BY <1>1, <1>5
    <3>2. [local[p] EXCEPT !.next = n + 1, !.at = s] = [local[p] EXCEPT !.at = s, !.next = n + 1]
      BY <1>1 DEF Place
    <3> QED BY <3>1, <3>2 DEF Goes
  <2>2. /\ local'[p].at = s /\ local'[p].next = n + 1
        /\ local'[p].task = local[p].task
        /\ local'[p].authorization = local[p].authorization
    BY <2>1, WentFields
  <2>3. held'[p] = held[p] \cup {lock}
    BY <1>5 DEF UniverseInv, Types, Take
  <2>4. LocksHeld(p)'
    <3>1. "directory" \in held'[p]
      <4>1. CASE n = 1
        BY <2>3, <4>1, SourceLocksShape
      <4>2. CASE n > 1
        BY <1>2, <1>3, <2>3, <4>2 DEF LocksHeld, HasDirectory
      <4> QED BY <1>1, <4>1, <4>2, SourceLocksShape, CellOrderShape
    <3> QED BY <2>2, <3>1 DEF LocksHeld, HasInstall, HasActivation
  <2>5. SourceFrozen(p)'
    <3>1. sleeping' = sleeping
      BY <1>5 DEF universe
    <3>2. ASSUME NEW i \in 1..Len(CellOrder), i + 1 < n + 1 PROVE CellOrder[i] \in sleeping
      <4>1. CASE i + 1 < n
        BY <1>2, <1>3, <4>1, CellOrderShape DEF SourceFrozen
      <4>2. CASE i + 1 = n
        BY <1>5, <4>2, SourceLocksShape, CellOrderShape
      <4> QED BY <1>1, <3>2, <4>1, <4>2, SourceLocksShape, CellOrderShape
    <3>3. n = Len(SourceLocks) => sleeping = Cells
      <4>1. ASSUME n = Len(SourceLocks), NEW c \in Cells PROVE c \in sleeping
        <5>1. PICK i \in 1..Len(CellOrder) : CellOrder[i] = c
          BY CellOrderShape
        <5>2. i + 1 < n + 1
          BY <4>1, SourceLocksShape, CellOrderShape
        <5> QED BY <3>2, <5>1, <5>2
      <4> QED BY <1>1, <4>1
    <3>4. n # Len(SourceLocks) => n + 1 <= Len(SourceLocks)
      BY <1>1, <1>3, SourceLocksShape, CellOrderShape
    <3> QED BY <2>2, <3>1, <3>2, <3>3, <3>4, CellOrderShape DEF SourceFrozen
  <2>6. OpeningBounded(p)' /\ InstallStaged(p)'
    BY <2>2 DEF OpeningBounded, InstallStaged
  <2>7. Carries(p)'
    BY <1>2, <2>2 DEF Carries
  <2>8. ActivationArmed(p)' /\ BootedFrom(p)'
    BY <2>2 DEF ActivationArmed, BootedFrom
  <2>9. Placed(p)'
    BY <2>4, <2>5, <2>6, <2>7, <2>8 DEF Placed
  <2>10. n + 1 \in 1..(Len(SourceLocks) + 1) /\ s \in Steps /\ s # "serving"
    BY <1>1, <1>3, SourceLocksShape, CellOrderShape DEF Steps
  <2>11. work' \subseteq Cells
    BY <1>5 DEF UniverseInv, Types
  <2>12. \E l \in Locks : Free(l) /\ Take(p, l)
    BY <1>3, <1>5
  <2>13. /\ UNCHANGED <<files, disk, universe, now, faults>>
         /\ acknowledged' = acknowledged
    BY <1>5
  <2> HIDE DEF s, n, lock
  <2> QED BY <2>1, <2>9, <2>10, <2>11, <2>12, <2>13, WentQuietly
<1> QED BY <1>4, <1>5 DEF LockSource

(* A committed install is found to be the one the source yields.           *)
LEMMA ValidateInstallInv ==
    ASSUME UniverseInv, NEW p \in Processes, ValidateInstall(p)
    PROVE  UniverseInv'
<1> USE DEF At, Frozen, Preparing, Staging, Activating, Clearing, Arming, Booting, OpeningCell
<1>1. Placed(p) /\ At(p, "validate")
  BY DEF UniverseInv, ValidateInstall
<1>2. LocksHeld(p) /\ SourceFrozen(p) /\ Carries(p)
  BY <1>1 DEF Placed
<1>3. CASE Refused(p)
  BY <1>3, RefusedInv
<1>4. CASE /\ InstallMatchesSource /\ Prepared(p)
           /\ UNCHANGED <<files, disk, universe, work, now, acknowledged, faults>>
  <2>1. CASE Stop(p)
    <3>1. Refused(p)
      BY <1>4, <2>1 DEF Refused
    <3> QED BY <3>1, RefusedInv
  <2>2. CASE local[p].task = "activate" /\ Goto(p, "lockActivation") /\ UNCHANGED held
    <3>1. Goes(p, "lockActivation", local[p].next)
          /\ local[p].next \in 1..(Len(SourceLocks) + 1)
      BY <2>2, GotoGoes
    <3>2. /\ local'[p].at = "lockActivation"
          /\ local'[p].task = local[p].task
          /\ local'[p].authorization = local[p].authorization
      BY <3>1, WentFields
    <3>3. LocksHeld(p)'
      BY <1>1, <1>2, <2>2, <3>2 DEF LocksHeld, HasDirectory, HasInstall, HasActivation
    <3>4. SourceFrozen(p)'
      BY <1>1, <1>2, <1>4, <3>2 DEF SourceFrozen, universe
    <3>5. OpeningBounded(p)' /\ ActivationArmed(p)' /\ BootedFrom(p)'
      BY <3>2 DEF OpeningBounded, ActivationArmed, BootedFrom
    <3>6. InstallStaged(p)'
      BY <1>4, <3>2 DEF InstallStaged, InstallMatchesSource, universe
    <3>7. Carries(p)'
      BY <1>2, <2>2, <3>2 DEF Carries
    <3>8. Placed(p)'
      BY <3>3, <3>4, <3>5, <3>6, <3>7 DEF Placed
    <3>9. work' \subseteq Cells
      BY <1>4 DEF UniverseInv, Types
    <3> QED BY <1>4, <2>2, <3>1, <3>8, <3>9, WentQuietly DEF Steps
  <2> QED BY <1>4, <2>1, <2>2 DEF Prepared
<1> QED BY <1>3, <1>4 DEF ValidateInstall

(* The envelope is verified against the head, the clock and the cutoff.    *)
LEMMA AuthorizeInv ==
    ASSUME UniverseInv, NEW p \in Processes, Authorize(p)
    PROVE  UniverseInv'
<1> USE DEF At, Frozen, Preparing, Staging, Activating, Clearing, Arming, Booting, OpeningCell
<1>1. Placed(p) /\ At(p, "authorize")
  BY DEF UniverseInv, Authorize
<1>2. LocksHeld(p) /\ SourceFrozen(p) /\ Carries(p) /\ InstallStaged(p) /\ ActivationArmed(p)
  BY <1>1 DEF Placed
<1>3. PICK a \in Authorizations : local[p].authorization = {a}
  BY <1>1, <1>2 DEF Carries
<1>4. (CHOOSE x \in local[p].authorization : TRUE) = a
  BY <1>3
<1>5. CASE Refused(p)
  BY <1>5, RefusedInv
<1>6. CASE /\ VerifyAuthorization(a, files.install.head, now)
           /\ cutoff[files.install.artifacts] <= a.at
           /\ Goto(p, "writeAuthorization")
           /\ UNCHANGED <<files, disk, universe, work, now, held, acknowledged, faults>>
  <2>1. Goes(p, "writeAuthorization", local[p].next)
        /\ local[p].next \in 1..(Len(SourceLocks) + 1)
    BY <1>6, GotoGoes
  <2>2. /\ local'[p].at = "writeAuthorization"
        /\ local'[p].task = local[p].task
        /\ local'[p].authorization = local[p].authorization
    BY <2>1, WentFields
  <2>3. LocksHeld(p)'
    BY <1>1, <1>2, <1>6, <2>2 DEF LocksHeld, HasDirectory, HasInstall, HasActivation
  <2>4. SourceFrozen(p)'
    BY <1>1, <1>2, <1>6, <2>2 DEF SourceFrozen, universe
  <2>5. OpeningBounded(p)' /\ BootedFrom(p)'
    BY <2>2 DEF OpeningBounded, BootedFrom
  <2>6. files.install.head = version
    BY <1>1, <1>2 DEF InstallStaged
  <2>7. InstallStaged(p)'
    BY <1>6, <2>2, <2>6 DEF InstallStaged, universe
  <2>8. Carries(p)'
    BY <1>1, <1>2, <2>2 DEF Carries
  <2>9. Verified(a)
    <3>1. version # Absent
      BY UniverseAssumption DEF UniverseInv, Types, Versions, Absent
    <3>2. files.install.artifacts = version
      BY <2>6, <3>1 DEF UniverseInv, PreparedIsComplete, Committed
    <3> QED BY <1>6, <2>6, <3>2 DEF Verified, VerifyAuthorization
  <2>10. ActivationArmed(p)'
    <3>1. Verified(a)' /\ Selector' = Selector
      BY <1>6, <2>9 DEF Verified, universe, Selector
    <3> QED BY <1>1, <1>2, <1>3, <1>6, <2>2, <3>1 DEF ActivationArmed
  <2>11. Placed(p)'
    BY <2>3, <2>4, <2>5, <2>7, <2>8, <2>10 DEF Placed
  <2>12. work' \subseteq Cells
    BY <1>6 DEF UniverseInv, Types
  <2> QED BY <1>6, <2>1, <2>11, <2>12, WentQuietly DEF Steps
<1> QED BY <1>4, <1>5, <1>6 DEF Authorize


(* The boot looks at the install and at the activation before it locks.    *)
LEMMA BootLocksInv ==
    ASSUME UniverseInv, NEW p \in Processes, BootInstall(p) \/ BootActivation(p)
    PROVE  UniverseInv'
<1> USE DEF At, Frozen, Preparing, Staging, Activating, Clearing, Arming, Booting, OpeningCell
<1>1. Placed(p)
  BY DEF UniverseInv
<1>2. LocksHeld(p) /\ Carries(p) /\ BootedFrom(p)
  BY <1>1 DEF Placed
<1>3. {"install", "activation"} \subseteq Locks
  BY SourceLocksShape
<1>4. ASSUME NEW s \in {"bootActivation", "bootOpen"}, Goes(p, s, local[p].next),
             UNCHANGED <<files, disk, universe>>,
             "install" \in held'[p], s = "bootOpen" => "activation" \in held'[p],
             local[p].seen # {}, s = "bootOpen" => Selector = local[p].seen
      PROVE  Placed(p)'
  <2>1. /\ local'[p].at = s /\ local'[p].next = local[p].next
        /\ local'[p].task = local[p].task
        /\ local'[p].authorization = local[p].authorization
        /\ local'[p].seen = local[p].seen
    BY <1>4, WentFields
  <2>2. LocksHeld(p)'
    BY <1>4, <2>1 DEF LocksHeld, HasDirectory, HasInstall, HasActivation
  <2>3. SourceFrozen(p)' /\ OpeningBounded(p)' /\ InstallStaged(p)'
    BY <2>1 DEF SourceFrozen, OpeningBounded, InstallStaged
  <2>4. Carries(p)' /\ ActivationArmed(p)'
    BY <1>2, <2>1 DEF Carries, ActivationArmed
  <2>5. Selector' = Selector
    BY <1>4 DEF Selector
  <2>6. BootedFrom(p)'
    BY <1>4, <2>1, <2>5 DEF BootedFrom
  <2> QED BY <2>2, <2>3, <2>4, <2>6 DEF Placed
<1>5. CASE BootInstall(p)
  <2> DEFINE allowed == \A a \in local[p].seen : SelectedInstallValid(a)
  <2>1. At(p, "bootInstall") /\ LockOrRefuse(p, allowed, "install", "bootActivation")
    BY <1>5 DEF BootInstall
  <2>2. local[p].seen # {}
    BY <1>2, <2>1 DEF BootedFrom
  <2> HIDE DEF allowed
  <2> QED BY <1>3, <1>4, <2>1, <2>2, LockedStep DEF Steps
<1>6. CASE BootActivation(p)
  <2> DEFINE allowed == /\ Selector = local[p].seen
                        /\ \A a \in local[p].seen : SelectedActivationValid(a)
  <2>1. At(p, "bootActivation") /\ LockOrRefuse(p, allowed, "activation", "bootOpen")
    BY <1>6 DEF BootActivation
  <2>2. allowed => Selector = local[p].seen
    OBVIOUS
  <2>3. local[p].seen # {} /\ "install" \in held[p]
    BY <1>2, <2>1 DEF BootedFrom, LocksHeld, HasInstall
  <2> HIDE DEF allowed
  <2> QED BY <1>3, <1>4, <2>1, <2>2, <2>3, LockedStep DEF Steps
<1> QED BY <1>5, <1>6

(* A booted process initializes the cells and then serves or answers.      *)
LEMMA BootCellsInv ==
    ASSUME UniverseInv, NEW p \in Processes, BootCell(p) \/ Booted(p)
    PROVE  UniverseInv'
<1> USE DEF At, Frozen, Preparing, Staging, Activating, Clearing, Arming, Booting, OpeningCell
<1>1. Placed(p) /\ At(p, "bootCells") /\ local[p].next \in 1..(Len(SourceLocks) + 1)
      /\ local[p] \in Place /\ local \in [Processes -> Place] /\ work \subseteq Cells
  BY DEF UniverseInv, Types, Place, Tasked, BootCell, Booted
<1>2. LocksHeld(p) /\ Carries(p) /\ BootedFrom(p)
  BY <1>1 DEF Placed
<1>3. ASSUME NEW s \in {"bootCells", "running"}, NEW n, Goes(p, s, n),
             UNCHANGED <<files, disk, universe>>, held' = held
      PROVE  Placed(p)'
  <2>1. /\ local'[p].at = s
        /\ local'[p].task = local[p].task
        /\ local'[p].authorization = local[p].authorization
        /\ local'[p].seen = local[p].seen
    BY <1>3, WentFields
  <2>2. LocksHeld(p)'
    BY <1>1, <1>2, <1>3, <2>1 DEF LocksHeld, HasDirectory, HasInstall, HasActivation
  <2>3. SourceFrozen(p)' /\ OpeningBounded(p)' /\ InstallStaged(p)'
    BY <2>1 DEF SourceFrozen, OpeningBounded, InstallStaged
  <2>4. Carries(p)' /\ ActivationArmed(p)'
    BY <1>2, <2>1 DEF Carries, ActivationArmed
  <2>5. BootedFrom(p)'
    BY <1>1, <1>2, <1>3, <2>1 DEF BootedFrom, Selector
  <2> QED BY <2>2, <2>3, <2>4, <2>5 DEF Placed
<1>4. CASE BootCell(p)
  <2>1. /\ local[p].next <= Len(CellOrder)
        /\ work' = work \cup {CellOrder[local[p].next]}
        /\ local' = [local EXCEPT ![p].next = @ + 1]
        /\ UNCHANGED <<files, disk, universe, now, held, acknowledged, faults>>
    BY <1>4 DEF BootCell
  <2>2. Goes(p, "bootCells", local[p].next + 1)
    <3>1. local' = [local EXCEPT ![p] = [local[p] EXCEPT !.next = local[p].next + 1]]
      BY <1>1, <2>1
    <3>2. [local[p] EXCEPT !.next = local[p].next + 1]
            = [local[p] EXCEPT !.at = "bootCells", !.next = local[p].next + 1]
      BY <1>1 DEF Place
    <3> QED BY <3>1, <3>2 DEF Goes
  <2>3. Placed(p)'
    BY <1>3, <2>1, <2>2
  <2>4. local[p].next + 1 \in 1..(Len(SourceLocks) + 1) /\ work' \subseteq Cells
    BY <1>1, <2>1, SourceLocksShape, CellOrderShape
  <2>5. "bootCells" \in Steps
    BY DEF Steps
  <2> QED BY <2>1, <2>2, <2>3, <2>4, <2>5, WentQuietly
<1>5. CASE Booted(p) /\ Goto(p, "running") /\ UNCHANGED <<held, acknowledged>>
  <2>1. UNCHANGED <<files, disk, universe, work, now, faults>>
    BY <1>5 DEF Booted
  <2>2. Goes(p, "running", local[p].next)
    BY <1>5, GotoGoes
  <2>3. Placed(p)'
    BY <1>3, <1>5, <2>1, <2>2
  <2>4. work' \subseteq Cells /\ "running" \in Steps
    BY <1>1, <2>1 DEF Steps
  <2> QED BY <1>1, <1>5, <2>1, <2>2, <2>3, <2>4, WentQuietly
<1>6. CASE /\ Booted(p) /\ Stop(p)
           /\ acknowledged' = IF SameAuthorization(p)
                              THEN acknowledged \cup local[p].authorization
                              ELSE acknowledged
  <2>1. UNCHANGED <<files, disk, universe, work, now, faults>>
    BY <1>6 DEF Booted
  <2>2. /\ acknowledged' \subseteq Authorizations
        /\ stops' \in 0..MaxStops /\ failures' \in 0..MaxPowerFailures
    BY <1>1, <1>6, <2>1 DEF UniverseInv, Types, Place, faults
  <2> QED BY <1>6, <2>1, <2>2, RefusedStep
<1> QED BY <1>4, <1>5, <1>6 DEF Booted


-----------------------------------------------------------------------------
(* Writes to the directories of the universe.                              *)

RootKept == files'.root = files.root /\ disk'.root = disk.root
InstallKept == files'.install = files.install /\ disk'.install = disk.install
TargetKept ==
    /\ files'.directory = files.directory /\ disk'.directory = disk.directory
    /\ files'.cells = files.cells /\ disk'.cells = disk.cells
ActivationKept == files'.activation = files.activation /\ disk'.activation = disk.activation
DirectoryTypes == files' \in UniverseDirectory /\ disk' \in UniverseDirectory

(* An atomic write leaves the other directories alone.                     *)
LEMMA WrittenFields ==
    ASSUME files \in UniverseDirectory, disk \in UniverseDirectory
    PROVE  /\ \A x \in InstallDirectory : Written("install", x) =>
                  /\ DirectoryTypes /\ RootKept /\ TargetKept /\ ActivationKept
                  /\ files'.install = x /\ disk'.install = x
           /\ \A x \in Contents : Written("directory", x) =>
                  /\ DirectoryTypes /\ RootKept /\ InstallKept /\ ActivationKept
                  /\ files'.cells = files.cells /\ disk'.cells = disk.cells
                  /\ files'.directory = x /\ disk'.directory = x
           /\ \A x \in [Cells -> Contents] : Written("cells", x) =>
                  /\ DirectoryTypes /\ RootKept /\ InstallKept /\ ActivationKept
                  /\ files'.directory = files.directory /\ disk'.directory = disk.directory
                  /\ files'.cells = x /\ disk'.cells = x
           /\ \A x \in ActivationDirectory : Written("activation", x) =>
                  /\ DirectoryTypes /\ RootKept /\ InstallKept /\ TargetKept
                  /\ files'.activation = x /\ disk'.activation = x
<1>1. ASSUME NEW x \in InstallDirectory, Written("install", x)
      PROVE  /\ DirectoryTypes /\ RootKept /\ TargetKept /\ ActivationKept
             /\ files'.install = x /\ disk'.install = x
  BY <1>1 DEF Written, UniverseDirectory, DirectoryTypes, RootKept, TargetKept, ActivationKept
<1>2. ASSUME NEW x \in Contents, Written("directory", x)
      PROVE  /\ DirectoryTypes /\ RootKept /\ InstallKept /\ ActivationKept
             /\ files'.cells = files.cells /\ disk'.cells = disk.cells
             /\ files'.directory = x /\ disk'.directory = x
  BY <1>2 DEF Written, UniverseDirectory, DirectoryTypes, RootKept, InstallKept, ActivationKept
<1>3. ASSUME NEW x \in [Cells -> Contents], Written("cells", x)
      PROVE  /\ DirectoryTypes /\ RootKept /\ InstallKept /\ ActivationKept
             /\ files'.directory = files.directory /\ disk'.directory = disk.directory
             /\ files'.cells = x /\ disk'.cells = x
  BY <1>3 DEF Written, UniverseDirectory, DirectoryTypes, RootKept, InstallKept, ActivationKept
<1>4. ASSUME NEW x \in ActivationDirectory, Written("activation", x)
      PROVE  /\ DirectoryTypes /\ RootKept /\ InstallKept /\ TargetKept
             /\ files'.activation = x /\ disk'.activation = x
  BY <1>4 DEF Written, UniverseDirectory, DirectoryTypes, RootKept, InstallKept, TargetKept
<1> QED BY <1>1, <1>2, <1>3, <1>4

(* A sync brings one directory to the disk.                                *)
LEMMA SyncedFields ==
    ASSUME files \in UniverseDirectory, disk \in UniverseDirectory
    PROVE  /\ Synced("root") =>
                  /\ DirectoryTypes /\ InstallKept /\ TargetKept /\ ActivationKept
                  /\ files' = files /\ disk'.root = files.root
           /\ Synced("install") =>
                  /\ DirectoryTypes /\ RootKept /\ TargetKept /\ ActivationKept
                  /\ files' = files /\ disk'.install = files.install
<1>1. ASSUME Synced("root")
      PROVE  /\ DirectoryTypes /\ InstallKept /\ TargetKept /\ ActivationKept
             /\ files' = files /\ disk'.root = files.root
  BY <1>1 DEF Synced, UniverseDirectory, DirectoryTypes, InstallKept, TargetKept, ActivationKept
<1>2. ASSUME Synced("install")
      PROVE  /\ DirectoryTypes /\ RootKept /\ TargetKept /\ ActivationKept
             /\ files' = files /\ disk'.install = files.install
  BY <1>2 DEF Synced, UniverseDirectory, DirectoryTypes, RootKept, TargetKept, ActivationKept
<1> QED BY <1>1, <1>2

(* Types when a process has written to the directories.                    *)
LEMMA WritingTypes ==
    ASSUME Types, DirectoryTypes, UNCHANGED <<universe, now, faults>>, work' \subseteq Cells,
           local' \in [Processes -> Place], held' \in [Processes -> SUBSET Locks],
           acknowledged' \subseteq Authorizations
    PROVE  Types'
BY DEF Types, DirectoryTypes, universe, faults, Place, Tasked

(* What was selected is kept when universe and selector are left alone and *)
(* the process does not go to serve.                                       *)
LEMMA SelectedKept ==
    ASSUME UniverseInv, NEW p \in Processes, Moves(p), UNCHANGED universe,
           Selector' \subseteq Selector, local'[p].at # "serving"
    PROVE  SelectedFrozen'
<1>1. \A a : Verified(a)' = Verified(a)
  BY DEF Verified, universe
<1>2. SelectedFrozen
  BY DEF UniverseInv
<1>3. ASSUME NEW q \in Processes, Activated PROVE ~At(q, "serving")'
  BY <1>2, <1>3 DEF SelectedFrozen, Moves, At
<1> QED BY <1>1, <1>2, <1>3 DEF SelectedFrozen, Activated, universe


-----------------------------------------------------------------------------
(* The install transaction.                                                *)

(* Until the head is renamed there is none, on disk neither.               *)
LEMMA StagingHeadless ==
    ASSUME UniverseInv, NEW p \in Processes, local[p].at \in Staging \ {"headSync"}
    PROVE  files.install.head = Absent /\ disk.install.head = Absent
<1>1. files.install.head = Absent
  BY DEF UniverseInv, Placed, InstallStaged
<1>2. disk.install.head # Absent => disk.install = files.install
  BY DEF UniverseInv, HeadDurable
<1> QED BY <1>1, <1>2

(* A step of the transaction: only staged files change, and the process is *)
(* well placed when what it has staged is there.                           *)
LEMMA StagesOn ==
    ASSUME UniverseInv, NEW p \in Processes, local[p].at \in Staging \ {"headSync"},
           NEW s \in Staging, NEW n \in 1..(Len(SourceLocks) + 1), Goes(p, s, n),
           held' = held, UNCHANGED <<universe, now, acknowledged, faults>>, work' \subseteq Cells,
           DirectoryTypes, RootKept, ActivationKept, InstallStaged(p)',
           \/ files'.install.head = Absent /\ disk'.install.head = Absent
           \/ PreparedIsComplete' /\ HeadDurable'
    PROVE  UniverseInv'
<1> USE DEF At, Frozen, Preparing, Staging, Activating, Clearing, Arming, Booting, OpeningCell
<1>1. Types /\ Placed(p)
  BY DEF UniverseInv
<1>2. LocksHeld(p) /\ SourceFrozen(p) /\ Carries(p)
  BY <1>1 DEF Placed
<1>3. s \in Steps
  BY DEF Steps
<1>4. /\ local' \in [Processes -> Place] /\ held' \in [Processes -> SUBSET Locks]
      /\ local'[p].at = s /\ local'[p].task = local[p].task
      /\ local'[p].authorization = local[p].authorization
      /\ Moves(p) /\ Exclusive'
  BY <1>3, Went
<1>5. HasDirectory(p) /\ HasInstall(p)
  BY DEF HasDirectory, HasInstall
<1>6. Selector' = Selector
  BY DEF RootKept, Selector
<1>7. Types'
  <2>1. acknowledged' \subseteq Authorizations
    BY <1>1 DEF Types
  <2> QED BY <1>1, <1>4, <2>1, WritingTypes
<1>8. Placed(p)'
  <2>1. LocksHeld(p)'
    BY <1>2, <1>4, <1>5 DEF LocksHeld, HasDirectory, HasInstall, HasActivation
  <2>2. SourceFrozen(p)'
    BY <1>2, <1>4 DEF SourceFrozen, universe
  <2>3. OpeningBounded(p)' /\ ActivationArmed(p)' /\ BootedFrom(p)'
    BY <1>4 DEF OpeningBounded, ActivationArmed, BootedFrom
  <2>4. Carries(p)'
    BY <1>2, <1>4 DEF Carries
  <2> QED BY <2>1, <2>2, <2>3, <2>4 DEF Placed
<1>9. PreparedIsComplete' /\ HeadDurable'
  <2>1. CASE files'.install.head = Absent /\ disk'.install.head = Absent
    <3>1. disk'.root.selector \subseteq Selector'
      BY <1>6 DEF UniverseInv, HeadDurable, RootKept
    <3> QED BY <2>1, <3>1 DEF PreparedIsComplete, HeadDurable, Committed
  <2> QED BY <2>1
<1>10. SelectedFrozen'
  <2>1. local'[p].at # "serving"
    BY <1>4
  <2> QED BY <1>4, <1>6, <2>1, SelectedKept
<1> QED BY <1>4, <1>5, <1>6, <1>7, <1>8, <1>9, <1>10, OneMoved DEF ActivationKept

(* Removing what was staged and writing the artifacts.                     *)
LEMMA ResetInstallInv ==
    ASSUME UniverseInv, NEW p \in Processes, ResetInstall(p) \/ WriteArtifacts(p)
    PROVE  UniverseInv'
<1>1. files \in UniverseDirectory /\ disk \in UniverseDirectory /\ version \in Versions
      /\ work \subseteq Cells
  BY DEF UniverseInv, Types
<1>2. CASE ResetInstall(p)
  <2>1. local[p].at = "reset" /\ Goes(p, "artifacts", local[p].next)
        /\ local[p].next \in 1..(Len(SourceLocks) + 1)
    BY <1>2, GotoGoes DEF ResetInstall, At
  <2>2. EmptyFiles.install = [artifacts |-> Absent, head |-> Absent, temp |-> FALSE]
        /\ EmptyFiles.directory = Absent /\ EmptyFiles.cells = [c \in Cells |-> Absent]
    BY DEF EmptyFiles
  <2>3. EmptyFiles.install \in InstallDirectory /\ EmptyFiles.directory \in Contents
        /\ EmptyFiles.cells \in [Cells -> Contents]
    BY <2>2 DEF InstallDirectory, Contents
  <2>4. /\ files' = [root |-> files.root, install |-> EmptyFiles.install,
                     directory |-> EmptyFiles.directory, cells |-> EmptyFiles.cells,
                     activation |-> files.activation]
        /\ disk' = [root |-> disk.root, install |-> EmptyFiles.install,
                    directory |-> EmptyFiles.directory, cells |-> EmptyFiles.cells,
                    activation |-> disk.activation]
    BY <1>2 DEF ResetInstall, EmptyFiles
  <2>5. DirectoryTypes /\ RootKept /\ ActivationKept
        /\ files'.install = EmptyFiles.install /\ disk'.install = EmptyFiles.install
    BY <1>1, <2>3, <2>4 DEF DirectoryTypes, UniverseDirectory, RootKept, ActivationKept
  <2>6. files'.install.head = Absent /\ disk'.install.head = Absent
    BY <2>2, <2>5
  <2>7. local'[p].at = "artifacts"
    BY <2>1, WentFields
  <2>8. InstallStaged(p)'
    BY <2>6, <2>7 DEF InstallStaged, At, Staging, Activating, Clearing, Arming
  <2>9. work' \subseteq Cells /\ held' = held /\ UNCHANGED <<universe, now, acknowledged, faults>>
    BY <1>2 DEF ResetInstall
  <2> QED BY <2>1, <2>5, <2>6, <2>8, <2>9, StagesOn DEF Staging
<1>3. CASE WriteArtifacts(p)
  <2>1. local[p].at = "artifacts" /\ Goes(p, "stageDirectory", local[p].next)
        /\ local[p].next \in 1..(Len(SourceLocks) + 1)
    BY <1>3, GotoGoes DEF WriteArtifacts, At
  <2> DEFINE x == [files.install EXCEPT !.artifacts = version]
  <2>2. files.install.head = Absent
    BY <2>1, StagingHeadless DEF Staging
  <2>3. x \in InstallDirectory /\ x.head = Absent /\ x.artifacts = version
    BY <1>1, <2>2 DEF UniverseDirectory, InstallDirectory, Contents
  <2>4. Written("install", x)
    BY <1>3 DEF WriteArtifacts
  <2> HIDE DEF x
  <2>5. /\ DirectoryTypes /\ RootKept /\ ActivationKept
        /\ files'.install = x /\ disk'.install = x
    BY <1>1, <2>3, <2>4, WrittenFields
  <2>6. files'.install.head = Absent /\ disk'.install.head = Absent
    BY <2>3, <2>5
  <2>7. local'[p].at = "stageDirectory"
    BY <2>1, WentFields
  <2>8. /\ work' \subseteq Cells /\ held' = held /\ version' = version
        /\ UNCHANGED <<universe, now, acknowledged, faults>>
    BY <1>1, <1>3 DEF WriteArtifacts, universe
  <2>9. InstallStaged(p)'
    BY <2>3, <2>5, <2>6, <2>7, <2>8
    DEF InstallStaged, StagedArtifacts, At, Staging, Activating, Clearing, Arming
  <2> QED BY <2>1, <2>5, <2>6, <2>8, <2>9, StagesOn DEF Staging
<1> QED BY <1>2, <1>3


(* Staging the directory.                                                  *)
LEMMA StageDirectoryInv ==
    ASSUME UniverseInv, NEW p \in Processes, StageDirectory(p)
    PROVE  UniverseInv'
<1>1. files \in UniverseDirectory /\ disk \in UniverseDirectory /\ version \in Contents
      /\ work \subseteq Cells /\ local[p] \in Place /\ local \in [Processes -> Place]
  BY DEF UniverseInv, Types, Contents, Place, Tasked
<1>2. local[p].at = "stageDirectory"
  BY DEF StageDirectory, At
<1>3. Goes(p, "stageCells", 1)
  <2>1. local' = [local EXCEPT ![p] = [local[p] EXCEPT !.at = "stageCells", !.next = 1]]
    BY <1>1 DEF StageDirectory
  <2> QED BY <2>1 DEF Goes
<1>4. InstallStaged(p)
  BY DEF UniverseInv, Placed
<1>5. /\ DirectoryTypes /\ RootKept /\ InstallKept /\ ActivationKept
      /\ files'.directory = version /\ disk'.directory = version
  BY <1>1, WrittenFields DEF StageDirectory
<1>6. files'.install.head = Absent /\ disk'.install.head = Absent
  BY <1>2, <1>5, StagingHeadless DEF InstallKept, Staging
<1>7. /\ work' \subseteq Cells /\ held' = held /\ version' = version
      /\ UNCHANGED <<universe, now, acknowledged, faults>>
  BY <1>1 DEF StageDirectory, universe
<1>8. local'[p].at = "stageCells" /\ local'[p].next = 1
  BY <1>3, WentFields
<1>9. InstallStaged(p)'
  <2>1. StagedArtifacts'
    BY <1>2, <1>4, <1>5, <1>7 DEF InstallStaged, StagedArtifacts, InstallKept
  <2>2. StagedDirectory'
    BY <1>5, <1>7 DEF StagedDirectory
  <2> QED BY <1>6, <1>8, <2>1, <2>2, CellOrderShape
      DEF InstallStaged, At, Staging, Activating, Clearing, Arming
<1>10. 1 \in 1..(Len(SourceLocks) + 1)
  BY SourceLocksShape, CellOrderShape
<1> QED BY <1>2, <1>3, <1>5, <1>6, <1>7, <1>9, <1>10, StagesOn DEF Staging

(* Staging one cell after the other.                                       *)
LEMMA StageCellInv ==
    ASSUME UniverseInv, NEW p \in Processes, StageCell(p)
    PROVE  UniverseInv'
<1> DEFINE n == local[p].next
           s == IF n = Len(CellOrder) THEN "headTemp" ELSE "stageCells"
           x == [files.cells EXCEPT ![CellOrder[n]] = version]
<1>1. files \in UniverseDirectory /\ disk \in UniverseDirectory /\ version \in Contents
      /\ work \subseteq Cells /\ local[p] \in Place /\ local \in [Processes -> Place]
      /\ n \in 1..(Len(SourceLocks) + 1)
  BY DEF UniverseInv, Types, Contents, Place, Tasked
<1>2. local[p].at = "stageCells"
  BY DEF StageCell, At
<1>3. InstallStaged(p)
  BY DEF UniverseInv, Placed
<1>4. n \in 1..Len(CellOrder)
  BY <1>1, <1>2, <1>3, SourceLocksShape, CellOrderShape DEF InstallStaged, At
<1>5. Goes(p, s, n + 1)
  <2>1. local' = [local EXCEPT ![p] = [local[p] EXCEPT !.next = n + 1, !.at = s]]
    BY <1>1 DEF StageCell, LastCellStaged
  <2>2. [local[p] EXCEPT !.next = n + 1, !.at = s] = [local[p] EXCEPT !.at = s, !.next = n + 1]
    BY <1>1 DEF Place
  <2> QED BY <2>1, <2>2 DEF Goes
<1>6. local'[p].at = s /\ local'[p].next = n + 1
  BY <1>5, WentFields
<1>7. files.cells \in [Cells -> Contents]
  BY <1>1 DEF UniverseDirectory
<1>8. x \in [Cells -> Contents] /\ x[CellOrder[n]] = version
      /\ \A c \in Cells : c # CellOrder[n] => x[c] = files.cells[c]
  BY <1>1, <1>4, <1>7, CellOrderShape
<1>9. Written("cells", x)
  BY DEF StageCell
<1>10. /\ work' \subseteq Cells /\ held' = held /\ version' = version
       /\ UNCHANGED <<universe, now, acknowledged, faults>>
  BY <1>1 DEF StageCell, universe
<1> HIDE DEF x
<1>11. /\ DirectoryTypes /\ RootKept /\ InstallKept /\ ActivationKept
       /\ files'.directory = files.directory /\ disk'.directory = disk.directory
       /\ files'.cells = x /\ disk'.cells = x
  BY <1>1, <1>8, <1>9, WrittenFields
<1>12. files'.install.head = Absent /\ disk'.install.head = Absent
  BY <1>2, <1>11, StagingHeadless DEF InstallKept, Staging
<1>13. ASSUME NEW i \in 1..Len(CellOrder), i <= n PROVE StagedCell(i)'
  <2>1. x[CellOrder[i]] = version
    <3>1. CASE CellOrder[i] = CellOrder[n]
      BY <1>8, <3>1
    <3>2. CASE CellOrder[i] # CellOrder[n]
      <4>1. i < n
        BY <1>4, <1>13, <3>2, CellOrderShape
      <4>2. files.cells[CellOrder[i]] = version
        BY <1>2, <1>3, <4>1, CellOrderShape DEF InstallStaged, StagedCell, At
      <4> QED BY <1>8, <3>2, <4>2, CellOrderShape
    <3> QED BY <3>1, <3>2
  <2> QED BY <1>10, <1>11, <2>1 DEF StagedCell
<1>14. InstallStaged(p)'
  <2>1. StagedArtifacts' /\ StagedDirectory'
    BY <1>2, <1>3, <1>10, <1>11
    DEF InstallStaged, StagedArtifacts, StagedDirectory, InstallKept
  <2>2. CASE n = Len(CellOrder)
    <3>1. local'[p].at = "headTemp"
      BY <1>6, <2>2
    <3>2. \A i \in DOMAIN CellOrder : StagedCell(i)'
      BY <1>13, <2>2, CellOrderShape
    <3> QED BY <1>12, <2>1, <3>1, <3>2
        DEF InstallStaged, At, Staging, Activating, Clearing, Arming
  <2>3. CASE n # Len(CellOrder)
    <3>1. local'[p].at = "stageCells" /\ local'[p].next = n + 1
      BY <1>6, <2>3
    <3>2. n + 1 <= Len(CellOrder)
      BY <1>4, <2>3, CellOrderShape
    <3>3. \A i \in DOMAIN CellOrder : i < n + 1 => StagedCell(i)'
      BY <1>4, <1>13, CellOrderShape
    <3> QED BY <1>12, <2>1, <3>1, <3>2, <3>3
        DEF InstallStaged, At, Staging, Activating, Clearing, Arming
  <2> QED BY <2>2, <2>3
<1>15. s \in Staging /\ n + 1 \in 1..(Len(SourceLocks) + 1)
  BY <1>4, SourceLocksShape, CellOrderShape DEF Staging
<1> HIDE DEF s, n
<1> QED BY <1>2, <1>5, <1>10, <1>11, <1>12, <1>14, <1>15, StagesOn DEF Staging

(* Writing the head beside the staged files, and giving it its name.       *)
LEMMA HeadInv ==
    ASSUME UniverseInv, NEW p \in Processes, WriteHeadTemp(p) \/ RenameHead(p)
    PROVE  UniverseInv'
<1>1. files \in UniverseDirectory /\ disk \in UniverseDirectory /\ version \in Versions
      /\ work \subseteq Cells /\ files.install \in InstallDirectory
  BY DEF UniverseInv, Types, UniverseDirectory
<1>2. InstallStaged(p)
  BY DEF UniverseInv, Placed
<1>3. ASSUME NEW x \in InstallDirectory, files' = [files EXCEPT !.install = x], disk' = disk
      PROVE  /\ DirectoryTypes /\ RootKept /\ TargetKept /\ ActivationKept
             /\ files'.install = x /\ disk'.install = disk.install
  BY <1>1, <1>3 DEF DirectoryTypes, UniverseDirectory, RootKept, TargetKept, ActivationKept
<1>4. CASE WriteHeadTemp(p)
  <2> DEFINE x == [files.install EXCEPT !.temp = TRUE]
  <2>1. local[p].at = "headTemp" /\ Goes(p, "headRename", local[p].next)
        /\ local[p].next \in 1..(Len(SourceLocks) + 1)
    BY <1>4, GotoGoes DEF WriteHeadTemp, At
  <2>2. files.install.head = Absent /\ disk.install.head = Absent
    BY <2>1, StagingHeadless DEF Staging
  <2>3. x \in InstallDirectory /\ x.head = Absent /\ x.artifacts = files.install.artifacts
    BY <1>1, <2>2 DEF InstallDirectory
  <2>4. files' = [files EXCEPT !.install = x] /\ disk' = disk
    BY <1>4 DEF WriteHeadTemp
  <2> HIDE DEF x
  <2>5. /\ DirectoryTypes /\ RootKept /\ TargetKept /\ ActivationKept
        /\ files'.install = x /\ disk'.install = disk.install
    BY <1>3, <2>3, <2>4
  <2>6. files'.install.head = Absent /\ disk'.install.head = Absent
    BY <2>2, <2>3, <2>5
  <2>7. /\ work' \subseteq Cells /\ held' = held /\ version' = version
        /\ UNCHANGED <<universe, now, acknowledged, faults>>
    BY <1>1, <1>4 DEF WriteHeadTemp, universe
  <2>8. local'[p].at = "headRename"
    BY <2>1, WentFields
  <2>9. InstallStaged(p)'
    <3>1. StagedArtifacts' /\ StagedDirectory'
      BY <1>2, <2>1, <2>3, <2>5, <2>7
      DEF InstallStaged, StagedArtifacts, StagedDirectory, TargetKept
    <3>2. \A i \in DOMAIN CellOrder : StagedCell(i)'
      BY <1>2, <2>1, <2>5, <2>7 DEF InstallStaged, StagedCell, TargetKept
    <3> QED BY <2>6, <2>8, <3>1, <3>2
        DEF InstallStaged, At, Staging, Activating, Clearing, Arming
  <2> QED BY <2>1, <2>5, <2>6, <2>7, <2>9, StagesOn DEF Staging
<1>5. CASE RenameHead(p)
  <2> DEFINE x == [files.install EXCEPT !.head = version, !.temp = FALSE]
  <2>1. local[p].at = "headRename" /\ Goes(p, "headSync", local[p].next)
        /\ local[p].next \in 1..(Len(SourceLocks) + 1)
    BY <1>5, GotoGoes DEF RenameHead, At
  <2>2. disk.install.head = Absent
    BY <2>1, StagingHeadless DEF Staging
  <2>3. files.install.artifacts = version
    BY <1>2, <2>1 DEF InstallStaged, StagedArtifacts
  <2>4. x \in InstallDirectory /\ x.head = version /\ x.artifacts = version /\ ~x.temp
    BY <1>1, <2>3 DEF InstallDirectory
  <2>5. files' = [files EXCEPT !.install = x] /\ disk' = disk
    BY <1>5 DEF RenameHead
  <2> HIDE DEF x
  <2>6. /\ DirectoryTypes /\ RootKept /\ TargetKept /\ ActivationKept
        /\ files'.install = x /\ disk'.install = disk.install
    BY <1>3, <2>4, <2>5
  <2>7. /\ work' \subseteq Cells /\ held' = held /\ version' = version
        /\ UNCHANGED <<universe, now, acknowledged, faults>>
    BY <1>1, <1>5 DEF RenameHead, universe
  <2>8. local'[p].at = "headSync"
    BY <2>1, WentFields
  <2>9. InstallStaged(p)'
    BY <2>4, <2>6, <2>7, <2>8
    DEF InstallStaged, At, Staging, Activating, Clearing, Arming
  <2>10. /\ files.directory = version /\ disk.directory = version
         /\ \A c \in Cells : files.cells[c] = version /\ disk.cells[c] = version
    <3>1. files.directory = version /\ disk.directory = version
      BY <1>2, <2>1 DEF InstallStaged, StagedDirectory
    <3>2. ASSUME NEW c \in Cells
          PROVE  files.cells[c] = version /\ disk.cells[c] = version
      <4>1. PICK i \in 1..Len(CellOrder) : CellOrder[i] = c
        BY CellOrderShape
      <4> QED BY <1>2, <2>1, <4>1, CellOrderShape DEF InstallStaged, StagedCell
    <3> QED BY <3>1, <3>2
  <2>11. disk.cells = files.cells
    BY <1>1, <2>10 DEF UniverseDirectory
  <2>12. PreparedIsComplete'
    BY <1>1, <2>4, <2>6, <2>10 DEF PreparedIsComplete, InstallFileSet, TargetKept,
                                       Committed, Versions, Absent
  <2>13. HeadDurable'
    <3>1. disk'.root.selector \subseteq Selector'
      BY <2>6 DEF UniverseInv, HeadDurable, RootKept, Selector
    <3> QED BY <2>2, <2>6, <2>10, <2>11, <3>1 DEF HeadDurable, TargetKept
  <2> QED BY <2>1, <2>6, <2>7, <2>9, <2>12, <2>13, StagesOn DEF Staging
<1> QED BY <1>4, <1>5


-----------------------------------------------------------------------------
(* Steps that synchronize a directory.                                     *)

(* A sync only brings the disk closer to the files.                        *)
LEMMA SyncedInv ==
    ASSUME UniverseInv, NEW p \in Processes, Synced("root") \/ Synced("install"),
           UNCHANGED <<universe, now, faults>>, Moves(p), work' \subseteq Cells,
           local' \in [Processes -> Place], held' \in [Processes -> SUBSET Locks],
           acknowledged' \subseteq Authorizations,
           Exclusive', Placed(p)', local'[p].at # "serving"
    PROVE  UniverseInv'
<1>1. files \in UniverseDirectory /\ disk \in UniverseDirectory /\ Types
  BY DEF UniverseInv, Types
<1>2. /\ DirectoryTypes /\ TargetKept /\ ActivationKept /\ files' = files
      /\ disk'.root = files.root \/ disk'.root = disk.root
      /\ disk'.install = files.install \/ disk'.install = disk.install
  BY <1>1, SyncedFields DEF RootKept, InstallKept
<1>3. Types'
  BY <1>1, <1>2, WritingTypes
<1>4. PreparedIsComplete'
  BY <1>2 DEF UniverseInv, PreparedIsComplete, InstallFileSet, Committed
<1>5. HeadDurable'
  <2>1. HeadDurable
    BY DEF UniverseInv
  <2>2. Committed' = Committed /\ Selector' = Selector /\ Selector = files.root.selector
    BY <1>2 DEF Committed, Selector
  <2>3. Committed' => disk'.directory = files'.directory /\ disk'.cells = files'.cells
    BY <1>2, <2>1, <2>2 DEF HeadDurable, TargetKept
  <2>4. disk'.install.head # Absent => disk'.install = files'.install
    BY <1>2, <2>1 DEF HeadDurable
  <2>5. disk'.root.selector \subseteq Selector'
    BY <1>2, <2>1, <2>2 DEF HeadDurable
  <2> QED BY <2>3, <2>4, <2>5 DEF HeadDurable
<1>6. Selector' = Selector
  BY <1>2 DEF Selector
<1>7. SelectedFrozen'
  BY <1>6, SelectedKept
<1> QED BY <1>2, <1>3, <1>4, <1>5, <1>6, <1>7, OneMoved DEF TargetKept

(* The install is locked, unless another process has it.                   *)
LEMMA LockInstallInv ==
    ASSUME UniverseInv, NEW p \in Processes, LockInstall(p)
    PROVE  UniverseInv'
<1> USE DEF At, Frozen, Preparing, Staging, Activating, Clearing, Arming, Booting, OpeningCell
<1> DEFINE s == IF Committed THEN "validate" ELSE "reset"
<1>1. Types /\ Placed(p) /\ At(p, "lockInstall") /\ Synced("root")
      /\ UNCHANGED <<universe, now, faults, acknowledged, work>> /\ files' = files
  BY DEF UniverseInv, LockInstall, Synced
<1>2. work' \subseteq Cells /\ acknowledged' \subseteq Authorizations
  BY <1>1 DEF Types
<1>3. LocksHeld(p) /\ SourceFrozen(p) /\ Carries(p)
  BY <1>1 DEF Placed
<1>4. CASE Stop(p)
  <2>1. local'[p].at # "serving"
    BY <1>4, Stopped DEF Idle
  <2> QED BY <1>1, <1>2, <1>4, <2>1, Stopped, SyncedInv
<1>5. CASE Free("install") /\ Take(p, "install") /\ Goto(p, s)
  <2>1. Goes(p, s, local[p].next) /\ local[p].next \in 1..(Len(SourceLocks) + 1)
    BY <1>5, GotoGoes
  <2>2. s \in Steps /\ s \in {"validate", "reset"} /\ "install" \in Locks
        /\ (s = "reset" => files.install.head = Absent)
    BY SourceLocksShape DEF Steps, Committed
  <2>3. \E lock \in Locks : Free(lock) /\ Take(p, lock)
    BY <1>5, <2>2
  <2> HIDE DEF s
  <2>4. /\ local' \in [Processes -> Place] /\ held' \in [Processes -> SUBSET Locks]
        /\ local'[p].at = s /\ local'[p].task = local[p].task
        /\ local'[p].authorization = local[p].authorization
        /\ held[p] \subseteq held'[p] /\ Moves(p) /\ Exclusive'
    BY <2>1, <2>2, <2>3, Went
  <2>5. "install" \in held'[p]
    BY <1>1, <1>5 DEF Types, Take
  <2>6. LocksHeld(p)'
    BY <1>1, <1>3, <2>2, <2>4, <2>5 DEF LocksHeld, HasDirectory, HasInstall, HasActivation
  <2>7. SourceFrozen(p)'
    BY <1>1, <1>3, <2>2, <2>4 DEF SourceFrozen, universe
  <2>8. OpeningBounded(p)' /\ ActivationArmed(p)' /\ BootedFrom(p)'
    BY <2>2, <2>4 DEF OpeningBounded, ActivationArmed, BootedFrom
  <2>9. InstallStaged(p)'
    BY <1>1, <2>2, <2>4 DEF InstallStaged
  <2>10. Carries(p)'
    BY <1>3, <2>2, <2>4 DEF Carries
  <2>11. Placed(p)'
    BY <2>6, <2>7, <2>8, <2>9, <2>10 DEF Placed
  <2>12. local'[p].at # "serving"
    BY <2>2, <2>4
  <2> QED BY <1>1, <1>2, <2>4, <2>11, <2>12, SyncedInv
<1> QED BY <1>4, <1>5 DEF LockInstall

(* The head is durable, and `activate' goes on with the locks it has.      *)
LEMMA SyncHeadInv ==
    ASSUME UniverseInv, NEW p \in Processes, SyncHead(p)
    PROVE  UniverseInv'
<1> USE DEF At, Frozen, Preparing, Staging, Activating, Clearing, Arming, Booting, OpeningCell
<1>1. Types /\ Placed(p) /\ At(p, "headSync") /\ Synced("install")
      /\ UNCHANGED <<universe, now, faults, acknowledged, work>> /\ files' = files
  BY DEF UniverseInv, SyncHead, Synced
<1>2. work' \subseteq Cells /\ acknowledged' \subseteq Authorizations
  BY <1>1 DEF Types
<1>3. LocksHeld(p) /\ SourceFrozen(p) /\ Carries(p) /\ InstallStaged(p)
  BY <1>1 DEF Placed
<1>4. CASE Stop(p)
  <2>1. local'[p].at # "serving"
    BY <1>4, Stopped DEF Idle
  <2> QED BY <1>1, <1>2, <1>4, <2>1, Stopped, SyncedInv
<1>5. CASE local[p].task = "activate" /\ Goto(p, "lockActivation") /\ UNCHANGED held
  <2>1. Goes(p, "lockActivation", local[p].next)
        /\ local[p].next \in 1..(Len(SourceLocks) + 1)
    BY <1>5, GotoGoes
  <2>2. "lockActivation" \in Steps
    BY DEF Steps
  <2>3. /\ local' \in [Processes -> Place] /\ held' \in [Processes -> SUBSET Locks]
        /\ local'[p].at = "lockActivation" /\ local'[p].task = local[p].task
        /\ local'[p].authorization = local[p].authorization
        /\ held[p] \subseteq held'[p] /\ Moves(p) /\ Exclusive'
    BY <1>5, <2>1, <2>2, Went
  <2>4. LocksHeld(p)'
    BY <1>1, <1>3, <2>3 DEF LocksHeld, HasDirectory, HasInstall, HasActivation
  <2>5. SourceFrozen(p)'
    BY <1>1, <1>3, <2>3 DEF SourceFrozen, universe
  <2>6. OpeningBounded(p)' /\ ActivationArmed(p)' /\ BootedFrom(p)'
    BY <2>3 DEF OpeningBounded, ActivationArmed, BootedFrom
  <2>7. InstallStaged(p)'
    BY <1>1, <1>3, <2>3 DEF InstallStaged, universe
  <2>8. Carries(p)'
    BY <1>3, <1>5, <2>3 DEF Carries
  <2>9. Placed(p)'
    BY <2>4, <2>5, <2>6, <2>7, <2>8 DEF Placed
  <2>10. local'[p].at # "serving"
    BY <2>3
  <2> QED BY <1>1, <1>2, <2>3, <2>9, <2>10, SyncedInv
<1> QED BY <1>4, <1>5 DEF SyncHead, Prepared

(* The activation is locked, unless there is a selector by now.            *)
LEMMA LockActivationInv ==
    ASSUME UniverseInv, NEW p \in Processes, LockActivation(p)
    PROVE  UniverseInv'
<1> USE DEF At, Frozen, Preparing, Staging, Activating, Clearing, Arming, Booting, OpeningCell
<1>1. Types /\ Placed(p) /\ At(p, "lockActivation") /\ Synced("root")
      /\ UNCHANGED <<universe, now, faults, acknowledged, work>> /\ files' = files
  BY DEF UniverseInv, LockActivation, Synced
<1>2. work' \subseteq Cells /\ acknowledged' \subseteq Authorizations
  BY <1>1 DEF Types
<1>3. LocksHeld(p) /\ SourceFrozen(p) /\ Carries(p) /\ InstallStaged(p)
  BY <1>1 DEF Placed
<1>4. CASE Stop(p)
  <2>1. local'[p].at # "serving"
    BY <1>4, Stopped DEF Idle
  <2> QED BY <1>1, <1>2, <1>4, <2>1, Stopped, SyncedInv
<1>5. CASE /\ Free("activation") /\ ~Activated
           /\ Take(p, "activation") /\ Goto(p, "resetActivation")
  <2>1. Goes(p, "resetActivation", local[p].next)
        /\ local[p].next \in 1..(Len(SourceLocks) + 1)
    BY <1>5, GotoGoes
  <2>2. "resetActivation" \in Steps /\ "activation" \in Locks
    BY SourceLocksShape DEF Steps
  <2>3. /\ local' \in [Processes -> Place] /\ held' \in [Processes -> SUBSET Locks]
        /\ local'[p].at = "resetActivation" /\ local'[p].task = local[p].task
        /\ local'[p].authorization = local[p].authorization
        /\ held[p] \subseteq held'[p] /\ Moves(p) /\ Exclusive'
    <3>1. \E lock \in Locks : Free(lock) /\ Take(p, lock)
      BY <1>5, <2>2
    <3> QED BY <2>1, <2>2, <3>1, Went
  <2>4. "activation" \in held'[p]
    BY <1>1, <1>5 DEF Types, Take
  <2>5. LocksHeld(p)'
    BY <1>1, <1>3, <2>3, <2>4 DEF LocksHeld, HasDirectory, HasInstall, HasActivation
  <2>6. SourceFrozen(p)'
    BY <1>1, <1>3, <2>3 DEF SourceFrozen, universe
  <2>7. OpeningBounded(p)' /\ BootedFrom(p)'
    BY <2>3 DEF OpeningBounded, BootedFrom
  <2>8. InstallStaged(p)'
    BY <1>1, <1>3, <2>3 DEF InstallStaged, universe
  <2>9. Carries(p)'
    BY <1>1, <1>3, <2>3 DEF Carries
  <2>10. ActivationArmed(p)'
    BY <1>1, <1>5, <2>3 DEF ActivationArmed, Activated, Selector
  <2>11. Placed(p)'
    BY <2>5, <2>6, <2>7, <2>8, <2>9, <2>10 DEF Placed
  <2>12. local'[p].at # "serving"
    BY <2>3
  <2> QED BY <1>1, <1>2, <2>3, <2>11, <2>12, SyncedInv
<1> QED BY <1>4, <1>5 DEF LockActivation


-----------------------------------------------------------------------------
(* The activation transaction.                                             *)

(* A step of the transaction: the install stays, and the process is well   *)
(* placed when the activation directory holds what it has written.         *)
LEMMA ArmsOn ==
    ASSUME UniverseInv, NEW p \in Processes, local[p].at \in Clearing,
           NEW s \in Activating, Goto(p, s), held' = held,
           UNCHANGED <<universe, now, acknowledged, faults, work>>,
           DirectoryTypes, InstallKept, TargetKept, ActivationArmed(p)',
           disk'.root.selector \subseteq Selector', SelectedFrozen'
    PROVE  UniverseInv'
<1> USE DEF At, Frozen, Preparing, Staging, Activating, Clearing, Arming, Booting, OpeningCell
<1>1. Types /\ Placed(p)
  BY DEF UniverseInv
<1>2. LocksHeld(p) /\ SourceFrozen(p) /\ Carries(p) /\ InstallStaged(p)
  BY <1>1 DEF Placed
<1>3. s \in Steps
  BY DEF Steps
<1>4. Goes(p, s, local[p].next) /\ local[p].next \in 1..(Len(SourceLocks) + 1)
  BY GotoGoes
<1>5. /\ local' \in [Processes -> Place] /\ held' \in [Processes -> SUBSET Locks]
      /\ local'[p].at = s /\ local'[p].task = local[p].task
      /\ local'[p].authorization = local[p].authorization
      /\ Moves(p) /\ Exclusive'
  BY <1>3, <1>4, Went
<1>6. HasDirectory(p) /\ HasInstall(p) /\ HasActivation(p)
  BY DEF HasDirectory, HasInstall, HasActivation
<1>7. Types'
  <2>1. acknowledged' \subseteq Authorizations /\ work' \subseteq Cells
    BY <1>1 DEF Types
  <2> QED BY <1>1, <1>5, <2>1, WritingTypes
<1>8. Placed(p)'
  <2>1. LocksHeld(p)'
    BY <1>2, <1>5, <1>6 DEF LocksHeld, HasDirectory, HasInstall, HasActivation
  <2>2. SourceFrozen(p)'
    BY <1>2, <1>5 DEF SourceFrozen, universe
  <2>3. OpeningBounded(p)' /\ BootedFrom(p)'
    BY <1>5 DEF OpeningBounded, BootedFrom
  <2>4. InstallStaged(p)'
    BY <1>2, <1>5 DEF InstallStaged, InstallKept, universe
  <2>5. Carries(p)'
    BY <1>2, <1>5 DEF Carries
  <2> QED BY <2>1, <2>2, <2>3, <2>4, <2>5 DEF Placed
<1>9. PreparedIsComplete'
  BY DEF UniverseInv, PreparedIsComplete, InstallFileSet, Committed, InstallKept, TargetKept
<1>10. HeadDurable'
  BY DEF UniverseInv, HeadDurable, Committed, InstallKept, TargetKept
<1> QED BY <1>5, <1>6, <1>7, <1>8, <1>9, <1>10, OneMoved

(* Nothing is selected, so nothing is asked of the selected.               *)
LEMMA NoneSelected ==
    ASSUME Selector' = {}
    PROVE  SelectedFrozen'
BY DEF SelectedFrozen, Activated

(* What the transaction finds before the selector is named.                *)
LEMMA ClearingFacts ==
    ASSUME UniverseInv, NEW p \in Processes, local[p].at \in Clearing
    PROVE  /\ Selector = {} /\ disk.root.selector = {} /\ ActivationArmed(p)
           /\ files \in UniverseDirectory /\ disk \in UniverseDirectory
           /\ files.root \in RootDirectory /\ files.activation \in ActivationDirectory
           /\ \E a \in Authorizations : local[p].authorization = {a}
<1>1. ActivationArmed(p) /\ Carries(p)
  BY DEF UniverseInv, Placed
<1>2. Selector = {}
  BY <1>1 DEF ActivationArmed
<1>3. disk.root.selector = {}
  BY <1>2 DEF UniverseInv, HeadDurable
<1>4. files \in UniverseDirectory /\ disk \in UniverseDirectory
  BY DEF UniverseInv, Types
<1>5. files.root \in RootDirectory /\ files.activation \in ActivationDirectory
  BY <1>4 DEF UniverseDirectory
<1>6. \E a \in Authorizations : local[p].authorization = {a}
  BY <1>1 DEF Carries, Activating
<1> QED BY <1>1, <1>2, <1>3, <1>4, <1>5, <1>6

(* The remains of an earlier attempt are cleared.                          *)
LEMMA ResetActivationInv ==
    ASSUME UniverseInv, NEW p \in Processes, ResetActivation(p)
    PROVE  UniverseInv'
<1>1. CASE Refused(p)
  BY <1>1, RefusedInv
<1>2. CASE ~Refused(p)
  <2> DEFINE x == [files.root EXCEPT !.temp = FALSE]
             y == ClearedActivation
  <2>1. /\ local[p].at = "resetActivation" /\ Goto(p, "authorize") /\ held' = held
        /\ UNCHANGED <<universe, now, acknowledged, faults, work>>
        /\ files' = [files EXCEPT !.root = x, !.activation = y]
        /\ disk' = [disk EXCEPT !.root = x, !.activation = y]
    BY <1>2 DEF ResetActivation, At
  <2>2. local[p].at \in Clearing
    BY <2>1 DEF Clearing
  <2>3. /\ Selector = {} /\ files \in UniverseDirectory /\ disk \in UniverseDirectory
        /\ files.root \in RootDirectory /\ files.activation \in ActivationDirectory
    BY <2>2, ClearingFacts
  <2>4. x \in RootDirectory /\ x.selector = {}
    BY <2>3 DEF RootDirectory, Selector
  <2>5. y \in ActivationDirectory /\ y.authorizations = {} /\ y.histories = {} /\ ~y.temp
    BY <2>3 DEF ClearedActivation, ActivationDirectory
  <2> HIDE DEF x, y
  <2>6. /\ DirectoryTypes /\ InstallKept /\ TargetKept
        /\ files'.root = x /\ disk'.root = x /\ files'.activation = y
    BY <2>1, <2>3, <2>4, <2>5 DEF DirectoryTypes, UniverseDirectory, InstallKept, TargetKept
  <2>7. Selector' = {} /\ disk'.root.selector \subseteq Selector'
    BY <2>4, <2>6 DEF Selector
  <2>8. local'[p].at = "authorize"
    BY <2>1, GotoGoes, WentFields
  <2>9. ActivationArmed(p)'
    BY <2>5, <2>6, <2>7, <2>8 DEF ActivationArmed, At, Arming
  <2>10. "authorize" \in Activating
    BY DEF Activating, Clearing
  <2> QED BY <2>1, <2>2, <2>6, <2>7, <2>9, <2>10, NoneSelected, ArmsOn
<1> QED BY <1>1, <1>2

(* The envelope and the history head are written, one after the other.     *)
LEMMA WriteActivationInv ==
    ASSUME UniverseInv, NEW p \in Processes, WriteAuthorization(p) \/ WriteHistory(p)
    PROVE  UniverseInv'
<1>1. local[p].at \in Clearing
  BY DEF WriteAuthorization, WriteHistory, At, Clearing, Arming
<1>2. /\ Selector = {} /\ disk.root.selector = {} /\ ActivationArmed(p)
      /\ files \in UniverseDirectory /\ disk \in UniverseDirectory
      /\ files.activation \in ActivationDirectory
      /\ \E a \in Authorizations : local[p].authorization = {a}
  BY <1>1, ClearingFacts
<1>3. ASSUME NEW s \in {"writeHistory", "selectorTemp"}, Goto(p, s), held' = held,
             UNCHANGED <<universe, now, acknowledged, faults, work>>,
             NEW y \in ActivationDirectory, Written("activation", y),
             y.authorizations = local[p].authorization, ~y.temp,
             s = "writeHistory" => y.histories = {},
             s = "selectorTemp" => y.histories = local[p].authorization,
             \A a \in local[p].authorization : Verified(a)
      PROVE  UniverseInv'
  <2>1. /\ DirectoryTypes /\ RootKept /\ InstallKept /\ TargetKept
        /\ files'.activation = y
    BY <1>2, <1>3, WrittenFields
  <2>2. Selector' = {} /\ disk'.root.selector \subseteq Selector'
    BY <1>2, <2>1 DEF Selector, RootKept
  <2>3. local'[p].at = s /\ local'[p].authorization = local[p].authorization
    BY <1>3, GotoGoes, WentFields
  <2>4. ASSUME NEW a, Verified(a) PROVE Verified(a)'
    BY <1>3, <2>4 DEF Verified, universe
  <2>5. ActivationArmed(p)'
    BY <1>3, <2>1, <2>2, <2>3, <2>4 DEF ActivationArmed, At, Arming
  <2>6. s \in Activating
    BY DEF Activating, Clearing, Arming
  <2> QED BY <1>1, <1>3, <2>1, <2>2, <2>5, <2>6, NoneSelected, ArmsOn
<1>4. CASE WriteAuthorization(p)
  <2> DEFINE y == [files.activation EXCEPT !.authorizations = @ \cup local[p].authorization]
  <2>1. /\ local[p].at = "writeAuthorization" /\ Goto(p, "writeHistory") /\ held' = held
        /\ UNCHANGED <<universe, now, acknowledged, faults, work>>
        /\ Written("activation", y)
    BY <1>4 DEF WriteAuthorization, At
  <2>2. /\ files.activation.authorizations = {} /\ files.activation.histories = {}
        /\ ~files.activation.temp /\ \A a \in local[p].authorization : Verified(a)
    BY <1>2, <2>1 DEF ActivationArmed, Arming
  <2>3. /\ y \in ActivationDirectory /\ y.authorizations = local[p].authorization
        /\ ~y.temp /\ y.histories = {}
    BY <1>2, <2>2 DEF ActivationDirectory
  <2> HIDE DEF y
  <2> QED BY <1>3, <2>1, <2>2, <2>3
<1>5. CASE WriteHistory(p)
  <2> DEFINE y == [files.activation EXCEPT !.histories = @ \cup local[p].authorization]
  <2>1. /\ local[p].at = "writeHistory" /\ Goto(p, "selectorTemp") /\ held' = held
        /\ UNCHANGED <<universe, now, acknowledged, faults, work>>
        /\ Written("activation", y)
    BY <1>5 DEF WriteHistory, At
  <2>2. /\ files.activation.authorizations = local[p].authorization
        /\ files.activation.histories = {}
        /\ ~files.activation.temp /\ \A a \in local[p].authorization : Verified(a)
    BY <1>2, <2>1 DEF ActivationArmed, Arming, At
  <2>3. /\ y \in ActivationDirectory /\ y.authorizations = local[p].authorization
        /\ ~y.temp /\ y.histories = local[p].authorization
    BY <1>2, <2>2 DEF ActivationDirectory
  <2> HIDE DEF y
  <2> QED BY <1>3, <2>1, <2>2, <2>3
<1> QED BY <1>4, <1>5

(* The selector is written beside and then given its name.                 *)
LEMMA SelectorInv ==
    ASSUME UniverseInv, NEW p \in Processes, WriteSelectorTemp(p) \/ RenameSelector(p)
    PROVE  UniverseInv'
<1>1. local[p].at \in Clearing
  BY DEF WriteSelectorTemp, RenameSelector, At, Clearing, Arming
<1>2. /\ Selector = {} /\ disk.root.selector = {} /\ ActivationArmed(p)
      /\ files \in UniverseDirectory /\ disk \in UniverseDirectory
      /\ files.root \in RootDirectory
      /\ \E a \in Authorizations : local[p].authorization = {a}
  BY <1>1, ClearingFacts
<1>3. ASSUME NEW x \in RootDirectory, files' = [files EXCEPT !.root = x], disk' = disk
      PROVE  /\ DirectoryTypes /\ InstallKept /\ TargetKept /\ ActivationKept
             /\ files'.root = x /\ disk'.root = disk.root
  BY <1>2, <1>3 DEF DirectoryTypes, UniverseDirectory, InstallKept, TargetKept, ActivationKept
<1>4. CASE WriteSelectorTemp(p)
  <2> DEFINE x == [files.root EXCEPT !.temp = TRUE]
  <2>1. /\ local[p].at = "selectorTemp" /\ Goto(p, "selectorRename") /\ held' = held
        /\ UNCHANGED <<universe, now, acknowledged, faults, work>>
        /\ files' = [files EXCEPT !.root = x] /\ disk' = disk
    BY <1>4 DEF WriteSelectorTemp, At
  <2>2. x \in RootDirectory /\ x.selector = {}
    BY <1>2 DEF RootDirectory, Selector
  <2> HIDE DEF x
  <2>3. /\ DirectoryTypes /\ InstallKept /\ TargetKept /\ ActivationKept
        /\ files'.root = x /\ disk'.root = disk.root
    BY <1>3, <2>1, <2>2
  <2>4. Selector' = {} /\ disk'.root.selector \subseteq Selector'
    BY <1>2, <2>2, <2>3 DEF Selector
  <2>5. local'[p].at = "selectorRename" /\ local'[p].authorization = local[p].authorization
    BY <2>1, GotoGoes, WentFields
  <2>6. ASSUME NEW a, Verified(a) PROVE Verified(a)'
    BY <2>1, <2>6 DEF Verified, universe
  <2>7. ActivationArmed(p)'
    BY <1>2, <2>1, <2>3, <2>4, <2>5, <2>6 DEF ActivationArmed, At, Arming, ActivationKept
  <2>8. "selectorRename" \in Activating
    BY DEF Activating, Clearing, Arming
  <2> QED BY <1>1, <2>1, <2>3, <2>4, <2>7, <2>8, NoneSelected, ArmsOn
<1>5. CASE RenameSelector(p)
  <2> DEFINE x == [selector |-> local[p].authorization, temp |-> FALSE]
  <2>1. /\ local[p].at = "selectorRename" /\ Goto(p, "selectorSync") /\ held' = held
        /\ UNCHANGED <<universe, now, acknowledged, faults, work>>
        /\ files' = [files EXCEPT !.root = x] /\ disk' = disk
    BY <1>5 DEF RenameSelector, At
  <2>2. x \in RootDirectory /\ x.selector = local[p].authorization
    BY <1>2 DEF RootDirectory
  <2> HIDE DEF x
  <2>3. /\ DirectoryTypes /\ InstallKept /\ TargetKept /\ ActivationKept
        /\ files'.root = x /\ disk'.root = disk.root
    BY <1>3, <2>1, <2>2
  <2>4. Selector' = local[p].authorization /\ disk'.root.selector \subseteq Selector'
    BY <1>2, <2>2, <2>3 DEF Selector
  <2>5. /\ local'[p].at = "selectorSync" /\ local'[p].authorization = local[p].authorization
        /\ Moves(p)
    <3>1. "selectorSync" \in Steps
      BY DEF Steps
    <3> QED BY <2>1, <3>1, GotoGoes, Went
  <2>6. ActivationArmed(p)'
    BY <2>4, <2>5 DEF ActivationArmed, At, Clearing, Arming
  <2>7. SelectedFrozen'
    <3>1. ASSUME NEW a \in local[p].authorization PROVE Verified(a)'
      BY <1>2, <2>1 DEF ActivationArmed, Arming, Verified, universe
    <3>2. sleeping' = Cells
      BY <1>1, <2>1 DEF UniverseInv, Placed, SourceFrozen, Frozen, Activating, universe
    <3>3. ASSUME NEW q \in Processes PROVE ~At(q, "serving")'
      <4>1. CASE q = p
        BY <2>5, <4>1 DEF At
      <4>2. CASE q # p
        <5>1. HasDirectory(p)
          BY <1>1 DEF HasDirectory, Frozen, Activating
        <5>2. ~HasDirectory(q)
          BY <4>2, <5>1, HoldersApart
        <5>3. local'[q] = local[q]
          BY <2>5, <4>2 DEF Moves
        <5> QED BY <5>2, <5>3 DEF HasDirectory, At
      <4> QED BY <4>1, <4>2
    <3> QED BY <2>4, <3>1, <3>2, <3>3 DEF SelectedFrozen
  <2>8. "selectorSync" \in Activating
    BY DEF Activating
  <2> QED BY <1>1, <2>1, <2>3, <2>4, <2>6, <2>7, <2>8, ArmsOn
<1> QED BY <1>4, <1>5

(* The selector is durable, and the command has answered.                  *)
LEMMA SyncSelectorInv ==
    ASSUME UniverseInv, NEW p \in Processes, SyncSelector(p)
    PROVE  UniverseInv'
<1>1. Types /\ local[p].authorization \in SUBSET Authorizations
  BY DEF UniverseInv, Types
<1>2. /\ Synced("root") /\ Stop(p) /\ UNCHANGED <<universe, now, faults, work>>
      /\ acknowledged' \subseteq acknowledged \cup local[p].authorization
  BY DEF SyncSelector
<1>3. work' \subseteq Cells /\ acknowledged' \subseteq Authorizations
  BY <1>1, <1>2 DEF Types
<1>4. local'[p].at # "serving"
  BY <1>2, Stopped DEF Idle
<1> QED BY <1>2, <1>3, <1>4, Stopped, SyncedInv


-----------------------------------------------------------------------------
(* The first boot, the worker's own steps, and failures.                   *)

(* The first boot writes the lifecycle head beside the activation.         *)
LEMMA BootOpenInv ==
    ASSUME UniverseInv, NEW p \in Processes, BootOpen(p)
    PROVE  UniverseInv'
<1> USE DEF At, Frozen, Preparing, Staging, Activating, Clearing, Arming, Booting, OpeningCell
<1>1. /\ Types /\ Placed(p) /\ At(p, "bootOpen")
      /\ local[p] \in Place /\ local \in [Processes -> Place]
  BY DEF UniverseInv, BootOpen, Types, Place, Tasked
<1>2. LocksHeld(p) /\ Carries(p) /\ BootedFrom(p)
  BY <1>1 DEF Placed
<1>3. CASE Refused(p)
  BY <1>3, RefusedInv
<1>4. CASE ~Refused(p)
  <2> DEFINE y == [files.activation EXCEPT !.lifecycle = TRUE]
  <2>1. /\ Written("activation", y) /\ held' = held
        /\ local' = [local EXCEPT ![p].at = "bootCells", ![p].next = 1]
        /\ UNCHANGED <<universe, work, now, acknowledged, faults>>
    BY <1>4 DEF BootOpen
  <2>2. y \in ActivationDirectory
    BY <1>1 DEF Types, UniverseDirectory, ActivationDirectory
  <2> HIDE DEF y
  <2>3. DirectoryTypes /\ RootKept /\ InstallKept /\ TargetKept
    BY <1>1, <2>1, <2>2, WrittenFields DEF Types
  <2>4. Goes(p, "bootCells", 1)
    <3>1. local' = [local EXCEPT ![p] = [local[p] EXCEPT !.at = "bootCells", !.next = 1]]
      BY <1>1, <2>1
    <3> QED BY <3>1 DEF Goes
  <2>5. "bootCells" \in Steps /\ 1 \in 1..(Len(SourceLocks) + 1)
    BY SourceLocksShape, CellOrderShape DEF Steps
  <2>6. /\ local' \in [Processes -> Place] /\ held' \in [Processes -> SUBSET Locks]
        /\ local'[p].at = "bootCells" /\ local'[p].task = local[p].task
        /\ local'[p].authorization = local[p].authorization
        /\ local'[p].seen = local[p].seen
        /\ Moves(p) /\ Exclusive'
    BY <2>1, <2>4, <2>5, Went
  <2>7. HasInstall(p) /\ HasActivation(p)
    BY <1>1 DEF HasInstall, HasActivation
  <2>8. Selector' = Selector
    BY <2>3 DEF RootKept, Selector
  <2>9. Types'
    <3>1. acknowledged' \subseteq Authorizations /\ work' \subseteq Cells
      BY <1>1, <2>1 DEF Types
    <3> QED BY <1>1, <2>1, <2>3, <2>6, <3>1, WritingTypes
  <2>10. Placed(p)'
    <3>1. LocksHeld(p)'
      BY <1>2, <2>1, <2>6, <2>7 DEF LocksHeld, HasDirectory, HasInstall, HasActivation
    <3>2. SourceFrozen(p)' /\ OpeningBounded(p)' /\ InstallStaged(p)' /\ ActivationArmed(p)'
      BY <2>6 DEF SourceFrozen, OpeningBounded, InstallStaged, ActivationArmed
    <3>3. Carries(p)'
      BY <1>2, <2>6 DEF Carries
    <3>4. BootedFrom(p)'
      BY <1>1, <1>2, <2>6, <2>8 DEF BootedFrom
    <3> QED BY <3>1, <3>2, <3>3, <3>4 DEF Placed
  <2>11. PreparedIsComplete'
    BY <2>3 DEF UniverseInv, PreparedIsComplete, InstallFileSet, Committed, InstallKept, TargetKept
  <2>12. HeadDurable'
    BY <2>3, <2>8 DEF UniverseInv, HeadDurable, Committed, RootKept, InstallKept, TargetKept
  <2>13. SelectedFrozen'
    <3>1. local'[p].at # "serving"
      BY <2>6
    <3> QED BY <2>1, <2>6, <2>8, <3>1, SelectedKept
  <2> QED BY <2>1, <2>3, <2>6, <2>7, <2>8, <2>9, <2>10, <2>11, <2>12, <2>13, OneMoved
          DEF InstallKept, TargetKept
<1> QED BY <1>3, <1>4

(* Opening a cell changes the source, which nobody then has frozen and no  *)
(* selector binds.                                                         *)
LEMMA LegacyCellOpenInv ==
    ASSUME UniverseInv, NEW p \in Processes, LegacyCellOpen(p)
    PROVE  UniverseInv'
<1> USE DEF At, Frozen, Preparing, Staging, Activating, Clearing, Arming, Booting, OpeningCell
<1> DEFINE n == local[p].next
           s == IF n = Len(CellOrder) THEN "serving" ELSE "legacyCell"
<1>1. /\ Types /\ Placed(p) /\ At(p, "legacyCellLocked")
      /\ local[p] \in Place /\ local \in [Processes -> Place]
      /\ n \in 1..(Len(SourceLocks) + 1)
  BY DEF UniverseInv, LegacyCellOpen, Types, Place, Tasked
<1>2. LocksHeld(p) /\ Carries(p) /\ OpeningBounded(p)
  BY <1>1 DEF Placed
<1>3. CASE Refused(p)
  BY <1>3, RefusedInv
<1>4. CASE ~Refused(p)
  <2>1. /\ ~Activated
        /\ version' = version + 1
        /\ cutoff' = [cutoff EXCEPT ![version + 1] = now]
        /\ sleeping' = sleeping \ {CellOrder[n]}
        /\ local' = [local EXCEPT ![p].next = n + 1, ![p].at = s]
        /\ files' = files /\ disk' = disk /\ held' = held
        /\ UNCHANGED <<work, now, acknowledged, faults>>
    BY <1>1, <1>4 DEF LegacyCellOpen, LegacyFenced
  <2>2. Goes(p, s, n + 1)
    <3>1. local' = [local EXCEPT ![p] = [local[p] EXCEPT !.next = n + 1, !.at = s]]
      BY <1>1, <2>1
    <3>2. [local[p] EXCEPT !.next = n + 1, !.at = s] = [local[p] EXCEPT !.at = s, !.next = n + 1]
      BY <1>1 DEF Place
    <3> QED BY <3>1, <3>2 DEF Goes
  <2>3. n \in 1..Len(CellOrder) /\ version + Len(CellOrder) + 1 - n <= MaxVersion
    BY <1>1, <1>2, SourceLocksShape, CellOrderShape DEF OpeningBounded
  <2>4. version \in Nat /\ MaxVersion \in Nat
    BY <1>1, UniverseAssumption DEF Types, Versions
  <2>5. s \in Steps /\ n + 1 \in 1..(Len(SourceLocks) + 1)
    BY <2>3, SourceLocksShape, CellOrderShape DEF Steps
  <2>6. s = "serving" \/ (s = "legacyCell" /\ n < Len(CellOrder))
    BY <2>3, CellOrderShape
  <2> HIDE DEF s
  <2>7. /\ local' \in [Processes -> Place] /\ held' \in [Processes -> SUBSET Locks]
        /\ local'[p].at = s /\ local'[p].next = n + 1 /\ local'[p].task = local[p].task
        /\ local'[p].authorization = local[p].authorization
        /\ Moves(p) /\ Exclusive'
    BY <2>1, <2>2, <2>5, Went
  <2>8. HasDirectory(p)
    BY <1>1 DEF HasDirectory
  <2>9. Selector' = {}
    BY <2>1 DEF Selector, Activated
  <2>10. Types'
    <3>1. version' \in Versions
      <4>1. n \in Nat /\ Len(CellOrder) \in Nat /\ n <= Len(CellOrder)
        BY <2>3, CellOrderShape
      <4>2. version + 1 <= MaxVersion
        BY <2>3, <2>4, <4>1
      <4> QED BY <2>1, <2>4, <4>2 DEF Versions
    <3>2. sleeping' \subseteq Cells
      BY <1>1, <2>1 DEF Types
    <3>3. cutoff' \in [Versions -> 0..MaxTime]
      BY <1>1, <2>1 DEF Types
    <3> QED BY <1>1, <2>1, <2>7, <3>1, <3>2, <3>3 DEF Types, faults, Place, Tasked
  <2>11. Placed(p)'
    <3>1. LocksHeld(p)'
      BY <1>1, <1>2, <2>1, <2>6, <2>7, <2>8 DEF LocksHeld, HasDirectory, HasInstall, HasActivation
    <3>2. SourceFrozen(p)' /\ InstallStaged(p)' /\ ActivationArmed(p)' /\ BootedFrom(p)'
      BY <2>6, <2>7 DEF SourceFrozen, InstallStaged, ActivationArmed, BootedFrom
    <3>3. OpeningBounded(p)'
      BY <2>1, <2>3, <2>4, <2>6, <2>7, CellOrderShape DEF OpeningBounded
    <3>4. Carries(p)'
      BY <1>2, <2>6, <2>7 DEF Carries
    <3> QED BY <3>1, <3>2, <3>3, <3>4 DEF Placed
  <2>12. PreparedIsComplete'
    BY <2>1 DEF UniverseInv, PreparedIsComplete, InstallFileSet, Committed
  <2>13. HeadDurable'
    BY <2>1 DEF UniverseInv, HeadDurable, Committed, Selector
  <2>14. Selector' = Selector
    BY <2>1 DEF Selector
  <2> QED BY <2>1, <2>7, <2>8, <2>9, <2>10, <2>11, <2>12, <2>13, <2>14, NoneSelected, OneMoved
<1> QED BY <1>3, <1>4

(* A worker that serves may shut down: there is no selector yet.           *)
LEMMA LegacyDrainInv ==
    ASSUME UniverseInv, NEW p \in Processes, LegacyDrain(p)
    PROVE  UniverseInv'
<1>1. Types /\ At(p, "serving") /\ SelectedFrozen
  BY DEF UniverseInv, LegacyDrain
<1>2. /\ sleeping' \subseteq Cells /\ cutoff' = [cutoff EXCEPT ![version] = now]
      /\ Stop(p) /\ files' = files /\ disk' = disk /\ version' = version
      /\ UNCHANGED <<work, now, acknowledged, faults>>
  BY DEF LegacyDrain
<1>3. HasDirectory(p)
  BY <1>1 DEF HasDirectory, At
<1>4. Selector' = {} /\ Selector' = Selector
  BY <1>1, <1>2 DEF SelectedFrozen, Activated, Selector
<1>5. Types'
  <2>1. cutoff' \in [Versions -> 0..MaxTime]
    BY <1>1, <1>2 DEF Types
  <2> QED BY <1>1, <1>2, <2>1, Stopped DEF Types, faults, Place, Tasked
<1>6. PreparedIsComplete'
  BY <1>2 DEF UniverseInv, PreparedIsComplete, InstallFileSet, Committed
<1>7. HeadDurable'
  BY <1>2, <1>4 DEF UniverseInv, HeadDurable, Committed
<1> QED BY <1>2, <1>3, <1>4, <1>5, <1>6, <1>7, Stopped, NoneSelected, OneMoved


(* What a stopped process leaves behind never looks like a head, and never *)
(* touches the selector or what a selector was written for.                *)
LEMMA LeftoverFacts ==
    ASSUME UniverseInv, NEW p \in Processes, files' \in {files} \cup Leftovers(p)
    PROVE  /\ files' \in UniverseDirectory /\ Selector' = Selector
           /\ \/ /\ files'.install = files.install
                 /\ files'.directory = files.directory /\ files'.cells = files.cells
              \/ local[p].at \in Staging \ {"headSync"} /\ files'.install.head = Absent
           /\ files'.activation = files.activation \/ local[p].at \in Clearing
<1>1. files \in UniverseDirectory /\ InstallStaged(p) /\ local[p].next \in Nat
  BY CellOrderShape, SourceLocksShape DEF UniverseInv, Types, Placed
<1>2. CASE files' = files
  BY <1>1, <1>2 DEF Selector
<1>3. CASE files' \in Leftovers(p)
  <2>1. CASE At(p, "reset")
    <3>1. files.install.head = Absent
      BY <1>1, <2>1 DEF InstallStaged, At, Staging
    <3>2. files' \in PartlyReset
      BY <1>3, <2>1 DEF Leftovers, At
    <3>3. ASSUME NEW n \in 0..Len(CellOrder), NEW g,
                 g = [files EXCEPT !.directory = Absent,
                          !.cells = [c \in Cells |-> IF \E i \in 1..n : CellOrder[i] = c
                                                     THEN Absent ELSE files.cells[c]]]
          PROVE  /\ g \in UniverseDirectory /\ g.root = files.root
                 /\ g.install = files.install /\ g.activation = files.activation
      BY <1>1, <3>3 DEF UniverseDirectory, Contents
    <3>4. PICK n \in 0..Len(CellOrder), g \in UniverseDirectory :
              /\ g.root = files.root /\ g.install = files.install
              /\ g.activation = files.activation
              /\ \/ files' = g
                 \/ \E a \in {Debris, Absent} : files' = [g EXCEPT !.install.artifacts = a]
      <4>1. Len(CellOrder) \in 0..Len(CellOrder)
        BY CellOrderShape
      <4> QED BY <3>2, <3>3, <4>1 DEF PartlyReset
    <3>5. /\ files' \in UniverseDirectory /\ files'.root = files.root
          /\ files'.activation = files.activation /\ files'.install.head = Absent
      <4>1. CASE files' = g
        BY <3>1, <3>4, <4>1
      <4>2. ASSUME NEW a \in {Debris, Absent}, files' = [g EXCEPT !.install.artifacts = a]
            PROVE  /\ files' \in UniverseDirectory /\ files'.root = files.root
                   /\ files'.activation = files.activation /\ files'.install.head = Absent
        <5>1. a \in Contents /\ g.install \in InstallDirectory
          BY <3>4 DEF UniverseDirectory, Contents
        <5> DEFINE x == [g.install EXCEPT !.artifacts = a]
        <5>2. x \in InstallDirectory /\ x.head = g.install.head
          BY <5>1 DEF InstallDirectory
        <5>3. files' = [g EXCEPT !.install = x]
          BY <4>2
        <5> HIDE DEF x
        <5> QED BY <3>1, <3>4, <5>2, <5>3 DEF UniverseDirectory
      <4> QED BY <3>4, <4>1, <4>2
    <3> QED BY <2>1, <3>5 DEF Selector, At, Staging
  <2>2. CASE local[p].at \in {"artifacts", "stageDirectory", "stageCells", "headTemp"}
    <3>1. files.install.head = Absent
      BY <1>1, <2>2 DEF InstallStaged, Staging
    <3>2. \/ files' = [files EXCEPT !.install.artifacts = Debris, !.install.temp = TRUE]
          \/ files' = [files EXCEPT !.directory = Debris]
          \/ files' = [files EXCEPT !.cells[CellOrder[local[p].next]] = Debris]
          \/ files' = [files EXCEPT !.install.temp = TRUE]
      BY <1>3, <2>2 DEF Leftovers, At
    <3>3. /\ files' \in UniverseDirectory /\ files'.root = files.root
          /\ files'.activation = files.activation /\ files'.install.head = Absent
      <4>1. Debris \in Contents /\ files.install \in InstallDirectory
            /\ files.cells \in [Cells -> Contents]
        BY <1>1 DEF UniverseDirectory, Contents
      <4>2. CASE files' = [files EXCEPT !.directory = Debris]
        BY <1>1, <3>1, <4>1, <4>2 DEF UniverseDirectory
      <4>3. ASSUME NEW c, files' = [files EXCEPT !.cells[c] = Debris]
            PROVE  /\ files' \in UniverseDirectory /\ files'.root = files.root
                   /\ files'.activation = files.activation /\ files'.install.head = Absent
        <5> DEFINE x == [files.cells EXCEPT ![c] = Debris]
        <5>1. x \in [Cells -> Contents]
          BY <4>1
        <5>2. files' = [files EXCEPT !.cells = x]
          BY <4>3
        <5> HIDE DEF x
        <5> QED BY <1>1, <3>1, <5>1, <5>2 DEF UniverseDirectory
      <4>4. ASSUME NEW x \in InstallDirectory, x.head = Absent,
                   files' = [files EXCEPT !.install = x]
            PROVE  /\ files' \in UniverseDirectory /\ files'.root = files.root
                   /\ files'.activation = files.activation /\ files'.install.head = Absent
        BY <1>1, <4>4 DEF UniverseDirectory
      <4>5. CASE files' = [files EXCEPT !.install.artifacts = Debris, !.install.temp = TRUE]
        <5> DEFINE x == [files.install EXCEPT !.artifacts = Debris, !.temp = TRUE]
        <5>1. x \in InstallDirectory /\ x.head = Absent
          BY <3>1, <4>1 DEF InstallDirectory
        <5>2. files' = [files EXCEPT !.install = x]
          BY <1>1, <4>5 DEF UniverseDirectory
        <5> HIDE DEF x
        <5> QED BY <4>4, <5>1, <5>2
      <4>6. CASE files' = [files EXCEPT !.install.temp = TRUE]
        <5> DEFINE x == [files.install EXCEPT !.temp = TRUE]
        <5>1. x \in InstallDirectory /\ x.head = Absent
          BY <3>1, <4>1 DEF InstallDirectory
        <5>2. files' = [files EXCEPT !.install = x]
          BY <1>1, <4>6 DEF UniverseDirectory
        <5> HIDE DEF x
        <5> QED BY <4>4, <5>1, <5>2
      <4> QED BY <3>2, <4>2, <4>3, <4>5, <4>6
    <3> QED BY <2>2, <3>3 DEF Selector, Staging
  <2>3. CASE local[p].at \in Clearing
    <3>1. \/ files' = [files EXCEPT !.activation.authorizations = {}, !.root.temp = FALSE]
          \/ files' = [files EXCEPT !.activation.temp = TRUE]
          \/ files' = [files EXCEPT !.root.temp = TRUE]
      BY <1>3, <2>3 DEF Leftovers, At, Clearing, Arming
    <3>2. /\ files' \in UniverseDirectory /\ files'.root.selector = files.root.selector
          /\ files'.install = files.install
          /\ files'.directory = files.directory /\ files'.cells = files.cells
      <4>1. files.root \in RootDirectory /\ files.activation \in ActivationDirectory
        BY <1>1 DEF UniverseDirectory
      <4>2. PICK x \in RootDirectory, y \in ActivationDirectory :
                /\ x.selector = files.root.selector
                /\ files' = [files EXCEPT !.root = x, !.activation = y]
        <5>1. CASE files' = [files EXCEPT !.activation.authorizations = {}, !.root.temp = FALSE]
          <6> DEFINE x == [files.root EXCEPT !.temp = FALSE]
                     y == [files.activation EXCEPT !.authorizations = {}]
          <6>1. x \in RootDirectory /\ x.selector = files.root.selector
                /\ y \in ActivationDirectory
            BY <4>1 DEF RootDirectory, ActivationDirectory
          <6>2. files' = [files EXCEPT !.root = x, !.activation = y]
            BY <1>1, <5>1 DEF UniverseDirectory
          <6> HIDE DEF x, y
          <6> QED BY <6>1, <6>2
        <5>2. CASE files' = [files EXCEPT !.activation.temp = TRUE]
          <6> DEFINE y == [files.activation EXCEPT !.temp = TRUE]
          <6>1. y \in ActivationDirectory
            BY <4>1 DEF ActivationDirectory
          <6>2. files' = [files EXCEPT !.root = files.root, !.activation = y]
            BY <1>1, <5>2 DEF UniverseDirectory
          <6> HIDE DEF y
          <6> QED BY <4>1, <6>1, <6>2
        <5>3. CASE files' = [files EXCEPT !.root.temp = TRUE]
          <6> DEFINE x == [files.root EXCEPT !.temp = TRUE]
          <6>1. x \in RootDirectory /\ x.selector = files.root.selector
            BY <4>1 DEF RootDirectory
          <6>2. files' = [files EXCEPT !.root = x, !.activation = files.activation]
            BY <1>1, <5>3 DEF UniverseDirectory
          <6> HIDE DEF x
          <6> QED BY <4>1, <6>1, <6>2
        <5> QED BY <3>1, <5>1, <5>2, <5>3
      <4> QED BY <1>1, <4>2 DEF UniverseDirectory
    <3> QED BY <2>3, <3>2 DEF Selector
  <2>4. local[p].at \in {"reset", "artifacts", "stageDirectory", "stageCells", "headTemp"}
                          \cup Clearing
    BY <1>3 DEF Leftovers, At, Clearing, Arming
  <2> QED BY <2>1, <2>2, <2>3, <2>4 DEF At
<1> QED BY <1>2, <1>3

(* A process may stop anywhere.                                            *)
LEMMA HaltInv ==
    ASSUME UniverseInv, NEW p \in Processes, Halt(p)
    PROVE  UniverseInv'
<1>1. /\ files' \in {files} \cup Leftovers(p) /\ Stop(p) /\ disk' = disk
      /\ stops < MaxStops /\ stops' = stops + 1
      /\ UNCHANGED <<universe, work, now, acknowledged, failures>>
  BY DEF Halt
<1>2. /\ files' \in UniverseDirectory /\ Selector' = Selector
      /\ \/ /\ files'.install = files.install
            /\ files'.directory = files.directory /\ files'.cells = files.cells
         \/ local[p].at \in Staging \ {"headSync"} /\ files'.install.head = Absent
      /\ files'.activation = files.activation \/ local[p].at \in Clearing
  BY <1>1, LeftoverFacts
<1>3. Types'
  <2>1. Types /\ stops' \in 0..MaxStops
    BY <1>1, UniverseAssumption DEF UniverseInv, Types
  <2> QED BY <1>1, <1>2, <2>1, Stopped DEF Types, universe, Place, Tasked
<1>4. local'[p].at # "serving"
  BY <1>1, Stopped DEF Idle
<1>5. SelectedFrozen'
  BY <1>1, <1>2, <1>4, Stopped, SelectedKept
<1>6. disk.root.selector \subseteq Selector
  BY DEF UniverseInv, HeadDurable
<1>7. PreparedIsComplete' /\ HeadDurable'
  <2>1. CASE /\ files'.install = files.install
             /\ files'.directory = files.directory /\ files'.cells = files.cells
    BY <1>1, <1>2, <2>1
    DEF UniverseInv, PreparedIsComplete, HeadDurable, InstallFileSet, Committed
  <2>2. CASE local[p].at \in Staging \ {"headSync"} /\ files'.install.head = Absent
    <3>1. disk'.install.head = Absent
      BY <1>1, <2>2, StagingHeadless
    <3> QED BY <1>1, <1>2, <1>6, <2>2, <3>1 DEF PreparedIsComplete, HeadDurable, Committed
  <2> QED BY <1>2, <2>1, <2>2
<1>8. HasInstall(p) \/ /\ files'.install = files.install
                       /\ files'.directory = files.directory
                       /\ files'.cells = files.cells
  BY <1>2 DEF HasInstall, Preparing
<1>9. HasActivation(p) \/ files'.activation = files.activation
  BY <1>2 DEF HasActivation, Activating
<1> QED BY <1>1, <1>2, <1>3, <1>5, <1>7, <1>8, <1>9, Stopped, OneMoved

(* Each directory as processes saw it, or as it was synchronized.          *)
LEMMA LostFields ==
    ASSUME UniverseInv, LosePower
    PROVE  /\ files' \in UniverseDirectory /\ disk' = files'
           /\ files'.root \in {files.root, disk.root}
           /\ files'.install \in {files.install, disk.install}
           /\ files'.directory \in {files.directory, disk.directory}
           /\ files'.cells \in {files.cells, disk.cells}
           /\ files'.activation \in {files.activation, disk.activation}
<1>1. files \in UniverseDirectory /\ disk \in UniverseDirectory /\ disk' = files'
  BY DEF UniverseInv, Types, LosePower
<1>2. PICK lost : files' = [d \in DOMAIN files |-> IF d \in lost THEN disk[d] ELSE files[d]]
  BY DEF LosePower
<1>3. DOMAIN files = {"root", "install", "directory", "cells", "activation"}
  BY <1>1 DEF UniverseDirectory
<1>4. files' = [root |-> IF "root" \in lost THEN disk.root ELSE files.root,
                install |-> IF "install" \in lost THEN disk.install ELSE files.install,
                directory |-> IF "directory" \in lost THEN disk.directory ELSE files.directory,
                cells |-> IF "cells" \in lost THEN disk.cells ELSE files.cells,
                activation |-> IF "activation" \in lost THEN disk.activation
                               ELSE files.activation]
  BY <1>2, <1>3
<1> QED BY <1>1, <1>4 DEF UniverseDirectory

(* Whatever a power failure loses, head and target are lost together or    *)
(* were durable.                                                           *)
LEMMA LosePowerInv ==
    ASSUME UniverseInv, LosePower
    PROVE  UniverseInv'
<1>1. /\ failures < MaxPowerFailures /\ failures' = failures + 1
      /\ local' = [p \in Processes |-> Idle] /\ held' = [p \in Processes |-> {}]
      /\ UNCHANGED <<universe, work, now, acknowledged, stops>>
  BY DEF LosePower
<1>2. Types /\ PreparedIsComplete /\ HeadDurable /\ SelectedFrozen
  BY DEF UniverseInv
<1>3. Types'
  <2>1. failures' \in 0..MaxPowerFailures
    BY <1>1, <1>2, UniverseAssumption DEF Types
  <2>2. Idle \in Place
    BY SourceLocksShape, CellOrderShape DEF Idle, Place, Steps, Tasked
  <2>3. local' \in [Processes -> Place]
    BY <1>1, <2>2
  <2> QED BY <1>1, <1>2, <2>1, <2>3, LostFields DEF Types, universe, Place, Tasked
<1>4. Exclusive'
  BY <1>1 DEF Exclusive
<1>5. ASSUME NEW p \in Processes PROVE Placed(p)' /\ ~At(p, "serving")'
  <2>1. local'[p] = Idle
    BY <1>1
  <2> QED BY <2>1, IdlePlaced DEF At, Idle
<1>6. Committed' => /\ files'.install = files.install /\ Committed
                    /\ files'.directory = files.directory /\ files'.cells = files.cells
  BY <1>2, LostFields DEF Committed, HeadDurable
<1>7. PreparedIsComplete'
  BY <1>2, <1>6 DEF PreparedIsComplete, InstallFileSet, Committed
<1>8. Selector' \subseteq Selector
  BY <1>2, LostFields DEF HeadDurable, Selector
<1>9. HeadDurable'
  BY LostFields DEF HeadDurable, Selector
<1>10. SelectedFrozen'
  <2>1. \A a : Verified(a)' = Verified(a)
    BY <1>1 DEF Verified, universe
  <2> QED BY <1>1, <1>2, <1>5, <1>8, <2>1 DEF SelectedFrozen, Activated, universe
<1> QED BY <1>3, <1>4, <1>5, <1>7, <1>9, <1>10 DEF UniverseInv

(* Time passes beside everything else.                                     *)
LEMMA TickInv ==
    ASSUME UniverseInv, Tick \/ UNCHANGED vars
    PROVE  UniverseInv'
<1>1. /\ UNCHANGED <<files, disk, universe, work, held, local, acknowledged, faults>>
      /\ now' = now \/ (now < MaxTime /\ now' = now + 1)
  BY DEF Tick, vars, universe, faults
<1>2. Types'
  BY <1>1, UniverseAssumption DEF UniverseInv, Types, universe, faults
<1>3. Exclusive' /\ PreparedIsComplete' /\ HeadDurable'
  BY <1>1 DEF UniverseInv, Exclusive, PreparedIsComplete, InstallFileSet, Committed,
              HeadDurable, Selector
<1>4. SelectedFrozen'
  BY <1>1 DEF UniverseInv, SelectedFrozen, Activated, Selector, Verified, At, universe
<1>5. ASSUME NEW p \in Processes PROVE Placed(p)'
  <2>1. Placed(p)
    BY DEF UniverseInv
  <2>2. LocksHeld(p)' /\ SourceFrozen(p)' /\ OpeningBounded(p)'
    BY <1>1, <2>1 DEF Placed, LocksHeld, HasDirectory, HasInstall, HasActivation,
                      SourceFrozen, OpeningBounded, At, universe
  <2>3. InstallStaged(p)' /\ Carries(p)'
    BY <1>1, <2>1 DEF Placed, InstallStaged, Carries, At, StagedArtifacts, StagedDirectory,
                      StagedCell, universe
  <2>4. ActivationArmed(p)' /\ BootedFrom(p)'
    BY <1>1, <2>1 DEF Placed, ActivationArmed, BootedFrom, At, Verified, Selector, universe
  <2> QED BY <2>2, <2>3, <2>4 DEF Placed
<1> QED BY <1>2, <1>3, <1>4, <1>5 DEF UniverseInv

-----------------------------------------------------------------------------
(* The theorems that hold whatever stops and whenever the power fails.     *)

(* A universe at rest, with nothing prepared.                              *)
LEMMA UniverseInit == Init => UniverseInv
<1> SUFFICES ASSUME Init PROVE UniverseInv
  OBVIOUS
<1>1. EmptyFiles \in UniverseDirectory
  BY DEF EmptyFiles, UniverseDirectory, RootDirectory, InstallDirectory, ActivationDirectory,
         Contents
<1>2. Idle \in Place
  BY SourceLocksShape, CellOrderShape DEF Idle, Place, Steps, Tasked
<1>3. local \in [Processes -> Place]
  BY <1>2 DEF Init
<1>4. Types
  BY <1>1, <1>3, UniverseAssumption DEF Init, Types, Versions, Place, Tasked
<1>5. Exclusive
  BY DEF Init, Exclusive
<1>6. ASSUME NEW p \in Processes PROVE Placed(p)
  <2>1. local[p].at = "idle" /\ local[p].task = "prepare"
    BY DEF Init, Idle
  <2>2. LocksHeld(p)
    BY <2>1 DEF LocksHeld, HasDirectory, HasInstall, HasActivation, At, Frozen, Preparing,
                Staging, Activating, Clearing, Arming, Booting, OpeningCell
  <2>3. SourceFrozen(p) /\ OpeningBounded(p) /\ InstallStaged(p)
    BY <2>1 DEF SourceFrozen, OpeningBounded, InstallStaged, At, Frozen, Preparing,
                Staging, Activating, Clearing, Arming, OpeningCell
  <2>4. Carries(p) /\ ActivationArmed(p) /\ BootedFrom(p)
    BY <2>1 DEF Carries, ActivationArmed, BootedFrom, At, Activating, Clearing, Arming, Booting
  <2> QED BY <2>2, <2>3, <2>4 DEF Placed
<1>7. PreparedIsComplete /\ HeadDurable /\ SelectedFrozen
  BY DEF Init, EmptyFiles, PreparedIsComplete, HeadDurable, SelectedFrozen, Activated,
         Selector, Committed
<1> QED BY <1>4, <1>5, <1>6, <1>7 DEF UniverseInv

(* Every step keeps the invariant.                                         *)
LEMMA UniverseStep == UniverseInv /\ [Next]_vars => UniverseInv'
<1> SUFFICES ASSUME UniverseInv, [Next]_vars PROVE UniverseInv'
  OBVIOUS
<1>1. CASE Tick \/ UNCHANGED vars
  BY <1>1, TickInv
<1>2. CASE LosePower
  BY <1>2, LosePowerInv
<1>3. ASSUME NEW p \in Processes,
             \/ Command(p) \/ Prepare(p) \/ Activate(p) \/ Boot(p) \/ Legacy(p)
             \/ LegacyDrain(p) \/ ShutDown(p) \/ Halt(p)
      PROVE  UniverseInv'
  <2>1. CASE Command(p)
    BY <2>1, StartInv
  <2>2. CASE Prepare(p)
    BY <2>2, LockSourceInv, LockInstallInv, ValidateInstallInv, ResetInstallInv,
       StageDirectoryInv, StageCellInv, HeadInv, SyncHeadInv DEF Prepare
  <2>3. CASE Activate(p)
    BY <2>3, LockActivationInv, ResetActivationInv, AuthorizeInv, WriteActivationInv,
       SelectorInv, SyncSelectorInv DEF Activate
  <2>4. CASE Boot(p)
    BY <2>4, BootLocksInv, BootOpenInv, BootCellsInv DEF Boot
  <2>5. CASE Legacy(p)
    BY <2>5, LegacyLooks, LegacyCellOpenInv DEF Legacy
  <2>6. CASE LegacyDrain(p)
    BY <2>6, LegacyDrainInv
  <2>7. CASE ShutDown(p)
    BY <2>7, RefusedInv DEF ShutDown
  <2>8. CASE Halt(p)
    BY <2>8, HaltInv
  <2> QED BY <1>3, <2>1, <2>2, <2>3, <2>4, <2>5, <2>6, <2>7, <2>8
<1> QED BY <1>1, <1>2, <1>3 DEF Next

(* The inductive invariant: places, locks, staged files and the selected   *)
(* envelope agree in every reachable state.                                *)
THEOREM UniverseInvariant == Spec => []UniverseInv
<1> QED BY UniverseInit, UniverseStep, PTL DEF Spec

(* protocol19_activation.rs, ensure_legacy_protocol_not_activated: while a *)
(* selector exists the protocol-18 universe is the one its install was     *)
(* derived from, asleep, with no worker in it.                             *)
THEOREM OneHistoryCorrect == Spec => []OneHistory
<1>1. UniverseInv => OneHistory
  BY DEF UniverseInv, SelectedFrozen, Activated, Verified, OneHistory
<1> QED BY <1>1, UniverseInvariant, PTL


-----------------------------------------------------------------------------
(* Recovery: the invariant of runs in which stops and power failures do    *)
(* not mix.                                                                *)

\* The other processes stay where they are.
Alone(p) == \A q \in Processes \ {p} : local'[q] = local[q]

Unsynced == {"headRename", "headSync", "selectorRename", "selectorSync"}

(* A process that goes somewhere or stops leaves the others in place.      *)
LEMMA AloneMoves ==
    ASSUME UniverseInv, NEW p \in Processes
    PROVE  /\ \A s : Goto(p, s) => Alone(p) /\ local'[p].at = s
           /\ Stop(p) => Alone(p) /\ local'[p].at = "idle"
           /\ \A r \in Place : local' = [local EXCEPT ![p] = r] => Alone(p) /\ local'[p] = r
<1>1. local \in [Processes -> Place] /\ local[p] \in Place
  BY DEF UniverseInv, Types, Place, Tasked
<1>2. ASSUME NEW s, Goto(p, s) PROVE Alone(p) /\ local'[p].at = s
  BY <1>1, <1>2 DEF Goto, Alone, Place
<1>3. ASSUME Stop(p) PROVE Alone(p) /\ local'[p].at = "idle"
  BY <1>1, <1>3 DEF Stop, Alone, Idle
<1>4. ASSUME NEW r \in Place, local' = [local EXCEPT ![p] = r]
      PROVE Alone(p) /\ local'[p] = r
  BY <1>1, <1>4 DEF Alone
<1> QED BY <1>2, <1>3, <1>4

(* Stops and power failures are only ever added.                           *)
LEMMA ApartBefore ==
    ASSUME UniverseInv, FailuresApart', stops' = stops \/ stops' = stops + 1,
           failures' = failures \/ failures' = failures + 1
    PROVE  FailuresApart
<1>1. stops \in Nat /\ failures \in Nat
  BY UniverseAssumption DEF UniverseInv, Types
<1> QED BY <1>1 DEF FailuresApart

(* Steps that change no directory: nobody is taken out of the middle of a  *)
(* write, nobody begins one, and what is reported or begun by a booted     *)
(* process belongs to the selected envelope.                               *)
LEMMA QuietRecovery ==
    ASSUME UniverseInv, RecoveryInv, NEW p \in Processes, Alone(p),
           UNCHANGED <<files, disk, stops, failures>>,
           local[p].at \notin Unsynced, local'[p].at \notin Staging \cup {"selectorSync"},
           \/ UNCHANGED <<acknowledged, work>>
           \/ /\ HasActivation(p) /\ Activated
              /\ \A a \in acknowledged' : a \in acknowledged \/ Selector = {a}
    PROVE  RecoveryInv'
<1>1. DurableUnlessStopped'
  BY DEF RecoveryInv, DurableUnlessStopped, Alone, Unsynced
<1>2. ASSUME FailuresApart' PROVE SelectionKept' /\ OutcomesSelected'
  <2>1. FailuresApart
    BY <1>2 DEF FailuresApart
  <2>2. SelectionKept /\ OutcomesSelected
    BY <2>1 DEF RecoveryInv
  <2>3. Selector' = Selector
    BY DEF Selector
  <2>4. SelectionKept'
    <3>1. ASSUME NEW q \in Processes, Activated PROVE local'[q].at \notin Staging
      BY <2>2, <3>1 DEF SelectionKept, Alone
    <3> QED BY <2>2, <2>3, <3>1 DEF SelectionKept, ActivationFileSet, Activated
  <2>5. OutcomesSelected'
    <3>1. ASSUME NEW q \in Processes, At(q, "selectorSync")'
          PROVE  q # p /\ At(q, "selectorSync")
      BY <3>1 DEF At, Alone
    <3>2. CASE UNCHANGED <<acknowledged, work>>
      BY <2>2, <2>3, <3>1, <3>2 DEF OutcomesSelected, Activated
    <3>3. CASE /\ HasActivation(p) /\ Activated
               /\ \A a \in acknowledged' : a \in acknowledged \/ Selector = {a}
      <4>1. ASSUME NEW q \in Processes PROVE ~At(q, "selectorSync")'
        <5>1. q # p /\ At(q, "selectorSync") => HasActivation(q)
          BY DEF HasActivation, At, Activating
        <5> QED BY <3>1, <3>3, <5>1, HoldersApart
      <4> QED BY <2>2, <2>3, <3>3, <4>1 DEF OutcomesSelected, Activated
    <3> QED BY <3>2, <3>3
  <2> QED BY <2>4, <2>5
<1> QED BY <1>1, <1>2 DEF RecoveryInv

(* A refusal.                                                              *)
LEMMA RefusedRecovery ==
    ASSUME UniverseInv, RecoveryInv, NEW p \in Processes, Refused(p), local[p].at \notin Unsynced
    PROVE  RecoveryInv'
<1>1. Alone(p) /\ local'[p].at = "idle"
  BY AloneMoves DEF Refused
<1>2. UNCHANGED <<files, disk, stops, failures, acknowledged, work>>
  BY DEF Refused, faults
<1>3. "idle" \notin Staging \cup {"selectorSync"}
  BY DEF Staging
<1> QED BY <1>1, <1>2, <1>3, QuietRecovery

(* Commands, looks, locks and the checks of prepare and activate.          *)
LEMMA QuietSteps ==
    ASSUME UniverseInv, RecoveryInv, NEW p \in Processes,
           \/ Command(p) \/ LockSource(p) \/ ValidateInstall(p) \/ Authorize(p)
           \/ BootInstall(p) \/ BootActivation(p) \/ Legacy(p) \/ LegacyDrain(p) \/ ShutDown(p)
    PROVE  RecoveryInv'
<1> USE DEF Unsynced, Staging
<1>1. local \in [Processes -> Place] /\ local[p] \in Place
  BY DEF UniverseInv, Types, Place, Tasked
<1>2. ASSUME NEW s, Goto(p, s), s \notin Staging \cup {"selectorSync"},
             local[p].at \notin Unsynced,
             UNCHANGED <<files, disk, stops, failures, acknowledged, work>>
      PROVE  RecoveryInv'
  <2>1. Alone(p) /\ local'[p].at = s
    BY <1>2, AloneMoves
  <2> QED BY <1>2, <2>1, QuietRecovery
<1>3. ASSUME NEW allowed, NEW lock, NEW s, LockOrRefuse(p, allowed, lock, s),
             s \notin Staging \cup {"selectorSync"}, local[p].at \notin Unsynced
      PROVE  RecoveryInv'
  BY <1>2, <1>3, RefusedRecovery DEF LockOrRefuse, faults
<1>4. ASSUME NEW s, Look(p, s), s \notin Staging \cup {"selectorSync"},
             local[p].at \notin Unsynced
      PROVE  RecoveryInv'
  BY <1>2, <1>4, RefusedRecovery DEF Look, faults
<1>5. CASE Command(p)
  <2>1. PICK step \in {"lockSource", "bootInstall", "legacyDirectory"} :
            \E task, authorization, seen : Start(p, task, step, authorization, seen)
    BY <1>5 DEF Command, StartPrepare, StartActivate, StartBoot, StartLegacy
  <2>2. /\ local[p].at = "idle" /\ Alone(p) /\ local'[p].at = step
        /\ UNCHANGED <<files, disk, stops, failures, acknowledged, work>>
    BY <1>1, <2>1 DEF Start, At, Alone, faults
  <2> QED BY <2>2, QuietRecovery
<1>6. CASE LockSource(p)
  <2>1. CASE Refused(p)
    BY <1>6, <2>1, RefusedRecovery DEF LockSource, At
  <2>2. CASE ~Refused(p)
    <3>1. /\ local[p].at = "lockSource" /\ Alone(p)
          /\ local'[p].at \in {"lockInstall", "lockSource"}
          /\ UNCHANGED <<files, disk, stops, failures, acknowledged, work>>
      BY <1>1, <1>6, <2>2 DEF LockSource, At, Alone, faults, Place
    <3> QED BY <3>1, QuietRecovery
  <2> QED BY <2>1, <2>2
<1>7. CASE ValidateInstall(p)
  <2>1. local[p].at = "validate"
    BY <1>7 DEF ValidateInstall, At
  <2>2. CASE Refused(p)
    BY <2>1, <2>2, RefusedRecovery
  <2>3. CASE Stop(p) /\ UNCHANGED <<files, disk, universe, work, now, acknowledged, faults>>
    BY <2>1, <2>3, RefusedRecovery DEF Refused
  <2>4. CASE /\ Goto(p, "lockActivation")
             /\ UNCHANGED <<files, disk, universe, work, now, acknowledged, faults>>
    BY <1>2, <2>1, <2>4 DEF faults
  <2> QED BY <1>7, <2>2, <2>3, <2>4 DEF ValidateInstall, Prepared
<1>8. CASE Authorize(p)
  <2>1. local[p].at = "authorize"
    BY <1>8 DEF Authorize, At
  <2>2. CASE Refused(p)
    BY <2>1, <2>2, RefusedRecovery
  <2>3. CASE /\ Goto(p, "writeAuthorization")
             /\ UNCHANGED <<files, disk, universe, work, now, held, acknowledged, faults>>
    BY <1>2, <2>1, <2>3 DEF faults
  <2> QED BY <1>8, <2>2, <2>3 DEF Authorize
<1>9. CASE BootInstall(p)
  BY <1>3, <1>9 DEF BootInstall, At
<1>10. CASE BootActivation(p)
  BY <1>3, <1>10 DEF BootActivation, At
<1>11. CASE LegacyLook(p) \/ LegacyDirectoryOpen(p)
  BY <1>4, <1>11 DEF LegacyLook, LegacyDirectoryOpen, At
<1>12. CASE LegacyDirectoryLock(p) \/ LegacyCellLock(p)
  BY <1>3, <1>12 DEF LegacyDirectoryLock, LegacyCellLock, At
<1>13. CASE LegacyCellOpen(p)
  <2>1. CASE Refused(p)
    BY <1>13, <2>1, RefusedRecovery DEF LegacyCellOpen, At
  <2>2. CASE ~Refused(p)
    <3>1. /\ local[p].at = "legacyCellLocked" /\ Alone(p)
          /\ local'[p].at \in {"serving", "legacyCell"}
          /\ UNCHANGED <<files, disk, stops, failures, acknowledged, work>>
      BY <1>1, <1>13, <2>2 DEF LegacyCellOpen, At, Alone, faults, Place
    <3> QED BY <3>1, QuietRecovery
  <2> QED BY <2>1, <2>2
<1>14. CASE LegacyDrain(p)
  <2>1. /\ local[p].at = "serving" /\ Stop(p)
        /\ UNCHANGED <<files, disk, stops, failures, acknowledged, work>>
    BY <1>14 DEF LegacyDrain, At, faults
  <2> QED BY <2>1, AloneMoves, QuietRecovery
<1>15. CASE ShutDown(p)
  BY <1>15, RefusedRecovery DEF ShutDown, At
<1> QED BY <1>5, <1>6, <1>7, <1>8, <1>9, <1>10, <1>11, <1>12, <1>13, <1>14, <1>15 DEF Legacy


(* A boot initializes cells, and answers a repeated `activate', for the    *)
(* envelope it has found selected.                                         *)
LEMMA BootRecovery ==
    ASSUME UniverseInv, RecoveryInv, NEW p \in Processes,
           BootOpen(p) \/ BootCell(p) \/ Booted(p)
    PROVE  RecoveryInv'
<1> USE DEF Unsynced, Staging
<1>1. /\ local \in [Processes -> Place] /\ local[p] \in Place
      /\ files \in UniverseDirectory /\ disk \in UniverseDirectory
  BY DEF UniverseInv, Types, Place, Tasked
<1>2. local[p].at \in {"bootOpen", "bootCells"}
  BY DEF BootOpen, BootCell, Booted, At
<1>3. HasActivation(p) /\ Activated /\ Selector = local[p].seen
  BY <1>2 DEF HasActivation, Booting, UniverseInv, Placed, BootedFrom, Activated
<1>4. CASE BootCell(p)
  <2>1. /\ Alone(p) /\ local'[p].at = local[p].at /\ acknowledged' = acknowledged
        /\ UNCHANGED <<files, disk, stops, failures>>
    BY <1>1, <1>4 DEF BootCell, Alone, faults, Place
  <2> QED BY <1>2, <1>3, <2>1, QuietRecovery
<1>5. CASE Booted(p) /\ Goto(p, "running") /\ UNCHANGED <<held, acknowledged>>
  <2>1. UNCHANGED <<files, disk, stops, failures, acknowledged, work>>
    BY <1>5 DEF Booted, faults
  <2> QED BY <1>2, <1>5, <2>1, AloneMoves, QuietRecovery
<1>6. CASE /\ Booted(p) /\ local[p].task = "activate" /\ Stop(p)
           /\ acknowledged' = IF SameAuthorization(p)
                              THEN acknowledged \cup local[p].authorization
                              ELSE acknowledged
  <2>1. UNCHANGED <<files, disk, stops, failures>>
    BY <1>6 DEF Booted, faults
  <2>2. PICK b \in Authorizations : local[p].authorization = {b}
    BY <1>6 DEF UniverseInv, Placed, Carries
  <2>3. \A a \in acknowledged' : a \in acknowledged \/ Selector = {a}
    BY <1>3, <1>6, <2>2 DEF SameAuthorization
  <2> QED BY <1>2, <1>3, <1>6, <2>1, <2>3, AloneMoves, QuietRecovery
<1>7. CASE BootOpen(p)
  <2>1. CASE Refused(p)
    BY <1>2, <2>1, RefusedRecovery
  <2>2. CASE ~Refused(p)
    <3> DEFINE y == [files.activation EXCEPT !.lifecycle = TRUE]
    <3>1. /\ Written("activation", y) /\ Alone(p) /\ local'[p].at = "bootCells"
          /\ UNCHANGED <<stops, failures, acknowledged, work>>
      BY <1>1, <1>7, <2>2 DEF BootOpen, Alone, faults, Place
    <3>2. /\ y \in ActivationDirectory
          /\ y.authorizations = files.activation.authorizations
          /\ y.histories = files.activation.histories
          /\ y.temp = files.activation.temp
      BY <1>1 DEF UniverseDirectory, ActivationDirectory
    <3> HIDE DEF y
    <3>3. RootKept /\ InstallKept /\ files'.activation = y /\ disk'.activation = y
      BY <1>1, <3>1, <3>2, WrittenFields
    <3>4. DurableUnlessStopped'
      BY <1>2, <3>1, <3>3 DEF RecoveryInv, DurableUnlessStopped, Alone, RootKept, InstallKept
    <3>5. ASSUME FailuresApart' PROVE SelectionKept' /\ OutcomesSelected'
      <4>1. FailuresApart
        BY <3>1, <3>5 DEF FailuresApart
      <4>2. SelectionKept /\ OutcomesSelected
        BY <4>1 DEF RecoveryInv
      <4>3. Selector' = Selector
        BY <3>3 DEF Selector, RootKept
      <4>4. \A a : ActivationFileSet(a)' = ActivationFileSet(a)
        BY <3>2, <3>3 DEF ActivationFileSet
      <4>5. SelectionKept'
        BY <3>1, <3>3, <4>2, <4>3, <4>4 DEF SelectionKept, Activated, Alone, InstallKept
      <4>6. OutcomesSelected'
        BY <3>1, <4>2, <4>3 DEF OutcomesSelected, Activated, Alone, At
      <4> QED BY <4>5, <4>6
    <3> QED BY <3>4, <3>5 DEF RecoveryInv
  <2> QED BY <2>1, <2>2
<1> QED BY <1>4, <1>5, <1>6, <1>7 DEF Booted

(* Without a selector nothing is reported, begun, or to be kept.           *)
LEMMA NothingSelected ==
    ASSUME FailuresApart => SelectionKept /\ OutcomesSelected, FailuresApart, Selector = {}
    PROVE  acknowledged = {} /\ work = {}
BY DEF OutcomesSelected, Activated

(* Steps before there is a selector, which report and begin nothing.       *)
LEMMA EarlyRecovery ==
    ASSUME RecoveryInv, FailuresApart, Selector = {}, Selector' = {},
           acknowledged' = acknowledged, work' \subseteq work
    PROVE  SelectionKept' /\ OutcomesSelected'
<1>1. acknowledged = {} /\ work = {}
  BY NothingSelected DEF RecoveryInv
<1> QED BY <1>1 DEF SelectionKept, OutcomesSelected, Activated

(* The install transaction: it is over before there is a selector.         *)
LEMMA StagingRecovery ==
    ASSUME UniverseInv, RecoveryInv, NEW p \in Processes,
           \/ ResetInstall(p) \/ WriteArtifacts(p) \/ StageDirectory(p) \/ StageCell(p)
           \/ WriteHeadTemp(p) \/ RenameHead(p) \/ SyncHead(p)
    PROVE  RecoveryInv'
<1>1. /\ local \in [Processes -> Place] /\ local[p] \in Place
      /\ files \in UniverseDirectory /\ disk \in UniverseDirectory
      /\ version \in Versions /\ version \in Contents
  BY DEF UniverseInv, Types, Place, Tasked, Contents
<1>2. files.install \in InstallDirectory /\ files.cells \in [Cells -> Contents]
  BY <1>1 DEF UniverseDirectory
<1>3. local[p].at \in Staging
  BY DEF ResetInstall, WriteArtifacts, StageDirectory, StageCell, WriteHeadTemp, RenameHead,
         SyncHead, At, Staging
<1>4. /\ UNCHANGED <<stops, failures, acknowledged>> /\ Alone(p)
      /\ work' = work \/ work' = {}
  <2>1. CASE ResetInstall(p) \/ WriteArtifacts(p) \/ WriteHeadTemp(p) \/ RenameHead(p)
    BY <2>1, AloneMoves DEF ResetInstall, WriteArtifacts, WriteHeadTemp, RenameHead, faults
  <2>2. CASE StageDirectory(p) \/ StageCell(p)
    BY <1>1, <2>2 DEF StageDirectory, StageCell, Alone, faults
  <2>3. CASE SyncHead(p)
    BY <2>3, AloneMoves DEF SyncHead, Prepared, faults
  <2> QED BY <2>1, <2>2, <2>3
<1>5. /\ RootKept
      /\ files'.activation = files.activation /\ disk'.activation = disk.activation
      /\ \/ disk'.install = files'.install
         \/ local'[p].at \in {"headRename", "headSync"}
         \/ InstallKept /\ local[p].at \notin Unsynced
  <2>1. CASE ResetInstall(p)
    BY <1>1, <2>1 DEF ResetInstall, UniverseDirectory, RootKept
  <2>2. CASE WriteArtifacts(p)
    <3> DEFINE x == [files.install EXCEPT !.artifacts = version]
    <3>1. x \in InstallDirectory
      BY <1>1, <1>2 DEF InstallDirectory
    <3>2. Written("install", x)
      BY <2>2 DEF WriteArtifacts
    <3> HIDE DEF x
    <3> QED BY <1>1, <3>1, <3>2, WrittenFields DEF ActivationKept
  <2>3. CASE StageDirectory(p)
    <3>1. Written("directory", version) /\ local[p].at = "stageDirectory"
      BY <2>3 DEF StageDirectory, At
    <3>2. RootKept /\ InstallKept /\ ActivationKept
      BY <1>1, <3>1, WrittenFields
    <3> QED BY <3>1, <3>2 DEF ActivationKept, Unsynced
  <2>4. CASE StageCell(p)
    <3> DEFINE x == [files.cells EXCEPT ![CellOrder[local[p].next]] = version]
    <3>1. x \in [Cells -> Contents]
      BY <1>1, <1>2
    <3>2. Written("cells", x) /\ local[p].at = "stageCells"
      BY <2>4 DEF StageCell, At
    <3> HIDE DEF x
    <3>3. RootKept /\ InstallKept /\ ActivationKept
      BY <1>1, <3>1, <3>2, WrittenFields
    <3> QED BY <3>2, <3>3 DEF ActivationKept, Unsynced
  <2>5. CASE WriteHeadTemp(p)
    <3>1. local'[p].at = "headRename"
      BY <2>5, AloneMoves DEF WriteHeadTemp
    <3> QED BY <1>1, <2>5, <3>1 DEF WriteHeadTemp, UniverseDirectory, RootKept
  <2>6. CASE RenameHead(p)
    <3>1. local'[p].at = "headSync"
      BY <2>6, AloneMoves DEF RenameHead
    <3> QED BY <1>1, <2>6, <3>1 DEF RenameHead, UniverseDirectory, RootKept
  <2>7. CASE SyncHead(p)
    <3>1. Synced("install")
      BY <2>7 DEF SyncHead
    <3> QED BY <1>1, <3>1, SyncedFields DEF ActivationKept
  <2> QED BY <2>1, <2>2, <2>3, <2>4, <2>5, <2>6, <2>7
<1>6. DurableUnlessStopped'
  <2>1. ASSUME stops' = 0 PROVE disk'.activation = files'.activation
    BY <1>4, <1>5, <2>1 DEF RecoveryInv, DurableUnlessStopped
  <2>2. ASSUME stops' = 0
        PROVE  \/ disk'.install = files'.install
               \/ \E q \in Processes : local'[q].at \in {"headRename", "headSync"}
    BY <1>4, <1>5, <2>2 DEF RecoveryInv, DurableUnlessStopped, Alone, InstallKept, Unsynced
  <2>3. ASSUME stops' = 0
        PROVE  \/ disk'.root = files'.root
               \/ \E q \in Processes : local'[q].at \in {"selectorRename", "selectorSync"}
    BY <1>3, <1>4, <1>5, <2>3 DEF RecoveryInv, DurableUnlessStopped, Alone, RootKept, Staging
  <2> QED BY <2>1, <2>2, <2>3 DEF DurableUnlessStopped
<1>7. ASSUME FailuresApart' PROVE SelectionKept' /\ OutcomesSelected'
  <2>1. FailuresApart
    BY <1>4, <1>7 DEF FailuresApart
  <2>2. Selector = {}
    BY <1>3, <2>1 DEF RecoveryInv, SelectionKept, Activated
  <2>3. Selector' = {}
    BY <1>5, <2>2 DEF RootKept, Selector
  <2> QED BY <1>4, <2>1, <2>2, <2>3, EarlyRecovery
<1> QED BY <1>6, <1>7 DEF RecoveryInv

(* The locks of install and activation: no transaction is begun beside a   *)
(* selector.                                                               *)
LEMMA LockRecovery ==
    ASSUME UniverseInv, RecoveryInv, NEW p \in Processes, LockInstall(p) \/ LockActivation(p)
    PROVE  RecoveryInv'
<1>1. /\ files \in UniverseDirectory /\ disk \in UniverseDirectory
      /\ Synced("root") /\ UNCHANGED <<stops, failures, acknowledged, work>>
      /\ local[p].at \in {"lockInstall", "lockActivation"}
  BY DEF UniverseInv, Types, LockInstall, LockActivation, At, faults
<1>2. /\ InstallKept /\ ActivationKept /\ files' = files /\ disk'.root = files.root
  BY <1>1, SyncedFields
<1>3. Alone(p) /\ local'[p].at \in {"idle", "validate", "reset", "resetActivation"}
      /\ (local'[p].at = "reset" => ~Committed)
  BY AloneMoves DEF LockInstall, LockActivation
<1>4. DurableUnlessStopped'
  <2>1. ASSUME stops' = 0 PROVE disk'.activation = files'.activation
    BY <1>1, <1>2, <2>1 DEF RecoveryInv, DurableUnlessStopped, ActivationKept
  <2>2. ASSUME stops' = 0
        PROVE  \/ disk'.install = files'.install
               \/ \E q \in Processes : local'[q].at \in {"headRename", "headSync"}
    BY <1>1, <1>2, <1>3, <2>2 DEF RecoveryInv, DurableUnlessStopped, Alone, InstallKept
  <2> QED BY <1>2, <2>1, <2>2 DEF DurableUnlessStopped
<1>5. ASSUME FailuresApart' PROVE SelectionKept' /\ OutcomesSelected'
  <2>1. FailuresApart
    BY <1>1, <1>5 DEF FailuresApart
  <2>2. SelectionKept /\ OutcomesSelected
    BY <2>1 DEF RecoveryInv
  <2>3. Activated => Committed
    <3>1. ASSUME NEW a \in Selector PROVE Committed
      <4>1. Verified(a) /\ files.install.head = a.version
        BY <2>2 DEF UniverseInv, SelectedFrozen, Activated, SelectionKept
      <4>2. version # Absent
        BY UniverseAssumption DEF UniverseInv, Types, Versions, Absent
      <4> QED BY <4>1, <4>2 DEF Verified, Committed
    <3> QED BY <3>1 DEF Activated
  <2>4. Selector' = Selector
    BY <1>2 DEF Selector
  <2>5. ASSUME NEW q \in Processes, Activated PROVE local'[q].at \notin Staging
    BY <1>3, <2>2, <2>3, <2>5 DEF SelectionKept, Alone, Staging
  <2>6. SelectionKept'
    BY <1>2, <2>2, <2>4, <2>5 DEF SelectionKept, ActivationFileSet, Activated
  <2>7. OutcomesSelected'
    BY <1>1, <1>3, <2>2, <2>4 DEF OutcomesSelected, Activated, Alone, At
  <2> QED BY <2>6, <2>7
<1> QED BY <1>4, <1>5 DEF RecoveryInv


(* The activation transaction up to the selector's temporary file.         *)
LEMMA ArmingRecovery ==
    ASSUME UniverseInv, RecoveryInv, NEW p \in Processes,
           \/ ResetActivation(p) \/ WriteAuthorization(p) \/ WriteHistory(p)
           \/ WriteSelectorTemp(p)
    PROVE  RecoveryInv'
<1>1. local[p].at \in {"resetActivation", "writeAuthorization", "writeHistory", "selectorTemp"}
  BY DEF ResetActivation, WriteAuthorization, WriteHistory, WriteSelectorTemp, At
<1>2. local[p].at \in Clearing /\ local[p].at \notin Unsynced
  BY <1>1 DEF Clearing, Arming, Unsynced
<1>3. /\ Selector = {} /\ disk.root.selector = {}
      /\ files \in UniverseDirectory /\ disk \in UniverseDirectory
      /\ files.root \in RootDirectory /\ files.activation \in ActivationDirectory
      /\ local[p].authorization \subseteq Authorizations
  BY <1>2, ClearingFacts
<1>4. CASE Refused(p)
  BY <1>2, <1>4, RefusedRecovery
<1>5. CASE ~Refused(p)
  <2>1. Alone(p) /\ UNCHANGED <<stops, failures, acknowledged, work>>
    BY <1>5, AloneMoves
    DEF ResetActivation, WriteAuthorization, WriteHistory, WriteSelectorTemp, faults
  <2>2. /\ InstallKept /\ Selector' = {}
        /\ \/ disk'.activation = files'.activation
           \/ ActivationKept
        /\ \/ disk'.root = files'.root
           \/ local'[p].at = "selectorRename"
           \/ RootKept
    <3>1. CASE ResetActivation(p)
      <4> DEFINE x == [files.root EXCEPT !.temp = FALSE]
                 y == ClearedActivation
      <4>1. /\ files' = [files EXCEPT !.root = x, !.activation = y]
            /\ disk' = [disk EXCEPT !.root = x, !.activation = y]
        BY <1>5, <3>1 DEF ResetActivation
      <4>2. x.selector = {}
        BY <1>3 DEF RootDirectory, Selector
      <4> HIDE DEF x, y
      <4> QED BY <1>3, <4>1, <4>2 DEF UniverseDirectory, InstallKept, Selector
    <3>2. ASSUME NEW y \in ActivationDirectory, Written("activation", y)
          PROVE  /\ InstallKept /\ Selector' = {} /\ RootKept
                 /\ disk'.activation = files'.activation
      <4>1. /\ RootKept /\ InstallKept /\ files'.activation = y /\ disk'.activation = y
        BY <1>3, <3>2, WrittenFields
      <4> QED BY <1>3, <4>1 DEF RootKept, Selector
    <3>3. CASE WriteAuthorization(p)
      <4> DEFINE y == [files.activation EXCEPT !.authorizations = @ \cup local[p].authorization]
      <4>1. y \in ActivationDirectory
        BY <1>3 DEF ActivationDirectory
      <4>2. Written("activation", y)
        BY <3>3 DEF WriteAuthorization
      <4> HIDE DEF y
      <4> QED BY <3>2, <4>1, <4>2
    <3>4. CASE WriteHistory(p)
      <4> DEFINE y == [files.activation EXCEPT !.histories = @ \cup local[p].authorization]
      <4>1. y \in ActivationDirectory
        BY <1>3 DEF ActivationDirectory
      <4>2. Written("activation", y)
        BY <3>4 DEF WriteHistory
      <4> HIDE DEF y
      <4> QED BY <3>2, <4>1, <4>2
    <3>5. CASE WriteSelectorTemp(p)
      <4> DEFINE x == [files.root EXCEPT !.temp = TRUE]
      <4>1. files' = [files EXCEPT !.root = x] /\ disk' = disk
        BY <3>5 DEF WriteSelectorTemp
      <4>2. x.selector = {}
        BY <1>3 DEF RootDirectory, Selector
      <4>3. local'[p].at = "selectorRename"
        BY <3>5, AloneMoves DEF WriteSelectorTemp
      <4> HIDE DEF x
      <4> QED BY <1>3, <4>1, <4>2, <4>3
          DEF UniverseDirectory, InstallKept, ActivationKept, Selector
    <3> QED BY <3>1, <3>3, <3>4, <3>5
  <2>3. DurableUnlessStopped'
    <3>1. ASSUME stops' = 0 PROVE disk'.activation = files'.activation
      BY <2>1, <2>2, <3>1 DEF RecoveryInv, DurableUnlessStopped, ActivationKept
    <3>2. ASSUME stops' = 0
          PROVE  \/ disk'.install = files'.install
                 \/ \E q \in Processes : local'[q].at \in {"headRename", "headSync"}
      BY <1>1, <2>1, <2>2, <3>2 DEF RecoveryInv, DurableUnlessStopped, Alone, InstallKept
    <3>3. ASSUME stops' = 0
          PROVE  \/ disk'.root = files'.root
                 \/ \E q \in Processes : local'[q].at \in {"selectorRename", "selectorSync"}
      BY <1>1, <2>1, <2>2, <3>3 DEF RecoveryInv, DurableUnlessStopped, Alone, RootKept
    <3> QED BY <3>1, <3>2, <3>3 DEF DurableUnlessStopped
  <2>4. ASSUME FailuresApart' PROVE SelectionKept' /\ OutcomesSelected'
    <3>1. FailuresApart
      BY <2>1, <2>4 DEF FailuresApart
    <3> QED BY <1>3, <2>1, <2>2, <3>1, EarlyRecovery
  <2> QED BY <2>3, <2>4 DEF RecoveryInv
<1> QED BY <1>4, <1>5

(* The rename selects the envelope whose install and files are there.      *)
LEMMA RenameRecovery ==
    ASSUME UniverseInv, RecoveryInv, NEW p \in Processes, RenameSelector(p)
    PROVE  RecoveryInv'
<1>1. local[p].at = "selectorRename"
  BY DEF RenameSelector, At
<1>2. local[p].at \in Clearing
  BY <1>1 DEF Clearing, Arming
<1>3. /\ Selector = {} /\ ActivationArmed(p)
      /\ files \in UniverseDirectory /\ disk \in UniverseDirectory
      /\ \E a \in Authorizations : local[p].authorization = {a}
  BY <1>2, ClearingFacts
<1>4. /\ Alone(p) /\ local'[p].at = "selectorSync" /\ disk' = disk
      /\ UNCHANGED <<stops, failures, acknowledged, work>>
  BY AloneMoves DEF RenameSelector, faults
<1>5. /\ files'.install = files.install /\ files'.activation = files.activation
      /\ Selector' = local[p].authorization
  BY <1>3 DEF RenameSelector, UniverseDirectory, Selector
<1>6. DurableUnlessStopped'
  <2>1. ASSUME stops' = 0 PROVE disk'.activation = files'.activation
    BY <1>4, <1>5, <2>1 DEF RecoveryInv, DurableUnlessStopped
  <2>2. ASSUME stops' = 0
        PROVE  \/ disk'.install = files'.install
               \/ \E q \in Processes : local'[q].at \in {"headRename", "headSync"}
    BY <1>1, <1>4, <1>5, <2>2 DEF RecoveryInv, DurableUnlessStopped, Alone
  <2> QED BY <1>4, <2>1, <2>2 DEF DurableUnlessStopped
<1>7. ASSUME FailuresApart' PROVE SelectionKept' /\ OutcomesSelected'
  <2>1. FailuresApart
    BY <1>4, <1>7 DEF FailuresApart
  <2>2. acknowledged = {} /\ work = {}
    BY <1>3, <2>1, NothingSelected DEF RecoveryInv
  <2>3. ASSUME NEW q \in Processes PROVE local'[q].at \notin Staging
    <3>1. CASE q = p
      BY <1>4, <3>1 DEF Staging
    <3>2. CASE q # p
      <4>1. HasInstall(p) /\ (local[q].at \in Staging => HasInstall(q))
        BY <1>2 DEF HasInstall, Preparing, Activating
      <4> QED BY <1>4, <3>2, <4>1, HoldersApart DEF Alone
    <3> QED BY <3>1, <3>2
  <2>4. ASSUME NEW a \in local[p].authorization
        PROVE  files'.install.head = a.version /\ ActivationFileSet(a)'
    <3>1. local[p].authorization = {a}
      BY <1>3
    <3>2. files.install.head = version
      BY <1>2 DEF UniverseInv, Placed, InstallStaged, Activating
    <3>3. a.version = version
      BY <1>1, <1>3 DEF ActivationArmed, Arming, Verified
    <3>4. /\ files.activation.authorizations = {a} /\ files.activation.histories = {a}
          /\ ~files.activation.temp
      BY <1>1, <1>3, <3>1 DEF ActivationArmed
    <3> QED BY <1>5, <3>2, <3>3, <3>4 DEF ActivationFileSet
  <2>5. SelectionKept'
    BY <1>5, <2>3, <2>4 DEF SelectionKept
  <2>6. OutcomesSelected'
    BY <1>4, <2>2 DEF OutcomesSelected
  <2> QED BY <2>5, <2>6
<1> QED BY <1>6, <1>7 DEF RecoveryInv

(* The command answers for the envelope it has selected.                   *)
LEMMA SyncSelectorRecovery ==
    ASSUME UniverseInv, RecoveryInv, NEW p \in Processes, SyncSelector(p)
    PROVE  RecoveryInv'
<1>1. /\ local[p].at = "selectorSync" /\ Synced("root") /\ UNCHANGED <<stops, failures, work>>
      /\ acknowledged' \subseteq acknowledged \cup local[p].authorization
      /\ files \in UniverseDirectory /\ disk \in UniverseDirectory
  BY DEF SyncSelector, At, faults, UniverseInv, Types
<1>2. Alone(p) /\ local'[p].at = "idle"
  BY AloneMoves DEF SyncSelector
<1>3. InstallKept /\ ActivationKept /\ files' = files /\ disk'.root = files.root
  BY <1>1, SyncedFields
<1>4. PICK b \in Authorizations : local[p].authorization = {b} /\ Selector = {b}
  BY <1>1 DEF UniverseInv, Placed, Carries, ActivationArmed, At, Activating
<1>5. DurableUnlessStopped'
  <2>1. ASSUME stops' = 0 PROVE disk'.activation = files'.activation
    BY <1>1, <1>3, <2>1 DEF RecoveryInv, DurableUnlessStopped, ActivationKept
  <2>2. ASSUME stops' = 0
        PROVE  \/ disk'.install = files'.install
               \/ \E q \in Processes : local'[q].at \in {"headRename", "headSync"}
    BY <1>1, <1>2, <1>3, <2>2 DEF RecoveryInv, DurableUnlessStopped, Alone, InstallKept
  <2> QED BY <1>3, <2>1, <2>2 DEF DurableUnlessStopped
<1>6. ASSUME FailuresApart' PROVE SelectionKept' /\ OutcomesSelected'
  <2>1. FailuresApart
    BY <1>1, <1>6 DEF FailuresApart
  <2>2. SelectionKept /\ OutcomesSelected
    BY <2>1 DEF RecoveryInv
  <2>3. Selector' = Selector
    BY <1>3 DEF Selector
  <2>4. ASSUME NEW q \in Processes
        PROVE  /\ local'[q].at # "selectorSync"
               /\ local'[q].at \in Staging => local[q].at \in Staging
    <3>1. CASE q = p
      BY <1>2, <3>1 DEF Staging
    <3>2. CASE q # p
      <4>1. HasActivation(p) /\ (local[q].at = "selectorSync" => HasActivation(q))
        BY <1>1 DEF HasActivation, Activating
      <4> QED BY <1>2, <3>2, <4>1, HoldersApart DEF Alone
    <3> QED BY <3>1, <3>2
  <2>5. SelectionKept'
    BY <1>3, <2>2, <2>3, <2>4 DEF SelectionKept, ActivationFileSet, Activated
  <2>6. OutcomesSelected'
    BY <1>1, <1>4, <2>2, <2>3, <2>4 DEF OutcomesSelected, Activated, At
  <2> QED BY <2>5, <2>6
<1> QED BY <1>5, <1>6 DEF RecoveryInv

(* What a stopped process leaves behind does not touch a selection.        *)
LEMMA HaltRecovery ==
    ASSUME UniverseInv, RecoveryInv, NEW p \in Processes, Halt(p)
    PROVE  RecoveryInv'
<1>1. /\ files' \in {files} \cup Leftovers(p) /\ disk' = disk /\ stops' = stops + 1
      /\ UNCHANGED <<work, acknowledged, failures>>
      /\ Alone(p) /\ local'[p].at = "idle"
  BY AloneMoves DEF Halt
<1>2. stops \in Nat
  BY UniverseAssumption DEF UniverseInv, Types
<1>3. DurableUnlessStopped'
  BY <1>1, <1>2 DEF DurableUnlessStopped
<1>4. ASSUME FailuresApart' PROVE SelectionKept' /\ OutcomesSelected'
  <2>1. FailuresApart
    BY <1>1, <1>2, <1>4 DEF FailuresApart
  <2>2. SelectionKept /\ OutcomesSelected
    BY <2>1 DEF RecoveryInv
  <2>3. Selector' = Selector
    BY <1>1, LeftoverFacts
  <2>4. ASSUME NEW a \in Selector
        PROVE  files'.install.head = a.version /\ ActivationFileSet(a)'
    <3>1. local[p].at \notin Staging
      BY <2>2 DEF SelectionKept, Activated
    <3>2. local[p].at \notin Clearing
      BY DEF UniverseInv, Placed, ActivationArmed
    <3>3. files'.install = files.install /\ files'.activation = files.activation
      BY <1>1, <3>1, <3>2, LeftoverFacts
    <3> QED BY <2>2, <3>3 DEF SelectionKept, ActivationFileSet
  <2>5. SelectionKept'
    BY <1>1, <2>2, <2>3, <2>4 DEF SelectionKept, Activated, Alone, Staging
  <2>6. OutcomesSelected'
    BY <1>1, <2>2, <2>3 DEF OutcomesSelected, Activated, Alone, At
  <2> QED BY <2>5, <2>6
<1> QED BY <1>3, <1>4 DEF RecoveryInv

(* A power failure that follows no stop loses a selection only whole, and  *)
(* then nothing had been reported or begun.                                *)
LEMMA LosePowerRecovery ==
    ASSUME UniverseInv, RecoveryInv, LosePower
    PROVE  RecoveryInv'
<1>1. /\ failures' = failures + 1 /\ local' = [p \in Processes |-> Idle]
      /\ UNCHANGED <<work, acknowledged, stops>>
  BY DEF LosePower
<1>2. failures \in Nat
  BY UniverseAssumption DEF UniverseInv, Types
<1>3. DurableUnlessStopped'
  BY LostFields DEF DurableUnlessStopped
<1>4. ASSUME NEW q \in Processes
      PROVE  local'[q].at \notin Staging /\ local'[q].at # "selectorSync"
  BY <1>1 DEF Idle, Staging
<1>5. ASSUME FailuresApart' PROVE SelectionKept' /\ OutcomesSelected'
  <2>1. stops = 0 /\ FailuresApart
    BY <1>1, <1>2, <1>5 DEF FailuresApart
  <2>2. DurableUnlessStopped /\ SelectionKept /\ OutcomesSelected
    BY <2>1 DEF RecoveryInv
  <2>3. Selector' \subseteq Selector
    BY LostFields DEF UniverseInv, HeadDurable, Selector
  <2>4. ASSUME NEW a \in Selector'
        PROVE  files'.install.head = a.version /\ ActivationFileSet(a)'
    <3>1. \A q \in Processes : local[q].at \notin {"headRename", "headSync"}
      BY <2>2, <2>3, <2>4 DEF SelectionKept, Activated, Staging
    <3>2. files'.install = files.install /\ files'.activation = files.activation
      BY <2>1, <2>2, <3>1, LostFields DEF DurableUnlessStopped
    <3> QED BY <2>2, <2>3, <2>4, <3>2 DEF SelectionKept, ActivationFileSet
  <2>5. SelectionKept'
    BY <1>4, <2>4 DEF SelectionKept
  <2>6. Selector' = Selector \/ (acknowledged = {} /\ work = {})
    <3>1. CASE disk.root = files.root
      BY <3>1, LostFields DEF Selector
    <3>2. ASSUME NEW q \in Processes, local[q].at = "selectorSync"
          PROVE  acknowledged = {} /\ work = {}
      BY <2>2, <3>2 DEF OutcomesSelected, At
    <3>3. ASSUME NEW q \in Processes, local[q].at = "selectorRename"
          PROVE  acknowledged = {} /\ work = {}
      <4>1. Selector = {}
        BY <3>3 DEF UniverseInv, Placed, ActivationArmed, Clearing, Arming
      <4> QED BY <2>1, <4>1, NothingSelected DEF RecoveryInv
    <3> QED BY <2>1, <2>2, <3>1, <3>2, <3>3 DEF DurableUnlessStopped
  <2>7. OutcomesSelected'
    BY <1>1, <1>4, <2>2, <2>6 DEF OutcomesSelected, Activated, At
  <2> QED BY <2>5, <2>7
<1> QED BY <1>3, <1>5 DEF RecoveryInv


(* Time, and steps that change nothing.                                    *)
LEMMA TickRecovery ==
    ASSUME RecoveryInv, Tick \/ UNCHANGED vars
    PROVE  RecoveryInv'
<1>1. UNCHANGED <<files, disk, local, work, acknowledged, stops, failures>>
  BY DEF Tick, vars, faults
<1> QED BY <1>1 DEF RecoveryInv, DurableUnlessStopped, FailuresApart, SelectionKept,
                    OutcomesSelected, ActivationFileSet, Activated, Selector, At

(* Nothing is on disk or in memory at first.                               *)
LEMMA RecoveryInit == Init => RecoveryInv
BY DEF Init, EmptyFiles, Idle, RecoveryInv, DurableUnlessStopped, SelectionKept,
       OutcomesSelected, ActivationFileSet, Activated, Selector, At, Staging

(* Every step keeps the second invariant beside the first.                 *)
LEMMA RecoveryStep == UniverseInv /\ RecoveryInv /\ [Next]_vars => RecoveryInv'
<1> SUFFICES ASSUME UniverseInv, RecoveryInv, [Next]_vars PROVE RecoveryInv'
  OBVIOUS
<1>1. CASE Tick \/ UNCHANGED vars
  BY <1>1, TickRecovery
<1>2. CASE LosePower
  BY <1>2, LosePowerRecovery
<1>3. ASSUME NEW p \in Processes,
             \/ Command(p) \/ Prepare(p) \/ Activate(p) \/ Boot(p) \/ Legacy(p)
             \/ LegacyDrain(p) \/ ShutDown(p) \/ Halt(p)
      PROVE  RecoveryInv'
  <2>1. CASE Command(p) \/ Legacy(p) \/ LegacyDrain(p) \/ ShutDown(p)
    BY <2>1, QuietSteps
  <2>2. CASE Prepare(p)
    BY <2>2, QuietSteps, LockRecovery, StagingRecovery DEF Prepare
  <2>3. CASE Activate(p)
    BY <2>3, QuietSteps, LockRecovery, ArmingRecovery, RenameRecovery, SyncSelectorRecovery
    DEF Activate
  <2>4. CASE Boot(p)
    BY <2>4, QuietSteps, BootRecovery DEF Boot
  <2>5. CASE Halt(p)
    BY <2>5, HaltRecovery
  <2> QED BY <1>3, <2>1, <2>2, <2>3, <2>4, <2>5
<1> QED BY <1>1, <1>2, <1>3 DEF Next

(* Both invariants hold together.                                          *)
THEOREM RecoveryInvariant == Spec => [](UniverseInv /\ RecoveryInv)
<1> QED BY UniverseInit, UniverseStep, RecoveryInit, RecoveryStep, PTL DEF Spec

(* verse-world-activation.rs: an envelope `activate' has reported as       *)
(* committed is the selected one and stays it; with the types, the locks   *)
(* and the completeness of a prepared install.                             *)
THEOREM ReportsAreTrueCorrect == Spec => []ReportsAreTrue
<1>1. UniverseInv /\ RecoveryInv => AcknowledgedIsActive
  BY DEF RecoveryInv, OutcomesSelected, AcknowledgedIsActive
<1>2. UniverseInv => TypeOK /\ PreparedIsComplete
  BY DEF UniverseInv, Types, Exclusive, TypeOK
<1>3. UniverseInv /\ RecoveryInv => ReportsAreTrue
  BY <1>1, <1>2 DEF ReportsAreTrue
<1> QED BY <1>3, RecoveryInvariant, PTL

(* protocol19_activation.rs, validate_from_active_head: every check of the *)
(* verified boot succeeds from the rename of the selector on.              *)
THEOREM ActiveHeadRecoverableCorrect == Spec => []ActiveHeadRecoverable
<1>1. UniverseInv /\ RecoveryInv => ActiveHeadRecoverable
  <2> SUFFICES ASSUME UniverseInv, RecoveryInv, FailuresApart, NEW a \in Selector
               PROVE  /\ SelectedInstallValid(a)
                      /\ SelectedActivationValid(a)
                      /\ SelectedWorldOpens(a)
    BY DEF ActiveHeadRecoverable
  <2>1. Verified(a) /\ files.install.head = a.version /\ ActivationFileSet(a)
    BY DEF UniverseInv, SelectedFrozen, Activated, RecoveryInv, SelectionKept
  <2>2. version # Absent
    BY UniverseAssumption DEF UniverseInv, Types, Versions, Absent
  <2>3. /\ InstallFileSet /\ files.install.artifacts = a.version
        /\ files.directory = a.version /\ \A c \in Cells : files.cells[c] = a.version
    BY <2>1, <2>2 DEF UniverseInv, PreparedIsComplete, Committed, Verified
  <2>4. SelectedInstallValid(a)
    BY <2>1, <2>2, <2>3 DEF SelectedInstallValid, Verified
  <2>5. VerifyAuthorization(a, files.install.head, a.at)
    BY <2>1 DEF Verified, VerifyAuthorization
  <2>6. cutoff[files.install.artifacts] <= a.at
    BY <2>1, <2>3 DEF Verified
  <2> QED BY <2>1, <2>3, <2>4, <2>5, <2>6 DEF SelectedActivationValid, SelectedWorldOpens
<1> QED BY <1>1, RecoveryInvariant, PTL

(* What protocol 19 has begun in a cell is never discarded: only the reset *)
(* of an install discards it, and none begins beside a selector.           *)
THEOREM WorkSurvivesCorrect == Spec => WorkSurvives
<1>1. UniverseInv /\ RecoveryInv /\ [Next]_vars => [FailuresApart => work \subseteq work']_vars
  <2> SUFFICES ASSUME UniverseInv, RecoveryInv, Next, FailuresApart
               PROVE  work \subseteq work'
    BY DEF vars
  <2>1. CASE Tick \/ LosePower
    BY <2>1 DEF Tick, LosePower
  <2>2. ASSUME NEW p \in Processes, ResetInstall(p) PROVE work \subseteq work'
    <3>1. local[p].at \in Staging
      BY <2>2 DEF ResetInstall, At, Staging
    <3>2. Selector = {}
      BY <3>1 DEF RecoveryInv, SelectionKept, Activated
    <3> QED BY <3>2, NothingSelected DEF RecoveryInv
  <2>3. ASSUME NEW p \in Processes, Command(p) \/ Legacy(p) \/ LegacyDrain(p)
                                    \/ ShutDown(p) \/ Halt(p)
        PROVE  work' = work
    BY <2>3 DEF Command, StartPrepare, StartActivate, StartBoot, StartLegacy, Start, Legacy,
                LegacyLook, Look, LegacyDirectoryLock, LegacyDirectoryOpen, LegacyCellLock,
                LegacyCellOpen, LockOrRefuse, LegacyDrain, ShutDown, Halt, Refused
  <2>4. ASSUME NEW p \in Processes, Prepare(p), ~ResetInstall(p) PROVE work' = work
    BY <2>4 DEF Prepare, LockSource, LockInstall, ValidateInstall, WriteArtifacts,
                StageDirectory, StageCell, WriteHeadTemp, RenameHead, SyncHead, Refused
  <2>5. ASSUME NEW p \in Processes, Activate(p) PROVE work' = work
    BY <2>5 DEF Activate, LockActivation, ResetActivation, Authorize, WriteAuthorization,
                WriteHistory, WriteSelectorTemp, RenameSelector, SyncSelector, Refused
  <2>6. ASSUME NEW p \in Processes, Boot(p) PROVE work \subseteq work'
    BY <2>6 DEF Boot, BootInstall, BootActivation, LockOrRefuse, BootOpen, BootCell, Booted,
                Refused
  <2> QED BY <2>1, <2>2, <2>3, <2>4, <2>5, <2>6 DEF Next
<1> QED BY <1>1, RecoveryInvariant, PTL DEF Spec, WorkSurvives
=============================================================================
