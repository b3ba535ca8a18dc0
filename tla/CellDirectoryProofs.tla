------------------------ MODULE CellDirectoryProofs ------------------------
(***************************************************************************)
(* Proofs about CellDirectory for every set of cells, aggregates and       *)
(* transfers and every limit on revisions, generations and fences.         *)
(***************************************************************************)
EXTENDS CellDirectory, TLAPS

-----------------------------------------------------------------------------
(* Types of the records and of the documents the operations write.         *)

(* The empty records have their types.                                     *)
LEMMA AbsentTypes ==
    /\ NoProof \in Proof
    /\ AbsentPlacement \in Placement
    /\ AbsentTransfer \in Transfer
    /\ CanonicalAssignment \in Assignment
<1>1. AnyCell \in Cells
  BY DirectoryAssumption DEF AnyCell
<1>2. AnyAggregate \in Aggregates
  BY DirectoryAssumption DEF AnyAggregate
<1>3. NoProof \in Proof
  BY DirectoryAssumption DEF NoProof, Proof
<1>4. AbsentPlacement \in Placement
  BY <1>1, DirectoryAssumption DEF AbsentPlacement, Placement, PlacementStates
<1>5. AbsentTransfer \in Transfer
  BY <1>1, <1>2, <1>3, DirectoryAssumption DEF AbsentTransfer, Transfer
<1>6. CanonicalAssignment \in Assignment
  BY DirectoryAssumption
  DEF CanonicalAssignment, Assignment, AssignmentStates, Generations
<1> QED BY <1>3, <1>4, <1>5, <1>6

(* Replacing one record of a document by one of its type.                  *)
LEMMA SetTypes ==
    ASSUME NEW d \in Document
    PROVE  /\ \A c \in Cells, x \in Assignment : SetAssignment(d, c, x) \in Document
           /\ \A a \in Aggregates, p \in Placement : SetPlacement(d, a, p) \in Document
           /\ \A t \in Transfers, r \in Transfer : SetTransfer(d, t, r) \in Document
<1>1. ASSUME NEW c \in Cells, NEW x \in Assignment
      PROVE SetAssignment(d, c, x) \in Document
  BY <1>1 DEF SetAssignment, Document
<1>2. ASSUME NEW a \in Aggregates, NEW p \in Placement
      PROVE SetPlacement(d, a, p) \in Document
  BY <1>2 DEF SetPlacement, Document
<1>3. ASSUME NEW t \in Transfers, NEW r \in Transfer
      PROVE SetTransfer(d, t, r) \in Document
  BY <1>3 DEF SetTransfer, Document
<1> QED BY <1>1, <1>2, <1>3

(* Reading a record of a document.                                         *)
LEMMA GetTypes ==
    ASSUME NEW d \in Document
    PROVE  /\ \A c \in Cells : d.assignments[c] \in Assignment
           /\ \A a \in Aggregates : d.placements[a] \in Placement
           /\ \A t \in Transfers : d.transfers[t] \in Transfer
BY DEF Document

(* A proof keeps its type when its generation is resolved.                 *)
LEMMA ResolvedType ==
    ASSUME NEW q \in Proof, NEW g \in Generations
    PROVE  Resolved(q, g) \in Proof
BY DirectoryAssumption DEF Resolved, Proof, Generations

(* A successor assignment.                                                 *)
LEMMA AssignType ==
    ASSUME NEW d \in Document, NEW c \in Cells, NEW h \in Holders, NEW f \in Fences,
           d.assignments[c].generation < MaxGeneration
    PROVE  AssignDoc(d, c, h, f) \in Document
<1> DEFINE x == d.assignments[c]
<1>1. x \in Assignment
  BY GetTypes
<1>2. x.generation + 1 \in Generations
  BY <1>1, DirectoryAssumption DEF Assignment, Generations
<1>3. [x.history EXCEPT ![x.generation + 1] = f] \in [Generations -> 0..MaxFence]
  BY <1>1, <1>2, DirectoryAssumption DEF Assignment, Fences
<1>4. Issue(x, h, f) \in Assignment
  BY <1>2, <1>3, DirectoryAssumption DEF Issue, Assignment, AssignmentStates, Generations, Fences
<1> QED BY <1>4, SetTypes DEF AssignDoc

(* release keeps the document's type.                                      *)
LEMMA ReleaseType ==
    ASSUME NEW d \in Document, NEW c \in Cells
    PROVE  ReleaseDoc(d, c) \in Document
<1>1. d.assignments[c] \in Assignment
  BY GetTypes
<1>2. [d.assignments[c] EXCEPT !.state = "Sleeping", !.holder = None] \in Assignment
  BY <1>1, Zenon DEF Assignment, AssignmentStates
<1> QED BY <1>2, SetTypes DEF ReleaseDoc

(* register_placement keeps the document's type.                           *)
LEMMA RegisterPlacementType ==
    ASSUME NEW d \in Document, NEW a \in Aggregates, NEW c \in Cells
    PROVE  RegisterPlacementDoc(d, a, c) \in Document
<1>1. [state |-> "Resident", cell |-> c, generation |-> 1, transfer |-> None] \in Placement
  BY DirectoryAssumption DEF Placement, PlacementStates
<1> QED BY <1>1, SetTypes DEF RegisterPlacementDoc

(* prepare_transfer keeps the document's type.                             *)
LEMMA PrepareTransferType ==
    ASSUME NEW d \in Document, NEW a \in Aggregates, NEW t \in Transfers,
           NEW dst \in Cells, NEW k \in Packages,
           d.placements[a].generation < MaxGeneration
    PROVE  PrepareTransferDoc(d, a, t, dst, k) \in Document
<1> DEFINE p == d.placements[a]
           e == SetPlacement(d, a, [p EXCEPT !.state = "Preparing", !.transfer = t])
<1>1. p \in Placement /\ d.assignments[p.cell] \in Assignment /\ d.assignments[dst] \in Assignment
  <2>1. p \in Placement
    BY GetTypes
  <2>2. p.cell \in Cells
    BY <2>1 DEF Placement
  <2> QED BY <2>1, <2>2, GetTypes
<1>2. [p EXCEPT !.state = "Preparing", !.transfer = t] \in Placement
  BY <1>1, Zenon DEF Placement, PlacementStates
<1>3. e \in Document
  BY <1>2, SetTypes
<1>4. NewTransfer(d, a, dst, k) \in Transfer
  <2>1. p.generation + 1 \in 0..MaxGeneration
    BY <1>1, DirectoryAssumption DEF Placement
  <2> QED BY <1>1, <2>1, AbsentTypes, ZenonT(60)
          DEF NewTransfer, AbsentTransfer, Transfer, Placement, Assignment, Phases, PreCommit
<1> QED BY <1>3, <1>4, SetTypes DEF PrepareTransferDoc

(* Settling the placement that a transfer moved or kept.                   *)
LEMMA SettleType ==
    ASSUME NEW d \in Document, NEW a \in Aggregates
    PROVE  Settle(d, a) \in Document
<1>1. d.placements[a] \in Placement
  BY GetTypes
<1>2. [d.placements[a] EXCEPT !.state = "Resident", !.transfer = None] \in Placement
  BY <1>1, Zenon DEF Placement, PlacementStates
<1> QED BY <1>2, SetTypes DEF Settle

(* The proofs a caller can hand in.                                        *)
LEMMA ProofTypes ==
    /\ CellProofs \subseteq Proof
    /\ ReceiptProofs \subseteq Proof
BY DirectoryAssumption DEF CellProofs, ReceiptProofs, Proof, Fences

(* Recording a proof or a phase keeps the document's type.                 *)
LEMMA TransferTypes ==
    ASSUME NEW d \in Document, NEW t \in Transfers, NEW q \in Proof, NEW g \in Generations
    PROVE  /\ RecordSourcePreparedDoc(d, t, q, g) \in Document
           /\ RecordQuarantineDoc(d, t, q, g) \in Document
           /\ CommitTransferDoc(d, t) \in Document
           /\ RecordImportedDoc(d, t, q, g) \in Document
           /\ FinalizeTransferDoc(d, t, q, g) \in Document
           /\ RequestAbortDoc(d, t) \in Document
           /\ \A role : RecordAbortCleanupDoc(d, t, role, q, g) \in Document
           /\ FinalizeAbortDoc(d, t) \in Document
<1> DEFINE r == d.transfers[t]
           z == Resolved(q, g)
<1>1. r \in Transfer /\ z \in Proof /\ q.receipt \in Receipts \cup {None}
  BY GetTypes, ResolvedType DEF Proof
<1>2. r.aggregate \in Aggregates /\ r.destination \in Cells /\ r.resultGen \in 0..MaxGeneration
  BY <1>1 DEF Transfer
<1>3. d.placements[r.aggregate] \in Placement
  BY <1>2, GetTypes
<1> HIDE DEF r, z
<1>4. [r EXCEPT !.prepare = z] \in Transfer
  BY <1>1 DEF Transfer
<1>5. [r EXCEPT !.phase = "Quarantined", !.receipt = q.receipt, !.quarantine = z] \in Transfer
  BY <1>1, Zenon DEF Transfer, Phases, PreCommit
<1>6. [r EXCEPT !.phase = "Committed"] \in Transfer
  BY <1>1 DEF Transfer, Phases, PostCommit
<1>7. [r EXCEPT !.phase = "Imported", !.import = z] \in Transfer
  BY <1>1, Zenon DEF Transfer, Phases, PostCommit
<1>8. [r EXCEPT !.phase = "Finalized", !.finalization = z] \in Transfer
  BY <1>1, Zenon DEF Transfer, Phases, PostCommit
<1>9. [r EXCEPT !.phase = "Aborting"] \in Transfer /\ [r EXCEPT !.phase = "Aborted"] \in Transfer
  BY <1>1 DEF Transfer, Phases
<1>10. [r EXCEPT !.sourceAbort = z] \in Transfer /\ [r EXCEPT !.destAbort = z] \in Transfer
  BY <1>1 DEF Transfer
<1>11. SetPlacement(d, r.aggregate,
          [d.placements[r.aggregate] EXCEPT !.cell = r.destination,
                                            !.generation = r.resultGen,
                                            !.state = "InTransit"]) \in Document
  <2>1. [d.placements[r.aggregate] EXCEPT !.cell = r.destination,
                                          !.generation = r.resultGen,
                                          !.state = "InTransit"] \in Placement
    BY <1>2, <1>3, Zenon DEF Placement, PlacementStates
  <2> QED BY <2>1, <1>2, SetTypes
<1>12. Settle(d, r.aggregate) \in Document
  BY <1>2, SettleType
<1>13. RecordSourcePreparedDoc(d, t, q, g) \in Document
  BY <1>4, SetTypes DEF RecordSourcePreparedDoc, r, z
<1>14. RecordQuarantineDoc(d, t, q, g) \in Document
  BY <1>5, SetTypes DEF RecordQuarantineDoc, r, z
<1>15. CommitTransferDoc(d, t) \in Document
  BY <1>6, <1>11, SetTypes DEF CommitTransferDoc, r
<1>16. RecordImportedDoc(d, t, q, g) \in Document
  BY <1>7, <1>12, SetTypes DEF RecordImportedDoc, r, z
<1>17. FinalizeTransferDoc(d, t, q, g) \in Document
  BY <1>8, SetTypes DEF FinalizeTransferDoc, r, z
<1>18. RequestAbortDoc(d, t) \in Document
  BY <1>9, SetTypes DEF RequestAbortDoc, r
<1>19. ASSUME NEW role PROVE RecordAbortCleanupDoc(d, t, role, q, g) \in Document
  BY <1>10, SetTypes DEF RecordAbortCleanupDoc, r, z
<1>20. FinalizeAbortDoc(d, t) \in Document
  BY <1>9, <1>12, SetTypes DEF FinalizeAbortDoc, r
<1> QED BY <1>13, <1>14, <1>15, <1>16, <1>17, <1>18, <1>19, <1>20

-----------------------------------------------------------------------------
(* The inductive invariant of one document.  No operation re-validates the *)
(* document it writes, so each must keep all of it; validity of a transfer *)
(* rests on the fence histories (its proofs name generations of them), and *)
(* the chain of custody on the placements the phases imply.                *)

DocInv(d) ==
    /\ d \in Document
    /\ \A c \in Cells : ValidAssignment(d.assignments[c])
    /\ \A a \in Aggregates : ValidPlacement(d.placements[a])
    /\ \A t \in Transfers : ValidTransfer(d, t)
    /\ PinsHold(d)
    /\ \A a \in Aggregates : Custody(d, a)

(* What the three setters change.                                          *)
LEMMA Frames ==
    ASSUME NEW d \in Document
    PROVE  /\ \A c \in Cells : \A x : LET e == SetAssignment(d, c, x) IN
                /\ e.revision = d.revision
                /\ e.placements = d.placements
                /\ e.transfers = d.transfers
                /\ \A b \in Cells : e.assignments[b] = IF b = c THEN x ELSE d.assignments[b]
           /\ \A a \in Aggregates : \A p : LET e == SetPlacement(d, a, p) IN
                /\ e.revision = d.revision
                /\ e.assignments = d.assignments
                /\ e.transfers = d.transfers
                /\ \A b \in Aggregates : e.placements[b] = IF b = a THEN p ELSE d.placements[b]
           /\ \A t \in Transfers : \A r : LET e == SetTransfer(d, t, r) IN
                /\ e.revision = d.revision
                /\ e.assignments = d.assignments
                /\ e.placements = d.placements
                /\ \A u \in Transfers : e.transfers[u] = IF u = t THEN r ELSE d.transfers[u]
BY DEF SetAssignment, SetPlacement, SetTransfer, Document

(* The revision is not part of the invariant.                              *)
LEMMA RevisionFree ==
    ASSUME NEW d, DocInv(d), NEW n \in 1..MaxRevision
    PROVE  DocInv([d EXCEPT !.revision = n])
<1> DEFINE e == [d EXCEPT !.revision = n]
<1>1. d \in Document
  BY DEF DocInv
<1>2. /\ e \in Document
      /\ e.assignments = d.assignments
      /\ e.placements = d.placements
      /\ e.transfers = d.transfers
  BY <1>1 DEF Document
<1> HIDE DEF e
<1>3. \A t \in Transfers : ValidTransfer(e, t)
  BY <1>2 DEF DocInv, ValidTransfer, ValidProofs
<1>4. PinsHold(e)
  BY <1>2 DEF DocInv, PinsHold, Pins
<1>5. \A a \in Aggregates : Custody(e, a)
  BY <1>2 DEF DocInv, Custody, CommittedTransfers
<1>6. DocInv(e)
  BY <1>2, <1>3, <1>4, <1>5 DEF DocInv
<1> QED BY <1>6 DEF e

(* Whatever the outcome of the write, memory and file hold documents that  *)
(* satisfy the invariant.                                                  *)
LEMMA CommitKeeps ==
    ASSUME DocInv(doc), DocInv(disk), NEW next, DocInv(next), NEW outcome,
           CommitDocument(next, outcome)
    PROVE  DocInv(doc') /\ DocInv(disk')
<1>1. doc.revision + 1 \in 1..MaxRevision
  BY DirectoryAssumption DEF DocInv, Document, CommitDocument
<1>2. DocInv([next EXCEPT !.revision = doc.revision + 1])
  BY <1>1, RevisionFree
<1> QED BY <1>2 DEF CommitDocument

-----------------------------------------------------------------------------
(* Assignments.                                                            *)

(* A successor generation under a greater fence extends the history: it    *)
(* stays valid and every older generation keeps its fence.                 *)
LEMMA IssueExtends ==
    ASSUME NEW x \in Assignment, ValidAssignment(x), NEW h \in Holders, NEW f \in Fences,
           x.generation < MaxGeneration, f > x.fence
    PROVE  /\ ValidAssignment(Issue(x, h, f))
           /\ \A g \in Generations :
                 x.history[g] # 0 => Issue(x, h, f).history[g] = x.history[g]
<1> DEFINE n == x.generation + 1
           y == Issue(x, h, f)
<1>1. /\ x.generation \in Nat /\ x.fence \in Nat /\ f \in Nat /\ f # 0
      /\ n \in Generations
      /\ DOMAIN x.history = Generations
      /\ \A g \in Generations : x.history[g] \in Nat
      /\ MaxGeneration \in Nat
  BY DirectoryAssumption DEF Assignment, Generations, Fences
<1>2. /\ y.generation = n /\ y.fence = f /\ y.state = "Assigned" /\ y.holder = h
      /\ \A g \in Generations : y.history[g] = IF g = n THEN f ELSE x.history[g]
  BY <1>1 DEF Issue, Assignment
<1>3. /\ \A g \in Generations : (x.history[g] # 0) <=> (g <= x.generation)
      /\ \A g \in Generations :
            g > 1 /\ g <= x.generation => x.history[g - 1] < x.history[g]
      /\ x.fence = IF x.generation = 0 THEN 0 ELSE x.history[x.generation]
  BY DEF ValidAssignment, ValidHistory
<1> HIDE DEF y
<1>4. ASSUME NEW g \in Generations
      PROVE  (y.history[g] # 0) <=> (g <= y.generation)
  <2>1. CASE g = n
    BY <1>1, <1>2, <2>1 DEF Generations
  <2>2. CASE g # n
    <3>1. y.history[g] = x.history[g]
      BY <1>2, <2>2
    <3>2. (g <= y.generation) <=> (g <= x.generation)
      BY <1>1, <1>2, <2>2 DEF Generations
    <3> QED BY <1>3, <3>1, <3>2
  <2> QED BY <2>1, <2>2
<1>5. ASSUME NEW g \in Generations, g > 1, g <= y.generation
      PROVE  y.history[g - 1] < y.history[g]
  <2>1. g - 1 \in Generations /\ g - 1 # n
    BY <1>1, <1>2, <1>5 DEF Generations
  <2>2. CASE g = n
    <3>1. g - 1 = x.generation /\ x.generation # 0
      BY <1>1, <1>5, <2>2 DEF Generations
    <3>2. y.history[g - 1] = x.fence
      BY <1>2, <1>3, <2>1, <3>1
    <3> QED BY <1>1, <1>2, <2>2, <3>2
  <2>3. CASE g # n
    BY <1>1, <1>2, <1>3, <1>5, <2>1, <2>3 DEF Generations
  <2> QED BY <2>2, <2>3
<1>6. ValidAssignment(y)
  BY <1>1, <1>2, <1>4, <1>5, DirectoryAssumption DEF ValidAssignment, ValidHistory
<1>7. \A g \in Generations : x.history[g] # 0 => y.history[g] = x.history[g]
  BY <1>1, <1>2, <1>3
<1> QED BY <1>6, <1>7 DEF y

(* Proofs bind the generation their event was written under, so they stay  *)
(* valid when histories only grow.                                         *)
LEMMA ProofsSurvive ==
    ASSUME NEW d \in Document, NEW e \in Document, NEW r \in Transfer, ValidProofs(d, r),
           \A c \in Cells, g \in Generations :
               d.assignments[c].history[g] # 0 =>
                   e.assignments[c].history[g] = d.assignments[c].history[g]
    PROVE  ValidProofs(e, r)
<1>1. r.source \in Cells /\ r.destination \in Cells
  BY DEF Transfer
<1>2. ASSUME NEW q, NEW c \in Cells, NEW m, NEW k, ProofBinds(q, d.assignments[c], m, k)
      PROVE  ProofBinds(q, e.assignments[c], m, k)
  BY <1>2 DEF ProofBinds
<1> QED BY <1>1, <1>2, Zenon DEF ValidProofs

(* Replacing one assignment by a valid one that extends its history and    *)
(* that sleeps only when nothing pins the cell.                            *)
LEMMA AssignmentEdit ==
    ASSUME NEW d, DocInv(d), NEW c \in Cells, NEW x \in Assignment, ValidAssignment(x),
           \A g \in Generations :
               d.assignments[c].history[g] # 0 => x.history[g] = d.assignments[c].history[g],
           x.state = "Assigned" \/ \A t \in Transfers : ~Pins(d, t, c)
    PROVE  DocInv(SetAssignment(d, c, x))
<1> DEFINE e == SetAssignment(d, c, x)
<1>1. d \in Document /\ e \in Document
  BY SetTypes DEF DocInv
<1>2. /\ e.placements = d.placements
      /\ e.transfers = d.transfers
      /\ \A b \in Cells : e.assignments[b] = IF b = c THEN x ELSE d.assignments[b]
  BY <1>1, Frames
<1> HIDE DEF e
<1>3. \A b \in Cells : ValidAssignment(e.assignments[b])
  BY <1>2 DEF DocInv
<1>4. ASSUME NEW t \in Transfers PROVE ValidTransfer(e, t)
  <2>1. d.transfers[t] \in Transfer
    BY <1>1, GetTypes
  <2>2. ValidTransfer(d, t)
    BY DEF DocInv
  <2>3. ValidProofs(d, d.transfers[t]) => ValidProofs(e, d.transfers[t])
    BY <1>1, <1>2, <2>1, ProofsSurvive
  <2> QED BY <1>2, <2>2, <2>3 DEF ValidTransfer
<1>5. PinsHold(e)
  BY <1>2 DEF DocInv, PinsHold, Pins
<1>6. \A a \in Aggregates : Custody(e, a)
  BY <1>2 DEF DocInv, Custody, CommittedTransfers
<1>7. DocInv(e)
  BY <1>1, <1>2, <1>3, <1>4, <1>5, <1>6 DEF DocInv
<1> QED BY <1>7 DEF e

(* claim and recover_assignment keep the invariant.                        *)
LEMMA AssignKeeps ==
    ASSUME NEW d, DocInv(d), NEW c \in Cells, NEW gen, NEW h \in Holders, NEW f \in Fences,
           ClaimOk(d, c, gen, f) \/ RecoverAssignmentOk(d, c, gen, f)
    PROVE  DocInv(AssignDoc(d, c, h, f))
<1> DEFINE x == d.assignments[c]
<1>1. x \in Assignment /\ ValidAssignment(x)
  BY GetTypes DEF DocInv
<1>2. x.generation < MaxGeneration /\ f > x.fence
  BY DEF ClaimOk, RecoverAssignmentOk
<1>3. AssignDoc(d, c, h, f) \in Document
  BY <1>2, AssignType DEF DocInv
<1>4. Issue(x, h, f) \in Assignment
  BY <1>3, GetTypes, Frames DEF AssignDoc, DocInv
<1>5. Issue(x, h, f).state = "Assigned"
  BY DEF Issue
<1> QED BY <1>1, <1>2, <1>4, <1>5, IssueExtends, AssignmentEdit DEF AssignDoc

(* release keeps the invariant: no transfer pins a cell it puts to sleep.  *)
LEMMA ReleaseKeeps ==
    ASSUME NEW d, DocInv(d), NEW c \in Cells, NEW gen, NEW h, ReleaseOk(d, c, gen, h)
    PROVE  DocInv(ReleaseDoc(d, c))
<1> DEFINE x == d.assignments[c]
           y == [x EXCEPT !.state = "Sleeping", !.holder = None]
<1>1. x \in Assignment /\ ValidAssignment(x)
  BY GetTypes DEF DocInv
<1>2. /\ y \in Assignment /\ y.history = x.history /\ y.fence = x.fence
      /\ y.generation = x.generation /\ y.state = "Sleeping" /\ y.holder = None
  BY <1>1, Zenon DEF Assignment, AssignmentStates
<1>3. ValidAssignment(y)
  BY <1>1, <1>2 DEF ValidAssignment, ValidHistory
<1>4. \A t \in Transfers : ~Pins(d, t, c)
  BY DEF ReleaseOk
<1> QED BY <1>2, <1>3, <1>4, AssignmentEdit, Zenon DEF ReleaseDoc

-----------------------------------------------------------------------------
(* Placements and transfers.                                               *)

(* register_placement keeps the invariant: nothing was committed before.   *)
LEMMA RegisterPlacementKeeps ==
    ASSUME NEW d, DocInv(d), NEW a \in Aggregates, NEW c \in Cells, RegisterPlacementOk(d, a)
    PROVE  DocInv(RegisterPlacementDoc(d, a, c))
<1> DEFINE p == [state |-> "Resident", cell |-> c, generation |-> 1, transfer |-> None]
           e == RegisterPlacementDoc(d, a, c)
<1>1. d \in Document /\ e \in Document
  BY RegisterPlacementType DEF DocInv
<1>2. /\ e.assignments = d.assignments
      /\ e.transfers = d.transfers
      /\ \A b \in Aggregates : e.placements[b] = IF b = a THEN p ELSE d.placements[b]
  BY <1>1, Frames DEF RegisterPlacementDoc
<1>3. ValidPlacement(p)
  BY DEF ValidPlacement
<1> HIDE DEF e, p
<1>4. \A t \in Transfers : d.transfers[t].phase # "Absent" =>
          d.transfers[t].aggregate \in Aggregates \ {a}
  <2>1. \A t \in Transfers : d.transfers[t].aggregate \in Aggregates
    BY <1>1, GetTypes DEF Transfer
  <2> QED BY <2>1 DEF DocInv, ValidTransfer, RegisterPlacementOk
<1>5. \A t \in Transfers : ValidTransfer(e, t)
  BY <1>2, <1>4 DEF DocInv, ValidTransfer, ValidProofs
<1>6. PinsHold(e)
  BY <1>2 DEF DocInv, PinsHold, Pins
<1>7. ASSUME NEW b \in Aggregates PROVE Custody(e, b)
  <2>1. CommittedTransfers(e, b) = CommittedTransfers(d, b)
    BY <1>2 DEF CommittedTransfers
  <2>2. CASE b = a
    <3>1. CommittedTransfers(d, a) = {}
      BY <1>4 DEF CommittedTransfers, PostCommit
    <3> QED BY <2>1, <2>2, <3>1 DEF Custody
  <2>3. CASE b # a
    BY <1>2, <2>1, <2>3 DEF DocInv, Custody
  <2> QED BY <2>2, <2>3
<1>8. DocInv(e)
  BY <1>1, <1>2, <1>3, <1>5, <1>6, <1>7 DEF DocInv
<1> QED BY <1>8 DEF e

(* Replacing transfer t and the placement of its aggregate together.  What *)
(* is left to show of an operation: the new records are valid, the other   *)
(* transfers of the aggregate still match its placement, a pinning         *)
(* transfer has assigned cells, and the chain of custody holds.            *)
LEMMA SagaEdit ==
    ASSUME NEW d, DocInv(d), NEW t \in Transfers, NEW r \in Transfer, NEW p \in Placement,
           NEW e, e \in Document,
           e.assignments = d.assignments,
           \A b \in Aggregates : e.placements[b] = IF b = r.aggregate THEN p ELSE d.placements[b],
           \A u \in Transfers : e.transfers[u] = IF u = t THEN r ELSE d.transfers[u],
           p.state # "Absent", ValidPlacement(p),
           r.phase # "Absent", ValidTransferIdentity(r), ValidProofs(d, r),
           PlacementMatches(p, t, r), PhaseProofs(r),
           \A u \in Transfers \ {t} :
               d.transfers[u].phase # "Absent" /\ d.transfers[u].aggregate = r.aggregate =>
                   PlacementMatches(p, u, d.transfers[u]),
           r.phase \notin Terminal =>
               /\ d.assignments[r.source].state = "Assigned"
               /\ d.assignments[r.destination].state = "Assigned",
           d.transfers[t].phase \in PostCommit => d.transfers[t].aggregate = r.aggregate,
           Custody(e, r.aggregate)
    PROVE  DocInv(e)
<1>1. d \in Document /\ r.aggregate \in Aggregates
  BY DEF DocInv, Transfer
<1>2. \A a \in Aggregates : ValidPlacement(e.placements[a])
  BY DEF DocInv
<1>3. ASSUME NEW u \in Transfers PROVE ValidTransfer(e, u)
  <2>1. CASE u = t
    <3>1. ValidProofs(e, r)
      BY DEF ValidProofs
    <3> QED BY <1>1, <2>1, <3>1 DEF ValidTransfer
  <2>2. CASE u # t
    <3>1. ValidTransfer(d, u) /\ d.transfers[u].aggregate \in Aggregates
      BY <1>1, GetTypes DEF DocInv, Transfer
    <3>2. ValidProofs(d, d.transfers[u]) => ValidProofs(e, d.transfers[u])
      BY DEF ValidProofs
    <3> QED BY <1>1, <2>2, <3>1, <3>2 DEF ValidTransfer
  <2> QED BY <2>1, <2>2
<1>4. PinsHold(e)
  BY DEF DocInv, PinsHold, Pins
<1>5. ASSUME NEW a \in Aggregates PROVE Custody(e, a)
  <2>1. CASE a = r.aggregate
    BY <2>1
  <2>2. CASE a # r.aggregate
    <3>1. CommittedTransfers(e, a) = CommittedTransfers(d, a)
      BY <2>2 DEF CommittedTransfers
    <3>2. \A u \in CommittedTransfers(d, a) : e.transfers[u] = d.transfers[u]
      BY <2>2 DEF CommittedTransfers
    <3>3. Custody(d, a)
      BY DEF DocInv
    <3> QED BY <1>1, <2>2, <3>1, <3>2, <3>3 DEF Custody
  <2> QED BY <2>1, <2>2
<1> QED BY <1>2, <1>3, <1>4, <1>5 DEF DocInv

(* The fields of a transfer that its identity fixes.                       *)
SameIdentity(r, o) ==
    /\ r.aggregate = o.aggregate
    /\ r.source = o.source
    /\ r.destination = o.destination
    /\ r.sourceGen = o.sourceGen
    /\ r.destGen = o.destGen
    /\ r.priorGen = o.priorGen
    /\ r.resultGen = o.resultGen

(* Custody depends only on identities, on which transfers have committed   *)
(* and on the cell and generation of the placement.                        *)
LEMMA CustodyKept ==
    ASSUME NEW d, DocInv(d), NEW t \in Transfers, NEW e, e \in Document,
           SameIdentity(e.transfers[t], d.transfers[t]),
           e.transfers[t].phase \in PostCommit <=> d.transfers[t].phase \in PostCommit,
           \A u \in Transfers \ {t} : e.transfers[u] = d.transfers[u],
           NEW a \in Aggregates,
           e.placements[a].cell = d.placements[a].cell,
           e.placements[a].generation = d.placements[a].generation
    PROVE  Custody(e, a)
<1>1. CommittedTransfers(e, a) = CommittedTransfers(d, a)
  BY DEF CommittedTransfers, SameIdentity
<1>2. \A u \in CommittedTransfers(d, a) : SameIdentity(e.transfers[u], d.transfers[u])
  BY DEF CommittedTransfers, SameIdentity
<1>3. Custody(d, a)
  BY DEF DocInv
<1> QED BY <1>1, <1>2, <1>3 DEF Custody, SameIdentity

(* An operation that edits a pinning transfer t and leaves its placement.  *)
LEMMA TransferEdit ==
    ASSUME NEW d, DocInv(d), NEW t \in Transfers, NEW r \in Transfer,
           d.transfers[t].phase \notin Terminal \cup {"Absent"},
           SameIdentity(r, d.transfers[t]),
           r.phase # "Absent",
           r.phase \in PostCommit <=> d.transfers[t].phase \in PostCommit,
           ValidProofs(d, r),
           PlacementMatches(d.placements[r.aggregate], t, r),
           PhaseProofs(r)
    PROVE  DocInv(SetTransfer(d, t, r))
<1> DEFINE e == SetTransfer(d, t, r)
           o == d.transfers[t]
           p == d.placements[r.aggregate]
<1>1. /\ d \in Document /\ e \in Document /\ o \in Transfer
      /\ r.aggregate \in Aggregates /\ p \in Placement
      /\ r.source \in Cells /\ r.destination \in Cells
  BY SetTypes, GetTypes DEF DocInv, Transfer
<1>2. /\ e.assignments = d.assignments
      /\ e.placements = d.placements
      /\ \A u \in Transfers : e.transfers[u] = IF u = t THEN r ELSE d.transfers[u]
  BY <1>1, Frames
<1> HIDE DEF e
<1>3. ValidTransfer(d, t)
  BY DEF DocInv
<1>4. /\ p.state # "Absent" /\ ValidPlacement(p)
      /\ ValidTransferIdentity(r)
  BY <1>1, <1>3 DEF DocInv, ValidTransfer, ValidTransferIdentity, SameIdentity
<1>5. \A u \in Transfers \ {t} :
          d.transfers[u].phase # "Absent" /\ d.transfers[u].aggregate = r.aggregate =>
              PlacementMatches(p, u, d.transfers[u])
  BY DEF DocInv, ValidTransfer
<1>6. /\ d.assignments[r.source].state = "Assigned"
      /\ d.assignments[r.destination].state = "Assigned"
  BY <1>1 DEF DocInv, PinsHold, Pins, SameIdentity
<1>7. Custody(e, r.aggregate)
  BY <1>1, <1>2, CustodyKept
<1>8. o.aggregate = r.aggregate
  BY DEF SameIdentity
<1>9. \A b \in Aggregates : e.placements[b] = IF b = r.aggregate THEN p ELSE d.placements[b]
  BY <1>2
<1> HIDE DEF p, o
<1>10. DocInv(e)
  BY <1>1, <1>2, <1>4, <1>5, <1>6, <1>7, <1>8, <1>9, SagaEdit DEF o
<1> QED BY <1>10 DEF e

(* A proof that binds is not the empty one.                                *)
LEMMA BindsNotEmpty ==
    ASSUME NEW q, NEW x, NEW m, NEW k, ProofBinds(q, x, m, k)
    PROVE  q # NoProof
BY DEF ProofBinds, NoProof

(* What is known of a transfer that exists, read from the invariant.       *)
LEMMA Existing ==
    ASSUME NEW d, DocInv(d), NEW t \in Transfers, d.transfers[t].phase # "Absent"
    PROVE  /\ d \in Document
           /\ d.transfers[t] \in Transfer
           /\ ValidProofs(d, d.transfers[t])
           /\ PlacementMatches(d.placements[d.transfers[t].aggregate], t, d.transfers[t])
           /\ PhaseProofs(d.transfers[t])
BY GetTypes DEF DocInv, ValidTransfer

(* record_source_prepared keeps the invariant.                             *)
LEMMA RecordSourcePreparedKeeps ==
    ASSUME NEW d, DocInv(d), NEW t \in Transfers, NEW q \in Proof, NEW g \in Generations,
           RecordSourcePreparedOk(d, t, q, g)
    PROVE  DocInv(RecordSourcePreparedDoc(d, t, q, g))
<1> DEFINE o == d.transfers[t]
           z == Resolved(q, g)
           r == [o EXCEPT !.prepare = z]
<1>1. /\ o.phase = "Prepared"
      /\ ProofBinds(z, d.assignments[o.source], o.sourceGen, o.package)
  BY DEF RecordSourcePreparedOk, ProofAccepted
<1>2. /\ d \in Document /\ o \in Transfer /\ ValidProofs(d, o) /\ PhaseProofs(o)
      /\ PlacementMatches(d.placements[o.aggregate], t, o)
  BY <1>1, Existing
<1>3. z \in Proof
  BY ResolvedType
<1> HIDE DEF o, z
<1>4. r \in Transfer
  BY <1>2, <1>3 DEF Transfer
<1>5. /\ r.phase = o.phase /\ SameIdentity(r, o) /\ r.package = o.package
      /\ r.prepare = z /\ r.receipt = o.receipt /\ r.quarantine = o.quarantine
      /\ r.import = o.import /\ r.finalization = o.finalization
      /\ r.sourceAbort = o.sourceAbort /\ r.destAbort = o.destAbort
  BY <1>2 DEF Transfer, SameIdentity
<1> HIDE DEF r
<1>6. ValidProofs(d, r)
  BY <1>1, <1>2, <1>5 DEF ValidProofs, SameIdentity
<1>7. PlacementMatches(d.placements[r.aggregate], t, r)
  BY <1>1, <1>2, <1>5 DEF PlacementMatches, BoundAtSource, SameIdentity, PreCommit
<1>8. PhaseProofs(r)
  BY <1>1, <1>2, <1>5 DEF PhaseProofs
<1>9. DocInv(SetTransfer(d, t, r))
  BY <1>1, <1>4, <1>5, <1>6, <1>7, <1>8, TransferEdit DEF o, Terminal
<1> QED BY <1>9 DEF RecordSourcePreparedDoc, r, o, z

(* record_quarantine keeps the invariant.                                  *)
LEMMA RecordQuarantineKeeps ==
    ASSUME NEW d, DocInv(d), NEW t \in Transfers, NEW q \in Proof, NEW g \in Generations,
           RecordQuarantineOk(d, t, q, g)
    PROVE  DocInv(RecordQuarantineDoc(d, t, q, g))
<1> DEFINE o == d.transfers[t]
           z == Resolved(q, g)
           r == [o EXCEPT !.phase = "Quarantined", !.receipt = q.receipt, !.quarantine = z]
<1>1. /\ o.phase = "Prepared" /\ q.receipt \in Receipts
      /\ ProofBinds(z, d.assignments[o.destination], o.destGen, o.package)
  BY DEF RecordQuarantineOk, ProofAccepted
<1>2. /\ d \in Document /\ o \in Transfer /\ ValidProofs(d, o) /\ PhaseProofs(o)
      /\ PlacementMatches(d.placements[o.aggregate], t, o)
  BY <1>1, Existing
<1>3. z \in Proof /\ z # NoProof /\ z.receipt = q.receipt /\ q.receipt # None
  BY <1>1, ResolvedType, BindsNotEmpty, DirectoryAssumption DEF Resolved, Proof
<1> HIDE DEF o, z
<1>4. r \in Transfer
  BY <1>1, <1>2, <1>3, Zenon DEF Transfer, Phases, PreCommit
<1>5. /\ r.phase = "Quarantined" /\ SameIdentity(r, o) /\ r.package = o.package
      /\ r.prepare = o.prepare /\ r.receipt = q.receipt /\ r.quarantine = z
      /\ r.import = o.import /\ r.finalization = o.finalization
      /\ r.sourceAbort = o.sourceAbort /\ r.destAbort = o.destAbort
  BY <1>2 DEF Transfer, SameIdentity
<1> HIDE DEF r
<1>6. o.import = NoProof /\ o.finalization = NoProof
      /\ o.sourceAbort = NoProof /\ o.destAbort = NoProof
  BY <1>1, <1>2 DEF PhaseProofs
<1>7. ValidProofs(d, r)
  BY <1>1, <1>2, <1>3, <1>5, <1>6 DEF ValidProofs, SameIdentity
<1>8. PlacementMatches(d.placements[r.aggregate], t, r)
  BY <1>1, <1>2, <1>5 DEF PlacementMatches, BoundAtSource, SameIdentity, PreCommit
<1>9. PhaseProofs(r)
  BY <1>3, <1>5, <1>6 DEF PhaseProofs
<1>10. DocInv(SetTransfer(d, t, r))
  BY <1>1, <1>4, <1>5, <1>7, <1>8, <1>9, TransferEdit DEF o, Terminal, PostCommit
<1> QED BY <1>10 DEF RecordQuarantineDoc, r, o, z

(* finalize_transfer keeps the invariant.                                  *)
LEMMA FinalizeTransferKeeps ==
    ASSUME NEW d, DocInv(d), NEW t \in Transfers, NEW q \in Proof, NEW g \in Generations,
           FinalizeTransferOk(d, t, q, g)
    PROVE  DocInv(FinalizeTransferDoc(d, t, q, g))
<1> DEFINE o == d.transfers[t]
           z == Resolved(q, g)
           r == [o EXCEPT !.phase = "Finalized", !.finalization = z]
<1>1. /\ o.phase = "Imported"
      /\ ProofBinds(z, d.assignments[o.source], o.sourceGen, o.package)
  BY DEF FinalizeTransferOk, ProofAccepted
<1>2. /\ d \in Document /\ o \in Transfer /\ ValidProofs(d, o) /\ PhaseProofs(o)
      /\ PlacementMatches(d.placements[o.aggregate], t, o)
  BY <1>1, Existing
<1>3. z \in Proof /\ z # NoProof
  BY <1>1, ResolvedType, BindsNotEmpty
<1> HIDE DEF o, z
<1>4. r \in Transfer
  BY <1>2, <1>3, Zenon DEF Transfer, Phases, PostCommit
<1>5. /\ r.phase = "Finalized" /\ SameIdentity(r, o) /\ r.package = o.package
      /\ r.prepare = o.prepare /\ r.receipt = o.receipt /\ r.quarantine = o.quarantine
      /\ r.import = o.import /\ r.finalization = z
      /\ r.sourceAbort = o.sourceAbort /\ r.destAbort = o.destAbort
  BY <1>2 DEF Transfer, SameIdentity
<1> HIDE DEF r
<1>6. ValidProofs(d, r)
  BY <1>1, <1>2, <1>5 DEF ValidProofs, SameIdentity
<1>7. PlacementMatches(d.placements[r.aggregate], t, r)
  BY <1>1, <1>2, <1>5 DEF PlacementMatches, SameIdentity, PreCommit
<1>8. PhaseProofs(r)
  BY <1>1, <1>2, <1>3, <1>5 DEF PhaseProofs, PostCommit
<1>9. DocInv(SetTransfer(d, t, r))
  BY <1>1, <1>4, <1>5, <1>6, <1>7, <1>8, TransferEdit DEF o, Terminal, PostCommit
<1> QED BY <1>9 DEF FinalizeTransferDoc, r, o, z

(* request_abort keeps the invariant.                                      *)
LEMMA RequestAbortKeeps ==
    ASSUME NEW d, DocInv(d), NEW t \in Transfers, RequestAbortOk(d, t)
    PROVE  DocInv(RequestAbortDoc(d, t))
<1> DEFINE o == d.transfers[t]
           r == [o EXCEPT !.phase = "Aborting"]
<1>1. o.phase \in PreCommit /\ BoundAtSource(d.placements[o.aggregate], t, o)
  BY DEF RequestAbortOk
<1>2. /\ d \in Document /\ o \in Transfer /\ ValidProofs(d, o) /\ PhaseProofs(o)
  BY <1>1, Existing DEF PreCommit
<1> HIDE DEF o
<1>3. r \in Transfer
  BY <1>2 DEF Transfer, Phases
<1>4. /\ r.phase = "Aborting" /\ SameIdentity(r, o) /\ r.package = o.package
      /\ r.prepare = o.prepare /\ r.receipt = o.receipt /\ r.quarantine = o.quarantine
      /\ r.import = o.import /\ r.finalization = o.finalization
      /\ r.sourceAbort = o.sourceAbort /\ r.destAbort = o.destAbort
  BY <1>2 DEF Transfer, SameIdentity
<1> HIDE DEF r
<1>5. ValidProofs(d, r)
  BY <1>2, <1>4 DEF ValidProofs, SameIdentity
<1>6. PlacementMatches(d.placements[r.aggregate], t, r)
  BY <1>1, <1>4 DEF PlacementMatches, BoundAtSource, SameIdentity
<1>7. PhaseProofs(r)
  BY <1>1, <1>2, <1>4 DEF PhaseProofs, PreCommit, PostCommit
<1>8. DocInv(SetTransfer(d, t, r))
  BY <1>1, <1>3, <1>4, <1>5, <1>6, <1>7, TransferEdit DEF o, Terminal, PreCommit, PostCommit
<1> QED BY <1>8 DEF RequestAbortDoc, r, o

(* record_abort_cleanup keeps the invariant.                               *)
LEMMA RecordAbortCleanupKeeps ==
    ASSUME NEW d, DocInv(d), NEW t \in Transfers, NEW role \in AbortRoles,
           NEW q \in Proof, NEW g \in Generations,
           RecordAbortCleanupOk(d, t, role, q, g)
    PROVE  DocInv(RecordAbortCleanupDoc(d, t, role, q, g))
<1> DEFINE o == d.transfers[t]
           z == Resolved(q, g)
           r == IF role = "Source" THEN [o EXCEPT !.sourceAbort = z]
                                   ELSE [o EXCEPT !.destAbort = z]
<1>1. /\ o.phase = "Aborting"
      /\ ProofBinds(z, d.assignments[RoleCell(o, role)], RoleMinGen(o, role), o.package)
  BY DEF RecordAbortCleanupOk, ProofAccepted
<1>2. /\ d \in Document /\ o \in Transfer /\ ValidProofs(d, o) /\ PhaseProofs(o)
      /\ PlacementMatches(d.placements[o.aggregate], t, o)
  BY <1>1, Existing
<1>3. z \in Proof
  BY ResolvedType
<1> HIDE DEF o, z
<1>4. r \in Transfer
  BY <1>2, <1>3 DEF Transfer
<1>5. /\ r.phase = o.phase /\ SameIdentity(r, o) /\ r.package = o.package
      /\ r.prepare = o.prepare /\ r.receipt = o.receipt /\ r.quarantine = o.quarantine
      /\ r.import = o.import /\ r.finalization = o.finalization
      /\ r.sourceAbort = IF role = "Source" THEN z ELSE o.sourceAbort
      /\ r.destAbort = IF role = "Source" THEN o.destAbort ELSE z
  BY <1>2 DEF Transfer, SameIdentity
<1> HIDE DEF r
<1>6. ValidProofs(d, r)
  BY <1>1, <1>2, <1>5 DEF ValidProofs, SameIdentity, RoleCell, RoleMinGen
<1>7. PlacementMatches(d.placements[r.aggregate], t, r)
  BY <1>1, <1>2, <1>5 DEF PlacementMatches, BoundAtSource, SameIdentity, PreCommit
<1>8. PhaseProofs(r)
  BY <1>1, <1>2, <1>5 DEF PhaseProofs
<1>9. DocInv(SetTransfer(d, t, r))
  BY <1>1, <1>4, <1>5, <1>6, <1>7, <1>8, TransferEdit DEF o, Terminal
<1> QED BY <1>9 DEF RecordAbortCleanupDoc, r, o, z

-----------------------------------------------------------------------------
(* The operations that move the placement and the phase together.          *)

(* SetTransfer after SetPlacement.                                         *)
LEMMA BothFrames ==
    ASSUME NEW d \in Document, NEW a \in Aggregates, NEW p \in Placement,
           NEW t \in Transfers, NEW r \in Transfer
    PROVE  LET e == SetTransfer(SetPlacement(d, a, p), t, r)
           IN  /\ e \in Document
               /\ e.assignments = d.assignments
               /\ \A b \in Aggregates : e.placements[b] = IF b = a THEN p ELSE d.placements[b]
               /\ \A u \in Transfers : e.transfers[u] = IF u = t THEN r ELSE d.transfers[u]
<1>1. SetPlacement(d, a, p) \in Document
  BY SetTypes
<1>2. SetTransfer(SetPlacement(d, a, p), t, r) \in Document
  BY <1>1, SetTypes
<1> QED BY <1>1, <1>2, Frames

(* prepare_transfer keeps the invariant.                                   *)
LEMMA PrepareTransferKeeps ==
    ASSUME NEW d, DocInv(d), NEW a \in Aggregates, NEW gen, NEW t \in Transfers,
           NEW dst \in Cells, NEW k \in Packages, PrepareTransferOk(d, a, gen, t, dst)
    PROVE  DocInv(PrepareTransferDoc(d, a, t, dst, k))
<1> DEFINE o == d.placements[a]
           p == [o EXCEPT !.state = "Preparing", !.transfer = t]
           r == NewTransfer(d, a, dst, k)
           e == PrepareTransferDoc(d, a, t, dst, k)
<1>1. /\ d \in Document /\ o \in Placement /\ o.cell \in Cells
      /\ o.generation \in Nat /\ MaxGeneration \in Nat
  BY GetTypes, DirectoryAssumption DEF DocInv, Placement
<1>2. /\ d.transfers[t].phase = "Absent" /\ o.state = "Resident" /\ o.transfer = None
      /\ d.assignments[o.cell].state = "Assigned" /\ d.assignments[dst].state = "Assigned"
      /\ o.cell # dst /\ o.generation < MaxGeneration
  BY DEF PrepareTransferOk
<1>3. p \in Placement /\ p.state = "Preparing" /\ p.transfer = t
      /\ p.cell = o.cell /\ p.generation = o.generation
  BY <1>1, Zenon DEF Placement, PlacementStates
<1>4. e \in Document
  BY <1>1, <1>2, PrepareTransferType
<1>5. e.transfers[t] = r
  <2>1. SetPlacement(d, a, p) \in Document
    BY <1>1, <1>3, SetTypes
  <2> QED BY <2>1, Frames DEF PrepareTransferDoc
<1>6. r \in Transfer
  BY <1>4, <1>5, GetTypes
<1>7. /\ r.phase = "Prepared" /\ r.aggregate = a /\ r.source = o.cell /\ r.destination = dst
      /\ r.sourceGen = d.assignments[o.cell].generation
      /\ r.destGen = d.assignments[dst].generation
      /\ r.priorGen = o.generation /\ r.resultGen = o.generation + 1
      /\ r.receipt = None /\ r.prepare = NoProof /\ r.quarantine = NoProof
      /\ r.import = NoProof /\ r.finalization = NoProof
      /\ r.sourceAbort = NoProof /\ r.destAbort = NoProof
  BY DEF NewTransfer, AbsentTransfer
<1>8. /\ e.assignments = d.assignments
      /\ \A b \in Aggregates : e.placements[b] = IF b = a THEN p ELSE d.placements[b]
      /\ \A u \in Transfers : e.transfers[u] = IF u = t THEN r ELSE d.transfers[u]
  BY <1>1, <1>3, <1>6, BothFrames DEF PrepareTransferDoc
<1> HIDE DEF e, r, p, o
<1>9. o.generation # 0
  BY <1>2 DEF DocInv, ValidPlacement, o
<1>10. ValidPlacement(p)
  BY <1>3, <1>9, DirectoryAssumption DEF ValidPlacement
<1>11. ValidTransferIdentity(r)
  BY <1>1, <1>2, <1>7, <1>9 DEF DocInv, ValidAssignment, ValidTransferIdentity
<1>12. ValidProofs(d, r) /\ PhaseProofs(r)
  BY <1>7 DEF ValidProofs, PhaseProofs, PostCommit
<1>13. PlacementMatches(p, t, r)
  BY <1>3, <1>7 DEF PlacementMatches, BoundAtSource, PreCommit
<1>14. ASSUME NEW u \in Transfers \ {t}, d.transfers[u].phase # "Absent",
              d.transfers[u].aggregate = a
       PROVE  PlacementMatches(p, u, d.transfers[u])
  <2>1. PlacementMatches(o, u, d.transfers[u])
    BY <1>14, Existing DEF o
  <2>2. d.transfers[u].phase \notin PreCommit \cup {"Aborting", "Committed"}
    BY <1>2, <2>1 DEF PlacementMatches, BoundAtSource, BoundInTransit, PreCommit
  <2> QED BY <1>3, <2>1, <2>2 DEF PlacementMatches
<1>15. Custody(e, a)
  <2>1. CommittedTransfers(e, a) = CommittedTransfers(d, a)
    BY <1>2, <1>7, <1>8 DEF CommittedTransfers, PostCommit
  <2>2. \A u \in CommittedTransfers(d, a) : e.transfers[u] = d.transfers[u]
    BY <1>2, <1>8 DEF CommittedTransfers, PostCommit
  <2>3. Custody(d, a)
    BY DEF DocInv
  <2> QED BY <1>3, <1>8, <2>1, <2>2, <2>3 DEF Custody, o
<1>16. DocInv(e)
  BY <1>2, <1>3, <1>4, <1>6, <1>7, <1>8, <1>10, <1>11, <1>12, <1>13, <1>14, <1>15, SagaEdit
  DEF PostCommit
<1> QED BY <1>16 DEF e

(* The commit point: only the bound transfer matches a placement in        *)
(* Preparing, every earlier commit of the aggregate has a smaller          *)
(* generation, so the chain of custody is extended at its end.             *)
LEMMA CommitTransferKeeps ==
    ASSUME NEW d, DocInv(d), NEW t \in Transfers, NEW gen, CommitTransferOk(d, t, gen)
    PROVE  DocInv(CommitTransferDoc(d, t))
<1> DEFINE o == d.transfers[t]
           a == o.aggregate
           w == d.placements[a]
           p == [w EXCEPT !.cell = o.destination, !.generation = o.resultGen,
                          !.state = "InTransit"]
           r == [o EXCEPT !.phase = "Committed"]
           e == CommitTransferDoc(d, t)
<1>1. /\ o.phase = "Quarantined" /\ BoundAtSource(w, t, o)
      /\ d.assignments[o.source].state = "Assigned"
      /\ d.assignments[o.destination].state = "Assigned"
  BY DEF CommitTransferOk
<1>2. /\ d \in Document /\ o \in Transfer /\ ValidProofs(d, o) /\ PhaseProofs(o)
      /\ ValidTransferIdentity(o)
  BY <1>1, Existing DEF DocInv, ValidTransfer
<1>3. a \in Aggregates /\ w \in Placement
  BY <1>2, GetTypes DEF Transfer
<1> HIDE DEF o, w
<1>4. /\ p \in Placement /\ p.state = "InTransit" /\ p.cell = o.destination
      /\ p.generation = o.resultGen /\ p.transfer = t
  BY <1>1, <1>2, <1>3, Zenon DEF Placement, PlacementStates, Transfer, BoundAtSource
<1>5. r \in Transfer
  BY <1>2 DEF Transfer, Phases, PostCommit
<1>6. /\ r.phase = "Committed" /\ SameIdentity(r, o) /\ r.package = o.package
      /\ r.prepare = o.prepare /\ r.receipt = o.receipt /\ r.quarantine = o.quarantine
      /\ r.import = o.import /\ r.finalization = o.finalization
      /\ r.sourceAbort = o.sourceAbort /\ r.destAbort = o.destAbort
  BY <1>2 DEF Transfer, SameIdentity
<1>7. /\ e \in Document /\ e.assignments = d.assignments
      /\ \A b \in Aggregates : e.placements[b] = IF b = a THEN p ELSE d.placements[b]
      /\ \A u \in Transfers : e.transfers[u] = IF u = t THEN r ELSE d.transfers[u]
  BY <1>2, <1>3, <1>4, <1>5, BothFrames DEF CommitTransferDoc, o, w
<1>8. r.aggregate = a
  BY <1>6 DEF SameIdentity
<1> HIDE DEF e, r, p, a
<1>9. /\ o.priorGen \in Nat /\ o.resultGen \in Nat /\ o.resultGen = o.priorGen + 1
      /\ o.priorGen # 0 /\ w.generation = o.priorGen /\ w.cell = o.source
  BY <1>1, <1>2, DirectoryAssumption DEF Transfer, ValidTransferIdentity, BoundAtSource
<1>10. ValidPlacement(p)
  BY <1>4, <1>9, DirectoryAssumption DEF ValidPlacement
<1>11. ValidTransferIdentity(r)
  BY <1>2, <1>6 DEF ValidTransferIdentity, SameIdentity
<1>12. ValidProofs(d, r)
  BY <1>2, <1>6 DEF ValidProofs, SameIdentity
<1>13. PhaseProofs(r)
  BY <1>1, <1>2, <1>6 DEF PhaseProofs, PostCommit
<1>14. PlacementMatches(p, t, r)
  BY <1>4, <1>6 DEF PlacementMatches, BoundInTransit, SameIdentity, PreCommit
<1>15. ASSUME NEW u \in Transfers \ {t}, d.transfers[u].phase # "Absent",
              d.transfers[u].aggregate = a
       PROVE  PlacementMatches(p, u, d.transfers[u])
  <2> DEFINE v == d.transfers[u]
  <2>1. PlacementMatches(w, u, v) /\ v \in Transfer
    BY <1>15, Existing DEF w
  <2>2. v.phase \notin PreCommit \cup {"Aborting", "Committed"}
    BY <1>1, <2>1 DEF PlacementMatches, BoundAtSource, BoundInTransit, PreCommit
  <2>3. v.resultGen \in Nat /\ v.priorGen \in Nat
    BY <2>1, DirectoryAssumption DEF Transfer
  <2> HIDE DEF v
  <2>4. v.phase \in {"Imported", "Finalized"} => p.generation > v.resultGen
    BY <1>4, <1>9, <2>1, <2>2, <2>3 DEF PlacementMatches
  <2>5. v.phase = "Aborted" => p.generation > v.priorGen
    BY <1>4, <1>9, <2>1, <2>2, <2>3 DEF PlacementMatches
  <2>6. PlacementMatches(p, u, v)
    BY <2>2, <2>4, <2>5 DEF PlacementMatches
  <2> QED BY <2>6 DEF v
<1>16. Custody(e, a)
  <2>1. /\ CommittedTransfers(e, a) = CommittedTransfers(d, a) \cup {t}
        /\ t \notin CommittedTransfers(d, a)
    BY <1>1, <1>6, <1>7, <1>8 DEF CommittedTransfers, PostCommit, o
  <2>2. Custody(d, a)
    BY <1>3 DEF DocInv
  <2>3. \A u \in CommittedTransfers(d, a) :
            /\ e.transfers[u] = d.transfers[u]
            /\ d.transfers[u].resultGen \in Nat /\ d.transfers[u].priorGen \in Nat
            /\ d.transfers[u].resultGen = d.transfers[u].priorGen + 1
            /\ d.transfers[u].resultGen <= o.priorGen
            /\ d.transfers[u].resultGen = o.priorGen => d.transfers[u].destination = o.source
    <3>1. SUFFICES ASSUME NEW u \in CommittedTransfers(d, a)
                   PROVE  /\ e.transfers[u] = d.transfers[u]
                          /\ d.transfers[u].resultGen \in Nat /\ d.transfers[u].priorGen \in Nat
                          /\ d.transfers[u].resultGen = d.transfers[u].priorGen + 1
                          /\ d.transfers[u].resultGen <= o.priorGen
                          /\ d.transfers[u].resultGen = o.priorGen =>
                                d.transfers[u].destination = o.source
      OBVIOUS
    <3>2. u \in Transfers /\ d.transfers[u].phase # "Absent"
      BY DEF CommittedTransfers, PostCommit
    <3>3. d.transfers[u] \in Transfer /\ ValidTransferIdentity(d.transfers[u])
      BY <3>2, Existing DEF DocInv, ValidTransfer
    <3>4. d.transfers[u].resultGen \in Nat /\ d.transfers[u].priorGen \in Nat
      BY <3>3, DirectoryAssumption DEF Transfer
    <3> QED BY <1>7, <1>9, <2>1, <2>2, <3>2, <3>3, <3>4 DEF Custody, ValidTransferIdentity, w
  <2>4. /\ e.transfers[t] = r /\ r.priorGen = o.priorGen /\ r.resultGen = o.resultGen
        /\ r.source = o.source /\ r.destination = o.destination
        /\ e.placements[a] = p
    BY <1>3, <1>6, <1>7 DEF SameIdentity
  <2>5. ASSUME NEW u \in CommittedTransfers(d, a), NEW v \in CommittedTransfers(d, a) \ {u}
        PROVE  /\ d.transfers[v].priorGen # d.transfers[u].priorGen
               /\ d.transfers[v].priorGen = d.transfers[u].resultGen =>
                     d.transfers[v].source = d.transfers[u].destination
    BY <2>2, <2>5 DEF Custody
  <2>6. \A u \in CommittedTransfers(d, a) :
            /\ e.transfers[u].resultGen < p.generation
            /\ e.transfers[u].priorGen < r.priorGen
            /\ e.transfers[u].priorGen # r.resultGen
            /\ r.priorGen = e.transfers[u].resultGen => r.source = e.transfers[u].destination
    BY <1>4, <1>9, <2>3, <2>4
  <2>7. \A u \in CommittedTransfers(d, a) : \A v \in CommittedTransfers(d, a) \ {u} :
            /\ e.transfers[v].priorGen # e.transfers[u].priorGen
            /\ e.transfers[v].priorGen = e.transfers[u].resultGen =>
                  e.transfers[v].source = e.transfers[u].destination
    BY <2>3, <2>5
  <2>8. /\ r.resultGen = p.generation /\ p.cell = r.destination
        /\ r.priorGen \in Nat /\ p.generation \in Nat
        /\ \A u \in CommittedTransfers(d, a) :
              e.transfers[u].priorGen \in Nat /\ e.transfers[u].resultGen \in Nat
    BY <1>4, <1>9, <2>3, <2>4
  <2> QED BY <2>1, <2>4, <2>6, <2>7, <2>8 DEF Custody
<1>17. DocInv(e)
  BY <1>1, <1>4, <1>5, <1>6, <1>7, <1>8, <1>10, <1>11, <1>12, <1>13, <1>14, <1>15, <1>16, SagaEdit
  DEF SameIdentity, PostCommit, a, o
<1> QED BY <1>17 DEF e

(* Import makes the aggregate resident where the commit placed it.         *)
LEMMA RecordImportedKeeps ==
    ASSUME NEW d, DocInv(d), NEW t \in Transfers, NEW q \in Proof, NEW g \in Generations,
           RecordImportedOk(d, t, q, g)
    PROVE  DocInv(RecordImportedDoc(d, t, q, g))
<1> DEFINE o == d.transfers[t]
           a == o.aggregate
           w == d.placements[a]
           z == Resolved(q, g)
           p == [w EXCEPT !.state = "Resident", !.transfer = None]
           r == [o EXCEPT !.phase = "Imported", !.import = z]
           e == RecordImportedDoc(d, t, q, g)
<1>1. /\ o.phase = "Committed" /\ BoundInTransit(w, t, o) /\ q.receipt = o.receipt
      /\ ProofBinds(z, d.assignments[o.destination], o.destGen, o.package)
  BY DEF RecordImportedOk, ProofAccepted
<1>2. /\ d \in Document /\ o \in Transfer /\ ValidProofs(d, o) /\ PhaseProofs(o)
      /\ ValidTransferIdentity(o)
  BY <1>1, Existing DEF DocInv, ValidTransfer
<1>3. a \in Aggregates /\ w \in Placement
  BY <1>2, GetTypes DEF Transfer
<1>4. z \in Proof /\ z # NoProof /\ z.receipt = o.receipt
  BY <1>1, ResolvedType, BindsNotEmpty DEF Resolved, Proof
<1> HIDE DEF o, w, z
<1>5. /\ p \in Placement /\ p.state = "Resident" /\ p.transfer = None
      /\ p.cell = w.cell /\ p.generation = w.generation
  BY <1>3, Zenon DEF Placement, PlacementStates
<1>6. r \in Transfer
  BY <1>2, <1>4, Zenon DEF Transfer, Phases, PostCommit
<1>7. /\ r.phase = "Imported" /\ SameIdentity(r, o) /\ r.package = o.package
      /\ r.prepare = o.prepare /\ r.receipt = o.receipt /\ r.quarantine = o.quarantine
      /\ r.import = z /\ r.finalization = o.finalization
      /\ r.sourceAbort = o.sourceAbort /\ r.destAbort = o.destAbort
  BY <1>2 DEF Transfer, SameIdentity
<1>8. /\ e \in Document /\ e.assignments = d.assignments
      /\ \A b \in Aggregates : e.placements[b] = IF b = a THEN p ELSE d.placements[b]
      /\ \A u \in Transfers : e.transfers[u] = IF u = t THEN r ELSE d.transfers[u]
  BY <1>2, <1>3, <1>5, <1>6, BothFrames DEF RecordImportedDoc, Settle, o, w, z
<1>9. r.aggregate = a
  BY <1>7 DEF SameIdentity
<1> HIDE DEF e, r, p, a
<1>10. ValidPlacement(p)
  BY <1>1, <1>2, <1>5, DirectoryAssumption
  DEF ValidPlacement, BoundInTransit, ValidTransferIdentity, Transfer
<1>11. ValidTransferIdentity(r)
  BY <1>2, <1>7 DEF ValidTransferIdentity, SameIdentity
<1>12. ValidProofs(d, r)
  BY <1>1, <1>2, <1>4, <1>7 DEF ValidProofs, SameIdentity
<1>13. PhaseProofs(r)
  BY <1>1, <1>2, <1>4, <1>7 DEF PhaseProofs, PostCommit
<1>14. PlacementMatches(p, t, r)
  BY <1>1, <1>5, <1>7 DEF PlacementMatches, BoundInTransit, SameIdentity, PreCommit
<1>15. ASSUME NEW u \in Transfers \ {t}, d.transfers[u].phase # "Absent",
              d.transfers[u].aggregate = a
       PROVE  PlacementMatches(p, u, d.transfers[u])
  <2>1. PlacementMatches(w, u, d.transfers[u])
    BY <1>15, Existing DEF w
  <2>2. d.transfers[u].phase \notin PreCommit \cup {"Aborting", "Committed"}
    BY <1>1, <2>1 DEF PlacementMatches, BoundAtSource, BoundInTransit, PreCommit
  <2> QED BY <1>5, <2>1, <2>2 DEF PlacementMatches
<1>16. Custody(e, a)
  BY <1>1, <1>3, <1>5, <1>7, <1>8, CustodyKept DEF PostCommit, o, w
<1>17. d.assignments[o.source].state = "Assigned" /\ d.assignments[o.destination].state = "Assigned"
  BY <1>1, <1>2 DEF DocInv, PinsHold, Pins, Terminal, Transfer, o
<1>18. DocInv(e)
  BY <1>5, <1>6, <1>7, <1>8, <1>9, <1>10, <1>11, <1>12, <1>13, <1>14, <1>15, <1>16, <1>17, SagaEdit
  DEF SameIdentity, a, o
<1> QED BY <1>18 DEF e

(* A finished abort makes the aggregate resident where it has always been. *)
LEMMA FinalizeAbortKeeps ==
    ASSUME NEW d, DocInv(d), NEW t \in Transfers, FinalizeAbortOk(d, t)
    PROVE  DocInv(FinalizeAbortDoc(d, t))
<1> DEFINE o == d.transfers[t]
           a == o.aggregate
           w == d.placements[a]
           p == [w EXCEPT !.state = "Resident", !.transfer = None]
           r == [o EXCEPT !.phase = "Aborted"]
           e == FinalizeAbortDoc(d, t)
<1>1. /\ o.phase = "Aborting" /\ BoundAtSource(w, t, o)
      /\ o.sourceAbort # NoProof /\ o.destAbort # NoProof
  BY DEF FinalizeAbortOk
<1>2. /\ d \in Document /\ o \in Transfer /\ ValidProofs(d, o) /\ PhaseProofs(o)
      /\ ValidTransferIdentity(o)
  BY <1>1, Existing DEF DocInv, ValidTransfer
<1>3. a \in Aggregates /\ w \in Placement
  BY <1>2, GetTypes DEF Transfer
<1> HIDE DEF o, w
<1>4. /\ p \in Placement /\ p.state = "Resident" /\ p.transfer = None
      /\ p.cell = w.cell /\ p.generation = w.generation
  BY <1>3, Zenon DEF Placement, PlacementStates
<1>5. r \in Transfer
  BY <1>2 DEF Transfer, Phases
<1>6. /\ r.phase = "Aborted" /\ SameIdentity(r, o) /\ r.package = o.package
      /\ r.prepare = o.prepare /\ r.receipt = o.receipt /\ r.quarantine = o.quarantine
      /\ r.import = o.import /\ r.finalization = o.finalization
      /\ r.sourceAbort = o.sourceAbort /\ r.destAbort = o.destAbort
  BY <1>2 DEF Transfer, SameIdentity
<1>7. /\ e \in Document /\ e.assignments = d.assignments
      /\ \A b \in Aggregates : e.placements[b] = IF b = a THEN p ELSE d.placements[b]
      /\ \A u \in Transfers : e.transfers[u] = IF u = t THEN r ELSE d.transfers[u]
  BY <1>2, <1>3, <1>4, <1>5, BothFrames DEF FinalizeAbortDoc, Settle, o, w
<1>8. r.aggregate = a
  BY <1>6 DEF SameIdentity
<1> HIDE DEF e, r, p, a
<1>9. ValidPlacement(p)
  BY <1>1, <1>2, <1>4, DirectoryAssumption
  DEF ValidPlacement, BoundAtSource, ValidTransferIdentity
<1>10. ValidTransferIdentity(r)
  BY <1>2, <1>6 DEF ValidTransferIdentity, SameIdentity
<1>11. ValidProofs(d, r)
  BY <1>2, <1>6 DEF ValidProofs, SameIdentity
<1>12. PhaseProofs(r)
  BY <1>1, <1>2, <1>6 DEF PhaseProofs, PostCommit
<1>13. PlacementMatches(p, t, r)
  BY <1>1, <1>4, <1>6 DEF PlacementMatches, BoundAtSource, SameIdentity, PreCommit
<1>14. ASSUME NEW u \in Transfers \ {t}, d.transfers[u].phase # "Absent",
              d.transfers[u].aggregate = a
       PROVE  PlacementMatches(p, u, d.transfers[u])
  <2>1. PlacementMatches(w, u, d.transfers[u])
    BY <1>14, Existing DEF w
  <2>2. d.transfers[u].phase \notin PreCommit \cup {"Aborting", "Committed"}
    BY <1>1, <2>1 DEF PlacementMatches, BoundAtSource, BoundInTransit, PreCommit
  <2> QED BY <1>4, <2>1, <2>2 DEF PlacementMatches
<1>15. Custody(e, a)
  BY <1>1, <1>3, <1>4, <1>6, <1>7, CustodyKept DEF PostCommit, o, w
<1>16. DocInv(e)
  BY <1>1, <1>4, <1>5, <1>6, <1>7, <1>8, <1>9, <1>10, <1>11, <1>12, <1>13, <1>14, <1>15, SagaEdit
  DEF SameIdentity, Terminal, PostCommit, a, o
<1> QED BY <1>16 DEF e

-----------------------------------------------------------------------------
(* The theorems.                                                           *)

DirectoryInv ==
    /\ DocInv(doc)
    /\ DocInv(disk)
    /\ open \in BOOLEAN

(* A new universe.                                                         *)
LEMMA InitialDocInv == DocInv(InitialDocument)
<1> DEFINE d == InitialDocument
<1>1. d \in Document
  BY AbsentTypes, DirectoryAssumption DEF InitialDocument, Document
<1>2. /\ \A c \in Cells : d.assignments[c] = CanonicalAssignment
      /\ \A a \in Aggregates : d.placements[a] = AbsentPlacement
      /\ \A t \in Transfers : d.transfers[t] = AbsentTransfer
  BY DEF InitialDocument
<1> HIDE DEF d
<1>3. ValidAssignment(CanonicalAssignment)
  BY DirectoryAssumption DEF CanonicalAssignment, ValidAssignment, ValidHistory, Generations
<1>4. ValidPlacement(AbsentPlacement)
  BY DEF AbsentPlacement, ValidPlacement
<1>5. \A t \in Transfers : d.transfers[t].phase = "Absent"
  BY <1>2 DEF AbsentTransfer
<1>6. \A t \in Transfers : ValidTransfer(d, t)
  BY <1>5 DEF ValidTransfer
<1>7. PinsHold(d)
  BY <1>5 DEF PinsHold, Pins
<1>8. \A a \in Aggregates : CommittedTransfers(d, a) = {}
  BY <1>5 DEF CommittedTransfers, PostCommit
<1>9. \A a \in Aggregates : Custody(d, a)
  BY <1>8 DEF Custody
<1>10. DocInv(d)
  BY <1>1, <1>2, <1>3, <1>4, <1>6, <1>7, <1>9 DEF DocInv
<1> QED BY <1>10 DEF d

(* Every operation, with every outcome of its write, keeps the invariant   *)
(* in memory and in the file.                                              *)
LEMMA DirectoryInductive ==
    ASSUME DirectoryInv, [NextDirectory]_dirVars
    PROVE  DirectoryInv'
<1> USE DEF DirectoryInv
<1>1. CASE OpenDirectory
  BY <1>1 DEF OpenDirectory
<1>2. CASE CloseDirectory
  BY <1>2, Zenon DEF CloseDirectory
<1>3. CASE AssignmentStep
  <2>1. PICK c \in Cells, gen \in 0..MaxGeneration, h \in Holders, o \in Outcomes :
            \/ \E f \in Fences : Claim(c, gen, h, f, o)
            \/ \E f \in Fences : RecoverAssignment(c, gen, h, f, o)
            \/ Release(c, gen, h, o)
    BY <1>3 DEF AssignmentStep
  <2>2. ASSUME NEW f \in Fences, Claim(c, gen, h, f, o) \/ RecoverAssignment(c, gen, h, f, o)
        PROVE  DirectoryInv'
    <3>1. DocInv(AssignDoc(doc, c, h, f))
      BY <2>2, AssignKeeps DEF Claim, RecoverAssignment
    <3>2. CommitDocument(AssignDoc(doc, c, h, f), o)
      BY <2>2 DEF Claim, RecoverAssignment
    <3> QED BY <3>1, <3>2, CommitKeeps DEF CommitDocument
  <2>3. CASE Release(c, gen, h, o)
    <3>1. DocInv(ReleaseDoc(doc, c)) /\ CommitDocument(ReleaseDoc(doc, c), o)
      BY <2>3, ReleaseKeeps DEF Release
    <3> QED BY <3>1, CommitKeeps DEF CommitDocument
  <2> QED BY <2>1, <2>2, <2>3
<1>4. CASE \E a \in Aggregates, c \in Cells, o \in Outcomes : RegisterPlacement(a, c, o)
  <2>1. PICK a \in Aggregates, c \in Cells, o \in Outcomes : RegisterPlacement(a, c, o)
    BY <1>4
  <2>2. DocInv(RegisterPlacementDoc(doc, a, c)) /\ CommitDocument(RegisterPlacementDoc(doc, a, c), o)
    BY <2>1, RegisterPlacementKeeps DEF RegisterPlacement
  <2> QED BY <2>2, CommitKeeps DEF CommitDocument
<1>5. ASSUME NEW t \in Transfers, TransferStep(t)
      PROVE  DirectoryInv'
  <2>1. PICK o \in Outcomes :
        \/ \E a \in Aggregates, gen \in Generations, dst \in Cells, k \in Packages :
              PrepareTransfer(a, gen, t, dst, k, o)
        \/ \E q \in CellProofs, g \in Generations : RecordSourcePrepared(t, q, g, o)
        \/ \E q \in ReceiptProofs, g \in Generations : RecordQuarantine(t, q, g, o)
        \/ \E gen \in Generations : CommitTransfer(t, gen, o)
        \/ \E q \in ReceiptProofs, g \in Generations : RecordImported(t, q, g, o)
        \/ \E q \in CellProofs, g \in Generations : FinalizeTransfer(t, q, g, o)
        \/ RequestAbort(t, o)
        \/ \E role \in AbortRoles, q \in CellProofs, g \in Generations :
              RecordAbortCleanup(t, role, q, g, o)
        \/ FinalizeAbort(t, o)
    BY <1>5 DEF TransferStep
  <2>2. ASSUME NEW next, DocInv(next), CommitDocument(next, o)
        PROVE  DirectoryInv'
    BY <2>2, CommitKeeps DEF CommitDocument
  <2>3. ASSUME NEW a \in Aggregates, NEW gen \in Generations, NEW dst \in Cells,
               NEW k \in Packages, PrepareTransfer(a, gen, t, dst, k, o)
        PROVE  DirectoryInv'
    BY <2>2, <2>3, PrepareTransferKeeps DEF PrepareTransfer
  <2>4. ASSUME NEW q \in CellProofs, NEW g \in Generations, RecordSourcePrepared(t, q, g, o)
        PROVE  DirectoryInv'
    BY <2>2, <2>4, ProofTypes, RecordSourcePreparedKeeps DEF RecordSourcePrepared
  <2>5. ASSUME NEW q \in ReceiptProofs, NEW g \in Generations, RecordQuarantine(t, q, g, o)
        PROVE  DirectoryInv'
    BY <2>2, <2>5, ProofTypes, RecordQuarantineKeeps DEF RecordQuarantine
  <2>6. ASSUME NEW gen \in Generations, CommitTransfer(t, gen, o)
        PROVE  DirectoryInv'
    BY <2>2, <2>6, CommitTransferKeeps DEF CommitTransfer
  <2>7. ASSUME NEW q \in ReceiptProofs, NEW g \in Generations, RecordImported(t, q, g, o)
        PROVE  DirectoryInv'
    BY <2>2, <2>7, ProofTypes, RecordImportedKeeps DEF RecordImported
  <2>8. ASSUME NEW q \in CellProofs, NEW g \in Generations, FinalizeTransfer(t, q, g, o)
        PROVE  DirectoryInv'
    BY <2>2, <2>8, ProofTypes, FinalizeTransferKeeps DEF FinalizeTransfer
  <2>9. CASE RequestAbort(t, o)
    BY <2>2, <2>9, RequestAbortKeeps DEF RequestAbort
  <2>10. ASSUME NEW role \in AbortRoles, NEW q \in CellProofs, NEW g \in Generations,
                RecordAbortCleanup(t, role, q, g, o)
         PROVE  DirectoryInv'
    BY <2>2, <2>10, ProofTypes, RecordAbortCleanupKeeps DEF RecordAbortCleanup
  <2>11. CASE FinalizeAbort(t, o)
    BY <2>2, <2>11, FinalizeAbortKeeps DEF FinalizeAbort
  <2> QED BY <2>1, <2>3, <2>4, <2>5, <2>6, <2>7, <2>8, <2>9, <2>10, <2>11
<1>6. CASE UNCHANGED dirVars
  BY <1>6 DEF dirVars
<1> QED BY <1>1, <1>2, <1>3, <1>4, <1>5, <1>6 DEF NextDirectory

(* The invariant holds in every behaviour of the directory.                *)
THEOREM DirectoryInvariant == SpecDirectory => []DirectoryInv
<1>1. InitDirectory => DirectoryInv
  BY InitialDocInv DEF InitDirectory, DirectoryInv
<1>2. DirectoryInv /\ [NextDirectory]_dirVars => DirectoryInv'
  BY DirectoryInductive
<1> QED BY <1>1, <1>2, PTL DEF SpecDirectory

(* Memory and file hold well-formed documents for ever, for every number   *)
(* of cells, aggregates and transfers.                                     *)
THEOREM TypeCorrect == SpecDirectory => []TypeOK
<1>1. DirectoryInv => TypeOK
  BY DEF DirectoryInv, DocInv, TypeOK
<1> QED BY <1>1, DirectoryInvariant, PTL

(* Every cell's generations map to strictly increasing fences, so a cell   *)
(* event's fence resolves to one generation.                               *)
THEOREM FencesCorrect == SpecDirectory => []FenceHistoriesValid
<1>1. DirectoryInv => FenceHistoriesValid
  BY DEF DirectoryInv, DocInv, FenceHistoriesValid
<1> QED BY <1>1, DirectoryInvariant, PTL

(* Every document the operations write passes the transfer and placement   *)
(* checks of validate_document, the prepare-proof clause apart.            *)
THEOREM TransfersCorrect == SpecDirectory => []TransfersConsistent
<1>1. DirectoryInv => TransfersConsistent
  BY DEF DirectoryInv, DocInv, TransfersConsistent
<1> QED BY <1>1, DirectoryInvariant, PTL

(* A cell of an unfinished transfer is never released.                     *)
THEOREM PinsCorrect == SpecDirectory => []PinnedCellsAssigned
<1>1. DirectoryInv => PinnedCellsAssigned
  BY DEF DirectoryInv, DocInv, PinnedCellsAssigned
<1> QED BY <1>1, DirectoryInvariant, PTL

(* The committed transfers of an aggregate form one chain of custody.      *)
THEOREM CustodyCorrect == SpecDirectory => []CustodyChain
<1>1. DirectoryInv => CustodyChain
  BY DEF DirectoryInv, DocInv, CustodyChain
<1> QED BY <1>1, DirectoryInvariant, PTL

-----------------------------------------------------------------------------
(* How one write changes the document.  Two facts that validate_document   *)
(* does not check come with it: a transfer the map lacks holds no proof,   *)
(* and a greater generation always has a greater fence (the validation     *)
(* compares neighbours only).                                              *)

Blank(d) ==
    \A t \in Transfers : d.transfers[t].phase = "Absent" => d.transfers[t] = AbsentTransfer

OrderedHistory(x) ==
    \A g, h \in Generations : g < h /\ h <= x.generation => x.history[g] < x.history[h]

Ordered(d) == \A c \in Cells : OrderedHistory(d.assignments[c])

DocFull(d) == DocInv(d) /\ Blank(d) /\ Ordered(d)

Advances(d, e) ==
    /\ CommitsMove(d, e)
    /\ NothingTakenBack(d, e)
    /\ Blank(e)
    /\ Ordered(e)

(* A document advances to itself.                                          *)
LEMMA AdvancesReflexive ==
    ASSUME NEW d, Blank(d), Ordered(d)
    PROVE  Advances(d, d)
BY DEF Advances, CommitsMove, NothingTakenBack, RecordAdvances, FencesKept

(* The revision does not matter to it.                                     *)
LEMMA AdvancesRevision ==
    ASSUME NEW d, NEW e, e \in Document, Advances(d, e), NEW n
    PROVE  Advances(d, [e EXCEPT !.revision = n])
<1> DEFINE w == [e EXCEPT !.revision = n]
<1>1. /\ w.assignments = e.assignments
      /\ w.placements = e.placements
      /\ w.transfers = e.transfers
  BY DEF Document
<1> HIDE DEF w
<1>2. Advances(d, w)
  BY <1>1 DEF Advances, CommitsMove, NothingTakenBack, Blank, Ordered
<1> QED BY <1>2 DEF w

(* Replacing one assignment by one that keeps every fence.                 *)
LEMMA AssignmentAdvances ==
    ASSUME NEW d, DocFull(d), NEW c \in Cells, NEW x, FencesKept(d.assignments[c], x),
           OrderedHistory(x)
    PROVE  Advances(d, SetAssignment(d, c, x))
<1> DEFINE e == SetAssignment(d, c, x)
<1>1. d \in Document
  BY DEF DocFull, DocInv
<1>2. /\ e.placements = d.placements
      /\ e.transfers = d.transfers
      /\ \A b \in Cells : e.assignments[b] = IF b = c THEN x ELSE d.assignments[b]
  BY <1>1, Frames
<1> HIDE DEF e
<1>3. CommitsMove(d, e)
  BY <1>2 DEF CommitsMove
<1>4. NothingTakenBack(d, e)
  BY <1>2 DEF NothingTakenBack, RecordAdvances, FencesKept
<1>5. Blank(e) /\ Ordered(e)
  BY <1>2 DEF DocFull, Blank, Ordered
<1>6. Advances(d, e)
  BY <1>3, <1>4, <1>5 DEF Advances
<1> QED BY <1>6 DEF e

(* claim and recover_assignment: the successor's fence is the greatest.    *)
LEMMA AssignAdvances ==
    ASSUME NEW d, DocFull(d), NEW c \in Cells, NEW gen, NEW h \in Holders, NEW f \in Fences,
           ClaimOk(d, c, gen, f) \/ RecoverAssignmentOk(d, c, gen, f)
    PROVE  Advances(d, AssignDoc(d, c, h, f))
<1> DEFINE x == d.assignments[c]
           y == Issue(x, h, f)
           n == x.generation + 1
<1>1. x \in Assignment /\ ValidAssignment(x) /\ OrderedHistory(x)
  BY GetTypes DEF DocFull, DocInv, Ordered
<1>2. x.generation < MaxGeneration /\ f > x.fence
  BY DEF ClaimOk, RecoverAssignmentOk
<1>3. /\ x.generation \in Nat /\ x.fence \in Nat /\ f \in Nat
      /\ n \in Generations /\ MaxGeneration \in Nat
      /\ \A g \in Generations : x.history[g] \in Nat
  BY <1>1, <1>2, DirectoryAssumption DEF Assignment, Generations, Fences
<1>4. /\ y.generation = n
      /\ \A g \in Generations : y.history[g] = IF g = n THEN f ELSE x.history[g]
  BY <1>1, <1>3 DEF Issue, Assignment
<1>5. x.generation # 0 => x.generation \in Generations /\ x.history[x.generation] = x.fence
  BY <1>1, <1>2, <1>3 DEF ValidAssignment, ValidHistory, Generations
<1>6. FencesKept(x, y)
  BY <1>1, <1>2, IssueExtends DEF FencesKept
<1> HIDE DEF y, x
<1>7. ASSUME NEW g \in Generations, NEW k \in Generations, g < k, k <= y.generation
      PROVE  y.history[g] < y.history[k]
  <2>1. CASE k = n
    <3>1. g <= x.generation /\ g # n /\ x.generation # 0
      BY <1>3, <1>4, <1>7, <2>1 DEF Generations
    <3>2. x.history[g] <= x.fence
      <4>1. CASE g = x.generation
        BY <1>3, <1>5, <3>1, <4>1
      <4>2. CASE g # x.generation
        <5>1. g < x.generation /\ x.generation \in Generations
          BY <1>3, <1>5, <3>1, <4>2 DEF Generations
        <5>2. x.history[g] < x.history[x.generation]
          BY <1>1, <1>3, <5>1 DEF OrderedHistory
        <5> QED BY <1>3, <1>5, <3>1, <5>2
      <4> QED BY <4>1, <4>2
    <3> QED BY <1>2, <1>3, <1>4, <2>1, <3>1, <3>2
  <2>2. CASE k # n
    <3>1. k <= x.generation /\ g # n
      BY <1>3, <1>4, <1>7, <2>2 DEF Generations
    <3> QED BY <1>1, <1>4, <1>7, <2>2, <3>1 DEF OrderedHistory
  <2> QED BY <2>1, <2>2
<1>8. OrderedHistory(y)
  BY <1>7 DEF OrderedHistory
<1> QED BY <1>6, <1>8, AssignmentAdvances DEF AssignDoc, x, y

(* release leaves the history alone.                                       *)
LEMMA ReleaseAdvances ==
    ASSUME NEW d, DocFull(d), NEW c \in Cells
    PROVE  Advances(d, ReleaseDoc(d, c))
<1> DEFINE x == d.assignments[c]
           y == [x EXCEPT !.state = "Sleeping", !.holder = None]
<1>1. x \in Assignment /\ OrderedHistory(x)
  BY GetTypes DEF DocFull, DocInv, Ordered
<1>2. y.history = x.history /\ y.generation = x.generation
  BY <1>1 DEF Assignment
<1> HIDE DEF x, y
<1>3. FencesKept(x, y) /\ OrderedHistory(y)
  BY <1>1, <1>2 DEF FencesKept, OrderedHistory
<1> QED BY <1>3, AssignmentAdvances DEF ReleaseDoc, x, y

(* register_placement gives a placement to an aggregate that had none.     *)
LEMMA RegisterPlacementAdvances ==
    ASSUME NEW d, DocFull(d), NEW a \in Aggregates, NEW c \in Cells, RegisterPlacementOk(d, a)
    PROVE  Advances(d, RegisterPlacementDoc(d, a, c))
<1> DEFINE p == [state |-> "Resident", cell |-> c, generation |-> 1, transfer |-> None]
           e == RegisterPlacementDoc(d, a, c)
<1>1. d \in Document
  BY DEF DocFull, DocInv
<1>2. /\ e.assignments = d.assignments
      /\ e.transfers = d.transfers
      /\ \A b \in Aggregates : e.placements[b] = IF b = a THEN p ELSE d.placements[b]
  BY <1>1, Frames DEF RegisterPlacementDoc
<1> HIDE DEF e, p
<1>3. CommitsMove(d, e)
  BY <1>2 DEF CommitsMove, RegisterPlacementOk
<1>4. NothingTakenBack(d, e)
  BY <1>2 DEF NothingTakenBack, RecordAdvances, FencesKept
<1>5. Blank(e) /\ Ordered(e)
  BY <1>2 DEF DocFull, Blank, Ordered
<1>6. Advances(d, e)
  BY <1>3, <1>4, <1>5 DEF Advances
<1> QED BY <1>6 DEF e

(* Replacing a transfer by one that advances it, and the placement of its  *)
(* aggregate by one that stays where it is or that the transfer moves.     *)
LEMMA SagaAdvances ==
    ASSUME NEW d, DocFull(d), NEW t \in Transfers, NEW r, NEW a \in Aggregates, NEW p, NEW e,
           e.assignments = d.assignments,
           \A b \in Aggregates : e.placements[b] = IF b = a THEN p ELSE d.placements[b],
           \A u \in Transfers : e.transfers[u] = IF u = t THEN r ELSE d.transfers[u],
           r.phase # "Absent",
           RecordAdvances(d.transfers[t], r),
           LET o == d.transfers[t]
               w == d.placements[a]
           IN  \/ p.cell = w.cell /\ p.generation = w.generation
               \/ /\ w.transfer = t /\ o.phase = "Quarantined" /\ r.phase = "Committed"
                  /\ p.cell = o.destination /\ p.generation = w.generation + 1
                  /\ o.prepare # NoProof /\ o.quarantine # NoProof
                  /\ \A c \in {o.source, o.destination} : d.assignments[c].state = "Assigned"
    PROVE  Advances(d, e)
<1>1. CommitsMove(d, e)
  <2> SUFFICES ASSUME NEW b \in Aggregates, d.placements[b].state # "Absent",
                      <<e.placements[b].cell, e.placements[b].generation>>
                        # <<d.placements[b].cell, d.placements[b].generation>>
               PROVE  \E u \in Transfers :
                        LET s == d.transfers[u]
                        IN  /\ d.placements[b].transfer = u
                            /\ s.phase = "Quarantined"
                            /\ e.transfers[u].phase = "Committed"
                            /\ e.placements[b].cell = s.destination
                            /\ e.placements[b].generation = d.placements[b].generation + 1
                            /\ s.prepare # NoProof
                            /\ s.quarantine # NoProof
                            /\ \A c \in {s.source, s.destination} :
                                  d.assignments[c].state = "Assigned"
    BY DEF CommitsMove
  <2>1. b = a
    OBVIOUS
  <2> QED BY <2>1
<1>2. NothingTakenBack(d, e)
  BY DEF NothingTakenBack, RecordAdvances, FencesKept
<1>3. Blank(e) /\ Ordered(e)
  BY DEF DocFull, Blank, Ordered
<1> QED BY <1>1, <1>2, <1>3 DEF Advances

(* Replacing one transfer by one that advances it.                         *)
LEMMA TransferAdvances ==
    ASSUME NEW d, DocFull(d), NEW t \in Transfers, NEW r, r.phase # "Absent",
           RecordAdvances(d.transfers[t], r)
    PROVE  Advances(d, SetTransfer(d, t, r))
<1> DEFINE e == SetTransfer(d, t, r)
           a == AnyAggregate
           p == d.placements[a]
<1>1. d \in Document /\ a \in Aggregates
  BY DirectoryAssumption DEF DocFull, DocInv, AnyAggregate
<1>2. /\ e.assignments = d.assignments
      /\ \A b \in Aggregates : e.placements[b] = IF b = a THEN p ELSE d.placements[b]
      /\ \A u \in Transfers : e.transfers[u] = IF u = t THEN r ELSE d.transfers[u]
  BY <1>1, Frames
<1> HIDE DEF e, a
<1>3. Advances(d, e)
  BY <1>1, <1>2, SagaAdvances
<1> QED BY <1>3 DEF e

(* record_source_prepared, record_quarantine, finalize_transfer,           *)
(* request_abort and record_abort_cleanup only add to a transfer.          *)
LEMMA RecordsAdvance ==
    ASSUME NEW d, DocFull(d), NEW t \in Transfers, NEW q, NEW g
    PROVE  /\ RecordSourcePreparedOk(d, t, q, g) =>
                Advances(d, RecordSourcePreparedDoc(d, t, q, g))
           /\ RecordQuarantineOk(d, t, q, g) => Advances(d, RecordQuarantineDoc(d, t, q, g))
           /\ FinalizeTransferOk(d, t, q, g) => Advances(d, FinalizeTransferDoc(d, t, q, g))
           /\ RequestAbortOk(d, t) => Advances(d, RequestAbortDoc(d, t))
           /\ \A role : RecordAbortCleanupOk(d, t, role, q, g) =>
                Advances(d, RecordAbortCleanupDoc(d, t, role, q, g))
<1> DEFINE o == d.transfers[t]
           z == Resolved(q, g)
<1>1. DocInv(d) /\ d \in Document
  BY DEF DocFull, DocInv
<1>2. o \in Transfer /\ (o.phase # "Absent" => PhaseProofs(o))
  BY <1>1, GetTypes, Existing
<1> HIDE DEF o, z
<1>3. ASSUME o.phase = "Prepared", o.prepare = NoProof
      PROVE  LET r == [o EXCEPT !.prepare = z]
             IN  r.phase # "Absent" /\ RecordAdvances(o, r)
  BY <1>2, <1>3 DEF Transfer, RecordAdvances, PhaseProofs, PostCommit, Terminal
<1>4. ASSUME o.phase = "Prepared", o.receipt = None
      PROVE  LET r == [o EXCEPT !.phase = "Quarantined", !.receipt = q.receipt, !.quarantine = z]
             IN  r.phase # "Absent" /\ RecordAdvances(o, r)
  BY <1>2, <1>4 DEF Transfer, RecordAdvances, PhaseProofs, PostCommit, Terminal
<1>5. ASSUME o.phase = "Imported"
      PROVE  LET r == [o EXCEPT !.phase = "Finalized", !.finalization = z]
             IN  r.phase # "Absent" /\ RecordAdvances(o, r)
  BY <1>2, <1>5 DEF Transfer, RecordAdvances, PostCommit, Terminal
<1>6. ASSUME o.phase \in PreCommit
      PROVE  LET r == [o EXCEPT !.phase = "Aborting"]
             IN  r.phase # "Absent" /\ RecordAdvances(o, r)
  BY <1>2, <1>6 DEF Transfer, RecordAdvances, PreCommit, PostCommit, Terminal
<1>7. ASSUME o.phase = "Aborting"
      PROVE  /\ LET r == [o EXCEPT !.sourceAbort = z]
                IN  r.phase # "Absent" /\ RecordAdvances(o, r)
             /\ LET r == [o EXCEPT !.destAbort = z]
                IN  r.phase # "Absent" /\ RecordAdvances(o, r)
  BY <1>2, <1>7 DEF Transfer, RecordAdvances, PostCommit, Terminal
<1>8. RecordSourcePreparedOk(d, t, q, g) => Advances(d, RecordSourcePreparedDoc(d, t, q, g))
  BY <1>3, TransferAdvances, Zenon DEF RecordSourcePreparedOk, RecordSourcePreparedDoc, o, z
<1>9. RecordQuarantineOk(d, t, q, g) => Advances(d, RecordQuarantineDoc(d, t, q, g))
  BY <1>4, TransferAdvances, Zenon DEF RecordQuarantineOk, RecordQuarantineDoc, o, z
<1>10. FinalizeTransferOk(d, t, q, g) => Advances(d, FinalizeTransferDoc(d, t, q, g))
  BY <1>5, TransferAdvances, Zenon DEF FinalizeTransferOk, FinalizeTransferDoc, o, z
<1>11. RequestAbortOk(d, t) => Advances(d, RequestAbortDoc(d, t))
  BY <1>6, TransferAdvances, Zenon DEF RequestAbortOk, RequestAbortDoc, o
<1>12. ASSUME NEW role, RecordAbortCleanupOk(d, t, role, q, g)
       PROVE  Advances(d, RecordAbortCleanupDoc(d, t, role, q, g))
  BY <1>7, <1>12, TransferAdvances, Zenon DEF RecordAbortCleanupOk, RecordAbortCleanupDoc, o, z
<1> QED BY <1>8, <1>9, <1>10, <1>11, <1>12

(* prepare_transfer starts a transfer that holds nothing yet.              *)
LEMMA PrepareTransferAdvances ==
    ASSUME NEW d, DocFull(d), NEW a \in Aggregates, NEW gen, NEW t \in Transfers,
           NEW dst \in Cells, NEW k \in Packages, PrepareTransferOk(d, a, gen, t, dst)
    PROVE  Advances(d, PrepareTransferDoc(d, a, t, dst, k))
<1> DEFINE o == d.placements[a]
           p == [o EXCEPT !.state = "Preparing", !.transfer = t]
           r == NewTransfer(d, a, dst, k)
           e == PrepareTransferDoc(d, a, t, dst, k)
<1>1. d \in Document /\ o \in Placement /\ d.transfers[t] = AbsentTransfer
  BY GetTypes DEF DocFull, DocInv, Blank, PrepareTransferOk
<1>2. p.cell = o.cell /\ p.generation = o.generation
  BY <1>1 DEF Placement
<1>3. r.phase = "Prepared"
  BY DEF NewTransfer, AbsentTransfer
<1>4. RecordAdvances(d.transfers[t], r)
  BY <1>1 DEF AbsentTransfer, RecordAdvances, PostCommit, Terminal
<1>5. SetPlacement(d, a, p) \in Document
  <2>1. p \in Placement
    BY <1>1, Zenon DEF Placement, PlacementStates
  <2> QED BY <1>1, <2>1, SetTypes
<1>6. /\ e.assignments = d.assignments
      /\ \A b \in Aggregates : e.placements[b] = IF b = a THEN p ELSE d.placements[b]
      /\ \A u \in Transfers : e.transfers[u] = IF u = t THEN r ELSE d.transfers[u]
  BY <1>1, <1>5, Frames DEF PrepareTransferDoc
<1> HIDE DEF e, p, r
<1>7. Advances(d, e)
  BY <1>2, <1>3, <1>4, <1>6, SagaAdvances
<1> QED BY <1>7 DEF e

(* commit_transfer moves the placement bound to it, one generation up.     *)
LEMMA CommitTransferAdvances ==
    ASSUME NEW d, DocFull(d), NEW t \in Transfers, NEW gen, CommitTransferOk(d, t, gen)
    PROVE  Advances(d, CommitTransferDoc(d, t))
<1> DEFINE o == d.transfers[t]
           a == o.aggregate
           w == d.placements[a]
           p == [w EXCEPT !.cell = o.destination, !.generation = o.resultGen,
                          !.state = "InTransit"]
           r == [o EXCEPT !.phase = "Committed"]
           e == CommitTransferDoc(d, t)
<1>1. /\ o.phase = "Quarantined" /\ o.prepare # NoProof /\ o.quarantine # NoProof
      /\ d.assignments[o.source].state = "Assigned"
      /\ d.assignments[o.destination].state = "Assigned"
      /\ BoundAtSource(w, t, o)
  BY DEF CommitTransferOk
<1>2. /\ d \in Document /\ o \in Transfer /\ a \in Aggregates /\ w \in Placement
  BY GetTypes DEF DocFull, DocInv, Transfer
<1>3. w.transfer = t /\ o.resultGen = w.generation + 1
  BY <1>1 DEF BoundAtSource, DocFull, DocInv, ValidTransfer, ValidTransferIdentity
<1>4. /\ p \in Placement /\ p.cell = o.destination /\ p.generation = w.generation + 1
      /\ r.phase = "Committed"
  BY <1>2, <1>3, Zenon DEF Placement, PlacementStates, Transfer
<1>5. RecordAdvances(o, r)
  BY <1>1, <1>2 DEF Transfer, RecordAdvances, PostCommit, Terminal
<1>6. SetPlacement(d, a, p) \in Document
  BY <1>2, <1>4, SetTypes
<1>7. /\ e.assignments = d.assignments
      /\ \A b \in Aggregates : e.placements[b] = IF b = a THEN p ELSE d.placements[b]
      /\ \A u \in Transfers : e.transfers[u] = IF u = t THEN r ELSE d.transfers[u]
  BY <1>2, <1>6, Frames DEF CommitTransferDoc
<1> HIDE DEF e, p, r
<1>8. Advances(d, e)
  BY <1>1, <1>2, <1>3, <1>4, <1>5, <1>7, SagaAdvances
<1> QED BY <1>8 DEF e

(* record_imported and finalize_abort settle the aggregate where it is.    *)
LEMMA SettleAdvances ==
    ASSUME NEW d, DocFull(d), NEW t \in Transfers, NEW r \in Transfer, r.phase # "Absent",
           RecordAdvances(d.transfers[t], r)
    PROVE  Advances(d, SetTransfer(Settle(d, d.transfers[t].aggregate), t, r))
<1> DEFINE o == d.transfers[t]
           a == o.aggregate
           w == d.placements[a]
           p == [w EXCEPT !.state = "Resident", !.transfer = None]
           e == SetTransfer(Settle(d, a), t, r)
<1>1. d \in Document /\ o \in Transfer /\ a \in Aggregates /\ w \in Placement
  BY GetTypes DEF DocFull, DocInv, Transfer
<1>2. p \in Placement /\ p.cell = w.cell /\ p.generation = w.generation
  BY <1>1, Zenon DEF Placement, PlacementStates
<1>3. /\ e.assignments = d.assignments
      /\ \A b \in Aggregates : e.placements[b] = IF b = a THEN p ELSE d.placements[b]
      /\ \A u \in Transfers : e.transfers[u] = IF u = t THEN r ELSE d.transfers[u]
  BY <1>1, <1>2, BothFrames DEF Settle
<1> HIDE DEF e, p
<1>4. Advances(d, e)
  BY <1>1, <1>2, <1>3, SagaAdvances
<1> QED BY <1>4 DEF e

(* record_imported and finalize_abort.                                     *)
LEMMA SettlingAdvances ==
    ASSUME NEW d, DocFull(d), NEW t \in Transfers, NEW q \in Proof, NEW g \in Generations
    PROVE  /\ RecordImportedOk(d, t, q, g) => Advances(d, RecordImportedDoc(d, t, q, g))
           /\ FinalizeAbortOk(d, t) => Advances(d, FinalizeAbortDoc(d, t))
<1> DEFINE o == d.transfers[t]
           z == Resolved(q, g)
<1>1. DocInv(d) /\ d \in Document
  BY DEF DocFull, DocInv
<1>2. o \in Transfer /\ z \in Proof /\ (o.phase # "Absent" => PhaseProofs(o))
  BY <1>1, GetTypes, ResolvedType, Existing
<1> HIDE DEF o, z
<1>3. ASSUME o.phase = "Committed"
      PROVE  LET r == [o EXCEPT !.phase = "Imported", !.import = z]
             IN  r \in Transfer /\ r.phase # "Absent" /\ RecordAdvances(o, r)
  BY <1>2, <1>3, Zenon DEF Transfer, Phases, RecordAdvances, PhaseProofs, PostCommit, Terminal
<1>4. ASSUME o.phase = "Aborting"
      PROVE  LET r == [o EXCEPT !.phase = "Aborted"]
             IN  r \in Transfer /\ r.phase # "Absent" /\ RecordAdvances(o, r)
  BY <1>2, <1>4 DEF Transfer, Phases, RecordAdvances, PostCommit, Terminal
<1>5. RecordImportedOk(d, t, q, g) => Advances(d, RecordImportedDoc(d, t, q, g))
  BY <1>3, SettleAdvances, Zenon DEF RecordImportedOk, RecordImportedDoc, o, z
<1>6. FinalizeAbortOk(d, t) => Advances(d, FinalizeAbortDoc(d, t))
  BY <1>4, SettleAdvances, Zenon DEF FinalizeAbortOk, FinalizeAbortDoc, o
<1> QED BY <1>5, <1>6

DirectoryFull ==
    /\ DocFull(doc)
    /\ DocFull(disk)
    /\ open \in BOOLEAN

(* A step that writes a document its predecessor advances to.              *)
Written(next, o) ==
    /\ Usable
    /\ DocInv(next)
    /\ Advances(doc, next)
    /\ CommitDocument(next, o)

(* Every step opens or closes the directory, or writes such a document.    *)
LEMMA EveryStepAdvances ==
    ASSUME DirectoryFull, NextDirectory
    PROVE  OpenDirectory \/ CloseDirectory \/ \E next, o : Written(next, o)
<1>1. DocFull(doc) /\ DocInv(doc)
  BY DEF DirectoryFull, DocFull
<1> USE DEF Written
<1>3. CASE AssignmentStep
  <2>1. PICK c \in Cells, gen \in 0..MaxGeneration, h \in Holders, o \in Outcomes :
            \/ \E f \in Fences : Claim(c, gen, h, f, o)
            \/ \E f \in Fences : RecoverAssignment(c, gen, h, f, o)
            \/ Release(c, gen, h, o)
    BY <1>3 DEF AssignmentStep
  <2>2. ASSUME NEW f \in Fences, Claim(c, gen, h, f, o) \/ RecoverAssignment(c, gen, h, f, o)
        PROVE  Written(AssignDoc(doc, c, h, f), o)
    <3>1. DocInv(AssignDoc(doc, c, h, f)) /\ Advances(doc, AssignDoc(doc, c, h, f))
      BY <1>1, <2>2, AssignKeeps, AssignAdvances DEF Claim, RecoverAssignment
    <3> QED BY <2>2, <3>1 DEF Claim, RecoverAssignment
  <2>3. ASSUME Release(c, gen, h, o)
        PROVE  Written(ReleaseDoc(doc, c), o)
    BY <1>1, <2>3, ReleaseKeeps, ReleaseAdvances DEF Release
  <2> QED BY <2>1, <2>2, <2>3
<1>4. CASE \E a \in Aggregates, c \in Cells, o \in Outcomes : RegisterPlacement(a, c, o)
  <2>1. PICK a \in Aggregates, c \in Cells, o \in Outcomes : RegisterPlacement(a, c, o)
    BY <1>4
  <2>2. Written(RegisterPlacementDoc(doc, a, c), o)
    BY <1>1, <2>1, RegisterPlacementKeeps, RegisterPlacementAdvances DEF RegisterPlacement
  <2> QED BY <2>2
<1>5. ASSUME NEW t \in Transfers, TransferStep(t)
      PROVE  \E next, o : Written(next, o)
  <2>1. PICK o \in Outcomes :
        \/ \E a \in Aggregates, gen \in Generations, dst \in Cells, k \in Packages :
              PrepareTransfer(a, gen, t, dst, k, o)
        \/ \E q \in CellProofs, g \in Generations : RecordSourcePrepared(t, q, g, o)
        \/ \E q \in ReceiptProofs, g \in Generations : RecordQuarantine(t, q, g, o)
        \/ \E gen \in Generations : CommitTransfer(t, gen, o)
        \/ \E q \in ReceiptProofs, g \in Generations : RecordImported(t, q, g, o)
        \/ \E q \in CellProofs, g \in Generations : FinalizeTransfer(t, q, g, o)
        \/ RequestAbort(t, o)
        \/ \E role \in AbortRoles, q \in CellProofs, g \in Generations :
              RecordAbortCleanup(t, role, q, g, o)
        \/ FinalizeAbort(t, o)
    BY <1>5 DEF TransferStep
  <2>2. ASSUME NEW a \in Aggregates, NEW gen \in Generations, NEW dst \in Cells,
               NEW k \in Packages, PrepareTransfer(a, gen, t, dst, k, o)
        PROVE  Written(PrepareTransferDoc(doc, a, t, dst, k), o)
    BY <1>1, <2>2, PrepareTransferKeeps, PrepareTransferAdvances DEF PrepareTransfer
  <2>3. ASSUME NEW q \in CellProofs, NEW g \in Generations, RecordSourcePrepared(t, q, g, o)
        PROVE  Written(RecordSourcePreparedDoc(doc, t, q, g), o)
    BY <1>1, <2>3, ProofTypes, RecordSourcePreparedKeeps, RecordsAdvance DEF RecordSourcePrepared
  <2>4. ASSUME NEW q \in ReceiptProofs, NEW g \in Generations, RecordQuarantine(t, q, g, o)
        PROVE  Written(RecordQuarantineDoc(doc, t, q, g), o)
    BY <1>1, <2>4, ProofTypes, RecordQuarantineKeeps, RecordsAdvance DEF RecordQuarantine
  <2>5. ASSUME NEW gen \in Generations, CommitTransfer(t, gen, o)
        PROVE  Written(CommitTransferDoc(doc, t), o)
    BY <1>1, <2>5, CommitTransferKeeps, CommitTransferAdvances DEF CommitTransfer
  <2>6. ASSUME NEW q \in ReceiptProofs, NEW g \in Generations, RecordImported(t, q, g, o)
        PROVE  Written(RecordImportedDoc(doc, t, q, g), o)
    BY <1>1, <2>6, ProofTypes, RecordImportedKeeps, SettlingAdvances DEF RecordImported
  <2>7. ASSUME NEW q \in CellProofs, NEW g \in Generations, FinalizeTransfer(t, q, g, o)
        PROVE  Written(FinalizeTransferDoc(doc, t, q, g), o)
    BY <1>1, <2>7, ProofTypes, FinalizeTransferKeeps, RecordsAdvance DEF FinalizeTransfer
  <2>8. ASSUME RequestAbort(t, o)
        PROVE  Written(RequestAbortDoc(doc, t), o)
    BY <1>1, <2>8, RequestAbortKeeps, RecordsAdvance DEF RequestAbort
  <2>9. ASSUME NEW role \in AbortRoles, NEW q \in CellProofs, NEW g \in Generations,
               RecordAbortCleanup(t, role, q, g, o)
        PROVE  Written(RecordAbortCleanupDoc(doc, t, role, q, g), o)
    BY <1>1, <2>9, ProofTypes, RecordAbortCleanupKeeps, RecordsAdvance, Zenon DEF RecordAbortCleanup
  <2>10. ASSUME FinalizeAbort(t, o)
         PROVE  Written(FinalizeAbortDoc(doc, t), o)
    <3>1. NoProof \in Proof /\ 1 \in Generations
      BY AbsentTypes, DirectoryAssumption DEF Generations
    <3> QED BY <1>1, <2>10, <3>1, FinalizeAbortKeeps, SettlingAdvances DEF FinalizeAbort
  <2> QED BY <2>1, <2>2, <2>3, <2>4, <2>5, <2>6, <2>7, <2>8, <2>9, <2>10
<1> QED BY <1>3, <1>4, <1>5 DEF NextDirectory

(* The fuller invariant, and how the file changes when callers reopen a    *)
(* directory whose write failed.                                           *)
LEMMA FullInductive ==
    ASSUME DirectoryFull, [NextDirectory]_dirVars
    PROVE  /\ DirectoryFull'
           /\ ReopenAfterIoError => Advances(disk, disk')
<1>1. DirectoryInv'
  BY DirectoryInductive DEF DirectoryFull, DirectoryInv, DocFull
<1>2. Blank(doc) /\ Ordered(doc) /\ Blank(disk) /\ Ordered(disk)
  BY DEF DirectoryFull, DocFull
<1>3. Advances(disk, disk)
  BY <1>2, AdvancesReflexive
<1>4. CASE disk' = disk /\ doc' \in {doc, disk}
  BY <1>1, <1>2, <1>3, <1>4 DEF DirectoryFull, DirectoryInv, DocFull
<1>5. ASSUME NEW next, NEW o, Written(next, o), disk' # disk
      PROVE  /\ DirectoryFull'
             /\ ReopenAfterIoError => Advances(disk, disk')
  <2> DEFINE w == [next EXCEPT !.revision = doc.revision + 1]
  <2>1. disk' = w /\ doc' \in {doc, w}
    BY <1>5 DEF Written, CommitDocument
  <2>2. Advances(doc, w)
    BY <1>5, AdvancesRevision DEF Written, DocInv
  <2>3. Blank(w) /\ Ordered(w)
    BY <2>2 DEF Advances
  <2> HIDE DEF w
  <2>4. DirectoryFull'
    BY <1>1, <1>2, <2>1, <2>3 DEF DirectoryFull, DirectoryInv, DocFull
  <2>5. ReopenAfterIoError => doc = disk
    BY <1>5 DEF Written, Usable
  <2> QED BY <2>1, <2>2, <2>4, <2>5
<1>6. ASSUME NEW next, NEW o, Written(next, o), disk' = disk
      PROVE  doc' \in {doc, disk}
  BY <1>6 DEF Written, CommitDocument
<1>7. CASE UNCHANGED dirVars
  BY <1>4, <1>7 DEF dirVars
<1>8. CASE OpenDirectory \/ CloseDirectory
  BY <1>4, <1>8 DEF OpenDirectory, CloseDirectory
<1> QED BY <1>4, <1>5, <1>6, <1>7, <1>8, EveryStepAdvances

(* The fuller invariant of every behaviour.                                *)
THEOREM DirectoryFullInvariant == SpecDirectory => []DirectoryFull
<1>1. InitDirectory => DirectoryFull
  <2>1. Blank(InitialDocument)
    BY DEF Blank, InitialDocument
  <2>2. Ordered(InitialDocument)
    <3>1. \A c \in Cells : InitialDocument.assignments[c].generation = 0
      BY DEF InitialDocument, CanonicalAssignment
    <3> QED BY <3>1, DirectoryAssumption DEF Ordered, OrderedHistory, Generations
  <2> QED BY <2>1, <2>2, InitialDocInv DEF InitDirectory, DirectoryFull, DocFull
<1>2. DirectoryFull /\ [NextDirectory]_dirVars => DirectoryFull'
  BY FullInductive
<1> QED BY <1>1, <1>2, PTL DEF SpecDirectory

(* When callers give up a handle whose write failed, the durable document  *)
(* only moves forward: a placement changes cell or generation only in the  *)
(* durable commit of the transfer bound to it, and no commit, proof,       *)
(* terminal record or fence is taken back by any order of calls, lost      *)
(* acknowledgements and reopenings.                                        *)
THEOREM DurableHistoryCorrect ==
    ASSUME ReopenAfterIoError
    PROVE  SpecDirectory => DurableHistory
<1>1. DirectoryFull /\ [NextDirectory]_dirVars => [CommitsMove(disk, disk')]_dirVars
  BY FullInductive DEF Advances
<1>2. DirectoryFull /\ [NextDirectory]_dirVars => [NothingTakenBack(disk, disk')]_dirVars
  BY FullInductive DEF Advances
<1> QED BY <1>1, <1>2, DirectoryFullInvariant, PTL
        DEF SpecDirectory, DurableHistory, SoleCommitPoint, DurableProgress

(* The fence of a recorded proof names one generation of its cell, the one *)
(* the proof was stored under, however the history has grown since.        *)
LEMMA RecordedProofResolves ==
    ASSUME NEW x \in Assignment, ValidAssignment(x), OrderedHistory(x), x.state = "Assigned",
           NEW q \in Proof, NEW m, NEW k, ProofBinds(q, x, m, k)
    PROVE  /\ ResolvesTo(x, 0, q.fence, q.generation)
           /\ Resolved(q, 0).fence = q.fence
           /\ Resolved(q, 0).generation = 0
           /\ Resolved(q, 0).receipt = q.receipt
           /\ Resolved(q, 0).package = q.package
           /\ Resolved(Resolved(q, 0), q.generation) = q
<1>1. /\ q.generation \in Generations /\ x.history[q.generation] = q.fence /\ q.fence # 0
  BY DEF ProofBinds
<1>2. /\ x.generation \in Nat /\ MaxGeneration \in Nat
      /\ \A g \in Generations : x.history[g] \in Nat /\ g \in Nat
  BY DirectoryAssumption DEF Assignment, Generations
<1>3. ASSUME NEW h \in Generations, x.history[h] = q.fence
      PROVE  h = q.generation
  <2>1. h <= x.generation /\ q.generation <= x.generation
    BY <1>1, <1>3 DEF ValidAssignment, ValidHistory
  <2>2. ~(h < q.generation) /\ ~(q.generation < h)
    BY <1>1, <1>2, <1>3, <2>1 DEF OrderedHistory
  <2> QED BY <1>1, <1>2, <2>2
<1>4. {h \in Generations : x.history[h] = q.fence} = {q.generation}
  BY <1>1, <1>3
<1>5. ResolvesTo(x, 0, q.fence, q.generation)
  BY <1>1, <1>4 DEF ResolvesTo
<1> QED BY <1>5, Zenon DEF Resolved, Proof

(* The repeated call of a recorded proof passes the proof checks again.    *)
LEMMA RecordedProofAccepted ==
    ASSUME NEW d, DocFull(d), NEW t \in Transfers, NEW c \in Cells,
           d.assignments[c].state = "Assigned",
           NEW q \in Proof, NEW m, ProofBinds(q, d.assignments[c], m, d.transfers[t].package)
    PROVE  /\ ResolvesTo(d.assignments[c], Resolved(q, 0).generation, Resolved(q, 0).fence,
                         q.generation)
           /\ ProofAccepted(d, t, c, m, Resolved(q, 0), q.generation)
           /\ Resolved(q, 0).receipt = q.receipt
           /\ Resolved(q, 0).package = q.package
           /\ Resolved(Resolved(q, 0), q.generation) = q
<1>1. d.assignments[c] \in Assignment /\ ValidAssignment(d.assignments[c])
      /\ OrderedHistory(d.assignments[c])
  BY GetTypes DEF DocFull, DocInv, Ordered
<1> QED BY <1>1, RecordedProofResolves DEF ProofAccepted

(* Whatever happened since, a caller that repeats a recorded call is       *)
(* answered with the record.                                               *)
THEOREM RetriesCorrect == SpecDirectory => []RetriesRecognised
<1>1. ASSUME DirectoryFull
      PROVE  RetriesRecognised
  <2> SUFFICES ASSUME NEW t \in Transfers, doc.transfers[t].phase # "Absent"
               PROVE  RepeatedCallsRecognised(doc, t)
    BY DEF RetriesRecognised
  <2> DEFINE r == doc.transfers[t]
             again(q) == Resolved(q, 0)
  <2>1. DocFull(doc) /\ DocInv(doc)
    BY <1>1 DEF DirectoryFull, DocFull
  <2>2. /\ r \in Transfer /\ r.source \in Cells /\ r.destination \in Cells
        /\ ValidProofs(doc, r) /\ PhaseProofs(r)
    BY <2>1, Existing DEF Transfer
  <2>3. /\ r.prepare \in Proof /\ r.finalization \in Proof /\ r.sourceAbort \in Proof
        /\ r.quarantine \in Proof /\ r.import \in Proof /\ r.destAbort \in Proof
    BY <2>2 DEF Transfer
  <2>4. PrepareTransferRetry(doc, r.aggregate, r.priorGen, t, r.destination, r.package)
    BY DEF PrepareTransferRetry
  <2>5. r.phase \in PostCommit => CommitTransferRetry(doc, t, r.priorGen)
    BY DEF CommitTransferRetry
  <2>6. ASSUME doc.assignments[r.source].state = "Assigned"
        PROVE  /\ r.prepare # NoProof =>
                    RecordSourcePreparedRetry(doc, t, again(r.prepare), r.prepare.generation)
               /\ r.finalization # NoProof =>
                    FinalizeTransferRetry(doc, t, again(r.finalization), r.finalization.generation)
               /\ r.phase = "Aborting" /\ r.sourceAbort # NoProof =>
                    RecordAbortCleanupRetry(doc, t, "Source", again(r.sourceAbort),
                                            r.sourceAbort.generation)
    <3>1. ASSUME r.prepare # NoProof
          PROVE  RecordSourcePreparedRetry(doc, t, again(r.prepare), r.prepare.generation)
      <4>1. ProofBinds(r.prepare, doc.assignments[r.source], r.sourceGen, r.package)
        BY <2>2, <3>1 DEF ValidProofs
      <4> QED BY <2>1, <2>2, <2>3, <2>6, <4>1, RecordedProofAccepted, Zenon DEF RecordSourcePreparedRetry
    <3>2. ASSUME r.finalization # NoProof
          PROVE  FinalizeTransferRetry(doc, t, again(r.finalization), r.finalization.generation)
      <4>1. /\ ProofBinds(r.finalization, doc.assignments[r.source], r.sourceGen, r.package)
            /\ r.phase = "Finalized"
        BY <2>2, <3>2 DEF ValidProofs, PhaseProofs
      <4> QED BY <2>1, <2>2, <2>3, <2>6, <4>1, RecordedProofAccepted DEF FinalizeTransferRetry
    <3>3. ASSUME r.phase = "Aborting", r.sourceAbort # NoProof
          PROVE  RecordAbortCleanupRetry(doc, t, "Source", again(r.sourceAbort),
                                         r.sourceAbort.generation)
      <4>1. ProofBinds(r.sourceAbort, doc.assignments[r.source], r.sourceGen, r.package)
        BY <2>2, <3>3 DEF ValidProofs
      <4> QED BY <2>1, <2>2, <2>3, <2>6, <3>3, <4>1, RecordedProofAccepted
              DEF RecordAbortCleanupRetry, RoleCell, RoleMinGen, CleanupProof
    <3> QED BY <3>1, <3>2, <3>3
  <2>7. ASSUME doc.assignments[r.destination].state = "Assigned"
        PROVE  /\ r.phase = "Quarantined" /\ r.quarantine # NoProof =>
                    RecordQuarantineRetry(doc, t, again(r.quarantine), r.quarantine.generation)
               /\ r.import # NoProof =>
                    RecordImportedRetry(doc, t, again(r.import), r.import.generation)
               /\ r.phase = "Aborting" /\ r.destAbort # NoProof =>
                    RecordAbortCleanupRetry(doc, t, "Destination", again(r.destAbort),
                                            r.destAbort.generation)
    <3>1. ASSUME r.phase = "Quarantined", r.quarantine # NoProof
          PROVE  RecordQuarantineRetry(doc, t, again(r.quarantine), r.quarantine.generation)
      <4>1. /\ ProofBinds(r.quarantine, doc.assignments[r.destination], r.destGen, r.package)
            /\ r.receipt = r.quarantine.receipt
            /\ r.quarantine.package = r.package
        BY <2>2, <3>1, Zenon DEF ValidProofs, ProofBinds
      <4> QED BY <2>1, <2>2, <2>3, <2>7, <3>1, <4>1, RecordedProofAccepted, ZenonT(60) DEF RecordQuarantineRetry
    <3>2. ASSUME r.import # NoProof
          PROVE  RecordImportedRetry(doc, t, again(r.import), r.import.generation)
      <4>1. /\ ProofBinds(r.import, doc.assignments[r.destination], r.destGen, r.package)
            /\ r.phase \in {"Imported", "Finalized"}
        BY <2>2, <3>2 DEF ValidProofs, PhaseProofs
      <4> QED BY <2>1, <2>2, <2>3, <2>7, <4>1, RecordedProofAccepted DEF RecordImportedRetry
    <3>3. ASSUME r.phase = "Aborting", r.destAbort # NoProof
          PROVE  RecordAbortCleanupRetry(doc, t, "Destination", again(r.destAbort),
                                         r.destAbort.generation)
      <4>1. ProofBinds(r.destAbort, doc.assignments[r.destination], r.destGen, r.package)
        BY <2>2, <3>3 DEF ValidProofs
      <4> QED BY <2>1, <2>2, <2>3, <2>7, <3>3, <4>1, RecordedProofAccepted, Zenon
              DEF RecordAbortCleanupRetry, RoleCell, RoleMinGen, CleanupProof
    <3> QED BY <3>1, <3>2, <3>3
  <2> QED BY <2>4, <2>5, <2>6, <2>7 DEF RepeatedCallsRecognised
<1> QED BY <1>1, DirectoryFullInvariant, PTL
=============================================================================
