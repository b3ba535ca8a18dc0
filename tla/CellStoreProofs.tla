-------------------------- MODULE CellStoreProofs --------------------------
(***************************************************************************)
(* Proofs about CellStore: what any crash, torn line, lost lease or clock  *)
(* step leaves on disk fits together (StoreConsistent), opens again        *)
(* (CrashRecoversUnlessRearmed), and is continued and never rewritten      *)
(* (RestartsRewriteNothing), for any number of events and owners.          *)
(*                                                                         *)
(* None of them is inductive: the record, the two journals and the         *)
(* snapshot are written one after the other, and each write relies on what *)
(* the process believes of the files it does not write.  FilesInv says     *)
(* what every crash point leaves, MemoryInv what the process believes, and *)
(* StepsInv, for each place in an operation, what is still to be written.  *)
(***************************************************************************)
EXTENDS CellStore, FiniteSetTheorems, TLAPS

-----------------------------------------------------------------------------
(* The history.                                                            *)

(* A maximal runnable stretch that ends with the history begins at i.      *)
StretchFrom(j, i) ==
    /\ \A k \in i .. Len(j) : j[k].runnable
    /\ ~Runnable(j, i - 1)

(* The last of the quanta, when there is one.                              *)
LastOf(q, i) == i \in q /\ \A k \in q : k <= i

(* A journal without its torn tail.                                        *)
History(j) ==
    /\ j \in Seq(Event)
    /\ \A i \in 1 .. Len(j) : \A k \in 1 .. i : j[k].fence <= j[i].fence
    /\ \A i \in 1 .. Len(j) : j[i].at <= MaxTime
    /\ \A i, k \in TransferEvents(j) : j[i].key = j[k].key => i = k
    /\ QuantaIn(j, Len(j)) # {} => \E i \in 1 .. Len(j) : LastOf(QuantaIn(j, Len(j)), i)
    /\ Runnable(j, Len(j)) => \E i \in 1 .. Len(j) : StretchFrom(j, i)

Increasing(b) == \A i \in 2 .. Len(b) : b[i - 1] < b[i]

-----------------------------------------------------------------------------
(* The files.                                                              *)

(* The record against the history: its frontier is the end of the history, *)
(* or the event that is pending is.                                        *)
Frontier(l, j) ==
    /\ l.seq <= Len(j) /\ Len(j) <= l.seq + 1
    /\ Len(j) = l.seq + 1 => l.pending # NoPending
    /\ l.last = IF l.seq = 0 THEN NoEvent ELSE j[l.seq]
    /\ \A i \in 1 .. Len(j) : j[i].fence <= l.fence

(* What is pending, and the schedule on either side of it.                 *)
Unresolved(l, j) ==
    /\ l.pending.seq = l.seq + 1
    /\ l.pending.event \in Event /\ l.pending.event.fence <= l.fence
    /\ l.pending.event.at <= MaxTime
    /\ l.pending.prior = l.next
    /\ Len(j) = l.seq => /\ l.next = ImpliedNext(j)
                         /\ l.pending.result = ImpliedNext(Append(j, l.pending.event))
    /\ Len(j) = l.seq + 1 => /\ j[l.seq + 1] = l.pending.event
                             /\ l.pending.result = ImpliedNext(j)

Schedule(l, j) ==
    /\ l.pending # NoPending => Unresolved(l, j)
    /\ l.pending = NoPending => l.next = ImpliedNext(j)
    /\ l.next # NoOccurrence => l.next.seq = Committed(j, l.seq) + 1
    /\ l.ack <= Committed(j, l.seq)

(* The boundary journal against both: it lacks at most the boundary of the *)
(* pending event, and the head it names at most that too.                  *)
Boundary(l, j, b) ==
    /\ b \in Seq(Nat \ {0}) /\ Increasing(b)
    /\ InFile(b) \subseteq TransferEvents(j)
    /\ \/ b = l.head
       \/ /\ l.pending # NoPending /\ Len(j) = l.pending.seq
          /\ b = Append(l.head, l.pending.seq)
    /\ \A i \in TransferEvents(j) :
          i \in InFile(l.head) \/ (l.pending # NoPending /\ i = l.pending.seq)

Snapshot(l, j, s) ==
    /\ s.seq <= l.seq /\ s.fence <= l.fence
    /\ SnapshotFenceConsistent(j, s)

(* The lease that a record of each mode holds.                             *)
Leased(l) ==
    l.mode # "Missing" =>
      /\ l.fence > 0 /\ l.lastTrusted \in 1 .. MaxTime
      /\ l.mode = "Sleeping" =>
            l.renewed = NoTime /\ l.expires = NoTime /\ l.cutoff = NoTime
      /\ l.mode # "Sleeping" =>
            l.renewed \in 1 .. l.lastTrusted /\ l.lastTrusted < l.expires
      /\ l.mode = "Activating" => l.cutoff \in 1 .. l.lastTrusted
      /\ l.mode # "Activating" => l.cutoff = NoTime

Fits(l, j, b, s) ==
    Frontier(l, j) /\ Schedule(l, j) /\ Boundary(l, j, b) /\ Snapshot(l, j, s)

(* A record that says Sleeping.                                            *)
Asleep(l, j, b, s) ==
    /\ l.pending = NoPending /\ l.ack = Committed(j, Len(j))
    /\ l.head = b /\ s = [seq |-> Len(j), fence |-> l.fence]
    /\ ~Runnable(j, Len(j))

Snapshots == [seq : Nat, fence : 0 .. MaxFence]

(* The record l, the events j, the boundaries b and the snapshot s.        *)
Files(l, j, b, s) ==
    /\ l \in Lifecycle /\ s \in Snapshots
    /\ History(j) /\ Leased(l) /\ Fits(l, j, b, s)
    /\ l.mode = "Missing" => l = NoLifecycle
    /\ l.mode = "Sleeping" => Asleep(l, j, b, s)

FilesInv ==
    /\ Files(lc, Lines, Boundaries, snap)
    /\ lc.mode = "Sleeping" => journal = Lines /\ bnd = Boundaries

-----------------------------------------------------------------------------
(* The process.                                                            *)

Steps == {"boundaries", "head", "load", "reconcile", "restore", "snapshot",
          "frontier", "sleep", "append", "boundary", "commit", "acknowledge",
          "background", "publish"}

HeadIs(s) == todo # <<>> /\ todo[1] = s
Has(t, s) == \E i \in 1 .. Len(t) : t[i] = s
Opening == \E s \in {"boundaries", "head", "load", "reconcile"} : HeadIs(s)
Committing == \E s \in {"append", "boundary", "commit"} : HeadIs(s)

(* The order in which the steps are taken: what comes after a step, and    *)
(* what came before one that is not the first.                             *)
Follows(t, i, s) == i + 1 <= Len(t) /\ t[i + 1] = s
Onward(t, i, kind) ==
    /\ t[i] \in {"boundaries", "head"} => Follows(t, i, "load")
    /\ t[i] = "load" => Follows(t, i, "reconcile")
    /\ t[i] = "snapshot" => Follows(t, i, "frontier")
    /\ t[i] = "append" => Follows(t, i, IF kind = "transfer" THEN "boundary" ELSE "commit")
    /\ t[i] = "boundary" => kind = "transfer" /\ Follows(t, i, "commit")
    /\ t[i] = "commit" /\ kind = "quantum" => Follows(t, i, "acknowledge")
    /\ t[i] \in {"restore", "sleep", "background", "publish"} => i = Len(t)
After(t, i) ==
    /\ t[i] \notin {"boundaries", "head", "append"}
    /\ t[i] = "load" => t[i - 1] \in {"boundaries", "head"}
    /\ t[i] = "reconcile" => t[i - 1] = "load"
    /\ t[i] = "boundary" => t[i - 1] = "append"
    /\ t[i] = "commit" => t[i - 1] \in {"append", "boundary"}
    /\ t[i] = "acknowledge" => t[i - 1] = "commit"
    /\ t[i] = "frontier" => t[i - 1] = "snapshot"
    /\ t[i] = "sleep" => t[i - 1] = "frontier"
Ordered(t, kind) ==
    /\ t \in Seq(Steps)
    /\ \A i \in 1 .. Len(t) : Onward(t, i, kind)
    /\ \A i \in 2 .. Len(t) : After(t, i)

(* What the process believes of the record.                                *)
MemoryInv ==
    /\ host \in HostStates /\ clock \in 1 .. MaxTime /\ trusted \in 0 .. MaxTime
    /\ host \notin Live => todo = <<>> /\ world = 0 /\ mem = NoLifecycle
    /\ host \in Live =>
          /\ lc.mode \notin {"Missing", "Sleeping"}
          /\ mem = IF HeadIs("commit") THEN [lc EXCEPT !.head = bnd] ELSE lc
          /\ lc.lastTrusted <= trusted
    /\ recovered \in Modes \cup {"Missing"}
    /\ recovered = "Sleeping" => ~Runnable(Lines, Len(Lines))
    /\ host \in {"down", "asleep", "up"} => recovered = "Missing"

(* What is in the files while the store opens,                             *)
OpeningInv ==
    /\ host # "up"
    /\ ~HeadIs("boundaries") => /\ bnd = Boundaries
                                /\ TransferEvents(Lines) \subseteq InFile(bnd)
    /\ HeadIs("load") \/ HeadIs("reconcile") => bnd = lc.head
    /\ ~HeadIs("reconcile") => world = 0
    /\ HeadIs("reconcile") => journal = Lines /\ world = Len(journal)

(* while it serves,                                                        *)
Served ==
    bnd = Boundaries /\ journal = Lines /\ world = lc.seq

(* between commits,                                                        *)
RestInv ==
    /\ lc.pending = NoPending /\ lc.head = bnd
    /\ HeadIs("acknowledge") \/ lc.ack = Committed(journal, world)
    /\ HeadIs("frontier") \/ HeadIs("sleep") => snap = [seq |-> world, fence |-> lc.fence]

(* and within one.                                                         *)
CommitInv ==
    /\ host = "up" /\ lc.pending # NoPending
    /\ lc.pending.event.fence = lc.fence
    /\ lc.pending.event.kind # "quantum" => lc.ack = Committed(journal, world)
    /\ HeadIs("append") => Len(journal) = lc.seq /\ lc.head = bnd
    /\ HeadIs("boundary") => /\ Len(journal) = lc.seq + 1 /\ lc.head = bnd
                             /\ lc.pending.seq \notin InFile(bnd)
    /\ HeadIs("commit") => /\ Len(journal) = lc.seq + 1
                           /\ TransferEvents(journal) \subseteq InFile(bnd)

(* The last step of what ends in Sleeping, and in Active.                  *)
EndsInv ==
    /\ Has(todo, "sleep") =>
          /\ HeadIs("snapshot") \/ HeadIs("frontier") \/ HeadIs("sleep")
          /\ ~Runnable(journal, world)
    /\ Has(todo, "publish") =>
          /\ HeadIs("snapshot") \/ HeadIs("frontier") \/ HeadIs("publish")
          /\ lc.mode = "Activating"
          /\ lc.next = NoOccurrence \/ lc.next.at > lc.cutoff

StepsInv ==
    host \in Live =>
      /\ Ordered(todo, lc.pending.event.kind)
      /\ Opening => OpeningInv
      /\ ~Opening => Served
      /\ ~Opening /\ ~Committing => RestInv
      /\ Committing => CommitInv
      /\ EndsInv

StoreInv == FilesInv /\ MemoryInv /\ StepsInv

-----------------------------------------------------------------------------
(***************************************************************************)
(* The production clock of a history.                                      *)
(***************************************************************************)
(* An appended journal: its length, its old entries and its new one        *)
(* (append_event).                                                         *)
LEMMA AppendedEntries ==
    ASSUME NEW S, NEW q \in Seq(S), NEW e \in S
    PROVE  /\ Append(q, e) \in Seq(S)
           /\ Len(Append(q, e)) = Len(q) + 1 /\ Len(q) \in Nat
           /\ \A i \in 1 .. Len(q) : Append(q, e)[i] = q[i]
           /\ Append(q, e)[Len(q) + 1] = e
OBVIOUS

(* A count of quanta is a natural number, of a finite set (production_clock). *)
LEMMA QuantaFinite ==
    ASSUME NEW j, NEW n \in Nat
    PROVE  IsFiniteSet(QuantaIn(j, n)) /\ Committed(j, n) \in Nat
<1>1. IsFiniteSet(1 .. n)
  BY FS_Interval
<1>2. QuantaIn(j, n) \subseteq 1 .. n
  BY DEF QuantaIn
<1>3. IsFiniteSet(QuantaIn(j, n))
  BY <1>1, <1>2, FS_Subset
<1> QED
  BY <1>3, FS_CardinalityType DEF Committed

(* No quantum has been committed exactly when the count is zero.           *)
LEMMA NoQuanta ==
    ASSUME NEW j, NEW n \in Nat
    PROVE  Committed(j, n) > 0 <=> QuantaIn(j, n) # {}
BY QuantaFinite, FS_EmptySet, FS_CardinalityType DEF Committed

(* What is appended does not change the production clock of what was there *)
(* (apply_event replays in order).                                         *)
LEMMA ClockOfPrefix ==
    ASSUME NEW j \in Seq(Event), NEW e \in Event, NEW n \in 0 .. Len(j)
    PROVE  /\ QuantaIn(Append(j, e), n) = QuantaIn(j, n)
           /\ Committed(Append(j, e), n) = Committed(j, n)
           /\ Runnable(Append(j, e), n) = Runnable(j, n)
<1>1. \A i \in 1 .. n : Append(j, e)[i] = j[i]
  BY AppendedEntries
<1>2. QuantaIn(Append(j, e), n) = QuantaIn(j, n)
  BY <1>1 DEF QuantaIn
<1>3. n > 0 => Append(j, e)[n] = j[n]
  BY <1>1
<1> QED
  BY <1>2, <1>3 DEF Committed, Runnable

(* The production clock after one more event: a quantum counts one more,   *)
(* anything else nothing.                                                  *)
LEMMA ClockOfAppend ==
    ASSUME NEW j \in Seq(Event), NEW e \in Event
    PROVE  /\ Runnable(Append(j, e), Len(j) + 1) = e.runnable
           /\ e.kind = "quantum" =>
                 /\ QuantaIn(Append(j, e), Len(j) + 1) = QuantaIn(j, Len(j)) \cup {Len(j) + 1}
                 /\ Committed(Append(j, e), Len(j) + 1) = Committed(j, Len(j)) + 1
           /\ e.kind # "quantum" =>
                 /\ QuantaIn(Append(j, e), Len(j) + 1) = QuantaIn(j, Len(j))
                 /\ Committed(Append(j, e), Len(j) + 1) = Committed(j, Len(j))
<1> DEFINE a == Append(j, e)
           n == Len(j)
<1>1. /\ n \in Nat /\ a[n + 1] = e
      /\ \A i \in 1 .. n : a[i] = j[i]
  BY AppendedEntries
<1>2. e.kind = "quantum" => QuantaIn(a, n + 1) = QuantaIn(j, n) \cup {n + 1}
  BY <1>1 DEF QuantaIn
<1>3. e.kind # "quantum" => QuantaIn(a, n + 1) = QuantaIn(j, n)
  BY <1>1 DEF QuantaIn
<1>4. n + 1 \notin QuantaIn(j, n)
  BY <1>1 DEF QuantaIn
<1>5. Cardinality(QuantaIn(j, n) \cup {n + 1}) = Cardinality(QuantaIn(j, n)) + 1
  BY <1>1, <1>4, QuantaFinite, FS_AddElement
<1>6. Runnable(a, n + 1) = e.runnable
  BY <1>1 DEF Runnable, Event
<1> QED
  BY <1>2, <1>3, <1>5, <1>6 DEF Committed

(* The last quantum, when the history has one.                             *)
LEMMA LastScheduledIs ==
    ASSUME NEW j, NEW n \in Nat, NEW i \in 1 .. n, LastOf(QuantaIn(j, n), i)
    PROVE  LastScheduled(j, n) = j[i].at
<1> DEFINE q == QuantaIn(j, n)
<1>1. q # {} /\ q \subseteq 1 .. n
  BY DEF QuantaIn, LastOf
<1> HIDE DEF q
<1>2. (CHOOSE k \in q : \A m \in q : m <= k) = i
  <2>1. \A k \in q : (\A m \in q : m <= k) => k = i
    BY <1>1 DEF LastOf, q
  <2>2. i \in q /\ \A m \in q : m <= i
    BY DEF LastOf, q
  <2> QED
    BY <2>1, <2>2
<1> QED
  BY <1>1, <1>2 DEF LastScheduled, q

(* The schedule time of an appended event's world.                         *)
LEMMA LastScheduledOfAppend ==
    ASSUME NEW j \in Seq(Event), NEW e \in Event, History(j)
    PROVE  /\ e.kind = "quantum" => LastScheduled(Append(j, e), Len(j) + 1) = e.at
           /\ e.kind # "quantum" =>
                 LastScheduled(Append(j, e), Len(j) + 1) = LastScheduled(j, Len(j))
           /\ LastScheduled(j, Len(j)) \in 0 .. MaxTime
<1> DEFINE a == Append(j, e)
           n == Len(j)
<1>1. /\ n \in Nat /\ Len(a) = n + 1 /\ a[n + 1] = e
      /\ \A i \in 1 .. n : a[i] = j[i]
  BY AppendedEntries
<1>2. e.kind = "quantum" => LastScheduled(a, n + 1) = e.at
  <2> SUFFICES ASSUME e.kind = "quantum" PROVE LastScheduled(a, n + 1) = e.at
    OBVIOUS
  <2>1. QuantaIn(a, n + 1) = QuantaIn(j, n) \cup {n + 1}
    BY ClockOfAppend
  <2>2. QuantaIn(j, n) \subseteq 1 .. n
    BY DEF QuantaIn
  <2>3. LastOf(QuantaIn(a, n + 1), n + 1)
    BY <1>1, <2>1, <2>2 DEF LastOf
  <2> HIDE DEF a, n
  <2>4. n + 1 \in Nat /\ n + 1 \in 1 .. n + 1
    BY <1>1
  <2>5. LastScheduled(a, n + 1) = a[n + 1].at
    BY <2>3, <2>4, LastScheduledIs
  <2> QED
    BY <1>1, <2>5
<1>3. QuantaIn(j, n) = {} => LastScheduled(j, n) = 0
  BY DEF LastScheduled, NoTime
<1>4. ASSUME QuantaIn(j, n) # {} PROVE \E i \in 1 .. n : LastOf(QuantaIn(j, n), i)
  BY <1>4 DEF History
<1>5. LastScheduled(j, n) \in 0 .. MaxTime
  <2>1. CASE QuantaIn(j, n) = {}
    BY <1>3, <2>1, StoreAssumption
  <2>2. CASE QuantaIn(j, n) # {}
    <3>1. PICK i \in 1 .. n : LastOf(QuantaIn(j, n), i)
      BY <1>4, <2>2
    <3>2. LastScheduled(j, n) = j[i].at
      BY <1>1, <3>1, LastScheduledIs
    <3>3. j[i].at \in Nat /\ j[i].at <= MaxTime
      <4>1. j[i] \in Event /\ j[i].at <= MaxTime
        BY <1>1, <3>1 DEF History
      <4>2. j[i].at \in Times
        BY <4>1 DEF Event
      <4> QED
        BY <4>1, <4>2, StoreAssumption DEF Times
    <3> QED
      BY <3>2, <3>3, StoreAssumption
  <2> QED
    BY <2>1, <2>2
<1>6. e.kind # "quantum" => LastScheduled(a, n + 1) = LastScheduled(j, n)
  <2> SUFFICES ASSUME e.kind # "quantum" PROVE LastScheduled(a, n + 1) = LastScheduled(j, n)
    OBVIOUS
  <2>1. QuantaIn(a, n + 1) = QuantaIn(j, n)
    BY ClockOfAppend
  <2>2. CASE QuantaIn(j, n) = {}
    BY <2>1, <2>2 DEF LastScheduled
  <2>3. CASE QuantaIn(j, n) # {}
    <3>1. PICK i \in 1 .. n : LastOf(QuantaIn(j, n), i)
      BY <1>4, <2>3
    <3>2. LastScheduled(j, n) = j[i].at
      BY <1>1, <3>1, LastScheduledIs
    <3>3. LastScheduled(a, n + 1) = a[i].at
      <4> HIDE DEF a, n
      <4>1. n + 1 \in Nat /\ i \in 1 .. n + 1
        BY <1>1
      <4> QED
        BY <2>1, <3>1, <4>1, LastScheduledIs
    <3> QED
      BY <1>1, <3>2, <3>3
  <2> QED
    BY <2>2, <2>3
<1> QED
  BY <1>2, <1>5, <1>6

-----------------------------------------------------------------------------
(***************************************************************************)
(* The schedule that a history implies.                                    *)
(***************************************************************************)
(* When the production of a stretch that began at event i is anchored.     *)
Anchor(j, i) ==
    IF \E k \in QuantaIn(j, Len(j)) : k >= i
    THEN LastScheduled(j, Len(j))
    ELSE Larger(j[i].at, LastScheduled(j, Len(j)))

(* A runnable history has one current stretch                              *)
(* (background_production_is_runnable).                                    *)
LEMMA StretchUnique ==
    ASSUME NEW j \in Seq(Event), NEW i \in 1 .. Len(j), NEW k \in 1 .. Len(j),
           StretchFrom(j, i), StretchFrom(j, k)
    PROVE  i = k
<1>1. ASSUME NEW a \in 1 .. Len(j), NEW b \in 1 .. Len(j), a < b,
             StretchFrom(j, a), StretchFrom(j, b)
      PROVE  FALSE
  <2>1. b - 1 \in a .. Len(j) /\ b - 1 > 0
    BY <1>1
  <2>2. j[b - 1].runnable
    BY <1>1, <2>1 DEF StretchFrom
  <2>3. ~Runnable(j, b - 1)
    BY <1>1 DEF StretchFrom
  <2> QED
    BY <2>1, <2>2, <2>3 DEF Runnable
<1> QED
  BY <1>1

(* A runnable history implies one occurrence, the next of its quanta.      *)
LEMMA ImpliedNextIs ==
    ASSUME NEW j \in Seq(Event), NEW i \in 1 .. Len(j), StretchFrom(j, i)
    PROVE  ImpliedNext(j) = [seq |-> Committed(j, Len(j)) + 1,
                             at  |-> Anchor(j, i) + Quantum]
<1> DEFINE n == Len(j)
           first == CHOOSE f \in 1 .. n :
                      /\ \A k \in f .. n : j[k].runnable
                      /\ ~Runnable(j, f - 1)
<1>1. Runnable(j, n)
  BY DEF StretchFrom, Runnable
<1>2. first \in 1 .. n /\ StretchFrom(j, first)
  BY DEF StretchFrom
<1>3. first = i
  BY <1>2, StretchUnique
<1>4. ImpliedNext(j) =
        [seq |-> Committed(j, n) + 1,
         at |-> (IF \E k \in QuantaIn(j, n) : k >= first
                 THEN LastScheduled(j, n)
                 ELSE Larger(j[first].at, LastScheduled(j, n))) + Quantum]
  BY <1>1 DEF ImpliedNext
<1> HIDE DEF first
<1> QED
  BY <1>3, <1>4 DEF Anchor

(* And one that is not runnable implies none.                              *)
LEMMA NothingImplied ==
    ASSUME NEW j, ~Runnable(j, Len(j))
    PROVE  ImpliedNext(j) = NoOccurrence
BY DEF ImpliedNext

(* The occurrence a history implies: its type, its sequence, its time.     *)
LEMMA ImpliedNextType ==
    ASSUME NEW j, History(j)
    PROVE  /\ ImpliedNext(j) \in OccurrenceOrNone
           /\ Runnable(j, Len(j)) => /\ ImpliedNext(j) # NoOccurrence
                                     /\ ImpliedNext(j).seq = Committed(j, Len(j)) + 1
                                     /\ ImpliedNext(j).at >= LastScheduled(j, Len(j)) + Quantum
           /\ ~Runnable(j, Len(j)) => ImpliedNext(j) = NoOccurrence
<1>1. j \in Seq(Event) /\ Len(j) \in Nat
  BY DEF History
<1>2. CASE ~Runnable(j, Len(j))
  BY <1>2, NothingImplied DEF OccurrenceOrNone
<1>3. CASE Runnable(j, Len(j))
  <2>1. PICK i \in 1 .. Len(j) : StretchFrom(j, i)
    BY <1>3 DEF History
  <2>2. ImpliedNext(j) = [seq |-> Committed(j, Len(j)) + 1, at |-> Anchor(j, i) + Quantum]
    BY <1>1, <2>1, ImpliedNextIs
  <2>3. Committed(j, Len(j)) \in Nat
    BY <1>1, QuantaFinite
  <2>4. j[i] \in Event /\ j[i].at <= MaxTime
    BY <1>1, <2>1 DEF History
  <2>5. j[i].at \in 0 .. MaxTime
    BY <2>4, StoreAssumption DEF Event, Times
  <2>6. LastScheduled(j, Len(j)) \in 0 .. MaxTime
    BY <1>1, <2>4, LastScheduledOfAppend
  <2>7. Anchor(j, i) \in 0 .. MaxTime /\ Anchor(j, i) >= LastScheduled(j, Len(j))
    BY <2>5, <2>6, StoreAssumption DEF Anchor, Larger
  <2>8. Anchor(j, i) + Quantum \in Times /\ Anchor(j, i) + Quantum >= LastScheduled(j, Len(j)) + Quantum
    BY <2>6, <2>7, StoreAssumption DEF Times
  <2>9. ImpliedNext(j) \in Occurrence
    BY <2>2, <2>3, <2>8 DEF Occurrence
  <2>10. ImpliedNext(j).seq = Committed(j, Len(j)) + 1 /\ ImpliedNext(j).at = Anchor(j, i) + Quantum
    BY <2>2
  <2>11. ImpliedNext(j) # NoOccurrence
    BY <2>3, <2>10 DEF NoOccurrence
  <2> QED
    BY <1>3, <2>8, <2>9, <2>10, <2>11 DEF OccurrenceOrNone
<1> QED
  BY <1>2, <1>3

(* resulting_next_production_occurrence computes what the longer history   *)
(* implies.                                                                *)
LEMMA ResultingNextIsImplied ==
    ASSUME NEW j, NEW e \in Event, History(j)
    PROVE  ResultingNext(j, Len(j), e, ImpliedNext(j)) = ImpliedNext(Append(j, e))
<1> DEFINE a == Append(j, e)
           n == Len(j)
<1>1. /\ j \in Seq(Event) /\ n \in Nat /\ Len(a) = n + 1 /\ a[n + 1] = e
      /\ \A i \in 1 .. n : a[i] = j[i]
      /\ a \in Seq(Event)
  BY AppendedEntries DEF History
<1>2. SubSeq(j, 1, n) = j
  BY <1>1
<1>3. Runnable(a, n + 1) = e.runnable
  BY <1>1, ClockOfAppend
<1>4. Committed(j, n) \in Nat
  BY <1>1, QuantaFinite
<1>5. e.runnable \in BOOLEAN
  BY DEF Event
<1> DEFINE R == ResultingNext(j, n, e, ImpliedNext(j))
<1>6. R = IF ~e.runnable THEN NoOccurrence
          ELSE IF e.kind = "quantum" THEN [seq |-> Committed(a, n + 1) + 1, at |-> e.at + Quantum]
          ELSE IF Runnable(j, n) THEN ImpliedNext(j)
          ELSE [seq |-> Committed(a, n + 1) + 1,
                at |-> Larger(e.at, LastScheduled(a, n + 1)) + Quantum]
  BY <1>2 DEF ResultingNext
<1> HIDE DEF R
<1>7. ASSUME ~e.runnable PROVE R = ImpliedNext(a)
  BY <1>1, <1>3, <1>6, <1>7, NothingImplied
<1>8. ASSUME e.runnable, NEW i \in 1 .. n + 1, StretchFrom(a, i), e.kind = "quantum"
      PROVE  R = ImpliedNext(a)
  <2>1. QuantaIn(a, n + 1) = QuantaIn(j, n) \cup {n + 1}
    BY <1>1, <1>8, ClockOfAppend
  <2>2. \E k \in QuantaIn(a, n + 1) : k >= i
    BY <1>1, <1>8, <2>1
  <2>3. Anchor(a, i) = LastScheduled(a, n + 1)
    BY <1>1, <2>2 DEF Anchor
  <2>4. LastScheduled(a, n + 1) = e.at
    BY <1>1, <1>8, LastScheduledOfAppend
  <2>5. ImpliedNext(a) = [seq |-> Committed(a, n + 1) + 1, at |-> e.at + Quantum]
    <3> HIDE DEF a, n
    <3>1. i \in 1 .. Len(a)
      BY <1>1
    <3>2. ImpliedNext(a) = [seq |-> Committed(a, Len(a)) + 1, at |-> Anchor(a, i) + Quantum]
      BY <1>1, <1>8, <3>1, ImpliedNextIs
    <3> QED
      BY <1>1, <2>3, <2>4, <3>2
  <2> QED
    BY <1>6, <1>8, <2>5
<1>9. ASSUME e.runnable, Runnable(j, n) PROVE R = ImpliedNext(a)
  <2>1. PICK i \in 1 .. n : StretchFrom(j, i)
    BY <1>9 DEF History
  <2>2. StretchFrom(a, i)
    <3>1. \A k \in i .. n + 1 : a[k].runnable
      BY <1>1, <1>9, <2>1 DEF StretchFrom
    <3>2. Runnable(a, i - 1) = Runnable(j, i - 1)
      BY <1>1, <2>1, ClockOfPrefix
    <3> QED
      BY <1>1, <2>1, <3>1, <3>2 DEF StretchFrom
  <2>3. CASE e.kind = "quantum"
    BY <1>1, <1>8, <1>9, <2>2, <2>3
  <2>4. CASE e.kind # "quantum"
    <3>1. /\ QuantaIn(a, n + 1) = QuantaIn(j, n)
          /\ Committed(a, n + 1) = Committed(j, n)
          /\ LastScheduled(a, n + 1) = LastScheduled(j, n)
      BY <1>1, <2>4, ClockOfAppend, LastScheduledOfAppend
    <3>2. a[i] = j[i]
      BY <1>1, <2>1
    <3>3. Anchor(a, i) = Anchor(j, i)
      BY <1>1, <3>1, <3>2 DEF Anchor
    <3>4. ImpliedNext(j) = [seq |-> Committed(j, n) + 1, at |-> Anchor(j, i) + Quantum]
      BY <1>1, <2>1, ImpliedNextIs
    <3>5. ImpliedNext(a) = [seq |-> Committed(a, n + 1) + 1, at |-> Anchor(a, i) + Quantum]
      <4> HIDE DEF a, n
      <4>1. i \in 1 .. Len(a)
        BY <1>1, <2>1
      <4>2. ImpliedNext(a) = [seq |-> Committed(a, Len(a)) + 1, at |-> Anchor(a, i) + Quantum]
        BY <1>1, <2>2, <4>1, ImpliedNextIs
      <4> QED
        BY <1>1, <4>2
    <3>6. R = ImpliedNext(j)
      BY <1>6, <1>9, <2>4
    <3> QED
      BY <3>1, <3>3, <3>4, <3>5, <3>6
  <2> QED
    BY <2>3, <2>4
<1>10. ASSUME e.runnable, ~Runnable(j, n) PROVE R = ImpliedNext(a)
  <2>1. StretchFrom(a, n + 1)
    <3>1. Runnable(a, n) = Runnable(j, n)
      BY <1>1, ClockOfPrefix
    <3>2. \A k \in n + 1 .. n + 1 : a[k].runnable
      BY <1>1, <1>10
    <3>3. n + 1 - 1 = n
      BY <1>1
    <3> QED
      BY <1>1, <1>10, <3>1, <3>2, <3>3 DEF StretchFrom
  <2>2. CASE e.kind = "quantum"
    BY <1>1, <1>8, <1>10, <2>1, <2>2
  <2>3. CASE e.kind # "quantum"
    <3>1. QuantaIn(a, n + 1) = QuantaIn(j, n)
      BY <1>1, <2>3, ClockOfAppend
    <3>2. ~ \E k \in QuantaIn(a, n + 1) : k >= n + 1
      BY <1>1, <3>1 DEF QuantaIn
    <3>3. Anchor(a, n + 1) = Larger(e.at, LastScheduled(a, n + 1))
      BY <1>1, <3>2 DEF Anchor
    <3>4. ImpliedNext(a) = [seq |-> Committed(a, n + 1) + 1, at |-> Anchor(a, n + 1) + Quantum]
      <4> HIDE DEF a, n
      <4>1. n + 1 \in 1 .. Len(a)
        BY <1>1
      <4>2. ImpliedNext(a) = [seq |-> Committed(a, Len(a)) + 1, at |-> Anchor(a, n + 1) + Quantum]
        BY <1>1, <2>1, <4>1, ImpliedNextIs
      <4> QED
        BY <1>1, <4>2
    <3> QED
      BY <1>6, <1>10, <2>3, <3>3, <3>4
  <2> QED
    BY <2>2, <2>3
<1> QED
  BY <1>7, <1>9, <1>10 DEF R

(* An event that an owner may append leaves a history (append_event).      *)
LEMMA HistoryAppend ==
    ASSUME NEW j, NEW e \in Event, History(j), e.at <= MaxTime,
           \A i \in 1 .. Len(j) : j[i].fence <= e.fence,
           \A i \in TransferEvents(j) : e.kind = "transfer" => j[i].key # e.key
    PROVE  History(Append(j, e))
<1> DEFINE a == Append(j, e)
           n == Len(j)
<1>1. /\ j \in Seq(Event) /\ n \in Nat /\ Len(a) = n + 1 /\ a[n + 1] = e
      /\ \A i \in 1 .. n : a[i] = j[i]
      /\ a \in Seq(Event)
  BY AppendedEntries DEF History
<1> HIDE DEF a
<1>2. \A i \in 1 .. n + 1 : \A k \in 1 .. i : a[k].fence <= a[i].fence
  <2> TAKE i \in 1 .. n + 1
  <2> TAKE k \in 1 .. i
  <2>1. CASE i \in 1 .. n
    <3>1. k \in 1 .. n /\ j[k].fence <= j[i].fence
      BY <1>1, <2>1 DEF History
    <3> QED
      BY <1>1, <2>1, <3>1
  <2>2. CASE i = n + 1 /\ k \in 1 .. n
    BY <1>1, <2>2
  <2>3. CASE i = n + 1 /\ k = n + 1
    <3>1. e.fence \in Nat
      BY DEF Event
    <3> QED
      BY <1>1, <2>3, <3>1
  <2> QED
    BY <1>1, <2>1, <2>2, <2>3
<1>3. \A i \in 1 .. n + 1 : a[i].at <= MaxTime
  BY <1>1 DEF History
<1>4. TransferEvents(a) \subseteq TransferEvents(j) \cup {n + 1}
  BY <1>1 DEF TransferEvents
<1>5. n + 1 \in TransferEvents(a) => e.kind = "transfer"
  BY <1>1 DEF TransferEvents
<1>6. \A i \in TransferEvents(j) : i \in 1 .. n /\ a[i] = j[i]
  BY <1>1 DEF TransferEvents
<1>7. \A i, k \in TransferEvents(a) : a[i].key = a[k].key => i = k
  BY <1>1, <1>4, <1>5, <1>6 DEF History
<1>8. QuantaIn(a, n + 1) # {} => \E i \in 1 .. n + 1 : LastOf(QuantaIn(a, n + 1), i)
  <2> SUFFICES ASSUME QuantaIn(a, n + 1) # {}
               PROVE  \E i \in 1 .. n + 1 : LastOf(QuantaIn(a, n + 1), i)
    OBVIOUS
  <2>1. CASE e.kind = "quantum"
    <3>1. QuantaIn(a, n + 1) = QuantaIn(j, n) \cup {n + 1}
      BY <1>1, <2>1, ClockOfAppend DEF a
    <3>2. QuantaIn(j, n) \subseteq 1 .. n
      BY DEF QuantaIn
    <3>3. n + 1 \in 1 .. n + 1 /\ LastOf(QuantaIn(a, n + 1), n + 1)
      BY <1>1, <3>1, <3>2 DEF LastOf
    <3> QED
      BY <3>3
  <2>2. CASE e.kind # "quantum"
    <3>1. QuantaIn(a, n + 1) = QuantaIn(j, n)
      BY <1>1, <2>2, ClockOfAppend DEF a
    <3>2. PICK i \in 1 .. n : LastOf(QuantaIn(j, n), i)
      BY <3>1 DEF History
    <3>3. i \in 1 .. n + 1
      BY <1>1
    <3> QED
      BY <3>1, <3>2, <3>3
  <2> QED
    BY <2>1, <2>2
<1>9. Runnable(a, n + 1) => \E i \in 1 .. n + 1 : StretchFrom(a, i)
  <2> SUFFICES ASSUME Runnable(a, n + 1) PROVE \E i \in 1 .. n + 1 : StretchFrom(a, i)
    OBVIOUS
  <2>0. e.runnable
    BY <1>1 DEF Runnable
  <2>1. CASE Runnable(j, n)
    <3>1. PICK i \in 1 .. n : StretchFrom(j, i)
      BY <2>1 DEF History
    <3>2. \A k \in i .. n + 1 : a[k].runnable
      BY <1>1, <2>0, <3>1 DEF StretchFrom
    <3>3. Runnable(a, i - 1) = Runnable(j, i - 1)
      BY <1>1, <3>1, ClockOfPrefix DEF a
    <3>4. i \in 1 .. n + 1 /\ StretchFrom(a, i)
      BY <1>1, <3>1, <3>2, <3>3 DEF StretchFrom
    <3> QED
      BY <3>4
  <2>2. CASE ~Runnable(j, n)
    <3>1. Runnable(a, n) = Runnable(j, n)
      BY <1>1, ClockOfPrefix DEF a
    <3>2. \A k \in n + 1 .. n + 1 : a[k].runnable
      BY <1>1, <2>0
    <3>3. n + 1 - 1 = n /\ n + 1 \in 1 .. n + 1
      BY <1>1
    <3>4. StretchFrom(a, n + 1)
      BY <1>1, <2>2, <3>1, <3>2, <3>3 DEF StretchFrom
    <3> QED
      BY <3>3, <3>4
  <2> QED
    BY <2>1, <2>2
<1> QED
  BY <1>1, <1>2, <1>3, <1>7, <1>8, <1>9 DEF History, a

-----------------------------------------------------------------------------
(***************************************************************************)
(* Torn tails.                                                             *)
(***************************************************************************)
(* Cutting a torn tail leaves the whole lines (truncate_unterminated_tail). *)
LEMMA TornTail ==
    ASSUME NEW S, NEW q \in Seq(S), NEW torn, torn \notin S
    PROVE  Terminated(q, torn) = q /\ Terminated(Append(q, torn), torn) = q
<1>1. q # <<>> => q[Len(q)] \in S
  OBVIOUS
<1>2. Terminated(q, torn) = q
  BY <1>1 DEF Terminated
<1> DEFINE a == Append(q, torn)
<1>3. a # <<>> /\ Len(a) = Len(q) + 1 /\ a[Len(q) + 1] = torn /\ Len(q) \in Nat
  OBVIOUS
<1>4. SubSeq(a, 1, Len(q)) = q
  OBVIOUS
<1> HIDE DEF a
<1>5. Len(a) - 1 = Len(q) /\ a[Len(a)] = torn
  BY <1>3
<1>6. Terminated(a, torn) = SubSeq(a, 1, Len(a) - 1)
  BY <1>3, <1>5 DEF Terminated
<1> QED
  BY <1>2, <1>4, <1>5, <1>6 DEF a

(* For the event journal,                                                  *)
LEMMA TornTailCut ==
    ASSUME NEW q \in Seq(Event)
    PROVE  /\ Terminated(q, TornLine) = q
           /\ Terminated(Append(q, TornLine), TornLine) = q
<1>1. TornLine \notin Event
  BY DEF TornLine, NoEvent, Event
<1> QED
  BY <1>1, TornTail

(* and for the boundary journal.                                           *)
LEMMA TornBoundaryCut ==
    ASSUME NEW q \in Seq(Nat \ {0})
    PROVE  /\ Terminated(q, TornBoundary) = q
           /\ Terminated(Append(q, TornBoundary), TornBoundary) = q
<1>1. TornBoundary \notin Nat \ {0}
  BY DEF TornBoundary
<1> QED
  BY <1>1, TornTail

-----------------------------------------------------------------------------
(***************************************************************************)
(* The writes, on the files they write.                                    *)
(***************************************************************************)
(* A record has the fields of its type (CellLifecycleRecord).              *)
LEMMA RecordTyped ==
    ASSUME NEW l \in Lifecycle
    PROVE  /\ l.mode \in Modes \cup {"Missing"} /\ l.fence \in 0 .. MaxFence
           /\ l.renewed \in Times /\ l.expires \in Times /\ l.cutoff \in Times
           /\ l.lastTrusted \in Times /\ l.seq \in Nat
           /\ l.last \in Event \cup {NoEvent} /\ l.head \in Seq(Nat \ {0})
           /\ l.next \in OccurrenceOrNone /\ l.ack \in Nat /\ l.pending \in PendingOrNone
BY DEF Lifecycle

(* Nothing is pending exactly when the pending sequence is zero.           *)
LEMMA PendingTyped ==
    ASSUME NEW p \in PendingOrNone
    PROVE  /\ p # NoPending => /\ p.seq \in Nat \ {0} /\ p.event \in Event
                               /\ p.prior \in OccurrenceOrNone /\ p.result \in OccurrenceOrNone
           /\ p = NoPending => p.seq = 0 /\ p.event = NoEvent
BY DEF PendingOrNone, NoPending

(* Records of one and the same progress, perhaps of a later owner.         *)
Keeps(l, m) ==
    /\ m.fence >= l.fence /\ m.seq = l.seq /\ m.last = l.last /\ m.head = l.head
    /\ m.next = l.next /\ m.ack = l.ack /\ m.pending = l.pending

(* A write of mode, lease and fence alone leaves the files in agreement    *)
(* (persist_lifecycle).                                                    *)
LEMMA FilesKept ==
    ASSUME NEW l, NEW m \in Lifecycle, NEW j, NEW b, NEW s,
           Files(l, j, b, s), Keeps(l, m), Leased(m),
           m.mode \notin {"Missing", "Sleeping"}
    PROVE  Files(m, j, b, s)
<1>1. l \in Lifecycle /\ s \in Snapshots /\ History(j)
  BY DEF Files
<1>2. l.fence \in Nat /\ m.fence \in Nat /\ l.seq \in Nat
  BY <1>1, RecordTyped, StoreAssumption
<1>3. j \in Seq(Event) /\ \A i \in 1 .. Len(j) : j[i] \in Event /\ j[i].fence \in Nat
  <2>1. j \in Seq(Event)
    BY <1>1 DEF History
  <2>2. \A e \in Event : e.fence \in Nat
    BY StoreAssumption DEF Event
  <2> QED
    BY <2>1, <2>2
<1>4. Frontier(m, j)
  BY <1>2, <1>3 DEF Files, Fits, Frontier, Keeps
<1>5. l.pending # NoPending => l.pending.event.fence \in Nat
  <2>1. l.pending # NoPending => l.pending.event \in Event
    BY <1>1, RecordTyped, PendingTyped
  <2>2. \A e \in Event : e.fence \in Nat
    BY StoreAssumption DEF Event
  <2> QED
    BY <2>1, <2>2
<1>6. Schedule(m, j)
  <2>1. l.pending # NoPending => Unresolved(m, j)
    BY <1>2, <1>5 DEF Files, Fits, Schedule, Unresolved, Keeps
  <2> QED
    BY <2>1 DEF Files, Fits, Schedule, Keeps
<1>7. Boundary(m, j, b)
  BY DEF Files, Fits, Boundary, Keeps
<1>8. s.fence \in Nat /\ s.seq \in Nat
  BY <1>1, StoreAssumption DEF Snapshots
<1>9. Snapshot(m, j, s)
  BY <1>2, <1>8 DEF Files, Fits, Snapshot, Keeps
<1> QED
  BY <1>1, <1>4, <1>6, <1>7, <1>9 DEF Files, Fits

(* A record that agrees with the files is one that an opening store        *)
(* accepts (validate_prior_lifecycle).                                     *)
LEMMA RecordAccepted ==
    ASSUME NEW l, NEW j, NEW b, NEW s, Files(l, j, b, s), l.mode # "Missing"
    PROVE  PriorLifecycleValid(l)
<1>1. l \in Lifecycle /\ History(j) /\ Leased(l)
  BY DEF Files
<1>2. l.mode = "Sleeping" => l.renewed = NoTime /\ l.expires = NoTime /\ l.cutoff = NoTime
  BY <1>1 DEF Leased
<1>3. ASSUME l.mode # "Sleeping"
      PROVE  /\ l.fence > 0 /\ l.renewed # NoTime /\ l.renewed <= l.lastTrusted
             /\ l.lastTrusted < l.expires
             /\ IF l.mode = "Activating" THEN l.cutoff # NoTime /\ l.cutoff <= l.lastTrusted
                ELSE l.cutoff = NoTime
  BY <1>1, <1>3 DEF Leased, NoTime
<1>4. /\ l.seq \in Nat /\ l.ack \in Nat /\ Committed(j, l.seq) \in Nat
      /\ l.ack <= Committed(j, l.seq)
      /\ l.next # NoOccurrence => l.next.seq = Committed(j, l.seq) + 1
  BY <1>1, RecordTyped, QuantaFinite DEF Files, Fits, Schedule
<1>5. l.next # NoOccurrence => l.next.seq > l.ack
  BY <1>4
<1>6. l.pending # NoPending => l.pending.seq > l.seq
  BY <1>4 DEF Files, Fits, Schedule, Unresolved
<1> QED
  BY <1>2, <1>3, <1>5, <1>6 DEF PriorLifecycleValid

(* The record takes the boundary file's end as its head                    *)
(* (open_for_cell_with_clock after load_transfer_boundaries).              *)
LEMMA FilesHeaded ==
    ASSUME NEW l, NEW j, NEW b, NEW s, Files(l, j, b, s),
           TransferEvents(j) \subseteq InFile(b), l.mode \notin {"Missing", "Sleeping"}
    PROVE  Files([l EXCEPT !.head = b], j, b, s)
<1> DEFINE m == [l EXCEPT !.head = b]
<1>1. l \in Lifecycle /\ b \in Seq(Nat \ {0}) /\ s \in Snapshots /\ History(j)
  BY DEF Files, Fits, Boundary
<1>2. /\ m \in Lifecycle /\ m.head = b
      /\ m.fence = l.fence /\ m.seq = l.seq /\ m.last = l.last /\ m.mode = l.mode
      /\ m.next = l.next /\ m.ack = l.ack /\ m.pending = l.pending
      /\ m.renewed = l.renewed /\ m.expires = l.expires /\ m.cutoff = l.cutoff
      /\ m.lastTrusted = l.lastTrusted
  BY <1>1 DEF Lifecycle
<1> HIDE DEF m
<1>3. Frontier(m, j)
  BY <1>2 DEF Files, Fits, Frontier
<1>4. Schedule(m, j)
  BY <1>2 DEF Files, Fits, Schedule, Unresolved
<1>5. Boundary(m, j, b)
  BY <1>2 DEF Files, Fits, Boundary
<1>6. Snapshot(m, j, s)
  BY <1>2 DEF Files, Fits, Snapshot
<1>7. Leased(m)
  BY <1>2 DEF Files, Leased
<1>8. Files(m, j, b, s)
  BY <1>1, <1>2, <1>3, <1>4, <1>5, <1>6, <1>7 DEF Files, Fits
<1> QED
  BY <1>8 DEF m

(* One more boundary in the file (append_transfer_boundary).               *)
LEMMA BoundaryAppended ==
    ASSUME NEW b \in Seq(Nat \ {0}), NEW i \in Nat \ {0}
    PROVE  /\ Append(b, i) \in Seq(Nat \ {0})
           /\ InFile(Append(b, i)) = InFile(b) \cup {i}
           /\ Increasing(b) /\ (\A k \in InFile(b) : k < i) => Increasing(Append(b, i))
<1> DEFINE c == Append(b, i)
           n == Len(b)
<1>1. /\ n \in Nat /\ Len(c) = n + 1 /\ c[n + 1] = i /\ \A k \in 1 .. n : c[k] = b[k]
      /\ c \in Seq(Nat \ {0})
  BY AppendedEntries
<1> HIDE DEF c
<1>2. InFile(c) \subseteq InFile(b) \cup {i}
  BY <1>1 DEF InFile
<1>3. \A k \in 1 .. n : b[k] \in InFile(c)
  BY <1>1 DEF InFile
<1>4. i \in InFile(c)
  BY <1>1 DEF InFile
<1>5. InFile(b) \cup {i} \subseteq InFile(c)
  BY <1>3, <1>4 DEF InFile
<1>6. ASSUME Increasing(b), \A k \in InFile(b) : k < i PROVE Increasing(c)
  <2> SUFFICES ASSUME NEW k \in 2 .. n + 1 PROVE c[k - 1] < c[k]
    BY <1>1 DEF Increasing
  <2>1. CASE k = n + 1
    <3>1. k - 1 \in 1 .. n /\ b[k - 1] \in InFile(b)
      BY <1>1, <2>1 DEF InFile
    <3> QED
      BY <1>1, <1>6, <2>1, <3>1
  <2>2. CASE k # n + 1
    <3>1. k \in 2 .. n /\ k - 1 \in 1 .. n /\ k \in 1 .. n
      BY <1>1, <2>2
    <3> QED
      BY <1>1, <1>6, <3>1 DEF Increasing
  <2> QED
    BY <2>1, <2>2
<1> QED
  BY <1>1, <1>2, <1>5, <1>6 DEF c

(* The indices of transfer events are positions of the journal.            *)
LEMMA TransferPositions ==
    ASSUME NEW j \in Seq(Event), NEW i \in TransferEvents(j)
    PROVE  i \in Nat \ {0} /\ i <= Len(j) /\ j[i].kind = "transfer" /\ j[i] \in Event
BY DEF TransferEvents

(* The boundary file that load_transfer_boundaries leaves lacks nothing:   *)
(* the boundary of the pending event is added when it is missing.          *)
LEMMA FilesBackfilled ==
    ASSUME NEW l, NEW j, NEW b, NEW s, Files(l, j, b, s),
           BoundariesLoad(l, j, b, s)
    PROVE  /\ l.mode \notin {"Missing", "Sleeping"} => Files(l, j, BackfilledBoundaries(l, j, b, s), s)
           /\ TransferEvents(j) \subseteq InFile(BackfilledBoundaries(l, j, b, s))
<1> DEFINE c == BackfilledBoundaries(l, j, b, s)
           miss == MissingBoundaries(j, b, s)
<1>1. /\ l \in Lifecycle /\ s \in Snapshots /\ History(j) /\ b \in Seq(Nat \ {0}) /\ l.seq \in Nat
      /\ j \in Seq(Event) /\ Len(j) \in Nat
  BY RecordTyped DEF Files, Fits, Boundary, History
<1>2. /\ \A i \in TransferEvents(j) : i \in InFile(l.head) \/ (l.pending # NoPending /\ i = l.pending.seq)
      /\ InFile(b) \subseteq TransferEvents(j) /\ Increasing(b)
      /\ \/ b = l.head
         \/ /\ l.pending # NoPending /\ Len(j) = l.pending.seq
            /\ b = Append(l.head, l.pending.seq)
  BY DEF Files, Fits, Boundary
<1>3. l.pending # NoPending => /\ l.pending.seq = l.seq + 1
                               /\ Len(j) = l.seq + 1 => j[l.seq + 1] = l.pending.event
  BY DEF Files, Fits, Schedule, Unresolved
<1>4. Len(j) <= l.seq + 1
  BY DEF Files, Fits, Frontier
<1>5. ASSUME NoBoundaryKnown(l, j, b) PROVE c = b /\ TransferEvents(j) = {}
  <2>1. c = b
    BY <1>5 DEF BackfilledBoundaries
  <2>2. InFile(l.head) = {}
    BY <1>5 DEF NoBoundaryKnown, InFile
  <2>3. ASSUME NEW i \in TransferEvents(j) PROVE FALSE
    <3>1. l.pending # NoPending /\ i = l.pending.seq
      BY <1>2, <2>2, <2>3
    <3>2. i = l.seq + 1 /\ i <= Len(j)
      BY <1>1, <1>3, <2>3, <3>1, TransferPositions
    <3>3. j[i] = l.pending.event
      BY <1>1, <1>3, <1>4, <3>1, <3>2
    <3> QED
      BY <1>5, <2>3, <3>1, <3>3 DEF NoBoundaryKnown
  <2> QED
    BY <2>1, <2>3
<1>6. ASSUME BackfillAllowed(l, j, b, s), ~NoBoundaryKnown(l, j, b), miss = {}
      PROVE  c = b /\ TransferEvents(j) \subseteq InFile(b)
  <2>1. c = b
    BY <1>6 DEF BackfilledBoundaries
  <2>2. ASSUME NEW i \in TransferEvents(j) PROVE i \in InFile(b)
    <3>1. CASE i <= s.seq
      BY <1>6, <2>2, <3>1 DEF BackfillAllowed
    <3>2. CASE ~(i <= s.seq)
      <4>1. i \in Nat /\ s.seq \in Nat
        BY <1>1, <2>2, TransferPositions DEF Snapshots
      <4> QED
        BY <1>6, <2>2, <3>2, <4>1 DEF MissingBoundaries
    <3> QED
      BY <3>1, <3>2
  <2> QED
    BY <2>1, <2>2
<1>7. ASSUME BackfillAllowed(l, j, b, s), ~NoBoundaryKnown(l, j, b), miss # {}
      PROVE  /\ c = Append(b, l.pending.seq) /\ l.pending # NoPending
             /\ Len(j) = l.pending.seq /\ b = l.head /\ l.pending.seq \in TransferEvents(j)
             /\ l.pending.seq \notin InFile(b)
             /\ TransferEvents(j) \subseteq InFile(b) \cup {l.pending.seq}
  <2>1. PICK i \in TransferEvents(j) : i > s.seq /\ i \notin InFile(b)
    BY <1>7 DEF MissingBoundaries
  <2>2. miss = {i} /\ l.pending # NoPending /\ l.pending.event = j[i]
    BY <1>7, <2>1 DEF BackfillAllowed, MissingBoundaries
  <2>3. InFile(l.head) \subseteq InFile(b)
    <3>1. CASE b = l.head
      BY <3>1
    <3>2. CASE b = Append(l.head, l.pending.seq) /\ l.pending # NoPending
      <4>1. l.head \in Seq(Nat \ {0}) /\ l.pending.seq \in Nat \ {0}
        BY <1>1, <3>2, RecordTyped, PendingTyped
      <4> QED
        BY <3>2, <4>1, BoundaryAppended
    <3> QED
      BY <1>2, <3>1, <3>2
  <2>4. i = l.pending.seq
    BY <1>2, <2>1, <2>3
  <2>5. i = Len(j)
    BY <1>1, <1>3, <1>4, <2>1, <2>2, <2>4, TransferPositions
  <2>6. b = l.head
    <3>1. SUFFICES ASSUME b = Append(l.head, i) PROVE FALSE
      BY <1>2, <2>4
    <3>2. l.head \in Seq(Nat \ {0}) /\ i \in Nat \ {0}
      BY <1>1, <2>1, RecordTyped, TransferPositions
    <3> QED
      BY <2>1, <3>1, <3>2, BoundaryAppended
  <2>7. c = Append(b, CHOOSE k \in miss : TRUE)
    BY <1>7 DEF BackfilledBoundaries
  <2> HIDE DEF c, miss
  <2>8. c = Append(b, i)
    BY <2>2, <2>7
  <2> QED
    BY <1>2, <2>1, <2>2, <2>4, <2>5, <2>6, <2>8
<1>8. ASSUME miss # {}, l.mode \notin {"Missing", "Sleeping"}, BackfillAllowed(l, j, b, s), ~NoBoundaryKnown(l, j, b)
      PROVE  Files(l, j, c, s)
  <2> DEFINE p == l.pending.seq
  <2>1. /\ c = Append(b, p) /\ l.pending # NoPending
        /\ Len(j) = p /\ b = l.head /\ p \in TransferEvents(j) /\ p \notin InFile(b)
    BY <1>7, <1>8
  <2> HIDE DEF c
  <2>2. p \in Nat \ {0}
    BY <1>1, <2>1, TransferPositions
  <2>3. \A k \in InFile(b) : k < p
    BY <1>1, <1>2, <2>1, <2>2, TransferPositions
  <2>4. c \in Seq(Nat \ {0}) /\ InFile(c) = InFile(b) \cup {p} /\ Increasing(c)
    BY <1>1, <1>2, <2>1, <2>2, <2>3, BoundaryAppended
  <2>5. Boundary(l, j, c)
    BY <1>2, <2>1, <2>4 DEF Boundary
  <2> QED
    BY <1>8, <2>5 DEF Files, Fits
<1>9. ASSUME miss # {}, BackfillAllowed(l, j, b, s), ~NoBoundaryKnown(l, j, b)
      PROVE  TransferEvents(j) \subseteq InFile(c)
  <2>1. /\ c = Append(b, l.pending.seq) /\ l.pending.seq \in TransferEvents(j)
        /\ TransferEvents(j) \subseteq InFile(b) \cup {l.pending.seq}
    BY <1>7, <1>9
  <2> HIDE DEF c
  <2>2. l.pending.seq \in Nat \ {0}
    BY <1>1, <2>1, TransferPositions
  <2>3. InFile(c) = InFile(b) \cup {l.pending.seq}
    BY <1>1, <2>1, <2>2, BoundaryAppended
  <2> QED
    BY <2>1, <2>3
<1>10. NoBoundaryKnown(l, j, b) \/ BackfillAllowed(l, j, b, s)
  BY DEF BoundariesLoad
<1> HIDE DEF c, miss
<1> QED
  BY <1>5, <1>6, <1>8, <1>9, <1>10 DEF c

(* A record whose frontier is the end of the journal, with nothing pending *)
(* and the schedule the journal implies (commit_world_event's last write,  *)
(* reconcile_lifecycle_with_world, acknowledge_production_sequence,        *)
(* release_to_sleeping).                                                   *)
LEMMA FilesSettled ==
    ASSUME NEW l, NEW m \in Lifecycle, NEW j, NEW b, NEW s, Files(l, j, b, s),
           TransferEvents(j) \subseteq InFile(b),
           m.fence = l.fence, m.head = b, m.pending = NoPending,
           m.seq = Len(j), m.last = (IF Len(j) = 0 THEN NoEvent ELSE j[Len(j)]),
           m.next = ImpliedNext(j), m.ack <= Committed(j, Len(j)),
           Leased(m), m.mode # "Missing",
           m.mode = "Sleeping" => Asleep(m, j, b, s)
    PROVE  Files(m, j, b, s)
<1>1. /\ s \in Snapshots /\ History(j) /\ l.seq \in Nat /\ l.fence \in Nat
      /\ l.seq <= Len(j) /\ Len(j) \in Nat
  BY RecordTyped, StoreAssumption DEF Files, Fits, Frontier, History
<1>2. Frontier(m, j)
  BY <1>1 DEF Files, Fits, Frontier
<1>3. Schedule(m, j)
  <2>1. ImpliedNext(j) # NoOccurrence => ImpliedNext(j).seq = Committed(j, Len(j)) + 1
    BY <1>1, ImpliedNextType
  <2> QED
    BY <2>1 DEF Schedule
<1>4. Boundary(m, j, b)
  BY DEF Files, Fits, Boundary
<1>5. Snapshot(m, j, s)
  BY <1>1 DEF Files, Fits, Snapshot, Snapshots
<1> QED
  BY <1>1, <1>2, <1>3, <1>4, <1>5 DEF Files, Fits

(* A snapshot of the whole history by the owner of the record              *)
(* (save_snapshot).                                                        *)
LEMMA FilesSnapped ==
    ASSUME NEW l, NEW j, NEW b, NEW s, Files(l, j, b, s),
           l.pending = NoPending, l.mode \notin {"Missing", "Sleeping"}
    PROVE  l.seq = Len(j) /\ Files(l, j, b, [seq |-> l.seq, fence |-> l.fence])
<1>1. /\ l \in Lifecycle /\ History(j) /\ l.seq \in Nat /\ l.fence \in 0 .. MaxFence
      /\ l.seq <= Len(j) /\ Len(j) \in Nat /\ Len(j) <= l.seq + 1
      /\ Len(j) = l.seq + 1 => l.pending # NoPending
      /\ \A i \in 1 .. Len(j) : j[i].fence <= l.fence
  BY RecordTyped DEF Files, Fits, Frontier, History
<1>2. l.seq = Len(j)
  BY <1>1
<1> DEFINE t == [seq |-> l.seq, fence |-> l.fence]
<1>3. t \in Snapshots /\ t.seq = l.seq /\ t.fence = l.fence
  BY <1>1 DEF Snapshots
<1> HIDE DEF t
<1>4. l.fence \in Nat
  BY <1>1, StoreAssumption
<1>5. Snapshot(l, j, t)
  BY <1>1, <1>2, <1>3, <1>4 DEF Snapshot, SnapshotFenceConsistent
<1> QED
  BY <1>2, <1>3, <1>5 DEF Files, Fits, t

(* The commit of an event is staged with the schedules on both sides of it *)
(* (commit_world_event's first write).                                     *)
LEMMA FilesStaged ==
    ASSUME NEW l, NEW m \in Lifecycle, NEW j, NEW b, NEW s, NEW e \in Event,
           Files(l, j, b, s), l.pending = NoPending,
           e.fence = l.fence, e.at <= MaxTime,
           m.fence = l.fence, m.seq = l.seq, m.last = l.last, m.head = l.head,
           m.next = l.next, m.ack = l.ack,
           m.pending = [seq |-> l.seq + 1, event |-> e, prior |-> l.next,
                        result |-> ResultingNext(j, Len(j), e, l.next)],
           Leased(m), m.mode \notin {"Missing", "Sleeping"}
    PROVE  Files(m, j, b, s)
<1>1. /\ s \in Snapshots /\ History(j) /\ l.seq \in Nat /\ l.fence \in Nat
      /\ l.seq <= Len(j) /\ Len(j) \in Nat /\ Len(j) <= l.seq + 1
      /\ Len(j) = l.seq + 1 => l.pending # NoPending
  BY RecordTyped, StoreAssumption DEF Files, Fits, Frontier, History
<1>2. l.next = ImpliedNext(j)
  BY DEF Files, Fits, Schedule
<1>3. /\ m.pending.seq = l.seq + 1 /\ m.pending.event = e /\ m.pending.prior = l.next
      /\ m.pending.result = ImpliedNext(Append(j, e))
  BY <1>1, <1>2, ResultingNextIsImplied
<1>4. m.pending # NoPending
  BY <1>1, <1>3 DEF NoPending
<1>5. Frontier(m, j)
  BY <1>1 DEF Files, Fits, Frontier
<1>6. Unresolved(m, j)
  BY <1>1, <1>2, <1>3 DEF Unresolved
<1>7. Schedule(m, j)
  BY <1>4, <1>6 DEF Files, Fits, Schedule
<1>8. Boundary(m, j, b)
  BY <1>4 DEF Files, Fits, Boundary
<1>9. Snapshot(m, j, s)
  BY DEF Files, Fits, Snapshot
<1> QED
  BY <1>1, <1>5, <1>7, <1>8, <1>9 DEF Files, Fits

(* The pending event is appended to the journal (append_event).            *)
LEMMA FilesEventAppended ==
    ASSUME NEW l, NEW j, NEW b, NEW s,
           Files(l, j, b, s), l.pending # NoPending, Len(j) = l.seq,
           l.head = b, l.mode \notin {"Missing", "Sleeping"},
           l.pending.event.fence = l.fence,
           ~ \E i \in InFile(b) : l.pending.event.kind = "transfer" /\ j[i].key = l.pending.event.key
    PROVE  /\ Files(l, Append(j, l.pending.event), b, s)
           /\ TransferEvents(j) \subseteq InFile(b)
           /\ l.pending.event.kind # "transfer" =>
                 TransferEvents(Append(j, l.pending.event)) \subseteq InFile(b)
           /\ Committed(Append(j, l.pending.event), l.seq) = Committed(j, l.seq)
           /\ l.pending.seq \notin InFile(b)
<1> DEFINE e == l.pending.event
           a == Append(j, e)
           n == Len(j)
<1>1. /\ l \in Lifecycle /\ s \in Snapshots /\ History(j) /\ l.seq \in Nat /\ l.fence \in Nat
      /\ j \in Seq(Event) /\ n \in Nat /\ b \in Seq(Nat \ {0})
      /\ \A i \in 1 .. n : j[i].fence <= l.fence
  BY RecordTyped, StoreAssumption DEF Files, Fits, Frontier, History, Boundary
<1>2. /\ l.pending.seq = l.seq + 1 /\ e \in Event /\ e.at <= MaxTime /\ l.pending.prior = l.next
      /\ l.next = ImpliedNext(j) /\ l.pending.result = ImpliedNext(a)
  BY DEF Files, Fits, Schedule, Unresolved
<1>3. /\ Len(a) = n + 1 /\ a[n + 1] = e /\ \A i \in 1 .. n : a[i] = j[i]
  BY <1>1, <1>2, AppendedEntries
<1>4. TransferEvents(j) \subseteq InFile(b)
  <2> SUFFICES ASSUME NEW i \in TransferEvents(j) PROVE i \in InFile(b)
    OBVIOUS
  <2>1. i <= n /\ i \in Nat
    BY <1>1, TransferPositions
  <2>2. i # l.pending.seq
    BY <1>1, <1>2, <2>1
  <2> QED
    BY <2>2 DEF Files, Fits, Boundary
<1>5. History(a)
  BY <1>1, <1>2, <1>4, HistoryAppend
<1>6. Committed(a, n) = Committed(j, n)
  BY <1>1, <1>2, ClockOfPrefix
<1> HIDE DEF a, e, n
<1>7. Frontier(l, a)
  <2>1. l.last = IF l.seq = 0 THEN NoEvent ELSE a[l.seq]
    <3>1. l.last = IF l.seq = 0 THEN NoEvent ELSE j[l.seq]
      BY DEF Files, Fits, Frontier
    <3>2. n = l.seq
      BY DEF n
    <3>3. l.seq # 0 => l.seq \in 1 .. n
      BY <1>1, <3>2
    <3>4. l.seq # 0 => a[l.seq] = j[l.seq]
      BY <1>3, <3>3
    <3> QED
      BY <3>1, <3>4
  <2>2. \A i \in 1 .. n + 1 : a[i].fence <= l.fence
    BY <1>1, <1>3 DEF e
  <2> QED
    BY <1>1, <1>3, <2>1, <2>2 DEF Frontier, n
<1>8. Unresolved(l, a)
  BY <1>1, <1>2, <1>3 DEF Unresolved, e, n
<1>9. Schedule(l, a)
  BY <1>6, <1>8 DEF Files, Fits, Schedule, n
<1>10. TransferEvents(a) \subseteq TransferEvents(j) \cup {n + 1} /\ TransferEvents(j) \subseteq TransferEvents(a)
  BY <1>1, <1>3 DEF TransferEvents, n
<1>11. e.kind # "transfer" => TransferEvents(a) \subseteq TransferEvents(j)
  BY <1>1, <1>3, <1>10 DEF TransferEvents, n
<1>12. Boundary(l, a, b)
  <2>1. InFile(b) \subseteq TransferEvents(a) /\ Increasing(b)
    BY <1>10 DEF Files, Fits, Boundary
  <2>2. \A i \in TransferEvents(a) : i \in InFile(l.head) \/ (l.pending # NoPending /\ i = l.pending.seq)
    BY <1>2, <1>4, <1>10 DEF n
  <2> QED
    BY <1>1, <2>1, <2>2 DEF Boundary
<1>13. Snapshot(l, a, s)
  <2>1. s.seq \in Nat /\ s.fence \in Nat /\ s.seq <= l.seq /\ s.fence <= l.fence
    BY <1>1, StoreAssumption DEF Files, Fits, Snapshot, Snapshots
  <2>2. SnapshotFenceConsistent(j, s)
    BY DEF Files, Fits, Snapshot
  <2>3. ASSUME NEW i \in 1 .. n + 1
        PROVE  IF i <= s.seq THEN a[i].fence <= s.fence ELSE a[i].fence >= s.fence
    <3>1. CASE i \in 1 .. n
      BY <1>3, <2>2, <3>1 DEF SnapshotFenceConsistent, n
    <3>2. CASE i = n + 1
      <4>1. ~(i <= s.seq) /\ a[i].fence = l.fence
        BY <1>1, <1>3, <2>1, <3>2 DEF n, e
      <4> QED
        BY <1>1, <2>1, <4>1
    <3> QED
      BY <1>1, <3>1, <3>2
  <2> QED
    BY <1>3, <2>1, <2>3 DEF Snapshot, SnapshotFenceConsistent
<1>14. Leased(l)
  BY DEF Files
<1>15. l.pending.seq \notin InFile(b)
  <2>1. InFile(b) \subseteq TransferEvents(j)
    BY DEF Files, Fits, Boundary
  <2>2. l.pending.seq = n + 1
    BY <1>2 DEF n
  <2>3. n + 1 \notin TransferEvents(j)
    BY <1>1 DEF TransferEvents, n
  <2> QED
    BY <2>1, <2>2, <2>3
<1> QED
  BY <1>1, <1>4, <1>5, <1>6, <1>7, <1>9, <1>11, <1>12, <1>13, <1>14, <1>15 DEF Files, Fits, a, e, n

(* The pending boundary is appended to its file (append_transfer_boundary). *)
LEMMA FilesBoundaryAppended ==
    ASSUME NEW l, NEW j, NEW b, NEW s,
           Files(l, j, b, s), l.pending # NoPending, Len(j) = l.seq + 1,
           l.head = b, l.mode \notin {"Missing", "Sleeping"},
           l.pending.event.kind = "transfer", l.pending.seq \notin InFile(b)
    PROVE  /\ Files(l, j, Append(b, l.pending.seq), s)
           /\ TransferEvents(j) \subseteq InFile(Append(b, l.pending.seq))
<1> DEFINE p == l.pending.seq
           c == Append(b, p)
<1>1. /\ l \in Lifecycle /\ l.seq \in Nat /\ b \in Seq(Nat \ {0}) /\ j \in Seq(Event)
      /\ InFile(b) \subseteq TransferEvents(j) /\ Increasing(b)
  BY RecordTyped DEF Files, Fits, Boundary, History
<1>2. p = l.seq + 1 /\ j[l.seq + 1] = l.pending.event
  BY <1>1 DEF Files, Fits, Schedule, Unresolved
<1>3. \A i \in TransferEvents(j) : i \in InFile(b) \/ i = p
  BY DEF Files, Fits, Boundary
<1>4. p \in TransferEvents(j) /\ p \in Nat \ {0}
  BY <1>1, <1>2 DEF TransferEvents
<1>5. InFile(c) = InFile(b) \cup {p} /\ c \in Seq(Nat \ {0})
  BY <1>1, <1>4, BoundaryAppended
<1>6. Increasing(c)
  <2>1. \A k \in InFile(b) : k < p
    BY <1>1, <1>2, TransferPositions
  <2> QED
    BY <1>1, <1>4, <2>1, BoundaryAppended
<1> HIDE DEF c
<1>7. Boundary(l, j, c)
  BY <1>1, <1>2, <1>3, <1>4, <1>5, <1>6 DEF Boundary, c
<1> QED
  BY <1>3, <1>5, <1>7 DEF Files, Fits, c

-----------------------------------------------------------------------------
(***************************************************************************)
(* The steps that are left.                                                *)
(***************************************************************************)
(* What remains after the step at the head.                                *)
LEMMA QueueTail ==
    ASSUME NEW S, NEW t \in Seq(S), t # <<>>
    PROVE  /\ Tail(t) \in Seq(S) /\ Head(t) = t[1]
           /\ Len(t) \in Nat \ {0} /\ Len(Tail(t)) = Len(t) - 1
           /\ \A i \in 1 .. Len(t) - 1 : Tail(t)[i] = t[i + 1]
           /\ Tail(t) = <<>> <=> Len(t) = 1
<1>1. Head(t) = t[1] /\ Len(t) \in Nat \ {0}
  OBVIOUS
<1>2. Tail(t) \in Seq(S) /\ Len(Tail(t)) = Len(t) - 1
  OBVIOUS
<1>3. \A i \in 1 .. Len(t) - 1 : Tail(t)[i] = t[i + 1]
  OBVIOUS
<1>4. \A u \in Seq(S) : u = <<>> <=> Len(u) = 0
  OBVIOUS
<1>5. Len(t) - 1 = 0 <=> Len(t) = 1
  BY <1>1
<1> QED
  BY <1>1, <1>2, <1>3, <1>4, <1>5

(* Only a commit's first step may be followed by another step of it        *)
(* (commit_world_event).                                                   *)
LEMMA CommitStepsFirst ==
    ASSUME NEW t, NEW kind, Ordered(t, kind), t # <<>>,
           t[1] \notin {"append", "boundary"}, NEW i \in 2 .. Len(t)
    PROVE  t[i] \notin {"append", "boundary", "commit"}
<1>1. t \in Seq(Steps) /\ Len(t) \in Nat
  BY DEF Ordered
<1>2. ASSUME NEW k \in 2 .. Len(t) PROVE t[k] # "append" /\ t[k] # "boundary"
  <2>1. After(t, k)
    BY <1>2 DEF Ordered
  <2>2. t[k] # "append" /\ (t[k] = "boundary" => t[k - 1] = "append")
    BY <2>1 DEF After
  <2>3. t[k - 1] # "append"
    <3>1. CASE k = 2
      BY <3>1
    <3>2. CASE k # 2
      <4>1. k - 1 \in 2 .. Len(t)
        BY <1>1, <1>2, <3>2
      <4>2. After(t, k - 1)
        BY <4>1 DEF Ordered
      <4> QED
        BY <4>2 DEF After
    <3> QED
      BY <3>1, <3>2
  <2> QED
    BY <2>2, <2>3
<1>3. t[i] = "commit" => t[i - 1] \in {"append", "boundary"}
  BY DEF Ordered, After
<1>4. t[i - 1] \notin {"append", "boundary"}
  <2>1. CASE i = 2
    BY <2>1
  <2>2. CASE i # 2
    <3>1. i - 1 \in 2 .. Len(t)
      BY <1>1, <2>2
    <3> QED
      BY <1>2, <3>1
  <2> QED
    BY <2>1, <2>2
<1> QED
  BY <1>2, <1>3, <1>4

(* The order of what remains; once the event is recorded, what was pending *)
(* no longer matters.                                                      *)
LEMMA OrderedTail ==
    ASSUME NEW t, NEW kind, NEW after, Ordered(t, kind), t # <<>>,
           t[1] \in {"append", "boundary"} => after = kind
    PROVE  Ordered(Tail(t), after)
<1> DEFINE u == Tail(t)
<1>1. t \in Seq(Steps)
  BY DEF Ordered
<1>2. /\ u \in Seq(Steps) /\ Len(t) \in Nat \ {0} /\ Len(u) = Len(t) - 1
      /\ \A i \in 1 .. Len(t) - 1 : u[i] = t[i + 1]
  BY <1>1, QueueTail
<1> HIDE DEF u
<1>3. ASSUME NEW i \in 1 .. Len(u) PROVE Onward(u, i, after)
  <2>1. i + 1 \in 1 .. Len(t) /\ u[i] = t[i + 1] /\ i + 1 \in 2 .. Len(t) /\ i \in Nat
    BY <1>2, <1>3
  <2>2. Onward(t, i + 1, kind)
    BY <2>1 DEF Ordered
  <2>3. ASSUME NEW s, Follows(t, i + 1, s) PROVE Follows(u, i, s)
    <3>1. i + 1 + 1 <= Len(t) /\ t[i + 1 + 1] = s
      BY <2>3 DEF Follows
    <3>2. i + 1 \in 1 .. Len(t) - 1
      BY <1>2, <2>1, <3>1
    <3> QED
      BY <1>2, <3>1, <3>2 DEF Follows
  <2>4. i + 1 = Len(t) => i = Len(u)
    BY <1>2, <2>1
  <2>5. CASE t[1] \in {"append", "boundary"}
    BY <2>1, <2>2, <2>3, <2>4, <2>5 DEF Onward
  <2>6. CASE t[1] \notin {"append", "boundary"}
    <3>1. u[i] \notin {"append", "boundary", "commit"}
      BY <2>1, <2>6, CommitStepsFirst
    <3> QED
      BY <2>1, <2>2, <2>3, <2>4, <3>1 DEF Onward
  <2> QED
    BY <2>5, <2>6
<1>4. ASSUME NEW i \in 2 .. Len(u) PROVE After(u, i)
  <2>1. /\ i + 1 \in 2 .. Len(t) /\ u[i] = t[i + 1] /\ i - 1 \in 1 .. Len(t) - 1
        /\ i - 1 + 1 = i /\ i + 1 - 1 = i
    BY <1>2, <1>4
  <2>2. u[i - 1] = t[i]
    BY <1>2, <2>1
  <2>3. After(t, i + 1)
    BY <2>1 DEF Ordered
  <2> QED
    BY <2>1, <2>2, <2>3 DEF After
<1> QED
  BY <1>2, <1>3, <1>4 DEF Ordered, u

(* Taking the step at the head: the next one is the one that follows it.   *)
LEMMA StepTaken ==
    ASSUME NEW kind, NEW after, NEW s, Ordered(todo, kind), TakeStep(s, Tail(todo)),
           s \in {"append", "boundary"} => after = kind
    PROVE  /\ Ordered(todo', after)
           /\ HeadIs(s) /\ host \in Live
           /\ Onward(todo, 1, kind)
           /\ todo' = <<>> <=> Len(todo) = 1
           /\ todo' # <<>> => todo'[1] = todo[2] /\ After(todo, 2)
           /\ host' = (IF todo' = <<>> THEN "up" ELSE host)
           /\ recovered' = (IF todo' = <<>> THEN "Missing" ELSE recovered)
           /\ \A x : Has(todo', x) => Has(todo, x)
           /\ \A x : Has(todo', x) /\ Len(todo) = 2 => todo[2] = x
<1>1. todo \in Seq(Steps) /\ todo # <<>> /\ todo' = Tail(todo) /\ Head(todo) = s
  BY DEF Ordered, TakeStep
<1>2. /\ Tail(todo) \in Seq(Steps) /\ Head(todo) = todo[1]
      /\ Len(todo) \in Nat \ {0} /\ Len(Tail(todo)) = Len(todo) - 1
      /\ \A i \in 1 .. Len(todo) - 1 : Tail(todo)[i] = todo[i + 1]
      /\ Tail(todo) = <<>> <=> Len(todo) = 1
  BY <1>1, QueueTail
<1>3. Ordered(todo', after)
  BY <1>1, <1>2, OrderedTail
<1>4. Onward(todo, 1, kind)
  BY <1>2 DEF Ordered
<1>5. todo' # <<>> => todo'[1] = todo[2] /\ After(todo, 2)
  <2>1. todo' # <<>> => 1 \in 1 .. Len(todo) - 1 /\ 2 \in 2 .. Len(todo)
    BY <1>1, <1>2
  <2> QED
    BY <1>1, <1>2, <2>1 DEF Ordered
<1>6. \A x : Has(todo', x) => Has(todo, x)
  BY <1>1, <1>2 DEF Has
<1>7. \A x : Has(todo', x) /\ Len(todo) = 2 => todo[2] = x
  BY <1>1, <1>2 DEF Has
<1> QED
  BY <1>1, <1>2, <1>3, <1>4, <1>5, <1>6, <1>7 DEF HeadIs, TakeStep

(* When nothing is left, the store serves.                                 *)
LEMMA NothingLeft ==
    ASSUME todo = <<>>
    PROVE  /\ ~Opening /\ ~Committing
           /\ \A s : ~HeadIs(s)
           /\ \A s : ~Has(todo, s)
<1>1. Len(todo) = 0
  OBVIOUS
<1> QED
  BY <1>1 DEF Opening, Committing, HeadIs, Has

-----------------------------------------------------------------------------
(***************************************************************************)
(* The process between steps.                                              *)
(***************************************************************************)
(* What a live process knows: the clock it samples, and that its memory of *)
(* the record is the file (validate_live_lease_record).                    *)
LEMMA LiveFacts ==
    ASSUME StoreInv, host \in Live
    PROVE  /\ lc \in Lifecycle /\ lc.mode \in Modes \ {"Sleeping"} /\ Leased(lc)
           /\ Now \in 1 .. MaxTime /\ clock \in 1 .. MaxTime /\ trusted \in 0 .. MaxTime
           /\ trusted <= Now /\ lc.lastTrusted <= Now /\ lc.lastTrusted \in 1 .. MaxTime
           /\ Ordered(todo, lc.pending.event.kind)
           /\ ~HeadIs("commit") => mem = lc
           /\ HeadIs("commit") => mem = [lc EXCEPT !.head = bnd]
<1>1. FilesInv /\ MemoryInv /\ StepsInv
  BY DEF StoreInv
<1>2. lc \in Lifecycle /\ Leased(lc)
  BY <1>1 DEF FilesInv, Files
<1>3. lc.mode \in Modes \ {"Sleeping"} /\ lc.mode # "Missing"
  BY <1>1, <1>2, RecordTyped DEF MemoryInv
<1>4. clock \in 1 .. MaxTime /\ trusted \in 0 .. MaxTime /\ lc.lastTrusted <= trusted
  BY <1>1 DEF MemoryInv
<1>5. Now \in 1 .. MaxTime /\ trusted <= Now
  BY <1>4, StoreAssumption DEF Now, Larger
<1>6. lc.lastTrusted \in 1 .. MaxTime
  BY <1>2, <1>3 DEF Leased
<1>7. lc.lastTrusted <= Now
  BY <1>4, <1>5, <1>6, StoreAssumption
<1>8. Ordered(todo, lc.pending.event.kind)
  BY <1>1 DEF StepsInv
<1> QED
  BY <1>1, <1>2, <1>3, <1>4, <1>5, <1>6, <1>7, <1>8 DEF MemoryInv

(* A record with a lease that runs at the time t.                          *)
Runs(l, t) ==
    /\ l \in Lifecycle /\ l.fence > 0 /\ l.mode \notin {"Missing", "Sleeping"}
    /\ l.renewed \in 1 .. t /\ t < l.expires
    /\ l.mode = "Activating" => l.cutoff \in 1 .. t
    /\ l.mode # "Activating" => l.cutoff = NoTime

(* Trusted times are written as they are sampled.                          *)
LEMMA TimeTyped ==
    ASSUME NEW t \in 0 .. MaxTime
    PROVE  t \in Times /\ t + LeaseDuration \in Times /\ t < t + LeaseDuration /\ NoTime \in Times
BY StoreAssumption DEF Times, NoTime

(* maintain_live_lease leaves the record's progress alone and a lease that *)
(* runs.                                                                   *)
LEMMA RenewedFacts ==
    ASSUME StoreInv, host \in Live, LeaseHeld
    PROVE  /\ mem = lc
           /\ Runs(lc, Now) /\ Runs(Renewed, Now)
           /\ Keeps(lc, Renewed) /\ Renewed.fence = lc.fence
           /\ Renewed.mode = lc.mode /\ Renewed.cutoff = lc.cutoff
           /\ Renewed.lastTrusted <= Now
           /\ Files(Renewed, Lines, Boundaries, snap)
<1>1. mem = lc /\ Now < mem.expires
  BY DEF LeaseHeld
<1>2. /\ lc \in Lifecycle /\ lc.mode \in Modes \ {"Sleeping"} /\ Leased(lc)
      /\ Now \in 1 .. MaxTime /\ lc.lastTrusted <= Now /\ lc.lastTrusted \in 1 .. MaxTime
  BY LiveFacts
<1>3. lc.mode # "Missing" /\ lc.mode # "Sleeping"
  BY <1>2 DEF Modes
<1>4. /\ lc.fence > 0 /\ lc.renewed \in 1 .. lc.lastTrusted
      /\ lc.mode = "Activating" => lc.cutoff \in 1 .. lc.lastTrusted
      /\ lc.mode # "Activating" => lc.cutoff = NoTime
  BY <1>2, <1>3 DEF Leased
<1>5. /\ lc.renewed \in 1 .. Now
      /\ lc.mode = "Activating" => lc.cutoff \in 1 .. Now
  BY <1>2, <1>4, StoreAssumption
<1>6. Runs(lc, Now)
  BY <1>1, <1>2, <1>3, <1>4, <1>5 DEF Runs
<1>7. /\ Now \in Times /\ Now + LeaseDuration \in Times /\ Now < Now + LeaseDuration
      /\ Now \in 1 .. Now
  BY <1>2, TimeTyped
<1> DEFINE m == [lc EXCEPT !.renewed = Now, !.expires = Now + LeaseDuration, !.lastTrusted = Now]
<1>8. /\ m \in Lifecycle /\ m.renewed = Now /\ m.expires = Now + LeaseDuration /\ m.lastTrusted = Now
      /\ m.fence = lc.fence /\ m.seq = lc.seq /\ m.last = lc.last /\ m.head = lc.head
      /\ m.next = lc.next /\ m.ack = lc.ack /\ m.pending = lc.pending
      /\ m.mode = lc.mode /\ m.cutoff = lc.cutoff
  BY <1>2, <1>7 DEF Lifecycle
<1>9. lc.fence \in Nat
  BY <1>2, RecordTyped, StoreAssumption
<1>10. Renewed = m \/ Renewed = lc
  BY <1>1 DEF Renewed
<1> HIDE DEF m
<1>11. Runs(m, Now)
  BY <1>3, <1>4, <1>5, <1>7, <1>8 DEF Runs
<1>12. Keeps(lc, m) /\ Keeps(lc, lc)
  BY <1>8, <1>9 DEF Keeps
<1>13. Files(lc, Lines, Boundaries, snap)
  BY DEF StoreInv, FilesInv
<1>14. Leased(m)
  <2>1. Now \in 1 .. MaxTime /\ m.renewed \in 1 .. m.lastTrusted /\ m.lastTrusted < m.expires
    BY <1>2, <1>7, <1>8
  <2>2. m.mode = "Activating" => m.cutoff \in 1 .. m.lastTrusted
    BY <1>5, <1>8
  <2> QED
    BY <1>3, <1>4, <1>8, <2>1, <2>2 DEF Leased
<1>15. Files(m, Lines, Boundaries, snap)
  BY <1>3, <1>8, <1>12, <1>13, <1>14, FilesKept
<1>16. m.lastTrusted <= Now
  BY <1>2, <1>8
<1> QED
  BY <1>1, <1>2, <1>6, <1>8, <1>10, <1>11, <1>12, <1>13, <1>15, <1>16

(* A record written at a trusted time inside its lease holds a lease.      *)
LEMMA WrittenLeased ==
    ASSUME NEW t \in 1 .. MaxTime, NEW l, Runs(l, t)
    PROVE  LET m == [l EXCEPT !.lastTrusted = t]
           IN /\ m \in Lifecycle /\ Leased(m) /\ m.lastTrusted = t
              /\ m.fence = l.fence /\ m.seq = l.seq /\ m.last = l.last /\ m.head = l.head
              /\ m.next = l.next /\ m.ack = l.ack /\ m.pending = l.pending
              /\ m.mode = l.mode /\ m.cutoff = l.cutoff
<1> DEFINE m == [l EXCEPT !.lastTrusted = t]
<1>1. l \in Lifecycle /\ t \in Times
  BY TimeTyped, StoreAssumption DEF Runs
<1>2. /\ m \in Lifecycle /\ m.lastTrusted = t /\ m.renewed = l.renewed /\ m.expires = l.expires
      /\ m.fence = l.fence /\ m.seq = l.seq /\ m.last = l.last /\ m.head = l.head
      /\ m.next = l.next /\ m.ack = l.ack /\ m.pending = l.pending
      /\ m.mode = l.mode /\ m.cutoff = l.cutoff
  BY <1>1 DEF Lifecycle
<1> HIDE DEF m
<1>3. Leased(m)
  BY <1>2 DEF Leased, Runs
<1> QED
  BY <1>2, <1>3 DEF m

(* The files on disk are the files that an unchanged disk holds.           *)
LEMMA DiskUnchanged ==
    ASSUME FilesInv, UNCHANGED disk
    PROVE  FilesInv'
<1>1. lc' = lc /\ journal' = journal /\ bnd' = bnd /\ snap' = snap
  BY DEF disk
<1>2. Lines' = Lines /\ Boundaries' = Boundaries
  BY <1>1 DEF Lines, Boundaries
<1> QED
  BY <1>1, <1>2 DEF FilesInv

(* A process that ends leaves the files to the next one.                   *)
LEMMA Stops ==
    ASSUME FilesInv', NEW h \in {"down", "asleep"}, Forget(h), clock' \in 1 .. MaxTime
    PROVE  StoreInv'
<1>1. h \notin Live /\ h \in HostStates
  BY DEF Live, HostStates
<1>2. /\ host' = h /\ todo' = <<>> /\ mem' = NoLifecycle /\ world' = 0 /\ trusted' = 0
      /\ recovered' = "Missing"
  BY DEF Forget, NoTime
<1>3. MemoryInv'
  BY <1>1, <1>2, StoreAssumption DEF MemoryInv
<1>4. StepsInv'
  BY <1>1, <1>2 DEF StepsInv
<1> QED
  BY <1>3, <1>4 DEF StoreInv

(* No record at all is a record of this type (the file is missing).        *)
LEMMA NoRecordTyped == NoLifecycle \in Lifecycle
<1>1. NoTime \in Times
  BY StoreAssumption DEF NoTime, Times
<1>2. NoOccurrence \in OccurrenceOrNone /\ NoPending \in PendingOrNone
  BY DEF OccurrenceOrNone, PendingOrNone
<1>3. 0 \in 0 .. MaxFence /\ <<>> \in Seq(Nat \ {0})
  BY StoreAssumption
<1> QED
  BY <1>1, <1>2, <1>3 DEF NoLifecycle, Lifecycle

(* The first process finds no files.                                       *)
LEMMA StoreStarts == Init => StoreInv
<1> SUFFICES ASSUME Init PROVE StoreInv
  OBVIOUS
<1>1. /\ lc = NoLifecycle /\ journal = <<>> /\ bnd = <<>> /\ snap = [seq |-> 0, fence |-> 0]
      /\ host = "down" /\ todo = <<>> /\ mem = NoLifecycle /\ world = 0 /\ trusted = 0
      /\ recovered = "Missing" /\ clock = 1
  BY DEF Init, NoTime
<1>2. Lines = <<>> /\ Boundaries = <<>>
  BY <1>1 DEF Lines, Boundaries, Terminated
<1>3. NoLifecycle \in Lifecycle
  BY NoRecordTyped
<1>4. QuantaIn(<<>>, 0) = {} /\ TransferEvents(<<>>) = {} /\ InFile(<<>>) = {}
  BY DEF QuantaIn, TransferEvents, InFile
<1>5. Committed(<<>>, 0) \in Nat /\ ~Runnable(<<>>, 0)
  BY QuantaFinite DEF Runnable
<1>6. ImpliedNext(<<>>) = NoOccurrence
  BY <1>5, NothingImplied
<1>7. History(<<>>)
  BY <1>4, <1>5 DEF History
<1>8. Frontier(NoLifecycle, <<>>)
  BY DEF Frontier, NoLifecycle
<1>9. Schedule(NoLifecycle, <<>>)
  BY <1>5, <1>6 DEF Schedule, NoLifecycle
<1>10. Boundary(NoLifecycle, <<>>, <<>>)
  BY <1>4 DEF Boundary, NoLifecycle, Increasing
<1>11. snap \in Snapshots /\ Snapshot(NoLifecycle, <<>>, snap)
  BY <1>1, StoreAssumption DEF Snapshots, Snapshot, NoLifecycle, SnapshotFenceConsistent
<1>12. Leased(NoLifecycle) /\ NoLifecycle.mode = "Missing"
  BY DEF Leased, NoLifecycle
<1>13. FilesInv
  BY <1>1, <1>2, <1>3, <1>7, <1>8, <1>9, <1>10, <1>11, <1>12 DEF FilesInv, Files, Fits
<1>14. "down" \notin Live /\ "down" \in HostStates
  BY DEF Live, HostStates
<1>15. MemoryInv
  BY <1>1, <1>14, StoreAssumption DEF MemoryInv
<1>16. StepsInv
  BY <1>1, <1>14 DEF StepsInv
<1> QED
  BY <1>13, <1>15, <1>16 DEF StoreInv

(* Time passes, forward or back: no file and no belief depends on it.      *)
LEMMA ClockKeeps ==
    ASSUME StoreInv, Tick \/ ClockBack
    PROVE  StoreInv'
<1>1. UNCHANGED <<disk, host, todo, mem, world, trusted, recovered>>
  BY DEF Tick, ClockBack
<1>2. clock \in 1 .. MaxTime
  BY DEF StoreInv, MemoryInv
<1>3. clock' \in 1 .. MaxTime
  BY <1>2, StoreAssumption DEF Tick, ClockBack
<1>4. FilesInv'
  BY <1>1, DiskUnchanged DEF StoreInv
<1>5. /\ lc' = lc /\ journal' = journal /\ bnd' = bnd /\ snap' = snap
      /\ host' = host /\ todo' = todo /\ mem' = mem /\ world' = world
      /\ trusted' = trusted /\ recovered' = recovered
  BY <1>1 DEF disk
<1>6. Lines' = Lines /\ Boundaries' = Boundaries
  BY <1>5 DEF Lines, Boundaries
<1>7. MemoryInv'
  BY <1>3, <1>5, <1>6 DEF StoreInv, MemoryInv, HeadIs
<1>8. StepsInv'
  BY <1>5, <1>6 DEF StoreInv, StepsInv, OpeningInv, Served, RestInv, CommitInv, EndsInv,
                    Opening, Committing, HeadIs
<1> QED
  BY <1>4, <1>7, <1>8 DEF StoreInv

(* The process ends: it crashes, or halts because a check failed.          *)
LEMMA EndingKeeps ==
    ASSUME StoreInv, Crash \/ Halt
    PROVE  StoreInv'
<1>1. UNCHANGED disk /\ clock' = clock
  BY DEF Crash, Halt
<1>2. FilesInv' /\ clock' \in 1 .. MaxTime
  BY <1>1, DiskUnchanged DEF StoreInv, MemoryInv
<1>3. \E h \in {"down", "asleep"} : Forget(h)
  BY DEF Crash, Halt
<1> QED
  BY <1>2, <1>3, Stops

(* A line torn by a crash: the whole lines are what they were.             *)
LEMMA TornLinesStay ==
    ASSUME StoreInv, Tear
    PROVE  Lines' = Lines /\ Boundaries' = Boundaries
<1>1. /\ host \in Live /\ todo # <<>>
      /\ \/ Head(todo) = "append" /\ journal' = Append(journal, TornLine) /\ bnd' = bnd
         \/ Head(todo) = "boundary" /\ bnd' = Append(bnd, TornBoundary) /\ journal' = journal
         \/ bnd' = Append(Boundaries, TornBoundary) /\ journal' = journal
  BY DEF Tear
<1>2. FilesInv /\ MemoryInv /\ StepsInv
  BY DEF StoreInv
<1>3. Lines \in Seq(Event) /\ Boundaries \in Seq(Nat \ {0})
  BY <1>2 DEF FilesInv, Files, Fits, History, Boundary
<1>4. todo \in Seq(Steps) /\ Head(todo) = todo[1]
  BY <1>1, LiveFacts, QueueTail DEF Ordered
<1>5. ASSUME Head(todo) \in {"append", "boundary"} PROVE journal = Lines /\ bnd = Boundaries
  BY <1>1, <1>2, <1>4, <1>5 DEF StepsInv, Served, Opening, HeadIs
<1>6. CASE Head(todo) = "append" /\ journal' = Append(journal, TornLine) /\ bnd' = bnd
  BY <1>3, <1>5, <1>6, TornTailCut DEF Lines, Boundaries
<1>7. CASE Head(todo) = "boundary" /\ bnd' = Append(bnd, TornBoundary) /\ journal' = journal
  BY <1>3, <1>5, <1>7, TornBoundaryCut DEF Lines, Boundaries
<1>8. CASE bnd' = Append(Boundaries, TornBoundary) /\ journal' = journal
  <2>1. Terminated(Append(Boundaries, TornBoundary), TornBoundary) = Boundaries
    BY <1>3, TornBoundaryCut
  <2>2. Boundaries' = Terminated(bnd', TornBoundary) /\ Lines' = Terminated(journal', TornLine)
    BY DEF Boundaries, Lines
  <2> QED
    BY <1>8, <2>1, <2>2 DEF Lines
<1> QED
  BY <1>1, <1>6, <1>7, <1>8

(* And so a crash in the middle of an append loses nothing.                *)
LEMMA TearKeeps ==
    ASSUME StoreInv, Tear
    PROVE  StoreInv'
<1>1. host \in Live /\ Forget("down") /\ clock' = clock /\ lc' = lc /\ snap' = snap
  BY DEF Tear
<1>2. Lines' = Lines /\ Boundaries' = Boundaries
  BY TornLinesStay
<1>3. FilesInv /\ MemoryInv /\ lc.mode # "Sleeping"
  BY <1>1, LiveFacts DEF StoreInv
<1>4. FilesInv'
  BY <1>1, <1>2, <1>3 DEF FilesInv
<1>5. clock' \in 1 .. MaxTime
  BY <1>1, <1>3 DEF MemoryInv
<1> QED
  BY <1>1, <1>4, <1>5, Stops

-----------------------------------------------------------------------------
(***************************************************************************)
(* Opening.                                                                *)
(***************************************************************************)
(* No file carries a fence above the record's                              *)
(* (recover_persisted_fencing_frontier).                                   *)
LEMMA FenceIsRecorded ==
    ASSUME NEW l, NEW j, NEW b, NEW s, Files(l, j, b, s)
    PROVE  /\ PersistedFence(j, s) \in Nat /\ PersistedFence(j, s) <= l.fence
           /\ l.fence \in Nat
<1>1. /\ l \in Lifecycle /\ s \in Snapshots /\ History(j) /\ l.fence \in Nat
      /\ s.fence <= l.fence /\ s.fence \in Nat
      /\ \A i \in 1 .. Len(j) : j[i].fence <= l.fence
  BY RecordTyped, StoreAssumption DEF Files, Fits, Frontier, Snapshot, Snapshots
<1>2. j # <<>> => Len(j) \in 1 .. Len(j) /\ j[Len(j)] \in Event
  BY <1>1 DEF History
<1>3. j # <<>> => j[Len(j)].fence \in Nat /\ j[Len(j)].fence <= l.fence
  <2>1. \A e \in Event : e.fence \in Nat
    BY StoreAssumption DEF Event
  <2> QED
    BY <1>1, <1>2, <2>1
<1> QED
  BY <1>1, <1>3 DEF PersistedFence, Larger

(* The record an open writes: the next fence, and a lease from now.        *)
LEMMA OpenedRecord ==
    ASSUME StoreInv, Open
    PROVE  /\ lc' \in Lifecycle /\ Keeps(lc, lc') /\ Leased(lc') /\ lc'.mode = "Activating"
           /\ lc'.lastTrusted = trusted' /\ trusted' \in 1 .. MaxTime
           /\ lc'.fence = lc.fence + 1
           /\ lc.mode = "Activating" => lc'.cutoff = lc.cutoff
<1> DEFINE now == Larger(clock, lc.lastTrusted)
           f == Larger(lc.fence, PersistedFence(Lines, snap))
           m == [lc EXCEPT !.mode = "Activating", !.fence = f + 1, !.renewed = now,
                           !.expires = now + LeaseDuration, !.cutoff = WakeCutoff(now),
                           !.lastTrusted = now]
<1>1. lc' = m /\ trusted' = now /\ f < MaxFence
  BY DEF Open, OpenAccepted
<1>2. /\ Files(lc, Lines, Boundaries, snap) /\ clock \in 1 .. MaxTime
      /\ lc \in Lifecycle /\ Leased(lc)
  BY DEF StoreInv, FilesInv, Files, MemoryInv
<1>3. f = lc.fence /\ lc.fence \in Nat
  BY <1>2, FenceIsRecorded DEF Larger
<1>4. lc.lastTrusted \in 0 .. MaxTime
  <2>1. CASE lc.mode = "Missing"
    <3>1. lc = NoLifecycle
      BY <1>2, <2>1 DEF Files
    <3> QED
      BY <3>1, StoreAssumption DEF NoLifecycle, NoTime
  <2>2. CASE lc.mode # "Missing"
    BY <1>2, <2>2, StoreAssumption DEF Leased
  <2> QED
    BY <2>1, <2>2
<1>5. now \in 1 .. MaxTime /\ now >= lc.lastTrusted
  BY <1>2, <1>4, StoreAssumption DEF Larger
<1>6. lc.mode = "Activating" => lc.cutoff \in 1 .. lc.lastTrusted
  BY <1>2 DEF Leased
<1>7. WakeCutoff(now) \in 1 .. now /\ WakeCutoff(now) \in 1 .. MaxTime
  BY <1>4, <1>5, <1>6, StoreAssumption DEF WakeCutoff
<1>8. lc.mode = "Activating" => WakeCutoff(now) = lc.cutoff
  BY DEF WakeCutoff
<1> HIDE DEF now, f
<1>9. now \in Times /\ now + LeaseDuration \in Times /\ now < now + LeaseDuration /\ WakeCutoff(now) \in Times
  BY <1>5, <1>7, TimeTyped
<1>10. f + 1 \in 0 .. MaxFence /\ f + 1 = lc.fence + 1
  BY <1>1, <1>3, StoreAssumption
<1>11. "Activating" \in Modes \cup {"Missing"}
  BY DEF Modes
<1>12. /\ m \in Lifecycle /\ m.mode = "Activating" /\ m.fence = f + 1 /\ m.renewed = now
       /\ m.expires = now + LeaseDuration /\ m.cutoff = WakeCutoff(now) /\ m.lastTrusted = now
       /\ m.seq = lc.seq /\ m.last = lc.last /\ m.head = lc.head
       /\ m.next = lc.next /\ m.ack = lc.ack /\ m.pending = lc.pending
  BY <1>2, <1>9, <1>10, <1>11 DEF Lifecycle
<1> HIDE DEF m
<1>13. Keeps(lc, m)
  BY <1>3, <1>10, <1>12 DEF Keeps
<1>14. m.renewed \in 1 .. m.lastTrusted /\ m.lastTrusted < m.expires /\ m.fence > 0
       /\ m.cutoff \in 1 .. m.lastTrusted /\ m.lastTrusted \in 1 .. MaxTime
  BY <1>3, <1>5, <1>7, <1>9, <1>10, <1>12
<1>15. Leased(m)
  BY <1>12, <1>14 DEF Leased
<1> QED
  BY <1>1, <1>5, <1>8, <1>10, <1>12, <1>13, <1>15

(* Two stretches of steps, one after the other.                            *)
LEMMA Joined ==
    ASSUME NEW S, NEW t \in Seq(S), NEW u \in Seq(S)
    PROVE  /\ t \o u \in Seq(S) /\ Len(t \o u) = Len(t) + Len(u)
           /\ Len(t) \in Nat /\ Len(u) \in Nat
           /\ \A i \in 1 .. Len(t) : (t \o u)[i] = t[i]
           /\ \A i \in 1 .. Len(u) : (t \o u)[Len(t) + i] = u[i]
<1>1. t \o u \in Seq(S) /\ Len(t \o u) = Len(t) + Len(u) /\ Len(t) \in Nat /\ Len(u) \in Nat
  OBVIOUS
<1>2. \A i \in 1 .. Len(t) : (t \o u)[i] = t[i]
  OBVIOUS
<1>3. ASSUME NEW i \in 1 .. Len(u) PROVE (t \o u)[Len(t) + i] = u[i]
  OBVIOUS
<1> QED
  BY <1>1, <1>2, <1>3

(* The steps an open leaves are in order.                                  *)
LEMMA OpenSteps ==
    ASSUME NEW kind, NEW t \in Seq(Steps), Len(t) \in {3, 4},
           t[1] = "boundaries", t[2] = "load", t[3] = "reconcile",
           Len(t) = 4 => t[4] = "restore"
    PROVE  /\ Ordered(t, kind) /\ t # <<>>
           /\ ~Has(t, "sleep") /\ ~Has(t, "publish")
<1>1. Onward(t, 1, kind) /\ Onward(t, 2, kind) /\ Onward(t, 3, kind)
  BY DEF Onward, Follows
<1>2. Len(t) = 4 => Onward(t, 4, kind)
  BY DEF Onward, Follows
<1>3. After(t, 2) /\ After(t, 3)
  BY DEF After
<1>4. Len(t) = 4 => After(t, 4)
  BY DEF After
<1>5. \A i \in 1 .. Len(t) : i = 1 \/ i = 2 \/ i = 3 \/ (i = 4 /\ Len(t) = 4)
  <2>1. CASE Len(t) = 3
    BY <2>1
  <2>2. CASE Len(t) = 4
    BY <2>2
  <2> QED
    BY <2>1, <2>2
<1>6. \A i \in 1 .. Len(t) : Onward(t, i, kind)
  BY <1>1, <1>2, <1>5
<1>7. \A i \in 2 .. Len(t) : After(t, i)
  BY <1>3, <1>4, <1>5
<1>8. ~Has(t, "sleep") /\ ~Has(t, "publish")
  BY <1>5 DEF Has
<1> QED
  BY <1>6, <1>7, <1>8 DEF Ordered

(* open_for_cell_with_clock takes the record over.                         *)
LEMMA OpenKeeps ==
    ASSUME StoreInv, Open
    PROVE  StoreInv'
<1>1. /\ FilesInv /\ MemoryInv /\ Files(lc, Lines, Boundaries, snap)
      /\ host \notin Live /\ todo = <<>> /\ world = 0
  BY DEF Open, StoreInv, FilesInv, MemoryInv, Live
<1>2. /\ lc' \in Lifecycle /\ Keeps(lc, lc') /\ Leased(lc') /\ lc'.mode = "Activating"
      /\ lc'.lastTrusted = trusted' /\ trusted' \in 1 .. MaxTime
  BY OpenedRecord
<1>3. /\ mem' = lc' /\ recovered' = lc.mode
      /\ host' = (IF host = "down" THEN "opening" ELSE "waking")
      /\ clock' = clock /\ journal' = journal /\ bnd' = bnd /\ snap' = snap /\ world' = world
  BY DEF Open
<1>4. Lines' = Lines /\ Boundaries' = Boundaries
  BY <1>3 DEF Lines, Boundaries
<1>5. Files(lc', Lines, Boundaries, snap)
  BY <1>1, <1>2, FilesKept
<1>6. FilesInv'
  BY <1>2, <1>3, <1>4, <1>5 DEF FilesInv
<1>7. /\ todo' \in Seq(Steps) /\ Len(todo') \in {3, 4}
      /\ todo'[1] = "boundaries" /\ todo'[2] = "load" /\ todo'[3] = "reconcile"
      /\ Len(todo') = 4 => todo'[4] = "restore"
  <2> DEFINE t == <<"boundaries", "load", "reconcile">>
             u == IF host = "down" THEN <<"restore">> ELSE <<>>
  <2>1. todo' = t \o u
    BY DEF Open
  <2>2. /\ t \in Seq(Steps) /\ Len(t) = 3
        /\ t[1] = "boundaries" /\ t[2] = "load" /\ t[3] = "reconcile"
    <3>1. {"boundaries", "load", "reconcile"} \subseteq Steps
      BY DEF Steps
    <3>2. t \in Seq(Steps)
      BY <3>1
    <3> QED
      BY <3>2
  <2>3. u \in Seq(Steps) /\ Len(u) \in {0, 1} /\ (Len(u) = 1 => u[1] = "restore")
    <3>1. <<"restore">> \in Seq(Steps) /\ Len(<<"restore">>) = 1 /\ <<"restore">>[1] = "restore"
      BY DEF Steps
    <3>2. <<>> \in Seq(Steps) /\ Len(<<>>) = 0
      OBVIOUS
    <3>3. CASE host = "down"
      BY <3>1, <3>3
    <3>4. CASE host # "down"
      BY <3>2, <3>4
    <3> QED
      BY <3>3, <3>4
  <2> HIDE DEF t, u
  <2> DEFINE q == t \o u
  <2>4. /\ q \in Seq(Steps) /\ Len(q) = Len(t) + Len(u)
        /\ \A i \in 1 .. Len(t) : q[i] = t[i]
        /\ \A i \in 1 .. Len(u) : q[Len(t) + i] = u[i]
    <3>1. ASSUME NEW x \in Seq(Steps), NEW y \in Seq(Steps)
          PROVE  /\ x \o y \in Seq(Steps) /\ Len(x \o y) = Len(x) + Len(y)
                 /\ \A i \in 1 .. Len(x) : (x \o y)[i] = x[i]
                 /\ \A i \in 1 .. Len(y) : (x \o y)[Len(x) + i] = y[i]
      BY Joined
    <3> QED
      BY <2>2, <2>3, <3>1
  <2> HIDE DEF q
  <2>5. q[1] = t[1] /\ q[2] = t[2] /\ q[3] = t[3]
    BY <2>2, <2>4
  <2>6. Len(u) = 1 => q[4] = u[1]
    BY <2>2, <2>4
  <2>7. Len(q) \in {3, 4} /\ (Len(q) = 4 => Len(u) = 1)
    BY <2>2, <2>3, <2>4
  <2>8. todo' = q
    BY <2>1 DEF q
  <2> QED
    BY <2>2, <2>3, <2>4, <2>5, <2>6, <2>7, <2>8
<1>8. /\ Ordered(todo', lc'.pending.event.kind) /\ todo' # <<>> /\ todo'[1] = "boundaries"
      /\ ~Has(todo', "sleep") /\ ~Has(todo', "publish")
  BY <1>7, OpenSteps
<1>9. host' \in {"opening", "waking"} /\ host' \in Live /\ host' \in HostStates
  BY <1>3 DEF Live, HostStates
<1>10. recovered' \in Modes \cup {"Missing"}
  BY <1>1, <1>3, RecordTyped DEF Files
<1>11. recovered' = "Sleeping" => ~Runnable(Lines', Len(Lines'))
  BY <1>1, <1>3, <1>4 DEF Files, Asleep
<1>12. MemoryInv'
  <2>1. ~(HeadIs("commit"))'
    BY <1>8 DEF HeadIs
  <2>2. clock' \in 1 .. MaxTime /\ trusted' \in 0 .. MaxTime
    BY <1>1, <1>2, <1>3, StoreAssumption DEF MemoryInv
  <2>3. lc'.lastTrusted <= trusted'
    BY <1>2
  <2> QED
    BY <1>2, <1>3, <1>9, <1>10, <1>11, <2>1, <2>2, <2>3 DEF MemoryInv
<1>13. StepsInv'
  <2>1. OpeningInv'
    BY <1>1, <1>3, <1>8, <1>9 DEF OpeningInv, HeadIs
  <2>2. (Opening)' /\ ~(Committing)'
    BY <1>8 DEF Opening, Committing, HeadIs
  <2>3. EndsInv'
    BY <1>8 DEF EndsInv
  <2> QED
    BY <1>8, <2>1, <2>2, <2>3 DEF StepsInv
<1> QED
  BY <1>6, <1>12, <1>13 DEF StoreInv

(* load_transfer_boundaries.                                               *)
LEMMA LoadBoundariesKeeps ==
    ASSUME StoreInv, LoadBoundaries
    PROVE  StoreInv'
<1> DEFINE c == BackfilledBoundaries(mem, Lines, Boundaries, snap)
           kind == lc.pending.event.kind
           rest == IF c # mem.head THEN <<"head">> \o Tail(todo) ELSE Tail(todo)
<1>1. /\ TakeStep("boundaries", rest) /\ BoundariesLoad(mem, Lines, Boundaries, snap)
      /\ bnd' = c /\ clock' = clock /\ lc' = lc /\ journal' = journal /\ snap' = snap
      /\ mem' = mem /\ world' = world /\ trusted' = trusted
  BY DEF LoadBoundaries
<1>2. /\ host \in Live /\ todo # <<>> /\ Head(todo) = "boundaries" /\ todo' = rest
      /\ host' = (IF rest = <<>> THEN "up" ELSE host)
      /\ recovered' = (IF rest = <<>> THEN "Missing" ELSE recovered)
  BY <1>1 DEF TakeStep
<1>3. /\ FilesInv /\ MemoryInv /\ StepsInv /\ Ordered(todo, kind)
      /\ Files(lc, Lines, Boundaries, snap) /\ lc.mode \notin {"Missing", "Sleeping"}
  BY <1>2, LiveFacts DEF StoreInv, FilesInv, MemoryInv
<1>4. /\ todo \in Seq(Steps) /\ todo[1] = "boundaries" /\ HeadIs("boundaries")
      /\ Len(todo) \in Nat \ {0} /\ Len(Tail(todo)) = Len(todo) - 1
      /\ \A i \in 1 .. Len(todo) - 1 : Tail(todo)[i] = todo[i + 1]
      /\ Tail(todo) \in Seq(Steps)
  BY <1>2, <1>3, QueueTail DEF Ordered, HeadIs
<1>5. Onward(todo, 1, kind) /\ Len(todo) >= 2 /\ todo[2] = "load"
  BY <1>3, <1>4 DEF Ordered, Onward, Follows
<1>6. mem = lc
  BY <1>3, <1>2, <1>4 DEF MemoryInv, HeadIs
<1>7. /\ c \in Seq(Nat \ {0}) /\ Files(lc, Lines, c, snap) /\ TransferEvents(Lines) \subseteq InFile(c)
  <2>1. Files(lc, Lines, c, snap) /\ TransferEvents(Lines) \subseteq InFile(c)
    BY <1>1, <1>3, <1>6, FilesBackfilled
  <2> QED
    BY <2>1 DEF Files, Fits, Boundary
<1> HIDE DEF c
<1>8. Lines' = Lines /\ Boundaries' = c
  <2>1. Boundaries' = Terminated(c, TornBoundary)
    BY <1>1 DEF Boundaries
  <2> QED
    BY <1>1, <1>7, <2>1, TornBoundaryCut DEF Lines
<1>9. FilesInv'
  BY <1>1, <1>3, <1>7, <1>8 DEF FilesInv
<1>10. Ordered(Tail(todo), kind)
  BY <1>2, <1>3, <1>4, OrderedTail
<1>11. Tail(todo) # <<>> /\ Tail(todo)[1] = "load" /\ Len(Tail(todo)) \in Nat \ {0}
  <2>1. 1 \in 1 .. Len(todo) - 1
    BY <1>4, <1>5
  <2>2. Tail(todo)[1] = todo[1 + 1] /\ Len(Tail(todo)) \in Nat \ {0}
    BY <1>4, <1>5, <2>1
  <2> QED
    BY <1>4, <1>5, <2>2
<1>12. /\ rest # <<>> /\ Ordered(rest, kind)
       /\ rest[1] = IF c # mem.head THEN "head" ELSE "load"
       /\ \A x : x # "head" /\ Has(rest, x) => Has(todo, x)
  <2>1. CASE c # mem.head
    <3> DEFINE r == <<"head">> \o Tail(todo)
    <3>1. /\ r \in Seq(Steps) /\ Len(r) = Len(Tail(todo)) + 1 /\ r[1] = "head"
          /\ \A i \in 1 .. Len(Tail(todo)) : r[i + 1] = Tail(todo)[i]
      BY <1>4 DEF Steps
    <3>2. Len(r) = Len(todo) /\ \A i \in 2 .. Len(todo) : r[i] = todo[i]
      <4>1. Len(r) = Len(todo)
        BY <1>4, <3>1
      <4>2. ASSUME NEW i \in 2 .. Len(todo) PROVE r[i] = todo[i]
        <5>1. i - 1 \in 1 .. Len(todo) - 1 /\ i - 1 + 1 = i
          BY <1>4
        <5> QED
          BY <1>4, <3>1, <5>1
      <4> QED
        BY <4>1, <4>2
    <3> HIDE DEF r
    <3>3. ASSUME NEW i \in 1 .. Len(r) PROVE Onward(r, i, kind)
      <4>1. CASE i = 1
        BY <1>4, <1>5, <3>1, <3>2, <4>1 DEF Onward, Follows
      <4>2. CASE i # 1
        <5>1. i \in 2 .. Len(todo) /\ r[i] = todo[i] /\ i \in 1 .. Len(todo)
          BY <1>4, <3>2, <4>2
        <5>2. Onward(todo, i, kind)
          BY <1>3, <5>1 DEF Ordered
        <5>3. \A x : Follows(todo, i, x) => Follows(r, i, x)
          BY <1>4, <3>2, <5>1 DEF Follows
        <5> QED
          BY <3>2, <5>1, <5>2, <5>3 DEF Onward
      <4> QED
        BY <4>1, <4>2
    <3>4. ASSUME NEW i \in 2 .. Len(r) PROVE After(r, i)
      <4>1. i \in 2 .. Len(todo) /\ r[i] = todo[i] /\ After(todo, i)
        BY <1>3, <3>2, <3>4 DEF Ordered
      <4>2. CASE i = 2
        BY <1>5, <3>1, <4>1, <4>2 DEF After
      <4>3. CASE i # 2
        <5>1. i - 1 \in 2 .. Len(todo)
          BY <1>4, <4>1, <4>3
        <5>2. r[i - 1] = todo[i - 1]
          BY <3>2, <5>1
        <5> QED
          BY <4>1, <5>2 DEF After
      <4> QED
        BY <4>2, <4>3
    <3>5. Ordered(r, kind)
      BY <3>1, <3>3, <3>4 DEF Ordered
    <3>6. \A x : x # "head" /\ Has(r, x) => Has(todo, x)
      BY <1>4, <3>1, <3>2 DEF Has
    <3>7. r # <<>>
      BY <1>11, <3>1
    <3>8. rest = r
      BY <2>1 DEF r
    <3> QED
      BY <2>1, <3>1, <3>5, <3>6, <3>7, <3>8
  <2>2. CASE c = mem.head
    <3>1. \A x : Has(Tail(todo), x) => Has(todo, x)
      BY <1>4 DEF Has
    <3> QED
      BY <1>10, <1>11, <2>2, <3>1
  <2> QED
    BY <2>1, <2>2
<1> HIDE DEF rest
<1>13. MemoryInv'
  <2>1. ~(HeadIs("commit"))'
    BY <1>2, <1>12 DEF HeadIs
  <2>2. host' = host /\ recovered' = recovered
    BY <1>2, <1>12
  <2> QED
    BY <1>1, <1>2, <1>3, <1>6, <1>8, <2>1, <2>2 DEF MemoryInv
<1>14. StepsInv'
  <2>1. Opening
    BY <1>4 DEF Opening
  <2>2. OpeningInv /\ host' = host
    BY <1>2, <1>3, <1>12, <2>1 DEF StepsInv
  <2>3. world = 0
    BY <1>4, <2>2 DEF OpeningInv, HeadIs
  <2>4. OpeningInv'
    <3>1. (HeadIs("load") \/ HeadIs("reconcile"))' => c = mem.head
      BY <1>2, <1>12 DEF HeadIs
    <3>2. ~(HeadIs("reconcile"))'
      BY <1>2, <1>12 DEF HeadIs
    <3> QED
      BY <1>1, <1>6, <1>7, <1>8, <2>2, <2>3, <3>1, <3>2 DEF OpeningInv
  <2>5. (Opening)' /\ ~(Committing)'
    BY <1>2, <1>12 DEF Opening, Committing, HeadIs
  <2>6. ~Has(todo, "sleep") /\ ~Has(todo, "publish")
    BY <1>2, <1>3, <1>4 DEF StepsInv, EndsInv, HeadIs
  <2>7. EndsInv'
    BY <1>2, <1>12, <2>6 DEF EndsInv
  <2> QED
    BY <1>1, <1>2, <1>12, <2>4, <2>5, <2>7 DEF StepsInv
<1> QED
  BY <1>9, <1>13, <1>14 DEF StoreInv

-----------------------------------------------------------------------------
(***************************************************************************)
(* What a step leaves.                                                     *)
(***************************************************************************)
(* After a step that is not the first of an open or a commit, the store    *)
(* neither opens nor commits, and what only follows one step followed it.  *)
LEMMA RestStep ==
    ASSUME NEW kind, NEW after, NEW s, Ordered(todo, kind), TakeStep(s, Tail(todo)),
           s \notin {"boundaries", "head", "load", "append", "boundary"}
    PROVE  /\ Ordered(todo', after) /\ ~Opening' /\ ~Committing'
           /\ HeadIs("acknowledge")' => s = "commit"
           /\ HeadIs("frontier")' => s = "snapshot"
           /\ HeadIs("sleep")' => s = "frontier"
<1>1. /\ Ordered(todo', after) /\ HeadIs(s)
      /\ todo' # <<>> => todo'[1] = todo[2] /\ After(todo, 2)
  BY StepTaken
<1>2. todo[1] = s
  BY <1>1 DEF HeadIs
<1>3. todo' # <<>> =>
         /\ todo'[1] \notin {"boundaries", "head", "load", "reconcile", "append", "boundary", "commit"}
         /\ todo'[1] = "acknowledge" => s = "commit"
         /\ todo'[1] = "frontier" => s = "snapshot"
         /\ todo'[1] = "sleep" => s = "frontier"
  BY <1>1, <1>2 DEF After
<1>4. \A x : HeadIs(x)' => todo' # <<>> /\ todo'[1] = x
  BY DEF HeadIs
<1> QED
  BY <1>1, <1>3, <1>4 DEF Opening, Committing

(* A step other than the two of save_snapshot leaves nothing that ends     *)
(* in Sleeping or Active.                                                  *)
LEMMA NothingEnds ==
    ASSUME EndsInv, NEW kind, NEW s, Ordered(todo, kind), TakeStep(s, Tail(todo)),
           s \notin {"snapshot", "frontier"}
    PROVE  ~Has(todo', "sleep") /\ ~Has(todo', "publish")
<1>1. /\ HeadIs(s) /\ Onward(todo, 1, kind) /\ (todo' = <<>> <=> Len(todo) = 1)
      /\ \A x : Has(todo', x) => Has(todo, x)
  BY StepTaken
<1>2. CASE s \in {"sleep", "publish"}
  <2>1. todo' = <<>>
    BY <1>1, <1>2 DEF Onward, HeadIs
  <2>2. Len(todo') = 0
    BY <2>1
  <2> QED
    BY <2>2 DEF Has
<1>3. CASE s \notin {"sleep", "publish"}
  <2>1. ~HeadIs("snapshot") /\ ~HeadIs("frontier") /\ ~HeadIs("sleep") /\ ~HeadIs("publish")
    BY <1>1, <1>3 DEF HeadIs
  <2> QED
    BY <1>1, <2>1 DEF EndsInv
<1> QED
  BY <1>2, <1>3

(* The two of save_snapshot lead on to that end.                           *)
LEMMA EndsNearer ==
    ASSUME EndsInv, NEW kind, NEW s, Ordered(todo, kind), TakeStep(s, Tail(todo)),
           s \in {"snapshot", "frontier"}, journal' = journal, world' = world,
           lc'.mode = lc.mode, lc'.next = lc.next, lc'.cutoff = lc.cutoff
    PROVE  EndsInv'
<1>1. /\ HeadIs(s) /\ Onward(todo, 1, kind) /\ (todo' = <<>> <=> Len(todo) = 1)
      /\ todo' # <<>> => todo'[1] = todo[2] /\ After(todo, 2)
      /\ \A x : Has(todo', x) => Has(todo, x)
      /\ \A x : Has(todo', x) /\ Len(todo) = 2 => todo[2] = x
  BY StepTaken
<1>2. todo[1] = s /\ todo \in Seq(Steps) /\ Len(todo) \in Nat \ {0}
  <2>0. todo \in Seq(Steps)
    BY DEF Ordered
  <2>1. todo \in Seq(Steps) /\ todo # <<>> /\ todo[1] = s
    BY <1>1, <2>0 DEF HeadIs
  <2>2. Len(todo) \in Nat \ {0}
    <3>1. \A t \in Seq(Steps) : t # <<>> => Len(t) \in Nat \ {0}
      OBVIOUS
    <3> QED
      BY <2>1, <3>1
  <2> QED
    BY <2>1, <2>2
<1>8. todo' # <<>> => Len(todo) >= 2
  <2>1. Len(todo) \in Nat \ {0} /\ (todo' = <<>> <=> Len(todo) = 1)
    BY <1>1, <1>2
  <2>2. \A n \in Nat \ {0} : n # 1 => n >= 2
    OBVIOUS
  <2> QED
    BY <2>1, <2>2, Zenon
<1>3. \A x : Has(todo', x) => todo' # <<>>
  <2>1. todo' = <<>> => Len(todo') = 0
    OBVIOUS
  <2> QED
    BY <2>1 DEF Has
<1>4. s = "snapshot" => HeadIs("frontier")' \/ todo' = <<>>
  BY <1>1, <1>2 DEF Onward, Follows, HeadIs
<1>5. ASSUME s = "frontier", NEW x, x \in {"sleep", "publish"}, Has(todo', x)
      PROVE  HeadIs("snapshot")' \/ HeadIs(x)'
  <2>1. todo' # <<>> /\ Len(todo) # 1 /\ todo # <<>>
    BY <1>1, <1>3, <1>5 DEF HeadIs
  <2>2. Len(todo) >= 2
    BY <1>8, <2>1
  <2>3. todo[2] \in Steps /\ Onward(todo, 2, kind) /\ After(todo, 2)
    BY <1>1, <1>2, <2>1, <2>2 DEF Ordered
  <2>4. todo[2] \in {"restore", "sleep", "background", "publish"} => todo[2] = x
    BY <1>1, <1>5, <2>3 DEF Onward
  <2>5. todo[2] \in {"snapshot", "restore", "sleep", "background", "publish"}
    BY <1>2, <1>5, <2>3 DEF After, Steps
  <2>6. todo'[1] = "snapshot" \/ todo'[1] = x
    BY <1>1, <2>1, <2>4, <2>5
  <2> QED
    BY <2>1, <2>6 DEF HeadIs
<1>6. Has(todo', "sleep") => HeadIs("snapshot")' \/ HeadIs("frontier")' \/ HeadIs("sleep")'
  BY <1>3, <1>4, <1>5
<1>7. Has(todo', "publish") => HeadIs("snapshot")' \/ HeadIs("frontier")' \/ HeadIs("publish")'
  BY <1>3, <1>4, <1>5
<1> QED
  BY <1>1, <1>6, <1>7 DEF EndsInv

(* A record written inside its lease, as persist_lifecycle writes it.      *)
LEMMA Persisted ==
    ASSUME StoreInv, host \in Live, NEW l, Runs(l, Now), Persist(l)
    PROVE  /\ lc' \in Lifecycle /\ Leased(lc') /\ lc'.lastTrusted = Now
           /\ lc'.fence = l.fence /\ lc'.seq = l.seq /\ lc'.last = l.last /\ lc'.head = l.head
           /\ lc'.next = l.next /\ lc'.ack = l.ack /\ lc'.pending = l.pending
           /\ lc'.mode = l.mode /\ lc'.cutoff = l.cutoff
           /\ lc'.mode \notin {"Missing", "Sleeping"}
           /\ mem' = lc' /\ trusted' = Now /\ Now \in 0 .. MaxTime
<1>1. Now \in 1 .. MaxTime
  BY LiveFacts
<1>2. lc' = [l EXCEPT !.lastTrusted = Now] /\ mem' = lc' /\ trusted' = Now
  BY DEF Persist
<1> DEFINE m == [l EXCEPT !.lastTrusted = Now]
<1>3. /\ m \in Lifecycle /\ Leased(m) /\ m.lastTrusted = Now
      /\ m.fence = l.fence /\ m.seq = l.seq /\ m.last = l.last /\ m.head = l.head
      /\ m.next = l.next /\ m.ack = l.ack /\ m.pending = l.pending
      /\ m.mode = l.mode /\ m.cutoff = l.cutoff
  BY <1>1, WrittenLeased
<1>4. l.mode \notin {"Missing", "Sleeping"}
  BY DEF Runs
<1>5. lc' = m
  BY <1>2
<1> HIDE DEF m
<1>6. Now \in 0 .. MaxTime
  BY <1>1
<1> QED
  BY <1>2, <1>3, <1>4, <1>5, <1>6

(* Lines and boundaries of the files that were not written.                *)
LEMMA LinesUnchanged ==
    /\ journal' = journal => Lines' = Lines
    /\ bnd' = bnd => Boundaries' = Boundaries
BY DEF Lines, Boundaries

(* What the process believes after a step.                                 *)
LEMMA MemoryAfter ==
    ASSUME StoreInv, host \in Live, clock' = clock,
           Lines' = Lines \/ host = "up",
           trusted' \in 0 .. MaxTime, lc'.mode \notin {"Missing", "Sleeping"},
           lc'.lastTrusted <= trusted',
           mem' = IF HeadIs("commit")' THEN [lc' EXCEPT !.head = bnd'] ELSE lc',
           \/ host' = host /\ recovered' = recovered
           \/ host' = "up" /\ recovered' = "Missing"
    PROVE  MemoryInv'
<1>1. MemoryInv
  BY DEF StoreInv
<1>2. host' \in Live /\ host' \in HostStates
  BY <1>1 DEF MemoryInv, Live, HostStates
<1>3. clock' \in 1 .. MaxTime
  BY <1>1 DEF MemoryInv
<1>4. recovered' \in Modes \cup {"Missing"}
  BY <1>1 DEF MemoryInv
<1>5. recovered' = "Sleeping" => ~Runnable(Lines', Len(Lines'))
  BY <1>1 DEF MemoryInv
<1>6. host' \in {"down", "asleep", "up"} => recovered' = "Missing"
  BY <1>1 DEF MemoryInv
<1> QED
  BY <1>2, <1>3, <1>4, <1>5, <1>6 DEF MemoryInv

(* Between commits the record is the whole history's.                      *)
LEMMA RestFacts ==
    ASSUME StoreInv, host \in Live, ~Opening, ~Committing
    PROVE  /\ Served /\ RestInv /\ mem = lc /\ lc.seq = Len(journal) /\ world = Len(journal)
           /\ journal \in Seq(Event) /\ Len(journal) \in Nat /\ History(journal)
           /\ TransferEvents(journal) \subseteq InFile(bnd)
           /\ lc.next = ImpliedNext(journal) /\ lc.pending = NoPending
           /\ lc.last = (IF world = 0 THEN NoEvent ELSE journal[world])
           /\ lc.head = bnd /\ bnd = Boundaries /\ journal = Lines
           /\ Files(lc, journal, bnd, snap) /\ EndsInv
<1>1. Served /\ RestInv /\ EndsInv
  BY DEF StoreInv, StepsInv
<1>2. Files(lc, journal, bnd, snap)
  BY <1>1 DEF StoreInv, FilesInv, Served
<1>3. mem = lc
  BY DEF StoreInv, MemoryInv, Committing
<1>4. /\ lc.seq \in Nat /\ lc.seq <= Len(journal) /\ Len(journal) \in Nat /\ Len(journal) <= lc.seq + 1
      /\ Len(journal) = lc.seq + 1 => lc.pending # NoPending
      /\ journal \in Seq(Event) /\ History(journal)
      /\ lc.last = IF lc.seq = 0 THEN NoEvent ELSE journal[lc.seq]
  BY <1>2, RecordTyped DEF Files, Fits, Frontier, History
<1>5. lc.pending = NoPending /\ lc.head = bnd
  BY <1>1 DEF RestInv
<1>6. lc.seq = Len(journal)
  BY <1>4, <1>5
<1>7. TransferEvents(journal) \subseteq InFile(bnd)
  BY <1>2, <1>5 DEF Files, Fits, Boundary
<1>8. lc.next = ImpliedNext(journal)
  BY <1>2, <1>5 DEF Files, Fits, Schedule
<1> QED
  BY <1>1, <1>2, <1>3, <1>4, <1>5, <1>6, <1>7, <1>8 DEF Served

(* What a step must leave for the store to be between commits.             *)
LEMMA RestReached ==
    ASSUME StoreInv, host \in Live, clock' = clock, journal' = journal, bnd' = bnd,
           journal = Lines, bnd = Boundaries, Files(lc', journal, bnd, snap'),
           lc'.pending = NoPending, lc'.head = bnd, lc'.seq = world',
           HeadIs("acknowledge")' \/ lc'.ack = Committed(journal, world'),
           lc'.mode \notin {"Missing", "Sleeping"}, mem' = lc',
           trusted' \in 0 .. MaxTime, lc'.lastTrusted <= trusted',
           Ordered(todo', lc'.pending.event.kind), ~Opening', ~Committing',
           HeadIs("frontier")' \/ HeadIs("sleep")' => snap' = [seq |-> world', fence |-> lc'.fence],
           EndsInv',
           \/ host' = host /\ recovered' = recovered
           \/ host' = "up" /\ recovered' = "Missing"
    PROVE  StoreInv'
<1>1. Lines' = Lines /\ Boundaries' = Boundaries
  BY LinesUnchanged
<1>2. FilesInv'
  BY <1>1 DEF FilesInv
<1>3. mem' = IF HeadIs("commit")' THEN [lc' EXCEPT !.head = bnd'] ELSE lc'
  BY DEF Committing
<1>4. MemoryInv'
  BY <1>1, <1>3, MemoryAfter
<1>5. Served'
  BY <1>1 DEF Served
<1>6. RestInv'
  BY DEF RestInv
<1>7. StepsInv'
  BY <1>5, <1>6 DEF StepsInv
<1> QED
  BY <1>2, <1>4, <1>7 DEF StoreInv

(* A step between commits that leaves the record's progress alone.         *)
LEMMA RestKeeps ==
    ASSUME StoreInv, host \in Live, ~Opening, ~Committing, ~HeadIs("acknowledge"),
           clock' = clock, journal' = journal, bnd' = bnd, world' = world,
           Files(lc', journal, bnd, snap'), Keeps(lc, lc'), lc'.fence = lc.fence,
           lc'.mode \notin {"Missing", "Sleeping"}, mem' = lc',
           trusted' \in 0 .. MaxTime, lc'.lastTrusted <= trusted',
           \A kind : Ordered(todo', kind), ~Opening', ~Committing',
           HeadIs("frontier")' \/ HeadIs("sleep")' => snap' = [seq |-> world, fence |-> lc.fence],
           EndsInv',
           \/ host' = host /\ recovered' = recovered
           \/ host' = "up" /\ recovered' = "Missing"
    PROVE  StoreInv'
<1>1. /\ lc.pending = NoPending /\ lc.head = bnd /\ bnd = Boundaries /\ journal = Lines
      /\ world = lc.seq /\ lc.ack = Committed(journal, world)
  BY RestFacts DEF RestInv, Served
<1>2. /\ lc'.pending = NoPending /\ lc'.head = bnd /\ lc'.seq = world'
      /\ lc'.ack = Committed(journal, world')
  BY <1>1 DEF Keeps
<1>3. HeadIs("frontier")' \/ HeadIs("sleep")' => snap' = [seq |-> world', fence |-> lc'.fence]
  OBVIOUS
<1> QED
  BY <1>1, <1>2, <1>3, RestReached

(* Saving the snapshot first: a queue of steps that follow a save.         *)
LEMMA SavedFirst ==
    ASSUME NEW kind, NEW u, NEW r \in Seq(Steps), Ordered(u, kind),
           u # <<>> => u[1] \in {"snapshot", "restore", "sleep", "background", "publish"},
           Len(r) = Len(u) + 2, r[1] = "snapshot", r[2] = "frontier",
           \A i \in 1 .. Len(u) : r[i + 2] = u[i]
    PROVE  /\ Ordered(r, kind) /\ r # <<>>
           /\ \A x : Has(r, x) => x \in {"snapshot", "frontier"} \/ Has(u, x)
<1>1. u \in Seq(Steps) /\ Len(u) \in Nat
  <2>1. u \in Seq(Steps)
    BY DEF Ordered
  <2> QED
    BY <2>1
<1>2. ASSUME NEW i \in 1 .. Len(r), i # 1, i # 2
      PROVE  i - 2 \in 1 .. Len(u) /\ r[i] = u[i - 2]
  <2>1. i - 2 \in 1 .. Len(u) /\ i - 2 + 2 = i
    BY <1>1, <1>2
  <2>2. r[i - 2 + 2] = u[i - 2]
    BY <2>1
  <2> QED
    BY <2>1, <2>2
<1>3. ASSUME NEW i \in 1 .. Len(r) PROVE Onward(r, i, kind)
  <2>1. CASE i = 1
    BY <1>1, <2>1 DEF Onward, Follows
  <2>2. CASE i = 2
    BY <2>2 DEF Onward
  <2>3. CASE i # 1 /\ i # 2
    <3>1. i - 2 \in 1 .. Len(u) /\ r[i] = u[i - 2]
      BY <1>2, <2>3
    <3>2. Onward(u, i - 2, kind)
      BY <3>1 DEF Ordered
    <3>3. ASSUME NEW x, Follows(u, i - 2, x) PROVE Follows(r, i, x)
      <4>1. i - 2 + 1 <= Len(u) /\ u[i - 2 + 1] = x
        BY <3>3 DEF Follows
      <4>2. i - 2 + 1 \in 1 .. Len(u) /\ i - 2 + 1 + 2 = i + 1 /\ i + 1 <= Len(r)
        BY <1>1, <3>1, <4>1
      <4>3. r[i - 2 + 1 + 2] = u[i - 2 + 1]
        BY <4>2
      <4> QED
        BY <4>1, <4>2, <4>3 DEF Follows
    <3>4. i - 2 = Len(u) => i = Len(r)
      BY <1>1, <3>1
    <3> QED
      BY <3>1, <3>2, <3>3, <3>4 DEF Onward
  <2> QED
    BY <2>1, <2>2, <2>3
<1>4. ASSUME NEW i \in 2 .. Len(r) PROVE After(r, i)
  <2>1. CASE i = 2
    BY <2>1 DEF After
  <2>2. CASE i = 3
    <3>1. i \in 1 .. Len(r) /\ r[3] = u[1] /\ u # <<>>
      BY <1>1, <1>2, <2>2
    <3> QED
      BY <2>2, <3>1 DEF After
  <2>3. CASE i # 2 /\ i # 3
    <3>1. i \in 1 .. Len(r) /\ i - 1 \in 1 .. Len(r) /\ i - 1 # 1 /\ i - 1 # 2 /\ i - 2 \in 2 .. Len(u)
      BY <1>1, <2>3
    <3>2. r[i] = u[i - 2] /\ r[i - 1] = u[i - 1 - 2] /\ i - 1 - 2 = i - 2 - 1
      BY <1>2, <2>3, <3>1
    <3>3. After(u, i - 2)
      BY <3>1 DEF Ordered
    <3> QED
      BY <3>2, <3>3 DEF After
  <2> QED
    BY <2>1, <2>2, <2>3
<1>5. \A x : Has(r, x) => x \in {"snapshot", "frontier"} \/ Has(u, x)
  BY <1>1, <1>2 DEF Has
<1>6. r # <<>>
  BY <1>1
<1> QED
  BY <1>3, <1>4, <1>5, <1>6 DEF Ordered

(* The single last step of an operation, and none.                         *)
LEMMA LastStep ==
    ASSUME NEW kind, NEW s \in {"restore", "sleep", "background", "publish"}
    PROVE  /\ Ordered(<<s>>, kind) /\ <<s>> # <<>> /\ <<s>>[1] = s /\ Len(<<s>>) = 1
           /\ <<s>> \in Seq(Steps)
           /\ \A x : Has(<<s>>, x) => x = s
           /\ Ordered(<<>>, kind) /\ Len(<<>>) = 0 /\ \A x : ~Has(<<>>, x)
<1> DEFINE t == <<s>>
<1>1. t \in Seq(Steps) /\ Len(t) = 1 /\ t[1] = s /\ t # <<>>
  <2>1. s \in Steps
    BY DEF Steps
  <2> QED
    BY <2>1
<1> HIDE DEF t
<1>2. Onward(t, 1, kind)
  BY <1>1 DEF Onward
<1>3. \A i \in 1 .. Len(t) : i = 1
  BY <1>1
<1>4. \A i \in 2 .. Len(t) : FALSE
  BY <1>1
<1>5. Ordered(t, kind)
  BY <1>1, <1>2, <1>3, <1>4 DEF Ordered
<1>6. \A x : Has(t, x) => x = s
  BY <1>1 DEF Has
<1>7. <<>> \in Seq(Steps) /\ Len(<<>>) = 0
  OBVIOUS
<1>8. Ordered(<<>>, kind) /\ \A x : ~Has(<<>>, x)
  BY <1>7 DEF Ordered, Has
<1> QED
  BY <1>1, <1>5, <1>6, <1>7, <1>8 DEF t

-----------------------------------------------------------------------------
(***************************************************************************)
(* The rest of opening.                                                    *)
(***************************************************************************)
(* The record takes the head of the boundary file (open_for_cell_with_clock). *)
LEMMA RecordHeadKeeps ==
    ASSUME StoreInv, RecordHead
    PROVE  StoreInv'
<1> DEFINE kind == lc.pending.event.kind
<1>1. /\ TakeStep("head", Tail(todo)) /\ lc' = [mem EXCEPT !.head = bnd] /\ mem' = lc'
      /\ clock' = clock /\ journal' = journal /\ bnd' = bnd /\ snap' = snap
      /\ world' = world /\ trusted' = trusted
  BY DEF RecordHead
<1>2. host \in Live
  BY <1>1 DEF TakeStep
<1>3. /\ FilesInv /\ MemoryInv /\ StepsInv /\ Ordered(todo, kind)
      /\ Files(lc, Lines, Boundaries, snap) /\ lc.mode \notin {"Missing", "Sleeping"}
      /\ lc \in Lifecycle
  BY <1>2, LiveFacts DEF StoreInv, FilesInv, MemoryInv
<1>4. /\ Ordered(todo', kind) /\ HeadIs("head") /\ Onward(todo, 1, kind)
      /\ (todo' = <<>> <=> Len(todo) = 1)
      /\ todo' # <<>> => todo'[1] = todo[2]
      /\ host' = (IF todo' = <<>> THEN "up" ELSE host)
      /\ recovered' = (IF todo' = <<>> THEN "Missing" ELSE recovered)
      /\ \A x : Has(todo', x) => Has(todo, x)
  BY <1>1, <1>3, StepTaken
<1>5. todo[1] = "head" /\ Len(todo) >= 2 /\ todo[2] = "load"
  BY <1>4 DEF HeadIs, Onward, Follows
<1>6. todo' # <<>> /\ todo'[1] = "load" /\ host' = host /\ recovered' = recovered
  BY <1>4, <1>5
<1>7. mem = lc /\ Opening
  BY <1>2, <1>3, <1>4, <1>5 DEF MemoryInv, HeadIs, Opening
<1>8. OpeningInv /\ EndsInv
  BY <1>2, <1>3, <1>7 DEF StepsInv
<1>9. bnd = Boundaries /\ TransferEvents(Lines) \subseteq InFile(bnd) /\ host # "up" /\ world = 0
  BY <1>5, <1>8 DEF OpeningInv, HeadIs
<1>10. Files(lc', Lines, Boundaries, snap)
  BY <1>1, <1>3, <1>7, <1>9, FilesHeaded
<1>11. lc'.head = bnd /\ lc'.mode = lc.mode /\ lc'.lastTrusted = lc.lastTrusted /\ lc'.pending = lc.pending
  BY <1>1, <1>3, <1>7 DEF Lifecycle
<1>12. Lines' = Lines /\ Boundaries' = Boundaries
  BY <1>1, LinesUnchanged
<1>13. FilesInv'
  BY <1>1, <1>3, <1>10, <1>11, <1>12 DEF FilesInv
<1>14. ~HeadIs("commit")' /\ ~HeadIs("reconcile")' /\ ~HeadIs("boundaries")' /\ ~Committing' /\ Opening'
  BY <1>6 DEF HeadIs, Committing, Opening
<1>15. MemoryInv'
  BY <1>1, <1>2, <1>3, <1>6, <1>11, <1>12, <1>14, MemoryAfter DEF MemoryInv
<1>16. OpeningInv'
  BY <1>1, <1>6, <1>9, <1>11, <1>12, <1>14 DEF OpeningInv
<1>17. EndsInv'
  <2>1. ~Has(todo, "sleep") /\ ~Has(todo, "publish")
    BY <1>5, <1>8 DEF EndsInv, HeadIs
  <2> QED
    BY <1>4, <2>1 DEF EndsInv
<1>18. StepsInv'
  BY <1>4, <1>11, <1>14, <1>16, <1>17 DEF StepsInv
<1> QED
  BY <1>13, <1>15, <1>18 DEF StoreInv

(* The world is replayed, and the torn tail cut (load_world).              *)
LEMMA LoadWorldKeeps ==
    ASSUME StoreInv, LoadWorld
    PROVE  StoreInv'
<1> DEFINE kind == lc.pending.event.kind
<1>1. /\ TakeStep("load", Tail(todo)) /\ LeaseHeld /\ journal' = Lines /\ world' = Len(journal')
      /\ lc' = Renewed /\ mem' = lc' /\ trusted' = Now
      /\ clock' = clock /\ bnd' = bnd /\ snap' = snap
  BY DEF LoadWorld, ReplayedJournal
<1>2. host \in Live
  BY <1>1 DEF TakeStep
<1>3. /\ FilesInv /\ MemoryInv /\ StepsInv /\ Ordered(todo, kind)
      /\ Now \in 1 .. MaxTime
  BY <1>2, LiveFacts DEF StoreInv
<1>4. /\ Ordered(todo', kind) /\ HeadIs("load") /\ Onward(todo, 1, kind)
      /\ (todo' = <<>> <=> Len(todo) = 1)
      /\ todo' # <<>> => todo'[1] = todo[2]
      /\ host' = (IF todo' = <<>> THEN "up" ELSE host)
      /\ recovered' = (IF todo' = <<>> THEN "Missing" ELSE recovered)
      /\ \A x : Has(todo', x) => Has(todo, x)
  BY <1>1, <1>3, StepTaken
<1>5. todo[1] = "load" /\ Len(todo) >= 2 /\ todo[2] = "reconcile"
  BY <1>4 DEF HeadIs, Onward, Follows
<1>6. todo' # <<>> /\ todo'[1] = "reconcile" /\ host' = host /\ recovered' = recovered
  BY <1>4, <1>5
<1>7. Opening
  BY <1>4 DEF Opening
<1>8. OpeningInv /\ EndsInv
  BY <1>2, <1>3, <1>7 DEF StepsInv
<1>9. /\ bnd = Boundaries /\ TransferEvents(Lines) \subseteq InFile(bnd) /\ host # "up"
      /\ bnd = lc.head
  BY <1>4, <1>5, <1>8 DEF OpeningInv, HeadIs
<1>10. /\ Files(lc', Lines, Boundaries, snap) /\ Keeps(lc, lc') /\ lc'.lastTrusted <= Now
       /\ Runs(lc', Now)
  BY <1>1, <1>2, RenewedFacts
<1>11. lc'.head = bnd /\ lc'.pending = lc.pending /\ lc'.mode \notin {"Missing", "Sleeping"}
  BY <1>9, <1>10 DEF Keeps, Runs
<1>12. Lines' = Lines /\ Boundaries' = Boundaries
  <2>1. Lines \in Seq(Event)
    BY <1>10 DEF Files, History
  <2>2. Lines' = Terminated(Lines, TornLine)
    BY <1>1 DEF Lines
  <2> QED
    BY <1>1, <2>1, <2>2, TornTailCut, LinesUnchanged
<1>13. FilesInv'
  BY <1>1, <1>10, <1>11, <1>12 DEF FilesInv
<1>14. ~HeadIs("commit")' /\ HeadIs("reconcile")' /\ ~HeadIs("boundaries")' /\ ~Committing' /\ Opening'
  BY <1>6 DEF HeadIs, Committing, Opening
<1>15. Now \in 0 .. MaxTime
  BY <1>3
<1>16. MemoryInv'
  BY <1>1, <1>2, <1>6, <1>10, <1>11, <1>12, <1>14, <1>15, MemoryAfter
<1>17. OpeningInv'
  BY <1>1, <1>6, <1>9, <1>11, <1>12, <1>14 DEF OpeningInv
<1>18. EndsInv'
  <2>1. ~Has(todo, "sleep") /\ ~Has(todo, "publish")
    BY <1>5, <1>8 DEF EndsInv, HeadIs
  <2> QED
    BY <1>4, <2>1 DEF EndsInv
<1>19. StepsInv'
  BY <1>4, <1>11, <1>14, <1>17, <1>18 DEF StepsInv
<1> QED
  BY <1>13, <1>16, <1>19 DEF StoreInv

(* What is pending resolves to the schedule the history implies, whether   *)
(* its event is in the journal or not.                                     *)
LEMMA ResolvedIsImplied ==
    ASSUME NEW l, NEW j, NEW b, NEW s, Files(l, j, b, s)
    PROVE  ResolvedNext(l, j) = ImpliedNext(j)
<1>1. /\ l \in Lifecycle /\ l.seq \in Nat /\ Len(j) \in Nat
      /\ l.seq <= Len(j) /\ Len(j) <= l.seq + 1
      /\ Len(j) = l.seq + 1 => l.pending # NoPending
  BY RecordTyped DEF Files, Fits, Frontier, History
<1>2. CASE l.pending = NoPending
  BY <1>2 DEF Files, Fits, Schedule, ResolvedNext
<1>3. CASE l.pending # NoPending
  <2>1. Unresolved(l, j)
    BY <1>3 DEF Files, Fits, Schedule
  <2>2. CASE Len(j) = l.seq
    BY <1>1, <1>3, <2>1, <2>2 DEF Unresolved, ResolvedNext
  <2>3. CASE Len(j) = l.seq + 1
    BY <1>1, <1>3, <2>1, <2>3 DEF Unresolved, ResolvedNext
  <2> QED
    BY <1>1, <2>2, <2>3
<1> QED
  BY <1>2, <1>3

(* And so what reconciliation records is what the history implies: a       *)
(* production that is runnable is already scheduled.                       *)
LEMMA ReconciledIsImplied ==
    ASSUME NEW l, NEW j, NEW b, NEW s, NEW t, Files(l, j, b, s)
    PROVE  ReconciledNext(l, j, t) = ImpliedNext(j)
<1>1. ResolvedNext(l, j) = ImpliedNext(j)
  BY ResolvedIsImplied
<1>2. Runnable(j, Len(j)) => ImpliedNext(j) # NoOccurrence
  BY ImpliedNextType DEF Files
<1> QED
  BY <1>1, <1>2 DEF ReconciledNext

(* The record with its frontier at the runtime's state                     *)
(* (record_current_frontier).                                              *)
LEMMA AtWorldFields ==
    ASSUME NEW l \in Lifecycle, journal \in Seq(Event), world \in 0 .. Len(journal)
    PROVE  /\ AtWorld(l) \in Lifecycle
           /\ AtWorld(l).seq = world
           /\ AtWorld(l).last = (IF world = 0 THEN NoEvent ELSE journal[world])
           /\ AtWorld(l).mode = l.mode /\ AtWorld(l).fence = l.fence
           /\ AtWorld(l).renewed = l.renewed /\ AtWorld(l).expires = l.expires
           /\ AtWorld(l).cutoff = l.cutoff /\ AtWorld(l).lastTrusted = l.lastTrusted
           /\ AtWorld(l).head = l.head /\ AtWorld(l).next = l.next
           /\ AtWorld(l).ack = l.ack /\ AtWorld(l).pending = l.pending
<1> DEFINE last == IF world = 0 THEN NoEvent ELSE journal[world]
           m == [l EXCEPT !.seq = world, !.last = last]
<1>1. Len(journal) \in Nat /\ (world # 0 => journal[world] \in Event)
  OBVIOUS
<1>2. last \in Event \cup {NoEvent} /\ world \in Nat
  BY <1>1
<1> HIDE DEF last
<1>3. /\ m \in Lifecycle /\ m.seq = world /\ m.last = last
      /\ m.mode = l.mode /\ m.fence = l.fence
      /\ m.renewed = l.renewed /\ m.expires = l.expires
      /\ m.cutoff = l.cutoff /\ m.lastTrusted = l.lastTrusted
      /\ m.head = l.head /\ m.next = l.next
      /\ m.ack = l.ack /\ m.pending = l.pending
  BY <1>2 DEF Lifecycle
<1>4. AtWorld(l) = m
  BY DEF AtWorld, last
<1> QED
  BY <1>3, <1>4 DEF last

(* reconcile_lifecycle_with_world: the record agrees with the whole        *)
(* history.                                                                *)
LEMMA ReconcileKeeps ==
    ASSUME StoreInv, Reconcile
    PROVE  StoreInv'
<1> DEFINE kind == lc.pending.event.kind
           rest == IF world = 0 THEN <<"snapshot", "frontier">> \o Tail(todo) ELSE Tail(todo)
           l == [AtWorld(mem) EXCEPT !.pending = NoPending,
                                     !.next = ReconciledNext(mem, journal, Now),
                                     !.ack = Committed(journal, world)]
<1>1. /\ TakeStep("reconcile", rest) /\ LeaseHeld /\ Persist(l)
      /\ clock' = clock /\ journal' = journal /\ bnd' = bnd /\ snap' = snap /\ world' = world
  BY DEF Reconcile
<1>2. /\ host \in Live /\ todo # <<>> /\ Head(todo) = "reconcile" /\ todo' = rest
      /\ host' = (IF rest = <<>> THEN "up" ELSE host)
      /\ recovered' = (IF rest = <<>> THEN "Missing" ELSE recovered)
  BY <1>1 DEF TakeStep
<1>3. /\ StepsInv /\ Ordered(todo, kind) /\ Files(lc, Lines, Boundaries, snap)
      /\ mem = lc /\ Runs(lc, Now) /\ lc \in Lifecycle
  BY <1>1, <1>2, LiveFacts, RenewedFacts DEF StoreInv, FilesInv
<1>4. /\ todo \in Seq(Steps) /\ todo[1] = "reconcile" /\ HeadIs("reconcile")
      /\ Len(todo) \in Nat \ {0} /\ Len(Tail(todo)) = Len(todo) - 1
      /\ \A i \in 1 .. Len(todo) - 1 : Tail(todo)[i] = todo[i + 1]
      /\ Tail(todo) \in Seq(Steps)
  BY <1>2, <1>3, QueueTail DEF Ordered, HeadIs
<1>5. Opening
  BY <1>4 DEF Opening
<1>6. OpeningInv /\ EndsInv
  BY <1>2, <1>3, <1>5 DEF StepsInv
<1>7. /\ bnd = Boundaries /\ TransferEvents(Lines) \subseteq InFile(bnd) /\ bnd = lc.head
      /\ journal = Lines /\ world = Len(journal)
  BY <1>4, <1>6 DEF OpeningInv, HeadIs
<1>8. journal \in Seq(Event) /\ History(journal) /\ Len(journal) \in Nat
  BY <1>3, <1>7 DEF Files, History
<1>9. ReconciledNext(mem, journal, Now) = ImpliedNext(journal)
  BY <1>3, <1>7, ReconciledIsImplied
<1>10. /\ ImpliedNext(journal) \in OccurrenceOrNone /\ Committed(journal, world) \in Nat
       /\ NoPending \in PendingOrNone
  BY <1>7, <1>8, ImpliedNextType, QuantaFinite DEF PendingOrNone
<1>11. world \in 0 .. Len(journal)
  BY <1>7, <1>8
<1> DEFINE a == AtWorld(lc)
<1>12. /\ a \in Lifecycle /\ a.seq = world /\ a.last = (IF world = 0 THEN NoEvent ELSE journal[world])
       /\ a.mode = lc.mode /\ a.fence = lc.fence /\ a.renewed = lc.renewed /\ a.expires = lc.expires
       /\ a.cutoff = lc.cutoff /\ a.head = lc.head
  BY <1>3, <1>8, <1>11, AtWorldFields
<1> HIDE DEF a
<1>13. l = [a EXCEPT !.pending = NoPending, !.next = ImpliedNext(journal), !.ack = Committed(journal, world)]
  BY <1>3, <1>9 DEF a
<1> HIDE DEF l
<1>14. /\ l \in Lifecycle /\ l.pending = NoPending /\ l.next = ImpliedNext(journal)
       /\ l.ack = Committed(journal, world)
       /\ l.seq = a.seq /\ l.last = a.last /\ l.mode = a.mode /\ l.fence = a.fence
       /\ l.renewed = a.renewed /\ l.expires = a.expires /\ l.cutoff = a.cutoff /\ l.head = a.head
  BY <1>10, <1>12, <1>13 DEF Lifecycle
<1>15. Runs(l, Now)
  BY <1>3, <1>12, <1>14 DEF Runs
<1>16. /\ lc' \in Lifecycle /\ Leased(lc') /\ lc'.lastTrusted = Now
       /\ lc'.fence = l.fence /\ lc'.seq = l.seq /\ lc'.last = l.last /\ lc'.head = l.head
       /\ lc'.next = l.next /\ lc'.ack = l.ack /\ lc'.pending = l.pending
       /\ lc'.mode \notin {"Missing", "Sleeping"}
       /\ mem' = lc' /\ trusted' = Now /\ Now \in 0 .. MaxTime
  BY <1>1, <1>2, <1>15, Persisted
<1>17. Files(lc', journal, bnd, snap)
  <2>1. lc'.last = (IF Len(journal) = 0 THEN NoEvent ELSE journal[Len(journal)])
    BY <1>7, <1>12, <1>14, <1>16
  <2>2. lc'.ack <= Committed(journal, Len(journal))
    BY <1>7, <1>10, <1>14, <1>16
  <2>3. /\ lc'.fence = lc.fence /\ lc'.head = bnd /\ lc'.pending = NoPending
        /\ lc'.seq = Len(journal) /\ lc'.next = ImpliedNext(journal)
    BY <1>7, <1>12, <1>14, <1>16
  <2>4. Files(lc, journal, bnd, snap) /\ TransferEvents(journal) \subseteq InFile(bnd)
    BY <1>3, <1>7
  <2> QED
    BY <1>16, <2>1, <2>2, <2>3, <2>4, FilesSettled
<1> DEFINE none == NoPending.event.kind
<1>18. Ordered(Tail(todo), none)
  BY <1>2, <1>3, <1>4, OrderedTail
<1>19. ~Has(todo, "sleep") /\ ~Has(todo, "publish")
  BY <1>4, <1>6 DEF EndsInv, HeadIs
<1>20. Tail(todo) # <<>> => Tail(todo)[1] \in {"snapshot", "restore", "sleep", "background", "publish"}
  <2> SUFFICES ASSUME Tail(todo) # <<>>
               PROVE  Tail(todo)[1] \in {"snapshot", "restore", "sleep", "background", "publish"}
    OBVIOUS
  <2>1. Len(Tail(todo)) \in Nat \ {0}
    BY <1>4
  <2>2. 2 \in 2 .. Len(todo) /\ Tail(todo)[1] = todo[2] /\ todo[2] \in Steps
    BY <1>4, <2>1
  <2>3. After(todo, 2)
    BY <1>3, <2>2 DEF Ordered
  <2>4. todo[2] \notin {"boundaries", "head", "append", "load", "reconcile", "boundary", "commit",
                        "acknowledge", "frontier"}
    BY <1>4, <2>3 DEF After
  <2> QED
    BY <2>2, <2>4 DEF Steps
<1>21. \A x : Has(Tail(todo), x) => Has(todo, x)
  BY <1>4 DEF Has
<1>22. /\ Ordered(rest, none) /\ ~Has(rest, "sleep") /\ ~Has(rest, "publish")
       /\ rest # <<>> => rest[1] \in {"snapshot", "restore", "sleep", "background", "publish"}
  <2>1. CASE world = 0
    <3> DEFINE r == <<"snapshot", "frontier">> \o Tail(todo)
    <3>1. /\ r \in Seq(Steps) /\ Len(r) = Len(Tail(todo)) + 2
          /\ r[1] = "snapshot" /\ r[2] = "frontier"
          /\ \A i \in 1 .. Len(Tail(todo)) : r[i + 2] = Tail(todo)[i]
      <4>1. "snapshot" \in Steps /\ "frontier" \in Steps
        BY DEF Steps
      <4> DEFINE u == Tail(todo)
      <4>2. u \in Seq(Steps)
        BY <1>4
      <4> HIDE DEF u
      <4>3. /\ r \in Seq(Steps) /\ Len(r) = Len(u) + 2 /\ r[1] = "snapshot" /\ r[2] = "frontier"
        BY <4>1, <4>2 DEF u
      <4>4. ASSUME NEW i \in 1 .. Len(u) PROVE (<<"snapshot", "frontier">> \o u)[i + 2] = u[i]
        BY <4>1, <4>2
      <4> QED
        BY <4>3, <4>4 DEF u
    <3> HIDE DEF r
    <3>2. /\ Ordered(r, none) /\ r # <<>>
          /\ \A x : Has(r, x) => x \in {"snapshot", "frontier"} \/ Has(Tail(todo), x)
      BY <1>18, <1>20, <3>1, SavedFirst
    <3>3. rest = r
      BY <2>1 DEF r
    <3> QED
      BY <1>19, <1>21, <3>1, <3>2, <3>3
  <2>2. CASE world # 0
    BY <1>18, <1>19, <1>20, <1>21, <2>2
  <2> QED
    BY <2>1, <2>2
<1> HIDE DEF rest
<1>23. /\ ~Opening' /\ ~Committing' /\ ~HeadIs("frontier")'
       /\ (HeadIs("sleep")' => Has(rest, "sleep"))
  <2>1. \A x : HeadIs(x)' => rest # <<>> /\ rest[1] = x
    BY <1>2 DEF HeadIs
  <2>2. rest # <<>> => 1 \in 1 .. Len(rest)
    <3>1. rest \in Seq(Steps)
      BY <1>22 DEF Ordered
    <3> QED
      BY <3>1
  <2> QED
    BY <1>22, <2>1, <2>2 DEF Opening, Committing, Has
<1>24. EndsInv'
  BY <1>2, <1>22 DEF EndsInv
<1>25. /\ lc'.pending = NoPending /\ lc'.head = bnd /\ lc'.seq = world'
       /\ lc'.ack = Committed(journal, world') /\ lc'.lastTrusted <= trusted'
       /\ Ordered(todo', lc'.pending.event.kind)
  <2>1. Now \in Int
    BY <1>16
  <2> QED
    BY <1>1, <1>2, <1>7, <1>12, <1>14, <1>16, <1>22, <2>1
<1>26. /\ HeadIs("frontier")' \/ HeadIs("sleep")' => snap' = [seq |-> world', fence |-> lc'.fence]
       /\ trusted' \in 0 .. MaxTime
  BY <1>16, <1>22, <1>23
<1>27. \/ host' = host /\ recovered' = recovered
       \/ host' = "up" /\ recovered' = "Missing"
  BY <1>2
<1> QED
  BY <1>1, <1>2, <1>7, <1>16, <1>17, <1>23, <1>24, <1>25, <1>26, <1>27, RestReached

-----------------------------------------------------------------------------
(***************************************************************************)
(* Between commits: saves, transitions, sleep.                             *)
(***************************************************************************)
(* Where the process stands when the step at its head is one of these.     *)
LEMMA AtRest ==
    ASSUME NEW s, HeadIs(s),
           s \notin {"boundaries", "head", "load", "reconcile", "append", "boundary", "commit"}
    PROVE  ~Opening /\ ~Committing /\ (s # "acknowledge" => ~HeadIs("acknowledge"))
BY DEF Opening, Committing, HeadIs

(* transition_mode, and every record a runtime writes with its frontier    *)
(* and a new mode: the progress recorded is what it was.                   *)
LEMMA Transited ==
    ASSUME StoreInv, host \in Live, ~Opening, ~Committing, LeaseHeld,
           NEW to \in {"Background", "Draining", "Active", "Activating"}, NEW c,
           c = IF to = "Activating" THEN Now ELSE NoTime,
           Persist([AtWorld(Renewed) EXCEPT !.mode = to, !.cutoff = c])
    PROVE  /\ Files(lc', journal, bnd, snap) /\ Keeps(lc, lc') /\ lc'.fence = lc.fence
           /\ lc'.mode = to /\ lc'.cutoff = c /\ lc'.mode \notin {"Missing", "Sleeping"}
           /\ mem' = lc' /\ trusted' \in 0 .. MaxTime /\ lc'.lastTrusted <= trusted'
<1>1. /\ Runs(Renewed, Now) /\ Keeps(lc, Renewed) /\ Renewed.fence = lc.fence
  BY RenewedFacts
<1>2. /\ world = lc.seq /\ journal \in Seq(Event) /\ world \in 0 .. Len(journal)
      /\ lc.last = (IF world = 0 THEN NoEvent ELSE journal[world])
      /\ Files(lc, journal, bnd, snap)
  BY RestFacts
<1>3. Renewed \in Lifecycle /\ Now \in 1 .. MaxTime
  BY <1>1, LiveFacts DEF Runs
<1> DEFINE a == AtWorld(Renewed)
           l == [a EXCEPT !.mode = to, !.cutoff = c]
<1>4. /\ a \in Lifecycle /\ a.seq = world /\ a.last = (IF world = 0 THEN NoEvent ELSE journal[world])
      /\ a.fence = Renewed.fence /\ a.renewed = Renewed.renewed /\ a.expires = Renewed.expires
      /\ a.head = Renewed.head /\ a.next = Renewed.next /\ a.ack = Renewed.ack
      /\ a.pending = Renewed.pending
  BY <1>2, <1>3, AtWorldFields
<1>5. to \in Modes \cup {"Missing"} /\ c \in Times
  BY <1>3, StoreAssumption DEF Modes, Times, NoTime
<1>6. Persist(l)
  OBVIOUS
<1> HIDE DEF a
<1>7. /\ l \in Lifecycle /\ l.mode = to /\ l.cutoff = c
      /\ l.seq = a.seq /\ l.last = a.last /\ l.fence = a.fence /\ l.renewed = a.renewed
      /\ l.expires = a.expires /\ l.head = a.head /\ l.next = a.next /\ l.ack = a.ack
      /\ l.pending = a.pending
  BY <1>4, <1>5 DEF Lifecycle
<1> HIDE DEF l
<1>8. Runs(l, Now)
  <2>1. l.mode = "Activating" => l.cutoff \in 1 .. Now
    BY <1>3, <1>7
  <2>2. l.mode # "Activating" => l.cutoff = NoTime
    BY <1>7
  <2>3. l.mode \notin {"Missing", "Sleeping"}
    BY <1>7
  <2> QED
    BY <1>1, <1>4, <1>7, <2>1, <2>2, <2>3 DEF Runs
<1>9. /\ lc' \in Lifecycle /\ Leased(lc') /\ lc'.lastTrusted = Now
      /\ lc'.fence = l.fence /\ lc'.seq = l.seq /\ lc'.last = l.last /\ lc'.head = l.head
      /\ lc'.next = l.next /\ lc'.ack = l.ack /\ lc'.pending = l.pending
      /\ lc'.mode = l.mode /\ lc'.cutoff = l.cutoff
      /\ lc'.mode \notin {"Missing", "Sleeping"}
      /\ mem' = lc' /\ trusted' = Now /\ Now \in 0 .. MaxTime
  BY <1>6, <1>8, Persisted
<1>10. Keeps(lc, lc') /\ lc'.fence = lc.fence
  BY <1>1, <1>2, <1>4, <1>7, <1>9 DEF Keeps
<1>11. Files(lc', journal, bnd, snap)
  BY <1>2, <1>9, <1>10, FilesKept
<1>12. lc'.lastTrusted <= trusted'
  BY <1>9
<1> QED
  BY <1>7, <1>9, <1>10, <1>11, <1>12

(* A hosted open gives the cell its mode back (restore_recovered_host_mode). *)
LEMMA RestoreKeeps ==
    ASSUME StoreInv, Restore
    PROVE  StoreInv'
<1> DEFINE rest == IF RestoredMode = "Sleeping" THEN <<"snapshot", "frontier", "sleep">> ELSE Tail(todo)
<1>1. /\ TakeStep("restore", rest)
      /\ \/ /\ RestoredMode = "Background" /\ LeaseHeld
            /\ Persist([AtWorld(Renewed) EXCEPT !.mode = "Background", !.cutoff = NoTime])
         \/ /\ RestoredMode # "Background" /\ lc' = lc /\ mem' = mem /\ trusted' = trusted
      /\ clock' = clock /\ journal' = journal /\ bnd' = bnd /\ snap' = snap /\ world' = world
  BY DEF Restore
<1>2. /\ host \in Live /\ todo # <<>> /\ Head(todo) = "restore" /\ todo' = rest
      /\ host' = (IF rest = <<>> THEN "up" ELSE host)
      /\ recovered' = (IF rest = <<>> THEN "Missing" ELSE recovered)
  BY <1>1 DEF TakeStep
<1>3. /\ Ordered(todo, lc.pending.event.kind) /\ trusted \in 0 .. MaxTime
      /\ lc.mode \notin {"Missing", "Sleeping"} /\ lc.lastTrusted <= trusted
  BY <1>2, LiveFacts DEF StoreInv, MemoryInv
<1>4. todo[1] = "restore" /\ HeadIs("restore")
  BY <1>2, <1>3, QueueTail DEF Ordered, HeadIs
<1>5. ~Opening /\ ~Committing /\ ~HeadIs("acknowledge")
  BY <1>4, AtRest
<1>6. /\ Files(lc, journal, bnd, snap) /\ mem = lc /\ EndsInv /\ world = Len(journal) /\ journal = Lines
      /\ lc.fence \in Nat
  BY <1>2, <1>5, RestFacts, FenceIsRecorded
<1>7. /\ Files(lc', journal, bnd, snap) /\ Keeps(lc, lc') /\ lc'.fence = lc.fence
      /\ lc'.mode \notin {"Missing", "Sleeping"}
      /\ mem' = lc' /\ trusted' \in 0 .. MaxTime /\ lc'.lastTrusted <= trusted'
  <2>1. CASE RestoredMode = "Background" /\ LeaseHeld
             /\ Persist([AtWorld(Renewed) EXCEPT !.mode = "Background", !.cutoff = NoTime])
    <3> DEFINE to == "Background"
               c == NoTime
    <3>1. to \in {"Background", "Draining", "Active", "Activating"}
          /\ c = (IF to = "Activating" THEN Now ELSE NoTime)
      OBVIOUS
    <3>2. Persist([AtWorld(Renewed) EXCEPT !.mode = to, !.cutoff = c])
      BY <2>1
    <3> HIDE DEF to, c
    <3> QED
      BY <1>2, <1>5, <2>1, <3>1, <3>2, Transited
  <2>2. CASE lc' = lc /\ mem' = mem /\ trusted' = trusted
    <3>1. Keeps(lc, lc)
      BY <1>6 DEF Keeps
    <3> QED
      BY <1>3, <1>6, <2>2, <3>1
  <2> QED
    BY <1>1, <2>1, <2>2
<1>8. ASSUME RestoredMode = "Sleeping" PROVE ~Runnable(journal, world)
  <2>1. recovered = "Draining" \/ recovered = "Sleeping"
    BY <1>8 DEF RestoredMode
  <2>2. CASE recovered = "Draining"
    BY <1>8, <2>2 DEF RestoredMode
  <2>3. CASE recovered = "Sleeping"
    BY <1>6, <2>3 DEF StoreInv, MemoryInv
  <2> QED
    BY <2>1, <2>2, <2>3
<1>9. CASE RestoredMode = "Sleeping"
  <2> DEFINE r == <<"snapshot", "frontier", "sleep">>
  <2>1. r \in Seq(Steps) /\ Len(r) = 3 /\ r[1] = "snapshot" /\ r[2] = "frontier" /\ r[3] = "sleep"
    <3>1. {"snapshot", "frontier", "sleep"} \subseteq Steps
      BY DEF Steps
    <3>2. r \in Seq(Steps)
      BY <3>1
    <3> QED
      BY <3>2
  <2>2. rest = r
    BY <1>9
  <2> HIDE DEF r, rest
  <2>3. ASSUME NEW kind
        PROVE  /\ Ordered(r, kind) /\ r # <<>>
               /\ \A x : Has(r, x) => x \in {"snapshot", "frontier", "sleep"}
    <3> DEFINE u == <<"sleep">>
    <3>1. /\ Ordered(u, kind) /\ u[1] = "sleep" /\ Len(u) = 1 /\ \A x : Has(u, x) => x = "sleep"
      BY LastStep
    <3> HIDE DEF u
    <3>2. Len(r) = Len(u) + 2 /\ \A i \in 1 .. Len(u) : r[i + 2] = u[i]
      BY <2>1, <3>1
    <3>3. /\ Ordered(r, kind) /\ r # <<>>
          /\ \A x : Has(r, x) => x \in {"snapshot", "frontier"} \/ Has(u, x)
      BY <2>1, <3>1, <3>2, SavedFirst
    <3> QED
      BY <3>1, <3>3
  <2>4. /\ todo' # <<>> /\ todo'[1] = "snapshot" /\ \A kind : Ordered(todo', kind)
        /\ \A x : Has(todo', x) => x \in {"snapshot", "frontier", "sleep"}
    BY <1>2, <2>1, <2>2, <2>3
  <2>5. HeadIs("snapshot")' /\ ~HeadIs("frontier")' /\ ~HeadIs("sleep")' /\ ~Opening' /\ ~Committing'
    BY <2>4 DEF HeadIs, Opening, Committing
  <2>6. EndsInv'
    BY <1>1, <1>8, <1>9, <2>4, <2>5 DEF EndsInv
  <2>7. host' = host /\ recovered' = recovered
    BY <1>2, <2>4
  <2> QED
    BY <1>1, <1>2, <1>5, <1>7, <2>4, <2>5, <2>6, <2>7, RestKeeps
<1>10. CASE RestoredMode # "Sleeping"
  <2> DEFINE kind == lc.pending.event.kind
  <2>1. TakeStep("restore", Tail(todo))
    BY <1>1, <1>10
  <2>2. \A k : Ordered(todo', k)
    BY <1>3, <2>1, RestStep
  <2>3. /\ ~Opening' /\ ~Committing' /\ ~HeadIs("frontier")' /\ ~HeadIs("sleep")'
    BY <1>3, <2>1, RestStep
  <2>4. ~Has(todo', "sleep") /\ ~Has(todo', "publish")
    BY <1>3, <1>6, <2>1, NothingEnds
  <2>5. EndsInv'
    BY <2>4 DEF EndsInv
  <2>6. \/ host' = host /\ recovered' = recovered
        \/ host' = "up" /\ recovered' = "Missing"
    BY <1>2
  <2> HIDE DEF rest
  <2> QED
    BY <1>1, <1>2, <1>5, <1>7, <2>2, <2>3, <2>5, <2>6, RestKeeps
<1> QED
  BY <1>9, <1>10

(* One of the steps between commits is taken.                              *)
LEMMA RestTaken ==
    ASSUME StoreInv, NEW s \in {"snapshot", "frontier", "background", "publish"},
           TakeStep(s, Tail(todo))
    PROVE  /\ host \in Live /\ HeadIs(s) /\ ~Opening /\ ~Committing /\ ~HeadIs("acknowledge")
           /\ Ordered(todo, lc.pending.event.kind) /\ EndsInv
           /\ \A kind : Ordered(todo', kind)
           /\ ~Opening' /\ ~Committing'
           /\ HeadIs("frontier")' => s = "snapshot"
           /\ HeadIs("sleep")' => s = "frontier"
           /\ s \notin {"snapshot", "frontier"} => EndsInv'
           /\ \/ host' = host /\ recovered' = recovered
              \/ host' = "up" /\ recovered' = "Missing"
<1>1. host \in Live /\ todo # <<>> /\ Head(todo) = s
      /\ \/ host' = host /\ recovered' = recovered
         \/ host' = "up" /\ recovered' = "Missing"
  BY DEF TakeStep
<1>2. Ordered(todo, lc.pending.event.kind)
  BY <1>1, LiveFacts
<1>3. HeadIs(s)
  BY <1>1, <1>2, QueueTail DEF Ordered, HeadIs
<1>4. ~Opening /\ ~Committing /\ ~HeadIs("acknowledge")
  BY <1>3, AtRest
<1>5. EndsInv
  BY <1>1, <1>4, RestFacts
<1> DEFINE kind == lc.pending.event.kind
<1>6. Ordered(todo, kind)
  BY <1>2
<1> HIDE DEF kind
<1>7. ASSUME NEW after PROVE Ordered(todo', after)
  BY <1>6, RestStep
<1>8. /\ ~Opening' /\ ~Committing'
      /\ HeadIs("frontier")' => s = "snapshot"
      /\ HeadIs("sleep")' => s = "frontier"
  BY <1>6, RestStep
<1>9. ASSUME s \notin {"snapshot", "frontier"} PROVE EndsInv'
  <2>1. ~Has(todo', "sleep") /\ ~Has(todo', "publish")
    BY <1>5, <1>6, <1>9, NothingEnds
  <2> QED
    BY <2>1 DEF EndsInv
<1> QED
  BY <1>1, <1>2, <1>3, <1>4, <1>5, <1>7, <1>8, <1>9

(* save_snapshot's first write: the whole history, under the fence held.   *)
LEMMA SaveSnapshotKeeps ==
    ASSUME StoreInv, SaveSnapshot
    PROVE  StoreInv'
<1>1. /\ TakeStep("snapshot", Tail(todo)) /\ LeaseHeld
      /\ lc' = Renewed /\ mem' = lc' /\ trusted' = Now
      /\ snap' = [seq |-> world, fence |-> mem.fence]
      /\ clock' = clock /\ journal' = journal /\ bnd' = bnd /\ world' = world
  BY DEF SaveSnapshot
<1>2. /\ host \in Live /\ ~Opening /\ ~Committing /\ ~HeadIs("acknowledge")
      /\ Ordered(todo, lc.pending.event.kind) /\ EndsInv
      /\ \A kind : Ordered(todo', kind)
      /\ ~Opening' /\ ~Committing' /\ ~HeadIs("sleep")'
      /\ \/ host' = host /\ recovered' = recovered
         \/ host' = "up" /\ recovered' = "Missing"
  BY <1>1, RestTaken
<1>3. /\ journal = Lines /\ bnd = Boundaries /\ world = lc.seq /\ lc.pending = NoPending
  BY <1>2, RestFacts DEF Served
<1>4. /\ mem = lc /\ Runs(lc', Now) /\ Keeps(lc, lc') /\ lc'.fence = lc.fence
      /\ lc'.mode = lc.mode /\ lc'.cutoff = lc.cutoff /\ lc'.lastTrusted <= Now
      /\ Files(lc', journal, bnd, snap)
  BY <1>1, <1>2, <1>3, RenewedFacts
<1>5. /\ lc'.pending = NoPending /\ lc'.seq = lc.seq /\ lc'.next = lc.next
      /\ lc'.mode \notin {"Missing", "Sleeping"}
  BY <1>3, <1>4 DEF Keeps, Runs
<1>6. Files(lc', journal, bnd, [seq |-> lc'.seq, fence |-> lc'.fence])
  BY <1>4, <1>5, FilesSnapped
<1>7. snap' = [seq |-> lc'.seq, fence |-> lc'.fence] /\ snap' = [seq |-> world, fence |-> lc.fence]
  BY <1>1, <1>3, <1>4, <1>5
<1>8. EndsInv'
  BY <1>1, <1>2, <1>4, <1>5, EndsNearer
<1>9. Now \in 0 .. MaxTime
  BY <1>2, LiveFacts
<1>10. trusted' \in 0 .. MaxTime /\ lc'.lastTrusted <= trusted'
  BY <1>1, <1>4, <1>9
<1>11. Files(lc', journal, bnd, snap')
  BY <1>6, <1>7
<1> QED
  BY <1>1, <1>2, <1>4, <1>5, <1>7, <1>8, <1>10, <1>11, RestKeeps

(* save_snapshot's second: the frontier of the record                      *)
(* (record_current_frontier).                                              *)
LEMMA RecordFrontierKeeps ==
    ASSUME StoreInv, RecordFrontier
    PROVE  StoreInv'
<1>1. /\ TakeStep("frontier", Tail(todo)) /\ LeaseRuns /\ Persist(AtWorld(mem))
      /\ clock' = clock /\ journal' = journal /\ bnd' = bnd /\ snap' = snap /\ world' = world
  BY DEF RecordFrontier
<1>2. /\ host \in Live /\ ~Opening /\ ~Committing /\ ~HeadIs("acknowledge") /\ HeadIs("frontier")
      /\ Ordered(todo, lc.pending.event.kind) /\ EndsInv
      /\ \A kind : Ordered(todo', kind)
      /\ ~Opening' /\ ~Committing' /\ ~HeadIs("frontier")'
      /\ \/ host' = host /\ recovered' = recovered
         \/ host' = "up" /\ recovered' = "Missing"
  BY <1>1, RestTaken
<1>3. /\ journal = Lines /\ bnd = Boundaries /\ world = lc.seq /\ lc.pending = NoPending
      /\ mem = lc /\ journal \in Seq(Event) /\ world \in 0 .. Len(journal)
      /\ lc.last = (IF world = 0 THEN NoEvent ELSE journal[world])
      /\ Files(lc, journal, bnd, snap)
      /\ snap = [seq |-> world, fence |-> lc.fence]
  BY <1>2, RestFacts DEF Served, RestInv
<1>4. /\ lc \in Lifecycle /\ Leased(lc) /\ Now \in 1 .. MaxTime /\ Now < lc.expires
      /\ lc.lastTrusted <= Now /\ lc.lastTrusted \in 1 .. MaxTime
      /\ lc.mode \notin {"Missing", "Sleeping"} /\ lc.fence \in Nat
  <2>1. lc \in Lifecycle /\ lc.fence \in Nat
    BY <1>3, FenceIsRecorded DEF Files
  <2> QED
    BY <1>1, <1>2, <1>3, <2>1, LiveFacts DEF LeaseRuns, Modes
<1> DEFINE a == AtWorld(lc)
<1>5. /\ a \in Lifecycle /\ a.seq = world /\ a.last = lc.last
      /\ a.mode = lc.mode /\ a.fence = lc.fence /\ a.renewed = lc.renewed
      /\ a.expires = lc.expires /\ a.cutoff = lc.cutoff
      /\ a.head = lc.head /\ a.next = lc.next /\ a.ack = lc.ack /\ a.pending = lc.pending
  BY <1>3, <1>4, AtWorldFields
<1>6. Persist(a)
  BY <1>1, <1>3
<1> HIDE DEF a
<1>7. /\ lc.fence > 0 /\ lc.renewed \in 1 .. lc.lastTrusted
      /\ lc.mode = "Activating" => lc.cutoff \in 1 .. lc.lastTrusted
      /\ lc.mode # "Activating" => lc.cutoff = NoTime
  BY <1>4 DEF Leased
<1>8. /\ lc.renewed \in 1 .. Now
      /\ lc.mode = "Activating" => lc.cutoff \in 1 .. Now
  BY <1>4, <1>7
<1>9. Runs(a, Now)
  BY <1>4, <1>5, <1>7, <1>8 DEF Runs
<1>10. /\ lc' \in Lifecycle /\ Leased(lc') /\ lc'.lastTrusted = Now
       /\ lc'.fence = a.fence /\ lc'.seq = a.seq /\ lc'.last = a.last /\ lc'.head = a.head
       /\ lc'.next = a.next /\ lc'.ack = a.ack /\ lc'.pending = a.pending
       /\ lc'.mode = a.mode /\ lc'.cutoff = a.cutoff
       /\ lc'.mode \notin {"Missing", "Sleeping"}
       /\ mem' = lc' /\ trusted' = Now /\ Now \in 0 .. MaxTime
  BY <1>2, <1>6, <1>9, Persisted
<1>11. Keeps(lc, lc') /\ lc'.fence = lc.fence
  BY <1>3, <1>4, <1>5, <1>10 DEF Keeps
<1>12. Files(lc', journal, bnd, snap)
  BY <1>3, <1>10, <1>11, FilesKept
<1>13. lc'.lastTrusted <= trusted'
  BY <1>10
<1>14. EndsInv'
  BY <1>1, <1>2, <1>5, <1>10, EndsNearer
<1> QED
  BY <1>1, <1>2, <1>3, <1>10, <1>11, <1>12, <1>13, <1>14, RestKeeps

(* A drained cell that still produces goes on in the background            *)
(* (drain_to_background_or_sleeping).                                      *)
LEMMA EnterBackgroundKeeps ==
    ASSUME StoreInv, EnterBackground
    PROVE  StoreInv'
<1> DEFINE to == "Background"
           c == NoTime
<1>1. /\ TakeStep("background", Tail(todo)) /\ LeaseHeld
      /\ Persist([AtWorld(Renewed) EXCEPT !.mode = to, !.cutoff = c])
      /\ clock' = clock /\ journal' = journal /\ bnd' = bnd /\ snap' = snap /\ world' = world
  BY DEF EnterBackground, Transition
<1>2. to \in {"Background", "Draining", "Active", "Activating"}
      /\ c = (IF to = "Activating" THEN Now ELSE NoTime)
  OBVIOUS
<1> HIDE DEF to, c
<1>3. /\ host \in Live /\ ~Opening /\ ~Committing /\ ~HeadIs("acknowledge")
      /\ \A kind : Ordered(todo', kind)
      /\ ~Opening' /\ ~Committing' /\ ~HeadIs("frontier")' /\ ~HeadIs("sleep")' /\ EndsInv'
      /\ \/ host' = host /\ recovered' = recovered
         \/ host' = "up" /\ recovered' = "Missing"
  BY <1>1, RestTaken
<1>4. /\ Files(lc', journal, bnd, snap) /\ Keeps(lc, lc') /\ lc'.fence = lc.fence
      /\ lc'.mode \notin {"Missing", "Sleeping"}
      /\ mem' = lc' /\ trusted' \in 0 .. MaxTime /\ lc'.lastTrusted <= trusted'
  BY <1>1, <1>2, <1>3, Transited
<1> QED
  BY <1>1, <1>3, <1>4, RestKeeps

(* publish_active.                                                         *)
LEMMA PublishActiveKeeps ==
    ASSUME StoreInv, PublishActive
    PROVE  StoreInv'
<1> DEFINE to == "Active"
           c == NoTime
<1>1. /\ TakeStep("publish", Tail(todo)) /\ LeaseHeld
      /\ Persist([AtWorld(Renewed) EXCEPT !.mode = to, !.cutoff = c])
      /\ clock' = clock /\ journal' = journal /\ bnd' = bnd /\ snap' = snap /\ world' = world
  BY DEF PublishActive
<1>2. to \in {"Background", "Draining", "Active", "Activating"}
      /\ c = (IF to = "Activating" THEN Now ELSE NoTime)
  OBVIOUS
<1> HIDE DEF to, c
<1>3. /\ host \in Live /\ ~Opening /\ ~Committing /\ ~HeadIs("acknowledge")
      /\ \A kind : Ordered(todo', kind)
      /\ ~Opening' /\ ~Committing' /\ ~HeadIs("frontier")' /\ ~HeadIs("sleep")' /\ EndsInv'
      /\ \/ host' = host /\ recovered' = recovered
         \/ host' = "up" /\ recovered' = "Missing"
  BY <1>1, RestTaken
<1>4. /\ Files(lc', journal, bnd, snap) /\ Keeps(lc, lc') /\ lc'.fence = lc.fence
      /\ lc'.mode \notin {"Missing", "Sleeping"}
      /\ mem' = lc' /\ trusted' \in 0 .. MaxTime /\ lc'.lastTrusted <= trusted'
  BY <1>1, <1>2, <1>3, Transited
<1> QED
  BY <1>1, <1>3, <1>4, RestKeeps

(* The lease is given up in the record (release_to_sleeping): the snapshot *)
(* has just been saved and nothing is left to run.                         *)
LEMMA ReleaseToSleepingKeeps ==
    ASSUME StoreInv, ReleaseToSleeping
    PROVE  StoreInv'
<1> DEFINE m == [AtWorld(mem) EXCEPT !.mode = "Sleeping", !.renewed = NoTime,
                                     !.expires = NoTime, !.cutoff = NoTime,
                                     !.lastTrusted = Now]
<1>1. /\ host \in Live /\ todo = <<"sleep">> /\ lc' = m /\ Forget("asleep")
      /\ clock' = clock /\ journal' = journal /\ bnd' = bnd /\ snap' = snap
  BY DEF ReleaseToSleeping
<1>2. Len(todo) = 1 /\ todo[1] = "sleep" /\ todo # <<>>
  BY <1>1
<1>3. HeadIs("sleep") /\ Has(todo, "sleep")
  BY <1>2 DEF HeadIs, Has
<1>4. ~Opening /\ ~Committing /\ ~HeadIs("acknowledge")
  BY <1>3, AtRest
<1>5. /\ journal = Lines /\ bnd = Boundaries /\ world = lc.seq /\ lc.pending = NoPending
      /\ mem = lc /\ journal \in Seq(Event) /\ world = Len(journal) /\ Len(journal) \in Nat
      /\ lc.last = (IF world = 0 THEN NoEvent ELSE journal[world])
      /\ Files(lc, journal, bnd, snap) /\ TransferEvents(journal) \subseteq InFile(bnd)
      /\ snap = [seq |-> world, fence |-> lc.fence]
      /\ lc.ack = Committed(journal, world) /\ lc.head = bnd /\ lc.next = ImpliedNext(journal)
      /\ EndsInv
  BY <1>1, <1>3, <1>4, RestFacts DEF Served, RestInv
<1>6. ~Runnable(journal, world)
  BY <1>3, <1>5 DEF EndsInv
<1>7. /\ lc \in Lifecycle /\ Leased(lc) /\ Now \in 1 .. MaxTime /\ Now \in Times
      /\ lc.mode \notin {"Missing", "Sleeping"} /\ lc.fence \in Nat /\ NoTime \in Times
      /\ clock \in 1 .. MaxTime
  <2>1. lc \in Lifecycle /\ lc.fence \in Nat
    BY <1>5, FenceIsRecorded DEF Files
  <2>2. Now \in 1 .. MaxTime /\ Leased(lc) /\ lc.mode \notin {"Missing", "Sleeping"}
        /\ clock \in 1 .. MaxTime
    BY <1>1, LiveFacts DEF Modes
  <2>3. Now \in Times /\ NoTime \in Times
    BY <2>2, TimeTyped
  <2> QED
    BY <2>1, <2>2, <2>3
<1>8. lc.fence > 0
  BY <1>7 DEF Leased
<1> DEFINE a == AtWorld(lc)
<1>9. /\ a \in Lifecycle /\ a.seq = world /\ a.last = lc.last
      /\ a.fence = lc.fence /\ a.head = lc.head /\ a.next = lc.next /\ a.ack = lc.ack
      /\ a.pending = lc.pending
  <2>1. world \in 0 .. Len(journal)
    BY <1>5
  <2> QED
    BY <1>5, <1>7, <2>1, AtWorldFields
<1>10. m = [a EXCEPT !.mode = "Sleeping", !.renewed = NoTime, !.expires = NoTime,
                     !.cutoff = NoTime, !.lastTrusted = Now]
  BY <1>5
<1> HIDE DEF a, m
<1>11. "Sleeping" \in Modes \cup {"Missing"}
  BY DEF Modes
<1>12. /\ m \in Lifecycle /\ m.mode = "Sleeping" /\ m.renewed = NoTime /\ m.expires = NoTime
       /\ m.cutoff = NoTime /\ m.lastTrusted = Now /\ m.seq = a.seq /\ m.last = a.last
       /\ m.fence = a.fence /\ m.head = a.head /\ m.next = a.next /\ m.ack = a.ack
       /\ m.pending = a.pending
  BY <1>7, <1>9, <1>10, <1>11 DEF Lifecycle
<1>13. Leased(m)
  BY <1>7, <1>8, <1>9, <1>12 DEF Leased
<1>14. Asleep(m, journal, bnd, snap)
  BY <1>5, <1>6, <1>9, <1>12 DEF Asleep
<1>15. Committed(journal, Len(journal)) \in Nat
  BY <1>5, QuantaFinite
<1>16. m.ack <= Committed(journal, Len(journal)) /\ m.seq = Len(journal)
       /\ m.last = (IF Len(journal) = 0 THEN NoEvent ELSE journal[Len(journal)])
       /\ m.fence = lc.fence /\ m.head = bnd /\ m.pending = NoPending /\ m.next = ImpliedNext(journal)
  BY <1>5, <1>9, <1>12, <1>15
<1>17. Files(m, journal, bnd, snap)
  BY <1>5, <1>12, <1>13, <1>14, <1>16, FilesSettled
<1>18. FilesInv'
  BY <1>1, <1>5, <1>17, LinesUnchanged DEF FilesInv
<1>19. clock' \in 1 .. MaxTime
  BY <1>1, <1>7
<1> QED
  BY <1>1, <1>18, <1>19, Stops

(* A runtime between operations.                                           *)
LEMMA IdleFacts ==
    ASSUME StoreInv, host \in Live, todo = <<>>
    PROVE  /\ ~Opening /\ ~Committing /\ ~HeadIs("acknowledge")
           /\ mem = lc /\ journal = Lines /\ bnd = Boundaries
           /\ Files(lc, journal, bnd, snap) /\ Keeps(lc, lc)
           /\ trusted \in 0 .. MaxTime /\ lc.lastTrusted <= trusted
           /\ lc.mode \notin {"Missing", "Sleeping"}
           /\ lc.next = ImpliedNext(journal) /\ History(journal) /\ world = Len(journal)
<1>1. ~Opening /\ ~Committing /\ ~HeadIs("acknowledge")
  BY NothingLeft
<1>2. /\ mem = lc /\ journal = Lines /\ bnd = Boundaries /\ Files(lc, journal, bnd, snap)
      /\ lc.next = ImpliedNext(journal) /\ History(journal) /\ world = Len(journal)
  BY <1>1, RestFacts
<1>3. lc.fence \in Nat
  BY <1>2, FenceIsRecorded
<1>4. Keeps(lc, lc)
  BY <1>3 DEF Keeps
<1>5. trusted \in 0 .. MaxTime /\ lc.lastTrusted <= trusted /\ lc.mode \notin {"Missing", "Sleeping"}
  BY DEF StoreInv, MemoryInv
<1> QED
  BY <1>1, <1>2, <1>4, <1>5

(* What save_snapshot is followed by.                                      *)
LEMMA SavedThen ==
    ASSUME NEW s \in {"restore", "sleep", "background", "publish"}
    PROVE  /\ <<"snapshot", "frontier", s>> \in Seq(Steps)
           /\ Len(<<"snapshot", "frontier", s>>) = 3
           /\ <<"snapshot", "frontier", s>>[1] = "snapshot"
           /\ \A kind : Ordered(<<"snapshot", "frontier", s>>, kind)
           /\ \A x : Has(<<"snapshot", "frontier", s>>, x) => x \in {"snapshot", "frontier", s}
<1> DEFINE r == <<"snapshot", "frontier", s>>
<1>1. r \in Seq(Steps) /\ Len(r) = 3 /\ r[1] = "snapshot" /\ r[2] = "frontier" /\ r[3] = s
  <2>1. {"snapshot", "frontier", s} \subseteq Steps
    BY DEF Steps
  <2>2. r \in Seq(Steps)
    BY <2>1
  <2> QED
    BY <2>2
<1> HIDE DEF r
<1>2. ASSUME NEW kind
      PROVE  /\ Ordered(r, kind)
             /\ \A x : Has(r, x) => x \in {"snapshot", "frontier", s}
  <2> DEFINE u == <<s>>
  <2>1. /\ Ordered(u, kind) /\ u[1] = s /\ Len(u) = 1 /\ \A x : Has(u, x) => x = s
    BY LastStep
  <2> HIDE DEF u
  <2>2. Len(r) = Len(u) + 2 /\ \A i \in 1 .. Len(u) : r[i + 2] = u[i]
    BY <1>1, <2>1
  <2>3. /\ Ordered(r, kind)
        /\ \A x : Has(r, x) => x \in {"snapshot", "frontier"} \/ Has(u, x)
    BY <1>1, <2>1, <2>2, SavedFirst
  <2> QED
    BY <2>1, <2>3
<1>3. \A kind : Ordered(r, kind)
  BY <1>2
<1>4. \A x : Has(r, x) => x \in {"snapshot", "frontier", s}
  BY <1>2
<1> QED
  BY <1>1, <1>3, <1>4 DEF r

(* A step that starts with a save.                                         *)
LEMMA SaveStarts ==
    ASSUME todo' # <<>>, todo'[1] = "snapshot"
    PROVE  HeadIs("snapshot")' /\ ~HeadIs("frontier")' /\ ~HeadIs("sleep")' /\ ~Opening' /\ ~Committing'
BY DEF HeadIs, Opening, Committing

(* A background cell with nothing scheduled has nothing to run             *)
(* (background_dispatch_step).                                             *)
LEMMA SleepWhenIdleKeeps ==
    ASSUME StoreInv, SleepWhenIdle
    PROVE  StoreInv'
<1> DEFINE r == <<"snapshot", "frontier", "sleep">>
<1>1. /\ host = "up" /\ todo = <<>> /\ mem.next = NoOccurrence /\ todo' = r
      /\ lc' = lc /\ journal' = journal /\ bnd' = bnd /\ snap' = snap /\ clock' = clock
      /\ host' = host /\ mem' = mem /\ world' = world /\ trusted' = trusted
      /\ recovered' = recovered /\ host \in Live
  BY DEF SleepWhenIdle, Idle, disk, Live
<1>2. /\ ~Opening /\ ~Committing /\ ~HeadIs("acknowledge") /\ mem = lc
      /\ Files(lc, journal, bnd, snap) /\ Keeps(lc, lc)
      /\ trusted \in 0 .. MaxTime /\ lc.lastTrusted <= trusted
      /\ lc.mode \notin {"Missing", "Sleeping"}
      /\ lc.next = ImpliedNext(journal) /\ History(journal) /\ world = Len(journal)
  BY <1>1, IdleFacts
<1>3. ~Runnable(journal, world)
  BY <1>1, <1>2, ImpliedNextType
<1>4. /\ r \in Seq(Steps) /\ Len(r) = 3 /\ r[1] = "snapshot"
      /\ \A kind : Ordered(r, kind)
      /\ \A x : Has(r, x) => x \in {"snapshot", "frontier", "sleep"}
  BY SavedThen
<1> HIDE DEF r
<1>5. r # <<>>
  BY <1>4
<1>6. HeadIs("snapshot")' /\ ~HeadIs("frontier")' /\ ~HeadIs("sleep")' /\ ~Opening' /\ ~Committing'
  BY <1>1, <1>4, <1>5, SaveStarts
<1>7. EndsInv'
  BY <1>1, <1>3, <1>4, <1>6 DEF EndsInv
<1> QED
  BY <1>1, <1>2, <1>4, <1>6, <1>7, RestKeeps

(* activation_step with nothing left to catch up: no occurrence is due by  *)
(* the cut-off.                                                            *)
LEMMA FinishActivationKeeps ==
    ASSUME StoreInv, FinishActivation
    PROVE  StoreInv'
<1> DEFINE r == <<"snapshot", "frontier", "publish">>
<1>1. /\ host = "up" /\ todo = <<>> /\ mem.mode = "Activating" /\ CaughtUp /\ todo' = r
      /\ lc' = lc /\ journal' = journal /\ bnd' = bnd /\ snap' = snap /\ clock' = clock
      /\ host' = host /\ mem' = mem /\ world' = world /\ trusted' = trusted
      /\ recovered' = recovered /\ host \in Live
  BY DEF FinishActivation, Idle, disk, Live
<1>2. /\ ~Opening /\ ~Committing /\ ~HeadIs("acknowledge") /\ mem = lc
      /\ Files(lc, journal, bnd, snap) /\ Keeps(lc, lc)
      /\ trusted \in 0 .. MaxTime /\ lc.lastTrusted <= trusted
      /\ lc.mode \notin {"Missing", "Sleeping"}
  BY <1>1, IdleFacts
<1>3. lc \in Lifecycle
  BY <1>2 DEF Files
<1>4. lc.next \in OccurrenceOrNone /\ lc.cutoff \in Times
  BY <1>3, RecordTyped
<1>5. lc.next.at \in Int /\ lc.cutoff \in Int
  BY <1>4, StoreAssumption DEF OccurrenceOrNone, Occurrence, NoOccurrence, Times, NoTime
<1>6. lc.next = NoOccurrence \/ lc.next.at > lc.cutoff
  BY <1>1, <1>2, <1>5 DEF CaughtUp, ProductionDue, DueBy
<1>7. /\ r \in Seq(Steps) /\ Len(r) = 3 /\ r[1] = "snapshot"
      /\ \A kind : Ordered(r, kind)
      /\ \A x : Has(r, x) => x \in {"snapshot", "frontier", "publish"}
  BY SavedThen
<1> HIDE DEF r
<1>8. r # <<>>
  BY <1>7
<1>9. HeadIs("snapshot")' /\ ~HeadIs("frontier")' /\ ~HeadIs("sleep")' /\ ~Opening' /\ ~Committing'
  BY <1>1, <1>7, <1>8, SaveStarts
<1>10. EndsInv'
  BY <1>1, <1>2, <1>6, <1>7, <1>9 DEF EndsInv
<1> QED
  BY <1>1, <1>2, <1>7, <1>9, <1>10, RestKeeps

(* A player wants the background cell: no step is left by it.              *)
LEMMA WakeBackgroundKeeps ==
    ASSUME StoreInv, WakeBackground
    PROVE  StoreInv'
<1> DEFINE to == "Activating"
           c == Now
<1>1. /\ host = "up" /\ todo = <<>> /\ LeaseHeld
      /\ Persist([AtWorld(Renewed) EXCEPT !.mode = to, !.cutoff = c])
      /\ journal' = journal /\ bnd' = bnd /\ snap' = snap /\ clock' = clock
      /\ host' = host /\ todo' = todo /\ world' = world /\ recovered' = recovered
      /\ host \in Live
  BY DEF WakeBackground, Idle, Transition, Live
<1>2. to \in {"Background", "Draining", "Active", "Activating"}
      /\ c = (IF to = "Activating" THEN Now ELSE NoTime)
  OBVIOUS
<1> HIDE DEF to, c
<1>3. ~Opening /\ ~Committing /\ ~HeadIs("acknowledge")
  BY <1>1, IdleFacts
<1>4. /\ Files(lc', journal, bnd, snap) /\ Keeps(lc, lc') /\ lc'.fence = lc.fence
      /\ lc'.mode \notin {"Missing", "Sleeping"}
      /\ mem' = lc' /\ trusted' \in 0 .. MaxTime /\ lc'.lastTrusted <= trusted'
  BY <1>1, <1>2, <1>3, Transited
<1>5. /\ \A kind : Ordered(todo', kind)
      /\ ~Opening' /\ ~Committing' /\ ~HeadIs("frontier")' /\ ~HeadIs("sleep")' /\ EndsInv'
  <2>1. todo' = <<>>
    BY <1>1
  <2>2. /\ \A kind : Ordered(<<>>, kind)
        /\ Len(<<>>) = 0 /\ \A x : ~Has(<<>>, x)
    BY LastStep
  <2> QED
    BY <2>1, <2>2 DEF EndsInv, Opening, Committing, HeadIs
<1> QED
  BY <1>1, <1>3, <1>4, <1>5, RestKeeps

(* drain_to_background_or_sleeping: which of the two is decided by whether *)
(* production is runnable.                                                 *)
LEMMA DrainKeeps ==
    ASSUME StoreInv, Drain
    PROVE  StoreInv'
<1> DEFINE to == "Draining"
           c == NoTime
           u == IF Runnable(journal, world) THEN <<"background">>
                ELSE <<"snapshot", "frontier", "sleep">>
           r == <<"snapshot", "frontier">> \o u
<1>1. /\ host = "up" /\ todo = <<>> /\ LeaseHeld
      /\ Persist([AtWorld(Renewed) EXCEPT !.mode = to, !.cutoff = c])
      /\ journal' = journal /\ bnd' = bnd /\ snap' = snap /\ clock' = clock
      /\ host' = host /\ world' = world /\ recovered' = recovered
      /\ host \in Live /\ todo' = r
  BY DEF Drain, Idle, Transition, Live, DrainSteps
<1>2. to \in {"Background", "Draining", "Active", "Activating"}
      /\ c = (IF to = "Activating" THEN Now ELSE NoTime)
  OBVIOUS
<1> HIDE DEF to, c
<1>3. ~Opening /\ ~Committing /\ ~HeadIs("acknowledge")
  BY <1>1, IdleFacts
<1>4. /\ Files(lc', journal, bnd, snap) /\ Keeps(lc, lc') /\ lc'.fence = lc.fence
      /\ lc'.mode \notin {"Missing", "Sleeping"}
      /\ mem' = lc' /\ trusted' \in 0 .. MaxTime /\ lc'.lastTrusted <= trusted'
  BY <1>1, <1>2, <1>3, Transited
<1>5. /\ \A kind : Ordered(u, kind)
      /\ u \in Seq(Steps) /\ u # <<>>
      /\ u[1] \in {"snapshot", "restore", "sleep", "background", "publish"}
      /\ \A x : Has(u, x) => IF Runnable(journal, world) THEN x = "background"
                                ELSE x \in {"snapshot", "frontier", "sleep"}
  <2>1. CASE Runnable(journal, world)
    <3> DEFINE v == <<"background">>
    <3>1. \A kind : Ordered(v, kind)
      BY LastStep
    <3>2. v \in Seq(Steps) /\ v # <<>> /\ v[1] = "background" /\ \A x : Has(v, x) => x = "background"
      BY LastStep
    <3>3. u = v
      BY <2>1
    <3> HIDE DEF u, v
    <3> QED
      BY <2>1, <3>1, <3>2, <3>3
  <2>2. CASE ~Runnable(journal, world)
    <3> DEFINE v == <<"snapshot", "frontier", "sleep">>
    <3>1. /\ v \in Seq(Steps) /\ Len(v) = 3 /\ v[1] = "snapshot"
          /\ \A kind : Ordered(v, kind)
          /\ \A x : Has(v, x) => x \in {"snapshot", "frontier", "sleep"}
      BY SavedThen
    <3>2. u = v
      BY <2>2
    <3> HIDE DEF u, v
    <3>3. v # <<>>
      BY <3>1
    <3> QED
      BY <2>2, <3>1, <3>2, <3>3
  <2> QED
    BY <2>1, <2>2
<1> HIDE DEF u
<1>6. /\ r \in Seq(Steps) /\ Len(r) = Len(u) + 2 /\ r[1] = "snapshot" /\ r[2] = "frontier"
      /\ \A i \in 1 .. Len(u) : r[i + 2] = u[i]
  <2>1. "snapshot" \in Steps /\ "frontier" \in Steps
    BY DEF Steps
  <2>2. r \in Seq(Steps) /\ Len(r) = Len(u) + 2 /\ r[1] = "snapshot" /\ r[2] = "frontier"
    BY <1>5, <2>1
  <2>3. ASSUME NEW i \in 1 .. Len(u) PROVE (<<"snapshot", "frontier">> \o u)[i + 2] = u[i]
    BY <1>5, <2>1
  <2> QED
    BY <2>2, <2>3
<1> HIDE DEF r
<1>7. ASSUME NEW kind
      PROVE  /\ Ordered(r, kind) /\ r # <<>>
             /\ \A x : Has(r, x) => x \in {"snapshot", "frontier"} \/ Has(u, x)
  <2>1. Ordered(u, kind)
    BY <1>5
  <2> QED
    BY <1>5, <1>6, <2>1, SavedFirst
<1>8. /\ todo' # <<>> /\ todo'[1] = "snapshot" /\ \A kind : Ordered(todo', kind)
  BY <1>1, <1>6, <1>7
<1>9. HeadIs("snapshot")' /\ ~HeadIs("frontier")' /\ ~HeadIs("sleep")' /\ ~Opening' /\ ~Committing'
  BY <1>8, SaveStarts
<1>10. EndsInv'
  <2>0. \A x : Has(r, x) => x \in {"snapshot", "frontier"} \/ Has(u, x)
    BY <1>7
  <2>1. ~Has(r, "publish")
    BY <1>5, <2>0
  <2>2. Has(r, "sleep") => ~Runnable(journal, world)
    <3>1. Has(u, "sleep") => ~Runnable(journal, world)
      BY <1>5
    <3> QED
      BY <2>0, <3>1
  <2>3. todo' = r /\ journal' = journal /\ world' = world
    BY <1>1
  <2>4. ~Has(todo', "publish")
    BY <2>1, <2>3
  <2>5. Has(todo', "sleep") => ~Runnable(journal', world')
    BY <2>2, <2>3
  <2> QED
    BY <1>9, <2>4, <2>5 DEF EndsInv
<1> QED
  BY <1>1, <1>3, <1>4, <1>8, <1>9, <1>10, RestKeeps

(* The lease is renewed between operations, or while the world loads       *)
(* (renew_lease, the lease maintainer).                                    *)
LEMMA RenewLeaseKeeps ==
    ASSUME StoreInv, RenewLease
    PROVE  StoreInv'
<1>1. /\ host \in Live /\ (todo # <<>> => Head(todo) = "load") /\ LeaseHeld
      /\ lc' = Renewed /\ mem' = lc' /\ trusted' = Now
      /\ clock' = clock /\ journal' = journal /\ bnd' = bnd /\ snap' = snap
      /\ host' = host /\ todo' = todo /\ world' = world /\ recovered' = recovered
  BY DEF RenewLease
<1>2. /\ mem = lc /\ Runs(lc', Now) /\ Keeps(lc, lc') /\ lc'.fence = lc.fence
      /\ lc'.mode = lc.mode /\ lc'.cutoff = lc.cutoff /\ lc'.lastTrusted <= Now
      /\ Files(lc', Lines, Boundaries, snap)
  BY <1>1, RenewedFacts
<1>3. /\ Now \in 0 .. MaxTime /\ Ordered(todo, lc.pending.event.kind)
      /\ lc'.mode \notin {"Missing", "Sleeping"}
      /\ lc'.pending = lc.pending /\ lc'.next = lc.next /\ lc'.head = lc.head
  <2>1. Now \in 1 .. MaxTime /\ Ordered(todo, lc.pending.event.kind)
    BY <1>1, LiveFacts
  <2> QED
    BY <1>2, <2>1 DEF Runs, Keeps
<1>4. CASE todo = <<>>
  <2>1. /\ ~Opening /\ ~Committing /\ ~HeadIs("acknowledge") /\ journal = Lines /\ bnd = Boundaries
    BY <1>1, <1>4, IdleFacts
  <2>2. /\ \A kind : Ordered(todo', kind)
        /\ ~Opening' /\ ~Committing' /\ ~HeadIs("frontier")' /\ ~HeadIs("sleep")' /\ EndsInv'
    <3>1. todo' = <<>>
      BY <1>1, <1>4
    <3>2. /\ \A kind : Ordered(<<>>, kind)
          /\ Len(<<>>) = 0 /\ \A x : ~Has(<<>>, x)
      BY LastStep
    <3> QED
      BY <3>1, <3>2 DEF EndsInv, Opening, Committing, HeadIs
  <2> QED
    BY <1>1, <1>2, <1>3, <2>1, <2>2, RestKeeps
<1>5. CASE todo # <<>>
  <2>1. todo[1] = "load" /\ HeadIs("load")
    BY <1>1, <1>3, <1>5, QueueTail DEF Ordered, HeadIs
  <2>2. Opening /\ ~Committing /\ ~HeadIs("commit") /\ ~HeadIs("reconcile")
    BY <2>1 DEF Opening, Committing, HeadIs
  <2>3. OpeningInv /\ EndsInv
    BY <1>1, <2>2 DEF StoreInv, StepsInv
  <2>4. /\ HeadIs("load")' /\ Opening' /\ ~Committing' /\ ~HeadIs("commit")' /\ ~HeadIs("reconcile")'
        /\ ~HeadIs("boundaries")'
    BY <1>1, <2>1 DEF Opening, Committing, HeadIs
  <2>5. Lines' = Lines /\ Boundaries' = Boundaries
    BY <1>1, LinesUnchanged
  <2>6. FilesInv'
    BY <1>1, <1>2, <1>3, <2>5 DEF FilesInv
  <2>7. MemoryInv'
    BY <1>1, <1>2, <1>3, <2>4, <2>5, MemoryAfter
  <2>8. OpeningInv'
    BY <1>1, <1>3, <2>1, <2>2, <2>3, <2>4, <2>5 DEF OpeningInv, HeadIs
  <2>9. EndsInv'
    BY <1>1, <1>2, <1>3, <2>3 DEF EndsInv, HeadIs
  <2>10. StepsInv'
    BY <1>1, <1>3, <2>4, <2>8, <2>9 DEF StepsInv
  <2> QED
    BY <2>6, <2>7, <2>10 DEF StoreInv
<1> QED
  BY <1>4, <1>5

-----------------------------------------------------------------------------
(***************************************************************************)
(* Commits.                                                                *)
(***************************************************************************)
(* The steps of a commit are in order: the boundary of a transfer before   *)
(* the record, the acknowledgement of a quantum after it.                  *)
LEMMA CommitOrdered ==
    ASSUME NEW kind, NEW t \in Seq(Steps), NEW x \in {0, 1}, NEW y \in {0, 1}, NEW z \in {0, 2},
           x = 1 <=> kind = "transfer", y = 1 <=> kind = "quantum",
           Len(t) = x + y + z + 2, t[1] = "append",
           x = 1 => t[2] = "boundary", t[x + 2] = "commit",
           y = 1 => t[x + 3] = "acknowledge",
           z = 2 => t[x + y + 3] = "snapshot" /\ t[x + y + 4] = "frontier"
    PROVE  Ordered(t, kind) /\ ~Has(t, "sleep") /\ ~Has(t, "publish")
<1>1. ASSUME NEW i \in 1 .. Len(t)
      PROVE  \/ i = 1
             \/ i = 2 /\ x = 1
             \/ i = x + 2
             \/ i = x + 3 /\ y = 1
             \/ i = x + y + 3 /\ z = 2
             \/ i = x + y + 4 /\ z = 2
  OBVIOUS
<1>2. ASSUME NEW i \in 1 .. Len(t)
      PROVE  Onward(t, i, kind) /\ t[i] \notin {"sleep", "publish"} /\ (i # 1 => After(t, i))
  <2>1. CASE i = 1
    BY <2>1 DEF Onward, Follows, After
  <2>2. CASE i = 2 /\ x = 1
    BY <2>2 DEF Onward, Follows, After
  <2>3. CASE i = x + 2
    <3>1. i + 1 = x + 3 /\ (x = 0 => i - 1 = 1) /\ (x = 1 => i - 1 = 2) /\ i \in Nat
      BY <2>3
    <3>2. x = 0 => t[i - 1] = "append"
      BY <3>1
    <3>3. x = 1 => t[i - 1] = "boundary"
      BY <3>1
    <3>4. kind = "quantum" => Follows(t, i, "acknowledge")
      BY <3>1 DEF Follows
    <3> QED
      BY <2>3, <3>2, <3>3, <3>4 DEF Onward, After
  <2>4. CASE i = x + 3 /\ y = 1
    <3>1. i - 1 = x + 2
      BY <2>4
    <3>2. t[i] = "acknowledge" /\ t[i - 1] = "commit"
      BY <2>4, <3>1
    <3> QED
      BY <3>2 DEF Onward, After
  <2>5. CASE i = x + y + 3 /\ z = 2
    <3>1. i + 1 = x + y + 4 /\ i + 1 <= Len(t)
      BY <2>5
    <3>2. t[i] = "snapshot" /\ Follows(t, i, "frontier")
      BY <2>5, <3>1 DEF Follows
    <3> QED
      BY <3>2 DEF Onward, After
  <2>6. CASE i = x + y + 4 /\ z = 2
    <3>1. i - 1 = x + y + 3
      BY <2>6
    <3>2. t[i] = "frontier" /\ t[i - 1] = "snapshot"
      BY <2>6, <3>1
    <3> QED
      BY <3>2 DEF Onward, After
  <2> QED
    BY <1>1, <2>1, <2>2, <2>3, <2>4, <2>5, <2>6
<1>3. \A i \in 2 .. Len(t) : i \in 1 .. Len(t) /\ i # 1
  OBVIOUS
<1>4. \A i \in 2 .. Len(t) : After(t, i)
  BY <1>2, <1>3
<1> QED
  BY <1>2, <1>4 DEF Ordered, Has

(* And they are the steps a commit leaves.                                 *)
StagedQueue(kind, then) ==
    <<"append">>
    \o (IF kind = "transfer" THEN <<"boundary">> ELSE <<>>)
    \o <<"commit">>
    \o (IF kind = "quantum" THEN <<"acknowledge">> ELSE <<>>)
    \o then

(* A commit ends with its own steps (commit_world_event, after_event).     *)
LEMMA StagedSteps ==
    ASSUME NEW kind, NEW then \in AfterEvent
    PROVE  /\ Ordered(StagedQueue(kind, then), kind)
           /\ ~Has(StagedQueue(kind, then), "sleep") /\ ~Has(StagedQueue(kind, then), "publish")
           /\ StagedQueue(kind, then) # <<>> /\ StagedQueue(kind, then)[1] = "append"
<1> DEFINE a == <<"append">>
           b == IF kind = "transfer" THEN <<"boundary">> ELSE <<>>
           c == <<"commit">>
           d == IF kind = "quantum" THEN <<"acknowledge">> ELSE <<>>
           q1 == a \o b
           q2 == q1 \o c
           q3 == q2 \o d
           q4 == q3 \o then
           x == Len(b)
           y == Len(d)
           z == Len(then)
<1>1. ASSUME NEW s \in Steps
      PROVE <<s>> \in Seq(Steps) /\ Len(<<s>>) = 1 /\ <<s>>[1] = s
  OBVIOUS
<1>2. <<>> \in Seq(Steps) /\ Len(<<>>) = 0
  OBVIOUS
<1>3. {"append", "boundary", "commit", "acknowledge"} \subseteq Steps
  BY DEF Steps
<1>4. a \in Seq(Steps) /\ Len(a) = 1 /\ a[1] = "append"
  BY <1>1, <1>3
<1>5. c \in Seq(Steps) /\ Len(c) = 1 /\ c[1] = "commit"
  BY <1>1, <1>3
<1>6. b \in Seq(Steps) /\ x \in {0, 1} /\ (x = 1 <=> kind = "transfer") /\ (x = 1 => b[1] = "boundary")
  <2>1. CASE kind = "transfer"
    BY <1>1, <1>3, <2>1
  <2>2. CASE kind # "transfer"
    BY <1>2, <2>2
  <2> QED
    BY <2>1, <2>2
<1>7. d \in Seq(Steps) /\ y \in {0, 1} /\ (y = 1 <=> kind = "quantum") /\ (y = 1 => d[1] = "acknowledge")
  <2>1. CASE kind = "quantum"
    BY <1>1, <1>3, <2>1
  <2>2. CASE kind # "quantum"
    BY <1>2, <2>2
  <2> QED
    BY <2>1, <2>2
<1>8. then \in Seq(Steps) /\ z \in {0, 2} /\ (z = 2 => then[1] = "snapshot" /\ then[2] = "frontier")
  <2>1. {"snapshot", "frontier"} \subseteq Steps
    BY DEF Steps
  <2>2. CASE then = <<>>
    BY <1>2, <2>2
  <2>3. CASE then = <<"snapshot", "frontier">>
    <3>1. <<"snapshot", "frontier">> \in Seq(Steps)
      BY <2>1
    <3> QED
      BY <2>3, <3>1
  <2> QED
    BY <2>2, <2>3 DEF AfterEvent
<1>9. StagedQueue(kind, then) = q4
  BY DEF StagedQueue
<1> HIDE DEF a, b, c, d
<1>10. ASSUME NEW p \in Seq(Steps), NEW q \in Seq(Steps)
       PROVE  /\ p \o q \in Seq(Steps) /\ Len(p \o q) = Len(p) + Len(q)
              /\ \A i \in 1 .. Len(p) : (p \o q)[i] = p[i]
              /\ \A i \in 1 .. Len(q) : (p \o q)[Len(p) + i] = q[i]
  BY Joined
<1>11. /\ q1 \in Seq(Steps) /\ Len(q1) = Len(a) + x
       /\ \A i \in 1 .. Len(a) : q1[i] = a[i]
       /\ \A i \in 1 .. x : q1[Len(a) + i] = b[i]
  BY <1>4, <1>6, <1>10
<1> HIDE DEF q1
<1>12. /\ q2 \in Seq(Steps) /\ Len(q2) = Len(q1) + Len(c)
       /\ \A i \in 1 .. Len(q1) : q2[i] = q1[i]
       /\ \A i \in 1 .. Len(c) : q2[Len(q1) + i] = c[i]
  BY <1>5, <1>11, <1>10
<1> HIDE DEF q2
<1>13. /\ q3 \in Seq(Steps) /\ Len(q3) = Len(q2) + y
       /\ \A i \in 1 .. Len(q2) : q3[i] = q2[i]
       /\ \A i \in 1 .. y : q3[Len(q2) + i] = d[i]
  BY <1>7, <1>12, <1>10
<1> HIDE DEF q3
<1>14. /\ q4 \in Seq(Steps) /\ Len(q4) = Len(q3) + z
       /\ \A i \in 1 .. Len(q3) : q4[i] = q3[i]
       /\ \A i \in 1 .. z : q4[Len(q3) + i] = then[i]
  BY <1>8, <1>13, <1>10
<1> HIDE DEF q4, x, y, z
<1>15. Len(q1) = x + 1 /\ q1[1] = "append" /\ (x = 1 => q1[2] = "boundary")
  BY <1>4, <1>6, <1>11
<1>16. Len(q2) = x + 2 /\ q2[1] = "append" /\ (x = 1 => q2[2] = "boundary") /\ q2[x + 2] = "commit"
  <2>1. Len(q2) = x + 2 /\ q2[1] = "append" /\ (x = 1 => q2[2] = "boundary")
    BY <1>5, <1>6, <1>12, <1>15
  <2>2. q2[Len(q1) + 1] = "commit" /\ Len(q1) + 1 = x + 2
    BY <1>5, <1>6, <1>12, <1>15
  <2> QED
    BY <2>1, <2>2
<1>17. /\ Len(q3) = x + y + 2 /\ q3[1] = "append" /\ (x = 1 => q3[2] = "boundary")
       /\ q3[x + 2] = "commit" /\ (y = 1 => q3[x + 3] = "acknowledge")
  <2>1. Len(q3) = x + y + 2
    BY <1>6, <1>7, <1>13, <1>16
  <2>2. q3[1] = "append" /\ (x = 1 => q3[2] = "boundary") /\ q3[x + 2] = "commit"
    BY <1>6, <1>13, <1>16
  <2>3. y = 1 => q3[Len(q2) + 1] = "acknowledge" /\ Len(q2) + 1 = x + 3
    BY <1>6, <1>7, <1>13, <1>16
  <2> QED
    BY <2>1, <2>2, <2>3
<1>18. /\ Len(q4) = x + y + z + 2 /\ q4[1] = "append" /\ (x = 1 => q4[2] = "boundary")
       /\ q4[x + 2] = "commit" /\ (y = 1 => q4[x + 3] = "acknowledge")
       /\ (z = 2 => q4[x + y + 3] = "snapshot" /\ q4[x + y + 4] = "frontier")
  <2>1. Len(q4) = x + y + z + 2
    BY <1>6, <1>7, <1>8, <1>14, <1>17
  <2>2. q4[1] = "append" /\ (x = 1 => q4[2] = "boundary") /\ q4[x + 2] = "commit"
    BY <1>6, <1>7, <1>14, <1>17
  <2>3. y = 1 => q4[x + 3] = "acknowledge"
    BY <1>6, <1>7, <1>14, <1>17
  <2>4. z = 2 => /\ q4[Len(q3) + 1] = "snapshot" /\ Len(q3) + 1 = x + y + 3
                 /\ q4[Len(q3) + 2] = "frontier" /\ Len(q3) + 2 = x + y + 4
    BY <1>6, <1>7, <1>8, <1>14, <1>17
  <2> QED
    BY <2>1, <2>2, <2>3, <2>4
<1>19. Ordered(q4, kind) /\ ~Has(q4, "sleep") /\ ~Has(q4, "publish")
  BY <1>6, <1>7, <1>8, <1>14, <1>18, CommitOrdered
<1>20. q4 # <<>>
  <2>1. Len(q4) # 0
    BY <1>6, <1>7, <1>8, <1>18
  <2> QED
    BY <2>1
<1> QED
  BY <1>9, <1>18, <1>19, <1>20

(* The schedule staged with an event is an occurrence or none.             *)
LEMMA ResultingNextType ==
    ASSUME NEW j, NEW e \in Event, History(j), e.at <= MaxTime
    PROVE  ResultingNext(j, Len(j), e, ImpliedNext(j)) \in OccurrenceOrNone
<1> DEFINE a == Append(j, e)
           n == Len(j)
<1>1. j \in Seq(Event) /\ n \in Nat
  BY DEF History
<1>2. SubSeq(j, 1, n) = j
  BY <1>1
<1>3. Committed(a, n + 1) \in Nat
  BY <1>1, QuantaFinite
<1>4. e.at \in 0 .. MaxTime
  BY StoreAssumption DEF Event, Times
<1>5. LastScheduled(a, n + 1) \in 0 .. MaxTime
  <2>1. /\ e.kind = "quantum" => LastScheduled(a, n + 1) = e.at
        /\ e.kind # "quantum" => LastScheduled(a, n + 1) = LastScheduled(j, n)
        /\ LastScheduled(j, n) \in 0 .. MaxTime
    BY <1>1, LastScheduledOfAppend
  <2> QED
    BY <1>4, <2>1
<1> DEFINE R == ResultingNext(j, n, e, ImpliedNext(j))
           c == Committed(a, n + 1) + 1
           s == Larger(e.at, LastScheduled(a, n + 1)) + Quantum
<1>6. R \in {NoOccurrence, ImpliedNext(j), [seq |-> c, at |-> e.at + Quantum], [seq |-> c, at |-> s]}
  <2>1. R = IF ~e.runnable THEN NoOccurrence
            ELSE IF e.kind = "quantum" THEN [seq |-> Committed(a, n + 1) + 1, at |-> e.at + Quantum]
            ELSE IF Runnable(j, n) THEN ImpliedNext(j)
            ELSE [seq |-> Committed(a, n + 1) + 1,
                  at |-> Larger(e.at, LastScheduled(a, n + 1)) + Quantum]
    BY <1>2 DEF ResultingNext
  <2> HIDE DEF R
  <2> QED
    BY <2>1
<1>7. e.at + Quantum \in Times /\ s \in Times /\ c \in Nat
  <2>1. ASSUME NEW x \in 0 .. MaxTime, NEW y \in 0 .. MaxTime
        PROVE  x + Quantum \in Times /\ Larger(x, y) + Quantum \in Times
    BY StoreAssumption DEF Larger, Times
  <2>2. s \in Times
    BY <1>4, <1>5, <2>1
  <2>3. e.at + Quantum \in Times
    BY <1>4, <2>1
  <2>4. c \in Nat
    BY <1>3
  <2> QED
    BY <2>2, <2>3, <2>4
<1> HIDE DEF c, s, R
<1>8. [seq |-> c, at |-> e.at + Quantum] \in Occurrence /\ [seq |-> c, at |-> s] \in Occurrence
  BY <1>7 DEF Occurrence
<1>9. ImpliedNext(j) \in OccurrenceOrNone
  BY ImpliedNextType
<1>10. R \in OccurrenceOrNone
  BY <1>6, <1>8, <1>9 DEF OccurrenceOrNone
<1> QED
  BY <1>10 DEF R

(* commit_world_event's first write: what is pending, and the schedule on  *)
(* either side of it.                                                      *)
LEMMA StageKeeps ==
    ASSUME StoreInv, host = "up", todo = <<>>,
           NEW e \in Event, e.fence = mem.fence, e.at <= MaxTime, Stage(e)
    PROVE  StoreInv'
<1> DEFINE p == [seq |-> world + 1, event |-> e, prior |-> mem.next,
                 result |-> ResultingNext(journal, world, e, mem.next)]
           l == [Renewed EXCEPT !.pending = p]
<1>1. /\ LeaseHeld /\ Persist(l)
      /\ clock' = clock /\ journal' = journal /\ bnd' = bnd /\ snap' = snap
      /\ host' = host /\ world' = world /\ recovered' = recovered /\ host \in Live
  BY DEF Stage, Live
<1>2. /\ Ordered(todo', e.kind) /\ ~Has(todo', "sleep") /\ ~Has(todo', "publish")
      /\ todo' # <<>> /\ todo'[1] = "append"
  <2>1. PICK then \in AfterEvent : todo' = StagedQueue(e.kind, then)
    BY DEF Stage, StagedQueue
  <2> QED
    BY <2>1, StagedSteps
<1>3. /\ ~Opening /\ ~Committing /\ ~HeadIs("acknowledge") /\ mem = lc
      /\ journal = Lines /\ bnd = Boundaries /\ Files(lc, journal, bnd, snap)
      /\ lc.next = ImpliedNext(journal) /\ History(journal) /\ world = Len(journal)
  BY <1>1, IdleFacts
<1>4. /\ world = lc.seq /\ lc.pending = NoPending /\ lc.head = bnd
      /\ lc.ack = Committed(journal, world)
  BY <1>1, <1>3, RestFacts DEF Served, RestInv
<1>5. /\ Runs(Renewed, Now) /\ Keeps(lc, Renewed) /\ Renewed.fence = lc.fence
      /\ Files(Renewed, journal, bnd, snap)
  BY <1>1, <1>3, RenewedFacts
<1>6. journal \in Seq(Event) /\ Len(journal) \in Nat /\ world \in Nat
  BY <1>3 DEF History
<1>7. ImpliedNext(journal) \in OccurrenceOrNone /\ p.result \in OccurrenceOrNone
  <2>1. ResultingNext(journal, Len(journal), e, ImpliedNext(journal)) \in OccurrenceOrNone
    BY <1>3, ResultingNextType
  <2>2. ImpliedNext(journal) \in OccurrenceOrNone
    BY <1>3, ImpliedNextType
  <2> QED
    BY <1>3, <2>1, <2>2
<1>8. p \in PendingOrNone /\ p # NoPending
  <2>1. world + 1 \in Nat \ {0} /\ mem.next \in OccurrenceOrNone /\ p.result \in OccurrenceOrNone
    BY <1>3, <1>6, <1>7
  <2>2. p \in PendingOrNone
    BY <2>1 DEF PendingOrNone
  <2>3. p.seq # 0
    BY <2>1
  <2> QED
    BY <2>2, <2>3 DEF NoPending
<1>9. p.event = e /\ p = [seq |-> Renewed.seq + 1, event |-> e, prior |-> Renewed.next,
                          result |-> ResultingNext(journal, Len(journal), e, Renewed.next)]
  BY <1>3, <1>4, <1>5 DEF Keeps
<1> HIDE DEF p
<1>10. Renewed \in Lifecycle
  BY <1>5 DEF Runs
<1>11. /\ l \in Lifecycle /\ l.pending = p
       /\ l.mode = Renewed.mode /\ l.cutoff = Renewed.cutoff
       /\ l.seq = Renewed.seq /\ l.last = Renewed.last /\ l.fence = Renewed.fence
       /\ l.renewed = Renewed.renewed /\ l.expires = Renewed.expires /\ l.head = Renewed.head
       /\ l.next = Renewed.next /\ l.ack = Renewed.ack
  BY <1>8, <1>10 DEF Lifecycle
<1> HIDE DEF l
<1>12. Runs(l, Now)
  BY <1>5, <1>11 DEF Runs
<1>13. /\ lc' \in Lifecycle /\ Leased(lc') /\ lc'.lastTrusted = Now
       /\ lc'.fence = l.fence /\ lc'.seq = l.seq /\ lc'.last = l.last /\ lc'.head = l.head
       /\ lc'.next = l.next /\ lc'.ack = l.ack /\ lc'.pending = l.pending
       /\ lc'.mode \notin {"Missing", "Sleeping"}
       /\ mem' = lc' /\ trusted' = Now /\ Now \in 0 .. MaxTime
  BY <1>1, <1>12, Persisted
<1>14. Files(lc', journal, bnd, snap)
  <2>1. e.fence = Renewed.fence /\ Renewed.pending = NoPending
    BY <1>3, <1>4, <1>5 DEF Keeps
  <2>2. /\ lc'.fence = Renewed.fence /\ lc'.seq = Renewed.seq /\ lc'.last = Renewed.last
        /\ lc'.head = Renewed.head /\ lc'.next = Renewed.next /\ lc'.ack = Renewed.ack
        /\ lc'.pending = [seq |-> Renewed.seq + 1, event |-> e, prior |-> Renewed.next,
                          result |-> ResultingNext(journal, Len(journal), e, Renewed.next)]
    BY <1>9, <1>11, <1>13
  <2> QED
    BY <1>5, <1>13, <2>1, <2>2, FilesStaged
<1>15. Lines' = Lines /\ Boundaries' = Boundaries
  BY <1>1, LinesUnchanged
<1>16. FilesInv'
  BY <1>1, <1>3, <1>13, <1>14, <1>15 DEF FilesInv
<1>17. HeadIs("append")' /\ ~HeadIs("boundary")' /\ ~HeadIs("commit")' /\ Committing' /\ ~Opening'
  BY <1>2 DEF HeadIs, Committing, Opening
<1>18. lc'.lastTrusted <= trusted'
  BY <1>13
<1>19. MemoryInv'
  BY <1>1, <1>13, <1>15, <1>17, <1>18, MemoryAfter
<1>20. /\ lc'.pending.event = e /\ lc'.fence = lc.fence /\ lc'.seq = lc.seq /\ lc'.head = lc.head
       /\ lc'.ack = lc.ack /\ lc'.pending # NoPending
  BY <1>5, <1>8, <1>9, <1>11, <1>13 DEF Keeps
<1>21. Served'
  BY <1>1, <1>3, <1>4, <1>15, <1>20 DEF Served
<1>22. CommitInv'
  BY <1>1, <1>3, <1>4, <1>17, <1>20 DEF CommitInv
<1>23. EndsInv'
  BY <1>2 DEF EndsInv
<1>24. StepsInv'
  BY <1>2, <1>17, <1>20, <1>21, <1>22, <1>23 DEF StepsInv
<1> QED
  BY <1>16, <1>19, <1>24 DEF StoreInv

(* The three events: an intent and a boundary at the time now, a quantum   *)
(* at the time of the occurrence that is due.                              *)
LEMMA CommitsKeep ==
    ASSUME StoreInv,
           \/ \E runnable \in BOOLEAN : ExecuteIntent(runnable) \/ CommitQuantum(runnable)
           \/ \E key \in Keys : CommitTransfer(key)
    PROVE  StoreInv'
<1>1. host = "up" /\ todo = <<>> /\ host \in Live
  BY DEF ExecuteIntent, CommitQuantum, CommitTransfer, Idle, Live
<1>2. mem = lc /\ Files(lc, journal, bnd, snap)
  BY <1>1, IdleFacts
<1>3. /\ lc \in Lifecycle /\ lc.mode \in Modes \ {"Sleeping"} /\ Leased(lc)
      /\ Now \in 1 .. MaxTime /\ lc.lastTrusted <= Now
  BY <1>1, LiveFacts
<1>4. lc.mode \notin {"Missing", "Sleeping"}
  BY <1>3 DEF Modes
<1>5. mem.fence \in 1 .. MaxFence
  BY <1>2, <1>3, <1>4, RecordTyped, StoreAssumption DEF Leased
<1>6. Now \in Times /\ Now <= MaxTime
  BY <1>3, TimeTyped
<1>7. ASSUME NEW runnable \in BOOLEAN, ExecuteIntent(runnable) PROVE StoreInv'
  <2> DEFINE e == [kind |-> "intent", fence |-> mem.fence, at |-> Now,
                   runnable |-> runnable, key |-> NoKey]
  <2>1. Stage(e)
    BY <1>7 DEF ExecuteIntent
  <2>2. e \in Event /\ e.fence = mem.fence /\ e.at <= MaxTime
    BY <1>5, <1>6 DEF Event
  <2> HIDE DEF e
  <2> QED
    BY <1>1, <2>1, <2>2, StageKeeps
<1>8. ASSUME NEW key \in Keys, CommitTransfer(key) PROVE StoreInv'
  <2> DEFINE e == [kind |-> "transfer", fence |-> mem.fence, at |-> Now,
                   runnable |-> Runnable(journal, world), key |-> key]
  <2>1. Stage(e)
    BY <1>8 DEF CommitTransfer
  <2>2. Runnable(journal, world) \in BOOLEAN
    BY DEF Runnable
  <2>3. e \in Event /\ e.fence = mem.fence /\ e.at <= MaxTime
    BY <1>5, <1>6, <2>2 DEF Event
  <2> HIDE DEF e
  <2> QED
    BY <1>1, <2>1, <2>3, StageKeeps
<1>9. ASSUME NEW runnable \in BOOLEAN, CommitQuantum(runnable) PROVE StoreInv'
  <2> DEFINE e == [kind |-> "quantum", fence |-> mem.fence, at |-> mem.next.at,
                   runnable |-> runnable, key |-> NoKey]
  <2>1. Stage(e) /\ mem.next # NoOccurrence /\ mem.next.at <= DueBy
    BY <1>9 DEF CommitQuantum, ProductionDue
  <2>2. mem.next \in Occurrence
    BY <1>2, <1>3, <2>1, RecordTyped DEF OccurrenceOrNone
  <2>3. mem.next.at \in Times
    BY <2>2 DEF Occurrence
  <2>4. DueBy \in Int /\ DueBy <= MaxTime
    <3>1. CASE lc.mode = "Activating"
      <4>1. lc.cutoff \in 1 .. lc.lastTrusted /\ lc.lastTrusted \in 1 .. MaxTime
        BY <1>3, <1>4, <3>1 DEF Leased
      <4>2. lc.cutoff \in Int /\ lc.cutoff <= MaxTime
        BY <4>1, StoreAssumption
      <4> QED
        BY <1>2, <3>1, <4>2 DEF DueBy
    <3>2. CASE lc.mode # "Activating"
      BY <1>2, <1>3, <3>2, StoreAssumption DEF DueBy
    <3> QED
      BY <3>1, <3>2
  <2>5. mem.next.at <= MaxTime
    BY <2>1, <2>3, <2>4, StoreAssumption DEF Times
  <2>6. e \in Event /\ e.fence = mem.fence /\ e.at <= MaxTime
    BY <1>5, <2>3, <2>5 DEF Event
  <2> HIDE DEF e
  <2> QED
    BY <1>1, <2>1, <2>6, StageKeeps
<1> QED
  BY <1>7, <1>8, <1>9

(* The process within a commit.                                            *)
LEMMA CommitFacts ==
    ASSUME StoreInv, host \in Live, NEW s, HeadIs(s), s \in {"append", "boundary", "commit"}
    PROVE  /\ Served /\ CommitInv /\ EndsInv /\ ~Opening /\ Committing
           /\ journal = Lines /\ bnd = Boundaries /\ world = lc.seq /\ lc.pending # NoPending
           /\ Files(lc, journal, bnd, snap) /\ Ordered(todo, lc.pending.event.kind)
           /\ lc.mode \notin {"Missing", "Sleeping"} /\ lc \in Lifecycle
           /\ Unresolved(lc, journal) /\ lc.pending \in PendingOrNone
<1>1. ~Opening /\ Committing
  BY DEF Opening, Committing, HeadIs
<1>2. Served /\ CommitInv /\ EndsInv /\ Ordered(todo, lc.pending.event.kind)
  BY <1>1 DEF StoreInv, StepsInv
<1>3. Files(lc, journal, bnd, snap) /\ lc.mode \notin {"Missing", "Sleeping"}
  BY <1>2 DEF StoreInv, FilesInv, MemoryInv, Served
<1>4. lc \in Lifecycle /\ lc.pending # NoPending
  BY <1>2, <1>3 DEF Files, CommitInv
<1>5. Unresolved(lc, journal)
  BY <1>3, <1>4 DEF Files, Fits, Schedule
<1>6. lc.pending \in PendingOrNone
  BY <1>4, RecordTyped
<1> QED
  BY <1>1, <1>2, <1>3, <1>4, <1>5, <1>6 DEF Served

(* append_event: the event is in the journal, and its record and boundary  *)
(* are still to come.                                                      *)
LEMMA AppendEventKeeps ==
    ASSUME StoreInv, AppendEvent
    PROVE  StoreInv'
<1> DEFINE kind == lc.pending.event.kind
           e == lc.pending.event
           j == Append(journal, e)
<1>1. /\ TakeStep("append", Tail(todo)) /\ LeaseHeld /\ ~KeyCommitted(mem.pending.event)
      /\ journal' = Append(journal, mem.pending.event)
      /\ lc' = Renewed /\ mem' = lc' /\ trusted' = Now
      /\ clock' = clock /\ bnd' = bnd /\ snap' = snap /\ world' = world
  BY DEF AppendEvent
<1>2. host \in Live /\ Ordered(todo, kind) /\ Now \in 1 .. MaxTime
  BY <1>1, LiveFacts DEF TakeStep
<1>3. /\ Ordered(todo', kind) /\ HeadIs("append") /\ Onward(todo, 1, kind)
      /\ (todo' = <<>> <=> Len(todo) = 1)
      /\ todo' # <<>> => todo'[1] = todo[2]
      /\ host' = (IF todo' = <<>> THEN "up" ELSE host)
      /\ recovered' = (IF todo' = <<>> THEN "Missing" ELSE recovered)
  BY <1>1, <1>2, StepTaken
<1>4. todo[1] = "append" /\ Len(todo) >= 2
      /\ todo[2] = (IF kind = "transfer" THEN "boundary" ELSE "commit")
  BY <1>3 DEF HeadIs, Onward, Follows
<1>5. /\ todo' # <<>> /\ host' = host /\ recovered' = recovered
      /\ todo'[1] = (IF kind = "transfer" THEN "boundary" ELSE "commit")
  BY <1>3, <1>4
<1>6. /\ Served /\ CommitInv /\ EndsInv
      /\ journal = Lines /\ bnd = Boundaries /\ world = lc.seq /\ lc.pending # NoPending
      /\ Files(lc, journal, bnd, snap) /\ lc.pending \in PendingOrNone
  BY <1>2, <1>3, CommitFacts
<1>7. /\ mem = lc /\ Runs(lc', Now) /\ Keeps(lc, lc') /\ lc'.fence = lc.fence
      /\ lc'.lastTrusted <= Now /\ Files(lc', journal, bnd, snap)
  BY <1>1, <1>2, <1>6, RenewedFacts
<1>8. /\ host = "up" /\ e.fence = lc.fence /\ Len(journal) = lc.seq /\ lc.head = bnd
      /\ e.kind # "quantum" => lc.ack = Committed(journal, world)
  BY <1>3, <1>6 DEF CommitInv
<1>9. journal' = j /\ e \in Event /\ journal \in Seq(Event)
  BY <1>1, <1>6, <1>7, PendingTyped DEF Files, History
<1>10. /\ lc'.pending = lc.pending /\ lc'.head = bnd /\ lc'.seq = lc.seq /\ lc'.ack = lc.ack
       /\ lc'.mode \notin {"Missing", "Sleeping"} /\ lc' \in Lifecycle
  BY <1>7, <1>8 DEF Keeps, Runs
<1>11. /\ Files(lc', j, bnd, snap)
       /\ kind # "transfer" => TransferEvents(j) \subseteq InFile(bnd)
       /\ Committed(j, lc.seq) = Committed(journal, lc.seq)
       /\ lc.pending.seq \notin InFile(bnd)
  <2>1. ~ \E i \in InFile(bnd) : e.kind = "transfer" /\ journal[i].key = e.key
    BY <1>1, <1>7 DEF KeyCommitted
  <2>2. /\ lc'.pending # NoPending /\ Len(journal) = lc'.seq /\ lc'.pending.event.fence = lc'.fence
        /\ ~ \E i \in InFile(bnd) : lc'.pending.event.kind = "transfer"
                                    /\ journal[i].key = lc'.pending.event.key
    BY <1>6, <1>7, <1>8, <1>10, <2>1
  <2>3. /\ Files(lc', Append(journal, lc'.pending.event), bnd, snap)
        /\ lc'.pending.event.kind # "transfer" =>
              TransferEvents(Append(journal, lc'.pending.event)) \subseteq InFile(bnd)
        /\ Committed(Append(journal, lc'.pending.event), lc'.seq) = Committed(journal, lc'.seq)
        /\ lc'.pending.seq \notin InFile(bnd)
    BY <1>7, <1>10, <2>2, FilesEventAppended
  <2> QED
    BY <1>10, <2>3
<1>12. j \in Seq(Event) /\ Len(j) = Len(journal) + 1
  BY <1>9, AppendedEntries
<1> HIDE DEF e, j, kind
<1>13. Lines' = j /\ Boundaries' = bnd
  <2>1. Lines' = Terminated(j, TornLine)
    BY <1>9 DEF Lines
  <2> QED
    BY <1>1, <1>6, <1>12, <2>1, TornTailCut, LinesUnchanged
<1>14. FilesInv'
  BY <1>1, <1>10, <1>11, <1>13 DEF FilesInv
<1>15. /\ Committing' /\ ~Opening' /\ ~HeadIs("append")'
       /\ HeadIs("boundary")' => kind = "transfer"
       /\ HeadIs("commit")' => kind # "transfer"
  BY <1>5 DEF Committing, Opening, HeadIs
<1>16. mem' = IF HeadIs("commit")' THEN [lc' EXCEPT !.head = bnd'] ELSE lc'
  <2>1. [lc' EXCEPT !.head = bnd'] = lc'
    BY <1>1, <1>10 DEF Lifecycle
  <2> QED
    BY <1>1, <2>1
<1>17. trusted' \in 0 .. MaxTime /\ lc'.lastTrusted <= trusted'
  BY <1>1, <1>2, <1>7
<1>18. MemoryInv'
  BY <1>1, <1>2, <1>5, <1>8, <1>10, <1>16, <1>17, MemoryAfter
<1>19. Served'
  BY <1>1, <1>6, <1>9, <1>10, <1>13 DEF Served
<1>20. CommitInv'
  <2>1. lc'.pending.event.fence = lc'.fence
    BY <1>7, <1>8, <1>10 DEF e
  <2>2. lc'.pending.event.kind # "quantum" => lc'.ack = Committed(journal', world')
    BY <1>1, <1>6, <1>8, <1>9, <1>10, <1>11 DEF e
  <2>3. Len(journal') = lc'.seq + 1
    BY <1>8, <1>9, <1>10, <1>12
  <2>4. HeadIs("commit")' => TransferEvents(journal') \subseteq InFile(bnd')
    BY <1>1, <1>9, <1>11, <1>15
  <2> QED
    BY <1>1, <1>5, <1>6, <1>8, <1>10, <1>11, <1>15, <2>1, <2>2, <2>3, <2>4 DEF CommitInv
<1>21. EndsInv'
  <2>1. ~Has(todo', "sleep") /\ ~Has(todo', "publish")
    BY <1>1, <1>2, <1>6, NothingEnds
  <2> QED
    BY <2>1 DEF EndsInv
<1>22. Ordered(todo', lc'.pending.event.kind)
  BY <1>3, <1>10 DEF kind
<1>23. StepsInv'
  BY <1>15, <1>19, <1>20, <1>21, <1>22 DEF StepsInv
<1> QED
  BY <1>14, <1>18, <1>23 DEF StoreInv

(* The boundary is written (append of the transfer boundary journal); the  *)
(* record that names it is still to come.                                  *)
LEMMA AppendBoundaryKeeps ==
    ASSUME StoreInv, AppendBoundary
    PROVE  StoreInv'
<1> DEFINE kind == lc.pending.event.kind
           c == Append(bnd, lc.pending.seq)
<1>1. /\ TakeStep("boundary", Tail(todo))
      /\ bnd' = Append(bnd, mem.pending.seq) /\ mem' = [mem EXCEPT !.head = bnd']
      /\ clock' = clock /\ lc' = lc /\ journal' = journal /\ snap' = snap
      /\ world' = world /\ trusted' = trusted
  BY DEF AppendBoundary
<1>2. /\ host \in Live /\ Ordered(todo, kind) /\ trusted \in 0 .. MaxTime
  BY <1>1, LiveFacts DEF TakeStep
<1>3. /\ Ordered(todo', kind) /\ HeadIs("boundary") /\ Onward(todo, 1, kind)
      /\ (todo' = <<>> <=> Len(todo) = 1)
      /\ todo' # <<>> => todo'[1] = todo[2]
      /\ host' = (IF todo' = <<>> THEN "up" ELSE host)
      /\ recovered' = (IF todo' = <<>> THEN "Missing" ELSE recovered)
  BY <1>1, <1>2, StepTaken
<1>4. todo[1] = "boundary" /\ Len(todo) >= 2 /\ todo[2] = "commit" /\ kind = "transfer"
  BY <1>3 DEF HeadIs, Onward, Follows
<1>5. /\ todo' # <<>> /\ host' = host /\ recovered' = recovered /\ todo'[1] = "commit"
  BY <1>3, <1>4
<1>6. /\ Served /\ CommitInv /\ EndsInv
      /\ journal = Lines /\ bnd = Boundaries /\ world = lc.seq /\ lc.pending # NoPending
      /\ Files(lc, journal, bnd, snap) /\ lc.pending \in PendingOrNone
      /\ lc.mode \notin {"Missing", "Sleeping"} /\ lc \in Lifecycle
  BY <1>2, <1>3, CommitFacts
<1>7. /\ host = "up" /\ lc.pending.event.fence = lc.fence /\ Len(journal) = lc.seq + 1 /\ lc.head = bnd
      /\ lc.pending.event.kind # "quantum" => lc.ack = Committed(journal, world)
      /\ lc.pending.seq \notin InFile(bnd)
  BY <1>3, <1>6 DEF CommitInv
<1>8. mem = lc /\ lc.lastTrusted <= trusted
  BY <1>2, <1>4 DEF StoreInv, MemoryInv, HeadIs
<1>9. /\ Files(lc, journal, c, snap) /\ TransferEvents(journal) \subseteq InFile(c)
  BY <1>4, <1>6, <1>7, FilesBoundaryAppended
<1>10. c \in Seq(Nat \ {0}) /\ bnd' = c
  BY <1>1, <1>8, <1>9 DEF Files, Fits, Boundary
<1> HIDE DEF c, kind
<1>11. Lines' = Lines /\ Boundaries' = c
  <2>1. Boundaries' = Terminated(c, TornBoundary)
    BY <1>10 DEF Boundaries
  <2> QED
    BY <1>1, <1>10, <2>1, TornBoundaryCut, LinesUnchanged
<1>12. FilesInv'
  BY <1>1, <1>6, <1>9, <1>11 DEF FilesInv
<1>13. /\ Committing' /\ ~Opening' /\ ~HeadIs("append")' /\ ~HeadIs("boundary")' /\ HeadIs("commit")'
  BY <1>5 DEF Committing, Opening, HeadIs
<1>14. mem' = IF HeadIs("commit")' THEN [lc' EXCEPT !.head = bnd'] ELSE lc'
  BY <1>1, <1>8, <1>13
<1>15. MemoryInv'
  BY <1>1, <1>2, <1>5, <1>6, <1>7, <1>8, <1>14, MemoryAfter
<1>16. Served'
  BY <1>1, <1>6, <1>10, <1>11 DEF Served
<1>17. CommitInv'
  BY <1>1, <1>5, <1>6, <1>7, <1>9, <1>10, <1>13 DEF CommitInv
<1>18. EndsInv'
  <2>1. ~Has(todo', "sleep") /\ ~Has(todo', "publish")
    BY <1>1, <1>2, <1>6, NothingEnds
  <2> QED
    BY <2>1 DEF EndsInv
<1>19. Ordered(todo', lc'.pending.event.kind)
  BY <1>1, <1>3 DEF kind
<1>20. StepsInv'
  BY <1>13, <1>16, <1>17, <1>18, <1>19 DEF StepsInv
<1> QED
  BY <1>12, <1>15, <1>20 DEF StoreInv

(* One more event: a quantum more, or none (production_clock).             *)
LEMMA CommittedNext ==
    ASSUME NEW j, NEW n \in Nat
    PROVE  /\ Committed(j, n) <= Committed(j, n + 1)
           /\ j[n + 1].kind # "quantum" => Committed(j, n + 1) = Committed(j, n)
<1>1. IsFiniteSet(QuantaIn(j, n + 1)) /\ n + 1 \in Nat
  BY QuantaFinite
<1>2. QuantaIn(j, n) \subseteq QuantaIn(j, n + 1)
  BY DEF QuantaIn
<1>3. j[n + 1].kind # "quantum" => QuantaIn(j, n + 1) = QuantaIn(j, n)
  BY DEF QuantaIn
<1>4. Cardinality(QuantaIn(j, n)) <= Cardinality(QuantaIn(j, n + 1))
  BY <1>1, <1>2, FS_Subset
<1> QED
  BY <1>3, <1>4 DEF Committed

(* The commit is recorded: the event is in the record's frontier and the   *)
(* schedule is the one that was staged.                                    *)
LEMMA RecordCommitKeeps ==
    ASSUME StoreInv, RecordCommit
    PROVE  StoreInv'
<1> DEFINE kind == lc.pending.event.kind
           l == [mem EXCEPT !.seq = mem.pending.seq, !.last = mem.pending.event,
                            !.next = mem.pending.result, !.pending = NoPending]
<1>1. /\ TakeStep("commit", Tail(todo)) /\ LeaseRuns /\ Persist(l)
      /\ world' = mem.pending.seq
      /\ clock' = clock /\ journal' = journal /\ bnd' = bnd /\ snap' = snap
  BY DEF RecordCommit, CommittedRecord
<1>2. /\ host \in Live /\ Ordered(todo, kind) /\ Now \in 1 .. MaxTime /\ Leased(lc)
      /\ lc.lastTrusted <= Now /\ lc.lastTrusted \in 1 .. MaxTime
  BY <1>1, LiveFacts DEF TakeStep
<1>3. /\ Ordered(todo', kind) /\ HeadIs("commit") /\ Onward(todo, 1, kind)
      /\ (todo' = <<>> <=> Len(todo) = 1)
      /\ todo' # <<>> => todo'[1] = todo[2]
      /\ host' = (IF todo' = <<>> THEN "up" ELSE host)
      /\ recovered' = (IF todo' = <<>> THEN "Missing" ELSE recovered)
  BY <1>1, <1>2, StepTaken
<1>4. kind = "quantum" => Len(todo) >= 2 /\ todo[2] = "acknowledge"
  BY <1>3 DEF HeadIs, Onward, Follows
<1>5. kind = "quantum" => HeadIs("acknowledge")'
  BY <1>3, <1>4 DEF HeadIs
<1>6. /\ Served /\ CommitInv /\ EndsInv
      /\ journal = Lines /\ bnd = Boundaries /\ world = lc.seq /\ lc.pending # NoPending
      /\ Files(lc, journal, bnd, snap) /\ lc.pending \in PendingOrNone
      /\ lc.mode \notin {"Missing", "Sleeping"} /\ lc \in Lifecycle /\ Unresolved(lc, journal)
  BY <1>2, <1>3, CommitFacts
<1>7. /\ Len(journal) = lc.seq + 1 /\ TransferEvents(journal) \subseteq InFile(bnd)
      /\ kind # "quantum" => lc.ack = Committed(journal, lc.seq)
  BY <1>3, <1>6 DEF CommitInv
<1>8. mem = [lc EXCEPT !.head = bnd]
  BY <1>2, <1>3, LiveFacts
<1>9. /\ lc.pending.seq = Len(journal) /\ lc.pending.event = journal[Len(journal)]
      /\ lc.pending.result = ImpliedNext(journal) /\ lc.seq \in Nat /\ Len(journal) \in Nat
      /\ lc.ack <= Committed(journal, lc.seq) /\ lc.ack \in Nat
  <2>1. lc.seq \in Nat /\ lc.ack \in Nat
    BY <1>6, RecordTyped
  <2>2. lc.ack <= Committed(journal, lc.seq)
    BY <1>6 DEF Files, Fits, Schedule
  <2> QED
    BY <1>6, <1>7, <2>1, <2>2 DEF Unresolved
<1>10. /\ lc.pending.seq \in Nat \ {0} /\ lc.pending.event \in Event
       /\ lc.pending.result \in OccurrenceOrNone /\ NoPending \in PendingOrNone
       /\ bnd \in Seq(Nat \ {0})
  <2>1. bnd \in Seq(Nat \ {0})
    BY <1>6 DEF Files, Fits, Boundary
  <2> QED
    BY <1>6, <2>1, PendingTyped DEF PendingOrNone
<1>11. /\ mem \in Lifecycle /\ mem.pending = lc.pending /\ mem.head = bnd /\ mem.expires = lc.expires
       /\ mem.renewed = lc.renewed /\ mem.mode = lc.mode /\ mem.cutoff = lc.cutoff
       /\ mem.fence = lc.fence /\ mem.ack = lc.ack
  BY <1>6, <1>8, <1>10 DEF Lifecycle
<1>12. /\ l \in Lifecycle /\ l.seq = mem.pending.seq /\ l.last = mem.pending.event
       /\ l.next = mem.pending.result /\ l.pending = NoPending /\ l.head = mem.head
       /\ l.expires = mem.expires /\ l.renewed = mem.renewed /\ l.mode = mem.mode
       /\ l.cutoff = mem.cutoff /\ l.fence = mem.fence /\ l.ack = mem.ack
  BY <1>10, <1>11 DEF Lifecycle
<1> HIDE DEF l
<1>13. Runs(l, Now)
  <2>1. /\ lc.fence > 0 /\ lc.renewed \in 1 .. lc.lastTrusted
        /\ lc.mode = "Activating" => lc.cutoff \in 1 .. lc.lastTrusted
        /\ lc.mode # "Activating" => lc.cutoff = NoTime
    BY <1>2, <1>6 DEF Leased
  <2>2. /\ lc.renewed \in 1 .. Now
        /\ lc.mode = "Activating" => lc.cutoff \in 1 .. Now
    BY <1>2, <2>1
  <2>3. Now < lc.expires
    BY <1>1, <1>11 DEF LeaseRuns
  <2> QED
    BY <1>6, <1>11, <1>12, <2>1, <2>2, <2>3 DEF Runs
<1>14. /\ lc' \in Lifecycle /\ Leased(lc') /\ lc'.lastTrusted = Now
       /\ lc'.fence = l.fence /\ lc'.seq = l.seq /\ lc'.last = l.last /\ lc'.head = l.head
       /\ lc'.next = l.next /\ lc'.ack = l.ack /\ lc'.pending = l.pending
       /\ lc'.mode \notin {"Missing", "Sleeping"}
       /\ mem' = lc' /\ trusted' = Now /\ Now \in 0 .. MaxTime
  BY <1>1, <1>2, <1>13, Persisted
<1>15. /\ lc'.fence = lc.fence /\ lc'.seq = Len(journal) /\ lc'.head = bnd /\ lc'.pending = NoPending
       /\ lc'.last = (IF Len(journal) = 0 THEN NoEvent ELSE journal[Len(journal)])
       /\ lc'.next = ImpliedNext(journal) /\ lc'.ack = lc.ack /\ world' = Len(journal)
  <2>1. Len(journal) # 0
    BY <1>7, <1>9
  <2> QED
    BY <1>1, <1>9, <1>11, <1>12, <1>14, <2>1
<1>16. /\ Committed(journal, lc.seq) \in Nat /\ Committed(journal, Len(journal)) \in Nat
       /\ Committed(journal, lc.seq) <= Committed(journal, Len(journal))
       /\ kind # "quantum" => Committed(journal, Len(journal)) = Committed(journal, lc.seq)
  <2>1. Committed(journal, lc.seq) \in Nat /\ Committed(journal, Len(journal)) \in Nat
    BY <1>9, QuantaFinite
  <2>2. /\ Committed(journal, lc.seq) <= Committed(journal, lc.seq + 1)
        /\ journal[lc.seq + 1].kind # "quantum" =>
              Committed(journal, lc.seq + 1) = Committed(journal, lc.seq)
    BY <1>9, CommittedNext
  <2>3. journal[lc.seq + 1].kind = kind
    BY <1>7, <1>9
  <2> QED
    BY <1>7, <2>1, <2>2, <2>3
<1>17. lc'.ack <= Committed(journal, Len(journal))
  BY <1>9, <1>15, <1>16
<1>18. Files(lc', journal, bnd, snap)
  BY <1>6, <1>7, <1>14, <1>15, <1>17, FilesSettled
<1>19. HeadIs("acknowledge")' \/ lc'.ack = Committed(journal, world')
  BY <1>5, <1>7, <1>15, <1>16
<1> DEFINE after == NoPending.event.kind
<1>20. /\ Ordered(todo', after) /\ ~Opening' /\ ~Committing'
       /\ ~HeadIs("frontier")' /\ ~HeadIs("sleep")'
  BY <1>1, <1>2, RestStep
<1>21. EndsInv'
  <2>1. ~Has(todo', "sleep") /\ ~Has(todo', "publish")
    BY <1>1, <1>2, <1>6, NothingEnds
  <2> QED
    BY <2>1 DEF EndsInv
<1>22. Ordered(todo', lc'.pending.event.kind)
  BY <1>15, <1>20
<1>23. /\ trusted' \in 0 .. MaxTime /\ lc'.lastTrusted <= trusted' /\ lc'.seq = world'
       /\ \/ host' = host /\ recovered' = recovered
          \/ host' = "up" /\ recovered' = "Missing"
  BY <1>2, <1>3, <1>14, <1>15
<1> QED
  BY <1>1, <1>2, <1>6, <1>14, <1>15, <1>18, <1>19, <1>20, <1>21, <1>22, <1>23, RestReached

(* The quantum is acknowledged (acknowledge_production_sequence).          *)
LEMMA AcknowledgeKeeps ==
    ASSUME StoreInv, Acknowledge
    PROVE  StoreInv'
<1> DEFINE kind == lc.pending.event.kind
           l == [Renewed EXCEPT !.ack = Committed(journal, world)]
<1>1. /\ TakeStep("acknowledge", Tail(todo)) /\ LeaseHeld /\ Persist(l)
      /\ clock' = clock /\ journal' = journal /\ bnd' = bnd /\ snap' = snap /\ world' = world
  BY DEF Acknowledge
<1>2. host \in Live /\ Ordered(todo, kind) /\ Now \in 1 .. MaxTime
  BY <1>1, LiveFacts DEF TakeStep
<1>3. /\ HeadIs("acknowledge")
      /\ host' = (IF todo' = <<>> THEN "up" ELSE host)
      /\ recovered' = (IF todo' = <<>> THEN "Missing" ELSE recovered)
  BY <1>1, <1>2, StepTaken
<1>4. ~Opening /\ ~Committing
  BY <1>3, AtRest
<1>5. /\ mem = lc /\ lc.seq = Len(journal) /\ world = Len(journal)
      /\ journal \in Seq(Event) /\ Len(journal) \in Nat
      /\ TransferEvents(journal) \subseteq InFile(bnd)
      /\ lc.next = ImpliedNext(journal) /\ lc.pending = NoPending
      /\ lc.last = (IF world = 0 THEN NoEvent ELSE journal[world])
      /\ lc.head = bnd /\ bnd = Boundaries /\ journal = Lines
      /\ Files(lc, journal, bnd, snap) /\ EndsInv
  BY <1>2, <1>4, RestFacts
<1>6. /\ Runs(Renewed, Now) /\ Keeps(lc, Renewed) /\ Renewed.fence = lc.fence
  BY <1>1, <1>2, RenewedFacts
<1>7. Renewed \in Lifecycle /\ Committed(journal, world) \in Nat
  BY <1>5, <1>6, QuantaFinite DEF Runs
<1>8. /\ l \in Lifecycle /\ l.ack = Committed(journal, world)
      /\ l.mode = Renewed.mode /\ l.cutoff = Renewed.cutoff
      /\ l.seq = Renewed.seq /\ l.last = Renewed.last /\ l.fence = Renewed.fence
      /\ l.renewed = Renewed.renewed /\ l.expires = Renewed.expires /\ l.head = Renewed.head
      /\ l.next = Renewed.next /\ l.pending = Renewed.pending
  BY <1>7 DEF Lifecycle
<1> HIDE DEF l
<1>9. Runs(l, Now)
  BY <1>6, <1>8 DEF Runs
<1>10. /\ lc' \in Lifecycle /\ Leased(lc') /\ lc'.lastTrusted = Now
       /\ lc'.fence = l.fence /\ lc'.seq = l.seq /\ lc'.last = l.last /\ lc'.head = l.head
       /\ lc'.next = l.next /\ lc'.ack = l.ack /\ lc'.pending = l.pending
       /\ lc'.mode \notin {"Missing", "Sleeping"}
       /\ mem' = lc' /\ trusted' = Now /\ Now \in 0 .. MaxTime
  BY <1>1, <1>2, <1>9, Persisted
<1>11. /\ lc'.fence = lc.fence /\ lc'.seq = Len(journal) /\ lc'.head = bnd /\ lc'.pending = NoPending
       /\ lc'.last = (IF Len(journal) = 0 THEN NoEvent ELSE journal[Len(journal)])
       /\ lc'.next = ImpliedNext(journal) /\ lc'.ack = Committed(journal, world')
       /\ lc'.seq = world'
  BY <1>1, <1>5, <1>6, <1>8, <1>10 DEF Keeps
<1>12. lc'.ack <= Committed(journal, Len(journal))
  BY <1>1, <1>5, <1>7, <1>11
<1>13. Files(lc', journal, bnd, snap)
  BY <1>5, <1>10, <1>11, <1>12, FilesSettled
<1> DEFINE after == NoPending.event.kind
<1>14. /\ Ordered(todo', after) /\ ~Opening' /\ ~Committing'
       /\ ~HeadIs("frontier")' /\ ~HeadIs("sleep")'
  BY <1>1, <1>2, RestStep
<1>15. EndsInv'
  <2>1. ~Has(todo', "sleep") /\ ~Has(todo', "publish")
    BY <1>1, <1>2, <1>5, NothingEnds
  <2> QED
    BY <2>1 DEF EndsInv
<1>16. Ordered(todo', lc'.pending.event.kind)
  BY <1>11, <1>14
<1>17. /\ trusted' \in 0 .. MaxTime /\ lc'.lastTrusted <= trusted'
       /\ \/ host' = host /\ recovered' = recovered
          \/ host' = "up" /\ recovered' = "Missing"
  BY <1>2, <1>3, <1>10
<1> QED
  BY <1>1, <1>2, <1>5, <1>10, <1>11, <1>13, <1>14, <1>15, <1>16, <1>17, RestReached

-----------------------------------------------------------------------------
(***************************************************************************)
(* Every reachable state.                                                  *)
(***************************************************************************)
(* No operation, crash, torn line or step of the clock breaks StoreInv.    *)
LEMMA StoreInvKept == StoreInv /\ [Next]_vars => StoreInv'
<1> SUFFICES ASSUME StoreInv, [Next]_vars PROVE StoreInv'
  OBVIOUS
<1>1. CASE Tick \/ ClockBack
  BY <1>1, ClockKeeps
<1>2. CASE Crash \/ Halt
  BY <1>2, EndingKeeps
<1>3. CASE Tear
  BY <1>3, TearKeeps
<1>4. CASE Open
  BY <1>4, OpenKeeps
<1>5. CASE Step
  <2>1. CASE LoadBoundaries
    BY <2>1, LoadBoundariesKeeps
  <2>2. CASE RecordHead
    BY <2>2, RecordHeadKeeps
  <2>3. CASE LoadWorld
    BY <2>3, LoadWorldKeeps
  <2>4. CASE Reconcile
    BY <2>4, ReconcileKeeps
  <2>5. CASE Restore
    BY <2>5, RestoreKeeps
  <2>6. CASE SaveSnapshot
    BY <2>6, SaveSnapshotKeeps
  <2>7. CASE RecordFrontier
    BY <2>7, RecordFrontierKeeps
  <2>8. CASE ReleaseToSleeping
    BY <2>8, ReleaseToSleepingKeeps
  <2>9. CASE AppendEvent
    BY <2>9, AppendEventKeeps
  <2>10. CASE AppendBoundary
    BY <2>10, AppendBoundaryKeeps
  <2>11. CASE RecordCommit
    BY <2>11, RecordCommitKeeps
  <2>12. CASE Acknowledge
    BY <2>12, AcknowledgeKeeps
  <2>13. CASE EnterBackground
    BY <2>13, EnterBackgroundKeeps
  <2>14. CASE PublishActive
    BY <2>14, PublishActiveKeeps
  <2> QED
    BY <1>5, <2>1, <2>2, <2>3, <2>4, <2>5, <2>6, <2>7, <2>8, <2>9, <2>10, <2>11, <2>12, <2>13,
       <2>14 DEF Step
<1>6. CASE RenewLease
  BY <1>6, RenewLeaseKeeps
<1>7. CASE \/ \E runnable \in BOOLEAN : ExecuteIntent(runnable) \/ CommitQuantum(runnable)
           \/ \E key \in Keys : CommitTransfer(key)
  BY <1>7, CommitsKeep
<1>8. CASE Drain
  BY <1>8, DrainKeeps
<1>9. CASE SleepWhenIdle
  BY <1>9, SleepWhenIdleKeeps
<1>10. CASE WakeBackground
  BY <1>10, WakeBackgroundKeeps
<1>11. CASE FinishActivation
  BY <1>11, FinishActivationKeeps
<1>12. CASE UNCHANGED vars
  <2>1. /\ clock' = clock /\ lc' = lc /\ journal' = journal /\ bnd' = bnd /\ snap' = snap
        /\ host' = host /\ todo' = todo /\ mem' = mem /\ world' = world
        /\ trusted' = trusted /\ recovered' = recovered
    BY <1>12 DEF vars
  <2>2. Lines' = Lines /\ Boundaries' = Boundaries
    BY <2>1, LinesUnchanged
  <2>3. FilesInv' /\ MemoryInv'
    BY <2>1, <2>2 DEF StoreInv, FilesInv, MemoryInv, HeadIs
  <2>4. StepsInv'
    BY <2>1, <2>2 DEF StoreInv, StepsInv, OpeningInv, Served, RestInv, CommitInv, EndsInv,
                      Opening, Committing, HeadIs
  <2> QED
    BY <2>3, <2>4 DEF StoreInv
<1> QED
  BY <1>1, <1>2, <1>3, <1>4, <1>5, <1>6, <1>7, <1>8, <1>9, <1>10, <1>11, <1>12 DEF Next

(* StoreInv holds in every reachable state of Store and Runtime.           *)
THEOREM StoreInvCorrect == Spec => []StoreInv
<1>1. Init => StoreInv
  BY StoreStarts
<1>2. StoreInv /\ [Next]_vars => StoreInv'
  BY StoreInvKept
<1> QED
  BY <1>1, <1>2, PTL DEF Spec

(* What a step does to the whole lines: nothing, or one event of the       *)
(* record's fence at the end (append_event).                               *)
LEMMA LinesGrow ==
    ASSUME StoreInv, [Next]_vars
    PROVE  /\ Lines \in Seq(Event)
           /\ \/ Lines' = Lines
              \/ \E e \in Event : /\ AppendEvent /\ e.fence = lc.fence
                                  /\ Lines' = Append(Lines, e) /\ journal' = Append(Lines, e)
<1>1. Lines \in Seq(Event)
  BY DEF StoreInv, FilesInv, Files, History
<1>2. CASE LoadWorld
  <2>1. Lines' = Terminated(Lines, TornLine)
    BY <1>2 DEF LoadWorld, ReplayedJournal, Lines
  <2> QED
    BY <1>1, <2>1, TornTailCut
<1>3. CASE Tear
  BY <1>1, <1>3, TornLinesStay
<1>4. CASE AppendEvent
  <2>1. /\ LeaseHeld /\ journal' = Append(journal, mem.pending.event) /\ host \in Live
        /\ todo # <<>> /\ Head(todo) = "append"
    BY <1>4 DEF AppendEvent, TakeStep
  <2>2. HeadIs("append")
    BY <2>1, LiveFacts, QueueTail DEF Ordered, HeadIs
  <2>3. /\ CommitInv /\ journal = Lines /\ lc.pending \in PendingOrNone /\ lc.pending # NoPending
    BY <2>1, <2>2, CommitFacts
  <2>4. mem = lc
    BY <2>1 DEF LeaseHeld
  <2>5. lc.pending.event \in Event /\ lc.pending.event.fence = lc.fence
    BY <2>3, PendingTyped DEF CommitInv
  <2> DEFINE e == lc.pending.event
  <2>6. journal' = Append(Lines, e) /\ e \in Event
    BY <2>1, <2>3, <2>4, <2>5
  <2> HIDE DEF e
  <2>7. Append(Lines, e) \in Seq(Event)
    BY <1>1, <2>6, AppendedEntries
  <2>8. Lines' = Terminated(Append(Lines, e), TornLine)
    BY <2>6 DEF Lines
  <2>9. Lines' = Append(Lines, e)
    BY <2>7, <2>8, TornTailCut
  <2>10. e.fence = lc.fence
    BY <2>5 DEF e
  <2> QED
    BY <1>1, <1>4, <2>6, <2>9, <2>10
<1>5. CASE journal' = journal
  BY <1>1, <1>5, LinesUnchanged
<1> QED
  BY <1>2, <1>3, <1>4, <1>5 DEF Next, vars, Step, disk, Tick, ClockBack, Crash, Halt, Open,
       LoadBoundaries, RecordHead, Reconcile, Restore, SaveSnapshot, RecordFrontier,
       ReleaseToSleeping, AppendBoundary, RecordCommit, Acknowledge, EnterBackground,
       PublishActive, RenewLease, ExecuteIntent, CommitQuantum, CommitTransfer, Stage, Drain,
       SleepWhenIdle, WakeBackground, FinishActivation

-----------------------------------------------------------------------------
(***************************************************************************)
(* What every crash point leaves.                                          *)
(***************************************************************************)
(* The event journal is lines, of which some may be torn (open for append). *)
JournalTyped == journal \in Seq(Event \cup {TornLine})

(* Only whole lines are appended, or a torn one (append_event).            *)
LEMMA JournalTypedCorrect == Spec => []JournalTyped
<1>1. Init => JournalTyped
  BY DEF Init, JournalTyped
<1>2. ASSUME StoreInv, JournalTyped, [Next]_vars PROVE JournalTyped'
  <2>1. Lines \in Seq(Event)
    BY <1>2, LinesGrow
  <2>2. CASE AppendEvent
    <3>2. mem.pending.event \in Event
      <4>1. /\ host \in Live /\ todo # <<>> /\ Head(todo) = "append" /\ LeaseHeld
        BY <2>2 DEF AppendEvent, TakeStep
      <4>2. HeadIs("append")
        BY <1>2, <4>1, LiveFacts, QueueTail DEF Ordered, HeadIs
      <4>3. lc.pending \in PendingOrNone /\ lc.pending # NoPending /\ mem = lc
        BY <1>2, <4>1, <4>2, CommitFacts DEF LeaseHeld
      <4> QED
        BY <4>3, PendingTyped
    <3>3. journal' = Append(journal, mem.pending.event)
      BY <2>2 DEF AppendEvent
    <3> QED
      BY <1>2, <3>2, <3>3 DEF JournalTyped
  <2>3. CASE LoadWorld
    <3>1. journal' = Lines
      BY <2>3 DEF LoadWorld, ReplayedJournal
    <3>2. Lines \in Seq(Event \cup {TornLine})
      BY <2>1
    <3> QED
      BY <3>1, <3>2 DEF JournalTyped
  <2>4. CASE Tear
    <3>1. journal' = journal \/ journal' = Append(journal, TornLine)
      BY <2>4 DEF Tear
    <3> QED
      BY <1>2, <3>1 DEF JournalTyped
  <2>5. CASE journal' = journal
    BY <1>2, <2>5 DEF JournalTyped
  <2> QED
    BY <1>2, <2>2, <2>3, <2>4, <2>5 DEF Next, vars, Step, disk, Tick, ClockBack, Crash, Halt, Open,
       LoadBoundaries, RecordHead, Reconcile, Restore, SaveSnapshot, RecordFrontier,
       ReleaseToSleeping, AppendBoundary, RecordCommit, Acknowledge, EnterBackground,
       PublishActive, RenewLease, ExecuteIntent, CommitQuantum, CommitTransfer, Stage, Drain,
       SleepWhenIdle, WakeBackground, FinishActivation
<1>3. StoreInv /\ JournalTyped /\ [Next]_vars => JournalTyped'
  BY <1>2
<1> QED
  BY <1>1, <1>3, StoreInvCorrect, PTL DEF Spec

(* The variables have their types.                                         *)
LEMMA TypesFollow ==
    ASSUME StoreInv, JournalTyped
    PROVE  TypeOK
<1>1. FilesInv /\ MemoryInv /\ StepsInv /\ Files(lc, Lines, Boundaries, snap)
  BY DEF StoreInv, FilesInv
<1>2. /\ lc \in Lifecycle /\ Lines \in Seq(Event) /\ Boundaries \in Seq(Nat \ {0})
      /\ snap \in [seq : Nat, fence : 0 .. MaxFence]
  BY <1>1 DEF Files, Fits, Boundary, History, Snapshots
<1>3. clock \in 1 .. MaxTime /\ host \in HostStates /\ recovered \in Modes \cup {"Missing"}
  BY <1>1 DEF MemoryInv
<1>4. trusted \in Times
  <2>1. trusted \in 0 .. MaxTime
    BY <1>1 DEF MemoryInv
  <2> QED
    BY <2>1, TimeTyped
<1>5. Len(journal) \in Nat
  BY DEF JournalTyped
<1>6. mem \in Lifecycle /\ world \in 0 .. Len(journal)
  <2>1. CASE host \notin Live
    <3>1. mem = NoLifecycle /\ world = 0
      BY <1>1, <2>1 DEF MemoryInv
    <3> QED
      BY <1>5, <3>1, NoRecordTyped
  <2>2. CASE host \in Live /\ Opening
    <3>1. OpeningInv
      BY <1>1, <2>2 DEF StepsInv
    <3>2. world = 0 \/ world = Len(journal)
      BY <3>1 DEF OpeningInv
    <3>3. ~HeadIs("commit")
      BY <2>2 DEF Opening, HeadIs
    <3>4. mem = lc
      BY <1>1, <2>2, <3>3 DEF MemoryInv
    <3> QED
      BY <1>2, <1>5, <3>2, <3>4
  <2>3. CASE host \in Live /\ ~Opening
    <3>1. bnd = Boundaries /\ journal = Lines /\ world = lc.seq
      BY <1>1, <2>3 DEF StepsInv, Served
    <3>2. lc.seq \in Nat /\ lc.seq <= Len(journal)
      BY <1>1, <1>2, <3>1, RecordTyped DEF Files, Fits, Frontier
    <3>3. mem = lc \/ mem = [lc EXCEPT !.head = bnd]
      BY <1>1, <2>3 DEF MemoryInv
    <3>4. [lc EXCEPT !.head = bnd] \in Lifecycle
      <4>1. bnd \in Seq(Nat \ {0})
        BY <1>2, <3>1
      <4> QED
        BY <1>2, <4>1 DEF Lifecycle
    <3>5. mem \in Lifecycle
      BY <1>2, <3>3, <3>4
    <3>6. world \in 0 .. Len(journal)
      BY <1>5, <3>1, <3>2
    <3> QED
      BY <3>5, <3>6
  <2> QED
    BY <2>1, <2>2, <2>3
<1> QED
  BY <1>2, <1>3, <1>4, <1>6 DEF TypeOK

(* An intact history is one that load_world reads.                         *)
LEMMA HistoryReads ==
    ASSUME NEW j, History(j)
    PROVE  HistoryReadable(j)
<1>1. \A e \in Event : e.kind # "torn" /\ e.fence > 0
  BY DEF Event
<1>2. \A i \in 1 .. Len(j) : j[i] \in Event
  BY DEF History
<1> QED
  BY <1>1, <1>2 DEF HistoryReadable, History

(* The boundaries follow the journal.                                      *)
LEMMA BoundariesAgree ==
    ASSUME StoreInv
    PROVE  BoundariesFollowJournal
<1>1. Files(lc, Lines, Boundaries, snap) /\ Boundary(lc, Lines, Boundaries) /\ lc \in Lifecycle
  BY DEF StoreInv, FilesInv, Files, Fits
<1>2. \A i \in TransferEvents(Lines) : i # lc.pending.seq => i \in InFile(lc.head)
  BY <1>1 DEF Boundary
<1>3. InFile(lc.head) \subseteq InFile(Boundaries)
  <2>1. CASE Boundaries = lc.head
    BY <2>1
  <2>2. CASE lc.pending # NoPending /\ Boundaries = Append(lc.head, lc.pending.seq)
    <3>1. lc.head \in Seq(Nat \ {0}) /\ lc.pending.seq \in Nat \ {0}
      BY <1>1, <2>2, RecordTyped, PendingTyped
    <3>2. InFile(Boundaries) = InFile(lc.head) \cup {lc.pending.seq}
      BY <2>2, <3>1, BoundaryAppended
    <3> QED
      BY <3>2
  <2> QED
    BY <1>1, <2>1, <2>2 DEF Boundary
<1>4. InFile(Boundaries) \subseteq TransferEvents(Lines) /\ Increasing(Boundaries)
  BY <1>1 DEF Boundary
<1> QED
  BY <1>2, <1>3, <1>4 DEF BoundariesFollowJournal, Increasing

(* A record that says Sleeping is one that lock_existing accepts.          *)
LEMMA SleepingAccepted ==
    ASSUME StoreInv
    PROVE  SleepingIsComplete
<1> SUFFICES ASSUME lc.mode = "Sleeping"
             PROVE  snap.seq = Len(journal) /\ FrozenSourceAccepted
  BY DEF SleepingIsComplete
<1>1. journal = Lines /\ bnd = Boundaries /\ Files(lc, journal, bnd, snap)
  BY DEF StoreInv, FilesInv
<1>2. /\ lc \in Lifecycle /\ History(journal) /\ Leased(lc)
      /\ Asleep(lc, journal, bnd, snap) /\ Frontier(lc, journal) /\ Schedule(lc, journal)
      /\ Boundary(lc, journal, bnd) /\ Snapshot(lc, journal, snap)
  BY <1>1 DEF Files, Fits
<1>3. /\ lc.pending = NoPending /\ lc.ack = Committed(journal, Len(journal)) /\ lc.head = bnd
      /\ snap = [seq |-> Len(journal), fence |-> lc.fence]
      /\ ~Runnable(journal, Len(journal))
  BY <1>2 DEF Asleep
<1>4. journal \in Seq(Event) /\ Len(journal) \in Nat
  BY <1>2 DEF History
<1>5. lc.seq = Len(journal)
  <2>1. lc.seq \in Nat
    BY <1>2, RecordTyped
  <2> QED
    BY <1>2, <1>3, <1>4, <2>1 DEF Frontier
<1>6. lc.last = IF journal = <<>> THEN NoEvent ELSE journal[Len(journal)]
  <2>1. Len(journal) = 0 <=> journal = <<>>
    BY <1>4
  <2> QED
    BY <1>2, <1>5, <2>1 DEF Frontier
<1>7. PriorLifecycleValid(lc)
  BY <1>1, RecordAccepted
<1>8. lc.fence # 0 /\ lc.lastTrusted # NoTime
  <2>1. lc.fence > 0 /\ lc.lastTrusted \in 1 .. MaxTime
    BY <1>2 DEF Leased
  <2> QED
    BY <2>1 DEF NoTime
<1>9. FrozenEventArchiveValid(journal, snap)
  <2>1. HistoryReadable(journal)
    BY <1>2, HistoryReads
  <2>2. SnapshotFenceConsistent(journal, snap)
    BY <1>2 DEF Snapshot
  <2>3. snap.seq <= Len(journal)
    BY <1>3, <1>4
  <2>4. \A i, k \in TransferEvents(journal) : journal[i].key = journal[k].key => i = k
    BY <1>2 DEF History
  <2> QED
    BY <2>1, <2>2, <2>3, <2>4 DEF FrozenEventArchiveValid
<1>10. PersistedFence(journal, snap) = lc.fence
  <2>1. PersistedFence(journal, snap) \in Nat /\ PersistedFence(journal, snap) <= lc.fence
        /\ lc.fence \in Nat
    BY <1>1, FenceIsRecorded
  <2>2. snap.fence = lc.fence
    BY <1>3
  <2>3. journal # <<>> => journal[Len(journal)].fence \in Nat
    <3>1. journal # <<>> => journal[Len(journal)] \in Event
      BY <1>4
    <3>2. \A e \in Event : e.fence \in Nat
      BY StoreAssumption DEF Event
    <3> QED
      BY <3>1, <3>2
  <2>4. PersistedFence(journal, snap) >= snap.fence
    BY <2>1, <2>2, <2>3 DEF PersistedFence, Larger
  <2> QED
    BY <2>1, <2>2, <2>4
<1>11. lc.next = NoOccurrence
  <2>1. lc.next = ImpliedNext(journal)
    BY <1>2, <1>3 DEF Schedule
  <2> QED
    BY <1>3, <2>1, NothingImplied
<1>12. FrozenTransferArchiveValid(lc, journal, bnd)
  <2>1. InFile(bnd) = TransferEvents(journal)
    BY <1>2, <1>3 DEF Boundary
  <2> QED
    BY <1>2, <1>3, <2>1 DEF FrozenTransferArchiveValid, Boundary, Increasing
<1>13. snap.seq = Len(journal)
  BY <1>3
<1> QED
  BY <1>3, <1>5, <1>6, <1>7, <1>8, <1>9, <1>10, <1>11, <1>12, <1>13 DEF FrozenSourceAccepted

(* The files agree with each other at every crash point: the schedule that *)
(* the record resolves to is the one the history implies, no boundary is   *)
(* lost or invented, and a Sleeping cell is complete on disk (Store,       *)
(* commit_world_event, release_to_sleeping).                               *)
THEOREM StoreConsistentCorrect == Spec => []StoreConsistent
<1>1. ASSUME StoreInv PROVE ScheduleFollowsHistory
  <2>1. Files(lc, Lines, Boundaries, snap)
    BY <1>1 DEF StoreInv, FilesInv
  <2>2. ResolvedNext(lc, Lines) = ImpliedNext(Lines)
    BY <2>1, ResolvedIsImplied
  <2> QED
    BY <2>2 DEF ScheduleFollowsHistory
<1>2. StoreInv /\ JournalTyped => StoreConsistent
  BY <1>1, TypesFollow, BoundariesAgree, SleepingAccepted DEF StoreConsistent
<1> QED
  BY <1>2, StoreInvCorrect, JournalTypedCorrect, PTL
-----------------------------------------------------------------------------
(***************************************************************************)
(* Every crash point opens again.                                          *)
(***************************************************************************)
(* What is pending is the last event of the history, or is not in it yet.  *)
LEMMA PendingIs ==
    ASSUME NEW l, NEW j, NEW b, NEW s, Files(l, j, b, s)
    PROVE  /\ Len(j) \in Nat /\ l.seq \in Nat /\ l.seq <= Len(j) /\ Len(j) <= l.seq + 1
           /\ l.pending # NoPending => l.pending.seq = l.seq + 1
           /\ Len(j) = l.seq + 1 => l.pending # NoPending /\ j[l.seq + 1] = l.pending.event
<1>1. /\ l \in Lifecycle /\ History(j) /\ Frontier(l, j) /\ Schedule(l, j)
  BY DEF Files, Fits
<1>2. l.seq \in Nat /\ Len(j) \in Nat
  BY <1>1, RecordTyped DEF History
<1>3. l.pending # NoPending => Unresolved(l, j)
  BY <1>1 DEF Schedule
<1>4. Len(j) = l.seq + 1 => l.pending # NoPending
  BY <1>1 DEF Frontier
<1> QED
  BY <1>1, <1>2, <1>3, <1>4 DEF Frontier, Unresolved

(* The head that a record names heads its boundary file.                   *)
LEMMA HeadFirst ==
    ASSUME NEW h \in Seq(Nat \ {0}), NEW x \in Nat \ {0}
    PROVE  StartsWith(h, h) /\ StartsWith(Append(h, x), h)
BY DEF StartsWith

(* load_transfer_boundaries accepts the boundary file, and adds to it at   *)
(* most the boundary of what is pending.                                   *)
LEMMA BoundariesAccepted ==
    ASSUME NEW l, NEW j, NEW b, NEW s, Files(l, j, b, s)
    PROVE  BoundariesLoad(l, j, b, s)
<1>1. Boundary(l, j, b) /\ Snapshot(l, j, s) /\ l \in Lifecycle /\ s \in Snapshots
  BY DEF Files, Fits
<1>2. /\ Len(j) \in Nat /\ l.seq \in Nat /\ l.seq <= Len(j) /\ Len(j) <= l.seq + 1
      /\ l.pending # NoPending => l.pending.seq = l.seq + 1
      /\ Len(j) = l.seq + 1 => l.pending # NoPending /\ j[l.seq + 1] = l.pending.event
  BY PendingIs
<1>3. l.head \in Seq(Nat \ {0})
  BY <1>1, RecordTyped
<1>4. BoundaryFileValid(l, j, b)
  <2>1. CASE b = l.head
    BY <1>1, <1>3, <2>1, HeadFirst DEF BoundaryFileValid, Boundary, Increasing
  <2>2. CASE b # l.head
    <3>1. /\ l.pending # NoPending /\ Len(j) = l.pending.seq /\ b = Append(l.head, l.pending.seq)
      BY <1>1, <2>2 DEF Boundary
    <3>2. l.pending.seq \in Nat \ {0}
      BY <1>2, <3>1
    <3>3. /\ Len(b) = Len(l.head) + 1 /\ b[Len(b)] = l.pending.seq
      BY <1>3, <3>1, <3>2
    <3>4. j[l.pending.seq] = l.pending.event
      BY <1>2, <3>1
    <3>5. StartsWith(b, l.head)
      BY <1>3, <3>1, <3>2, HeadFirst
    <3> QED
      BY <1>1, <3>3, <3>4, <3>5 DEF BoundaryFileValid, Boundary, Increasing
  <2> QED
    BY <2>1, <2>2
<1>5. InFile(l.head) \subseteq InFile(b)
  <2>1. CASE b = l.head
    BY <2>1
  <2>2. CASE b # l.head
    <3>1. b = Append(l.head, l.pending.seq)
      BY <1>1, <2>2 DEF Boundary
    <3>2. \A i \in 1 .. Len(l.head) : i \in 1 .. Len(b) /\ b[i] = l.head[i]
      BY <1>3, <3>1
    <3> QED
      BY <3>2 DEF InFile
  <2> QED
    BY <2>1, <2>2
<1>6. \A i \in TransferEvents(j) : i \notin InFile(b) =>
         l.pending # NoPending /\ i = l.pending.seq /\ i = l.seq + 1 /\ l.pending.event = j[i]
  <2> SUFFICES ASSUME NEW i \in TransferEvents(j), i \notin InFile(b)
               PROVE  /\ l.pending # NoPending /\ i = l.pending.seq /\ i = l.seq + 1
                      /\ l.pending.event = j[i]
    OBVIOUS
  <2>1. l.pending # NoPending /\ i = l.pending.seq
    BY <1>1, <1>5 DEF Boundary
  <2>2. i = l.seq + 1
    BY <1>2, <2>1
  <2>3. i \in 1 .. Len(j)
    BY DEF TransferEvents
  <2>4. Len(j) = l.seq + 1
    BY <1>2, <2>2, <2>3
  <2> QED
    BY <1>2, <2>1, <2>2, <2>4
<1>7. s.seq <= l.seq /\ s.seq \in Nat
  BY <1>1 DEF Snapshot, Snapshots
<1>8. BackfillAllowed(l, j, b, s)
  <2>1. \A i \in TransferEvents(j) : i <= s.seq => i \in InFile(b)
    BY <1>2, <1>6, <1>7
  <2>2. \A i \in MissingBoundaries(j, b, s) :
           i \in TransferEvents(j) /\ i \notin InFile(b)
    BY DEF MissingBoundaries
  <2>3. \A i \in MissingBoundaries(j, b, s) :
           l.pending # NoPending /\ i = l.pending.seq /\ l.pending.event = j[i]
    BY <1>6, <2>2
  <2>4. \A i \in MissingBoundaries(j, b, s) : MissingBoundaries(j, b, s) = {i}
    BY <2>3
  <2> QED
    BY <2>1, <2>3, <2>4 DEF BackfillAllowed
<1> QED
  BY <1>4, <1>8 DEF BoundariesLoad

(* reconcile_lifecycle_with_world accepts record and world, unless the     *)
(* schedule was armed again after an idle stretch.                         *)
LEMMA RecordReconciles ==
    ASSUME NEW l, NEW j, NEW b, NEW s, Files(l, j, b, s), ~Rearmed(j)
    PROVE  Reconciles(l, j)
<1>1. /\ Len(j) \in Nat /\ l.seq \in Nat /\ l.seq <= Len(j) /\ Len(j) <= l.seq + 1
      /\ l.pending # NoPending => l.pending.seq = l.seq + 1
      /\ Len(j) = l.seq + 1 => l.pending # NoPending /\ j[l.seq + 1] = l.pending.event
  BY PendingIs
<1>2. /\ l \in Lifecycle /\ History(j) /\ Frontier(l, j) /\ Schedule(l, j)
  BY DEF Files, Fits
<1>3. PendingResolves(l, j)
  <2> SUFFICES ASSUME l.pending # NoPending
               PROVE  \/ Len(j) < l.pending.seq
                      \/ Len(j) = l.pending.seq /\ j[Len(j)] = l.pending.event
    BY DEF PendingResolves
  <2> QED
    BY <1>1
<1>4. FrontierAgrees(l, j)
  BY <1>1, <1>2 DEF FrontierAgrees, Frontier
<1>5. ResolvedNext(l, j) = ImpliedNext(j)
  BY ResolvedIsImplied
<1>6. l.ack <= Committed(j, Len(j))
  <2>1. l.ack <= Committed(j, l.seq) /\ l.ack \in Nat
    BY <1>2, RecordTyped DEF Schedule
  <2>2. Committed(j, l.seq) \in Nat /\ Committed(j, Len(j)) \in Nat
    BY <1>1, QuantaFinite
  <2>3. CASE Len(j) = l.seq
    BY <2>1, <2>3
  <2>4. CASE Len(j) = l.seq + 1
    <3>1. Committed(j, l.seq) <= Committed(j, Len(j))
      BY <1>1, <2>4, CommittedNext
    <3> QED
      BY <2>1, <2>2, <3>1
  <2> QED
    BY <1>1, <2>3, <2>4
<1>7. ImpliedNext(j) # NoOccurrence =>
         /\ Runnable(j, Len(j))
         /\ ImpliedNext(j).seq = Committed(j, Len(j)) + 1
         /\ Committed(j, Len(j)) > 0 => ImpliedNext(j).at = LastScheduled(j, Len(j)) + Quantum
  BY <1>2, ImpliedNextType DEF Rearmed
<1>8. ScheduleAgrees(l, j)
  BY <1>5, <1>6, <1>7 DEF ScheduleAgrees
<1> QED
  BY <1>3, <1>4, <1>8 DEF Reconciles

(* Whatever crash left the files, the next open accepts them: the record   *)
(* is valid, the boundaries load, the world loads under the next fence and *)
(* reconciles with the record; but for a schedule armed again after an     *)
(* idle stretch, which reconcile_lifecycle_with_world refuses.             *)
THEOREM CrashRecoversUnlessRearmedCorrect == Spec => []CrashRecoversUnlessRearmed
<1>1. ASSUME StoreInv PROVE CrashRecoversUnlessRearmed
  <2> SUFFICES ASSUME lc.mode # "Missing", ~Rearmed(Lines)
               PROVE  CrashRecovers
    BY DEF CrashRecoversUnlessRearmed
  <2>1. Files(lc, Lines, Boundaries, snap)
    BY <1>1 DEF StoreInv, FilesInv
  <2>2. PriorLifecycleValid(lc)
    BY <2>1, RecordAccepted
  <2>3. BoundariesLoad(lc, Lines, Boundaries, snap)
    BY <2>1, BoundariesAccepted
  <2>4. WorldLoads(Lines, snap, lc.fence + 1)
    <3>1. HistoryReadable(Lines)
      BY <2>1, HistoryReads DEF Files
    <3>2. SnapshotFenceConsistent(Lines, snap) /\ snap.seq <= lc.seq /\ snap.seq \in Nat
      BY <2>1 DEF Files, Fits, Snapshot, Snapshots
    <3>3. Len(Lines) \in Nat /\ lc.seq \in Nat /\ lc.seq <= Len(Lines)
      BY <2>1, PendingIs
    <3>4. /\ PersistedFence(Lines, snap) \in Nat /\ PersistedFence(Lines, snap) <= lc.fence
          /\ lc.fence \in Nat
      BY <2>1, FenceIsRecorded
    <3>5. snap.seq <= Len(Lines) /\ lc.fence + 1 > PersistedFence(Lines, snap)
      BY <3>2, <3>3, <3>4
    <3> QED
      BY <3>1, <3>2, <3>5 DEF WorldLoads
  <2>5. Reconciles(lc, Lines)
    BY <2>1, RecordReconciles
  <2> QED
    BY <2>2, <2>3, <2>4, <2>5 DEF CrashRecovers
<1>2. StoreInv => CrashRecoversUnlessRearmed
  BY <1>1
<1> QED
  BY <1>2, StoreInvCorrect, PTL

-----------------------------------------------------------------------------
(***************************************************************************)
(* What no restart rewrites.                                               *)
(***************************************************************************)
(* The mode and the wake cut-off of l are those of the record.             *)
SameWake(l) == l.mode = lc.mode /\ l.cutoff = lc.cutoff

(* What the process believes of them is true, and maintain_live_lease      *)
(* leaves them alone.                                                      *)
LEMMA WakeKnown ==
    ASSUME StoreInv, JournalTyped, host \in Live
    PROVE  /\ mem \in Lifecycle /\ SameWake(mem)
           /\ LeaseHeld => Renewed \in Lifecycle /\ SameWake(Renewed)
<1>1. mem \in Lifecycle
  BY TypesFollow DEF TypeOK
<1>2. SameWake(mem)
  <2>1. lc \in Lifecycle /\ (mem = lc \/ mem = [lc EXCEPT !.head = bnd])
    BY LiveFacts
  <2> QED
    BY <2>1 DEF SameWake, Lifecycle
<1>3. ASSUME LeaseHeld PROVE Renewed \in Lifecycle /\ SameWake(Renewed)
  BY <1>3, RenewedFacts DEF Files, SameWake
<1> QED
  BY <1>1, <1>2, <1>3

(* The writes of an opening and of a snapshot (load_world,                 *)
(* reconcile_lifecycle_with_world, save_snapshot) leave the wake alone.    *)
LEMMA OpeningKeepsWake ==
    ASSUME StoreInv, JournalTyped,
           RecordHead \/ LoadWorld \/ Reconcile \/ SaveSnapshot \/ RecordFrontier
    PROVE  SameWake(lc')
<1>1. host \in Live
  BY DEF RecordHead, LoadWorld, Reconcile, SaveSnapshot, RecordFrontier, TakeStep
<1>2. /\ mem \in Lifecycle /\ SameWake(mem)
      /\ LeaseHeld => Renewed \in Lifecycle /\ SameWake(Renewed)
  BY <1>1, WakeKnown
<1>3. CASE RecordHead
  <2>1. lc' = [mem EXCEPT !.head = bnd]
    BY <1>3 DEF RecordHead
  <2> QED
    BY <1>2, <2>1 DEF SameWake, Lifecycle
<1>4. CASE LoadWorld \/ SaveSnapshot
  <2>1. lc' = Renewed /\ LeaseHeld
    BY <1>4 DEF LoadWorld, SaveSnapshot
  <2> QED
    BY <1>2, <2>1
<1>5. CASE Reconcile
  <2> DEFINE next == ReconciledNext(mem, journal, Now)
             done == Committed(journal, world)
             last == IF world = 0 THEN NoEvent ELSE journal[world]
  <2>1. lc' = [[[mem EXCEPT !.seq = world, !.last = last]
                  EXCEPT !.pending = NoPending, !.next = next, !.ack = done]
                  EXCEPT !.lastTrusted = Now]
    BY <1>5 DEF Reconcile, Persist, AtWorld
  <2> HIDE DEF next, done, last
  <2> QED
    BY <1>2, <2>1 DEF SameWake, Lifecycle
<1>6. CASE RecordFrontier
  <2> DEFINE last == IF world = 0 THEN NoEvent ELSE journal[world]
  <2>1. lc' = [[mem EXCEPT !.seq = world, !.last = last] EXCEPT !.lastTrusted = Now]
    BY <1>6 DEF RecordFrontier, Persist, AtWorld
  <2> HIDE DEF last
  <2> QED
    BY <1>2, <2>1 DEF SameWake, Lifecycle
<1> QED
  BY <1>3, <1>4, <1>5, <1>6

(* So do the writes of a commit (commit_world_event) and the heartbeat of  *)
(* the lease.                                                              *)
LEMMA CommitKeepsWake ==
    ASSUME StoreInv, JournalTyped,
           AppendEvent \/ RecordCommit \/ Acknowledge \/ RenewLease
    PROVE  SameWake(lc')
<1>1. host \in Live
  BY DEF AppendEvent, RecordCommit, Acknowledge, RenewLease, TakeStep
<1>2. /\ mem \in Lifecycle /\ SameWake(mem)
      /\ LeaseHeld => Renewed \in Lifecycle /\ SameWake(Renewed)
  BY <1>1, WakeKnown
<1>3. CASE AppendEvent \/ RenewLease
  <2>1. lc' = Renewed /\ LeaseHeld
    BY <1>3 DEF AppendEvent, RenewLease
  <2> QED
    BY <1>2, <2>1
<1>4. CASE RecordCommit
  <2>1. lc' = [[mem EXCEPT !.seq = mem.pending.seq, !.last = mem.pending.event,
                           !.next = mem.pending.result, !.pending = NoPending]
                  EXCEPT !.lastTrusted = Now]
    BY <1>4 DEF RecordCommit, CommittedRecord, Persist
  <2> QED
    BY <1>2, <2>1 DEF SameWake, Lifecycle
<1>5. CASE Acknowledge
  <2> DEFINE l == Renewed
             done == Committed(journal, world)
  <2>1. lc' = [[l EXCEPT !.ack = done] EXCEPT !.lastTrusted = Now] /\ LeaseHeld
    BY <1>5 DEF Acknowledge, Persist
  <2>2. l \in Lifecycle /\ SameWake(l)
    BY <1>2, <2>1
  <2> HIDE DEF l, done
  <2> QED
    BY <2>1, <2>2 DEF SameWake, Lifecycle
<1> QED
  BY <1>3, <1>4, <1>5

(* And so does the staging of an event, of whatever kind.                  *)
LEMMA StageKeepsWake ==
    ASSUME StoreInv, JournalTyped, host \in Live, NEW e, Stage(e)
    PROVE  SameWake(lc')
<1> DEFINE l == Renewed
           p == [seq |-> world + 1, event |-> e, prior |-> mem.next,
                 result |-> ResultingNext(journal, world, e, mem.next)]
<1>1. lc' = [[l EXCEPT !.pending = p] EXCEPT !.lastTrusted = Now] /\ LeaseHeld
  BY DEF Stage, Persist
<1>2. l \in Lifecycle /\ SameWake(l)
  BY <1>1, WakeKnown
<1> HIDE DEF l, p
<1> QED
  BY <1>1, <1>2 DEF SameWake, Lifecycle

(* A transition writes the mode it is to (transition_mode, publish_active, *)
(* release_to_sleeping).                                                   *)
LEMMA ModeWritten ==
    ASSUME StoreInv, JournalTyped, host \in Live, LeaseHeld, NEW to, NEW t,
           Persist([AtWorld(Renewed) EXCEPT !.mode = to, !.cutoff = t])
    PROVE  lc'.mode = to
<1> DEFINE l == Renewed
           last == IF world = 0 THEN NoEvent ELSE journal[world]
<1>1. l \in Lifecycle
  BY WakeKnown
<1>2. lc' = [[[l EXCEPT !.seq = world, !.last = last] EXCEPT !.mode = to, !.cutoff = t]
               EXCEPT !.lastTrusted = Now]
  BY DEF Persist, AtWorld
<1> HIDE DEF l, last
<1> QED
  BY <1>1, <1>2 DEF Lifecycle

(* publish_active finds nothing due by the wake cut-off.                   *)
LEMMA PublishedInTime ==
    ASSUME StoreInv, PublishActive
    PROVE  ImpliedNext(Lines) = NoOccurrence \/ ImpliedNext(Lines).at > lc.cutoff
<1>1. TakeStep("publish", Tail(todo))
  BY DEF PublishActive
<1>2. host \in Live /\ HeadIs("publish") /\ ~Opening /\ ~Committing
  BY <1>1, RestTaken
<1>3. lc.next = ImpliedNext(journal) /\ journal = Lines /\ EndsInv
  BY <1>2, RestFacts
<1>4. Ordered(todo, lc.pending.event.kind)
  BY <1>2, LiveFacts
<1>5. Has(todo, "publish")
  BY <1>2, <1>4 DEF Has, HeadIs, Ordered
<1> QED
  BY <1>3, <1>5 DEF EndsInv

(* A step while the record says Activating leaves it so, with its cut-off, *)
(* or publishes it as Active when nothing is due by the cut-off.           *)
LEMMA WakeKept ==
    ASSUME StoreInv, JournalTyped, [Next]_vars, lc.mode = "Activating"
    PROVE  /\ lc'.mode = "Activating" => lc'.cutoff = lc.cutoff
           /\ lc'.mode = "Active" => \/ ImpliedNext(Lines) = NoOccurrence
                                     \/ ImpliedNext(Lines).at > lc.cutoff
<1>1. CASE lc' = lc
  BY <1>1
<1>2. CASE Open
  BY <1>2, OpenedRecord
<1>3. CASE RecordHead \/ LoadWorld \/ Reconcile \/ SaveSnapshot \/ RecordFrontier
  BY <1>3, OpeningKeepsWake DEF SameWake
<1>4. CASE AppendEvent \/ RecordCommit \/ Acknowledge \/ RenewLease
  BY <1>4, CommitKeepsWake DEF SameWake
<1>5. ASSUME NEW e, host = "up", Stage(e)
      PROVE  /\ lc'.mode = "Activating" => lc'.cutoff = lc.cutoff
             /\ lc'.mode # "Active"
  BY <1>5, StageKeepsWake DEF SameWake, Live
<1>6. CASE \/ \E runnable \in BOOLEAN : ExecuteIntent(runnable) \/ CommitQuantum(runnable)
           \/ \E key \in Keys : CommitTransfer(key)
  <2>1. \E e : host = "up" /\ Stage(e)
    BY <1>6 DEF ExecuteIntent, CommitQuantum, CommitTransfer, Idle
  <2> QED
    BY <1>5, <2>1
<1>7. CASE Restore
  <2>1. host \in Live
    BY <1>7 DEF Restore, TakeStep
  <2>2. \/ lc' = lc
        \/ LeaseHeld /\ Persist([AtWorld(Renewed) EXCEPT !.mode = "Background",
                                                         !.cutoff = NoTime])
    BY <1>7 DEF Restore
  <2>3. lc' = lc \/ lc'.mode = "Background"
    BY <2>1, <2>2, ModeWritten
  <2> QED
    BY <2>3
<1>8. CASE EnterBackground
  <2>1. /\ host \in Live /\ LeaseHeld
        /\ Persist([AtWorld(Renewed) EXCEPT !.mode = "Background", !.cutoff = NoTime])
    BY <1>8 DEF EnterBackground, TakeStep, Transition
  <2>2. lc'.mode = "Background"
    BY <2>1, ModeWritten
  <2> QED
    BY <2>2
<1>9. CASE PublishActive
  <2>1. /\ host \in Live /\ LeaseHeld
        /\ Persist([AtWorld(Renewed) EXCEPT !.mode = "Active", !.cutoff = NoTime])
    BY <1>9 DEF PublishActive, TakeStep
  <2>2. lc'.mode = "Active"
    BY <2>1, ModeWritten
  <2> QED
    BY <1>9, <2>2, PublishedInTime
<1>10. CASE ReleaseToSleeping
  <2>1. host \in Live
    BY <1>10 DEF ReleaseToSleeping
  <2>2. mem \in Lifecycle
    BY <2>1, WakeKnown
  <2> DEFINE last == IF world = 0 THEN NoEvent ELSE journal[world]
  <2>3. lc' = [[mem EXCEPT !.seq = world, !.last = last]
                 EXCEPT !.mode = "Sleeping", !.renewed = NoTime, !.expires = NoTime,
                        !.cutoff = NoTime, !.lastTrusted = Now]
    BY <1>10 DEF ReleaseToSleeping, AtWorld
  <2> HIDE DEF last
  <2>4. lc'.mode = "Sleeping"
    BY <2>2, <2>3 DEF Lifecycle
  <2> QED
    BY <2>4
<1>11. CASE Drain \/ WakeBackground
  <2>1. host \in Live /\ mem.mode # "Activating"
    BY <1>11 DEF Drain, WakeBackground, Idle, Live
  <2>2. mem.mode = lc.mode
    BY <2>1, WakeKnown DEF SameWake
  <2> QED
    BY <2>1, <2>2
<1> QED
  BY <1>1, <1>2, <1>3, <1>4, <1>6, <1>7, <1>8, <1>9, <1>10, <1>11
  DEF Next, vars, Step, disk, Tick, ClockBack, Crash, Halt, Tear, LoadBoundaries,
      AppendBoundary, SleepWhenIdle, FinishActivation

(* A step adds to the whole lines at most one, of the record's fence; and  *)
(* a process that opens the store takes a fence above all it finds there.  *)
LEMMA HistoryKept ==
    ASSUME StoreInv, [Next]_vars
    PROVE  /\ StartsWith(Lines', Lines)
           /\ Lines' # Lines => Lines'[Len(Lines')].fence = lc.fence
           /\ host' \in {"opening", "waking"} /\ host \notin Live =>
                 lc'.fence > PersistedFence(Lines, snap)
<1>1. /\ Lines \in Seq(Event)
      /\ \/ Lines' = Lines
         \/ \E e \in Event : /\ AppendEvent /\ e.fence = lc.fence
                             /\ Lines' = Append(Lines, e) /\ journal' = Append(Lines, e)
  BY LinesGrow
<1>3. ASSUME NEW e \in Event, e.fence = lc.fence, Lines' = Append(Lines, e)
      PROVE  StartsWith(Lines', Lines) /\ Lines'[Len(Lines')].fence = lc.fence
  <2> DEFINE j == Lines
  <2>1. j \in Seq(Event)
    BY <1>1
  <2> HIDE DEF j
  <2>2. StartsWith(Append(j, e), j) /\ Append(j, e)[Len(Append(j, e))] = e
    BY <2>1 DEF StartsWith
  <2> QED
    BY <1>3, <2>2 DEF j
<1>4. /\ StartsWith(Lines', Lines)
      /\ Lines' # Lines => Lines'[Len(Lines')].fence = lc.fence
  <2>1. CASE Lines' = Lines
    <3>1. StartsWith(Lines, Lines)
      BY <1>1 DEF StartsWith
    <3> QED
      BY <2>1, <3>1
  <2>2. CASE Lines' # Lines
    BY <1>1, <1>3, <2>2
  <2> QED
    BY <2>1, <2>2
<1>5. ASSUME host' \in {"opening", "waking"}, host \notin Live
      PROVE  lc'.fence > PersistedFence(Lines, snap)
  <2>1. Open
    BY <1>5 DEF Next, vars, Step, Tick, ClockBack, Crash, Halt, Tear, Forget, TakeStep, Live,
       LoadBoundaries, RecordHead, LoadWorld, Reconcile, Restore, SaveSnapshot, RecordFrontier,
       ReleaseToSleeping, AppendEvent, AppendBoundary, RecordCommit, Acknowledge,
       EnterBackground, PublishActive, RenewLease, ExecuteIntent, CommitQuantum,
       CommitTransfer, Idle, Drain, SleepWhenIdle, WakeBackground, FinishActivation
  <2>2. lc'.fence = lc.fence + 1
    BY <2>1, OpenedRecord
  <2>3. /\ PersistedFence(Lines, snap) \in Nat /\ PersistedFence(Lines, snap) <= lc.fence
        /\ lc.fence \in Nat
    BY FenceIsRecorded DEF StoreInv, FilesInv
  <2> QED
    BY <2>2, <2>3
<1> QED
  BY <1>4, <1>5

(* Restarts rewrite nothing: accepted events stay where they are and new   *)
(* ones carry the fence of the owner that adds them, above every earlier   *)
(* owner's (append_event, recover_persisted_fencing_frontier); and an      *)
(* interrupted activation keeps its wake cut-off until all that is due by  *)
(* it is committed (open_for_cell_with_clock, activation_step).            *)
THEOREM RestartsRewriteNothingCorrect == Spec => RestartsRewriteNothing
<1>1. StoreInv /\ [Next]_vars =>
         [/\ StartsWith(Lines', Lines)
          /\ Lines' # Lines => Lines'[Len(Lines')].fence = lc.fence
          /\ host' \in {"opening", "waking"} /\ host \notin Live =>
                lc'.fence > PersistedFence(Lines, snap)]_vars
  BY HistoryKept
<1>2. StoreInv /\ JournalTyped /\ [Next]_vars =>
         [lc.mode = "Activating" =>
            /\ lc'.mode = "Activating" => lc'.cutoff = lc.cutoff
            /\ lc'.mode = "Active" =>
                  \/ ImpliedNext(Lines) = NoOccurrence
                  \/ ImpliedNext(Lines).at > lc.cutoff]_vars
  BY WakeKept
<1>3. Spec => HistoryOnlyGrows
  BY <1>1, StoreInvCorrect, PTL DEF Spec, HistoryOnlyGrows
<1>4. Spec => CutoffHonoured
  BY <1>2, StoreInvCorrect, JournalTypedCorrect, PTL DEF Spec, CutoffHonoured
<1> QED
  BY <1>3, <1>4 DEF RestartsRewriteNothing

=============================================================================
