------------------------- MODULE InterestSessionProofs -------------------------
(***************************************************************************)
(* Two properties of InterestSession, for any number of grids, crossings,  *)
(* controls, timeouts and sessions, any radius policy and any budget.      *)
(*                                                                         *)
(* A control composed against one cell's view never runs in another cell   *)
(* (QueuedControlsFail).  Nothing is assumed of the verifier or of what a  *)
(* frame shows: the argument is about the order of the two queues and the  *)
(* route that each frame carries.                                          *)
(*                                                                         *)
(* What the frames say of entities that go is so, and said in time         *)
(* (DeparturesTrue).  The argument is about the two worlds, the evidence   *)
(* that the public bundle carries, and what a cursor has seen of the cell  *)
(* it is projected from.                                                   *)
(***************************************************************************)
EXTENDS InterestSession, SequenceTheorems, TLAPS

-----------------------------------------------------------------------------
(* The invariant.                                                          *)

(* The session of a pilot whose worker hosts both cells: the only one that *)
(* is bound to a route.                                                    *)
Gameplay == twoCell /\ role = "player"

Framed(m) == m.kind \in {"baseline", "delta"}

(* The acknowledgement of the baseline that ends a handoff.                *)
Arrival(m) == m.kind = "ack" /\ m.view.link # NoLink

SessionFields == {"state", "reason", "acked", "resident", "initial", "pending",
                  "superseded", "recoveries", "event", "full", "last", "seen"}
ClientFields == {"verifier", "asked", "route", "refused"}
CursorFields == {"role", "epoch", "delta", "members", "hash", "last", "private", "link"}
PendingFields == {"purpose", "cursor", "route", "overtook"}

IsCursor(c) == DOMAIN c = CursorFields /\ c.epoch \in Nat \ {0} /\ c.link = NoLink

IsQueue(q) == \E S : q \in Seq(S)

(* The shape of the session; a pending frame shows a view.                 *)
SessionShape ==
    /\ DOMAIN session = SessionFields
    /\ IsCursor(session.acked)
    /\ DOMAIN session.pending = PendingFields
    /\ IsCursor(session.pending.cursor)
    /\ \/ session.pending = NoPending
       \/ /\ session.pending.purpose \in {"ordinary", "recovery", "initial", "handoff"}
          /\ session.pending.cursor.hash # NoView

(* Nothing is under way outside a live session, and no handoff in a worker *)
(* with one cell.                                                          *)
Resting ==
    /\ ~Live => down = <<>> /\ up = <<>> /\ session.pending = NoPending
    /\ session.state = "subscribed" =>
          /\ client = NewClient
          /\ session.resident = NoRoute /\ session.initial = NoRoute
          /\ session.acked.hash = NoView
    /\ ~twoCell => handoff = 0 /\ session.seen = 0
    /\ route.gen \in Nat \ {0}

(* A session that is bound to no route.                                    *)
IntentsAfter(k, at) ==
    \A j \in DOMAIN up : j > k /\ up[j].kind = "intent" => up[j].route = at

Unrouted ==
    /\ session.resident = NoRoute /\ session.initial = NoRoute
    /\ session.pending.route = NoRoute
    /\ session.pending.purpose \notin {"initial", "handoff"}
    /\ client.route = NoRoute
    /\ \A i \in DOMAIN down : Framed(down[i]) => down[i].route = NoRoute
    /\ IntentsAfter(0, NoRoute)

(* The phases of a session that is.  Before its first frame is             *)
(* acknowledged it has no permit, and what a client that has acknowledged  *)
(* composes is for the initial route.                                      *)
FramesFor(at) ==
    \A i \in DOMAIN down :
        /\ down[i].kind # "handoff"
        /\ Framed(down[i]) => down[i].route = at

Opening ==
    /\ session.acked.hash = NoView
    /\ session.resident = NoRoute /\ session.initial # NoRoute
    /\ session.initial.gen \in Nat
    /\ session.pending.purpose \in {"none", "initial"}
    /\ session.pending.route =
          IF session.pending.purpose = "initial" THEN session.initial ELSE NoRoute
    /\ FramesFor(session.initial)
    /\ \A i \in DOMAIN down : Framed(down[i]) => down[i].hash.link = NoLink
    /\ \A i \in DOMAIN up : up[i].kind = "ack" =>
          /\ up[i].view.link = NoLink
          /\ client.route = session.initial
          /\ IntentsAfter(i, session.initial)

(* With a permit and no handoff under way, everything is for its route.    *)
Settled ==
    /\ session.acked.hash # NoView
    /\ session.resident # NoRoute /\ session.pending.route = NoRoute
    /\ session.resident.gen \in Nat
    /\ session.pending.purpose \in {"none", "ordinary", "recovery"}
    /\ FramesFor(session.resident)
    /\ \A i \in DOMAIN down : Framed(down[i]) => down[i].hash.link = NoLink
    /\ client.route = session.resident
    /\ IntentsAfter(0, session.resident)
    /\ \A i \in DOMAIN up : ~Arrival(up[i])

(* During a handoff the pilot has left the permitted route.  The baseline  *)
(* of the new one is the last frame sent, and only what the client         *)
(* composes after it follows its acknowledgement.                          *)
Moving ==
    /\ session.acked.hash # NoView
    /\ session.pending.purpose = "handoff"
    /\ session.pending.cursor.hash.link # NoLink
    /\ session.resident.gen \in Nat /\ session.pending.route.gen \in Nat
    /\ session.resident.gen < session.pending.route.gen
    /\ session.pending.route.gen <= route.gen
    /\ session.last = session.pending.route.gen
    /\ \A i \in DOMAIN down : Framed(down[i]) /\ down[i].hash.link # NoLink =>
          /\ down[i].route = session.pending.route
          /\ \A j \in DOMAIN down : j > i => down[j].kind = "receipt"
          /\ \A j \in DOMAIN up : ~Arrival(up[j])
    /\ \A k \in DOMAIN up : Arrival(up[k]) =>
          /\ \A i \in DOMAIN down : down[i].kind = "receipt"
          /\ client.route = session.pending.route
          /\ IntentsAfter(k, session.pending.route)
          /\ \A j \in DOMAIN up : j > k => ~Arrival(up[j])

RoutesInv ==
    /\ ~Gameplay => Unrouted
    /\ Gameplay /\ Live => Opening \/ Settled \/ Moving

SessionInv ==
    /\ SessionShape
    /\ DOMAIN client = ClientFields
    /\ IsQueue(down) /\ IsQueue(up)
    /\ Resting
    /\ RoutesInv
    /\ QueuedControlsFail

-----------------------------------------------------------------------------
(* The two queues.                                                         *)

(* What remains of a queue of which the session may have taken the head.   *)
RestOf(r, q) ==
    /\ IsQueue(r)
    /\ \E k \in {0, 1} : \A i \in DOMAIN r : i + k \in DOMAIN q /\ r[i] = q[i + k]

(* A queue to which nothing but receipts was added.                        *)
Answered(d, q) ==
    \A i \in DOMAIN d : \/ d[i].kind = "receipt"
                        \/ i \in DOMAIN q /\ d[i] = q[i]

(* A queue holds its elements at the first natural numbers (the two        *)
(* channels of websocket_session).                                         *)
LEMMA QueueDomain ==
    ASSUME NEW q, IsQueue(q)
    PROVE  Len(q) \in Nat /\ DOMAIN q = 1..Len(q)
<1>1. PICK S : q \in Seq(S)
  BY DEF IsQueue
<1> QED
  BY <1>1

(* The empty queue of a socket that is closed.                             *)
LEMMA QueueEmpty == IsQueue(<<>>) /\ DOMAIN <<>> = {}
<1>1. <<>> \in Seq({})
  OBVIOUS
<1> QED
  BY <1>1 DEF IsQueue

(* A message is sent at the end of its queue.                              *)
LEMMA QueueAppend ==
    ASSUME NEW q, NEW x, IsQueue(q)
    PROVE  /\ IsQueue(Append(q, x))
           /\ DOMAIN Append(q, x) = 1..(Len(q) + 1)
           /\ Append(q, x)[Len(q) + 1] = x
           /\ \A i \in DOMAIN q : Append(q, x)[i] = q[i]
<1>1. PICK S : q \in Seq(S)
  BY DEF IsQueue
<1> DEFINE T == S \cup {x}
<1>2. q \in Seq(T) /\ x \in T
  BY <1>1
<1> HIDE DEF T
<1>3. Append(q, x) \in Seq(T)
  BY <1>2
<1>4. /\ DOMAIN Append(q, x) = 1..(Len(q) + 1)
      /\ Append(q, x)[Len(q) + 1] = x
      /\ \A i \in DOMAIN q : Append(q, x)[i] = q[i]
  BY <1>2
<1> QED
  BY <1>3, <1>4 DEF IsQueue

(* A message is taken from the head of its queue.                          *)
LEMMA QueueTail ==
    ASSUME NEW q, IsQueue(q), q # <<>>
    PROVE  /\ IsQueue(Tail(q))
           /\ Head(q) = q[1] /\ 1 \in DOMAIN q
           /\ DOMAIN Tail(q) = 1..(Len(q) - 1)
           /\ \A i \in DOMAIN Tail(q) : i + 1 \in DOMAIN q /\ Tail(q)[i] = q[i + 1]
<1>1. PICK S : q \in Seq(S)
  BY DEF IsQueue
<1>2. Tail(q) \in Seq(S) /\ Len(q) \in Nat /\ Len(q) > 0
  BY <1>1
<1>3. /\ Head(q) = q[1] /\ 1 \in DOMAIN q
      /\ DOMAIN Tail(q) = 1..(Len(q) - 1)
      /\ \A i \in DOMAIN Tail(q) : i + 1 \in DOMAIN q /\ Tail(q)[i] = q[i + 1]
  BY <1>1, <1>2
<1> QED
  BY <1>2, <1>3 DEF IsQueue

(* The three phases of a handoff and its baseline are sent together.       *)
LEMMA QueueFour ==
    ASSUME NEW q, NEW a, NEW b, NEW c, NEW d, IsQueue(q)
    PROVE  LET r == q \o <<a, b, c, d>> IN
           /\ IsQueue(r)
           /\ DOMAIN r = 1..(Len(q) + 4)
           /\ r[Len(q) + 1] = a /\ r[Len(q) + 2] = b
           /\ r[Len(q) + 3] = c /\ r[Len(q) + 4] = d
           /\ \A i \in DOMAIN q : r[i] = q[i]
<1>1. PICK S : q \in Seq(S)
  BY DEF IsQueue
<1> DEFINE T == S \cup {a, b, c, d}
           more == <<a, b, c, d>>
           r == q \o more
<1>2. q \in Seq(T) /\ a \in T /\ b \in T /\ c \in T /\ d \in T
  BY <1>1
<1> HIDE DEF T
<1>3. more \in Seq(T) /\ Len(more) = 4
  BY <1>2
<1>4. more[1] = a /\ more[2] = b /\ more[3] = c /\ more[4] = d
  OBVIOUS
<1> HIDE DEF more
<1>5. r \in Seq(T) /\ Len(q) \in Nat
  BY <1>2, <1>3
<1>6. DOMAIN r = 1..(Len(q) + 4)
  <2>1. ASSUME NEW s \in Seq(T), NEW t \in Seq(T)
        PROVE  Len(s \o t) = Len(s) + Len(t)
    BY ConcatProperties
  <2>2. Len(r) = Len(q) + 4
    <3>1. Len(r) = Len(q) + Len(more)
      BY <1>2, <1>3, <2>1
    <3> QED
      BY <1>3, <3>1
  <2> QED
    BY <1>5, <2>2, QueueDomain DEF IsQueue
<1>10. \A i \in 1..(Len(q) + 4) :
          r[i] = IF i <= Len(q) THEN q[i] ELSE more[i - Len(q)]
  <2>1. \A i \in 1..Len(q) + Len(more) :
           r[i] = IF i <= Len(q) THEN q[i] ELSE more[i - Len(q)]
    <3> HIDE DEF r
    <3>1. ASSUME NEW s \in Seq(T), NEW t \in Seq(T), NEW i \in 1..Len(s) + Len(t)
          PROVE  (s \o t)[i] = IF i <= Len(s) THEN s[i] ELSE t[i - Len(s)]
      BY <3>1, ConcatProperties
    <3> QED
      BY <1>2, <1>3, <3>1 DEF r
  <2> QED
    BY <2>1, <1>3
<1>7. \A i \in DOMAIN q : r[i] = q[i]
  <2>1. Len(q) \in Nat /\ DOMAIN q = 1..Len(q)
    BY QueueDomain
  <2> HIDE DEF r
  <2> QED
    BY <2>1, <1>10
<1>8. /\ r[Len(q) + 1] = a /\ r[Len(q) + 2] = b
      /\ r[Len(q) + 3] = c /\ r[Len(q) + 4] = d
  <2> HIDE DEF r
  <2> DEFINE n == Len(q)
  <2>1. n \in Nat
    BY <1>5
  <2> HIDE DEF n
  <2>2. \A i \in 1..(n + 4) : r[i] = IF i <= n THEN q[i] ELSE more[i - n]
    BY <1>10 DEF n
  <2>3. r[n + 1] = more[1] /\ r[n + 2] = more[2] /\ r[n + 3] = more[3] /\ r[n + 4] = more[4]
    BY <2>1, <2>2
  <2> QED
    BY <2>3, <1>4 DEF n
<1>9. IsQueue(r)
  BY <1>5 DEF IsQueue
<1> QED
  BY <1>6, <1>7, <1>8, <1>9 DEF more

(* The session takes one message at a time, or none.                       *)
LEMMA RestSame ==
    ASSUME NEW q, IsQueue(q)
    PROVE  RestOf(q, q)
<1>1. \A i \in DOMAIN q : i + 0 \in DOMAIN q /\ q[i] = q[i + 0]
  BY QueueDomain
<1> QED
  BY <1>1 DEF RestOf

(* The same, when it takes the head.                                       *)
LEMMA RestTail ==
    ASSUME NEW q, IsQueue(q), q # <<>>
    PROVE  RestOf(Tail(q), q)
BY QueueTail DEF RestOf

(* A queue to which nothing was added is answered.                         *)
LEMMA AnsweredSame == ASSUME NEW q PROVE Answered(q, q)
BY DEF Answered

(* A control is answered with a receipt.                                   *)
LEMMA AnsweredReceipt ==
    ASSUME NEW q, IsQueue(q), NEW x, x.kind = "receipt"
    PROVE  Answered(Append(q, x), q)
<1>1. /\ Len(q) \in Nat /\ DOMAIN q = 1..Len(q)
      /\ DOMAIN Append(q, x) = 1..(Len(q) + 1)
      /\ Append(q, x)[Len(q) + 1] = x
      /\ \A i \in DOMAIN q : Append(q, x)[i] = q[i]
  BY QueueAppend, QueueDomain
<1>2. ASSUME NEW i \in DOMAIN Append(q, x), i \notin DOMAIN q
      PROVE  i = Len(q) + 1
  BY <1>1, <1>2
<1> QED
  BY <1>1, <1>2 DEF Answered

-----------------------------------------------------------------------------
(* The projector.  A frame carries the link of the cursor it is projected  *)
(* from, and the cursor that goes with it carries none.                    *)

(* project_interest_frame: what the routes need to know of a frame.        *)
LEMMA FrameMeans ==
    ASSUME NEW c, NEW w, NEW rem, NEW at
    PROVE  LET m == Routed(ProjectFrame(c, w, rem).frame, at) IN
           /\ m.route = at /\ m.hash.link = c.link
           /\ Framed(m) /\ m.kind # "handoff" /\ m.kind # "receipt"
BY DEF Routed, ProjectFrame, Framed

(* project_interest_frame: what they need to know of the next cursor.      *)
LEMMA CursorMeans ==
    ASSUME NEW c, NEW w, NEW rem, DOMAIN c = CursorFields, c.epoch \in Nat \ {0}
    PROVE  LET n == ProjectFrame(c, w, rem).cursor IN
           IsCursor(n) /\ n.hash # NoView /\ n.hash.link = c.link
<1> DEFINE n == ProjectFrame(c, w, rem).cursor
<1>1. /\ DOMAIN n = CursorFields /\ n.link = NoLink /\ n.epoch = c.epoch
      /\ n.hash.link = c.link /\ n.hash.epoch = c.epoch
  BY DEF ProjectFrame, CursorFields
<1>2. NoView.epoch = 0
  BY DEF NoView
<1> HIDE DEF n
<1>3. IsCursor(n) /\ n.hash # NoView /\ n.hash.link = c.link
  BY <1>1, <1>2 DEF IsCursor
<1> QED
  BY <1>3 DEF n

(* A new session's cursor.                                                 *)
LEMMA NewCursorMeans ==
    ASSUME NEW r
    PROVE  IsCursor(NewCursor(r)) /\ NewCursor(r).hash = NoView
BY DEF NewCursor, IsCursor, CursorFields

(* ProjectionCursor::fresh_baseline.                                       *)
LEMMA FreshMeans ==
    ASSUME NEW c, IsCursor(c)
    PROVE  IsCursor(FreshBaseline(c))
BY DEF FreshBaseline, NewCursor, IsCursor, CursorFields

(* ProjectionCursor::fresh_transfer_baseline: the only linked cursor.      *)
LEMMA TransferMeans ==
    ASSUME NEW c, IsCursor(c), NEW t \in Nat \ {0}, NEW cell
    PROVE  LET n == FreshTransferBaseline(c, t, cell) IN
           DOMAIN n = CursorFields /\ n.epoch \in Nat \ {0} /\ n.link # NoLink
<1> DEFINE n == FreshTransferBaseline(c, t, cell)
<1>1. IsCursor(FreshBaseline(c))
  BY FreshMeans
<1>2. /\ DOMAIN n = CursorFields /\ n.epoch = FreshBaseline(c).epoch
      /\ n.link = [transfer |-> t, cell |-> cell]
  BY <1>1 DEF FreshTransferBaseline, IsCursor, CursorFields
<1>3. n.link.transfer = t /\ NoLink.transfer = 0
  BY <1>2 DEF NoLink
<1> HIDE DEF n
<1>4. DOMAIN n = CursorFields /\ n.epoch \in Nat \ {0} /\ n.link # NoLink
  BY <1>1, <1>2, <1>3 DEF IsCursor
<1> QED
  BY <1>4 DEF n

-----------------------------------------------------------------------------
(* What leaves the phases alone.                                           *)

(* The fields of the session that the phases are about.                    *)
SameSession ==
    /\ session'.acked = session.acked /\ session'.resident = session.resident
    /\ session'.initial = session.initial /\ session'.pending = session.pending
    /\ session'.last = session.last

(* A placement generation never goes back (CellDirectory).                 *)
OnlyForward == /\ UNCHANGED <<role, twoCell>>
               /\ route.gen \in Nat /\ route'.gen \in Nat /\ route.gen <= route'.gen

(* The session takes a message or none, and answers with a receipt or not  *)
(* at all: what is composed for a route is still composed for it.          *)
LEMMA IntentsKeep ==
    ASSUME RestOf(up', up), NEW at, IsQueue(up)
    PROVE  IntentsAfter(0, at) => IntentsAfter(0, at)'
<1>1. PICK k \in {0, 1} : \A i \in DOMAIN up' : i + k \in DOMAIN up /\ up'[i] = up[i + k]
  BY DEF RestOf
<1>2. SUFFICES ASSUME IntentsAfter(0, at), NEW j \in DOMAIN up', j > 0, up'[j].kind = "intent"
               PROVE  up'[j].route = at
  BY DEF IntentsAfter
<1>3. j + k \in DOMAIN up /\ up'[j] = up[j + k]
  BY <1>1
<1>4. Len(up) \in Nat /\ DOMAIN up = 1..Len(up)
  BY QueueDomain
<1>5. j + k > 0
  BY <1>3, <1>4
<1> QED
  BY <1>2, <1>3, <1>5 DEF IntentsAfter

(* No step of the world, ignored message or control moves a session into   *)
(* or out of a phase (AppState::advance, execute_as_at).                   *)
LEMMA RoutesKeep ==
    ASSUME SameSession, OnlyForward, client' = client, IsQueue(up),
           RestOf(up', up), Answered(down', down)
    PROVE  /\ Unrouted => Unrouted'
           /\ Opening => Opening'
           /\ Settled => Settled'
           /\ Moving => Moving'
<1> USE DEF SameSession
<1>1. PICK k \in {0, 1} : \A i \in DOMAIN up' : i + k \in DOMAIN up /\ up'[i] = up[i + k]
  BY DEF RestOf
<1>2. /\ Len(up) \in Nat /\ DOMAIN up = 1..Len(up)
      /\ Len(up') \in Nat /\ DOMAIN up' = 1..Len(up')
  <2>1. IsQueue(up')
    BY DEF RestOf
  <2> QED
    BY <2>1, QueueDomain
<1>3. \A i \in DOMAIN down' : Framed(down'[i]) => i \in DOMAIN down /\ down'[i] = down[i]
  BY DEF Answered, Framed
<1>4. \A i \in DOMAIN down' : down'[i].kind = "handoff" => i \in DOMAIN down /\ down'[i] = down[i]
  BY DEF Answered
<1>5. ASSUME NEW at, FramesFor(at)
      PROVE  FramesFor(at)'
  BY <1>3, <1>4, <1>5 DEF FramesFor
<1>6. (\A i \in DOMAIN down : Framed(down[i]) => down[i].hash.link = NoLink)
      => (\A i \in DOMAIN down' : Framed(down'[i]) => down'[i].hash.link = NoLink)
  BY <1>3
<1>7. ASSUME NEW at, NEW i \in DOMAIN up', IntentsAfter(i + k, at)
      PROVE  IntentsAfter(i, at)'
  <2>1. SUFFICES ASSUME NEW j \in DOMAIN up', j > i, up'[j].kind = "intent"
                 PROVE  up'[j].route = at
    BY DEF IntentsAfter
  <2>2. j + k \in DOMAIN up /\ up'[j] = up[j + k] /\ j + k > i + k
    BY <1>1, <1>2, <2>1
  <2> QED
    BY <1>7, <2>1, <2>2 DEF IntentsAfter
<1>8. Unrouted => Unrouted'
  <2>1. SUFFICES ASSUME Unrouted PROVE Unrouted'
    OBVIOUS
  <2>2. IntentsAfter(0, NoRoute)'
    BY <2>1, IntentsKeep DEF Unrouted
  <2>3. \A i \in DOMAIN down' : Framed(down'[i]) => down'[i].route = NoRoute
    BY <1>3, <2>1 DEF Unrouted
  <2> QED
    BY <2>1, <2>2, <2>3 DEF Unrouted
<1>9. Opening => Opening'
  <2>1. SUFFICES ASSUME Opening PROVE Opening'
    OBVIOUS
  <2>2. FramesFor(session.initial)'
    BY <1>5, <2>1 DEF Opening
  <2>3. ASSUME NEW i \in DOMAIN up', up'[i].kind = "ack"
        PROVE  /\ up'[i].view.link = NoLink
               /\ client'.route = session'.initial
               /\ IntentsAfter(i, session.initial)'
    <3>1. i + k \in DOMAIN up /\ up'[i] = up[i + k]
      BY <1>1
    <3>2. up[i + k].view.link = NoLink /\ client.route = session.initial
          /\ IntentsAfter(i + k, session.initial)
      BY <2>1, <2>3, <3>1 DEF Opening
    <3>3. IntentsAfter(i, session.initial)'
      BY <1>7, <3>2
    <3> QED
      BY <3>1, <3>2, <3>3
  <2> QED
    BY <1>6, <2>1, <2>2, <2>3 DEF Opening, IntentsAfter, FramesFor
<1>10. Settled => Settled'
  <2>1. SUFFICES ASSUME Settled PROVE Settled'
    OBVIOUS
  <2>2. FramesFor(session.resident)'
    BY <1>5, <2>1 DEF Settled
  <2>3. IntentsAfter(0, session.resident)'
    BY <2>1, IntentsKeep DEF Settled
  <2>4. \A i \in DOMAIN up' : ~Arrival(up'[i])
    BY <1>1, <2>1 DEF Settled
  <2> QED
    BY <1>6, <2>1, <2>2, <2>3, <2>4 DEF Settled, IntentsAfter, FramesFor
<1>11. Moving => Moving'
  <2>1. SUFFICES ASSUME Moving PROVE Moving'
    OBVIOUS
  <2>2. session.pending.route.gen <= route'.gen
    BY <2>1 DEF Moving, OnlyForward
  <2>3. ASSUME NEW i \in DOMAIN down', Framed(down'[i]), down'[i].hash.link # NoLink
        PROVE  /\ down'[i].route = session.pending.route
               /\ \A j \in DOMAIN down' : j > i => down'[j].kind = "receipt"
               /\ \A j \in DOMAIN up' : ~Arrival(up'[j])
    <3>1. i \in DOMAIN down /\ down'[i] = down[i]
      BY <1>3, <2>3
    <3>2. /\ down[i].route = session.pending.route
          /\ \A j \in DOMAIN down : j > i => down[j].kind = "receipt"
          /\ \A j \in DOMAIN up : ~Arrival(up[j])
      BY <2>1, <2>3, <3>1 DEF Moving
    <3>3. \A j \in DOMAIN down' : j > i => down'[j].kind = "receipt"
      BY <3>2 DEF Answered
    <3>4. \A j \in DOMAIN up' : ~Arrival(up'[j])
      BY <1>1, <3>2
    <3> QED
      BY <3>1, <3>2, <3>3, <3>4
  <2>4. ASSUME NEW i \in DOMAIN up', Arrival(up'[i])
        PROVE  /\ \A j \in DOMAIN down' : down'[j].kind = "receipt"
               /\ client'.route = session.pending.route
               /\ IntentsAfter(i, session.pending.route)'
               /\ \A j \in DOMAIN up' : j > i => ~Arrival(up'[j])
    <3>1. i + k \in DOMAIN up /\ Arrival(up[i + k])
      BY <1>1, <2>4
    <3>2. /\ \A j \in DOMAIN down : down[j].kind = "receipt"
          /\ client.route = session.pending.route
          /\ IntentsAfter(i + k, session.pending.route)
          /\ \A j \in DOMAIN up : j > i + k => ~Arrival(up[j])
      BY <2>1, <3>1 DEF Moving
    <3>3. \A j \in DOMAIN down' : down'[j].kind = "receipt"
      BY <3>2 DEF Answered
    <3>4. IntentsAfter(i, session.pending.route)'
      BY <1>7, <3>2
    <3>5. \A j \in DOMAIN up' : j > i => ~Arrival(up'[j])
      BY <1>1, <1>2, <3>2
    <3> QED
      BY <3>2, <3>3, <3>4, <3>5
  <2>5. \A i \in DOMAIN down' : Framed(down'[i]) /\ down'[i].hash.link # NoLink =>
          /\ down'[i].route = session'.pending.route
          /\ \A j \in DOMAIN down' : j > i => down'[j].kind = "receipt"
          /\ \A j \in DOMAIN up' : ~Arrival(up'[j])
    BY <2>3
  <2>6. \A i \in DOMAIN up' : Arrival(up'[i]) =>
          /\ \A j \in DOMAIN down' : down'[j].kind = "receipt"
          /\ client'.route = session'.pending.route
          /\ IntentsAfter(i, session.pending.route)'
          /\ \A j \in DOMAIN up' : j > i => ~Arrival(up'[j])
    BY <2>4
  <2>7. session'.resident.gen < session'.pending.route.gen
    BY <2>1 DEF Moving
  <2> QED
    BY <2>1, <2>2, <2>5, <2>6, <2>7 DEF Moving, IntentsAfter
<1> QED
  BY <1>8, <1>9, <1>10, <1>11

-----------------------------------------------------------------------------
(* SessionTransport: closing and staging.                                  *)

(* What neither closing nor staging changes of the session.                *)
SameAs(s) ==
    /\ DOMAIN session' = SessionFields
    /\ session'.acked = s.acked /\ session'.resident = s.resident
    /\ session'.initial = s.initial /\ session'.last = s.last /\ session'.seen = s.seen

Closed(s) ==
    /\ SameAs(s) /\ session'.state = "closed" /\ session'.pending = NoPending
    /\ down' = <<>> /\ up' = <<>>

Stays(s, rest) ==
    /\ SameAs(s) /\ session'.state = s.state /\ session'.pending = s.pending
    /\ up' = rest /\ UNCHANGED down

Staged(s, fresh, rest) ==
    /\ SameAs(s) /\ session'.state = s.state
    /\ DOMAIN session'.pending = PendingFields
    /\ IsCursor(session'.pending.cursor) /\ session'.pending.cursor.hash # NoView
    /\ session'.pending.purpose = Purpose(s, fresh)
    /\ session'.pending.route = IF Purpose(s, fresh) = "initial" THEN s.initial ELSE NoRoute
    /\ up' = rest
    /\ \E m : /\ down' = Append(down, m)
              /\ Framed(m) /\ m.kind # "handoff"
              /\ m.route = StageRoute(s) /\ m.hash.link = NoLink

(* Every way out of the session task leaves nothing behind.                *)
LEMMA CloseMeans ==
    ASSUME NEW s, NEW r, DOMAIN s = SessionFields, Close(s, r)
    PROVE  Closed(s)
BY DEF Close, Closed, SameAs, SessionFields

(* The placeholder of a session without a pending frame.                   *)
LEMMA NoPendingMeans ==
    /\ DOMAIN NoPending = PendingFields /\ IsCursor(NoPending.cursor)
    /\ NoPending.purpose = "none" /\ NoPending.route = NoRoute
<1>1. IsCursor(NewCursor("spectator"))
  BY NewCursorMeans
<1> QED
  BY <1>1 DEF NoPending, PendingFields

(* stage: the session is closed, keeps its view because its route is       *)
(* stale, or sends the next frame through the route it is bound to.        *)
LEMMA StageMeans ==
    ASSUME NEW s, NEW fresh \in BOOLEAN, NEW rest, Stage(s, fresh, rest),
           DOMAIN s = SessionFields, IsCursor(s.acked), IsCursor(s.pending.cursor)
    PROVE  Closed(s) \/ Stays(s, rest) \/ Staged(s, fresh, rest)
<1> DEFINE at == StageRoute(s)
           candidate == Candidate(s, fresh)
           next == Superseding(s, fresh)
           p == ProjectFrame(candidate, Projected(at).world, Projected(at).removals)
           m == Routed(p.frame, at)
           purpose == Purpose(s, fresh)
           bound == IF purpose = "initial" THEN s.initial ELSE NoRoute
<1>1. /\ DOMAIN next = SessionFields
      /\ next.acked = s.acked /\ next.resident = s.resident /\ next.initial = s.initial
      /\ next.last = s.last /\ next.seen = s.seen /\ next.state = s.state
      /\ next.pending = s.pending
  BY DEF Superseding, SessionFields
<1>2. IsCursor(candidate)
  <2>1. CASE ~fresh
    BY <2>1 DEF Candidate
  <2>2. CASE fresh
    BY <2>2, FreshMeans DEF Candidate
  <2> QED
    BY <2>1, <2>2
<1>3. /\ IsCursor(p.cursor) /\ p.cursor.hash # NoView
      /\ m.route = at /\ m.hash.link = NoLink /\ Framed(m) /\ m.kind # "handoff"
  <2> HIDE DEF candidate, at
  <2>1. DOMAIN candidate = CursorFields /\ candidate.epoch \in Nat \ {0}
        /\ candidate.link = NoLink
    BY <1>2 DEF IsCursor
  <2>2. IsCursor(p.cursor) /\ p.cursor.hash # NoView
    BY <2>1, CursorMeans
  <2>3. m.route = at /\ m.hash.link = NoLink /\ Framed(m) /\ m.kind # "handoff"
    BY <2>1, FrameMeans
  <2> QED
    BY <2>2, <2>3
<1>4. \/ session' = next /\ up' = rest /\ UNCHANGED down
      \/ Close(next, "projection_failed")
      \/ /\ session' = [Pending(next, p.cursor, purpose, bound)
                          EXCEPT !.event = p.frame.seq, !.full = p.frame.seq]
         /\ down' = Append(down, m) /\ up' = rest
  BY Zenon DEF Stage
<1> HIDE DEF at, candidate, next, m
<1>5. CASE session' = next /\ up' = rest /\ UNCHANGED down
  BY <1>1, <1>5 DEF Stays, SameAs
<1>6. CASE Close(next, "projection_failed")
  <2>1. Closed(next)
    BY <1>1, <1>6, CloseMeans
  <2> QED
    BY <1>1, <2>1 DEF Closed, SameAs
<1>7. CASE /\ session' = [Pending(next, p.cursor, purpose, bound)
                            EXCEPT !.event = p.frame.seq, !.full = p.frame.seq]
           /\ down' = Append(down, m) /\ up' = rest
  <2> HIDE DEF p, purpose, bound
  <2>1. /\ DOMAIN session' = SessionFields
        /\ session'.acked = next.acked /\ session'.resident = next.resident
        /\ session'.initial = next.initial /\ session'.last = next.last
        /\ session'.seen = next.seen /\ session'.state = next.state
    BY <1>1, <1>7 DEF Pending, SessionFields
  <2>2. session'.pending = [purpose |-> purpose, cursor |-> p.cursor, route |-> bound,
                            overtook |-> purpose = "handoff" /\ next.pending.purpose = "recovery"]
    BY <1>1, <1>7 DEF Pending, SessionFields
  <2>3. /\ DOMAIN session'.pending = PendingFields
        /\ session'.pending.cursor = p.cursor
        /\ session'.pending.purpose = purpose /\ session'.pending.route = bound
    BY <2>2 DEF PendingFields
  <2>4. SameAs(s) /\ session'.state = s.state
    BY <1>1, <2>1 DEF SameAs
  <2>5. /\ session'.pending.purpose = Purpose(s, fresh)
        /\ session'.pending.route = IF Purpose(s, fresh) = "initial" THEN s.initial ELSE NoRoute
    BY <2>3 DEF purpose, bound
  <2>6. IsCursor(session'.pending.cursor) /\ session'.pending.cursor.hash # NoView
    BY <1>3, <2>3
  <2>7. /\ down' = Append(down, m)
        /\ Framed(m) /\ m.kind # "handoff"
        /\ m.route = StageRoute(s) /\ m.hash.link = NoLink
    BY <1>3, <1>7 DEF at
  <2> QED
    BY <1>7, <2>3, <2>4, <2>5, <2>6, <2>7 DEF Staged
<1> QED
  BY <1>4, <1>5, <1>6, <1>7

(* A closed session is bound to nothing.                                   *)
LEMMA ClosedKeeps ==
    ASSUME SessionInv, NEW s, Closed(s), IsCursor(s.acked), DOMAIN client' = ClientFields,
           UNCHANGED <<role, twoCell, route, handoff, executed>>,
           ~twoCell => s.seen = 0,
           ~Gameplay => /\ s.resident = NoRoute /\ s.initial = NoRoute
                        /\ client'.route = NoRoute
    PROVE  SessionInv'
<1>1. SessionShape'
  BY NoPendingMeans DEF SessionShape, Closed, SameAs
<1>2. IsQueue(down)' /\ IsQueue(up)'
  BY QueueEmpty DEF Closed
<1>3. Resting'
  BY DEF SessionInv, Resting, Closed, SameAs, Live
<1>4. RoutesInv'
  <2>1. ~Live'
    BY DEF Closed, Live
  <2>2. DOMAIN down' = {} /\ DOMAIN up' = {}
    BY QueueEmpty DEF Closed
  <2>3. ASSUME ~Gameplay PROVE Unrouted'
    BY <2>2, <2>3, NoPendingMeans DEF Closed, SameAs, Unrouted, IntentsAfter
  <2> QED
    BY <2>1, <2>3 DEF RoutesInv, Gameplay
<1>5. QueuedControlsFail'
  BY DEF SessionInv, QueuedControlsFail
<1> QED
  BY <1>1, <1>2, <1>3, <1>4, <1>5 DEF SessionInv

(* What leaves the session alone keeps the invariant.                      *)
LEMMA StaysKeeps ==
    ASSUME SessionInv, OnlyForward, SameSession, DOMAIN session' = SessionFields,
           session'.state = session.state, client' = client,
           IsQueue(down'), RestOf(up', up), Answered(down', down),
           ~Live => down' = <<>> /\ up' = <<>>,
           route'.gen # 0, ~twoCell => handoff' = 0 /\ session'.seen = 0,
           QueuedControlsFail'
    PROVE  SessionInv'
<1>1. SessionShape'
  BY DEF SessionInv, SessionShape, SameSession
<1>2. IsQueue(up)' /\ DOMAIN client' = ClientFields
  BY DEF RestOf, SessionInv
<1>3. Resting'
  <2>1. ~Live' => down' = <<>> /\ up' = <<>> /\ session'.pending = NoPending
    BY DEF SessionInv, Resting, Live, SameSession
  <2>2. NewClient' = NewClient
    BY DEF NewClient
  <2>3. session'.state = "subscribed" =>
           /\ client' = NewClient'
           /\ session'.resident = NoRoute /\ session'.initial = NoRoute
           /\ session'.acked.hash = NoView
    BY <2>2 DEF SessionInv, Resting, SameSession
  <2>4. ~twoCell' => handoff' = 0 /\ session'.seen = 0
    BY DEF OnlyForward
  <2>5. route'.gen \in Nat \ {0}
    BY DEF OnlyForward
  <2> QED
    BY <2>1, <2>3, <2>4, <2>5 DEF Resting
<1>4. RoutesInv'
  <2>1. Gameplay' = Gameplay /\ Live' = Live
    BY DEF OnlyForward, Gameplay, Live
  <2>2. /\ (Unrouted => Unrouted') /\ (Opening => Opening')
        /\ (Settled => Settled') /\ (Moving => Moving')
    BY RoutesKeep DEF SessionInv
  <2> QED
    BY <2>1, <2>2 DEF SessionInv, RoutesInv
<1> QED
  BY <1>1, <1>2, <1>3, <1>4 DEF SessionInv

(* Staging keeps it outside a handoff: the next frame is for the route the *)
(* session is bound to, and carries no link.                               *)
LEMMA StageKeeps ==
    ASSUME SessionInv, Live, UNCHANGED <<role, twoCell, route, handoff, client, executed>>,
           session.pending.purpose # "handoff",
           NEW s, DOMAIN s = SessionFields, NEW fresh \in BOOLEAN, NEW rest,
           s.acked = session.acked, s.resident = session.resident,
           s.initial = session.initial, s.pending = session.pending,
           s.last = session.last, s.seen = session.seen, s.state = session.state,
           RestOf(rest, up), Stage(s, fresh, rest)
    PROVE  SessionInv'
<1>1. IsCursor(s.acked) /\ IsCursor(s.pending.cursor)
  BY DEF SessionInv, SessionShape
<1>2. Closed(s) \/ Stays(s, rest) \/ Staged(s, fresh, rest)
  BY <1>1, StageMeans
<1>3. ASSUME Closed(s) PROVE SessionInv'
  <2>1. DOMAIN client' = ClientFields /\ (~twoCell => s.seen = 0)
    BY DEF SessionInv, Resting
  <2>2. ~Gameplay => s.resident = NoRoute /\ s.initial = NoRoute /\ client'.route = NoRoute
    BY DEF SessionInv, RoutesInv, Unrouted
  <2> QED
    BY <1>1, <1>3, <2>1, <2>2, ClosedKeeps
<1>4. OnlyForward /\ route'.gen # 0
  BY DEF OnlyForward, SessionInv, Resting
<1>5. ~twoCell => handoff' = 0 /\ session.seen = 0
  BY DEF SessionInv, Resting
<1>6. QueuedControlsFail'
  BY DEF SessionInv, QueuedControlsFail
<1>7. ASSUME Stays(s, rest) PROVE SessionInv'
  <2>1. SameSession /\ DOMAIN session' = SessionFields /\ session'.state = session.state
    BY <1>7 DEF Stays, SameAs, SameSession
  <2>2. IsQueue(down') /\ RestOf(up', up) /\ Answered(down', down)
    BY <1>7, AnsweredSame DEF Stays, SessionInv
  <2>3. session'.seen = session.seen /\ client' = client
    BY <1>7 DEF Stays, SameAs
  <2> QED
    BY <1>4, <1>5, <1>6, <2>1, <2>2, <2>3, StaysKeeps
<1>8. ASSUME Staged(s, fresh, rest) PROVE SessionInv'
  <2>1. PICK m : /\ down' = Append(down, m)
                 /\ Framed(m) /\ m.kind # "handoff"
                 /\ m.route = StageRoute(s) /\ m.hash.link = NoLink
    BY <1>8 DEF Staged
  <2>2. IsQueue(down) /\ IsQueue(up) /\ IsQueue(up') /\ DOMAIN client' = ClientFields
    BY <1>8 DEF Staged, SessionInv, RestOf
  <2>3. IsQueue(down')
    BY <2>1, <2>2, QueueAppend
  <2>4. \A i \in DOMAIN down' : down'[i] = m \/ (i \in DOMAIN down /\ down'[i] = down[i])
    <3>1. /\ Len(down) \in Nat /\ DOMAIN down = 1..Len(down)
          /\ DOMAIN down' = 1..(Len(down) + 1) /\ down'[Len(down) + 1] = m
          /\ \A i \in DOMAIN down : down'[i] = down[i]
      BY <2>1, <2>2, QueueAppend, QueueDomain
    <3>2. ASSUME NEW i \in DOMAIN down', i \notin DOMAIN down PROVE i = Len(down) + 1
      BY <3>1, <3>2
    <3> QED
      BY <3>1, <3>2
  <2>5. Purpose(s, fresh) \in {"ordinary", "recovery", "initial"}
    BY DEF Purpose
  <2>6. SessionShape'
    BY <1>1, <1>8, <2>5 DEF SessionShape, Staged, SameAs
  <2>7. Live' /\ session'.state = "live" /\ Gameplay' = Gameplay
    BY <1>8 DEF Staged, Live, Gameplay
  <2>8. Resting'
    BY <1>4, <1>5, <1>8, <2>7 DEF Resting, Staged, SameAs, OnlyForward
  <2>9. PICK k \in {0, 1} : \A i \in DOMAIN up' : i + k \in DOMAIN up /\ up'[i] = up[i + k]
    BY <1>8 DEF Staged, RestOf
  <2>10. /\ Len(up) \in Nat /\ DOMAIN up = 1..Len(up)
         /\ Len(up') \in Nat /\ DOMAIN up' = 1..Len(up')
    BY <2>2, QueueDomain
  <2>11. RestOf(up', up)
    BY <1>8 DEF Staged
  <2>12. ASSUME NEW at, NEW i \in DOMAIN up', IntentsAfter(i + k, at)
         PROVE  IntentsAfter(i, at)'
    <3>1. SUFFICES ASSUME NEW j \in DOMAIN up', j > i, up'[j].kind = "intent"
                   PROVE  up'[j].route = at
      BY DEF IntentsAfter
    <3>2. j + k \in DOMAIN up /\ up'[j] = up[j + k] /\ j + k > i + k
      BY <2>9, <2>10, <3>1
    <3> QED
      BY <2>12, <3>1, <3>2 DEF IntentsAfter
  <2>13. ASSUME ~Gameplay PROVE Unrouted'
    <3>1. Unrouted
      BY <2>13 DEF SessionInv, RoutesInv
    <3>2. Purpose(s, fresh) # "initial" /\ StageRoute(s) = NoRoute
      BY <3>1 DEF Unrouted, Purpose, StageRoute
    <3>3. IntentsAfter(0, NoRoute)'
      BY <2>2, <2>11, <3>1, IntentsKeep DEF Unrouted
    <3>4. \A i \in DOMAIN down' : Framed(down'[i]) => down'[i].route = NoRoute
      BY <2>1, <2>4, <3>1, <3>2 DEF Unrouted
    <3> QED
      BY <1>8, <2>5, <3>1, <3>2, <3>3, <3>4 DEF Unrouted, Staged, SameAs
  <2>14. ASSUME Opening PROVE Opening'
    <3>1. Purpose(s, fresh) = "initial" /\ StageRoute(s) = session.initial
      BY <2>14 DEF Opening, Purpose, StageRoute
    <3>2. FramesFor(session.initial)'
      <4>1. session'.initial = session.initial
        BY <1>8 DEF Staged, SameAs
      <4> QED
        BY <2>1, <2>4, <2>14, <3>1, <4>1 DEF Opening, FramesFor
    <3>3. \A i \in DOMAIN down' : Framed(down'[i]) => down'[i].hash.link = NoLink
      BY <2>1, <2>4, <2>14 DEF Opening
    <3>4. ASSUME NEW i \in DOMAIN up', up'[i].kind = "ack"
          PROVE  /\ up'[i].view.link = NoLink
                 /\ client'.route = session.initial
                 /\ IntentsAfter(i, session.initial)'
      <4>1. i + k \in DOMAIN up /\ up'[i] = up[i + k]
        BY <2>9
      <4>2. up[i + k].view.link = NoLink /\ client.route = session.initial
            /\ IntentsAfter(i + k, session.initial)
        BY <2>14, <3>4, <4>1 DEF Opening
      <4>3. session'.initial = session.initial
        BY <1>8 DEF Staged, SameAs
      <4>4. IntentsAfter(i, session.initial)'
        BY <2>12, <4>2, <4>3
      <4> QED
        BY <4>1, <4>2, <4>4
    <3>5. /\ session'.initial = session.initial /\ session'.acked = session.acked
          /\ session'.resident = session.resident
          /\ session'.pending.purpose = "initial" /\ session'.pending.route = session.initial
      BY <1>8, <3>1 DEF Staged, SameAs
    <3> QED
      BY <2>14, <3>2, <3>3, <3>4, <3>5 DEF Opening, IntentsAfter, FramesFor
  <2>15. ASSUME Settled PROVE Settled'
    <3>1. Purpose(s, fresh) \in {"ordinary", "recovery"} /\ StageRoute(s) = session.resident
      BY <2>15 DEF Settled, Purpose, StageRoute
    <3>2. FramesFor(session.resident)'
      <4>1. session'.resident = session.resident
        BY <1>8 DEF Staged, SameAs
      <4> QED
        BY <2>1, <2>4, <2>15, <3>1, <4>1 DEF Settled, FramesFor
    <3>3. \A i \in DOMAIN down' : Framed(down'[i]) => down'[i].hash.link = NoLink
      BY <2>1, <2>4, <2>15 DEF Settled
    <3>4. \A i \in DOMAIN up' : ~Arrival(up'[i])
      BY <2>9, <2>15 DEF Settled
    <3>5. /\ session'.acked = session.acked /\ session'.resident = session.resident
          /\ session'.pending.purpose \in {"ordinary", "recovery"}
          /\ session'.pending.route = NoRoute
      BY <1>8, <3>1 DEF Staged, SameAs
    <3>6. IntentsAfter(0, session.resident)'
      BY <2>2, <2>11, <2>15, <3>5, IntentsKeep DEF Settled
    <3> QED
      BY <2>15, <3>2, <3>3, <3>4, <3>5, <3>6 DEF Settled, IntentsAfter, FramesFor
  <2>16. RoutesInv'
    <3>1. Gameplay => Opening \/ Settled
      BY DEF SessionInv, RoutesInv, Moving
    <3> QED
      BY <2>7, <2>13, <2>14, <2>15, <3>1 DEF RoutesInv
  <2> QED
    BY <1>6, <2>2, <2>3, <2>6, <2>8, <2>16 DEF SessionInv
<1> QED
  BY <1>2, <1>3, <1>7, <1>8

-----------------------------------------------------------------------------
(* The steps.                                                              *)

(* A step of the world leaves the session, the client and their queues     *)
(* alone; a crossing takes the pilot to the next placement.                *)
LEMMA WorldKeeps ==
    ASSUME SessionInv, WorldStep
    PROVE  SessionInv'
<1>1. UNCHANGED <<role, twoCell, session, client, down, up, executed>>
  BY DEF WorldStep, Move, Restructure, Cross
<1>2. route.gen \in Nat \ {0} /\ (~twoCell => handoff = 0 /\ session.seen = 0)
  BY DEF SessionInv, Resting
<1>3. (UNCHANGED <<route, handoff>>) \/ (twoCell /\ route'.gen = route.gen + 1)
  <2>1. ASSUME NEW cell, NEW e, NEW zone, Move(cell, e, zone) PROVE UNCHANGED <<route, handoff>>
    BY <2>1 DEF Move
  <2>2. ASSUME NEW g, NEW destroyed, Restructure(g, destroyed) PROVE UNCHANGED <<route, handoff>>
    BY <2>2 DEF Restructure
  <2>3. ASSUME Cross PROVE twoCell /\ route'.gen = route.gen + 1
    <3>1. twoCell /\ route' = [cell |-> Other(route.cell), gen |-> route.gen + 1]
      BY <2>3, Zenon DEF Cross
    <3> QED
      BY <3>1
  <2> QED
    BY <2>1, <2>2, <2>3, Zenon DEF WorldStep
<1>4. /\ OnlyForward /\ route'.gen # 0
      /\ ~twoCell => handoff' = 0 /\ session'.seen = 0
  <2>1. CASE UNCHANGED <<route, handoff>>
    BY <1>1, <1>2, <2>1 DEF OnlyForward
  <2>2. CASE twoCell /\ route'.gen = route.gen + 1
    BY <1>1, <1>2, <2>2 DEF OnlyForward
  <2> QED
    BY <1>3, <2>1, <2>2
<1>5. SameSession /\ DOMAIN session' = SessionFields /\ session'.state = session.state
  BY <1>1 DEF SameSession, SessionInv, SessionShape
<1>6. IsQueue(down') /\ RestOf(up', up) /\ Answered(down', down)
  BY <1>1, AnsweredSame, RestSame DEF SessionInv
<1>7. QueuedControlsFail' /\ (~Live => down' = <<>> /\ up' = <<>>)
  BY <1>1 DEF SessionInv, QueuedControlsFail, Resting
<1> QED
  BY <1>1, <1>4, <1>5, <1>6, <1>7, StaysKeeps

(* What permit_recovery and a staged frame need of the session's record.   *)
LEMMA PermitMeans ==
    ASSUME NEW s, NEW elapsed, DOMAIN s = SessionFields
    PROVE  LET t == Permit(s, elapsed) IN
           /\ DOMAIN t = SessionFields
           /\ t.acked = s.acked /\ t.resident = s.resident /\ t.initial = s.initial
           /\ t.pending = s.pending /\ t.last = s.last /\ t.seen = s.seen /\ t.state = s.state
BY DEF Permit, SessionFields

(* Closing a session from where it stands.                                 *)
LEMMA CloseKeeps ==
    ASSUME SessionInv, NEW r, Close(session, r), DOMAIN client' = ClientFields,
           UNCHANGED <<role, twoCell, route, handoff, executed>>,
           ~Gameplay => client'.route = NoRoute
    PROVE  SessionInv'
<1>1. Closed(session) /\ IsCursor(session.acked)
  BY CloseMeans DEF SessionInv, SessionShape
<1>2. ~twoCell => session.seen = 0
  BY DEF SessionInv, Resting
<1>3. ~Gameplay => session.resident = NoRoute /\ session.initial = NoRoute
  BY DEF SessionInv, RoutesInv, Unrouted
<1> QED
  BY <1>1, <1>2, <1>3, ClosedKeeps

(* An acknowledgement that is overdue closes a recovery or a handoff, and  *)
(* otherwise starts a recovery.                                            *)
LEMMA TimeoutKeeps ==
    ASSUME SessionInv, AckTimeout
    PROVE  SessionInv'
<1>1. Live /\ UNCHANGED <<role, twoCell, route, handoff, client, executed>>
  BY DEF AckTimeout, hostVars
<1>2. ASSUME Close(session, "interest_ack_timeout") PROVE SessionInv'
  <2>1. DOMAIN client' = ClientFields /\ (~Gameplay => client'.route = NoRoute)
    BY <1>1 DEF SessionInv, RoutesInv, Unrouted
  <2> QED
    BY <1>1, <1>2, <2>1, CloseKeeps
<1>3. ASSUME ~RecoveryPending(session), Stage(Permit(session, TRUE), TRUE, up) PROVE SessionInv'
  <2> DEFINE s == Permit(session, TRUE)
  <2>1. /\ DOMAIN s = SessionFields
        /\ s.acked = session.acked /\ s.resident = session.resident
        /\ s.initial = session.initial /\ s.pending = session.pending
        /\ s.last = session.last /\ s.seen = session.seen /\ s.state = session.state
    BY PermitMeans DEF SessionInv, SessionShape
  <2>2. session.pending.purpose # "handoff"
    BY <1>3 DEF RecoveryPending
  <2>3. RestOf(up, up) /\ Stage(s, TRUE, up)
    BY <1>3, RestSame DEF SessionInv
  <2> HIDE DEF s
  <2> QED
    BY <1>1, <2>1, <2>2, <2>3, StageKeeps
<1> QED
  BY <1>2, <1>3 DEF AckTimeout

(* A frame is sent when none is pending and something is newer.            *)
LEMMA ReplicationKeeps ==
    ASSUME SessionInv, ReplicationTick
    PROVE  SessionInv'
<1>1. Live /\ UNCHANGED <<role, twoCell, route, handoff, client, executed>>
  BY DEF ReplicationTick, hostVars
<1>2. session.pending.purpose # "handoff" /\ Stage(session, FALSE, up)
  BY NoPendingMeans DEF ReplicationTick, Awaiting
<1>3. RestOf(up, up) /\ DOMAIN session = SessionFields
  BY RestSame DEF SessionInv, SessionShape
<1> QED
  BY <1>1, <1>2, <1>3, StageKeeps

(* A message that has arrived is at the head of a queue.                   *)
LEMMA ArrivedMeans ==
    ASSUME SessionInv, NEW kind, Arrived(kind)
    PROVE  /\ Live /\ up # <<>> /\ Head(up).kind = kind /\ Head(up) = up[1]
           /\ 1 \in DOMAIN up /\ IsQueue(Tail(up)) /\ RestOf(Tail(up), up)
BY QueueTail, RestTail DEF Arrived, SessionInv

(* A message that is taken and otherwise ignored.                          *)
LEMMA IgnoredKeeps ==
    ASSUME SessionInv, NEW kind, Arrived(kind), up' = Tail(up), session' = session, down' = down,
           UNCHANGED <<role, twoCell, route, handoff, client, executed>>
    PROVE  SessionInv'
<1>1. Live /\ RestOf(up', up)
  BY ArrivedMeans
<1>2. OnlyForward /\ route'.gen # 0 /\ (~twoCell => handoff' = 0 /\ session'.seen = 0)
  BY DEF OnlyForward, SessionInv, Resting
<1>3. /\ SameSession /\ DOMAIN session' = SessionFields /\ session'.state = session.state
      /\ IsQueue(down') /\ Answered(down', down) /\ QueuedControlsFail'
  BY AnsweredSame DEF SameSession, SessionInv, SessionShape, QueuedControlsFail
<1> QED
  BY <1>1, <1>2, <1>3, StaysKeeps

(* A recovery that is permitted restages from where the session stands.    *)
LEMMA RecoveryKeeps ==
    ASSUME SessionInv, NEW kind, Arrived(kind), ~RecoveryPending(session),
           Stage(Permit(session, FALSE), TRUE, Tail(up)),
           UNCHANGED <<role, twoCell, route, handoff, client, executed>>
    PROVE  SessionInv'
<1> DEFINE s == Permit(session, FALSE)
<1>1. /\ DOMAIN s = SessionFields
      /\ s.acked = session.acked /\ s.resident = session.resident
      /\ s.initial = session.initial /\ s.pending = session.pending
      /\ s.last = session.last /\ s.seen = session.seen /\ s.state = session.state
  BY PermitMeans DEF SessionInv, SessionShape
<1>2. session.pending.purpose # "handoff"
  BY DEF RecoveryPending
<1>3. Live /\ RestOf(Tail(up), up) /\ Stage(s, TRUE, Tail(up))
  BY ArrivedMeans
<1> HIDE DEF s
<1> QED
  BY <1>1, <1>2, <1>3, StageKeeps

(* An acknowledgement of nothing the session knows: a recovery, or the end.*)
LEMMA ForeignKeeps ==
    ASSUME SessionInv, OnForeignAcknowledge
    PROVE  SessionInv'
<1>1. Arrived("ack") /\ UNCHANGED <<role, twoCell, route, handoff, client, executed>>
  BY DEF OnForeignAcknowledge, ForeignAck, hostVars
<1>2. \/ Close(session, "interest_recovery_rate_limited")
      \/ ~RecoveryPending(session) /\ Stage(Permit(session, FALSE), TRUE, Tail(up))
  BY DEF OnForeignAcknowledge
<1>3. DOMAIN client' = ClientFields /\ (~Gameplay => client'.route = NoRoute)
  BY <1>1 DEF SessionInv, RoutesInv, Unrouted
<1> QED
  BY <1>1, <1>2, <1>3, CloseKeeps, RecoveryKeeps

(* A request for a snapshot: ignored, refused, or a recovery.              *)
LEMMA RequestKeeps ==
    ASSUME SessionInv, OnRequestSnapshot
    PROVE  SessionInv'
<1>1. Arrived("request") /\ UNCHANGED <<role, twoCell, route, handoff, client, executed>>
  BY DEF OnRequestSnapshot, hostVars
<1>2. \/ up' = Tail(up) /\ session' = session /\ down' = down
      \/ Close(session, "interest_recovery_rate_limited")
      \/ ~RecoveryPending(session) /\ Stage(Permit(session, FALSE), TRUE, Tail(up))
  BY DEF OnRequestSnapshot
<1>3. DOMAIN client' = ClientFields /\ (~Gameplay => client'.route = NoRoute)
  BY <1>1 DEF SessionInv, RoutesInv, Unrouted
<1> QED
  BY <1>1, <1>2, <1>3, CloseKeeps, RecoveryKeeps, IgnoredKeeps

(* A control runs where the session is permitted to act, which is where it *)
(* was composed: the phases in which a client composes for another route   *)
(* than the permitted one are those in which nothing is executed.          *)
LEMMA IntentKeeps ==
    ASSUME SessionInv, OnIntent
    PROVE  SessionInv'
<1>1. /\ Arrived("intent") /\ up' = Tail(up)
      /\ UNCHANGED <<role, twoCell, route, handoff, session, client>>
  BY DEF OnIntent
<1>2. /\ Live /\ RestOf(up', up) /\ Head(up) = up[1] /\ Head(up).kind = "intent"
      /\ 1 \in DOMAIN up
  BY <1>1, ArrivedMeans
<1>3. IsQueue(down') /\ Answered(down', down)
  <2> DEFINE x == [kind |-> "receipt"]
  <2>1. down' = Append(down, x) /\ x.kind = "receipt" /\ IsQueue(down)
    BY DEF OnIntent, SessionInv
  <2> HIDE DEF x
  <2> QED
    BY <2>1, QueueAppend, AnsweredReceipt
<1>4. OnlyForward /\ route'.gen # 0 /\ (~twoCell => handoff' = 0 /\ session'.seen = 0)
  BY <1>1 DEF OnlyForward, SessionInv, Resting
<1>5. SameSession /\ DOMAIN session' = SessionFields /\ session'.state = session.state
  BY <1>1 DEF SameSession, SessionInv, SessionShape
<1>6. QueuedControlsFail'
  <2>1. \/ executed' = executed
        \/ /\ Executes(session)
           /\ executed' = [composed |-> Head(up).route, at |-> IF twoCell THEN route ELSE NoRoute]
    BY DEF OnIntent
  <2>2. ASSUME executed' = executed PROVE QueuedControlsFail'
    BY <2>2 DEF SessionInv, QueuedControlsFail
  <2>3. ASSUME Executes(session),
               executed' = [composed |-> Head(up).route, at |-> IF twoCell THEN route ELSE NoRoute]
        PROVE  QueuedControlsFail'
    <3>1. ASSUME NEW at, IntentsAfter(0, at) PROVE Head(up).route = at
      BY <1>2, <3>1 DEF IntentsAfter
    <3>2. CASE ~twoCell
      <4>1. IntentsAfter(0, NoRoute)
        BY <3>2 DEF SessionInv, RoutesInv, Gameplay, Unrouted
      <4> QED
        BY <2>3, <3>1, <3>2, <4>1 DEF QueuedControlsFail
    <3>3. CASE twoCell
      <4>1. Gameplay /\ session.resident = route
        BY <2>3, <3>3 DEF Executes, Gameplay
      <4>2. Opening \/ Settled \/ Moving
        BY <1>2, <4>1 DEF SessionInv, RoutesInv
      <4>3. ~Opening
        <5>1. route.gen # NoRoute.gen
          BY DEF SessionInv, Resting, NoRoute
        <5> QED
          BY <4>1, <5>1 DEF Opening
      <4>4. ~Moving
        <5>1. route.gen \in Nat
          BY DEF SessionInv, Resting
        <5> QED
          BY <4>1, <5>1 DEF Moving
      <4>5. IntentsAfter(0, route)
        BY <4>1, <4>2, <4>3, <4>4 DEF Settled
      <4> QED
        BY <2>3, <3>1, <3>3, <4>5 DEF QueuedControlsFail
    <3> QED
      BY <3>2, <3>3
  <2> QED
    BY <2>1, <2>2, <2>3
<1> QED
  BY <1>1, <1>2, <1>3, <1>4, <1>5, <1>6, StaysKeeps

(* An acknowledgement of the pending frame: the first baseline or that of  *)
(* a handoff gives the permit for its route, and by then everything that   *)
(* follows in the queues is for that route.                                *)
LEMMA AcknowledgeKeeps ==
    ASSUME SessionInv, OnAcknowledge
    PROVE  SessionInv'
<1>1. Arrived("ack") /\ UNCHANGED <<role, twoCell, route, handoff, client, executed>>
  BY DEF OnAcknowledge, hostVars
<1>2. ASSUME UNCHANGED <<session, down>>, up' = Tail(up) PROVE SessionInv'
  BY <1>1, <1>2, IgnoredKeeps
<1>3. ASSUME Awaiting(session), Head(up).view = session.pending.cursor.hash,
             session' = Acknowledged(session), up' = Tail(up), UNCHANGED down
      PROVE  SessionInv'
  <2>1. /\ Live /\ RestOf(up', up) /\ Head(up) = up[1] /\ up[1].kind = "ack"
        /\ 1 \in DOMAIN up /\ IsQueue(up) /\ IsQueue(up') /\ up # <<>>
    BY <1>1, <1>3, ArrivedMeans DEF SessionInv
  <2>2. /\ DOMAIN session = SessionFields /\ IsCursor(session.pending.cursor)
        /\ session.pending.purpose \in {"ordinary", "recovery", "initial", "handoff"}
        /\ session.pending.cursor.hash # NoView
    BY <1>3 DEF SessionInv, SessionShape, Awaiting
  <2>3. /\ DOMAIN session' = SessionFields
        /\ session'.acked = session.pending.cursor /\ session'.pending = NoPending
        /\ session'.initial = session.initial /\ session'.state = session.state
        /\ session'.seen = session.seen
        /\ session'.resident = IF session.pending.purpose \in {"initial", "handoff"}
                               THEN session.pending.route ELSE session.resident
    BY <1>3, <2>2 DEF Acknowledged, SessionFields
  <2>4. SessionShape'
    BY <2>2, <2>3, NoPendingMeans DEF SessionShape
  <2>5. Live' /\ session'.state = "live" /\ Gameplay' = Gameplay
    BY <1>1, <2>1, <2>3 DEF Live, Gameplay
  <2>6. Resting'
    BY <1>1, <2>3, <2>5 DEF Resting, SessionInv
  <2>7. \A i \in DOMAIN up' : i + 1 \in DOMAIN up /\ up'[i] = up[i + 1] /\ i \in Nat \ {0}
    <3>1. DOMAIN up' = 1..(Len(up) - 1) /\ Len(up) \in Nat
      BY <1>3, <2>1, QueueTail, QueueDomain
    <3>2. \A i \in DOMAIN up' : i + 1 \in DOMAIN up /\ up'[i] = up[i + 1]
      BY <1>3, <2>1, QueueTail
    <3> QED
      BY <3>1, <3>2
  <2>8. ASSUME NEW at, IntentsAfter(1, at) PROVE IntentsAfter(0, at)'
    <3>1. SUFFICES ASSUME NEW j \in DOMAIN up', j > 0, up'[j].kind = "intent"
                   PROVE  up'[j].route = at
      BY DEF IntentsAfter
    <3>2. j + 1 \in DOMAIN up /\ up'[j] = up[j + 1] /\ j + 1 > 1
      BY <2>7, <3>1
    <3> QED
      BY <2>8, <3>1, <3>2 DEF IntentsAfter
  <2>9. ASSUME ~Gameplay PROVE Unrouted'
    <3>1. Unrouted
      BY <2>9 DEF SessionInv, RoutesInv
    <3>2. IntentsAfter(0, NoRoute)'
      BY <2>1, <3>1, IntentsKeep DEF Unrouted
    <3> QED
      BY <1>1, <1>3, <2>3, <3>1, <3>2, NoPendingMeans DEF Unrouted
  <2>10. session'.acked.hash # NoView /\ session'.pending.route = NoRoute
         /\ session'.pending.purpose = "none"
    BY <2>2, <2>3, NoPendingMeans
  <2>11. ASSUME Opening PROVE Settled'
    <3>1. session.pending.purpose = "initial"
      BY <2>2, <2>11 DEF Opening
    <3>2. session'.resident = session.initial
      BY <2>3, <2>11, <3>1 DEF Opening
    <3>3. client.route = session.initial /\ IntentsAfter(1, session.initial)
      BY <2>1, <2>11 DEF Opening
    <3>4. IntentsAfter(0, session.resident)'
      BY <2>8, <3>2, <3>3
    <3>5. FramesFor(session.resident)'
      BY <1>3, <2>11, <3>2 DEF Opening, FramesFor
    <3>6. \A i \in DOMAIN up' : ~Arrival(up'[i])
      BY <2>7, <2>11 DEF Opening, Arrival
    <3>7. session'.resident # NoRoute /\ session'.resident.gen \in Nat
      BY <2>11, <3>2 DEF Opening
    <3>8. \A i \in DOMAIN down' : Framed(down'[i]) => down'[i].hash.link = NoLink
      BY <1>3, <2>11 DEF Opening
    <3> QED
      BY <1>1, <2>10, <3>2, <3>3, <3>4, <3>5, <3>6, <3>7, <3>8
      DEF Settled, IntentsAfter, FramesFor
  <2>12. ASSUME Settled PROVE Settled'
    <3>1. session'.resident = session.resident
      BY <2>2, <2>3, <2>12 DEF Settled
    <3>2. IntentsAfter(0, session.resident)'
      BY <2>1, <2>12, <3>1, IntentsKeep DEF Settled
    <3>3. FramesFor(session.resident)'
      BY <1>3, <2>12, <3>1 DEF Settled, FramesFor
    <3>4. \A i \in DOMAIN up' : ~Arrival(up'[i])
      BY <2>7, <2>12 DEF Settled
    <3> QED
      BY <1>1, <1>3, <2>10, <2>12, <3>1, <3>2, <3>3, <3>4 DEF Settled, IntentsAfter, FramesFor
  <2>13. ASSUME Moving PROVE Settled'
    <3>1. Arrival(up[1])
      BY <1>3, <2>1, <2>13 DEF Moving, Arrival
    <3>2. /\ \A i \in DOMAIN down : down[i].kind = "receipt"
          /\ client.route = session.pending.route
          /\ IntentsAfter(1, session.pending.route)
          /\ \A j \in DOMAIN up : j > 1 => ~Arrival(up[j])
      BY <2>1, <2>13, <3>1 DEF Moving
    <3>3. session'.resident = session.pending.route
      BY <2>3, <2>13 DEF Moving
    <3>4. session'.resident # NoRoute /\ session'.resident.gen \in Nat
      BY <2>13, <3>3 DEF Moving, NoRoute
    <3>5. IntentsAfter(0, session.resident)'
      BY <2>8, <3>2, <3>3
    <3>6. \A i \in DOMAIN down' : down'[i].kind # "handoff" /\ ~Framed(down'[i])
      BY <1>3, <3>2 DEF Framed
    <3>7. \A i \in DOMAIN up' : ~Arrival(up'[i])
      BY <2>7, <3>2
    <3> QED
      BY <1>1, <2>10, <3>2, <3>3, <3>4, <3>5, <3>6, <3>7 DEF Settled, IntentsAfter, FramesFor
  <2>14. RoutesInv'
    BY <2>1, <2>5, <2>9, <2>11, <2>12, <2>13 DEF RoutesInv, SessionInv
  <2>15. QueuedControlsFail' /\ IsQueue(down)' /\ DOMAIN client' = ClientFields
    BY <1>1, <1>3 DEF SessionInv, QueuedControlsFail
  <2> QED
    BY <2>1, <2>4, <2>6, <2>14, <2>15 DEF SessionInv
<1> QED
  BY <1>2, <1>3 DEF OnAcknowledge

(* A completed transfer of the pilot: only a session that is settled on    *)
(* the placement before it begins a handoff, and any other is closed.      *)
LEMMA HandoffKeeps ==
    ASSUME SessionInv, OnHandoff
    PROVE  SessionInv'
<1> DEFINE s == [session EXCEPT !.seen = handoff]
           candidate == FreshTransferBaseline(s.acked, handoff, route.cell)
           p == ProjectFrame(candidate, world[route.cell], {})
           next == [s EXCEPT !.superseded = s.pending.cursor.hash, !.last = handoff,
                             !.event = p.frame.seq, !.full = p.frame.seq]
           m == Routed(p.frame, route)
<1>1. /\ Live /\ session.seen # handoff
      /\ UNCHANGED <<role, twoCell, route, handoff, client, executed>>
  BY DEF OnHandoff, hostVars
<1>2. \/ session' = s /\ UNCHANGED <<down, up>>
      \/ Close(s, "handoff_route_discontinuity")
      \/ /\ handoff # s.last /\ TransferContinues(s)
         /\ session' = Pending(next, p.cursor, "handoff", route)
         /\ down' = down \o <<Phase("preparing"), Phase("importing"), Phase("verifying"), m>>
         /\ UNCHANGED up
  BY Zenon DEF OnHandoff
<1>3. /\ DOMAIN s = SessionFields /\ s.acked = session.acked /\ s.resident = session.resident
      /\ s.initial = session.initial /\ s.pending = session.pending /\ s.last = session.last
      /\ s.state = session.state /\ s.seen = handoff
  BY DEF SessionInv, SessionShape, SessionFields
<1>4. IsCursor(s.acked) /\ (~twoCell => s.seen = 0) /\ route.gen \in Nat \ {0}
  BY <1>3 DEF SessionInv, SessionShape, Resting
<1> HIDE DEF s, p, m
<1>5. ASSUME session' = s, UNCHANGED <<down, up>> PROVE SessionInv'
  <2>1. OnlyForward /\ route'.gen # 0 /\ (~twoCell => handoff' = 0 /\ session'.seen = 0)
    BY <1>1, <1>3, <1>4, <1>5 DEF OnlyForward, SessionInv, Resting
  <2>2. SameSession /\ DOMAIN session' = SessionFields /\ session'.state = session.state
    BY <1>3, <1>5 DEF SameSession
  <2>3. IsQueue(down') /\ RestOf(up', up) /\ Answered(down', down)
    BY <1>5, AnsweredSame, RestSame DEF SessionInv
  <2>4. QueuedControlsFail'
    BY <1>1 DEF SessionInv, QueuedControlsFail
  <2> QED
    BY <1>1, <2>1, <2>2, <2>3, <2>4, StaysKeeps
<1>6. ASSUME Close(s, "handoff_route_discontinuity") PROVE SessionInv'
  <2>1. Closed(s)
    BY <1>3, <1>6, CloseMeans
  <2>2. DOMAIN client' = ClientFields
    BY <1>1 DEF SessionInv
  <2>3. ~Gameplay => s.resident = NoRoute /\ s.initial = NoRoute /\ client'.route = NoRoute
    BY <1>1, <1>3 DEF SessionInv, RoutesInv, Unrouted
  <2> QED
    BY <1>1, <1>4, <2>1, <2>2, <2>3, ClosedKeeps
<1>7. ASSUME handoff # s.last, TransferContinues(s),
             session' = Pending(next, p.cursor, "handoff", route),
             down' = down \o <<Phase("preparing"), Phase("importing"), Phase("verifying"), m>>,
             UNCHANGED up
      PROVE  SessionInv'
  <2>1. /\ session.acked.hash # NoView /\ session.resident # NoRoute
        /\ session.resident.gen + 1 = handoff /\ handoff = route.gen
    BY <1>3, <1>7 DEF TransferContinues
  <2>2. Gameplay
    BY <2>1 DEF SessionInv, RoutesInv, Unrouted
  <2>3. Settled
    <3>1. ~Opening
      BY <2>1 DEF Opening
    <3>2. ~Moving
      BY <1>3, <1>4, <1>7, <2>1 DEF Moving
    <3> QED
      BY <1>1, <2>2, <3>1, <3>2 DEF SessionInv, RoutesInv
  <2>4. handoff \in Nat \ {0}
    BY <1>4, <2>1
  <2>5. /\ DOMAIN candidate = CursorFields /\ candidate.epoch \in Nat \ {0}
        /\ candidate.link # NoLink
    BY <1>4, <2>4, TransferMeans
  <2>6. /\ IsCursor(p.cursor) /\ p.cursor.hash # NoView /\ p.cursor.hash.link # NoLink
    <3> HIDE DEF candidate
    <3> QED
      BY <2>5, CursorMeans DEF p
  <2>7. m.route = route
    <3> DEFINE frame == p.frame
    <3>1. m = Routed(frame, route)
      BY DEF m
    <3> HIDE DEF frame
    <3>2. Routed(frame, route).route = route
      BY DEF Routed
    <3> QED
      BY <3>1, <3>2
  <2>8. /\ DOMAIN next = SessionFields /\ next.acked = session.acked
        /\ next.resident = session.resident /\ next.initial = session.initial
        /\ next.state = session.state /\ next.seen = handoff /\ next.last = handoff
    BY <1>3 DEF SessionFields
  <2> HIDE DEF next, candidate
  <2>9. /\ DOMAIN session' = SessionFields /\ session'.acked = session.acked
        /\ session'.resident = session.resident /\ session'.initial = session.initial
        /\ session'.state = session.state /\ session'.seen = handoff /\ session'.last = handoff
    BY <1>7, <2>8 DEF Pending, SessionFields
  <2>10. session'.pending = [purpose |-> "handoff", cursor |-> p.cursor, route |-> route,
                             overtook |-> next.pending.purpose = "recovery"]
    BY <1>7, <2>8 DEF Pending, SessionFields
  <2>11. /\ DOMAIN session'.pending = PendingFields /\ session'.pending.purpose = "handoff"
         /\ session'.pending.cursor = p.cursor /\ session'.pending.route = route
    BY <2>10 DEF PendingFields
  <2>12. SessionShape'
    BY <1>3, <1>4, <2>6, <2>9, <2>11 DEF SessionShape
  <2>13. Live' /\ session'.state = "live" /\ Gameplay'
    BY <1>1, <2>2, <2>9 DEF Live, Gameplay
  <2>14. Resting'
    BY <1>1, <2>9, <2>13, <1>4 DEF Resting, SessionInv, Gameplay
  <2>15. /\ IsQueue(down) /\ IsQueue(up') /\ DOMAIN client' = ClientFields
         /\ QueuedControlsFail'
    BY <1>1, <1>7 DEF SessionInv, QueuedControlsFail
  <2>16. /\ IsQueue(down')
         /\ DOMAIN down' = 1..(Len(down) + 4)
         /\ down'[Len(down) + 1] = Phase("preparing") /\ down'[Len(down) + 2] = Phase("importing")
         /\ down'[Len(down) + 3] = Phase("verifying") /\ down'[Len(down) + 4] = m
         /\ \A i \in DOMAIN down : down'[i] = down[i]
    BY <1>7, <2>15, QueueFour
  <2>17. Len(down) \in Nat /\ DOMAIN down = 1..Len(down)
    BY <2>15, QueueDomain
  <2>18. ASSUME NEW i \in DOMAIN down', Framed(down'[i]), down'[i].hash.link # NoLink
         PROVE  i = Len(down) + 4
    <3>1. CASE i \in DOMAIN down
      BY <2>3, <2>16, <2>18, <3>1 DEF Settled
    <3>2. CASE i \notin DOMAIN down /\ i # Len(down) + 4
      <4>1. i = Len(down) + 1 \/ i = Len(down) + 2 \/ i = Len(down) + 3
        BY <2>16, <2>17, <3>2
      <4>2. \A phase : ~Framed(Phase(phase))
        BY DEF Framed, Phase
      <4> QED
        BY <2>16, <2>18, <4>1, <4>2
    <3> QED
      BY <3>1, <3>2
  <2>19. \A i \in DOMAIN down' : Framed(down'[i]) /\ down'[i].hash.link # NoLink =>
            /\ down'[i].route = session'.pending.route
            /\ \A j \in DOMAIN down' : j > i => down'[j].kind = "receipt"
            /\ \A j \in DOMAIN up' : ~Arrival(up'[j])
    <3>1. \A j \in DOMAIN up' : ~Arrival(up'[j])
      BY <1>7, <2>3 DEF Settled
    <3>2. \A j \in DOMAIN down' : ~(j > Len(down) + 4)
      BY <2>16, <2>17
    <3> QED
      BY <2>7, <2>11, <2>16, <2>18, <3>1, <3>2
  <2>20. \A k \in DOMAIN up' : ~Arrival(up'[k])
    BY <1>7, <2>3 DEF Settled
  <2>21. /\ session'.resident.gen \in Nat /\ session'.pending.route.gen \in Nat
         /\ session'.resident.gen < session'.pending.route.gen
         /\ session'.pending.route.gen <= route'.gen
         /\ session'.last = session'.pending.route.gen
    BY <1>1, <1>4, <2>1, <2>3, <2>9, <2>11 DEF Settled
  <2>22. /\ session'.acked.hash # NoView /\ session'.pending.purpose = "handoff"
         /\ session'.pending.cursor.hash.link # NoLink
    BY <2>1, <2>6, <2>9, <2>11
  <2>23. Moving'
    BY <2>19, <2>20, <2>21, <2>22 DEF Moving
  <2>24. RoutesInv'
    BY <2>13, <2>23 DEF RoutesInv
  <2> QED
    BY <2>12, <2>14, <2>15, <2>16, <2>24 DEF SessionInv
<1> QED
  BY <1>2, <1>5, <1>6, <1>7

(* A new session: nothing is under way, and the client knows no route.     *)
LEMMA SubscribeKeeps ==
    ASSUME SessionInv, Subscribe
    PROVE  SessionInv'
<1> DEFINE n == NewSession("subscribed")
<1>1. /\ session' = [n EXCEPT !.seen = handoff] /\ client' = NewClient
      /\ UNCHANGED <<role, twoCell, route, handoff, executed, down, up>> /\ ~Live
  BY DEF Subscribe, hostVars, Live
<1>2. /\ DOMAIN n = SessionFields /\ n.acked = NewCursor(role) /\ n.pending = NoPending
      /\ n.resident = NoRoute /\ n.initial = NoRoute /\ n.state = "subscribed"
  BY DEF NewSession, SessionFields
<1> HIDE DEF n
<1>3. /\ DOMAIN session' = SessionFields /\ session'.acked = NewCursor(role)
      /\ session'.pending = NoPending /\ session'.resident = NoRoute
      /\ session'.initial = NoRoute /\ session'.seen = handoff
      /\ session'.state = "subscribed"
  BY <1>1, <1>2 DEF SessionFields
<1>4. IsCursor(NewCursor(role)) /\ NewCursor(role).hash = NoView
  BY NewCursorMeans
<1>5. DOMAIN client' = ClientFields /\ client'.route = NoRoute /\ client' = NewClient'
  BY <1>1 DEF NewClient, ClientFields
<1>6. down' = <<>> /\ up' = <<>>
  BY <1>1 DEF SessionInv, Resting
<1>7. SessionShape'
  BY <1>3, <1>4, NoPendingMeans DEF SessionShape
<1>8. Resting'
  BY <1>1, <1>3, <1>4, <1>5, <1>6 DEF Resting, SessionInv
<1>9. Unrouted' /\ ~Live'
  BY <1>3, <1>5, <1>6, NoPendingMeans, QueueEmpty DEF Unrouted, IntentsAfter, Live
<1>10. IsQueue(down)' /\ IsQueue(up)' /\ QueuedControlsFail'
  BY <1>1, <1>6, QueueEmpty DEF SessionInv, QueuedControlsFail
<1> QED
  BY <1>5, <1>7, <1>8, <1>9, <1>10 DEF SessionInv, RoutesInv

(* The first three messages: a pilot of a worker with both cells is bound  *)
(* to the route it has then, anyone else to none.                          *)
LEMMA BootstrapKeeps ==
    ASSUME SessionInv, Bootstrap
    PROVE  SessionInv'
<1> DEFINE at == IF twoCell /\ role = "player" THEN route ELSE NoRoute
           fresh == [session EXCEPT !.initial = at, !.last = IF at = NoRoute THEN 0 ELSE handoff]
           c == NewCursor(role)
           p == ProjectFrame(c, Projected(at).world, Projected(at).removals)
           purpose == IF at = NoRoute THEN "ordinary" ELSE "initial"
           m == Routed(p.frame, at)
           welcome == [kind |-> "welcome", role |-> role]
           registry == [kind |-> "registry"]
<1>1. /\ session.state = "subscribed"
      /\ UNCHANGED <<role, twoCell, route, handoff, client, executed>>
  BY DEF Bootstrap, hostVars
<1>2. \/ Close(fresh, "projection_failed")
      \/ /\ session' = [Pending(fresh, p.cursor, purpose, at)
                          EXCEPT !.state = "live", !.event = p.frame.seq, !.full = p.frame.seq]
         /\ down' = <<welcome, registry, m>>
         /\ UNCHANGED up
  BY Zenon DEF Bootstrap
<1>3. /\ DOMAIN session = SessionFields /\ IsCursor(session.acked) /\ ~Live
      /\ session.acked.hash = NoView /\ session.resident = NoRoute
      /\ client = NewClient /\ up = <<>> /\ route.gen \in Nat \ {0}
      /\ ~twoCell => handoff = 0 /\ session.seen = 0
  BY <1>1 DEF SessionInv, SessionShape, Resting, Live
<1>4. /\ DOMAIN fresh = SessionFields /\ fresh.acked = session.acked
      /\ fresh.resident = NoRoute /\ fresh.initial = at /\ fresh.seen = session.seen
  BY <1>3 DEF SessionFields
<1>5. DOMAIN client' = ClientFields /\ client'.route = NoRoute
  BY <1>1, <1>3 DEF NewClient, ClientFields
<1>6. (~Gameplay => at = NoRoute) /\ (Gameplay => at = route /\ at # NoRoute)
  <2>1. NoRoute.gen = 0
    BY DEF NoRoute
  <2> QED
    BY <1>3, <2>1 DEF Gameplay
<1> HIDE DEF at, fresh
<1>7. ASSUME Close(fresh, "projection_failed") PROVE SessionInv'
  <2>1. Closed(fresh)
    BY <1>4, <1>7, CloseMeans
  <2> QED
    BY <1>1, <1>3, <1>4, <1>5, <1>6, <2>1, ClosedKeeps
<1>8. ASSUME session' = [Pending(fresh, p.cursor, purpose, at)
                           EXCEPT !.state = "live", !.event = p.frame.seq, !.full = p.frame.seq],
             down' = <<welcome, registry, m>>,
             UNCHANGED up
      PROVE  SessionInv'
  <2>1. DOMAIN c = CursorFields /\ c.epoch \in Nat \ {0} /\ c.link = NoLink
    BY NewCursorMeans DEF IsCursor
  <2>2. IsCursor(p.cursor) /\ p.cursor.hash # NoView
    <3> HIDE DEF c
    <3> QED
      BY <2>1, CursorMeans DEF p
  <2>3. m.hash.link = NoLink /\ m.route = at /\ Framed(m) /\ m.kind # "handoff"
    <3> HIDE DEF c
    <3> DEFINE w == Projected(at).world
               gone == Projected(at).removals
    <3>1. m = Routed(ProjectFrame(c, w, gone).frame, at)
      OBVIOUS
    <3> HIDE DEF w, gone, m, p
    <3> QED
      BY <2>1, <3>1, FrameMeans
  <2> HIDE DEF c, p, m, purpose
  <2>4. /\ DOMAIN session' = SessionFields /\ session'.acked = session.acked
        /\ session'.resident = NoRoute /\ session'.initial = at
        /\ session'.state = "live" /\ session'.seen = session.seen
    BY <1>4, <1>8 DEF Pending, SessionFields
  <2>5. session'.pending = [purpose |-> purpose, cursor |-> p.cursor, route |-> at,
                            overtook |-> purpose = "handoff" /\ fresh.pending.purpose = "recovery"]
    BY <1>4, <1>8 DEF Pending, SessionFields
  <2>6. /\ DOMAIN session'.pending = PendingFields /\ session'.pending.cursor = p.cursor
        /\ session'.pending.purpose = purpose /\ session'.pending.route = at
    BY <2>5 DEF PendingFields
  <2>7. purpose = IF at = NoRoute THEN "ordinary" ELSE "initial"
    BY DEF purpose
  <2>8. SessionShape'
    BY <1>3, <2>2, <2>4, <2>6, <2>7 DEF SessionShape
  <2>9. Live' /\ Gameplay' = Gameplay
    BY <1>1, <2>4 DEF Live, Gameplay
  <2>10. Resting'
    BY <1>1, <1>3, <2>4, <2>9 DEF Resting
  <2>11. IsQueue(up)' /\ up' = <<>> /\ DOMAIN up' = {} /\ QueuedControlsFail'
    BY <1>1, <1>3, <1>8, QueueEmpty DEF SessionInv, QueuedControlsFail
  <2>12. welcome.kind = "welcome" /\ registry.kind = "registry"
    OBVIOUS
  <2> HIDE DEF welcome, registry
  <2>13. IsQueue(down)'
    <3>1. down' \in Seq({welcome, registry, m})
      BY <1>8
    <3> QED
      BY <3>1 DEF IsQueue
  <2>14. \A i \in DOMAIN down' : down'[i] = welcome \/ down'[i] = registry \/ down'[i] = m
    BY <1>8
  <2>15. \A i \in DOMAIN down' : /\ down'[i].kind # "handoff"
                                 /\ Framed(down'[i]) => down'[i].route = at
                                                        /\ down'[i].hash.link = NoLink
    BY <2>3, <2>12, <2>14 DEF Framed
  <2>16. ASSUME ~Gameplay PROVE Unrouted'
    BY <1>5, <1>6, <2>4, <2>6, <2>7, <2>11, <2>15, <2>16 DEF Unrouted, IntentsAfter
  <2>17. ASSUME Gameplay PROVE Opening'
    <3>1. at # NoRoute /\ at.gen \in Nat /\ purpose = "initial"
      BY <1>3, <1>6, <2>7, <2>17
    <3>2. FramesFor(session.initial)'
      BY <2>4, <2>15 DEF FramesFor
    <3> QED
      BY <1>3, <2>4, <2>6, <2>11, <2>15, <3>1, <3>2 DEF Opening, FramesFor
  <2>18. RoutesInv'
    BY <2>9, <2>16, <2>17 DEF RoutesInv
  <2> QED
    BY <1>5, <2>8, <2>10, <2>11, <2>13, <2>18 DEF SessionInv
<1> QED
  BY <1>2, <1>7, <1>8

(* What the client's messages add to the queue to the server.              *)
Adds(x) ==
    /\ IsQueue(up')
    /\ \A i \in DOMAIN up : i \in DOMAIN up' /\ up'[i] = up[i]
    /\ \A j \in DOMAIN up' : \/ j \in DOMAIN up /\ up'[j] = up[j]
                             \/ /\ j \notin DOMAIN up /\ up'[j] = x
                                /\ \A i \in DOMAIN up' : i <= j

(* A message of the client goes to the end of its queue.                   *)
LEMMA AddsMeans ==
    ASSUME NEW x, IsQueue(up), up' = Append(up, x)
    PROVE  Adds(x)
<1>1. /\ Len(up) \in Nat /\ DOMAIN up = 1..Len(up) /\ IsQueue(up')
      /\ DOMAIN up' = 1..(Len(up) + 1) /\ up'[Len(up) + 1] = x
      /\ \A i \in DOMAIN up : up'[i] = up[i]
  BY QueueAppend, QueueDomain
<1>2. ASSUME NEW j \in DOMAIN up', j \notin DOMAIN up PROVE j = Len(up) + 1
  BY <1>1, <1>2
<1>3. \A i \in DOMAIN up : i \in DOMAIN up' /\ up'[i] = up[i]
  BY <1>1
<1>4. \A j \in DOMAIN up' : \/ j \in DOMAIN up /\ up'[j] = up[j]
                            \/ /\ j \notin DOMAIN up /\ up'[j] = x
                               /\ \A i \in DOMAIN up' : i <= j
  BY <1>1, <1>2
<1> QED
  BY <1>1, <1>3, <1>4 DEF Adds

(* What was composed after an element of the queue is for a route, if what *)
(* is added is.                                                            *)
LEMMA AddsIntents ==
    ASSUME NEW x, Adds(x), NEW k, NEW at, IntentsAfter(k, at),
           x.kind = "intent" => x.route = at
    PROVE  IntentsAfter(k, at)'
BY DEF Adds, IntentsAfter

(* What a step of the client leaves alone.                                 *)
ServerSame == UNCHANGED <<role, twoCell, route, handoff, session, executed>>

(* The client asks or composes: what it composes is for the route it shows.*)
LEMMA SendsKeep ==
    ASSUME SessionInv, Live, ServerSame, DOMAIN client' = ClientFields,
           client'.route = client.route, RestOf(down', down), NEW x, Adds(x),
           x.kind = "request" \/ (x.kind = "intent" /\ x.route = client.route)
    PROVE  SessionInv'
<1> USE DEF ServerSame
<1>1. SessionShape' /\ IsQueue(down)' /\ IsQueue(up)' /\ QueuedControlsFail'
  BY DEF SessionInv, SessionShape, RestOf, Adds, QueuedControlsFail
<1>2. Resting'
  BY DEF SessionInv, Resting, Live
<1>3. PICK k \in {0, 1} : \A i \in DOMAIN down' : i + k \in DOMAIN down /\ down'[i] = down[i + k]
  BY DEF RestOf
<1>4. \A i \in DOMAIN down' : i \in Nat
  BY <1>1, QueueDomain
<1>5. Live' /\ Gameplay' = Gameplay
  BY DEF Live, Gameplay
<1>6. ~Arrival(x) /\ x.kind # "ack"
  BY DEF Arrival
<1>7. \A j \in DOMAIN up' : up'[j].kind = "ack" => j \in DOMAIN up /\ up'[j] = up[j]
  BY <1>6 DEF Adds
<1>8. \A j \in DOMAIN up' : Arrival(up'[j]) => j \in DOMAIN up /\ up'[j] = up[j]
  BY <1>6 DEF Adds
<1>9. ASSUME NEW at, FramesFor(at) PROVE FramesFor(at)'
  BY <1>3, <1>9 DEF FramesFor
<1>10. ASSUME Unrouted PROVE Unrouted'
  <2>1. IntentsAfter(0, NoRoute)'
    BY <1>10, AddsIntents DEF Unrouted
  <2> QED
    BY <1>3, <1>10, <2>1 DEF Unrouted
<1>11. ASSUME Opening PROVE Opening'
  <2>1. FramesFor(session.initial)'
    BY <1>9, <1>11 DEF Opening
  <2>2. ASSUME NEW i \in DOMAIN up', up'[i].kind = "ack"
        PROVE  /\ up'[i].view.link = NoLink
               /\ client'.route = session.initial
               /\ IntentsAfter(i, session.initial)'
    <3>1. /\ up'[i].view.link = NoLink /\ client.route = session.initial
          /\ IntentsAfter(i, session.initial)
      BY <1>7, <1>11, <2>2 DEF Opening
    <3> QED
      BY <3>1, AddsIntents
  <2>3. \A i \in DOMAIN down' : Framed(down'[i]) => down'[i].hash.link = NoLink
    BY <1>3, <1>11 DEF Opening
  <2> QED
    BY <1>11, <2>1, <2>2, <2>3 DEF Opening, FramesFor, IntentsAfter
<1>12. ASSUME Settled PROVE Settled'
  <2>1. FramesFor(session.resident)'
    BY <1>9, <1>12 DEF Settled
  <2>2. IntentsAfter(0, session.resident)'
    BY <1>12, AddsIntents DEF Settled
  <2>3. \A i \in DOMAIN down' : Framed(down'[i]) => down'[i].hash.link = NoLink
    BY <1>3, <1>12 DEF Settled
  <2>4. \A j \in DOMAIN up' : ~Arrival(up'[j])
    BY <1>8, <1>12 DEF Settled
  <2> QED
    BY <1>12, <2>1, <2>2, <2>3, <2>4 DEF Settled, FramesFor, IntentsAfter
<1>13. ASSUME Moving PROVE Moving'
  <2>1. \A i \in DOMAIN down' : Framed(down'[i]) /\ down'[i].hash.link # NoLink =>
          /\ down'[i].route = session'.pending.route
          /\ \A j \in DOMAIN down' : j > i => down'[j].kind = "receipt"
          /\ \A j \in DOMAIN up' : ~Arrival(up'[j])
    <3>1. SUFFICES ASSUME NEW i \in DOMAIN down', Framed(down'[i]), down'[i].hash.link # NoLink
                   PROVE  /\ down'[i].route = session'.pending.route
                          /\ \A j \in DOMAIN down' : j > i => down'[j].kind = "receipt"
                          /\ \A j \in DOMAIN up' : ~Arrival(up'[j])
      OBVIOUS
    <3>2. /\ down[i + k].route = session.pending.route
          /\ \A j \in DOMAIN down : j > i + k => down[j].kind = "receipt"
          /\ \A j \in DOMAIN up : ~Arrival(up[j])
      BY <1>3, <1>13, <3>1 DEF Moving
    <3> QED
      BY <1>3, <1>4, <1>8, <3>1, <3>2
  <2>2. ASSUME NEW i \in DOMAIN up', Arrival(up'[i])
        PROVE  /\ \A j \in DOMAIN down' : down'[j].kind = "receipt"
               /\ client'.route = session.pending.route
               /\ IntentsAfter(i, session.pending.route)'
               /\ \A j \in DOMAIN up' : j > i => ~Arrival(up'[j])
    <3>1. i \in DOMAIN up /\ Arrival(up[i])
      BY <1>8, <2>2
    <3>2. /\ \A j \in DOMAIN down : down[j].kind = "receipt"
          /\ client.route = session.pending.route
          /\ IntentsAfter(i, session.pending.route)
          /\ \A j \in DOMAIN up : j > i => ~Arrival(up[j])
      BY <1>13, <3>1 DEF Moving
    <3>3. IntentsAfter(i, session.pending.route)'
      BY <3>2, AddsIntents
    <3> QED
      BY <1>3, <1>8, <3>2, <3>3
  <2> QED
    BY <1>13, <2>1, <2>2 DEF Moving, IntentsAfter
<1>14. RoutesInv'
  BY <1>5, <1>10, <1>11, <1>12, <1>13 DEF SessionInv, RoutesInv
<1> QED
  BY <1>1, <1>2, <1>14 DEF SessionInv

(* The client installs a frame and acknowledges it: from then on it        *)
(* composes for that frame's route, behind the acknowledgement.            *)
LEMMA InstallsKeep ==
    ASSUME SessionInv, Live, ServerSame, DOMAIN client' = ClientFields,
           down # <<>>, down' = Tail(down), Framed(Head(down)),
           client'.route = Head(down).route,
           Adds([kind |-> "ack", view |-> Head(down).hash])
    PROVE  SessionInv'
<1> USE DEF ServerSame
<1> DEFINE x == [kind |-> "ack", view |-> Head(down).hash]
<1>1. x.kind = "ack" /\ x.kind # "intent" /\ x.view.link = Head(down).hash.link /\ Adds(x)
  OBVIOUS
<1> HIDE DEF x
<1>2. /\ Head(down) = down[1] /\ 1 \in DOMAIN down /\ IsQueue(down')
      /\ \A i \in DOMAIN down' : i + 1 \in DOMAIN down /\ down'[i] = down[i + 1]
  BY QueueTail DEF SessionInv
<1>3. \A i \in DOMAIN down' : i \in Nat \ {0}
  BY <1>2, QueueDomain
<1>4. SessionShape' /\ IsQueue(up)' /\ QueuedControlsFail'
  BY <1>1 DEF SessionInv, SessionShape, Adds, QueuedControlsFail
<1>5. Resting'
  BY DEF SessionInv, Resting, Live
<1>6. Live' /\ Gameplay' = Gameplay
  BY DEF Live, Gameplay
<1>7. ASSUME NEW k, NEW at, IntentsAfter(k, at) PROVE IntentsAfter(k, at)'
  BY <1>1, <1>7, AddsIntents
<1>8. ASSUME NEW at, FramesFor(at) PROVE FramesFor(at)'
  BY <1>2, <1>8 DEF FramesFor
<1>9. ASSUME NEW i \in DOMAIN up', i \notin DOMAIN up, NEW at PROVE IntentsAfter(i, at)'
  <2>1. \A j \in DOMAIN up' : j \in Nat /\ i \in Nat
    BY <1>4, QueueDomain
  <2>2. \A j \in DOMAIN up' : j <= i
    BY <1>1, <1>9 DEF Adds
  <2> QED
    BY <2>1, <2>2 DEF IntentsAfter
<1>10. ASSUME Unrouted PROVE Unrouted'
  <2>1. IntentsAfter(0, NoRoute)'
    BY <1>7, <1>10 DEF Unrouted
  <2>2. client'.route = NoRoute
    BY <1>2, <1>10 DEF Unrouted
  <2> QED
    BY <1>2, <1>10, <2>1, <2>2 DEF Unrouted
<1>11. ASSUME Opening PROVE Opening'
  <2>1. FramesFor(session.initial)'
    BY <1>8, <1>11 DEF Opening
  <2>2. client'.route = session.initial /\ x.view.link = NoLink
    BY <1>1, <1>2, <1>11 DEF Opening, FramesFor
  <2>3. ASSUME NEW i \in DOMAIN up', up'[i].kind = "ack"
        PROVE  up'[i].view.link = NoLink /\ IntentsAfter(i, session.initial)'
    <3>1. CASE i \in DOMAIN up
      <4>1. up'[i] = up[i]
        BY <1>1, <3>1 DEF Adds
      <4>2. up[i].view.link = NoLink /\ IntentsAfter(i, session.initial)
        BY <1>11, <2>3, <3>1, <4>1 DEF Opening
      <4> QED
        BY <1>7, <4>1, <4>2
    <3>2. CASE i \notin DOMAIN up
      <4>1. up'[i] = x
        BY <1>1, <3>2 DEF Adds
      <4> QED
        BY <1>9, <2>2, <3>2, <4>1
    <3> QED
      BY <3>1, <3>2
  <2>4. \A i \in DOMAIN down' : Framed(down'[i]) => down'[i].hash.link = NoLink
    BY <1>2, <1>11 DEF Opening
  <2> QED
    BY <1>11, <2>1, <2>2, <2>3, <2>4 DEF Opening, FramesFor, IntentsAfter
<1>12. ASSUME Settled PROVE Settled'
  <2>1. FramesFor(session.resident)'
    BY <1>8, <1>12 DEF Settled
  <2>2. client'.route = session.resident /\ x.view.link = NoLink
    BY <1>1, <1>2, <1>12 DEF Settled, FramesFor
  <2>3. IntentsAfter(0, session.resident)'
    BY <1>7, <1>12 DEF Settled
  <2>4. \A i \in DOMAIN down' : Framed(down'[i]) => down'[i].hash.link = NoLink
    BY <1>2, <1>12 DEF Settled
  <2>5. \A j \in DOMAIN up' : ~Arrival(up'[j])
    BY <1>1, <1>12, <2>2 DEF Settled, Adds, Arrival
  <2> QED
    BY <1>12, <2>1, <2>2, <2>3, <2>4, <2>5 DEF Settled, FramesFor, IntentsAfter
<1>13. ASSUME Moving PROVE Moving'
  <2>1. \A j \in DOMAIN up : ~Arrival(up[j])
    <3>1. Head(down).kind # "receipt"
      BY DEF Framed
    <3> QED
      BY <1>2, <1>13, <3>1 DEF Moving
  <2>2. CASE x.view.link = NoLink
    <3>1. \A j \in DOMAIN up' : ~Arrival(up'[j])
      BY <1>1, <2>1, <2>2 DEF Adds, Arrival
    <3>2. \A i \in DOMAIN down' : Framed(down'[i]) /\ down'[i].hash.link # NoLink =>
            /\ down'[i].route = session'.pending.route
            /\ \A j \in DOMAIN down' : j > i => down'[j].kind = "receipt"
            /\ \A j \in DOMAIN up' : ~Arrival(up'[j])
      <4>1. SUFFICES ASSUME NEW i \in DOMAIN down', Framed(down'[i]),
                            down'[i].hash.link # NoLink
                     PROVE  /\ down'[i].route = session'.pending.route
                            /\ \A j \in DOMAIN down' : j > i => down'[j].kind = "receipt"
        BY <3>1
      <4>2. /\ down[i + 1].route = session.pending.route
            /\ \A j \in DOMAIN down : j > i + 1 => down[j].kind = "receipt"
        BY <1>2, <1>13, <4>1 DEF Moving
      <4> QED
        BY <1>2, <1>3, <4>1, <4>2
    <3> QED
      BY <1>13, <3>1, <3>2 DEF Moving
  <2>3. CASE x.view.link # NoLink
    <3>1. /\ Head(down).route = session.pending.route
          /\ \A j \in DOMAIN down : j > 1 => down[j].kind = "receipt"
      BY <1>1, <1>2, <1>13, <2>3 DEF Moving
    <3>2. \A j \in DOMAIN down' : down'[j].kind = "receipt" /\ ~Framed(down'[j])
      BY <1>2, <1>3, <3>1 DEF Framed
    <3>3. ASSUME NEW i \in DOMAIN up', Arrival(up'[i])
          PROVE  /\ i \notin DOMAIN up
                 /\ \A j \in DOMAIN up' : j > i => ~Arrival(up'[j])
      <4>1. \A j \in DOMAIN up' : Arrival(up'[j]) => j \notin DOMAIN up
        BY <1>1, <2>1 DEF Adds
      <4>2. \A j \in DOMAIN up' : j <= i
        BY <1>1, <3>3, <4>1 DEF Adds
      <4>3. \A j \in DOMAIN up' : j \in Nat
        BY <1>4, QueueDomain
      <4> QED
        BY <3>3, <4>1, <4>2, <4>3
    <3>4. ASSUME NEW i \in DOMAIN up', Arrival(up'[i])
          PROVE  /\ \A j \in DOMAIN down' : down'[j].kind = "receipt"
                 /\ client'.route = session.pending.route
                 /\ IntentsAfter(i, session.pending.route)'
                 /\ \A j \in DOMAIN up' : j > i => ~Arrival(up'[j])
      <4>1. IntentsAfter(i, session.pending.route)'
        BY <1>9, <3>3, <3>4
      <4> QED
        BY <3>1, <3>2, <3>3, <3>4, <4>1
    <3> QED
      BY <1>13, <3>2, <3>4 DEF Moving, IntentsAfter
  <2> QED
    BY <2>2, <2>3
<1>14. RoutesInv'
  BY <1>6, <1>10, <1>11, <1>12, <1>13 DEF SessionInv, RoutesInv
<1> QED
  BY <1>2, <1>4, <1>5, <1>14 DEF SessionInv

(* The client takes any other message: during a handoff it shows no route. *)
LEMMA OthersKeep ==
    ASSUME SessionInv, Live, ServerSame, DOMAIN client' = ClientFields,
           down # <<>>, down' = Tail(down), ~Framed(Head(down)), up' = up,
           client'.route = IF Head(down).kind = "handoff" THEN NoRoute ELSE client.route
    PROVE  SessionInv'
<1> USE DEF ServerSame
<1>1. /\ Head(down) = down[1] /\ 1 \in DOMAIN down /\ IsQueue(down')
      /\ \A i \in DOMAIN down' : i + 1 \in DOMAIN down /\ down'[i] = down[i + 1]
  BY QueueTail DEF SessionInv
<1>2. \A i \in DOMAIN down' : i \in Nat \ {0}
  BY <1>1, QueueDomain
<1>3. SessionShape' /\ IsQueue(up)' /\ QueuedControlsFail'
  BY DEF SessionInv, SessionShape, QueuedControlsFail
<1>4. Resting'
  BY DEF SessionInv, Resting, Live
<1>5. Live' /\ Gameplay' = Gameplay
  BY DEF Live, Gameplay
<1>6. ASSUME NEW k, NEW at, IntentsAfter(k, at) PROVE IntentsAfter(k, at)'
  BY <1>6 DEF IntentsAfter
<1>7. ASSUME NEW at, FramesFor(at) PROVE FramesFor(at)' /\ client'.route = client.route
  BY <1>1, <1>7 DEF FramesFor
<1>8. ASSUME Unrouted PROVE Unrouted'
  BY <1>1, <1>6, <1>8 DEF Unrouted, IntentsAfter
<1>9. ASSUME Opening PROVE Opening'
  <2>1. FramesFor(session.initial)' /\ client'.route = client.route
    BY <1>7, <1>9 DEF Opening
  <2>2. \A i \in DOMAIN down' : Framed(down'[i]) => down'[i].hash.link = NoLink
    BY <1>1, <1>9 DEF Opening
  <2> QED
    BY <1>9, <2>1, <2>2 DEF Opening, FramesFor, IntentsAfter
<1>10. ASSUME Settled PROVE Settled'
  <2>1. FramesFor(session.resident)' /\ client'.route = client.route
    BY <1>7, <1>10 DEF Settled
  <2>2. \A i \in DOMAIN down' : Framed(down'[i]) => down'[i].hash.link = NoLink
    BY <1>1, <1>10 DEF Settled
  <2> QED
    BY <1>10, <2>1, <2>2 DEF Settled, FramesFor, IntentsAfter
<1>11. ASSUME Moving PROVE Moving'
  <2>1. \A i \in DOMAIN down' : Framed(down'[i]) /\ down'[i].hash.link # NoLink =>
          /\ down'[i].route = session'.pending.route
          /\ \A j \in DOMAIN down' : j > i => down'[j].kind = "receipt"
          /\ \A j \in DOMAIN up' : ~Arrival(up'[j])
    <3>1. SUFFICES ASSUME NEW i \in DOMAIN down', Framed(down'[i]), down'[i].hash.link # NoLink
                   PROVE  /\ down'[i].route = session'.pending.route
                          /\ \A j \in DOMAIN down' : j > i => down'[j].kind = "receipt"
                          /\ \A j \in DOMAIN up' : ~Arrival(up'[j])
      OBVIOUS
    <3>2. /\ down[i + 1].route = session.pending.route
          /\ \A j \in DOMAIN down : j > i + 1 => down[j].kind = "receipt"
          /\ \A j \in DOMAIN up : ~Arrival(up[j])
      BY <1>1, <1>11, <3>1 DEF Moving
    <3> QED
      BY <1>1, <1>2, <3>1, <3>2
  <2>2. ASSUME NEW i \in DOMAIN up', Arrival(up'[i])
        PROVE  /\ \A j \in DOMAIN down' : down'[j].kind = "receipt"
               /\ client'.route = session.pending.route
               /\ IntentsAfter(i, session.pending.route)'
               /\ \A j \in DOMAIN up' : j > i => ~Arrival(up'[j])
    <3>1. /\ \A j \in DOMAIN down : down[j].kind = "receipt"
          /\ client.route = session.pending.route
          /\ IntentsAfter(i, session.pending.route)
          /\ \A j \in DOMAIN up : j > i => ~Arrival(up[j])
      BY <1>11, <2>2 DEF Moving
    <3>2. client'.route = client.route
      BY <1>1, <3>1
    <3>3. IntentsAfter(i, session.pending.route)'
      BY <1>6, <3>1
    <3> QED
      BY <1>1, <3>1, <3>2, <3>3
  <2> QED
    BY <1>11, <2>1, <2>2 DEF Moving, IntentsAfter
<1>12. RoutesInv'
  BY <1>5, <1>8, <1>9, <1>10, <1>11 DEF SessionInv, RoutesInv
<1> QED
  BY <1>1, <1>3, <1>4, <1>12 DEF SessionInv

(* The client installs, asks for a snapshot once, or gives up.             *)
LEMMA ClientKeeps ==
    ASSUME SessionInv, ClientStep
    PROVE  SessionInv'
<1>1. DOMAIN client = ClientFields /\ IsQueue(up) /\ IsQueue(down)
  BY DEF SessionInv
<1>2. ASSUME ClientReceives PROVE SessionInv'
  <2> DEFINE m == Head(down)
             v == client.verifier
             refusal == Refusal(v, m)
             ack == [kind |-> "ack", view |-> m.hash]
             request == [kind |-> "request"]
  <2>1. Live /\ down # <<>> /\ UNCHANGED <<role, twoCell, route, handoff, executed>>
    BY <1>2 DEF ClientReceives, hostVars
  <2>2. \/ /\ client' = [client EXCEPT !.verifier = Installed(v, m),
                            !.route = IF m.kind \in {"baseline", "delta"} THEN m.route
                                      ELSE IF m.kind = "handoff" THEN NoRoute ELSE @]
           /\ up' = IF m.kind \in {"baseline", "delta"} THEN Append(up, ack) ELSE up
           /\ down' = Tail(down) /\ UNCHANGED session
        \/ /\ client' = [client EXCEPT !.asked = TRUE, !.refused = m.kind]
           /\ up' = Append(up, request)
           /\ down' = Tail(down) /\ UNCHANGED session
        \/ /\ client' = [client EXCEPT !.refused = IF @ = "none" THEN m.kind ELSE @]
           /\ Close(session, "client_closed")
    BY <1>2, Zenon DEF ClientReceives
  <2> HIDE DEF m, v
  <2>3. ASSUME client' = [client EXCEPT !.verifier = Installed(v, m),
                            !.route = IF m.kind \in {"baseline", "delta"} THEN m.route
                                      ELSE IF m.kind = "handoff" THEN NoRoute ELSE @],
               up' = IF m.kind \in {"baseline", "delta"} THEN Append(up, ack) ELSE up,
               down' = Tail(down), UNCHANGED session
        PROVE  SessionInv'
    <3>1. /\ DOMAIN client' = ClientFields
          /\ client'.route = IF m.kind \in {"baseline", "delta"} THEN m.route
                             ELSE IF m.kind = "handoff" THEN NoRoute ELSE client.route
      BY <1>1, <2>3 DEF ClientFields
    <3>2. ServerSame
      BY <2>1, <2>3 DEF ServerSame
    <3>3. CASE m.kind \in {"baseline", "delta"}
      <4>1. Framed(m) /\ client'.route = m.route
        BY <3>1, <3>3 DEF Framed
      <4>2. up' = Append(up, ack)
        BY <2>3, <3>3
      <4> HIDE DEF ack
      <4>3. Adds(ack)
        BY <1>1, <4>2, AddsMeans
      <4> QED
        BY <2>1, <2>3, <3>1, <3>2, <4>1, <4>3, InstallsKeep DEF m, ack
    <3>4. CASE m.kind \notin {"baseline", "delta"}
      <4>1. /\ ~Framed(m) /\ up' = up
            /\ client'.route = IF m.kind = "handoff" THEN NoRoute ELSE client.route
        BY <2>3, <3>1, <3>4 DEF Framed
      <4> QED
        BY <2>1, <2>3, <3>1, <3>2, <4>1, OthersKeep DEF m
    <3> QED
      BY <3>3, <3>4
  <2>4. ASSUME client' = [client EXCEPT !.asked = TRUE, !.refused = m.kind],
               up' = Append(up, request),
               down' = Tail(down), UNCHANGED session
        PROVE  SessionInv'
    <3>1. DOMAIN client' = ClientFields /\ client'.route = client.route
      BY <1>1, <2>4 DEF ClientFields
    <3>2. ServerSame /\ request.kind = "request"
      BY <2>1, <2>4 DEF ServerSame
    <3> HIDE DEF request
    <3>3. Adds(request)
      BY <1>1, <2>4, AddsMeans
    <3>4. RestOf(down', down)
      BY <1>1, <2>1, <2>4, RestTail
    <3> QED
      BY <2>1, <3>1, <3>2, <3>3, <3>4, SendsKeep
  <2>5. ASSUME client' = [client EXCEPT !.refused = IF @ = "none" THEN m.kind ELSE @],
               Close(session, "client_closed")
        PROVE  SessionInv'
    <3>1. DOMAIN client' = ClientFields /\ client'.route = client.route
      BY <1>1, <2>5 DEF ClientFields
    <3>2. ~Gameplay => client.route = NoRoute
      BY DEF SessionInv, RoutesInv, Unrouted
    <3> QED
      BY <2>1, <2>5, <3>1, <3>2, CloseKeeps
  <2> QED
    BY <2>2, <2>3, <2>4, <2>5
<1>3. ASSUME ClientRequests PROVE SessionInv'
  <2> DEFINE request == [kind |-> "request"]
  <2>1. /\ Live /\ up' = Append(up, request) /\ ServerSame /\ client' = client /\ down' = down
        /\ request.kind = "request"
    BY <1>3 DEF ClientRequests, Greeted, hostVars, ServerSame
  <2> HIDE DEF request
  <2>2. Adds(request) /\ RestOf(down', down)
    BY <1>1, <2>1, AddsMeans, RestSame
  <2> QED
    BY <1>1, <2>1, <2>2, SendsKeep
<1>4. ASSUME NEW build, ClientIntends(build) PROVE SessionInv'
  <2> DEFINE intent == [kind |-> "intent", build |-> build, route |-> client.route]
  <2>1. /\ Live /\ up' = Append(up, intent) /\ ServerSame /\ client' = client /\ down' = down
        /\ intent.kind = "intent" /\ intent.route = client.route
    BY <1>4 DEF ClientIntends, Greeted, hostVars, ServerSame
  <2> HIDE DEF intent
  <2>2. Adds(intent) /\ RestOf(down', down)
    BY <1>1, <2>1, AddsMeans, RestSame
  <2> QED
    BY <1>1, <2>1, <2>2, SendsKeep
<1> QED
  BY <1>2, <1>3, <1>4 DEF ClientStep

-----------------------------------------------------------------------------
(* The theorem.                                                            *)

(* Before the first session nothing is under way.                          *)
LEMMA SessionInit == Init => SessionInv
<1> SUFFICES ASSUME Init PROVE SessionInv
  OBVIOUS
<1>1. /\ DOMAIN session = SessionFields /\ session.acked = NewCursor(role)
      /\ session.pending = NoPending /\ session.resident = NoRoute
      /\ session.initial = NoRoute /\ session.seen = 0 /\ session.state = "off"
  BY DEF Init, NewSession, SessionFields
<1>2. down = <<>> /\ up = <<>> /\ route.gen = 1 /\ handoff = 0 /\ executed.composed = executed.at
  BY DEF Init
<1>3. DOMAIN client = ClientFields /\ client.route = NoRoute
  BY DEF Init, NewClient, ClientFields
<1>4. SessionShape
  BY <1>1, NewCursorMeans, NoPendingMeans DEF SessionShape
<1>5. Resting /\ ~Live
  BY <1>1, <1>2 DEF Resting, Live
<1>6. Unrouted
  BY <1>1, <1>2, <1>3, NoPendingMeans, QueueEmpty DEF Unrouted, IntentsAfter
<1>7. IsQueue(down) /\ IsQueue(up)
  BY <1>2, QueueEmpty
<1> QED
  BY <1>2, <1>3, <1>4, <1>5, <1>6, <1>7 DEF SessionInv, RoutesInv, QueuedControlsFail

(* Every step of the world, of the session task and of the client keeps    *)
(* the phases of the session.                                              *)
LEMMA SessionStepKeeps == SessionInv /\ [Next]_vars => SessionInv'
<1> SUFFICES ASSUME SessionInv, [Next]_vars PROVE SessionInv'
  OBVIOUS
<1>1. CASE WorldStep
  BY <1>1, WorldKeeps
<1>2. CASE SessionStep
  BY <1>2, SubscribeKeeps, BootstrapKeeps, HandoffKeeps, TimeoutKeeps, ReplicationKeeps,
     AcknowledgeKeeps, ForeignKeeps, RequestKeeps, IntentKeeps DEF SessionStep
<1>3. CASE ClientStep
  BY <1>3, ClientKeeps
<1>4. CASE UNCHANGED vars
  <2>1. OnlyForward /\ route'.gen # 0 /\ (~twoCell => handoff' = 0 /\ session'.seen = 0)
    BY <1>4 DEF OnlyForward, SessionInv, Resting, vars
  <2>2. /\ SameSession /\ DOMAIN session' = SessionFields /\ session'.state = session.state
        /\ client' = client /\ QueuedControlsFail'
    BY <1>4 DEF SameSession, SessionInv, SessionShape, QueuedControlsFail, vars
  <2>3. IsQueue(down') /\ RestOf(up', up) /\ Answered(down', down)
    BY <1>4, AnsweredSame, RestSame DEF SessionInv, vars
  <2>4. ~Live => down' = <<>> /\ up' = <<>>
    BY <1>4 DEF SessionInv, Resting, vars
  <2> QED
    BY <2>1, <2>2, <2>3, <2>4, StaysKeeps
<1> QED
  BY <1>1, <1>2, <1>3, <1>4 DEF Next

(* A control composed against one cell's view never runs in another cell:  *)
(* what execute_as_at runs was composed after the client had installed the *)
(* baseline of the very placement it runs in, however late the             *)
(* acknowledgement is, whatever is lost to timeouts, and however often the *)
(* pilot crosses in between.                                               *)
THEOREM QueuedControlsFailCorrect == Spec => []QueuedControlsFail
<1>1. SessionInv => QueuedControlsFail
  BY DEF SessionInv
<1> QED
  BY SessionInit, SessionStepKeeps, <1>1, PTL DEF Spec

-----------------------------------------------------------------------------
(* The worlds, the public bundle and what the frames have shown of them.   *)

(* The entities that can be in a cell: the grids never cross.              *)
CouldBeIn(x) == IF x = "east" THEN {Pilot} ELSE Entities

(* The pilot is in the cell of its route and nowhere else, and left says   *)
(* which entities of the origin are beyond the exit radius, and since when.*)
WorldsInv ==
    /\ role \in {"player", "spectator"} /\ twoCell \in BOOLEAN
    /\ DOMAIN world = Cells /\ DOMAIN left = Entities
    /\ route.cell \in Cells /\ (~twoCell => route.cell = "origin")
    /\ \A x \in Cells :
          /\ DOMAIN world[x] = {"cell", "seq", "tick", "op", "ents"}
          /\ world[x].cell = x /\ world[x].tick \in Nat \ {0} /\ world[x].seq \in Nat
          /\ DOMAIN world[x].ents \subseteq CouldBeIn(x)
          /\ \A e \in DOMAIN world[x].ents : DOMAIN world[x].ents[e] = {"zone", "shape"}
          /\ Pilot \in DOMAIN world[x].ents <=> x = route.cell
    /\ \A e \in DOMAIN world["origin"].ents :
          /\ left[e] # 0 <=> world["origin"].ents[e].zone = 2
          /\ left[e] \in Nat /\ left[e] <= world["origin"].tick

(* The public bundle is the origin and the evidence for it.                *)
BundleInv ==
    revision = [world |-> world["origin"],
                removals |-> IF twoCell /\ route.cell = "east" THEN {Pilot} ELSE {}]

(* What a cursor has seen of a cell: when it last looked, and of each      *)
(* member that is beyond the exit radius now, that it had not left by then *)
(* or, when it had, no later than it did.                                  *)
Saw(c, x) ==
    /\ c.role = role
    /\ c.last \in Nat /\ c.last <= world[x].tick
    /\ DOMAIN c.members # {} => c.last > 0
    /\ DOMAIN c.members \subseteq CouldBeIn(x)
    /\ \A e \in DOMAIN c.members : c.members[e].out \in Nat /\ c.members[e].out <= c.last
    /\ x = "origin" =>
          \A e \in DOMAIN c.members \cap DOMAIN world["origin"].ents :
             ~Critical(c, e) /\ left[e] # 0 =>
                IF c.members[e].out # 0 THEN c.members[e].out <= left[e] ELSE c.last < left[e]

(* The cell that a session projects for a route.                           *)
CellFor(at) == IF Gameplay THEN at.cell ELSE "origin"
PendingAt == IF session.pending.route # NoRoute THEN session.pending.route ELSE session.resident

CursorsInv ==
    /\ \/ session.acked = NewCursor(role)
       \/ CellFor(session.resident) \in Cells /\ Saw(session.acked, CellFor(session.resident))
    /\ \/ session.pending = NoPending
       \/ CellFor(PendingAt) \in Cells /\ Saw(session.pending.cursor, CellFor(PendingAt))

ShownInv == WorldsInv /\ BundleInv /\ CursorsInv

-----------------------------------------------------------------------------
(* The projector: what a frame shows, and what it says of what it drops.   *)

(* Nothing that the cursor has seen lingers beyond the exit radius.        *)
NoneLingers(c) ==
    \A e \in DOMAIN c.members :
       ~Critical(c, e) /\ left[e] # 0 => world["origin"].tick + 1 < left[e] + ExitTicks

(* The cells in which an entity is, and what a frame of a cell may say of  *)
(* one that it removes.                                                    *)
Alive(e) == {x \in Cells : e \in DOMAIN world[x].ents}
Truthful(m) ==
    \A e \in DOMAIN m.removed :
       CASE m.removed[e] = "destroyed" -> Alive(e) = {}
         [] m.removed[e] = "transferred" -> Alive(e) = {Other(m.cell)}
         [] OTHER -> m.cell \in Alive(e)

(* The cell that a frame of the session shows now.                         *)
ShownNow(x) == IF Gameplay THEN x = route.cell ELSE x = "origin"

(* outside_since_tick is a tick that the cell has reached.                 *)
LEMMA SinceMeans ==
    ASSUME WorldsInv, NEW c, NEW x \in Cells, Saw(c, x), NEW e \in DOMAIN c.members
    PROVE  OutsideSince(c, world[x], e) \in Nat \ {0} /\ OutsideSince(c, world[x], e) <= world[x].tick
<1>1. /\ c.last \in Nat \ {0} /\ c.last <= world[x].tick /\ world[x].tick \in Nat \ {0}
      /\ c.members[e].out \in Nat /\ c.members[e].out <= c.last
  BY DEF WorldsInv, Saw
<1>2. /\ FirstUnobserved(c, world[x]) \in Nat \ {0}
      /\ FirstUnobserved(c, world[x]) <= world[x].tick
  BY <1>1 DEF FirstUnobserved
<1> QED
  BY <1>1, <1>2 DEF OutsideSince

(* And not a later one than the tick at which the entity left.             *)
LEMMA SinceBound ==
    ASSUME WorldsInv, NEW c, Saw(c, "origin"), NEW e \in DOMAIN c.members,
           e \in DOMAIN world["origin"].ents, ~Critical(c, e), left[e] # 0
    PROVE  OutsideSince(c, world["origin"], e) <= left[e]
<1>1. /\ c.last \in Nat \ {0} /\ c.last <= world["origin"].tick
      /\ world["origin"].tick \in Nat \ {0}
      /\ left[e] \in Nat /\ left[e] <= world["origin"].tick
  BY DEF WorldsInv, Saw, Cells
<1>2. IF c.members[e].out # 0 THEN c.members[e].out <= left[e] ELSE c.last < left[e]
  BY DEF Saw
<1>3. c.last < left[e] => FirstUnobserved(c, world["origin"]) <= left[e]
  BY <1>1 DEF FirstUnobserved
<1> QED
  BY <1>2, <1>3 DEF OutsideSince

(* A frame keeps what is eligible (select).                                *)
LEMMA KeptMeans ==
    ASSUME NEW c, NEW w
    PROVE  \A e \in Kept(c, w) : e \in DOMAIN w.ents /\ Eligible(c, w, e)
BY DEF Kept

(* What select keeps beyond the exit radius it has seen before, and not    *)
(* for longer than the policy allows.                                      *)
LEMMA KeptInTime ==
    ASSUME WorldsInv, NEW c, Saw(c, "origin"), NEW e \in Kept(c, world["origin"]),
           ~Critical(c, e), left[e] # 0
    PROVE  /\ e \in DOMAIN c.members /\ world["origin"].ents[e].zone = 2
           /\ OutsideSince(c, world["origin"], e) <= left[e]
           /\ world["origin"].tick + 1 < left[e] + ExitTicks
<1>1. e \in DOMAIN world["origin"].ents /\ Eligible(c, world["origin"], e)
  BY KeptMeans
<1>2. world["origin"].ents[e].zone = 2 /\ left[e] \in Nat /\ world["origin"].tick \in Nat
  BY <1>1 DEF WorldsInv, Cells
<1>3. /\ e \in DOMAIN c.members
      /\ world["origin"].tick + 1 < OutsideSince(c, world["origin"], e) + ExitTicks
  BY <1>1, <1>2 DEF Eligible
<1>4. OutsideSince(c, world["origin"], e) <= left[e]
  BY <1>1, <1>3, SinceBound
<1>5. OutsideSince(c, world["origin"], e) \in Nat /\ ExitTicks \in Nat
  BY <1>3, SinceMeans, BandAssumption DEF Cells
<1> QED
  BY <1>2, <1>3, <1>4, <1>5

(* The cursor after a frame has seen the cell as it is, and the frame      *)
(* shows nothing that has been outside for too long.                       *)
LEMMA FrameSeen ==
    ASSUME WorldsInv, NEW c, NEW x \in Cells, NEW rem, Saw(c, x), DOMAIN c = CursorFields,
           ShownNow(x)
    PROVE  LET n == ProjectFrame(c, world[x], rem).cursor IN Saw(n, x) /\ NoneLingers(n)
<1> DEFINE w == world[x]
           n == ProjectFrame(c, w, rem).cursor
           seq == IF FirstFrame(c) THEN 0 ELSE c.delta + 1
           kept == Kept(c, w)
<1>1. /\ n.role = c.role /\ n.last = w.tick
      /\ n.members = [e \in kept |-> MemberOf(c, w, seq, e)]
  BY DEF ProjectFrame, CursorFields
<1>2. \A e \in kept : n.members[e].out =
         IF e \in DOMAIN c.members /\ ~Critical(c, e) /\ w.ents[e].zone = 2
         THEN OutsideSince(c, w, e) ELSE 0
  BY <1>1 DEF MemberOf
<1>3. DOMAIN n.members = kept /\ kept \subseteq DOMAIN w.ents
  BY <1>1, KeptMeans
<1>4. w.tick \in Nat \ {0} /\ DOMAIN w.ents \subseteq CouldBeIn(x) /\ c.role = role
  BY DEF WorldsInv, Saw
<1>5. \A e \in kept : e \in DOMAIN c.members =>
         OutsideSince(c, w, e) \in Nat \ {0} /\ OutsideSince(c, w, e) <= w.tick
  BY SinceMeans
<1>6. \A e \in kept : n.members[e].out \in Nat /\ n.members[e].out <= w.tick
  BY <1>2, <1>4, <1>5
<1>7. \A e : Critical(n, e) <=> Critical(c, e)
  BY <1>1 DEF Critical
<1> HIDE DEF n, kept
<1>8. ASSUME x = "origin", NEW e \in kept, ~Critical(n, e), left[e] # 0
      PROVE  /\ n.members[e].out # 0 /\ n.members[e].out <= left[e]
             /\ world["origin"].tick + 1 < left[e] + ExitTicks
  <2>1. /\ e \in DOMAIN c.members /\ world["origin"].ents[e].zone = 2
        /\ OutsideSince(c, world["origin"], e) <= left[e]
        /\ world["origin"].tick + 1 < left[e] + ExitTicks
    BY <1>7, <1>8, KeptInTime DEF kept
  <2> QED
    BY <1>2, <1>5, <1>7, <1>8, <2>1
<1>9. Saw(n, x)
  BY <1>1, <1>3, <1>4, <1>6, <1>8 DEF Saw
<1>10. NoneLingers(n)
  <2>1. SUFFICES ASSUME NEW e \in kept, ~Critical(n, e), left[e] # 0
                 PROVE  world["origin"].tick + 1 < left[e] + ExitTicks
    BY <1>3 DEF NoneLingers
  <2>2. CASE x = "origin"
    BY <1>8, <2>1, <2>2
  <2>3. CASE x = "east"
    <3>1. e = Pilot
      BY <1>3, <1>4, <2>3 DEF CouldBeIn
    <3>2. role = "player"
      BY <2>3 DEF ShownNow, Gameplay
    <3> QED
      BY <1>4, <1>7, <2>1, <3>1, <3>2 DEF Critical
  <2> QED
    BY <2>2, <2>3 DEF Cells
<1> QED
  BY <1>9, <1>10 DEF n

(* What a frame says of an entity that it drops is so (RemovalReason).     *)
LEMMA FrameTrue ==
    ASSUME WorldsInv, BundleInv, NEW c, NEW x \in Cells, NEW rem, Saw(c, x),
           ShownNow(x), rem = IF Gameplay THEN {} ELSE revision.removals
    PROVE  LET m == ProjectFrame(c, world[x], rem).frame IN m.cell = x /\ Truthful(m)
<1> DEFINE w == world[x]
           m == ProjectFrame(c, w, rem).frame
           gone == DOMAIN c.members \ Kept(c, w)
<1>1. /\ m.cell = w.cell /\ DOMAIN m.removed = gone
      /\ \A e \in gone : m.removed[e] = RemovalReason(w, rem, e)
  BY DEF ProjectFrame
<1>2. m.cell = x /\ DOMAIN c.members \subseteq CouldBeIn(x)
  BY <1>1 DEF WorldsInv, Saw
<1> HIDE DEF m
<1>3. SUFFICES ASSUME NEW e \in gone
               PROVE  CASE m.removed[e] = "destroyed" -> Alive(e) = {}
                        [] m.removed[e] = "transferred" -> Alive(e) = {Other(x)}
                        [] OTHER -> x \in Alive(e)
  BY <1>1, <1>2 DEF Truthful, m
<1>4. rem # {} => /\ ~Gameplay /\ twoCell /\ route.cell = "east" /\ rem = {Pilot}
                  /\ x = "origin"
  BY DEF BundleInv, ShownNow
<1>5. CASE e \in rem
  <2>1. m.removed[e] = "transferred" /\ e = Pilot /\ route.cell = "east" /\ x = "origin"
    BY <1>1, <1>3, <1>4, <1>5 DEF RemovalReason
  <2>2. Alive(e) = {"east"} /\ Other(x) = "east"
    BY <2>1 DEF Alive, WorldsInv, Cells, Other
  <2> QED
    BY <2>1, <2>2
<1>6. CASE e \notin rem /\ e \in DOMAIN w.ents
  <2>1. m.removed[e] = "out_of_interest"
    BY <1>1, <1>3, <1>6 DEF RemovalReason
  <2>2. x \in Alive(e)
    BY <1>6 DEF Alive
  <2> QED
    BY <2>1, <2>2
<1>7. CASE e \notin rem /\ e \notin DOMAIN w.ents
  <2>1. m.removed[e] = "destroyed"
    BY <1>1, <1>3, <1>7 DEF RemovalReason
  <2>2. CASE x = "east"
    <3>1. e = Pilot /\ x = route.cell
      BY <1>2, <1>3, <2>2 DEF CouldBeIn, ShownNow
    <3> QED
      BY <1>7, <3>1 DEF WorldsInv
  <2>3. CASE x = "origin"
    <3>1. e \notin DOMAIN world["origin"].ents
      BY <1>7, <2>3
    <3>2. e \notin DOMAIN world["east"].ents
      <4>1. ASSUME e \in DOMAIN world["east"].ents PROVE FALSE
        <5>1. e = Pilot /\ route.cell = "east"
          BY <4>1 DEF WorldsInv, CouldBeIn, Cells
        <5>2. twoCell /\ ~Gameplay
          BY <2>3, <5>1 DEF WorldsInv, ShownNow
        <5>3. rem = {Pilot}
          BY <5>1, <5>2 DEF BundleInv
        <5> QED
          BY <1>7, <5>1, <5>3
      <4> QED
        BY <4>1
    <3>3. Alive(e) = {}
      BY <3>1, <3>2 DEF Alive, Cells
    <3> QED
      BY <2>1, <3>3
  <2> QED
    BY <2>2, <2>3 DEF Cells
<1> QED
  BY <1>5, <1>6, <1>7

-----------------------------------------------------------------------------
(* What a step of the session says and shows.                              *)

(* The messages that a step adds tell the truth, and so does the frame it  *)
(* leaves pending.                                                         *)
Honest ==
    /\ \A i \in DOMAIN down' : i > Len(down) /\ down'[i].kind = "delta" => Truthful(down'[i])
    /\ session'.pending # session.pending => NoneLingers(session'.pending.cursor)

(* A cursor without members has shown nothing.                             *)
LEMMA FreshSaw ==
    ASSUME WorldsInv, NEW c, NEW x \in Cells, c.role = role, c.last = 0, c.members = <<>>
    PROVE  Saw(c, x)
<1>1. DOMAIN c.members = {}
  BY QueueEmpty
<1>2. world[x].tick \in Nat
  BY DEF WorldsInv
<1> QED
  BY <1>1, <1>2 DEF Saw

(* ProjectionCursor::new and fresh_baseline start without members.         *)
LEMMA FreshEmpty ==
    ASSUME NEW r, NEW c, NEW t, NEW cell
    PROVE  /\ NewCursor(r).role = r /\ NewCursor(r).last = 0 /\ NewCursor(r).members = <<>>
           /\ FreshBaseline(c).role = c.role /\ FreshBaseline(c).last = 0
           /\ FreshBaseline(c).members = <<>>
           /\ FreshTransferBaseline(c, t, cell).role = c.role
           /\ FreshTransferBaseline(c, t, cell).last = 0
           /\ FreshTransferBaseline(c, t, cell).members = <<>>
BY DEF NewCursor, FreshBaseline, FreshTransferBaseline

(* A step that sends no frame is honest.                                   *)
LEMMA QuietHonest ==
    ASSUME session'.pending \in {session.pending, NoPending},
           \A i \in DOMAIN down' : i > Len(down) => down'[i].kind # "delta"
    PROVE  Honest
<1>1. DOMAIN NoPending.cursor.members = {}
  BY QueueEmpty DEF NoPending, NewCursor
<1>2. NoneLingers(NoPending.cursor)
  BY <1>1 DEF NoneLingers
<1> QED
  BY <1>2 DEF Honest

(* A queue to which nothing is added.                                      *)
LEMMA NoMore ==
    ASSUME NEW q, IsQueue(q)
    PROVE  \A i \in DOMAIN q : ~(i > Len(q))
BY QueueDomain

(* The cursors of a session that sends no frame, while the worlds stand.   *)
LEMMA CursorsStay ==
    ASSUME CursorsInv, UNCHANGED hostVars,
           session'.acked = session.acked, session'.resident = session.resident,
           session'.pending \in {session.pending, NoPending}
    PROVE  CursorsInv'
<1>1. UNCHANGED <<role, twoCell, world, left>>
  BY DEF hostVars
<1>2. \A c, x : Saw(c, x) => Saw(c, x)'
  BY <1>1 DEF Saw, CouldBeIn, Entities
<1>3. \A at : CellFor(at)' = CellFor(at)
  BY <1>1 DEF CellFor, Gameplay
<1>4. session'.pending = session.pending => PendingAt' = PendingAt
  BY DEF PendingAt
<1> HIDE DEF PendingAt
<1> QED
  BY <1>1, <1>2, <1>3, <1>4 DEF CursorsInv, NewCursor, NoPending

(* The session in the phases in which it stages a frame.                   *)
LEMMA StageFrom ==
    ASSUME SessionInv, Live, NEW s, NEW fresh \in BOOLEAN,
           s.acked = session.acked, s.resident = session.resident,
           s.initial = session.initial, s.pending = session.pending,
           session.pending.purpose # "handoff", Gameplay
    PROVE  LET at == StageRoute(s) IN
           /\ \/ Purpose(s, fresh) = "initial" /\ s.initial = at /\ at # NoRoute
              \/ Purpose(s, fresh) # "initial" /\ s.resident = at /\ at # NoRoute
           /\ session.acked.hash # NoView => session.resident = at
<1>1. Opening \/ Settled
  BY DEF SessionInv, RoutesInv, Moving
<1>2. CASE Opening
  BY <1>2 DEF Opening, StageRoute, Purpose
<1>3. CASE Settled
  BY <1>3 DEF Settled, StageRoute, Purpose
<1> QED
  BY <1>1, <1>2, <1>3

(* The cursor that stage projects from has seen the cell it projects.      *)
LEMMA CandidateSaw ==
    ASSUME SessionInv, ShownInv, Live, NEW s, NEW fresh \in BOOLEAN,
           s.acked = session.acked, s.resident = session.resident,
           s.initial = session.initial, s.pending = session.pending,
           session.pending.purpose # "handoff", ~RoutedAway(StageRoute(s))
    PROVE  LET x == CellFor(StageRoute(s)) IN
           /\ x \in Cells /\ ShownNow(x) /\ Saw(Candidate(s, fresh), x)
           /\ Projected(StageRoute(s)).world = world[x]
           /\ Projected(StageRoute(s)).removals = IF Gameplay THEN {} ELSE revision.removals
<1> DEFINE at == StageRoute(s)
           x == CellFor(at)
<1>1. WorldsInv /\ BundleInv /\ CursorsInv
  BY DEF ShownInv
<1>2. Gameplay => at = route
  BY DEF RoutedAway, Gameplay
<1>3. x \in Cells /\ ShownNow(x)
  BY <1>1, <1>2 DEF CellFor, ShownNow, WorldsInv, Cells
<1>4. /\ Projected(at).world = world[x]
      /\ Projected(at).removals = IF Gameplay THEN {} ELSE revision.removals
  BY <1>1 DEF Projected, CellFor, Gameplay, BundleInv
<1>5. session.acked.hash # NoView => CellFor(session.resident) = x
  BY StageFrom DEF CellFor
<1>6. session.acked.role = role /\ Saw(session.acked, x)
  <2>1. CASE session.acked = NewCursor(role)
    BY <1>1, <1>3, <2>1, FreshEmpty, FreshSaw
  <2>2. CASE session.acked # NewCursor(role)
    <3>1. Saw(session.acked, CellFor(session.resident)) /\ CellFor(session.resident) \in Cells
      BY <1>1, <2>2 DEF CursorsInv
    <3>2. CASE ~Gameplay
      BY <3>1, <3>2 DEF CellFor, Saw
    <3>3. CASE Gameplay
      <4>1. session.resident # NoRoute
        BY <3>1, <3>3 DEF CellFor, NoRoute, Cells
      <4>2. Settled
        BY <3>3, <4>1 DEF SessionInv, RoutesInv, Opening, Moving
      <4> QED
        BY <1>5, <3>1, <4>2 DEF Settled, Saw
    <3> QED
      BY <3>2, <3>3
  <2> QED
    BY <2>1, <2>2
<1>7. Awaiting(s) => s.pending.cursor.role = role
  BY <1>1 DEF CursorsInv, Saw, Awaiting
<1>8. Saw(Candidate(s, fresh), x)
  <2>1. CASE ~fresh
    BY <1>6, <2>1 DEF Candidate
  <2>2. CASE fresh
    <3>1. PICK c : Candidate(s, fresh) = FreshBaseline(c) /\ c.role = role
      BY <1>6, <1>7, <2>2 DEF Candidate
    <3> DEFINE d == FreshBaseline(c)
    <3>2. d.role = role /\ d.last = 0 /\ d.members = <<>>
      BY <3>1 DEF FreshBaseline, NewCursor
    <3> HIDE DEF d, x
    <3>3. Saw(d, x)
      BY <1>1, <1>3, <3>2, FreshSaw
    <3> QED
      BY <3>1, <3>3 DEF d
  <2> QED
    BY <2>1, <2>2
<1> QED
  BY <1>3, <1>4, <1>8

(* The pending frame of a route after a step that leaves the worlds alone. *)
LEMMA PendingStays ==
    ASSUME UNCHANGED hostVars, NEW n, NEW x, x \in Cells, Saw(n, x),
           session'.pending.cursor = n, CellFor(PendingAt') = x,
           session'.acked = session.acked, session'.resident = session.resident, CursorsInv
    PROVE  CursorsInv'
<1>1. UNCHANGED <<role, twoCell, world, left>>
  BY DEF hostVars
<1>2. \A c, y : Saw(c, y) => Saw(c, y)'
  BY <1>1 DEF Saw, CouldBeIn, Entities
<1>3. \A at : CellFor(at)' = CellFor(at)
  BY <1>1 DEF CellFor, Gameplay
<1>4. CellFor(PendingAt)' = x
  BY <1>1 DEF CellFor, Gameplay
<1>5. CellFor(PendingAt)' \in Cells /\ Saw(session.pending.cursor, CellFor(PendingAt))'
  BY <1>2, <1>4
<1>6. \/ session'.acked = NewCursor(role)
      \/ CellFor(session.resident) \in Cells /\ Saw(session'.acked, CellFor(session.resident))
  BY DEF CursorsInv
<1>7. \/ session'.acked = NewCursor(role)'
      \/ CellFor(session.resident)' \in Cells /\ Saw(session.acked, CellFor(session.resident))'
  BY <1>1, <1>2, <1>3, <1>6 DEF NewCursor
<1> QED
  BY <1>5, <1>7 DEF CursorsInv

(* A frame that is sent after everything that was.                         *)
LEMMA SentHonest ==
    ASSUME NEW m, IsQueue(down), down' = Append(down, m), Truthful(m),
           NoneLingers(session'.pending.cursor)
    PROVE  Honest
<1>1. /\ Len(down) \in Nat /\ DOMAIN down' = 1..(Len(down) + 1) /\ down'[Len(down) + 1] = m
  BY QueueAppend, QueueDomain
<1>2. ASSUME NEW i \in DOMAIN down', i > Len(down) PROVE down'[i] = m
  <2>1. i = Len(down) + 1
    BY <1>1, <1>2
  <2> QED
    BY <1>1, <2>1
<1> QED
  BY <1>2 DEF Honest

(* Closing a session.                                                      *)
LEMMA ClosedTrue ==
    ASSUME CursorsInv, UNCHANGED hostVars, NEW s, Closed(s),
           s.acked = session.acked, s.resident = session.resident
    PROVE  CursorsInv' /\ Honest
<1>1. /\ session'.acked = session.acked /\ session'.resident = session.resident
      /\ session'.pending = NoPending /\ down' = <<>>
  BY DEF Closed, SameAs
<1>2. DOMAIN down' = {}
  BY <1>1, QueueEmpty
<1>3. Honest
  BY <1>1, <1>2, QuietHonest
<1> QED
  BY <1>1, <1>3, CursorsStay

(* A step that ignores what it takes.                                      *)
LEMMA SilentTrue ==
    ASSUME CursorsInv, UNCHANGED hostVars, IsQueue(down), down' = down,
           session'.acked = session.acked, session'.resident = session.resident,
           session'.pending \in {session.pending, NoPending}
    PROVE  CursorsInv' /\ Honest
<1>1. \A i \in DOMAIN down' : ~(i > Len(down))
  BY NoMore
<1>2. Honest
  BY <1>1, QuietHonest
<1> QED
  BY <1>2, CursorsStay

(* stage: the next frame, fresh or from the acknowledged view, tells the   *)
(* truth about what it drops and shows nothing for too long.               *)
LEMMA StageTrue ==
    ASSUME SessionInv, ShownInv, Live, UNCHANGED hostVars,
           NEW s, DOMAIN s = SessionFields, NEW fresh \in BOOLEAN, NEW rest,
           s.acked = session.acked, s.resident = session.resident,
           s.initial = session.initial, s.pending = session.pending,
           session.pending.purpose # "handoff", Stage(s, fresh, rest)
    PROVE  CursorsInv' /\ Honest
<1> DEFINE at == StageRoute(s)
           x == CellFor(at)
           candidate == Candidate(s, fresh)
           next == Superseding(s, fresh)
           rem == Projected(at).removals
           p == ProjectFrame(candidate, Projected(at).world, rem)
           purpose == Purpose(s, fresh)
           bound == IF purpose = "initial" THEN s.initial ELSE NoRoute
           m == Routed(p.frame, at)
<1>1. /\ DOMAIN next = SessionFields
      /\ next.acked = s.acked /\ next.resident = s.resident /\ next.pending = s.pending
  BY DEF Superseding, SessionFields
<1>2. WorldsInv /\ BundleInv /\ CursorsInv /\ IsQueue(down)
  BY DEF ShownInv, SessionInv
<1>3. \/ session' = next /\ UNCHANGED down
      \/ Close(next, "projection_failed")
      \/ /\ ~RoutedAway(at)
         /\ session' = [Pending(next, p.cursor, purpose, bound)
                          EXCEPT !.event = p.frame.seq, !.full = p.frame.seq]
         /\ down' = Append(down, m)
  BY Zenon DEF Stage
<1>4. IsCursor(candidate)
  <2>1. IsCursor(s.acked) /\ IsCursor(s.pending.cursor)
    BY DEF SessionInv, SessionShape
  <2>2. CASE ~fresh
    BY <2>1, <2>2 DEF Candidate
  <2>3. CASE fresh
    BY <2>1, <2>3, FreshMeans DEF Candidate
  <2> QED
    BY <2>2, <2>3
<1> HIDE DEF next
<1>5. CASE session' = next /\ UNCHANGED down
  BY <1>1, <1>2, <1>5, SilentTrue
<1>6. CASE Close(next, "projection_failed")
  <2>1. Closed(next)
    BY <1>1, <1>6, CloseMeans
  <2> QED
    BY <1>1, <1>2, <2>1, ClosedTrue
<1>7. CASE /\ ~RoutedAway(at)
           /\ session' = [Pending(next, p.cursor, purpose, bound)
                            EXCEPT !.event = p.frame.seq, !.full = p.frame.seq]
           /\ down' = Append(down, m)
  <2>1. /\ x \in Cells /\ ShownNow(x) /\ Saw(candidate, x)
        /\ Projected(at).world = world[x]
        /\ rem = IF Gameplay THEN {} ELSE revision.removals
    BY <1>7, CandidateSaw
  <2>2. /\ Gameplay /\ purpose = "initial" => s.initial = at /\ at # NoRoute
        /\ Gameplay /\ purpose # "initial" => s.resident = at /\ at # NoRoute
    BY StageFrom
  <2>3. CellFor(IF bound # NoRoute THEN bound ELSE s.resident) = x
    <3>1. CASE Gameplay
      BY <2>2, <3>1
    <3>2. CASE ~Gameplay
      BY <3>2 DEF CellFor
    <3> QED
      BY <3>1, <3>2
  <2> HIDE DEF at, candidate, rem, purpose, bound, x
  <2>4. p = ProjectFrame(candidate, world[x], rem)
    BY <2>1
  <2>5. Saw(p.cursor, x) /\ NoneLingers(p.cursor)
    <3>1. DOMAIN candidate = CursorFields
      BY <1>4 DEF IsCursor
    <3> HIDE DEF p
    <3> QED
      BY <1>2, <2>1, <2>4, <3>1, FrameSeen
  <2>6. Truthful(p.frame)
    <3> HIDE DEF p
    <3> QED
      BY <1>2, <2>1, <2>4, FrameTrue
  <2>7. Truthful(m)
    <3>1. m.removed = p.frame.removed /\ m.cell = p.frame.cell
      BY DEF Routed, ProjectFrame
    <3> HIDE DEF m, p
    <3> QED
      BY <2>6, <3>1 DEF Truthful
  <2>8. /\ session'.acked = next.acked /\ session'.resident = next.resident
        /\ session'.pending.cursor = p.cursor /\ session'.pending.route = bound
    <3> HIDE DEF p
    <3>1. DOMAIN next = SessionFields
      BY <1>1
    <3> QED
      BY <1>7, <3>1 DEF Pending, SessionFields, p
  <2> HIDE DEF p, m
  <2>9. CellFor(PendingAt') = x
    BY <1>1, <2>3, <2>8 DEF PendingAt
  <2>10. Honest
    BY <1>2, <1>7, <2>5, <2>7, <2>8, SentHonest
  <2>11. CursorsInv'
    BY <1>1, <1>2, <2>1, <2>5, <2>8, <2>9, PendingStays
  <2> QED
    BY <2>10, <2>11
<1> QED
  BY <1>3, <1>5, <1>6, <1>7

(* acknowledge: the acknowledged cursor is that of the route it was        *)
(* projected for.                                                          *)
LEMMA AcknowledgeTrue ==
    ASSUME SessionInv, ShownInv, OnAcknowledge
    PROVE  CursorsInv' /\ Honest
<1>1. CursorsInv /\ IsQueue(down) /\ Live /\ UNCHANGED hostVars /\ down' = down
  BY DEF ShownInv, SessionInv, OnAcknowledge, Arrived
<1>2. ASSUME session' = session PROVE CursorsInv' /\ Honest
  BY <1>1, <1>2, SilentTrue
<1>3. ASSUME Awaiting(session), session' = Acknowledged(session)
      PROVE  CursorsInv' /\ Honest
  <2>1. DOMAIN session = SessionFields
    BY DEF SessionInv, SessionShape
  <2>2. /\ session'.acked = session.pending.cursor /\ session'.pending = NoPending
        /\ session'.resident = IF session.pending.purpose \in {"initial", "handoff"}
                               THEN session.pending.route ELSE session.resident
    BY <1>3, <2>1 DEF Acknowledged, SessionFields
  <2>3. CellFor(session'.resident) = CellFor(PendingAt)
    <3>1. CASE ~Gameplay
      BY <3>1 DEF CellFor
    <3>2. CASE Gameplay
      <4>1. Opening \/ Settled \/ Moving
        BY <1>1, <3>2 DEF SessionInv, RoutesInv
      <4>2. session.pending.purpose # "none"
        BY <1>3 DEF Awaiting, SessionInv, SessionShape
      <4>3. CASE Opening
        BY <2>2, <4>2, <4>3 DEF Opening, PendingAt
      <4>4. CASE Settled
        BY <2>2, <4>4 DEF Settled, PendingAt
      <4>5. CASE Moving
        <5>1. session.pending.route # NoRoute
          BY <4>5 DEF Moving, NoRoute
        <5> QED
          BY <2>2, <4>5, <5>1 DEF Moving, PendingAt
      <4> QED
        BY <4>1, <4>3, <4>4, <4>5
    <3> QED
      BY <3>1, <3>2
  <2>4. CellFor(session'.resident) \in Cells /\ Saw(session'.acked, CellFor(session'.resident))
    BY <1>1, <1>3, <2>2, <2>3 DEF CursorsInv, Awaiting
  <2>5. UNCHANGED <<role, twoCell, world, left>>
    BY <1>1 DEF hostVars
  <2>6. \A c, x : Saw(c, x) => Saw(c, x)'
    BY <2>5 DEF Saw, CouldBeIn, Entities
  <2>7. \A at : CellFor(at)' = CellFor(at)
    BY <2>5 DEF CellFor, Gameplay
  <2>8. CellFor(session.resident)' \in Cells /\ Saw(session.acked, CellFor(session.resident))'
    BY <2>4, <2>6, <2>7
  <2>9. session'.pending = NoPending'
    BY <2>2 DEF NoPending
  <2>10. CursorsInv'
    BY <2>8, <2>9 DEF CursorsInv
  <2>11. \A i \in DOMAIN down' : ~(i > Len(down))
    BY <1>1, NoMore
  <2> QED
    BY <2>2, <2>10, <2>11, QuietHonest
<1> QED
  BY <1>2, <1>3 DEF OnAcknowledge

(* The steps that stage a frame, or close the session instead.             *)
LEMMA StagingTrue ==
    ASSUME SessionInv, ShownInv,
           AckTimeout \/ ReplicationTick \/ OnForeignAcknowledge \/ OnRequestSnapshot
    PROVE  CursorsInv' /\ Honest
<1>1. CursorsInv /\ IsQueue(down) /\ Live /\ UNCHANGED hostVars
  BY DEF ShownInv, SessionInv, AckTimeout, ReplicationTick, OnForeignAcknowledge, ForeignAck,
         OnRequestSnapshot, Arrived
<1>2. DOMAIN session = SessionFields
  BY DEF SessionInv, SessionShape
<1>3. ASSUME NEW r, Close(session, r) PROVE CursorsInv' /\ Honest
  BY <1>1, <1>2, <1>3, CloseMeans, ClosedTrue
<1>4. ASSUME NEW elapsed, NEW rest, ~RecoveryPending(session),
             Stage(Permit(session, elapsed), TRUE, rest)
      PROVE  CursorsInv' /\ Honest
  <2> DEFINE s == Permit(session, elapsed)
  <2>1. /\ DOMAIN s = SessionFields
        /\ s.acked = session.acked /\ s.resident = session.resident
        /\ s.initial = session.initial /\ s.pending = session.pending
    BY <1>2, PermitMeans
  <2>2. session.pending.purpose # "handoff" /\ Stage(s, TRUE, rest)
    BY <1>4 DEF RecoveryPending
  <2> HIDE DEF s
  <2> QED
    BY <1>1, <2>1, <2>2, StageTrue
<1>5. CASE AckTimeout
  BY <1>3, <1>4, <1>5 DEF AckTimeout
<1>6. CASE ReplicationTick
  <2>1. session.pending.purpose # "handoff" /\ Stage(session, FALSE, up)
    BY <1>6, NoPendingMeans DEF ReplicationTick, Awaiting
  <2> QED
    BY <1>1, <1>2, <2>1, StageTrue
<1>7. CASE OnForeignAcknowledge
  BY <1>3, <1>4, <1>7 DEF OnForeignAcknowledge
<1>8. CASE OnRequestSnapshot
  <2>1. ASSUME UNCHANGED <<session, down>> PROVE CursorsInv' /\ Honest
    BY <1>1, <2>1, SilentTrue
  <2> QED
    BY <1>3, <1>4, <1>8, <2>1 DEF OnRequestSnapshot
<1> QED
  BY <1>5, <1>6, <1>7, <1>8

(* A new session has shown nothing.                                        *)
LEMMA SubscribeTrue ==
    ASSUME SessionInv, ShownInv, Subscribe
    PROVE  CursorsInv' /\ Honest
<1>1. /\ session'.acked = NewCursor(role) /\ session'.pending = NoPending
      /\ role' = role /\ down' = down /\ IsQueue(down)
  BY DEF Subscribe, NewSession, hostVars, SessionInv
<1>2. \A i \in DOMAIN down' : ~(i > Len(down))
  BY <1>1, NoMore
<1>3. CursorsInv'
  BY <1>1 DEF CursorsInv, NewCursor, NoPending
<1> QED
  BY <1>1, <1>2, <1>3, QuietHonest

(* The acknowledged cursor is of the session's role.                       *)
LEMMA AckedRole ==
    ASSUME ShownInv
    PROVE  session.acked.role = role
<1>1. NewCursor(role).role = role
  BY FreshEmpty
<1> QED
  BY <1>1 DEF ShownInv, CursorsInv, Saw

(* A frame projected from a cursor without members.                        *)
LEMMA FreshFrame ==
    ASSUME ShownInv, NEW c, NEW x \in Cells, NEW rem, ShownNow(x), DOMAIN c = CursorFields,
           c.role = role, c.last = 0, c.members = <<>>,
           rem = IF Gameplay THEN {} ELSE revision.removals, NEW at
    PROVE  LET p == ProjectFrame(c, world[x], rem) IN
           /\ Saw(p.cursor, x) /\ NoneLingers(p.cursor) /\ Truthful(Routed(p.frame, at))
<1> DEFINE p == ProjectFrame(c, world[x], rem)
           m == Routed(p.frame, at)
<1>1. WorldsInv /\ BundleInv
  BY DEF ShownInv
<1>2. Saw(c, x)
  BY <1>1, FreshSaw
<1>3. m.removed = p.frame.removed /\ m.cell = p.frame.cell
  BY DEF Routed, ProjectFrame
<1>4. Saw(p.cursor, x) /\ NoneLingers(p.cursor)
  BY <1>1, <1>2, FrameSeen
<1>5. Truthful(p.frame)
  BY <1>1, <1>2, FrameTrue
<1> HIDE DEF m, p
<1>6. Truthful(m)
  BY <1>3, <1>5 DEF Truthful
<1> QED
  BY <1>4, <1>6 DEF m, p

(* The destination baseline of a handoff (stage_transfer) is fresh.        *)
LEMMA HandoffTrue ==
    ASSUME SessionInv, ShownInv, OnHandoff
    PROVE  CursorsInv' /\ Honest
<1> DEFINE s == [session EXCEPT !.seen = handoff]
           candidate == FreshTransferBaseline(s.acked, handoff, route.cell)
           p == ProjectFrame(candidate, world[route.cell], {})
           next == [s EXCEPT !.superseded = s.pending.cursor.hash, !.last = handoff,
                             !.event = p.frame.seq, !.full = p.frame.seq]
           m == Routed(p.frame, route)
<1>1. /\ Live /\ UNCHANGED hostVars /\ IsQueue(down)
      /\ WorldsInv /\ CursorsInv
  BY DEF OnHandoff, ShownInv, SessionInv
<1>2. \/ session' = s /\ UNCHANGED <<down, up>>
      \/ Close(s, "handoff_route_discontinuity")
      \/ /\ TransferContinues(s)
         /\ session' = Pending(next, p.cursor, "handoff", route)
         /\ down' = down \o <<Phase("preparing"), Phase("importing"), Phase("verifying"), m>>
  BY Zenon DEF OnHandoff
<1>3. /\ DOMAIN s = SessionFields /\ s.acked = session.acked /\ s.resident = session.resident
      /\ s.pending = session.pending
  BY DEF SessionInv, SessionShape, SessionFields
<1>4. IsCursor(s.acked) /\ route.gen \in Nat \ {0}
  BY <1>3 DEF SessionInv, SessionShape, Resting
<1> HIDE DEF s, p, m
<1>5. CASE session' = s /\ UNCHANGED <<down, up>>
  BY <1>1, <1>3, <1>5, SilentTrue
<1>6. CASE Close(s, "handoff_route_discontinuity")
  BY <1>1, <1>3, <1>6, CloseMeans, ClosedTrue
<1>7. CASE /\ TransferContinues(s)
           /\ session' = Pending(next, p.cursor, "handoff", route)
           /\ down' = down \o <<Phase("preparing"), Phase("importing"), Phase("verifying"), m>>
  <2>1. session.resident # NoRoute /\ handoff = route.gen
    BY <1>3, <1>7 DEF TransferContinues
  <2>2. Gameplay
    BY <2>1 DEF SessionInv, RoutesInv, Unrouted
  <2>3. route.cell \in Cells /\ ShownNow(route.cell) /\ CellFor(route) = route.cell
        /\ route # NoRoute
    BY <1>1, <1>4, <2>2 DEF WorldsInv, ShownNow, CellFor, NoRoute
  <2>4. /\ candidate.role = role /\ candidate.last = 0 /\ candidate.members = <<>>
        /\ DOMAIN candidate = CursorFields
    BY <1>3, <1>4, <2>1, FreshEmpty, AckedRole, TransferMeans
  <2>5. /\ DOMAIN next = SessionFields /\ next.acked = session.acked
        /\ next.resident = session.resident
    BY <1>3 DEF SessionFields
  <2> HIDE DEF next, candidate
  <2>6. /\ session'.acked = session.acked /\ session'.resident = session.resident
        /\ session'.pending.cursor = p.cursor /\ session'.pending.route = route
    BY <1>7, <2>5 DEF Pending, SessionFields
  <2>7. Saw(p.cursor, route.cell) /\ NoneLingers(p.cursor) /\ Truthful(m)
    <3> DEFINE x == route.cell
               none == {}
    <3>1. x \in Cells /\ ShownNow(x) /\ none = IF Gameplay THEN {} ELSE revision.removals
      BY <2>2, <2>3
    <3>2. p = ProjectFrame(candidate, world[x], none)
      BY DEF p
    <3> HIDE DEF x, none
    <3>3. Saw(p.cursor, x) /\ NoneLingers(p.cursor) /\ Truthful(Routed(p.frame, route))
      BY <2>4, <3>1, <3>2, FreshFrame
    <3> QED
      BY <3>3 DEF x, m
  <2>8. CellFor(PendingAt') = route.cell
    BY <2>3, <2>6 DEF PendingAt
  <2> HIDE DEF p, m
  <2>9. CursorsInv'
    BY <1>1, <2>3, <2>6, <2>7, <2>8, PendingStays
  <2>10. /\ DOMAIN down' = 1..(Len(down) + 4) /\ Len(down) \in Nat
         /\ down'[Len(down) + 1] = Phase("preparing") /\ down'[Len(down) + 2] = Phase("importing")
         /\ down'[Len(down) + 3] = Phase("verifying") /\ down'[Len(down) + 4] = m
    BY <1>1, <1>7, QueueFour, QueueDomain
  <2>11. \A phase : Phase(phase).kind = "handoff"
    BY DEF Phase
  <2>12. ASSUME NEW i \in DOMAIN down', i > Len(down), down'[i].kind = "delta"
         PROVE  Truthful(down'[i])
    <3>1. \/ i = Len(down) + 1 \/ i = Len(down) + 2 \/ i = Len(down) + 3 \/ i = Len(down) + 4
      BY <2>10, <2>12
    <3> QED
      BY <2>7, <2>10, <2>11, <2>12, <3>1
  <2>13. Honest
    BY <2>6, <2>7, <2>12 DEF Honest
  <2> QED
    BY <2>9, <2>13
<1> QED
  BY <1>2, <1>5, <1>6, <1>7

(* The first baseline (stage_initial) is fresh.                            *)
LEMMA BootstrapTrue ==
    ASSUME SessionInv, ShownInv, Bootstrap
    PROVE  CursorsInv' /\ Honest
<1> DEFINE at == IF twoCell /\ role = "player" THEN route ELSE NoRoute
           fresh == [session EXCEPT !.initial = at, !.last = IF at = NoRoute THEN 0 ELSE handoff]
           c == NewCursor(role)
           x == CellFor(at)
           rem == Projected(at).removals
           p == ProjectFrame(c, Projected(at).world, rem)
           purpose == IF at = NoRoute THEN "ordinary" ELSE "initial"
           m == Routed(p.frame, at)
           welcome == [kind |-> "welcome", role |-> role]
           registry == [kind |-> "registry"]
<1>1. /\ session.state = "subscribed" /\ UNCHANGED hostVars
      /\ WorldsInv /\ BundleInv /\ CursorsInv
  BY DEF Bootstrap, ShownInv
<1>2. \/ Close(fresh, "projection_failed")
      \/ /\ session' = [Pending(fresh, p.cursor, purpose, at)
                          EXCEPT !.state = "live", !.event = p.frame.seq, !.full = p.frame.seq]
         /\ down' = <<welcome, registry, m>>
  BY Zenon DEF Bootstrap
<1>3. /\ DOMAIN session = SessionFields /\ session.resident = NoRoute /\ down = <<>>
      /\ route.gen \in Nat \ {0}
  BY <1>1 DEF SessionInv, SessionShape, Resting, Live
<1>4. /\ DOMAIN fresh = SessionFields /\ fresh.acked = session.acked
      /\ fresh.resident = NoRoute
  BY <1>3 DEF SessionFields
<1>5. /\ x \in Cells /\ ShownNow(x) /\ Projected(at).world = world[x]
      /\ rem = IF Gameplay THEN {} ELSE revision.removals
  BY <1>1 DEF CellFor, Gameplay, ShownNow, Projected, BundleInv, WorldsInv, Cells
<1>6. CellFor(IF at # NoRoute THEN at ELSE NoRoute) = x
  OBVIOUS
<1>7. /\ c.role = role /\ c.last = 0 /\ c.members = <<>> /\ DOMAIN c = CursorFields
  BY FreshEmpty, NewCursorMeans DEF IsCursor
<1> HIDE DEF at, fresh, c, rem, x, purpose
<1>8. CASE Close(fresh, "projection_failed")
  <2>1. Closed(fresh)
    BY <1>4, <1>8, CloseMeans
  <2> QED
    BY <1>1, <1>3, <1>4, <2>1, ClosedTrue
<1>9. CASE /\ session' = [Pending(fresh, p.cursor, purpose, at)
                            EXCEPT !.state = "live", !.event = p.frame.seq, !.full = p.frame.seq]
           /\ down' = <<welcome, registry, m>>
  <2>1. p = ProjectFrame(c, world[x], rem)
    BY <1>5
  <2> HIDE DEF p
  <2>2. Saw(p.cursor, x) /\ NoneLingers(p.cursor) /\ Truthful(m)
    BY <1>5, <1>7, <2>1, FreshFrame
  <2> HIDE DEF m
  <2>3. /\ session'.acked = session.acked /\ session'.resident = NoRoute
        /\ session'.pending.cursor = p.cursor /\ session'.pending.route = at
    BY <1>4, <1>9 DEF Pending, SessionFields
  <2>4. CellFor(PendingAt') = x
    BY <1>6, <2>3 DEF PendingAt
  <2>5. CursorsInv'
    BY <1>1, <1>3, <1>5, <2>2, <2>3, <2>4, PendingStays
  <2>6. welcome.kind = "welcome" /\ registry.kind = "registry"
    OBVIOUS
  <2> HIDE DEF welcome, registry
  <2>7. \A i \in DOMAIN down' : down'[i] = welcome \/ down'[i] = registry \/ down'[i] = m
    BY <1>9
  <2>8. Honest
    BY <2>2, <2>3, <2>6, <2>7 DEF Honest
  <2> QED
    BY <2>5, <2>8
<1> QED
  BY <1>2, <1>8, <1>9

(* The client's steps leave what the server shows alone.                   *)
LEMMA ClientTrue ==
    ASSUME SessionInv, ShownInv, ClientStep
    PROVE  CursorsInv' /\ Honest /\ UNCHANGED hostVars
<1>1. CursorsInv /\ IsQueue(down) /\ DOMAIN session = SessionFields
  BY DEF ShownInv, SessionInv, SessionShape
<1>2. CASE ClientReceives
  <2>1. UNCHANGED hostVars /\ down # <<>>
    BY <1>2 DEF ClientReceives
  <2>2. \/ down' = Tail(down) /\ UNCHANGED session
        \/ Close(session, "client_closed")
    BY <1>2, Zenon DEF ClientReceives
  <2>3. ASSUME down' = Tail(down), UNCHANGED session PROVE CursorsInv' /\ Honest
    <3>1. Len(down) \in Nat /\ DOMAIN down' = 1..(Len(down) - 1)
      BY <1>1, <2>1, <2>3, QueueTail, QueueDomain
    <3>2. \A i \in DOMAIN down' : ~(i > Len(down))
      BY <3>1
    <3>3. Honest
      BY <2>3, <3>2, QuietHonest
    <3> QED
      BY <1>1, <2>1, <2>3, <3>3, CursorsStay
  <2>4. ASSUME Close(session, "client_closed") PROVE CursorsInv' /\ Honest
    BY <1>1, <2>1, <2>4, CloseMeans, ClosedTrue
  <2> QED
    BY <2>1, <2>2, <2>3, <2>4
<1>3. CASE ClientRequests \/ \E build \in BOOLEAN : ClientIntends(build)
  <2>1. UNCHANGED hostVars /\ UNCHANGED <<session, down>>
    BY <1>3 DEF ClientRequests, ClientIntends
  <2> QED
    BY <1>1, <2>1, SilentTrue
<1> QED
  BY <1>2, <1>3 DEF ClientStep

-----------------------------------------------------------------------------
(* The world goes on.                                                      *)

WorldFields == {"cell", "seq", "tick", "op", "ents"}

(* Ticks do not go back, and what has newly left the origin leaves it at a *)
(* tick that no frame has shown.                                           *)
Ages ==
    /\ UNCHANGED <<role, twoCell>>
    /\ \A x \in Cells : world[x].tick <= world'[x].tick
    /\ \A e \in DOMAIN world'["origin"].ents : left'[e] # 0 =>
          \/ e \in DOMAIN world["origin"].ents /\ left'[e] = left[e]
          \/ left'[e] > world["origin"].tick

(* What a cursor has seen it has still seen.                               *)
LEMMA SawAges ==
    ASSUME WorldsInv, WorldsInv', Ages, NEW c, NEW x \in Cells, Saw(c, x)
    PROVE  Saw(c, x)'
<1>1. /\ world[x].tick \in Nat /\ world'[x].tick \in Nat /\ world[x].tick <= world'[x].tick
      /\ c.last \in Nat /\ c.last <= world[x].tick
  BY DEF WorldsInv, Ages, Saw
<1>2. ASSUME x = "origin", NEW e \in DOMAIN c.members \cap DOMAIN world'["origin"].ents,
             ~Critical(c, e), left'[e] # 0
      PROVE  IF c.members[e].out # 0 THEN c.members[e].out <= left'[e] ELSE c.last < left'[e]
  <2>1. /\ c.members[e].out \in Nat /\ c.members[e].out <= c.last
        /\ left'[e] \in Nat
    BY <1>2 DEF Saw, WorldsInv
  <2>2. CASE e \in DOMAIN world["origin"].ents /\ left'[e] = left[e]
    BY <1>2, <2>2 DEF Saw
  <2>3. CASE left'[e] > world["origin"].tick
    BY <1>1, <1>2, <2>1, <2>3
  <2> QED
    BY <1>2, <2>2, <2>3 DEF Ages
<1>3. role' = role /\ c.last <= world'[x].tick
  BY <1>1 DEF Ages
<1>4. \A e : Critical(c, e)' <=> Critical(c, e)
  BY DEF Critical
<1>5. CouldBeIn(x)' = CouldBeIn(x)
  BY DEF CouldBeIn, Entities
<1> QED
  BY <1>1, <1>2, <1>3, <1>4, <1>5 DEF Saw

(* So the cursors of a session that sends nothing stay good.               *)
LEMMA CursorsAge ==
    ASSUME WorldsInv, WorldsInv', CursorsInv, Ages,
           session'.acked = session.acked, session'.resident = session.resident,
           session'.pending = session.pending
    PROVE  CursorsInv'
<1>1. \A c : \A x \in Cells : Saw(c, x) => Saw(c, x)'
  BY SawAges
<1>2. \A at : CellFor(at)' = CellFor(at)
  BY DEF CellFor, Gameplay, Ages
<1>3. PendingAt' = PendingAt
  BY DEF PendingAt
<1>4. role' = role
  BY DEF Ages
<1>5. Cells' = Cells /\ NewCursor(role)' = NewCursor(role) /\ NoPending' = NoPending
  BY <1>4 DEF Cells, NewCursor, NoPending
<1> HIDE DEF PendingAt
<1>6. \/ session'.acked = NewCursor(role)
      \/ CellFor(session'.resident) \in Cells /\ Saw(session'.acked, CellFor(session'.resident))
  BY DEF CursorsInv
<1>7. \/ session'.pending = NoPending
      \/ CellFor(PendingAt) \in Cells /\ Saw(session'.pending.cursor, CellFor(PendingAt))
  BY DEF CursorsInv
<1>8. \/ session'.acked = NewCursor(role)'
      \/ CellFor(session.resident)' \in Cells /\ Saw(session.acked, CellFor(session.resident))'
  BY <1>1, <1>2, <1>5, <1>6
<1>9. \/ session'.pending = NoPending'
      \/ CellFor(PendingAt)' \in Cells /\ Saw(session.pending.cursor, CellFor(PendingAt))'
  BY <1>1, <1>2, <1>3, <1>5, <1>7
<1> QED
  BY <1>5, <1>8, <1>9 DEF CursorsInv

(* The public bundle follows the origin (AppState::advance).               *)
LEMMA PublishKeeps ==
    ASSUME WorldsInv, BundleInv, NEW worlds, NEW kind, NEW home,
           Publish(worlds, kind, FALSE, home), world' = worlds, UNCHANGED <<twoCell, route>>,
           worlds["origin"].seq = world["origin"].seq => worlds["origin"] = world["origin"]
    PROVE  BundleInv'
<1>1. CASE twoCell
  <2>1. revision' = IF worlds["origin"].seq = world["origin"].seq THEN revision
                    ELSE [world |-> worlds["origin"], removals |-> revision.removals]
    BY <1>1, Zenon DEF Publish, PublishTwoCell
  <2> QED
    BY <2>1 DEF BundleInv
<1>2. CASE ~twoCell
  <2>1. revision' = [world |-> worlds["origin"], removals |-> {}]
    BY <1>2 DEF Publish, PublishOneCell
  <2> QED
    BY <1>2, <2>1 DEF BundleInv
<1> QED
  BY <1>1, <1>2

(* A new state of one cell, with the same entities in the same places but  *)
(* for e, which may move.                                                  *)
LEMMA CellKeeps ==
    ASSUME WorldsInv, NEW cell \in Cells, NEW w, world' = [world EXCEPT ![cell] = w],
           UNCHANGED <<role, twoCell, route>>,
           DOMAIN w = WorldFields, w.cell = cell, w.seq \in Nat,
           w.tick \in Nat, world[cell].tick <= w.tick,
           DOMAIN w.ents \subseteq DOMAIN world[cell].ents,
           \A e \in DOMAIN w.ents : DOMAIN w.ents[e] = {"zone", "shape"},
           Pilot \in DOMAIN world[cell].ents => Pilot \in DOMAIN w.ents,
           DOMAIN left' = Entities,
           cell # "origin" => \A e \in DOMAIN world["origin"].ents : left'[e] = left[e],
           cell = "origin" => \A e \in DOMAIN w.ents :
              \/ w.ents[e].zone = world[cell].ents[e].zone /\ left'[e] = left[e]
              \/ left'[e] = (IF w.ents[e].zone = 2 THEN w.tick ELSE 0) /\ w.tick > world[cell].tick
    PROVE  WorldsInv' /\ Ages
<1>1. /\ DOMAIN world = Cells /\ DOMAIN world' = Cells /\ world'[cell] = w
      /\ \A x \in Cells : x # cell => world'[x] = world[x]
      /\ \A x \in Cells : world[x].tick \in Nat \ {0}
      /\ world'["origin"] = IF cell = "origin" THEN w ELSE world["origin"]
  BY DEF WorldsInv, Cells
<1>2. ASSUME NEW x \in Cells
      PROVE  /\ DOMAIN world'[x] = WorldFields
             /\ world'[x].cell = x /\ world'[x].tick \in Nat \ {0} /\ world'[x].seq \in Nat
             /\ DOMAIN world'[x].ents \subseteq CouldBeIn(x)
             /\ \A e \in DOMAIN world'[x].ents : DOMAIN world'[x].ents[e] = {"zone", "shape"}
             /\ Pilot \in DOMAIN world'[x].ents <=> x = route'.cell
             /\ world[x].tick <= world'[x].tick
  <2>1. CASE x = cell
    <3>1. w.tick \in Nat \ {0}
      BY <1>1
    <3>2. DOMAIN world[x].ents \subseteq CouldBeIn(x) /\ (Pilot \in DOMAIN world[x].ents <=> x = route.cell)
      BY DEF WorldsInv
    <3> QED
      BY <1>1, <2>1, <3>1, <3>2
  <2>2. CASE x # cell
    <3>1. world'[x] = world[x]
      BY <1>1, <2>2
    <3> QED
      BY <1>1, <3>1 DEF WorldsInv, WorldFields
  <2> QED
    BY <2>1, <2>2
<1>3. ASSUME NEW e \in DOMAIN world'["origin"].ents
      PROVE  /\ left'[e] # 0 <=> world'["origin"].ents[e].zone = 2
             /\ left'[e] \in Nat /\ left'[e] <= world'["origin"].tick
             /\ e \in DOMAIN world["origin"].ents
             /\ left'[e] = left[e] \/ left'[e] = 0 \/ left'[e] > world["origin"].tick
  <2>1. CASE cell # "origin"
    BY <1>1, <1>3, <2>1 DEF WorldsInv
  <2>2. CASE cell = "origin"
    <3>1. /\ e \in DOMAIN w.ents /\ e \in DOMAIN world["origin"].ents
          /\ world'["origin"] = w
      BY <1>1, <1>3, <2>2
    <3>2. /\ left[e] # 0 <=> world["origin"].ents[e].zone = 2
          /\ left[e] \in Nat /\ left[e] <= world["origin"].tick
      BY <3>1 DEF WorldsInv
    <3>3. world["origin"].tick \in Nat /\ world["origin"].tick <= w.tick
      BY <1>1, <2>2
    <3>4. \/ w.ents[e].zone = world["origin"].ents[e].zone /\ left'[e] = left[e]
          \/ left'[e] = (IF w.ents[e].zone = 2 THEN w.tick ELSE 0) /\ w.tick > world["origin"].tick
      BY <2>2, <3>1
    <3> QED
      BY <3>1, <3>2, <3>3, <3>4
  <2> QED
    BY <2>1, <2>2
<1>4. WorldsInv'
  <2>1. \A x : CouldBeIn(x)' = CouldBeIn(x)
    BY DEF CouldBeIn, Entities
  <2>2. /\ role' \in {"player", "spectator"} /\ twoCell' \in BOOLEAN
        /\ route'.cell \in Cells /\ (~twoCell' => route'.cell = "origin")
    BY DEF WorldsInv
  <2>3. \A e \in DOMAIN world'["origin"].ents :
           /\ left'[e] # 0 <=> world'["origin"].ents[e].zone = 2
           /\ left'[e] \in Nat /\ left'[e] <= world'["origin"].tick
    BY <1>3
  <2>4. DOMAIN world' = Cells /\ DOMAIN left' = Entities
    BY <1>1
  <2> QED
    BY <1>2, <2>1, <2>2, <2>3, <2>4 DEF WorldsInv, WorldFields, Cells, Entities
<1>5. Ages
  <2>1. UNCHANGED <<role, twoCell>>
    OBVIOUS
  <2> QED
    BY <1>2, <1>3, <2>1 DEF Ages
<1> QED
  BY <1>4, <1>5

(* An entity of the origin moves to another band.                          *)
LEMMA MoveTrue ==
    ASSUME ShownInv, NEW cell \in Cells, NEW zone \in Zones, NEW e \in DOMAIN world[cell].ents,
           Move(cell, e, zone)
    PROVE  ShownInv'
<1> DEFINE w == [Ticked(world[cell]) EXCEPT !.ents[e].zone = zone]
           worlds == [world EXCEPT ![cell] = w]
<1>1. /\ world' = worlds
      /\ left' = [left EXCEPT ![e] = IF zone = 2 THEN w.tick ELSE 0]
      /\ Publish(worlds, "motion", FALSE, route.cell)
      /\ UNCHANGED <<role, twoCell, route, session>>
  BY DEF Move
<1>2. WorldsInv /\ BundleInv /\ CursorsInv
  BY DEF ShownInv
<1>3. /\ DOMAIN world[cell] = WorldFields /\ world[cell].cell = cell
      /\ world[cell].tick \in Nat /\ world[cell].seq \in Nat
      /\ \A d \in DOMAIN world[cell].ents : DOMAIN world[cell].ents[d] = {"zone", "shape"}
      /\ DOMAIN world[cell].ents \subseteq Entities /\ DOMAIN left = Entities
  BY <1>2 DEF WorldsInv, WorldFields, CouldBeIn, Entities
<1>4. /\ DOMAIN w = WorldFields /\ w.cell = cell /\ w.seq = world[cell].seq + 1
      /\ w.tick = world[cell].tick + 1
      /\ w.ents = [world[cell].ents EXCEPT ![e].zone = zone]
  BY <1>3 DEF Ticked, WorldFields
<1> HIDE DEF w
<1>5. /\ DOMAIN w.ents = DOMAIN world[cell].ents
      /\ w.ents[e].zone = zone
      /\ \A d \in DOMAIN w.ents : d # e => w.ents[d] = world[cell].ents[d]
      /\ \A d \in DOMAIN w.ents : DOMAIN w.ents[d] = {"zone", "shape"}
  BY <1>3, <1>4
<1>6. /\ DOMAIN left' = Entities /\ left'[e] = (IF zone = 2 THEN w.tick ELSE 0)
      /\ \A d \in Entities : d # e => left'[d] = left[d]
  BY <1>1, <1>3
<1>7. cell # "origin" => e \notin DOMAIN world["origin"].ents
  BY <1>2 DEF WorldsInv, CouldBeIn, Cells
<1>8. DOMAIN world["origin"].ents \subseteq Entities
  BY <1>2 DEF WorldsInv, CouldBeIn, Cells, Entities
<1>9. WorldsInv' /\ Ages
  <2>1. /\ w.seq \in Nat /\ w.tick \in Nat /\ world[cell].tick <= w.tick
        /\ w.tick > world[cell].tick
    BY <1>3, <1>4
  <2>2. cell # "origin" => \A d \in DOMAIN world["origin"].ents : left'[d] = left[d]
    BY <1>6, <1>7, <1>8
  <2>3. \A d \in DOMAIN w.ents :
           \/ w.ents[d].zone = world[cell].ents[d].zone /\ left'[d] = left[d]
           \/ left'[d] = (IF w.ents[d].zone = 2 THEN w.tick ELSE 0) /\ w.tick > world[cell].tick
    BY <1>3, <1>5, <1>6, <2>1
  <2> QED
    BY <1>1, <1>2, <1>4, <1>5, <1>6, <2>1, <2>2, <2>3, CellKeeps
<1>10. BundleInv'
  <2>1. worlds["origin"].seq = world["origin"].seq => worlds["origin"] = world["origin"]
    <3>1. CASE cell = "origin"
      <4>1. worlds["origin"] = w
        BY <1>2, <3>1 DEF WorldsInv, Cells
      <4> QED
        BY <1>3, <1>4, <3>1, <4>1
    <3>2. CASE cell # "origin"
      BY <3>2
    <3> QED
      BY <3>1, <3>2
  <2> HIDE DEF worlds
  <2> QED
    BY <1>1, <1>2, <2>1, PublishKeeps
<1>11. CursorsInv'
  BY <1>1, <1>2, <1>9, CursorsAge
<1> QED
  BY <1>9, <1>10, <1>11 DEF ShownInv

(* A grid changes structurally, or is destroyed.                           *)
LEMMA RestructureTrue ==
    ASSUME ShownInv, NEW g \in DOMAIN world["origin"].ents \ {Pilot}, NEW destroyed \in BOOLEAN,
           Restructure(g, destroyed)
    PROVE  ShownInv'
<1> DEFINE here == world["origin"]
           w == Ticked(here)
           new == IF destroyed THEN [w EXCEPT !.ents = [e \in DOMAIN @ \ {g} |-> @[e]]]
                  ELSE [w EXCEPT !.ents[g].shape = 1 - @]
           worlds == [world EXCEPT !["origin"] = new]
<1>1. /\ world' = worlds
      /\ left' = [left EXCEPT ![g] = IF destroyed THEN 0 ELSE @]
      /\ Publish(worlds, "structural", FALSE, route.cell)
      /\ UNCHANGED <<role, twoCell, route, session>>
  BY DEF Restructure
<1>2. WorldsInv /\ BundleInv /\ CursorsInv
  BY DEF ShownInv
<1>3. /\ DOMAIN here = WorldFields /\ here.cell = "origin"
      /\ here.tick \in Nat /\ here.seq \in Nat
      /\ \A d \in DOMAIN here.ents : DOMAIN here.ents[d] = {"zone", "shape"}
      /\ DOMAIN here.ents \subseteq Entities /\ DOMAIN left = Entities
  BY <1>2 DEF WorldsInv, WorldFields, CouldBeIn, Entities, Cells
<1>4. /\ DOMAIN w = WorldFields /\ w.cell = "origin" /\ w.seq = here.seq + 1
      /\ w.tick = here.tick + 1 /\ w.ents = here.ents
  BY <1>3 DEF Ticked, WorldFields
<1> HIDE DEF here, w
<1>5. /\ DOMAIN new = WorldFields /\ new.cell = "origin" /\ new.seq = w.seq /\ new.tick = w.tick
      /\ new.ents = IF destroyed THEN [e \in DOMAIN w.ents \ {g} |-> w.ents[e]]
                    ELSE [w.ents EXCEPT ![g].shape = 1 - @]
  BY <1>4 DEF WorldFields
<1> HIDE DEF new
<1>6. /\ DOMAIN new.ents \subseteq DOMAIN here.ents
      /\ Pilot \in DOMAIN here.ents => Pilot \in DOMAIN new.ents
      /\ \A d \in DOMAIN new.ents : /\ d # g => new.ents[d] = here.ents[d]
                                    /\ new.ents[d].zone = here.ents[d].zone
                                    /\ DOMAIN new.ents[d] = {"zone", "shape"}
                                    /\ destroyed => d # g
  <2>1. CASE destroyed
    BY <1>3, <1>4, <1>5, <2>1
  <2>2. CASE ~destroyed
    BY <1>3, <1>4, <1>5, <2>2
  <2> QED
    BY <2>1, <2>2
<1>7. DOMAIN left' = Entities /\ \A d \in DOMAIN new.ents : left'[d] = left[d]
  BY <1>1, <1>3, <1>6
<1>8. WorldsInv' /\ Ages
  <2> DEFINE cell == "origin"
  <2>1. /\ cell \in Cells /\ world' = [world EXCEPT ![cell] = new]
        /\ DOMAIN new = WorldFields /\ new.cell = cell /\ new.seq \in Nat
        /\ new.tick \in Nat /\ world[cell].tick <= new.tick
        /\ DOMAIN new.ents \subseteq DOMAIN world[cell].ents
        /\ \A e \in DOMAIN new.ents : DOMAIN new.ents[e] = {"zone", "shape"}
        /\ Pilot \in DOMAIN world[cell].ents => Pilot \in DOMAIN new.ents
        /\ cell = "origin"
        /\ \A e \in DOMAIN new.ents :
              new.ents[e].zone = world[cell].ents[e].zone /\ left'[e] = left[e]
    BY <1>1, <1>3, <1>4, <1>5, <1>6, <1>7 DEF here, Cells
  <2> HIDE DEF cell
  <2> QED
    BY <1>1, <1>2, <1>7, <2>1, CellKeeps
<1>9. BundleInv'
  <2>1. worlds["origin"] = new /\ new.seq # world["origin"].seq
    BY <1>2, <1>3, <1>4, <1>5 DEF WorldsInv, Cells, here
  <2> HIDE DEF worlds
  <2> QED
    BY <1>1, <1>2, <2>1, PublishKeeps
<1>10. CursorsInv'
  BY <1>1, <1>2, <1>8, CursorsAge
<1> QED
  BY <1>8, <1>9, <1>10 DEF ShownInv

(* A control runs: the world changes but not what is where, nor its tick.  *)
LEMMA IntentTrue ==
    ASSUME SessionInv, ShownInv, OnIntent
    PROVE  ShownInv' /\ Honest
<1>1. /\ WorldsInv /\ BundleInv /\ CursorsInv /\ IsQueue(down)
      /\ UNCHANGED <<role, twoCell, route, left, session>>
      /\ down' = Append(down, [kind |-> "receipt"])
  BY DEF OnIntent, ShownInv, SessionInv
<1>2. Honest
  <2> DEFINE m == [kind |-> "receipt"]
  <2>1. m.kind # "delta" /\ down' = Append(down, m)
    BY <1>1
  <2> HIDE DEF m
  <2>2. /\ Len(down) \in Nat /\ DOMAIN down' = 1..(Len(down) + 1) /\ down'[Len(down) + 1] = m
    BY <1>1, <2>1, QueueAppend, QueueDomain
  <2>3. ASSUME NEW i \in DOMAIN down', i > Len(down) PROVE down'[i].kind # "delta"
    <3>1. i = Len(down) + 1
      BY <2>2, <2>3
    <3> QED
      BY <2>1, <2>2, <3>1
  <2> QED
    BY <1>1, <2>3, QuietHonest
<1>3. ASSUME UNCHANGED <<world, revision>> PROVE ShownInv'
  <2>1. WorldsInv'
    BY <1>1, <1>3 DEF WorldsInv, CouldBeIn, Entities
  <2>2. BundleInv'
    BY <1>1, <1>3 DEF BundleInv
  <2>3. Ages
    BY <1>1, <1>3 DEF Ages, WorldsInv
  <2> QED
    BY <1>1, <2>1, <2>2, <2>3, CursorsAge DEF ShownInv
<1>4. ASSUME Executes(session)
      PROVE  ShownInv'
  <2> DEFINE cell == route.cell
             here == world[cell]
             built == {g \in DOMAIN here.ents \ {Pilot} : Head(up).build /\ g = Grids[1]}
             ents == [e \in DOMAIN here.ents |-> IF e \in built
                                                 THEN [here.ents[e] EXCEPT !.shape = 1 - @]
                                                 ELSE here.ents[e]]
             w == [here EXCEPT !.seq = @ + 1, !.op = @ + 1,
                      !.ents = [e \in DOMAIN @ |-> IF e \in built
                                                   THEN [here.ents[e] EXCEPT !.shape = 1 - @]
                                                   ELSE @[e]]]
             worlds == [world EXCEPT ![cell] = w]
             kind == IF Head(up).build THEN "structural" ELSE "motion"
  <2>1. world' = worlds /\ Publish(worlds, kind, FALSE, cell)
    BY <1>4 DEF OnIntent
  <2>2. /\ cell \in Cells /\ DOMAIN here = WorldFields /\ here.cell = cell
        /\ here.tick \in Nat /\ here.seq \in Nat
        /\ \A d \in DOMAIN here.ents : DOMAIN here.ents[d] = {"zone", "shape"}
        /\ DOMAIN left = Entities
    BY <1>1 DEF WorldsInv, WorldFields
  <2>3. /\ DOMAIN w = WorldFields /\ w.cell = cell /\ w.seq = here.seq + 1
        /\ w.tick = here.tick /\ w.ents = ents
    <3> HIDE DEF here, built, cell
    <3> QED
      BY <2>2 DEF WorldFields
  <2>4. /\ DOMAIN w.ents = DOMAIN here.ents
        /\ \A d \in DOMAIN w.ents : /\ w.ents[d].zone = here.ents[d].zone
                                    /\ DOMAIN w.ents[d] = {"zone", "shape"}
    <3> HIDE DEF here, built, w, cell
    <3> QED
      BY <2>2, <2>3
  <2> HIDE DEF w, built, cell, kind
  <2>5. WorldsInv' /\ Ages
    <3>1. w.seq \in Nat /\ w.tick \in Nat /\ world[cell].tick <= w.tick
      BY <2>2, <2>3
    <3>2. DOMAIN left' = Entities /\ left' = left
      BY <1>1, <2>2
    <3> QED
      BY <1>1, <2>1, <2>2, <2>3, <2>4, <3>1, <3>2, CellKeeps
  <2>6. worlds["origin"].seq = world["origin"].seq => worlds["origin"] = world["origin"]
    <3>1. CASE cell = "origin"
      <4>1. worlds["origin"] = w
        BY <1>1, <3>1 DEF WorldsInv, Cells
      <4> QED
        BY <2>2, <2>3, <3>1, <4>1
    <3>2. CASE cell # "origin"
      BY <3>2
    <3> QED
      BY <3>1, <3>2
  <2> HIDE DEF worlds
  <2>7. BundleInv'
    BY <1>1, <2>1, <2>6, PublishKeeps
  <2> QED
    BY <1>1, <2>5, <2>7, CursorsAge DEF ShownInv
<1>5. ~Executes(session) => UNCHANGED <<world, revision>>
  BY DEF OnIntent
<1> QED
  BY <1>2, <1>3, <1>4, <1>5

(* The pilot crosses: it leaves one cell and enters the other, and the     *)
(* public bundle keeps the evidence (PlayerAuthority's two worlds).        *)
LEMMA CrossTrue ==
    ASSUME ShownInv, Cross
    PROVE  ShownInv'
<1> DEFINE from == route.cell
           to == Other(from)
           pilot == [world[from].ents[Pilot] EXCEPT !.zone = 0]
           source == [Ticked(world[from]) EXCEPT !.ents = [e \in DOMAIN @ \ {Pilot} |-> @[e]]]
           destination == [Ticked(world[to]) EXCEPT
                             !.ents = [e \in DOMAIN @ \cup {Pilot} |->
                                         IF e = Pilot THEN pilot ELSE @[e]],
                             !.op = world[from].op]
           worlds == [c \in Cells |-> IF c = from THEN source ELSE destination]
<1>1. /\ twoCell /\ world' = worlds /\ route' = [cell |-> to, gen |-> route.gen + 1]
      /\ left' = [left EXCEPT ![Pilot] = 0]
      /\ Publish(worlds, "structural", TRUE, to)
      /\ UNCHANGED <<role, twoCell, session>>
  BY Zenon DEF Cross
<1>2. WorldsInv /\ BundleInv /\ CursorsInv
  BY DEF ShownInv
<1>3. /\ from \in Cells /\ to \in Cells /\ from # to /\ Cells = {from, to}
      /\ route'.cell = to
  BY <1>1, <1>2 DEF WorldsInv, Other, Cells
<1>4. /\ \A x \in Cells : /\ DOMAIN world[x] = WorldFields /\ world[x].cell = x
                          /\ world[x].tick \in Nat \ {0} /\ world[x].seq \in Nat
                          /\ DOMAIN world[x].ents \subseteq CouldBeIn(x)
                          /\ \A e \in DOMAIN world[x].ents :
                                DOMAIN world[x].ents[e] = {"zone", "shape"}
      /\ Pilot \in DOMAIN world[from].ents /\ Pilot \notin DOMAIN world[to].ents
      /\ DOMAIN left = Entities /\ Pilot \in Entities
  BY <1>2, <1>3 DEF WorldsInv, WorldFields, Entities
<1> HIDE DEF from, to
<1>5. DOMAIN pilot = {"zone", "shape"} /\ pilot.zone = 0
  BY <1>3, <1>4
<1> HIDE DEF pilot
<1>6. /\ DOMAIN source = WorldFields /\ source.cell = from
      /\ source.seq = world[from].seq + 1 /\ source.tick = world[from].tick + 1
      /\ source.ents = [e \in DOMAIN world[from].ents \ {Pilot} |-> world[from].ents[e]]
  BY <1>3, <1>4 DEF Ticked, WorldFields
<1>7. /\ DOMAIN destination = WorldFields /\ destination.cell = to
      /\ destination.seq = world[to].seq + 1 /\ destination.tick = world[to].tick + 1
      /\ destination.ents = [e \in DOMAIN world[to].ents \cup {Pilot} |->
                               IF e = Pilot THEN pilot ELSE world[to].ents[e]]
  BY <1>3, <1>4 DEF Ticked, WorldFields
<1> HIDE DEF source, destination
<1>8. /\ DOMAIN world' = Cells /\ world'[from] = source /\ world'[to] = destination
  BY <1>1, <1>3
<1>9. DOMAIN left' = Entities /\ left'[Pilot] = 0 /\ \A e \in Entities : e # Pilot => left'[e] = left[e]
  BY <1>1, <1>4
<1>10. ASSUME NEW x \in Cells
       PROVE  /\ DOMAIN world'[x] = WorldFields
              /\ world'[x].cell = x /\ world'[x].tick \in Nat \ {0} /\ world'[x].seq \in Nat
              /\ DOMAIN world'[x].ents \subseteq CouldBeIn(x)
              /\ \A e \in DOMAIN world'[x].ents : DOMAIN world'[x].ents[e] = {"zone", "shape"}
              /\ Pilot \in DOMAIN world'[x].ents <=> x = route'.cell
              /\ world[x].tick + 1 = world'[x].tick
              /\ \A e \in DOMAIN world'[x].ents : e # Pilot =>
                    e \in DOMAIN world[x].ents /\ world'[x].ents[e] = world[x].ents[e]
              /\ Pilot \in DOMAIN world'[x].ents => world'[x].ents[Pilot].zone = 0
  <2>1. CASE x = from
    <3>1. world'[x] = source /\ world'[x].ents = source.ents
      BY <1>8, <2>1
    <3>2. DOMAIN source.ents = DOMAIN world[x].ents \ {Pilot}
      BY <1>6, <2>1
    <3>3. \A e \in DOMAIN source.ents : source.ents[e] = world[x].ents[e]
      BY <1>6, <2>1
    <3>4. world[x].tick + 1 \in Nat \ {0} /\ world[x].seq + 1 \in Nat
      BY <1>4
    <3> QED
      BY <1>3, <1>4, <1>6, <2>1, <3>1, <3>2, <3>3, <3>4
  <2>2. CASE x = to
    <3>1. world'[x] = destination /\ world'[x].ents = destination.ents
      BY <1>8, <2>2
    <3>2. DOMAIN destination.ents = DOMAIN world[x].ents \cup {Pilot}
      BY <1>7, <2>2
    <3>3. /\ \A e \in DOMAIN destination.ents : e # Pilot =>
                e \in DOMAIN world[x].ents /\ destination.ents[e] = world[x].ents[e]
          /\ destination.ents[Pilot] = pilot
      BY <1>7, <2>2
    <3>4. world[x].tick + 1 \in Nat \ {0} /\ world[x].seq + 1 \in Nat
      BY <1>4
    <3>5. Pilot \in CouldBeIn(x)
      BY <1>4 DEF CouldBeIn
    <3> QED
      BY <1>3, <1>4, <1>5, <1>7, <2>2, <3>1, <3>2, <3>3, <3>4, <3>5
  <2> QED
    BY <1>3, <2>1, <2>2
<1>11. ASSUME NEW e \in DOMAIN world'["origin"].ents
       PROVE  /\ left'[e] # 0 <=> world'["origin"].ents[e].zone = 2
              /\ left'[e] \in Nat /\ left'[e] <= world'["origin"].tick
              /\ left'[e] # 0 => e \in DOMAIN world["origin"].ents /\ left'[e] = left[e]
  <2>1. "origin" \in Cells
    BY DEF Cells
  <2>2. /\ world["origin"].tick + 1 = world'["origin"].tick /\ world["origin"].tick \in Nat
        /\ e # Pilot => /\ e \in DOMAIN world["origin"].ents
                        /\ world'["origin"].ents[e] = world["origin"].ents[e]
        /\ e = Pilot => world'["origin"].ents[e].zone = 0
    BY <1>4, <1>10, <1>11, <2>1
  <2>3. CASE e = Pilot
    BY <1>9, <2>2, <2>3
  <2>4. CASE e # Pilot
    <3>1. e \in Entities
      BY <1>4, <2>1, <2>2, <2>4 DEF CouldBeIn
    <3>2. /\ left[e] # 0 <=> world["origin"].ents[e].zone = 2
          /\ left[e] \in Nat /\ left[e] <= world["origin"].tick
      BY <1>2, <2>2, <2>4 DEF WorldsInv
    <3> QED
      BY <1>9, <2>2, <2>4, <3>1, <3>2
  <2> QED
    BY <2>3, <2>4
<1>12. WorldsInv'
  <2>1. \A x : CouldBeIn(x)' = CouldBeIn(x)
    BY DEF CouldBeIn, Entities
  <2>2. /\ role' \in {"player", "spectator"} /\ twoCell' = TRUE /\ route'.cell \in Cells
    BY <1>1, <1>2, <1>3 DEF WorldsInv
  <2> QED
    BY <1>8, <1>9, <1>10, <1>11, <2>1, <2>2 DEF WorldsInv, WorldFields, Cells, Entities
<1>13. Ages
  <2>1. \A x \in Cells : world[x].tick <= world'[x].tick
    <3>1. SUFFICES ASSUME NEW x \in Cells PROVE world[x].tick <= world'[x].tick
      OBVIOUS
    <3>2. world[x].tick \in Nat /\ world[x].tick + 1 = world'[x].tick
      BY <1>4, <1>10
    <3> QED
      BY <3>2
  <2> QED
    BY <1>1, <1>11, <2>1 DEF Ages
<1>14. BundleInv'
  <2>1. worlds["origin"] = world'["origin"]
    BY <1>1
  <2>2. worlds["origin"].seq # world["origin"].seq
    <3>1. CASE from = "origin"
      <4>1. worlds["origin"].seq = world["origin"].seq + 1 /\ world["origin"].seq \in Nat
        BY <1>3, <1>4, <1>6, <1>8, <2>1, <3>1
      <4> QED
        BY <4>1
    <3>2. CASE to = "origin"
      <4>1. worlds["origin"].seq = world["origin"].seq + 1 /\ world["origin"].seq \in Nat
        BY <1>3, <1>4, <1>7, <1>8, <2>1, <3>2
      <4> QED
        BY <4>1
    <3> QED
      BY <1>3, <3>1, <3>2 DEF Cells
  <2> HIDE DEF worlds
  <2>3. revision' = [world |-> worlds["origin"],
                     removals |-> IF to = "origin" THEN revision.removals \ {Pilot}
                                  ELSE revision.removals \cup {Pilot}]
    BY <1>1, <2>2 DEF Publish, PublishTwoCell
  <2>4. revision.removals = IF from = "east" THEN {Pilot} ELSE {}
    BY <1>1, <1>2 DEF BundleInv, from
  <2>5. to \in {"origin", "east"}
    BY <1>3 DEF Cells
  <2>6. revision' = [world |-> world'["origin"],
                     removals |-> IF to = "east" THEN {Pilot} ELSE {}]
    <3>1. CASE to = "origin"
      <4>1. revision.removals \ {Pilot} = {}
        BY <2>4
      <4> QED
        BY <2>1, <2>3, <3>1, <4>1
    <3>2. CASE to = "east"
      <4>1. revision.removals \cup {Pilot} = {Pilot}
        BY <2>4
      <4> QED
        BY <2>1, <2>3, <3>2, <4>1
    <3> QED
      BY <2>5, <3>1, <3>2
  <2> QED
    BY <1>1, <1>3, <2>6 DEF BundleInv
<1>15. CursorsInv'
  BY <1>1, <1>2, <1>12, <1>13, CursorsAge
<1> QED
  BY <1>12, <1>14, <1>15 DEF ShownInv

-----------------------------------------------------------------------------
(* What has been shown is so, and departures are reported truthfully.      *)

(* At first nothing has left and nothing has been shown.                   *)
LEMMA ShownInit == Init => ShownInv
<1> SUFFICES ASSUME Init PROVE ShownInv
  OBVIOUS
<1>1. /\ role \in {"player", "spectator"} /\ twoCell \in BOOLEAN
      /\ route.cell = "origin" /\ left = [e \in Entities |-> 0]
      /\ revision = [world |-> world["origin"], removals |-> {}]
      /\ session.acked = NewCursor(role) /\ session.pending = NoPending
  BY DEF Init, NewSession
<1>2. /\ DOMAIN world = Cells
      /\ \A x \in Cells :
           world[x] = NewWorld(x, [e \in (IF x = "origin" THEN Entities ELSE {}) |->
                                     [zone |-> 0, shape |-> IF e = Grids[1] THEN 1 ELSE 0]])
  BY DEF Init
<1>3. /\ DOMAIN world["origin"].ents = Entities /\ DOMAIN world["east"].ents = {}
      /\ Pilot \in Entities
      /\ \A e \in Entities : world["origin"].ents[e].zone = 0
      /\ \A x \in Cells : /\ world[x].cell = x /\ world[x].seq = 1 /\ world[x].tick = 1
                          /\ DOMAIN world[x] = WorldFields
                          /\ \A e \in DOMAIN world[x].ents :
                                DOMAIN world[x].ents[e] = {"zone", "shape"}
  BY <1>2 DEF NewWorld, Cells, WorldFields, Entities
<1>4. WorldsInv
  BY <1>1, <1>2, <1>3 DEF WorldsInv, Cells, CouldBeIn, WorldFields
<1>5. BundleInv /\ CursorsInv
  BY <1>1 DEF BundleInv, CursorsInv
<1> QED
  BY <1>4, <1>5 DEF ShownInv

(* Every step keeps it and says what is so.                                *)
LEMMA ShownStep == SessionInv /\ ShownInv /\ [Next]_vars => ShownInv' /\ Honest
<1> SUFFICES ASSUME SessionInv, ShownInv, [Next]_vars PROVE ShownInv' /\ Honest
  OBVIOUS
<1>1. ASSUME UNCHANGED hostVars, CursorsInv' PROVE ShownInv'
  <2>1. UNCHANGED <<role, twoCell, world, route, revision, left>> /\ WorldsInv /\ BundleInv
    BY <1>1 DEF hostVars, ShownInv
  <2>2. WorldsInv'
    BY <2>1 DEF WorldsInv, CouldBeIn, Entities
  <2>3. BundleInv'
    BY <2>1 DEF BundleInv
  <2> QED
    BY <1>1, <2>2, <2>3 DEF ShownInv
<1>2. IsQueue(down) /\ CursorsInv
  BY DEF SessionInv, ShownInv
<1>3. CASE WorldStep
  <2>1. UNCHANGED <<session, down>>
    BY <1>3 DEF WorldStep, Move, Restructure, Cross
  <2>2. Honest
    <3>1. \A i \in DOMAIN down' : ~(i > Len(down))
      BY <1>2, <2>1, NoMore
    <3> QED
      BY <2>1, <3>1, QuietHonest
  <2>3. ShownInv'
    <3>1. TRUE \in BOOLEAN /\ FALSE \in BOOLEAN
      OBVIOUS
    <3>2. ASSUME NEW g \in DOMAIN world["origin"].ents \ {Pilot},
                 Restructure(g, FALSE) \/ Restructure(g, TRUE)
          PROVE  ShownInv'
      BY <3>1, <3>2, RestructureTrue
    <3>3. ASSUME NEW cell \in Cells, NEW zone \in Zones, NEW e \in DOMAIN world[cell].ents,
                 Move(cell, e, zone)
          PROVE  ShownInv'
      BY <3>3, MoveTrue
    <3> QED
      BY <1>3, <3>2, <3>3, CrossTrue DEF WorldStep
  <2> QED
    BY <2>2, <2>3
<1>4. CASE SessionStep
  <2>1. CASE OnIntent
    BY <2>1, IntentTrue
  <2>2. CASE Subscribe \/ Bootstrap \/ OnHandoff \/ AckTimeout \/ ReplicationTick
             \/ OnAcknowledge \/ OnForeignAcknowledge \/ OnRequestSnapshot
    <3>1. CursorsInv' /\ Honest
      BY <2>2, SubscribeTrue, BootstrapTrue, HandoffTrue, StagingTrue, AcknowledgeTrue
    <3>2. UNCHANGED hostVars
      BY <2>2 DEF Subscribe, Bootstrap, OnHandoff, AckTimeout, ReplicationTick, OnAcknowledge,
                  OnForeignAcknowledge, OnRequestSnapshot
    <3> QED
      BY <1>1, <3>1, <3>2
  <2> QED
    BY <1>4, <2>1, <2>2 DEF SessionStep
<1>5. CASE ClientStep
  BY <1>1, <1>5, ClientTrue
<1>6. CASE UNCHANGED vars
  <2>1. UNCHANGED hostVars /\ UNCHANGED <<session, down>>
    BY <1>6 DEF vars, hostVars
  <2> QED
    BY <1>1, <1>2, <2>1, SilentTrue
<1> QED
  BY <1>3, <1>4, <1>5, <1>6 DEF Next

(* A removal says what happened (RemovalReason): an entity that still      *)
(* lives is never reported destroyed and one that left the cell is         *)
(* reported transferred, whether the frame is an ordinary one or stages a  *)
(* recovery.  And no frame shows an entity that has been beyond the exit   *)
(* radius for the policy's consecutive ticks, however long frames were     *)
(* held back by a missing acknowledgement (select's lower bound on         *)
(* outside_since_tick).                                                    *)
THEOREM DeparturesTrueCorrect == Spec => DeparturesTrue
<1> DEFINE Removals ==
             \A i \in DOMAIN down' :
               i > Len(down) /\ down'[i].kind = "delta" =>
                 \A e \in DOMAIN down'[i].removed :
                   LET alive == {c \in Cells : e \in DOMAIN world[c].ents} IN
                   CASE down'[i].removed[e] = "destroyed" -> alive = {}
                     [] down'[i].removed[e] = "transferred" -> alive = {Other(down'[i].cell)}
                     [] OTHER -> down'[i].cell \in alive
           Lingers ==
             session'.pending # session.pending =>
               \A e \in DOMAIN session'.pending.cursor.members :
                  ~Critical(session'.pending.cursor, e) /\ left[e] # 0
                     => world["origin"].tick + 1 < left[e] + ExitTicks
<1>1. SessionInv /\ ShownInv /\ [Next]_vars => [Removals]_vars /\ [Lingers]_vars
  <2>1. SUFFICES ASSUME SessionInv, ShownInv, [Next]_vars PROVE Removals /\ Lingers
    OBVIOUS
  <2>2. Honest
    BY <2>1, ShownStep
  <2>3. Removals
    BY <2>2 DEF Honest, Truthful, Alive
  <2>4. Lingers
    BY <2>2 DEF Honest, NoneLingers
  <2> QED
    BY <2>3, <2>4
<1>2. Spec => [][Removals]_vars /\ [][Lingers]_vars
  <2>1. SessionInv /\ ShownInv /\ [Next]_vars => SessionInv' /\ ShownInv'
    BY SessionStepKeeps, ShownStep
  <2> HIDE DEF Removals, Lingers
  <2> QED
    BY <1>1, <2>1, SessionInit, ShownInit, PTL DEF Spec
<1> QED
  BY <1>2 DEF DeparturesTrue, RemovalsTellTheTruth, OutsideNeverLingers
====
