--------------------------- MODULE RtmpServerProofs ---------------------------
(***************************************************************************)
(* Types and the order of the packets on a connection, for every capacity  *)
(* of the queues, any number of packets and any mixture of the ways in     *)
(* which the three parts and the client can end; by itself and under the   *)
(* server's stop().  Neither comes to a standstill when the client leaves  *)
(* room in _media_input before its request is answered and no answer fails *)
(* before the request is there.                                            *)
(***************************************************************************)
EXTENDS RtmpServer, BasicLemmas, SequenceTheorems, TLAPS

-----------------------------------------------------------------------------
(* The inductive invariant.                                                *)

InputPlaces == {"looping", "queueing", "closing", "closingIn", "closingOut", "ended"}
OutputPlaces == {"looping", "closing", "closingIn", "closingOut", "ended"}
ResponderPlaces == {"handshake", "routing", "session", "putting", "release",
                    "releasing", "closing", "closingIn", "closingOut", "ended"}
Places == InputPlaces \union ResponderPlaces

\* Where a part waits for room in _media_input; in _media_output it is "putting".
InputWaits == {"queueing", "releasing", "closingIn"}
Waits == InputWaits \union {"putting"}

InPlace(at) ==
    /\ at \in [Parts -> Places]
    /\ at["input"] \in InputPlaces
    /\ at["output"] \in OutputPlaces
    /\ at["responder"] \in ResponderPlaces

\* Who waits is known at the queue, as waiting or as woken, and not as both.
Known(at) ==
    /\ \A p \in Parts : at[p] \in InputWaits <=> p = inq.waiting \/ p \in inq.woken
    /\ \A p \in Parts : at[p] = "putting" <=> p = outq.waiting \/ p \in outq.woken

Control ==
    /\ InPlace(pc) /\ Known(pc)
    /\ inq \in Queue /\ inq.waiting \notin inq.woken
    /\ outq \in Queue /\ outq.waiting \notin outq.woken
    /\ owed \in [Parts -> 0..MaxPackets]

Data ==
    /\ client \in {"there", "gone"} /\ sent \in 0..MaxPackets /\ written \in 0..MaxPackets
    /\ cache \in Seq(1..MaxPackets) /\ read \in Seq(0..MaxPackets)
    /\ aborted \in BOOLEAN /\ inClosed \in BOOLEAN /\ outClosed \in BOOLEAN
    /\ started \in BOOLEAN /\ stopped \in BOOLEAN /\ complete \in BOOLEAN

\* The packets between the publisher and the client: what is queued, the one the
\* input loop waits with, and what is still in the loop's cache, in this order.
Ordered(r, items, held, next, rest, last) ==
    /\ last = r + Len(items) + held + Len(rest)
    /\ \A i \in 1..Len(items) : items[i] = r + i
    /\ held = 1 => next = r + Len(items) + 1
    /\ \A i \in 1..Len(rest) : rest[i] = r + Len(items) + held + i

Held == IF pc["input"] = "queueing" THEN 1 ELSE 0

\* As long as the publisher may read, they are those from its next one to the
\* client's last one.
InFlight == Ordered(Len(read), inq.items, Held, owed["input"], cache, sent)

Stream == ReadsInOrder /\ (~aborted /\ ~inClosed => InFlight)

IInv == Control /\ Data /\ Stream

LEMMA InitIInv == Init => IInv
<1> SUFFICES ASSUME Init PROVE IInv
  OBVIOUS
<1>1. EmptyQueue \in Queue
  BY DEF EmptyQueue, Queue
<1>2. Control
  BY <1>1, NobodyAssumption, CapacityAssumption
  DEF Init, Control, InPlace, Known, EmptyQueue, Parts, Places, InputPlaces, OutputPlaces,
      ResponderPlaces, InputWaits, EOF
<1>3. Data
  <2>1. <<>> \in Seq(1..MaxPackets) /\ <<>> \in Seq(0..MaxPackets)
    OBVIOUS
  <2>2. 0 \in 0..MaxPackets
    BY CapacityAssumption
  <2> QED  BY <2>1, <2>2, Zenon DEF Init, Data
<1>4. Stream
  <2>1. read = <<>> /\ cache = <<>> /\ inq.items = <<>> /\ sent = 0 /\ Held = 0
    BY DEF Init, Held, EmptyQueue, Parts
  <2>2. Len(<<>>) = 0
    OBVIOUS
  <2> QED  BY <2>1, <2>2 DEF Stream, ReadsInOrder, InFlight, Ordered
<1> QED  BY <1>2, <1>3, <1>4 DEF IInv

-----------------------------------------------------------------------------
(* What the operations on the queues do to the control.                    *)

\* Parts whose wait for room fails go on somewhere they do not wait.
LEMMA FailAllPlaces ==
    ASSUME NEW at, InPlace(at), NEW W \in SUBSET Parts, \A p \in W : at[p] \in Waits
    PROVE  /\ InPlace(FailAll(W, at))
           /\ \A p \in W : FailAll(W, at)[p] \notin Waits
           /\ \A p \in Parts \ W : FailAll(W, at)[p] = at[p]
BY DEF InPlace, FailAll, OnFailure, Parts, Places, InputPlaces, OutputPlaces,
       ResponderPlaces, Waits, InputWaits

\* After an abort nobody is waiting; who has been woken still is.
LEMMA AbortControl ==
    ASSUME Control, NEW at, InPlace(at), Known(at), Abort(at), owed' = owed
    PROVE  Control'
<1> DEFINE W == {inq.waiting, outq.waiting} \ {Nobody}
<1>1. /\ W \in SUBSET Parts
      /\ inq.woken \in SUBSET Parts /\ outq.woken \in SUBSET Parts
      /\ inq.waiting \in Parts \union {Nobody} /\ outq.waiting \in Parts \union {Nobody}
  BY DEF Control, Queue
<1>2. \A p \in W : at[p] \in Waits
  BY <1>1 DEF Known, Waits
<1>3. /\ InPlace(FailAll(W, at))
      /\ \A p \in W : FailAll(W, at)[p] \notin Waits
      /\ \A p \in Parts \ W : FailAll(W, at)[p] = at[p]
  BY <1>1, <1>2, FailAllPlaces
<1>4. pc' = FailAll(W, at)
  BY DEF Abort
<1>5. /\ inq' \in Queue /\ inq'.waiting = Nobody /\ inq'.woken = inq.woken
      /\ outq' \in Queue /\ outq'.waiting = Nobody /\ outq'.woken = outq.woken
  <2>1. <<>> \in Seq(0..MaxPackets)
    OBVIOUS
  <2> QED  BY <2>1 DEF Control, Queue, Abort, Aborted
<1>6. Known(pc)'
  <2> SUFFICES ASSUME NEW p \in Parts
               PROVE  /\ pc'[p] \in InputWaits <=> p = inq'.waiting \/ p \in inq'.woken
                      /\ pc'[p] = "putting" <=> p = outq'.waiting \/ p \in outq'.woken
    BY DEF Known
  <2>1. CASE p \in W
    <3>1. pc'[p] \notin Waits
      BY <1>3, <1>4, <2>1
    <3>2. p \notin inq.woken /\ p \notin outq.woken
      BY <1>1, <2>1 DEF Known, Control, InputWaits
    <3> QED  BY <1>5, <2>1, <3>1, <3>2 DEF Waits
  <2>2. CASE p \notin W
    BY <1>3, <1>4, <1>5, <2>2, NobodyAssumption DEF Known
  <2> QED  BY <2>1, <2>2
<1> QED  BY <1>1, <1>3, <1>4, <1>5, <1>6, NobodyAssumption DEF Control

\* A part moves from one place to another without touching the queues.
LEMMA MoveControl ==
    ASSUME Control, NEW p \in Parts, pc[p] \notin Waits,
           NEW place \in Places \ Waits, InPlace([pc EXCEPT ![p] = place]),
           pc' = [pc EXCEPT ![p] = place], UNCHANGED <<inq, outq, owed>>
    PROVE  Control'
BY DEF Control, InPlace, Known, Waits

\* push_eventually into _media_input: a part that waited before loses its promise.
LEMMA PushInputControl ==
    ASSUME Control, NEW p \in Parts, NEW v \in 0..MaxPackets, pc[p] \notin Waits,
           NEW then \in Places \ Waits, InPlace([pc EXCEPT ![p] = then]),
           NEW wait \in InputWaits, InPlace([pc EXCEPT ![p] = wait]),
           NEW failed \in Places \ Waits, InPlace([pc EXCEPT ![p] = failed]),
           PushInput(p, v, then, wait, failed), UNCHANGED outq
    PROVE  Control'
<1>1. CASE aborted /\ pc' = [pc EXCEPT ![p] = failed] /\ UNCHANGED <<inq, owed>>
  BY <1>1, MoveControl
<1>2. CASE inq' = Queued(inq, v) /\ pc' = [pc EXCEPT ![p] = then] /\ UNCHANGED owed
  <2>1. /\ inq' \in Queue /\ inq'.waiting = inq.waiting /\ inq'.woken = inq.woken
    BY <1>2, AppendProperties DEF Control, Queue, Queued
  <2> QED  BY <1>2, <2>1 DEF Control, InPlace, Known, Waits
<1>3. CASE /\ inq' = [inq EXCEPT !.waiting = p]
           /\ owed' = [owed EXCEPT ![p] = v]
           /\ pc' = [Displaced(inq, pc) EXCEPT ![p] = wait]
  <2> DEFINE W == {inq.waiting} \ {Nobody}
  <2>1. W \in SUBSET Parts /\ inq.woken \in SUBSET Parts
    BY DEF Control, Queue
  <2>2. \A q \in W : pc[q] \in Waits /\ q # p
    BY <2>1 DEF Control, Known, Waits
  <2>3. /\ InPlace(FailAll(W, pc))
        /\ \A q \in W : FailAll(W, pc)[q] \notin Waits
        /\ \A q \in Parts \ W : FailAll(W, pc)[q] = pc[q]
    <3>1. InPlace(pc)
      BY DEF Control
    <3> QED  BY <2>1, <2>2, <3>1, FailAllPlaces
  <2>4. pc' = [FailAll(W, pc) EXCEPT ![p] = wait]
    BY <1>3 DEF Displaced
  <2>5. /\ inq' \in Queue /\ inq'.waiting = p /\ inq'.woken = inq.woken
    BY <1>3 DEF Control, Queue
  <2>6. owed' \in [Parts -> 0..MaxPackets]
    BY <1>3 DEF Control
  <2>7. InPlace(pc')
    BY <2>3, <2>4 DEF InPlace, Parts, Places, InputWaits
  <2>8. p \notin inq.woken /\ p \notin outq.woken /\ p # outq.waiting /\ p # inq.waiting
    BY DEF Control, Known, Waits
  <2>9. Known(pc)'
    <3> SUFFICES ASSUME NEW q \in Parts
                 PROVE  /\ pc'[q] \in InputWaits <=> q = inq'.waiting \/ q \in inq'.woken
                        /\ pc'[q] = "putting" <=> q = outq'.waiting \/ q \in outq'.woken
      BY DEF Known
    <3>1. CASE q = p
      <4>1. pc'[p] = wait
        <5>1. FailAll(W, pc) \in [Parts -> Places]
          BY <2>3 DEF InPlace
        <5> HIDE DEF W
        <5> QED  BY <2>4, <5>1
      <4> QED  BY <2>5, <2>8, <3>1, <4>1 DEF InputWaits
    <3>2. CASE q # p /\ q \in W
      <4>1. pc'[q] = FailAll(W, pc)[q]
        BY <2>3, <2>4, <3>2 DEF InPlace
      <4>2. pc'[q] \notin Waits
        BY <2>3, <3>2, <4>1
      <4>3. q \notin inq.woken /\ q \notin outq.woken /\ q # outq.waiting
        BY <3>2 DEF Control, Known, InputWaits
      <4> QED  BY <2>5, <3>2, <4>2, <4>3 DEF Waits
    <3>3. CASE q # p /\ q \notin W
      <4>1. pc'[q] = pc[q]
        BY <2>3, <2>4, <3>3 DEF InPlace
      <4> QED  BY <2>5, <3>3, <4>1, NobodyAssumption DEF Control, Known
    <3> QED  BY <3>1, <3>2, <3>3
  <2> QED  BY <2>5, <2>6, <2>7, <2>8, <2>9 DEF Control
<1> QED  BY <1>1, <1>2, <1>3 DEF PushInput

\* pop keeps track of whom it wakes.
LEMMA PoppedQueue ==
    ASSUME NEW q \in Queue, q.items # <<>>, q.waiting \notin q.woken
    PROVE  /\ Popped(q) \in Queue /\ Popped(q).items = Tail(q.items)
           /\ Popped(q).waiting \notin Popped(q).woken
           /\ \A p \in Parts : p = Popped(q).waiting \/ p \in Popped(q).woken
                                  <=> p = q.waiting \/ p \in q.woken
<1>1. Tail(q.items) \in Seq(0..MaxPackets)
  BY HeadTailProperties DEF Queue
<1> QED  BY <1>1, NobodyAssumption DEF Popped, Woken, Queue

\* What _media_output becomes when it is closed.
LEMMA CloseSinkQueue ==
    ASSUME Control, CloseSink
    PROVE  /\ outq' \in Queue /\ outq'.waiting \notin outq'.woken
           /\ \A p \in Parts : p = outq'.waiting \/ p \in outq'.woken
                                  <=> p = outq.waiting \/ p \in outq.woken
<1>1. <<EOF>> \in Seq(0..MaxPackets)
  <2>1. EOF \in 0..MaxPackets
    BY CapacityAssumption DEF EOF
  <2> QED  BY <2>1
<1>2. outq \in Queue /\ outq.waiting \notin outq.woken
  BY DEF Control
<1>3. /\ Woken(outq) \in Queue /\ Woken(outq).waiting \notin Woken(outq).woken
      /\ \A p \in Parts : p = Woken(outq).waiting \/ p \in Woken(outq).woken
                             <=> p = outq.waiting \/ p \in outq.woken
  BY <1>2, NobodyAssumption DEF Woken, Queue
<1>4. CASE outq' = outq
  BY <1>2, <1>4
<1>5. CASE outq' = [Woken(outq) EXCEPT !.items = <<EOF>>]
  BY <1>1, <1>3, <1>5 DEF Queue
<1> QED  BY <1>4, <1>5 DEF CloseSink

-----------------------------------------------------------------------------
(* The order of the packets, as one of them moves on.                      *)

\* The first of the rest is queued, or held.
LEMMA OrderedQueued ==
    ASSUME NEW r \in Nat, NEW items \in Seq(Nat), NEW next \in Nat, NEW rest \in Seq(Nat), NEW last,
           Ordered(r, items, 0, next, rest, last), rest # <<>>
    PROVE  /\ Ordered(r, Append(items, Head(rest)), 0, next, Tail(rest), last)
           /\ Ordered(r, items, 1, Head(rest), Tail(rest), last)
<1> DEFINE v == Head(rest)
           more == Append(items, v)
           tail == Tail(rest)
<1>1. Len(items) \in Nat /\ Len(rest) \in Nat /\ Len(rest) > 0 /\ v = rest[1] /\ v \in Nat
  OBVIOUS
<1>2. Len(tail) = Len(rest) - 1 /\ \A i \in 1..Len(tail) : tail[i] = rest[i + 1]
  BY HeadTailProperties
<1>3. /\ Len(more) = Len(items) + 1 /\ more[Len(items) + 1] = v
      /\ \A i \in 1..Len(items) : more[i] = items[i]
  BY <1>1, AppendProperties
<1>4. v = r + Len(items) + 1
  BY <1>1 DEF Ordered
<1> HIDE DEF v, more, tail
<1>5. ASSUME NEW i \in 1..Len(more)  PROVE more[i] = r + i
  <2>1. CASE i = Len(items) + 1
    BY <1>1, <1>3, <1>4, <2>1
  <2>2. CASE i # Len(items) + 1
    <3>1. i \in 1..Len(items)
      BY <1>1, <1>3, <2>2
    <3> QED  BY <1>3, <3>1 DEF Ordered
  <2> QED  BY <2>1, <2>2
<1>6. \A i \in 1..Len(tail) : tail[i] = r + Len(items) + 1 + i
  BY <1>1, <1>2 DEF Ordered
<1>7. Ordered(r, more, 0, next, tail, last)
  BY <1>1, <1>2, <1>3, <1>5, <1>6 DEF Ordered
<1>8. Ordered(r, items, 1, v, tail, last)
  BY <1>1, <1>2, <1>4, <1>6 DEF Ordered
<1> QED  BY <1>7, <1>8 DEF v, more, tail

\* Room is found for the one that is held.
LEMMA OrderedOwed ==
    ASSUME NEW r \in Nat, NEW items \in Seq(Nat), NEW next \in Nat, NEW rest \in Seq(Nat), NEW last,
           Ordered(r, items, 1, next, rest, last)
    PROVE  Ordered(r, Append(items, next), 0, next, rest, last)
<1> DEFINE more == Append(items, next)
<1>1. Len(items) \in Nat /\ Len(rest) \in Nat
  OBVIOUS
<1>2. /\ Len(more) = Len(items) + 1 /\ more[Len(items) + 1] = next
      /\ \A i \in 1..Len(items) : more[i] = items[i]
  BY AppendProperties
<1> HIDE DEF more
<1>3. ASSUME NEW i \in 1..Len(more)  PROVE more[i] = r + i
  <2>1. CASE i = Len(items) + 1
    BY <1>1, <1>2, <2>1 DEF Ordered
  <2>2. CASE i # Len(items) + 1
    <3>1. i \in 1..Len(items)
      BY <1>1, <1>2, <2>2
    <3> QED  BY <1>2, <3>1 DEF Ordered
  <2> QED  BY <2>1, <2>2
<1>4. Ordered(r, more, 0, next, rest, last)
  BY <1>1, <1>2, <1>3 DEF Ordered
<1> QED  BY <1>4 DEF more

\* The one read is the next, and the others remain.
LEMMA OrderedRead ==
    ASSUME NEW r \in Nat, NEW items \in Seq(Nat), NEW held \in {0, 1}, NEW next \in Nat,
           NEW rest \in Seq(Nat), NEW last,
           Ordered(r, items, held, next, rest, last), items # <<>>
    PROVE  /\ Head(items) = r + 1
           /\ Ordered(r + 1, Tail(items), held, next, rest, last)
<1> DEFINE tail == Tail(items)
<1>1. Len(items) \in Nat /\ Len(items) > 0 /\ Len(rest) \in Nat /\ Head(items) = items[1]
  OBVIOUS
<1>2. Len(tail) = Len(items) - 1 /\ \A i \in 1..Len(tail) : tail[i] = items[i + 1]
  BY HeadTailProperties
<1> HIDE DEF tail
<1>3. Head(items) = r + 1
  BY <1>1 DEF Ordered
<1>4. \A i \in 1..Len(tail) : tail[i] = r + 1 + i
  BY <1>1, <1>2 DEF Ordered
<1>5. Ordered(r + 1, tail, held, next, rest, last)
  BY <1>1, <1>2, <1>4 DEF Ordered
<1> QED  BY <1>3, <1>5 DEF tail
\* What the lemmas need of the state.
LEMMA StreamTypes ==
    ASSUME IInv
    PROVE  /\ read \in Seq(Nat) /\ Len(read) \in Nat
           /\ inq.items \in Seq(Nat) /\ cache \in Seq(Nat) /\ owed["input"] \in Nat
<1>1. 0..MaxPackets \subseteq Nat /\ 1..MaxPackets \subseteq Nat
  OBVIOUS
<1>2. /\ read \in Seq(0..MaxPackets) /\ inq.items \in Seq(0..MaxPackets)
      /\ cache \in Seq(1..MaxPackets) /\ owed["input"] \in 0..MaxPackets
  BY DEF IInv, Control, Data, Queue, Parts
<1> QED  BY <1>1, <1>2, SeqMonotonic, LenProperties

-----------------------------------------------------------------------------
(* The actions that queue, take or hold packets of the client.             *)

\* Nothing that the publisher may still read has changed.
LEMMA QuietStream ==
    ASSUME Stream, UNCHANGED <<sent, cache, inq, read, aborted, inClosed>>,
           Held' = Held, owed'["input"] = owed["input"]
    PROVE  Stream'
BY DEF Stream, InFlight, ReadsInOrder

\* The publisher may not read any more.
LEMMA StreamEnds ==
    ASSUME Stream, UNCHANGED read, aborted' \/ inClosed'
    PROVE  Stream'
BY DEF Stream, ReadsInOrder

LEMMA ReadPacketsStep ==
    ASSUME IInv, NEW n \in 1..2, ReadPackets(n)
    PROVE  IInv'
<1>1. Control'
  BY DEF IInv, ReadPackets, Control, InPlace, Known
<1>2. sent' \in 0..MaxPackets /\ cache' \in Seq(1..MaxPackets) /\ Len(cache') = n
      /\ \A i \in 1..n : cache'[i] = sent + i
  <2>1. sent + n <= MaxPackets /\ sent \in Nat /\ MaxPackets \in Nat
    BY CapacityAssumption DEF IInv, Data, ReadPackets
  <2>2. \A i \in 1..n : sent + i \in 1..MaxPackets
    BY <2>1
  <2> QED  BY <2>1, <2>2 DEF ReadPackets
<1>3. Data'
  BY <1>2 DEF IInv, Data, ReadPackets
<1>4. Stream'
  <2>1. Held = 0 /\ Held' = 0 /\ Len(cache) = 0
    BY DEF ReadPackets, MayRead, Held
  <2>2. UNCHANGED <<inq, read, owed, aborted, inClosed>> /\ sent' = sent + n
    BY DEF ReadPackets
  <2>3. Len(read) \in Nat /\ Len(inq.items) \in Nat
    BY StreamTypes, LenProperties
  <2>4. ASSUME InFlight  PROVE InFlight'
    <3>1. sent = Len(read) + Len(inq.items)
      BY <2>1, <2>3, <2>4 DEF InFlight, Ordered
    <3> QED  BY <1>2, <2>1, <2>2, <2>3, <2>4, <3>1 DEF InFlight, Ordered
  <2> QED  BY <2>2, <2>4 DEF IInv, Stream, ReadsInOrder
<1> QED  BY <1>1, <1>3, <1>4 DEF IInv

LEMMA QueuePacketStep ==
    ASSUME IInv, QueuePacket
    PROVE  IInv'
<1> DEFINE v == Head(cache)
<1>1. /\ pc["input"] = "looping" /\ cache # <<>> /\ cache' = Tail(cache)
      /\ PushInput("input", v, "looping", "queueing", "closing")
      /\ UNCHANGED <<client, sent, outq, aborted, inClosed, outClosed, mode, started, stopped,
                     complete, read, written>>
  BY DEF QueuePacket
<1>2. v \in 0..MaxPackets /\ cache' \in Seq(1..MaxPackets)
  <2>1. cache \in Seq(1..MaxPackets) /\ cache # <<>>
    BY <1>1 DEF IInv, Data
  <2>2. v \in 1..MaxPackets /\ Tail(cache) \in Seq(1..MaxPackets)
    BY <2>1, HeadTailProperties
  <2> HIDE DEF v
  <2> QED  BY <1>1, <2>2
<1>3. Control'
  <2>1. /\ InPlace([pc EXCEPT !["input"] = "looping"])
        /\ InPlace([pc EXCEPT !["input"] = "queueing"])
        /\ InPlace([pc EXCEPT !["input"] = "closing"])
    BY DEF IInv, Control, InPlace, Parts, Places, InputPlaces
  <2> HIDE DEF v
  <2> QED  BY <1>1, <1>2, <2>1, PushInputControl
           DEF IInv, Parts, Places, InputPlaces, Waits, InputWaits
<1>4. Data'
  BY <1>1, <1>2 DEF IInv, Data
<1>5. Stream'
  <2> SUFFICES ASSUME ~aborted, ~inClosed  PROVE InFlight'
    BY <1>1 DEF IInv, Stream, ReadsInOrder
  <2>1. Ordered(Len(read), inq.items, 0, owed["input"], cache, sent)
    BY <1>1 DEF IInv, Stream, Held, InFlight
  <2>2. /\ Ordered(Len(read), Append(inq.items, v), 0, owed["input"], cache', sent)
        /\ Ordered(Len(read), inq.items, 1, v, cache', sent)
    BY <1>1, <2>1, StreamTypes, OrderedQueued
  <2>3. CASE /\ inq' = Queued(inq, v) /\ pc' = [pc EXCEPT !["input"] = "looping"]
             /\ UNCHANGED owed
    <3>1. inq'.items = Append(inq.items, v)
      BY <2>3 DEF IInv, Control, Queue, Queued
    <3>2. Held' = 0
      BY <2>3 DEF Held, IInv, Control, InPlace, Parts
    <3> HIDE DEF v
    <3> QED  BY <1>1, <2>2, <2>3, <3>1, <3>2 DEF InFlight
  <2>4. CASE /\ inq' = [inq EXCEPT !.waiting = "input"]
             /\ owed' = [owed EXCEPT !["input"] = v]
             /\ pc' = [Displaced(inq, pc) EXCEPT !["input"] = "queueing"]
    <3>1. inq'.items = inq.items /\ owed'["input"] = v
      BY <2>4 DEF IInv, Control, Queue, Parts
    <3>2. Held' = 1
      BY <2>4 DEF Held, Displaced, FailAll, Parts
    <3> HIDE DEF v
    <3> QED  BY <1>1, <2>2, <3>1, <3>2 DEF InFlight
  <2> QED  BY <1>1, <2>3, <2>4 DEF PushInput
<1> QED  BY <1>3, <1>4, <1>5 DEF IInv

LEMMA QueueOwedStep ==
    ASSUME IInv, QueueOwed
    PROVE  IInv'
<1> DEFINE v == owed["input"]
<1>1. /\ pc["input"] = "queueing" /\ "input" \in inq.woken
      /\ pc' = [pc EXCEPT !["input"] = "looping"]
      /\ UNCHANGED <<client, sent, cache, outq, aborted, inClosed, outClosed, owed, mode,
                     started, stopped, complete, read, written>>
  BY DEF QueueOwed
<1>2. /\ inq \in Queue /\ inq.waiting \notin inq.woken /\ v \in 0..MaxPackets
      /\ inq.items \in Seq(0..MaxPackets) /\ Len(inq.items) \in Nat
  BY LenProperties DEF IInv, Control, Queue, Parts
<1>3. /\ inq' \in Queue /\ inq'.items = Append(inq.items, v)
      /\ inq'.waiting = inq.waiting /\ inq'.woken = inq.woken \ {"input"}
  <2>1. Append(inq.items, v) \in Seq(0..MaxPackets)
    BY <1>2, AppendProperties
  <2> HIDE DEF v
  <2> QED  BY <1>2, <2>1 DEF QueueOwed, Queued, Queue, v
<1>4. Control'
  BY <1>1, <1>2, <1>3 DEF IInv, Control, InPlace, Known, Parts, Places, InputPlaces, InputWaits
<1>5. Data'
  BY <1>1 DEF IInv, Data
<1>6. Stream'
  <2> SUFFICES ASSUME ~aborted, ~inClosed  PROVE InFlight'
    BY <1>1 DEF IInv, Stream, ReadsInOrder
  <2>1. Held = 1 /\ Held' = 0
    BY <1>1 DEF IInv, Held, Control, InPlace, Parts
  <2>2. Ordered(Len(read), inq.items, 1, v, cache, sent)
    BY <2>1 DEF IInv, Stream, InFlight
  <2>3. Ordered(Len(read), Append(inq.items, v), 0, v, cache, sent)
    BY <2>2, StreamTypes, OrderedOwed
  <2> QED  BY <1>1, <1>3, <2>1, <2>3 DEF InFlight
<1> QED  BY <1>4, <1>5, <1>6 DEF IInv

LEMMA ReadPacketStep ==
    ASSUME IInv, ReadPacket
    PROVE  IInv'
<1>1. /\ ~aborted /\ ~inClosed /\ inq.items # <<>>
      /\ inq' = Popped(inq) /\ read' = Append(read, Head(inq.items))
      /\ UNCHANGED <<client, sent, cache, outq, aborted, inClosed, outClosed, pc, owed, mode,
                     started, stopped, complete, written>>
  BY DEF ReadPacket
<1>2. inq \in Queue /\ inq.waiting \notin inq.woken /\ inq.items \in Seq(0..MaxPackets)
  BY DEF IInv, Control, Queue
<1>3. /\ inq' \in Queue /\ inq'.items = Tail(inq.items) /\ inq'.waiting \notin inq'.woken
      /\ \A p \in Parts : p = inq'.waiting \/ p \in inq'.woken
                             <=> p = inq.waiting \/ p \in inq.woken
  BY <1>1, <1>2, PoppedQueue
<1>4. Control'
  BY <1>1, <1>3 DEF IInv, Control, InPlace, Known
<1>5. Head(inq.items) \in 0..MaxPackets
  BY <1>1, <1>2, HeadTailProperties
<1>6. /\ read' \in Seq(0..MaxPackets) /\ Len(read) \in Nat /\ Len(read') = Len(read) + 1
      /\ read'[Len(read) + 1] = Head(inq.items)
      /\ \A i \in 1..Len(read) : read'[i] = read[i]
      /\ DOMAIN read = 1..Len(read) /\ DOMAIN read' = 1..Len(read')
  BY <1>1, <1>5, AppendProperties, LenProperties DEF IInv, Data
<1>7. Data'
  BY <1>1, <1>6 DEF IInv, Data
<1>8. Stream'
  <2>1. InFlight /\ ReadsInOrder /\ Held' = Held /\ Held \in {0, 1}
    BY <1>1 DEF IInv, Stream, Held
  <2>2. /\ Head(inq.items) = Len(read) + 1
        /\ Ordered(Len(read) + 1, Tail(inq.items), Held, owed["input"], cache, sent)
    BY <1>1, <2>1, StreamTypes, OrderedRead DEF InFlight
  <2>3. ReadsInOrder'
    BY <1>6, <2>1, <2>2 DEF ReadsInOrder
  <2>4. InFlight'
    BY <1>1, <1>3, <1>6, <2>1, <2>2 DEF InFlight
  <2> QED  BY <2>3, <2>4 DEF Stream
<1> QED  BY <1>4, <1>7, <1>8 DEF IInv

-----------------------------------------------------------------------------
(* The other actions.                                                      *)

LEMMA MoveStep ==
    ASSUME IInv, NEW p \in Parts, pc[p] \notin Waits,
           NEW place \in Places \ Waits, InPlace([pc EXCEPT ![p] = place]),
           pc' = [pc EXCEPT ![p] = place], UNCHANGED <<inq, outq, owed>>,
           UNCHANGED <<sent, cache, read, aborted, inClosed>>
    PROVE  Control' /\ Stream'
<1>1. Control'
  BY MoveControl DEF IInv
<1>2. Held' = Held
  BY DEF Held, IInv, Control, InPlace, Parts, Waits, InputWaits
<1>3. Stream'
  BY <1>2, QuietStream DEF IInv
<1> QED  BY <1>1, <1>3

LEMMA RequestStep ==
    ASSUME IInv, NEW m, Request(m)
    PROVE  IInv'
<1>1. Data'
  <2>1. started' \in BOOLEAN
    BY Zenon DEF Request
  <2> QED  BY <2>1 DEF Request, IInv, Data
<1>2. CASE pc["responder"] = "handshake"
  <2>1. pc' = [pc EXCEPT !["responder"] = "routing"]
    BY <1>2 DEF Request
  <2>2. Control' /\ Stream'
    BY <1>2, <2>1, MoveStep
    DEF Request, IInv, Control, InPlace, Parts, Places, ResponderPlaces, Waits, InputWaits
  <2> QED  BY <1>1, <2>2 DEF IInv
<1>3. CASE pc["responder"] # "handshake"
  <2>1. pc' = pc
    BY <1>3 DEF Request, IInv, Control, InPlace
  <2>2. Control' /\ Held' = Held
    BY <2>1 DEF Request, IInv, Control, InPlace, Known, Held
  <2>3. Stream'
    BY <2>2, QuietStream DEF Request, IInv
  <2> QED  BY <1>1, <2>2, <2>3 DEF IInv
<1> QED  BY <1>2, <1>3

\* The ways in which a loop ends: the queues are aborted.
LEMMA UnshakenInPlace ==
    ASSUME Control, NEW p \in {"input", "output"}, pc[p] = "looping"
    PROVE  /\ InPlace([Unshaken(pc) EXCEPT ![p] = "closing"])
           /\ Known([Unshaken(pc) EXCEPT ![p] = "closing"])
           /\ InPlace([pc EXCEPT ![p] = "closing"])
           /\ Known([pc EXCEPT ![p] = "closing"])
BY DEF Control, InPlace, Known, Unshaken, Parts, Places, InputPlaces, OutputPlaces,
       ResponderPlaces, InputWaits

LEMMA AbortStep ==
    ASSUME IInv, ReadFails \/ AnswerFails \/ OutputEnds
    PROVE  IInv'
<1>1. /\ UNCHANGED <<client, sent, cache, inClosed, outClosed, owed, mode, started, stopped,
                     complete, read, written>>
      /\ aborted' = TRUE
  BY DEF ReadFails, AnswerFails, OutputEnds, Abort
<1>2. Data'
  BY <1>1 DEF IInv, Data
<1>3. Stream'
  BY <1>1, StreamEnds DEF IInv
<1>4. PICK p \in {"input", "output"} :
         /\ pc[p] = "looping"
         /\ \/ Abort([Unshaken(pc) EXCEPT ![p] = "closing"])
            \/ Abort([pc EXCEPT ![p] = "closing"])
  BY DEF ReadFails, AnswerFails, OutputEnds, MayRead
<1>5. Control'
  BY <1>1, <1>4, UnshakenInPlace, AbortControl DEF IInv
<1> QED  BY <1>2, <1>3, <1>5 DEF IInv

LEMMA WritePacketStep ==
    ASSUME IInv, WritePacket
    PROVE  IInv'
<1>1. /\ outq' \in Queue /\ outq'.waiting \notin outq'.woken
      /\ \A p \in Parts : p = outq'.waiting \/ p \in outq'.woken
                             <=> p = outq.waiting \/ p \in outq.woken
  BY PoppedQueue DEF WritePacket, IInv, Control
<1>2. Control' /\ Held' = Held
  BY <1>1 DEF WritePacket, IInv, Control, InPlace, Known, Held
<1>3. Stream'
  BY <1>2, QuietStream DEF WritePacket, IInv
<1>4. Data'
  BY DEF WritePacket, IInv, Data
<1> QED  BY <1>2, <1>3, <1>4 DEF IInv

LEMMA PutPacketStep ==
    ASSUME IInv, PutPacket
    PROVE  IInv'
<1>1. /\ pc["responder"] = "session" /\ written' = written + 1
      /\ UNCHANGED <<client, sent, cache, inq, aborted, inClosed, outClosed, mode, started,
                     stopped, complete, read>>
      /\ outq \in Queue /\ outq.waiting \notin outq.woken
  BY DEF PutPacket, IInv, Control
<1>2. written + 1 \in 0..MaxPackets
  BY CapacityAssumption DEF PutPacket, IInv, Data
<1>3. Data'
  BY <1>1, <1>2 DEF IInv, Data
<1>4. CASE outq' = Queued(outq, written + 1) /\ UNCHANGED <<pc, owed>>
  <2>1. outq' \in Queue /\ outq'.waiting = outq.waiting /\ outq'.woken = outq.woken
    BY <1>1, <1>2, <1>4, AppendProperties DEF Queue, Queued
  <2>2. Control' /\ Held' = Held
    BY <1>1, <1>4, <2>1 DEF IInv, Control, InPlace, Known, Held
  <2>3. Stream'
    BY <1>1, <1>4, <2>2, QuietStream DEF IInv
  <2> QED  BY <1>3, <2>2, <2>3 DEF IInv
<1>5. CASE /\ outq' = [outq EXCEPT !.waiting = "responder"]
           /\ owed' = [owed EXCEPT !["responder"] = written + 1]
           /\ pc' = [pc EXCEPT !["responder"] = "putting"]
  <2>1. outq' \in Queue /\ outq'.waiting = "responder" /\ outq'.woken = outq.woken
    BY <1>1, <1>5 DEF Queue, Parts
  <2>2. owed' \in [Parts -> 0..MaxPackets] /\ owed'["input"] = owed["input"]
    BY <1>2, <1>5 DEF IInv, Control, Parts
  <2>3. /\ "responder" \notin outq.woken /\ outq.waiting = Nobody
        /\ "responder" # inq.waiting /\ "responder" \notin inq.woken
    BY <1>1 DEF IInv, Control, Known, InPlace, Queue, Parts, InputPlaces, OutputPlaces,
                InputWaits
  <2>4. InPlace(pc') /\ Held' = Held
    BY <1>5 DEF IInv, Control, InPlace, Parts, Places, ResponderPlaces, Held
  <2>5. Known(pc)'
    BY <1>1, <1>5, <2>1, <2>3, NobodyAssumption
    DEF IInv, Control, InPlace, Known, Parts, InputWaits
  <2>6. Control'
    BY <1>1, <2>1, <2>2, <2>3, <2>4, <2>5 DEF IInv, Control
  <2>7. Stream'
    BY <1>1, <2>2, <2>4, QuietStream DEF IInv
  <2> QED  BY <1>3, <2>6, <2>7 DEF IInv
<1> QED  BY <1>4, <1>5 DEF PutPacket

LEMMA PutOwedStep ==
    ASSUME IInv, PutOwed
    PROVE  IInv'
<1>1. /\ pc["responder"] = "putting" /\ "responder" \in outq.woken
      /\ pc' = [pc EXCEPT !["responder"] = "session"]
      /\ UNCHANGED <<client, sent, cache, inq, aborted, inClosed, outClosed, owed, mode,
                     started, stopped, complete, read, written>>
      /\ outq \in Queue /\ outq.waiting \notin outq.woken
      /\ owed["responder"] \in 0..MaxPackets
  BY DEF PutOwed, IInv, Control, Parts
<1>2. /\ outq' \in Queue /\ outq'.waiting = outq.waiting
      /\ outq'.woken = outq.woken \ {"responder"}
  <2>1. Append(outq.items, owed["responder"]) \in Seq(0..MaxPackets)
    BY <1>1, AppendProperties DEF Queue
  <2> QED  BY <1>1, <2>1 DEF PutOwed, Queued, Queue
<1>3. Control' /\ Held' = Held
  BY <1>1, <1>2
  DEF IInv, Control, InPlace, Known, Parts, Places, ResponderPlaces, InputWaits, Held
<1>4. Stream'
  BY <1>1, <1>3, QuietStream DEF IInv
<1>5. Data'
  BY <1>1 DEF IInv, Data
<1> QED  BY <1>3, <1>4, <1>5 DEF IInv

\* A part moves on and nothing else happens but that the session is complete.
LEMMA OnlyMoveStep ==
    ASSUME IInv, OutputFails \/ Route \/ StopSession
    PROVE  IInv'
<1>1. Data'
  BY DEF OutputFails, Route, StopSession, IInv, Data
<1>2. /\ UNCHANGED <<inq, outq, owed, sent, cache, read, aborted, inClosed>>
      /\ \/ pc["output"] = "looping" /\ pc' = [pc EXCEPT !["output"] = "closing"]
         \/ \E place \in {"session", "closing", "release"} :
               /\ pc["responder"] \in {"routing", "session"}
               /\ pc' = [pc EXCEPT !["responder"] = place]
  BY DEF OutputFails, Route, StopSession
<1>3. CASE pc["output"] = "looping" /\ pc' = [pc EXCEPT !["output"] = "closing"]
  <2>1. Control' /\ Stream'
    BY <1>2, <1>3, MoveStep
    DEF IInv, Control, InPlace, Parts, Places, InputPlaces, OutputPlaces, Waits, InputWaits
  <2> QED  BY <1>1, <2>1 DEF IInv
<1>4. ASSUME NEW place \in {"session", "closing", "release"},
             pc["responder"] \in {"routing", "session"},
             pc' = [pc EXCEPT !["responder"] = place]
      PROVE  IInv'
  <2>1. Control' /\ Stream'
    BY <1>2, <1>4, MoveStep
    DEF IInv, Control, InPlace, Parts, Places, ResponderPlaces, Waits, InputWaits
  <2> QED  BY <1>1, <2>1 DEF IInv
<1> QED  BY <1>2, <1>3, <1>4

LEMMA ReleaseInputStep ==
    ASSUME IInv, ReleaseInput
    PROVE  IInv'
<1>1. /\ pc["responder"] = "release" /\ inClosed' = TRUE
      /\ UNCHANGED <<client, sent, cache, outq, aborted, outClosed, mode, started, stopped,
                     complete, read, written>>
  BY DEF ReleaseInput
<1>2. Data' /\ Stream'
  BY <1>1, StreamEnds DEF IInv, Data
<1>3. /\ InPlace([pc EXCEPT !["responder"] = "closing"])
      /\ InPlace([pc EXCEPT !["responder"] = "releasing"])
      /\ "responder" \in Parts /\ EOF \in 0..MaxPackets /\ pc["responder"] \notin Waits
      /\ "closing" \in Places \ Waits /\ "releasing" \in InputWaits
  BY <1>1, CapacityAssumption
  DEF IInv, Control, InPlace, Parts, Places, InputPlaces, ResponderPlaces, Waits, InputWaits,
      EOF
<1>4. Control'
  BY <1>1, <1>3, MoveControl, PushInputControl DEF ReleaseInput, IInv
<1> QED  BY <1>2, <1>4 DEF IInv

LEMMA CloseInputStep ==
    ASSUME IInv, NEW p \in Parts, CloseInput(p)
    PROVE  IInv'
<1>1. /\ pc[p] = "closing" /\ inClosed' = TRUE /\ stopped' = (stopped \/ started)
      /\ UNCHANGED <<client, sent, cache, outq, aborted, outClosed, mode, started,
                     complete, read, written>>
  BY DEF CloseInput
<1>2. Data'
  <2>1. stopped' \in BOOLEAN
    BY <1>1, Zenon
  <2> QED  BY <1>1, <2>1 DEF IInv, Data
<1>3. Stream'
  BY <1>1, StreamEnds DEF IInv
<1>4. /\ \A place \in {"closingOut", "closingIn", "ended"} : InPlace([pc EXCEPT ![p] = place])
      /\ EOF \in 0..MaxPackets /\ pc[p] \notin Waits
      /\ "closingOut" \in Places \ Waits /\ "ended" \in Places \ Waits
      /\ "closingIn" \in InputWaits
  BY <1>1, CapacityAssumption
  DEF IInv, Control, InPlace, Parts, Places, InputPlaces, OutputPlaces, ResponderPlaces,
      Waits, InputWaits, EOF
<1>5. Control'
  BY <1>1, <1>4, MoveControl, PushInputControl DEF CloseInput, IInv
<1> QED  BY <1>2, <1>3, <1>5 DEF IInv

\* close() of the sink, by a player that is released or by a part that ends.
LEMMA CloseSinkStep ==
    ASSUME IInv, NEW p \in Parts, NEW place \in {"closing", "ended"},
           pc[p] \in {"release", "closingOut"}, place = "closing" => p = "responder",
           CloseSink, pc' = [pc EXCEPT ![p] = place],
           UNCHANGED <<client, sent, cache, inq, aborted, inClosed, owed, mode, started,
                       stopped, complete, read, written>>
    PROVE  IInv'
<1>1. /\ outq' \in Queue /\ outq'.waiting \notin outq'.woken
      /\ \A q \in Parts : q = outq'.waiting \/ q \in outq'.woken
                             <=> q = outq.waiting \/ q \in outq.woken
  BY CloseSinkQueue DEF IInv
<1>2. InPlace(pc')
  BY DEF IInv, Control, InPlace, Parts, Places, InputPlaces, OutputPlaces, ResponderPlaces
<1>3. Known(pc)'
  BY <1>1 DEF IInv, Control, InPlace, Known, InputWaits
<1>4. Control' /\ Held' = Held
  BY <1>1, <1>2, <1>3 DEF IInv, Control, InPlace, Held
<1>5. Stream'
  BY <1>4, QuietStream DEF IInv
<1>6. Data'
  BY DEF CloseSink, IInv, Data
<1> QED  BY <1>4, <1>5, <1>6 DEF IInv

LEMMA CloseStep ==
    ASSUME IInv, NEW p \in Parts, Close(p)
    PROVE  IInv'
<1>1. CASE CloseInput(p)
  BY <1>1, CloseInputStep
<1>2. CASE CloseOutput(p)
  BY <1>2, CloseSinkStep DEF CloseOutput
<1> QED  BY <1>1, <1>2 DEF Close

LEMMA QuietStep ==
    ASSUME IInv, Leave \/ Complete \/ UNCHANGED vars
    PROVE  IInv'
<1>1. UNCHANGED <<sent, cache, inq, outq, aborted, inClosed, outClosed, pc, owed, started,
                  stopped, read, written>>
  BY DEF Leave, Complete, vars
<1>2. client' \in {"there", "gone"} /\ complete' \in BOOLEAN
  BY DEF Leave, Complete, vars, IInv, Data
<1>3. Data'
  BY <1>1, <1>2 DEF IInv, Data
<1>4. Control' /\ Held' = Held
  BY <1>1 DEF IInv, Control, InPlace, Known, Held
<1>5. Stream'
  BY <1>1, <1>4, QuietStream DEF IInv
<1> QED  BY <1>3, <1>4, <1>5 DEF IInv

LEMMA StepIInv == IInv /\ [Next]_vars => IInv'
<1> SUFFICES ASSUME IInv, [Next]_vars  PROVE IInv'
  OBVIOUS
<1> USE DEF Parts
<1>1. CASE Leave \/ Complete \/ Destroyed \/ UNCHANGED vars
  BY <1>1, QuietStep DEF Destroyed
<1>2. CASE ReadFails \/ AnswerFails \/ OutputEnds
  BY <1>2, AbortStep
<1>3. CASE OutputFails \/ Route \/ StopSession
  BY <1>3, OnlyMoveStep
<1>4. CASE PutPacket
  BY <1>4, PutPacketStep
<1>5. CASE PutOwed
  BY <1>5, PutOwedStep
<1>6. CASE \E m \in {"publish", "play"} : Request(m)
  BY <1>6, RequestStep
<1>7. CASE \E n \in 1..2 : ReadPackets(n)
  BY <1>7, ReadPacketsStep
<1>8. CASE QueuePacket
  BY <1>8, QueuePacketStep
<1>9. CASE QueueOwed
  BY <1>9, QueueOwedStep
<1>10. CASE ReadPacket
  BY <1>10, ReadPacketStep
<1>11. CASE WritePacket
  BY <1>11, WritePacketStep
<1>12. CASE ReleaseInput
  BY <1>12, ReleaseInputStep
<1>13. CASE ReleaseOutput
  BY <1>13, CloseSinkStep DEF ReleaseOutput
<1>14. CASE Close("input") \/ Close("output") \/ Close("responder")
  BY <1>14, CloseStep
<1> QED
  BY <1>1, <1>2, <1>3, <1>4, <1>5, <1>6, <1>7, <1>8, <1>9, <1>10, <1>11, <1>12, <1>13, <1>14
  DEF Next, InputLoop, OutputLoop, Responder

-----------------------------------------------------------------------------
(* The theorems.                                                           *)

\* What the invariant says, in the words of the properties.
LEMMA IInvImplies == IInv => TypeOK /\ ReadsInOrder
<1> SUFFICES ASSUME IInv  PROVE TypeOK /\ ReadsInOrder
  OBVIOUS
<1>1. {aborted, inClosed, outClosed, started, stopped, complete} \subseteq BOOLEAN
  <2>1. /\ aborted \in BOOLEAN /\ inClosed \in BOOLEAN /\ outClosed \in BOOLEAN
        /\ started \in BOOLEAN /\ stopped \in BOOLEAN /\ complete \in BOOLEAN
    BY DEF IInv, Data
  <2> QED  BY <2>1, Zenon
<1>2. /\ client \in {"there", "gone"} /\ sent \in 0..MaxPackets /\ written \in 0..MaxPackets
      /\ cache \in Seq(1..MaxPackets) /\ read \in Seq(0..MaxPackets)
      /\ inq \in Queue /\ outq \in Queue
  BY DEF IInv, Data, Control
<1>3. /\ pc["input"] \in {"looping", "queueing", "closing", "closingIn", "closingOut", "ended"}
      /\ pc["output"] \in {"looping", "closing", "closingIn", "closingOut", "ended"}
      /\ pc["responder"] \in {"handshake", "routing", "session", "putting", "release",
                              "releasing", "closing", "closingIn", "closingOut", "ended"}
  BY DEF IInv, Control, InPlace, InputPlaces, OutputPlaces, ResponderPlaces
<1>4. \A p \in Parts :
         /\ pc[p] \in {"queueing", "releasing", "closingIn"} <=>
                p = inq.waiting \/ p \in inq.woken
         /\ pc[p] = "putting" <=> p = outq.waiting \/ p \in outq.woken
  BY DEF IInv, Control, Known, InputWaits
<1> QED  BY <1>1, <1>2, <1>3, <1>4, Zenon DEF TypeOK, IInv, Stream

\* The inductive invariant of a connection.
THEOREM Invariance == Spec => []IInv
<1> QED  BY InitIInv, StepIInv, PTL DEF Spec

\* A connection's state is of its type; who waits for room at a queue is known
\* there or has been woken: no part waits that nobody would wake or fail.
THEOREM TypeCorrect == Spec => []TypeOK
<1> QED  BY Invariance, IInvImplies, PTL

\* The publisher reads the client's packets in order and without gaps.
THEOREM InOrder == Spec => []ReadsInOrder
<1> QED  BY Invariance, IInvImplies, PTL

-----------------------------------------------------------------------------
(* Under the server.                                                       *)

\* stop() is to a connection what a client is that leaves.
LEMMA ServerStep ==
    ASSUME client \in {"there", "gone"}, [ServerNext]_serverVars
    PROVE  [Next]_vars
<1>1. CASE UNCHANGED serverVars
  BY <1>1 DEF serverVars
<1>2. CASE Arrive \/ AcceptFails \/ AcceptLoop \/ LeaveGate \/ Finished
  BY <1>2 DEF Arrive, AcceptFails, AcceptLoop, AcceptOne, AcceptNext, LeaveGate, Finished,
              serverVars
<1>3. CASE Stop
  BY <1>3 DEF Stop, Leave, Next, vars
<1>4. CASE \/ Serving(Leave) \/ Serving(Complete) \/ Serving(ReadFails)
           \/ Serving(AnswerFails) \/ Serving(PutPacket) \/ Serving(StopSession)
           \/ \E m \in {"publish", "play"} : Serving(Request(m))
           \/ \E n \in 1..2 : Serving(ReadPackets(n))
           \/ Serving(InputLoop) \/ Serving(OutputLoop) \/ Serving(Responder)
  BY <1>4 DEF Serving, Next
<1> QED  BY <1>1, <1>2, <1>3, <1>4 DEF ServerNext

\* Whatever the server does, its connection takes the steps of a connection.
ConnectionSteps == Init /\ [][Next]_vars

\* The connection's invariant holds in every state of the server, before the accept,
\* while it serves, and after stop().
THEOREM ServerInvariance == ServerSpec => []IInv
<1>1. ServerInit => IInv
  BY InitIInv DEF ServerInit
<1>2. IInv /\ [ServerNext]_serverVars => IInv'
  BY ServerStep, StepIInv DEF IInv, Data
<1> QED  BY <1>1, <1>2, PTL DEF ServerSpec

\* stop(), accepts that fail and a gate that is closed add nothing to what a
\* connection can do: they only make its client leave.
THEOREM ServerRunsConnections == ServerSpec => ConnectionSteps
<1>1. ServerInit => Init
  BY DEF ServerInit
<1>2. IInv /\ [ServerNext]_serverVars => [Next]_vars
  BY ServerStep DEF IInv, Data
<1> QED  BY <1>1, <1>2, ServerInvariance, PTL DEF ServerSpec, ConnectionSteps

\* A connection's state is of its type under the server, whenever that is stopped.
THEOREM ServerTypeCorrect == ServerSpec => []TypeOK
<1> QED  BY ServerInvariance, IInvImplies, PTL

\* A publisher that a server accepted reads its packets in order and without gaps.
THEOREM ServerReadsInOrder == ServerSpec => []ReadsInOrder
<1> QED  BY ServerInvariance, IInvImplies, PTL

-----------------------------------------------------------------------------
(* Nobody waits for ever: unless the client fills _media_input before its  *)
(* request is answered, or an answer fails to be written before that, some *)
(* part can go on, or the input loop reads the socket, until all ended.    *)

\* What a part can do without another part: the guards of its steps.
InputGoesOn ==
    \/ pc["input"] = "looping" /\ cache # <<>>
    \/ pc["input"] = "queueing" /\ "input" \in inq.woken
    \/ pc["input"] \in {"closing", "closingOut"}

OutputGoesOn ==
    \/ pc["output"] = "looping" /\ (aborted \/ outq.items # <<>>)
    \/ pc["output"] \in {"closing", "closingOut"}

ResponderGoesOn ==
    \/ pc["responder"] \in {"routing", "session", "release", "closing", "closingOut"}
    \/ pc["responder"] = "putting" /\ "responder" \in outq.woken

NeverStuck == Processed \/ MayRead \/ InputGoesOn \/ OutputGoesOn \/ ResponderGoesOn

\* Who waits for room does so at a full queue that is not aborted; room is found for
\* packets only, since who waits with the end of the input has closed it.
Rooms ==
    /\ inq.waiting # Nobody => ~aborted /\ Full(inq)
    /\ outq.waiting # Nobody => ~aborted /\ Full(outq)
    /\ \A p \in inq.woken : pc[p] = "queueing"
    /\ \A p \in Parts : pc[p] \in {"releasing", "closingIn"} => inClosed

\* Only a publishing client sends packets, a session has a request, and the
\* responder waits for one only while nothing has been closed.
Requested ==
    /\ mode \in {"none", "publish", "play"}
    /\ mode # "publish" => sent = 0 /\ cache = <<>> /\ pc["input"] # "queueing"
    /\ pc["responder"] \in {"routing", "session", "putting", "release", "releasing"}
          => mode # "none"
    /\ pc["responder"] = "handshake" =>
          ~aborted /\ ~inClosed /\ outq.items = <<>> /\ mode = "none"

HasEnd(items) == \E i \in 1..Len(items) : items[i] = EOF

\* Until an abort the output loop runs, a part that has ended has left it the end of
\* the stream, and who closes the input finds room for the end or the input closed.
Orderly ==
    /\ pc["output"] = "looping"
    /\ pc["input"] \in {"looping", "queueing"} \/ inClosed
    /\ pc["input"] # "closingIn" /\ pc["responder"] # "closingIn"
    /\ pc["input"] = "ended" \/ pc["responder"] = "ended" => outClosed
    /\ pc["responder"] \in {"handshake", "routing", "closing"} /\ ~inClosed => sent <= Early
    /\ outClosed => HasEnd(outq.items)

Moving == Rooms /\ Requested /\ (~aborted => Orderly)

LEMMA InitMoving == Init => Moving
<1> SUFFICES ASSUME Init  PROVE Moving
  OBVIOUS
<1>1. 0 <= Early
  BY CapacityAssumption
<1> QED  BY <1>1 DEF Init, Moving, Rooms, Requested, Orderly, EmptyQueue, Parts

\* No more than the sent packets are queued.
LEMMA RoomForEnd ==
    ASSUME IInv, ~aborted, ~inClosed, sent <= Early, Early < Capacity
    PROVE  ~Full(inq)
<1> DEFINE r == Len(read)
           n == Len(inq.items)
           c == Len(cache)
<1>1. r \in Nat /\ n \in Nat /\ c \in Nat /\ Held \in 0..1 /\ sent = r + n + Held + c
  BY DEF IInv, Stream, InFlight, Ordered, Control, Data, Queue, Held
<1>2. Early \in Nat /\ Capacity \in Nat
  BY CapacityAssumption
<1> HIDE DEF r, n, c
<1>3. n < Capacity
  BY <1>1, <1>2
<1> QED  BY <1>1, <1>2, <1>3 DEF Full, n

\* Where nobody can go on all have ended: an abort leaves nobody waiting; without one
\* the output loop waits for a packet, so that nobody has closed the output, and the
\* responder would have to wait for room as well as the input loop.
LEMMA MovingIsEnough ==
    ASSUME IInv, Moving
    PROVE  NeverStuck
<1> SUFFICES ASSUME ~Processed, ~MayRead, ~InputGoesOn, ~OutputGoesOn, ~ResponderGoesOn
             PROVE  FALSE
  BY DEF NeverStuck
<1>1. InPlace(pc) /\ Known(pc) /\ "input" \in Parts /\ "output" \in Parts /\ "responder" \in Parts
  BY DEF IInv, Control, Parts
<1>2. /\ pc["input"] \in {"queueing", "closingIn", "ended"}
      /\ pc["output"] \in {"looping", "closingIn", "ended"}
      /\ pc["responder"] \in {"handshake", "putting", "releasing", "closingIn", "ended"}
  BY <1>1 DEF InPlace, InputPlaces, OutputPlaces, ResponderPlaces, InputGoesOn, OutputGoesOn,
              ResponderGoesOn, MayRead
<1>3. /\ pc["input"] \in {"queueing", "closingIn"} => inq.waiting = "input"
      /\ pc["output"] = "closingIn" => inq.waiting = "output"
      /\ pc["responder"] \in {"releasing", "closingIn"} => inq.waiting = "responder"
      /\ pc["responder"] = "putting" => outq.waiting = "responder"
  BY <1>1, <1>2 DEF Known, InputWaits, InputGoesOn, ResponderGoesOn, Moving, Rooms
<1>4. CASE aborted
  <2>1. inq.waiting = Nobody /\ outq.waiting = Nobody
    BY <1>4 DEF Moving, Rooms
  <2>2. pc["input"] = "ended" /\ pc["output"] = "ended" /\ pc["responder"] = "ended"
    BY <1>1, <1>2, <1>3, <1>4, <2>1, NobodyAssumption
    DEF Moving, Requested, OutputGoesOn, InPlace
  <2> QED  BY <2>2 DEF Processed, Parts
<1>5. CASE ~aborted
  <2>1. Orderly /\ pc["output"] = "looping" /\ outq.items = <<>>
    BY <1>5 DEF Moving, Orderly, OutputGoesOn
  <2>2. ~outClosed
    BY <2>1 DEF Orderly, HasEnd
  <2>3. pc["input"] = "queueing" /\ pc["responder"] \in {"handshake", "putting", "releasing"}
    BY <1>2, <2>1, <2>2 DEF Orderly
  <2>4. pc["responder"] # "handshake"
    BY <2>3 DEF Moving, Requested
  <2>5. outq.waiting = Nobody
    <3>1. Len(outq.items) = 0 /\ ~(0 >= Capacity)
      BY <2>1, CapacityAssumption
    <3> QED  BY <3>1 DEF Moving, Rooms, Full
  <2> QED  BY <1>1, <1>3, <2>3, <2>4, <2>5, NobodyAssumption
<1> QED  BY <1>4, <1>5

-----------------------------------------------------------------------------
\* The end of the stream stays in a queue until it is at the head.
LEMMA EndKept ==
    ASSUME NEW items \in Seq(0..MaxPackets), HasEnd(items)
    PROVE  /\ \A v \in 0..MaxPackets : HasEnd(Append(items, v))
           /\ items # <<>>
           /\ Head(items) # EOF => HasEnd(Tail(items))
<1>1. PICK i \in 1..Len(items) : items[i] = EOF
  BY DEF HasEnd
<1>2. Len(items) \in Nat /\ items # <<>> /\ Head(items) = items[1]
  <2>1. Len(items) \in Nat /\ Len(items) # 0
    BY <1>1, LenProperties
  <2>2. items # <<>>
    BY <2>1
  <2> QED  BY <2>1, <2>2, HeadTailProperties
<1>3. ASSUME NEW v \in 0..MaxPackets  PROVE HasEnd(Append(items, v))
  <2>1. /\ Len(Append(items, v)) = Len(items) + 1
        /\ \A j \in 1..Len(items) : Append(items, v)[j] = items[j]
    BY AppendProperties
  <2> DEFINE a == Append(items, v)
  <2>2. a[i] = EOF /\ Len(a) = Len(items) + 1
    BY <1>1, <2>1
  <2> HIDE DEF a
  <2>3. i \in 1..Len(a)
    BY <1>2, <2>2
  <2>4. HasEnd(a)
    BY <2>2, <2>3 DEF HasEnd
  <2> QED  BY <2>4 DEF a
<1>4. ASSUME Head(items) # EOF  PROVE HasEnd(Tail(items))
  <2>1. /\ Len(Tail(items)) = Len(items) - 1
        /\ \A j \in 1..(Len(items) - 1) : Tail(items)[j] = items[j + 1]
    BY <1>2, FirstAndRest
  <2>2. i # 1
    BY <1>1, <1>2, <1>4
  <2> DEFINE t == Tail(items)
  <2> HIDE DEF t
  <2>3. i - 1 \in 1..(Len(items) - 1) /\ (i - 1) + 1 = i
    BY <1>2, <2>2
  <2>4. t[i - 1] = EOF /\ i - 1 \in 1..Len(t)
    BY <1>1, <2>1, <2>3 DEF t
  <2>5. HasEnd(t)
    BY <2>4 DEF HasEnd
  <2> QED  BY <2>5 DEF t
<1> QED  BY <1>2, <1>3, <1>4

LEMMA WokenParts ==
    ASSUME IInv
    PROVE  inq.woken \in SUBSET Parts /\ inq.waiting \in Parts \union {Nobody}
BY DEF IInv, Control, Queue

LEMMA QuietMoves ==
    ASSUME Moving, Leave \/ Complete \/ UNCHANGED vars
    PROVE  Moving'
<1>1. UNCHANGED <<sent, cache, inq, outq, aborted, inClosed, outClosed, pc, mode>>
  BY DEF Leave, Complete, vars
<1> QED  BY <1>1 DEF Moving, Rooms, Requested, Orderly, Full

\* An abort leaves nobody at a full queue; nobody aborts while the responder waits
\* for a request but to tell it.
LEMMA AbortMoves ==
    ASSUME IInv, Moving, ~EarlyReset, ReadFails \/ AnswerFails \/ OutputEnds
    PROVE  Moving'
<1> DEFINE W == {inq.waiting, outq.waiting} \ {Nobody}
<1>1. /\ aborted' = TRUE /\ UNCHANGED <<sent, cache, inClosed, outClosed, mode>>
      /\ inq'.waiting = Nobody /\ inq'.woken = inq.woken
      /\ outq'.waiting = Nobody
  <2>1. inq \in Queue /\ outq \in Queue
    BY DEF IInv, Control
  <2> QED  BY <2>1 DEF ReadFails, AnswerFails, OutputEnds, Abort, Aborted, Queue
<1>2. PICK at :
         /\ pc' = FailAll(W, at) /\ at \in [Parts -> Places]
         /\ \A p \in Parts : at[p] = pc[p] \/ at[p] = "closing"
         /\ at["responder"] # "handshake"
         /\ \A p \in Parts : pc[p] \in Waits => at[p] = pc[p]
  <2>1. /\ pc \in [Parts -> Places] /\ "input" \in Parts /\ "output" \in Parts
        /\ "responder" \in Parts /\ "closing" \in Places
    BY DEF IInv, Control, InPlace, Parts, Places, InputPlaces
  <2>2. pc["responder"] = "handshake" => mode = "none" /\ outq.items = <<>>
    BY DEF Moving, Requested
  <2>3. ASSUME NEW p \in {"input", "output"}, pc[p] = "looping",
               Abort([Unshaken(pc) EXCEPT ![p] = "closing"])
        PROVE  \E at :
                  /\ pc' = FailAll(W, at) /\ at \in [Parts -> Places]
                  /\ \A q \in Parts : at[q] = pc[q] \/ at[q] = "closing"
                  /\ at["responder"] # "handshake"
                  /\ \A q \in Parts : pc[q] \in Waits => at[q] = pc[q]
    <3> DEFINE at == [Unshaken(pc) EXCEPT ![p] = "closing"]
    <3>1. pc' = FailAll(W, at)
      BY <2>3 DEF Abort
    <3>2. /\ at \in [Parts -> Places]
          /\ \A q \in Parts : at[q] = pc[q] \/ at[q] = "closing"
          /\ at["responder"] # "handshake"
          /\ \A q \in Parts : pc[q] \in Waits => at[q] = pc[q]
      BY <2>1, <2>3 DEF Unshaken, Parts, Waits, InputWaits
    <3> HIDE DEF at, W
    <3> QED  BY <3>1, <3>2
  <2>4. ASSUME NEW p \in {"input", "output"}, pc[p] = "looping",
               pc["responder"] # "handshake", Abort([pc EXCEPT ![p] = "closing"])
        PROVE  \E at :
                  /\ pc' = FailAll(W, at) /\ at \in [Parts -> Places]
                  /\ \A q \in Parts : at[q] = pc[q] \/ at[q] = "closing"
                  /\ at["responder"] # "handshake"
                  /\ \A q \in Parts : pc[q] \in Waits => at[q] = pc[q]
    <3> DEFINE at == [pc EXCEPT ![p] = "closing"]
    <3>1. pc' = FailAll(W, at)
      BY <2>4 DEF Abort
    <3>2. /\ at \in [Parts -> Places]
          /\ \A q \in Parts : at[q] = pc[q] \/ at[q] = "closing"
          /\ at["responder"] # "handshake"
          /\ \A q \in Parts : pc[q] \in Waits => at[q] = pc[q]
      BY <2>1, <2>4 DEF Parts, Waits, InputWaits
    <3> HIDE DEF at, W
    <3> QED  BY <3>1, <3>2
  <2>5. \E p \in {"input", "output"} :
           /\ pc[p] = "looping"
           /\ \/ Abort([Unshaken(pc) EXCEPT ![p] = "closing"])
              \/ pc["responder"] # "handshake" /\ Abort([pc EXCEPT ![p] = "closing"])
    BY <2>2 DEF ReadFails, AnswerFails, OutputEnds, MayRead
  <2> HIDE DEF W
  <2> QED  BY <2>3, <2>4, <2>5
<1>3. \A p \in Parts : pc'[p] = IF p \in W THEN OnFailure(at[p]) ELSE at[p]
  BY <1>2 DEF FailAll
<1>4. \A p \in W \cap Parts : at[p] = pc[p] /\ pc[p] \in Waits
  BY <1>2, NobodyAssumption DEF IInv, Control, Known, Waits
<1>5. ASSUME NEW p \in Parts
      PROVE  /\ pc'[p] \in {pc[p], "closing", "ended"} \/ (pc[p] = "putting" /\ pc'[p] = "release")
             /\ pc'[p] # "handshake" \/ p # "responder"
             /\ p \notin W /\ pc[p] \in Waits => pc'[p] = pc[p]
  <2> HIDE DEF W
  <2>1. CASE p \in W
    <3>1. pc'[p] = OnFailure(pc[p]) /\ pc[p] \in Waits
      BY <1>3, <1>4, <2>1
    <3>2. \A w \in Waits :
             OnFailure(w) \in {"closing", "ended"} \/ (w = "putting" /\ OnFailure(w) = "release")
      BY DEF Waits, InputWaits, OnFailure
    <3>3. pc'[p] \in {"closing", "ended"} \/ (pc[p] = "putting" /\ pc'[p] = "release")
      BY <3>1, <3>2
    <3> QED  BY <2>1, <3>3
  <2>2. CASE p \notin W
    <3>1. pc'[p] = at[p]
      BY <1>3, <2>2
    <3>2. pc'[p] \in {pc[p], "closing"}
      BY <1>2, <3>1
    <3>3. p = "responder" => pc'[p] # "handshake"
      BY <1>2, <3>1
    <3>4. pc[p] \in Waits => pc'[p] = pc[p]
      BY <1>2, <3>1
    <3> QED  BY <3>2, <3>3, <3>4
  <2> QED  BY <2>1, <2>2
<1>6. Rooms'
  <2>1. ASSUME NEW p \in inq.woken  PROVE pc'[p] = "queueing"
    <3>1. p \in Parts /\ pc[p] = "queueing" /\ p # inq.waiting /\ p # outq.waiting
      BY <2>1 DEF Moving, Rooms, IInv, Control, Queue, Known
    <3> QED  BY <1>5, <3>1 DEF Waits, InputWaits
  <2>2. ASSUME NEW p \in Parts, pc'[p] \in {"releasing", "closingIn"}  PROVE inClosed
    BY <1>5, <2>2 DEF Moving, Rooms
  <2> QED  BY <1>1, <2>1, <2>2 DEF Rooms
<1>7. Requested'
  <2>1. "input" \in Parts /\ "responder" \in Parts
    BY DEF Parts
  <2>2. pc'["input"] = "queueing" => pc["input"] = "queueing"
    BY <1>5, <2>1
  <2>3. pc'["responder"] \in {"routing", "session", "putting", "release", "releasing"}
           => pc["responder"] \in {"routing", "session", "putting", "release", "releasing"}
    BY <1>5, <2>1
  <2>4. pc'["responder"] # "handshake"
    BY <1>5, <2>1
  <2> QED  BY <1>1, <2>2, <2>3, <2>4 DEF Moving, Requested
<1> QED  BY <1>1, <1>6, <1>7 DEF Moving

\* The steps of one part that leave the queues and what has been closed alone.
LEMMA OutputFailsMoves ==
    ASSUME IInv, Moving, OutputFails
    PROVE  Moving'
BY DEF OutputFails, Moving, Rooms, Requested, Full, IInv, Control, InPlace, Parts

LEMMA RouteMoves ==
    ASSUME IInv, Moving, Route
    PROVE  Moving'
<1>1. PICK next \in {"session", "closing"} : pc' = [pc EXCEPT !["responder"] = next]
  BY DEF Route
<1>2. /\ pc["responder"] = "routing" /\ pc \in [Parts -> Places]
      /\ UNCHANGED <<sent, cache, inq, outq, aborted, inClosed, outClosed, mode>>
  BY DEF Route, IInv, Control, InPlace
<1>3. /\ pc'["responder"] = next /\ pc'["input"] = pc["input"] /\ pc'["output"] = pc["output"]
      /\ \A p \in Parts : pc'[p] = pc[p] \/ (pc[p] = "routing" /\ pc'[p] \in {"session", "closing"})
  BY <1>1, <1>2 DEF Parts
<1>4. Rooms'
  BY <1>2, <1>3, WokenParts DEF Moving, Rooms, Full
<1>5. Requested'
  BY <1>2, <1>3 DEF Moving, Requested
<1>6. ~aborted => Orderly'
  BY <1>2, <1>3 DEF Moving, Orderly
<1> QED  BY <1>2, <1>4, <1>5, <1>6 DEF Moving

LEMMA StopSessionMoves ==
    ASSUME IInv, Moving, StopSession
    PROVE  Moving'
<1>2. /\ pc["responder"] = "session" /\ pc \in [Parts -> Places]
      /\ pc' = [pc EXCEPT !["responder"] = "release"]
      /\ UNCHANGED <<sent, cache, inq, outq, aborted, inClosed, outClosed, mode>>
  BY DEF StopSession, IInv, Control, InPlace
<1>3. /\ pc'["responder"] = "release" /\ pc'["input"] = pc["input"] /\ pc'["output"] = pc["output"]
      /\ \A p \in Parts : pc'[p] = pc[p] \/ (pc[p] = "session" /\ pc'[p] = "release")
  BY <1>2 DEF Parts
<1>4. Rooms'
  BY <1>2, <1>3, WokenParts DEF Moving, Rooms, Full
<1>5. Requested'
  BY <1>2, <1>3 DEF Moving, Requested
<1>6. ~aborted => Orderly'
  BY <1>2, <1>3 DEF Moving, Orderly
<1> QED  BY <1>2, <1>4, <1>5, <1>6 DEF Moving

LEMMA OnePart ==
    ASSUME IInv, NEW p \in Parts, NEW at, pc' = [pc EXCEPT ![p] = at]
    PROVE  pc'[p] = at /\ \A q \in Parts \ {p} : pc'[q] = pc[q]
BY DEF IInv, Control, InPlace

LEMMA RequestMoves ==
    ASSUME IInv, Moving, NEW m \in {"publish", "play"}, Request(m)
    PROVE  Moving'
<1>1. /\ mode = "none" /\ mode' = m /\ MayRead
      /\ UNCHANGED <<sent, cache, inq, outq, aborted, inClosed, outClosed>>
  BY DEF Request
<1>2. /\ pc'["responder"] = IF pc["responder"] = "handshake" THEN "routing" ELSE pc["responder"]
      /\ \A q \in Parts \ {"responder"} : pc'[q] = pc[q]
      /\ "input" \in Parts \ {"responder"} /\ "output" \in Parts \ {"responder"}
  BY OnePart DEF Request, Parts
<1>3. Rooms'
  <2>1. \A q \in Parts : pc'[q] = pc[q] \/ (pc[q] = "handshake" /\ pc'[q] = "routing")
    BY <1>2
  <2> QED  BY <1>1, <2>1, WokenParts DEF Moving, Rooms, Full
<1>4. Requested'
  BY <1>1, <1>2 DEF Moving, Requested
<1>5. ~aborted => Orderly'
  <2>1. sent = 0 /\ 0 <= Early
    BY <1>1, CapacityAssumption DEF Moving, Requested
  <2> QED  BY <1>1, <1>2, <2>1 DEF Moving, Orderly
<1> QED  BY <1>1, <1>3, <1>4, <1>5 DEF Moving

LEMMA ReadPacketsMoves ==
    ASSUME IInv, Moving, NEW n \in 1..2, ReadPackets(n)
    PROVE  Moving'
<1>1. /\ mode = "publish" /\ sent' = sent + n
      /\ sent + n <= (IF Answered THEN MaxPackets ELSE Early)
      /\ UNCHANGED <<inq, outq, aborted, inClosed, outClosed, pc, mode>>
  BY DEF ReadPackets
<1>2. Rooms'
  BY <1>1 DEF Moving, Rooms, Full
<1>3. Requested'
  BY <1>1 DEF Moving, Requested
<1>4. ~aborted => Orderly'
  <2>1. pc["responder"] \in {"handshake", "routing", "closing"} /\ ~inClosed => ~Answered
    BY DEF Answered
  <2> QED  BY <1>1, <2>1 DEF Moving, Orderly
<1> QED  BY <1>1, <1>2, <1>3, <1>4 DEF Moving

\* The steps of the session and of the output loop on _media_output.
LEMMA PutPacketMoves ==
    ASSUME IInv, Moving, PutPacket
    PROVE  Moving'
<1>1. /\ pc["responder"] = "session" /\ mode = "play" /\ ~aborted
      /\ written < MaxPackets
      /\ UNCHANGED <<sent, cache, inq, aborted, inClosed, outClosed, mode>>
  BY DEF PutPacket
<1>2. CASE ~Full(outq) /\ outq' = Queued(outq, written + 1) /\ UNCHANGED pc
  <2>1. outq.waiting = Nobody /\ outq \in Queue /\ written + 1 \in 0..MaxPackets
    BY <1>1, <1>2, CapacityAssumption DEF Moving, Rooms, IInv, Control, Data
  <2>2. outq'.waiting = Nobody /\ outq'.items = Append(outq.items, written + 1)
    BY <1>2, <2>1 DEF Queued, Queue
  <2>3. outClosed => HasEnd(outq'.items)
    <3>1. outClosed => HasEnd(outq.items)
      BY <1>1 DEF Moving, Orderly
    <3>2. outq.items \in Seq(0..MaxPackets)
      BY <2>1 DEF Queue
    <3> QED  BY <2>1, <2>2, <3>1, <3>2, EndKept
  <2>4. Rooms'
    BY <1>1, <1>2, <2>2 DEF Moving, Rooms, Full
  <2>5. Requested'
    BY <1>1, <1>2 DEF Moving, Requested
  <2>6. Orderly'
    BY <1>1, <1>2, <2>3 DEF Moving, Orderly
  <2> QED  BY <2>4, <2>5, <2>6 DEF Moving
<1>3. CASE /\ Full(outq) /\ outq' = [outq EXCEPT !.waiting = "responder"]
           /\ pc' = [pc EXCEPT !["responder"] = "putting"]
  <2>1. outq'.waiting = "responder" /\ outq'.items = outq.items /\ Full(outq)'
    BY <1>3 DEF IInv, Control, Queue, Full
  <2>2. /\ pc'["responder"] = "putting" /\ \A q \in Parts \ {"responder"} : pc'[q] = pc[q]
        /\ "input" \in Parts \ {"responder"} /\ "output" \in Parts \ {"responder"}
    BY <1>3, OnePart DEF Parts
  <2>3. Rooms'
    <3>1. \A q \in Parts : pc'[q] = pc[q] \/ (pc[q] = "session" /\ pc'[q] = "putting")
      BY <1>1, <2>2
    <3> QED  BY <1>1, <2>1, <3>1, WokenParts DEF Moving, Rooms, Full
  <2>4. Requested'
    BY <1>1, <2>2 DEF Moving, Requested
  <2>5. Orderly'
    BY <1>1, <2>1, <2>2 DEF Moving, Orderly
  <2> QED  BY <2>3, <2>4, <2>5 DEF Moving
<1> QED  BY <1>2, <1>3 DEF PutPacket

LEMMA PutOwedMoves ==
    ASSUME IInv, Moving, PutOwed
    PROVE  Moving'
<1>1. /\ pc["responder"] = "putting" /\ "responder" \in outq.woken
      /\ UNCHANGED <<sent, cache, inq, aborted, inClosed, outClosed, mode>>
      /\ outq \in Queue /\ owed["responder"] \in 0..MaxPackets
  BY DEF PutOwed, IInv, Control, Parts
<1>2. outq.waiting = Nobody
  <2>1. outq.waiting \in Parts => pc[outq.waiting] = "putting" /\ outq.waiting # "responder"
    BY <1>1 DEF IInv, Control, Known
  <2>2. pc["input"] # "putting" /\ pc["output"] # "putting"
    BY DEF IInv, Control, InPlace, InputPlaces, OutputPlaces
  <2> QED  BY <1>1, <2>1, <2>2 DEF Parts, Queue
<1>3. outq'.waiting = Nobody /\ outq'.items = Append(outq.items, owed["responder"])
  BY <1>1, <1>2 DEF PutOwed, Queued, Queue
<1>4. /\ pc'["responder"] = "session" /\ \A q \in Parts \ {"responder"} : pc'[q] = pc[q]
      /\ "input" \in Parts \ {"responder"} /\ "output" \in Parts \ {"responder"}
  BY OnePart DEF PutOwed, Parts
<1>5. Rooms'
  <2>1. \A q \in Parts : pc'[q] = pc[q] \/ (pc[q] = "putting" /\ pc'[q] = "session")
    BY <1>1, <1>4
  <2> QED  BY <1>1, <1>3, <2>1, WokenParts DEF Moving, Rooms, Full
<1>6. Requested'
  BY <1>1, <1>4 DEF Moving, Requested
<1>7. ~aborted => Orderly'
  <2>1. ~aborted /\ outClosed => HasEnd(outq'.items)
    <3>1. ~aborted /\ outClosed => HasEnd(outq.items)
      BY DEF Moving, Orderly
    <3>2. outq.items \in Seq(0..MaxPackets)
      BY <1>1 DEF Queue
    <3> QED  BY <1>1, <1>3, <3>1, <3>2, EndKept
  <2> QED  BY <1>1, <1>4, <2>1 DEF Moving, Orderly
<1> QED  BY <1>1, <1>5, <1>6, <1>7 DEF Moving

LEMMA WritePacketMoves ==
    ASSUME IInv, Moving, WritePacket
    PROVE  Moving'
<1>1. /\ ~aborted /\ outq.items # <<>> /\ Head(outq.items) # EOF
      /\ outq \in Queue /\ outq.items \in Seq(0..MaxPackets)
      /\ UNCHANGED <<sent, cache, inq, aborted, inClosed, outClosed, pc, mode>>
  BY DEF WritePacket, IInv, Control, Queue
<1>2. /\ outq'.items = Tail(outq.items)
      /\ outq'.waiting = outq.waiting \/ outq'.waiting = Nobody
      /\ outq'.waiting # Nobody => Len(outq.items) # Capacity
  BY <1>1 DEF WritePacket, Popped, Woken, Queue
<1>3. Rooms'
  <2>1. outq'.waiting # Nobody => Full(outq)'
    <3>1. Len(outq.items) \in Nat /\ Len(Tail(outq.items)) = Len(outq.items) - 1
      BY <1>1, FirstAndRest, LenProperties
    <3>2. Capacity \in Nat
      BY CapacityAssumption
    <3>3. outq'.waiting # Nobody => Len(outq.items) >= Capacity
      BY <1>2 DEF Moving, Rooms, Full
    <3> DEFINE n == Len(outq.items)
    <3> HIDE DEF n
    <3>4. n \in Nat /\ (n >= Capacity /\ n # Capacity => n - 1 >= Capacity)
      BY <3>1, <3>2 DEF n
    <3>5. outq'.waiting # Nobody => Len(outq'.items) >= Capacity
      BY <1>2, <3>1, <3>3, <3>4 DEF n
    <3> QED  BY <3>5 DEF Full
  <2> QED  BY <1>1, <2>1 DEF Moving, Rooms, Full
<1>4. Requested'
  BY <1>1 DEF Moving, Requested
<1>5. Orderly'
  <2>1. outClosed => HasEnd(outq'.items)
    BY <1>1, <1>2, EndKept DEF Moving, Orderly
  <2> QED  BY <1>1, <2>1 DEF Moving, Orderly
<1> QED  BY <1>3, <1>4, <1>5 DEF Moving

\* A push into _media_input: who pushes goes on at one of three places; another part
\* only moves when it waited for room, and its wait fails.
LEMMA Pushed ==
    ASSUME IInv, Moving, NEW p \in Parts, pc[p] \notin InputWaits,
           NEW v, NEW then, NEW wait, NEW failed, PushInput(p, v, then, wait, failed)
    PROVE  /\ pc'[p] = IF aborted THEN failed ELSE IF Full(inq) THEN wait ELSE then
           /\ \A q \in Parts \ {p} :
                 \/ pc'[q] = pc[q]
                 \/ ~aborted /\ Full(inq) /\ pc[q] \in InputWaits /\ pc'[q] = OnFailure(pc[q])
           /\ inq'.waiting # Nobody => ~aborted /\ Full(inq)'
           /\ \A q \in inq'.woken : q # p /\ pc'[q] = "queueing"
<1>1. /\ inq \in Queue /\ inq.woken \in SUBSET Parts /\ inq.waiting \in Parts \union {Nobody}
      /\ \A q \in inq.woken : q # inq.waiting /\ pc[q] = "queueing" /\ q # p
      /\ inq.waiting # p
      /\ inq.waiting # Nobody => ~aborted /\ Full(inq)
      /\ inq.waiting # Nobody => pc[inq.waiting] \in InputWaits
  BY DEF IInv, Control, Queue, Known, Moving, Rooms, InputWaits
<1>2. CASE aborted
  <2>1. pc' = [pc EXCEPT ![p] = failed] /\ inq' = inq
    BY <1>2 DEF PushInput
  <2>2. pc'[p] = failed /\ \A q \in Parts \ {p} : pc'[q] = pc[q]
    BY <2>1, OnePart
  <2> QED  BY <1>1, <1>2, <2>1, <2>2
<1>3. CASE ~aborted /\ ~Full(inq)
  <2>1. pc' = [pc EXCEPT ![p] = then] /\ inq' = Queued(inq, v)
    BY <1>3 DEF PushInput
  <2>2. pc'[p] = then /\ \A q \in Parts \ {p} : pc'[q] = pc[q]
    BY <2>1, OnePart
  <2>3. inq'.waiting = Nobody /\ inq'.woken = inq.woken
    BY <1>1, <1>3, <2>1 DEF Queued, Queue
  <2> QED  BY <1>1, <1>3, <2>2, <2>3
<1>4. CASE ~aborted /\ Full(inq)
  <2> DEFINE W == {inq.waiting} \ {Nobody}
  <2>1. inq' = [inq EXCEPT !.waiting = p] /\ pc' = [FailAll(W, pc) EXCEPT ![p] = wait]
    BY <1>4 DEF PushInput, Displaced
  <2>2. inq'.waiting = p /\ inq'.woken = inq.woken /\ Full(inq)'
    BY <1>1, <1>4, <2>1 DEF Full, Queue
  <2>3. pc'[p] = wait /\ \A q \in Parts \ {p} : pc'[q] = IF q \in W THEN OnFailure(pc[q]) ELSE pc[q]
    BY <2>1 DEF FailAll
  <2>4. \A q \in Parts \ {p} : pc'[q] = pc[q] \/ (pc[q] \in InputWaits /\ pc'[q] = OnFailure(pc[q]))
    BY <1>1, <2>3
  <2>5. \A q \in inq.woken : pc'[q] = pc[q]
    BY <1>1, <2>3
  <2> QED  BY <1>1, <1>4, <2>2, <2>3, <2>4, <2>5
<1> QED  BY <1>2, <1>3, <1>4

\* Where a part that waited at the input goes on when its wait fails.
LEMMA WaitFails ==
    ASSUME NEW w \in InputWaits
    PROVE  /\ OnFailure(w) \in {"closing", "ended"}
           /\ OnFailure(w) = "ended" => w = "closingIn"
BY DEF InputWaits, OnFailure

LEMMA QueuePacketMoves ==
    ASSUME IInv, Moving, QueuePacket
    PROVE  Moving'
<1>1. /\ pc["input"] = "looping" /\ cache # <<>>
      /\ PushInput("input", Head(cache), "looping", "queueing", "closing")
      /\ UNCHANGED <<sent, outq, aborted, inClosed, outClosed, mode>>
      /\ mode = "publish"
      /\ "input" \in Parts /\ pc["input"] \notin InputWaits
      /\ "output" \in Parts \ {"input"} /\ "responder" \in Parts \ {"input"}
  BY DEF QueuePacket, Moving, Requested, InputWaits, Parts
<1>2. /\ pc'["input"] \in {"looping", "queueing", "closing"}
      /\ ~aborted => pc'["input"] \in {"looping", "queueing"}
      /\ \A q \in Parts \ {"input"} :
            \/ pc'[q] = pc[q]
            \/ ~aborted /\ pc[q] \in InputWaits /\ pc'[q] = OnFailure(pc[q])
      /\ inq'.waiting # Nobody => ~aborted /\ Full(inq)'
      /\ \A q \in inq'.woken : pc'[q] = "queueing"
  BY <1>1, Pushed
<1>3. \A q \in Parts \ {"input"} :
         /\ pc'[q] \in {pc[q], "closing", "ended"}
         /\ pc[q] \notin InputWaits => pc'[q] = pc[q]
         /\ pc'[q] = "ended" => pc[q] = "ended" \/ (pc[q] = "closingIn" /\ ~aborted)
         /\ pc'[q] = "closing" => pc[q] = "closing" \/ pc[q] \in InputWaits
  BY <1>2, WaitFails
<1>4. pc["output"] \notin {"queueing", "releasing"} /\ pc["responder"] # "queueing"
  BY DEF IInv, Control, InPlace, OutputPlaces, ResponderPlaces
<1>5. Rooms'
  <2>1. \A q \in Parts : pc'[q] \in {"releasing", "closingIn"} => inClosed
    BY <1>1, <1>2, <1>3 DEF Moving, Rooms
  <2> QED  BY <1>1, <1>2, <2>1 DEF Moving, Rooms, Full
<1>6. Requested'
  BY <1>1, <1>3 DEF Moving, Requested
<1>7. ~aborted => Orderly'
  <2> SUFFICES ASSUME ~aborted  PROVE Orderly'
    OBVIOUS
  <2>1. Orderly /\ pc["output"] \notin InputWaits /\ pc["responder"] # "closingIn"
    BY DEF Moving, Orderly, InputWaits
  <2>2. pc'["output"] = "looping" /\ pc'["responder"] # "closingIn"
    BY <1>1, <1>3, <2>1 DEF Orderly
  <2>3. pc'["responder"] = "ended" => pc["responder"] = "ended"
    BY <1>1, <1>3, <2>1
  <2>4. pc'["responder"] \in {"handshake", "routing", "closing"} /\ ~inClosed
           => pc["responder"] \in {"handshake", "routing", "closing"}
    BY <1>1, <1>3, <1>4, <2>1 DEF InputWaits, Moving, Rooms
  <2> QED  BY <1>1, <1>2, <2>1, <2>2, <2>3, <2>4 DEF Orderly
<1> QED  BY <1>1, <1>5, <1>6, <1>7 DEF Moving

LEMMA QueueOwedMoves ==
    ASSUME IInv, Moving, QueueOwed
    PROVE  Moving'
<1>1. /\ pc["input"] = "queueing" /\ "input" \in inq.woken
      /\ UNCHANGED <<sent, cache, outq, aborted, inClosed, outClosed, mode>>
      /\ inq \in Queue /\ inq.items \in Seq(0..MaxPackets) /\ owed["input"] \in 0..MaxPackets
  BY DEF QueueOwed, IInv, Control, Parts, Queue
<1>2. /\ inq'.waiting = inq.waiting /\ inq'.woken = inq.woken \ {"input"}
      /\ inq'.items = Append(inq.items, owed["input"])
  BY <1>1 DEF QueueOwed, Queued, Queue
<1>3. /\ pc'["input"] = "looping" /\ \A q \in Parts \ {"input"} : pc'[q] = pc[q]
      /\ "responder" \in Parts \ {"input"} /\ "output" \in Parts \ {"input"}
  BY OnePart DEF QueueOwed, Parts
<1>4. Full(inq) => Full(inq)'
  <2>1. Len(inq.items) \in Nat /\ Len(inq'.items) = Len(inq.items) + 1 /\ Capacity \in Nat
    BY <1>1, <1>2, AppendProperties, LenProperties, CapacityAssumption
  <2> QED  BY <2>1 DEF Full
<1>5. Rooms'
  <2>1. \A q \in inq'.woken : pc'[q] = "queueing"
    BY <1>2, <1>3, WokenParts DEF Moving, Rooms
  <2> QED  BY <1>1, <1>2, <1>3, <1>4, <2>1 DEF Moving, Rooms, Full
<1>6. Requested'
  BY <1>1, <1>3 DEF Moving, Requested
<1>7. ~aborted => Orderly'
  BY <1>1, <1>3 DEF Moving, Orderly
<1> QED  BY <1>1, <1>5, <1>6, <1>7 DEF Moving

\* Room is only made while the input is open: then only the input loop waits for it.
LEMMA ReadPacketMoves ==
    ASSUME IInv, Moving, ReadPacket
    PROVE  Moving'
<1>1. /\ pc["responder"] = "session" /\ mode = "publish" /\ ~aborted /\ ~inClosed
      /\ inq.items # <<>> /\ inq' = Popped(inq)
      /\ inq \in Queue /\ inq.items \in Seq(0..MaxPackets)
      /\ UNCHANGED <<sent, cache, outq, aborted, inClosed, outClosed, pc, mode>>
  BY DEF ReadPacket, IInv, Control, Queue
<1>2. /\ inq'.items = Tail(inq.items)
      /\ inq'.waiting = inq.waiting \/ inq'.waiting = Nobody
      /\ inq'.waiting # Nobody => Len(inq.items) # Capacity
      /\ inq'.woken \subseteq inq.woken \union ({inq.waiting} \ {Nobody})
  BY <1>1 DEF Popped, Woken, Queue
<1>3. inq'.waiting # Nobody => Full(inq)'
  <2>1. Len(inq.items) \in Nat /\ Len(Tail(inq.items)) = Len(inq.items) - 1
    BY <1>1, FirstAndRest, LenProperties
  <2>2. Capacity \in Nat
    BY CapacityAssumption
  <2>3. inq'.waiting # Nobody => Len(inq.items) >= Capacity
    BY <1>2 DEF Moving, Rooms, Full
  <2> DEFINE n == Len(inq.items)
  <2> HIDE DEF n
  <2>4. n \in Nat /\ (n >= Capacity /\ n # Capacity => n - 1 >= Capacity)
    BY <2>1, <2>2 DEF n
  <2>5. inq'.waiting # Nobody => Len(inq'.items) >= Capacity
    BY <1>2, <2>1, <2>3, <2>4 DEF n
  <2> QED  BY <2>5 DEF Full
<1>4. \A q \in inq'.woken : pc[q] = "queueing"
  <2>1. inq.waiting # Nobody => pc[inq.waiting] \in InputWaits /\ inq.waiting \in Parts
    BY WokenParts DEF IInv, Control, Known
  <2>2. \A q \in Parts : pc[q] \in InputWaits => pc[q] = "queueing"
    BY <1>1 DEF Moving, Rooms, InputWaits
  <2> QED  BY <1>2, <2>1, <2>2 DEF Moving, Rooms
<1>5. Rooms'
  BY <1>1, <1>3, <1>4 DEF Moving, Rooms, Full
<1>6. Requested'
  BY <1>1 DEF Moving, Requested
<1>7. Orderly'
  BY <1>1 DEF Moving, Orderly
<1> QED  BY <1>5, <1>6, <1>7 DEF Moving

\* Who has closed the input needs no more room in it, unless another part waited.
LEMMA ReleaseInputMoves ==
    ASSUME IInv, Moving, ReleaseInput
    PROVE  Moving'
<1>1. /\ pc["responder"] = "release" /\ mode = "publish" /\ inClosed' = TRUE
      /\ UNCHANGED <<sent, cache, outq, aborted, outClosed, mode>>
      /\ "responder" \in Parts /\ pc["responder"] \notin InputWaits
      /\ "output" \in Parts \ {"responder"} /\ "input" \in Parts \ {"responder"}
  BY DEF ReleaseInput, Parts, InputWaits
<1>2. CASE inClosed
  <2>1. pc' = [pc EXCEPT !["responder"] = "closing"] /\ inq' = inq
    BY <1>2 DEF ReleaseInput
  <2>2. pc'["responder"] = "closing" /\ \A q \in Parts \ {"responder"} : pc'[q] = pc[q]
    BY <1>1, <2>1, OnePart
  <2>3. Rooms'
    BY <1>1, <2>1, <2>2, WokenParts DEF Moving, Rooms, Full
  <2>4. Requested'
    BY <1>1, <2>2 DEF Moving, Requested
  <2>5. ~aborted => Orderly'
    BY <1>1, <1>2, <2>2 DEF Moving, Orderly
  <2> QED  BY <1>1, <2>3, <2>4, <2>5 DEF Moving
<1>3. CASE ~inClosed
  <2>1. PushInput("responder", EOF, "closing", "releasing", "closing")
    BY <1>3 DEF ReleaseInput
  <2>2. /\ pc'["responder"] \in {"closing", "releasing"}
        /\ \A q \in Parts \ {"responder"} :
              \/ pc'[q] = pc[q]
              \/ ~aborted /\ pc[q] \in InputWaits /\ pc'[q] = OnFailure(pc[q])
        /\ inq'.waiting # Nobody => ~aborted /\ Full(inq)'
        /\ \A q \in inq'.woken : pc'[q] = "queueing"
    BY <1>1, <2>1, Pushed
  <2>3. \A q \in Parts : pc[q] \in InputWaits => pc[q] = "queueing"
    BY <1>3 DEF Moving, Rooms, InputWaits
  <2>4. \A q \in Parts \ {"responder"} :
           pc'[q] = pc[q] \/ (pc[q] = "queueing" /\ pc'[q] = "closing")
    BY <2>2, <2>3 DEF OnFailure
  <2>5. Rooms'
    BY <1>1, <2>2 DEF Moving, Rooms, Full
  <2>6. Requested'
    BY <1>1, <2>2, <2>4 DEF Moving, Requested
  <2>7. ~aborted => Orderly'
    BY <1>1, <2>2, <2>4 DEF Moving, Orderly
  <2> QED  BY <1>1, <2>5, <2>6, <2>7 DEF Moving
<1> QED  BY <1>2, <1>3

\* Until an abort only the responder is the first to close the input, and it does so
\* where no session has: the client has not filled the queue.
LEMMA CloseInputMoves ==
    ASSUME IInv, Moving, Early < Capacity, NEW p \in Parts, CloseInput(p)
    PROVE  Moving'
<1>1. /\ pc[p] = "closing" /\ inClosed' = TRUE
      /\ UNCHANGED <<sent, cache, outq, aborted, outClosed, mode>>
      /\ pc[p] \notin InputWaits
      /\ "responder" \in Parts /\ "output" \in Parts /\ "input" \in Parts
  BY DEF CloseInput, Parts, InputWaits
<1>2. CASE inClosed
  <2>1. pc' = [pc EXCEPT ![p] = "closingOut"] /\ inq' = inq
    BY <1>2 DEF CloseInput
  <2>2. pc'[p] = "closingOut" /\ \A q \in Parts \ {p} : pc'[q] = pc[q]
    BY <2>1, OnePart
  <2>3. \A q \in Parts : pc'[q] = pc[q] \/ (pc[q] = "closing" /\ pc'[q] = "closingOut")
    BY <1>1, <2>2
  <2>4. Rooms'
    BY <1>1, <2>1, <2>3, WokenParts DEF Moving, Rooms, Full
  <2>5. Requested'
    BY <1>1, <1>2, <2>3 DEF Moving, Requested
  <2>6. ~aborted => Orderly'
    BY <1>1, <1>2, <2>3 DEF Moving, Orderly
  <2> QED  BY <1>1, <2>4, <2>5, <2>6 DEF Moving
<1>3. CASE ~inClosed
  <2>1. PushInput(p, EOF, "closingOut", "closingIn", "ended")
    BY <1>3 DEF CloseInput
  <2>2. /\ pc'[p] = IF aborted THEN "ended" ELSE IF Full(inq) THEN "closingIn" ELSE "closingOut"
        /\ \A q \in Parts \ {p} :
              \/ pc'[q] = pc[q]
              \/ ~aborted /\ Full(inq) /\ pc[q] \in InputWaits /\ pc'[q] = OnFailure(pc[q])
        /\ inq'.waiting # Nobody => ~aborted /\ Full(inq)'
        /\ \A q \in inq'.woken : pc'[q] = "queueing"
    BY <1>1, <2>1, Pushed
  <2>3. ~aborted => p = "responder" /\ ~Full(inq)
    <3> SUFFICES ASSUME ~aborted  PROVE p = "responder" /\ ~Full(inq)
      OBVIOUS
    <3>1. Orderly
      BY DEF Moving
    <3>2. p = "responder"
      BY <1>1, <1>3, <3>1 DEF Orderly, Parts
    <3>3. sent <= Early
      BY <1>1, <1>3, <3>1, <3>2 DEF Orderly
    <3> QED  BY <1>3, <3>2, <3>3, RoomForEnd
  <2>4. /\ \A q \in Parts \ {p} : pc'[q] = pc[q]
        /\ pc'[p] = IF aborted THEN "ended" ELSE "closingOut"
    BY <2>2, <2>3
  <2>5. Rooms'
    BY <1>1, <2>2, <2>4 DEF Moving, Rooms, Full
  <2>6. Requested'
    <3>1. aborted => pc["responder"] # "handshake"
      BY DEF Moving, Requested
    <3>2. pc'["responder"] # "handshake"
      BY <1>1, <2>3, <2>4, <3>1
    <3>3. \A q \in Parts : pc'[q] \in {pc[q], "ended", "closingOut"}
      BY <2>4
    <3> QED  BY <1>1, <3>2, <3>3 DEF Moving, Requested
  <2>7. ~aborted => Orderly'
    BY <1>1, <2>3, <2>4 DEF Moving, Orderly
  <2> QED  BY <1>1, <2>5, <2>6, <2>7 DEF Moving
<1> QED  BY <1>2, <1>3

\* After out.close() nobody waits for room in the output, whose end is queued.
LEMMA SinkClosed ==
    ASSUME IInv, Moving, CloseSink
    PROVE  /\ outClosed' = TRUE
           /\ outq'.waiting = Nobody \/ (outq'.waiting = outq.waiting /\ outq'.items = outq.items)
           /\ ~aborted => HasEnd(outq'.items)
<1>1. outq \in Queue
  BY DEF IInv, Control
<1>2. CASE (outClosed \/ aborted) /\ UNCHANGED outq
  BY <1>2 DEF CloseSink, Moving, Orderly
<1>3. CASE outq' = [Woken(outq) EXCEPT !.items = <<EOF>>]
  <2>1. outq'.items = <<EOF>> /\ outq'.waiting = Nobody
    BY <1>1, <1>3 DEF Woken, Queue
  <2>2. HasEnd(<<EOF>>)
    BY DEF HasEnd
  <2> QED  BY <2>1, <2>2 DEF CloseSink
<1> QED  BY <1>2, <1>3 DEF CloseSink

LEMMA ReleaseOutputMoves ==
    ASSUME IInv, Moving, ReleaseOutput
    PROVE  Moving'
<1>1. /\ pc["responder"] = "release" /\ mode = "play" /\ CloseSink
      /\ UNCHANGED <<sent, cache, inq, aborted, inClosed, mode>>
      /\ "output" \in Parts \ {"responder"} /\ "input" \in Parts \ {"responder"}
  BY DEF ReleaseOutput, Parts
<1>2. pc'["responder"] = "closing" /\ \A q \in Parts \ {"responder"} : pc'[q] = pc[q]
  BY OnePart DEF ReleaseOutput, Parts
<1>3. Rooms'
  <2>1. \A q \in Parts : pc'[q] = pc[q] \/ (pc[q] = "release" /\ pc'[q] = "closing")
    BY <1>1, <1>2
  <2> QED  BY <1>1, <2>1, SinkClosed, WokenParts DEF Moving, Rooms, Full
<1>4. Requested'
  BY <1>1, <1>2 DEF Moving, Requested
<1>5. ~aborted => Orderly'
  <2>1. sent = 0 /\ 0 <= Early
    BY <1>1, CapacityAssumption DEF Moving, Requested
  <2> QED  BY <1>1, <1>2, <2>1, SinkClosed DEF Moving, Orderly
<1> QED  BY <1>1, <1>3, <1>4, <1>5 DEF Moving

LEMMA CloseOutputMoves ==
    ASSUME IInv, Moving, NEW p \in Parts, CloseOutput(p)
    PROVE  Moving'
<1>1. /\ pc[p] = "closingOut" /\ CloseSink
      /\ UNCHANGED <<sent, cache, inq, aborted, inClosed, mode>>
      /\ "responder" \in Parts /\ "output" \in Parts /\ "input" \in Parts
  BY DEF CloseOutput, Parts
<1>2. pc'[p] = "ended" /\ \A q \in Parts \ {p} : pc'[q] = pc[q]
  BY OnePart DEF CloseOutput
<1>3. \A q \in Parts : pc'[q] = pc[q] \/ (pc[q] = "closingOut" /\ pc'[q] = "ended")
  BY <1>1, <1>2
<1>4. Rooms'
  BY <1>1, <1>3, SinkClosed, WokenParts DEF Moving, Rooms, Full
<1>5. Requested'
  <2>1. pc["responder"] # "handshake"
    <3>1. SUFFICES ASSUME pc["responder"] = "handshake"  PROVE FALSE
      OBVIOUS
    <3>2. Orderly /\ ~inClosed
      BY <3>1 DEF Moving, Requested
    <3> QED  BY <1>1, <3>1, <3>2 DEF Orderly, Parts
  <2> QED  BY <1>1, <1>3, <2>1 DEF Moving, Requested
<1>6. ~aborted => Orderly'
  BY <1>1, <1>3, SinkClosed DEF Moving, Orderly
<1> QED  BY <1>1, <1>4, <1>5, <1>6 DEF Moving

LEMMA StepMoving ==
    ASSUME Early < Capacity, ~EarlyReset, IInv, Moving, [Next]_vars
    PROVE  Moving'
<1>1. CASE Leave \/ Complete \/ UNCHANGED vars \/ Destroyed
  BY <1>1, QuietMoves DEF Destroyed
<1>2. CASE ReadFails \/ AnswerFails \/ OutputEnds
  BY <1>2, AbortMoves
<1>3. CASE PutPacket \/ PutOwed \/ WritePacket \/ QueuePacket \/ QueueOwed \/ ReadPacket
  BY <1>3, PutPacketMoves, PutOwedMoves, WritePacketMoves, QueuePacketMoves, QueueOwedMoves,
     ReadPacketMoves
<1>4. CASE StopSession \/ Route \/ OutputFails
  BY <1>4, StopSessionMoves, RouteMoves, OutputFailsMoves
<1>5. CASE \E m \in {"publish", "play"} : Request(m)
  BY <1>5, RequestMoves
<1>6. CASE \E n \in 1..2 : ReadPackets(n)
  BY <1>6, ReadPacketsMoves
<1>7. CASE ReleaseInput \/ ReleaseOutput
  BY <1>7, ReleaseInputMoves, ReleaseOutputMoves
<1>8. CASE \E p \in Parts : Close(p)
  BY <1>8, CloseInputMoves, CloseOutputMoves DEF Close
<1>9. "input" \in Parts /\ "output" \in Parts /\ "responder" \in Parts
  BY DEF Parts
<1> QED  BY <1>1, <1>2, <1>3, <1>4, <1>5, <1>6, <1>7, <1>8, <1>9
         DEF Next, InputLoop, OutputLoop, Responder

\* However the parts, the session and the client interleave, no state of a connection
\* is one in which each part waits for another: process() is through, the input loop
\* reads the socket, or some part can go on.  A client that fills _media_input before
\* its request is refused, and an answer that cannot be written before the request
\* is read, do lead to such a state (rtmp.cc:346, and on_handshake that is not told).
THEOREM ConnectionNeverStuck ==
    ASSUME Early < Capacity, ~EarlyReset
    PROVE  Spec => []NeverStuck
<1>1. Init => IInv /\ Moving
  BY InitIInv, InitMoving
<1>2. (IInv /\ Moving) /\ [Next]_vars => (IInv /\ Moving)'
  BY StepIInv, StepMoving
<1>3. IInv /\ Moving => NeverStuck
  BY MovingIsEnough
<1> QED  BY <1>1, <1>2, <1>3, PTL DEF Spec

\* Nor is one reached under the server, whenever that is stopped (server::stop).
THEOREM ServerNeverStuck ==
    ASSUME Early < Capacity, ~EarlyReset
    PROVE  ServerSpec => []NeverStuck
<1>1. ServerInit => IInv /\ Moving
  BY InitIInv, InitMoving DEF ServerInit
<1>2. (IInv /\ Moving) /\ [ServerNext]_serverVars => (IInv /\ Moving)'
  BY ServerStep, StepIInv, StepMoving DEF IInv, Data
<1>3. IInv /\ Moving => NeverStuck
  BY MovingIsEnough
<1> QED  BY <1>1, <1>2, <1>3, PTL DEF ServerSpec

-----------------------------------------------------------------------------
(* Who holds the gate, and so what stop() waits for.                       *)

GateHeld ==
    /\ acceptor \in {"looping", "accepting", "accepted", "ended"}
    /\ link \in {"none", "serving", "destroyed"}
    /\ holders = {h \in {"do_accepts", "do_accept_one", "process"} :
                     \/ h = "do_accepts" /\ acceptor # "ended"
                     \/ h = "do_accept_one" /\ acceptor \in {"accepting", "accepted"}
                     \/ h = "process" /\ link = "serving"}
    /\ acceptor = "accepted" => link = "none"
    /\ gateClosed => acceptor # "accepting"
    /\ gateClosed /\ link = "serving" => client = "gone"

\* Once stop() has been called it has resolved, or the accept loop can go on, or it
\* waits for a connection whose client is gone and which can go on.
StopGoesOn ==
    gateClosed =>
        \/ StopResolved
        \/ acceptor \in {"accepted", "looping"}
        \/ link = "serving" /\ client = "gone" /\ NeverStuck

\* A client that has left, or whose socket was shut down, does not come back.
LEMMA ClientStaysGone ==
    ASSUME client = "gone", [Next]_vars
    PROVE  client' = "gone"
<1>1. CASE UNCHANGED vars \/ Destroyed
  BY <1>1 DEF vars, Destroyed
<1>2. CASE Leave \/ Complete \/ ReadFails \/ AnswerFails \/ PutPacket \/ StopSession
  BY <1>2 DEF Leave, Complete, ReadFails, AnswerFails, PutPacket, StopSession
<1>3. CASE (\E m \in {"publish", "play"} : Request(m)) \/ \E n \in 1..2 : ReadPackets(n)
  BY <1>3 DEF Request, ReadPackets
<1>4. CASE \E p \in Parts : Close(p)
  BY <1>4 DEF Close, CloseInput, CloseOutput
<1>5. CASE QueuePacket \/ QueueOwed \/ OutputFails \/ WritePacket \/ OutputEnds
  BY <1>5 DEF QueuePacket, QueueOwed, OutputFails, WritePacket, OutputEnds
<1>6. CASE Route \/ ReadPacket \/ PutOwed \/ ReleaseInput \/ ReleaseOutput
  BY <1>6 DEF Route, ReadPacket, PutOwed, ReleaseInput, ReleaseOutput
<1> QED  BY <1>1, <1>2, <1>3, <1>4, <1>5, <1>6 DEF Next, InputLoop, OutputLoop, Responder, Parts

\* What a step of the server or of its connection does to who holds the gate.
LEMMA GateStep ==
    ASSUME IInv, GateHeld, [ServerNext]_serverVars
    PROVE  GateHeld'
<1>1. client = "gone" => client' = "gone"
  BY ServerStep, ClientStaysGone DEF IInv, Data
<1>2. CASE UNCHANGED serverState
  BY <1>1, <1>2 DEF GateHeld, serverState
<1>3. CASE Arrive
  BY <1>3 DEF Arrive, GateHeld, vars
<1>4. CASE AcceptOne
  BY <1>4 DEF AcceptOne, GateHeld, vars
<1>5. CASE AcceptFails
  BY <1>5 DEF AcceptFails, GateHeld, vars
<1>6. CASE AcceptNext
  BY <1>6 DEF AcceptNext, GateHeld, vars
<1>7. CASE Stop
  BY <1>7 DEF Stop, GateHeld
<1>8. CASE LeaveGate
  BY <1>8 DEF LeaveGate, GateHeld, vars
<1> QED  BY <1>2, <1>3, <1>4, <1>5, <1>6, <1>7, <1>8
         DEF ServerNext, AcceptLoop, Serving, Finished, serverVars

\* stop() never waits for what cannot go on: an accept that nobody aborts, or a
\* connection whose client is there still, or whose parts wait for each other.
THEOREM StopNeverStuck ==
    ASSUME Early < Capacity, ~EarlyReset
    PROVE  ServerSpec => []StopGoesOn
<1>1. ServerInit => GateHeld
  BY DEF ServerInit, GateHeld
<1>2. IInv /\ GateHeld /\ [ServerNext]_serverVars => GateHeld'
  BY GateStep
<1>3. GateHeld /\ NeverStuck => StopGoesOn
  BY DEF GateHeld, StopGoesOn, StopResolved
<1> QED  BY <1>1, <1>2, <1>3, ServerInvariance, ServerNeverStuck, PTL DEF ServerSpec
=============================================================================
