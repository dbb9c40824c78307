----------------------------- MODULE RtmpConnection -----------------------------
(***************************************************************************)
(* One connection of the RTMP server (rtmp/rtmp.cc), from accept to the    *)
(* end of process(): the input loop reads the socket and queues the        *)
(* client's packets, the output loop writes what the session queues, the   *)
(* responder (read_one) waits for the request and runs the session, a      *)
(* publisher or a player.  Each of the three closes the streams when it is *)
(* through, and each may wait for the others at a full queue.              *)
(*                                                                         *)
(* Parsing and the answers librtmp gives are left out, and with them _done, *)
(* which only keeps the loops from writing.  So is the read that a timeout *)
(* abandons: what it takes from the queue is room nobody else needs.       *)
(***************************************************************************)
EXTENDS Naturals, Sequences, SequencesExt

CONSTANTS
    Capacity,    \* places of _media_input and of _media_output (10)
    MaxPackets,  \* bound: packets the client sends, and the player writes
    Early,       \* packets a client sends before its request is answered
    EarlyReset,  \* may an answer fail to be written before the request is read
    Nobody       \* model value: no part waits for room

ASSUME CapacityAssumption ==
    Capacity \in Nat \ {0} /\ MaxPackets \in Nat /\ Early \in 0..MaxPackets
    /\ EarlyReset \in BOOLEAN

VARIABLES
    client,     \* is the peer "there" or "gone"
    sent,       \* packets the client has sent
    cache,      \* _media_input_cache
    inq, outq,  \* _media_input and _media_output
    aborted,    \* abort was called
    inClosed,   \* media_data_source_impl::_closed
    outClosed,  \* media_data_sink_impl::_closed
    pc,         \* where each part is
    owed,       \* the packet a part that waits for room will queue
    mode,       \* the request: "none", "publish" or "play"
    started,    \* _started
    stopped,    \* _stopped
    complete,   \* is_complete of the session
    read,       \* history: the packets the publisher got
    written     \* history: packets the player wrote

vars == <<client, sent, cache, inq, outq, aborted, inClosed, outClosed, pc, owed, mode,
          started, stopped, complete, read, written>>

Parts == {"input", "output", "responder"}

ASSUME NobodyAssumption == Nobody \notin Parts

\* An empty packet ends a stream.
EOF == 0

Queue == [items : Seq(0..MaxPackets), waiting : Parts \union {Nobody}, woken : SUBSET Parts]
EmptyQueue == [items |-> <<>>, waiting |-> Nobody, woken |-> {}]

Init ==
    /\ client = "there" /\ sent = 0 /\ cache = <<>>
    /\ inq = EmptyQueue /\ outq = EmptyQueue
    /\ aborted = FALSE /\ inClosed = FALSE /\ outClosed = FALSE
    /\ pc = [p \in Parts |-> IF p = "responder" THEN "handshake" ELSE "looping"]
    /\ owed = [p \in Parts |-> EOF]
    /\ mode = "none" /\ started = FALSE /\ stopped = FALSE /\ complete = FALSE
    /\ read = <<>> /\ written = 0

-----------------------------------------------------------------------------
(* seastar::queue, which is for one producer and one consumer: it keeps    *)
(* one promise of room, and a second producer that waits breaks the first  *)
(* one's promise.                                                          *)

Full(q) == Len(q.items) >= Capacity

Queued(q, v) == [q EXCEPT !.items = Append(@, v)]

\* The one that waits for room may go on.
Woken(q) ==
    IF q.waiting = Nobody THEN q
    ELSE [q EXCEPT !.waiting = Nobody, !.woken = @ \union {q.waiting}]

\* pop: only a queue that was exactly full has somebody to wake.
Popped(q) ==
    LET w == IF Len(q.items) = Capacity THEN Woken(q) ELSE q
    IN  [w EXCEPT !.items = Tail(@)]

\* Mutant: the input loop takes no notice.
OnFailureIgnored(where) ==
    CASE where = "queueing"  -> "queueing"
      [] where = "releasing" -> "closing"
      [] where = "putting"   -> "release"
      [] where = "closingIn" -> "ended"

\* Where a part goes on when its wait for room fails: the input loop gives up, a
\* session ends, a part that closes the streams skips what is left of it.
OnFailure(where) ==
    CASE where = "queueing"  -> "closing"
      [] where = "releasing" -> "closing"
      [] where = "putting"   -> "release"
      [] where = "closingIn" -> "ended"

FailAll(parts, at) == [p \in Parts |-> IF p \in parts THEN OnFailure(at[p]) ELSE at[p]]

\* Who waited for room before loses its promise.
Displaced(q, at) == FailAll({q.waiting} \ {Nobody}, at)

\* Mutant: a full queue drops the packet.
PushInputDropping(p, v, then, wait, failed) ==
    \/ /\ aborted
       /\ pc' = [pc EXCEPT ![p] = failed]
       /\ UNCHANGED <<inq, owed>>
    \/ /\ ~aborted
       /\ inq' = (IF Full(inq) THEN inq ELSE Queued(inq, v))
       /\ pc' = [pc EXCEPT ![p] = then]
       /\ UNCHANGED owed

\* push_eventually of v into _media_input by part p, which goes on at then, waits
\* at wait, or goes on at failed.
PushInput(p, v, then, wait, failed) ==
    \/ /\ aborted
       /\ pc' = [pc EXCEPT ![p] = failed]
       /\ UNCHANGED <<inq, owed>>
    \/ /\ ~aborted /\ ~Full(inq)
       /\ inq' = Queued(inq, v) /\ pc' = [pc EXCEPT ![p] = then]
       /\ UNCHANGED owed
    \/ /\ ~aborted /\ Full(inq)
       /\ inq' = [inq EXCEPT !.waiting = p]
       /\ owed' = [owed EXCEPT ![p] = v]
       /\ pc' = [Displaced(inq, pc) EXCEPT ![p] = wait]

\* queue::abort drops what is queued; who waits for room fails.
Aborted(q) == [q EXCEPT !.items = <<>>, !.waiting = Nobody]

\* Mutant: the input is forgotten.
AbortOutputOnly(at) ==
    /\ aborted' = TRUE
    /\ outq' = Aborted(outq) /\ UNCHANGED inq
    /\ pc' = FailAll({outq.waiting} \ {Nobody}, at)

\* connection::abort, while the parts are at at.
Abort(at) ==
    /\ aborted' = TRUE
    /\ inq' = Aborted(inq) /\ outq' = Aborted(outq)
    /\ pc' = FailAll({inq.waiting, outq.waiting} \ {Nobody}, at)

-----------------------------------------------------------------------------
(* The client.                                                             *)

\* It leaves, whatever is still to be read.
Leave ==
    /\ client = "there" /\ client' = "gone"
    /\ UNCHANGED <<sent, cache, inq, outq, aborted, inClosed, outClosed, pc, owed, mode,
                   started, stopped, complete, read, written>>

MayRead == pc["input"] = "looping" /\ cache = <<>>

\* input_loop reads the play or publish command; on_handshake lets the responder go
\* on.  A second command finds no promise.
Request(m) ==
    /\ MayRead /\ client = "there" /\ mode = "none"
    /\ mode' = m
    /\ pc' = [pc EXCEPT !["responder"] = IF @ = "handshake" THEN "routing" ELSE @]
    /\ started' = (started \/ pc["responder"] = "handshake")
    /\ UNCHANGED <<client, sent, cache, inq, outq, aborted, inClosed, outClosed, owed,
                   stopped, complete, read, written>>

\* The session runs, or the refusal has closed the input.
Answered ==
    inClosed \/ pc["responder"] \in {"session", "putting", "release", "releasing"}

\* One read gives up to two packets of a publishing client.  Bound: MaxPackets.
ReadPackets(n) ==
    /\ MayRead /\ client = "there" /\ mode = "publish"
    /\ sent + n <= (IF Answered THEN MaxPackets ELSE Early)
    /\ sent' = sent + n /\ cache' = [i \in 1..n |-> sent + i]
    /\ UNCHANGED <<client, inq, outq, aborted, inClosed, outClosed, pc, owed, mode,
                   started, stopped, complete, read, written>>

\* flush_in, packet by packet.
QueuePacket ==
    /\ pc["input"] = "looping" /\ cache # <<>>
    /\ PushInput("input", Head(cache), "looping", "queueing", "closing")
    /\ cache' = Tail(cache)
    /\ UNCHANGED <<client, sent, outq, aborted, inClosed, outClosed, mode, started, stopped,
                   complete, read, written>>

\* Room was found for the packet the loop waits with.
QueueOwed ==
    /\ pc["input"] = "queueing" /\ "input" \in inq.woken
    /\ inq' = Queued([inq EXCEPT !.woken = @ \ {"input"}], owed["input"])
    /\ pc' = [pc EXCEPT !["input"] = "looping"]
    /\ UNCHANGED <<client, sent, cache, outq, aborted, inClosed, outClosed, owed, mode,
                   started, stopped, complete, read, written>>

\* on_handshake(nullptr), on_handshake(e).
Unshaken(at) ==
    [at EXCEPT !["responder"] = IF @ = "handshake" THEN "closing" ELSE @]

\* The socket is at its end or fails, or what it gave cannot be parsed.
ReadFails ==
    /\ MayRead
    /\ Abort([Unshaken(pc) EXCEPT !["input"] = "closing"])
    /\ UNCHANGED <<client, sent, cache, inClosed, outClosed, owed, mode, started, stopped,
                   complete, read, written>>

\* flush_out fails for what librtmp answers to the bytes read: nobody tells a
\* responder that waits for the request.
AnswerFails ==
    /\ MayRead /\ client = "gone" /\ (mode # "none" \/ EarlyReset)
    /\ Abort([pc EXCEPT !["input"] = "closing"])
    /\ UNCHANGED <<client, sent, cache, inClosed, outClosed, owed, mode, started, stopped,
                   complete, read, written>>

-----------------------------------------------------------------------------
(* The output loop.                                                        *)

OutputFails ==
    /\ pc["output"] = "looping" /\ aborted
    /\ pc' = [pc EXCEPT !["output"] = "closing"]
    /\ UNCHANGED <<client, sent, cache, inq, outq, aborted, inClosed, outClosed, owed, mode,
                   started, stopped, complete, read, written>>

\* A packet of the session is written.
WritePacket ==
    /\ pc["output"] = "looping" /\ ~aborted
    /\ outq.items # <<>> /\ Head(outq.items) # EOF
    /\ outq' = Popped(outq)
    /\ UNCHANGED <<client, sent, cache, inq, aborted, inClosed, outClosed, pc, owed, mode,
                   started, stopped, complete, read, written>>

\* The end of the output, or a write that fails.
OutputEnds ==
    /\ pc["output"] = "looping" /\ ~aborted /\ outq.items # <<>>
    /\ \/ Head(outq.items) = EOF
          /\ Abort([Unshaken(pc) EXCEPT !["output"] = "closing"])
       \/ Head(outq.items) # EOF /\ client = "gone"
          /\ Abort([pc EXCEPT !["output"] = "closing"])
    /\ UNCHANGED <<client, sent, cache, inClosed, outClosed, owed, mode, started, stopped,
                   complete, read, written>>

-----------------------------------------------------------------------------
(* The responder.                                                          *)

\* generate_reply: the route makes a session, or refuses.
Route ==
    /\ pc["responder"] = "routing"
    /\ \E next \in {"session", "closing"} : pc' = [pc EXCEPT !["responder"] = next]
    /\ UNCHANGED <<client, sent, cache, inq, outq, aborted, inClosed, outClosed, owed, mode,
                   started, stopped, complete, read, written>>

\* The session is cancelled, done or failed, by anybody.
Complete ==
    /\ pc["responder"] \in {"session", "putting"} /\ ~complete
    /\ complete' = TRUE
    /\ UNCHANGED <<client, sent, cache, inq, outq, aborted, inClosed, outClosed, pc, owed,
                   mode, started, stopped, read, written>>

\* The publisher reads: a closed source is at its end whatever is queued.
ReadPacket ==
    /\ pc["responder"] = "session" /\ mode = "publish" /\ ~complete
    /\ ~aborted /\ ~inClosed /\ inq.items # <<>>
    /\ inq' = Popped(inq)
    /\ read' = Append(read, Head(inq.items))
    /\ UNCHANGED <<client, sent, cache, outq, aborted, inClosed, outClosed, pc, owed, mode,
                   started, stopped, complete, written>>

\* The player writes.  Bound: MaxPackets.
PutPacket ==
    /\ pc["responder"] = "session" /\ mode = "play" /\ ~complete /\ ~aborted
    /\ written < MaxPackets /\ written' = written + 1
    /\ \/ /\ ~Full(outq)
          /\ outq' = Queued(outq, written + 1)
          /\ UNCHANGED <<pc, owed>>
       \/ /\ Full(outq)
          /\ outq' = [outq EXCEPT !.waiting = "responder"]
          /\ owed' = [owed EXCEPT !["responder"] = written + 1]
          /\ pc' = [pc EXCEPT !["responder"] = "putting"]
    /\ UNCHANGED <<client, sent, cache, inq, aborted, inClosed, outClosed, mode, started,
                   stopped, complete, read>>

PutOwed ==
    /\ pc["responder"] = "putting" /\ "responder" \in outq.woken
    /\ outq' = Queued([outq EXCEPT !.woken = @ \ {"responder"}], owed["responder"])
    /\ pc' = [pc EXCEPT !["responder"] = "session"]
    /\ UNCHANGED <<client, sent, cache, inq, aborted, inClosed, outClosed, owed, mode,
                   started, stopped, complete, read, written>>

\* The session stops: it is complete; its stream has failed or ended; or it has
\* waited too long, a publisher for a packet, a player for a frame.
StopSession ==
    /\ pc["responder"] = "session"
    /\ \/ complete \/ aborted
       \/ mode = "publish" /\ (inClosed \/ inq.items = <<>>)
       \/ mode = "play"
    /\ complete' = TRUE
    /\ pc' = [pc EXCEPT !["responder"] = "release"]
    /\ UNCHANGED <<client, sent, cache, inq, outq, aborted, inClosed, outClosed, owed, mode,
                   started, stopped, read, written>>

\* in.close() of a publisher; on_end, which makes room for another publisher of the
\* stream, comes after it.  At a full queue it waits, and never finds room: nobody
\* reads a closed source.  An abort or another part that waits ends the wait.
ReleaseInput ==
    /\ pc["responder"] = "release" /\ mode = "publish"
    /\ inClosed' = TRUE
    /\ \/ /\ inClosed
          /\ pc' = [pc EXCEPT !["responder"] = "closing"]
          /\ UNCHANGED <<inq, owed>>
       \/ /\ ~inClosed
          /\ PushInput("responder", EOF, "closing", "releasing", "closing")
    /\ UNCHANGED <<client, sent, cache, outq, aborted, outClosed, mode, started, stopped,
                   complete, read, written>>

-----------------------------------------------------------------------------
(* close_streams, by any part.                                             *)

\* media_data_sink_impl::close: what is queued is dropped, so there is room for the
\* end; an aborted queue only throws.
CloseSink ==
    /\ outClosed' = TRUE
    /\ \/ (outClosed \/ aborted) /\ UNCHANGED outq
       \/ ~outClosed /\ ~aborted /\ outq' = [Woken(outq) EXCEPT !.items = <<EOF>>]

\* out.close() of a player.
ReleaseOutput ==
    /\ pc["responder"] = "release" /\ mode = "play"
    /\ CloseSink
    /\ pc' = [pc EXCEPT !["responder"] = "closing"]
    /\ UNCHANGED <<client, sent, cache, inq, aborted, inClosed, owed, mode, started, stopped,
                   complete, read, written>>

\* stop_once and _input.close(); when it fails the output is not closed.  At a full
\* queue it waits as ReleaseInput does.
CloseInput(p) ==
    /\ pc[p] = "closing"
    /\ stopped' = (stopped \/ started)
    /\ inClosed' = TRUE
    /\ \/ /\ inClosed
          /\ pc' = [pc EXCEPT ![p] = "closingOut"]
          /\ UNCHANGED <<inq, owed>>
       \/ /\ ~inClosed
          /\ PushInput(p, EOF, "closingOut", "closingIn", "ended")
    /\ UNCHANGED <<client, sent, cache, outq, aborted, outClosed, mode, started, complete,
                   read, written>>

CloseOutput(p) ==
    /\ pc[p] = "closingOut"
    /\ CloseSink
    /\ pc' = [pc EXCEPT ![p] = "ended"]
    /\ UNCHANGED <<client, sent, cache, inq, aborted, inClosed, owed, mode, started, stopped,
                   complete, read, written>>

\* process() is through: the connection is destroyed.
Processed == \A p \in Parts : pc[p] = "ended"

Destroyed == Processed /\ UNCHANGED vars

-----------------------------------------------------------------------------
Close(p) == CloseInput(p) \/ CloseOutput(p)

InputLoop == QueuePacket \/ QueueOwed \/ Close("input")
OutputLoop == OutputFails \/ WritePacket \/ OutputEnds \/ Close("output")
Responder ==
    \/ Route \/ ReadPacket \/ PutOwed \/ ReleaseInput \/ ReleaseOutput
    \/ Close("responder")

Next ==
    \/ Leave \/ Complete \/ Destroyed \/ ReadFails \/ AnswerFails \/ PutPacket \/ StopSession
    \/ \E m \in {"publish", "play"} : Request(m)
    \/ \E n \in 1..2 : ReadPackets(n)
    \/ InputLoop \/ OutputLoop \/ Responder

\* Tasks that can go on do, a socket at its end tells the input loop so, and a
\* session that neither reads nor writes times out.  Nothing in the code makes the
\* client send or leave: that it leaves in the end is assumed of the peer.
Fairness ==
    /\ WF_vars(InputLoop) /\ WF_vars(OutputLoop) /\ WF_vars(Responder)
    /\ WF_vars(client = "gone" /\ ReadFails)
    /\ WF_vars(StopSession)
    /\ WF_vars(Leave)

Spec == Init /\ [][Next]_vars /\ Fairness

-----------------------------------------------------------------------------
\* Type invariant; who waits at a queue is known there, or has been woken.
TypeOK ==
    /\ client \in {"there", "gone"} /\ sent \in 0..MaxPackets /\ written \in 0..MaxPackets
    /\ cache \in Seq(1..MaxPackets) /\ read \in Seq(0..MaxPackets)
    /\ inq \in Queue /\ outq \in Queue
    /\ pc["input"] \in {"looping", "queueing", "closing", "closingIn", "closingOut", "ended"}
    /\ pc["output"] \in {"looping", "closing", "closingIn", "closingOut", "ended"}
    /\ pc["responder"] \in {"handshake", "routing", "session", "putting", "release",
                            "releasing", "closing", "closingIn", "closingOut", "ended"}
    /\ \A p \in Parts :
          /\ pc[p] \in {"queueing", "releasing", "closingIn"} <=>
                 p = inq.waiting \/ p \in inq.woken
          /\ pc[p] = "putting" <=> p = outq.waiting \/ p \in outq.woken
    /\ {aborted, inClosed, outClosed, started, stopped, complete} \subseteq BOOLEAN

\* However the loops, the session and the ends of the connection interleave, the
\* publisher gets the client's packets in order and without gaps up to where it stops.
ReadsInOrder == \A i \in DOMAIN read : read[i] = i

\* A publisher or player that is complete gets to on_end: closing its stream does
\* not leave it waiting at a full queue nobody reads any more.
SessionReleased ==
    complete ~> pc["responder"] \in {"closing", "closingIn", "closingOut", "ended"}

\* When the client is gone all parts end, wherever they are, and the connection is
\* destroyed: nobody waits for ever for a request, for a packet or for room.
ConnectionEnds == client = "gone" ~> Processed
=============================================================================
