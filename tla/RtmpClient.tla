------------------------------ MODULE RtmpClient ------------------------------
(***************************************************************************)
(* internal::client of rtmp/client.cc: the pool of connections, the        *)
(* requests that wait for a place in it, and the three tasks of each       *)
(* connection (make_request, input_loop, output_loop) from the handshake   *)
(* to the end of process.  Everything runs on one shard.                   *)
(*                                                                         *)
(* Requests publish: the server sends no media, so that _media_input holds *)
(* nothing but the mark of its end and _input.close() never waits.  What   *)
(* is written on the connection is RtmpWire's.                             *)
(*                                                                         *)
(* Two things stop the model where the program leaves its semantics:       *)
(* remove_connection may loop for ever, which stops the shard, and         *)
(* send_request may read an optional that is empty.                        *)
(***************************************************************************)
EXTENDS Naturals, Sequences, Functions

CONSTANTS Requests,      \* the requests, each with the connection made for it
          Limits,        \* the values of _max_connections
          None           \* no connection

ASSUME ClientAssumption == None \notin Requests /\ Limits \subseteq Nat \ {0}

VARIABLES phase,         \* where with_connection is with each request
          conn,          \* the connections
          pool,          \* _pool
          limit,         \* _max_connections
          closing,       \* closing[t]: the connection whose close() the task t awaits
          closed,        \* history: close() of the client was called
          shard          \* "up", "spinning" or "undefined"

vars == <<phase, conn, pool, limit, closing, closed, shard>>

\* set_maximum_connections and close of the client; bound: one call of each at
\* a time.
Closers == {"shrink", "close"}

\* handshake: what became of the promise _handshake.  over: the empty packet
\* of _output.close() is in _media_output.  eof: the next read finds the end.
Connection ==
  [task : {"start", "shaking", "body", "stop", "over"},
   handshake : {"pending", "reply", "failed"},
   input : {"reading", "over"}, output : {"waiting", "over"},
   aborted : BOOLEAN, ended : BOOLEAN, eof : BOOLEAN]

\* process: C0 and C1 are being written, both loops wait.
NewConnection ==
  [task |-> "start", handshake |-> "pending", input |-> "reading", output |-> "waiting",
   aborted |-> FALSE, ended |-> FALSE, eof |-> FALSE]

Init ==
  /\ phase = [r \in Requests |-> "idle"]
  /\ conn = [r \in Requests |-> NewConnection]
  /\ pool = <<>> /\ limit \in Limits
  /\ closing = [t \in Closers |-> None] /\ closed = FALSE
  /\ shard = "up"

Up == shard = "up"

-----------------------------------------------------------------------------
(* The pool.                                                               *)

\* get_connection, called again by a request that was woken.
Get(r) ==
  /\ Up /\ phase[r] \in {"idle", "woken"}
  /\ phase' = [phase EXCEPT ![r] = IF Len(pool) >= limit THEN "waiting" ELSE "connecting"]
  /\ UNCHANGED <<conn, pool, limit, closing, closed, shard>>

ConnectFails(r) ==
  /\ Up /\ phase[r] = "connecting"
  /\ phase' = [phase EXCEPT ![r] = "ended"]
  /\ UNCHANGED <<conn, pool, limit, closing, closed, shard>>

\* put_connection, which does not look at the limit again.
Connected(r) ==
  /\ Up /\ phase[r] = "connecting"
  /\ phase' = [phase EXCEPT ![r] = "running"]
  /\ conn' = [conn EXCEPT ![r] = NewConnection]
  /\ pool' = Append(pool, r)
  /\ UNCHANGED <<limit, closing, closed, shard>>

\* _not_full.broadcast()
Woken(ph) == [q \in Requests |-> IF ph[q] = "waiting" THEN "woken" ELSE ph[q]]

Processed(c) == c.task = "over" /\ c.input = "over" /\ c.output = "over"

\* Mutant: a place that becomes free is not announced.
RemoveSilently(r) ==
  /\ Up /\ phase[r] = "running" /\ Processed(conn[r])
  /\ IF pool = <<>> THEN phase' = [phase EXCEPT ![r] = "ended"] /\ UNCHANGED <<pool, shard>>
     ELSE IF Head(pool) = r
     THEN phase' = [phase EXCEPT ![r] = "closing"] /\ pool' = Tail(pool) /\ UNCHANGED shard
     ELSE shard' = "spinning" /\ UNCHANGED <<phase, pool>>
  /\ UNCHANGED <<conn, limit, closing, closed>>

\* Mutant: the connection stays in the pool.
RemoveKeeping(r) ==
  /\ Up /\ phase[r] = "running" /\ Processed(conn[r])
  /\ phase' = Woken([phase EXCEPT ![r] = "closing"])
  /\ UNCHANGED <<conn, pool, limit, closing, closed, shard>>

\* remove_connection: a connection that is not the first one (or is in the pool
\* no longer, while others are) is looked for without end.
Remove(r) ==
  /\ Up /\ phase[r] = "running" /\ Processed(conn[r])
  /\ IF pool = <<>> THEN phase' = [phase EXCEPT ![r] = "ended"] /\ UNCHANGED <<pool, shard>>
     ELSE IF Head(pool) = r
     THEN phase' = Woken([phase EXCEPT ![r] = "closing"]) /\ pool' = Tail(pool) /\ UNCHANGED shard
     ELSE shard' = "spinning" /\ UNCHANGED <<phase, pool>>
  /\ UNCHANGED <<conn, limit, closing, closed>>

\* conn->close() of remove_connection is over.
Removed(r) ==
  /\ Up /\ phase[r] = "closing"
  /\ phase' = [phase EXCEPT ![r] = "ended"]
  /\ UNCHANGED <<conn, pool, limit, closing, closed, shard>>

\* connection::close on a connection in use: the mark goes into both queues
\* and the socket is shut, which the next read finds.
Closed(c) == [c EXCEPT !.ended = TRUE, !.eof = TRUE]

\* Mutant: shrink takes the connection off the pool and leaves it open.
PopFrontOpen(t) ==
  /\ pool' = Tail(pool)
  /\ conn' = conn
  /\ closing' = [closing EXCEPT ![t] = Head(pool)]

PopFront(t) ==
  /\ pool' = Tail(pool)
  /\ conn' = [conn EXCEPT ![Head(pool)] = Closed(@)]
  /\ closing' = [closing EXCEPT ![t] = Head(pool)]

\* One round of shrink_connections; its broadcast is never reached, since it
\* pops only from more than the maximum.
Shrink(max) ==
  IF Len(pool) > max THEN PopFront("shrink")
  ELSE closing' = [closing EXCEPT !["shrink"] = None] /\ UNCHANGED <<conn, pool>>

SetMaximumConnections ==
  /\ Up /\ closing["shrink"] = None
  /\ \E nr \in Limits \ {limit} :
       /\ limit' = nr
       /\ IF nr > limit THEN phase' = Woken(phase) /\ UNCHANGED <<conn, pool, closing>>
          ELSE Shrink(nr) /\ UNCHANGED phase
  /\ UNCHANGED <<closed, shard>>

\* One round of close, which has no broadcast.
CloseRound ==
  IF pool # <<>> THEN PopFront("close")
  ELSE closing' = [closing EXCEPT !["close"] = None] /\ UNCHANGED <<conn, pool>>

CloseClient ==
  /\ Up /\ closing["close"] = None /\ pool # <<>>
  /\ CloseRound
  /\ closed' = TRUE
  /\ UNCHANGED <<phase, limit, shard>>

\* The connection a closer waits for is closed: the next round.
NextRound(t) ==
  /\ Up /\ closing[t] # None
  /\ IF t = "shrink" THEN Shrink(limit) ELSE CloseRound
  /\ UNCHANGED <<phase, limit, closed, shard>>

-----------------------------------------------------------------------------
(* The tasks of a connection.                                              *)

Running(r) == Up /\ phase[r] = "running"

Becomes(r, c) ==
  /\ conn' = [conn EXCEPT ![r] = c]
  /\ UNCHANGED <<phase, pool, limit, closing, closed, shard>>

\* on_handshake completes the promise once.
Handshake(c, how) == IF c.handshake = "pending" THEN [c EXCEPT !.handshake = how] ELSE c

\* close_streams: when the queues were aborted _input.close() fails and the
\* output is not closed.
StreamsClosed(c) == IF c.aborted THEN c ELSE [c EXCEPT !.ended = TRUE]

\* send_request: the flush of C0 and C1 is over; the promise is looked at only
\* now.
Started(r) ==
  /\ Running(r) /\ conn[r].task = "start"
  /\ IF conn[r].handshake = "pending"
     THEN Becomes(r, [conn[r] EXCEPT !.task = "shaking"])
     ELSE /\ shard' = "undefined"
          /\ UNCHANGED <<phase, conn, pool, limit, closing, closed>>

StartFails(r) ==
  /\ Running(r) /\ conn[r].task = "start"
  /\ Becomes(r, [conn[r] EXCEPT !.task = "stop"])

\* The continuation of send_request.
Shaken(r) ==
  /\ Running(r) /\ conn[r].task = "shaking" /\ conn[r].handshake # "pending"
  /\ Becomes(r, [conn[r] EXCEPT !.task = IF conn[r].handshake = "reply" THEN "body" ELSE "stop"])

\* The body writer and the reply handler are through, or fail on the queues.
BodyEnds(r) ==
  /\ Running(r) /\ conn[r].task = "body"
  /\ Becomes(r, [conn[r] EXCEPT !.task = "stop"])

\* stop_streams at the end of make_request.
StopStreams(r) ==
  /\ Running(r) /\ conn[r].task = "stop"
  /\ Becomes(r, [StreamsClosed(conn[r]) EXCEPT !.task = "over"])

Reading(r) == Running(r) /\ conn[r].input = "reading" /\ ~conn[r].eof

\* A buffer with NetStream.Publish.Start: update_state completes the handshake.
ServerStarts(r) ==
  /\ Reading(r) /\ conn[r].handshake = "pending"
  /\ Becomes(r, Handshake(conn[r], "reply"))

\* A buffer after which librtmp has stopped; update_state sees only that, even
\* when the same buffer started the stream.
ServerStops(r) ==
  /\ Reading(r)
  /\ Becomes(r, StreamsClosed(conn[r]))

\* Mutant: an input loop that ends leaves the queues as they are.
EndInputQuietly(c) == [Handshake(c, "failed") EXCEPT !.input = "over"]

\* Every way out of input_loop completes the handshake and aborts the queues.
EndInput(c) == [Handshake(c, "failed") EXCEPT !.input = "over", !.aborted = TRUE]

\* The end of the stream, a failed read, an answer or an error of the server
\* that librtmp refuses, or a reply that cannot be written.
InputEnds(r) ==
  /\ Running(r) /\ conn[r].input = "reading"
  /\ Becomes(r, EndInput(conn[r]))

\* output_loop finds the queue aborted.
OutputAborted(r) ==
  /\ Running(r) /\ conn[r].output = "waiting" /\ conn[r].aborted
  /\ Becomes(r, [conn[r] EXCEPT !.output = "over"])

\* It pops the mark, or librtmp refuses a packet: the input loop reads on.
OutputEnds(r) ==
  /\ Running(r) /\ conn[r].output = "waiting" /\ ~conn[r].aborted
  /\ conn[r].ended \/ conn[r].task = "body"
  /\ Becomes(r, [Handshake(conn[r], "failed") EXCEPT !.output = "over", !.aborted = TRUE])

\* A packet cannot be written: flush aborts the queues and closes the input.
WriteFails(r) ==
  /\ Running(r) /\ conn[r].output = "waiting" /\ conn[r].task = "body" /\ ~conn[r].aborted
  /\ Becomes(r, [conn[r] EXCEPT !.output = "over", !.aborted = TRUE, !.eof = TRUE])

\* The server closes the connection.
HangUp(r) ==
  /\ Running(r) /\ ~conn[r].eof
  /\ Becomes(r, [conn[r] EXCEPT !.eof = TRUE])

-----------------------------------------------------------------------------
RequestStep(r) ==
  \/ Get(r) \/ ConnectFails(r) \/ Connected(r) \/ Remove(r) \/ Removed(r)
  \/ Started(r) \/ StartFails(r) \/ Shaken(r) \/ BodyEnds(r) \/ StopStreams(r)
  \/ ServerStarts(r) \/ ServerStops(r) \/ InputEnds(r)
  \/ OutputAborted(r) \/ OutputEnds(r) \/ WriteFails(r) \/ HangUp(r)

Next ==
  \/ \E r \in Requests : RequestStep(r)
  \/ SetMaximumConnections \/ CloseClient
  \/ \E t \in Closers : NextRound(t)

\* The reactor runs what is ready: a write ends, a completed promise, an aborted
\* queue and the end of a stream are seen, a body whose queues are aborted
\* fails.  A server hangs up on a publisher that has stopped sending, by its
\* time-out at the latest; nothing bounds the wait for its answers.
Due(r) ==
  \/ Remove(r) \/ Started(r) \/ Shaken(r) \/ StopStreams(r) \/ OutputAborted(r)
  \/ conn[r].ended /\ OutputEnds(r)
  \/ conn[r].aborted /\ BodyEnds(r)
  \/ conn[r].eof /\ InputEnds(r)
  \/ conn[r].output = "over" /\ HangUp(r)

Spec == Init /\ [][Next]_vars /\ \A r \in Requests : WF_vars(Due(r))
-----------------------------------------------------------------------------
\* Type invariant; the pool holds each connection once, while its request runs.
ClientTypeOK ==
  /\ phase \in [Requests -> {"idle", "waiting", "woken", "connecting", "running", "closing", "ended"}]
  /\ conn \in [Requests -> Connection]
  /\ limit \in Limits /\ closing \in [Closers -> Requests \cup {None}]
  /\ closed \in BOOLEAN /\ shard \in {"up", "spinning", "undefined"}
  /\ IsInjective(pool) /\ \A i \in DOMAIN pool : phase[pool[i]] = "running"

\* No wake-up is lost: a request waits only while the pool is full, however
\* requests end and the limit moves, until the client is closed (close pops
\* without a broadcast, client.cc:695).
WaitersHaveCause ==
  ~closed /\ (\E r \in Requests : phase[r] = "waiting") => Len(pool) >= limit

\* A connection in use is where close() and set_maximum_connections find it, or
\* they have closed it already (client.cc:651, client.cc:699).
RunningCanBeClosed ==
  \A r \in Requests :
    phase[r] = "running" /\ (\A i \in DOMAIN pool : pool[i] # r) => conn[r].eof

\* However it ends (by the server, by its body, by the output loop, closed by
\* the client) a request leaves the pool, unless the shard is lost.
EndedRequestsLeave ==
  \A r \in Requests :
    phase[r] = "running" /\ (conn[r].eof \/ conn[r].task = "stop" \/ conn[r].output = "over")
      ~> phase[r] # "running" \/ ~Up
=============================================================================
