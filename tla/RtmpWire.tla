------------------------------ MODULE RtmpWire ------------------------------
(***************************************************************************)
(* One direction of an RTMP connection, from the messages librtmp is asked *)
(* to send to those it hands to the code of the other end: the output path *)
(* of rtmp::connection (rtmp.cc, Role = "server") and of                   *)
(* internal::client::connection (client.cc, Role = "client") above the     *)
(* chunk layer of RtmpChunks.                                              *)
(*                                                                         *)
(* Two tasks of one shard write: the input loop, when what it parsed is    *)
(* answered, and the output loop, with media.  A task fills                *)
(* _data_output_cache without suspending, flushes the packets it parsed,   *)
(* which may suspend, then moves whatever the cache holds by then and      *)
(* writes it buffer by buffer, suspending after any of them.  The client   *)
(* holds _flush_out_lock meanwhile, the server does not.                   *)
(***************************************************************************)
EXTENDS RtmpChunks

CONSTANTS Role,          \* "server" or "client"
          Media,         \* bound: the packets sent, <<kind, time stamp, length>>
          Socket         \* bound: the buffers the peer has not read yet

ASSUME WireAssumption == Role \in {"server", "client"} /\ Socket \in Nat \ {0}

\* Audio and video have chunk streams of their own; no packet is empty.
ASSUME MediaAssumption ==
  /\ {"protocol", "invoke"} \subseteq Cids
  /\ Media \subseteq ((Cids \cap {"audio", "video"}) \cup {"script"})
                   \X (0 .. Wrap - 1) \X (Nat \ {0})

VARIABLES out, outChunk, \* the writer of librtmp
          stage,         \* how far the command dialogue went
          stream,        \* ctx->stream_id
          playing,       \* the output loop has media to send
          cache,         \* _data_output_cache
          pc, todo,      \* the tasks and the buffers each one took
          lock,          \* _flush_out_lock: the holder, then who waits
          done,          \* _done: stop_once ran
          wire,          \* buffers written and not read by the peer
          reader,        \* the reader of librtmp at the peer
          unwritten,     \* history: the buffers put into the cache, not written
          pending        \* history: the messages handed over, not delivered

writer   == <<out, outChunk>>
dialogue == <<stage, stream, playing>>
tasks    == <<pc, todo, lock>>
history  == <<unwritten, pending>>
vars     == <<writer, dialogue, cache, tasks, done, wire, reader, history>>

Tasks == {"input", "output"}

Init ==
  /\ out = OutInit /\ outChunk = FirstChunk
  /\ stage = "start" /\ stream = 0 /\ playing = FALSE
  /\ cache = <<>>
  /\ pc = [t \in Tasks |-> "idle"] /\ todo = [t \in Tasks |-> <<>>] /\ lock = <<>>
  /\ done = FALSE
  /\ wire = <<>> /\ reader = ReaderInit
  /\ unwritten = <<>> /\ pending = <<>>

-----------------------------------------------------------------------------
(* What librtmp sends.  Commands are never compressed, media always asks   *)
(* to be; scripts share the chunk stream of the commands.                  *)

Command(sid) == [id |-> 0, cid |-> "invoke", type |-> "Invoke", sid |-> sid, ts |-> 0, len |-> 3, zip |-> FALSE]
SampleAccess(sid) == [Command(sid) EXCEPT !.type = "Data"]
Control(type) == [id |-> 0, cid |-> "protocol", type |-> type, sid |-> 0, ts |-> 0, len |-> 1, zip |-> FALSE]

MediaMessage(kind, ts, len) ==
  [id |-> 0, cid |-> IF kind = "script" THEN "invoke" ELSE kind,
   type |-> IF kind = "script" THEN "Data" ELSE kind,
   sid |-> stream, ts |-> ts, len |-> len, zip |-> TRUE]

\* The answers of rtmp-server.c to the commands of a player, in the order a
\* player sends them: [on, from, to, stream, messages].
ServerAnswers ==
  { [from |-> "start", to |-> "connected", stream |-> stream, plays |-> playing,
     messages |-> <<Control("WindowAck"), Control("PeerBandwidth"), Control("SetChunkSize"),
                    Command(0)>>],
    [from |-> "connected", to |-> "created", stream |-> 1, plays |-> playing,
     messages |-> <<Command(0)>>],
    [from |-> "created", to |-> "playing", stream |-> stream, plays |-> TRUE,
     messages |-> <<Control("Event"), Command(stream), Command(stream), Control("Event"),
                    SampleAccess(stream)>>],
    [from |-> "playing", to |-> "connected", stream |-> 0, plays |-> playing,
     messages |-> <<Command(0)>>] }

\* The answers of rtmp-client.c, publishing, to what the server sends.
ClientAnswers ==
  { [from |-> "start", to |-> "connecting", stream |-> stream, plays |-> playing,
     messages |-> <<Command(0)>>],
    [from |-> "connecting", to |-> "creating", stream |-> stream, plays |-> playing,
     messages |-> <<Command(stream), Command(0), Command(0)>>],
    [from |-> "creating", to |-> "publishing", stream |-> 1, plays |-> playing,
     messages |-> <<Command(1), Control("SetChunkSize")>>],
    [from |-> "publishing", to |-> "started", stream |-> stream, plays |-> TRUE,
     messages |-> <<>>] }

\* At any time: an acknowledgement, the answer to a ping or a bandwidth.
Answers ==
  {a \in IF Role = "server" THEN ServerAnswers ELSE ClientAnswers : a.from = stage} \cup
  {[from |-> stage, to |-> stage, stream |-> stream, plays |-> playing,
    messages |-> <<Control("Ack")>>]}

\* handler.send of one message by the writer w, which keeps the buffers it wrote.
WriteMessage(w, m) ==
  IF m.cid = "protocol"
  THEN [w EXCEPT !.buffers = Append(@, ControlBuffer(m)),
                 !.chunk = IF m.type = "SetChunkSize" THEN NextChunk ELSE @]
  ELSE [w EXCEPT !.buffers = @ \o ChunkBuffers(w.out[m.cid], m, w.chunk),
                 !.out[m.cid] = SavePacket(@, m)]

\* One after the other: the buffers in order, and the writer that is left.
Written(ms) ==
  LET written[n \in 0 .. Len(ms)] ==
        IF n = 0 THEN [out |-> out, chunk |-> outChunk, buffers |-> <<>>]
        ELSE WriteMessage(written[n - 1], ms[n])
  IN  written[Len(ms)]

\* Payloads are told apart by who sends them and their place in the answer.
By(t, ms) == [i \in DOMAIN ms |-> [ms[i] EXCEPT !.id = <<t, i>>]]

HandOver(ms) ==
  LET w == Written(ms)
  IN  /\ out' = w.out /\ outChunk' = w.chunk
      /\ cache' = cache \o w.buffers
      /\ unwritten' = unwritten \o w.buffers
      /\ pending' = pending \o [i \in DOMAIN ms |-> Meaning(ms[i])]

-----------------------------------------------------------------------------
(* The tasks.                                                              *)

\* input_loop, on_read_buf: a command or a reply of the peer is parsed and
\* answered into the cache.  What the tasks put there once the connection is
\* done is dropped by Take and left out.
Answer ==
  /\ pc["input"] = "idle" /\ ~done
  /\ \E a \in Answers :
       /\ HandOver(By("input", a.messages))
       /\ stage' = a.to /\ stream' = a.stream /\ playing' = a.plays
  /\ pc' = [pc EXCEPT !["input"] = "flush"]
  /\ UNCHANGED <<todo, lock, done, wire, reader>>

\* output_loop, on_send_packet: one packet of the session.
Push ==
  /\ pc["output"] = "idle" /\ playing /\ ~done
  /\ \E p \in Media : HandOver(By("output", <<MediaMessage(p[1], p[2], p[3])>>))
  /\ pc' = [pc EXCEPT !["output"] = "flush"]
  /\ UNCHANGED <<dialogue, todo, lock, done, wire, reader>>

\* flush_out after flush_in: the whole cache is moved; on_write_buffers
\* drops it when the connection is done.
Take(t) ==
  /\ pc[t] = "flush"
  /\ cache' = <<>>
  /\ IF done \/ cache = <<>>
     THEN pc' = [pc EXCEPT ![t] = "idle"] /\ UNCHANGED <<todo, lock>>
     ELSE /\ pc' = [pc EXCEPT ![t] = "write"]
          /\ todo' = [todo EXCEPT ![t] = cache]
          /\ lock' = IF Role = "client" THEN Append(lock, t) ELSE lock
  /\ UNCHANGED <<writer, dialogue, done, wire, reader, history>>

\* Mutant: the client has no lock either.
MayWriteUnlocked(t) == pc[t] = "write"

MayWrite(t) == pc[t] = "write" /\ (Role = "client" => Head(lock) = t)

\* Mutant: the lock of the other task is kept.
FinishKeepingLock(t) ==
  /\ pc' = [pc EXCEPT ![t] = "idle"]
  /\ todo' = [todo EXCEPT ![t] = <<>>]
  /\ lock' = lock

Finish(t) ==
  /\ pc' = [pc EXCEPT ![t] = "idle"]
  /\ todo' = [todo EXCEPT ![t] = <<>>]
  /\ lock' = IF Role = "client" THEN Tail(lock) ELSE lock

\* do_for_each of on_write_buffers: the server looks at _done before each
\* buffer and drops the rest, the client looks only before the first (Take).
Write(t) ==
  /\ MayWrite(t)
  /\ IF Role = "server" /\ done
     THEN Finish(t) /\ UNCHANGED <<wire, unwritten>>
     ELSE /\ Len(wire) < Socket
          /\ wire' = Append(wire, Head(todo[t]))
          /\ unwritten' = Tail(unwritten)
          /\ IF Len(todo[t]) = 1 THEN Finish(t)
             ELSE todo' = [todo EXCEPT ![t] = Tail(@)] /\ UNCHANGED <<pc, lock>>
  /\ UNCHANGED <<writer, dialogue, cache, done, reader, pending>>

\* stop_once, from the moment a stream may be open: the last commands are written
\* into the cache, but _done is set before the flush, which drops them with
\* everything else in the cache.
Stop ==
  /\ ~done /\ (playing \/ stage = "publishing")
  /\ done' = TRUE
  /\ LET n == IF Role = "server" THEN 1 ELSE 2
         w == Written([i \in 1 .. n |-> Command(stream)])
     IN  out' = w.out /\ outChunk' = w.chunk
  /\ cache' = <<>>
  /\ UNCHANGED <<dialogue, tasks, wire, reader, history>>

\* The peer reads a buffer.  A delivery that is not the oldest message still
\* to come stays in pending, where the channel has no such step.
Receive ==
  /\ wire # <<>>
  /\ LET r == Read(reader, Head(wire))
     IN  /\ reader' = r.reader
         /\ pending' = IF r.out = <<>> THEN pending
                       ELSE IF pending # <<>> /\ Head(pending) = r.out[1] THEN Tail(pending)
                       ELSE r.out \o pending
  /\ wire' = Tail(wire)
  /\ UNCHANGED <<writer, dialogue, cache, tasks, done, unwritten>>

Next ==
  \/ Answer \/ Push \/ Stop \/ Receive
  \/ \E t \in Tasks : Take(t) \/ Write(t)

\* The reactor runs every ready continuation and the peer reads; nobody is
\* bound to send commands, to push media or to stop.
Spec == /\ Init /\ [][Next]_vars
        /\ WF_vars(Receive)
        /\ \A t \in Tasks : WF_vars(Take(t)) /\ WF_vars(Write(t))
-----------------------------------------------------------------------------
\* Type invariant; a task has buffers exactly while it writes, and the client's
\* lock is held or awaited by exactly the tasks that do.
WireTypeOK ==
  /\ pc \in [Tasks -> {"idle", "flush", "write"}]
  /\ \A t \in Tasks : (pc[t] = "write") = (todo[t] # <<>>)
  /\ Len(wire) <= Socket
  /\ Range(lock) = {t \in Tasks : Role = "client" /\ pc[t] = "write"}
  /\ outChunk \in {FirstChunk, NextChunk} /\ reader.chunk \in {FirstChunk, NextChunk}
  /\ \A c \in Cids : out[c].clock < Wrap /\ reader.in[c].clock < Wrap

\* The buffers go out in the order they were put into the cache, so that the
\* header of a chunk is followed by its payload (rtmp.cc:269, rtmp.cc:719).
WrittenInOrder ==
  [][Len(wire') > Len(wire) => wire'[Len(wire')] = Head(unwritten)]_vars

\* When nothing is on its way both ends remember the same headers, clocks
\* and chunk size, so that the next compressed header is understood
\* (rtmp-chunk-write.c:66, rtmp-chunk-read.c:76).
Quiet == ~done /\ cache = <<>> /\ wire = <<>> /\ \A t \in Tasks : todo[t] = <<>>
EndsInStep ==
  Quiet => /\ \A c \in Cids \ {"protocol"} : InStep(out[c], reader.in[c])
           /\ reader.chunk = outChunk
           /\ reader.at = <<>> /\ pending = <<>>

\* The connection implements the message channel: what librtmp is asked to
\* send arrives once, unchanged and in order, and all of it does unless the
\* connection stops.
Channel == INSTANCE MessageChannel WITH closed <- done
ImplementsChannel == Channel!Spec
=============================================================================
