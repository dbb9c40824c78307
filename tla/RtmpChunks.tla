----------------------------- MODULE RtmpChunks -----------------------------
(***************************************************************************)
(* The chunk layer of librtmp: what rtmp_chunk_write makes of a message    *)
(* and what rtmp_chunk_read makes of the buffers that arrive.  The writer *)
(* compresses a chunk header against the last header of the same chunk    *)
(* stream, the reader expands it against the last header it read: the two *)
(* states must change in step for the life of the connection.             *)
(*                                                                         *)
(* A message is [id, cid, type, sid, ts, len, zip]: id stands for its      *)
(* payload, byte k of which is <<id, k>>; zip is header.fmt = TYPE_1, the  *)
(* caller's permission to compress.  A buffer is what one handler.send     *)
(* call puts into _data_output_cache: the header of a chunk, the payload   *)
(* of a chunk, or a control message, which is built in one buffer.         *)
(***************************************************************************)
EXTENDS Naturals, Sequences, SequencesExt

CONSTANTS Ext,           \* 0xFFFFFF, the largest 24-bit time stamp
          Wrap,          \* 2^32, the modulus of the clocks
          FirstChunk,    \* RTMP_CHUNK_SIZE, the size both ends start with
          NextChunk,     \* the size a sender announces
          Cids           \* the chunk streams in use

ASSUME ChunkAssumption == /\ Ext \in Nat \ {0} /\ Wrap \in Nat /\ Ext < Wrap
                          /\ {FirstChunk, NextChunk} \subseteq Nat \ {0}

-----------------------------------------------------------------------------
(* The writer: out[cid] is the packet of the chunk stream, with the clock  *)
(* of its last message and the header last written.                        *)

OutInit == [c \in Cids |-> [clock |-> 0, ts |-> 0, len |-> 0, type |-> "none", sid |-> 0]]

\* rtmp_chunk_header_zip: the format and the header of the first chunk.
MayCompress(p, m) ==
  /\ m.zip
  /\ m.ts >= p.clock
  /\ (m.ts - p.clock) % Wrap < Ext
  /\ m.sid = p.sid

Delta(p, m) == (m.ts - p.clock) % Wrap

Format(p, m) ==
  IF ~MayCompress(p, m) THEN 0
  ELSE IF m.type # p.type \/ m.len # p.len THEN 1
  ELSE IF Delta(p, m) # p.ts THEN 2 ELSE 3

ZipHeader(p, m) ==
  [fmt |-> Format(p, m), cid |-> m.cid, len |-> m.len, type |-> m.type, sid |-> m.sid,
   ts |-> IF MayCompress(p, m) THEN Delta(p, m) ELSE m.ts]

\* Mutant: the clock saved is the time stamp of the header.
SavePacketOfHeader(p, m) ==
  [clock |-> ZipHeader(p, m).ts, ts |-> ZipHeader(p, m).ts, len |-> m.len, type |-> m.type, sid |-> m.sid]

SavePacket(p, m) ==
  [clock |-> m.ts, ts |-> ZipHeader(p, m).ts, len |-> m.len, type |-> m.type, sid |-> m.sid]

\* The header of one chunk.  The reader sees the fields its format carries:
\* the 24-bit time stamp up to format 2, length and type up to 1, the
\* message stream in 0, and an extended time stamp when ext is not empty.
HeaderBuffer(h, fmt) ==
  [kind |-> "header", fmt |-> fmt, cid |-> h.cid, len |-> h.len, type |-> h.type,
   sid |-> h.sid, ts |-> IF h.ts >= Ext THEN Ext ELSE h.ts,
   ext |-> IF h.ts >= Ext THEN <<h.ts>> ELSE <<>>]

PayloadBuffer(bytes) == [kind |-> "payload", bytes |-> bytes]

Payload(m) == [k \in 1 .. m.len |-> <<m.id, k>>]

\* rtmp_chunk_write: a header and a payload buffer for each chunk, format 3
\* from the second on; a message without payload writes nothing.
ChunkBuffers(p, m, size) ==
  LET n == (m.len + size - 1) \div size
      piece(i) == SubSeq(Payload(m), (i - 1) * size + 1, IF i = n THEN m.len ELSE i * size)
  IN  FlattenSeq([i \in 1 .. n |->
        <<HeaderBuffer(ZipHeader(p, m), IF i = 1 THEN ZipHeader(p, m).fmt ELSE 3), PayloadBuffer(piece(i))>>])

\* rtmp-control-message.c, rtmp-event.c: header and payload in one buffer,
\* format 0 on the protocol channel, past the compression.
ControlBuffer(m) == [kind |-> "control", m |-> m]

-----------------------------------------------------------------------------
(* The reader: in[cid] is the packet of a chunk stream it has seen, chunk  *)
(* the size it cuts payloads at, at the chunk stream whose payload comes   *)
(* next (the empty sequence in RTMP_PARSE_INIT).                           *)

NoPacket == [known |-> FALSE, clock |-> 0, delta |-> 0, ts |-> 0, len |-> 0,
             type |-> "none", sid |-> 0, data |-> <<>>]

ReaderInit == [in |-> [c \in Cids |-> NoPacket], chunk |-> FirstChunk, at |-> <<>>,
               garbled |-> FALSE]

\* The message rtmp_handler is given.
Delivered(p) == [data |-> p.data, type |-> p.type, sid |-> p.sid, ts |-> p.clock]

\* What the sender means by a message, to compare with what is delivered.
Meaning(m) == [data |-> Payload(m), type |-> m.type, sid |-> m.sid, ts |-> m.ts]

\* Bytes of another kind than the parser expects are read as what it
\* expects: some message the sender never sent.
Garbage == [data |-> <<>>, type |-> "garbage", sid |-> 0, ts |-> 0]
Garble(r) == [reader |-> [r EXCEPT !.garbled = TRUE], out |-> <<Garbage>>]

\* rtmp_chunk_message_header_read over the header kept for the chunk stream.
HeaderRead(p, b) ==
  [p EXCEPT !.known = TRUE,
            !.ts = IF b.fmt <= 2 THEN b.ts ELSE @,
            !.len = IF b.fmt <= 1 THEN b.len ELSE @,
            !.type = IF b.fmt <= 1 THEN b.type ELSE @,
            !.sid = IF b.fmt = 0 THEN b.sid ELSE @]

\* The first chunk of a message sets or advances the clock.
ClockRead(p, b) ==
  LET t == IF p.ts = Ext THEN b.ext[1] ELSE p.ts
  IN  IF p.data # <<>> THEN p
      ELSE [p EXCEPT !.delta = t,
                     !.clock = IF b.fmt = 0 THEN t ELSE (p.clock + t) % Wrap]

ReadHeader(r, b) ==
  LET p == HeaderRead(r.in[b.cid], b)
      wellFormed == /\ r.in[b.cid].known \/ b.fmt <= 1
                    /\ (p.ts = Ext) = (b.ext # <<>>)
                    /\ p.ts = Ext /\ b.fmt = 3 => b.ext[1] = p.delta
  IN  IF ~wellFormed THEN Garble(r)
      ELSE [reader |-> [r EXCEPT !.in[b.cid] = ClockRead(p, b), !.at = <<b.cid>>],
            out |-> <<>>]

\* What rtmp_control_handler changes in the reader: the chunk size.
Handle(r, type) == IF type = "SetChunkSize" THEN [r EXCEPT !.chunk = NextChunk] ELSE r

\* RTMP_PARSE_PAYLOAD: up to the end of the chunk or of the message.
Expected(r, p) ==
  LET chunk == r.chunk - (Len(p.data) % r.chunk)
      rest  == p.len - Len(p.data)
  IN  IF chunk < rest THEN chunk ELSE rest

ReadPayload(r, b) ==
  LET c == r.at[1]
      p == [r.in[c] EXCEPT !.data = @ \o b.bytes]
      next == [r EXCEPT !.in[c] = p, !.at = <<>>]
  IN  IF Len(b.bytes) # Expected(r, r.in[c]) THEN Garble(r)
      ELSE IF Len(p.data) < p.len THEN [reader |-> next, out |-> <<>>]
      ELSE [reader |-> Handle([next EXCEPT !.in[c].data = <<>>], p.type),
            out |-> <<Delivered(p)>>]

\* A control message fits one chunk of any size the reader accepts.
ReadControl(r, b) ==
  LET p == [known |-> TRUE, clock |-> 0, delta |-> 0, ts |-> 0, len |-> b.m.len,
            type |-> b.m.type, sid |-> 0, data |-> <<>>]
  IN  [reader |-> Handle([r EXCEPT !.in[b.m.cid] = p], b.m.type), out |-> <<Meaning(b.m)>>]

\* rtmp_chunk_read over the bytes of one buffer.
Read(r, b) ==
  IF r.garbled THEN [reader |-> r, out |-> <<>>]
  ELSE IF r.at = <<>> /\ b.kind = "header" THEN ReadHeader(r, b)
  ELSE IF r.at = <<>> /\ b.kind = "control" THEN ReadControl(r, b)
  ELSE IF r.at # <<>> /\ b.kind = "payload" THEN ReadPayload(r, b)
  ELSE Garble(r)

-----------------------------------------------------------------------------
(* The two ends of a chunk stream agree: whatever is written next is       *)
(* expanded to what was meant.                                             *)

InStep(p, q) ==
  /\ q.clock = p.clock
  /\ q.len = p.len /\ q.type = p.type /\ q.sid = p.sid
  /\ q.ts = (IF p.ts >= Ext THEN Ext ELSE p.ts)
=============================================================================
