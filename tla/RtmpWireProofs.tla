--------------------------- MODULE RtmpWireProofs ---------------------------
(***************************************************************************)
(* Proofs about RtmpWire and the chunk layer of RtmpChunks below it, for   *)
(* every chunk size, time stamp, payload length, number of messages and    *)
(* capacity of the socket.                                                 *)
(*                                                                         *)
(* WrittenUnderstood is about the two ends of librtmp alone: a reader that *)
(* remembers what the writer remembers (Synced) and reads everything that  *)
(* one message makes the writer write hands over that message, and is      *)
(* Synced with the writer again.  It rests on how a message is cut into    *)
(* chunks and put together again, and on how a header leaves out what the  *)
(* previous one on its chunk stream said.                                  *)
(*                                                                         *)
(* ClientInv carries this through the loops that interleave.  Order: what  *)
(* the two tasks took, in the order they came to the lock, then what the   *)
(* cache still holds, is all that is unwritten.  Understood: the reader,   *)
(* when it will have read the wire and then the unwritten, is in step with *)
(* the writer and will have delivered what is pending.  Both need the lock *)
(* of the client; the server has none, so only the types (TypeInv) are     *)
(* proved of both roles.                                                   *)
(***************************************************************************)
EXTENDS RtmpWire, BasicLemmas, SequenceTheorems, TLAPS

-----------------------------------------------------------------------------
(* Arithmetic.                                                             *)

\* A number below the modulus is its own remainder.
LEMMA SmallRemainder ==
  ASSUME NEW w \in Nat \ {0}, NEW x \in 0 .. w - 1
  PROVE  x % w = x
OBVIOUS

LEMMA NoRemainder ==
  ASSUME NEW w \in Nat \ {0}, NEW k \in Nat
  PROVE  (k * w) % w = 0
OBVIOUS

\* The clock of the writer and the delta in a compressed header give the time stamp.
LEMMA ClockAdvances ==
  ASSUME NEW p \in 0 .. Wrap - 1, NEW ts \in 0 .. Wrap - 1, ts >= p,
         NEW d, d = (ts - p) % Wrap
  PROVE  (p + d) % Wrap = ts
<1>1. Wrap \in Nat \ {0} /\ ts - p \in 0 .. Wrap - 1
  BY ChunkAssumption
<1>2. (ts - p) % Wrap = ts - p
  BY <1>1, SmallRemainder
<1>3. p + (ts - p) = ts
  BY <1>1
<1>4. d = ts - p
  BY <1>2
<1>5. p + d = ts
  BY <1>3, <1>4
<1> QED  BY <1>1, <1>5, SmallRemainder

\* The number of pieces of size bytes that len bytes make.
LEMMA Pieces ==
  ASSUME NEW len \in Nat \ {0}, NEW size \in Nat \ {0}
  PROVE  LET n == (len + size - 1) \div size
         IN  n \in Nat \ {0} /\ (n - 1) * size < len /\ len <= n * size
OBVIOUS

-----------------------------------------------------------------------------
(* Types.                                                                  *)

Clock == 0 .. Wrap - 1
Types == {"none", "garbage", "Invoke", "Data", "audio", "video", "Ack", "WindowAck",
          "PeerBandwidth", "SetChunkSize", "Event"}
Byte == ((Tasks \X Nat) \cup {0}) \X Nat

\* What is handed over to be sent, and what is delivered.
Packet == [id : (Tasks \X Nat) \cup {0}, cid : Cids, type : Types \ {"none", "garbage"},
           sid : Nat, ts : Clock, len : Nat \ {0}, zip : BOOLEAN]
Chunked(m) == m.cid # "protocol" /\ m.type # "SetChunkSize"
Message == [data : Seq(Byte), type : Types, sid : Nat, ts : Clock]

\* The buffers between the writer and the reader.
HeaderBuffers == [kind : {"header"}, fmt : 0 .. 3, cid : Cids, len : Nat, type : Types,
                  sid : Nat, ts : 0 .. Ext, ext : Seq(Clock)]
PayloadBuffers == [kind : {"payload"}, bytes : Seq(Byte)]
ControlBuffers == [kind : {"control"}, m : Packet]
Buffer == HeaderBuffers \cup PayloadBuffers \cup ControlBuffers

\* The two ends.
OutPacket == [clock : Clock, ts : Clock, len : Nat, type : Types, sid : Nat]
InPacket == [known : BOOLEAN, clock : Clock, delta : Clock, ts : 0 .. Ext, len : Nat,
             type : Types, sid : Nat, data : Seq(Byte)]
Sizes == {FirstChunk, NextChunk}
Reader == [in : [Cids -> InPacket], chunk : Sizes, at : {<<>>} \cup {<<c>> : c \in Cids},
           garbled : BOOLEAN]

LEMMA Constants ==
  /\ Ext \in Nat \ {0} /\ Wrap \in Nat \ {0} /\ Ext \in Clock /\ 0 \in Clock /\ Clock \subseteq Nat
  /\ Sizes \subseteq Nat \ {0}
BY ChunkAssumption DEF Clock, Sizes

\* What is delivered when bytes are read that nobody sent.
LEMMA GarbageType ==
  ASSUME NEW r \in Reader
  PROVE  Garble(r).reader \in Reader /\ Garble(r).out \in Seq(Message)
<1>1. Garbage \in Message
  BY Constants DEF Garbage, Message, Types
<1>2. Garble(r).reader \in Reader
  BY DEF Garble, Reader
<1> QED  BY <1>1, <1>2 DEF Garble

LEMMA ReadHeaderType ==
  ASSUME NEW r \in Reader, NEW b \in HeaderBuffers
  PROVE  ReadHeader(r, b).reader \in Reader /\ ReadHeader(r, b).out \in Seq(Message)
<1> DEFINE q == r.in[b.cid]
           p == HeaderRead(q, b)
           t == IF p.ts = Ext THEN b.ext[1] ELSE p.ts
           wellFormed == /\ q.known \/ b.fmt <= 1
                         /\ (p.ts = Ext) = (b.ext # <<>>)
                         /\ p.ts = Ext /\ b.fmt = 3 => b.ext[1] = p.delta
<1>1. q \in InPacket /\ b.cid \in Cids
  BY DEF Reader, HeaderBuffers
<1>2. p \in InPacket /\ p.data = q.data
  <2> HIDE DEF q
  <2> QED  BY <1>1 DEF HeaderRead, HeaderBuffers, InPacket
<1>3. ASSUME wellFormed  PROVE t \in Clock
  <2>1. CASE p.ts = Ext
    <3>1. b.ext \in Seq(Clock) /\ b.ext # <<>>
      BY <1>3, <2>1 DEF HeaderBuffers
    <3>2. b.ext[1] \in Clock
      BY <3>1, FirstAndRest
    <3> QED  BY <2>1, <3>2
  <2>2. CASE p.ts # Ext
    <3> HIDE DEF p
    <3> QED  BY <1>2, <2>2, Constants DEF InPacket, Clock
  <2> QED  BY <2>1, <2>2
<1>4. ASSUME wellFormed  PROVE ClockRead(p, b) \in InPacket
  <2>2. t \in Clock
    BY <1>3, <1>4
  <2>1. (p.clock + t) % Wrap \in Clock
    <3> HIDE DEF p, t
    <3>0. p.clock \in Clock
      BY <1>2 DEF InPacket
    <3>1. p.clock + t \in Nat /\ Wrap \in Nat \ {0}
      BY <3>0, <2>2, Constants DEF Clock
    <3> QED  BY <3>1 DEF Clock
  <2>3. ClockRead(p, b) = IF p.data # <<>> THEN p
              ELSE [p EXCEPT !.delta = t, !.clock = IF b.fmt = 0 THEN t ELSE (p.clock + t) % Wrap]
    BY DEF ClockRead
  <2> HIDE DEF p, t
  <2> QED  BY <1>2, <2>1, <2>2, <2>3 DEF InPacket
<1>5. CASE wellFormed
  <2>1. ReadHeader(r, b) = [reader |-> [r EXCEPT !.in[b.cid] = ClockRead(p, b), !.at = <<b.cid>>],
                            out |-> <<>>]
    BY <1>5 DEF ReadHeader
  <2> DEFINE x == ClockRead(p, b)
  <2>2. x \in InPacket /\ <<b.cid>> \in {<<c>> : c \in Cids}
    BY <1>1, <1>4, <1>5
  <2>3. ReadHeader(r, b).out = <<>>
    BY <2>1
  <2> HIDE DEF x, p, q
  <2>4. [r EXCEPT !.in[b.cid] = x, !.at = <<b.cid>>] \in Reader
    BY <1>1, <2>2 DEF Reader
  <2> QED  BY <2>1, <2>3, <2>4 DEF x
<1>6. CASE ~wellFormed
  <2>1. ReadHeader(r, b) = Garble(r)
    BY <1>6 DEF ReadHeader
  <2> QED  BY <2>1, GarbageType
<1> QED  BY <1>5, <1>6

LEMMA HandleType ==
  ASSUME NEW r \in Reader, NEW type
  PROVE  Handle(r, type) \in Reader
BY DEF Handle, Reader, Sizes

LEMMA ReadPayloadType ==
  ASSUME NEW r \in Reader, r.at # <<>>, NEW b \in PayloadBuffers
  PROVE  ReadPayload(r, b).reader \in Reader /\ ReadPayload(r, b).out \in Seq(Message)
<1> DEFINE c == r.at[1]
           p == [r.in[c] EXCEPT !.data = @ \o b.bytes]
           next == [r EXCEPT !.in[c] = p, !.at = <<>>]
           handled == [next EXCEPT !.in[c].data = <<>>]
<1>1. c \in Cids /\ r.in[c] \in InPacket
  BY DEF Reader
<1>2. p \in InPacket
  <2>1. r.in[c].data \in Seq(Byte) /\ b.bytes \in Seq(Byte)
    BY <1>1 DEF InPacket, PayloadBuffers
  <2>2. r.in[c].data \o b.bytes \in Seq(Byte)
    BY <2>1, ConcatProperties
  <2> HIDE DEF c
  <2> QED  BY <1>1, <2>2 DEF InPacket
<1> HIDE DEF c, p
<1>3. next \in Reader
  BY <1>1, <1>2 DEF Reader
<1>4. handled \in Reader
  <2>1. handled = [r EXCEPT !.in[c] = [p EXCEPT !.data = <<>>], !.at = <<>>]
    BY <1>1 DEF Reader
  <2>2. <<>> \in Seq(Byte)
    OBVIOUS
  <2>3. [p EXCEPT !.data = <<>>] \in InPacket
    BY <1>2, <2>2 DEF InPacket
  <2> QED  BY <1>1, <2>1, <2>3 DEF Reader
<1>5. Delivered(p) \in Message
  BY <1>2 DEF Delivered, InPacket, Message
<1>6. ReadPayload(r, b) \in
        {Garble(r), [reader |-> next, out |-> <<>>],
         [reader |-> Handle(handled, p.type), out |-> <<Delivered(p)>>]}
  BY DEF ReadPayload, c, p
<1> HIDE DEF next, handled
<1>7. Handle(handled, p.type) \in Reader
  BY <1>4, HandleType
<1>8. <<>> \in Seq(Message) /\ <<Delivered(p)>> \in Seq(Message)
  BY <1>5
<1> DEFINE x == ReadPayload(r, b)
<1> HIDE DEF x
<1>9. CASE x = Garble(r)
  BY <1>9, GarbageType DEF x
<1>10. CASE x # Garble(r)
  <2>1. x.reader \in {next, Handle(handled, p.type)} /\ x.out \in {<<>>, <<Delivered(p)>>}
    BY <1>6, <1>10 DEF x
  <2> QED  BY <1>3, <1>7, <1>8, <2>1 DEF x
<1> QED  BY <1>9, <1>10

\* The bytes of a message, and what is meant by it.
LEMMA MeaningType ==
  ASSUME NEW m \in Packet
  PROVE  /\ Payload(m) \in Seq(Byte) /\ Len(Payload(m)) = m.len /\ m.len \in Nat \ {0}
         /\ Meaning(m) \in Message
<1>1. m.len \in Nat \ {0} /\ m.id \in (Tasks \X Nat) \cup {0}
  BY DEF Packet
<1>2. Payload(m) \in Seq(Byte) /\ Len(Payload(m)) = m.len
  BY <1>1 DEF Payload, Byte
<1>3. Meaning(m) \in Message
  BY <1>2 DEF Meaning, Message, Packet
<1> QED  BY <1>1, <1>2, <1>3

LEMMA ReadControlType ==
  ASSUME NEW r \in Reader, NEW b \in ControlBuffers
  PROVE  ReadControl(r, b).reader \in Reader /\ ReadControl(r, b).out \in Seq(Message)
<1> DEFINE m == b.m
           p == [known |-> TRUE, clock |-> 0, delta |-> 0, ts |-> 0, len |-> m.len,
                 type |-> m.type, sid |-> 0, data |-> <<>>]
           x == [r EXCEPT !.in[m.cid] = p]
<1>1. m \in Packet
  BY DEF ControlBuffers
<1>2. p \in InPacket /\ m.cid \in Cids
  <2>1. <<>> \in Seq(Byte) /\ 0 \in 0 .. Ext
    BY Constants
  <2> HIDE DEF m
  <2> QED  BY <1>1, <2>1, Constants DEF Packet, InPacket
<1>3. Meaning(m) \in Message
  BY <1>1, MeaningType
<1>4. ReadControl(r, b) = [reader |-> Handle(x, m.type), out |-> <<Meaning(m)>>]
  BY DEF ReadControl
<1> HIDE DEF m, p
<1>5. x \in Reader
  BY <1>2 DEF Reader
<1> HIDE DEF x
<1> QED  BY <1>3, <1>4, <1>5, HandleType

\* Whatever is read, and in whatever order, the reader keeps its type.
LEMMA ReadType ==
  ASSUME NEW r \in Reader, NEW b \in Buffer
  PROVE  Read(r, b).reader \in Reader /\ Read(r, b).out \in Seq(Message)
<1>1. <<>> \in Seq(Message)
  OBVIOUS
<1>2. CASE r.garbled
  BY <1>1, <1>2 DEF Read
<1>3. CASE ~r.garbled /\ r.at = <<>> /\ b.kind = "header"
  <2>1. b \in HeaderBuffers
    BY <1>3 DEF Buffer, PayloadBuffers, ControlBuffers
  <2> QED  BY <1>3, <2>1, ReadHeaderType DEF Read
<1>4. CASE ~r.garbled /\ r.at = <<>> /\ b.kind = "control"
  <2>1. b \in ControlBuffers
    BY <1>4 DEF Buffer, PayloadBuffers, HeaderBuffers
  <2> QED  BY <1>4, <2>1, ReadControlType DEF Read
<1>5. CASE ~r.garbled /\ r.at # <<>> /\ b.kind = "payload"
  <2>1. b \in PayloadBuffers
    BY <1>5 DEF Buffer, HeaderBuffers, ControlBuffers
  <2> QED  BY <1>5, <2>1, ReadPayloadType DEF Read
<1>6. CASE /\ ~r.garbled /\ ~(r.at = <<>> /\ b.kind = "header")
           /\ ~(r.at = <<>> /\ b.kind = "control") /\ ~(r.at # <<>> /\ b.kind = "payload")
  BY <1>6, GarbageType DEF Read
<1> QED  BY <1>2, <1>3, <1>4, <1>5, <1>6

\* At most one message is delivered for a buffer.
LEMMA ReadOutput ==
  ASSUME NEW r \in Reader, NEW b \in Buffer
  PROVE  Read(r, b).out = <<>> \/ \E m \in Message : Read(r, b).out = <<m>>
<1> DEFINE x == Read(r, b)
<1>1. x.out \in Seq(Message)
  BY ReadType
<1>2. Garble(r).out = <<Garbage>>
  BY DEF Garble
<1>3. ReadControl(r, b).out = <<Meaning(b.m)>>
  BY DEF ReadControl
<1>4. ReadHeader(r, b).out = <<>> \/ ReadHeader(r, b).out = <<Garbage>>
  BY <1>2 DEF ReadHeader
<1>5. ReadPayload(r, b).out = <<>> \/ \E m : ReadPayload(r, b).out = <<m>>
  BY <1>2 DEF ReadPayload
<1>6. x.out = <<>> \/ \E m : x.out = <<m>>
  BY <1>2, <1>3, <1>4, <1>5 DEF Read
<1> HIDE DEF x
<1>7. ASSUME NEW m, x.out = <<m>>  PROVE m \in Message
  <2>1. Len(x.out) = 1 /\ x.out[1] = m
    BY <1>7
  <2> QED  BY <1>1, <2>1
<1> QED  BY <1>6, <1>7 DEF x

-----------------------------------------------------------------------------
(* What a reader makes of several buffers: the reader that is left and the *)
(* messages it delivers.                                                   *)

LEMMA ConcatAppend ==
  ASSUME NEW a \in Seq(Buffer), NEW s \in Seq(Buffer), NEW e \in Buffer
  PROVE  a \o Append(s, e) = Append(a \o s, e)
<1> DEFINE l == <<e>>
<1>1. l \in Seq(Buffer) /\ Append(s, e) = s \o l
  BY AppendIsConcat
<1>2. \A w \in Seq(Buffer) : Append(w, e) = w \o l
  BY AppendIsConcat
<1> HIDE DEF l
<1>3. a \o s \in Seq(Buffer)
  BY ConcatProperties
<1>4. a \o (s \o l) = (a \o s) \o l
  BY <1>1, ConcatAssociative
<1> QED  BY <1>1, <1>2, <1>3, <1>4

Outcome == [reader : Reader, out : Seq(Message)]

After(x, b) == [reader |-> Read(x.reader, b).reader, out |-> x.out \o Read(x.reader, b).out]

Reads(r, bs) ==
  LET reads[n \in 0 .. Len(bs)] ==
        IF n = 0 THEN [reader |-> r, out |-> <<>>] ELSE After(reads[n - 1], bs[n])
  IN  reads[Len(bs)]

ReadsTo(f, r, bs) ==
  /\ f \in [0 .. Len(bs) -> Outcome]
  /\ f[0] = [reader |-> r, out |-> <<>>]
  /\ \A k \in 1 .. Len(bs) : f[k] = After(f[k - 1], bs[k])

LEMMA AfterType ==
  ASSUME NEW x \in Outcome, NEW b \in Buffer
  PROVE  After(x, b) \in Outcome
<1>1. x.reader \in Reader /\ x.out \in Seq(Message)
  BY DEF Outcome
<1>2. Read(x.reader, b).reader \in Reader /\ Read(x.reader, b).out \in Seq(Message)
  BY <1>1, ReadType
<1>3. x.out \o Read(x.reader, b).out \in Seq(Message)
  BY <1>1, <1>2, ConcatProperties
<1> QED  BY <1>2, <1>3 DEF After, Outcome

LEMMA ReadsExist ==
  ASSUME NEW r \in Reader, NEW bs \in Seq(Buffer)
  PROVE  \E f : ReadsTo(f, r, bs) /\ Reads(r, bs) = f[Len(bs)]
<1> DEFINE n == Len(bs)
           x == [reader |-> r, out |-> <<>>]
           step == [k \in 1 .. n |-> [y \in Outcome |-> After(y, bs[k])]]
           Body(g) == [k \in 0 .. n |-> IF k = 0 THEN x ELSE After(g[k - 1], bs[k])]
           reads == CHOOSE g : g = Body(g)
<1>0. n \in Nat /\ \A k \in 1 .. n : bs[k] \in Buffer
  BY ElementOfSeq
<1>1. x \in Outcome
  <2>1. <<>> \in Seq(Message)
    OBVIOUS
  <2> QED  BY <2>1 DEF Outcome
<1>2. Reads(r, bs) = reads[n]
  BY DEF Reads
<1> HIDE DEF n, x
<1>3. PICK f \in [0 .. n -> Outcome] : f[0] = x /\ \A k \in 1 .. n : f[k] = After(f[k - 1], bs[k])
  <2>1. step \in [1 .. n -> [Outcome -> Outcome]]
    <3>1. ASSUME NEW k \in 1 .. n, NEW y \in Outcome  PROVE After(y, bs[k]) \in Outcome
      BY <1>0, AfterType
    <3> QED  BY <3>1
  <2> HIDE DEF step
  <2>2. PICK f \in [0 .. n -> Outcome] : Recursion(f, n, x, step)
    BY <1>0, <1>1, <2>1, RecursionUpTo
  <2>3. f[0] = x /\ \A k \in 1 .. n : f[k] = step[k][f[k - 1]]
    BY <2>2 DEF Recursion
  <2>4. ASSUME NEW k \in 1 .. n  PROVE f[k] = After(f[k - 1], bs[k])
    <3>1. k - 1 \in 0 .. n
      BY <1>0
    <3>2. f[k - 1] \in Outcome
      BY <3>1
    <3>3. \A y \in Outcome : step[k][y] = After(y, bs[k])
      BY DEF step
    <3> QED  BY <2>3, <3>2, <3>3
  <2> QED  BY <2>3, <2>4
<1>4. f = Body(f)
  <2>1. ASSUME NEW k \in 0 .. n  PROVE f[k] = IF k = 0 THEN x ELSE After(f[k - 1], bs[k])
    <3>1. CASE k = 0
      BY <1>3, <3>1
    <3>2. CASE k # 0
      <4>1. k \in 1 .. n
        BY <1>0, <3>2
      <4> QED  BY <1>3, <3>2, <4>1
    <3> QED  BY <3>1, <3>2
  <2> QED  BY <1>3, <2>1
<1>5. reads = Body(reads)
  <2> HIDE DEF Body
  <2> QED  BY <1>4
<1>6. reads[0] = x /\ \A k \in 1 .. n : reads[k] = After(reads[k - 1], bs[k])
  <2> HIDE DEF reads
  <2>1. \A k \in 0 .. n : reads[k] = IF k = 0 THEN x ELSE After(reads[k - 1], bs[k])
    BY <1>5
  <2>2. 0 \in 0 .. n
    BY <1>0
  <2>3. ASSUME NEW k \in 1 .. n  PROVE k \in 0 .. n /\ k # 0
    BY <1>0
  <2> QED  BY <2>1, <2>2, <2>3
<1> DEFINE Q == {k \in 0 .. n : reads[k] = f[k]}
<1> HIDE DEF reads, Body
<1>7. n \in Q
  <2>1. 0 \in Q
    BY <1>0, <1>3, <1>6
  <2>2. ASSUME NEW k \in 0 .. (n - 1), k \in Q  PROVE k + 1 \in Q
    <3>1. k + 1 \in 1 .. n /\ (k + 1) - 1 = k /\ k + 1 \in 0 .. n
      BY <1>0
    <3>2. reads[k + 1] = After(reads[k], bs[k + 1]) /\ f[k + 1] = After(f[k], bs[k + 1])
      BY <1>3, <1>6, <3>1
    <3> QED  BY <2>2, <3>1, <3>2
  <2>3. 0 .. n \subseteq Q
    <3> HIDE DEF Q
    <3> QED  BY <1>0, <2>1, <2>2, InductionUpTo
  <2> QED  BY <1>0, <2>3
<1>8. ReadsTo(f, r, bs)
  BY <1>3 DEF ReadsTo, n, x
<1> QED  BY <1>2, <1>7, <1>8 DEF n

LEMMA ReadsType ==
  ASSUME NEW r \in Reader, NEW bs \in Seq(Buffer)
  PROVE  Reads(r, bs) \in Outcome /\ Reads(r, bs).reader \in Reader /\ Reads(r, bs).out \in Seq(Message)
<1>1. PICK f : ReadsTo(f, r, bs) /\ Reads(r, bs) = f[Len(bs)]
  BY ReadsExist
<1>2. Len(bs) \in 0 .. Len(bs)
  BY LenProperties
<1> QED  BY <1>1, <1>2 DEF ReadsTo, Outcome

LEMMA ReadsNone ==
  ASSUME NEW r \in Reader
  PROVE  Reads(r, <<>>) = [reader |-> r, out |-> <<>>]
<1>1. <<>> \in Seq(Buffer) /\ Len(<<>>) = 0
  OBVIOUS
<1>2. PICK f : ReadsTo(f, r, <<>>) /\ Reads(r, <<>>) = f[Len(<<>>)]
  <2> DEFINE e == <<>>
  <2>1. e \in Seq(Buffer)
    BY <1>1
  <2> HIDE DEF e
  <2>2. \E f : ReadsTo(f, r, e) /\ Reads(r, e) = f[Len(e)]
    BY <2>1, ReadsExist
  <2> QED  BY <2>2 DEF e
<1> QED  BY <1>1, <1>2 DEF ReadsTo

\* One more buffer.
LEMMA ReadsAppend ==
  ASSUME NEW r \in Reader, NEW bs \in Seq(Buffer), NEW b \in Buffer
  PROVE  Reads(r, Append(bs, b)) = After(Reads(r, bs), b)
<1> DEFINE n == Len(bs)
           longer == Append(bs, b)
<1>0. /\ n \in Nat /\ longer \in Seq(Buffer) /\ Len(longer) = n + 1
      /\ \A k \in 1 .. n : longer[k] = bs[k]
      /\ longer[n + 1] = b
  BY AppendProperties, LenProperties
<1> HIDE DEF longer
<1>1. PICK f : ReadsTo(f, r, bs) /\ Reads(r, bs) = f[n]
  BY ReadsExist
<1>2. PICK g : ReadsTo(g, r, longer) /\ Reads(r, longer) = g[n + 1]
  BY <1>0, ReadsExist
<1> DEFINE Q == {k \in 0 .. n : f[k] = g[k]}
<1>3. /\ f[0] = g[0]
      /\ \A k \in 1 .. n : f[k] = After(f[k - 1], bs[k])
      /\ \A k \in 1 .. (n + 1) : g[k] = After(g[k - 1], longer[k])
  BY <1>0, <1>1, <1>2 DEF ReadsTo
<1> HIDE DEF n
<1>4. 0 \in Q
  BY <1>0, <1>3
<1>5. ASSUME NEW k \in 0 .. (n - 1), k \in Q  PROVE k + 1 \in Q
  <2>1. k + 1 \in 1 .. n /\ k + 1 \in 1 .. (n + 1) /\ (k + 1) - 1 = k /\ k + 1 \in 0 .. n
    BY <1>0
  <2>2. f[k + 1] = After(f[k], bs[k + 1]) /\ g[k + 1] = After(g[k], longer[k + 1])
    BY <1>3, <2>1
  <2> QED  BY <1>0, <1>5, <2>1, <2>2
<1>6. f[n] = g[n]
  <2>1. 0 .. n \subseteq Q
    <3> HIDE DEF Q
    <3> QED  BY <1>0, <1>4, <1>5, InductionUpTo
  <2> QED  BY <1>0, <2>1
<1>7. g[n + 1] = After(g[n], b)
  <2>1. n + 1 \in 1 .. (n + 1) /\ (n + 1) - 1 = n
    BY <1>0
  <2> QED  BY <1>0, <1>3, <2>1
<1> QED  BY <1>1, <1>2, <1>6, <1>7 DEF longer

\* What is read first, then the rest.
LEMMA ReadsConcat ==
  ASSUME NEW r \in Reader, NEW as \in Seq(Buffer), NEW bs \in Seq(Buffer)
  PROVE  Reads(r, as \o bs) =
           [reader |-> Reads(Reads(r, as).reader, bs).reader,
            out |-> Reads(r, as).out \o Reads(Reads(r, as).reader, bs).out]
<1> DEFINE q == Reads(r, as).reader
           x == Reads(r, as).out
           P == {s \in Seq(Buffer) : Reads(r, as \o s) = [reader |-> Reads(q, s).reader,
                                                          out |-> x \o Reads(q, s).out]}
<1>0. q \in Reader /\ x \in Seq(Message) /\ Reads(r, as) = [reader |-> q, out |-> x]
  BY ReadsType DEF Outcome
<1> HIDE DEF q, x
<1>1. <<>> \in P
  <2>1. as \o <<>> = as /\ x \o <<>> = x
    BY <1>0, ConcatEmptySeq
  <2>2. Reads(q, <<>>) = [reader |-> q, out |-> <<>>]
    BY <1>0, ReadsNone
  <2>3. <<>> \in Seq(Buffer)
    OBVIOUS
  <2> DEFINE y == Reads(q, <<>>)
  <2>5. y.reader = q /\ y.out = <<>>
    BY <2>2
  <2> HIDE DEF y
  <2>6. [reader |-> y.reader, out |-> x \o y.out] = [reader |-> q, out |-> x]
    BY <2>1, <2>5
  <2>4. Reads(r, as \o <<>>) = [reader |-> Reads(q, <<>>).reader, out |-> x \o Reads(q, <<>>).out]
    BY <1>0, <2>1, <2>6 DEF y
  <2> QED  BY <2>3, <2>4
<1>2. ASSUME NEW s \in Seq(Buffer), NEW e \in Buffer, s \in P  PROVE Append(s, e) \in P
  <2>1. as \o s \in Seq(Buffer) /\ Append(s, e) \in Seq(Buffer)
    BY ConcatProperties, AppendProperties
  <2>2. as \o Append(s, e) = Append(as \o s, e)
    BY ConcatAppend
  <2>3. Reads(r, Append(as \o s, e)) = After(Reads(r, as \o s), e)
    BY <2>1, ReadsAppend
  <2>4. Reads(q, Append(s, e)) = After(Reads(q, s), e)
    BY <1>0, ReadsAppend
  <2>5. Reads(r, as \o s) = [reader |-> Reads(q, s).reader, out |-> x \o Reads(q, s).out]
    BY <1>2
  <2> DEFINE p == Reads(q, s).reader
             y == Reads(q, s).out
             z == Read(p, e).out
  <2>6. p \in Reader /\ y \in Seq(Message)
    BY <1>0, ReadsType
  <2>7. z \in Seq(Message)
    BY <2>6, ReadType
  <2> HIDE DEF p, y
  <2>8. Reads(r, as \o Append(s, e)) = [reader |-> Read(p, e).reader, out |-> (x \o y) \o z]
    BY <2>2, <2>3, <2>5 DEF After, p, y
  <2>9. Reads(q, Append(s, e)) = [reader |-> Read(p, e).reader, out |-> y \o z]
    BY <2>4 DEF After, p, y
  <2> HIDE DEF z
  <2>10. (x \o y) \o z = x \o (y \o z)
    BY <1>0, <2>6, <2>7, ConcatAssociative
  <2> DEFINE w == Reads(q, Append(s, e))
  <2>11. w.reader = Read(p, e).reader /\ w.out = y \o z
    BY <2>9
  <2> HIDE DEF w
  <2>12. Reads(r, as \o Append(s, e)) = [reader |-> w.reader, out |-> x \o w.out]
    BY <2>8, <2>10, <2>11
  <2> QED  BY <2>1, <2>12 DEF w
<1>3. bs \in P
  <2> HIDE DEF P
  <2>1. Seq(Buffer) \subseteq P
    BY <1>1, <1>2, ListInduction
  <2> QED  BY <2>1
<1> QED  BY <1>3 DEF q, x

\* One buffer, then the rest.
LEMMA ReadsOne ==
  ASSUME NEW r \in Reader, NEW b \in Buffer
  PROVE  /\ Reads(r, <<b>>) = [reader |-> Read(r, b).reader, out |-> Read(r, b).out]
         /\ <<b>> \in Seq(Buffer)
<1>1. <<>> \in Seq(Buffer) /\ Append(<<>>, b) = <<b>> /\ <<b>> \in Seq(Buffer)
  OBVIOUS
<1>2. Reads(r, <<>>) = [reader |-> r, out |-> <<>>]
  BY ReadsNone
<1>3. Reads(r, Append(<<>>, b)) = After(Reads(r, <<>>), b)
  <2> DEFINE e == <<>>
  <2>1. e \in Seq(Buffer)
    BY <1>1
  <2> HIDE DEF e
  <2>2. Reads(r, Append(e, b)) = After(Reads(r, e), b)
    BY <2>1, ReadsAppend
  <2> QED  BY <2>2 DEF e
<1>4. <<>> \o Read(r, b).out = Read(r, b).out
  BY ReadType, ConcatEmptySeq
<1>5. After(Reads(r, <<>>), b) = [reader |-> Read(r, b).reader, out |-> Read(r, b).out]
  <2> DEFINE y == Reads(r, <<>>)
             z == Read(r, b).out
  <2>1. y.reader = r /\ y.out = <<>>
    BY <1>2
  <2> HIDE DEF y
  <2>2. y.out \o Read(y.reader, b).out = z
    BY <1>4, <2>1
  <2>3. After(y, b) = [reader |-> Read(r, b).reader, out |-> z]
    BY <2>1, <2>2 DEF After
  <2> QED  BY <2>3 DEF y
<1> QED  BY <1>1, <1>3, <1>5, Zenon

LEMMA ReadsFirst ==
  ASSUME NEW r \in Reader, NEW b \in Buffer, NEW bs \in Seq(Buffer)
  PROVE  Reads(r, <<b>> \o bs) =
           [reader |-> Reads(Read(r, b).reader, bs).reader,
            out |-> Read(r, b).out \o Reads(Read(r, b).reader, bs).out]
<1> DEFINE e == <<b>>
<1>1. e \in Seq(Buffer) /\ Reads(r, e) = [reader |-> Read(r, b).reader, out |-> Read(r, b).out]
  BY ReadsOne
<1> HIDE DEF e
<1>2. Reads(r, e \o bs) = [reader |-> Reads(Reads(r, e).reader, bs).reader,
                           out |-> Reads(r, e).out \o Reads(Reads(r, e).reader, bs).out]
  BY <1>1, ReadsConcat
<1>3. Reads(r, e).reader = Read(r, b).reader /\ Reads(r, e).out = Read(r, b).out
  BY <1>1
<1> QED  BY <1>2, <1>3 DEF e

-----------------------------------------------------------------------------
(* The chunks of a message: how many there are, and the bytes the first i  *)
(* of them carry.                                                          *)

Chunks(m, size) == (m.len + size - 1) \div size
UpTo(m, size, i) == IF i = Chunks(m, size) THEN m.len ELSE i * size
Piece(m, size, i) == SubSeq(Payload(m), (i - 1) * size + 1, UpTo(m, size, i))
SentUpTo(m, size, i) == SubSeq(Payload(m), 1, UpTo(m, size, i))

LEMMA Times ==
  ASSUME NEW a \in Nat, NEW b \in Nat, a <= b, NEW s \in Nat
  PROVE  a * s <= b * s /\ a * s \in Nat /\ b * s \in Nat
OBVIOUS

LEMMA ChunkSizes ==
  ASSUME NEW m \in Packet, NEW size \in Sizes, NEW i \in 1 .. Chunks(m, size)
  PROVE  /\ UpTo(m, size, i - 1) = (i - 1) * size /\ (i - 1) * size \in Nat
         /\ UpTo(m, size, i) \in Nat /\ (i - 1) * size < UpTo(m, size, i)
         /\ UpTo(m, size, i) <= m.len
         /\ ((i - 1) * size) % size = 0 /\ size \in Nat \ {0}
         /\ i < Chunks(m, size) => /\ UpTo(m, size, i) = (i - 1) * size + size
                                   /\ UpTo(m, size, i) < m.len
         /\ i = Chunks(m, size) => /\ UpTo(m, size, i) = m.len
                                   /\ m.len <= (i - 1) * size + size
<1> DEFINE n == Chunks(m, size)
<1>1. m.len \in Nat \ {0} /\ size \in Nat \ {0}
  BY MeaningType, Constants
<1>2. n \in Nat \ {0} /\ (n - 1) * size < m.len /\ m.len <= n * size
  <2> DEFINE len == m.len
  <2>1. len \in Nat \ {0}
    BY <1>1
  <2>2. n = (len + size - 1) \div size
    BY DEF Chunks
  <2> HIDE DEF n, len
  <2> QED  BY <1>1, <2>1, <2>2, Pieces DEF len
<1>3. UpTo(m, size, i - 1) = (IF i - 1 = n THEN m.len ELSE (i - 1) * size)
      /\ UpTo(m, size, i) = (IF i = n THEN m.len ELSE i * size)
  BY DEF UpTo
<1> HIDE DEF n
<1>4. i \in Nat /\ i - 1 \in Nat /\ i <= n /\ i - 1 <= n - 1 /\ n - 1 \in Nat /\ i - 1 # n
  BY <1>2 DEF n
<1>5. (i - 1) * size \in Nat /\ (i - 1) * size <= (n - 1) * size
  BY <1>1, <1>4, Times
<1>6. i * size = (i - 1) * size + size
  BY <1>1, <1>4
<1>7. ((i - 1) * size) % size = 0
  BY <1>1, <1>4, NoRemainder
<1>8. CASE i = n
  <2>1. UpTo(m, size, i) = m.len /\ UpTo(m, size, i - 1) = (i - 1) * size
    BY <1>3, <1>4, <1>8
  <2>2. (i - 1) * size < m.len /\ m.len <= (i - 1) * size + size
    BY <1>2, <1>6, <1>8
  <2> QED  BY <1>1, <1>5, <1>7, <1>8, <2>1, <2>2 DEF n
<1>9. CASE i # n
  <2>1. UpTo(m, size, i) = (i - 1) * size + size /\ UpTo(m, size, i - 1) = (i - 1) * size
    BY <1>3, <1>4, <1>6, <1>9
  <2>2. i <= n - 1
    BY <1>2, <1>4, <1>9
  <2>3. i * size <= (n - 1) * size
    BY <1>1, <1>4, <2>2, Times
  <2>4. (i - 1) * size + size < m.len
    <3> DEFINE a == (i - 1) * size
               b == (n - 1) * size
               len == m.len
    <3>1. a \in Nat /\ b \in Int /\ len \in Nat /\ a + size <= b /\ b < len
      BY <1>1, <1>2, <1>4, <1>5, <1>6, <2>3
    <3> HIDE DEF a, b, len
    <3> QED  BY <1>1, <3>1 DEF a, len
  <2>5. (i - 1) * size + size \in Nat /\ (i - 1) * size < (i - 1) * size + size
    BY <1>1, <1>5
  <2> QED  BY <1>1, <1>5, <1>7, <1>9, <2>1, <2>4, <2>5 DEF n
<1> QED  BY <1>8, <1>9

LEMMA ChunksType ==
  ASSUME NEW m \in Packet, NEW size \in Sizes
  PROVE  /\ Chunks(m, size) \in Nat \ {0} /\ UpTo(m, size, 0) = 0
         /\ UpTo(m, size, Chunks(m, size)) = m.len
<1> DEFINE len == m.len
<1>1. len \in Nat \ {0} /\ size \in Nat \ {0}
  BY MeaningType, Constants
<1>2. Chunks(m, size) = (len + size - 1) \div size
  BY DEF Chunks
<1> HIDE DEF len
<1>3. Chunks(m, size) \in Nat \ {0}
  BY <1>1, <1>2, Pieces
<1>4. 0 * size = 0
  BY <1>1
<1> QED  BY <1>3, <1>4 DEF UpTo

\* The piece in a chunk continues what was sent.
LEMMA PieceContinues ==
  ASSUME NEW m \in Packet, NEW size \in Sizes, NEW i \in 1 .. Chunks(m, size)
  PROVE  /\ Piece(m, size, i) \in Seq(Byte)
         /\ Len(Piece(m, size, i)) = UpTo(m, size, i) - (i - 1) * size
         /\ SentUpTo(m, size, i - 1) \in Seq(Byte)
         /\ Len(SentUpTo(m, size, i - 1)) = (i - 1) * size
         /\ SentUpTo(m, size, i) \in Seq(Byte) /\ Len(SentUpTo(m, size, i)) = UpTo(m, size, i)
         /\ SentUpTo(m, size, i) = SentUpTo(m, size, i - 1) \o Piece(m, size, i)
         /\ i = Chunks(m, size) => SentUpTo(m, size, i) = Payload(m)
<1> DEFINE s == Payload(m)
           a == (i - 1) * size
           b == UpTo(m, size, i)
<1>1. s \in Seq(Byte) /\ Len(s) = m.len /\ m.len \in Nat
  BY MeaningType
<1>2. a \in Nat /\ b \in Nat /\ a < b /\ b <= m.len
  BY <1>1, ChunkSizes
<1>3. UpTo(m, size, i - 1) = a /\ (i = Chunks(m, size) => b = m.len)
  BY ChunkSizes
<1> HIDE DEF s, a, b
<1>4. \A k \in 1 .. Len(s) : s[k] \in Byte
  BY <1>1, ElementOfSeq
<1>5. SubSeq(s, a + 1, b) \in Seq(Byte) /\ Len(SubSeq(s, a + 1, b)) = b - a
  <2>1. \A k \in (a + 1) .. b : s[k] \in Byte
    BY <1>1, <1>2, <1>4
  <2>2. Len(SubSeq(s, a + 1, b)) = IF a + 1 <= b THEN b - (a + 1) + 1 ELSE 0
    BY <1>2, <2>1, SubSeqProperties
  <2> QED  BY <1>2, <2>1, <2>2, SubSeqProperties
<1>6. ASSUME NEW k \in 0 .. Len(s)
      PROVE  SubSeq(s, 1, k) \in Seq(Byte) /\ Len(SubSeq(s, 1, k)) = k
  BY <1>1, Cut
<1>7. SubSeq(s, 1, a) \o SubSeq(s, a + 1, b) = SubSeq(s, 1, b)
  <2>1. 1 \in 1 .. (Len(s) + 1) /\ a \in (1 - 1) .. Len(s) /\ b \in a .. Len(s)
    BY <1>1, <1>2
  <2> QED  BY <1>1, <2>1, ConcatAdjacentSubSeq
<1>8. a \in 0 .. Len(s) /\ b \in 0 .. Len(s)
  BY <1>1, <1>2
<1>9. SubSeq(s, 1, Len(s)) = s
  BY <1>1, SubSeqFull
<1>10. /\ Piece(m, size, i) = SubSeq(s, a + 1, b)
       /\ SentUpTo(m, size, i - 1) = SubSeq(s, 1, a) /\ SentUpTo(m, size, i) = SubSeq(s, 1, b)
  BY <1>3 DEF Piece, SentUpTo, s, a, b
<1>11. b - a = UpTo(m, size, i) - (i - 1) * size
  BY DEF a, b
<1>12. i = Chunks(m, size) => SubSeq(s, 1, b) = s
  BY <1>1, <1>3, <1>9
<1> QED  BY <1>5, <1>6, <1>7, <1>8, <1>10, <1>11, <1>12 DEF s, a, b

-----------------------------------------------------------------------------
(* Types of what is written.                                               *)

LEMMA WrittenHeaderType ==
  ASSUME NEW p \in OutPacket, NEW m \in Packet, NEW fmt \in 0 .. 3
  PROVE  /\ ZipHeader(p, m).fmt \in 0 .. 3 /\ ZipHeader(p, m).ts \in Clock
         /\ HeaderBuffer(ZipHeader(p, m), fmt) \in HeaderBuffers
         /\ SavePacket(p, m) \in OutPacket
<1> DEFINE h == ZipHeader(p, m)
<1>1. m.ts \in Clock /\ p.clock \in Clock /\ m.cid \in Cids /\ m.len \in Nat /\ m.type \in Types
      /\ m.sid \in Nat
  BY DEF Packet, OutPacket
<1>2. Delta(p, m) \in Clock
  <2> DEFINE x == m.ts - p.clock
  <2>1. x \in Int /\ Wrap \in Nat \ {0}
    BY <1>1, Constants DEF Clock
  <2> HIDE DEF x
  <2>2. x % Wrap \in 0 .. Wrap - 1
    BY <2>1
  <2> QED  BY <2>2 DEF Delta, Clock, x
<1>3. h.fmt \in 0 .. 3
  BY DEF ZipHeader, Format
<1>4. h.ts \in Clock
  BY <1>1, <1>2 DEF ZipHeader
<1>5. h.cid \in Cids /\ h.len \in Nat /\ h.type \in Types /\ h.sid \in Nat
  BY <1>1 DEF ZipHeader
<1> HIDE DEF h
<1>6. <<>> \in Seq(Clock) /\ <<h.ts>> \in Seq(Clock)
  BY <1>4
<1>7. (IF h.ts >= Ext THEN Ext ELSE h.ts) \in 0 .. Ext
  BY <1>4, Constants DEF Clock
<1>8. HeaderBuffer(h, fmt) \in HeaderBuffers
  BY <1>5, <1>6, <1>7 DEF HeaderBuffer, HeaderBuffers
<1>9. SavePacket(p, m) \in OutPacket
  BY <1>1, <1>4 DEF SavePacket, OutPacket, h
<1> QED  BY <1>3, <1>4, <1>8, <1>9 DEF h

\* The buffers of one chunk, and of the first i.
ChunkOf(p, m, size, i) ==
  <<HeaderBuffer(ZipHeader(p, m), IF i = 1 THEN ZipHeader(p, m).fmt ELSE 3),
    PayloadBuffer(Piece(m, size, i))>>

LEMMA ChunkType ==
  ASSUME NEW p \in OutPacket, NEW m \in Packet, NEW size \in Sizes,
         NEW i \in 1 .. Chunks(m, size)
  PROVE  /\ HeaderBuffer(ZipHeader(p, m), IF i = 1 THEN ZipHeader(p, m).fmt ELSE 3) \in HeaderBuffers
         /\ PayloadBuffer(Piece(m, size, i)) \in PayloadBuffers
         /\ ChunkOf(p, m, size, i) \in Seq(Buffer)
<1> DEFINE h == HeaderBuffer(ZipHeader(p, m), IF i = 1 THEN ZipHeader(p, m).fmt ELSE 3)
           b == PayloadBuffer(Piece(m, size, i))
<1>1. h \in HeaderBuffers
  <2> DEFINE fmt == IF i = 1 THEN ZipHeader(p, m).fmt ELSE 3
  <2>1. 0 \in 0 .. 3 /\ 3 \in 0 .. 3
    OBVIOUS
  <2>2. ZipHeader(p, m).fmt \in 0 .. 3
    BY <2>1, WrittenHeaderType
  <2>3. fmt \in 0 .. 3
    BY <2>1, <2>2
  <2> HIDE DEF fmt
  <2>4. HeaderBuffer(ZipHeader(p, m), fmt) \in HeaderBuffers
    BY <2>3, WrittenHeaderType
  <2> QED  BY <2>4 DEF fmt
<1>2. b \in PayloadBuffers
  BY PieceContinues DEF PayloadBuffer, PayloadBuffers
<1> HIDE DEF h, b
<1>3. <<h, b>> \in Seq(Buffer)
  BY <1>1, <1>2 DEF Buffer
<1> QED  BY <1>1, <1>2, <1>3 DEF h, b, ChunkOf

LEMMA ChunkBuffersType ==
  ASSUME NEW p \in OutPacket, NEW m \in Packet, NEW size \in Sizes
  PROVE  /\ ChunkBuffers(p, m, size) \in Seq(Buffer)
         /\ \E f : /\ f \in [0 .. Chunks(m, size) -> Seq(Buffer)] /\ f[0] = <<>>
                   /\ \A i \in 1 .. Chunks(m, size) : f[i] = f[i - 1] \o ChunkOf(p, m, size, i)
                   /\ ChunkBuffers(p, m, size) = f[Chunks(m, size)]
<1> DEFINE n == Chunks(m, size)
           seqs == [i \in 1 .. n |-> ChunkOf(p, m, size, i)]
<1>1. n \in Nat
  BY ChunksType
<1>2. ChunkBuffers(p, m, size) = FlattenSeq(seqs)
  BY DEF ChunkBuffers, ChunkOf, Chunks, Piece, UpTo
<1>3. \A i \in 1 .. n : ChunkOf(p, m, size, i) \in Seq(Buffer)
  BY ChunkType
<1> HIDE DEF n
<1>4. seqs \in Seq(Seq(Buffer)) /\ Len(seqs) = n /\ \A i \in 1 .. n : seqs[i] = ChunkOf(p, m, size, i)
  BY <1>1, <1>3
<1> HIDE DEF seqs
<1>5. PICK f : FlattenTo(f, Buffer, seqs) /\ FlattenSeq(seqs) = f[n]
  BY <1>4, FlattenExists
<1>6. /\ f \in [0 .. n -> Seq(Buffer)] /\ f[0] = <<>>
      /\ \A i \in 1 .. n : f[i] = f[i - 1] \o ChunkOf(p, m, size, i)
  BY <1>4, <1>5 DEF FlattenTo
<1>7. FlattenSeq(seqs) \in Seq(Buffer)
  BY <1>4, FlattenType
<1> QED  BY <1>2, <1>5, <1>6, <1>7 DEF n

-----------------------------------------------------------------------------
(* A message is understood: the header of its first chunk against what     *)
(* both ends remember, the others against the first.                       *)

\* The packet of the reader while the message m is read, data being there so far,
\* when p is what the writer remembered before it.
Reading(p, m, data) ==
  [known |-> TRUE, clock |-> m.ts, delta |-> ZipHeader(p, m).ts,
   ts |-> IF ZipHeader(p, m).ts >= Ext THEN Ext ELSE ZipHeader(p, m).ts,
   len |-> m.len, type |-> m.type, sid |-> m.sid, data |-> data]

MidMessage(r, p, m, data, at) == [r EXCEPT !.in[m.cid] = Reading(p, m, data), !.at = at]

\* What the reader remembers of a chunk stream, against the writer's p.
Ready(p, q) == InStep(p, q) /\ q.delta = p.ts /\ q.data = <<>> /\ (q.known \/ p.type = "none")

Between(r, size) == ~r.garbled /\ r.at = <<>> /\ r.chunk = size

LEMMA FormatFacts ==
  ASSUME NEW p \in OutPacket, NEW m \in Packet
  PROVE  LET h == ZipHeader(p, m)
         IN  /\ h.fmt \in 0 .. 3 /\ h.ts \in Clock
             /\ h.fmt = 0 => h.ts = m.ts
             /\ h.fmt # 0 => h.ts < Ext /\ m.sid = p.sid /\ (p.clock + h.ts) % Wrap = m.ts
             /\ h.fmt \in {2, 3} => m.type = p.type /\ m.len = p.len
             /\ h.fmt = 3 => h.ts = p.ts
             /\ h.cid = m.cid /\ h.len = m.len /\ h.type = m.type /\ h.sid = m.sid
<1> DEFINE h == ZipHeader(p, m)
<1>1. h.fmt \in 0 .. 3 /\ h.ts \in Clock
  <2>1. 0 \in 0 .. 3
    OBVIOUS
  <2> QED  BY <2>1, WrittenHeaderType
<1>2. /\ h.fmt = Format(p, m) /\ h.cid = m.cid /\ h.len = m.len /\ h.type = m.type /\ h.sid = m.sid
      /\ h.ts = IF MayCompress(p, m) THEN Delta(p, m) ELSE m.ts
  BY DEF ZipHeader
<1> HIDE DEF h
<1>3. h.fmt = 0 => h.ts = m.ts
  BY <1>2 DEF Format
<1>4. h.fmt # 0 => MayCompress(p, m)
  BY <1>2 DEF Format
<1>5. ASSUME h.fmt # 0  PROVE h.ts < Ext /\ m.sid = p.sid /\ (p.clock + h.ts) % Wrap = m.ts
  <2>1. h.ts = (m.ts - p.clock) % Wrap /\ h.ts < Ext /\ m.sid = p.sid /\ m.ts >= p.clock
    BY <1>2, <1>4, <1>5 DEF MayCompress, Delta
  <2>2. m.ts \in 0 .. Wrap - 1 /\ p.clock \in 0 .. Wrap - 1
    BY DEF Packet, OutPacket, Clock
  <2> DEFINE d == (m.ts - p.clock) % Wrap
             ts == m.ts
             clock == p.clock
  <2>3. (p.clock + d) % Wrap = m.ts
    <3>1. ts \in 0 .. Wrap - 1 /\ clock \in 0 .. Wrap - 1 /\ ts >= clock
      BY <2>1, <2>2
    <3>2. d = (ts - clock) % Wrap
      OBVIOUS
    <3> HIDE DEF ts, clock, d
    <3>3. (clock + d) % Wrap = ts
      BY <3>1, <3>2, ClockAdvances
    <3> QED  BY <3>3 DEF ts, clock
  <2>4. h.ts = d
    BY <2>1
  <2> HIDE DEF d
  <2>5. (p.clock + h.ts) % Wrap = m.ts
    BY <2>3, <2>4
  <2> QED  BY <2>1, <2>5
<1>6. h.fmt \in {2, 3} => m.type = p.type /\ m.len = p.len
  BY <1>2 DEF Format
<1>7. h.fmt = 3 => h.ts = p.ts
  BY <1>2 DEF Format
<1> QED  BY <1>1, <1>2, <1>3, <1>5, <1>6, <1>7 DEF h

LEMMA ReadingType ==
  ASSUME NEW p \in OutPacket, NEW m \in Packet, NEW data \in Seq(Byte)
  PROVE  Reading(p, m, data) \in InPacket
<1>1. ZipHeader(p, m).ts \in Clock
  BY FormatFacts
<1>2. m.ts \in Clock /\ m.len \in Nat /\ m.type \in Types /\ m.sid \in Nat
  BY DEF Packet
<1> DEFINE t == ZipHeader(p, m).ts
           u == IF t >= Ext THEN Ext ELSE t
<1>3. u \in 0 .. Ext
  <2> HIDE DEF t
  <2> QED  BY <1>1, Constants DEF Clock, t
<1> HIDE DEF t, u
<1>4. Reading(p, m, data) = [known |-> TRUE, clock |-> m.ts, delta |-> t, ts |-> u,
                             len |-> m.len, type |-> m.type, sid |-> m.sid, data |-> data]
  BY DEF Reading, t, u
<1> QED  BY <1>1, <1>2, <1>3, <1>4 DEF InPacket, t

LEMMA MidMessageType ==
  ASSUME NEW r \in Reader, NEW p \in OutPacket, NEW m \in Packet, NEW data \in Seq(Byte),
         NEW at \in {<<>>, <<m.cid>>}
  PROVE  LET x == MidMessage(r, p, m, data, at)
         IN  /\ x \in Reader /\ x.in[m.cid] = Reading(p, m, data) /\ x.at = at
             /\ x.garbled = r.garbled /\ x.chunk = r.chunk
             /\ \A c \in Cids \ {m.cid} : x.in[c] = r.in[c]
<1> DEFINE k == Reading(p, m, data)
           x == [r EXCEPT !.in[m.cid] = k, !.at = at]
<1>1. m.cid \in Cids
  BY DEF Packet
<1>2. k \in InPacket
  BY ReadingType
<1>3. MidMessage(r, p, m, data, at) = x
  BY DEF MidMessage
<1> HIDE DEF k
<1>4. x \in Reader /\ x.in[m.cid] = k /\ x.at = at /\ x.garbled = r.garbled /\ x.chunk = r.chunk
      /\ \A c \in Cids \ {m.cid} : x.in[c] = r.in[c]
  BY <1>1, <1>2 DEF Reader
<1> QED  BY <1>3, <1>4 DEF k

\* Packets with the same fields are the same.
LEMMA SamePacket ==
  ASSUME NEW a \in InPacket, NEW b \in InPacket,
         a.known = b.known, a.clock = b.clock, a.delta = b.delta, a.ts = b.ts,
         a.len = b.len, a.type = b.type, a.sid = b.sid, a.data = b.data
  PROVE  a = b
BY DEF InPacket

WithData(k, data) == [k EXCEPT !.data = data]

LEMMA ReadingData ==
  ASSUME NEW p \in OutPacket, NEW m \in Packet, NEW data \in Seq(Byte), NEW more \in Seq(Byte)
  PROVE  Reading(p, m, more) = WithData(Reading(p, m, data), more)
<1> DEFINE k == Reading(p, m, data)
           l == Reading(p, m, more)
           x == [k EXCEPT !.data = more]
<1>1. k \in InPacket /\ l \in InPacket
  BY ReadingType
<1>2. /\ l.known = k.known /\ l.clock = k.clock /\ l.delta = k.delta /\ l.ts = k.ts
      /\ l.len = k.len /\ l.type = k.type /\ l.sid = k.sid /\ l.data = more
  BY DEF Reading
<1> HIDE DEF k, l
<1>3. x \in InPacket /\ /\ x.known = k.known /\ x.clock = k.clock /\ x.delta = k.delta /\ x.ts = k.ts
                        /\ x.len = k.len /\ x.type = k.type /\ x.sid = k.sid /\ x.data = more
  BY <1>1 DEF InPacket
<1> HIDE DEF x
<1>4. l.known = x.known
  BY <1>2, <1>3, Zenon
<1>5. l = x
  BY <1>1, <1>2, <1>3, <1>4, SamePacket
<1> QED  BY <1>5 DEF k, l, x, WithData

LEMMA HeaderBufferFields ==
  ASSUME NEW p \in OutPacket, NEW m \in Packet, NEW fmt \in 0 .. 3
  PROVE  LET h == ZipHeader(p, m)
             b == HeaderBuffer(h, fmt)
         IN  /\ b \in HeaderBuffers /\ b \in Buffer /\ b.kind = "header"
             /\ b.fmt = fmt /\ b.cid = m.cid /\ b.len = m.len /\ b.type = m.type /\ b.sid = m.sid
             /\ b.ts = Reading(p, m, <<>>).ts /\ (b.ts = Ext) = (h.ts >= Ext)
             /\ (h.ts < Ext => b.ts = h.ts)
             /\ b.ext = IF h.ts >= Ext THEN <<h.ts>> ELSE <<>>
<1> DEFINE h == ZipHeader(p, m)
           b == HeaderBuffer(h, fmt)
<1>1. b \in HeaderBuffers /\ b \in Buffer
  BY WrittenHeaderType DEF Buffer
<1>2. h.cid = m.cid /\ h.len = m.len /\ h.type = m.type /\ h.sid = m.sid /\ h.ts \in Clock
  BY FormatFacts
<1>3. Reading(p, m, <<>>).ts = IF h.ts >= Ext THEN Ext ELSE h.ts
  BY DEF Reading
<1> HIDE DEF h
<1>4. /\ b.kind = "header" /\ b.fmt = fmt /\ b.cid = h.cid /\ b.len = h.len /\ b.type = h.type
      /\ b.sid = h.sid /\ b.ts = (IF h.ts >= Ext THEN Ext ELSE h.ts)
      /\ b.ext = (IF h.ts >= Ext THEN <<h.ts>> ELSE <<>>)
  BY DEF HeaderBuffer
<1> HIDE DEF b
<1>5. (b.ts = Ext) = (h.ts >= Ext) /\ (h.ts < Ext => b.ts = h.ts)
  <2> DEFINE t == h.ts
  <2>1. t \in Nat /\ Ext \in Nat /\ b.ts = (IF t >= Ext THEN Ext ELSE t)
    BY <1>2, <1>4, Constants DEF Clock
  <2> HIDE DEF t
  <2>2. CASE t >= Ext
    BY <2>1, <2>2 DEF t
  <2>3. CASE ~(t >= Ext)
    <3>1. t < Ext /\ t # Ext
      BY <2>1, <2>3
    <3> QED  BY <2>1, <2>3, <3>1 DEF t
  <2> QED  BY <2>2, <2>3
<1> QED  BY <1>1, <1>2, <1>3, <1>4, <1>5 DEF h, b

\* The first header of a message.
LEMMA FirstHeaderRead ==
  ASSUME NEW r \in Reader, NEW p \in OutPacket, NEW m \in Packet,
         ~r.garbled, r.at = <<>>, Ready(p, r.in[m.cid])
  PROVE  Read(r, HeaderBuffer(ZipHeader(p, m), ZipHeader(p, m).fmt)) =
           [reader |-> MidMessage(r, p, m, <<>>, <<m.cid>>), out |-> <<>>]
<1> DEFINE h == ZipHeader(p, m)
           b == HeaderBuffer(h, h.fmt)
           q == r.in[m.cid]
           e == HeaderRead(q, b)
           k == Reading(p, m, <<>>)
<1>1. /\ h.fmt \in 0 .. 3 /\ h.ts \in Clock
      /\ h.fmt = 0 => h.ts = m.ts
      /\ h.fmt # 0 => h.ts < Ext /\ m.sid = p.sid /\ (p.clock + h.ts) % Wrap = m.ts
      /\ h.fmt \in {2, 3} => m.type = p.type /\ m.len = p.len
      /\ h.fmt = 3 => h.ts = p.ts
  BY FormatFacts
<1>2. /\ b \in HeaderBuffers /\ b.kind = "header"
      /\ b.fmt = h.fmt /\ b.cid = m.cid /\ b.len = m.len /\ b.type = m.type /\ b.sid = m.sid
      /\ b.ts = k.ts /\ (b.ts = Ext) = (h.ts >= Ext) /\ (h.ts < Ext => b.ts = h.ts)
      /\ b.ext = IF h.ts >= Ext THEN <<h.ts>> ELSE <<>>
  BY <1>1, HeaderBufferFields
<1>3. q \in InPacket /\ m.cid \in Cids /\ m.type # "none" /\ m.type \in Types /\ m.sid \in Nat
      /\ m.len \in Nat /\ m.ts \in Clock
  BY DEF Reader, Packet
<1>4. /\ q.clock = p.clock /\ q.len = p.len /\ q.type = p.type /\ q.sid = p.sid
      /\ q.ts = (IF p.ts >= Ext THEN Ext ELSE p.ts)
      /\ q.delta = p.ts /\ q.data = <<>> /\ (q.known \/ p.type = "none")
  BY DEF Ready, InStep
<1>5. k \in InPacket /\ /\ k.known = TRUE /\ k.clock = m.ts /\ k.delta = h.ts /\ k.len = m.len
                        /\ k.type = m.type /\ k.sid = m.sid /\ k.data = <<>>
  <2>1. <<>> \in Seq(Byte)
    OBVIOUS
  <2>2. k \in InPacket
    BY <2>1, ReadingType
  <2> QED  BY <2>2 DEF Reading
<1>6. Read(r, b) = ReadHeader(r, b)
  BY <1>2 DEF Read
<1> HIDE DEF h, b, q, k
<1>7. /\ e.known = TRUE /\ e.clock = q.clock /\ e.delta = q.delta /\ e.data = q.data
      /\ e.ts = (IF b.fmt <= 2 THEN b.ts ELSE q.ts)
      /\ e.len = (IF b.fmt <= 1 THEN b.len ELSE q.len)
      /\ e.type = (IF b.fmt <= 1 THEN b.type ELSE q.type)
      /\ e.sid = (IF b.fmt = 0 THEN b.sid ELSE q.sid)
      /\ e \in InPacket
  BY <1>2, <1>3 DEF HeaderRead, InPacket, HeaderBuffers
<1> HIDE DEF e
<1>8. e.len = m.len /\ e.type = m.type /\ e.sid = m.sid
  <2>1. CASE b.fmt <= 1
    <3>1. b.fmt # 0 => q.sid = m.sid
      BY <1>1, <1>2, <1>4
    <3> QED  BY <1>2, <1>7, <2>1, <3>1
  <2>2. CASE ~(b.fmt <= 1)
    <3>1. h.fmt \in {2, 3} /\ h.fmt # 0
      BY <1>1, <1>2, <2>2
    <3>2. m.type = q.type /\ m.len = q.len /\ m.sid = q.sid
      BY <1>1, <1>4, <3>1
    <3> QED  BY <1>2, <1>7, <2>2, <3>1, <3>2
  <2> QED  BY <2>1, <2>2
<1>9. e.ts = k.ts
  <2>1. CASE b.fmt <= 2
    BY <1>2, <1>7, <2>1
  <2>2. CASE ~(b.fmt <= 2)
    <3>1. h.fmt = 3 /\ h.fmt # 0
      BY <1>1, <1>2, <2>2
    <3>2. h.ts = p.ts /\ h.ts < Ext /\ b.ts = h.ts /\ h.ts \in Nat /\ Ext \in Nat
      BY <1>1, <1>2, <3>1, Constants DEF Clock
    <3>3. ~(p.ts >= Ext)
      <4> DEFINE t == p.ts
      <4>1. t \in Nat /\ t < Ext
        BY <3>2
      <4> HIDE DEF t
      <4>2. ~(t >= Ext)
        BY <3>2, <4>1
      <4> QED  BY <4>2 DEF t
    <3>4. q.ts = p.ts
      BY <1>4, <3>3
    <3> QED  BY <1>2, <1>7, <2>2, <3>2, <3>4
  <2> QED  BY <2>1, <2>2
<1> DEFINE t == IF e.ts = Ext THEN b.ext[1] ELSE e.ts
<1>10. t = h.ts /\ (e.ts = Ext) = (h.ts >= Ext) /\ (e.ts = Ext) = (b.ext # <<>>)
  <2>1. CASE h.ts >= Ext
    <3>1. e.ts = Ext /\ b.ext = <<h.ts>>
      BY <1>2, <1>9, <2>1
    <3>2. b.ext # <<>> /\ b.ext[1] = h.ts
      BY <3>1
    <3> QED  BY <2>1, <3>1, <3>2
  <2>2. CASE ~(h.ts >= Ext)
    <3>1. e.ts # Ext /\ b.ext = <<>> /\ e.ts = b.ts
      BY <1>2, <1>9, <2>2
    <3>2. h.ts < Ext
      BY <1>1, <2>2, Constants DEF Clock
    <3> QED  BY <1>2, <2>2, <3>1, <3>2
  <2> QED  BY <2>1, <2>2
<1>11. q.known \/ b.fmt <= 1
  <2>1. SUFFICES ASSUME ~(b.fmt <= 1)  PROVE q.known
    OBVIOUS
  <2>2. h.fmt \in {2, 3}
    BY <1>1, <1>2, <2>1
  <2> QED  BY <1>1, <1>3, <1>4, <2>2
<1>12. b.fmt = 3 => e.ts # Ext
  <2>1. SUFFICES ASSUME b.fmt = 3  PROVE e.ts # Ext
    OBVIOUS
  <2>2. h.fmt # 0
    BY <1>2, <2>1
  <2>3. ~(h.ts >= Ext)
    <3> DEFINE u == h.ts
    <3>1. u \in Nat /\ u < Ext /\ Ext \in Nat
      BY <1>1, <2>2, Constants DEF Clock
    <3> HIDE DEF u
    <3>2. ~(u >= Ext)
      BY <3>1
    <3> QED  BY <3>2 DEF u
  <2> QED  BY <1>10, <2>3
<1>13. ClockRead(e, b) = [e EXCEPT !.delta = t,
                                   !.clock = IF b.fmt = 0 THEN t ELSE (e.clock + t) % Wrap]
  BY <1>4, <1>7 DEF ClockRead
<1> HIDE DEF t
<1>14. ClockRead(e, b) = k
  <2> DEFINE x == ClockRead(e, b)
  <2>1. (IF b.fmt = 0 THEN t ELSE (e.clock + t) % Wrap) = m.ts
    <3>1. CASE b.fmt = 0
      BY <1>1, <1>2, <1>10, <3>1
    <3>2. CASE b.fmt # 0
      <4>1. e.clock = p.clock /\ t = h.ts
        BY <1>4, <1>7, <1>10
      <4>2. (p.clock + h.ts) % Wrap = m.ts
        BY <1>1, <1>2, <3>2
      <4> QED  BY <3>2, <4>1, <4>2
    <3> QED  BY <3>1, <3>2
  <2>2. x = [e EXCEPT !.delta = h.ts, !.clock = m.ts]
    BY <1>10, <1>13, <2>1
  <2> HIDE DEF x
  <2>3. /\ x \in InPacket
        /\ x.known = e.known /\ x.clock = m.ts /\ x.delta = h.ts /\ x.ts = e.ts
        /\ x.len = e.len /\ x.type = e.type /\ x.sid = e.sid /\ x.data = e.data
    BY <1>1, <1>3, <1>7, <2>2 DEF InPacket
  <2>4. x.known = k.known
    BY <1>5, <1>7, <2>3, Zenon
  <2>5. x.ts = k.ts /\ x.len = k.len /\ x.type = k.type /\ x.sid = k.sid /\ x.data = k.data
    BY <1>4, <1>5, <1>7, <1>8, <1>9, <2>3
  <2>6. x.clock = k.clock /\ x.delta = k.delta
    BY <1>5, <2>3
  <2>7. x = k
    BY <1>5, <2>3, <2>4, <2>5, <2>6, SamePacket
  <2> QED  BY <2>7 DEF x
<1>15. ReadHeader(r, b) = [reader |-> [r EXCEPT !.in[b.cid] = k, !.at = <<b.cid>>], out |-> <<>>]
  <2>1. e = HeaderRead(r.in[b.cid], b) /\ q = r.in[b.cid]
    BY <1>2 DEF e, q
  <2>2. /\ r.in[b.cid].known \/ b.fmt <= 1
        /\ (e.ts = Ext) = (b.ext # <<>>)
        /\ e.ts = Ext /\ b.fmt = 3 => b.ext[1] = e.delta
    BY <1>10, <1>11, <1>12, <2>1
  <2> QED  BY <1>14, <2>1, <2>2 DEF ReadHeader
<1> QED  BY <1>2, <1>6, <1>15 DEF MidMessage, h, b, k

\* The header of a later chunk, of format 3, leaves what was remembered as it is.
LEMMA LaterHeaderRead ==
  ASSUME NEW r \in Reader, NEW p \in OutPacket, NEW m \in Packet, NEW data \in Seq(Byte),
         ~r.garbled, data # <<>>
  PROVE  Read(MidMessage(r, p, m, data, <<>>), HeaderBuffer(ZipHeader(p, m), 3)) =
           [reader |-> MidMessage(r, p, m, data, <<m.cid>>), out |-> <<>>]
<1> DEFINE h == ZipHeader(p, m)
           b == HeaderBuffer(h, 3)
           k == Reading(p, m, data)
           x == MidMessage(r, p, m, data, <<>>)
           e == HeaderRead(k, b)
<1>1. m.cid \in Cids /\ h.ts \in Clock
  BY FormatFacts DEF Packet
<1>2. /\ b \in HeaderBuffers /\ b.kind = "header" /\ b.fmt = 3 /\ b.cid = m.cid
      /\ b.ts = k.ts /\ (b.ts = Ext) = (h.ts >= Ext)
      /\ b.ext = IF h.ts >= Ext THEN <<h.ts>> ELSE <<>>
  <2>1. 3 \in 0 .. 3 /\ Reading(p, m, <<>>).ts = Reading(p, m, data).ts
    BY DEF Reading
  <2> QED  BY <2>1, HeaderBufferFields
<1>3. k \in InPacket /\ k.known = TRUE /\ k.delta = h.ts /\ k.data = data
  BY ReadingType DEF Reading
<1>4. x \in Reader /\ x.in[m.cid] = k /\ x.at = <<>> /\ ~x.garbled
  <2>1. x \in Reader /\ x.in[m.cid] = k /\ x.at = <<>> /\ x.garbled = r.garbled
    <3> HIDE DEF k, x
    <3>1. <<>> \in {<<>>, <<m.cid>>}
      OBVIOUS
    <3> QED  BY <3>1, MidMessageType DEF k, x
  <2> QED  BY <2>1, Zenon
<1>5. Read(x, b) = ReadHeader(x, b)
  BY <1>2, <1>4 DEF Read
<1>6. MidMessage(r, p, m, data, <<m.cid>>) = [x EXCEPT !.in[m.cid] = k, !.at = <<m.cid>>]
  BY <1>1 DEF MidMessage, Reader
<1> HIDE DEF h, b, k, x
<1>7. e \in InPacket /\ /\ e.known = TRUE /\ e.clock = k.clock /\ e.delta = k.delta /\ e.ts = k.ts
                        /\ e.len = k.len /\ e.type = k.type /\ e.sid = k.sid /\ e.data = k.data
  <2>1. ~(b.fmt <= 2) /\ ~(b.fmt <= 1) /\ b.fmt # 0
    BY <1>2
  <2>2. e = [k EXCEPT !.known = TRUE, !.ts = k.ts, !.len = k.len, !.type = k.type, !.sid = k.sid]
    BY <2>1 DEF HeaderRead
  <2> HIDE DEF e
  <2> QED  BY <1>3, <2>2 DEF InPacket
<1>8. e = k
  <2>1. e.known = k.known
    BY <1>3, <1>7, Zenon
  <2> HIDE DEF e
  <2> QED  BY <1>3, <1>7, <2>1, SamePacket
<1>9. ClockRead(k, b) = k
  BY <1>3 DEF ClockRead
<1>10. (k.ts = Ext) = (b.ext # <<>>) /\ (k.ts = Ext => b.ext[1] = k.delta)
  <2>1. CASE h.ts >= Ext
    <3>1. b.ext = <<h.ts>> /\ k.ts = Ext
      BY <1>2, <2>1
    <3>2. b.ext # <<>> /\ b.ext[1] = h.ts
      BY <3>1
    <3> QED  BY <1>3, <3>1, <3>2
  <2>2. CASE ~(h.ts >= Ext)
    BY <1>2, <2>2
  <2> QED  BY <2>1, <2>2
<1>11. ReadHeader(x, b) = [reader |-> [x EXCEPT !.in[b.cid] = k, !.at = <<b.cid>>], out |-> <<>>]
  <2>1. k = x.in[b.cid] /\ HeaderRead(x.in[b.cid], b) = k
    BY <1>2, <1>4, <1>8
  <2> HIDE DEF e
  <2>2. /\ k.known \/ b.fmt <= 1
        /\ (k.ts = Ext) = (b.ext # <<>>)
        /\ k.ts = Ext /\ b.fmt = 3 => b.ext[1] = k.delta
    BY <1>3, <1>10
  <2> QED  BY <1>9, <2>1, <2>2 DEF ReadHeader
<1> QED  BY <1>2, <1>5, <1>6, <1>11 DEF h, b, x

\* The payload of chunk i, once its header is read.
LEMMA PieceRead ==
  ASSUME NEW r \in Reader, NEW p \in OutPacket, NEW m \in Packet, NEW i \in 1 .. Chunks(m, r.chunk),
         ~r.garbled, m.type # "SetChunkSize"
  PROVE  Read(MidMessage(r, p, m, SentUpTo(m, r.chunk, i - 1), <<m.cid>>),
              PayloadBuffer(Piece(m, r.chunk, i))) =
           IF i < Chunks(m, r.chunk)
           THEN [reader |-> MidMessage(r, p, m, SentUpTo(m, r.chunk, i), <<>>), out |-> <<>>]
           ELSE [reader |-> MidMessage(r, p, m, <<>>, <<>>), out |-> <<Meaning(m)>>]
<1> DEFINE size == r.chunk
           n == Chunks(m, size)
           done0 == SentUpTo(m, size, i - 1)
           done1 == SentUpTo(m, size, i)
           piece == Piece(m, size, i)
           b == PayloadBuffer(piece)
           k == Reading(p, m, done0)
           k1 == Reading(p, m, done1)
           x == MidMessage(r, p, m, done0, <<m.cid>>)
<1>0. size \in Sizes /\ m.cid \in Cids /\ n \in Nat /\ m.len \in Nat /\ i \in 1 .. n
  BY ChunksType, MeaningType DEF Reader, Packet
<1>1. /\ piece \in Seq(Byte) /\ done0 \in Seq(Byte) /\ done1 \in Seq(Byte)
      /\ Len(piece) = UpTo(m, size, i) - (i - 1) * size /\ Len(done0) = (i - 1) * size
      /\ Len(done1) = UpTo(m, size, i) /\ done1 = done0 \o piece
      /\ (i = n => done1 = Payload(m))
  <2> HIDE DEF size
  <2> QED  BY <1>0, PieceContinues
<1>2. /\ (i - 1) * size \in Nat /\ UpTo(m, size, i) \in Nat /\ UpTo(m, size, i) <= m.len
      /\ ((i - 1) * size) % size = 0 /\ size \in Nat \ {0}
      /\ i < n => UpTo(m, size, i) = (i - 1) * size + size /\ UpTo(m, size, i) < m.len
      /\ i = n => UpTo(m, size, i) = m.len /\ m.len <= (i - 1) * size + size
  <2> HIDE DEF size
  <2> QED  BY <1>0, ChunkSizes
<1>3. x \in Reader /\ x.in[m.cid] = k /\ x.at = <<m.cid>> /\ ~x.garbled /\ x.chunk = size
  <2>1. x \in Reader /\ x.in[m.cid] = k /\ x.at = <<m.cid>> /\ x.garbled = r.garbled /\ x.chunk = size
    <3> HIDE DEF k, x, done0
    <3>1. <<m.cid>> \in {<<>>, <<m.cid>>}
      OBVIOUS
    <3> QED  BY <1>1, <3>1, MidMessageType DEF k, x
  <2> QED  BY <2>1, Zenon
<1>4. k \in InPacket /\ k.data = done0 /\ k.len = m.len /\ k1 = [k EXCEPT !.data = k.data \o piece]
      /\ k1.data = done1 /\ k1.len = m.len /\ k1.type = m.type
  <2> HIDE DEF done0, done1, piece
  <2>1. k \in InPacket
    BY <1>1, ReadingType
  <2>2. k.data = done0 /\ k.len = m.len /\ k1.data = done1 /\ k1.len = m.len /\ k1.type = m.type
    BY DEF Reading
  <2>3. k1 = [k EXCEPT !.data = done1]
    <3>1. Reading(p, m, done1) = WithData(Reading(p, m, done0), done1)
      BY <1>1, ReadingData
    <3> QED  BY <3>1 DEF WithData
  <2> QED  BY <1>1, <2>1, <2>2, <2>3
<1>5. b.kind = "payload" /\ b.bytes = piece
  BY DEF PayloadBuffer
<1>6. i = n \/ i < n
  BY <1>0
<1>7. Expected(x, k) = Len(piece)
  <2> DEFINE a == (i - 1) * size
             u == UpTo(m, size, i)
             len == m.len
  <2>1. Expected(x, k) = IF size - (a % size) < len - a THEN size - (a % size) ELSE len - a
    BY <1>1, <1>3, <1>4 DEF Expected
  <2> DEFINE z == a % size
  <2>2. a \in Nat /\ z = 0 /\ size \in Nat /\ u \in Nat /\ len \in Nat /\ Len(piece) = u - a
    BY <1>0, <1>1, <1>2
  <2>9. (u = a + size /\ u < len) \/ (u = len /\ len <= a + size)
    BY <1>2, <1>6
  <2> DEFINE expected == Expected(x, k)
             l == Len(piece)
  <2>7. expected = IF size - z < len - a THEN size - z ELSE len - a
    BY <2>1
  <2> HIDE DEF a, u, len, size, z, expected, l
  <2>8. l = u - a
    BY <2>2 DEF l
  <2>3. size - z = size
    BY <2>2
  <2>4. expected = IF size < len - a THEN size ELSE len - a
    BY <2>3, <2>7
  <2>5. ASSUME u = a + size /\ u < len  PROVE expected = l
    <3>1. size < len - a /\ l = size
      BY <2>2, <2>5, <2>8
    <3> QED  BY <2>4, <3>1
  <2>6. ASSUME u = len /\ len <= a + size  PROVE expected = l
    <3>1. ~(size < len - a) /\ l = len - a
      BY <2>2, <2>6, <2>8
    <3> QED  BY <2>4, <3>1
  <2> QED  BY <2>5, <2>6, <2>9 DEF expected, l
<1> DEFINE next == [x EXCEPT !.in[m.cid] = k1, !.at = <<>>]
<1>8. next = MidMessage(r, p, m, done1, <<>>)
  BY <1>0 DEF MidMessage, Reader
<1>9. [next EXCEPT !.in[m.cid].data = <<>>] = MidMessage(r, p, m, <<>>, <<>>)
  <2> DEFINE y == MidMessage(r, p, m, done1, <<>>)
             z == Reading(p, m, <<>>)
  <2>1. [k1 EXCEPT !.data = <<>>] = z
    <3>1. <<>> \in Seq(Byte)
      OBVIOUS
    <3>2. Reading(p, m, <<>>) = WithData(Reading(p, m, done1), <<>>)
      <4> HIDE DEF done1
      <4> QED  BY <1>1, <3>1, ReadingData
    <3> QED  BY <3>2 DEF WithData
  <2>2. y = [r EXCEPT !.in[m.cid] = k1, !.at = <<>>]
    BY DEF MidMessage
  <2>3. MidMessage(r, p, m, <<>>, <<>>) = [r EXCEPT !.in[m.cid] = z, !.at = <<>>]
    BY DEF MidMessage
  <2> HIDE DEF next, y, z, k1
  <2>4. y.in[m.cid] = k1
    BY <1>0, <2>2 DEF Reader
  <2>5. [y EXCEPT !.in[m.cid].data = <<>>] = [y EXCEPT !.in[m.cid] = z]
    BY <2>1, <2>4
  <2>6. [y EXCEPT !.in[m.cid] = z] = [r EXCEPT !.in[m.cid] = z, !.at = <<>>]
    BY <1>0, <2>2 DEF Reader
  <2> QED  BY <1>8, <2>3, <2>5, <2>6 DEF y
<1>10. i = n => Delivered(k1) = Meaning(m)
  BY <1>1 DEF Delivered, Meaning, Reading
<1> HIDE DEF b, k, k1, x, piece, done0, done1
<1>11. ReadPayload(x, b) =
          IF Len(b.bytes) # Expected(x, k) THEN Garble(x)
          ELSE IF Len(k1.data) < k1.len THEN [reader |-> next, out |-> <<>>]
          ELSE [reader |-> Handle([next EXCEPT !.in[m.cid].data = <<>>], k1.type),
                out |-> <<Delivered(k1)>>]
  <2>1. x.at[1] = m.cid
    BY <1>3
  <2>2. k1 = [x.in[m.cid] EXCEPT !.data = @ \o b.bytes]
    BY <1>3, <1>4, <1>5
  <2> QED  BY <1>3, <2>1, <2>2 DEF ReadPayload
<1> HIDE DEF next
<1>12. Read(x, b) = ReadPayload(x, b)
  <2>1. <<m.cid>> # <<>>
    OBVIOUS
  <2> QED  BY <1>3, <1>5, <2>1 DEF Read
<1>13. CASE i < n
  <2>1. Len(k1.data) < k1.len
    BY <1>1, <1>2, <1>4, <1>13
  <2> QED  BY <1>5, <1>7, <1>8, <1>11, <1>12, <1>13, <2>1 DEF x, b, done0, done1, piece
<1>14. CASE i = n
  <2>1. ~(Len(k1.data) < k1.len) /\ ~(i < n)
    BY <1>0, <1>1, <1>2, <1>4, <1>14
  <2>2. \A y : Handle(y, k1.type) = y
    BY <1>4 DEF Handle
  <2>3. ReadPayload(x, b) = [reader |-> MidMessage(r, p, m, <<>>, <<>>), out |-> <<Meaning(m)>>]
    BY <1>5, <1>7, <1>9, <1>10, <1>11, <1>14, <2>1, <2>2
  <2> QED  BY <1>12, <2>1, <2>3 DEF x, b, done0, done1, piece
<1> QED  BY <1>6, <1>13, <1>14

\* The outcome of the first k chunks of a message.
Outcomes(r, p, m, k) ==
  IF k = 0 THEN [reader |-> r, out |-> <<>>]
  ELSE IF k < Chunks(m, r.chunk)
  THEN [reader |-> MidMessage(r, p, m, SentUpTo(m, r.chunk, k), <<>>), out |-> <<>>]
  ELSE [reader |-> MidMessage(r, p, m, <<>>, <<>>), out |-> <<Meaning(m)>>]

LEMMA Longer ==
  ASSUME NEW l \in Seq(Buffer), NEW b \in Buffer
  PROVE  /\ Append(l, b) \in Seq(Buffer) /\ Len(Append(l, b)) = Len(l) + 1
         /\ \A i \in 1 .. Len(l) : Append(l, b)[i] = l[i]
         /\ Append(l, b)[Len(l) + 1] = b
BY AppendProperties

\* Two buffers, of which the first delivers nothing.
LEMMA ReadsTwo ==
  ASSUME NEW r \in Reader, NEW a \in Buffer, NEW b \in Buffer, NEW q,
         Read(r, a) = [reader |-> q, out |-> <<>>]
  PROVE  Reads(r, <<a, b>>) = [reader |-> Read(q, b).reader, out |-> Read(q, b).out]
<1> DEFINE l == <<b>>
<1>1. <<a, b>> = <<a>> \o l
  <2> DEFINE e == <<a>>
             y == <<a, b>>
  <2>0. /\ e \in Seq(Buffer) /\ Len(e) = 1 /\ e[1] = a
        /\ y \in Seq(Buffer) /\ Len(y) = 2 /\ y[1] = a /\ y[2] = b
    OBVIOUS
  <2>1. Append(e, b) = y
    <3> HIDE DEF e, y, l
    <3> DEFINE l2 == Append(e, b)
    <3>0. /\ l2 \in Seq(Buffer) /\ Len(l2) = Len(e) + 1
          /\ \A i \in 1 .. Len(e) : l2[i] = e[i]
          /\ l2[Len(e) + 1] = b
      BY <2>0, Longer
    <3> HIDE DEF l2
    <3>1. l2 \in Seq(Buffer) /\ Len(l2) = 2 /\ l2[1] = a /\ l2[2] = b
      <4>1. 1 + 1 = 2 /\ 1 \in 1 .. 1
        OBVIOUS
      <4> QED  BY <2>0, <3>0, <4>1
    <3>2. \A i \in 1 .. 2 : l2[i] = y[i]
      <4>1. \A i \in 1 .. 2 : i = 1 \/ i = 2
        OBVIOUS
      <4> QED  BY <2>0, <3>1, <4>1
    <3> QED  BY <2>0, <3>1, <3>2, SeqEqual DEF l2
  <2> HIDE DEF e
  <2>2. Append(e, b) = e \o <<b>>
    BY <2>0, AppendIsConcat
  <2> QED  BY <2>1, <2>2 DEF e
<1>2. Read(r, a).reader = q /\ Read(r, a).out = <<>>
  OBVIOUS
<1>3. q \in Reader
  BY <1>2, ReadType
<1>4. l \in Seq(Buffer) /\ Reads(q, l) = [reader |-> Read(q, b).reader, out |-> Read(q, b).out]
  BY <1>3, ReadsOne
<1> HIDE DEF l
<1>5. Reads(r, <<a>> \o l) = [reader |-> Reads(q, l).reader,
                              out |-> Read(r, a).out \o Reads(q, l).out]
  BY <1>2, <1>4, ReadsFirst
<1> DEFINE y == Reads(q, l)
<1>6. y.out \in Seq(Message) /\ y.reader = Read(q, b).reader /\ y.out = Read(q, b).out
  BY <1>3, <1>4, ReadsType
<1> HIDE DEF y
<1>7. Read(r, a).out \o y.out = y.out
  BY <1>2, <1>6, ConcatEmptySeq
<1>8. Reads(r, <<a>> \o l) = [reader |-> Read(q, b).reader, out |-> Read(q, b).out]
  BY <1>5, <1>6, <1>7 DEF y
<1> QED  BY <1>1, <1>8

LEMMA ChunkRead ==
  ASSUME NEW r \in Reader, NEW p \in OutPacket, NEW m \in Packet, NEW i \in 1 .. Chunks(m, r.chunk),
         Between(r, r.chunk), Ready(p, r.in[m.cid]), m.type # "SetChunkSize"
  PROVE  /\ Outcomes(r, p, m, i - 1).out = <<>> /\ Outcomes(r, p, m, i - 1).reader \in Reader
         /\ Reads(Outcomes(r, p, m, i - 1).reader, ChunkOf(p, m, r.chunk, i)) = Outcomes(r, p, m, i)
<1> DEFINE size == r.chunk
           n == Chunks(m, size)
           h == HeaderBuffer(ZipHeader(p, m), IF i = 1 THEN ZipHeader(p, m).fmt ELSE 3)
           b == PayloadBuffer(Piece(m, size, i))
           x == Outcomes(r, p, m, i - 1)
           q == MidMessage(r, p, m, SentUpTo(m, size, i - 1), <<m.cid>>)
<1>0. size \in Sizes /\ n \in Nat \ {0} /\ ~r.garbled /\ r.at = <<>>
  BY ChunksType DEF Reader, Between
<1>1. /\ SentUpTo(m, size, i - 1) \in Seq(Byte) /\ Len(SentUpTo(m, size, i - 1)) = (i - 1) * size
      /\ (i - 1) * size \in Nat /\ (i # 1 => (i - 1) * size # 0)
      /\ (i = 1 => SentUpTo(m, size, i - 1) = <<>>)
  <2> DEFINE s == size
             l == Chunks(m, s)
  <2>1. s \in Sizes /\ s \in Nat \ {0} /\ i \in 1 .. l
    BY <1>0, Constants
  <2> HIDE DEF s
  <2>2. SentUpTo(m, s, i - 1) \in Seq(Byte) /\ Len(SentUpTo(m, s, i - 1)) = (i - 1) * s
        /\ (i - 1) * s \in Nat
    BY <2>1, PieceContinues, ChunkSizes
  <2>3. i # 1 => (i - 1) * s # 0
    <3>1. i - 1 \in Nat /\ (i # 1 => i - 1 # 0)
      BY <2>1
    <3> DEFINE j == i - 1
    <3> HIDE DEF j
    <3>2. j \in Nat /\ j # 0 => j * s # 0
      BY <2>1
    <3> QED  BY <3>1, <3>2 DEF j
  <2>4. i = 1 => SentUpTo(m, s, i - 1) = <<>>
    <3>1. ASSUME i = 1  PROVE Len(SentUpTo(m, s, i - 1)) = 0
      <4>1. (i - 1) * s = 0
        BY <2>1, <3>1
      <4> QED  BY <2>2, <4>1
    <3> QED  BY <2>2, <3>1, EmptySeq
  <2> QED  BY <2>2, <2>3, <2>4 DEF s
<1>2. x.out = <<>> /\ x.reader = (IF i = 1 THEN r ELSE MidMessage(r, p, m, SentUpTo(m, size, i - 1), <<>>))
  <2>1. i - 1 < n /\ (i - 1 = 0) = (i = 1)
    BY <1>0
  <2> QED  BY <2>1 DEF Outcomes
<1>3. x.reader \in Reader
  <2>1. <<>> \in {<<>>, <<m.cid>>}
    OBVIOUS
  <2> DEFINE s == SentUpTo(m, size, i - 1)
  <2> HIDE DEF s
  <2>2. MidMessage(r, p, m, s, <<>>) \in Reader
    BY <1>1, <2>1, MidMessageType DEF s
  <2> QED  BY <1>2, <2>2 DEF s
<1>4. h \in Buffer /\ b \in Buffer /\ ChunkOf(p, m, size, i) = <<h, b>>
  <2> DEFINE s == size
  <2>1. s \in Sizes /\ i \in 1 .. Chunks(m, s)
    BY <1>0
  <2>2. ChunkOf(p, m, size, i) = <<h, b>>
    BY DEF ChunkOf
  <2> HIDE DEF s
  <2>3. PayloadBuffer(Piece(m, s, i)) \in PayloadBuffers
        /\ HeaderBuffer(ZipHeader(p, m), IF i = 1 THEN ZipHeader(p, m).fmt ELSE 3) \in HeaderBuffers
    BY <2>1, ChunkType
  <2> QED  BY <2>2, <2>3 DEF Buffer, s
<1>5. Read(x.reader, h) = [reader |-> q, out |-> <<>>]
  <2>1. CASE i = 1
    <3>1. Read(r, HeaderBuffer(ZipHeader(p, m), ZipHeader(p, m).fmt)) =
            [reader |-> MidMessage(r, p, m, <<>>, <<m.cid>>), out |-> <<>>]
      BY <1>0, FirstHeaderRead
    <3>2. SentUpTo(m, size, i - 1) = <<>> /\ x.reader = r
          /\ h = HeaderBuffer(ZipHeader(p, m), ZipHeader(p, m).fmt)
      BY <1>1, <1>2, <2>1
    <3> HIDE DEF x, h
    <3> QED  BY <3>1, <3>2
  <2>2. CASE i # 1
    <3> DEFINE s == SentUpTo(m, size, i - 1)
    <3>1. s \in Seq(Byte) /\ s # <<>>
      <4>1. Len(s) # 0
        BY <1>1, <2>2
      <4> HIDE DEF s
      <4>2. s # <<>>
        BY <4>1
      <4> QED  BY <1>1, <4>2 DEF s
    <3>2. x.reader = MidMessage(r, p, m, s, <<>>) /\ h = HeaderBuffer(ZipHeader(p, m), 3)
      BY <1>2, <2>2
    <3>3. q = MidMessage(r, p, m, s, <<m.cid>>)
      OBVIOUS
    <3> HIDE DEF s, x, h, q
    <3>4. Read(MidMessage(r, p, m, s, <<>>), HeaderBuffer(ZipHeader(p, m), 3)) =
            [reader |-> MidMessage(r, p, m, s, <<m.cid>>), out |-> <<>>]
      BY <1>0, <3>1, LaterHeaderRead
    <3> QED  BY <3>2, <3>3, <3>4
  <2> QED  BY <2>1, <2>2
<1>6. Read(q, b) = Outcomes(r, p, m, i)
  <2>1. Read(q, b) = IF i < n
                     THEN [reader |-> MidMessage(r, p, m, SentUpTo(m, size, i), <<>>), out |-> <<>>]
                     ELSE [reader |-> MidMessage(r, p, m, <<>>, <<>>), out |-> <<Meaning(m)>>]
    BY <1>0, PieceRead
  <2>2. i # 0
    BY <1>0
  <2> QED  BY <2>1, <2>2 DEF Outcomes
<1> HIDE DEF x, h, b, q
<1>7. Reads(x.reader, <<h, b>>) = [reader |-> Read(q, b).reader, out |-> Read(q, b).out]
  BY <1>3, <1>4, <1>5, ReadsTwo
<1>8. Reads(x.reader, <<h, b>>) = Outcomes(r, p, m, i)
  <2>1. Outcomes(r, p, m, i) = [reader |-> Outcomes(r, p, m, i).reader, out |-> Outcomes(r, p, m, i).out]
    BY DEF Outcomes
  <2> QED  BY <1>6, <1>7, <2>1
<1> QED  BY <1>2, <1>3, <1>4, <1>8 DEF x

\* All the chunks of a message deliver it.
LEMMA MessageUnderstood ==
  ASSUME NEW r \in Reader, NEW p \in OutPacket, NEW m \in Packet,
         Between(r, r.chunk), Ready(p, r.in[m.cid]), m.type # "SetChunkSize"
  PROVE  Reads(r, ChunkBuffers(p, m, r.chunk)) =
           [reader |-> MidMessage(r, p, m, <<>>, <<>>), out |-> <<Meaning(m)>>]
<1> DEFINE size == r.chunk
           n == Chunks(m, size)
<1>0. size \in Sizes /\ n \in Nat \ {0}
  BY ChunksType DEF Reader
<1>1. PICK f : /\ f \in [0 .. n -> Seq(Buffer)] /\ f[0] = <<>>
               /\ \A i \in 1 .. n : f[i] = f[i - 1] \o ChunkOf(p, m, size, i)
               /\ ChunkBuffers(p, m, size) = f[n]
  BY <1>0, ChunkBuffersType
<1> DEFINE Q == {k \in 0 .. n : Reads(r, f[k]) = Outcomes(r, p, m, k)}
<1>2. 0 \in Q
  <2>1. Reads(r, <<>>) = [reader |-> r, out |-> <<>>]
    BY ReadsNone
  <2>2. Reads(r, f[0]) = Reads(r, <<>>) /\ Outcomes(r, p, m, 0) = [reader |-> r, out |-> <<>>]
    BY <1>1 DEF Outcomes
  <2> HIDE DEF n
  <2> QED  BY <1>0, <2>1, <2>2
<1>3. ASSUME NEW k \in 0 .. (n - 1), k \in Q  PROVE k + 1 \in Q
  <2> DEFINE i == k + 1
             c == ChunkOf(p, m, size, i)
             x == Outcomes(r, p, m, k)
  <2>1. i \in 1 .. n /\ i - 1 = k /\ i \in 0 .. n /\ k \in 0 .. n
    BY <1>0
  <2> HIDE DEF i
  <2>2. x.out = <<>> /\ x.reader \in Reader /\ Reads(x.reader, c) = Outcomes(r, p, m, i)
    BY <2>1, ChunkRead
  <2>3. f[i] = f[k] \o c /\ f[k] \in Seq(Buffer)
    BY <1>1, <2>1
  <2>4. c \in Seq(Buffer)
    BY <1>0, <2>1, ChunkType
  <2>5. Reads(r, f[k]) = x
    BY <1>3
  <2> DEFINE z == f[k]
             y == Outcomes(r, p, m, i)
  <2> HIDE DEF c, x, z
  <2>6. Reads(r, z \o c) = [reader |-> Reads(Reads(r, z).reader, c).reader,
                            out |-> Reads(r, z).out \o Reads(Reads(r, z).reader, c).out]
    BY <2>3, <2>4, ReadsConcat DEF z
  <2>7. Reads(r, z) = x
    BY <2>5 DEF z
  <2>8. Reads(r, z \o c) = [reader |-> y.reader, out |-> x.out \o y.out]
    BY <2>2, <2>6, <2>7
  <2>9. y.out \in Seq(Message) /\ y = [reader |-> y.reader, out |-> y.out]
    <3>1. Reads(x.reader, c).out \in Seq(Message)
      BY <2>2, <2>4, ReadsType
    <3> QED  BY <2>2, <3>1 DEF Outcomes
  <2> HIDE DEF y
  <2>10. x.out \o y.out = y.out
    BY <2>2, <2>9, ConcatEmptySeq
  <2>11. Reads(r, f[i]) = y
    BY <2>3, <2>8, <2>9, <2>10 DEF z
  <2> QED  BY <2>1, <2>11 DEF i, y
<1>4. n \in Q
  <2> HIDE DEF Q, n
  <2>1. 0 .. n \subseteq Q
    BY <1>0, <1>2, <1>3, InductionUpTo
  <2> QED  BY <1>0, <2>1
<1>5. Outcomes(r, p, m, n) = [reader |-> MidMessage(r, p, m, <<>>, <<>>), out |-> <<Meaning(m)>>]
  <2>1. n # 0 /\ ~(n < n)
    BY <1>0
  <2> QED  BY <2>1 DEF Outcomes
<1> QED  BY <1>1, <1>4, <1>5

-----------------------------------------------------------------------------
(* One message after the other: reader and writer stay in step.            *)

\* The reader is where the writer left it.
Synced(r, o, size) ==
  /\ Between(r, size)
  /\ \A c \in Cids : r.in[c].data = <<>>
  /\ \A c \in Cids \ {"protocol"} : Ready(o[c], r.in[c])

\* What librtmp is asked to send: only control messages change the chunk size.
ToSend == {m \in Packet : m.cid = "protocol" \/ m.type # "SetChunkSize"}

Writer == [out : [Cids -> OutPacket], chunk : Sizes, buffers : Seq(Buffer)]

LEMMA WriteMessageType ==
  ASSUME NEW w \in Writer, NEW m \in Packet
  PROVE  WriteMessage(w, m) \in Writer
<1>0. w.out \in [Cids -> OutPacket] /\ w.chunk \in Sizes /\ w.buffers \in Seq(Buffer) /\ m.cid \in Cids
      /\ w.out[m.cid] \in OutPacket
  BY DEF Writer, Packet
<1>1. CASE m.cid = "protocol"
  <2>1. ControlBuffer(m) \in Buffer
    BY DEF ControlBuffer, ControlBuffers, Buffer
  <2>2. Append(w.buffers, ControlBuffer(m)) \in Seq(Buffer)
    BY <1>0, <2>1, AppendProperties
  <2>3. NextChunk \in Sizes
    BY DEF Sizes
  <2> QED  BY <1>0, <1>1, <2>2, <2>3 DEF WriteMessage, Writer
<1>2. CASE m.cid # "protocol"
  <2> DEFINE p == w.out[m.cid]
             bs == ChunkBuffers(p, m, w.chunk)
             saved == SavePacket(p, m)
  <2>1. bs \in Seq(Buffer) /\ saved \in OutPacket
    <3>1. bs \in Seq(Buffer)
      BY <1>0, ChunkBuffersType
    <3>2. 0 \in 0 .. 3
      OBVIOUS
    <3> QED  BY <1>0, <3>1, <3>2, WrittenHeaderType
  <2>2. WriteMessage(w, m) = [w EXCEPT !.buffers = w.buffers \o bs, !.out[m.cid] = saved]
    BY <1>2 DEF WriteMessage
  <2> HIDE DEF bs, saved
  <2>3. w.buffers \o bs \in Seq(Buffer)
    BY <1>0, <2>1, ConcatProperties
  <2> QED  BY <1>0, <2>1, <2>2, <2>3 DEF Writer
<1> QED  BY <1>1, <1>2

\* The reader that is left by a message to send is the one the writer takes it for.
LEMMA WriteMessageUnderstood ==
  ASSUME NEW w \in Writer, NEW m \in ToSend, NEW r \in Reader, Synced(r, w.out, w.chunk)
  PROVE  \E bs \in Seq(Buffer) :
           /\ WriteMessage(w, m).buffers = w.buffers \o bs
           /\ Reads(r, bs).out = <<Meaning(m)>>
           /\ Synced(Reads(r, bs).reader, WriteMessage(w, m).out, WriteMessage(w, m).chunk)
<1>0. /\ w.out \in [Cids -> OutPacket] /\ w.chunk \in Sizes /\ w.buffers \in Seq(Buffer)
      /\ m \in Packet /\ m.cid \in Cids /\ w.out[m.cid] \in OutPacket
      /\ m.cid = "protocol" \/ m.type # "SetChunkSize"
  BY DEF Writer, Packet, ToSend
<1>s. /\ ~r.garbled /\ r.at = <<>> /\ r.chunk = w.chunk
      /\ \A c \in Cids : r.in[c].data = <<>>
      /\ \A c \in Cids \ {"protocol"} : Ready(w.out[c], r.in[c])
  BY DEF Synced, Between
<1>1. CASE m.cid = "protocol"
  <2> DEFINE b == ControlBuffer(m)
             k == [known |-> TRUE, clock |-> 0, delta |-> 0, ts |-> 0, len |-> m.len,
                   type |-> m.type, sid |-> 0, data |-> <<>>]
             x == [r EXCEPT !.in[m.cid] = k]
             y == Handle(x, m.type)
  <2>1. b \in Buffer /\ b.kind = "control" /\ b.m = m
    BY <1>0 DEF ControlBuffer, ControlBuffers, Buffer
  <2>2. Read(r, b) = [reader |-> y, out |-> <<Meaning(m)>>]
    <3>1. Read(r, b) = ReadControl(r, b)
      BY <1>s, <2>1 DEF Read
    <3> HIDE DEF b
    <3> QED  BY <2>1, <3>1 DEF ReadControl
  <2>3. Reads(r, <<b>>) = [reader |-> y, out |-> <<Meaning(m)>>] /\ <<b>> \in Seq(Buffer)
    <3> HIDE DEF b
    <3> QED  BY <2>1, <2>2, ReadsOne
  <2>4. /\ WriteMessage(w, m).buffers = w.buffers \o <<b>> /\ WriteMessage(w, m).out = w.out
        /\ WriteMessage(w, m).chunk = IF m.type = "SetChunkSize" THEN NextChunk ELSE w.chunk
    <3>1. Append(w.buffers, b) = w.buffers \o <<b>>
      <4> DEFINE s == w.buffers
      <4>1. s \in Seq(Buffer)
        BY <1>0
      <4> HIDE DEF b, s
      <4>2. Append(s, b) = s \o <<b>>
        BY <2>1, <4>1, AppendIsConcat
      <4> QED  BY <4>2 DEF s
    <3> DEFINE chunk == IF m.type = "SetChunkSize" THEN NextChunk ELSE w.chunk
    <3>2. WriteMessage(w, m) = [w EXCEPT !.buffers = Append(w.buffers, b), !.chunk = chunk]
      BY <1>1 DEF WriteMessage
    <3> HIDE DEF b, chunk
    <3>3. /\ WriteMessage(w, m).buffers = Append(w.buffers, b)
          /\ WriteMessage(w, m).out = w.out /\ WriteMessage(w, m).chunk = chunk
      BY <3>2 DEF Writer
    <3> QED  BY <3>1, <3>3 DEF chunk
  <2> HIDE DEF b, k
  <2>5. /\ x.in[m.cid] = k /\ \A c \in Cids \ {m.cid} : x.in[c] = r.in[c]
        /\ x.at = r.at /\ x.garbled = r.garbled /\ x.chunk = r.chunk
    BY <1>0 DEF Reader
  <2>6. /\ y.in = x.in /\ y.at = r.at /\ y.garbled = r.garbled
        /\ y.chunk = IF m.type = "SetChunkSize" THEN NextChunk ELSE w.chunk
    <3>1. x \in [in : {x.in}, chunk : {x.chunk}, at : {x.at}, garbled : {x.garbled}]
      BY DEF Reader
    <3> HIDE DEF x
    <3> QED  BY <1>s, <2>5, <3>1 DEF Handle
  <2>7. k.data = <<>>
    BY DEF k
  <2> HIDE DEF x, y
  <2>8. Synced(y, w.out, WriteMessage(w, m).chunk)
    <3>1. Between(y, WriteMessage(w, m).chunk)
      <4>1. y.at = <<>> /\ y.chunk = WriteMessage(w, m).chunk
        BY <1>s, <2>4, <2>6
      <4>2. ~y.garbled
        BY <1>s, <2>6, Zenon
      <4> QED  BY <4>1, <4>2 DEF Between
    <3>2. \A c \in Cids : y.in[c].data = <<>>
      BY <1>s, <2>5, <2>6, <2>7
    <3>3. \A c \in Cids \ {"protocol"} : Ready(w.out[c], y.in[c])
      BY <1>1, <1>s, <2>5, <2>6
    <3> QED  BY <3>1, <3>2, <3>3 DEF Synced
  <2>9. Reads(r, <<b>>).out = <<Meaning(m)>> /\ Reads(r, <<b>>).reader = y
    BY <2>3
  <2> QED  BY <2>3, <2>4, <2>8, <2>9
<1>2. CASE m.cid # "protocol"
  <2> DEFINE p == w.out[m.cid]
             bs == ChunkBuffers(p, m, w.chunk)
             saved == SavePacket(p, m)
             k == Reading(p, m, <<>>)
             y == MidMessage(r, p, m, <<>>, <<>>)
  <2>1. bs \in Seq(Buffer)
    BY <1>0, ChunkBuffersType
  <2>2. /\ WriteMessage(w, m).buffers = w.buffers \o bs /\ WriteMessage(w, m).chunk = w.chunk
        /\ WriteMessage(w, m).out = [w.out EXCEPT ![m.cid] = saved]
    <3>1. WriteMessage(w, m) = [w EXCEPT !.buffers = w.buffers \o bs, !.out[m.cid] = saved]
      BY <1>2 DEF WriteMessage
    <3> HIDE DEF bs, saved
    <3> QED  BY <1>0, <3>1 DEF Writer
  <2>3. Ready(p, r.in[m.cid]) /\ Between(r, r.chunk) /\ m.type # "SetChunkSize"
    BY <1>0, <1>2, <1>s DEF Between
  <2>4. Reads(r, bs) = [reader |-> y, out |-> <<Meaning(m)>>]
    <3>1. Reads(r, ChunkBuffers(p, m, r.chunk)) = [reader |-> y, out |-> <<Meaning(m)>>]
      BY <1>0, <2>3, MessageUnderstood
    <3> QED  BY <1>s, <3>1
  <2>5. /\ y.in[m.cid] = k /\ y.at = <<>> /\ y.garbled = r.garbled /\ y.chunk = r.chunk
        /\ \A c \in Cids \ {m.cid} : y.in[c] = r.in[c]
    <3>1. <<>> \in {<<>>, <<m.cid>>} /\ <<>> \in Seq(Byte)
      OBVIOUS
    <3> QED  BY <1>0, <3>1, MidMessageType
  <2>6. k.data = <<>> /\ Ready(saved, k)
    BY DEF Reading, Ready, InStep, SavePacket
  <2> HIDE DEF p, bs, saved, k, y
  <2>7. Synced(y, [w.out EXCEPT ![m.cid] = saved], w.chunk)
    <3>1. Between(y, w.chunk)
      <4>1. ~y.garbled
        BY <1>s, <2>5, Zenon
      <4> QED  BY <1>s, <2>5, <4>1 DEF Between
    <3>2. \A c \in Cids : y.in[c].data = <<>>
      BY <1>s, <2>5, <2>6
    <3>3. \A c \in Cids \ {"protocol"} : Ready([w.out EXCEPT ![m.cid] = saved][c], y.in[c])
      BY <1>0, <1>s, <2>5, <2>6
    <3> QED  BY <3>1, <3>2, <3>3 DEF Synced
  <2>8. Synced(y, WriteMessage(w, m).out, WriteMessage(w, m).chunk)
    BY <2>2, <2>7
  <2>9. Reads(r, bs).out = <<Meaning(m)>> /\ Reads(r, bs).reader = y
    BY <2>4
  <2> QED  BY <2>1, <2>2, <2>8, <2>9
<1> QED  BY <1>1, <1>2

\* Several messages, from the writer the connection has.
WriterNow == [out |-> out, chunk |-> outChunk, buffers |-> <<>>]
Meanings(ms) == [i \in DOMAIN ms |-> Meaning(ms[i])]

WritesTo(f, ms) ==
  /\ f \in [0 .. Len(ms) -> Writer] /\ f[0] = WriterNow
  /\ \A k \in 1 .. Len(ms) : f[k] = WriteMessage(f[k - 1], ms[k])

LEMMA WrittenExists ==
  ASSUME out \in [Cids -> OutPacket], outChunk \in Sizes, NEW ms \in Seq(Packet)
  PROVE  /\ \E f : WritesTo(f, ms) /\ Written(ms) = f[Len(ms)]
         /\ Written(ms) \in Writer
<1> DEFINE n == Len(ms)
           x == WriterNow
           step == [k \in 1 .. n |-> [y \in Writer |-> WriteMessage(y, ms[k])]]
           Body(g) == [k \in 0 .. n |-> IF k = 0 THEN x ELSE WriteMessage(g[k - 1], ms[k])]
           written == CHOOSE g : g = Body(g)
<1>0. n \in Nat /\ \A k \in 1 .. n : ms[k] \in Packet
  BY ElementOfSeq
<1>1. x \in Writer
  <2>1. <<>> \in Seq(Buffer)
    OBVIOUS
  <2> QED  BY <2>1 DEF Writer, WriterNow
<1>2. Written(ms) = written[n]
  BY DEF Written, WriterNow
<1> HIDE DEF n, x
<1>3. PICK f \in [0 .. n -> Writer] : f[0] = x /\ \A k \in 1 .. n : f[k] = WriteMessage(f[k - 1], ms[k])
  <2>1. step \in [1 .. n -> [Writer -> Writer]]
    <3>1. ASSUME NEW k \in 1 .. n, NEW y \in Writer  PROVE WriteMessage(y, ms[k]) \in Writer
      BY <1>0, WriteMessageType
    <3> QED  BY <3>1
  <2> HIDE DEF step
  <2>2. PICK f \in [0 .. n -> Writer] : Recursion(f, n, x, step)
    BY <1>0, <1>1, <2>1, RecursionUpTo
  <2>3. f[0] = x /\ \A k \in 1 .. n : f[k] = step[k][f[k - 1]]
    BY <2>2 DEF Recursion
  <2>4. ASSUME NEW k \in 1 .. n  PROVE f[k] = WriteMessage(f[k - 1], ms[k])
    <3>1. k - 1 \in 0 .. n
      BY <1>0
    <3>2. f[k - 1] \in Writer
      BY <3>1
    <3>3. \A y \in Writer : step[k][y] = WriteMessage(y, ms[k])
      BY DEF step
    <3> QED  BY <2>3, <3>2, <3>3
  <2> QED  BY <2>3, <2>4
<1>4. f = Body(f)
  <2>1. ASSUME NEW k \in 0 .. n  PROVE f[k] = IF k = 0 THEN x ELSE WriteMessage(f[k - 1], ms[k])
    <3>1. CASE k = 0
      BY <1>3, <3>1
    <3>2. CASE k # 0
      <4>1. k \in 1 .. n
        BY <1>0, <3>2
      <4> QED  BY <1>3, <3>2, <4>1
    <3> QED  BY <3>1, <3>2
  <2> QED  BY <1>3, <2>1
<1>5. written = Body(written)
  <2> HIDE DEF Body
  <2> QED  BY <1>4
<1>6. written[0] = x /\ \A k \in 1 .. n : written[k] = WriteMessage(written[k - 1], ms[k])
  <2> HIDE DEF written
  <2>1. \A k \in 0 .. n : written[k] = IF k = 0 THEN x ELSE WriteMessage(written[k - 1], ms[k])
    BY <1>5
  <2>2. 0 \in 0 .. n
    BY <1>0
  <2>3. ASSUME NEW k \in 1 .. n  PROVE k \in 0 .. n /\ k # 0
    BY <1>0
  <2> QED  BY <2>1, <2>2, <2>3
<1> DEFINE Q == {k \in 0 .. n : written[k] = f[k]}
<1> HIDE DEF written, Body
<1>7. n \in Q
  <2>1. 0 \in Q
    BY <1>0, <1>3, <1>6
  <2>2. ASSUME NEW k \in 0 .. (n - 1), k \in Q  PROVE k + 1 \in Q
    <3>1. k + 1 \in 1 .. n /\ (k + 1) - 1 = k /\ k + 1 \in 0 .. n
      BY <1>0
    <3>2. written[k + 1] = WriteMessage(written[k], ms[k + 1]) /\ f[k + 1] = WriteMessage(f[k], ms[k + 1])
      BY <1>3, <1>6, <3>1
    <3> QED  BY <2>2, <3>1, <3>2
  <2>3. 0 .. n \subseteq Q
    <3> HIDE DEF Q
    <3> QED  BY <1>0, <2>1, <2>2, InductionUpTo
  <2> QED  BY <1>0, <2>3
<1>8. WritesTo(f, ms)
  BY <1>3 DEF WritesTo, n, x
<1>9. f[n] \in Writer
  <2>1. n \in 0 .. n
    BY <1>0
  <2> QED  BY <1>3, <2>1
<1> QED  BY <1>2, <1>7, <1>8, <1>9 DEF n

\* A reader in step with the writer gets all of them and is in step again.
LEMMA WrittenUnderstood ==
  ASSUME out \in [Cids -> OutPacket], outChunk \in Sizes, NEW ms \in Seq(ToSend),
         NEW r \in Reader, Synced(r, out, outChunk)
  PROVE  /\ Reads(r, Written(ms).buffers).out = Meanings(ms)
         /\ Synced(Reads(r, Written(ms).buffers).reader, Written(ms).out, Written(ms).chunk)
<1> DEFINE n == Len(ms)
<1>0. n \in Nat /\ ms \in Seq(Packet) /\ \A k \in 1 .. n : ms[k] \in ToSend /\ ms[k] \in Packet
  BY ElementOfSeq DEF ToSend
<1>1. PICK f : WritesTo(f, ms) /\ Written(ms) = f[n]
  BY <1>0, WrittenExists
<1>2. /\ f \in [0 .. n -> Writer] /\ f[0] = WriterNow
      /\ \A k \in 1 .. n : f[k] = WriteMessage(f[k - 1], ms[k])
  BY <1>1 DEF WritesTo
<1> DEFINE first(k) == [i \in 1 .. k |-> Meaning(ms[i])]
           Good(k) == /\ Reads(r, f[k].buffers).out = first(k)
                      /\ Synced(Reads(r, f[k].buffers).reader, f[k].out, f[k].chunk)
           Q == {k \in 0 .. n : Good(k)}
<1> HIDE DEF n
<1>3. 0 \in Q
  <2>1. f[0].out = out /\ f[0].chunk = outChunk /\ f[0].buffers = <<>>
    BY <1>2 DEF WriterNow
  <2> DEFINE y == Reads(r, <<>>)
  <2>2. y.reader = r /\ y.out = <<>>
    BY ReadsNone
  <2>3. first(0) = <<>>
    OBVIOUS
  <2> HIDE DEF y, first
  <2>4. Reads(r, f[0].buffers) = y
    BY <2>1 DEF y
  <2>5. Good(0)
    BY <2>1, <2>2, <2>3, <2>4
  <2> HIDE DEF Good
  <2> QED  BY <1>0, <2>5
<1>4. ASSUME NEW k \in 0 .. (n - 1), k \in Q  PROVE k + 1 \in Q
  <2>1. k + 1 \in 1 .. n /\ (k + 1) - 1 = k /\ k + 1 \in 0 .. n /\ k \in 0 .. n /\ k \in Nat
    BY <1>0
  <2> DEFINE w == f[k]
             m == ms[k + 1]
             v == f[k + 1]
             q == Reads(r, w.buffers).reader
  <2>2. w \in Writer /\ m \in ToSend /\ v = WriteMessage(w, m)
    BY <1>0, <1>2, <2>1
  <2>3. w.buffers \in Seq(Buffer)
    BY <2>2 DEF Writer
  <2>4. Reads(r, w.buffers).out = first(k) /\ Synced(q, w.out, w.chunk)
    BY <1>4
  <2>5. q \in Reader /\ Reads(r, w.buffers).out \in Seq(Message)
    BY <2>3, ReadsType
  <2> HIDE DEF w, m, v, q, first
  <2>6. PICK bs \in Seq(Buffer) :
           /\ WriteMessage(w, m).buffers = w.buffers \o bs
           /\ Reads(q, bs).out = <<Meaning(m)>>
           /\ Synced(Reads(q, bs).reader, WriteMessage(w, m).out, WriteMessage(w, m).chunk)
    BY <2>2, <2>4, <2>5, WriteMessageUnderstood
  <2> DEFINE x == Reads(r, w.buffers \o bs)
  <2>7. x = [reader |-> Reads(q, bs).reader, out |-> Reads(r, w.buffers).out \o Reads(q, bs).out]
    BY <2>3, ReadsConcat DEF q
  <2>8. x.reader = Reads(q, bs).reader /\ x.out = Reads(r, w.buffers).out \o Reads(q, bs).out
    <3> DEFINE u == Reads(q, bs).reader
               z == Reads(r, w.buffers).out \o Reads(q, bs).out
    <3>1. x = [reader |-> u, out |-> z]
      BY <2>7
    <3> HIDE DEF u, z, x
    <3>2. x.reader = u /\ x.out = z
      BY <3>1
    <3> QED  BY <3>2 DEF u, z
  <2> HIDE DEF x
  <2>9. x.out = first(k) \o <<Meaning(m)>>
    BY <2>4, <2>6, <2>8
  <2>10. first(k) \o <<Meaning(m)>> = first(k + 1)
    <3>1. first(k) \in Seq(Message) /\ Meaning(m) \in Message
      <4>1. m \in Packet
        BY <2>2 DEF ToSend
      <4> QED  BY <2>4, <2>5, <4>1, MeaningType
    <3>2. Append(first(k), Meaning(m)) = first(k) \o <<Meaning(m)>>
      BY <3>1, AppendIsConcat
    <3>3. Append(first(k), Meaning(m)) = first(k + 1)
      BY <2>1 DEF first, m
    <3> QED  BY <3>2, <3>3
  <2>11. v.buffers = w.buffers \o bs /\ v.out = WriteMessage(w, m).out /\ v.chunk = WriteMessage(w, m).chunk
    BY <2>2, <2>6
  <2>12. Reads(r, v.buffers) = x
    BY <2>11 DEF x
  <2>13. Reads(r, v.buffers).out = first(k + 1)
    BY <2>9, <2>10, <2>12
  <2>14. Synced(Reads(r, v.buffers).reader, v.out, v.chunk)
    BY <2>6, <2>8, <2>11, <2>12
  <2>15. Good(k + 1)
    BY <2>13, <2>14 DEF v
  <2> HIDE DEF Good
  <2> QED  BY <2>1, <2>15
<1>5. n \in Q
  <2> HIDE DEF Q
  <2>1. 0 .. n \subseteq Q
    BY <1>0, <1>3, <1>4, InductionUpTo
  <2> QED  BY <1>0, <2>1
<1>6. Meanings(ms) = first(n)
  BY <1>0 DEF Meanings, n
<1>7. Good(n)
  BY <1>5
<1> QED  BY <1>1, <1>6, <1>7 DEF n

-----------------------------------------------------------------------------
(* What the two loops hand over is of the types librtmp sends.             *)

LEMMA CommandsType ==
  /\ \A sid \in Nat : Command(sid) \in ToSend /\ SampleAccess(sid) \in ToSend
  /\ \A type \in {"Ack", "WindowAck", "PeerBandwidth", "SetChunkSize", "Event"} : Control(type) \in ToSend
<1>1. {"protocol", "invoke"} \subseteq Cids /\ 0 \in Clock
  BY MediaAssumption, Constants
<1>2. ASSUME NEW sid \in Nat  PROVE Command(sid) \in ToSend
  BY <1>1 DEF Command, ToSend, Packet, Types
<1>3. ASSUME NEW sid \in Nat  PROVE SampleAccess(sid) \in ToSend
  BY <1>1, <1>2 DEF SampleAccess, Command, ToSend, Packet, Types
<1>4. ASSUME NEW type \in {"Ack", "WindowAck", "PeerBandwidth", "SetChunkSize", "Event"}
      PROVE  Control(type) \in ToSend
  BY <1>1 DEF Control, ToSend, Packet, Types
<1> QED  BY <1>2, <1>3, <1>4

LEMMA MediaType ==
  ASSUME stream \in Nat, NEW p \in Media
  PROVE  <<MediaMessage(p[1], p[2], p[3])>> \in Seq(ToSend)
<1> DEFINE kind == p[1]
           ts == p[2]
           len == p[3]
           m == MediaMessage(kind, ts, len)
<1>1. ts \in 0 .. Wrap - 1 /\ len \in Nat \ {0}
  BY MediaAssumption
<1>0. kind = "script" \/ kind \in Cids \cap {"audio", "video"}
  BY MediaAssumption
<1> HIDE DEF kind, ts, len
<1>2. ASSUME kind = "script"  PROVE m \in ToSend
  <2>1. m = [id |-> 0, cid |-> "invoke", type |-> "Data", sid |-> stream, ts |-> ts, len |-> len,
             zip |-> TRUE]
    BY <1>2 DEF MediaMessage
  <2>2. "invoke" \in Cids
    BY MediaAssumption
  <2>3. "Data" \in Types \ {"none", "garbage"} /\ "Data" # "SetChunkSize"
    BY DEF Types
  <2> HIDE DEF m
  <2>4. m \in Packet
    BY <1>1, <2>1, <2>2, <2>3 DEF Packet, Clock
  <2>5. m.type # "SetChunkSize"
    BY <2>1, <2>3
  <2> QED  BY <2>4, <2>5 DEF ToSend
<1>3. ASSUME kind # "script"  PROVE m \in ToSend
  <2>1. m = [id |-> 0, cid |-> kind, type |-> kind, sid |-> stream, ts |-> ts, len |-> len,
             zip |-> TRUE]
    BY <1>3 DEF MediaMessage
  <2>2. kind \in Cids /\ kind \in {"audio", "video"}
    BY <1>0, <1>3
  <2>3. kind \in Types \ {"none", "garbage"} /\ kind # "SetChunkSize"
    BY <2>2 DEF Types
  <2> HIDE DEF m
  <2>4. m \in Packet
    BY <1>1, <2>1, <2>2, <2>3 DEF Packet, Clock
  <2>5. m.type # "SetChunkSize"
    BY <2>1, <2>3
  <2> QED  BY <2>4, <2>5 DEF ToSend
<1> HIDE DEF m
<1>4. m \in ToSend
  BY <1>2, <1>3
<1>5. <<m>> \in Seq(ToSend)
  BY <1>4
<1> QED  BY <1>5 DEF m, kind, ts, len

LEMMA ByType ==
  ASSUME NEW t \in Tasks, NEW ms \in Seq(ToSend)
  PROVE  By(t, ms) \in Seq(ToSend)
<1>1. Len(ms) \in Nat /\ DOMAIN ms = 1 .. Len(ms) /\ \A i \in 1 .. Len(ms) : ms[i] \in ToSend
  BY ElementOfSeq
<1>2. ASSUME NEW i \in 1 .. Len(ms)  PROVE [ms[i] EXCEPT !.id = <<t, i>>] \in ToSend
  <2> DEFINE m == ms[i]
             id == <<t, i>>
  <2>1. m \in ToSend /\ id \in (Tasks \X Nat) \cup {0}
    BY <1>1
  <2> HIDE DEF m, id
  <2>2. [m EXCEPT !.id = id] \in ToSend
    BY <2>1 DEF ToSend, Packet
  <2> QED  BY <2>2 DEF m, id
<1> QED  BY <1>1, <1>2 DEF By

\* The sequences the answers are.
LEMMA MessagesType ==
  ASSUME NEW a \in ToSend, NEW b \in ToSend, NEW c \in ToSend, NEW d \in ToSend, NEW e \in ToSend
  PROVE  /\ <<>> \in Seq(ToSend) /\ <<a>> \in Seq(ToSend) /\ <<a, b>> \in Seq(ToSend)
         /\ <<a, b, c>> \in Seq(ToSend) /\ <<a, b, c, d>> \in Seq(ToSend)
         /\ <<a, b, c, d, e>> \in Seq(ToSend)
<1>1. <<>> \in Seq(ToSend) /\ <<a>> \in Seq(ToSend)
  OBVIOUS
<1>2. <<a, b>> \in Seq(ToSend) /\ <<a, b, c>> \in Seq(ToSend)
  OBVIOUS
<1>3. <<a, b, c, d>> \in Seq(ToSend) /\ <<a, b, c, d, e>> \in Seq(ToSend)
  OBVIOUS
<1> QED  BY <1>1, <1>2, <1>3

\* An answer: its messages, and the stream it opens or closes.
LEMMA AnswersType ==
  ASSUME stream \in Nat, NEW a \in Answers
  PROVE  a.messages \in Seq(ToSend) /\ a.stream \in Nat
<1>1. /\ Command(0) \in ToSend /\ Command(1) \in ToSend /\ Command(stream) \in ToSend
      /\ SampleAccess(stream) \in ToSend /\ Control("Ack") \in ToSend
      /\ Control("WindowAck") \in ToSend /\ Control("PeerBandwidth") \in ToSend
      /\ Control("SetChunkSize") \in ToSend /\ Control("Event") \in ToSend
  BY CommandsType
<1>2. a \in ServerAnswers \/ a \in ClientAnswers \/
      a = [from |-> stage, to |-> stage, stream |-> stream, plays |-> playing,
           messages |-> <<Control("Ack")>>]
  BY DEF Answers
<1> DEFINE l == a.messages
<1>3. CASE a \in ServerAnswers
  <2>1. a.stream \in {stream, 1, 0}
    BY <1>3 DEF ServerAnswers
  <2> DEFINE l1 == <<Control("WindowAck"), Control("PeerBandwidth"), Control("SetChunkSize"), Command(0)>>
             l2 == <<Command(0)>>
             l3 == <<Control("Event"), Command(stream), Command(stream), Control("Event"),
                     SampleAccess(stream)>>
  <2>3. l = l1 \/ l = l2 \/ l = l3
    BY <1>3 DEF ServerAnswers
  <2>4. l1 \in Seq(ToSend) /\ l2 \in Seq(ToSend) /\ l3 \in Seq(ToSend)
    BY <1>1, MessagesType
  <2> HIDE DEF l, l1, l2, l3
  <2>5. l \in Seq(ToSend)
    BY <2>3, <2>4
  <2>6. a.stream \in Nat
    BY <2>1
  <2> QED  BY <2>5, <2>6 DEF l
<1>4. CASE a \in ClientAnswers
  <2>1. a.stream \in {stream, 1, 0}
    BY <1>4 DEF ClientAnswers
  <2> DEFINE l1 == <<Command(0)>>
             l2 == <<Command(stream), Command(0), Command(0)>>
             l3 == <<Command(1), Control("SetChunkSize")>>
             l4 == <<>>
  <2>3. l = l1 \/ l = l2 \/ l = l3 \/ l = l4
    BY <1>4 DEF ClientAnswers
  <2>4. l1 \in Seq(ToSend) /\ l2 \in Seq(ToSend) /\ l3 \in Seq(ToSend) /\ l4 \in Seq(ToSend)
    BY <1>1, MessagesType
  <2> HIDE DEF l, l1, l2, l3, l4
  <2>5. l \in Seq(ToSend)
    BY <2>3, <2>4
  <2>6. a.stream \in Nat
    BY <2>1
  <2> QED  BY <2>5, <2>6 DEF l
<1>5. CASE a = [from |-> stage, to |-> stage, stream |-> stream, plays |-> playing,
                messages |-> <<Control("Ack")>>]
  <2>1. a.stream = stream /\ a.messages = <<Control("Ack")>>
    BY <1>5
  <2>3. <<Control("Ack")>> \in Seq(ToSend)
    BY <1>1, MessagesType
  <2> QED  BY <2>1, <2>3
<1> QED  BY <1>2, <1>3, <1>4, <1>5

-----------------------------------------------------------------------------
(* The type invariant, for both roles.                                     *)

\* The tasks in the lock: who waits is there once, in some order.
LockIs(l, tasksOf) == l \in Seq(Tasks) /\ Distinct(l) /\ Range(l) = tasksOf

Writers(p) == {t \in Tasks : Role = "client" /\ p[t] = "write"}

TypeInv ==
  /\ out \in [Cids -> OutPacket] /\ outChunk \in Sizes
  /\ stream \in Nat
  /\ cache \in Seq(Buffer)
  /\ wire \in Seq(Buffer) /\ Len(wire) <= Socket
  /\ reader \in Reader
  /\ pc \in [Tasks -> {"idle", "flush", "write"}]
  /\ todo \in [Tasks -> Seq(Buffer)]
  /\ \A t \in Tasks : (pc[t] = "write") <=> (todo[t] # <<>>)
  /\ LockIs(lock, Writers(pc))

LEMMA LockNone ==
  LockIs(<<>>, {})
<1>1. <<>> \in Seq(Tasks) /\ Len(<<>>) = 0
  OBVIOUS
<1>2. Distinct(<<>>)
  BY <1>1 DEF Distinct
<1>3. Range(<<>>) = {}
  BY <1>1 DEF Range
<1> QED  BY <1>1, <1>2, <1>3 DEF LockIs

LEMMA LockGrows ==
  ASSUME NEW l, NEW W, LockIs(l, W), NEW t \in Tasks, t \notin W
  PROVE  LockIs(Append(l, t), W \cup {t})
<1> DEFINE n == Len(l)
           k == Append(l, t)
<1>1. l \in Seq(Tasks) /\ n \in Nat /\ Distinct(l) /\ W = {l[i] : i \in 1 .. n}
  BY LenProperties DEF LockIs, Range
<1>2. k \in Seq(Tasks) /\ Len(k) = n + 1 /\ (\A i \in 1 .. n : k[i] = l[i]) /\ k[n + 1] = t
  BY <1>1, AppendProperties
<1> HIDE DEF n, k
<1>3. \A i \in 1 .. n : l[i] \in W
  BY <1>1
<1>4. ASSUME NEW i \in 1 .. (n + 1), NEW j \in 1 .. (n + 1), k[i] = k[j]  PROVE i = j
  <2>1. (i \in 1 .. n \/ i = n + 1) /\ (j \in 1 .. n \/ j = n + 1)
    BY <1>1
  <2>2. CASE i \in 1 .. n /\ j \in 1 .. n
    <3>1. l[i] = l[j]
      BY <1>2, <1>4, <2>2
    <3> QED  BY <1>1, <2>2, <3>1 DEF Distinct, n
  <2>3. CASE i = n + 1 \/ j = n + 1
    <3>1. \A c \in 1 .. n : k[c] # t
      BY <1>2, <1>3
    <3> QED  BY <1>2, <1>4, <2>1, <2>3, <3>1
  <2> QED  BY <2>1, <2>2, <2>3
<1>5. Range(k) = {k[i] : i \in 1 .. (n + 1)}
  BY <1>2 DEF Range
<1>6. {k[i] : i \in 1 .. (n + 1)} = W \cup {t}
  <2>1. ASSUME NEW i \in 1 .. (n + 1)  PROVE k[i] \in W \cup {t}
    <3>1. i \in 1 .. n \/ i = n + 1
      BY <1>1
    <3> QED  BY <1>2, <1>3, <3>1
  <2>2. ASSUME NEW w \in W \cup {t}  PROVE \E i \in 1 .. (n + 1) : k[i] = w
    <3>1. CASE w = t
      <4>1. n + 1 \in 1 .. (n + 1)
        BY <1>1
      <4> QED  BY <1>2, <3>1, <4>1
    <3>2. CASE w \in W
      <4>1. PICK i \in 1 .. n : w = l[i]
        BY <1>1, <3>2
      <4>2. i \in 1 .. (n + 1)
        BY <1>1
      <4> QED  BY <1>2, <4>1, <4>2
    <3> QED  BY <3>1, <3>2
  <2> QED  BY <2>1, <2>2
<1>7. Distinct(k)
  BY <1>2, <1>4 DEF Distinct
<1> QED  BY <1>2, <1>5, <1>6, <1>7 DEF LockIs, k

LEMMA LockShrinks ==
  ASSUME NEW l, NEW W, LockIs(l, W), l # <<>>
  PROVE  LockIs(Tail(l), W \ {Head(l)}) /\ Head(l) \in W
<1> DEFINE n == Len(l)
           k == Tail(l)
           h == Head(l)
<1>1. l \in Seq(Tasks) /\ n \in Nat /\ Distinct(l) /\ W = {l[i] : i \in 1 .. n}
  BY LenProperties DEF LockIs, Range
<1>2. k \in Seq(Tasks) /\ Len(k) = n - 1 /\ (\A i \in 1 .. (n - 1) : k[i] = l[i + 1]) /\ h = l[1] /\ n > 0
  BY <1>1, FirstAndRest
<1>3. \A i, j \in 1 .. n : l[i] = l[j] => i = j
  BY <1>1 DEF Distinct
<1> HIDE DEF n, k, h
<1>4. ASSUME NEW i \in 1 .. (n - 1), NEW j \in 1 .. (n - 1), k[i] = k[j]  PROVE i = j
  <2>1. i + 1 \in 1 .. n /\ j + 1 \in 1 .. n
    BY <1>1
  <2>2. l[i + 1] = l[j + 1]
    BY <1>2, <1>4
  <2>3. i + 1 = j + 1
    BY <1>3, <2>1, <2>2
  <2> QED  BY <2>3
<1>5. {k[i] : i \in 1 .. (n - 1)} = W \ {h}
  <2>0. 1 \in 1 .. n
    BY <1>1, <1>2
  <2>1. ASSUME NEW i \in 1 .. (n - 1)  PROVE k[i] \in W \ {h}
    <3>1. i + 1 \in 1 .. n /\ i + 1 # 1
      BY <1>1
    <3>2. l[i + 1] \in W /\ l[i + 1] # l[1]
      BY <1>1, <1>3, <2>0, <3>1
    <3> QED  BY <1>2, <3>2
  <2>2. ASSUME NEW w \in W \ {h}  PROVE \E i \in 1 .. (n - 1) : k[i] = w
    <3>1. PICK i \in 1 .. n : w = l[i]
      BY <1>1
    <3>2. i # 1
      BY <1>2, <3>1
    <3>3. i - 1 \in 1 .. (n - 1) /\ (i - 1) + 1 = i
      BY <1>1, <3>2
    <3> QED  BY <1>2, <3>1, <3>3
  <2> QED  BY <2>1, <2>2
<1>6. Range(k) = {k[i] : i \in 1 .. (n - 1)}
  BY <1>2 DEF Range
<1>7. Distinct(k)
  BY <1>2, <1>4 DEF Distinct
<1>8. h \in W
  <2>1. 1 \in 1 .. n
    BY <1>1, <1>2
  <2> QED  BY <1>1, <1>2, <2>1
<1> QED  BY <1>2, <1>5, <1>6, <1>7, <1>8 DEF LockIs, k, h

\* What handing messages over does to the writer and to the cache.
LEMMA HandOverType ==
  ASSUME TypeInv, NEW ms \in Seq(ToSend), HandOver(ms)
  PROVE  /\ out' \in [Cids -> OutPacket] /\ outChunk' \in Sizes /\ cache' \in Seq(Buffer)
         /\ Written(ms).buffers \in Seq(Buffer)
<1>1. Written(ms) \in Writer
  <2>1. ms \in Seq(Packet)
    <3>1. ToSend \subseteq Packet
      BY DEF ToSend
    <3> QED  BY <3>1
  <2> QED  BY <2>1, WrittenExists DEF TypeInv
<1> DEFINE w == Written(ms)
<1>2. out' = w.out /\ outChunk' = w.chunk /\ cache' = cache \o w.buffers
  BY DEF HandOver
<1>3. w.out \in [Cids -> OutPacket] /\ w.chunk \in Sizes /\ w.buffers \in Seq(Buffer)
  BY <1>1 DEF Writer
<1> HIDE DEF w
<1>4. cache' \in Seq(Buffer)
  BY <1>2, <1>3, ConcatProperties DEF TypeInv
<1> QED  BY <1>2, <1>3, <1>4 DEF w

LEMMA InitType ==
  ASSUME Init
  PROVE  TypeInv
<1>1. out \in [Cids -> OutPacket]
  BY Constants DEF Init, OutInit, OutPacket, Types
<1>2. reader \in Reader
  <2>1. NoPacket \in InPacket
    <3>1. <<>> \in Seq(Byte) /\ 0 \in 0 .. Ext
      BY Constants
    <3> QED  BY <3>1, Constants DEF NoPacket, InPacket, Types
  <2>2. FirstChunk \in Sizes
    BY DEF Sizes
  <2> HIDE DEF NoPacket
  <2> QED  BY <2>1, <2>2 DEF Init, ReaderInit, Reader
<1>3. <<>> \in Seq(Buffer) /\ Len(<<>>) = 0
  OBVIOUS
<1>4. Writers(pc) = {}
  BY DEF Init, Writers
<1>5. LockIs(lock, Writers(pc))
  BY <1>4, LockNone DEF Init
<1>6. Len(wire) <= Socket /\ wire \in Seq(Buffer)
  BY <1>3, WireAssumption DEF Init
<1>7. /\ pc \in [Tasks -> {"idle", "flush", "write"}]
      /\ todo \in [Tasks -> Seq(Buffer)]
      /\ \A t \in Tasks : (pc[t] = "write") <=> (todo[t] # <<>>)
  BY <1>3 DEF Init
<1>8. outChunk \in Sizes /\ stream \in Nat /\ cache \in Seq(Buffer)
  BY <1>3 DEF Init, Sizes
<1> QED  BY <1>1, <1>2, <1>5, <1>6, <1>7, <1>8 DEF TypeInv

\* A task that becomes or stops being busy otherwise than by writing.
LEMMA PcStep ==
  ASSUME TypeInv, NEW t \in Tasks, pc[t] # "write", NEW v \in {"idle", "flush"},
         pc' = [pc EXCEPT ![t] = v], todo' = todo, lock' = lock
  PROVE  /\ pc' \in [Tasks -> {"idle", "flush", "write"}]
         /\ todo' \in [Tasks -> Seq(Buffer)]
         /\ \A u \in Tasks : (pc'[u] = "write") <=> (todo'[u] # <<>>)
         /\ LockIs(lock', Writers(pc'))
<1>1. pc \in [Tasks -> {"idle", "flush", "write"}]
  BY DEF TypeInv
<1>2. \A u \in Tasks : (pc'[u] = "write") <=> (pc[u] = "write")
  BY <1>1
<1>3. Writers(pc') = Writers(pc)
  BY <1>2 DEF Writers
<1> QED  BY <1>1, <1>2, <1>3 DEF TypeInv

LEMMA AnswerType ==
  ASSUME TypeInv, Answer
  PROVE  TypeInv'
<1>1. PICK a \in Answers : HandOver(By("input", a.messages)) /\ stream' = a.stream
  BY DEF Answer
<1>2. a.messages \in Seq(ToSend) /\ a.stream \in Nat
  BY AnswersType DEF TypeInv
<1>3. By("input", a.messages) \in Seq(ToSend)
  BY <1>2, ByType DEF Tasks
<1>4. out' \in [Cids -> OutPacket] /\ outChunk' \in Sizes /\ cache' \in Seq(Buffer)
  BY <1>1, <1>3, HandOverType
<1>5. /\ pc' \in [Tasks -> {"idle", "flush", "write"}]
      /\ todo' \in [Tasks -> Seq(Buffer)]
      /\ \A u \in Tasks : (pc'[u] = "write") <=> (todo'[u] # <<>>)
      /\ LockIs(lock', Writers(pc'))
  <2>1. "input" \in Tasks /\ pc["input"] # "write" /\ pc' = [pc EXCEPT !["input"] = "flush"]
        /\ todo' = todo /\ lock' = lock
    BY DEF Answer, Tasks
  <2> QED  BY <2>1, PcStep
<1>6. wire' = wire /\ reader' = reader
  BY DEF Answer
<1> QED  BY <1>1, <1>2, <1>4, <1>5, <1>6 DEF TypeInv

LEMMA PushType ==
  ASSUME TypeInv, Push
  PROVE  TypeInv'
<1>1. PICK p \in Media : HandOver(By("output", <<MediaMessage(p[1], p[2], p[3])>>))
  BY DEF Push
<1>2. <<MediaMessage(p[1], p[2], p[3])>> \in Seq(ToSend)
  BY MediaType DEF TypeInv
<1>3. By("output", <<MediaMessage(p[1], p[2], p[3])>>) \in Seq(ToSend)
  <2> DEFINE ms == <<MediaMessage(p[1], p[2], p[3])>>
  <2>1. "output" \in Tasks
    BY DEF Tasks
  <2> HIDE DEF ms
  <2>2. By("output", ms) \in Seq(ToSend)
    BY <1>2, <2>1, ByType DEF ms
  <2> QED  BY <2>2 DEF ms
<1>4. out' \in [Cids -> OutPacket] /\ outChunk' \in Sizes /\ cache' \in Seq(Buffer)
  BY <1>1, <1>3, HandOverType
<1>5. /\ pc' \in [Tasks -> {"idle", "flush", "write"}]
      /\ todo' \in [Tasks -> Seq(Buffer)]
      /\ \A u \in Tasks : (pc'[u] = "write") <=> (todo'[u] # <<>>)
      /\ LockIs(lock', Writers(pc'))
  <2>1. "output" \in Tasks /\ pc["output"] # "write" /\ pc' = [pc EXCEPT !["output"] = "flush"]
        /\ todo' = todo /\ lock' = lock
    BY DEF Push, Tasks
  <2> QED  BY <2>1, PcStep
<1>6. wire' = wire /\ reader' = reader /\ stream' = stream
  BY DEF Push, dialogue
<1> QED  BY <1>4, <1>5, <1>6 DEF TypeInv

LEMMA TakeType ==
  ASSUME TypeInv, NEW t \in Tasks, Take(t)
  PROVE  TypeInv'
<1>1. /\ pc[t] = "flush" /\ cache' = <<>> /\ out' = out /\ outChunk' = outChunk /\ stream' = stream
      /\ wire' = wire /\ reader' = reader
  BY DEF Take, writer, dialogue
<1>2. /\ pc \in [Tasks -> {"idle", "flush", "write"}] /\ todo \in [Tasks -> Seq(Buffer)]
      /\ cache \in Seq(Buffer) /\ LockIs(lock, Writers(pc))
      /\ \A u \in Tasks : (pc[u] = "write") <=> (todo[u] # <<>>)
  BY DEF TypeInv
<1>3. <<>> \in Seq(Buffer)
  OBVIOUS
<1>4. /\ pc' \in [Tasks -> {"idle", "flush", "write"}]
      /\ todo' \in [Tasks -> Seq(Buffer)]
      /\ \A u \in Tasks : (pc'[u] = "write") <=> (todo'[u] # <<>>)
      /\ LockIs(lock', Writers(pc'))
  <2>1. CASE done \/ cache = <<>>
    <3>1. pc' = [pc EXCEPT ![t] = "idle"] /\ todo' = todo /\ lock' = lock
      BY <2>1 DEF Take
    <3> QED  BY <1>1, <3>1, PcStep
  <2>2. CASE ~(done \/ cache = <<>>)
    <3>1. /\ pc' = [pc EXCEPT ![t] = "write"] /\ todo' = [todo EXCEPT ![t] = cache]
          /\ lock' = IF Role = "client" THEN Append(lock, t) ELSE lock
          /\ cache # <<>>
      BY <2>2 DEF Take
    <3>2. /\ pc' \in [Tasks -> {"idle", "flush", "write"}]
          /\ todo' \in [Tasks -> Seq(Buffer)]
      BY <1>2, <3>1
    <3>3. \A u \in Tasks : (pc'[u] = "write") <=> (todo'[u] # <<>>)
      BY <1>2, <3>1
    <3>4. LockIs(lock', Writers(pc'))
      <4>1. CASE Role = "client"
        <5>1. t \notin Writers(pc) /\ Writers(pc') = Writers(pc) \cup {t}
          BY <1>1, <1>2, <3>1, <4>1 DEF Writers
        <5>2. LockIs(Append(lock, t), Writers(pc) \cup {t})
          <6> DEFINE W == Writers(pc)
          <6>1. LockIs(lock, W) /\ t \notin W
            BY <1>2, <5>1
          <6> HIDE DEF W
          <6>2. LockIs(Append(lock, t), W \cup {t})
            BY <6>1, LockGrows
          <6> QED  BY <6>2 DEF W
        <5> QED  BY <3>1, <4>1, <5>1, <5>2
      <4>2. CASE Role # "client"
        <5>1. Writers(pc') = Writers(pc)
          BY <4>2 DEF Writers
        <5> QED  BY <1>2, <3>1, <4>2, <5>1
      <4> QED  BY <4>1, <4>2
    <3> QED  BY <3>2, <3>3, <3>4
  <2> QED  BY <2>1, <2>2
<1> QED  BY <1>1, <1>3, <1>4 DEF TypeInv

\* A task that wrote its last buffer, or drops what it has left, gives the lock on.
LEMMA FinishType ==
  ASSUME TypeInv, NEW t \in Tasks, MayWrite(t), Finish(t)
  PROVE  /\ pc' \in [Tasks -> {"idle", "flush", "write"}]
         /\ todo' \in [Tasks -> Seq(Buffer)]
         /\ \A u \in Tasks : (pc'[u] = "write") <=> (todo'[u] # <<>>)
         /\ LockIs(lock', Writers(pc'))
<1>1. /\ pc \in [Tasks -> {"idle", "flush", "write"}] /\ todo \in [Tasks -> Seq(Buffer)]
      /\ LockIs(lock, Writers(pc))
      /\ \A u \in Tasks : (pc[u] = "write") <=> (todo[u] # <<>>)
  BY DEF TypeInv
<1>2. /\ pc' = [pc EXCEPT ![t] = "idle"] /\ todo' = [todo EXCEPT ![t] = <<>>]
      /\ lock' = IF Role = "client" THEN Tail(lock) ELSE lock
      /\ pc[t] = "write" /\ (Role = "client" => Head(lock) = t)
  BY DEF Finish, MayWrite
<1>3. <<>> \in Seq(Buffer)
  OBVIOUS
<1>4. pc' \in [Tasks -> {"idle", "flush", "write"}] /\ todo' \in [Tasks -> Seq(Buffer)]
  BY <1>1, <1>2, <1>3
<1>5. \A u \in Tasks : (pc'[u] = "write") <=> (todo'[u] # <<>>)
  BY <1>1, <1>2
<1>6. LockIs(lock', Writers(pc'))
  <2>1. CASE Role = "client"
    <3>1. t \in Writers(pc) /\ Writers(pc') = Writers(pc) \ {t}
      BY <1>1, <1>2, <2>1 DEF Writers
    <3>2. lock # <<>>
      <4>1. SUFFICES ASSUME lock = <<>>  PROVE FALSE
        OBVIOUS
      <4>2. Range(lock) = {}
        BY <4>1 DEF Range
      <4> QED  BY <1>1, <3>1, <4>2 DEF LockIs
    <3> QED  BY <1>1, <1>2, <2>1, <3>1, <3>2, LockShrinks
  <2>2. CASE Role # "client"
    <3>1. Writers(pc') = Writers(pc)
      BY <2>2 DEF Writers
    <3> QED  BY <1>1, <1>2, <2>2, <3>1
  <2> QED  BY <2>1, <2>2
<1> QED  BY <1>4, <1>5, <1>6

LEMMA WriteType ==
  ASSUME TypeInv, NEW t \in Tasks, Write(t)
  PROVE  TypeInv'
<1>1. /\ MayWrite(t) /\ out' = out /\ outChunk' = outChunk /\ stream' = stream
      /\ cache' = cache /\ reader' = reader
  BY DEF Write, writer, dialogue
<1>2. /\ pc \in [Tasks -> {"idle", "flush", "write"}] /\ todo \in [Tasks -> Seq(Buffer)]
      /\ \A u \in Tasks : (pc[u] = "write") <=> (todo[u] # <<>>)
      /\ wire \in Seq(Buffer) /\ Len(wire) <= Socket /\ LockIs(lock, Writers(pc))
      /\ pc[t] = "write" /\ todo[t] \in Seq(Buffer) /\ todo[t] # <<>>
  BY <1>1 DEF TypeInv, MayWrite
<1>3. CASE Role = "server" /\ done
  <2>1. Finish(t) /\ wire' = wire
    BY <1>3 DEF Write
  <2> QED  BY <1>1, <1>2, <2>1, FinishType DEF TypeInv
<1>4. CASE ~(Role = "server" /\ done)
  <2> DEFINE b == Head(todo[t])
             rest == Tail(todo[t])
  <2>1. /\ Len(wire) < Socket /\ wire' = Append(wire, b)
        /\ IF Len(todo[t]) = 1 THEN Finish(t)
           ELSE todo' = [todo EXCEPT ![t] = rest] /\ pc' = pc /\ lock' = lock
    BY <1>4 DEF Write
  <2>2. b \in Buffer /\ rest \in Seq(Buffer) /\ Len(rest) = Len(todo[t]) - 1 /\ Len(todo[t]) \in Nat
    BY <1>2, FirstAndRest
  <2> HIDE DEF b, rest
  <2>3. wire' \in Seq(Buffer) /\ Len(wire') <= Socket
    <3>1. wire' \in Seq(Buffer) /\ Len(wire') = Len(wire) + 1 /\ Len(wire) \in Nat
      BY <1>2, <2>1, <2>2, AppendProperties, LenProperties
    <3> QED  BY <2>1, <3>1, WireAssumption
  <2>4. /\ pc' \in [Tasks -> {"idle", "flush", "write"}]
        /\ todo' \in [Tasks -> Seq(Buffer)]
        /\ \A u \in Tasks : (pc'[u] = "write") <=> (todo'[u] # <<>>)
        /\ LockIs(lock', Writers(pc'))
    <3>1. CASE Len(todo[t]) = 1
      BY <1>1, <2>1, <3>1, FinishType
    <3>2. CASE Len(todo[t]) # 1
      <4>1. todo' = [todo EXCEPT ![t] = rest] /\ pc' = pc /\ lock' = lock
        BY <2>1, <3>2
      <4>2. rest # <<>>
        <5>1. Len(todo[t]) # 0
          BY <1>2, EmptySeq
        <5>2. Len(rest) # 0
          BY <2>2, <3>2, <5>1
        <5>3. Len(<<>>) = 0
          OBVIOUS
        <5> QED  BY <5>2, <5>3
      <4> QED  BY <1>2, <2>2, <4>1, <4>2
    <3> QED  BY <3>1, <3>2
  <2> QED  BY <1>1, <2>3, <2>4 DEF TypeInv
<1> QED  BY <1>3, <1>4

LEMMA StopType ==
  ASSUME TypeInv, Stop
  PROVE  TypeInv'
<1> DEFINE n == IF Role = "server" THEN 1 ELSE 2
           ms == [i \in 1 .. n |-> Command(stream)]
           w == Written(ms)
<1>1. /\ out' = w.out /\ outChunk' = w.chunk /\ cache' = <<>>
      /\ stream' = stream /\ pc' = pc /\ todo' = todo /\ lock' = lock /\ wire' = wire /\ reader' = reader
  BY DEF Stop, dialogue, tasks
<1>2. Command(stream) \in Packet
  BY CommandsType DEF TypeInv, ToSend
<1>3. ms \in Seq(Packet)
  BY <1>2
<1> HIDE DEF ms
<1>4. w \in Writer
  BY <1>3, WrittenExists DEF TypeInv
<1> HIDE DEF w
<1>5. out' \in [Cids -> OutPacket] /\ outChunk' \in Sizes
  BY <1>1, <1>4 DEF Writer
<1>6. <<>> \in Seq(Buffer)
  OBVIOUS
<1> QED  BY <1>1, <1>5, <1>6 DEF TypeInv

LEMMA ReceiveType ==
  ASSUME TypeInv, Receive
  PROVE  TypeInv'
<1>1. /\ wire # <<>> /\ reader' = Read(reader, Head(wire)).reader /\ wire' = Tail(wire)
      /\ out' = out /\ outChunk' = outChunk /\ stream' = stream /\ cache' = cache
      /\ pc' = pc /\ todo' = todo /\ lock' = lock
  BY DEF Receive, writer, dialogue, tasks
<1>2. Head(wire) \in Buffer /\ Tail(wire) \in Seq(Buffer) /\ Len(Tail(wire)) = Len(wire) - 1
      /\ Len(wire) \in Nat
  BY <1>1, FirstAndRest DEF TypeInv
<1>3. reader' \in Reader
  BY <1>1, <1>2, ReadType DEF TypeInv
<1>4. Len(wire') <= Socket
  BY <1>1, <1>2, WireAssumption DEF TypeInv
<1> QED  BY <1>1, <1>2, <1>3, <1>4 DEF TypeInv

LEMMA TypeStep ==
  ASSUME TypeInv, [Next]_vars
  PROVE  TypeInv'
<1>1. CASE Next
  BY <1>1, AnswerType, PushType, StopType, ReceiveType, TakeType, WriteType DEF Next
<1>2. CASE UNCHANGED vars
  BY <1>2 DEF vars, writer, dialogue, tasks, history, TypeInv
<1> QED  BY <1>1, <1>2

LEMMA TypeInvIsEnough ==
  ASSUME TypeInv
  PROVE  WireTypeOK
<1>1. \A t \in Tasks : (pc[t] = "write") = (todo[t] # <<>>)
  BY DEF TypeInv
<1>2. Range(lock) = {t \in Tasks : Role = "client" /\ pc[t] = "write"}
  BY DEF TypeInv, LockIs, Writers
<1>3. outChunk \in {FirstChunk, NextChunk} /\ reader.chunk \in {FirstChunk, NextChunk}
  BY DEF TypeInv, Reader, Sizes
<1>4. ASSUME NEW c \in Cids  PROVE out[c].clock < Wrap /\ reader.in[c].clock < Wrap
  <2>1. out[c].clock \in Clock /\ reader.in[c].clock \in Clock
    BY DEF TypeInv, OutPacket, Reader, InPacket
  <2> QED  BY <2>1, Constants DEF Clock
<1> QED  BY <1>1, <1>2, <1>3, <1>4 DEF TypeInv, WireTypeOK

\* Whatever the loops of either end write and read, and in whatever order, what both
\* ends remember is of its type, a task has buffers exactly while it writes and the
\* lock of the client is held or awaited by exactly the tasks that write
\* (rtmp.cc:719, client.cc:228).
THEOREM WireTypeCorrect == Spec => []WireTypeOK
<1>1. Init => TypeInv
  BY InitType
<1>2. TypeInv /\ [Next]_vars => TypeInv'
  BY TypeStep
<1>3. TypeInv => WireTypeOK
  BY TypeInvIsEnough
<1>4. Spec => Init /\ [][Next]_vars
  BY PTL DEF Spec
<1> QED  BY <1>1, <1>2, <1>3, <1>4, PTL

-----------------------------------------------------------------------------
(* The client, whose lock lets one task write at a time: what is in the    *)
(* cache goes to the wire in order, and the peer makes of it what is meant.*)

\* The buffers the tasks took, in the order they write them.
TakenOf(l, td) ==
  IF l = <<>> THEN <<>> ELSE IF Len(l) = 1 THEN td[l[1]] ELSE td[l[1]] \o td[l[2]]

\* What was put into the cache and not written: with the tasks, then in the cache, or
\* lost when the connection is done.
Order == \E rest \in Seq(Buffer) : unwritten = TakenOf(lock, todo) \o rest /\ (~done => rest = cache)

AfterAll == Reads(reader, wire \o unwritten)
Understood == /\ AfterAll.out = pending
              /\ ~done => Synced(AfterAll.reader, out, outChunk)

ClientInv == unwritten \in Seq(Buffer) /\ Order /\ Understood

LEMMA LockOfTwo ==
  ASSUME NEW l, NEW W, LockIs(l, W)
  PROVE  /\ Len(l) \in {0, 1, 2} /\ (Len(l) = 0 <=> l = <<>>)
         /\ Len(l) \in {1, 2} => l[1] \in W /\ l[1] \in Tasks
         /\ Len(l) = 2 => l[1] # l[2] /\ l[2] \in W /\ l[2] \in Tasks /\ W = Tasks
         /\ \A w \in W : \E i \in 1 .. Len(l) : l[i] = w
<1> DEFINE n == Len(l)
<1>1. l \in Seq(Tasks) /\ n \in Nat /\ (\A i \in 1 .. n : l[i] \in Tasks) /\ W = {l[i] : i \in 1 .. n}
  BY LenProperties, ElementOfSeq DEF LockIs, Range
<1>2. \A i, j \in 1 .. n : l[i] = l[j] => i = j
  BY DEF LockIs, Distinct
<1>0. n = 0 <=> l = <<>>
  BY <1>1, EmptySeq
<1> HIDE DEF n
<1>3. n <= 2
  <2>1. SUFFICES ASSUME n > 2  PROVE FALSE
    BY <1>1
  <2>2. 1 \in 1 .. n /\ 2 \in 1 .. n /\ 3 \in 1 .. n
    BY <1>1, <2>1
  <2>3. l[1] # l[2] /\ l[1] # l[3] /\ l[2] # l[3]
    BY <1>2, <2>2
  <2> QED  BY <1>1, <2>2, <2>3 DEF Tasks
<1>4. n \in {0, 1, 2}
  BY <1>1, <1>3
<1>5. ASSUME n \in {1, 2}  PROVE l[1] \in W /\ l[1] \in Tasks
  <2>1. 1 \in 1 .. n
    BY <1>1, <1>5
  <2> QED  BY <1>1, <2>1
<1>6. ASSUME n = 2  PROVE l[1] # l[2] /\ l[2] \in W /\ l[2] \in Tasks /\ W = Tasks
  <2>1. 1 \in 1 .. n /\ 2 \in 1 .. n
    BY <1>6
  <2>2. l[1] # l[2] /\ l[1] \in Tasks /\ l[2] \in Tasks /\ l[1] \in W /\ l[2] \in W
    BY <1>1, <1>2, <2>1
  <2>3. W \subseteq Tasks
    BY <1>1
  <2>4. W = Tasks
    BY <2>2, <2>3 DEF Tasks
  <2> QED  BY <2>2, <2>4
<1>7. \A w \in W : \E i \in 1 .. n : l[i] = w
  BY <1>1
<1> QED  BY <1>0, <1>4, <1>5, <1>6, <1>7 DEF n

LEMMA TakenType ==
  ASSUME NEW l, NEW W, LockIs(l, W), NEW td \in [Tasks -> Seq(Buffer)]
  PROVE  TakenOf(l, td) \in Seq(Buffer)
<1>0. <<>> \in Seq(Buffer)
  OBVIOUS
<1>1. CASE Len(l) = 0
  BY <1>0, <1>1, LockOfTwo DEF TakenOf
<1>2. CASE Len(l) = 1
  <2>1. l[1] \in Tasks /\ l # <<>>
    BY <1>2, LockOfTwo
  <2> QED  BY <1>2, <2>1 DEF TakenOf
<1>3. CASE Len(l) = 2
  <2>1. l[1] \in Tasks /\ l[2] \in Tasks /\ l # <<>>
    BY <1>3, LockOfTwo
  <2>2. td[l[1]] \in Seq(Buffer) /\ td[l[2]] \in Seq(Buffer)
    BY <2>1
  <2>3. td[l[1]] \o td[l[2]] \in Seq(Buffer)
    BY <2>2, ConcatProperties
  <2> QED  BY <1>3, <2>1, <2>3 DEF TakenOf
<1> QED  BY <1>1, <1>2, <1>3, LockOfTwo

\* The buffers a task is given.
Given(td, t, bs) == [td EXCEPT ![t] = bs]

\* A task that takes the cache writes it after what was taken before.
LEMMA TakenGrows ==
  ASSUME NEW l, NEW t \in Tasks, \E W : LockIs(l, W) /\ t \notin W,
         NEW td \in [Tasks -> Seq(Buffer)], NEW bs \in Seq(Buffer)
  PROVE  TakenOf(Append(l, t), Given(td, t, bs)) = TakenOf(l, td) \o bs
<1> PICK W : LockIs(l, W) /\ t \notin W
  OBVIOUS
<1> DEFINE k == Append(l, t)
           ud == Given(td, t, bs)
<1>0. /\ l \in Seq(Tasks) /\ Len(k) = Len(l) + 1 /\ (\A i \in 1 .. Len(l) : k[i] = l[i])
      /\ k[Len(l) + 1] = t /\ k # <<>> /\ ud[t] = bs
  BY AppendProperties DEF LockIs, Given
<1> HIDE DEF k, ud
<1>l. /\ Len(l) \in {0, 1, 2} /\ (Len(l) = 0 <=> l = <<>>)
      /\ Len(l) \in {1, 2} => l[1] \in W /\ l[1] \in Tasks
      /\ Len(l) = 2 => W = Tasks
  BY LockOfTwo
<1>1. ASSUME Len(l) = 0  PROVE TakenOf(k, ud) = TakenOf(l, td) \o bs
  <2>1. l = <<>> /\ Len(k) = 1 /\ k[1] = t
    <3>1. 0 + 1 = 1
      OBVIOUS
    <3> QED  BY <1>0, <1>l, <1>1, <3>1
  <2>2. TakenOf(l, td) = <<>> /\ TakenOf(k, ud) = bs
    BY <1>0, <2>1 DEF TakenOf
  <2>3. <<>> \o bs = bs
    BY ConcatEmptySeq
  <2> QED  BY <2>2, <2>3
<1>2. ASSUME Len(l) = 1  PROVE TakenOf(k, ud) = TakenOf(l, td) \o bs
  <2>1. l # <<>> /\ l[1] \in W /\ l[1] \in Tasks
    BY <1>2, <1>l
  <2>2. Len(k) = 2 /\ k[1] = l[1] /\ k[2] = t
    <3>1. 1 + 1 = 2 /\ 1 \in 1 .. 1
      OBVIOUS
    <3> QED  BY <1>0, <1>2, <3>1
  <2>3. ud[l[1]] = td[l[1]]
    BY <2>1 DEF Given, ud
  <2>4. TakenOf(l, td) = td[l[1]]
    BY <1>2, <2>1 DEF TakenOf
  <2>5. TakenOf(k, ud) = td[l[1]] \o bs
    <3>1. Len(k) # 1
      BY <2>2
    <3> QED  BY <1>0, <2>2, <2>3, <3>1 DEF TakenOf
  <2> QED  BY <2>4, <2>5
<1>3. ASSUME Len(l) = 2  PROVE TakenOf(k, ud) = TakenOf(l, td) \o bs
  BY <1>3, <1>l
<1>4. TakenOf(k, ud) = TakenOf(l, td) \o bs
  BY <1>1, <1>2, <1>3, <1>l
<1> QED  BY <1>4 DEF k, ud

\* The holder of the lock writes the first of them.
LEMMA TakenShrinks ==
  ASSUME NEW l, NEW W, LockIs(l, W), l # <<>>, NEW td \in [Tasks -> Seq(Buffer)],
         td[Head(l)] # <<>>
  PROVE  LET t == Head(l)
             b == Head(td[t])
         IN  /\ t \in Tasks /\ b \in Buffer
             /\ TakenOf(l, td) = <<b>> \o TakenOf(l, [td EXCEPT ![t] = Tail(td[t])])
             /\ Len(td[t]) = 1 =>
                  TakenOf(l, td) = <<b>> \o TakenOf(Tail(l), [td EXCEPT ![t] = <<>>])
<1> DEFINE t == Head(l)
           s == td[t]
           b == Head(s)
           r == Tail(s)
           ud == [td EXCEPT ![t] = r]
           k == Tail(l)
<1>1. /\ l \in Seq(Tasks) /\ t = l[1] /\ Len(l) \in {1, 2} /\ Len(k) = Len(l) - 1
      /\ k \in Seq(Tasks) /\ (\A i \in 1 .. (Len(l) - 1) : k[i] = l[i + 1])
  <2>1. l \in Seq(Tasks)
    BY DEF LockIs
  <2>2. Len(l) \in {0, 1, 2} /\ (Len(l) = 0 <=> l = <<>>)
    BY LockOfTwo
  <2>3. Len(l) \in {1, 2}
    BY <2>2
  <2> QED  BY <2>1, <2>3, FirstAndRest
<1>2. t \in Tasks /\ (Len(l) = 2 => l[2] \in Tasks /\ l[2] # t)
  <2>1. /\ Len(l) \in {1, 2} => l[1] \in Tasks
        /\ Len(l) = 2 => l[1] # l[2] /\ l[2] \in Tasks
    BY LockOfTwo
  <2> HIDE DEF t
  <2> QED  BY <1>1, <2>1
<1> HIDE DEF t, k
<1>3. s \in Seq(Buffer) /\ s # <<>>
  BY <1>2 DEF t
<1> HIDE DEF s
<1>4. b \in Buffer /\ r \in Seq(Buffer) /\ s = <<b>> \o r /\ Len(r) = Len(s) - 1
  BY <1>3, FirstAndRest
<1> HIDE DEF b, r
<1>5. Len(s) = 1 => r = <<>>
  BY <1>4, EmptySeq
<1>6. ud[t] = r /\ (Len(l) = 2 => ud[l[2]] = td[l[2]])
  BY <1>2
<1> HIDE DEF ud
<1>7. CASE Len(l) = 1
  <2>1. TakenOf(l, td) = s /\ TakenOf(l, ud) = r
    BY <1>1, <1>6, <1>7 DEF TakenOf, s
  <2>2. k = <<>>
    <3>1. Len(k) = 0
      BY <1>1, <1>7
    <3> QED  BY <1>1, <3>1, EmptySeq
  <2>3. \A x : TakenOf(k, x) = <<>>
    BY <2>2 DEF TakenOf
  <2>4. TakenOf(l, td) = <<b>> \o TakenOf(l, ud)
    BY <1>4, <2>1
  <2>5. Len(s) = 1 => TakenOf(l, td) = <<b>> \o TakenOf(k, [td EXCEPT ![t] = <<>>])
    BY <1>4, <1>5, <2>1, <2>3
  <2> QED  BY <1>2, <1>4, <2>4, <2>5 DEF t, s, b, r, k, ud
<1>8. CASE Len(l) = 2
  <2> DEFINE u == l[2]
             v == td[u]
             h == <<b>>
  <2>1. u \in Tasks /\ u # t /\ v \in Seq(Buffer) /\ h \in Seq(Buffer)
    BY <1>2, <1>4, <1>8
  <2>2. TakenOf(l, td) = s \o v /\ TakenOf(l, ud) = r \o v
    <3>1. Len(l) # 1 /\ l # <<>> /\ l[1] = t
      BY <1>1, <1>8
    <3> QED  BY <1>6, <1>8, <3>1 DEF TakenOf, s
  <2>3. Len(k) = 1 /\ k[1] = u /\ k # <<>>
    <3>1. Len(k) = 1 /\ k[1] = l[1 + 1]
      BY <1>1, <1>8
    <3>2. 1 + 1 = 2
      OBVIOUS
    <3>3. k # <<>>
      BY <1>1, <3>1, EmptySeq
    <3> QED  BY <3>1, <3>2, <3>3
  <2>4. TakenOf(k, [td EXCEPT ![t] = <<>>]) = v
    <3>1. [td EXCEPT ![t] = <<>>][u] = v
      BY <2>1
    <3> HIDE DEF u, v
    <3> QED  BY <2>3, <3>1 DEF TakenOf
  <2> HIDE DEF v, u, h
  <2>5. s = h \o r /\ (h \o r) \o v = h \o (r \o v)
    BY <1>4, <2>1, ConcatAssociative DEF h
  <2>6. TakenOf(l, td) = h \o TakenOf(l, ud)
    BY <2>2, <2>5
  <2>7. Len(s) = 1 => TakenOf(l, td) = h \o TakenOf(k, [td EXCEPT ![t] = <<>>])
    <3>1. <<>> \o v = v
      BY <2>1, ConcatEmptySeq
    <3> QED  BY <1>5, <2>2, <2>4, <2>5, <3>1
  <2> QED  BY <1>2, <1>4, <2>6, <2>7 DEF t, s, b, r, k, ud, h
<1> QED  BY <1>1, <1>7, <1>8

\* The library's fact, for buffers.
LEMMA BuffersAssociate ==
  ASSUME NEW a \in Seq(Buffer), NEW b \in Seq(Buffer), NEW c \in Seq(Buffer)
  PROVE  (a \o b) \o c = a \o (b \o c) /\ a \o b \in Seq(Buffer) /\ b \o c \in Seq(Buffer)
BY ConcatAssociative, ConcatProperties

LEMMA NothingTwice ==
  <<>> \in Seq(Buffer) /\ <<>> \o <<>> = <<>>
<1>1. <<>> \in Seq(Buffer)
  OBVIOUS
<1> DEFINE e == <<>>
<1>2. e \in Seq(Buffer)
  BY <1>1
<1> HIDE DEF e
<1>3. e \o <<>> = e
  BY <1>2, ConcatEmptySeq
<1> QED  BY <1>1, <1>3 DEF e

LEMMA InitClient ==
  ASSUME Init
  PROVE  ClientInv
<1>0. <<>> \in Seq(Buffer) /\ <<>> \o <<>> = <<>>
  BY NothingTwice
<1>1. /\ lock = <<>> /\ cache = <<>> /\ wire = <<>> /\ unwritten = <<>> /\ pending = <<>>
      /\ reader = ReaderInit /\ out = OutInit /\ outChunk = FirstChunk
  BY DEF Init
<1>2. Order
  <2>1. TakenOf(lock, todo) = <<>>
    BY <1>1 DEF TakenOf
  <2>2. unwritten = TakenOf(lock, todo) \o cache
    BY <1>0, <1>1, <2>1
  <2> QED  BY <1>0, <1>1, <2>2 DEF Order
<1>3. Synced(reader, out, outChunk)
  <2>1. ~(0 >= Ext)
    BY Constants
  <2> QED  BY <1>1, <2>1 DEF Synced, Between, Ready, InStep, ReaderInit, NoPacket, OutInit
<1>4. AfterAll = [reader |-> reader, out |-> <<>>]
  <2>1. reader \in Reader
    BY InitType DEF TypeInv
  <2>2. wire \o unwritten = <<>>
    BY <1>0, <1>1
  <2> QED  BY <2>1, <2>2, ReadsNone DEF AfterAll
<1>5. AfterAll.reader = reader /\ AfterAll.out = <<>>
  <2> HIDE DEF AfterAll
  <2> QED  BY <1>4
<1>6. Understood
  BY <1>1, <1>3, <1>5 DEF Understood
<1> QED  BY <1>0, <1>1, <1>2, <1>6 DEF ClientInv

\* Messages handed over are understood after everything that is on its way.
LEMMA HandOverClient ==
  ASSUME TypeInv, ClientInv, ~done, NEW ms \in Seq(ToSend), HandOver(ms),
         UNCHANGED <<todo, lock, done, wire, reader>>
  PROVE  /\ ClientInv'
         /\ pending \in Seq(Message) /\ Meanings(ms) \in Seq(Message)
         /\ pending' = pending \o Meanings(ms)
<1> DEFINE w == Written(ms)
           bs == w.buffers
           all == wire \o unwritten
           q == Reads(reader, all).reader
           x == Reads(reader, all).out
           y == Reads(q, bs).out
<1>1. /\ out' = w.out /\ outChunk' = w.chunk /\ cache' = cache \o bs
      /\ unwritten' = unwritten \o bs /\ pending' = pending \o Meanings(ms)
      /\ todo' = todo /\ lock' = lock /\ done' = done /\ wire' = wire /\ reader' = reader
  BY DEF HandOver, Meanings
<1>2. /\ bs \in Seq(Buffer) /\ cache \in Seq(Buffer) /\ wire \in Seq(Buffer) /\ unwritten \in Seq(Buffer)
      /\ reader \in Reader /\ out \in [Cids -> OutPacket] /\ outChunk \in Sizes
  BY HandOverType DEF TypeInv, ClientInv
<1>3. all \in Seq(Buffer)
  BY <1>2, ConcatProperties
<1>4. x = pending /\ Synced(q, out, outChunk)
  BY DEF ClientInv, Understood, AfterAll
<1>5. q \in Reader /\ x \in Seq(Message)
  BY <1>2, <1>3, ReadsType
<1> HIDE DEF q, x
<1>6. y = Meanings(ms) /\ Synced(Reads(q, bs).reader, w.out, w.chunk)
  BY <1>2, <1>4, <1>5, WrittenUnderstood
<1>7. y \in Seq(Message)
  BY <1>2, <1>5, ReadsType
<1> HIDE DEF w, bs, y, all
<1>8. wire' \o unwritten' = all \o bs
  <2>1. (wire \o unwritten) \o bs = wire \o (unwritten \o bs)
    BY <1>2, BuffersAssociate
  <2> QED  BY <1>1, <2>1 DEF all
<1>9. AfterAll' = [reader |-> Reads(q, bs).reader, out |-> x \o y]
  <2>1. Reads(reader, all \o bs) = [reader |-> Reads(q, bs).reader, out |-> x \o y]
    BY <1>2, <1>3, ReadsConcat DEF q, x, y
  <2> QED  BY <1>1, <1>8, <2>1 DEF AfterAll
<1>10. AfterAll'.reader = Reads(q, bs).reader /\ AfterAll'.out = x \o y
  <2> DEFINE u == x \o y
             v == Reads(q, bs).reader
             z == AfterAll'
  <2>1. z = [reader |-> v, out |-> u]
    BY <1>9
  <2> HIDE DEF u, v, z
  <2>2. z.reader = v /\ z.out = u
    BY <2>1
  <2> QED  BY <2>2 DEF u, v, z
<1>11. Understood'
  BY <1>1, <1>4, <1>6, <1>10 DEF Understood
<1>12. unwritten' \in Seq(Buffer)
  BY <1>1, <1>2, ConcatProperties
<1>13. Order'
  <2> DEFINE tk == TakenOf(lock, todo)
  <2>1. unwritten = tk \o cache
    BY DEF ClientInv, Order
  <2>2. tk \in Seq(Buffer)
    BY TakenType DEF TypeInv
  <2>3. tk' = tk
    BY <1>1
  <2> HIDE DEF tk
  <2>4. unwritten' = tk \o (cache \o bs) /\ cache \o bs \in Seq(Buffer)
    <3>1. (tk \o cache) \o bs = tk \o (cache \o bs) /\ cache \o bs \in Seq(Buffer)
      BY <1>2, <2>2, BuffersAssociate
    <3> QED  BY <1>1, <2>1, <3>1
  <2>5. unwritten' = tk' \o cache' /\ cache' \in Seq(Buffer)
    BY <1>1, <2>3, <2>4
  <2> QED  BY <2>5 DEF Order, tk
<1> QED  BY <1>1, <1>4, <1>5, <1>6, <1>7, <1>11, <1>12, <1>13 DEF ClientInv

LEMMA AnswerClient ==
  ASSUME TypeInv, ClientInv, Answer
  PROVE  /\ ClientInv'
         /\ \E s \in Seq(Message) : pending \in Seq(Message) /\ pending' = pending \o s
<1>1. PICK a \in Answers : HandOver(By("input", a.messages))
  BY DEF Answer
<1>2. a.messages \in Seq(ToSend)
  BY AnswersType DEF TypeInv
<1>3. By("input", a.messages) \in Seq(ToSend)
  BY <1>2, ByType DEF Tasks
<1>4. ~done /\ UNCHANGED <<todo, lock, done, wire, reader>>
  BY DEF Answer
<1> QED  BY <1>1, <1>3, <1>4, HandOverClient

LEMMA PushClient ==
  ASSUME TypeInv, ClientInv, Push
  PROVE  /\ ClientInv'
         /\ \E s \in Seq(Message) : pending \in Seq(Message) /\ pending' = pending \o s
<1>1. PICK p \in Media : HandOver(By("output", <<MediaMessage(p[1], p[2], p[3])>>))
  BY DEF Push
<1> DEFINE ms == <<MediaMessage(p[1], p[2], p[3])>>
<1>2. ms \in Seq(ToSend)
  BY MediaType DEF TypeInv
<1> HIDE DEF ms
<1>3. By("output", ms) \in Seq(ToSend)
  BY <1>2, ByType DEF Tasks
<1>4. ~done /\ UNCHANGED <<todo, lock, done, wire, reader>>
  BY DEF Push
<1>5. HandOver(By("output", ms))
  BY <1>1 DEF ms
<1> QED  BY <1>3, <1>4, <1>5, HandOverClient

LEMMA HeadTailOfFirst ==
  ASSUME NEW S, NEW x \in S, NEW s \in Seq(S)
  PROVE  Head(<<x>> \o s) = x /\ Tail(<<x>> \o s) = s /\ <<x>> \o s # <<>>
<1>1. <<x>> \in Seq(S) /\ Len(<<x>>) = 1
  OBVIOUS
<1> DEFINE l == <<x>> \o s
<1>2. /\ l \in Seq(S) /\ Len(l) = 1 + Len(s) /\ Len(s) \in Nat /\ l[1] = x
      /\ \A i \in 1 .. Len(s) : l[i + 1] = s[i]
  OBVIOUS
<1> HIDE DEF l
<1>3. l # <<>>
  <2>1. Len(l) # 0
    BY <1>2
  <2> QED  BY <2>1
<1>4. Head(l) = l[1] /\ Tail(l) \in Seq(S) /\ Len(Tail(l)) = Len(s)
      /\ \A i \in 1 .. Len(s) : Tail(l)[i] = l[i + 1]
  <2>1. Len(l) - 1 = Len(s)
    BY <1>2
  <2> QED  BY <1>2, <1>3, <2>1, FirstAndRest
<1>5. Tail(l) = s
  <2> DEFINE k == Tail(l)
  <2>1. k \in Seq(S) /\ Len(k) = Len(s) /\ \A i \in 1 .. Len(k) : k[i] = s[i]
    BY <1>2, <1>4
  <2> HIDE DEF k
  <2>2. k = s
    BY <2>1, SeqEqual
  <2> QED  BY <2>2 DEF k
<1> QED  BY <1>2, <1>3, <1>4, <1>5 DEF l

\* The buffers change hands: they stay in order.
LEMMA TakeClient ==
  ASSUME Role = "client", TypeInv, ClientInv, NEW t \in Tasks, Take(t)
  PROVE  ClientInv' /\ pending' = pending
<1>1. /\ out' = out /\ outChunk' = outChunk /\ done' = done /\ wire' = wire /\ reader' = reader
      /\ unwritten' = unwritten /\ pending' = pending /\ cache' = <<>> /\ pc[t] = "flush"
  BY DEF Take, writer, history
<1>2. /\ cache \in Seq(Buffer) /\ todo \in [Tasks -> Seq(Buffer)] /\ LockIs(lock, Writers(pc))
      /\ t \notin Writers(pc)
  BY <1>1 DEF TypeInv, Writers
<1>3. PICK rest \in Seq(Buffer) : unwritten = TakenOf(lock, todo) \o rest /\ (~done => rest = cache)
  BY DEF ClientInv, Order
<1>4. Understood'
  BY <1>1 DEF ClientInv, Understood, AfterAll
<1>5. Order'
  <2>1. CASE done \/ cache = <<>>
    <3>1. lock' = lock /\ todo' = todo
      BY <2>1 DEF Take
    <3>2. ~done' => rest = cache'
      BY <1>1, <1>3, <2>1
    <3>3. unwritten' = TakenOf(lock', todo') \o rest
      BY <1>1, <1>3, <3>1
    <3> QED  BY <3>2, <3>3 DEF Order
  <2>2. CASE ~(done \/ cache = <<>>)
    <3>1. lock' = Append(lock, t) /\ todo' = [todo EXCEPT ![t] = cache] /\ rest = cache
      BY <1>3, <2>2 DEF Take
    <3> DEFINE W == Writers(pc)
               l == lock
               td == todo
               c == cache
               tk == TakenOf(Append(l, t), Given(td, t, c))
    <3>2. LockIs(l, W) /\ t \notin W /\ td \in [Tasks -> Seq(Buffer)] /\ c \in Seq(Buffer)
      BY <1>2
    <3>3. TakenOf(lock', todo') = tk
      BY <3>1 DEF Given
    <3>4. unwritten' = TakenOf(l, td) \o c
      BY <1>1, <1>3, <3>1
    <3> HIDE DEF W, l, td, c
    <3>5. tk = TakenOf(l, td) \o c
      <4>1. \E X : LockIs(l, X) /\ t \notin X
        BY <3>2
      <4> QED  BY <3>2, <4>1, TakenGrows
    <3>6. tk \in Seq(Buffer)
      <4>1. TakenOf(l, td) \in Seq(Buffer)
        BY <3>2, TakenType
      <4> HIDE DEF tk
      <4> QED  BY <3>2, <3>5, <4>1, ConcatProperties
    <3> HIDE DEF tk
    <3>7. tk \o <<>> = tk /\ <<>> \in Seq(Buffer)
      BY <3>6, ConcatEmptySeq
    <3>8. unwritten' = TakenOf(lock', todo') \o <<>> /\ cache' = <<>>
      BY <1>1, <3>3, <3>4, <3>5, <3>7
    <3> QED  BY <3>7, <3>8 DEF Order
  <2> QED  BY <2>1, <2>2
<1> QED  BY <1>1, <1>4, <1>5 DEF ClientInv

\* A buffer moved to the wire is the first of those that were not written.
LEMMA WriteClient ==
  ASSUME Role = "client", TypeInv, ClientInv, NEW t \in Tasks, Write(t)
  PROVE  /\ ClientInv' /\ pending' = pending
         /\ wire' = Append(wire, Head(unwritten)) /\ Head(unwritten) \in Buffer /\ wire \in Seq(Buffer)
<1>1. /\ MayWrite(t) /\ out' = out /\ outChunk' = outChunk /\ done' = done /\ reader' = reader
      /\ cache' = cache /\ pending' = pending
  BY DEF Write, writer
<1>2. /\ cache \in Seq(Buffer) /\ todo \in [Tasks -> Seq(Buffer)] /\ LockIs(lock, Writers(pc))
      /\ wire \in Seq(Buffer) /\ unwritten \in Seq(Buffer)
      /\ t \in Writers(pc) /\ Head(lock) = t /\ todo[t] # <<>>
  BY <1>1 DEF TypeInv, ClientInv, MayWrite, Writers
<1>3. lock # <<>>
  <2>1. SUFFICES ASSUME lock = <<>>  PROVE FALSE
    OBVIOUS
  <2>2. Range(lock) = {}
    BY <2>1 DEF Range
  <2> QED  BY <1>2, <2>2 DEF LockIs
<1>4. /\ wire' = Append(wire, Head(todo[t])) /\ unwritten' = Tail(unwritten)
      /\ IF Len(todo[t]) = 1
         THEN lock' = Tail(lock) /\ todo' = [todo EXCEPT ![t] = <<>>]
         ELSE lock' = lock /\ todo' = [todo EXCEPT ![t] = Tail(todo[t])]
  <2>1. Role # "server"
    OBVIOUS
  <2> QED  BY <2>1 DEF Write, Finish
<1>5. PICK rest \in Seq(Buffer) : unwritten = TakenOf(lock, todo) \o rest /\ (~done => rest = cache)
  BY DEF ClientInv, Order
<1> DEFINE l == lock
           td == todo
           W == Writers(pc)
           s == td[t]
           b == Head(s)
           tk == TakenOf(lock', todo')
           e == <<b>>
<1>6. LockIs(l, W) /\ l # <<>> /\ td \in [Tasks -> Seq(Buffer)] /\ td[Head(l)] # <<>> /\ Head(l) = t
      /\ td[t] = s
  BY <1>2, <1>3
<1>7. IF Len(s) = 1
      THEN lock' = Tail(l) /\ todo' = [td EXCEPT ![t] = <<>>]
      ELSE lock' = l /\ todo' = [td EXCEPT ![t] = Tail(s)]
  BY <1>4
<1>8. wire' = Append(wire, b) /\ unwritten = TakenOf(l, td) \o rest
  BY <1>4, <1>5
<1> HIDE DEF l, td, W, s
<1>9. /\ b \in Buffer
      /\ TakenOf(l, td) = e \o TakenOf(l, [td EXCEPT ![t] = Tail(s)])
      /\ Len(s) = 1 => TakenOf(l, td) = e \o TakenOf(Tail(l), [td EXCEPT ![t] = <<>>])
  BY <1>6, TakenShrinks
<1>10. TakenOf(l, td) = e \o tk
  <2>1. CASE Len(s) = 1
    BY <1>7, <1>9, <2>1
  <2>2. CASE Len(s) # 1
    BY <1>7, <1>9, <2>2
  <2> QED  BY <2>1, <2>2
<1>11. tk \in Seq(Buffer)
  <2>1. TypeInv'
    BY WriteType
  <2> QED  BY <2>1, TakenType DEF TypeInv
<1>12. e \in Seq(Buffer) /\ e # <<>> /\ Append(wire, b) = wire \o e
  BY <1>2, <1>9, AppendIsConcat
<1> HIDE DEF tk, b
<1>13. unwritten = e \o (tk \o rest) /\ tk \o rest \in Seq(Buffer)
  <2> HIDE DEF e
  <2>1. (e \o tk) \o rest = e \o (tk \o rest) /\ tk \o rest \in Seq(Buffer)
    BY <1>11, <1>12, BuffersAssociate
  <2> QED  BY <1>8, <1>10, <2>1
<1>14. Head(unwritten) = b /\ Tail(unwritten) = tk \o rest
  <2> DEFINE r == tk \o rest
  <2>1. r \in Seq(Buffer) /\ unwritten = <<b>> \o r
    BY <1>13
  <2> HIDE DEF r
  <2>2. Head(<<b>> \o r) = b /\ Tail(<<b>> \o r) = r
    BY <1>9, <2>1, HeadTailOfFirst
  <2> QED  BY <2>1, <2>2 DEF r
<1>15. Order'
  <2>1. unwritten' = TakenOf(lock', todo') \o rest
    BY <1>4, <1>14 DEF tk
  <2>2. ~done' => rest = cache'
    BY <1>1, <1>5
  <2> QED  BY <2>1, <2>2 DEF Order
<1>16. wire' \o unwritten' = wire \o unwritten
  <2> DEFINE r == tk \o rest
  <2>1. r \in Seq(Buffer) /\ unwritten = e \o r /\ unwritten' = r /\ wire' = wire \o e
    BY <1>4, <1>8, <1>12, <1>13, <1>14
  <2> HIDE DEF r, e
  <2>2. (wire \o e) \o r = wire \o (e \o r)
    BY <1>2, <1>12, <2>1, BuffersAssociate
  <2> QED  BY <2>1, <2>2
<1>17. Understood'
  <2>1. AfterAll' = AfterAll
    BY <1>1, <1>16 DEF AfterAll
  <2> QED  BY <1>1, <2>1 DEF ClientInv, Understood
<1>18. unwritten' \in Seq(Buffer)
  BY <1>4, <1>13, <1>14
<1> QED  BY <1>1, <1>2, <1>8, <1>9, <1>14, <1>15, <1>17, <1>18 DEF ClientInv

LEMMA StopClient ==
  ASSUME ClientInv, Stop
  PROVE  ClientInv' /\ pending' = pending
<1>1. /\ done' = TRUE /\ wire' = wire /\ reader' = reader
      /\ unwritten' = unwritten /\ pending' = pending /\ lock' = lock /\ todo' = todo
  BY DEF Stop, tasks, history
<1>2. Order'
  BY <1>1 DEF ClientInv, Order
<1>3. Understood'
  <2>1. AfterAll' = AfterAll
    BY <1>1 DEF AfterAll
  <2> QED  BY <1>1, <2>1 DEF ClientInv, Understood
<1> QED  BY <1>1, <1>2, <1>3 DEF ClientInv

\* What the peer delivers is the oldest message still to come.
LEMMA ReceiveClient ==
  ASSUME TypeInv, ClientInv, Receive
  PROVE  /\ ClientInv'
         /\ pending' = pending \/ (pending # <<>> /\ pending' = Tail(pending))
<1> DEFINE b == Head(wire)
           z == Read(reader, b)
           q == z.reader
           o == z.out
           later == Tail(wire) \o unwritten
           y == Reads(q, later)
<1>1. /\ wire # <<>> /\ reader' = q /\ wire' = Tail(wire)
      /\ pending' = IF o = <<>> THEN pending
                    ELSE IF pending # <<>> /\ Head(pending) = o[1] THEN Tail(pending)
                    ELSE o \o pending
      /\ out' = out /\ outChunk' = outChunk /\ cache' = cache /\ lock' = lock /\ todo' = todo
      /\ done' = done /\ unwritten' = unwritten
  BY DEF Receive, writer, tasks
<1>2. /\ wire \in Seq(Buffer) /\ unwritten \in Seq(Buffer) /\ reader \in Reader
  BY DEF TypeInv, ClientInv
<1>3. b \in Buffer /\ Tail(wire) \in Seq(Buffer) /\ wire = <<b>> \o Tail(wire)
  BY <1>1, <1>2, FirstAndRest
<1>4. q \in Reader /\ o \in Seq(Message) /\ (o = <<>> \/ \E m \in Message : o = <<m>>)
  BY <1>2, <1>3, ReadType, ReadOutput
<1>5. AfterAll = [reader |-> y.reader, out |-> o \o y.out]
  <2> DEFINE e == <<b>>
             r == Tail(wire)
  <2>1. e \in Seq(Buffer) /\ r \in Seq(Buffer) /\ wire = e \o r
    BY <1>3
  <2> HIDE DEF e, r
  <2>2. (e \o r) \o unwritten = e \o (r \o unwritten) /\ r \o unwritten \in Seq(Buffer)
    BY <1>2, <2>1, BuffersAssociate
  <2>3. wire \o unwritten = <<b>> \o later /\ later \in Seq(Buffer)
    BY <2>1, <2>2 DEF e, r
  <2> HIDE DEF later, b
  <2>4. Reads(reader, <<b>> \o later) = [reader |-> Reads(Read(reader, b).reader, later).reader,
             out |-> Read(reader, b).out \o Reads(Read(reader, b).reader, later).out]
    BY <1>2, <1>3, <2>3, ReadsFirst
  <2> QED  BY <2>3, <2>4 DEF AfterAll
<1>6. AfterAll' = y
  BY <1>1 DEF AfterAll
<1>7. later \in Seq(Buffer)
  BY <1>2, <1>3, ConcatProperties
<1> HIDE DEF q, o, later, b
<1>8. y.out \in Seq(Message)
  BY <1>4, <1>7, ReadsType
<1> HIDE DEF y
<1>9. AfterAll.reader = y.reader /\ AfterAll.out = o \o y.out
  <2> DEFINE u == o \o y.out
             v == y.reader
             x == AfterAll
  <2>1. x = [reader |-> v, out |-> u]
    BY <1>5
  <2> HIDE DEF u, v, x
  <2>2. x.reader = v /\ x.out = u
    BY <2>1
  <2> QED  BY <2>2 DEF u, v, x
<1>10. pending = o \o y.out
  BY <1>9 DEF ClientInv, Understood
<1> DEFINE n == y.out
<1>11. n \in Seq(Message) /\ pending = o \o n
  BY <1>8, <1>10
<1>12. /\ pending' = n
       /\ pending' = pending \/ (pending # <<>> /\ pending' = Tail(pending))
  <2> HIDE DEF n
  <2>1. CASE o = <<>>
    <3>1. <<>> \o n = n
      BY <1>11, ConcatEmptySeq
    <3> QED  BY <1>1, <1>11, <2>1, <3>1
  <2>2. CASE \E m \in Message : o = <<m>>
    <3>1. PICK m \in Message : o = <<m>>
      BY <2>2
    <3>2. Head(<<m>> \o n) = m /\ Tail(<<m>> \o n) = n /\ <<m>> \o n # <<>>
      BY <1>11, HeadTailOfFirst
    <3>3. o[1] = m /\ o # <<>>
      BY <3>1
    <3> QED  BY <1>1, <1>11, <3>1, <3>2, <3>3
  <2> QED  BY <1>4, <2>1, <2>2
<1>13. Understood'
  <2>1. AfterAll'.out = pending' /\ AfterAll'.reader = AfterAll.reader
    BY <1>6, <1>9, <1>12
  <2> QED  BY <1>1, <2>1 DEF ClientInv, Understood
<1>14. Order'
  BY <1>1 DEF ClientInv, Order
<1> QED  BY <1>1, <1>2, <1>12, <1>13, <1>14 DEF ClientInv

LEMMA ClientStep ==
  ASSUME Role = "client", TypeInv, ClientInv, [Next]_vars
  PROVE  ClientInv'
<1>1. CASE Answer
  BY <1>1, AnswerClient
<1>2. CASE Push
  BY <1>2, PushClient
<1>3. CASE Stop
  BY <1>3, StopClient
<1>4. CASE Receive
  BY <1>4, ReceiveClient
<1>5. ASSUME NEW t \in Tasks, Take(t)  PROVE ClientInv'
  BY <1>5, TakeClient
<1>6. ASSUME NEW t \in Tasks, Write(t)  PROVE ClientInv'
  BY <1>6, WriteClient
<1>7. CASE UNCHANGED vars
  BY <1>7 DEF vars, writer, dialogue, tasks, history, ClientInv, Order, Understood, AfterAll
<1> QED  BY <1>1, <1>2, <1>3, <1>4, <1>5, <1>6, <1>7 DEF Next

LEMMA ClientInvIsEnough ==
  ASSUME Role = "client", TypeInv, ClientInv
  PROVE  EndsInStep
<1>1. SUFFICES ASSUME Quiet
               PROVE  /\ \A c \in Cids \ {"protocol"} : InStep(out[c], reader.in[c])
                      /\ reader.chunk = outChunk
                      /\ reader.at = <<>> /\ pending = <<>>
  BY DEF EndsInStep
<1>2. ~done /\ cache = <<>> /\ wire = <<>> /\ Writers(pc) = {}
  BY <1>1 DEF Quiet, Writers, TypeInv
<1>3. lock = <<>>
  <2>1. LockIs(lock, {})
    BY <1>2 DEF TypeInv
  <2> QED  BY <2>1, LockOfTwo
<1>4. unwritten = <<>>
  <2>1. unwritten = TakenOf(lock, todo) \o <<>>
    BY <1>2 DEF ClientInv, Order
  <2>2. TakenOf(lock, todo) = <<>>
    BY <1>3 DEF TakenOf
  <2>3. unwritten \in Seq(Buffer) /\ unwritten = <<>> \o <<>>
    BY <2>1, <2>2 DEF ClientInv
  <2> QED  BY <2>3, NothingTwice
<1>5. AfterAll.reader = reader /\ AfterAll.out = <<>>
  <2>1. AfterAll = [reader |-> reader, out |-> <<>>]
    <3>1. wire \o unwritten = <<>>
      BY <1>2, <1>4, NothingTwice
    <3> QED  BY <3>1, ReadsNone DEF TypeInv, AfterAll
  <2> HIDE DEF AfterAll
  <2> QED  BY <2>1
<1>6. pending = <<>> /\ Synced(reader, out, outChunk)
  BY <1>2, <1>5 DEF ClientInv, Understood
<1> QED  BY <1>6 DEF Synced, Between, Ready

LEMMA InvariantsHold ==
  ASSUME Role = "client"
  PROVE  Spec => [](TypeInv /\ ClientInv)
<1>1. Init => TypeInv /\ ClientInv
  BY InitType, InitClient
<1>2. (TypeInv /\ ClientInv) /\ [Next]_vars => (TypeInv /\ ClientInv)'
  BY TypeStep, ClientStep
<1>3. Spec => Init /\ [][Next]_vars
  BY PTL DEF Spec
<1> QED  BY <1>1, <1>2, <1>3, PTL

\* However the two loops of a client interleave, when everything it wrote is read both
\* ends remember the same headers, clocks and chunk size, and every message handed over
\* is delivered: the next compressed header is understood
\* (rtmp-chunk-write.c:66, rtmp-chunk-read.c:76, client.cc:228).
THEOREM ClientEndsInStep ==
  ASSUME Role = "client"
  PROVE  Spec => []EndsInStep
<1>1. TypeInv /\ ClientInv => EndsInStep
  BY ClientInvIsEnough
<1> QED  BY <1>1, InvariantsHold, PTL

\* The lock makes the client write its buffers in the order they were put into the
\* cache, which the server, without it, does not (client.cc:228, rtmp.cc:269).
THEOREM ClientWritesInOrder ==
  ASSUME Role = "client"
  PROVE  Spec => WrittenInOrder
<1> DEFINE InOrder == Len(wire') > Len(wire) => wire'[Len(wire')] = Head(unwritten)
<1>1. ASSUME TypeInv, ClientInv, [Next]_vars  PROVE [InOrder]_vars
  <2>1. wire \in Seq(Buffer) /\ Len(wire) \in Nat
    BY <1>1, LenProperties DEF TypeInv
  <2>2. CASE Answer \/ Push \/ Stop \/ UNCHANGED vars \/ \E t \in Tasks : Take(t)
    <3>1. wire' = wire
      BY <2>2 DEF Answer, Push, Stop, Take, vars
    <3> QED  BY <2>1, <3>1
  <2>3. CASE Receive
    <3>1. wire # <<>> /\ wire' = Tail(wire)
      BY <2>3 DEF Receive
    <3>2. Len(wire') = Len(wire) - 1
      BY <2>1, <3>1, FirstAndRest
    <3> QED  BY <2>1, <3>2
  <2>4. ASSUME NEW t \in Tasks, Write(t)  PROVE InOrder
    <3> DEFINE b == Head(unwritten)
    <3>1. wire' = Append(wire, b) /\ b \in Buffer
      BY <1>1, <2>4, WriteClient
    <3> HIDE DEF b
    <3>2. Len(Append(wire, b)) = Len(wire) + 1 /\ Append(wire, b)[Len(wire) + 1] = b
      BY <2>1, <3>1, AppendProperties
    <3>3. wire'[Len(wire')] = b
      BY <3>1, <3>2
    <3> QED  BY <3>3 DEF b
  <2> QED  BY <1>1, <2>2, <2>3, <2>4 DEF Next
<1>2. Spec => [][Next]_vars
  BY PTL DEF Spec
<1> QED  BY <1>1, <1>2, InvariantsHold, PTL DEF WrittenInOrder

-----------------------------------------------------------------------------
(* The client's direction implements the message channel, step by step.    *)

LEMMA ConcatIsPrefix ==
  ASSUME NEW S, NEW a \in Seq(S), NEW b \in Seq(S)
  PROVE  Channel!IsPrefix(a, a \o b)
<1> DEFINE c == a \o b
           n == Len(a)
<1>1. /\ c \in Seq(S) /\ Len(c) = n + Len(b) /\ n \in Nat /\ Len(b) \in Nat
      /\ \A i \in 1 .. n : c[i] = a[i]
  BY ConcatProperties, LenProperties
<1> HIDE DEF c
<1>2. n <= Len(c)
  BY <1>1
<1>3. SubSeq(a, 1, n) = SubSeq(c, 1, n)
  BY <1>1
<1> QED  BY <1>2, <1>3 DEF Channel!IsPrefix, c, n

LEMMA ChannelStep ==
  ASSUME Role = "client", TypeInv, ClientInv, [Next]_vars
  PROVE  [Channel!Next]_(Channel!vars)
<1>1. ASSUME ~done, done' = done,
             \E s \in Seq(Message) : pending \in Seq(Message) /\ pending' = pending \o s
      PROVE  Channel!Send
  BY <1>1, ConcatIsPrefix DEF Channel!Send
<1>2. CASE Answer \/ Push
  <2>1. ~done /\ done' = done
    BY <1>2 DEF Answer, Push
  <2> QED  BY <1>1, <1>2, <2>1, AnswerClient, PushClient DEF Channel!Next
<1>3. CASE Stop
  <2>1. ~done /\ done' = TRUE /\ pending' = pending
    BY <1>3, StopClient DEF Stop
  <2> QED  BY <2>1 DEF Channel!Close, Channel!Next
<1>4. CASE Receive
  <2>1. done' = done
    BY <1>4 DEF Receive
  <2> QED  BY <1>4, <2>1, ReceiveClient DEF Channel!Receive, Channel!Next, Channel!vars
<1>5. ASSUME NEW t \in Tasks, Take(t) \/ Write(t)  PROVE UNCHANGED Channel!vars
  <2>1. done' = done
    BY <1>5 DEF Take, Write
  <2> QED  BY <1>5, <2>1, TakeClient, WriteClient DEF Channel!vars
<1>6. CASE UNCHANGED vars
  BY <1>6 DEF vars, history, Channel!vars
<1> QED  BY <1>2, <1>3, <1>4, <1>5, <1>6 DEF Next

\* What a client hands to librtmp arrives at the peer once, unchanged and in order,
\* until the connection stops, whatever the messages, the chunk sizes and the
\* interleaving of its loops: the step part of ImplementsChannel (client.cc:228,
\* rtmp-chunk-write.c:89, rtmp-chunk-read.c:130).
THEOREM ClientImplementsChannel ==
  ASSUME Role = "client"
  PROVE  Spec => Channel!Init /\ [][Channel!Next]_(Channel!vars)
<1>1. Init => Channel!Init
  BY DEF Init, Channel!Init
<1>2. TypeInv /\ ClientInv /\ [Next]_vars => [Channel!Next]_(Channel!vars)
  BY ChannelStep
<1>3. Spec => Init /\ [][Next]_vars
  BY PTL DEF Spec
<1> QED  BY <1>1, <1>2, <1>3, InvariantsHold, PTL
=============================================================================
