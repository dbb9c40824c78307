-------------------------- MODULE TransmitionProofs --------------------------
(***************************************************************************)
(* Proofs about Transmition for any number of publishers, viewers and      *)
(* shards.  A step of a handler changes the record of one publisher or of  *)
(* one player, and the lists: PublisherMoves and PlayerMoves say what such *)
(* a step owes the inductive invariant, the lemmas after them that each    *)
(* action pays it.                                                         *)
(***************************************************************************)
EXTENDS Transmition, TLAPS

-----------------------------------------------------------------------------
(* The inductive invariant.                                                *)

\* The phases of a publisher that has been told of the registry's answer.
Served == {"ready", "running", "closing", "removed", "dead"}

\* A publisher is on the list exactly while the transmition is its life cycle, but
\* for the moment in which it is being removed.
Registration ==
    \A p \in Publishers :
        /\ p \in registered => pub[p].lifecycle /\ pub[p].phase \in {"ready", "running", "closing"}
        /\ pub[p].lifecycle => p \in registered \/ pub[p].phase = "removed"

\* A player never points at a publisher that has yet to be registered, and none is
\* scheduled for one.
Serving ==
    /\ \A l \in Players : play[l].of # None => pub[play[l].of].phase \in Served
    /\ \A p \in Publishers : pub[p].scheduled => pub[p].phase \in Served

\* The HLS player of a publisher is made once.
HlsIdle ==
    \A p \in Publishers :
        pub[p].phase \notin Served \/ pub[p].scheduled => play[HlsOf[p]].phase = "idle"

\* Nobody knows a player that is not made yet.
IdleUnknown ==
    \A l \in Players :
        play[l].phase = "idle" => l \notin listed /\ \A p \in Publishers : l \notin pub[p].targets

\* A listed HLS player is its publisher's.
HlsListed ==
    \A p \in Publishers : HlsOf[p] \in listed => play[HlsOf[p]].of = p

\* A publisher that is made lives on a shard for publishers.
Placed == \A p \in Publishers : pub[p].phase # "idle" => pub[p].shard \in PubShards

IInv ==
    TypeOK /\ Registration /\ Serving /\ HlsIdle /\ IdleUnknown /\ HlsListed /\ Placed

-----------------------------------------------------------------------------
\* What the assumptions say of the names of sessions, shards and the null pointer.
LEMMA Names ==
    /\ None \notin Sessions /\ Users \subseteq Players
    /\ Publishers \intersect Players = {}
    /\ \A p \in Publishers : HlsOf[p] \in Players /\ HlsOf[p] \notin Users
    /\ \A p, q \in Publishers : HlsOf[p] = HlsOf[q] => p = q
    /\ \A l \in Players : l \in Users \/ \E p \in Publishers : l = HlsOf[p]
    /\ None \notin Publishers /\ None \notin Shards /\ None \notin Players
BY SessionsAssumption DEF Players, HlsPlayers, Sessions

\* The server starts with empty lists and no session.
LEMMA InitIInv == Init => IInv
<1> SUFFICES ASSUME Init PROVE IInv
  OBVIOUS
<1>1. NewPublisher \in Publisher /\ NewPlayer \in Player
  BY DEF NewPublisher, Publisher, NewPlayer, Player, Flags
<1>2. TypeOK
  <2>1. pub \in [Publishers -> Publisher] /\ play \in [Players -> Player]
    BY <1>1 DEF Init
  <2>2. /\ autoStop \in [Users -> Publishers \union {None}]
        /\ busy \in [Shards -> Publishers \union Users \union {None}]
    BY DEF Init
  <2>3. \A l \in Players : play[l].of = None <=> play[l].phase \in {"idle", "gone"}
    BY DEF Init, NewPlayer
  <2>4. \A s \in Shards, x \in Publishers \union Users :
           busy[s] = x <=> HalfWay(x) /\ ShardOf(x) = s
    BY Names DEF Init, HalfWay, NewPublisher, NewPlayer
  <2> QED
    BY <2>1, <2>2, <2>3, <2>4 DEF TypeOK, Init
<1>3. Registration /\ HlsIdle /\ Placed
  BY Names DEF Init, Registration, HlsIdle, Placed, NewPublisher, NewPlayer
<1>4. Serving /\ IdleUnknown /\ HlsListed
  BY DEF Init, Serving, IdleUnknown, HlsListed, NewPublisher, NewPlayer
<1> QED
  BY <1>2, <1>3, <1>4 DEF IInv

-----------------------------------------------------------------------------
\* A step that changes one publisher, the list of publishers and who holds a shard.
PublisherMove(p, r) ==
    /\ pub' = [pub EXCEPT ![p] = r]
    /\ play' = play /\ listed' = listed /\ fault' = fault
    /\ autoStop' \in [Users -> Publishers \union {None}]
    /\ registered' \in SUBSET Publishers /\ registered' \ {p} = registered \ {p}
    /\ p \in registered' => r.lifecycle /\ r.phase \in {"ready", "running", "closing"}
    /\ r.lifecycle => p \in registered' \/ r.phase = "removed"
    /\ pub[p].phase \in Served => r.phase \in Served
    /\ r.scheduled => r.phase \in Served
    /\ r.phase \notin Served \/ r.scheduled => pub[p].phase \notin Served \/ pub[p].scheduled
    /\ r.targets \subseteq pub[p].targets \union listed
    /\ r.phase # "idle" => r.shard \in PubShards
    /\ busy' \in [Shards -> Publishers \union Users \union {None}]
    /\ \A s \in Shards, x \in Publishers \union Users :
          x # p => (busy'[s] = x <=> busy[s] = x)
    /\ \A s \in Shards : busy'[s] = p <=> r.phase \in {"adding", "removed"} /\ r.shard = s

\* PublisherMove is what a step of a publisher owes the inductive invariant.
LEMMA PublisherMoves ==
    ASSUME IInv, NEW p \in Publishers, NEW r \in Publisher, PublisherMove(p, r)
    PROVE  IInv'
<1> USE DEF PublisherMove
<1>1. /\ pub' \in [Publishers -> Publisher] /\ pub'[p] = r
      /\ \A q \in Publishers : q # p => pub'[q] = pub[q]
  BY DEF IInv, TypeOK
<1>2. TypeOK'
  <2>1. \A s \in Shards, x \in Publishers \union Users :
           busy'[s] = x <=> HalfWay(x)' /\ ShardOf(x)' = s
    <3> SUFFICES ASSUME NEW s \in Shards, NEW x \in Publishers \union Users
                 PROVE  busy'[s] = x <=> HalfWay(x)' /\ ShardOf(x)' = s
      OBVIOUS
    <3>1. CASE x = p
      BY <1>1, <3>1, Names DEF HalfWay, ShardOf
    <3>2. CASE x # p
      <4>1. HalfWay(x)' <=> HalfWay(x)
        BY <1>1, <3>2 DEF HalfWay
      <4>2. ShardOf(x)' = ShardOf(x)
        BY <1>1, <3>2 DEF ShardOf
      <4>3. busy[s] = x <=> HalfWay(x) /\ ShardOf(x) = s
        BY DEF IInv, TypeOK
      <4> QED  BY <3>2, <4>1, <4>2, <4>3
    <3> QED  BY <3>1, <3>2
  <2> QED
    BY <1>1, <2>1 DEF IInv, TypeOK
<1>3. Registration' /\ Placed'
  BY <1>1 DEF IInv, Registration, Placed
<1>4. Serving' /\ HlsIdle' /\ HlsListed'
  BY <1>1, Names DEF IInv, TypeOK, Serving, HlsIdle, HlsListed, Player
<1>5. IdleUnknown'
  BY <1>1 DEF IInv, IdleUnknown
<1> QED
  BY <1>2, <1>3, <1>4, <1>5 DEF IInv

\* A step that changes one player, the list of players, who holds a shard, and of
\* the publishers what no other part depends on.
PublishersKept ==
    /\ pub' \in [Publishers -> Publisher]
    /\ \A p \in Publishers :
          /\ pub'[p].phase = pub[p].phase /\ pub'[p].shard = pub[p].shard
          /\ pub'[p].lifecycle = pub[p].lifecycle
          /\ pub'[p].scheduled => pub[p].scheduled
          /\ pub'[p].targets \subseteq pub[p].targets

PlayerMove(l, r) ==
    /\ play' = [play EXCEPT ![l] = r]
    /\ registered' = registered /\ fault' \in {"none", "assert", "null"}
    /\ autoStop' \in [Users -> Publishers \union {None}]
    /\ PublishersKept
    /\ listed' \in SUBSET Players /\ listed' \ {l} = listed \ {l}
    /\ r.of = None <=> r.phase \in {"idle", "gone"}
    /\ r.of # None => pub[r.of].phase \in Served
    /\ r.phase = "idle" => l \notin listed' /\ \A p \in Publishers : l \notin pub[p].targets
    /\ \A p \in Publishers : HlsOf[p] = l =>
          /\ l \in listed' => r.of = p
          /\ pub'[p].phase \notin Served \/ pub'[p].scheduled => r.phase = "idle"
    /\ busy' \in [Shards -> Publishers \union Users \union {None}]
    /\ \A s \in Shards, x \in Publishers \union Users :
          x # l => (busy'[s] = x <=> busy[s] = x)
    /\ \A s \in Shards : l \in Users =>
          (busy'[s] = l <=> r.phase = "beginning" /\ r.shard = s)

\* PlayerMove is what a step of a player owes it.
LEMMA PlayerMoves ==
    ASSUME IInv, NEW l \in Players, NEW r \in Player, PlayerMove(l, r)
    PROVE  IInv'
<1> USE DEF PlayerMove, PublishersKept
<1>1. /\ play' \in [Players -> Player] /\ play'[l] = r
      /\ \A k \in Players : k # l => play'[k] = play[k]
  BY DEF IInv, TypeOK
<1>2. TypeOK'
  <2>1. \A s \in Shards, x \in Publishers \union Users :
           busy'[s] = x <=> HalfWay(x)' /\ ShardOf(x)' = s
    <3> SUFFICES ASSUME NEW s \in Shards, NEW x \in Publishers \union Users
                 PROVE  busy'[s] = x <=> HalfWay(x)' /\ ShardOf(x)' = s
      OBVIOUS
    <3>1. CASE x = l
      BY <1>1, <3>1, Names DEF HalfWay, ShardOf
    <3>2. CASE x # l
      <4>1. HalfWay(x)' <=> HalfWay(x)
        BY <1>1, <3>2, Names DEF HalfWay
      <4>2. ShardOf(x)' = ShardOf(x)
        BY <1>1, <3>2, Names DEF ShardOf
      <4>3. busy[s] = x <=> HalfWay(x) /\ ShardOf(x) = s
        BY DEF IInv, TypeOK
      <4> QED  BY <3>2, <4>1, <4>2, <4>3
    <3> QED  BY <3>1, <3>2
  <2>2. \A k \in Players : play'[k].of = None <=> play'[k].phase \in {"idle", "gone"}
    BY <1>1 DEF IInv, TypeOK
  <2> QED
    BY <1>1, <2>1, <2>2 DEF IInv, TypeOK
<1>3. Registration' /\ Placed'
  BY DEF IInv, Registration, Placed
<1>4. Serving'
  <2>1. \A k \in Players : play'[k].of \in Publishers \union {None}
    BY <1>1 DEF Player
  <2> QED
    BY <1>1, <2>1 DEF IInv, Serving
<1>5. HlsIdle' /\ HlsListed'
  BY <1>1, Names DEF IInv, HlsIdle, HlsListed
<1>6. IdleUnknown'
  BY <1>1 DEF IInv, IdleUnknown
<1> QED
  BY <1>2, <1>3, <1>4, <1>5, <1>6 DEF IInv

\* A step of a publisher that takes no shard and lets none go, and leaves the lists.
PublisherStay(p, r) ==
    /\ pub' = [pub EXCEPT ![p] = r]
    /\ registered' = registered /\ listed' = listed /\ play' = play
    /\ busy' = busy /\ fault' = fault
    /\ autoStop' \in [Users -> Publishers \union {None}]
    /\ r.lifecycle = pub[p].lifecycle /\ r.scheduled = pub[p].scheduled
    /\ r.targets = pub[p].targets
    /\ \/ r.phase = pub[p].phase /\ r.shard = pub[p].shard
       \/ /\ pub[p].phase \notin {"adding", "removed"}
          /\ r.phase \in {"made", "ready", "running", "closing"}
          /\ r.shard \in PubShards
          /\ pub[p].phase \in Served <=> r.phase \in Served
          /\ p \in registered => r.phase \in Served
       \/ pub[p].phase = "made" /\ r.phase = "ready" /\ r.shard = pub[p].shard

\* PublisherStay is enough for a step that takes no shard and lets none go.
LEMMA PublisherStays ==
    ASSUME IInv, NEW p \in Publishers, NEW r \in Publisher, PublisherStay(p, r)
    PROVE  IInv'
<1> USE DEF PublisherStay
<1>1. \A s \in Shards : busy[s] = p <=> pub[p].phase \in {"adding", "removed"} /\ pub[p].shard = s
  BY Names DEF IInv, TypeOK, HalfWay, ShardOf
<1>2. \A s \in Shards : busy[s] = p <=> r.phase \in {"adding", "removed"} /\ r.shard = s
  BY <1>1
<1>3. pub[p] \in Publisher
  BY DEF IInv, TypeOK
<1>4. p \in registered => r.lifecycle /\ r.phase \in {"ready", "running", "closing"}
  BY DEF IInv, Registration, Served
<1>5. r.lifecycle => p \in registered \/ r.phase = "removed"
  BY DEF IInv, Registration
<1>6. (pub[p].phase \in Served => r.phase \in Served) /\ (r.scheduled => r.phase \in Served)
  BY DEF IInv, Serving, Served
<1>7. r.phase \notin Served \/ r.scheduled => pub[p].phase \notin Served \/ pub[p].scheduled
  BY DEF Served
<1>8. r.phase # "idle" => r.shard \in PubShards
  BY DEF IInv, Placed
<1>9. /\ registered' \in SUBSET Publishers
      /\ busy' \in [Shards -> Publishers \union Users \union {None}]
  BY DEF IInv, TypeOK
<1>10. PublisherMove(p, r)
  BY <1>2, <1>4, <1>5, <1>6, <1>7, <1>8, <1>9 DEF PublisherMove
<1> QED
  BY <1>10, PublisherMoves

\* A new publisher is on a shard for publishers, and nobody knows it yet.
LEMMA PublishOK ==
    ASSUME IInv, NEW p \in Publishers, Publish(p) PROVE IInv'
<1>1. PICK s \in PubShards : pub' = [pub EXCEPT ![p].phase = "made", ![p].shard = s]
  BY DEF Publish
<1> DEFINE r == [pub[p] EXCEPT !.phase = "made", !.shard = s]
<1>2. pub[p] \in Publisher /\ pub[p].phase = "idle"
  BY DEF IInv, TypeOK, Publish
<1>3. /\ r \in Publisher /\ r.phase = "made" /\ r.shard = s /\ r.lifecycle = pub[p].lifecycle
      /\ r.scheduled = pub[p].scheduled /\ r.targets = pub[p].targets
  BY <1>2 DEF Publisher
<1>4. pub' = [pub EXCEPT ![p] = r]
  BY <1>1
<1>5. p \notin registered
  BY <1>2 DEF IInv, Registration
<1> HIDE DEF r
<1>6. PublisherStay(p, r)
  BY <1>2, <1>3, <1>4, <1>5 DEF PublisherStay, IInv, TypeOK, Served, Publish
<1> QED
  BY <1>6, <1>3, PublisherStays

\* A publisher at a given phase moves on and its flags and metadata change.
LEMMA MovesOn ==
    ASSUME IInv, NEW p \in Publishers, NEW ph \in {"ready", "running", "closing"},
           NEW fl \in SUBSET Flags, NEW m \in BOOLEAN,
           \/ pub[p].phase \in {"ready", "running", "closing"}
           \/ pub[p].phase = "made" /\ ph = "ready",
           pub' = [pub EXCEPT ![p] = [pub[p] EXCEPT !.phase = ph, !.flags = fl, !.meta = m]],
           UNCHANGED <<registered, listed, play, autoStop, busy, fault>>
    PROVE  IInv'
<1> DEFINE r == [pub[p] EXCEPT !.phase = ph, !.flags = fl, !.meta = m]
<1>1. pub[p] \in Publisher
  BY DEF IInv, TypeOK
<1>2. /\ r \in Publisher /\ r.phase = ph /\ r.shard = pub[p].shard
      /\ r.lifecycle = pub[p].lifecycle
      /\ r.scheduled = pub[p].scheduled /\ r.targets = pub[p].targets
  BY <1>1 DEF Publisher
<1>3. pub[p].shard \in PubShards
  BY DEF IInv, Placed
<1>4. pub' = [pub EXCEPT ![p] = r]
  OBVIOUS
<1>5. autoStop' \in [Users -> Publishers \union {None}]
  BY DEF IInv, TypeOK
<1> HIDE DEF r
<1>6. PublisherStay(p, r)
  BY <1>2, <1>3, <1>4, <1>5 DEF PublisherStay, Served
<1> QED
  BY <1>6, <1>2, PublisherStays

\* The read loop and its four ends change the flags and the phase only.
LEMMA ReadOK ==
    ASSUME IInv, NEW p \in Publishers,
           BeginPublish(p) \/ Metadata(p) \/ BadPacket(p) \/ PacketAfterCancel(p)
             \/ Eof(p) \/ PublishTimeout(p)
    PROVE  IInv'
<1>1. pub[p] \in Publisher /\ pub \in [Publishers -> Publisher]
  BY DEF IInv, TypeOK
<1>2. pub[p].flags \in SUBSET Flags /\ pub[p].meta \in BOOLEAN
  BY <1>1 DEF Publisher
<1>3. CASE BeginPublish(p)
  <2>1. /\ pub[p].phase = "ready"
        /\ pub' = [pub EXCEPT ![p] = [pub[p] EXCEPT !.phase = "running", !.flags = {},
                                                    !.meta = FALSE]]
    BY <1>1, <1>3 DEF BeginPublish
  <2> QED  BY <1>3, <2>1, MovesOn DEF BeginPublish
<1>4. CASE Metadata(p)
  <2>1. /\ pub[p].phase = "running"
        /\ pub' = [pub EXCEPT ![p] = [pub[p] EXCEPT !.phase = "running", !.flags = pub[p].flags,
                                                    !.meta = TRUE]]
    BY <1>1, <1>4 DEF Metadata, Reading, Publisher
  <2> QED  BY <1>2, <1>4, <2>1, MovesOn DEF Metadata
<1>5. ASSUME NEW fl \in SUBSET Flags, pub[p].phase = "running", StopReading(p, fl)
      PROVE  IInv'
  <2>1. pub' = [pub EXCEPT ![p] = [pub[p] EXCEPT !.phase = "closing", !.flags = fl,
                                                 !.meta = pub[p].meta]]
    BY <1>1, <1>5 DEF StopReading, Publisher
  <2>2. UNCHANGED <<registered, listed, play, autoStop, busy, fault>>
    BY <1>5 DEF StopReading
  <2>3. pub[p].phase \in {"ready", "running", "closing"} /\ pub[p].meta \in BOOLEAN
    BY <1>2, <1>5
  <2> QED
    BY <1>5, <2>1, <2>2, <2>3, MovesOn
<1>6. CASE BadPacket(p) \/ PacketAfterCancel(p) \/ Eof(p) \/ PublishTimeout(p)
  <2>1. PICK fl : fl \in SUBSET Flags /\ pub[p].phase = "running" /\ StopReading(p, fl)
    BY <1>2, <1>6 DEF BadPacket, PacketAfterCancel, Eof, PublishTimeout, Reading, Completed, Flags
  <2> QED  BY <1>5, <2>1
<1> QED
  BY <1>3, <1>4, <1>6

\* add_publisher keeps the shard until its answer, or loses the race.
LEMMA AddPublisherOK ==
    ASSUME IInv, NEW p \in Publishers, AddPublisher(p) PROVE IInv'
<1>1. pub[p] \in Publisher /\ pub[p].phase = "made" /\ pub[p].shard \in PubShards
  BY DEF IInv, TypeOK, AddPublisher, Placed
<1>2. CASE registered = {}
  <2> DEFINE r == [pub[p] EXCEPT !.phase = "adding"]
  <2>1. /\ r \in Publisher /\ r.phase = "adding" /\ r.shard = pub[p].shard
        /\ r.lifecycle = pub[p].lifecycle /\ r.scheduled = pub[p].scheduled
        /\ r.targets = pub[p].targets
    BY <1>1 DEF Publisher
  <2>2. pub' = [pub EXCEPT ![p] = r] /\ busy' = [busy EXCEPT ![pub[p].shard] = p]
    BY <1>2 DEF AddPublisher
  <2>3. /\ busy' \in [Shards -> Publishers \union Users \union {None}]
        /\ busy[pub[p].shard] = None
    BY <1>1, <2>2, ShardsAssumption DEF IInv, TypeOK, AddPublisher, Runs, Free
  <2>4. \A s \in Shards, x \in Publishers \union Users :
           x # p => (busy'[s] = x <=> busy[s] = x)
    BY <2>2, <2>3, Names DEF IInv, TypeOK
  <2>5. \A s \in Shards : busy[s] # p
    BY <1>1, Names DEF IInv, TypeOK, HalfWay
  <2>6. \A s \in Shards : busy'[s] = p <=> r.phase \in {"adding", "removed"} /\ r.shard = s
    BY <2>1, <2>2, <2>5 DEF IInv, TypeOK
  <2>7. ~pub[p].lifecycle /\ p \notin registered /\ ~pub[p].scheduled
    BY <1>1, <1>2 DEF IInv, Registration, Serving, Served
  <2> HIDE DEF r
  <2>8. PublisherMove(p, r)
    BY <1>1, <2>1, <2>2, <2>3, <2>4, <2>6, <2>7
       DEF PublisherMove, IInv, TypeOK, Served, AddPublisher
  <2> QED
    BY <2>8, <2>1, PublisherMoves
<1>3. CASE registered # {}
  <2>1. pub' = [pub EXCEPT ![p] = [pub[p] EXCEPT !.phase = "ready", !.flags = pub[p].flags,
                                                 !.meta = pub[p].meta]]
    <3>1. [pub[p] EXCEPT !.phase = "ready", !.flags = pub[p].flags, !.meta = pub[p].meta]
            = [pub[p] EXCEPT !.phase = "ready"]
      BY <1>1 DEF Publisher
    <3> QED  BY <1>3, <3>1 DEF AddPublisher
  <2>2. pub[p].flags \in SUBSET Flags /\ pub[p].meta \in BOOLEAN
    BY <1>1 DEF Publisher
  <2> QED
    BY <1>1, <1>3, <2>1, <2>2, MovesOn DEF AddPublisher
<1> QED
  BY <1>2, <1>3

\* A publisher that is half way through a handler ends it and frees its shard.
LEMMA Released ==
    ASSUME IInv, NEW p \in Publishers, pub[p].phase \in {"adding", "removed"},
           busy' = [busy EXCEPT ![pub[p].shard] = None]
    PROVE  /\ busy' \in [Shards -> Publishers \union Users \union {None}]
           /\ \A s \in Shards : busy'[s] # p
           /\ \A s \in Shards, x \in Publishers \union Users :
                 x # p => (busy'[s] = x <=> busy[s] = x)
<1>1. \A s \in Shards : busy[s] = p <=> pub[p].shard = s
  BY Names DEF IInv, TypeOK, HalfWay, ShardOf
<1>2. pub[p].shard \in Shards
  BY ShardsAssumption DEF IInv, Placed
<1> QED
  BY <1>1, <1>2, Names DEF IInv, TypeOK

\* The registration hands over the life cycle with the place on the list.
LEMMA RegisterOK ==
    ASSUME IInv, NEW p \in Publishers, Register(p) PROVE IInv'
<1>1. pub[p] \in Publisher /\ pub[p].phase = "adding" /\ pub[p].shard \in PubShards
  BY DEF IInv, TypeOK, Register, Placed
<1> DEFINE r == [pub[p] EXCEPT !.phase = "ready", !.lifecycle = TRUE, !.scheduled = HlsEnabled]
<1>2. /\ r \in Publisher /\ r.phase = "ready" /\ r.shard = pub[p].shard
      /\ r.lifecycle = TRUE /\ r.targets = pub[p].targets
  BY <1>1, SettingsAssumption DEF Publisher
<1>3. pub' = [pub EXCEPT ![p] = r] /\ busy' = [busy EXCEPT ![pub[p].shard] = None]
  BY DEF Register
<1>4. registered' \in SUBSET Publishers /\ registered' \ {p} = registered \ {p} /\ p \in registered'
  BY DEF IInv, TypeOK, Register
<1> HIDE DEF r
<1>5. /\ busy' \in [Shards -> Publishers \union Users \union {None}]
      /\ \A s \in Shards : busy'[s] # p
      /\ \A s \in Shards, x \in Publishers \union Users :
            x # p => (busy'[s] = x <=> busy[s] = x)
  BY <1>1, <1>3, Released
<1>6. PublisherMove(p, r)
  BY <1>1, <1>2, <1>3, <1>4, <1>5 DEF PublisherMove, IInv, TypeOK, Served, Register
<1> QED
  BY <1>6, <1>2, PublisherMoves

\* on_terminate leaves the list with the shard kept, or was never on it.
LEMMA RemovePublisherOK ==
    ASSUME IInv, NEW p \in Publishers, RemovePublisher(p) PROVE IInv'
<1>1. pub[p] \in Publisher /\ pub[p].phase = "closing" /\ pub[p].shard \in PubShards
  BY DEF IInv, TypeOK, RemovePublisher, Placed
<1>2. /\ play' = play /\ listed' = listed /\ fault' = fault
      /\ autoStop' \in [Users -> Publishers \union {None}]
  BY DEF IInv, TypeOK, RemovePublisher
<1>3. \A s \in Shards : busy[s] # p
  BY <1>1, Names DEF IInv, TypeOK, HalfWay
<1>4. CASE pub[p].lifecycle
  <2> DEFINE r == [pub[p] EXCEPT !.phase = "removed"]
  <2>1. /\ r \in Publisher /\ r.phase = "removed" /\ r.shard = pub[p].shard
        /\ r.scheduled = pub[p].scheduled /\ r.targets = pub[p].targets
    BY <1>1 DEF Publisher
  <2>2. pub' = [pub EXCEPT ![p] = r] /\ busy' = [busy EXCEPT ![pub[p].shard] = p]
    BY <1>4 DEF RemovePublisher
  <2>3. /\ busy' \in [Shards -> Publishers \union Users \union {None}]
        /\ busy[pub[p].shard] = None
    BY <1>1, <2>2, ShardsAssumption DEF IInv, TypeOK, RemovePublisher, Runs, Free
  <2>4. \A s \in Shards, x \in Publishers \union Users :
           x # p => (busy'[s] = x <=> busy[s] = x)
    BY <2>2, <2>3, Names DEF IInv, TypeOK
  <2>5. \A s \in Shards : busy'[s] = p <=> r.phase \in {"adding", "removed"} /\ r.shard = s
    BY <1>3, <2>1, <2>2 DEF IInv, TypeOK
  <2>6. /\ registered' \in SUBSET Publishers /\ registered' \ {p} = registered \ {p}
        /\ p \notin registered'
    BY <1>4 DEF IInv, TypeOK, RemovePublisher
  <2> HIDE DEF r
  <2>7. PublisherMove(p, r)
    BY <1>1, <1>2, <2>1, <2>2, <2>3, <2>4, <2>5, <2>6 DEF PublisherMove, Served
  <2> QED
    BY <2>7, <2>1, PublisherMoves
<1>5. CASE ~pub[p].lifecycle
  <2> DEFINE r == [pub[p] EXCEPT !.phase = "dead", !.subs = {}]
  <2>1. /\ r \in Publisher /\ r.phase = "dead" /\ r.shard = pub[p].shard
        /\ r.lifecycle = pub[p].lifecycle
        /\ r.scheduled = pub[p].scheduled /\ r.targets = pub[p].targets
    BY <1>1 DEF Publisher
  <2>2. pub' = [pub EXCEPT ![p] = r] /\ registered' = registered /\ busy' = busy
    BY <1>5 DEF RemovePublisher
  <2>3. \A s \in Shards : busy'[s] = p <=> r.phase \in {"adding", "removed"} /\ r.shard = s
    BY <1>3, <2>1, <2>2
  <2>4. p \notin registered
    BY <1>5 DEF IInv, Registration
  <2> HIDE DEF r
  <2>5. PublisherMove(p, r)
    BY <1>1, <1>2, <1>5, <2>1, <2>2, <2>3, <2>4 DEF PublisherMove, IInv, TypeOK, Served
  <2> QED
    BY <2>5, <2>1, PublisherMoves
<1> QED
  BY <1>4, <1>5

\* The end of on_terminate gives the life cycle back and frees the shard.
LEMMA StopPlayersOK ==
    ASSUME IInv, NEW p \in Publishers, StopPlayers(p) PROVE IInv'
<1>1. pub[p] \in Publisher /\ pub[p].phase = "removed" /\ pub[p].shard \in PubShards
  BY DEF IInv, TypeOK, StopPlayers, Placed
<1> DEFINE r == [pub[p] EXCEPT !.phase = "dead", !.lifecycle = FALSE, !.subs = {},
                               !.targets = listed]
<1>2. /\ r \in Publisher /\ r.phase = "dead" /\ r.shard = pub[p].shard
      /\ r.lifecycle = FALSE /\ r.scheduled = pub[p].scheduled /\ r.targets = listed
  BY <1>1 DEF Publisher, IInv, TypeOK
<1>3. pub' = [pub EXCEPT ![p] = r] /\ busy' = [busy EXCEPT ![pub[p].shard] = None]
  BY DEF StopPlayers
<1>4. p \notin registered
  BY <1>1 DEF IInv, Registration
<1> HIDE DEF r
<1>5. /\ busy' \in [Shards -> Publishers \union Users \union {None}]
      /\ \A s \in Shards : busy'[s] # p
      /\ \A s \in Shards, x \in Publishers \union Users :
            x # p => (busy'[s] = x <=> busy[s] = x)
  BY <1>1, <1>3, Released
<1>6. PublisherMove(p, r)
  BY <1>1, <1>2, <1>3, <1>4, <1>5 DEF PublisherMove, IInv, TypeOK, Served, StopPlayers
<1> QED
  BY <1>6, <1>2, PublisherMoves

\* The cancel by a viewer's end changes the flags only.
LEMMA CancelPublisherOK ==
    ASSUME IInv, NEW l \in Users, CancelPublisher(l) PROVE IInv'
<1> DEFINE p == autoStop[l]
           fl == Completed(pub[p], "canceled")
           r == [pub[p] EXCEPT !.flags = fl]
<1>1. p \in Publishers /\ pub[p] \in Publisher
  BY DEF IInv, TypeOK, CancelPublisher
<1>2. fl \in SUBSET Flags
  BY <1>1 DEF Completed, Flags, Publisher
<1>3. pub' = [pub EXCEPT ![p] = r]
  BY DEF CancelPublisher
<1> HIDE DEF p, fl
<1>4. /\ r \in Publisher /\ r.phase = pub[p].phase /\ r.shard = pub[p].shard
      /\ r.lifecycle = pub[p].lifecycle
      /\ r.scheduled = pub[p].scheduled /\ r.targets = pub[p].targets
  BY <1>1, <1>2 DEF Publisher
<1>5. autoStop' \in [Users -> Publishers \union {None}]
  BY DEF IInv, TypeOK, CancelPublisher
<1> HIDE DEF r
<1>6. PublisherStay(p, r)
  BY <1>1, <1>3, <1>4, <1>5 DEF PublisherStay, CancelPublisher
<1> QED
  BY <1>1, <1>6, <1>4, PublisherStays

-----------------------------------------------------------------------------
(* Steps of a player.                                                      *)

\* What the inductive invariant says of one player.
LEMMA PlayerFacts ==
    ASSUME IInv, NEW l \in Players
    PROVE  /\ play[l] \in Player
           /\ play[l].of = None <=> play[l].phase \in {"idle", "gone"}
           /\ play[l].of # None =>
                 play[l].of \in Publishers /\ pub[play[l].of].phase \in Served
           /\ \A p \in Publishers : HlsOf[p] = l =>
                 /\ play[l].phase # "idle" => pub[p].phase \in Served /\ ~pub[p].scheduled
                 /\ l \in listed => play[l].of = p
           /\ \A s \in Shards : l \in Users =>
                 (busy[s] = l <=> play[l].phase = "beginning" /\ play[l].shard = s)
<1>1. play[l] \in Player /\ (play[l].of = None <=> play[l].phase \in {"idle", "gone"})
  BY DEF IInv, TypeOK
<1>2. play[l].of # None => play[l].of \in Publishers /\ pub[play[l].of].phase \in Served
  BY <1>1 DEF IInv, Serving, Player
<1>3. \A p \in Publishers : HlsOf[p] = l =>
         /\ play[l].phase # "idle" => pub[p].phase \in Served /\ ~pub[p].scheduled
         /\ l \in listed => play[l].of = p
  BY DEF IInv, HlsIdle, HlsListed
<1>4. \A s \in Shards : l \in Users =>
         (busy[s] = l <=> play[l].phase = "beginning" /\ play[l].shard = s)
  BY Names DEF IInv, TypeOK, HalfWay, ShardOf
<1> QED
  BY <1>1, <1>2, <1>3, <1>4

\* A step of a player that takes no shard and lets none go.
PlayerStay(l, r) ==
    /\ play' = [play EXCEPT ![l] = r]
    /\ registered' = registered /\ busy' = busy /\ fault' \in {"none", "assert", "null"}
    /\ autoStop' \in [Users -> Publishers \union {None}]
    /\ PublishersKept
    /\ listed' \in SUBSET Players /\ listed' \ {l} = listed \ {l}
    /\ r.of = None <=> r.phase \in {"idle", "gone"}
    /\ r.of # None => pub[r.of].phase \in Served
    /\ r.phase = "idle" => l \notin listed' /\ \A p \in Publishers : l \notin pub[p].targets
    /\ \A p \in Publishers : HlsOf[p] = l =>
          /\ l \in listed' => r.of = p
          /\ pub'[p].phase \notin Served \/ pub'[p].scheduled => r.phase = "idle"
    /\ \/ r.phase = play[l].phase /\ r.shard = play[l].shard
       \/ play[l].phase # "beginning" /\ r.phase # "beginning"

\* PlayerStay is enough for a step that takes no shard and lets none go.
LEMMA PlayerStays ==
    ASSUME IInv, NEW l \in Players, NEW r \in Player, PlayerStay(l, r)
    PROVE  IInv'
<1>1. \A s \in Shards : l \in Users =>
         (busy[s] = l <=> play[l].phase = "beginning" /\ play[l].shard = s)
  BY PlayerFacts
<1>2. \A s \in Shards : l \in Users =>
         (busy'[s] = l <=> r.phase = "beginning" /\ r.shard = s)
  BY <1>1 DEF PlayerStay
<1>3. PlayerMove(l, r)
  BY <1>2 DEF PlayerStay, PlayerMove, IInv, TypeOK
<1> QED
  BY <1>3, PlayerMoves

\* What of a publisher no other part depends on changes.
LEMMA Kept ==
    ASSUME IInv, NEW p \in Publishers, NEW r \in Publisher, pub' = [pub EXCEPT ![p] = r],
           r.phase = pub[p].phase, r.shard = pub[p].shard, r.lifecycle = pub[p].lifecycle,
           r.scheduled => pub[p].scheduled, r.targets \subseteq pub[p].targets
    PROVE  PublishersKept
BY DEF PublishersKept, IInv, TypeOK

\* A publisher's subscribers change.
LEMMA SubsKept ==
    ASSUME IInv, NEW p \in Publishers, NEW S \in SUBSET Players,
           pub' = [pub EXCEPT ![p].subs = S]
    PROVE  PublishersKept
<1> DEFINE r == [pub[p] EXCEPT !.subs = S]
<1>1. pub[p] \in Publisher
  BY DEF IInv, TypeOK
<1>2. /\ r \in Publisher /\ r.phase = pub[p].phase /\ r.shard = pub[p].shard
      /\ r.lifecycle = pub[p].lifecycle /\ r.scheduled = pub[p].scheduled
      /\ r.targets = pub[p].targets
  BY <1>1 DEF Publisher
<1>3. pub' = [pub EXCEPT ![p] = r]
  OBVIOUS
<1> HIDE DEF r
<1> QED
  BY <1>2, <1>3, Kept

\* A step that leaves the publishers alone.
LEMMA Unchanged ==
    ASSUME IInv, UNCHANGED pub PROVE PublishersKept
BY DEF PublishersKept, IInv, TypeOK

\* find_publisher answers a publisher that is registered.
LEMMA FindPublisherOK ==
    ASSUME IInv, NEW l \in Users, FindPublisher(l) PROVE IInv'
<1>1. PICK p \in registered, s \in Shards :
         play' = [play EXCEPT ![l].phase = "made", ![l].of = p, ![l].shard = s]
  BY DEF FindPublisher
<1>2. l \in Players /\ \A q \in Publishers : HlsOf[q] # l
  BY Names
<1>3. play[l] \in Player /\ play[l].phase = "idle" /\ l \notin listed
  BY <1>2 DEF IInv, TypeOK, IdleUnknown, FindPublisher
<1>4. p \in Publishers /\ pub[p].phase \in Served
  BY DEF IInv, TypeOK, Registration, Served
<1> DEFINE r == [play[l] EXCEPT !.phase = "made", !.of = p, !.shard = s]
<1>5. r \in Player /\ r.phase = "made" /\ r.of = p
  BY <1>3, <1>4 DEF Player
<1>6. play' = [play EXCEPT ![l] = r]
  BY <1>1
<1>7. PublishersKept
  BY Unchanged DEF FindPublisher
<1>8. None # p
  BY <1>4, Names
<1> HIDE DEF r
<1>9. PlayerStay(l, r)
  BY <1>2, <1>3, <1>4, <1>5, <1>6, <1>7, <1>8 DEF PlayerStay, IInv, TypeOK, FindPublisher
<1> QED
  BY <1>2, <1>5, <1>9, PlayerStays

\* add_player puts a viewer on the list that has a publisher.
LEMMA AddPlayerOK ==
    ASSUME IInv, NEW l \in Users, AddPlayer(l) PROVE IInv'
<1>1. l \in Players /\ \A q \in Publishers : HlsOf[q] # l
  BY Names
<1>2. /\ play[l] \in Player /\ play[l].phase = "made" /\ play[l].of # None
      /\ play[l].of \in Publishers /\ pub[play[l].of].phase \in Served
  BY <1>1, PlayerFacts DEF AddPlayer
<1> DEFINE r == [play[l] EXCEPT !.phase = "ready"]
<1>3. r \in Player /\ r.phase = "ready" /\ r.of = play[l].of
  BY <1>2 DEF Player
<1>4. play' = [play EXCEPT ![l] = r]
  BY DEF AddPlayer
<1>5. PublishersKept
  BY Unchanged DEF AddPlayer
<1>6. listed' \in SUBSET Players /\ listed' \ {l} = listed \ {l}
  BY <1>1 DEF IInv, TypeOK, AddPlayer
<1> HIDE DEF r
<1>7. PlayerStay(l, r)
  BY <1>1, <1>2, <1>3, <1>4, <1>5, <1>6 DEF PlayerStay, IInv, TypeOK, AddPlayer
<1> QED
  BY <1>1, <1>3, <1>7, PlayerStays

\* A player that ends leaves the list and its publisher.
LEMMA Leaves ==
    ASSUME IInv, NEW l \in Players, play[l].phase \in {"ready", "closing"},
           play' = [play EXCEPT ![l] = Gone(l)], listed' \in {listed, listed \ {l}},
           l \in Users \/ l \notin listed',
           PublishersKept, autoStop' \in [Users -> Publishers \union {None}],
           registered' = registered, busy' = busy, fault' \in {"none", "assert", "null"}
    PROVE  IInv'
<1> DEFINE r == Gone(l)
<1>1. /\ play[l] \in Player
      /\ \A p \in Publishers : HlsOf[p] = l =>
            /\ pub[p].phase \in Served /\ ~pub[p].scheduled
            /\ l \notin listed'
  BY PlayerFacts, Names
<1>2. r \in Player /\ r.phase = "gone" /\ r.of = None
  BY <1>1 DEF Gone, NewPlayer, Player
<1>3. play' = [play EXCEPT ![l] = r]
  OBVIOUS
<1>4. listed' \in SUBSET Players /\ listed' \ {l} = listed \ {l}
  BY DEF IInv, TypeOK
<1>5. \A p \in Publishers : HlsOf[p] = l => pub'[p].phase \in Served /\ ~pub'[p].scheduled
  BY <1>1 DEF PublishersKept
<1> HIDE DEF r
<1>6. PlayerStay(l, r)
  BY <1>1, <1>2, <1>3, <1>4, <1>5 DEF PlayerStay
<1> QED
  BY <1>2, <1>6, PlayerStays

\* A viewer's end unsubscribes it and takes it off the list.
LEMMA EndPlayOK ==
    ASSUME IInv, NEW l \in Users, play[l].phase \in {"ready", "closing"}, EndPlay(l)
    PROVE  IInv'
<1>1. l \in Players
  BY Names
<1>2. play[l].of \in Publishers
  BY <1>1, PlayerFacts
<1>3. pub[play[l].of] \in Publisher
  BY <1>2 DEF IInv, TypeOK
<1>4. pub[play[l].of].subs \ {l} \in SUBSET Players
  BY <1>3 DEF Publisher
<1>5. pub' = [pub EXCEPT ![play[l].of].subs = pub[play[l].of].subs \ {l}]
  BY DEF EndPlay
<1>6. PublishersKept
  BY <1>2, <1>4, <1>5, SubsKept
<1>7. autoStop' \in [Users -> Publishers \union {None}]
  BY DEF IInv, TypeOK, EndPlay, StoppedPublisher
<1> QED
  BY <1>1, <1>6, <1>7, Leaves DEF EndPlay, IInv, TypeOK

\* A viewer that finds its publisher done ends as any other, or as one nobody knows.
LEMMA StartWithDoneOK ==
    ASSUME IInv, NEW l \in Users, StartWithDone(l) PROVE IInv'
<1>1. play[l].phase = "ready" /\ l \in Players
  BY Names DEF StartWithDone, Starting
<1>2. CASE Complete(play[l])
  BY <1>1, <1>2, EndPlayOK DEF StartWithDone
<1>3. CASE ~Complete(play[l])
  <2>1. PublishersKept
    BY <1>3, Unchanged DEF StartWithDone
  <2>2. /\ play' = [play EXCEPT ![l] = Gone(l)] /\ listed' = listed
        /\ registered' = registered /\ busy' = busy
    BY <1>3 DEF StartWithDone
  <2>3. /\ autoStop' \in [Users -> Publishers \union {None}]
        /\ fault' \in {"none", "assert", "null"}
    BY <1>3 DEF StartWithDone, IInv, TypeOK
  <2> QED
    BY <1>1, <2>1, <2>2, <2>3, Leaves
<1> QED
  BY <1>2, <1>3

\* The end of a viewer and that of an HLS player.
LEMMA TerminatePlayOK ==
    ASSUME IInv, NEW l \in Players, TerminatePlay(l) PROVE IInv'
<1>1. play[l].phase = "closing"
  BY DEF TerminatePlay
<1>2. CASE l \in Users
  BY <1>1, <1>2, EndPlayOK DEF TerminatePlay
<1>3. CASE l \notin Users
  <2>1. EndHls(l)
    BY <1>3 DEF TerminatePlay
  <2>2. PublishersKept
    BY <2>1, Unchanged DEF EndHls
  <2>3. autoStop' \in [Users -> Publishers \union {None}] /\ fault' \in {"none", "assert", "null"}
    BY <2>1 DEF EndHls, IInv, TypeOK
  <2> QED
    BY <1>1, <2>1, <2>2, <2>3, Leaves DEF EndHls
<1> QED
  BY <1>2, <1>3

\* start_with keeps the viewer's shard until on_begin.
LEMMA StartWithOK ==
    ASSUME IInv, NEW l \in Users, StartWith(l) PROVE IInv'
<1>1. l \in Players /\ \A q \in Publishers : HlsOf[q] # l
  BY Names
<1>2. /\ play[l] \in Player /\ play[l].phase = "ready" /\ play[l].of # None
      /\ pub[play[l].of].phase \in Served
      /\ \A s \in Shards : busy[s] # l
  BY <1>1, PlayerFacts DEF StartWith, Starting
<1> DEFINE r == [play[l] EXCEPT !.phase = "beginning"]
<1>3. r \in Player /\ r.phase = "beginning" /\ r.of = play[l].of /\ r.shard = play[l].shard
  BY <1>2 DEF Player
<1>4. play' = [play EXCEPT ![l] = r] /\ busy' = [busy EXCEPT ![play[l].shard] = l]
  BY DEF StartWith
<1>5. PublishersKept
  BY Unchanged DEF StartWith
<1>6. play[l].shard \in Shards /\ busy[play[l].shard] = None
  BY DEF StartWith, Starting, Runs, Free
<1>7. /\ busy' \in [Shards -> Publishers \union Users \union {None}]
      /\ \A s \in Shards, x \in Publishers \union Users :
            x # l => (busy'[s] = x <=> busy[s] = x)
  BY <1>4, <1>6, Names DEF IInv, TypeOK
<1>8. \A s \in Shards : busy'[s] = l <=> r.phase = "beginning" /\ r.shard = s
  BY <1>2, <1>3, <1>4, <1>6 DEF IInv, TypeOK
<1> HIDE DEF r
<1>9. PlayerMove(l, r)
  BY <1>1, <1>2, <1>3, <1>4, <1>5, <1>7, <1>8 DEF PlayerMove, IInv, TypeOK, StartWith
<1> QED
  BY <1>1, <1>3, <1>9, PlayerMoves

\* What on_begin leaves is a player of the same publisher on the same shard.
LEMMA BegunType ==
    ASSUME IInv, NEW l \in Players
    PROVE  /\ Begun(l) \in Player /\ Begun(l).phase = "running"
           /\ Begun(l).of = play[l].of /\ Begun(l).shard = play[l].shard
<1>1. play[l] \in Player
  BY PlayerFacts
<1> QED
  BY <1>1 DEF Begun, Player, Flags

\* on_begin frees the shard, or the process dies in it.
LEMMA BeginPlayOK ==
    ASSUME IInv, NEW l \in Users, BeginPlay(l) PROVE IInv'
<1>1. l \in Players /\ \A q \in Publishers : HlsOf[q] # l
  BY Names
<1>2. /\ play[l] \in Player /\ play[l].phase = "beginning" /\ play[l].of # None
      /\ play[l].of \in Publishers /\ pub[play[l].of].phase \in Served
      /\ \A s \in Shards : busy[s] = l <=> play[l].shard = s
  BY <1>1, PlayerFacts DEF BeginPlay
<1>3. CASE pub[play[l].of].meta
  <2> DEFINE r == Begun(l)
  <2>1. r \in Player /\ r.phase = "running" /\ r.of = play[l].of
    BY <1>1, BegunType
  <2>2. /\ play' = [play EXCEPT ![l] = r] /\ fault' = fault
        /\ busy' = [busy EXCEPT ![play[l].shard] = None]
    BY <1>3 DEF BeginPlay
  <2>3. pub[play[l].of].subs \union {l} \in SUBSET Players
    <3>1. pub[play[l].of] \in Publisher
      BY <1>2 DEF IInv, TypeOK
    <3> QED  BY <1>1, <3>1 DEF Publisher
  <2>4. PublishersKept
    <3> DEFINE p == play[l].of
               S == pub[p].subs \union {l}
    <3>1. p \in Publishers /\ S \in SUBSET Players
      BY <1>2, <2>3
    <3>2. pub' = [pub EXCEPT ![p].subs = S]
      BY <1>3 DEF BeginPlay
    <3> HIDE DEF p, S
    <3> QED  BY <3>1, <3>2, SubsKept
  <2>5. /\ busy' \in [Shards -> Publishers \union Users \union {None}]
        /\ \A s \in Shards, x \in Publishers \union Users :
              x # l => (busy'[s] = x <=> busy[s] = x)
        /\ \A s \in Shards : busy'[s] # l
    <3>1. busy \in [Shards -> Publishers \union Users \union {None}]
      BY DEF IInv, TypeOK
    <3>2. \A s \in Shards : busy'[s] = IF s = play[l].shard THEN None ELSE busy[s]
      BY <2>2, <3>1
    <3>3. None \notin Publishers \union Users
      BY Names
    <3>4. busy' \in [Shards -> Publishers \union Users \union {None}]
      BY <2>2, <3>1
    <3>5. \A s \in Shards : busy'[s] # l
      BY <1>2, <3>2, <3>3
    <3>6. \A s \in Shards, x \in Publishers \union Users :
             x # l => (busy'[s] = x <=> busy[s] = x)
      BY <1>2, <3>2, <3>3
    <3> QED
      BY <3>4, <3>5, <3>6
  <2> HIDE DEF r
  <2>6. PlayerMove(l, r)
    BY <1>1, <1>2, <2>1, <2>2, <2>4, <2>5 DEF PlayerMove, IInv, TypeOK, BeginPlay
  <2> QED
    BY <1>1, <2>1, <2>6, PlayerMoves
<1>4. CASE ~pub[play[l].of].meta
  <2> DEFINE r == play[l]
  <2>1. play' = [play EXCEPT ![l] = r]
    BY <1>4 DEF BeginPlay, IInv, TypeOK
  <2>2. PublishersKept
    BY <1>4, Unchanged DEF BeginPlay
  <2>3. r.of # None /\ r.phase = "beginning"
    BY <1>2
  <2> HIDE DEF r
  <2>4. r = play[l]
    BY DEF r
  <2>5. /\ registered' = registered /\ busy' = busy /\ fault' \in {"none", "assert", "null"}
        /\ autoStop' \in [Users -> Publishers \union {None}] /\ listed' = listed
        /\ listed \in SUBSET Players
    BY <1>4 DEF BeginPlay, IInv, TypeOK
  <2>6. PlayerStay(l, r)
    BY <1>1, <1>2, <2>1, <2>2, <2>3, <2>4, <2>5 DEF PlayerStay
  <2> QED
    BY <1>1, <1>2, <2>4, <2>6, PlayerStays
<1> QED
  BY <1>3, <1>4

\* The scheduled task makes the HLS player of a registered publisher, once.
LEMMA AddHlsPlayerOK ==
    ASSUME IInv, NEW p \in Publishers, AddHlsPlayer(p) PROVE IInv'
<1> DEFINE l == HlsOf[p]
<1>1. PICK s \in Shards :
         play' = [play EXCEPT ![l] = [NewPlayer EXCEPT !.phase = "ready", !.of = p, !.shard = s]]
  BY DEF AddHlsPlayer
<1> DEFINE r == [NewPlayer EXCEPT !.phase = "ready", !.of = p, !.shard = s]
<1>2. l \in Players /\ l \notin Users /\ (\A q \in Publishers : HlsOf[q] = l => q = p) /\ p # None
  BY Names
<1>3. r \in Player /\ r.phase = "ready" /\ r.of = p
  BY DEF NewPlayer, Player
<1>4. play' = [play EXCEPT ![l] = r]
  BY <1>1
<1>5. pub[p] \in Publisher /\ pub[p].scheduled /\ pub[p].phase \in Served
  BY DEF AddHlsPlayer, IInv, TypeOK, Serving
<1>6. play[l].phase = "idle"
  BY <1>5 DEF IInv, HlsIdle
<1>7. PublishersKept /\ ~pub'[p].scheduled
  <2> DEFINE u == [pub[p] EXCEPT !.scheduled = FALSE]
  <2>1. /\ u \in Publisher /\ u.phase = pub[p].phase /\ u.shard = pub[p].shard
        /\ u.lifecycle = pub[p].lifecycle /\ u.scheduled = FALSE
        /\ u.targets = pub[p].targets
    BY <1>5 DEF Publisher
  <2>2. pub' = [pub EXCEPT ![p] = u]
    BY DEF AddHlsPlayer
  <2> HIDE DEF u
  <2>3. PublishersKept
    BY <2>1, <2>2, Kept
  <2> QED
    BY <2>1, <2>2, <2>3 DEF IInv, TypeOK
<1>8. pub'[p].phase \in Served
  BY <1>5, <1>7 DEF PublishersKept
<1>9. listed' \in SUBSET Players /\ listed' \ {l} = listed \ {l}
  BY <1>2 DEF IInv, TypeOK, AddHlsPlayer
<1>10. /\ registered' = registered /\ busy' = busy /\ fault' \in {"none", "assert", "null"}
       /\ autoStop' \in [Users -> Publishers \union {None}]
  BY DEF AddHlsPlayer, IInv, TypeOK
<1> HIDE DEF l, r
<1>11. PlayerStay(l, r)
  BY <1>2, <1>3, <1>4, <1>5, <1>6, <1>7, <1>8, <1>9, <1>10 DEF PlayerStay
<1> QED
  BY <1>2, <1>3, <1>11, PlayerStays

\* A player that lives goes on, on the same shard, with its publisher.
GoesOn(l, r) ==
    /\ play' = [play EXCEPT ![l] = r] /\ PublishersKept
    /\ registered' = registered /\ listed' = listed /\ autoStop' = autoStop
    /\ busy' = busy /\ fault' = fault
    /\ play[l].phase \in {"ready", "running", "closing"}
    /\ r.phase \in {"ready", "running", "closing"} /\ r.of = play[l].of

\* GoesOn is enough for a player that keeps its publisher.
LEMMA PlayerGoesOn ==
    ASSUME IInv, NEW l \in Players, NEW r \in Player, GoesOn(l, r) PROVE IInv'
<1>1. /\ play[l].of # None /\ play[l].of \in Publishers /\ pub[play[l].of].phase \in Served
      /\ \A p \in Publishers : HlsOf[p] = l =>
            /\ pub[p].phase \in Served /\ ~pub[p].scheduled
            /\ l \in listed => play[l].of = p
  BY PlayerFacts DEF GoesOn
<1>2. \A p \in Publishers : HlsOf[p] = l => pub'[p].phase \in Served /\ ~pub'[p].scheduled
  BY <1>1 DEF GoesOn, PublishersKept
<1>3. PlayerStay(l, r)
  BY <1>1, <1>2 DEF PlayerStay, GoesOn, IInv, TypeOK
<1> QED
  BY <1>3, PlayerStays

\* The HLS player begins on its own shard.
LEMMA BeginHlsOK ==
    ASSUME IInv, NEW p \in Publishers, BeginHls(p) PROVE IInv'
<1> DEFINE h == HlsOf[p]
<1>1. h \in Players /\ play[h].phase = "ready"
  BY Names DEF BeginHls
<1>2. pub[p].subs \union {h} \in SUBSET Players
  <2>1. pub[p] \in Publisher
    BY DEF IInv, TypeOK
  <2> QED  BY <1>1, <2>1 DEF Publisher
<1>3. pub' = [pub EXCEPT ![p].subs = pub[p].subs \union {h}]
  BY DEF BeginHls
<1>4. PublishersKept
  BY <1>2, <1>3, SubsKept
<1>5. Begun(h) \in Player /\ Begun(h).phase = "running" /\ Begun(h).of = play[h].of
  BY <1>1, BegunType
<1>6. GoesOn(h, Begun(h))
  BY <1>1, <1>4, <1>5 DEF GoesOn, BeginHls
<1> QED
  BY <1>1, <1>5, <1>6, PlayerGoesOn

\* The write loop and its ends change the flags and the phase only.
LEMMA WriteOK ==
    ASSUME IInv, NEW l \in Players,
           Overflow(l) \/ StopCanceled(l) \/ WriteFails(l) \/ PlayTimeout(l)
    PROVE  IInv'
<1>1. play[l] \in Player /\ play[l].phase = "running" /\ play[l].flags \in SUBSET Flags
  <2>1. play[l] \in Player
    BY PlayerFacts
  <2> QED
    BY <2>1 DEF Player, Overflow, StopCanceled, WriteFails, PlayTimeout, Writing
<1>2. PublishersKept
  BY Unchanged DEF Overflow, StopCanceled, WriteFails, PlayTimeout, StopWriting
<1>3. CASE Overflow(l)
  <2> DEFINE r == [play[l] EXCEPT !.flags = {"canceled"}]
  <2>1. r \in Player /\ r.phase = "running" /\ r.of = play[l].of
    BY <1>1 DEF Player, Flags
  <2>2. play' = [play EXCEPT ![l] = r]
    BY <1>3 DEF Overflow
  <2> HIDE DEF r
  <2>3. GoesOn(l, r)
    BY <1>1, <1>2, <1>3, <2>1, <2>2 DEF GoesOn, Overflow
  <2> QED
    BY <2>1, <2>3, PlayerGoesOn
<1>4. CASE StopCanceled(l) \/ WriteFails(l) \/ PlayTimeout(l)
  <2>1. PICK fl : fl \in SUBSET Flags /\ StopWriting(l, fl)
    BY <1>1, <1>4 DEF StopCanceled, WriteFails, PlayTimeout, Flags
  <2> DEFINE r == [play[l] EXCEPT !.phase = "closing", !.flags = fl]
  <2>2. r \in Player /\ r.phase = "closing" /\ r.of = play[l].of
    BY <1>1, <2>1 DEF Player
  <2>3. play' = [play EXCEPT ![l] = r]
    BY <2>1 DEF StopWriting
  <2> HIDE DEF r
  <2>4. GoesOn(l, r)
    BY <1>1, <1>2, <2>1, <2>2, <2>3 DEF GoesOn, StopWriting
  <2> QED
    BY <2>2, <2>4, PlayerGoesOn
<1> QED
  BY <1>3, <1>4

\* The cancel of a player changes its flags and the task's list.
LEMMA CancelPlayerOK ==
    ASSUME IInv, NEW p \in Publishers, NEW l \in Players, CancelPlayer(p, l) PROVE IInv'
<1>1. /\ play[l] \in Player /\ (play[l].of = None <=> play[l].phase \in {"idle", "gone"})
      /\ play[l].of # None => pub[play[l].of].phase \in Served
      /\ \A q \in Publishers : HlsOf[q] = l =>
            /\ play[l].phase # "idle" => pub[q].phase \in Served /\ ~pub[q].scheduled
            /\ l \in listed => play[l].of = q
  BY PlayerFacts
<1> DEFINE fl == IF play[l].phase = "gone" THEN {} ELSE Completed(play[l], "canceled")
           r  == [play[l] EXCEPT !.flags = fl]
<1>2. fl \in SUBSET Flags
  BY <1>1 DEF Completed, Flags, Player
<1>3. play' = [play EXCEPT ![l] = r]
  BY DEF CancelPlayer
<1> HIDE DEF fl
<1>4. r \in Player /\ r.phase = play[l].phase /\ r.of = play[l].of /\ r.shard = play[l].shard
  BY <1>1, <1>2 DEF Player
<1>5. PublishersKept
  <2> DEFINE u == [pub[p] EXCEPT !.targets = @ \ {l}]
  <2>1. pub[p] \in Publisher
    BY DEF IInv, TypeOK
  <2>2. /\ u \in Publisher /\ u.phase = pub[p].phase /\ u.shard = pub[p].shard
        /\ u.lifecycle = pub[p].lifecycle /\ u.scheduled = pub[p].scheduled
        /\ u.targets \subseteq pub[p].targets
    BY <2>1 DEF Publisher
  <2>3. pub' = [pub EXCEPT ![p] = u]
    BY DEF CancelPlayer
  <2> HIDE DEF u
  <2> QED
    BY <2>2, <2>3, Kept
<1>6. play[l].phase # "idle"
  BY DEF IInv, IdleUnknown, CancelPlayer
<1>7. \A q \in Publishers : HlsOf[q] = l => pub'[q].phase \in Served /\ ~pub'[q].scheduled
  BY <1>1, <1>5, <1>6 DEF PublishersKept
<1> HIDE DEF r
<1>8. PlayerStay(l, r)
  BY <1>1, <1>3, <1>4, <1>5, <1>6, <1>7 DEF PlayerStay, CancelPlayer, IInv, TypeOK
<1> QED
  BY <1>4, <1>8, PlayerStays

\* A viewer is forgotten when nobody refers to it.
LEMMA ForgetPlayerOK ==
    ASSUME IInv, NEW l \in Users, ForgetPlayer(l) PROVE IInv'
<1>1. l \in Players /\ \A q \in Publishers : HlsOf[q] # l
  BY Names
<1> DEFINE r == NewPlayer
<1>2. r \in Player /\ r.phase = "idle" /\ r.of = None
  BY DEF NewPlayer, Player
<1>3. play' = [play EXCEPT ![l] = r] /\ play[l].phase = "gone"
  BY DEF ForgetPlayer
<1>4. PublishersKept
  BY Unchanged DEF ForgetPlayer
<1>5. l \notin listed /\ \A p \in Publishers : l \notin pub[p].targets
  BY DEF ForgetPlayer
<1> HIDE DEF r
<1>6. PlayerStay(l, r)
  BY <1>1, <1>2, <1>3, <1>4, <1>5 DEF PlayerStay, ForgetPlayer, IInv, TypeOK
<1> QED
  BY <1>1, <1>2, <1>6, PlayerStays

\* A publisher that is forgotten takes its HLS player with it.
LEMMA ForgetPublisherOK ==
    ASSUME IInv, NEW p \in Publishers, ForgetPublisher(p) PROVE IInv'
<1> DEFINE h == HlsOf[p]
<1>1. h \in Players /\ h \notin Users /\ \A q \in Publishers : HlsOf[q] = h => q = p
  BY Names
<1>2. NewPublisher \in Publisher /\ NewPlayer \in Player
  BY DEF NewPublisher, Publisher, NewPlayer, Player, Flags
<1>3. /\ pub' \in [Publishers -> Publisher] /\ pub'[p] = NewPublisher
      /\ \A q \in Publishers : q # p => pub'[q] = pub[q]
  BY <1>2 DEF ForgetPublisher, IInv, TypeOK
<1>4. /\ play' \in [Players -> Player] /\ play'[h] = NewPlayer
      /\ \A l \in Players : l # h => play'[l] = play[l]
  BY <1>1, <1>2 DEF ForgetPublisher, IInv, TypeOK
<1>5. /\ pub[p].phase = "dead" /\ (\A l \in Players : play[l].of # p)
      /\ (\A q \in Publishers : h \notin pub[q].targets)
      /\ UNCHANGED <<registered, listed, autoStop, busy, fault>>
  BY DEF ForgetPublisher
<1>6. p \notin registered /\ h \notin listed
  BY <1>1, <1>5 DEF IInv, Registration, HlsListed
<1>7. TypeOK'
  <2>1. \A l \in Players : play'[l].of = None <=> play'[l].phase \in {"idle", "gone"}
    BY <1>4 DEF IInv, TypeOK, NewPlayer
  <2>2. \A s \in Shards, x \in Publishers \union Users :
           busy'[s] = x <=> HalfWay(x)' /\ ShardOf(x)' = s
    <3> SUFFICES ASSUME NEW s \in Shards, NEW x \in Publishers \union Users
                 PROVE  busy'[s] = x <=> HalfWay(x)' /\ ShardOf(x)' = s
      OBVIOUS
    <3>1. busy[s] = x <=> HalfWay(x) /\ ShardOf(x) = s
      BY DEF IInv, TypeOK
    <3>2. CASE x = p
      BY <1>3, <1>5, <3>1, <3>2, Names DEF HalfWay, NewPublisher
    <3>3. CASE x # p
      <4>1. HalfWay(x)' <=> HalfWay(x)
        BY <1>1, <1>3, <1>4, <3>3, Names DEF HalfWay
      <4>2. ShardOf(x)' = ShardOf(x)
        BY <1>1, <1>3, <1>4, <3>3, Names DEF ShardOf
      <4> QED  BY <1>5, <3>1, <4>1, <4>2
    <3> QED  BY <3>2, <3>3
  <2> QED
    BY <1>3, <1>4, <1>5, <2>1, <2>2 DEF IInv, TypeOK
<1>8. Registration' /\ Placed'
  BY <1>3, <1>5, <1>6 DEF IInv, Registration, Placed, NewPublisher
<1>9. Serving'
  <2>1. \A l \in Players : play[l].of \in Publishers \union {None}
    BY DEF IInv, TypeOK, Player
  <2> QED
    BY <1>3, <1>4, <1>5, <2>1 DEF IInv, Serving, NewPlayer, NewPublisher
<1>10. HlsIdle' /\ HlsListed'
  BY <1>1, <1>3, <1>4, <1>5, <1>6, Names DEF IInv, HlsIdle, HlsListed, NewPlayer
<1>11. IdleUnknown'
  BY <1>3, <1>4, <1>5, <1>6 DEF IInv, IdleUnknown, NewPublisher
<1> QED
  BY <1>7, <1>8, <1>9, <1>10, <1>11 DEF IInv

-----------------------------------------------------------------------------
\* Nothing changes.
LEMMA StutterIInv == IInv /\ UNCHANGED vars => IInv'
BY DEF IInv, TypeOK, Registration, Serving, HlsIdle, IdleUnknown, HlsListed, Placed,
       HalfWay, ShardOf, vars

\* Every step keeps the inductive invariant.
LEMMA NextIInv == IInv /\ [Next]_vars => IInv'
<1> SUFFICES ASSUME IInv, [Next]_vars PROVE IInv'
  OBVIOUS
<1>1. ASSUME NEW p \in Publishers, PublisherStep(p) PROVE IInv'
  <2>1. CASE Publish(p)
    BY <2>1, PublishOK
  <2>2. CASE AddPublisher(p) \/ Register(p)
    BY <2>2, AddPublisherOK, RegisterOK
  <2>3. CASE BeginPublish(p) \/ Metadata(p) \/ BadPacket(p) \/ PacketAfterCancel(p)
               \/ Eof(p) \/ PublishTimeout(p)
    BY <2>3, ReadOK
  <2>4. CASE RemovePublisher(p) \/ StopPlayers(p)
    BY <2>4, RemovePublisherOK, StopPlayersOK
  <2>5. CASE AddHlsPlayer(p) \/ BeginHls(p)
    BY <2>5, AddHlsPlayerOK, BeginHlsOK
  <2>6. CASE ForgetPublisher(p)
    BY <2>6, ForgetPublisherOK
  <2>7. CASE \E l \in Players : CancelPlayer(p, l)
    BY <2>7, CancelPlayerOK
  <2> QED
    BY <1>1, <2>1, <2>2, <2>3, <2>4, <2>5, <2>6, <2>7 DEF PublisherStep
<1>2. ASSUME NEW l \in Users, UserStep(l) PROVE IInv'
  BY <1>2, FindPublisherOK, AddPlayerOK, StartWithDoneOK, StartWithOK, BeginPlayOK,
     CancelPublisherOK, ForgetPlayerOK DEF UserStep
<1>3. ASSUME NEW l \in Players, PlayerStep(l) PROVE IInv'
  BY <1>3, WriteOK, TerminatePlayOK DEF PlayerStep
<1>4. CASE Crashed \/ UNCHANGED vars
  BY <1>4, StutterIInv DEF Crashed
<1> QED
  BY <1>1, <1>2, <1>3, <1>4 DEF Next

\* The inductive invariant holds in every reachable state of transmition.
THEOREM Invariance == Spec => []IInv
BY InitIInv, NextIInv, PTL DEF Spec

\* TypeOK for every number of sessions and shards: above all a shard is kept by
\* exactly the session whose handler is half way on it, and a player has a publisher
\* exactly as long as it lives.
THEOREM TypeCorrect == Spec => []TypeOK
<1>1. IInv => TypeOK
  BY DEF IInv
<1> QED
  BY <1>1, Invariance, PTL

\* RegisteredIffAlive for every number of sessions and shards: add_publisher,
\* on_terminate and remove_publisher never leave a dead session on the list nor drop
\* a live one.
THEOREM RegisteredWhileAlive == Spec => []RegisteredIffAlive
<1>1. IInv => RegisteredIffAlive
  BY DEF IInv, Registration, RegisteredIffAlive
<1> QED
  BY <1>1, Invariance, PTL

-----------------------------------------------------------------------------
(* What holds when all publishers live on one shard: the second lookup of  *)
(* add_publisher and the registration are then one step for each other.    *)

\* While a publisher is being added or has just been removed there is no other.
Quiet ==
    \A p \in Publishers : pub[p].phase \in {"adding", "removed"} => registered = {}

SInv == UniquePublisher /\ Quiet /\ NoCrossCancel

\* A step that registers nobody: what it cancels and who it makes wait for the
\* registry it finds with no publisher.
Calm ==
    /\ registered' \subseteq registered
    /\ \A p \in Publishers : pub'[p].phase \in {"adding", "removed"} =>
          pub[p].phase \in {"adding", "removed"} \/ registered' = {}
    /\ \A p \in Publishers, l \in Players : l \in pub'[p].targets =>
          l \in pub[p].targets \/ registered' = {}
    /\ \A p \in Publishers, l \in Players : l \in pub[p].targets =>
          play'[l].of \in {play[l].of, None}

\* A calm step cannot make two publishers nor aim a cancel at a new one's players.
LEMMA CalmSInv == IInv /\ SInv /\ Calm => SInv'
<1> SUFFICES ASSUME IInv, SInv, Calm PROVE SInv'
  OBVIOUS
<1>1. UniquePublisher' /\ Quiet'
  BY DEF SInv, Calm, UniquePublisher, Quiet
<1>2. None \notin registered
  BY Names DEF IInv, TypeOK
<1>3. NoCrossCancel'
  BY <1>2 DEF SInv, Calm, NoCrossCancel
<1> QED
  BY <1>1, <1>3 DEF SInv

\* The publisher that registers holds the only shard of the publishers, and no
\* player points at it yet.
LEMMA RegisterSInv ==
    ASSUME \A s, t \in PubShards : s = t, IInv, SInv,
           NEW p \in Publishers, Register(p)
    PROVE  SInv'
<1>1. pub[p].phase = "adding" /\ registered = {} /\ registered' = {p}
  BY DEF SInv, Quiet, Register
<1>2. \A q \in Publishers : q # p => pub[q].phase \notin {"adding", "removed"}
  <2> SUFFICES ASSUME NEW q \in Publishers, q # p, pub[q].phase \in {"adding", "removed"}
               PROVE  FALSE
    OBVIOUS
  <2>1. pub[p].shard \in PubShards /\ pub[q].shard = pub[p].shard
    BY <1>1 DEF IInv, Placed
  <2>2. busy[pub[p].shard] = p /\ busy[pub[p].shard] = q
    BY <1>1, <2>1, ShardsAssumption DEF IInv, TypeOK, HalfWay, ShardOf
  <2> QED
    BY <2>2
<1>3. \A l \in Players : play[l].of # p
  BY <1>1, Names DEF IInv, Serving, Served
<1>4. /\ pub'[p].phase = "ready" /\ play' = play
      /\ \A q \in Publishers : pub'[q].targets = pub[q].targets
      /\ \A q \in Publishers : q # p => pub'[q] = pub[q]
  <2>1. \A q \in Publishers : pub[q] \in Publisher
    BY DEF IInv, TypeOK
  <2> QED
    BY <2>1 DEF Register, IInv, TypeOK, Publisher
<1>5. UniquePublisher' /\ Quiet'
  BY <1>1, <1>2, <1>4 DEF UniquePublisher, Quiet
<1>6. NoCrossCancel'
  BY <1>1, <1>3, <1>4 DEF NoCrossCancel
<1> QED
  BY <1>5, <1>6 DEF SInv

\* A publisher's step is calm unless it registers.
LEMMA PublisherCalm ==
    ASSUME IInv, SInv, NEW p \in Publishers,
           \/ Publish(p) \/ AddPublisher(p) \/ BeginPublish(p)
           \/ Metadata(p) \/ BadPacket(p) \/ PacketAfterCancel(p) \/ Eof(p)
           \/ PublishTimeout(p) \/ RemovePublisher(p) \/ StopPlayers(p)
    PROVE  Calm
<1>1. pub \in [Publishers -> Publisher] /\ pub[p] \in Publisher
  BY DEF IInv, TypeOK
<1>2. play' = play /\ \A q \in Publishers : q # p => pub'[q] = pub[q]
  BY <1>1 DEF Publish, AddPublisher, BeginPublish, Metadata, BadPacket, PacketAfterCancel,
              Eof, PublishTimeout, RemovePublisher, StopPlayers, StopReading
<1>3. CASE Publish(p) \/ BeginPublish(p) \/ Metadata(p) \/ BadPacket(p)
             \/ PacketAfterCancel(p) \/ Eof(p) \/ PublishTimeout(p)
  <2>1. registered' = registered
    BY <1>3 DEF Publish, BeginPublish, Metadata, BadPacket, PacketAfterCancel,
                Eof, PublishTimeout, StopReading
  <2>2. pub'[p].targets = pub[p].targets
    BY <1>1, <1>3 DEF Publish, BeginPublish, Metadata, BadPacket, PacketAfterCancel,
                      Eof, PublishTimeout, StopReading, Publisher
  <2>3. pub'[p].phase \in {pub[p].phase, "made", "running", "closing"}
    BY <1>1, <1>3 DEF Publish, BeginPublish, Metadata, BadPacket, PacketAfterCancel,
                      Eof, PublishTimeout, StopReading, Publisher
  <2> QED
    BY <1>2, <2>1, <2>2, <2>3 DEF Calm
<1>4. CASE AddPublisher(p)
  <2>1. registered' = registered /\ pub'[p].targets = pub[p].targets
    BY <1>1, <1>4 DEF AddPublisher, Publisher
  <2>2. registered = {} \/ pub'[p].phase = "ready"
    BY <1>1, <1>4 DEF AddPublisher, Publisher
  <2> QED
    BY <1>2, <2>1, <2>2 DEF Calm
<1>5. CASE RemovePublisher(p)
  <2>1. pub'[p].targets = pub[p].targets /\ registered' \subseteq registered
    BY <1>1, <1>5 DEF RemovePublisher, Publisher
  <2>2. registered' = {} \/ pub'[p].phase = "dead"
    BY <1>1, <1>5 DEF RemovePublisher, Publisher, SInv, UniquePublisher, IInv, Registration
  <2> QED
    BY <1>2, <2>1, <2>2 DEF Calm
<1>6. CASE StopPlayers(p)
  <2>1. registered' = {} /\ registered = {}
    BY <1>6 DEF StopPlayers, SInv, Quiet
  <2> QED
    BY <1>2, <2>1 DEF Calm
<1> QED
  BY <1>3, <1>4, <1>5, <1>6

\* A step of a player l: the others keep their publisher, and l too unless it ends
\* or nobody knows it yet.
LEMMA PlayerCalm ==
    ASSUME IInv, SInv, NEW l \in Players,
           registered' = registered,
           \A q \in Publishers : pub'[q].phase = pub[q].phase
                                   /\ pub'[q].targets \subseteq pub[q].targets,
           \A k \in Players : k # l => play'[k].of = play[k].of,
           play'[l].of \in {play[l].of, None} \/ play[l].phase = "idle"
    PROVE  Calm
<1>1. play[l].phase = "idle" => \A q \in Publishers : l \notin pub[q].targets
  BY DEF IInv, IdleUnknown
<1> QED
  BY <1>1 DEF Calm

\* So is every step of a viewer.
LEMMA UserCalm ==
    ASSUME IInv, SInv, NEW l \in Users, UserStep(l) PROVE Calm
<1>1. l \in Players
  BY Names
<1>2. /\ pub \in [Publishers -> Publisher] /\ play \in [Players -> Player]
      /\ play[l] \in Player
  BY <1>1 DEF IInv, TypeOK
<1>3. \A q \in Publishers : pub[q] \in Publisher
  BY <1>2
<1>4. registered' = registered
  BY DEF UserStep, FindPublisher, AddPlayer, StartWithDone, StartWith, BeginPlay,
         CancelPublisher, ForgetPlayer, EndPlay
<1>5. \A k \in Players : k # l => play'[k].of = play[k].of
  BY <1>1, <1>2 DEF UserStep, FindPublisher, AddPlayer, StartWithDone, StartWith, BeginPlay,
                    CancelPublisher, ForgetPlayer, EndPlay
<1>6. play'[l].of \in {play[l].of, None} \/ play[l].phase = "idle"
  <2>1. CASE FindPublisher(l) \/ CancelPublisher(l)
    BY <2>1 DEF FindPublisher, CancelPublisher
  <2>2. CASE AddPlayer(l) \/ StartWith(l) \/ ForgetPlayer(l)
    BY <1>1, <1>2, <2>2 DEF AddPlayer, StartWith, ForgetPlayer, NewPlayer, Player
  <2>3. CASE StartWithDone(l)
    BY <1>1, <1>2, <2>3 DEF StartWithDone, EndPlay, Gone, NewPlayer
  <2>4. CASE BeginPlay(l)
    <3>1. play' = [play EXCEPT ![l] = Begun(l)] \/ play' = play
      BY <2>4 DEF BeginPlay
    <3> QED  BY <1>1, <1>2, <3>1, BegunType
  <2> QED
    BY <2>1, <2>2, <2>3, <2>4 DEF UserStep
<1>7. \A q \in Publishers : pub'[q].phase = pub[q].phase /\ pub'[q].targets = pub[q].targets
  <2>1. CASE pub' = pub
    BY <2>1
  <2>2. CASE EndPlay(l) \/ BeginPlay(l) \/ CancelPublisher(l)
    BY <1>2, <1>3, <2>2 DEF EndPlay, BeginPlay, CancelPublisher, Publisher
  <2> QED
    BY <2>1, <2>2 DEF UserStep, FindPublisher, AddPlayer, StartWithDone, StartWith, ForgetPlayer
<1> QED
  BY <1>1, <1>4, <1>5, <1>6, <1>7, PlayerCalm

\* So are the write loop and the end of any player.
LEMMA PlayCalm ==
    ASSUME IInv, SInv, NEW l \in Players, PlayerStep(l) PROVE Calm
<1>1. CASE TerminatePlay(l) /\ l \in Users
  <2>1. /\ registered' = registered /\ play' = [play EXCEPT ![l] = Gone(l)]
        /\ pub' = [pub EXCEPT ![play[l].of].subs = @ \ {l}]
    BY <1>1 DEF TerminatePlay, EndPlay
  <2>2. \A q \in Publishers : pub'[q].phase = pub[q].phase /\ pub'[q].targets = pub[q].targets
    <3>1. pub \in [Publishers -> Publisher] /\ \A q \in Publishers : pub[q] \in Publisher
      BY DEF IInv, TypeOK
    <3> QED  BY <2>1, <3>1 DEF Publisher
  <2>3. play'[l].of = None /\ \A k \in Players : k # l => play'[k].of = play[k].of
    BY <2>1 DEF IInv, TypeOK, Gone, NewPlayer
  <2> QED
    BY <2>1, <2>2, <2>3, PlayerCalm
<1>2. CASE ~(TerminatePlay(l) /\ l \in Users)
  <2>1. registered' = registered /\ pub' = pub
    BY <1>2 DEF PlayerStep, Overflow, StopCanceled, WriteFails, PlayTimeout, TerminatePlay,
                EndHls, StopWriting
  <2>2. play \in [Players -> Player] /\ play[l] \in Player
    BY DEF IInv, TypeOK
  <2>3. /\ play'[l].of \in {play[l].of, None}
        /\ \A k \in Players : k # l => play'[k].of = play[k].of
    <3>1. CASE Overflow(l)
      BY <2>2, <3>1 DEF Overflow, Player
    <3>2. CASE StopCanceled(l) \/ WriteFails(l) \/ PlayTimeout(l)
      BY <2>2, <3>2 DEF StopCanceled, WriteFails, PlayTimeout, StopWriting, Player
    <3>3. CASE TerminatePlay(l)
      BY <1>2, <2>2, <3>3 DEF TerminatePlay, EndHls, Gone, NewPlayer
    <3> QED
      BY <3>1, <3>2, <3>3 DEF PlayerStep
  <2> QED
    BY <2>1, <2>3, PlayerCalm
<1> QED
  BY <1>1, <1>2

\* So are the HLS player's beginning and the cancel of a player.
LEMMA HlsCalm ==
    ASSUME IInv, SInv, NEW p \in Publishers,
           AddHlsPlayer(p) \/ BeginHls(p) \/ \E l \in Players : CancelPlayer(p, l)
    PROVE  Calm
<1>1. /\ pub \in [Publishers -> Publisher] /\ play \in [Players -> Player]
      /\ \A q \in Publishers : pub[q] \in Publisher
      /\ HlsOf[p] \in Players
  BY Names DEF IInv, TypeOK
<1>2. CASE AddHlsPlayer(p)
  <2>1. play[HlsOf[p]].phase = "idle" /\ registered' = registered
    BY <1>2 DEF AddHlsPlayer, IInv, HlsIdle
  <2>2. \A k \in Players : k # HlsOf[p] => play'[k].of = play[k].of
    BY <1>1, <1>2 DEF AddHlsPlayer
  <2>3. \A q \in Publishers : pub'[q].phase = pub[q].phase /\ pub'[q].targets = pub[q].targets
    BY <1>1, <1>2 DEF AddHlsPlayer, Publisher
  <2> QED
    BY <1>1, <2>1, <2>2, <2>3, PlayerCalm
<1>3. CASE BeginHls(p)
  <2>1. play'[HlsOf[p]].of = play[HlsOf[p]].of /\ registered' = registered
    BY <1>1, <1>3 DEF BeginHls, Begun, Player
  <2>2. \A k \in Players : k # HlsOf[p] => play'[k].of = play[k].of
    BY <1>1, <1>3 DEF BeginHls
  <2>3. \A q \in Publishers : pub'[q].phase = pub[q].phase /\ pub'[q].targets = pub[q].targets
    BY <1>1, <1>3 DEF BeginHls, Publisher
  <2> QED
    BY <1>1, <2>1, <2>2, <2>3, PlayerCalm
<1>4. ASSUME NEW l \in Players, CancelPlayer(p, l) PROVE Calm
  <2>1. play'[l].of = play[l].of /\ registered' = registered
    BY <1>1, <1>4 DEF CancelPlayer, Player
  <2>2. \A k \in Players : k # l => play'[k].of = play[k].of
    BY <1>1, <1>4 DEF CancelPlayer
  <2>3. \A q \in Publishers :
           pub'[q].phase = pub[q].phase /\ pub'[q].targets \subseteq pub[q].targets
    BY <1>1, <1>4 DEF CancelPlayer, Publisher
  <2> QED
    BY <2>1, <2>2, <2>3, PlayerCalm
<1> QED
  BY <1>2, <1>3, <1>4

\* So is forgetting a publisher.
LEMMA ForgetPublisherCalm ==
    ASSUME IInv, SInv, NEW p \in Publishers, ForgetPublisher(p) PROVE Calm
<1>1. /\ pub \in [Publishers -> Publisher] /\ play \in [Players -> Player]
  BY DEF IInv, TypeOK
<1>2. registered' = registered /\ \A q \in Publishers : HlsOf[p] \notin pub[q].targets
  BY DEF ForgetPublisher
<1>3. \A k \in Players : k # HlsOf[p] => play'[k].of = play[k].of
  BY <1>1 DEF ForgetPublisher
<1>4. pub'[p] = NewPublisher /\ \A q \in Publishers : q # p => pub'[q] = pub[q]
  BY <1>1 DEF ForgetPublisher
<1> QED
  BY <1>2, <1>3, <1>4 DEF Calm, NewPublisher

\* With one shard for publishers every step keeps SInv.
LEMMA NextSInv ==
    ASSUME \A s, t \in PubShards : s = t, IInv, SInv, [Next]_vars
    PROVE  SInv'
<1>1. ASSUME NEW p \in Publishers, PublisherStep(p) PROVE SInv'
  <2>1. CASE Register(p)
    BY <2>1, RegisterSInv
  <2>2. CASE ForgetPublisher(p)
    BY <2>2, ForgetPublisherCalm, CalmSInv
  <2>3. CASE AddHlsPlayer(p) \/ BeginHls(p) \/ \E l \in Players : CancelPlayer(p, l)
    BY <2>3, HlsCalm, CalmSInv
  <2>4. CASE \/ Publish(p) \/ AddPublisher(p) \/ BeginPublish(p)
             \/ Metadata(p) \/ BadPacket(p) \/ PacketAfterCancel(p) \/ Eof(p)
             \/ PublishTimeout(p) \/ RemovePublisher(p) \/ StopPlayers(p)
    BY <2>4, PublisherCalm, CalmSInv
  <2> QED
    BY <1>1, <2>1, <2>2, <2>3, <2>4 DEF PublisherStep
<1>2. ASSUME NEW l \in Users, UserStep(l) PROVE SInv'
  BY <1>2, UserCalm, CalmSInv
<1>3. ASSUME NEW l \in Players, PlayerStep(l) PROVE SInv'
  BY <1>3, PlayCalm, CalmSInv
<1>4. CASE Crashed \/ UNCHANGED vars
  BY <1>4 DEF Crashed, vars, SInv, UniquePublisher, Quiet, NoCrossCancel
<1> QED
  BY <1>1, <1>2, <1>3, <1>4 DEF Next

\* With all publishers on one shard, whatever shards the viewers are on.
THEOREM OneShard ==
    ASSUME \A s, t \in PubShards : s = t
    PROVE  Spec => []SInv
<1>1. Init => SInv
  BY DEF Init, SInv, UniquePublisher, Quiet, NoCrossCancel, NewPublisher
<1>2. IInv /\ SInv /\ [Next]_vars => SInv'
  BY NextSInv
<1> QED
  BY <1>1, <1>2, Invariance, PTL DEF Spec

\* UniquePublisher: the second lookup of add_publisher is enough when all publishers
\* live on one shard (on two it is not).
THEOREM OnePublisher ==
    ASSUME \A s, t \in PubShards : s = t
    PROVE  Spec => []UniquePublisher
<1>1. SInv => UniquePublisher
  BY DEF SInv
<1> QED
  BY <1>1, OneShard, PTL

\* NoCrossCancel: the task spawned by a publisher's end never cancels a player of the
\* next publisher of the stream, however late it runs.
THEOREM CancelsItsOwn ==
    ASSUME \A s, t \in PubShards : s = t
    PROVE  Spec => []NoCrossCancel
<1>1. SInv => NoCrossCancel
  BY DEF SInv
<1> QED
  BY <1>1, OneShard, PTL
-----------------------------------------------------------------------------
(***************************************************************************)
(* The shutdown: the end of a publisher reaches its players and the        *)
(* subscriptions of viewers follow their play, with or without HLS.  The   *)
(* invariant speaks of one player at a time: a step of a publisher owes it *)
(* what PublisherAttends asks, a step of a player owes it for that player. *)
(***************************************************************************)

\* The publisher of a player has its life cycle with the transmition or has ended; a
\* player that may run is on the list that its publisher's end goes through; and when
\* that end has come, the player is complete, due to be cancelled, or began too late.
Attended(l) ==
    /\ play[l].of # None =>
          pub[play[l].of].lifecycle \/ pub[play[l].of].phase = "dead"
    /\ play[l].phase \in {"ready", "beginning", "running"} => l \in listed
    /\ play[l].phase = "running" /\ ~Complete(play[l]) /\ ~play[l].late
          /\ pub[play[l].of].phase = "dead" => l \in pub[play[l].of].targets

Subscribed(l) ==
    l \in Users => \A p \in Publishers :
        /\ play[l].phase \in {"running", "closing"} /\ play[l].of = p /\ p \in registered
              => l \in pub[p].subs
        /\ l \in pub[p].subs
              => play[l].phase \in {"running", "closing"} /\ play[l].of = p

\* An HLS player is scheduled by the registration only.
Scheduled ==
    \A p \in Publishers : pub[p].scheduled => pub[p].lifecycle \/ pub[p].phase = "dead"

EInv == Scheduled /\ \A l \in Players : Attended(l) /\ Subscribed(l)

-----------------------------------------------------------------------------
(* Steps of a publisher.                                                   *)

PublisherFrame(p) ==
    /\ play' = play /\ listed' = listed
    /\ \A q \in Publishers : q # p => pub'[q] = pub[q]
    /\ registered' \ {p} = registered \ {p}

Unserved(p) == \A l \in Players : play[l].of # p

PublisherOwes(p) ==
    /\ pub[p].lifecycle \/ pub[p].phase = "dead"
          => pub'[p].lifecycle \/ pub'[p].phase = "dead"
    /\ pub'[p].scheduled => pub[p].scheduled \/ pub'[p].lifecycle
    /\ pub'[p].phase = "dead" =>
          \/ listed \subseteq pub'[p].targets
          \/ pub[p].phase = "dead" /\ pub'[p].targets = pub[p].targets
          \/ Unserved(p)
    /\ pub'[p].subs \subseteq pub[p].subs
    /\ p \in registered' => pub[p].subs \subseteq pub'[p].subs
    /\ p \in registered' => p \in registered \/ Unserved(p)

\* PublisherOwes is what a step of a publisher owes all players.
LEMMA PublisherAttends ==
    ASSUME IInv, EInv, NEW p \in Publishers, PublisherFrame(p), PublisherOwes(p)
    PROVE  EInv'
<1> USE DEF PublisherOwes
<1>1. Scheduled'
  BY DEF EInv, Scheduled, PublisherFrame
<1>2. ASSUME NEW l \in Players PROVE Attended(l)'
  <2>1. play[l].of \in Publishers \union {None}
    BY DEF IInv, TypeOK, Player
  <2>2. play[l].phase = "running" => play[l].of # None
    BY PlayerFacts
  <2>3. Attended(l)
    BY DEF EInv
  <2>4. play' = play /\ listed' = listed
    BY DEF PublisherFrame
  <2>5. CASE play[l].of = p
    <3>1. play[l].phase = "running" /\ ~Complete(play[l]) /\ ~play[l].late
             /\ pub'[p].phase = "dead" => l \in pub'[p].targets
      BY <2>3, <2>5 DEF Attended, Unserved
    <3> QED
      BY <2>3, <2>4, <2>5, <3>1 DEF Attended, Complete
  <2>6. CASE play[l].of # p
    <3>1. play[l].of # None => pub'[play[l].of] = pub[play[l].of]
      BY <2>1, <2>6 DEF PublisherFrame
    <3> QED
      BY <2>2, <2>3, <2>4, <3>1 DEF Attended, Complete
  <2> QED
    BY <2>5, <2>6
<1>3. ASSUME NEW l \in Players PROVE Subscribed(l)'
  <2> SUFFICES ASSUME l \in Users, NEW q \in Publishers
               PROVE  /\ play[l].phase \in {"running", "closing"} /\ play[l].of = q
                            /\ q \in registered' => l \in pub'[q].subs
                      /\ l \in pub'[q].subs
                            => play[l].phase \in {"running", "closing"} /\ play[l].of = q
    BY DEF Subscribed, PublisherFrame
  <2>1. /\ play[l].phase \in {"running", "closing"} /\ play[l].of = q
              /\ q \in registered => l \in pub[q].subs
        /\ l \in pub[q].subs
              => play[l].phase \in {"running", "closing"} /\ play[l].of = q
    BY DEF EInv, Subscribed
  <2> QED
    BY <2>1 DEF PublisherFrame, Unserved
<1> QED
  BY <1>1, <1>2, <1>3 DEF EInv

\* A publisher that ends without a life cycle of the transmition never served a player.
LEMMA PublisherEInv ==
    ASSUME IInv, EInv, NEW p \in Publishers,
           \/ Publish(p) \/ AddPublisher(p) \/ Register(p) \/ BeginPublish(p)
           \/ Metadata(p) \/ BadPacket(p) \/ PacketAfterCancel(p) \/ Eof(p)
           \/ PublishTimeout(p) \/ RemovePublisher(p) \/ StopPlayers(p)
    PROVE  EInv'
<1>1. pub \in [Publishers -> Publisher] /\ pub[p] \in Publisher
  BY DEF IInv, TypeOK
<1>2. PublisherFrame(p)
  BY <1>1 DEF PublisherFrame, Publish, AddPublisher, Register, BeginPublish, Metadata,
              BadPacket, PacketAfterCancel, Eof, PublishTimeout, RemovePublisher,
              StopPlayers, StopReading
<1>3. CASE Publish(p) \/ AddPublisher(p) \/ BeginPublish(p) \/ Metadata(p) \/ BadPacket(p)
             \/ PacketAfterCancel(p) \/ Eof(p) \/ PublishTimeout(p)
  <2>1. /\ pub'[p].lifecycle = pub[p].lifecycle /\ pub'[p].scheduled = pub[p].scheduled
        /\ pub'[p].subs = pub[p].subs
    BY <1>1, <1>3 DEF Publish, AddPublisher, BeginPublish, Metadata, BadPacket,
                      PacketAfterCancel, Eof, PublishTimeout, StopReading, Publisher
  <2>2. pub[p].phase # "dead" /\ pub'[p].phase # "dead"
    BY <1>1, <1>3 DEF Publish, AddPublisher, BeginPublish, Metadata, BadPacket, Reading,
                      PacketAfterCancel, Eof, PublishTimeout, StopReading, Publisher
  <2>3. registered' = registered
    BY <1>3 DEF Publish, AddPublisher, BeginPublish, Metadata, BadPacket,
                PacketAfterCancel, Eof, PublishTimeout, StopReading
  <2>4. PublisherOwes(p)
    BY <2>1, <2>2, <2>3 DEF PublisherOwes
  <2> QED
    BY <1>2, <2>4, PublisherAttends
<1>4. CASE Register(p)
  <2>1. Unserved(p)
    BY <1>4, Names DEF Register, IInv, Serving, Served, Unserved
  <2>2. /\ pub'[p].lifecycle /\ pub'[p].phase = "ready" /\ pub'[p].subs = pub[p].subs
    BY <1>1, <1>4 DEF Register, Publisher
  <2>3. PublisherOwes(p)
    BY <2>1, <2>2 DEF PublisherOwes
  <2> QED
    BY <1>2, <2>3, PublisherAttends
<1>5. CASE RemovePublisher(p) /\ pub[p].lifecycle
  <2>1. /\ pub'[p].lifecycle /\ pub'[p].phase = "removed" /\ pub'[p].subs = pub[p].subs
        /\ p \notin registered'
    BY <1>1, <1>5 DEF RemovePublisher, Publisher
  <2>2. PublisherOwes(p)
    BY <2>1 DEF PublisherOwes
  <2> QED
    BY <1>2, <2>2, PublisherAttends
<1>6. CASE RemovePublisher(p) /\ ~pub[p].lifecycle
  <2>1. pub[p].phase = "closing" /\ p \notin registered
    BY <1>6 DEF RemovePublisher, IInv, Registration
  <2>2. Unserved(p)
    BY <1>6, <2>1, Names DEF EInv, Attended, Unserved
  <2>3. /\ pub'[p].phase = "dead" /\ pub'[p].subs = {} /\ pub'[p].scheduled = pub[p].scheduled
        /\ registered' = registered
    BY <1>1, <1>6 DEF RemovePublisher, Publisher
  <2>4. PublisherOwes(p)
    BY <2>1, <2>2, <2>3 DEF PublisherOwes
  <2> QED
    BY <1>2, <2>4, PublisherAttends
<1>7. CASE StopPlayers(p)
  <2>1. p \notin registered
    BY <1>7 DEF StopPlayers, IInv, Registration
  <2>2. /\ pub'[p].phase = "dead" /\ pub'[p].subs = {} /\ pub'[p].scheduled = pub[p].scheduled
        /\ pub'[p].targets = listed /\ registered' = registered
    BY <1>1, <1>7 DEF StopPlayers, Publisher
  <2>3. PublisherOwes(p)
    BY <2>1, <2>2 DEF PublisherOwes
  <2> QED
    BY <1>2, <2>3, PublisherAttends
<1> QED
  BY <1>3, <1>4, <1>5, <1>6, <1>7

\* The cancel by a viewer's end changes the flags only.
LEMMA CancelPublisherEInv ==
    ASSUME IInv, EInv, NEW l \in Users, CancelPublisher(l) PROVE EInv'
<1> DEFINE p == autoStop[l]
<1>1. p \in Publishers /\ pub \in [Publishers -> Publisher] /\ pub[p] \in Publisher
  BY DEF IInv, TypeOK, CancelPublisher
<1>2. pub' = [pub EXCEPT ![p].flags = Completed(pub[p], "canceled")]
  BY DEF CancelPublisher
<1>3. play' = play /\ listed' = listed /\ registered' = registered
  BY DEF CancelPublisher
<1> HIDE DEF p
<1>4. PublisherFrame(p)
  BY <1>1, <1>2, <1>3 DEF PublisherFrame
<1>5. /\ pub'[p].lifecycle = pub[p].lifecycle /\ pub'[p].scheduled = pub[p].scheduled
      /\ pub'[p].subs = pub[p].subs /\ pub'[p].phase = pub[p].phase
      /\ pub'[p].targets = pub[p].targets
  BY <1>1, <1>2 DEF Publisher
<1>6. PublisherOwes(p)
  BY <1>3, <1>5 DEF PublisherOwes
<1> QED
  BY <1>1, <1>4, <1>6, PublisherAttends

-----------------------------------------------------------------------------
(* Steps of a player.                                                      *)

PlayerFrame(l) ==
    /\ registered' = registered
    /\ \A k \in Players : k # l => play'[k] = play[k] /\ (k \in listed' <=> k \in listed)
    /\ \A q \in Publishers :
          /\ pub'[q].phase = pub[q].phase /\ pub'[q].lifecycle = pub[q].lifecycle
          /\ pub'[q].scheduled => pub[q].scheduled
          /\ \A k \in Players : k # l =>
                /\ k \in pub'[q].targets <=> k \in pub[q].targets
                /\ k \in pub'[q].subs <=> k \in pub[q].subs

\* A step of a player owes the invariant for that player only.
LEMMA PlayerAttends ==
    ASSUME IInv, EInv, NEW l \in Players, PlayerFrame(l), Attended(l)', Subscribed(l)'
    PROVE  EInv'
<1>1. Scheduled'
  BY DEF EInv, Scheduled, PlayerFrame
<1>2. ASSUME NEW k \in Players, k # l PROVE Attended(k)'
  <2>1. play'[k] = play[k] /\ (k \in listed' <=> k \in listed) /\ Attended(k)
    BY <1>2 DEF PlayerFrame, EInv
  <2>2. play[k].of \in Publishers \union {None}
    BY DEF IInv, TypeOK, Player
  <2>3. play[k].phase = "running" => play[k].of # None
    BY PlayerFacts
  <2>4. play[k].of # None =>
           /\ pub'[play[k].of].phase = pub[play[k].of].phase
           /\ pub'[play[k].of].lifecycle = pub[play[k].of].lifecycle
           /\ k \in pub'[play[k].of].targets <=> k \in pub[play[k].of].targets
    BY <1>2, <2>2 DEF PlayerFrame
  <2> QED
    BY <2>1, <2>3, <2>4 DEF Attended, Complete
<1>3. ASSUME NEW k \in Players, k # l PROVE Subscribed(k)'
  <2>1. play'[k] = play[k] /\ Subscribed(k) /\ registered' = registered
    BY <1>3 DEF PlayerFrame, EInv
  <2>2. \A q \in Publishers : k \in pub'[q].subs <=> k \in pub[q].subs
    BY <1>3 DEF PlayerFrame
  <2> QED
    BY <2>1, <2>2 DEF Subscribed
<1> QED
  BY <1>1, <1>2, <1>3 DEF EInv

\* What is known of a player before its step.
LEMMA Before ==
    ASSUME IInv, EInv, NEW l \in Players
    PROVE  /\ play[l] \in Player /\ Attended(l) /\ Subscribed(l)
           /\ play \in [Players -> Player] /\ pub \in [Publishers -> Publisher]
           /\ play[l].of = None <=> play[l].phase \in {"idle", "gone"}
           /\ play[l].of # None => play[l].of \in Publishers
           /\ \A q \in Publishers : pub[q] \in Publisher
           /\ \A q \in Publishers : pub[q].phase = "dead" => q \notin registered
BY PlayerFacts DEF EInv, IInv, TypeOK, Registration

\* A step that leaves the publishers alone.
LEMMA AloneFrame ==
    ASSUME IInv, NEW l \in Players, NEW r, pub' = pub, registered' = registered,
           play' = [play EXCEPT ![l] = r], listed' \in {listed, listed \ {l}, listed \union {l}}
    PROVE  PlayerFrame(l) /\ play'[l] = r
BY DEF PlayerFrame, IInv, TypeOK

\* A step that subscribes or unsubscribes the player.
SubsStep(l, r, p, S) ==
    /\ S \in {pub[p].subs \union {l}, pub[p].subs \ {l}}
    /\ pub' = [pub EXCEPT ![p].subs = S] /\ registered' = registered
    /\ play' = [play EXCEPT ![l] = r] /\ listed' \in {listed, listed \ {l}}

\* SubsStep says how such a step changes the player and its publisher.
LEMMA SubsFrame ==
    ASSUME IInv, NEW l \in Players, NEW r, NEW p \in Publishers, NEW S,
           SubsStep(l, r, p, S)
    PROVE  /\ PlayerFrame(l) /\ play'[l] = r
           /\ pub'[p].subs = S /\ \A q \in Publishers : q # p => pub'[q] = pub[q]
           /\ pub'[p].targets = pub[p].targets
<1> USE DEF SubsStep
<1>1. /\ pub \in [Publishers -> Publisher] /\ pub[p] \in Publisher /\ play \in [Players -> Player]
  BY DEF IInv, TypeOK
<1>2. /\ \A q \in Publishers : q # p => pub'[q] = pub[q]
      /\ pub'[p].subs = S /\ pub'[p].phase = pub[p].phase
      /\ pub'[p].lifecycle = pub[p].lifecycle /\ pub'[p].scheduled = pub[p].scheduled
      /\ pub'[p].targets = pub[p].targets
  BY <1>1 DEF Publisher
<1>3. \A k \in Players : k # l => (k \in S <=> k \in pub[p].subs)
  OBVIOUS
<1> QED
  BY <1>1, <1>2, <1>3 DEF PlayerFrame

\* A player that leaves is nobody's business any more.
LEMMA LeftEInv ==
    ASSUME IInv, EInv, NEW l \in Players, PlayerFrame(l), play'[l] = Gone(l),
           l \in Users => \A q \in Publishers : l \notin pub'[q].subs
    PROVE  EInv'
<1>1. play'[l].of = None /\ play'[l].phase = "gone"
  BY DEF Gone, NewPlayer
<1>2. Attended(l)' /\ Subscribed(l)'
  BY <1>1 DEF Attended, Subscribed
<1> QED
  BY <1>2, PlayerAttends

\* A viewer's end takes it off its publisher's subscribers, and it is on no other's.
LEMMA EndPlayEInv ==
    ASSUME IInv, EInv, NEW l \in Users, play[l].phase \in {"ready", "closing"}, EndPlay(l)
    PROVE  EInv'
<1>1. l \in Players
  BY Names
<1> DEFINE p == play[l].of
           S == pub[p].subs \ {l}
<1>2. p \in Publishers
  BY <1>1, Before
<1>3. /\ pub' = [pub EXCEPT ![p].subs = S] /\ registered' = registered
      /\ play' = [play EXCEPT ![l] = Gone(l)] /\ listed' = listed \ {l}
  BY DEF EndPlay
<1>4. \A q \in Publishers : q # p => l \notin pub[q].subs
  BY <1>1, Before DEF Subscribed
<1>5. S = pub[p].subs \ {l}
  OBVIOUS
<1> HIDE DEF p, S
<1>6. /\ PlayerFrame(l) /\ play'[l] = Gone(l) /\ pub'[p].subs = S
      /\ \A q \in Publishers : q # p => pub'[q] = pub[q]
  <2> DEFINE r == Gone(l)
  <2>1. SubsStep(l, r, p, S)
    BY <1>3, <1>5 DEF SubsStep
  <2> HIDE DEF r
  <2>2. /\ PlayerFrame(l) /\ play'[l] = r /\ pub'[p].subs = S
        /\ \A q \in Publishers : q # p => pub'[q] = pub[q]
    BY <1>1, <1>2, <2>1, SubsFrame
  <2> QED
    BY <2>2 DEF r
<1>7. \A q \in Publishers : l \notin pub'[q].subs
  BY <1>4, <1>5, <1>6
<1> QED
  BY <1>1, <1>6, <1>7, LeftEInv

\* A player that begins when its publisher has ended is late; a viewer subscribes.
Begins(l) ==
    /\ play[l].phase \in {"ready", "beginning"}
    /\ play' = [play EXCEPT ![l] = Begun(l)] /\ registered' = registered /\ listed' = listed
    /\ pub' = [pub EXCEPT ![play[l].of].subs = @ \union {l}]

\* Begins is what on_begin does when there is metadata.
LEMMA BegunEInv ==
    ASSUME IInv, EInv, NEW l \in Players, Begins(l)
    PROVE  EInv'
<1> DEFINE p == play[l].of
           S == pub[p].subs \union {l}
<1>1. /\ p \in Publishers /\ Attended(l) /\ Subscribed(l)
      /\ play[l].phase \in {"ready", "beginning"} /\ registered' = registered /\ listed' = listed
  BY Before DEF Begins
<1>2. pub' = [pub EXCEPT ![p].subs = S] /\ S = pub[p].subs \union {l}
  BY DEF Begins
<1>3. /\ Begun(l) \in Player /\ Begun(l).phase = "running"
      /\ Begun(l).of = p /\ Begun(l).late = (p \notin registered)
  <2>1. play[l] \in Player
    BY Before
  <2> QED
    BY <2>1 DEF Begun, Player, Flags
<1>4. pub[p].phase = "dead" => p \notin registered
  BY <1>1, Before
<1> HIDE DEF p, S
<1>5. /\ PlayerFrame(l) /\ play'[l] = Begun(l) /\ pub'[p].subs = S
      /\ \A q \in Publishers : q # p => pub'[q] = pub[q]
  <2> DEFINE r == Begun(l)
  <2>1. SubsStep(l, r, p, S)
    BY <1>1, <1>2 DEF SubsStep, Begins
  <2> HIDE DEF r
  <2>2. /\ PlayerFrame(l) /\ play'[l] = r /\ pub'[p].subs = S
        /\ \A q \in Publishers : q # p => pub'[q] = pub[q]
    BY <1>1, <2>1, SubsFrame
  <2> QED
    BY <2>2 DEF r
<1>6. p # None /\ play[l].of = p
  BY <1>1, Names DEF p
<1>7. pub'[p].phase = pub[p].phase /\ pub'[p].lifecycle = pub[p].lifecycle
  BY <1>1, <1>5 DEF PlayerFrame
<1>8. Attended(l)'
  BY <1>1, <1>3, <1>4, <1>5, <1>6, <1>7 DEF Attended
<1>9. Subscribed(l)'
  BY <1>1, <1>2, <1>3, <1>5, <1>6 DEF Subscribed
<1> QED
  BY <1>5, <1>8, <1>9, PlayerAttends

\* The steps of a viewer.
LEMMA UserEInv ==
    ASSUME IInv, EInv, NEW l \in Users, UserStep(l) PROVE EInv'
<1>1. l \in Players
  BY Names
<1>2. /\ play[l] \in Player /\ Attended(l) /\ Subscribed(l)
      /\ play[l].of = None <=> play[l].phase \in {"idle", "gone"}
  BY <1>1, Before
<1>3. CASE FindPublisher(l)
  <2>1. PICK p \in registered, s \in Shards :
           play' = [play EXCEPT ![l].phase = "made", ![l].of = p, ![l].shard = s]
    BY <1>3 DEF FindPublisher
  <2> DEFINE r == [play[l] EXCEPT !.phase = "made", !.of = p, !.shard = s]
  <2>2. play' = [play EXCEPT ![l] = r] /\ r.phase = "made" /\ r.of = p
    BY <1>2, <2>1 DEF Player
  <2> HIDE DEF r
  <2>3. PlayerFrame(l) /\ play'[l] = r
    BY <1>1, <1>3, <2>2, AloneFrame DEF FindPublisher
  <2>4. play'[l].phase = "made" /\ play'[l].of = p
    BY <2>3, <2>2
  <2>5. p \in Publishers /\ pub[p].lifecycle /\ play[l].phase = "idle" /\ pub' = pub
    BY <1>3 DEF IInv, TypeOK, Registration, FindPublisher
  <2>6. Attended(l)' /\ Subscribed(l)'
    BY <1>2, <2>4, <2>5 DEF Attended, Subscribed
  <2> QED
    BY <1>1, <2>3, <2>6, PlayerAttends
<1>4. CASE AddPlayer(l) \/ StartWith(l)
  <2>1. PICK ph \in {"ready", "beginning"} :
           play' = [play EXCEPT ![l] = [play[l] EXCEPT !.phase = ph]]
    BY <1>4 DEF AddPlayer, StartWith
  <2>2. PlayerFrame(l) /\ play'[l] = [play[l] EXCEPT !.phase = ph]
    BY <1>1, <1>4, <2>1, AloneFrame DEF AddPlayer, StartWith
  <2>3. play'[l].phase = ph /\ play'[l].of = play[l].of
    BY <1>2, <2>2 DEF Player
  <2>4. l \in listed' /\ pub' = pub /\ play[l].phase \in {"made", "ready"}
    BY <1>2, <1>4 DEF AddPlayer, StartWith, Starting, Attended
  <2>5. Attended(l)' /\ Subscribed(l)'
    BY <1>2, <2>3, <2>4 DEF Attended, Subscribed
  <2> QED
    BY <1>1, <2>2, <2>5, PlayerAttends
<1>5. CASE StartWithDone(l)
  <2>1. play[l].phase = "ready"
    BY <1>5 DEF StartWithDone, Starting
  <2>2. CASE Complete(play[l])
    BY <1>5, <2>1, <2>2, EndPlayEInv DEF StartWithDone
  <2>3. CASE ~Complete(play[l])
    <3>1. /\ play' = [play EXCEPT ![l] = Gone(l)] /\ listed' = listed /\ pub' = pub
          /\ registered' = registered
      BY <1>5, <2>3 DEF StartWithDone
    <3>2. PlayerFrame(l) /\ play'[l] = Gone(l)
      BY <1>1, <3>1, AloneFrame
    <3>3. \A q \in Publishers : l \notin pub'[q].subs
      BY <1>2, <2>1, <3>1 DEF Subscribed
    <3> QED
      BY <1>1, <3>2, <3>3, LeftEInv
  <2> QED
    BY <2>2, <2>3
<1>6. CASE BeginPlay(l)
  <2>1. CASE pub[play[l].of].meta
    <3>1. Begins(l)
      BY <1>6, <2>1 DEF BeginPlay, Begins
    <3> QED  BY <1>1, <3>1, BegunEInv
  <2>2. CASE ~pub[play[l].of].meta
    BY <1>6, <2>2 DEF BeginPlay, EInv, Scheduled, Attended, Subscribed
  <2> QED
    BY <2>1, <2>2
<1>7. CASE CancelPublisher(l)
  BY <1>7, CancelPublisherEInv
<1>8. CASE ForgetPlayer(l)
  <2>1. PlayerFrame(l) /\ play'[l] = NewPlayer
    BY <1>1, <1>8, AloneFrame DEF ForgetPlayer
  <2>2. play'[l].of = None /\ play'[l].phase = "idle"
    BY <2>1 DEF NewPlayer
  <2>3. \A q \in Publishers : l \notin pub'[q].subs
    BY <1>8 DEF ForgetPlayer
  <2>4. Attended(l)' /\ Subscribed(l)'
    BY <2>2, <2>3 DEF Attended, Subscribed
  <2> QED
    BY <1>1, <2>1, <2>4, PlayerAttends
<1> QED
  BY <1>3, <1>4, <1>5, <1>6, <1>7, <1>8 DEF UserStep

\* The write loop and the end of any player.
LEMMA PlayEInv ==
    ASSUME IInv, EInv, NEW l \in Players, PlayerStep(l) PROVE EInv'
<1>1. play[l] \in Player /\ Attended(l) /\ Subscribed(l)
  BY Before
<1>2. CASE Overflow(l)
  <2> DEFINE r == [play[l] EXCEPT !.flags = {"canceled"}]
  <2>1. /\ r.phase = "running" /\ r.flags = {"canceled"} /\ r.of = play[l].of
        /\ play[l].phase = "running"
    BY <1>1, <1>2 DEF Overflow, Writing, Player
  <2>2. PlayerFrame(l) /\ play'[l] = r /\ pub' = pub /\ listed' = listed /\ registered' = registered
    BY <1>2, AloneFrame DEF Overflow
  <2> HIDE DEF r
  <2>3. Attended(l)' /\ Subscribed(l)'
    BY <1>1, <2>1, <2>2 DEF Attended, Subscribed, Complete
  <2> QED
    BY <2>2, <2>3, PlayerAttends
<1>3. CASE StopCanceled(l) \/ WriteFails(l) \/ PlayTimeout(l)
  <2>1. PICK fl : StopWriting(l, fl) /\ play[l].phase = "running"
    BY <1>3 DEF StopCanceled, WriteFails, PlayTimeout, Writing
  <2> DEFINE r == [play[l] EXCEPT !.phase = "closing", !.flags = fl]
  <2>2. r.phase = "closing" /\ r.of = play[l].of
    BY <1>1 DEF Player
  <2>3. play' = [play EXCEPT ![l] = r] /\ pub' = pub /\ listed' = listed /\ registered' = registered
    BY <2>1 DEF StopWriting
  <2> HIDE DEF r
  <2>4. PlayerFrame(l) /\ play'[l] = r /\ pub' = pub /\ listed' = listed /\ registered' = registered
    BY <2>3, AloneFrame
  <2>5. Attended(l)' /\ Subscribed(l)'
    BY <1>1, <2>1, <2>2, <2>4 DEF Attended, Subscribed
  <2> QED
    BY <2>4, <2>5, PlayerAttends
<1>4. CASE TerminatePlay(l) /\ l \in Users
  BY <1>4, EndPlayEInv DEF TerminatePlay
<1>5. CASE TerminatePlay(l) /\ l \notin Users
  <2>1. PlayerFrame(l) /\ play'[l] = Gone(l)
    BY <1>5, AloneFrame DEF TerminatePlay, EndHls
  <2> QED
    BY <1>5, <2>1, LeftEInv
<1> QED
  BY <1>2, <1>3, <1>4, <1>5 DEF PlayerStep

\* The HLS player is listed when it is made.
LEMMA AddHlsPlayerEInv ==
    ASSUME IInv, EInv, NEW p \in Publishers, AddHlsPlayer(p) PROVE EInv'
<1> DEFINE l == HlsOf[p]
<1>1. l \in Players /\ l \notin Users
  BY Names
<1>2. /\ play \in [Players -> Player] /\ pub \in [Publishers -> Publisher]
      /\ \A q \in Publishers : pub[q] \in Publisher
  BY DEF IInv, TypeOK
<1>3. play'[l].phase = "ready" /\ play'[l].of = p
  BY <1>1, <1>2 DEF AddHlsPlayer, NewPlayer
<1>4. /\ \A q \in Publishers : q # p => pub'[q] = pub[q]
      /\ pub'[p].phase = pub[p].phase /\ pub'[p].lifecycle = pub[p].lifecycle
      /\ pub'[p].scheduled = FALSE /\ pub'[p].targets = pub[p].targets
      /\ pub'[p].subs = pub[p].subs
  BY <1>2 DEF AddHlsPlayer, Publisher
<1>5. registered' = registered /\ l \in listed' /\ pub[p].scheduled
  BY DEF AddHlsPlayer
<1>6. \A k \in Players : k # l => play'[k] = play[k] /\ (k \in listed' <=> k \in listed)
  BY <1>2 DEF AddHlsPlayer
<1>7. PlayerFrame(l)
  BY <1>4, <1>5, <1>6 DEF PlayerFrame
<1>8. pub[p].lifecycle \/ pub[p].phase = "dead"
  BY <1>5 DEF EInv, Scheduled
<1> HIDE DEF l
<1>9. Attended(l)' /\ Subscribed(l)'
  BY <1>1, <1>3, <1>4, <1>5, <1>8 DEF Attended, Subscribed
<1> QED
  BY <1>1, <1>7, <1>9, PlayerAttends

\* A listed HLS player is its publisher's, so it subscribes to the right one.
LEMMA BeginHlsEInv ==
    ASSUME IInv, EInv, NEW p \in Publishers, BeginHls(p) PROVE EInv'
<1> DEFINE l == HlsOf[p]
<1>1. l \in Players /\ play[l].phase = "ready"
  BY Names DEF BeginHls
<1>2. l \in listed
  BY <1>1 DEF EInv, Attended
<1>3. play[l].of = p
  BY <1>2 DEF IInv, HlsListed
<1>4. /\ play' = [play EXCEPT ![l] = Begun(l)] /\ registered' = registered /\ listed' = listed
      /\ pub' = [pub EXCEPT ![play[l].of].subs = @ \union {l}]
  BY <1>3 DEF BeginHls
<1> HIDE DEF l
<1>5. Begins(l)
  BY <1>1, <1>4 DEF Begins
<1> QED
  BY <1>1, <1>5, BegunEInv

\* The cancel of the publisher's end takes the player off the task and completes it.
LEMMA CancelPlayerEInv ==
    ASSUME IInv, EInv, NEW p \in Publishers, NEW l \in Players, CancelPlayer(p, l)
    PROVE  EInv'
<1>1. /\ play[l] \in Player /\ Attended(l) /\ Subscribed(l)
      /\ play \in [Players -> Player] /\ pub \in [Publishers -> Publisher]
      /\ \A q \in Publishers : pub[q] \in Publisher
  BY Before
<1> DEFINE fl == IF play[l].phase = "gone" THEN {} ELSE Completed(play[l], "canceled")
           r  == [play[l] EXCEPT !.flags = fl]
<1>2. play[l].phase # "gone" => fl # {}
  BY DEF Completed, Complete
<1>3. play' = [play EXCEPT ![l] = r]
  BY DEF CancelPlayer
<1> HIDE DEF fl
<1>4. r.phase = play[l].phase /\ r.of = play[l].of /\ r.flags = fl
  BY <1>1 DEF Player
<1> HIDE DEF r
<1>5. /\ play'[l] = r /\ \A k \in Players : k # l => play'[k] = play[k]
  BY <1>1, <1>3
<1>6. /\ registered' = registered /\ listed' = listed
      /\ pub' = [pub EXCEPT ![p].targets = @ \ {l}]
  BY DEF CancelPlayer
<1>7. /\ \A q \in Publishers : q # p => pub'[q] = pub[q]
      /\ pub'[p].phase = pub[p].phase /\ pub'[p].lifecycle = pub[p].lifecycle
      /\ pub'[p].scheduled = pub[p].scheduled /\ pub'[p].targets = pub[p].targets \ {l}
      /\ pub'[p].subs = pub[p].subs
  BY <1>1, <1>6 DEF Publisher
<1>8. PlayerFrame(l)
  BY <1>5, <1>6, <1>7 DEF PlayerFrame
<1>9. play[l].of # None => play[l].of \in Publishers
  BY Before
<1>10. Attended(l)'
  BY <1>1, <1>2, <1>4, <1>5, <1>6, <1>7, <1>9 DEF Attended, Complete
<1>11. Subscribed(l)'
  BY <1>1, <1>4, <1>5, <1>6, <1>7 DEF Subscribed
<1> QED
  BY <1>8, <1>10, <1>11, PlayerAttends

\* Nobody points at a publisher that is forgotten, and so no viewer subscribes to it.
LEMMA ForgetPublisherEInv ==
    ASSUME IInv, EInv, NEW p \in Publishers, ForgetPublisher(p) PROVE EInv'
<1> DEFINE h == HlsOf[p]
<1>1. h \in Players /\ h \notin Users
  BY Names
<1>2. /\ play \in [Players -> Player] /\ pub \in [Publishers -> Publisher]
  BY DEF IInv, TypeOK
<1>3. /\ play'[h] = NewPlayer /\ \A k \in Players : k # h => play'[k] = play[k]
      /\ pub'[p] = NewPublisher /\ \A q \in Publishers : q # p => pub'[q] = pub[q]
  BY <1>1, <1>2 DEF ForgetPublisher
<1>4. /\ registered' = registered /\ listed' = listed
      /\ \A k \in Players : play[k].of # p
  BY DEF ForgetPublisher
<1> HIDE DEF h
<1>5. Scheduled'
  BY <1>3 DEF EInv, Scheduled, NewPublisher
<1>6. ASSUME NEW k \in Players PROVE Attended(k)' /\ Subscribed(k)'
  <2>1. Attended(k) /\ Subscribed(k) /\ play[k].of \in Publishers \union {None}
        /\ (play[k].phase = "running" => play[k].of # None)
    BY Before
  <2>2. CASE k = h
    BY <1>1, <1>3, <2>2 DEF Attended, Subscribed, NewPlayer
  <2>3. CASE k # h
    <3>1. play'[k] = play[k] /\ (play[k].of # None => pub'[play[k].of] = pub[play[k].of])
      BY <1>3, <1>4, <2>1, <2>3
    <3>2. Attended(k)'
      BY <1>4, <2>1, <3>1 DEF Attended, Complete
    <3>3. Subscribed(k)'
      BY <1>3, <1>4, <2>1, <3>1 DEF Subscribed, NewPublisher
    <3> QED  BY <3>2, <3>3
  <2> QED
    BY <2>2, <2>3
<1> QED
  BY <1>5, <1>6 DEF EInv

-----------------------------------------------------------------------------
\* Every step keeps EInv.
LEMMA NextEInv == IInv /\ EInv /\ [Next]_vars => EInv'
<1> SUFFICES ASSUME IInv, EInv, [Next]_vars PROVE EInv'
  OBVIOUS
<1>1. ASSUME NEW p \in Publishers, PublisherStep(p) PROVE EInv'
  <2>1. CASE AddHlsPlayer(p) \/ BeginHls(p)
    BY <2>1, AddHlsPlayerEInv, BeginHlsEInv
  <2>2. CASE ForgetPublisher(p)
    BY <2>2, ForgetPublisherEInv
  <2>3. CASE \E l \in Players : CancelPlayer(p, l)
    BY <2>3, CancelPlayerEInv
  <2>4. CASE \/ Publish(p) \/ AddPublisher(p) \/ Register(p) \/ BeginPublish(p)
             \/ Metadata(p) \/ BadPacket(p) \/ PacketAfterCancel(p) \/ Eof(p)
             \/ PublishTimeout(p) \/ RemovePublisher(p) \/ StopPlayers(p)
    BY <2>4, PublisherEInv
  <2> QED
    BY <1>1, <2>1, <2>2, <2>3, <2>4 DEF PublisherStep
<1>2. ASSUME NEW l \in Users, UserStep(l) PROVE EInv'
  BY <1>2, UserEInv
<1>3. ASSUME NEW l \in Players, PlayerStep(l) PROVE EInv'
  BY <1>3, PlayEInv
<1>4. CASE Crashed \/ UNCHANGED vars
  BY <1>4 DEF Crashed, vars, EInv, Scheduled, Attended, Subscribed
<1> QED
  BY <1>1, <1>2, <1>3, <1>4 DEF Next

\* EInv holds in every reachable state: each player is attended to by its publisher's end,
\* and its subscription follows its play.
THEOREM Attendance == Spec => []EInv
<1>1. Init => EInv
  <2> SUFFICES ASSUME Init PROVE EInv
    OBVIOUS
  <2>1. Scheduled
    BY DEF Init, Scheduled, NewPublisher
  <2>2. ASSUME NEW l \in Players PROVE Attended(l) /\ Subscribed(l)
    BY DEF Init, Attended, Subscribed, NewPlayer, NewPublisher
  <2> QED
    BY <2>1, <2>2 DEF EInv
<1>2. IInv /\ EInv /\ [Next]_vars => EInv'
  BY NextEInv
<1> QED
  BY <1>1, <1>2, Invariance, PTL DEF Spec

\* ShutdownReachesPlayers: when a publisher has ended (on_terminate and
\* stop_all_players_after_publisher_shutdown), each player it served is complete, due
\* to be cancelled, or began after the publisher had left the list.
THEOREM ShutdownReaches == Spec => []ShutdownReachesPlayers
<1>1. EInv => ShutdownReachesPlayers
  BY DEF EInv, Attended, ShutdownReachesPlayers
<1> QED
  BY <1>1, Attendance, PTL

\* SubscribedIffPlaying: a viewer that plays gets the frames of its publisher, and one
\* that left is on nobody's list of subscribers.
THEOREM SubscriptionsFollowPlay == Spec => []SubscribedIffPlaying
<1>1. EInv => SubscribedIffPlaying
  <2>1. Users \subseteq Players
    BY Names
  <2> QED
    BY <2>1 DEF EInv, Subscribed, SubscribedIffPlaying
<1> QED
  BY <1>1, Attendance, PTL
=============================================================================
