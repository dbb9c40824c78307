------------------------- MODULE FrameDeliveryProofs -------------------------
(***************************************************************************)
(* Proofs about GopCache, then about FrameDelivery, which extends it, for  *)
(* every cache duration, every dts increment, any viewers, any limit of    *)
(* their queues and a stream of any length, with three inductive           *)
(* invariants.                                                             *)
(*                                                                         *)
(* IInv (GoodCache) is about the cache alone: besides the type, every      *)
(* queue that begins with a metadata frame knows its latest one, and the   *)
(* first GOP of a non-empty cache begins with one.                         *)
(*                                                                         *)
(* Content relates the cache to the history: the cached frames are a View  *)
(* of it, that is a Piece (in order, gapless, each media frame under its   *)
(* metadata) up to the end of the history and long enough; the pointers of *)
(* every queue and of the cache are those frames; nothing can be popped.   *)
(*                                                                         *)
(* UpdateGopRecurses is about the operator UpdateGop, which is written     *)
(* without recursion because the provers need it so: it is the function    *)
(* that the code's recursion defines.                                      *)
(*                                                                         *)
(* DInv is about the viewers.  What a viewer has had changes at another    *)
(* time than the history it is a piece of: a frame is accepted and cached  *)
(* at once, and pushed on the viewers' queues one viewer after the other.  *)
(* So DInv is about what a viewer has had and what is still coming to it,  *)
(* put together: while it is served, the two follow the history (Follows). *)
(* What it has had alone is a beginning of that, hence a run of the stream *)
(* (Run), which is all that is left of a viewer that has ended.            *)
(***************************************************************************)
EXTENDS FrameDelivery, BasicLemmas, FiniteSetTheorems, SequenceTheorems, TLAPS

-----------------------------------------------------------------------------
(* The queue.                                                              *)

\* The queues the cache is made of.
GoodQueue == {q \in Queue : StartsWithMetadata(q) => q.lmeta # NoFrame}

LEMMA EmptyQueueGood == EmptyQueue \in GoodQueue
BY DEF EmptyQueue, GoodQueue, Queue, MaybeMeta, MaybeMedia, StartsWithMetadata

\* push_back returns a queue of the type, never an empty one; it keeps the
\* metadata frame in front, and one pushed on an empty queue comes first.
LEMMA PushBackGood ==
    ASSUME NEW q \in GoodQueue, NEW f \in Frame
    PROVE  /\ PushBack(q, f) \in GoodQueue
           /\ StartsWithMetadata(q) => StartsWithMetadata(PushBack(q, f))
           /\ IsMeta(f) => PushBack(q, f).lmeta = f
           /\ IsMeta(f) /\ IsEmpty(q) => StartsWithMetadata(PushBack(q, f))
           /\ IsMedia(f) => PushBack(q, f).lmeta = q.lmeta
<1> q \in Queue /\ f # NoFrame /\ q.frames \in Seq(Frame)
  BY NoFrameAssumption DEF GoodQueue, Queue
<1>1. CASE IsMedia(f)
  <2>1. PushBack(q, f) = PushMedia(q, f) /\ f \in MediaFrame /\ ~IsMeta(f)
    BY <1>1 DEF PushBack, MediaFrame, IsMedia, IsMeta, MediaKinds
  <2>2. PushMedia(q, f) \in Queue
    <3>1. Append(q.frames, f) \in Seq(Frame)
      OBVIOUS
    <3>2. (IF HasMedia(q) THEN q.fmedia ELSE f) \in MaybeMedia /\ f \in MaybeMedia
      BY <2>1 DEF Queue, MaybeMedia
    <3> QED  BY <3>1, <3>2 DEF PushMedia, Queue
  <2>3. /\ PushMedia(q, f).frames = Append(q.frames, f)
        /\ PushMedia(q, f).lmeta = q.lmeta
    BY DEF PushMedia, Queue
  <2>4. StartsWithMetadata(PushMedia(q, f)) <=> StartsWithMetadata(q)
    BY <2>1, <2>3 DEF StartsWithMetadata
  <2> QED  BY <1>1, <2>1, <2>2, <2>3, <2>4 DEF GoodQueue
<1>2. CASE ~IsMedia(f)
  <2> DEFINE kept == IF EndsWithMetadata(q) THEN Front(q.frames) ELSE q.frames
  <2>1. PushBack(q, f) = PushMetadata(q, f) /\ f \in MetaFrame /\ IsMeta(f)
    BY <1>2 DEF PushBack, MetaFrame, IsMedia, IsMeta, Frame, Kinds
  <2>2. /\ kept \in Seq(Frame)
        /\ kept # <<>> => Len(q.frames) > 0 /\ kept[1] = q.frames[1]
        /\ IsEmpty(q) => kept = <<>>
    <3>1. CASE ~EndsWithMetadata(q)
      BY <3>1 DEF IsEmpty
    <3>2. CASE EndsWithMetadata(q)
      <4>1. kept = SubSeq(q.frames, 1, Len(q.frames) - 1) /\ Len(q.frames) > 0
        BY <3>2 DEF EndsWithMetadata, Front
      <4>2. \A i \in 1..(Len(q.frames) - 1) : q.frames[i] \in Frame
        BY ElementOfSeq, LenProperties
      <4>3. /\ kept \in Seq(Frame)
            /\ Len(kept) = Len(q.frames) - 1
            /\ \A i \in 1..(Len(q.frames) - 1) : kept[i] = q.frames[i]
        BY <4>1, <4>2, SubSeqProperties, LenProperties
      <4> QED  BY <4>1, <4>3, EmptySeq, LenProperties DEF IsEmpty
    <3> QED  BY <3>1, <3>2
  <2>3. /\ PushMetadata(q, f).frames = Append(kept, f)
        /\ PushMetadata(q, f).lmeta = f
        /\ PushMetadata(q, f) \in Queue
    <3> DEFINE fm == IF kept = <<>> \/ ~HasMetadata(q) THEN f ELSE q.fmeta
    <3>1. PushMetadata(q, f) = [q EXCEPT !.frames = Append(kept, f), !.fmeta = fm, !.lmeta = f]
      BY DEF PushMetadata
    <3>2. fm \in MaybeMeta /\ f \in MaybeMeta
      BY <2>1 DEF Queue, MaybeMeta
    <3>3. Append(kept, f) \in Seq(Frame)
      BY <2>2, AppendProperties
    <3> QED
      <4> HIDE DEF kept, fm
      <4> QED  BY <3>1, <3>2, <3>3 DEF Queue
  <2>4. /\ StartsWithMetadata(q) => StartsWithMetadata(PushMetadata(q, f))
        /\ IsEmpty(q) => StartsWithMetadata(PushMetadata(q, f))
    <3>1. /\ Len(Append(kept, f)) = Len(kept) + 1
          /\ \A i \in 1..Len(kept) : Append(kept, f)[i] = kept[i]
          /\ Append(kept, f)[Len(kept) + 1] = f
          /\ Len(kept) \in Nat /\ Len(q.frames) \in Nat
          /\ kept = <<>> => Len(kept) = 0
          /\ kept # <<>> => Len(kept) > 0
      <4> HIDE DEF kept
      <4> QED  BY <2>2, AppendProperties, LenProperties, EmptySeq
    <3> HIDE DEF kept
    <3>2. kept = <<>> => PushMetadata(q, f).frames[1] = f
      BY <2>3, <3>1
    <3>3. kept # <<>> => PushMetadata(q, f).frames[1] = q.frames[1]
      BY <2>2, <2>3, <3>1
    <3>4. Len(PushMetadata(q, f).frames) > 0
      BY <2>3, <3>1
    <3> QED  BY <2>1, <2>2, <3>2, <3>3, <3>4 DEF StartsWithMetadata, IsEmpty
  <2> QED  BY <1>2, <2>1, <2>3, <2>4 DEF GoodQueue
<1> QED  BY <1>1, <1>2

\* push_front of a metadata frame puts it first and gives a queue without
\* metadata a latest one.
LEMMA PushFrontGood ==
    ASSUME NEW q \in GoodQueue, NEW f \in MetaFrame
    PROVE  /\ PushFront(q, f) \in GoodQueue
           /\ StartsWithMetadata(PushFront(q, f))
           /\ PushFront(q, f).lmeta # NoFrame
<1> DEFINE rest == IF StartsWithMetadata(q) THEN Tail(q.frames) ELSE q.frames
<1>1. q \in Queue /\ f \in Frame /\ f # NoFrame /\ IsMeta(f) /\ q.frames \in Seq(Frame)
  BY NoFrameAssumption DEF GoodQueue, Queue, MetaFrame, IsMeta
<1>2. rest \in Seq(Frame)
  BY <1>1 DEF StartsWithMetadata
<1>3. /\ PushFront(q, f).frames = <<f>> \o rest
      /\ PushFront(q, f).lmeta = (IF q.lmeta = NoFrame THEN f ELSE q.lmeta)
      /\ PushFront(q, f) \in Queue
  <2> DEFINE lm == IF q.lmeta = NoFrame THEN f ELSE q.lmeta
  <2>1. PushFront(q, f) = [q EXCEPT !.frames = <<f>> \o rest, !.fmeta = f, !.lmeta = lm]
    BY DEF PushFront
  <2>2. lm \in MaybeMeta /\ f \in MaybeMeta
    BY <1>1 DEF Queue, MaybeMeta
  <2>3. <<f>> \o rest \in Seq(Frame)
    BY <1>1, <1>2, ConcatProperties
  <2>4. [q EXCEPT !.frames = <<f>> \o rest, !.fmeta = f, !.lmeta = lm] \in Queue
    <3> HIDE DEF rest, lm
    <3> QED  BY <1>1, <2>2, <2>3 DEF Queue
  <2> QED
    <3> HIDE DEF rest
    <3> QED  BY <1>1, <2>1, <2>4 DEF Queue
<1>4. StartsWithMetadata(PushFront(q, f))
  <2> HIDE DEF rest
  <2> QED  BY <1>1, <1>2, <1>3 DEF StartsWithMetadata
<1> QED  BY <1>1, <1>3, <1>4 DEF GoodQueue

-----------------------------------------------------------------------------
(* The cache.                                                              *)

\* The first GOP begins with a metadata frame and knows its latest one.
FirstGood(c) == StartsWithMetadata(FirstGop(c)) /\ FirstGop(c).lmeta # NoFrame

\* The inductive invariant, of a cache.
GoodCache(c) ==
    /\ c \in Cache
    /\ c.gops \in Seq(GoodQueue)
    /\ c.current \in GoodQueue
    /\ c # EmptyCache => FirstGood(c)

\* The queues of a good cache, as one sequence.
LEMMA GopsGood ==
    ASSUME NEW c, c.gops \in Seq(GoodQueue), c.current \in GoodQueue
    PROVE  /\ Gops(c) \in Seq(GoodQueue)
           /\ Len(Gops(c)) = Len(c.gops) + 1
           /\ Len(c.gops) \in Nat
           /\ FirstGop(c) = IF c.gops = <<>> THEN c.current ELSE c.gops[1]
           /\ \A i \in 1..Len(Gops(c)) : Gops(c)[i] \in GoodQueue
<1>1. /\ Gops(c) \in Seq(GoodQueue)
      /\ Len(Gops(c)) = Len(c.gops) + 1
      /\ \A i \in 1..Len(c.gops) : Gops(c)[i] = c.gops[i]
      /\ Gops(c)[Len(c.gops) + 1] = c.current
      /\ Len(c.gops) \in Nat
  BY AppendProperties, LenProperties DEF Gops
<1>2. FirstGop(c) = IF c.gops = <<>> THEN c.current ELSE c.gops[1]
  <2>1. CASE c.gops = <<>>
    BY <1>1, <2>1, EmptySeq DEF FirstGop
  <2>2. CASE c.gops # <<>>
    BY <1>1, <2>2, EmptySeq DEF FirstGop
  <2> QED  BY <2>1, <2>2
<1> QED  BY <1>1, <1>2, ElementOfSeq

\* on_frame only moves the four pointers, to frames of their kinds.
LEMMA OnFrameGood ==
    ASSUME NEW c \in Cache, NEW f \in Frame
    PROVE  /\ OnFrame(c, f) \in Cache
           /\ OnFrame(c, f).gops = c.gops
           /\ OnFrame(c, f).current = c.current
<1>1. CASE c.gops = <<>>
  <2>1. /\ c.current.fmeta \in MaybeMeta
        /\ c.current.fmedia \in MaybeMedia
        /\ c.current.lmedia \in MaybeMedia
    BY DEF Cache, Queue
  <2> QED  BY <1>1, <2>1 DEF OnFrame, Cache
<1>2. CASE c.gops # <<>> /\ IsMeta(f)
  <2>1. f \in MaybeMeta
    BY <1>2 DEF MaybeMeta, MetaFrame, IsMeta
  <2> DEFINE fm == IF c.firstMeta = NoFrame THEN f ELSE c.firstMeta
  <2>2. OnFrame(c, f) = [c EXCEPT !.firstMeta = fm, !.latestMeta = f]
    BY <1>2 DEF OnFrame
  <2>3. fm \in MaybeMeta
    BY <2>1 DEF Cache
  <2> HIDE DEF fm
  <2> QED  BY <2>1, <2>2, <2>3 DEF Cache
<1>3. CASE c.gops # <<>> /\ ~IsMeta(f)
  <2>1. f \in MaybeMedia
    BY <1>3 DEF MaybeMedia, MediaFrame, IsMeta, Frame, Kinds
  <2> DEFINE fm == IF c.firstMedia = NoFrame THEN f ELSE c.firstMedia
  <2>2. OnFrame(c, f) = [c EXCEPT !.firstMedia = fm, !.latestMedia = f]
    BY <1>3 DEF OnFrame
  <2>3. fm \in MaybeMedia
    BY <2>1 DEF Cache
  <2> HIDE DEF fm
  <2> QED  BY <2>1, <2>2, <2>3 DEF Cache
<1> QED  BY <1>1, <1>2, <1>3

\* Pushing a frame keeps the cache good.  The only frame an empty cache takes
\* is a metadata frame.
LEMMA PushFrameGood ==
    ASSUME NEW c, GoodCache(c), NEW f \in Frame, c = EmptyCache => IsMeta(f)
    PROVE  GoodCache(PushFrame(c, f)) /\ FirstGood(PushFrame(c, f))
<1> DEFINE d == [c EXCEPT !.current = PushBack(c.current, f)]
<1>1. /\ c \in Cache /\ c.gops \in Seq(GoodQueue) /\ c.current \in GoodQueue
      /\ PushBack(c.current, f) \in GoodQueue
      /\ PushBack(c.current, f) \in Queue
  BY PushBackGood DEF GoodCache, GoodQueue
<1>2. /\ d \in Cache
      /\ d.gops = c.gops
      /\ d.current = PushBack(c.current, f)
  BY <1>1 DEF Cache
<1>3. /\ PushFrame(c, f) \in Cache
      /\ PushFrame(c, f).gops = c.gops
      /\ PushFrame(c, f).current = PushBack(c.current, f)
  <2> HIDE DEF d
  <2>1. PushFrame(c, f) = OnFrame(d, f)
    BY DEF PushFrame, d
  <2> QED  BY <1>2, <2>1, OnFrameGood
<1>4. FirstGop(PushFrame(c, f)) =
          IF c.gops = <<>> THEN PushBack(c.current, f) ELSE c.gops[1]
  BY <1>1, <1>3, GopsGood
<1>5. FirstGop(c) = IF c.gops = <<>> THEN c.current ELSE c.gops[1]
  BY <1>1, GopsGood
<1>6. FirstGood(PushFrame(c, f))
  <2>1. CASE c = EmptyCache
    <3>1. /\ c.gops = <<>> /\ IsEmpty(c.current) /\ IsMeta(f) /\ f # NoFrame
      BY <2>1, NoFrameAssumption DEF EmptyCache, EmptyQueue, IsEmpty
    <3> QED  BY <1>1, <1>4, <3>1, PushBackGood DEF FirstGood
  <2>2. CASE c # EmptyCache
    <3>1. FirstGood(c)
      BY <2>2 DEF GoodCache
    <3>2. IsMeta(f) \/ IsMedia(f)
      BY DEF IsMeta, IsMedia, Frame, Kinds
    <3>3. f # NoFrame
      BY NoFrameAssumption
    <3>4. CASE c.gops = <<>>
      BY <1>1, <1>4, <1>5, <3>1, <3>2, <3>3, <3>4, PushBackGood DEF FirstGood
    <3>5. CASE c.gops # <<>>
      BY <1>4, <1>5, <3>1, <3>5 DEF FirstGood
    <3> QED  BY <3>4, <3>5
  <2> QED  BY <2>1, <2>2
<1> QED  BY <1>1, <1>3, <1>6 DEF GoodCache

\* Closing the current GOP moves it behind the others: the first GOP stays.
LEMMA CloseCurrentGood ==
    ASSUME NEW c, GoodCache(c), c # EmptyCache
    PROVE  GoodCache(CloseCurrent(c)) /\ CloseCurrent(c) # EmptyCache
<1> DEFINE d == CloseCurrent(c)
<1>1. c \in Cache /\ c.gops \in Seq(GoodQueue) /\ c.current \in GoodQueue /\ FirstGood(c)
  BY DEF GoodCache
<1>2. EmptyQueue \in GoodQueue /\ EmptyQueue \in Queue /\ c.current \in Queue /\ c.gops \in Seq(Queue)
  BY <1>1, EmptyQueueGood DEF GoodQueue, Cache
<1>3. Append(c.gops, c.current) \in Seq(Queue) /\ Append(c.gops, c.current) \in Seq(GoodQueue)
  BY <1>1, <1>2, AppendProperties
<1>4. /\ d \in Cache
      /\ d.gops = Append(c.gops, c.current)
      /\ d.current = EmptyQueue
  BY <1>1, <1>2, <1>3 DEF CloseCurrent, Cache
<1>5. FirstGop(d) = FirstGop(c)
  <2>1. d.gops # <<>> /\ FirstGop(d) = d.gops[1]
    <3> HIDE DEF d
    <3>1. d.gops # <<>>
      BY <1>1, <1>4, AppendProperties
    <3>2. d.gops \in Seq(GoodQueue) /\ d.current \in GoodQueue
      BY <1>2, <1>3, <1>4
    <3> QED  BY <3>1, <3>2, GopsGood
  <2>2. FirstGop(c) = Append(c.gops, c.current)[1]
    BY DEF FirstGop, Gops
  <2> QED  BY <1>4, <2>1, <2>2
<1>6. d # EmptyCache
  BY <1>1, <1>4, AppendProperties DEF EmptyCache
<1> QED  BY <1>1, <1>2, <1>3, <1>4, <1>5, <1>6 DEF GoodCache, FirstGood

\* update_gop pops at most the closed GOPs.
LEMMA PopCountBound ==
    ASSUME NEW c, Len(c.gops) \in Nat
    PROVE  PopCount(c) \in 0..Len(c.gops)
<1>1. IsFiniteSet(1..Len(c.gops)) /\ Cardinality(1..Len(c.gops)) = Len(c.gops)
  BY FS_Interval
<1>2. Poppable(c) \in SUBSET (1..Len(c.gops))
  BY DEF Poppable
<1>3. /\ IsFiniteSet(Poppable(c))
      /\ Cardinality(Poppable(c)) <= Cardinality(1..Len(c.gops))
  BY <1>1, <1>2, FS_Subset
<1> QED  BY <1>1, <1>3, FS_CardinalityType DEF PopCount

\* When something is popped, the metadata handed on is a metadata frame: the
\* first GOP has one (the assertion in update_gop).
LEMMA CarriedIsMetadata ==
    ASSUME NEW c, GoodCache(c), FirstGood(c), PopCount(c) # 0
    PROVE  CarriedMetadata(c) \in MetaFrame
<1> DEFINE K == {i \in 1..PopCount(c) : Gops(c)[i].lmeta # NoFrame}
<1>1. /\ PopCount(c) \in Nat /\ PopCount(c) <= Len(c.gops) /\ PopCount(c) > 0
      /\ \A i \in 1..Len(Gops(c)) : Gops(c)[i] \in GoodQueue
      /\ Len(Gops(c)) = Len(c.gops) + 1 /\ Len(c.gops) \in Nat
  <2>1. c.gops \in Seq(GoodQueue) /\ c.current \in GoodQueue
    BY DEF GoodCache
  <2>2. Len(c.gops) \in Nat
    BY <2>1, LenProperties
  <2> QED  BY <2>1, <2>2, GopsGood, PopCountBound
<1>2. 1 \in K
  BY <1>1 DEF FirstGood, FirstGop
<1>3. Max(K) \in K
  <2>1. K \in SUBSET (1..PopCount(c)) /\ K # {}
    BY <1>2
  <2> HIDE DEF K
  <2> QED  BY <1>1, <2>1, MaxOfInterval
<1>4. Max(K) \in 1..Len(Gops(c)) /\ Gops(c)[Max(K)].lmeta # NoFrame
  <2> DEFINE m == Max(K)
  <2>1. m \in 1..PopCount(c) /\ Gops(c)[m].lmeta # NoFrame
    BY <1>3
  <2> HIDE DEF m
  <2> QED  BY <1>1, <2>1 DEF m
<1>5. Gops(c)[Max(K)] \in Queue
  BY <1>1, <1>4 DEF GoodQueue
<1>6. Gops(c)[Max(K)].lmeta \in MetaFrame
  BY <1>4, <1>5 DEF Queue, MaybeMeta
<1> QED  BY <1>6 DEF CarriedMetadata

\* The pointers on_pop_gop recomputes are frames of their kinds, or null.
LEMMA FirstOfType ==
    ASSUME NEW gops \in Seq(Queue)
    PROVE  FirstMediaOf(gops) \in MaybeMedia /\ FirstMetaOf(gops) \in MaybeMeta
<1> Len(gops) \in Nat /\ \A i \in 1..Len(gops) : gops[i] \in Queue
  BY LenProperties, ElementOfSeq
<1>1. FirstMediaOf(gops) \in MaybeMedia
  <2> DEFINE I == {i \in 1..Len(gops) : HasMedia(gops[i])}
  <2>1. CASE I = {}
    BY <2>1 DEF FirstMediaOf, SelectInSeq, MaybeMedia
  <2>2. CASE I # {}
    <3>1. I \in SUBSET Nat
      OBVIOUS
    <3>2. Min(I) \in I
      <4> HIDE DEF I
      <4> QED  BY <2>2, <3>1, MinOfNaturals
    <3>3. Min(I) \in 1..Len(gops)
      BY <3>2
    <3>4. gops[Min(I)].fmedia \in MaybeMedia
      BY <3>3 DEF Queue
    <3>5. SelectInSeq(gops, HasMedia) = Min(I)
      BY <2>2 DEF SelectInSeq
    <3>6. SelectInSeq(gops, HasMedia) # 0
      BY <3>3, <3>5
    <3> QED  BY <3>4, <3>5, <3>6 DEF FirstMediaOf
  <2> QED  BY <2>1, <2>2
<1>2. FirstMetaOf(gops) \in MaybeMeta
  <2> DEFINE I == {i \in 1..Len(gops) : HasMetadata(gops[i])}
  <2>1. CASE I = {}
    BY <2>1 DEF FirstMetaOf, SelectInSeq, MaybeMeta
  <2>2. CASE I # {}
    <3>1. I \in SUBSET Nat
      OBVIOUS
    <3>2. Min(I) \in I
      <4> HIDE DEF I
      <4> QED  BY <2>2, <3>1, MinOfNaturals
    <3>3. Min(I) \in 1..Len(gops)
      BY <3>2
    <3>4. gops[Min(I)].fmeta \in MaybeMeta
      BY <3>3 DEF Queue
    <3>5. SelectInSeq(gops, HasMetadata) = Min(I)
      BY <2>2 DEF SelectInSeq
    <3>6. SelectInSeq(gops, HasMetadata) # 0
      BY <3>3, <3>5
    <3> QED  BY <3>4, <3>5, <3>6 DEF FirstMetaOf
  <2> QED  BY <2>1, <2>2
<1> QED  BY <1>1, <1>2

\* The queues left after the pops, the first one with its metadata: a sequence
\* of good queues that is never empty.
LEMMA UpdateGopGood ==
    ASSUME NEW c, GoodCache(c), FirstGood(c)
    PROVE  GoodCache(UpdateGop(c)) /\ FirstGood(UpdateGop(c))
<1>1. CASE PopCount(c) = 0
  BY <1>1 DEF UpdateGop
<1>2. CASE PopCount(c) # 0
  <2> DEFINE n == Len(Gops(c))
             k == PopCount(c)
             left == SubSeq(Gops(c), k + 1, n)
             first == IF StartsWithMetadata(Head(left)) THEN Head(left)
                      ELSE PushFront(Head(left), CarriedMetadata(c))
             kept == <<first>> \o Tail(left)
             d == UpdateGop(c)
  <2>1. /\ n \in Nat /\ k \in Nat /\ k + 1 <= n
        /\ Gops(c) \in Seq(GoodQueue)
        /\ \A i \in 1..n : Gops(c)[i] \in GoodQueue
        /\ c \in Cache
    <3>1. c.gops \in Seq(GoodQueue) /\ c.current \in GoodQueue /\ c \in Cache
      BY DEF GoodCache
    <3>2. k \in 0..Len(c.gops) /\ Len(c.gops) \in Nat
      BY <3>1, LenProperties, PopCountBound
    <3>3. n = Len(c.gops) + 1
      BY <3>1, GopsGood
    <3>4. Gops(c) \in Seq(GoodQueue) /\ \A i \in 1..n : Gops(c)[i] \in GoodQueue
      BY <3>1, GopsGood
    <3> QED  BY <3>1, <3>2, <3>3, <3>4
  <2>2. left \in Seq(GoodQueue) /\ left # <<>>
    <3>1. \A i \in (k + 1)..n : Gops(c)[i] \in GoodQueue
      BY <2>1
    <3>2. left \in Seq(GoodQueue) /\ Len(left) = n - k
      <4> HIDE DEF n, k
      <4>1. k + 1 \in Int /\ n \in Int /\ (k + 1 <= n)
        BY <2>1
      <4>2. left \in Seq(GoodQueue) /\ Len(left) = n - (k + 1) + 1
        BY <3>1, <4>1, SubSeqProperties
      <4> QED  BY <2>1, <4>2
    <3> HIDE DEF left, n, k
    <3> QED  BY <2>1, <3>2, EmptySeq
  <2>3. /\ first \in GoodQueue
        /\ StartsWithMetadata(first)
        /\ first.lmeta # NoFrame
    <3>1. Head(left) \in GoodQueue
      <4> HIDE DEF left
      <4> QED  BY <2>2, HeadTailProperties
    <3>2. CarriedMetadata(c) \in MetaFrame
      BY <1>2, CarriedIsMetadata
    <3> HIDE DEF left
    <3>3. CASE StartsWithMetadata(Head(left))
      BY <3>1, <3>3 DEF GoodQueue
    <3>4. CASE ~StartsWithMetadata(Head(left))
      BY <3>1, <3>2, <3>4, PushFrontGood
    <3> QED  BY <3>3, <3>4
  <2>4. /\ kept \in Seq(GoodQueue)
        /\ Len(kept) \in Nat /\ Len(kept) > 0
        /\ kept[1] = first
    <3>1. Tail(left) \in Seq(GoodQueue) /\ <<first>> \in Seq(GoodQueue)
      <4> HIDE DEF left, first
      <4> QED  BY <2>2, <2>3, HeadTailProperties
    <3> HIDE DEF left, first
    <3>2. /\ kept \in Seq(GoodQueue)
          /\ Len(kept) = Len(<<first>>) + Len(Tail(left))
          /\ \A i \in 1..(Len(<<first>>) + Len(Tail(left))) :
                kept[i] = IF i <= Len(<<first>>) THEN <<first>>[i]
                          ELSE Tail(left)[i - Len(<<first>>)]
      BY <3>1, ConcatProperties
    <3>3. Len(<<first>>) = 1 /\ Len(Tail(left)) \in Nat /\ <<first>>[1] = first
      BY <3>1, LenProperties
    <3> QED  BY <3>2, <3>3
  <2>5. /\ Front(kept) \in Seq(GoodQueue)
        /\ Last(kept) \in GoodQueue
        /\ Append(Front(kept), Last(kept)) = kept
    <3> HIDE DEF kept
    <3>1. Last(kept) \in GoodQueue
      BY <2>4, ElementOfSeq DEF Last
    <3>2. /\ Front(kept) \in Seq(GoodQueue)
          /\ Len(Front(kept)) = Len(kept) - 1
          /\ \A i \in 1..(Len(kept) - 1) : Front(kept)[i] = kept[i]
      <4>1. \A i \in 1..(Len(kept) - 1) : kept[i] \in GoodQueue
        BY <2>4, ElementOfSeq
      <4>2. 1 \in Int /\ Len(kept) - 1 \in Int /\ Len(kept) - 1 >= 0
        BY <2>4
      <4>3. /\ Front(kept) \in Seq(GoodQueue)
            /\ Len(Front(kept)) = IF 1 <= Len(kept) - 1 THEN Len(kept) - 1 - 1 + 1 ELSE 0
            /\ \A i \in 1..(Len(kept) - 1 - 1 + 1) : Front(kept)[i] = kept[1 + i - 1]
        BY <4>1, <4>2, SubSeqProperties DEF Front
      <4>4. ASSUME NEW i \in 1..(Len(kept) - 1)  PROVE Front(kept)[i] = kept[i]
        <5>1. i \in 1..(Len(kept) - 1 - 1 + 1) /\ 1 + i - 1 = i
          BY <2>4
        <5> QED  BY <4>3, <5>1
      <4>5. Len(Front(kept)) = Len(kept) - 1
        <5> DEFINE L == Len(kept)
                   M == Len(Front(kept))
        <5>1. L \in Nat /\ L > 0 /\ (M = IF 1 <= L - 1 THEN L - 1 - 1 + 1 ELSE 0)
          BY <2>4, <4>3
        <5> HIDE DEF L, M
        <5>2. M = L - 1
          BY <5>1
        <5> QED  BY <5>2 DEF L, M
      <4> QED  BY <4>3, <4>4, <4>5
    <3>3. /\ Append(Front(kept), Last(kept)) \in Seq(GoodQueue)
          /\ Len(Append(Front(kept), Last(kept))) = Len(kept)
          /\ \A i \in 1..Len(kept) : Append(Front(kept), Last(kept))[i] = kept[i]
      <4>1. /\ Append(Front(kept), Last(kept)) \in Seq(GoodQueue)
            /\ Len(Append(Front(kept), Last(kept))) = Len(Front(kept)) + 1
            /\ \A i \in 1..Len(Front(kept)) :
                  Append(Front(kept), Last(kept))[i] = Front(kept)[i]
            /\ Append(Front(kept), Last(kept))[Len(Front(kept)) + 1] = Last(kept)
        BY <3>1, <3>2, AppendProperties
      <4> QED  BY <2>4, <3>2, <4>1 DEF Last
    <3> QED  BY <2>4, <3>1, <3>2, <3>3, SeqEqual
  <2>6. d = [c EXCEPT !.gops = Front(kept), !.current = Last(kept),
                      !.firstMedia = FirstMediaOf(kept),
                      !.firstMeta = FirstMetaOf(kept)]
    BY <1>2 DEF UpdateGop
  <2> HIDE DEF kept, first, d
  <2>7. GoodQueue \subseteq Queue
    BY DEF GoodQueue
  <2>8. /\ Front(kept) \in Seq(Queue) /\ Last(kept) \in Queue
        /\ FirstMediaOf(kept) \in MaybeMedia /\ FirstMetaOf(kept) \in MaybeMeta
    <3>1. kept \in Seq(Queue)
      BY <2>4, <2>7, SeqMonotonic
    <3> QED  BY <2>5, <2>7, <3>1, SeqMonotonic, FirstOfType
  <2>9. d \in Cache /\ d.gops = Front(kept) /\ d.current = Last(kept)
    BY <2>1, <2>6, <2>8 DEF Cache
  <2>10. FirstGood(d)
    <3>1. Gops(d) = kept
      BY <2>5, <2>9 DEF Gops
    <3> QED  BY <2>3, <2>4, <3>1 DEF FirstGood, FirstGop
  <2> QED  BY <2>5, <2>9, <2>10 DEF GoodCache, d
<1> QED  BY <1>1, <1>2

\* add_frame keeps the cache good, whatever valid frame it is given.
LEMMA AddFrameGood ==
    ASSUME NEW c, GoodCache(c), NEW f \in Frame, ValidFrame(c, f)
    PROVE  GoodCache(AddFrame(c, f))
<1> DEFINE opened == IF RequiresNewGop(c, f) THEN CloseCurrent(c) ELSE c
           pushed == PushFrame(opened, f)
<1>1. c = EmptyCache => IsMeta(f)
  BY DEF ValidFrame, Allows, EmptyCache
<1>2. GoodCache(PushFrame(c, f))
  BY <1>1, PushFrameGood
<1>3. GoodCache(opened) /\ (opened = EmptyCache => IsMeta(f))
  <2>1. CASE RequiresNewGop(c, f)
    <3>1. c # EmptyCache
      BY <2>1 DEF RequiresNewGop, HasMedia, EmptyCache, EmptyQueue
    <3> QED  BY <2>1, <3>1, CloseCurrentGood
  <2>2. CASE ~RequiresNewGop(c, f)
    BY <1>1, <2>2
  <2> QED  BY <2>1, <2>2
<1>4. GoodCache(pushed) /\ FirstGood(pushed)
  <2> HIDE DEF opened
  <2> QED  BY <1>3, PushFrameGood
<1>5. GoodCache(UpdateGop(pushed))
  <2> HIDE DEF pushed
  <2> QED  BY <1>4, UpdateGopGood
<1>6. AddFrame(c, f) \in {PushFrame(c, f), UpdateGop(pushed), pushed}
  BY DEF AddFrame
<1> HIDE DEF pushed
<1> QED  BY <1>2, <1>4, <1>5, <1>6

-----------------------------------------------------------------------------
(* The specification.                                                      *)

IInv == GoodCache(cache) /\ accepted \in Seq(Frame)

\* The frames the session offers are frames.
LEMMA OfferedType ==
    ASSUME IInv
    PROVE  OfferedMetadata \union OfferedMedia \subseteq Frame
<1>1. Len(accepted) + 1 \in Nat
  BY LenProperties DEF IInv
<1>2. LastDts \in Int
  <2> DEFINE I == {i \in 1..Len(accepted) : IsMedia(accepted[i])}
  <2>1. Len(accepted) \in Nat /\ \A i \in 1..Len(accepted) : accepted[i].dts \in Int
    <3>1. accepted \in Seq(Frame)
      BY DEF IInv
    <3>2. \A i \in 1..Len(accepted) : accepted[i] \in Frame
      BY <3>1, ElementOfSeq
    <3> QED  BY <3>1, <3>2, LenProperties DEF Frame
  <2>2. CASE I = {}
    BY <2>2 DEF LastDts, SelectLastInSeq
  <2>3. CASE I # {}
    <3>1. I \in SUBSET (1..Len(accepted))
      OBVIOUS
    <3>2. Max(I) \in I
      <4> HIDE DEF I
      <4> QED  BY <2>1, <2>3, <3>1, MaxOfInterval
    <3>3. Max(I) \in 1..Len(accepted) /\ Max(I) # 0
      BY <3>2
    <3>4. SelectLastInSeq(accepted, IsMedia) = Max(I)
      BY <2>3 DEF SelectLastInSeq
    <3> QED  BY <2>1, <3>3, <3>4 DEF LastDts
  <2> QED  BY <2>2, <2>3
<1>3. \A d \in DtsSteps : LastDts + d \in Int
  BY <1>2, DtsStepsAssumption
<1>4. OfferedMetadata \subseteq Frame
  <2>1. "meta" \in Kinds /\ 0 \in Int
    BY DEF Kinds
  <2> QED  BY <1>1, <2>1 DEF OfferedMetadata, Frame
<1>5. OfferedMedia \subseteq Frame
  <2>1. \A k \in MediaKinds : k \in Kinds /\ TracksOf(k) \subseteq Tracks
    BY DEF Kinds, TracksOf, Tracks
  <2> QED  BY <1>1, <1>3, <2>1 DEF OfferedMedia, Frame
<1> QED  BY <1>4, <1>5

\* The empty cache is good.
LEMMA InitGood == Init => IInv
<1>1. EmptyCache \in Cache
  BY DEF EmptyCache, Cache, EmptyQueue, Queue, MaybeMeta, MaybeMedia
<1>2. EmptyCache.gops = <<>> /\ EmptyCache.current = EmptyQueue
  BY DEF EmptyCache
<1> QED
  BY <1>1, <1>2, EmptySeq, EmptyQueueGood DEF Init, IInv, GoodCache

\* Every step keeps the invariant.
LEMMA StepGood == IInv /\ [Next]_vars => IInv'
<1> SUFFICES ASSUME IInv, [Next]_vars PROVE IInv'
  OBVIOUS
<1>1. ASSUME NEW f \in OfferedMetadata \union OfferedMedia, Accept(f)
      PROVE  IInv'
  <2>1. f \in Frame
    BY OfferedType
  <2>2. GoodCache(AddFrame(cache, f))
    BY <1>1, <2>1, AddFrameGood DEF Accept, IInv
  <2>3. GoodCache(cache')
    BY <1>1, <2>2 DEF Accept
  <2>4. accepted' \in Seq(Frame)
    BY <1>1, <2>1, AppendProperties DEF Accept, IInv
  <2> QED  BY <2>3, <2>4 DEF IInv, GoodCache, FirstGood
<1>2. CASE Clear
  <2>1. Init'
    BY <1>2 DEF Clear, Init
  <2> QED  BY <2>1, InitGood, PTL
<1>3. CASE UNCHANGED vars
  BY <1>3 DEF vars, IInv, GoodCache
<1> QED  BY <1>1, <1>2, <1>3 DEF Next, Reject

\* Every reachable cache is good.
THEOREM Invariance == Spec => []IInv
BY InitGood, StepGood, PTL DEF Spec

\* The cache and its history keep their types for every MinCache, DtsSteps and
\* number of frames.
THEOREM TypeCorrect == Spec => []TypeOK
<1>1. IInv => TypeOK
  BY DEF IInv, GoodCache, TypeOK
<1> QED  BY <1>1, Invariance, PTL

\* However long the stream and however it was trimmed, a non-empty cache begins
\* with a metadata frame, and update_gop's assertion holds of its first GOP.
THEOREM MetadataFirst == Spec => []CacheStartsWithMetadata
<1>1. IInv => CacheStartsWithMetadata
  BY DEF IInv, GoodCache, FirstGood, CacheStartsWithMetadata
<1> QED  BY <1>1, Invariance, PTL

-----------------------------------------------------------------------------
(* The first and the last frame of a kind.                                 *)

\* x is the first, or the last, frame of s that is in S, or null if none is.
FirstOf(s, S, x) ==
    \/ x = NoFrame /\ \A i \in 1..Len(s) : s[i] \notin S
    \/ \E i \in 1..Len(s) : s[i] = x /\ x \in S /\ \A j \in 1..(i - 1) : s[j] \notin S
LastOf(s, S, x) ==
    \/ x = NoFrame /\ \A i \in 1..Len(s) : s[i] \notin S
    \/ \E i \in 1..Len(s) : s[i] = x /\ x \in S /\ \A j \in (i + 1)..Len(s) : s[j] \notin S

LEMMA FirstOfUnique ==
    ASSUME NEW s, Len(s) \in Nat, NEW S \in SUBSET Frame, NEW x, NEW y,
           FirstOf(s, S, x), FirstOf(s, S, y)
    PROVE  x = y
<1>1. NoFrame \notin S
  BY NoFrameAssumption
<1>2. CASE \A i \in 1..Len(s) : s[i] \notin S
  BY <1>1, <1>2 DEF FirstOf
<1>3. CASE ~\A i \in 1..Len(s) : s[i] \notin S
  <2>1. PICK i \in 1..Len(s) : s[i] = x /\ x \in S /\ \A j \in 1..(i - 1) : s[j] \notin S
    BY <1>3 DEF FirstOf
  <2>2. PICK k \in 1..Len(s) : s[k] = y /\ y \in S /\ \A j \in 1..(k - 1) : s[j] \notin S
    BY <1>3 DEF FirstOf
  <2>3. ~(i < k) /\ ~(k < i)
    BY <2>1, <2>2
  <2> QED  BY <2>1, <2>2, <2>3
<1> QED  BY <1>2, <1>3

LEMMA LastOfUnique ==
    ASSUME NEW s, Len(s) \in Nat, NEW S \in SUBSET Frame, NEW x, NEW y,
           LastOf(s, S, x), LastOf(s, S, y)
    PROVE  x = y
<1>1. NoFrame \notin S
  BY NoFrameAssumption
<1>2. CASE \A i \in 1..Len(s) : s[i] \notin S
  BY <1>1, <1>2 DEF LastOf
<1>3. CASE ~\A i \in 1..Len(s) : s[i] \notin S
  <2>1. PICK i \in 1..Len(s) : s[i] = x /\ x \in S /\ \A j \in (i + 1)..Len(s) : s[j] \notin S
    BY <1>3 DEF LastOf
  <2>2. PICK k \in 1..Len(s) : s[k] = y /\ y \in S /\ \A j \in (k + 1)..Len(s) : s[j] \notin S
    BY <1>3 DEF LastOf
  <2>3. ~(i < k) /\ ~(k < i)
    BY <2>1, <2>2
  <2> QED  BY <2>1, <2>2, <2>3
<1> QED  BY <1>2, <1>3

\* Of two sequences in a row.
LEMMA Concatenated ==
    ASSUME NEW a \in Seq(Frame), NEW b \in Seq(Frame)
    PROVE  /\ a \o b \in Seq(Frame) /\ Len(a \o b) = Len(a) + Len(b)
           /\ Len(a) \in Nat /\ Len(b) \in Nat /\ Len(a \o b) \in Nat
           /\ \A i \in 1..Len(a) : i \in 1..Len(a \o b) /\ (a \o b)[i] = a[i]
           /\ \A i \in 1..Len(b) : Len(a) + i \in 1..Len(a \o b) /\ (a \o b)[Len(a) + i] = b[i]
           /\ \A i \in 1..Len(a \o b) : i \in 1..Len(a) \/ i - Len(a) \in 1..Len(b)
<1> DEFINE n == Len(a)
           m == Len(b)
           c == a \o b
<1>1. /\ c \in Seq(Frame) /\ Len(c) = n + m /\ n \in Nat /\ m \in Nat
      /\ \A i \in 1..(n + m) : c[i] = IF i <= n THEN a[i] ELSE b[i - n]
  BY ConcatProperties, LenProperties
<1> HIDE DEF n, m, c
<1>2. ASSUME NEW i \in 1..m  PROVE n + i \in 1..(n + m) /\ c[n + i] = b[i]
  <2>1. n + i \in 1..(n + m) /\ ~(n + i <= n) /\ (n + i) - n = i
    BY <1>1
  <2> QED  BY <1>1, <2>1
<1>3. ASSUME NEW i \in 1..n  PROVE i \in 1..(n + m) /\ c[i] = a[i]
  BY <1>1
<1>4. ASSUME NEW i \in 1..(n + m)  PROVE i \in 1..n \/ i - n \in 1..m
  BY <1>1
<1>5. n + m \in Nat
  BY <1>1
<1> QED  BY <1>1, <1>2, <1>3, <1>4, <1>5 DEF n, m, c

LEMMA FirstOfConcat ==
    ASSUME NEW a \in Seq(Frame), NEW b \in Seq(Frame), NEW S \in SUBSET Frame, NEW x, NEW y,
           FirstOf(a, S, x), FirstOf(b, S, y)
    PROVE  FirstOf(a \o b, S, IF x = NoFrame THEN y ELSE x)
<1> DEFINE n == Len(a)
           m == Len(b)
           c == a \o b
<1>0. /\ n \in Nat /\ m \in Nat /\ Len(c) = n + m /\ Len(c) \in Nat
      /\ \A i \in 1..n : i \in 1..Len(c) /\ c[i] = a[i]
      /\ \A i \in 1..m : n + i \in 1..Len(c) /\ c[n + i] = b[i]
      /\ \A i \in 1..Len(c) : i \in 1..n \/ i - n \in 1..m
  BY Concatenated
<1>1. NoFrame \notin S
  BY NoFrameAssumption
<1> HIDE DEF c
<1>2. CASE x # NoFrame
  <2>1. PICK i \in 1..n : a[i] = x /\ x \in S /\ \A j \in 1..(i - 1) : a[j] \notin S
    BY <1>2 DEF FirstOf
  <2>2. \A j \in 1..(i - 1) : j \in 1..n
    BY <1>0
  <2>3. i \in 1..Len(c) /\ c[i] = x /\ \A j \in 1..(i - 1) : c[j] \notin S
    BY <1>0, <2>1, <2>2
  <2> QED  BY <1>2, <2>1, <2>3 DEF FirstOf, c
<1>3. CASE x = NoFrame
  <2>1. \A i \in 1..n : a[i] \notin S
    BY <1>1, <1>3 DEF FirstOf
  <2>2. CASE y = NoFrame
    <3>1. \A i \in 1..m : b[i] \notin S
      BY <1>1, <2>2 DEF FirstOf
    <3>2. ASSUME NEW i \in 1..Len(c)  PROVE c[i] \notin S
      <4>1. CASE i \in 1..n
        BY <1>0, <2>1, <4>1
      <4>2. CASE i - n \in 1..m
        <5>1. n + (i - n) = i
          BY <1>0
        <5> QED  BY <1>0, <3>1, <4>2, <5>1
      <4> QED  BY <1>0, <4>1, <4>2
    <3> QED  BY <1>3, <2>2, <3>2 DEF FirstOf, c
  <2>3. CASE y # NoFrame
    <3>1. PICK i \in 1..m : b[i] = y /\ y \in S /\ \A j \in 1..(i - 1) : b[j] \notin S
      BY <2>3 DEF FirstOf
    <3>2. n + i \in 1..Len(c) /\ c[n + i] = y
      BY <1>0, <3>1
    <3>3. ASSUME NEW j \in 1..(n + i - 1)  PROVE c[j] \notin S
      <4>1. CASE j \in 1..n
        BY <1>0, <2>1, <4>1
      <4>2. CASE j \notin 1..n
        <5>1. n + (j - n) = j /\ j - n \in 1..(i - 1) /\ j - n \in 1..m
          BY <1>0, <4>2
        <5> QED  BY <1>0, <3>1, <5>1
      <4> QED  BY <4>1, <4>2
    <3> QED  BY <1>3, <3>1, <3>2, <3>3 DEF FirstOf, c
  <2> QED  BY <2>2, <2>3
<1> QED  BY <1>2, <1>3

LEMMA LastOfConcat ==
    ASSUME NEW a \in Seq(Frame), NEW b \in Seq(Frame), NEW S \in SUBSET Frame, NEW x, NEW y,
           LastOf(a, S, x), LastOf(b, S, y)
    PROVE  LastOf(a \o b, S, IF y = NoFrame THEN x ELSE y)
<1> DEFINE n == Len(a)
           m == Len(b)
           c == a \o b
<1>0. /\ n \in Nat /\ m \in Nat /\ Len(c) = n + m /\ Len(c) \in Nat
      /\ \A i \in 1..n : i \in 1..Len(c) /\ c[i] = a[i]
      /\ \A i \in 1..m : n + i \in 1..Len(c) /\ c[n + i] = b[i]
      /\ \A i \in 1..Len(c) : i \in 1..n \/ i - n \in 1..m
  BY Concatenated
<1>1. NoFrame \notin S
  BY NoFrameAssumption
<1> HIDE DEF c
<1>2. CASE y # NoFrame
  <2>1. PICK i \in 1..m : b[i] = y /\ y \in S /\ \A j \in (i + 1)..m : b[j] \notin S
    BY <1>2 DEF LastOf
  <2>2. n + i \in 1..Len(c) /\ c[n + i] = y
    BY <1>0, <2>1
  <2>3. ASSUME NEW j \in (n + i + 1)..Len(c)  PROVE c[j] \notin S
    <3>1. n + (j - n) = j /\ j - n \in (i + 1)..m /\ j - n \in 1..m
      BY <1>0
    <3> QED  BY <1>0, <2>1, <3>1
  <2> QED  BY <1>2, <2>1, <2>2, <2>3 DEF LastOf, c
<1>3. CASE y = NoFrame
  <2>1. \A i \in 1..m : b[i] \notin S
    BY <1>1, <1>3 DEF LastOf
  <2>2. ASSUME NEW i \in (n + 1)..Len(c)  PROVE c[i] \notin S
    <3>1. n + (i - n) = i /\ i - n \in 1..m
      BY <1>0
    <3> QED  BY <1>0, <2>1, <3>1
  <2>3. CASE x = NoFrame
    <3>1. \A i \in 1..n : a[i] \notin S
      BY <1>1, <2>3 DEF LastOf
    <3>2. ASSUME NEW i \in 1..Len(c)  PROVE c[i] \notin S
      <4>1. i \in 1..n \/ i \in (n + 1)..Len(c)
        BY <1>0
      <4> QED  BY <1>0, <2>2, <3>1, <4>1
    <3> QED  BY <1>3, <2>3, <3>2 DEF LastOf, c
  <2>4. CASE x # NoFrame
    <3>1. PICK i \in 1..n : a[i] = x /\ x \in S /\ \A j \in (i + 1)..n : a[j] \notin S
      BY <2>4 DEF LastOf
    <3>2. ASSUME NEW j \in (i + 1)..Len(c)  PROVE c[j] \notin S
      <4>1. j \in (i + 1)..n \/ j \in (n + 1)..Len(c)
        BY <1>0
      <4>2. j \in (i + 1)..n => j \in 1..n
        BY <1>0
      <4> QED  BY <1>0, <2>2, <3>1, <4>1, <4>2
    <3> QED  BY <1>0, <1>3, <3>1, <3>2 DEF LastOf, c
  <2> QED  BY <2>3, <2>4
<1> QED  BY <1>2, <1>3

\* Of one frame.
LEMMA OnlyOne ==
    ASSUME NEW f \in Frame, NEW S \in SUBSET Frame
    PROVE  /\ <<f>> \in Seq(Frame) /\ Len(<<f>>) = 1 /\ <<f>>[1] = f
           /\ FirstOf(<<f>>, S, IF f \in S THEN f ELSE NoFrame)
           /\ LastOf(<<f>>, S, IF f \in S THEN f ELSE NoFrame)
<1>1. <<f>> \in Seq(Frame) /\ Len(<<f>>) = 1 /\ <<f>>[1] = f
  OBVIOUS
<1>2. /\ \A i \in 1..1 : i = 1
      /\ \A j \in 1..(1 - 1) : FALSE
      /\ \A j \in (1 + 1)..1 : FALSE
      /\ 1 \in 1..1
  OBVIOUS
<1> DEFINE s == <<f>>
<1> HIDE DEF s
<1>3. s[1] = f /\ Len(s) = 1
  BY <1>1 DEF s
<1>4. /\ FirstOf(s, S, IF f \in S THEN f ELSE NoFrame)
      /\ LastOf(s, S, IF f \in S THEN f ELSE NoFrame)
  BY <1>2, <1>3 DEF FirstOf, LastOf
<1> QED  BY <1>1, <1>4 DEF s

LastMetaIn(s) == FrameAt(s, SelectLastInSeq(s, IsMeta))

LEMMA KindsOfFrames ==
    /\ MediaFrame \in SUBSET Frame /\ MetaFrame \in SUBSET Frame
    /\ NoFrame \notin Frame /\ NoFrame \notin MediaFrame /\ NoFrame \notin MetaFrame
    /\ \A f \in Frame : /\ IsMedia(f) <=> f \in MediaFrame
                        /\ IsMeta(f) <=> f \in MetaFrame
                        /\ IsMedia(f) <=> ~IsMeta(f)
<1>1. \A f \in Frame : f.kind \in Kinds
  BY DEF Frame
<1> QED  BY <1>1, NoFrameAssumption DEF MediaFrame, MetaFrame, IsMedia, IsMeta, Kinds, MediaKinds

LEMMA FirstMediaIs ==
    ASSUME NEW s \in Seq(Frame)
    PROVE  FirstOf(s, MediaFrame, FirstMediaIn(s))
<1> DEFINE I == {i \in 1..Len(s) : IsMedia(s[i])}
           k == SelectInSeq(s, IsMedia)
<1>0. Len(s) \in Nat /\ \A i \in 1..Len(s) : s[i] \in Frame
  BY LenProperties, ElementOfSeq
<1>1. k = IF I # {} THEN Min(I) ELSE 0
  BY DEF SelectInSeq
<1>2. FirstMediaIn(s) = IF k = 0 THEN NoFrame ELSE s[k]
  BY DEF FirstMediaIn, FrameAt
<1> HIDE DEF k
<1>3. CASE I = {}
  <2>1. \A i \in 1..Len(s) : s[i] \notin MediaFrame
    BY <1>0, <1>3, KindsOfFrames
  <2> QED  BY <1>1, <1>2, <1>3, <2>1 DEF FirstOf
<1>4. CASE I # {}
  <2>1. k \in I /\ \A i \in I : k <= i
    <3>1. I \in SUBSET Nat
      OBVIOUS
    <3> HIDE DEF I
    <3> QED  BY <1>1, <1>4, <3>1, MinOfNaturals
  <2>2. k \in 1..Len(s) /\ k # 0 /\ s[k] \in MediaFrame
    BY <1>0, <2>1, KindsOfFrames
  <2>3. ASSUME NEW j \in 1..(k - 1)  PROVE s[j] \notin MediaFrame
    <3>1. j \in 1..Len(s) /\ ~(k <= j)
      BY <1>0, <2>2
    <3> QED  BY <1>0, <2>1, <3>1, KindsOfFrames
  <2> HIDE DEF I
  <2> QED  BY <1>2, <2>2, <2>3 DEF FirstOf
<1> QED  BY <1>3, <1>4

LEMMA LastMediaIs ==
    ASSUME NEW s \in Seq(Frame)
    PROVE  LastOf(s, MediaFrame, LastMediaIn(s))
<1> DEFINE I == {i \in 1..Len(s) : IsMedia(s[i])}
           k == SelectLastInSeq(s, IsMedia)
<1>0. Len(s) \in Nat /\ \A i \in 1..Len(s) : s[i] \in Frame
  BY LenProperties, ElementOfSeq
<1>1. k = IF I # {} THEN Max(I) ELSE 0
  BY DEF SelectLastInSeq
<1>2. LastMediaIn(s) = IF k = 0 THEN NoFrame ELSE s[k]
  BY DEF LastMediaIn, FrameAt
<1> HIDE DEF k
<1>3. CASE I = {}
  <2>1. \A i \in 1..Len(s) : s[i] \notin MediaFrame
    BY <1>0, <1>3, KindsOfFrames
  <2> QED  BY <1>1, <1>2, <1>3, <2>1 DEF LastOf
<1>4. CASE I # {}
  <2>1. k \in I /\ \A i \in I : i <= k
    <3>1. I \in SUBSET (1..Len(s))
      OBVIOUS
    <3> HIDE DEF I
    <3> QED  BY <1>0, <1>1, <1>4, <3>1, MaxOfInterval
  <2>2. k \in 1..Len(s) /\ k # 0 /\ s[k] \in MediaFrame
    BY <1>0, <2>1, KindsOfFrames
  <2>3. ASSUME NEW j \in (k + 1)..Len(s)  PROVE s[j] \notin MediaFrame
    <3>1. j \in 1..Len(s) /\ ~(j <= k)
      BY <1>0, <2>2
    <3> QED  BY <1>0, <2>1, <3>1, KindsOfFrames
  <2> HIDE DEF I
  <2> QED  BY <1>2, <2>2, <2>3 DEF LastOf
<1> QED  BY <1>3, <1>4

LEMMA LastMetaIs ==
    ASSUME NEW s \in Seq(Frame)
    PROVE  LastOf(s, MetaFrame, LastMetaIn(s))
<1> DEFINE I == {i \in 1..Len(s) : IsMeta(s[i])}
           k == SelectLastInSeq(s, IsMeta)
<1>0. Len(s) \in Nat /\ \A i \in 1..Len(s) : s[i] \in Frame
  BY LenProperties, ElementOfSeq
<1>1. k = IF I # {} THEN Max(I) ELSE 0
  BY DEF SelectLastInSeq
<1>2. LastMetaIn(s) = IF k = 0 THEN NoFrame ELSE s[k]
  BY DEF LastMetaIn, FrameAt
<1> HIDE DEF k
<1>3. CASE I = {}
  <2>1. \A i \in 1..Len(s) : s[i] \notin MetaFrame
    BY <1>0, <1>3, KindsOfFrames
  <2> QED  BY <1>1, <1>2, <1>3, <2>1 DEF LastOf
<1>4. CASE I # {}
  <2>1. k \in I /\ \A i \in I : i <= k
    <3>1. I \in SUBSET (1..Len(s))
      OBVIOUS
    <3> HIDE DEF I
    <3> QED  BY <1>0, <1>1, <1>4, <3>1, MaxOfInterval
  <2>2. k \in 1..Len(s) /\ k # 0 /\ s[k] \in MetaFrame
    BY <1>0, <2>1, KindsOfFrames
  <2>3. ASSUME NEW j \in (k + 1)..Len(s)  PROVE s[j] \notin MetaFrame
    <3>1. j \in 1..Len(s) /\ ~(j <= k)
      BY <1>0, <2>2
    <3> QED  BY <1>0, <2>1, <3>1, KindsOfFrames
  <2> HIDE DEF I
  <2> QED  BY <1>2, <2>2, <2>3 DEF LastOf
<1> QED  BY <1>3, <1>4

\* What the three are of two sequences in a row, of one frame, and of none.
LEMMA FindInConcat ==
    ASSUME NEW a \in Seq(Frame), NEW b \in Seq(Frame)
    PROVE  /\ FirstMediaIn(a \o b) = IF FirstMediaIn(a) = NoFrame THEN FirstMediaIn(b) ELSE FirstMediaIn(a)
           /\ LastMediaIn(a \o b) = IF LastMediaIn(b) = NoFrame THEN LastMediaIn(a) ELSE LastMediaIn(b)
           /\ LastMetaIn(a \o b) = IF LastMetaIn(b) = NoFrame THEN LastMetaIn(a) ELSE LastMetaIn(b)
<1> DEFINE c == a \o b
<1>0. c \in Seq(Frame) /\ Len(c) \in Nat
  BY Concatenated
<1>1. /\ FirstOf(a, MediaFrame, FirstMediaIn(a)) /\ FirstOf(b, MediaFrame, FirstMediaIn(b))
      /\ LastOf(a, MediaFrame, LastMediaIn(a)) /\ LastOf(b, MediaFrame, LastMediaIn(b))
      /\ LastOf(a, MetaFrame, LastMetaIn(a)) /\ LastOf(b, MetaFrame, LastMetaIn(b))
  BY FirstMediaIs, LastMediaIs, LastMetaIs
<1>2. MediaFrame \in SUBSET Frame /\ MetaFrame \in SUBSET Frame
  BY KindsOfFrames
<1>3. /\ FirstOf(c, MediaFrame, IF FirstMediaIn(a) = NoFrame THEN FirstMediaIn(b) ELSE FirstMediaIn(a))
      /\ LastOf(c, MediaFrame, IF LastMediaIn(b) = NoFrame THEN LastMediaIn(a) ELSE LastMediaIn(b))
      /\ LastOf(c, MetaFrame, IF LastMetaIn(b) = NoFrame THEN LastMetaIn(a) ELSE LastMetaIn(b))
  BY <1>1, <1>2, FirstOfConcat, LastOfConcat
<1> HIDE DEF c
<1>4. /\ FirstOf(c, MediaFrame, FirstMediaIn(c)) /\ LastOf(c, MediaFrame, LastMediaIn(c))
      /\ LastOf(c, MetaFrame, LastMetaIn(c))
  BY <1>0, FirstMediaIs, LastMediaIs, LastMetaIs
<1>5. /\ FirstMediaIn(c) = IF FirstMediaIn(a) = NoFrame THEN FirstMediaIn(b) ELSE FirstMediaIn(a)
      /\ LastMediaIn(c) = IF LastMediaIn(b) = NoFrame THEN LastMediaIn(a) ELSE LastMediaIn(b)
      /\ LastMetaIn(c) = IF LastMetaIn(b) = NoFrame THEN LastMetaIn(a) ELSE LastMetaIn(b)
  BY <1>0, <1>2, <1>3, <1>4, FirstOfUnique, LastOfUnique
<1> QED  BY <1>5 DEF c

LEMMA FindInOne ==
    ASSUME NEW f \in Frame
    PROVE  /\ FirstMediaIn(<<f>>) = IF IsMedia(f) THEN f ELSE NoFrame
           /\ LastMediaIn(<<f>>) = IF IsMedia(f) THEN f ELSE NoFrame
           /\ LastMetaIn(<<f>>) = IF IsMeta(f) THEN f ELSE NoFrame
<1> DEFINE s == <<f>>
<1>1. /\ s \in Seq(Frame) /\ Len(s) \in Nat
      /\ FirstOf(s, MediaFrame, IF f \in MediaFrame THEN f ELSE NoFrame)
      /\ LastOf(s, MediaFrame, IF f \in MediaFrame THEN f ELSE NoFrame)
      /\ LastOf(s, MetaFrame, IF f \in MetaFrame THEN f ELSE NoFrame)
  BY OnlyOne, KindsOfFrames
<1> HIDE DEF s
<1>2. /\ FirstOf(s, MediaFrame, FirstMediaIn(s)) /\ LastOf(s, MediaFrame, LastMediaIn(s))
      /\ LastOf(s, MetaFrame, LastMetaIn(s))
  BY <1>1, FirstMediaIs, LastMediaIs, LastMetaIs
<1>3. /\ FirstMediaIn(s) = IF f \in MediaFrame THEN f ELSE NoFrame
      /\ LastMediaIn(s) = IF f \in MediaFrame THEN f ELSE NoFrame
      /\ LastMetaIn(s) = IF f \in MetaFrame THEN f ELSE NoFrame
  BY <1>1, <1>2, FirstOfUnique, LastOfUnique, KindsOfFrames
<1> QED  BY <1>3, KindsOfFrames DEF s

LEMMA FindInNone ==
    /\ FirstMediaIn(<<>>) = NoFrame /\ LastMediaIn(<<>>) = NoFrame /\ LastMetaIn(<<>>) = NoFrame
<1> DEFINE s == <<>>
<1>1. s \in Seq(Frame) /\ Len(s) = 0
  OBVIOUS
<1>2. \A i \in 1..0 : FALSE
  OBVIOUS
<1> HIDE DEF s
<1>3. /\ FirstOf(s, MediaFrame, FirstMediaIn(s)) /\ LastOf(s, MediaFrame, LastMediaIn(s))
      /\ LastOf(s, MetaFrame, LastMetaIn(s))
  BY <1>1, FirstMediaIs, LastMediaIs, LastMetaIs
<1>4. FirstMediaIn(s) = NoFrame /\ LastMediaIn(s) = NoFrame /\ LastMetaIn(s) = NoFrame
  BY <1>1, <1>2, <1>3 DEF FirstOf, LastOf
<1> QED  BY <1>4 DEF s

\* What is found is a frame of its kind, and both media frames are found or none.
LEMMA FoundKinds ==
    ASSUME NEW s \in Seq(Frame)
    PROVE  /\ FirstMediaIn(s) \in MaybeMedia /\ LastMediaIn(s) \in MaybeMedia
           /\ LastMetaIn(s) \in MaybeMeta
           /\ FirstMediaIn(s) = NoFrame <=> LastMediaIn(s) = NoFrame
<1>1. /\ FirstOf(s, MediaFrame, FirstMediaIn(s)) /\ LastOf(s, MediaFrame, LastMediaIn(s))
      /\ LastOf(s, MetaFrame, LastMetaIn(s))
  BY FirstMediaIs, LastMediaIs, LastMetaIs
<1>2. NoFrame \notin MediaFrame
  BY KindsOfFrames
<1>3. FirstMediaIn(s) \in MaybeMedia /\ LastMediaIn(s) \in MaybeMedia /\ LastMetaIn(s) \in MaybeMeta
  BY <1>1 DEF FirstOf, LastOf, MaybeMedia, MaybeMeta
<1>4. FirstMediaIn(s) = NoFrame <=> \A i \in 1..Len(s) : s[i] \notin MediaFrame
  BY <1>1, <1>2 DEF FirstOf
<1>5. LastMediaIn(s) = NoFrame <=> \A i \in 1..Len(s) : s[i] \notin MediaFrame
  BY <1>1, <1>2 DEF LastOf
<1> QED  BY <1>3, <1>4, <1>5

\* The metadata frame before place i, and its place.
LEMMA MetadataBeforeIs ==
    ASSUME NEW s \in Seq(Frame), NEW i \in 1..(Len(s) + 1)
    PROVE  LET k == MetadataBefore(s, i)
           IN  \/ k = 0 /\ \A j \in 1..(i - 1) : ~IsMeta(s[j])
               \/ k \in 1..(i - 1) /\ IsMeta(s[k]) /\ \A j \in (k + 1)..(i - 1) : ~IsMeta(s[j])
<1> DEFINE I == {j \in 1..(i - 1) : IsMeta(s[j])}
           k == MetadataBefore(s, i)
<1>0. Len(s) \in Nat /\ i - 1 \in Nat
  BY LenProperties
<1>1. k = IF I # {} THEN Max(I) ELSE 0
  BY DEF MetadataBefore, SelectLastInSubSeq
<1> HIDE DEF k
<1>2. ASSUME I = {}  PROVE k = 0 /\ \A j \in 1..(i - 1) : ~IsMeta(s[j])
  BY <1>1, <1>2
<1>3. ASSUME I # {}
      PROVE  k \in 1..(i - 1) /\ IsMeta(s[k]) /\ \A j \in (k + 1)..(i - 1) : ~IsMeta(s[j])
  <2>1. k \in I /\ \A j \in I : j <= k
    <3>1. I \in SUBSET (1..(i - 1))
      OBVIOUS
    <3> HIDE DEF I
    <3> QED  BY <1>0, <1>1, <1>3, <3>1, MaxOfInterval
  <2>2. k \in 1..(i - 1) /\ IsMeta(s[k])
    BY <2>1
  <2>3. ASSUME NEW j \in (k + 1)..(i - 1)  PROVE ~IsMeta(s[j])
    <3>1. j \in 1..(i - 1) /\ ~(j <= k)
      BY <1>0, <2>2
    <3> QED  BY <2>1, <3>1
  <2> QED  BY <2>2, <2>3
<1> QED  BY <1>2, <1>3 DEF k

-----------------------------------------------------------------------------
(* A sequence of frames against the history of what was accepted.          *)

Numbered(h) == h \in Seq(Frame) /\ \A i \in 1..Len(h) : h[i].id = i

\* Ordered, Gapless and InForce of GopCache, of any history; k is the place of the
\* metadata before place i.
OrderedIn(s, h) ==
    \A i \in 1..Len(s) : /\ s[i].id \in 1..Len(h) /\ s[i] = h[s[i].id]
                         /\ \A j \in 1..(i - 1) : s[j].id < s[i].id
GaplessIn(s, h, last) ==
    \A i \in 1..Len(s) : IsMedia(s[i]) =>
        \A k \in s[i].id..last : IsMedia(h[k]) => \E m \in 1..Len(s) : s[m] = h[k]
Before(s, i, k) ==
    k \in 1..(i - 1) /\ IsMeta(s[k]) /\ \A j \in (k + 1)..(i - 1) : ~IsMeta(s[j])
ForceIn(s, h) ==
    \A i \in 1..Len(s) : IsMedia(s[i]) =>
        \E k, l \in Nat : Before(s, i, k) /\ Before(h, s[i].id, l) /\ s[k] = h[l]

\* The frames of s are a piece of the history, up to its last-th frame.
Piece(s, h, last) == OrderedIn(s, h) /\ GaplessIn(s, h, last) /\ ForceIn(s, h)

\* The definitions of GopCache are these, of accepted.
LEMMA PieceIsThat ==
    ASSUME NEW s \in Seq(Frame), Numbered(accepted), NEW last \in 0..Len(accepted),
           Piece(s, accepted, last)
    PROVE  Ordered(s) /\ Gapless(s, last) /\ InForce(s)
<1>0. /\ DOMAIN s = 1..Len(s) /\ DOMAIN accepted = 1..Len(accepted) /\ Len(s) \in Nat
      /\ accepted \in Seq(Frame) /\ Len(accepted) \in Nat
  BY LenProperties DEF Numbered
<1>1. Ordered(s) /\ Gapless(s, last)
  BY <1>0 DEF Piece, OrderedIn, GaplessIn, Ordered, Gapless
<1>2. ASSUME NEW i \in 1..Len(s), IsMedia(s[i])
      PROVE  /\ MetadataBefore(accepted, s[i].id) > 0 /\ MetadataBefore(s, i) > 0
             /\ s[MetadataBefore(s, i)] = accepted[MetadataBefore(accepted, s[i].id)]
  <2> DEFINE kept == MetadataBefore(s, i)
             sent == MetadataBefore(accepted, s[i].id)
  <2>1. PICK k \in Nat, l \in Nat : /\ Before(s, i, k) /\ Before(accepted, s[i].id, l)
                                     /\ s[k] = accepted[l]
    BY <1>2 DEF Piece, ForceIn
  <2>2. i \in 1..(Len(s) + 1) /\ s[i].id \in 1..(Len(accepted) + 1)
    BY <1>0, <1>1 DEF Piece, OrderedIn
  <2>3. \/ kept = 0 /\ \A j \in 1..(i - 1) : ~IsMeta(s[j])
        \/ kept \in 1..(i - 1) /\ IsMeta(s[kept]) /\ \A j \in (kept + 1)..(i - 1) : ~IsMeta(s[j])
    BY <2>2, MetadataBeforeIs
  <2>4. \/ sent = 0 /\ \A j \in 1..(s[i].id - 1) : ~IsMeta(accepted[j])
        \/ /\ sent \in 1..(s[i].id - 1) /\ IsMeta(accepted[sent])
           /\ \A j \in (sent + 1)..(s[i].id - 1) : ~IsMeta(accepted[j])
    BY <1>0, <2>2, MetadataBeforeIs
  <2> HIDE DEF kept, sent
  <2>5. kept = k
    <3>1. kept # 0
      BY <2>1, <2>3 DEF Before
    <3>2. kept \in 1..(i - 1) /\ k \in 1..(i - 1) /\ ~(kept < k) /\ ~(k < kept)
      BY <2>1, <2>3, <3>1 DEF Before
    <3> QED  BY <3>2
  <2>6. sent = l
    <3> DEFINE n == s[i].id
    <3>1. n \in Nat /\ Before(accepted, n, l)
      BY <2>1, <2>2
    <3> HIDE DEF n
    <3>2. \/ sent = 0 /\ \A j \in 1..(n - 1) : ~IsMeta(accepted[j])
          \/ /\ sent \in 1..(n - 1) /\ IsMeta(accepted[sent])
             /\ \A j \in (sent + 1)..(n - 1) : ~IsMeta(accepted[j])
      BY <2>4 DEF n
    <3>3. sent # 0
      BY <3>1, <3>2 DEF Before
    <3>4. sent \in 1..(n - 1) /\ l \in 1..(n - 1) /\ ~(sent < l) /\ ~(l < sent)
      BY <3>1, <3>2, <3>3 DEF Before
    <3> QED  BY <3>4
  <2> QED
    <3>1. k > 0 /\ l > 0
      <4>1. k \in 1..(i - 1) /\ l \in 1..(s[i].id - 1)
        BY <2>1 DEF Before
      <4> QED  BY <4>1
    <3> QED  BY <2>1, <2>5, <2>6, <3>1 DEF kept, sent
<1>3. InForce(s)
  BY <1>0, <1>2 DEF InForce
<1> QED  BY <1>1, <1>3

\* A history that grows keeps its pieces.
LEMMA PieceGrows ==
    ASSUME NEW s \in Seq(Frame), NEW h, Numbered(h), NEW f \in Frame,
           NEW last \in 0..Len(h), Piece(s, h, last)
    PROVE  Piece(s, Append(h, f), last)
<1> DEFINE n == Len(h)
           t == Append(h, f)
<1>0. /\ n \in Nat /\ Len(t) = n + 1 /\ Len(s) \in Nat
      /\ \A i \in 1..n : t[i] = h[i]
  BY AppendProperties, LenProperties DEF Numbered
<1>1. 1..n \subseteq 1..Len(t)
  BY <1>0
<1> HIDE DEF t
<1>2. ASSUME NEW i \in 1..Len(s)  PROVE s[i].id \in 1..n /\ s[i].id \in Nat
  BY <1>0 DEF Piece, OrderedIn
<1>3. OrderedIn(s, t)
  BY <1>0, <1>1, <1>2 DEF Piece, OrderedIn
<1>4. GaplessIn(s, t, last)
  <2> SUFFICES ASSUME NEW i \in 1..Len(s), IsMedia(s[i]),
                      NEW k \in s[i].id..last, IsMedia(t[k])
               PROVE  \E m \in 1..Len(s) : s[m] = t[k]
    BY DEF GaplessIn
  <2>1. k \in 1..n
    BY <1>0, <1>2
  <2>2. t[k] = h[k]
    BY <1>0, <2>1
  <2> QED  BY <2>2 DEF Piece, GaplessIn
<1>5. ForceIn(s, t)
  <2> SUFFICES ASSUME NEW i \in 1..Len(s), IsMedia(s[i])
               PROVE  \E k, l \in Nat : Before(s, i, k) /\ Before(t, s[i].id, l) /\ s[k] = t[l]
    BY DEF ForceIn
  <2>1. PICK k \in Nat, l \in Nat : Before(s, i, k) /\ Before(h, s[i].id, l) /\ s[k] = h[l]
    BY DEF Piece, ForceIn
  <2> DEFINE d == s[i].id
  <2>2. d \in 1..n /\ Before(h, d, l)
    BY <1>2, <2>1
  <2> HIDE DEF d
  <2>3. \A j \in 1..(d - 1) : j \in 1..n
    BY <1>0, <2>2
  <2>4. l \in 1..(d - 1)
    BY <2>2 DEF Before
  <2>5. \A j \in (l + 1)..(d - 1) : j \in 1..(d - 1)
    BY <2>2, <2>4
  <2>6. Before(t, d, l) /\ t[l] = h[l]
    BY <1>0, <2>2, <2>3, <2>4, <2>5 DEF Before
  <2> QED  BY <2>1, <2>6 DEF d
<1> QED  BY <1>3, <1>4, <1>5 DEF Piece, t

\* The frame accepted next extends a piece that reaches the end of the history, a
\* media frame if both end under the same metadata.
LEMMA PieceExtends ==
    ASSUME NEW s \in Seq(Frame), NEW h, Numbered(h), NEW f \in Frame, f.id = Len(h) + 1,
           Piece(s, h, Len(h)),
           IsMedia(f) => LastMetaIn(s) = LastMetaIn(h) /\ LastMetaIn(s) # NoFrame
    PROVE  Piece(s \o <<f>>, Append(h, f), Len(h) + 1)
<1> DEFINE n == Len(h)
           t == Append(h, f)
           p == Len(s)
           c == s \o <<f>>
<1>0. /\ n \in Nat /\ Len(t) = n + 1 /\ t[n + 1] = f
      /\ \A i \in 1..n : t[i] = h[i]
  BY AppendProperties, LenProperties DEF Numbered
<1>1. /\ p \in Nat /\ Len(c) = p + 1 /\ c[p + 1] = f
      /\ \A i \in 1..p : c[i] = s[i]
  <2>1. /\ <<f>> \in Seq(Frame) /\ Len(<<f>>) = 1 /\ <<f>>[1] = f
    BY OnlyOne
  <2>2. /\ Len(c) = p + Len(<<f>>) /\ p \in Nat
        /\ \A i \in 1..p : c[i] = s[i]
        /\ \A i \in 1..Len(<<f>>) : c[p + i] = <<f>>[i]
    BY <2>1, Concatenated
  <2>3. 1 \in 1..1
    OBVIOUS
  <2> QED  BY <2>1, <2>2, <2>3
<1>2. Piece(s, t, n)
  <2>1. n \in 0..Len(h)
    BY <1>0
  <2> QED  BY <2>1, PieceGrows
<1> HIDE DEF t, c
<1>3. \A i \in 1..(p + 1) : i \in 1..p \/ i = p + 1
  BY <1>1
<1>4. \A i \in 1..p : s[i].id \in 1..n /\ s[i].id \in Nat
  BY <1>0 DEF Piece, OrderedIn
<1>5. OrderedIn(c, t)
  <2> SUFFICES ASSUME NEW i \in 1..(p + 1)
               PROVE  /\ c[i].id \in 1..(n + 1) /\ c[i] = t[c[i].id]
                      /\ \A j \in 1..(i - 1) : c[j].id < c[i].id
    BY <1>0, <1>1 DEF OrderedIn
  <2>1. CASE i \in 1..p
    <3>1. \A j \in 1..(i - 1) : j \in 1..p
      BY <1>1, <2>1
    <3>2. s[i].id \in 1..(n + 1) /\ s[i] = t[s[i].id] /\ \A j \in 1..(i - 1) : s[j].id < s[i].id
      BY <1>0, <1>2, <2>1 DEF Piece, OrderedIn
    <3> QED  BY <1>1, <2>1, <3>1, <3>2
  <2>2. CASE i = p + 1
    <3>1. \A j \in 1..(i - 1) : j \in 1..p
      BY <1>1, <2>2
    <3>2. \A j \in 1..p : c[j].id < n + 1
      BY <1>0, <1>1, <1>4
    <3> QED  BY <1>0, <1>1, <2>2, <3>1, <3>2
  <2> QED  BY <1>3, <2>1, <2>2
<1>6. GaplessIn(c, t, n + 1)
  <2> SUFFICES ASSUME NEW i \in 1..(p + 1), IsMedia(c[i]),
                      NEW k \in c[i].id..(n + 1), IsMedia(t[k])
               PROVE  \E m \in 1..(p + 1) : c[m] = t[k]
    BY <1>1 DEF GaplessIn
  <2>1. p + 1 \in 1..(p + 1)
    BY <1>1
  <2>2. CASE k = n + 1
    BY <1>0, <1>1, <2>1, <2>2
  <2>3. CASE k # n + 1
    <3>1. i \in 1..p
      <4>1. CASE i = p + 1
        <5>1. c[i].id = n + 1
          BY <1>1, <4>1
        <5> QED  BY <1>0, <2>3, <5>1
      <4> QED  BY <1>3, <4>1
    <3>2. k \in s[i].id..n /\ IsMedia(s[i])
      BY <1>0, <1>1, <1>4, <2>3, <3>1
    <3>3. PICK m \in 1..p : s[m] = t[k]
      BY <1>2, <3>1, <3>2 DEF Piece, GaplessIn
    <3> QED  BY <1>1, <3>3
  <2> QED  BY <2>2, <2>3
<1>7. ForceIn(c, t)
  <2> SUFFICES ASSUME NEW i \in 1..(p + 1), IsMedia(c[i])
               PROVE  \E k, l \in Nat : Before(c, i, k) /\ Before(t, c[i].id, l) /\ c[k] = t[l]
    BY <1>1 DEF ForceIn
  <2>1. CASE i \in 1..p
    <3>1. PICK k \in Nat, l \in Nat : Before(s, i, k) /\ Before(t, s[i].id, l) /\ s[k] = t[l]
      BY <1>1, <1>2, <2>1 DEF Piece, ForceIn
    <3>2. k \in 1..(i - 1) /\ \A j \in 1..(i - 1) : j \in 1..p
      BY <1>1, <2>1, <3>1 DEF Before
    <3>3. \A j \in (k + 1)..(i - 1) : j \in 1..(i - 1)
      BY <2>1, <3>2
    <3>4. Before(c, i, k) /\ c[k] = s[k]
      BY <1>1, <3>1, <3>2, <3>3 DEF Before
    <3> QED  BY <1>1, <2>1, <3>1, <3>4
  <2>2. CASE i = p + 1
    <3>0. IsMedia(f) /\ c[i].id = n + 1
      BY <1>1, <2>2
    <3>1. LastOf(s, MetaFrame, LastMetaIn(s)) /\ LastOf(h, MetaFrame, LastMetaIn(h))
      BY LastMetaIs DEF Numbered
    <3>2. PICK k \in 1..p : /\ s[k] = LastMetaIn(s) /\ s[k] \in MetaFrame
                            /\ \A j \in (k + 1)..p : s[j] \notin MetaFrame
      BY <3>0, <3>1 DEF LastOf
    <3>3. PICK l \in 1..n : /\ h[l] = LastMetaIn(h) /\ h[l] \in MetaFrame
                            /\ \A j \in (l + 1)..n : h[j] \notin MetaFrame
      BY <3>0, <3>1 DEF LastOf
    <3>4. (\A j \in 1..p : s[j] \in Frame) /\ (\A j \in 1..n : h[j] \in Frame)
      BY ElementOfSeq DEF Numbered
    <3>5. Before(c, p + 1, k)
      <4>1. k \in 1..((p + 1) - 1) /\ \A j \in (k + 1)..((p + 1) - 1) : j \in 1..p /\ j \in (k + 1)..p
        BY <1>1
      <4> QED  BY <1>1, <3>2, <3>4, <4>1, KindsOfFrames DEF Before
    <3>6. Before(t, n + 1, l)
      <4>1. l \in 1..((n + 1) - 1) /\ \A j \in (l + 1)..((n + 1) - 1) : j \in 1..n /\ j \in (l + 1)..n
        BY <1>0
      <4> QED  BY <1>0, <3>3, <3>4, <4>1, KindsOfFrames DEF Before
    <3>7. c[k] = t[l] /\ k \in Nat /\ l \in Nat
      BY <1>0, <1>1, <3>0, <3>2, <3>3
    <3> QED  BY <2>2, <3>0, <3>5, <3>6, <3>7
  <2> QED  BY <1>3, <2>1, <2>2
<1> QED  BY <1>5, <1>6, <1>7 DEF Piece, c, t

\* r is what is left of s, its i-th frame the one at at[i]: no media frame up to the
\* upTo-th is left out after the first, and no metadata that is in force.
LeftOf(at, r, s, upTo) ==
    /\ at \in [1..Len(r) -> 1..Len(s)]
    /\ \A i \in 1..Len(r) : r[i] = s[at[i]] /\ \A j \in 1..(i - 1) : at[j] < at[i]
    /\ \A i \in 1..Len(r) : IsMedia(r[i]) =>
          \A m \in at[i]..Len(s) : IsMedia(s[m]) /\ s[m].id <= upTo =>
             \E k \in 1..Len(r) : at[k] = m
    /\ \A i \in 1..Len(r), m \in 1..Len(s) : IsMedia(r[i]) /\ Before(s, at[i], m) =>
          \E k \in 1..Len(r) : Before(r, i, k) /\ r[k] = s[m]

LEMMA PieceOfPiece ==
    ASSUME NEW s \in Seq(Frame), NEW r \in Seq(Frame), NEW h, Numbered(h),
           NEW last \in 0..Len(h), NEW upTo \in 0..last, Piece(s, h, last),
           NEW at, LeftOf(at, r, s, upTo)
    PROVE  Piece(r, h, upTo)
<1> USE DEF LeftOf
<1>0. /\ Len(s) \in Nat /\ Len(r) \in Nat /\ Len(h) \in Nat /\ last \in Nat /\ upTo \in Nat
      /\ \A i \in 1..Len(r) : at[i] \in 1..Len(s) /\ at[i] \in Nat
  <2>1. Len(s) \in Nat /\ Len(r) \in Nat /\ Len(h) \in Nat
    BY LenProperties DEF Numbered
  <2>2. \A i \in 1..Len(r) : at[i] \in 1..Len(s)
    OBVIOUS
  <2> QED  BY <2>1, <2>2
<1>1. \A i \in 1..Len(s) : s[i].id \in 1..Len(h) /\ s[i].id \in Nat
  BY <1>0 DEF Piece, OrderedIn
<1>2. ASSUME NEW i \in 1..Len(s), NEW j \in 1..Len(s), i < j  PROVE s[i].id < s[j].id
  <2>1. i \in 1..(j - 1)
    BY <1>2
  <2> QED  BY <2>1 DEF Piece, OrderedIn
<1>3. OrderedIn(r, h)
  <2> SUFFICES ASSUME NEW i \in 1..Len(r)
               PROVE  /\ r[i].id \in 1..Len(h) /\ r[i] = h[r[i].id]
                      /\ \A j \in 1..(i - 1) : r[j].id < r[i].id
    BY DEF OrderedIn
  <2>1. r[i] = s[at[i]] /\ at[i] \in 1..Len(s)
    BY <1>0
  <2>2. r[i].id \in 1..Len(h) /\ r[i] = h[r[i].id]
    BY <2>1 DEF Piece, OrderedIn
  <2>3. ASSUME NEW j \in 1..(i - 1)  PROVE r[j].id < r[i].id
    <3>1. j \in 1..Len(r)
      BY <1>0
    <3>2. r[j] = s[at[j]] /\ at[j] \in 1..Len(s) /\ at[j] < at[i]
      BY <1>0, <3>1
    <3> QED  BY <1>2, <2>1, <3>2
  <2> QED  BY <2>2, <2>3
<1>4. GaplessIn(r, h, upTo)
  <2> SUFFICES ASSUME NEW i \in 1..Len(r), IsMedia(r[i]),
                      NEW k \in r[i].id..upTo, IsMedia(h[k])
               PROVE  \E m \in 1..Len(r) : r[m] = h[k]
    BY DEF GaplessIn
  <2>1. r[i] = s[at[i]] /\ at[i] \in 1..Len(s) /\ s[at[i]].id \in Nat
    BY <1>0, <1>1
  <2>2. k \in s[at[i]].id..last /\ k \in 1..Len(h)
    BY <1>0, <1>1, <2>1
  <2>3. PICK m \in 1..Len(s) : s[m] = h[k]
    BY <2>1, <2>2 DEF Piece, GaplessIn
  <2>4. s[m].id = k
    BY <2>2, <2>3 DEF Numbered
  <2>5. ~(m < at[i])
    <3> SUFFICES ASSUME m < at[i]  PROVE FALSE
      OBVIOUS
    <3>1. s[m].id < s[at[i]].id
      BY <1>2, <2>1
    <3> QED  BY <2>1, <2>2, <2>4, <3>1
  <2>6. m \in at[i]..Len(s) /\ IsMedia(s[m]) /\ s[m].id <= upTo
    BY <1>0, <2>1, <2>3, <2>4, <2>5
  <2>7. PICK q \in 1..Len(r) : at[q] = m
    BY <2>6
  <2> QED  BY <2>3, <2>7
<1>5. ForceIn(r, h)
  <2> SUFFICES ASSUME NEW i \in 1..Len(r), IsMedia(r[i])
               PROVE  \E k, l \in Nat : Before(r, i, k) /\ Before(h, r[i].id, l) /\ r[k] = h[l]
    BY DEF ForceIn
  <2>1. r[i] = s[at[i]] /\ at[i] \in 1..Len(s)
    BY <1>0
  <2>2. PICK m \in Nat, l \in Nat : /\ Before(s, at[i], m) /\ Before(h, s[at[i]].id, l)
                                     /\ s[m] = h[l]
    BY <2>1 DEF Piece, ForceIn
  <2>3. m \in 1..Len(s)
    BY <1>0, <2>1, <2>2 DEF Before
  <2>4. PICK k \in 1..Len(r) : Before(r, i, k) /\ r[k] = s[m]
    BY <2>2, <2>3
  <2>5. k \in Nat
    OBVIOUS
  <2> QED  BY <2>1, <2>2, <2>4, <2>5
<1> QED  BY <1>3, <1>4, <1>5 DEF Piece

\* The longer a piece, the more its beginning: cut after its last frame.
LEMMA PieceBegins ==
    ASSUME NEW a \in Seq(Frame), NEW b \in Seq(Frame), NEW h, Numbered(h),
           NEW last \in 0..Len(h), Piece(a \o b, h, last), NEW upTo \in 0..last,
           \A i \in 1..Len(b) : upTo < b[i].id
    PROVE  Piece(a, h, upTo)
<1> DEFINE s == a \o b
           n == Len(a)
           at == [i \in 1..n |-> i]
<1>0. /\ s \in Seq(Frame) /\ n \in Nat /\ Len(s) \in Nat /\ Len(s) = n + Len(b) /\ Len(b) \in Nat
      /\ \A i \in 1..n : i \in 1..Len(s) /\ s[i] = a[i]
      /\ \A i \in 1..Len(b) : s[n + i] = b[i]
      /\ \A i \in 1..Len(s) : i \in 1..n \/ i - n \in 1..Len(b)
  BY Concatenated
<1> HIDE DEF s
<1>1. /\ at \in [1..n -> 1..Len(s)]
      /\ \A i \in 1..n : at[i] = i
  BY <1>0
<1> HIDE DEF at
<1>2. \A i \in 1..n : a[i] = s[at[i]] /\ \A j \in 1..(i - 1) : at[j] < at[i]
  <2> SUFFICES ASSUME NEW i \in 1..n, NEW j \in 1..(i - 1)
               PROVE  a[i] = s[at[i]] /\ at[j] < at[i]
    BY <1>0, <1>1
  <2>1. j \in 1..n /\ j < i
    BY <1>0
  <2> QED  BY <1>0, <1>1, <2>1
<1>3. ASSUME NEW i \in 1..n, NEW m \in at[i]..Len(s), s[m].id <= upTo
      PROVE  \E k \in 1..n : at[k] = m
  <2>1. m \in 1..Len(s)
    BY <1>0, <1>1
  <2>2. m \in 1..n
    <3>1. CASE m - n \in 1..Len(b)
      <4>1. n + (m - n) = m
        BY <1>0, <2>1
      <4>2. s[m] = b[m - n] /\ upTo < b[m - n].id
        BY <1>0, <3>1, <4>1
      <4>3. s[m].id \in Nat /\ upTo \in Nat
        <5>1. s[m] \in Frame
          BY <1>0, <2>1, ElementOfSeq
        <5>2. Len(h) \in Nat
          BY LenProperties DEF Numbered
        <5> QED  BY <5>1, <5>2 DEF Frame
      <4> QED  BY <1>3, <4>2, <4>3
    <3> QED  BY <1>0, <2>1, <3>1
  <2> QED  BY <1>1, <2>2
<1>4. ASSUME NEW i \in 1..n, NEW m \in 1..Len(s), Before(s, at[i], m)
      PROVE  \E k \in 1..n : Before(a, i, k) /\ a[k] = s[m]
  <2>1. Before(s, i, m) /\ m \in 1..(i - 1) /\ \A j \in 1..(i - 1) : j \in 1..n
    BY <1>0, <1>1, <1>4 DEF Before
  <2>2. \A j \in (m + 1)..(i - 1) : j \in 1..(i - 1)
    BY <1>0, <2>1
  <2>3. Before(a, i, m) /\ a[m] = s[m] /\ m \in 1..n
    BY <1>0, <2>1, <2>2 DEF Before
  <2> QED  BY <2>3
<1>5. Piece(s, h, last)
  BY DEF s
<1>6. LeftOf(at, a, s, upTo)
  BY <1>1, <1>2, <1>3, <1>4 DEF LeftOf
<1> QED  BY <1>0, <1>5, <1>6, PieceOfPiece

\* Of two metadata frames in a row the first can go.
LEMMA PieceCollapses ==
    ASSUME NEW a \in Seq(Frame), NEW b \in Seq(Frame), NEW x \in Frame, NEW f \in Frame,
           IsMeta(x), IsMeta(f), NEW h, Numbered(h), NEW last \in 0..Len(h),
           Piece((a \o <<x>>) \o (<<f>> \o b), h, last)
    PROVE  Piece(a \o (<<f>> \o b), h, last)
<1> DEFINE s == (a \o <<x>>) \o (<<f>> \o b)
           t == <<f>> \o b
           ax == a \o <<x>>
           r == a \o t
           n == Len(a)
           m == Len(t)
           at == [i \in 1..(n + m) |-> IF i <= n THEN i ELSE i + 1]
<1>0. <<x>> \in Seq(Frame) /\ Len(<<x>>) = 1 /\ <<x>>[1] = x /\ 1 \in 1..1
      /\ <<f>> \in Seq(Frame) /\ Len(<<f>>) = 1 /\ <<f>>[1] = f
  BY OnlyOne
<1>1. t \in Seq(Frame) /\ m \in Nat /\ m > 0 /\ t[1] = f
  <2>1. /\ t \in Seq(Frame) /\ Len(t) = Len(<<f>>) + Len(b) /\ Len(b) \in Nat
        /\ \A i \in 1..Len(<<f>>) : t[i] = <<f>>[i]
    BY <1>0, Concatenated
  <2> QED  BY <1>0, <2>1
<1>2. /\ ax \in Seq(Frame) /\ Len(ax) = n + 1 /\ n \in Nat
      /\ \A i \in 1..n : ax[i] = a[i]
      /\ ax[n + 1] = x
  <2>1. /\ ax \in Seq(Frame) /\ Len(ax) = n + Len(<<x>>) /\ n \in Nat
        /\ \A i \in 1..n : ax[i] = a[i]
        /\ \A i \in 1..Len(<<x>>) : ax[n + i] = <<x>>[i]
    BY <1>0, Concatenated
  <2> QED  BY <1>0, <2>1
<1> HIDE DEF t, ax
<1>3. /\ s \in Seq(Frame) /\ Len(s) = n + 1 + m /\ Len(s) \in Nat
      /\ \A i \in 1..n : s[i] = a[i]
      /\ s[n + 1] = x
      /\ \A i \in 1..m : s[n + 1 + i] = t[i]
  <2>1. s = ax \o t
    BY DEF t, ax
  <2>2. /\ ax \o t \in Seq(Frame) /\ Len(ax \o t) = Len(ax) + m
        /\ \A i \in 1..Len(ax) : (ax \o t)[i] = ax[i]
        /\ \A i \in 1..m : (ax \o t)[Len(ax) + i] = t[i]
    BY <1>1, <1>2, Concatenated
  <2> HIDE DEF s, m, n
  <2>3. \A i \in 1..n : i \in 1..Len(ax)
    BY <1>2
  <2>4. n + 1 \in 1..Len(ax)
    BY <1>2
  <2> QED  BY <1>1, <1>2, <2>1, <2>2, <2>3, <2>4
<1>4. /\ r \in Seq(Frame) /\ Len(r) = n + m
      /\ \A i \in 1..n : r[i] = a[i]
      /\ \A i \in 1..m : r[n + i] = t[i]
  BY <1>1, Concatenated
<1> HIDE DEF s, r, n, m
<1>5. \A i \in 1..(n + m) : at[i] \in 1..Len(s) /\ at[i] = IF i <= n THEN i ELSE i + 1
  BY <1>1, <1>2, <1>3
<1>6. at \in [1..Len(r) -> 1..Len(s)]
  BY <1>4, <1>5
<1> HIDE DEF at
<1>7. ASSUME NEW i \in 1..Len(r)
      PROVE  r[i] = s[at[i]] /\ \A j \in 1..(i - 1) : at[j] < at[i]
  <2>1. CASE i <= n
    <3>1. i \in 1..n /\ i \in 1..(n + m)
      BY <1>1, <1>2, <2>1, <1>4
    <3>2. r[i] = s[at[i]]
      BY <1>3, <1>4, <1>5, <2>1, <3>1
    <3>3. ASSUME NEW j \in 1..(i - 1)  PROVE at[j] < at[i]
      <4>1. j \in 1..(n + m) /\ j <= n /\ j < i
        BY <1>1, <1>2, <3>1
      <4> QED  BY <1>5, <2>1, <3>1, <4>1
    <3> QED  BY <3>2, <3>3
  <2>2. CASE ~(i <= n)
    <3>1. i - n \in 1..m /\ n + (i - n) = i /\ n + 1 + (i - n) = i + 1 /\ i \in 1..(n + m)
      BY <1>1, <1>2, <2>2, <1>4
    <3>2. r[i] = s[at[i]]
      <4>1. r[n + (i - n)] = t[i - n] /\ s[n + 1 + (i - n)] = t[i - n] /\ at[i] = i + 1
        BY <1>3, <1>4, <1>5, <2>2, <3>1
      <4> QED  BY <3>1, <4>1
    <3>3. ASSUME NEW j \in 1..(i - 1)  PROVE at[j] < at[i]
      <4>1. j \in 1..(n + m) /\ j < i
        BY <1>1, <1>2, <3>1
      <4> QED  BY <1>5, <2>2, <3>1, <4>1
    <3> QED  BY <3>2, <3>3
  <2> QED  BY <2>1, <2>2
\* Every place but x's is kept.
<1>8. ASSUME NEW q \in 1..Len(s), q # n + 1  PROVE \E k \in 1..Len(r) : at[k] = q
  <2>1. CASE q <= n
    <3>1. q \in 1..(n + m)
      BY <1>1, <1>2, <2>1
    <3> QED  BY <1>4, <1>5, <2>1, <3>1
  <2>2. CASE ~(q <= n)
    <3>1. q - 1 \in 1..(n + m) /\ ~(q - 1 <= n) /\ (q - 1) + 1 = q
      BY <1>1, <1>2, <1>3, <1>8, <2>2
    <3> QED  BY <1>4, <1>5, <3>1
  <2> QED  BY <2>1, <2>2
<1>9. ~IsMedia(x) /\ ~IsMedia(f)
  BY KindsOfFrames
<1>10. ASSUME NEW i \in 1..Len(r), NEW q \in at[i]..Len(s), IsMedia(s[q])
       PROVE  \E k \in 1..Len(r) : at[k] = q
  <2>1. q \in 1..Len(s) /\ q # n + 1
    BY <1>3, <1>4, <1>5, <1>9, <1>10
  <2> QED  BY <1>8, <2>1
<1>11. ASSUME NEW i \in 1..Len(r), NEW q \in 1..Len(s), IsMedia(r[i]), Before(s, at[i], q)
       PROVE  \E k \in 1..Len(r) : Before(r, i, k) /\ r[k] = s[q]
  <2>0. r[i] = s[at[i]] /\ at[i] \in 1..Len(s) /\ q \in 1..(at[i] - 1)
    BY <1>4, <1>5, <1>7, <1>11 DEF Before
  <2>1. q # n + 1
    <3> SUFFICES ASSUME q = n + 1  PROVE FALSE
      OBVIOUS
    <3>1. s[n + 2] = f
      <4>1. 1 \in 1..m /\ n + 1 + 1 = n + 2
        BY <1>1, <1>2
      <4> QED  BY <1>1, <1>3, <4>1
    <3>2. at[i] # n + 2
      BY <1>9, <1>11, <2>0, <3>1
    <3>3. n + 2 \in (q + 1)..(at[i] - 1)
      BY <1>2, <1>3, <2>0, <3>2
    <3> QED  BY <1>11, <3>1, <3>3 DEF Before
  <2>2. PICK k \in 1..Len(r) : at[k] = q
    BY <1>8, <2>1
  <2>3. k \in 1..(i - 1)
    <3>1. at[k] < at[i] /\ at[k] \in Nat /\ at[i] \in Nat
      BY <1>3, <2>0, <2>2
    <3>2. ~(i < k) /\ i # k
      <4>1. CASE i < k
        <5>1. i \in 1..(k - 1)
          BY <1>1, <1>2, <1>4, <4>1
        <5>2. at[i] < at[k]
          BY <1>7, <5>1
        <5> QED  BY <3>1, <5>2
      <4> QED  BY <3>1, <4>1
    <3> QED  BY <1>1, <1>2, <1>4, <3>2
  <2>4. ASSUME NEW j \in (k + 1)..(i - 1)  PROVE ~IsMeta(r[j])
    <3>1. j \in 1..Len(r) /\ k \in 1..(j - 1) /\ j \in 1..(i - 1)
      BY <1>1, <1>2, <1>4, <2>3
    <3>2. r[j] = s[at[j]] /\ at[k] < at[j] /\ at[j] < at[i] /\ at[j] \in 1..Len(s)
      BY <1>4, <1>5, <1>7, <3>1
    <3>3. at[j] \in (q + 1)..(at[i] - 1)
      BY <1>3, <2>0, <2>2, <3>2
    <3> QED  BY <1>11, <3>2, <3>3 DEF Before
  <2>5. IsMeta(r[k]) /\ r[k] = s[q]
    BY <1>7, <1>11, <2>2 DEF Before
  <2> QED  BY <2>2, <2>3, <2>4, <2>5 DEF Before
<1>12. Piece(s, h, last) /\ last \in 0..last
  <2>1. Len(h) \in Nat
    BY LenProperties DEF Numbered
  <2> QED  BY <2>1 DEF s
<1>13. LeftOf(at, r, s, last)
  BY <1>6, <1>7, <1>10, <1>11 DEF LeftOf
<1>14. Piece(r, h, last)
  BY <1>3, <1>4, <1>12, <1>13, PieceOfPiece
<1> QED  BY <1>14 DEF r, t

\* Frames in front can go, all but the last metadata among them.
LEMMA PieceTrims ==
    ASSUME NEW a \in Seq(Frame), NEW b \in Seq(Frame), LastMetaIn(a) # NoFrame,
           NEW h, Numbered(h), NEW last \in 0..Len(h), Piece(a \o b, h, last)
    PROVE  Piece(<<LastMetaIn(a)>> \o b, h, last)
<1> DEFINE g == LastMetaIn(a)
           s == a \o b
           r == <<g>> \o b
           n == Len(a)
           m == Len(b)
<1>0. LastOf(a, MetaFrame, g)
  BY LastMetaIs
<1>1. PICK p \in 1..n : a[p] = g /\ g \in MetaFrame /\ \A j \in (p + 1)..n : a[j] \notin MetaFrame
  BY <1>0 DEF LastOf
<1>2. /\ s \in Seq(Frame) /\ n \in Nat /\ m \in Nat /\ Len(s) \in Nat /\ Len(s) = n + m
      /\ \A i \in 1..n : s[i] = a[i]
      /\ \A i \in 1..m : s[n + i] = b[i]
  BY Concatenated
<1>3. /\ r \in Seq(Frame) /\ Len(r) = 1 + m
      /\ r[1] = g
      /\ \A i \in 1..m : r[1 + i] = b[i]
  <2>1. /\ <<g>> \in Seq(Frame) /\ Len(<<g>>) = 1 /\ <<g>>[1] = g
    BY <1>1, OnlyOne, KindsOfFrames
  <2>2. /\ r \in Seq(Frame) /\ Len(r) = Len(<<g>>) + m
        /\ \A i \in 1..Len(<<g>>) : r[i] = <<g>>[i]
        /\ \A i \in 1..m : r[Len(<<g>>) + i] = b[i]
    BY <2>1, Concatenated
  <2>3. 1 \in 1..1
    OBVIOUS
  <2> QED  BY <2>1, <2>2, <2>3
<1> DEFINE at == [i \in 1..(1 + m) |-> IF i = 1 THEN p ELSE n + (i - 1)]
<1>4. Piece(s, h, last) /\ last \in 0..last
  <2>1. Len(h) \in Nat
    BY LenProperties DEF Numbered
  <2> QED  BY <2>1
<1>5. (\A i \in 1..n : a[i] \in Frame) /\ ~IsMedia(g)
  BY <1>1, ElementOfSeq, KindsOfFrames
<1> HIDE DEF s, r, n, m, g
<1>6. \A i \in 1..(1 + m) : at[i] \in 1..Len(s) /\ at[i] = IF i = 1 THEN p ELSE n + (i - 1)
  BY <1>1, <1>2
<1>7. at \in [1..Len(r) -> 1..Len(s)]
  BY <1>3, <1>6
<1> HIDE DEF at
<1>8. ASSUME NEW i \in 1..Len(r)
      PROVE  /\ r[i] = s[at[i]] /\ \A j \in 1..(i - 1) : at[j] < at[i]
             /\ i # 1 => i - 1 \in 1..m /\ at[i] > n
  <2>1. CASE i = 1
    <3>1. \A j \in 1..(i - 1) : FALSE
      BY <2>1
    <3>2. r[i] = s[at[i]]
      BY <1>1, <1>2, <1>3, <1>6, <2>1
    <3> QED  BY <2>1, <3>1, <3>2
  <2>2. CASE i # 1
    <3>1. i - 1 \in 1..m /\ 1 + (i - 1) = i /\ i \in 1..(1 + m) /\ i \in Nat
      BY <1>2, <1>3, <2>2
    <3>2. at[i] = n + (i - 1)
      BY <1>6, <2>2, <3>1
    <3>3. r[1 + (i - 1)] = b[i - 1] /\ s[n + (i - 1)] = b[i - 1]
      BY <1>2, <1>3, <3>1
    <3>4. ASSUME NEW j \in 1..(i - 1)  PROVE at[j] < at[i]
      <4>1. j \in 1..(1 + m) /\ j < i
        BY <1>2, <3>1
      <4> QED  BY <1>1, <1>2, <1>6, <3>1, <3>2, <4>1
    <3>5. at[i] > n
      BY <1>2, <3>1, <3>2
    <3> QED  BY <2>2, <3>1, <3>2, <3>3, <3>4, <3>5
  <2> QED  BY <2>1, <2>2
\* Every place beyond a is kept.
<1>9. ASSUME NEW q \in 1..Len(s), q > n
      PROVE  (q - n) + 1 \in 1..Len(r) /\ at[(q - n) + 1] = q
  <2>1. (q - n) + 1 \in 1..(1 + m) /\ (q - n) + 1 # 1 /\ n + (((q - n) + 1) - 1) = q
    BY <1>2, <1>9
  <2> QED  BY <1>3, <1>6, <2>1
<1>10. ASSUME NEW i \in 1..Len(r), IsMedia(r[i]), NEW q \in at[i]..Len(s)
       PROVE  \E k \in 1..Len(r) : at[k] = q
  <2>1. i # 1
    BY <1>3, <1>5, <1>10
  <2>2. at[i] > n /\ at[i] \in Nat
    BY <1>2, <1>3, <1>6, <1>8, <2>1
  <2>3. q \in 1..Len(s) /\ q > n
    BY <1>2, <2>2
  <2> QED  BY <1>9, <2>3
<1>11. ASSUME NEW i \in 1..Len(r), NEW q \in 1..Len(s), IsMedia(r[i]), Before(s, at[i], q)
       PROVE  \E k \in 1..Len(r) : Before(r, i, k) /\ r[k] = s[q]
  <2>1. i # 1
    BY <1>3, <1>5, <1>11
  <2>2. i \in Nat /\ i > 1 /\ i - 1 \in 1..m /\ at[i] = n + (i - 1) /\ at[i] > n
    BY <1>2, <1>3, <1>6, <1>8, <2>1
  <2>3. q \in 1..(at[i] - 1) /\ IsMeta(s[q]) /\ \A j \in (q + 1)..(at[i] - 1) : ~IsMeta(s[j])
    BY <1>11 DEF Before
  <2>4. ASSUME NEW j \in 2..(i - 1), q < n + (j - 1)  PROVE ~IsMeta(r[j])
    <3>1. j \in 1..Len(r) /\ j # 1 /\ j \in 1..(1 + m)
      BY <1>2, <1>3, <2>2
    <3>2. r[j] = s[at[j]] /\ at[j] = n + (j - 1)
      BY <1>6, <1>8, <3>1
    <3>3. n + (j - 1) \in (q + 1)..(at[i] - 1)
      <4>1. at[i] = n + (i - 1) /\ i \in Nat /\ n \in Nat /\ q \in Nat /\ q < n + (j - 1)
        BY <1>2, <2>2, <2>4
      <4> QED  BY <4>1
    <3> QED  BY <2>3, <3>2, <3>3
  <2>5. CASE q > n
    <3> DEFINE k == (q - n) + 1
    <3>1. k \in 1..Len(r) /\ at[k] = q
      BY <1>9, <2>5
    <3>2. r[k] = s[q]
      BY <1>8, <3>1
    <3>3. k \in 1..(i - 1)
      BY <1>2, <2>2, <2>3, <2>5
    <3>4. ASSUME NEW j \in (k + 1)..(i - 1)  PROVE ~IsMeta(r[j])
      <4>0. q \in Nat /\ n \in Nat /\ i \in Nat /\ j \in ((q - n) + 1 + 1)..(i - 1)
        BY <1>2, <2>2, <2>3
      <4>1. j \in 2..(i - 1) /\ q < n + (j - 1)
        BY <4>0, <2>5
      <4> QED  BY <2>4, <4>1
    <3> HIDE DEF k
    <3> QED  BY <2>3, <3>1, <3>2, <3>3, <3>4 DEF Before
  <2>6. CASE ~(q > n)
    <3>1. q \in 1..n /\ IsMeta(a[q]) /\ s[q] = a[q]
      BY <1>2, <2>3, <2>6
    <3>2. q = p
      <4>1. ~(p < q)
        <5>1. a[q] \in MetaFrame
          BY <1>5, <3>1, KindsOfFrames
        <5> QED  BY <1>1, <1>2, <3>1, <5>1
      <4>2. ~(q < p)
        <5> SUFFICES ASSUME q < p  PROVE FALSE
          OBVIOUS
        <5>1. p \in (q + 1)..(at[i] - 1) /\ s[p] = a[p]
          BY <1>1, <1>2, <2>2
        <5>2. IsMeta(a[p])
          BY <1>1, <1>5, KindsOfFrames
        <5> QED  BY <2>3, <5>1, <5>2
      <4> QED  BY <1>1, <1>2, <3>1, <4>1, <4>2
    <3>3. r[1] = s[q] /\ IsMeta(r[1]) /\ 1 \in 1..Len(r) /\ 1 \in 1..(i - 1)
      BY <1>1, <1>2, <1>3, <2>2, <2>3, <3>1, <3>2
    <3>4. ASSUME NEW j \in (1 + 1)..(i - 1)  PROVE ~IsMeta(r[j])
      <4>0. q \in Nat /\ n \in Nat /\ i \in Nat /\ q <= n
        BY <1>2, <2>2, <3>1
      <4>1. j \in 2..(i - 1) /\ q < n + (j - 1)
        BY <4>0
      <4> QED  BY <2>4, <4>1
    <3> QED  BY <3>3, <3>4 DEF Before
  <2> QED  BY <2>5, <2>6
<1>12. LeftOf(at, r, s, last)
  BY <1>7, <1>8, <1>10, <1>11 DEF LeftOf
<1>13. Piece(r, h, last)
  BY <1>2, <1>3, <1>4, <1>12, PieceOfPiece
<1> QED  BY <1>13 DEF r, g

LEMMA PieceOfNothing ==
    ASSUME NEW h, NEW last
    PROVE  Piece(<<>>, h, last)
<1>1. Len(<<>>) = 0 /\ \A i \in 1..0 : FALSE
  OBVIOUS
<1> QED  BY <1>1 DEF Piece, OrderedIn, GaplessIn, ForceIn

-----------------------------------------------------------------------------
(* A queue whose pointers agree with its frames.                           *)

\* An inter frame is only in a queue whose media begin with a keyframe.
KeyLed(q) ==
    \A i \in 1..Len(q.frames) :
        q.frames[i].kind = "inter" => HasMedia(q) /\ q.fmedia.kind = "key"

ExactQueue ==
    {q \in GoodQueue :
        /\ q.fmedia = FirstMediaIn(q.frames) /\ q.lmedia = LastMediaIn(q.frames)
        /\ q.lmeta = LastMetaIn(q.frames)
        /\ StartsWithMetadata(q) => q.fmeta = q.frames[1]
        /\ KeyLed(q)}

LEMMA EmptyQueueExact == EmptyQueue \in ExactQueue
<1>1. EmptyQueue.frames = <<>> /\ \A i \in 1..Len(<<>>) : FALSE
  BY DEF EmptyQueue
<1>2. KeyLed(EmptyQueue)
  BY <1>1 DEF KeyLed
<1> QED
  BY <1>2, EmptyQueueGood, FindInNone DEF EmptyQueue, ExactQueue, StartsWithMetadata

\* t is s with f pushed behind it: a metadata frame replaces one that s ends with.
PushedOn(s, t, f) ==
    \/ t = s \o <<f>>
    \/ \E a \in Seq(Frame), x \in Frame :
          IsMeta(x) /\ IsMeta(f) /\ s = a \o <<x>> /\ t = a \o <<f>>

\* What is found in a sequence once a frame is pushed.
LEMMA FindPushed ==
    ASSUME NEW s \in Seq(Frame), NEW t, NEW f \in Frame, PushedOn(s, t, f)
    PROVE  /\ t \in Seq(Frame) /\ Len(t) > 0
           /\ FirstMediaIn(t) = IF FirstMediaIn(s) = NoFrame /\ IsMedia(f) THEN f ELSE FirstMediaIn(s)
           /\ LastMediaIn(t) = IF IsMedia(f) THEN f ELSE LastMediaIn(s)
           /\ LastMetaIn(t) = IF IsMeta(f) THEN f ELSE LastMetaIn(s)
<1>1. f # NoFrame /\ (IsMedia(f) <=> ~IsMeta(f)) /\ <<f>> \in Seq(Frame) /\ Len(<<f>>) = 1
  BY KindsOfFrames, OnlyOne
<1>2. ASSUME NEW a \in Seq(Frame)
      PROVE  /\ a \o <<f>> \in Seq(Frame) /\ Len(a \o <<f>>) > 0
             /\ FirstMediaIn(a \o <<f>>) =
                   IF FirstMediaIn(a) = NoFrame /\ IsMedia(f) THEN f ELSE FirstMediaIn(a)
             /\ LastMediaIn(a \o <<f>>) = IF IsMedia(f) THEN f ELSE LastMediaIn(a)
             /\ LastMetaIn(a \o <<f>>) = IF IsMeta(f) THEN f ELSE LastMetaIn(a)
  <2>1. a \o <<f>> \in Seq(Frame) /\ Len(a \o <<f>>) = Len(a) + 1 /\ Len(a) \in Nat
    BY <1>1, Concatenated
  <2>2. Len(a \o <<f>>) > 0
    <3> DEFINE p == Len(a)
    <3> HIDE DEF p
    <3>1. p \in Nat => p + 1 > 0
      OBVIOUS
    <3> QED  BY <2>1, <3>1 DEF p
  <2> QED  BY <1>1, <2>1, <2>2, FindInConcat, FindInOne
<1>3. CASE t = s \o <<f>>
  BY <1>2, <1>3
<1>4. ASSUME NEW a \in Seq(Frame), NEW x \in Frame,
             IsMeta(x), IsMeta(f), s = a \o <<x>>, t = a \o <<f>>
      PROVE  /\ t \in Seq(Frame) /\ Len(t) > 0
             /\ FirstMediaIn(t) = FirstMediaIn(s) /\ LastMediaIn(t) = LastMediaIn(s)
             /\ LastMetaIn(t) = f
  <2>1. <<x>> \in Seq(Frame) /\ ~IsMedia(x)
    BY <1>4, KindsOfFrames, OnlyOne
  <2>2. FirstMediaIn(s) = FirstMediaIn(a) /\ LastMediaIn(s) = LastMediaIn(a)
    BY <1>4, <2>1, FindInConcat, FindInOne
  <2> QED  BY <1>1, <1>2, <1>4, <2>2
<1> QED  BY <1>1, <1>3, <1>4 DEF PushedOn

\* A push behind the second of two sequences in a row.
LEMMA PushedBehind ==
    ASSUME NEW p \in Seq(Frame), NEW s \in Seq(Frame), NEW t, NEW f \in Frame, PushedOn(s, t, f)
    PROVE  PushedOn(p \o s, p \o t, f)
<1>1. <<f>> \in Seq(Frame)
  BY OnlyOne
<1>2. CASE t = s \o <<f>>
  <2>1. p \o t = (p \o s) \o <<f>>
    BY <1>1, <1>2, ConcatAssociative
  <2> QED  BY <2>1 DEF PushedOn
<1>3. ASSUME NEW a \in Seq(Frame), NEW x \in Frame,
             IsMeta(x), IsMeta(f), s = a \o <<x>>, t = a \o <<f>>
      PROVE  PushedOn(p \o s, p \o t, f)
  <2>1. <<x>> \in Seq(Frame) /\ p \o a \in Seq(Frame)
    BY OnlyOne, Concatenated
  <2>2. p \o s = (p \o a) \o <<x>> /\ p \o t = (p \o a) \o <<f>>
    BY <1>1, <1>3, <2>1, ConcatAssociative
  <2> QED  BY <1>3, <2>1, <2>2 DEF PushedOn
<1> QED  BY <1>2, <1>3 DEF PushedOn

\* What is pushed on is what was there, and the frame.
LEMMA PushedFrames ==
    ASSUME NEW s \in Seq(Frame), NEW t, NEW f \in Frame, PushedOn(s, t, f)
    PROVE  /\ \A i \in 1..Len(t) : t[i] = f \/ \E j \in 1..Len(s) : t[i] = s[j]
           /\ \E i \in 1..Len(t) : t[i] = f
           /\ \A j \in 1..Len(s) : IsMedia(s[j]) => \E i \in 1..Len(t) : t[i] = s[j]
<1>1. ASSUME NEW a \in Seq(Frame), NEW x \in Frame
      PROVE  /\ Len(a \o <<x>>) = Len(a) + 1 /\ Len(a) \in Nat
             /\ \A i \in 1..Len(a) : i \in 1..Len(a \o <<x>>) /\ (a \o <<x>>)[i] = a[i]
             /\ Len(a) + 1 \in 1..Len(a \o <<x>>) /\ (a \o <<x>>)[Len(a) + 1] = x
             /\ \A i \in 1..Len(a \o <<x>>) : i \in 1..Len(a) \/ i = Len(a) + 1
  <2>1. <<x>> \in Seq(Frame) /\ Len(<<x>>) = 1 /\ <<x>>[1] = x /\ 1 \in 1..1
    BY OnlyOne
  <2> DEFINE e == <<x>>
  <2>2. e \in Seq(Frame) /\ Len(e) = 1 /\ e[1] = x /\ 1 \in 1..Len(e)
    BY <2>1
  <2> HIDE DEF e
  <2> DEFINE n == Len(a)
             c == a \o e
  <2>5. /\ Len(c) = n + Len(e) /\ n \in Nat
        /\ \A i \in 1..n : i \in 1..Len(c) /\ c[i] = a[i]
        /\ \A i \in 1..Len(e) : n + i \in 1..Len(c) /\ c[n + i] = e[i]
    BY <2>2, Concatenated
  <2> HIDE DEF n, c
  <2>3. /\ Len(c) = n + 1 /\ n \in Nat
        /\ \A i \in 1..n : i \in 1..Len(c) /\ c[i] = a[i]
        /\ n + 1 \in 1..Len(c) /\ c[n + 1] = x
    BY <2>2, <2>5
  <2>4. \A i \in 1..(n + 1) : i \in 1..n \/ i = n + 1
    BY <2>3
  <2> QED  BY <2>3, <2>4 DEF n, c, e
<1>2. CASE t = s \o <<f>>
  BY <1>1, <1>2
<1>3. ASSUME NEW a \in Seq(Frame), NEW x \in Frame,
             IsMeta(x), IsMeta(f), s = a \o <<x>>, t = a \o <<f>>
      PROVE  /\ \A i \in 1..Len(t) : t[i] = f \/ \E j \in 1..Len(s) : t[i] = s[j]
             /\ \E i \in 1..Len(t) : t[i] = f
             /\ \A j \in 1..Len(s) : IsMedia(s[j]) => \E i \in 1..Len(t) : t[i] = s[j]
  <2>1. /\ \A i \in 1..Len(a) : /\ i \in 1..Len(s) /\ s[i] = a[i]
                                /\ i \in 1..Len(t) /\ t[i] = a[i]
        /\ Len(a) + 1 \in 1..Len(t) /\ t[Len(a) + 1] = f /\ s[Len(a) + 1] = x
        /\ \A i \in 1..Len(t) : i \in 1..Len(a) \/ i = Len(a) + 1
        /\ \A i \in 1..Len(s) : i \in 1..Len(a) \/ i = Len(a) + 1
    BY <1>1, <1>3
  <2>2. ~IsMedia(x)
    BY <1>3, KindsOfFrames
  <2> QED  BY <2>1, <2>2
<1> QED  BY <1>2, <1>3 DEF PushedOn

\* The first frame stays the first, unless it is collapsed.
LEMMA PushedFirst ==
    ASSUME NEW s \in Seq(Frame), NEW t, NEW f \in Frame, PushedOn(s, t, f)
    PROVE  \/ Len(s) > 0 /\ t[1] = s[1]
           \/ Len(t) = 1 /\ t[1] = f /\ (s = <<>> \/ (IsMeta(f) /\ Len(s) = 1))
<1>1. <<f>> \in Seq(Frame) /\ Len(<<f>>) = 1 /\ <<f>>[1] = f /\ 1 \in 1..1
  BY OnlyOne
<1>2. ASSUME NEW a \in Seq(Frame), NEW x \in Frame
      PROVE  /\ Len(a \o <<x>>) = Len(a) + 1 /\ Len(a) \in Nat
             /\ a # <<>> => Len(a) > 0 /\ (a \o <<x>>)[1] = a[1]
             /\ a = <<>> => Len(a \o <<x>>) = 1 /\ (a \o <<x>>)[1] = x
  <2> DEFINE n == Len(a)
             e == <<x>>
             c == a \o e
  <2>1. e \in Seq(Frame) /\ Len(e) = 1 /\ e[1] = x /\ 1 \in 1..1
    BY OnlyOne
  <2>2. /\ n \in Nat /\ Len(c) = n + Len(e)
        /\ \A i \in 1..n : c[i] = a[i]
        /\ \A i \in 1..Len(e) : c[n + i] = e[i]
    <3> HIDE DEF e
    <3> QED  BY <2>1, Concatenated
  <2>3. (a # <<>> => n > 0) /\ (a = <<>> => n = 0)
    BY LenProperties, EmptySeq
  <2> HIDE DEF n, e, c
  <2>4. c[n + 1] = x /\ Len(c) = n + 1
    BY <2>1, <2>2
  <2>5. a # <<>> => c[1] = a[1]
    <3>1. n > 0 => 1 \in 1..n
      BY <2>2
    <3> QED  BY <2>2, <2>3, <3>1
  <2>6. a = <<>> => Len(c) = 1 /\ c[1] = x
    BY <2>3, <2>4
  <2> QED  BY <2>2, <2>3, <2>4, <2>5, <2>6 DEF n, e, c
<1>3. CASE t = s \o <<f>>
  BY <1>2, <1>3
<1>4. ASSUME NEW a \in Seq(Frame), NEW x \in Frame,
             IsMeta(x), IsMeta(f), s = a \o <<x>>, t = a \o <<f>>
      PROVE  \/ Len(s) > 0 /\ t[1] = s[1]
             \/ Len(t) = 1 /\ t[1] = f /\ Len(s) = 1
  <2>1. CASE a = <<>>
    BY <1>2, <1>4, <2>1
  <2>2. CASE a # <<>>
    <3>1. t[1] = a[1] /\ s[1] = a[1] /\ Len(s) = Len(a) + 1 /\ Len(a) \in Nat
      BY <1>2, <1>4, <2>2
    <3> QED  BY <3>1
  <2> QED  BY <2>1, <2>2
<1> QED  BY <1>3, <1>4 DEF PushedOn

\* push_back pushes the frame behind the others and keeps the pointers exact.
LEMMA PushBackExact ==
    ASSUME NEW q \in ExactQueue, NEW f \in Frame,
           f.kind = "inter" => HasMedia(q) /\ q.fmedia.kind = "key"
    PROVE  /\ PushedOn(q.frames, PushBack(q, f).frames, f)
           /\ PushBack(q, f) \in ExactQueue
           /\ PushBack(q, f).fmedia =
                  IF HasMedia(q) THEN q.fmedia ELSE IF IsMedia(f) THEN f ELSE NoFrame
<1> DEFINE p == PushBack(q, f)
<1>1. q \in GoodQueue /\ q \in Queue /\ f # NoFrame /\ q.frames \in Seq(Frame)
  BY NoFrameAssumption DEF ExactQueue, GoodQueue, Queue
<1>2. /\ q.fmedia = FirstMediaIn(q.frames) /\ q.lmedia = LastMediaIn(q.frames)
      /\ q.lmeta = LastMetaIn(q.frames)
      /\ StartsWithMetadata(q) => q.fmeta = q.frames[1]
  BY DEF ExactQueue
<1>3. IsMedia(f) <=> ~IsMeta(f)
  BY KindsOfFrames
<1>4. p \in GoodQueue
  BY <1>1, PushBackGood
\* Either way the queue stays led by a keyframe.
<1> HIDE DEF p
<1>7. ASSUME PushedOn(q.frames, p.frames, f),
             p.fmedia = (IF HasMedia(q) THEN q.fmedia ELSE IF IsMedia(f) THEN f ELSE NoFrame)
      PROVE  KeyLed(p)
  <2> SUFFICES ASSUME NEW i \in 1..Len(p.frames), p.frames[i].kind = "inter"
               PROVE  HasMedia(q) /\ q.fmedia.kind = "key"
    BY <1>7 DEF KeyLed, HasMedia
  <2>1. CASE p.frames[i] = f
    BY <2>1
  <2>2. CASE p.frames[i] # f
    <3>1. PICK j \in 1..Len(q.frames) : p.frames[i] = q.frames[j]
      BY <1>1, <1>7, <2>2, PushedFrames
    <3>2. KeyLed(q)
      BY DEF ExactQueue
    <3> QED  BY <3>1, <3>2 DEF KeyLed
  <2> QED  BY <2>1, <2>2
<1> USE DEF p
<1>5. CASE IsMedia(f)
  <2>1. /\ p.frames = Append(q.frames, f) /\ p.lmeta = q.lmeta /\ p.lmedia = f
        /\ p.fmeta = q.fmeta
        /\ p.fmedia = IF HasMedia(q) THEN q.fmedia ELSE f
    BY <1>1, <1>5 DEF PushBack, PushMedia, Queue
  <2>2. p.frames = q.frames \o <<f>>
    BY <1>1, <2>1, AppendIsConcat
  <2>3. PushedOn(q.frames, p.frames, f)
    BY <2>2 DEF PushedOn
  <2> HIDE DEF p
  <2>4. p.fmedia = FirstMediaIn(p.frames) /\ p.lmedia = LastMediaIn(p.frames)
        /\ p.lmeta = LastMetaIn(p.frames)
    BY <1>1, <1>2, <1>3, <1>5, <2>1, <2>3, FindPushed DEF HasMedia
  <2>5. StartsWithMetadata(p) => p.fmeta = p.frames[1]
    <3>1. Len(q.frames) > 0 => p.frames[1] = q.frames[1]
      <4>1. Len(q.frames) > 0 => 1 \in 1..Len(q.frames)
        BY <1>1, LenProperties
      <4> QED  BY <1>1, <2>1, <4>1, AppendProperties
    <3>2. q.frames = <<>> => p.frames[1] = f
      <4>1. q.frames = <<>> => Len(q.frames) + 1 = 1
        OBVIOUS
      <4> QED  BY <1>1, <2>1, <4>1, AppendProperties
    <3>3. Len(q.frames) > 0 \/ q.frames = <<>>
      BY <1>1, LenProperties, EmptySeq
    <3> QED  BY <1>2, <1>3, <1>5, <2>1, <3>1, <3>2, <3>3 DEF StartsWithMetadata
  <2>6. KeyLed(p)
    BY <1>5, <1>7, <2>1, <2>3
  <2> QED  BY <1>4, <1>5, <2>1, <2>3, <2>4, <2>5, <2>6 DEF ExactQueue, p
<1>6. CASE ~IsMedia(f)
  <2> DEFINE kept == IF EndsWithMetadata(q) THEN Front(q.frames) ELSE q.frames
             fm == IF kept = <<>> \/ ~HasMetadata(q) THEN f ELSE q.fmeta
  <2>1. p = [q EXCEPT !.frames = Append(kept, f), !.fmeta = fm, !.lmeta = f]
    BY <1>6 DEF PushBack, PushMetadata
  <2>2. /\ kept \in Seq(Frame)
        /\ PushedOn(q.frames, kept \o <<f>>, f)
        /\ kept # <<>> => Len(q.frames) > 0 /\ kept[1] = q.frames[1]
        /\ kept = <<>> => (q.frames = <<>> \/ (Len(q.frames) = 1 /\ IsMeta(q.frames[1])))
    <3>1. CASE ~EndsWithMetadata(q)
      <4>1. kept = q.frames
        BY <3>1
      <4>2. PushedOn(q.frames, q.frames \o <<f>>, f)
        BY DEF PushedOn
      <4>3. q.frames # <<>> => Len(q.frames) > 0
        BY <1>1, LenProperties, EmptySeq
      <4> HIDE DEF kept
      <4> QED  BY <1>1, <4>1, <4>2, <4>3
    <3>2. CASE EndsWithMetadata(q)
      <4> DEFINE a == Front(q.frames)
                 x == Last(q.frames)
      <4>1. kept = a /\ IsMeta(x) /\ q.frames # <<>>
        BY <1>1, <3>2 DEF EndsWithMetadata
      <4>2. a \in Seq(Frame) /\ x \in Frame /\ q.frames = a \o <<x>> /\ q.frames = Append(a, x)
        BY <1>1, <4>1, FrontAndLast
      <4> HIDE DEF a, x, kept
      <4>3. PushedOn(q.frames, kept \o <<f>>, f)
        BY <1>3, <1>6, <4>1, <4>2 DEF PushedOn
      <4>4. /\ Len(q.frames) = Len(a) + 1 /\ Len(a) \in Nat
            /\ \A i \in 1..Len(a) : q.frames[i] = a[i]
            /\ q.frames[Len(a) + 1] = x
        BY <4>2, AppendProperties, LenProperties
      <4>5. a # <<>> => 1 \in 1..Len(a) /\ Len(q.frames) > 0
        BY <4>2, <4>4, LenProperties, EmptySeq
      <4>6. a = <<>> => Len(q.frames) = 1 /\ q.frames[1] = x
        <5>1. a = <<>> => Len(a) = 0
          BY EmptySeq
        <5> QED  BY <4>4, <5>1
      <4> QED  BY <4>1, <4>2, <4>3, <4>4, <4>5, <4>6
    <3> QED  BY <3>1, <3>2
  <2> HIDE DEF kept
  <2>3. /\ p.frames = Append(kept, f) /\ p.fmeta = fm /\ p.lmeta = f
        /\ p.fmedia = q.fmedia /\ p.lmedia = q.lmedia
    <3> HIDE DEF fm
    <3> QED  BY <1>1, <2>1 DEF Queue
  <2>4. p.frames = kept \o <<f>>
    BY <2>2, <2>3, AppendIsConcat
  <2> HIDE DEF p
  <2>5. PushedOn(q.frames, p.frames, f)
    BY <2>2, <2>4
  <2>6. p.fmedia = FirstMediaIn(p.frames) /\ p.lmedia = LastMediaIn(p.frames)
        /\ p.lmeta = LastMetaIn(p.frames)
    BY <1>1, <1>2, <1>3, <1>6, <2>3, <2>5, FindPushed
  <2>7. StartsWithMetadata(p) => p.fmeta = p.frames[1]
    <3>1. CASE kept = <<>>
      <4>1. Len(kept) + 1 = 1
        BY <3>1
      <4> QED  BY <2>2, <2>3, <3>1, <4>1, AppendProperties
    <3>2. CASE kept # <<>>
      <4>1. p.frames[1] = q.frames[1] /\ Len(q.frames) > 0
        <5>1. 1 \in 1..Len(kept)
          BY <2>2, <3>2, LenProperties, EmptySeq
        <5> QED  BY <2>2, <2>3, <3>2, <5>1, AppendProperties
      <4>2. q.frames[1] \in Frame
        <5>1. 1 \in 1..Len(q.frames)
          BY <1>1, <4>1, LenProperties
        <5> QED  BY <1>1, <5>1, ElementOfSeq
      <4>3. StartsWithMetadata(p) => q.fmeta = q.frames[1] /\ q.fmeta # NoFrame
        BY <1>2, <4>1, <4>2, NoFrameAssumption DEF StartsWithMetadata
      <4> QED  BY <2>3, <3>2, <4>1, <4>3 DEF HasMetadata
    <3> QED  BY <3>1, <3>2
  <2>8. p.fmedia = (IF HasMedia(q) THEN q.fmedia ELSE IF IsMedia(f) THEN f ELSE NoFrame)
    BY <1>6, <2>3 DEF HasMedia
  <2>9. KeyLed(p)
    BY <1>7, <2>5, <2>8
  <2> QED  BY <1>4, <2>5, <2>6, <2>7, <2>8, <2>9 DEF ExactQueue, p
<1> QED  BY <1>5, <1>6

\* push_front of a metadata frame on a queue that has none in front.
LEMMA PushFrontExact ==
    ASSUME NEW q \in ExactQueue, NEW f \in MetaFrame, ~StartsWithMetadata(q)
    PROVE  /\ PushFront(q, f).frames = <<f>> \o q.frames
           /\ PushFront(q, f) \in ExactQueue
           /\ PushFront(q, f).fmedia = q.fmedia
<1> DEFINE p == PushFront(q, f)
           s == <<f>> \o q.frames
<1>1. /\ q \in GoodQueue /\ q \in Queue /\ f # NoFrame /\ q.frames \in Seq(Frame)
      /\ f \in Frame /\ IsMeta(f) /\ ~IsMedia(f)
  BY KindsOfFrames DEF ExactQueue, GoodQueue, Queue
<1>2. /\ q.fmedia = FirstMediaIn(q.frames) /\ q.lmedia = LastMediaIn(q.frames)
      /\ q.lmeta = LastMetaIn(q.frames)
  BY DEF ExactQueue
<1>3. p \in GoodQueue
  BY <1>1, PushFrontGood
<1>4. /\ p.frames = s /\ p.fmeta = f /\ p.lmeta = (IF q.lmeta = NoFrame THEN f ELSE q.lmeta)
      /\ p.fmedia = q.fmedia /\ p.lmedia = q.lmedia
  BY <1>1 DEF PushFront, Queue
<1>5. /\ FirstMediaIn(s) = FirstMediaIn(q.frames) /\ LastMediaIn(s) = LastMediaIn(q.frames)
      /\ LastMetaIn(s) = IF q.lmeta = NoFrame THEN f ELSE q.lmeta
  <2>1. <<f>> \in Seq(Frame)
    BY <1>1, OnlyOne
  <2> QED  BY <1>1, <1>2, <2>1, FindInConcat, FindInOne
<1>6. s[1] = f
  BY <1>1
<1> HIDE DEF p, s
<1>8. KeyLed(p)
  <2>1. /\ <<f>> \in Seq(Frame) /\ Len(<<f>>) = 1 /\ <<f>>[1] = f
        /\ f.kind # "inter" /\ KeyLed(q)
    BY <1>1 DEF IsMeta, ExactQueue
  <2> DEFINE e == <<f>>
  <2>2. e \in Seq(Frame) /\ Len(e) = 1 /\ e[1] = f /\ \A i \in 1..Len(e) : e[i].kind # "inter"
    BY <2>1
  <2> HIDE DEF e
  <2>3. /\ \A i \in 1..Len(e) : s[i] = e[i]
        /\ \A i \in 1..Len(q.frames) : s[Len(e) + i] = q.frames[i]
        /\ \A i \in 1..Len(s) : i \in 1..Len(e) \/ i - Len(e) \in 1..Len(q.frames)
        /\ Len(s) \in Nat
    <3>1. s = e \o q.frames
      BY DEF s, e
    <3> QED  BY <1>1, <2>2, <3>1, Concatenated
  <2>4. ASSUME NEW i \in 1..Len(s), s[i].kind = "inter"
        PROVE  HasMedia(q) /\ q.fmedia.kind = "key"
    <3>1. i - Len(e) \in 1..Len(q.frames)
      BY <2>2, <2>3, <2>4
    <3>2. Len(e) + (i - Len(e)) = i
      BY <2>2, <2>3
    <3>3. s[i] = q.frames[i - Len(e)]
      BY <2>3, <3>1, <3>2
    <3> QED  BY <2>1, <2>4, <3>1, <3>3 DEF KeyLed
  <2> QED  BY <1>4, <2>4 DEF KeyLed, HasMedia
<1>7. p \in ExactQueue
  BY <1>2, <1>3, <1>4, <1>5, <1>6, <1>8 DEF ExactQueue
<1> QED  BY <1>4, <1>7 DEF p, s

-----------------------------------------------------------------------------
(* The frames of queues in a row.                                          *)

LEMMA FramesOfType ==
    ASSUME NEW gs \in Seq(Queue)
    PROVE  /\ [i \in 1..Len(gs) |-> gs[i].frames] \in Seq(Seq(Frame))
           /\ FramesOf(gs) \in Seq(Frame)
<1>1. Len(gs) \in Nat /\ \A i \in 1..Len(gs) : gs[i].frames \in Seq(Frame)
  <2>1. \A i \in 1..Len(gs) : gs[i] \in Queue
    BY ElementOfSeq
  <2> QED  BY <2>1, LenProperties DEF Queue
<1>2. [i \in 1..Len(gs) |-> gs[i].frames] \in Seq(Seq(Frame))
  BY <1>1, IsASeq
<1> QED  BY <1>2, FlattenType DEF FramesOf

LEMMA FramesOfAppend ==
    ASSUME NEW gs \in Seq(Queue), NEW q \in Queue
    PROVE  FramesOf(Append(gs, q)) = FramesOf(gs) \o q.frames
<1> DEFINE n == Len(gs)
           more == Append(gs, q)
           a == [i \in 1..n |-> gs[i].frames]
           b == [i \in 1..Len(more) |-> more[i].frames]
<1>1. /\ more \in Seq(Queue) /\ n \in Nat /\ Len(more) = n + 1
      /\ \A i \in 1..n : more[i] = gs[i]
      /\ more[n + 1] = q
  BY AppendProperties, LenProperties
<1>2. a \in Seq(Seq(Frame)) /\ b \in Seq(Seq(Frame)) /\ q.frames \in Seq(Frame)
  BY <1>1, FramesOfType DEF Queue
<1>3. Len(a) = n /\ Len(b) = n + 1 /\ \A i \in 1..n : a[i] = gs[i].frames
  BY <1>1
<1> HIDE DEF n, more
<1>4. b[n + 1] = q.frames /\ \A i \in 1..n : b[i] = gs[i].frames
  BY <1>1
<1> HIDE DEF a, b
<1>5. /\ Append(a, q.frames) \in Seq(Seq(Frame)) /\ Len(Append(a, q.frames)) = n + 1
      /\ \A i \in 1..n : Append(a, q.frames)[i] = a[i]
      /\ Append(a, q.frames)[n + 1] = q.frames
  BY <1>2, <1>3, AppendProperties
<1>6. \A i \in 1..(n + 1) : Append(a, q.frames)[i] = b[i]
  <2>1. \A i \in 1..(n + 1) : i \in 1..n \/ i = n + 1
    BY <1>1
  <2> QED  BY <1>3, <1>4, <1>5, <2>1
<1>7. b = Append(a, q.frames)
  BY <1>2, <1>3, <1>5, <1>6, SeqEqual
<1>8. FlattenSeq(b) = FlattenSeq(a) \o q.frames
  BY <1>2, <1>7, FlattenAppend
<1> QED  BY <1>8 DEF FramesOf, a, b, n, more

LEMMA FramesOfNone == FramesOf(<<>>) = <<>>
<1> DEFINE none == [i \in 1..Len(<<>>) |-> <<>>[i].frames]
<1>1. none \in Seq(Seq(Frame)) /\ Len(none) = 0
  <2>1. <<>> \in Seq(Queue) /\ Len(<<>>) = 0
    OBVIOUS
  <2> QED  BY <2>1, FramesOfType
<1> HIDE DEF none
<1>2. PICK f : FlattenTo(f, Frame, none) /\ FlattenSeq(none) = f[Len(none)]
  BY <1>1, FlattenExists
<1>3. FlattenSeq(none) = <<>>
  BY <1>1, <1>2 DEF FlattenTo
<1> QED  BY <1>3 DEF FramesOf, none

LEMMA FramesOfConcat ==
    ASSUME NEW gs \in Seq(Queue), NEW more \in Seq(Queue)
    PROVE  FramesOf(gs \o more) = FramesOf(gs) \o FramesOf(more)
<1> DEFINE P == {hs \in Seq(Queue) : FramesOf(gs \o hs) = FramesOf(gs) \o FramesOf(hs)}
<1>1. <<>> \in P
  <2>1. <<>> \in Seq(Queue) /\ gs \o <<>> = gs /\ FramesOf(gs) \o <<>> = FramesOf(gs)
    BY FramesOfType, ConcatEmptySeq
  <2> QED  BY <2>1, FramesOfNone
<1>2. ASSUME NEW hs \in Seq(Queue), NEW q \in Queue, hs \in P
      PROVE  Append(hs, q) \in P
  <2>1. gs \o hs \in Seq(Queue) /\ Append(hs, q) \in Seq(Queue) /\ <<q>> \in Seq(Queue)
    BY ConcatProperties, AppendProperties
  <2>2. gs \o Append(hs, q) = Append(gs \o hs, q)
    <3>1. Append(hs, q) = hs \o <<q>> /\ Append(gs \o hs, q) = (gs \o hs) \o <<q>>
      BY <2>1, AppendIsConcat
    <3> QED  BY <2>1, <3>1, ConcatAssociative
  <2>3. FramesOf(Append(gs \o hs, q)) = (FramesOf(gs) \o FramesOf(hs)) \o q.frames
    BY <1>2, <2>1, FramesOfAppend
  <2>4. FramesOf(Append(hs, q)) = FramesOf(hs) \o q.frames
    BY FramesOfAppend
  <2>5. (FramesOf(gs) \o FramesOf(hs)) \o q.frames = FramesOf(gs) \o (FramesOf(hs) \o q.frames)
    <3> DEFINE a == FramesOf(gs)
               b == FramesOf(hs)
               e == q.frames
    <3>1. a \in Seq(Frame) /\ b \in Seq(Frame) /\ e \in Seq(Frame)
      BY FramesOfType DEF Queue
    <3> HIDE DEF a, b, e
    <3>2. (a \o b) \o e = a \o (b \o e)
      BY <3>1, ConcatAssociative
    <3> QED  BY <3>2 DEF a, b, e
  <2> QED  BY <2>1, <2>2, <2>3, <2>4, <2>5
<1>3. Seq(Queue) \subseteq P
  <2> HIDE DEF P
  <2> QED  BY <1>1, <1>2, ListInduction
<1> QED  BY <1>3

\* The first queue's frames come first.
LEMMA FramesOfFirst ==
    ASSUME NEW q \in Queue, NEW more \in Seq(Queue)
    PROVE  FramesOf(<<q>> \o more) = q.frames \o FramesOf(more)
<1>1. <<>> \in Seq(Queue) /\ <<q>> \in Seq(Queue) /\ <<q>> = Append(<<>>, q)
  OBVIOUS
<1>2. FramesOf(<<q>>) = <<>> \o q.frames /\ q.frames \in Seq(Frame)
  BY <1>1, FramesOfAppend, FramesOfNone DEF Queue
<1>3. FramesOf(<<q>>) = q.frames
  BY <1>2, ConcatEmptySeq
<1> QED  BY <1>1, <1>3, FramesOfConcat

\* The last metadata of queues in a row is that of the last queue that has some.
LEMMA LastMetaOfFrames ==
    ASSUME NEW gs \in Seq(ExactQueue), NEW i \in 1..Len(gs), gs[i].lmeta # NoFrame,
           \A j \in (i + 1)..Len(gs) : gs[j].lmeta = NoFrame
    PROVE  LastMetaIn(FramesOf(gs)) = gs[i].lmeta
<1> DEFINE Right(hs) ==
             \A k \in 1..Len(hs) :
                (hs[k].lmeta # NoFrame /\ \A j \in (k + 1)..Len(hs) : hs[j].lmeta = NoFrame)
                   => LastMetaIn(FramesOf(hs)) = hs[k].lmeta
           P == {hs \in Seq(ExactQueue) : Right(hs)}
<1>1. <<>> \in P
  <2>1. <<>> \in Seq(ExactQueue) /\ \A k \in 1..Len(<<>>) : FALSE
    OBVIOUS
  <2> QED  BY <2>1
<1>2. ASSUME NEW hs \in Seq(ExactQueue), NEW q \in ExactQueue, hs \in P
      PROVE  Append(hs, q) \in P
  <2> DEFINE t == Append(hs, q)
             n == Len(hs)
  <2>1. /\ t \in Seq(ExactQueue) /\ Len(t) = n + 1 /\ n \in Nat
        /\ \A k \in 1..n : t[k] = hs[k]
        /\ t[n + 1] = q
    BY AppendProperties, LenProperties
  <2>2. /\ hs \in Seq(Queue) /\ q \in Queue /\ q.lmeta = LastMetaIn(q.frames)
        /\ q.frames \in Seq(Frame)
    <3>1. ExactQueue \subseteq Queue
      BY DEF ExactQueue, GoodQueue
    <3> QED  BY <3>1, SeqMonotonic DEF ExactQueue, Queue
  <2>3. FramesOf(t) = FramesOf(hs) \o q.frames /\ FramesOf(hs) \in Seq(Frame)
    BY <2>2, FramesOfAppend, FramesOfType
  <2>4. LastMetaIn(FramesOf(t)) = IF q.lmeta = NoFrame THEN LastMetaIn(FramesOf(hs)) ELSE q.lmeta
    BY <2>2, <2>3, FindInConcat
  <2>5. Right(hs)
    BY <1>2
  <2> HIDE DEF t
  <2>6. ASSUME NEW k \in 1..(n + 1), t[k].lmeta # NoFrame,
               \A j \in (k + 1)..(n + 1) : t[j].lmeta = NoFrame
        PROVE  LastMetaIn(FramesOf(t)) = t[k].lmeta
    <3>1. CASE k = n + 1
      BY <2>1, <2>4, <2>6, <3>1
    <3>2. CASE k # n + 1
      <4>1. k \in 1..n /\ n + 1 \in (k + 1)..(n + 1)
        BY <2>1, <3>2
      <4>2. q.lmeta = NoFrame
        BY <2>1, <2>6, <4>1
      <4>3. \A j \in (k + 1)..n : j \in (k + 1)..(n + 1) /\ j \in 1..n
        BY <2>1, <4>1
      <4>4. \A j \in (k + 1)..n : hs[j].lmeta = NoFrame
        BY <2>1, <2>6, <4>3
      <4>5. t[k] = hs[k]
        BY <2>1, <4>1
      <4> QED  BY <2>4, <2>5, <2>6, <4>1, <4>2, <4>4, <4>5
    <3> QED  BY <3>1, <3>2
  <2> QED  BY <2>1, <2>6 DEF t
<1>3. Seq(ExactQueue) \subseteq P
  <2> HIDE DEF P
  <2> QED  BY <1>1, <1>2, ListInduction
<1> QED  BY <1>3

-----------------------------------------------------------------------------
(* What a cache shows of the history.                                      *)

\* s is a piece of h up to its end, with the last media and metadata of h, at least
\* MinCache long if it does not begin with the first media frame of h.
Retained(s, h) ==
    FirstMediaIn(s) # FirstMediaIn(h) =>
        /\ FirstMediaIn(s) # NoFrame
        /\ LastMediaIn(s).dts - FirstMediaIn(s).dts >= MinCache

View(s, h) ==
    /\ s \in Seq(Frame) /\ Piece(s, h, Len(h))
    /\ LastMediaIn(s) = LastMediaIn(h) /\ LastMetaIn(s) = LastMetaIn(h)
    /\ s # <<>> => LastMetaIn(s) # NoFrame
    /\ Retained(s, h)

\* f can be accepted next.
NextOf(h, f) ==
    /\ f \in Frame /\ f.id = Len(h) + 1
    /\ IsMedia(f) /\ LastMediaIn(h) # NoFrame => f.dts >= LastMediaIn(h).dts

LEMMA ViewOfNothing == View(<<>>, <<>>) /\ Numbered(<<>>)
<1>1. <<>> \in Seq(Frame) /\ Len(<<>>) = 0 /\ \A i \in 1..0 : FALSE
  OBVIOUS
<1> QED  BY <1>1, PieceOfNothing, FindInNone DEF View, Numbered, Retained

LEMMA NumberedGrows ==
    ASSUME NEW h, Numbered(h), NEW f, NextOf(h, f)
    PROVE  /\ Numbered(Append(h, f)) /\ Len(Append(h, f)) = Len(h) + 1
           /\ PushedOn(h, Append(h, f), f)
<1> DEFINE n == Len(h)
           t == Append(h, f)
<1>1. /\ h \in Seq(Frame) /\ n \in Nat /\ f \in Frame /\ f.id = n + 1
      /\ \A i \in 1..n : h[i].id = i
  BY LenProperties DEF Numbered, NextOf
<1>2. /\ t \in Seq(Frame) /\ Len(t) = n + 1 /\ t[n + 1] = f
      /\ \A i \in 1..n : t[i] = h[i]
  BY <1>1, AppendProperties
<1>3. t = h \o <<f>>
  BY <1>1, AppendIsConcat
<1> HIDE DEF n, t
<1>4. \A i \in 1..(n + 1) : t[i].id = i
  <2>1. \A i \in 1..(n + 1) : i \in 1..n \/ i = n + 1
    BY <1>1
  <2> QED  BY <1>1, <1>2, <2>1
<1> QED  BY <1>2, <1>3, <1>4 DEF Numbered, PushedOn, n, t

\* A view follows the history.
LEMMA ViewPushed ==
    ASSUME NEW s, NEW h, Numbered(h), View(s, h), NEW f, NextOf(h, f),
           NEW t, PushedOn(s, t, f), IsMedia(f) => s # <<>>
    PROVE  View(t, Append(h, f))
<1> DEFINE n == Len(h)
           g == Append(h, f)
<1>1. /\ s \in Seq(Frame) /\ h \in Seq(Frame) /\ n \in Nat /\ f \in Frame /\ f.id = n + 1
      /\ (IsMedia(f) <=> ~IsMeta(f)) /\ f # NoFrame
  BY LenProperties, KindsOfFrames DEF View, Numbered, NextOf
<1>2. Numbered(g) /\ Len(g) = n + 1 /\ PushedOn(h, g, f) /\ g \in Seq(Frame)
  BY NumberedGrows DEF Numbered
<1>3. /\ t \in Seq(Frame) /\ Len(t) > 0
      /\ FirstMediaIn(t) = IF FirstMediaIn(s) = NoFrame /\ IsMedia(f) THEN f ELSE FirstMediaIn(s)
      /\ LastMediaIn(t) = IF IsMedia(f) THEN f ELSE LastMediaIn(s)
      /\ LastMetaIn(t) = IF IsMeta(f) THEN f ELSE LastMetaIn(s)
  BY <1>1, FindPushed
<1>4. /\ FirstMediaIn(g) = IF FirstMediaIn(h) = NoFrame /\ IsMedia(f) THEN f ELSE FirstMediaIn(h)
      /\ LastMediaIn(g) = IF IsMedia(f) THEN f ELSE LastMediaIn(h)
      /\ LastMetaIn(g) = IF IsMeta(f) THEN f ELSE LastMetaIn(h)
  BY <1>1, <1>2, FindPushed
<1>5. /\ LastMediaIn(s) = LastMediaIn(h) /\ LastMetaIn(s) = LastMetaIn(h)
      /\ s # <<>> => LastMetaIn(s) # NoFrame
      /\ Piece(s, h, n)
  BY DEF View
<1>6. Piece(s \o <<f>>, g, n + 1)
  BY <1>1, <1>5, PieceExtends
<1>7. Piece(t, g, n + 1)
  <2>1. CASE t = s \o <<f>>
    BY <1>6, <2>1
  <2>2. ASSUME NEW a \in Seq(Frame), NEW x \in Frame,
               IsMeta(x), IsMeta(f), s = a \o <<x>>, t = a \o <<f>>
        PROVE  Piece(t, g, n + 1)
    <3>1. <<f>> \o <<>> = <<f>> /\ <<>> \in Seq(Frame) /\ n + 1 \in 0..Len(g)
      <4>1. <<f>> \in Seq(Frame) /\ <<>> \in Seq(Frame)
        BY <1>1, OnlyOne
      <4> QED  BY <1>1, <1>2, <4>1, ConcatEmptySeq
    <3>2. Piece((a \o <<x>>) \o (<<f>> \o <<>>), g, n + 1)
      BY <1>6, <2>2, <3>1
    <3>3. Piece(a \o (<<f>> \o <<>>), g, n + 1)
      <4> DEFINE b == <<>>
      <4>1. b \in Seq(Frame) /\ Piece((a \o <<x>>) \o (<<f>> \o b), g, n + 1)
        BY <3>1, <3>2
      <4> HIDE DEF b, g, n
      <4>2. Piece(a \o (<<f>> \o b), g, n + 1)
        BY <1>1, <1>2, <2>2, <3>1, <4>1, PieceCollapses
      <4> QED  BY <4>2 DEF b
    <3> QED  BY <2>2, <3>1, <3>3
  <2> QED  BY <2>1, <2>2 DEF PushedOn
<1>8. Retained(t, g)
  <2>1. CASE ~IsMedia(f)
    BY <1>3, <1>4, <2>1 DEF View, Retained
  <2>2. CASE IsMedia(f) /\ FirstMediaIn(s) = NoFrame
    <3>1. FirstMediaIn(h) = NoFrame
      BY <1>1, <1>5, <2>2, FoundKinds
    <3> QED  BY <1>3, <1>4, <2>2, <3>1 DEF Retained
  <2>3. CASE IsMedia(f) /\ FirstMediaIn(s) # NoFrame
    <3> DEFINE x == FirstMediaIn(s)
               y == LastMediaIn(h)
    <3>1. /\ y # NoFrame /\ x # NoFrame /\ FirstMediaIn(h) # NoFrame /\ LastMediaIn(s) = y
          /\ x \in MaybeMedia /\ y \in MaybeMedia
      BY <1>1, <1>5, <2>3, FoundKinds
    <3>2. x.dts \in Int /\ y.dts \in Int /\ f.dts \in Int /\ f.dts >= y.dts
      BY <1>1, <2>3, <3>1 DEF MaybeMedia, MediaFrame, Frame, NextOf
    <3>3. FirstMediaIn(t) = x /\ LastMediaIn(t) = f /\ FirstMediaIn(g) = FirstMediaIn(h)
      BY <1>3, <1>4, <2>3, <3>1
    <3>4. x # FirstMediaIn(h) => y.dts - x.dts >= MinCache
      BY <3>1 DEF View, Retained
    <3> HIDE DEF x, y
    <3>5. y.dts - x.dts >= MinCache => f.dts - x.dts >= MinCache
      BY <3>2, MinCacheAssumption
    <3> QED  BY <3>1, <3>3, <3>4, <3>5 DEF Retained
  <2> QED  BY <2>1, <2>2, <2>3
<1>9. LastMediaIn(t) = LastMediaIn(g) /\ LastMetaIn(t) = LastMetaIn(g)
  BY <1>3, <1>4, <1>5
<1>10. LastMetaIn(t) # NoFrame
  BY <1>1, <1>3, <1>5
<1> HIDE DEF g, n
<1>11. View(t, g)
  BY <1>2, <1>3, <1>7, <1>8, <1>9, <1>10 DEF View
<1> QED  BY <1>11 DEF g

\* Dropping the front a of a view but for its last metadata, when the rest is long
\* enough.
LEMMA ViewTrimmed ==
    ASSUME NEW a \in Seq(Frame), NEW b \in Seq(Frame), NEW h, Numbered(h), View(a \o b, h),
           LastMetaIn(a) # NoFrame, FirstMediaIn(b) # NoFrame,
           LastMediaIn(h).dts - FirstMediaIn(b).dts >= MinCache
    PROVE  View(<<LastMetaIn(a)>> \o b, h)
<1> DEFINE m == LastMetaIn(a)
           s == a \o b
           r == <<m>> \o b
<1>1. m \in Frame /\ IsMeta(m) /\ ~IsMedia(m) /\ <<m>> \in Seq(Frame) /\ r \in Seq(Frame)
  <2>1. m \in MaybeMeta
    BY FoundKinds
  <2>2. m \in Frame /\ IsMeta(m) /\ ~IsMedia(m)
    BY <2>1, KindsOfFrames DEF MaybeMeta
  <2>3. <<m>> \in Seq(Frame)
    BY <2>2, OnlyOne
  <2> QED  BY <2>2, <2>3, Concatenated
<1>2. Piece(r, h, Len(h))
  <2>1. Len(h) \in 0..Len(h)
    BY LenProperties DEF Numbered
  <2> QED  BY <2>1, PieceTrims DEF View
<1>3. /\ FirstMediaIn(r) = FirstMediaIn(b)
      /\ LastMediaIn(r) = LastMediaIn(b) /\ LastMediaIn(s) = LastMediaIn(b)
      /\ LastMetaIn(r) = LastMetaIn(s) /\ LastMetaIn(r) # NoFrame
  <2> HIDE DEF m
  <2>1. FirstMediaIn(<<m>>) = NoFrame /\ LastMediaIn(<<m>>) = NoFrame /\ LastMetaIn(<<m>>) = m
    BY <1>1, FindInOne
  <2>2. LastMediaIn(b) # NoFrame
    BY FoundKinds
  <2> QED  BY <1>1, <2>1, <2>2, FindInConcat DEF m
<1> HIDE DEF r
<1>4. View(r, h)
  BY <1>1, <1>2, <1>3 DEF View, Retained
<1> QED  BY <1>4 DEF r

-----------------------------------------------------------------------------
(* The queues of a cache and its pointers.                                 *)

MediaQueue == {q \in ExactQueue : HasMedia(q)}

\* The closed GOPs have media; the pointers of every queue are exact.
Exact(c) == c \in Cache /\ c.gops \in Seq(MediaQueue) /\ c.current \in ExactQueue

\* A GOP is only closed for a media frame, which the next one begins with.
Filled(c) == c.gops # <<>> => HasMedia(c.current)

Pointers(c) ==
    /\ c.firstMedia = FirstMediaIn(AllFrames(c))
    /\ c.latestMedia = LastMediaIn(AllFrames(c))
    /\ c.firstMeta = IF AllFrames(c) = <<>> THEN NoFrame ELSE Head(AllFrames(c))

Trimmed(c) == MinCache > 0 => Poppable(c) = {}

LEMMA QueueKinds ==
    /\ MediaQueue \subseteq ExactQueue /\ ExactQueue \subseteq Queue /\ MediaQueue \subseteq Queue
    /\ Seq(MediaQueue) \subseteq Seq(ExactQueue) /\ Seq(ExactQueue) \subseteq Seq(Queue)
    /\ Seq(MediaQueue) \subseteq Seq(Queue)
<1>1. MediaQueue \subseteq ExactQueue /\ ExactQueue \subseteq Queue
  BY DEF MediaQueue, ExactQueue, GoodQueue
<1> QED  BY <1>1, SeqMonotonic

\* Queues of which the first has media.
LEMMA FramesBegin ==
    ASSUME NEW q \in MediaQueue, NEW more \in Seq(Queue)
    PROVE  /\ FirstMediaIn(FramesOf(<<q>> \o more)) = q.fmedia
           /\ FramesOf(<<q>> \o more) # <<>>
           /\ FramesOf(<<q>> \o more)[1] = q.frames[1]
           /\ q.frames # <<>> /\ q.fmedia # NoFrame
<1> DEFINE a == q.frames
           b == FramesOf(more)
<1>1. q \in Queue /\ a \in Seq(Frame) /\ b \in Seq(Frame)
  BY QueueKinds, FramesOfType DEF Queue
<1>2. FramesOf(<<q>> \o more) = a \o b
  BY <1>1, FramesOfFirst
<1>3. q.fmedia = FirstMediaIn(a) /\ q.fmedia # NoFrame
  BY DEF MediaQueue, ExactQueue, HasMedia
<1> HIDE DEF a, b
<1>4. a # <<>>
  BY <1>3, FindInNone
<1>5. 1 \in 1..Len(a)
  BY <1>1, <1>4, LenProperties, EmptySeq
<1>6. Len(a \o b) \in Nat /\ 1 \in 1..Len(a \o b) /\ (a \o b)[1] = a[1]
  BY <1>1, <1>5, Concatenated
<1>7. a \o b # <<>>
  BY <1>1, <1>4, ConcatEqualIffEmpty
<1>8. FirstMediaIn(a \o b) = q.fmedia
  BY <1>1, <1>3, FindInConcat
<1> QED  BY <1>2, <1>3, <1>4, <1>6, <1>7, <1>8 DEF a

\* All the frames of a cache.
LEMMA AllOf ==
    ASSUME NEW c, Exact(c)
    PROVE  /\ AllFrames(c) = FramesOf(c.gops) \o c.current.frames
           /\ AllFrames(c) \in Seq(Frame)
           /\ FramesOf(c.gops) \in Seq(Frame) /\ c.current.frames \in Seq(Frame)
           /\ Gops(c) \in Seq(ExactQueue)
           /\ c.gops = <<>> => AllFrames(c) = c.current.frames
           /\ c.gops # <<>> => /\ AllFrames(c) # <<>>
                               /\ AllFrames(c)[1] = c.gops[1].frames[1]
                               /\ FirstMediaIn(AllFrames(c)) # NoFrame
<1>1. /\ c.gops \in Seq(Queue) /\ c.current \in Queue /\ c.gops \in Seq(ExactQueue)
      /\ c.gops \in Seq(MediaQueue) /\ c.current \in ExactQueue
  BY QueueKinds DEF Exact
<1>2. Gops(c) \in Seq(ExactQueue) /\ Gops(c) \in Seq(Queue)
  BY <1>1, AppendProperties DEF Gops
<1>3. AllFrames(c) = FramesOf(c.gops) \o c.current.frames
  BY <1>1, FramesOfAppend DEF AllFrames, Gops
<1>4. /\ FramesOf(c.gops) \in Seq(Frame) /\ c.current.frames \in Seq(Frame)
      /\ AllFrames(c) \in Seq(Frame)
  BY <1>1, <1>2, FramesOfType DEF AllFrames, Queue
<1>5. ASSUME c.gops = <<>>  PROVE AllFrames(c) = c.current.frames
  BY <1>3, <1>4, <1>5, FramesOfNone, ConcatEmptySeq
<1>6. ASSUME c.gops # <<>>
      PROVE  /\ AllFrames(c) # <<>> /\ AllFrames(c)[1] = c.gops[1].frames[1]
             /\ FirstMediaIn(AllFrames(c)) # NoFrame
  <2> DEFINE q == c.gops[1]
             t == Tail(c.gops)
             more == Append(t, c.current)
  <2>1. c.gops = <<q>> \o t /\ q \in MediaQueue /\ t \in Seq(Queue)
    <3>1. c.gops = <<q>> \o t /\ q \in MediaQueue /\ t \in Seq(MediaQueue)
      BY <1>1, <1>6, FirstAndRest
    <3> QED  BY <3>1, QueueKinds
  <2>2. more \in Seq(Queue) /\ more = t \o <<c.current>> /\ <<c.current>> \in Seq(Queue)
    BY <1>1, <2>1, AppendProperties, AppendIsConcat
  <2>3. Gops(c) = c.gops \o <<c.current>>
    BY <1>1, AppendIsConcat DEF Gops
  <2>4. q \in Queue /\ <<q>> \in Seq(Queue)
    BY <2>1, QueueKinds
  <2> HIDE DEF q, t, more
  <2>5. Gops(c) = <<q>> \o more
    BY <2>1, <2>2, <2>3, <2>4, ConcatAssociative
  <2> QED  BY <2>1, <2>2, <2>5, FramesBegin DEF AllFrames, q
<1> QED  BY <1>2, <1>3, <1>4, <1>5, <1>6

\* PushFrame pushes the frame behind all the others and keeps the pointers.
LEMMA PushFrameExact ==
    ASSUME NEW c, Exact(c), Pointers(c), NEW f \in Frame,
           c.gops # <<>> /\ IsMeta(f) => HasMedia(c.current),
           f.kind = "inter" => HasMedia(c.current) /\ c.current.fmedia.kind = "key",
           FirstGood(PushFrame(c, f))
    PROVE  /\ Exact(PushFrame(c, f)) /\ Filled(PushFrame(c, f)) /\ Pointers(PushFrame(c, f))
           /\ PushedOn(AllFrames(c), AllFrames(PushFrame(c, f)), f)
           /\ PushFrame(c, f).gops = c.gops
           /\ ~IsMedia(f) /\ c.gops # <<>> =>
                 /\ PushFrame(c, f).current.fmedia = c.current.fmedia
                 /\ PushFrame(c, f).latestMedia = c.latestMedia
<1> DEFINE r == PushBack(c.current, f)
           o == [c EXCEPT !.current = r]
           d == PushFrame(c, f)
           s == AllFrames(c)
           t == AllFrames(d)
<1>1. /\ c \in Cache /\ c.gops \in Seq(MediaQueue) /\ c.current \in ExactQueue
      /\ (IsMedia(f) <=> ~IsMeta(f)) /\ f # NoFrame
  BY KindsOfFrames DEF Exact
<1>2. /\ PushedOn(c.current.frames, r.frames, f) /\ r \in ExactQueue /\ r \in Queue
      /\ r.fmedia = IF HasMedia(c.current) THEN c.current.fmedia
                    ELSE IF IsMedia(f) THEN f ELSE NoFrame
  BY <1>1, PushBackExact, QueueKinds
<1> HIDE DEF r
<1>3. /\ o \in Cache /\ o.gops = c.gops /\ o.current = r
      /\ o.firstMeta = c.firstMeta /\ o.firstMedia = c.firstMedia
      /\ o.latestMedia = c.latestMedia
  BY <1>1, <1>2 DEF Cache
<1>4. d = OnFrame(o, f)
  BY DEF PushFrame, r
<1> HIDE DEF o
<1>5. d \in Cache /\ d.gops = c.gops /\ d.current = r
  BY <1>3, <1>4, OnFrameGood
<1>6. Exact(d)
  BY <1>1, <1>2, <1>5 DEF Exact
<1>7. Filled(d)
  BY <1>1, <1>2, <1>5 DEF Filled, HasMedia
<1>8. /\ s = FramesOf(c.gops) \o c.current.frames /\ s \in Seq(Frame)
      /\ FramesOf(c.gops) \in Seq(Frame) /\ c.current.frames \in Seq(Frame)
      /\ c.gops # <<>> => s # <<>> /\ s[1] = c.gops[1].frames[1] /\ FirstMediaIn(s) # NoFrame
  BY AllOf
<1>9. /\ t = FramesOf(c.gops) \o r.frames /\ t \in Seq(Frame)
      /\ c.gops = <<>> => t = r.frames
      /\ c.gops # <<>> => t # <<>> /\ t[1] = c.gops[1].frames[1]
  <2> HIDE DEF d
  <2> QED  BY <1>5, <1>6, AllOf
<1> HIDE DEF s, t
<1>10. PushedOn(s, t, f)
  BY <1>2, <1>8, <1>9, PushedBehind
<1>11. /\ t \in Seq(Frame) /\ Len(t) > 0
       /\ FirstMediaIn(t) = IF FirstMediaIn(s) = NoFrame /\ IsMedia(f) THEN f ELSE FirstMediaIn(s)
       /\ LastMediaIn(t) = IF IsMedia(f) THEN f ELSE LastMediaIn(s)
  BY <1>8, <1>10, FindPushed
<1>12. /\ d.firstMedia = FirstMediaIn(t) /\ d.latestMedia = LastMediaIn(t)
       /\ d.firstMeta = t[1]
  <2>1. CASE c.gops = <<>>
    <3>1. /\ d.firstMeta = r.fmeta /\ d.firstMedia = r.fmedia /\ d.latestMedia = r.lmedia
      BY <1>3, <1>4, <2>1 DEF OnFrame, Cache
    <3>2. /\ r.fmedia = FirstMediaIn(r.frames) /\ r.lmedia = LastMediaIn(r.frames)
          /\ StartsWithMetadata(r) => r.fmeta = r.frames[1]
      BY <1>2 DEF ExactQueue
    <3>3. StartsWithMetadata(r)
      <4>1. FirstGop(d) = r
        BY <1>5, <2>1 DEF FirstGop, Gops
      <4> QED  BY <4>1 DEF FirstGood
    <3> QED  BY <1>9, <2>1, <3>1, <3>2, <3>3
  <2>2. CASE c.gops # <<>>
    <3>1. /\ c.firstMedia = FirstMediaIn(s) /\ c.latestMedia = LastMediaIn(s)
          /\ c.firstMeta = Head(s)
      BY <1>8, <2>2 DEF Pointers, s
    <3>2. Head(s) = s[1] /\ Head(s) \in Frame
      <4>1. s \in Seq(Frame) /\ s # <<>>
        BY <1>8, <2>2
      <4>2. Head(s) \in Frame
        BY <4>1, HeadTailProperties
      <4> QED  BY <4>1, <4>2
    <3>3. c.firstMedia # NoFrame /\ c.firstMeta # NoFrame
      BY <1>8, <2>2, <3>1, <3>2, NoFrameAssumption
    <3>4. CASE IsMeta(f)
      <4>1. d.firstMeta = c.firstMeta /\ d.firstMedia = c.firstMedia /\ d.latestMedia = c.latestMedia
        BY <1>3, <1>4, <2>2, <3>3, <3>4 DEF OnFrame, Cache
      <4> QED  BY <1>1, <1>8, <1>9, <1>11, <2>2, <3>1, <3>2, <3>4, <4>1
    <3>5. CASE ~IsMeta(f)
      <4>1. d.firstMeta = c.firstMeta /\ d.firstMedia = c.firstMedia /\ d.latestMedia = f
        BY <1>3, <1>4, <2>2, <3>3, <3>5 DEF OnFrame, Cache
      <4> QED  BY <1>1, <1>8, <1>9, <1>11, <2>2, <3>1, <3>2, <3>3, <3>5, <4>1
    <3> QED  BY <3>4, <3>5
  <2> QED  BY <2>1, <2>2
<1>13. Pointers(d)
  <2>1. t # <<>> /\ Head(t) = t[1]
    <3>1. t # <<>>
      BY <1>11
    <3> QED  BY <1>11, <3>1
  <2> QED  BY <1>12, <2>1 DEF Pointers, t
<1>14. ~IsMedia(f) /\ c.gops # <<>> =>
          d.current.fmedia = c.current.fmedia /\ d.latestMedia = c.latestMedia
  <2> SUFFICES ASSUME ~IsMedia(f), c.gops # <<>>
               PROVE  d.current.fmedia = c.current.fmedia /\ d.latestMedia = c.latestMedia
    OBVIOUS
  <2>1. d.latestMedia = c.latestMedia
    BY <1>11, <1>12 DEF Pointers, s
  <2> QED  BY <1>1, <1>2, <1>5, <2>1
<1> QED  BY <1>5, <1>6, <1>7, <1>10, <1>13, <1>14 DEF s, t

\* Closing the current GOP changes no frame and no pointer.
LEMMA CloseCurrentExact ==
    ASSUME NEW c, Exact(c), Pointers(c), HasMedia(c.current)
    PROVE  /\ Exact(CloseCurrent(c)) /\ Pointers(CloseCurrent(c))
           /\ AllFrames(CloseCurrent(c)) = AllFrames(c)
           /\ CloseCurrent(c).gops # <<>>
<1> DEFINE d == CloseCurrent(c)
<1>1. /\ c \in Cache /\ c.gops \in Seq(MediaQueue) /\ c.current \in ExactQueue
      /\ c.current \in MediaQueue /\ c.current \in Queue /\ EmptyQueue \in Queue
      /\ EmptyQueue \in ExactQueue
  BY EmptyQueueExact, QueueKinds DEF Exact, MediaQueue
<1>2. /\ Append(c.gops, c.current) \in Seq(MediaQueue) /\ Append(c.gops, c.current) \in Seq(Queue)
      /\ Append(c.gops, c.current) # <<>>
  BY <1>1, AppendProperties, QueueKinds
<1>3. /\ d \in Cache /\ d.gops = Append(c.gops, c.current) /\ d.current = EmptyQueue
      /\ d.firstMeta = c.firstMeta /\ d.firstMedia = c.firstMedia
      /\ d.latestMedia = c.latestMedia
  BY <1>1, <1>2 DEF CloseCurrent, Cache
<1> HIDE DEF d
<1>4. Exact(d)
  BY <1>1, <1>2, <1>3 DEF Exact
<1>5. AllFrames(d) = AllFrames(c)
  <2>1. AllFrames(d) = FramesOf(Gops(c)) \o <<>>
    <3>1. d.gops = Gops(c) /\ d.current.frames = <<>>
      BY <1>3 DEF EmptyQueue, Gops
    <3> QED  BY <1>4, <3>1, AllOf
  <2>2. FramesOf(Gops(c)) \in Seq(Frame)
    BY AllOf DEF AllFrames
  <2> QED  BY <2>1, <2>2, ConcatEmptySeq DEF AllFrames
<1> QED  BY <1>2, <1>3, <1>4, <1>5 DEF Pointers, d

-----------------------------------------------------------------------------
(* Trimming.                                                               *)

\* What can go is the leading GOPs up to the one PopCount says.
LEMMA PoppableIs ==
    ASSUME NEW c, Len(c.gops) \in Nat
    PROVE  /\ PopCount(c) \in 0..Len(c.gops) /\ Poppable(c) = 1..PopCount(c)
           /\ PopCount(c) > 0 => Spans(c, PopCount(c))
           /\ PopCount(c) < Len(c.gops) => ~Spans(c, PopCount(c) + 1)
<1> DEFINE n == Len(c.gops)
           P == Poppable(c)
<1>1. P \in SUBSET (1..n) /\ \A k \in P : \A j \in 1..k : j \in P
  <2>1. \A k \in 1..n : \A j \in 1..k : j \in 1..n /\ 1..j \subseteq 1..k
    OBVIOUS
  <2> QED  BY <2>1 DEF Poppable
<1>2. \E m \in 0..n : P = 1..m
  <2>1. CASE P = {}
    <3>1. 1..0 = {} /\ 0 \in 0..n
      OBVIOUS
    <3> HIDE DEF P
    <3> QED  BY <2>1, <3>1
  <2>2. CASE P # {}
    <3> HIDE DEF P
    <3> DEFINE m == Max(P)
    <3>1. m \in P /\ \A x \in P : x <= m
      BY <1>1, <2>2, MaxOfInterval
    <3> HIDE DEF m
    <3>2. m \in 1..n /\ m \in 0..n /\ \A j \in 1..m : j \in P
      BY <1>1, <3>1
    <3>3. \A x \in P : x \in 1..m
      <4>1. \A x \in P : x \in 1..n /\ x <= m
        BY <1>1, <3>1
      <4> QED  BY <3>2, <4>1
    <3>4. P = 1..m
      BY <3>2, <3>3
    <3> QED  BY <3>2, <3>4
  <2> QED  BY <2>1, <2>2
<1>3. PICK m \in 0..n : P = 1..m
  BY <1>2
<1>4. PopCount(c) = m
  <2>1. Cardinality(1..m) = m
    <3>1. m \in Int /\ 1 \in Int /\ m \in Nat /\ (m - 1 + 1) = m
      OBVIOUS
    <3>2. Cardinality(1..m) = IF 1 > m THEN 0 ELSE m - 1 + 1
      BY <3>1, FS_Interval
    <3> DEFINE v == Cardinality(1..m)
    <3> HIDE DEF v
    <3>3. v = IF 1 > m THEN 0 ELSE m - 1 + 1
      BY <3>2 DEF v
    <3>4. v = m
      BY <3>1, <3>3
    <3> QED  BY <3>4 DEF v
  <2> QED  BY <1>3, <2>1 DEF PopCount
<1>5. m > 0 => Spans(c, m)
  <2>1. m > 0 => m \in P /\ m \in 1..m
    BY <1>3
  <2> QED  BY <2>1 DEF Poppable
<1>6. m < n => ~Spans(c, m + 1)
  <2> SUFFICES ASSUME m < n, Spans(c, m + 1)  PROVE FALSE
    OBVIOUS
  <2>1. m + 1 \in 1..n /\ m + 1 \notin 1..m
    OBVIOUS
  <2>2. ASSUME NEW j \in 1..(m + 1)  PROVE Spans(c, j)
    <3>1. CASE j = m + 1
      BY <3>1
    <3>2. CASE j # m + 1
      <4>1. j \in 1..m /\ m \in 1..m
        BY <3>2
      <4>2. m \in Poppable(c)
        BY <1>3, <4>1
      <4> QED  BY <4>1, <4>2 DEF Poppable
    <3> QED  BY <3>1, <3>2
  <2>3. m + 1 \in P
    BY <2>1, <2>2 DEF Poppable
  <2> QED  BY <1>3, <2>1, <2>3
<1> QED  BY <1>3, <1>4, <1>5, <1>6

\* The metadata the pops hand on is the last metadata among what they drop.
LEMMA CarriedIs ==
    ASSUME NEW c, Exact(c), FirstGood(c), PopCount(c) # 0
    PROVE  CarriedMetadata(c) = LastMetaIn(FramesOf(SubSeq(Gops(c), 1, PopCount(c))))
<1> DEFINE G == Gops(c)
           k == PopCount(c)
           K == {i \in 1..k : G[i].lmeta # NoFrame}
           m == Max(K)
           popped == SubSeq(G, 1, k)
<1>1. G \in Seq(ExactQueue) /\ Len(c.gops) \in Nat /\ Len(G) = Len(c.gops) + 1
  <2>1. c.gops \in Seq(ExactQueue) /\ c.current \in ExactQueue
    BY QueueKinds DEF Exact
  <2> QED  BY <2>1, AppendProperties, LenProperties DEF Gops
<1>2. k \in Nat /\ k <= Len(c.gops) /\ k > 0 /\ k \in 0..Len(G)
  BY <1>1, PoppableIs
<1>3. popped \in Seq(ExactQueue) /\ Len(popped) = k /\ \A i \in 1..k : popped[i] = G[i]
  <2> HIDE DEF G, k
  <2> QED  BY <1>1, <1>2, Cut
<1>4. 1 \in K
  BY <1>2 DEF FirstGood, FirstGop
<1>5. m \in K /\ \A x \in K : x <= m
  <2>1. K \in SUBSET (1..k) /\ K # {}
    BY <1>4
  <2> HIDE DEF K, k
  <2> QED  BY <1>2, <2>1, MaxOfInterval
<1>6. CarriedMetadata(c) = G[m].lmeta
  BY DEF CarriedMetadata
<1> HIDE DEF G, k, m, popped
<1>7. m \in 1..k /\ G[m].lmeta # NoFrame /\ \A j \in (m + 1)..k : G[j].lmeta = NoFrame
  <2>1. ASSUME NEW j \in (m + 1)..k  PROVE G[j].lmeta = NoFrame
    <3>1. m \in 1..k
      BY <1>5
    <3>2. j \in 1..k /\ ~(j <= m)
      BY <1>2, <3>1
    <3> QED  BY <1>5, <3>2
  <2> QED  BY <1>5, <2>1
<1>8. /\ m \in 1..Len(popped) /\ popped[m].lmeta = G[m].lmeta
      /\ \A j \in (m + 1)..Len(popped) : popped[j].lmeta = NoFrame
  <2>1. \A j \in (m + 1)..k : j \in 1..k
    BY <1>2, <1>7
  <2> QED  BY <1>3, <1>7, <2>1
<1>9. LastMetaIn(FramesOf(popped)) = G[m].lmeta
  BY <1>3, <1>7, <1>8, LastMetaOfFrames
<1> QED  BY <1>6, <1>9 DEF popped, G, k

\* on_pop_gop finds the first media and metadata frame in the first queue.
LEMMA FirstOfKept ==
    ASSUME NEW q \in MediaQueue, StartsWithMetadata(q), NEW more \in Seq(MediaQueue)
    PROVE  /\ FirstMediaOf(<<q>> \o more) = q.fmedia
           /\ FirstMetaOf(<<q>> \o more) = q.frames[1]
<1> DEFINE kept == <<q>> \o more
<1>1. kept[1] = q /\ Len(kept) \in Nat /\ Len(kept) > 0
  <2>1. <<q>> \in Seq(MediaQueue) /\ Len(<<q>>) = 1 /\ <<q>>[1] = q /\ Len(more) \in Nat
    BY LenProperties
  <2>2. 1 \in 1..(Len(<<q>>) + Len(more)) /\ Len(<<q>>) + Len(more) = 1 + Len(more)
    BY <2>1
  <2> QED  BY <2>1, <2>2, ConcatProperties
<1>2. HasMedia(q) /\ q.fmeta = q.frames[1] /\ q.frames[1] \in Frame /\ HasMetadata(q)
  <2>1. HasMedia(q) /\ q.fmeta = q.frames[1] /\ q.frames \in Seq(Frame) /\ Len(q.frames) > 0
    BY DEF MediaQueue, ExactQueue, GoodQueue, Queue, StartsWithMetadata
  <2>2. 1 \in 1..Len(q.frames)
    BY <2>1, LenProperties
  <2>3. q.frames[1] \in Frame
    BY <2>1, <2>2, ElementOfSeq
  <2> QED  BY <2>1, <2>3, NoFrameAssumption DEF HasMetadata
<1> HIDE DEF kept
<1>3. ASSUME NEW I, I = {i \in 1..Len(kept) : HasMedia(kept[i])}
      PROVE  I # {} /\ Min(I) = 1
  <2>1. 1 \in I /\ I \in SUBSET Nat /\ \A i \in I : 1 <= i
    BY <1>1, <1>2, <1>3
  <2> DEFINE m == Min(I)
  <2>2. m \in I /\ \A i \in I : m <= i
    BY <2>1, MinOfNaturals
  <2> HIDE DEF m
  <2>3. m \in Nat /\ m <= 1 /\ 1 <= m
    BY <2>1, <2>2
  <2>4. m = 1
    BY <2>3
  <2> QED  BY <2>1, <2>4 DEF m
<1>4. ASSUME NEW I, I = {i \in 1..Len(kept) : HasMetadata(kept[i])}
      PROVE  I # {} /\ Min(I) = 1
  <2>1. 1 \in I /\ I \in SUBSET Nat /\ \A i \in I : 1 <= i
    BY <1>1, <1>2, <1>4
  <2> DEFINE m == Min(I)
  <2>2. m \in I /\ \A i \in I : m <= i
    BY <2>1, MinOfNaturals
  <2> HIDE DEF m
  <2>3. m \in Nat /\ m <= 1 /\ 1 <= m
    BY <2>1, <2>2
  <2>4. m = 1
    BY <2>3
  <2> QED  BY <2>1, <2>4 DEF m
<1>5. SelectInSeq(kept, HasMedia) = 1
  BY <1>3 DEF SelectInSeq
<1>6. SelectInSeq(kept, HasMetadata) = 1
  BY <1>4 DEF SelectInSeq
<1> QED  BY <1>1, <1>2, <1>5, <1>6 DEF FirstMediaOf, FirstMetaOf, kept

\* The queues the pops leave, the first with the metadata in front: they still
\* show the history.
LEMMA KeptShows ==
    ASSUME NEW c, Exact(c), Filled(c), Pointers(c), FirstGood(c), GoodCache(c),
           PopCount(c) # 0, NEW h, Numbered(h), View(AllFrames(c), h),
           NEW left, left = SubSeq(Gops(c), PopCount(c) + 1, Len(Gops(c))),
           NEW first, first = IF StartsWithMetadata(Head(left)) THEN Head(left)
                              ELSE PushFront(Head(left), CarriedMetadata(c))
    PROVE  /\ first \in MediaQueue /\ StartsWithMetadata(first)
           /\ Tail(left) \in Seq(MediaQueue)
           /\ View(FramesOf(<<first>> \o Tail(left)), h)
<1> DEFINE G == Gops(c)
           k == PopCount(c)
           popped == SubSeq(G, 1, k)
           l == left[1]
           rest == Tail(left)
           a == FramesOf(popped)
           b == FramesOf(left)
<1>1. Len(c.gops) \in Nat /\ k \in Nat /\ k <= Len(c.gops) /\ k > 0 /\ Spans(c, k)
  <2>1. Len(c.gops) \in Nat
    BY LenProperties DEF Exact
  <2> QED  BY <2>1, PoppableIs
<1>2. G \in Seq(MediaQueue) /\ Len(G) = Len(c.gops) + 1
  <2>1. c.gops # <<>>
    BY <1>1
  <2>2. c.gops \in Seq(MediaQueue) /\ c.current \in MediaQueue
    BY <2>1 DEF Exact, Filled, MediaQueue
  <2> QED  BY <2>2, AppendProperties DEF Gops
<1>3. k \in 0..Len(G) /\ Len(G) - k > 0
  BY <1>1, <1>2
<1>4. /\ popped \in Seq(MediaQueue) /\ left \in Seq(MediaQueue) /\ G = popped \o left
      /\ Len(left) = Len(G) - k /\ \A i \in 1..(Len(G) - k) : left[i] = G[k + i]
  <2> HIDE DEF G, k
  <2>1. left = SubSeq(G, k + 1, Len(G))
    BY DEF G, k
  <2>2. /\ SubSeq(G, 1, k) \in Seq(MediaQueue) /\ SubSeq(G, k + 1, Len(G)) \in Seq(MediaQueue)
        /\ G = SubSeq(G, 1, k) \o SubSeq(G, k + 1, Len(G))
        /\ Len(SubSeq(G, k + 1, Len(G))) = Len(G) - k
        /\ \A i \in 1..(Len(G) - k) : SubSeq(G, k + 1, Len(G))[i] = G[k + i]
    BY <1>2, <1>3, Cut
  <2> QED  BY <2>1, <2>2
<1>5. left # <<>> /\ l = G[k + 1]
  <2>1. 1 \in 1..(Len(G) - k) /\ Len(G) - k # 0
    BY <1>1, <1>2, <1>3
  <2> HIDE DEF G, k
  <2>2. Len(left) # 0
    BY <1>4, <2>1
  <2>3. left # <<>>
    BY <2>2
  <2> QED  BY <1>4, <2>1, <2>3
<1>6. /\ l \in MediaQueue /\ Head(left) = l /\ rest \in Seq(MediaQueue)
      /\ left = <<l>> \o rest
  BY <1>4, <1>5, FirstAndRest
<1>7. /\ l \in ExactQueue /\ l \in Queue /\ rest \in Seq(Queue) /\ l.frames \in Seq(Frame)
      /\ popped \in Seq(Queue) /\ left \in Seq(Queue) /\ HasMedia(l)
  BY <1>4, <1>6, QueueKinds DEF MediaQueue, Queue
<1>8. /\ a \in Seq(Frame) /\ b \in Seq(Frame) /\ AllFrames(c) = a \o b
      /\ b = l.frames \o FramesOf(rest) /\ FramesOf(rest) \in Seq(Frame)
      /\ FirstMediaIn(b) = l.fmedia /\ b # <<>> /\ b[1] = l.frames[1]
      /\ l.fmedia # NoFrame
  <2> HIDE DEF G, popped, l, rest
  <2>1. AllFrames(c) = FramesOf(popped) \o FramesOf(left)
    BY <1>4, <1>7, FramesOfConcat DEF AllFrames, G
  <2>2. FramesOf(left) = l.frames \o FramesOf(rest)
    BY <1>6, <1>7, FramesOfFirst
  <2>3. /\ FirstMediaIn(FramesOf(left)) = l.fmedia /\ FramesOf(left) # <<>>
        /\ FramesOf(left)[1] = l.frames[1] /\ l.fmedia # NoFrame
    BY <1>6, <1>7, FramesBegin
  <2> QED  BY <1>7, <2>1, <2>2, <2>3, FramesOfType
<1>9. LastMediaIn(h).dts - FirstMediaIn(b).dts >= MinCache
  <2>1. c.latestMedia.dts - l.fmedia.dts >= MinCache
    BY <1>1, <1>5 DEF Spans
  <2>2. c.latestMedia = LastMediaIn(h)
    BY DEF Pointers, View
  <2> QED  BY <1>8, <2>1, <2>2
<1>10. CarriedMetadata(c) = LastMetaIn(a) /\ CarriedMetadata(c) \in MetaFrame
       /\ CarriedMetadata(c) # NoFrame
  <2>1. CarriedMetadata(c) \in MetaFrame
    BY CarriedIsMetadata
  <2> QED  BY <2>1, CarriedIs, KindsOfFrames
<1>11. View(a \o b, h)
  BY <1>8
<1> HIDE DEF G, k, popped, l, rest, a, b
<1>12. CASE StartsWithMetadata(l)
  <2>1. first = l
    BY <1>6, <1>12
  <2>2. FramesOf(<<first>> \o rest) = b
    BY <1>6, <2>1 DEF b
  <2> DEFINE x == b[1]
             t == Tail(b)
             m == a \o <<x>>
  <2>3. x \in Frame /\ b = <<x>> \o t /\ t \in Seq(Frame)
    BY <1>8, FirstAndRest
  <2>4. IsMeta(x) /\ ~IsMedia(x) /\ x # NoFrame /\ <<x>> \in Seq(Frame)
    <3>1. IsMeta(x)
      BY <1>8, <1>12 DEF StartsWithMetadata
    <3> QED  BY <2>3, <3>1, KindsOfFrames, OnlyOne
  <2> HIDE DEF x, t
  <2>5. FirstMediaIn(t) = FirstMediaIn(b) /\ m \in Seq(Frame) /\ LastMetaIn(m) = x
    <3>1. FirstMediaIn(<<x>>) = NoFrame /\ LastMetaIn(<<x>>) = x
      BY <2>3, <2>4, FindInOne
    <3>2. m \in Seq(Frame)
      BY <1>8, <2>4, Concatenated
    <3>3. FirstMediaIn(<<x>> \o t) = FirstMediaIn(t)
      BY <2>3, <2>4, <3>1, FindInConcat
    <3>4. LastMetaIn(m) = x
      BY <1>8, <2>4, <3>1, FindInConcat
    <3> QED  BY <2>3, <3>2, <3>3, <3>4
  <2>6. View(m \o t, h)
    <3>1. (a \o <<x>>) \o t = a \o (<<x>> \o t)
      <4> DEFINE e == <<x>>
      <4>1. a \in Seq(Frame) /\ e \in Seq(Frame) /\ t \in Seq(Frame)
        BY <1>8, <2>3, <2>4
      <4> HIDE DEF e
      <4>2. (a \o e) \o t = a \o (e \o t)
        BY <4>1, ConcatAssociative
      <4> QED  BY <4>2 DEF e
    <3> QED  BY <1>11, <2>3, <3>1
  <2> HIDE DEF m
  <2>7. View(<<x>> \o t, h)
    BY <1>8, <1>9, <2>3, <2>4, <2>5, <2>6, ViewTrimmed
  <2> QED  BY <1>6, <1>12, <2>1, <2>2, <2>3, <2>7 DEF rest
<1>13. CASE ~StartsWithMetadata(l)
  <2> DEFINE g == CarriedMetadata(c)
  <2>1. first = PushFront(l, g)
    BY <1>6, <1>13
  <2>2. /\ first.frames = <<g>> \o l.frames /\ first \in ExactQueue
        /\ first.fmedia = l.fmedia
    BY <1>7, <1>10, <1>13, <2>1, PushFrontExact
  <2>3. first \in MediaQueue /\ StartsWithMetadata(first)
    <3>1. first \in MediaQueue
      BY <1>7, <2>2 DEF MediaQueue, HasMedia
    <3>2. StartsWithMetadata(first)
      BY <1>7, <1>10, <2>1, PushFrontGood DEF ExactQueue
    <3> QED  BY <3>1, <3>2
  <2> HIDE DEF g
  <2>4. FramesOf(<<first>> \o rest) = <<g>> \o b
    <3>1. FramesOf(<<first>> \o rest) = (<<g>> \o l.frames) \o FramesOf(rest)
      BY <1>7, <2>2, <2>3, FramesOfFirst, QueueKinds
    <3>2. <<g>> \in Seq(Frame)
      BY <1>10, OnlyOne, KindsOfFrames DEF g
    <3> DEFINE e == <<g>>
               u == l.frames
               v == FramesOf(rest)
    <3>3. e \in Seq(Frame) /\ u \in Seq(Frame) /\ v \in Seq(Frame)
      BY <1>7, <1>8, <3>2
    <3> HIDE DEF e, u, v
    <3>4. (e \o u) \o v = e \o (u \o v)
      BY <3>3, ConcatAssociative
    <3> QED  BY <1>8, <3>1, <3>4 DEF e, u, v
  <2>5. View(<<g>> \o b, h)
    BY <1>8, <1>9, <1>10, <1>11, ViewTrimmed DEF g
  <2> QED  BY <1>6, <2>3, <2>4, <2>5 DEF rest
<1> QED  BY <1>12, <1>13

\* update_gop keeps the view and the pointers, and leaves nothing to trim.
LEMMA UpdateGopExact ==
    ASSUME NEW c, Exact(c), Filled(c), Pointers(c), FirstGood(c), GoodCache(c),
           NEW h, Numbered(h), View(AllFrames(c), h)
    PROVE  /\ Exact(UpdateGop(c)) /\ Filled(UpdateGop(c)) /\ Pointers(UpdateGop(c))
           /\ Poppable(UpdateGop(c)) = {}
           /\ View(AllFrames(UpdateGop(c)), h)
<1> DEFINE k == PopCount(c)
<1>1. /\ Len(c.gops) \in Nat /\ k \in 0..Len(c.gops) /\ Poppable(c) = 1..k
      /\ k < Len(c.gops) => ~Spans(c, k + 1)
  <2>1. Len(c.gops) \in Nat
    BY LenProperties DEF Exact
  <2> QED  BY <2>1, PoppableIs
<1>2. CASE k = 0
  <2>1. Poppable(c) = {} /\ UpdateGop(c) = c
    BY <1>1, <1>2 DEF UpdateGop
  <2> QED  BY <2>1
<1>3. CASE k # 0
  <2> DEFINE G == Gops(c)
             n == Len(G)
             left == SubSeq(G, k + 1, n)
             first == IF StartsWithMetadata(Head(left)) THEN Head(left)
                      ELSE PushFront(Head(left), CarriedMetadata(c))
             rest == Tail(left)
             kept == <<first>> \o rest
             d == UpdateGop(c)
  <2>1. /\ first \in MediaQueue /\ StartsWithMetadata(first)
        /\ rest \in Seq(MediaQueue) /\ View(FramesOf(kept), h)
    BY <1>3, KeptShows
  <2>2. d = [c EXCEPT !.gops = Front(kept), !.current = Last(kept),
                      !.firstMedia = FirstMediaOf(kept),
                      !.firstMeta = FirstMetaOf(kept)]
    BY <1>3 DEF UpdateGop
  <2>3. c \in Cache /\ d \in Cache
    BY UpdateGopGood DEF GoodCache
  <2>4. G \in Seq(ExactQueue) /\ n = Len(c.gops) + 1
    <3>1. c.gops \in Seq(ExactQueue) /\ c.current \in ExactQueue
      BY QueueKinds DEF Exact
    <3> QED  BY <3>1, AppendProperties DEF Gops
  <2>5. k \in 0..n /\ n - k > 0
    BY <1>1, <2>4
  <2>6. /\ left \in Seq(ExactQueue) /\ Len(left) = n - k
        /\ \A i \in 1..(n - k) : left[i] = G[k + i]
    <3> HIDE DEF G, k
    <3> QED  BY <2>4, <2>5, Cut
  <2> HIDE DEF left
  <2>7. left # <<>>
    BY <2>5, <2>6
  <2>8. Len(rest) = (n - k) - 1 /\ \A i \in 1..((n - k) - 1) : rest[i] = left[i + 1]
    BY <2>6, <2>7, FirstAndRest
  <2> HIDE DEF first, rest
  <2>9. /\ kept \in Seq(MediaQueue) /\ Len(kept) = n - k
        /\ \A i \in 1..((n - k) - 1) : kept[i + 1] = rest[i]
    <3>1. <<first>> \in Seq(MediaQueue) /\ Len(<<first>>) = 1
      BY <2>1
    <3>2. /\ kept \in Seq(MediaQueue) /\ Len(kept) = Len(<<first>>) + Len(rest)
          /\ \A i \in 1..(Len(<<first>>) + Len(rest)) :
                kept[i] = IF i <= Len(<<first>>) THEN <<first>>[i] ELSE rest[i - Len(<<first>>)]
      <4> HIDE DEF n, k
      <4> QED  BY <2>1, <3>1, ConcatProperties
    <3>3. 1 + ((n - k) - 1) = n - k /\ n - k \in Nat
      BY <1>1, <2>4, <2>5
    <3> HIDE DEF kept, n, k
    <3>4. Len(kept) = n - k
      BY <2>8, <3>1, <3>2, <3>3
    <3>5. ASSUME NEW i \in 1..((n - k) - 1)  PROVE kept[i + 1] = rest[i]
      <4>1. i + 1 \in 1..(1 + Len(rest)) /\ ~(i + 1 <= 1) /\ (i + 1) - 1 = i
        BY <2>8, <3>3
      <4> QED  BY <3>1, <3>2, <4>1
    <3> QED  BY <3>2, <3>4, <3>5
  <2> HIDE DEF kept
  <2>10. /\ kept # <<>> /\ Front(kept) \in Seq(MediaQueue) /\ Last(kept) \in MediaQueue
         /\ Append(Front(kept), Last(kept)) = kept /\ Len(Front(kept)) = (n - k) - 1
    <3>1. kept # <<>>
      BY <2>5, <2>9
    <3> QED  BY <2>9, <3>1, FrontAndLast
  <2>11. /\ d.gops = Front(kept) /\ d.current = Last(kept) /\ d.latestMedia = c.latestMedia
         /\ d.firstMedia = FirstMediaOf(kept) /\ d.firstMeta = FirstMetaOf(kept)
    BY <2>2, <2>3 DEF Cache
  <2> HIDE DEF d
  <2>12. Gops(d) = kept /\ AllFrames(d) = FramesOf(kept)
    BY <2>10, <2>11 DEF Gops, AllFrames
  <2>13. Exact(d) /\ Filled(d)
    BY <2>3, <2>10, <2>11, QueueKinds DEF Exact, Filled, MediaQueue
  <2>14. Pointers(d)
    <3>1. FirstMediaOf(kept) = first.fmedia /\ FirstMetaOf(kept) = first.frames[1]
      BY <2>1, FirstOfKept DEF kept
    <3>2. /\ FirstMediaIn(FramesOf(kept)) = first.fmedia
          /\ FramesOf(kept) # <<>> /\ FramesOf(kept)[1] = first.frames[1]
      BY <2>1, FramesBegin, QueueKinds DEF kept
    <3>3. Head(FramesOf(kept)) = FramesOf(kept)[1]
      BY <2>1, <3>2, FirstAndRest DEF View
    <3>4. c.latestMedia = LastMediaIn(FramesOf(kept))
      BY <2>1 DEF Pointers, View
    <3> QED  BY <2>11, <2>12, <3>1, <3>2, <3>3, <3>4 DEF Pointers
  <2>15. Poppable(d) = {}
    <3> SUFFICES ASSUME NEW j \in Poppable(d)  PROVE FALSE
      OBVIOUS
    <3>1. j \in 1..((n - k) - 1) /\ \A i \in 1..j : Spans(d, i)
      BY <2>10, <2>11 DEF Poppable
    <3>2. 1 \in 1..j /\ 1 \in 1..((n - k) - 1) /\ k < Len(c.gops)
      BY <1>1, <2>4, <2>5, <3>1
    <3>3. Spans(d, 1)
      BY <3>1, <3>2
    <3>4. kept[1 + 1] = G[k + 1 + 1]
      <4>1. 1 + 1 \in 1..(n - k) /\ k + (1 + 1) = k + 1 + 1
        BY <1>1, <2>4, <2>5, <3>2
      <4>2. kept[1 + 1] = left[1 + 1]
        BY <2>8, <2>9, <3>2
      <4>3. left[1 + 1] = G[k + (1 + 1)]
        BY <2>6, <4>1
      <4> QED  BY <4>1, <4>2, <4>3
    <3>5. Spans(c, k + 1)
      BY <2>11, <2>12, <3>3, <3>4 DEF Spans
    <3> QED  BY <1>1, <3>2, <3>5
  <2>16. View(AllFrames(d), h)
    BY <2>1, <2>12
  <2> QED  BY <2>13, <2>14, <2>15, <2>16 DEF d
<1> QED  BY <1>2, <1>3

-----------------------------------------------------------------------------
(* update_gop as the code writes it, a pop and a call of itself: UpdateGop *)
(* unfolds into PopGop, so it is the recursion's only solution.            *)

\* The caches that update_gop meets: add_frame has just pushed a frame.
GoodCaches == {c \in Cache : GoodCache(c) /\ FirstGood(c)}

\* The queue that comes first after a pop.
NextGop(c) == IF StartsWithMetadata(Gops(c)[2]) THEN Gops(c)[2]
              ELSE PushFront(Gops(c)[2], Gops(c)[1].lmeta)

\* The queues of such a cache, one by one.
LEMMA GopsOfGood ==
    ASSUME NEW c \in GoodCaches
    PROVE  /\ Gops(c) \in Seq(GoodQueue) /\ Len(c.gops) \in Nat /\ Len(Gops(c)) = Len(c.gops) + 1
           /\ c.gops \in Seq(GoodQueue) /\ c.current \in GoodQueue
           /\ \A i \in 1..Len(c.gops) : Gops(c)[i] = c.gops[i]
           /\ Gops(c)[Len(c.gops) + 1] = c.current
           /\ \A i \in 1..(Len(c.gops) + 1) : Gops(c)[i] \in GoodQueue
           /\ StartsWithMetadata(Gops(c)[1]) /\ Gops(c)[1].lmeta # NoFrame
<1>1. c.gops \in Seq(GoodQueue) /\ c.current \in GoodQueue /\ FirstGood(c)
  BY DEF GoodCaches, GoodCache
<1>2. /\ Gops(c) \in Seq(GoodQueue) /\ Len(c.gops) \in Nat /\ Len(Gops(c)) = Len(c.gops) + 1
      /\ \A i \in 1..Len(c.gops) : Gops(c)[i] = c.gops[i]
      /\ Gops(c)[Len(c.gops) + 1] = c.current
  BY <1>1, AppendProperties, LenProperties DEF Gops
<1>3. \A i \in 1..(Len(c.gops) + 1) : Gops(c)[i] \in GoodQueue
  <2> DEFINE G == Gops(c)
             n == Len(c.gops) + 1
  <2>1. G \in Seq(GoodQueue) /\ Len(G) = n
    BY <1>2
  <2> HIDE DEF G, n
  <2>2. \A i \in 1..n : G[i] \in GoodQueue
    BY <2>1, ElementOfSeq
  <2> QED  BY <2>2 DEF G, n
<1> QED  BY <1>1, <1>2, <1>3 DEF FirstGood, FirstGop

\* The first queue after a pop is good and begins with metadata.
LEMMA NextGopGood ==
    ASSUME NEW c \in GoodCaches, CanPop(c)
    PROVE  /\ NextGop(c) \in GoodQueue /\ StartsWithMetadata(NextGop(c))
           /\ NextGop(c).lmeta = IF Gops(c)[2].lmeta # NoFrame THEN Gops(c)[2].lmeta
                                 ELSE Gops(c)[1].lmeta
           /\ Len(c.gops) > 0 /\ c.gops[1] = Gops(c)[1]
<1> DEFINE g == Gops(c)[1]
           h == Gops(c)[2]
           n == Len(c.gops)
<1>1. /\ n \in Nat /\ c.gops \in Seq(GoodQueue) /\ (\A i \in 1..n : Gops(c)[i] = c.gops[i])
      /\ (\A i \in 1..(n + 1) : Gops(c)[i] \in GoodQueue) /\ g.lmeta # NoFrame
  BY GopsOfGood
<1>2. n > 0
  <2>1. c.gops # <<>>
    BY DEF CanPop
  <2> QED  BY <1>1, <2>1, EmptySeq
<1> HIDE DEF n
<1>3. g \in GoodQueue /\ h \in GoodQueue /\ c.gops[1] = g
  <2>1. 1 \in 1..n /\ 1 \in 1..(n + 1) /\ 2 \in 1..(n + 1)
    BY <1>1, <1>2
  <2> QED  BY <1>1, <2>1
<1>4. NextGop(c) = IF StartsWithMetadata(h) THEN h ELSE PushFront(h, g.lmeta)
  BY DEF NextGop
<1> HIDE DEF g, h
<1>5. g.lmeta \in MetaFrame
  BY <1>1, <1>3 DEF GoodQueue, Queue, MaybeMeta
<1>6. CASE StartsWithMetadata(h)
  BY <1>2, <1>3, <1>4, <1>6 DEF GoodQueue, g, h, n
<1>7. CASE ~StartsWithMetadata(h)
  <2>1. PushFront(h, g.lmeta) \in GoodQueue /\ StartsWithMetadata(PushFront(h, g.lmeta))
    BY <1>3, <1>5, PushFrontGood
  <2>2. PushFront(h, g.lmeta).lmeta = IF h.lmeta = NoFrame THEN g.lmeta ELSE h.lmeta
    BY <1>3, <1>7 DEF PushFront, GoodQueue, Queue
  <2> QED  BY <1>2, <1>3, <1>4, <1>7, <2>1, <2>2 DEF g, h, n
<1> QED  BY <1>6, <1>7

\* One pop leaves the other queues as they are.
LEMMA PopGopIs ==
    ASSUME NEW c \in GoodCaches, CanPop(c)
    PROVE  \E gops \in Seq(GoodQueue), current \in GoodQueue :
              LET left == Append(gops, current)
              IN  /\ Len(gops) = Len(c.gops) - 1
                  /\ left[1] = NextGop(c)
                  /\ \A i \in 2..Len(c.gops) : left[i] = Gops(c)[i + 1]
                  /\ PopGop(c) = [c EXCEPT !.gops = gops, !.current = current,
                                           !.firstMedia = FirstMediaOf(left),
                                           !.firstMeta = FirstMetaOf(left)]
<1> DEFINE n == Len(c.gops)
           G == Gops(c)
           next == NextGop(c)
           rest == SubSeq(c.gops, 3, n)
           more == <<next>> \o rest
           e == <<>>
<1>1. /\ n \in Nat /\ n > 0 /\ c.gops \in Seq(GoodQueue) /\ c.current \in GoodQueue
      /\ (\A i \in 1..n : G[i] = c.gops[i]) /\ G[n + 1] = c.current
      /\ next \in GoodQueue /\ c.gops[1] = G[1] /\ c \in Cache
      /\ \A i \in 1..(n + 1) : G[i] \in GoodQueue
  BY GopsOfGood, NextGopGood DEF GoodCaches
<1>2. next = IF StartsWithMetadata(G[2]) THEN G[2] ELSE PushFront(G[2], c.gops[1].lmeta)
  BY <1>1 DEF NextGop
<1>3. PopGop(c) =
        IF n = 1
        THEN [[c EXCEPT !.gops = e, !.current = next]
                EXCEPT !.firstMedia = FirstMediaOf(Gops([c EXCEPT !.gops = e, !.current = next])),
                       !.firstMeta = FirstMetaOf(Gops([c EXCEPT !.gops = e, !.current = next]))]
        ELSE [[c EXCEPT !.gops = more]
                EXCEPT !.firstMedia = FirstMediaOf(Gops([c EXCEPT !.gops = more])),
                       !.firstMeta = FirstMetaOf(Gops([c EXCEPT !.gops = more]))]
  BY <1>2 DEF PopGop
<1>e. e \in Seq(GoodQueue) /\ Len(e) = 0
  OBVIOUS
<1> HIDE DEF next, e
<1>4. CASE n = 1
  <2> DEFINE left == Append(e, next)
             p == [c EXCEPT !.gops = e, !.current = next]
  <2>1. p.gops = e /\ p.current = next
    BY <1>1 DEF Cache
  <2>2. Gops(p) = left
    BY <2>1 DEF Gops
  <2>3. Len(left) = 1 /\ left[1] = next
    <3>1. Len(left) = Len(e) + 1 /\ left[Len(e) + 1] = next /\ 0 + 1 = 1
      BY <1>1, <1>e, AppendProperties
    <3> QED  BY <1>e, <3>1
  <2> HIDE DEF left
  <2>4. PopGop(c) = [p EXCEPT !.firstMedia = FirstMediaOf(left), !.firstMeta = FirstMetaOf(left)]
    BY <1>3, <1>4, <2>2
  <2>5. PopGop(c) = [c EXCEPT !.gops = e, !.current = next,
                              !.firstMedia = FirstMediaOf(left), !.firstMeta = FirstMetaOf(left)]
    BY <1>1, <2>4 DEF Cache
  <2>6. Len(e) = n - 1 /\ \A i \in 2..n : left[i] = G[i + 1]
    BY <1>4, <1>e
  <2> QED  BY <1>1, <1>e, <2>3, <2>5, <2>6 DEF left, next
<1>5. CASE n # 1
  <2> DEFINE left == Append(more, c.current)
             p == [c EXCEPT !.gops = more]
  <2>1. /\ more \in Seq(GoodQueue) /\ Len(more) = n - 1 /\ more[1] = next
        /\ \A i \in 2..(n - 1) : more[i] = c.gops[i + 1]
    <3> DEFINE s == c.gops
               w == <<next>>
    <3>0. s \in Seq(GoodQueue) /\ Len(s) = n
      BY <1>1
    <3>2. w \in Seq(GoodQueue) /\ Len(w) = 1 /\ w[1] = next
      BY <1>1
    <3>3. 2 + 1 = 3
      OBVIOUS
    <3> HIDE DEF s, w, n
    <3>8. n \in Nat /\ n > 1
      BY <1>1, <1>5
    <3>1. s \in Seq(GoodQueue) /\ Len(s) = n /\ 2 \in 0..Len(s)
      BY <3>0, <3>8
    <3>4. /\ SubSeq(s, 3, n) \in Seq(GoodQueue) /\ Len(SubSeq(s, 3, n)) = n - 2
          /\ \A i \in 1..(n - 2) : SubSeq(s, 3, n)[i] = s[2 + i]
      BY <3>1, <3>3, Cut
    <3>5. /\ rest \in Seq(GoodQueue) /\ Len(rest) = n - 2 /\ \A i \in 1..(n - 2) : rest[i] = s[2 + i]
      BY <3>4 DEF s
    <3> HIDE DEF rest
    <3>6. /\ w \o rest \in Seq(GoodQueue) /\ Len(w \o rest) = Len(w) + Len(rest)
          /\ \A i \in 1..(Len(w) + Len(rest)) :
                (w \o rest)[i] = IF i <= Len(w) THEN w[i] ELSE rest[i - Len(w)]
      BY <3>2, <3>5, ConcatProperties
    <3> DEFINE m == w \o rest
    <3> HIDE DEF m
    <3>7. m \in Seq(GoodQueue) /\ Len(m) = n - 1 /\ m[1] = next
      BY <1>1, <1>5, <3>1, <3>2, <3>5, <3>6 DEF m
    <3>9. ASSUME NEW i \in 2..(n - 1)  PROVE m[i] = s[i + 1]
      <4>1. i \in 1..(Len(w) + Len(rest)) /\ ~(i <= Len(w)) /\ i - Len(w) \in 1..(n - 2)
            /\ 2 + (i - Len(w)) = i + 1
        BY <1>1, <3>1, <3>2, <3>5
      <4> QED  BY <3>5, <3>6, <4>1 DEF m
    <3> QED  BY <3>7, <3>9 DEF m, w, s
  <2> HIDE DEF more
  <2>2. p.gops = more /\ p.current = c.current
    BY <1>1 DEF Cache
  <2>3. Gops(p) = left
    BY <2>2 DEF Gops
  <2>4. /\ Len(left) = n /\ left[n] = c.current /\ left[1] = next
        /\ \A i \in 1..(n - 1) : left[i] = more[i]
    <3>1. /\ Len(left) = Len(more) + 1 /\ left[Len(more) + 1] = c.current
          /\ \A i \in 1..Len(more) : left[i] = more[i]
      BY <1>1, <2>1, AppendProperties
    <3> HIDE DEF left, n
    <3>2. Len(more) + 1 = n /\ 1 \in 1..Len(more)
      BY <1>1, <1>5, <2>1
    <3> QED  BY <2>1, <3>1, <3>2
  <2> HIDE DEF left
  <2>5. PopGop(c) = [p EXCEPT !.firstMedia = FirstMediaOf(left), !.firstMeta = FirstMetaOf(left)]
    BY <1>3, <1>5, <2>3
  <2>6. PopGop(c) = [c EXCEPT !.gops = more, !.current = c.current,
                              !.firstMedia = FirstMediaOf(left), !.firstMeta = FirstMetaOf(left)]
    BY <1>1, <2>5 DEF Cache
  <2>7. ASSUME NEW i \in 2..n  PROVE left[i] = G[i + 1]
    <3>1. CASE i = n
      BY <1>1, <2>4, <3>1
    <3>2. CASE i # n
      <4>1. i \in 2..(n - 1) /\ i \in 1..(n - 1) /\ i + 1 \in 1..n
        BY <1>1, <3>2
      <4> QED  BY <1>1, <2>1, <2>4, <4>1
    <3> QED  BY <3>1, <3>2
  <2> QED  BY <1>1, <2>1, <2>4, <2>6, <2>7 DEF left, next
<1> QED  BY <1>4, <1>5

\* The cache with other queues, and the first pointers found in them.
WithGops(c, gops) ==
    [c EXCEPT !.gops = Front(gops), !.current = Last(gops),
              !.firstMedia = FirstMediaOf(gops), !.firstMeta = FirstMetaOf(gops)]

\* Such a cache holds just those queues.
LEMMA WithGopsIs ==
    ASSUME NEW c \in Cache, NEW gops \in Seq(GoodQueue), gops # <<>>
    PROVE  /\ WithGops(c, gops) \in Cache /\ Gops(WithGops(c, gops)) = gops
           /\ WithGops(c, gops).gops \in Seq(GoodQueue)
           /\ WithGops(c, gops).current \in GoodQueue
           /\ Len(WithGops(c, gops).gops) = Len(gops) - 1
           /\ WithGops(c, gops).latestMedia = c.latestMedia
<1> DEFINE f == Front(gops)
           l == Last(gops)
           m == FirstMediaOf(gops)
           t == FirstMetaOf(gops)
           d == WithGops(c, gops)
<1>1. f \in Seq(GoodQueue) /\ l \in GoodQueue /\ Append(f, l) = gops /\ Len(f) = Len(gops) - 1
  BY FrontAndLast
<1>2. GoodQueue \subseteq Queue
  BY DEF GoodQueue
<1>3. f \in Seq(Queue) /\ l \in Queue /\ gops \in Seq(Queue)
  BY <1>1, <1>2, SeqMonotonic
<1>4. m \in MaybeMedia /\ t \in MaybeMeta
  BY <1>3, FirstOfType
<1>5. d = [c EXCEPT !.gops = f, !.current = l, !.firstMedia = m, !.firstMeta = t]
  BY DEF WithGops
<1> HIDE DEF f, l, m, t, d
<1>6. d \in Cache /\ d.gops = f /\ d.current = l /\ d.latestMedia = c.latestMedia
  BY <1>3, <1>4, <1>5 DEF Cache
<1> QED  BY <1>1, <1>6 DEF Gops, d

\* The second replacement hides the first.
LEMMA WithGopsTwice ==
    ASSUME NEW c \in Cache, NEW gops, NEW more
    PROVE  WithGops(WithGops(c, gops), more) = WithGops(c, more)
<1> DEFINE f == Front(gops)
           l == Last(gops)
           m == FirstMediaOf(gops)
           t == FirstMetaOf(gops)
           g == Front(more)
           k == Last(more)
           n == FirstMediaOf(more)
           u == FirstMetaOf(more)
<1>1. /\ WithGops(c, gops) = [c EXCEPT !.gops = f, !.current = l, !.firstMedia = m, !.firstMeta = t]
      /\ WithGops(c, more) = [c EXCEPT !.gops = g, !.current = k, !.firstMedia = n, !.firstMeta = u]
      /\ WithGops(WithGops(c, gops), more) =
            [WithGops(c, gops) EXCEPT !.gops = g, !.current = k, !.firstMedia = n, !.firstMeta = u]
  BY DEF WithGops
<1> HIDE DEF f, l, m, t, g, k, n, u
<1> QED  BY <1>1 DEF Cache

\* Two sequences that are one have the same last element and the same rest.
LEMMA SameAppends ==
    ASSUME NEW S, NEW s \in Seq(S), NEW t \in Seq(S), NEW e \in S, NEW f \in S,
           Append(s, e) = Append(t, f)
    PROVE  s = t /\ e = f
BY AppendInjective

\* One pop, as new queues for the cache.
LEMMA PopGopGives ==
    ASSUME NEW c \in GoodCaches, CanPop(c)
    PROVE  \E left \in Seq(GoodQueue) :
              /\ Len(left) = Len(c.gops) /\ left # <<>> /\ left[1] = NextGop(c)
              /\ \A i \in 2..Len(c.gops) : left[i] = Gops(c)[i + 1]
              /\ PopGop(c) = WithGops(c, left)
<1>1. PICK gops \in Seq(GoodQueue), current \in GoodQueue :
         LET left == Append(gops, current)
         IN  /\ Len(gops) = Len(c.gops) - 1
             /\ left[1] = NextGop(c)
             /\ \A i \in 2..Len(c.gops) : left[i] = Gops(c)[i + 1]
             /\ PopGop(c) = [c EXCEPT !.gops = gops, !.current = current,
                                      !.firstMedia = FirstMediaOf(left),
                                      !.firstMeta = FirstMetaOf(left)]
  BY PopGopIs
<1> DEFINE left == Append(gops, current)
<1>2. left \in Seq(GoodQueue) /\ left # <<>> /\ Len(left) = Len(gops) + 1
  BY AppendProperties
<1>3. Len(left) = Len(c.gops)
  <2> DEFINE L == Len(left)
             m == Len(gops)
             n == Len(c.gops)
  <2>1. n \in Nat /\ L = m + 1 /\ m = n - 1
    BY <1>1, <1>2, GopsOfGood
  <2> HIDE DEF L, m, n
  <2>2. L = n
    BY <2>1
  <2> QED  BY <2>2 DEF L, n
<1>4. Front(left) = gops /\ Last(left) = current
  <2>1. /\ Front(left) \in Seq(GoodQueue) /\ Last(left) \in GoodQueue
        /\ Append(Front(left), Last(left)) = left
    <3> HIDE DEF left
    <3> QED  BY <1>2, FrontAndLast
  <2> DEFINE f == Front(left)
             l == Last(left)
  <2>2. f \in Seq(GoodQueue) /\ l \in GoodQueue /\ Append(f, l) = Append(gops, current)
    BY <2>1
  <2> HIDE DEF f, l
  <2>3. f = gops /\ l = current
    BY <2>2, SameAppends
  <2> QED  BY <2>3 DEF f, l
<1>5. PopGop(c) = WithGops(c, left)
  BY <1>1, <1>4 DEF WithGops
<1> QED  BY <1>1, <1>2, <1>3, <1>5

\* The first queue that a run of pops leaves.
FirstKept(c) ==
    LET next == Gops(c)[PopCount(c) + 1]
    IN  IF StartsWithMetadata(next) THEN next ELSE PushFront(next, CarriedMetadata(c))

\* UpdateGop, as new queues for the cache.
LEMMA UpdateGopGives ==
    ASSUME NEW c \in GoodCaches, PopCount(c) # 0
    PROVE  \E kept \in Seq(GoodQueue) :
              /\ Len(kept) = Len(c.gops) + 1 - PopCount(c) /\ kept # <<>>
              /\ kept[1] = FirstKept(c)
              /\ \A i \in 2..(Len(c.gops) + 1 - PopCount(c)) : kept[i] = Gops(c)[PopCount(c) + i]
              /\ UpdateGop(c) = WithGops(c, kept)
<1> DEFINE G == Gops(c)
           k == PopCount(c)
           n == Len(c.gops)
           left == SubSeq(G, k + 1, Len(G))
           first == IF StartsWithMetadata(Head(left)) THEN Head(left)
                    ELSE PushFront(Head(left), CarriedMetadata(c))
           w == <<first>>
           rest == Tail(left)
           kept == w \o rest
<1>1. G \in Seq(GoodQueue) /\ n \in Nat /\ Len(G) = n + 1
  BY GopsOfGood
<1>2. k \in 1..n
  <2>1. k \in 0..n
    BY <1>1, PoppableIs
  <2> QED  BY <1>1, <2>1
<1>3. UpdateGop(c) = WithGops(c, kept)
  BY DEF UpdateGop, WithGops
<1>4. /\ left \in Seq(GoodQueue) /\ Len(left) = n + 1 - k
      /\ \A i \in 1..(n + 1 - k) : left[i] = G[k + i]
  <2> HIDE DEF G, k, n
  <2>1. k \in 0..Len(G)
    BY <1>1, <1>2
  <2>2. /\ SubSeq(G, k + 1, Len(G)) \in Seq(GoodQueue)
        /\ Len(SubSeq(G, k + 1, Len(G))) = Len(G) - k
        /\ \A i \in 1..(Len(G) - k) : SubSeq(G, k + 1, Len(G))[i] = G[k + i]
    BY <1>1, <2>1, Cut
  <2>3. Len(G) - k = n + 1 - k
    BY <1>1, <1>2
  <2> QED  BY <2>2, <2>3
<1>5. first = FirstKept(c) /\ first \in GoodQueue /\ rest \in Seq(GoodQueue)
      /\ Len(rest) = n - k /\ \A i \in 1..(n - k) : rest[i] = G[k + 1 + i]
  <2> HIDE DEF left, G, k, n
  <2>0. n + 1 - k \in Nat /\ n + 1 - k > 0 /\ (n + 1 - k) - 1 = n - k
    BY <1>1, <1>2
  <2>1. left # <<>>
    <3>1. Len(left) # 0
      BY <1>4, <2>0
    <3> QED  BY <3>1
  <2>2. /\ left[1] \in GoodQueue /\ Head(left) = left[1] /\ Tail(left) \in Seq(GoodQueue)
        /\ Len(Tail(left)) = Len(left) - 1
        /\ \A i \in 1..(Len(left) - 1) : Tail(left)[i] = left[i + 1]
    BY <1>4, <2>1, FirstAndRest
  <2>3. left[1] = G[k + 1]
    <3>1. 1 \in 1..(n + 1 - k)
      BY <2>0
    <3> QED  BY <1>4, <3>1
  <2>4. first = FirstKept(c)
    BY <2>2, <2>3 DEF FirstKept, G, k
  <2>5. first \in GoodQueue
    <3>1. CarriedMetadata(c) \in MetaFrame
      <4>1. GoodCache(c) /\ FirstGood(c) /\ k # 0
        BY <1>2 DEF GoodCaches
      <4> QED  BY <4>1, CarriedIsMetadata DEF k
    <3>2. left[1] \in GoodQueue
      BY <2>2
    <3>3. PushFront(left[1], CarriedMetadata(c)) \in GoodQueue
      BY <3>1, <3>2, PushFrontGood
    <3> QED  BY <2>2, <3>2, <3>3
  <2>6. Len(rest) = n - k
    BY <1>4, <2>0, <2>2
  <2>7. ASSUME NEW i \in 1..(n - k)  PROVE rest[i] = G[k + 1 + i]
    <3>1. i \in 1..(Len(left) - 1) /\ i + 1 \in 1..(n + 1 - k) /\ k + (i + 1) = k + 1 + i
      BY <1>1, <1>2, <1>4
    <3> QED  BY <1>4, <2>2, <3>1
  <2> HIDE DEF first
  <2> QED  BY <2>2, <2>4, <2>5, <2>6, <2>7
<1> HIDE DEF first, rest, left, G, k, n
<1>6. w \in Seq(GoodQueue) /\ Len(w) = 1 /\ w[1] = first
  BY <1>5
<1> HIDE DEF w
<1>7. /\ kept \in Seq(GoodQueue) /\ Len(kept) = Len(w) + Len(rest)
      /\ \A i \in 1..(Len(w) + Len(rest)) :
            kept[i] = IF i <= Len(w) THEN w[i] ELSE rest[i - Len(w)]
  BY <1>5, <1>6, ConcatProperties
<1> HIDE DEF kept
<1>8. Len(kept) = n + 1 - k /\ kept[1] = first /\ kept # <<>>
  <2>1. Len(kept) = n + 1 - k /\ 1 \in 1..(Len(w) + Len(rest)) /\ 1 <= Len(w) /\ Len(kept) # 0
    BY <1>1, <1>2, <1>5, <1>6, <1>7
  <2>2. kept # <<>>
    BY <2>1
  <2> QED  BY <1>6, <1>7, <2>1, <2>2
<1>9. ASSUME NEW i \in 2..(n + 1 - k)  PROVE kept[i] = G[k + i]
  <2>1. /\ i \in 1..(Len(w) + Len(rest)) /\ ~(i <= Len(w)) /\ i - Len(w) \in 1..(n - k)
        /\ k + 1 + (i - Len(w)) = k + i
    BY <1>1, <1>2, <1>5, <1>6
  <2> QED  BY <1>5, <1>7, <2>1
<1> QED  BY <1>3, <1>5, <1>7, <1>8, <1>9 DEF G, k, n, kept, w, rest, first, left

\* The greatest element of a set of indices.
LEMMA MaxUnique ==
    ASSUME NEW n \in Nat, NEW S \in SUBSET (1..n), NEW m \in S, \A x \in S : x <= m
    PROVE  Max(S) = m
<1> DEFINE l == Max(S)
<1>1. l \in S /\ \A x \in S : x <= l
  BY MaxOfInterval
<1> HIDE DEF l
<1>2. l \in Nat /\ m \in Nat /\ l <= m /\ m <= l
  BY <1>1
<1>3. l = m
  BY <1>2
<1> QED  BY <1>3 DEF l

\* A pop shortens what can go by one.
LEMMA PopCountPops ==
    ASSUME NEW c \in GoodCaches, CanPop(c), NEW left \in Seq(GoodQueue),
           Len(left) = Len(c.gops), left # <<>>,
           \A i \in 2..Len(c.gops) : left[i] = Gops(c)[i + 1]
    PROVE  /\ PopCount(WithGops(c, left)) \in Nat
           /\ PopCount(c) = PopCount(WithGops(c, left)) + 1
           /\ PopCount(c) <= Len(c.gops)
<1> DEFINE d == WithGops(c, left)
           n == Len(c.gops)
           N == PopCount(d)
           M == PopCount(c)
<1>1. /\ n \in Nat /\ n > 0 /\ Gops(d) = left /\ Len(d.gops) = n - 1
      /\ d.latestMedia = c.latestMedia
  BY GopsOfGood, NextGopGood, WithGopsIs DEF GoodCaches
<1> HIDE DEF d, n
<1>2. M \in 0..n /\ Poppable(c) = 1..M /\ (M < n => ~Spans(c, M + 1))
  BY <1>1, PoppableIs DEF n
<1>3. n - 1 \in Nat
  BY <1>1
<1>4. N \in 0..(n - 1) /\ Poppable(d) = 1..N /\ (N < n - 1 => ~Spans(d, N + 1))
  BY <1>1, <1>3, PoppableIs
<1>5. \A j \in 1..(n - 1) : Spans(d, j) <=> Spans(c, j + 1)
  <2> TAKE j \in 1..(n - 1)
  <2>1. j + 1 \in 2..n
    BY <1>1
  <2>2. Gops(d)[j + 1] = Gops(c)[(j + 1) + 1]
    BY <1>1, <2>1 DEF n
  <2> QED  BY <1>1, <2>2 DEF Spans
<1>6. (\A j \in 1..M : Spans(c, j)) /\ (\A j \in 1..N : Spans(d, j))
  BY <1>2, <1>4 DEF Poppable
<1>7. M > 0
  <2> SUFFICES ASSUME M = 0 PROVE FALSE
    BY <1>2
  <2> HIDE DEF M
  <2>1. M < n /\ M + 1 = 1
    BY <1>1
  <2> QED  BY <1>2, <2>1 DEF CanPop
<1> HIDE DEF N, M
<1>8. CASE M - 1 > N
  <2>1. N < n - 1 /\ N + 1 \in 1..(n - 1) /\ (N + 1) + 1 \in 1..M
    BY <1>1, <1>2, <1>4, <1>8
  <2> QED  BY <1>4, <1>5, <1>6, <2>1
<1>9. CASE M - 1 < N
  <2>1. M < n /\ M \in 1..(n - 1) /\ M \in 1..N
    BY <1>1, <1>2, <1>4, <1>7, <1>9
  <2> QED  BY <1>2, <1>5, <1>6, <2>1
<1>10. M \in Nat /\ N \in Nat /\ M <= n /\ (~(M - 1 > N) /\ ~(M - 1 < N) => M = N + 1)
  BY <1>1, <1>2, <1>4
<1> QED  BY <1>8, <1>9, <1>10 DEF d, n, N, M

\* The metadata that a run of pops hands on, seen after its first pop.
LEMMA CarriedPops ==
    ASSUME NEW c \in GoodCaches, CanPop(c), NEW left \in Seq(GoodQueue),
           Len(left) = Len(c.gops), left # <<>>, left[1] = NextGop(c),
           \A i \in 2..Len(c.gops) : left[i] = Gops(c)[i + 1],
           PopCount(WithGops(c, left)) # 0
    PROVE  CarriedMetadata(c) = CarriedMetadata(WithGops(c, left))
<1> DEFINE d == WithGops(c, left)
           G == Gops(c)
           n == Len(c.gops)
           N == PopCount(d)
           M == PopCount(c)
           D == {i \in 1..N : left[i].lmeta # NoFrame}
           C == {i \in 1..M : G[i].lmeta # NoFrame}
           m == Max(D)
<1>1. Gops(d) = left /\ N \in Nat /\ N > 0 /\ M = N + 1 /\ M <= n /\ n \in Nat
  BY PopCountPops, WithGopsIs, GopsOfGood DEF GoodCaches
<1>2. CarriedMetadata(d) = left[m].lmeta /\ CarriedMetadata(c) = G[Max(C)].lmeta
  BY <1>1 DEF CarriedMetadata
<1>3. /\ G[1].lmeta # NoFrame
      /\ left[1].lmeta = IF G[2].lmeta # NoFrame THEN G[2].lmeta ELSE G[1].lmeta
  BY GopsOfGood, NextGopGood
<1>4. \A i \in 2..n : left[i] = G[i + 1]
  OBVIOUS
<1> HIDE DEF d, G, n, N, M
<1>5. 1 \in D /\ D \in SUBSET (1..N) /\ C \in SUBSET (1..M) /\ M \in Nat
  BY <1>1, <1>3
<1>6. m \in D /\ \A x \in D : x <= m
  <2> HIDE DEF D
  <2> QED  BY <1>1, <1>5, MaxOfInterval
<1>7. ASSUME NEW x \in C, x > 2  PROVE x - 1 \in D
  <2>1. x \in 1..M /\ G[x].lmeta # NoFrame
    OBVIOUS
  <2>2. x - 1 \in 1..N /\ x - 1 \in 2..n /\ (x - 1) + 1 = x
    BY <1>1, <1>7, <2>1
  <2>3. left[x - 1] = G[x]
    BY <1>4, <2>2
  <2> QED  BY <2>1, <2>2, <2>3
<1> HIDE DEF m
<1>8. CASE m # 1
  <2>1. m \in 1..N /\ left[m].lmeta # NoFrame
    BY <1>6
  <2>2. m \in 2..n /\ m + 1 \in 1..M /\ m >= 2
    BY <1>1, <1>8, <2>1
  <2>3. left[m] = G[m + 1]
    BY <1>4, <2>2
  <2>4. m + 1 \in C
    BY <2>1, <2>2, <2>3
  <2>5. ASSUME NEW x \in C  PROVE x <= m + 1
    <3>1. x \in Nat
      BY <1>1, <1>5
    <3>2. CASE x > 2
      <4>1. x - 1 <= m
        BY <1>6, <1>7, <3>2
      <4> QED  BY <2>1, <3>1, <4>1
    <3>3. CASE ~(x > 2)
      BY <2>2, <3>1, <3>3
    <3> QED  BY <3>2, <3>3
  <2> HIDE DEF C
  <2>6. Max(C) = m + 1
    BY <1>5, <2>4, <2>5, MaxUnique
  <2> QED  BY <1>2, <2>3, <2>6 DEF d, G
<1>9. CASE m = 1
  <2>1. \A x \in C : ~(x > 2)
    <3> SUFFICES ASSUME NEW x \in C, x > 2  PROVE FALSE
      OBVIOUS
    <3>1. x \in Nat /\ x - 1 <= 1
      BY <1>1, <1>5, <1>6, <1>7, <1>9
    <3> QED  BY <3>1
  <2>2. \A x \in C : x \in Nat /\ x <= 2
    <3> TAKE x \in C
    <3>1. x \in Nat /\ ~(x > 2)
      BY <1>1, <1>5, <2>1
    <3> QED  BY <3>1
  <2>3. CASE G[2].lmeta # NoFrame
    <3>1. 2 \in C
      <4>1. 2 \in 1..M
        BY <1>1
      <4> QED  BY <2>3, <4>1
    <3> HIDE DEF C
    <3>2. Max(C) = 2
      BY <1>5, <2>2, <3>1, MaxUnique
    <3> QED  BY <1>2, <1>3, <1>9, <2>3, <3>2 DEF d, G
  <2>4. CASE G[2].lmeta = NoFrame
    <3>1. 1 \in C
      <4>1. 1 \in 1..M
        BY <1>1
      <4> QED  BY <1>3, <4>1
    <3>2. \A x \in C : x <= 1
      <4> TAKE x \in C
      <4>1. x # 2
        BY <2>4
      <4> QED  BY <2>2, <4>1
    <3> HIDE DEF C
    <3>3. Max(C) = 1
      BY <1>5, <3>1, <3>2, MaxUnique
    <3> QED  BY <1>2, <1>3, <1>9, <2>4, <3>3 DEF d, G
  <2> QED  BY <2>3, <2>4
<1> QED  BY <1>8, <1>9 DEF d

\* update_gop, unfolded once.
LEMMA UpdateGopUnfolds ==
    ASSUME NEW c \in GoodCaches
    PROVE  UpdateGop(c) = IF CanPop(c) THEN UpdateGop(PopGop(c)) ELSE c
<1>1. CASE ~CanPop(c)
  <2>1. PopCount(c) = 0
    <3>1. PopCount(c) \in 0..Len(c.gops) /\ Poppable(c) = 1..PopCount(c) /\ Len(c.gops) \in Nat
      BY GopsOfGood, PoppableIs
    <3>2. SUFFICES ASSUME PopCount(c) > 0  PROVE FALSE
      BY <3>1
    <3>3. 1 \in Poppable(c) /\ c.gops # <<>>
      BY <3>1, <3>2
    <3>4. Spans(c, 1)
      BY <3>3 DEF Poppable
    <3> QED  BY <1>1, <3>3, <3>4 DEF CanPop
  <2> QED  BY <1>1, <2>1 DEF UpdateGop
<1>2. CASE CanPop(c)
  <2>1. PICK left \in Seq(GoodQueue) :
           /\ Len(left) = Len(c.gops) /\ left # <<>> /\ left[1] = NextGop(c)
           /\ \A i \in 2..Len(c.gops) : left[i] = Gops(c)[i + 1]
           /\ PopGop(c) = WithGops(c, left)
    BY <1>2, PopGopGives
  <2> DEFINE d == WithGops(c, left)
             n == Len(c.gops)
             N == PopCount(d)
  <2>2. /\ d \in Cache /\ Gops(d) = left /\ d.gops \in Seq(GoodQueue)
        /\ d.current \in GoodQueue /\ Len(d.gops) = Len(left) - 1 /\ c \in Cache
    BY <2>1, WithGopsIs DEF GoodCaches
  <2>3. StartsWithMetadata(NextGop(c)) /\ NextGop(c).lmeta # NoFrame
    BY <1>2, GopsOfGood, NextGopGood
  <2>4. d \in GoodCaches
    BY <2>1, <2>2, <2>3 DEF GoodCaches, GoodCache, FirstGood, FirstGop
  <2>5. N \in Nat /\ PopCount(c) = N + 1 /\ N + 1 <= n /\ n \in Nat /\ PopCount(c) # 0
    <3>1. N \in Nat /\ PopCount(c) = N + 1 /\ PopCount(c) <= n
      BY <1>2, <2>1, PopCountPops
    <3> HIDE DEF N
    <3> QED  BY <3>1, GopsOfGood
  <2>6. PICK kept \in Seq(GoodQueue) :
           /\ Len(kept) = n + 1 - PopCount(c) /\ kept # <<>>
           /\ kept[1] = FirstKept(c)
           /\ \A i \in 2..(n + 1 - PopCount(c)) : kept[i] = Gops(c)[PopCount(c) + i]
           /\ UpdateGop(c) = WithGops(c, kept)
    BY <2>5, UpdateGopGives
  <2>7. Len(kept) = n - N /\ \A i \in 2..(n - N) : kept[i] = Gops(c)[N + 1 + i]
    <3>1. n + 1 - PopCount(c) = n - N
      BY <2>5
    <3> QED  BY <2>5, <2>6, <3>1
  <2> HIDE DEF N, n, d
  <2>8. CASE N = 0
    <3>1. UpdateGop(d) = d
      BY <2>8 DEF UpdateGop, N
    <3>2. kept[1] = left[1]
      <4>1. PopCount(c) = 1 /\ 1 + 1 = 2
        BY <2>5, <2>8
      <4>2. CarriedMetadata(c) = Gops(c)[1].lmeta
        <5> DEFINE C == {i \in 1..PopCount(c) : Gops(c)[i].lmeta # NoFrame}
        <5>1. 1 \in C /\ C \in SUBSET (1..1) /\ \A x \in C : x <= 1
          BY <4>1, GopsOfGood
        <5> HIDE DEF C
        <5>2. Max(C) = 1
          BY <5>1, MaxUnique
        <5> QED  BY <5>2 DEF CarriedMetadata, C
      <4>3. FirstKept(c) = NextGop(c)
        BY <4>1, <4>2 DEF FirstKept, NextGop
      <4> QED  BY <2>1, <2>6, <4>3
    <3>3. kept = left
      <4>1. Len(kept) = Len(left)
        BY <2>1, <2>5, <2>7, <2>8 DEF n
      <4>2. ASSUME NEW i \in 1..Len(kept)  PROVE kept[i] = left[i]
        <5>1. CASE i = 1
          BY <3>2, <5>1
        <5>2. CASE i # 1
          <6>1. i \in 2..n /\ i \in 2..(n - N) /\ N + 1 + i = i + 1
            BY <2>5, <2>7, <2>8, <5>2
          <6> QED  BY <2>1, <2>7, <6>1 DEF n
        <5> QED  BY <5>1, <5>2
      <4> QED  BY <4>1, <4>2, SeqEqual
    <3> QED  BY <1>2, <2>1, <2>6, <3>1, <3>3 DEF d
  <2>9. CASE N # 0
    <3>1. PICK more \in Seq(GoodQueue) :
             /\ Len(more) = Len(d.gops) + 1 - N /\ more # <<>>
             /\ more[1] = FirstKept(d)
             /\ \A i \in 2..(Len(d.gops) + 1 - N) : more[i] = Gops(d)[N + i]
             /\ UpdateGop(d) = WithGops(d, more)
      BY <2>4, <2>9, UpdateGopGives DEF N
    <3>2. Len(d.gops) + 1 - N = n - N
      BY <2>1, <2>2, <2>5 DEF n
    <3>3. Gops(d)[N + 1] = Gops(c)[PopCount(c) + 1]
      <4>1. N + 1 \in 2..n
        BY <2>5, <2>9
      <4> QED  BY <2>1, <2>2, <2>5, <4>1 DEF n
    <3>4. CarriedMetadata(c) = CarriedMetadata(d)
      BY <1>2, <2>1, <2>9, CarriedPops DEF d, N
    <3>5. kept[1] = more[1]
      BY <2>6, <3>1, <3>3, <3>4 DEF FirstKept, N
    <3>6. kept = more
      <4>1. Len(kept) = Len(more)
        BY <2>7, <3>1, <3>2
      <4>2. ASSUME NEW i \in 1..Len(kept)  PROVE kept[i] = more[i]
        <5>1. CASE i = 1
          BY <3>5, <5>1
        <5>2. CASE i # 1
          <6>1. N + i \in 2..n /\ i \in 2..(n - N) /\ (N + i) + 1 = N + 1 + i
            BY <2>5, <2>7, <5>2
          <6>2. more[i] = left[N + i] /\ left[N + i] = Gops(c)[(N + i) + 1]
            BY <2>1, <2>2, <3>1, <3>2, <6>1 DEF n
          <6> QED  BY <2>7, <6>1, <6>2
        <5> QED  BY <5>1, <5>2
      <4> QED  BY <4>1, <4>2, SeqEqual
    <3>7. UpdateGop(d) = WithGops(c, more)
      BY <2>2, <3>1, WithGopsTwice DEF d
    <3> QED  BY <1>2, <2>1, <2>6, <3>6, <3>7 DEF d
  <2> QED  BY <2>8, <2>9
<1> QED  BY <1>1, <1>2

\* A pop leaves a good cache with one GOP less.
LEMMA PopGopGood ==
    ASSUME NEW c \in GoodCaches, CanPop(c)
    PROVE  PopGop(c) \in GoodCaches /\ Len(PopGop(c).gops) = Len(c.gops) - 1
<1>1. PICK left \in Seq(GoodQueue) :
         /\ Len(left) = Len(c.gops) /\ left # <<>> /\ left[1] = NextGop(c)
         /\ PopGop(c) = WithGops(c, left)
  BY PopGopGives
<1>2. /\ PopGop(c) \in Cache /\ Gops(PopGop(c)) = left /\ PopGop(c).gops \in Seq(GoodQueue)
      /\ PopGop(c).current \in GoodQueue /\ Len(PopGop(c).gops) = Len(left) - 1
  BY <1>1, WithGopsIs DEF GoodCaches
<1>3. StartsWithMetadata(NextGop(c)) /\ NextGop(c).lmeta # NoFrame
  BY GopsOfGood, NextGopGood
<1> QED  BY <1>1, <1>2, <1>3 DEF GoodCaches, GoodCache, FirstGood, FirstGop

\* UpdateGop is what the code's update_gop, a pop that calls itself while
\* another GOP can go, computes: the only function on the caches it meets that
\* satisfies the recursion.
THEOREM UpdateGopRecurses ==
    ASSUME NEW update
    PROVE  (\A c \in GoodCaches : update[c] = IF CanPop(c) THEN update[PopGop(c)] ELSE c)
           <=> (\A c \in GoodCaches : update[c] = UpdateGop(c))
<1>1. ASSUME \A c \in GoodCaches : update[c] = UpdateGop(c)
      PROVE  \A c \in GoodCaches : update[c] = IF CanPop(c) THEN update[PopGop(c)] ELSE c
  <2> TAKE c \in GoodCaches
  <2>1. CanPop(c) => update[PopGop(c)] = UpdateGop(PopGop(c))
    BY <1>1, PopGopGood
  <2> QED  BY <1>1, <2>1, UpdateGopUnfolds
<1>2. ASSUME \A c \in GoodCaches : update[c] = IF CanPop(c) THEN update[PopGop(c)] ELSE c,
             NEW c \in GoodCaches
      PROVE  update[c] = UpdateGop(c)
  <2> DEFINE n == Len(c.gops)
             S == {k \in Nat : \A d \in GoodCaches : Len(d.gops) = k => update[d] = UpdateGop(d)}
  <2>1. n \in Nat
    BY GopsOfGood
  <2>2. 0 \in S
    <3>1. ASSUME NEW d \in GoodCaches, Len(d.gops) = 0  PROVE update[d] = UpdateGop(d)
      <4>1. ~CanPop(d)
        BY <3>1, NextGopGood
      <4> QED  BY <1>2, <4>1, UpdateGopUnfolds
    <3> QED  BY <3>1
  <2>3. ASSUME NEW k \in Nat, k \in S  PROVE k + 1 \in S
    <3>1. ASSUME NEW d \in GoodCaches, Len(d.gops) = k + 1  PROVE update[d] = UpdateGop(d)
      <4>1. CASE CanPop(d)
        <5>1. PopGop(d) \in GoodCaches /\ Len(PopGop(d).gops) = Len(d.gops) - 1
          BY <4>1, PopGopGood
        <5>2. Len(PopGop(d).gops) = k
          BY <3>1, <5>1
        <5>3. update[PopGop(d)] = UpdateGop(PopGop(d))
          BY <2>3, <5>1, <5>2
        <5> QED  BY <1>2, <4>1, <5>3, UpdateGopUnfolds
      <4>2. CASE ~CanPop(d)
        BY <1>2, <4>2, UpdateGopUnfolds
      <4> QED  BY <4>1, <4>2
    <3> QED  BY <3>1
  <2> HIDE DEF S, n
  <2>4. \A k \in 0..(n - 1) : k \in S => k + 1 \in S
    BY <2>1, <2>3
  <2>5. n \in S
    <3>1. 0..n \subseteq S /\ n \in 0..n
      BY <2>1, <2>2, <2>4, InductionUpTo
    <3> QED  BY <3>1
  <2> QED  BY <2>5 DEF S, n
<1> QED  BY <1>1, <1>2

-----------------------------------------------------------------------------
(* add_frame.                                                              *)

\* The inductive invariant, of a cache and the history.
Shown(c, h) ==
    /\ GoodCache(c) /\ Exact(c) /\ Filled(c) /\ Pointers(c) /\ Trimmed(c)
    /\ View(AllFrames(c), h)

\* A valid media frame has frames before it; an inter frame goes behind a keyframe.
LEMMA ValidFrameFits ==
    ASSUME NEW c, NEW h, Shown(c, h), NEW f \in Frame, ValidFrame(c, f)
    PROVE  /\ c = EmptyCache => IsMeta(f)
           /\ IsMedia(f) => AllFrames(c) # <<>>
           /\ f.kind = "inter" => /\ HasMedia(c.current) /\ c.current.fmedia.kind = "key"
                                  /\ ~RequiresNewGop(c, f)
<1>1. /\ GoodCache(c) /\ Exact(c) /\ Filled(c) /\ Pointers(c)
      /\ IsMedia(f) <=> ~IsMeta(f)
  BY KindsOfFrames DEF Shown
<1>2. c = EmptyCache => IsMeta(f)
  BY DEF ValidFrame, Allows, EmptyCache
<1>3. IsMedia(f) => AllFrames(c) # <<>>
  <2> SUFFICES ASSUME IsMedia(f)  PROVE AllFrames(c) # <<>>
    OBVIOUS
  <2>1. FirstGood(c)
    BY <1>1, <1>2 DEF GoodCache
  <2>2. CASE c.gops = <<>>
    <3>0. AllFrames(c) = c.current.frames
      BY <1>1, <2>2, AllOf
    <3>1. AllFrames(c) = c.current.frames /\ FirstGop(c) = c.current
      BY <2>2, <3>0 DEF FirstGop, Gops
    <3>2. Len(c.current.frames) > 0
      BY <2>1, <3>1 DEF FirstGood, StartsWithMetadata
    <3> QED  BY <3>1, <3>2
  <2>3. CASE c.gops # <<>>
    BY <1>1, <2>3, AllOf
  <2> QED  BY <2>2, <2>3
<1>4. f.kind = "inter" => /\ HasMedia(c.current) /\ c.current.fmedia.kind = "key"
                           /\ ~RequiresNewGop(c, f)
  <2> SUFFICES ASSUME f.kind = "inter"
               PROVE  HasMedia(c.current) /\ c.current.fmedia.kind = "key"
    BY DEF RequiresNewGop
  <2>1. IsMedia(f)
    BY DEF IsMedia, MediaKinds
  <2>2. ~IsEmpty(c.current)
    <3> SUFFICES ASSUME c.current.frames = <<>>  PROVE FALSE
      BY DEF IsEmpty
    <3>1. ~HasMedia(c.current)
      BY <1>1, FindInNone DEF Exact, ExactQueue, HasMedia
    <3>2. c.gops = <<>>
      BY <1>1, <3>1 DEF Filled
    <3> QED  BY <1>1, <1>3, <2>1, <3>2, AllOf
  <2> QED  BY <1>1, <2>1, <2>2 DEF ValidFrame
<1> QED  BY <1>2, <1>3, <1>4

LEMMA AddFrameShows ==
    ASSUME NEW c, NEW h, Numbered(h), Shown(c, h), NEW f, NextOf(h, f), ValidFrame(c, f)
    PROVE  Shown(AddFrame(c, f), Append(h, f))
<1> DEFINE opened == IF RequiresNewGop(c, f) THEN CloseCurrent(c) ELSE c
           pushed == PushFrame(opened, f)
           d == AddFrame(c, f)
           g == Append(h, f)
<1>1. /\ GoodCache(c) /\ Exact(c) /\ Filled(c) /\ Pointers(c) /\ Trimmed(c)
      /\ View(AllFrames(c), h)
      /\ f \in Frame /\ (IsMedia(f) <=> ~IsMeta(f))
  BY KindsOfFrames DEF Shown, NextOf
<1>2. GoodCache(d)
  BY <1>1, AddFrameGood
<1>3. Numbered(g)
  BY NumberedGrows
\* What the frame's validity says.
<1>4. c = EmptyCache => IsMeta(f)
  BY <1>1, ValidFrameFits
<1>5. IsMedia(f) => AllFrames(c) # <<>>
  BY <1>1, ValidFrameFits
<1>11. f.kind = "inter" => /\ HasMedia(c.current) /\ c.current.fmedia.kind = "key"
                           /\ ~RequiresNewGop(c, f)
  BY <1>1, ValidFrameFits
\* A frame pushed behind: the cache follows the history.
<1>6. ASSUME NEW o, GoodCache(o), Exact(o), Pointers(o), AllFrames(o) = AllFrames(c),
             o = EmptyCache => IsMeta(f),
             o.gops # <<>> /\ IsMeta(f) => HasMedia(o.current),
             f.kind = "inter" => HasMedia(o.current) /\ o.current.fmedia.kind = "key"
      PROVE  /\ GoodCache(PushFrame(o, f)) /\ FirstGood(PushFrame(o, f))
             /\ Exact(PushFrame(o, f)) /\ Filled(PushFrame(o, f)) /\ Pointers(PushFrame(o, f))
             /\ View(AllFrames(PushFrame(o, f)), g)
             /\ PushFrame(o, f).gops = o.gops
             /\ ~IsMedia(f) /\ o.gops # <<>> =>
                   /\ PushFrame(o, f).current.fmedia = o.current.fmedia
                   /\ PushFrame(o, f).latestMedia = o.latestMedia
  <2>1. GoodCache(PushFrame(o, f)) /\ FirstGood(PushFrame(o, f))
    BY <1>1, <1>6, PushFrameGood
  <2>2. /\ Exact(PushFrame(o, f)) /\ Filled(PushFrame(o, f)) /\ Pointers(PushFrame(o, f))
        /\ PushedOn(AllFrames(o), AllFrames(PushFrame(o, f)), f)
        /\ PushFrame(o, f).gops = o.gops
        /\ ~IsMedia(f) /\ o.gops # <<>> =>
              /\ PushFrame(o, f).current.fmedia = o.current.fmedia
              /\ PushFrame(o, f).latestMedia = o.latestMedia
    BY <1>1, <1>6, <2>1, PushFrameExact
  <2> DEFINE s == AllFrames(o)
             t == AllFrames(PushFrame(o, f))
  <2>3. View(s, h) /\ PushedOn(s, t, f) /\ (IsMedia(f) => s # <<>>)
    BY <1>1, <1>5, <1>6, <2>2
  <2> HIDE DEF s, t
  <2>4. View(t, g)
    BY <2>3, ViewPushed
  <2> QED  BY <2>1, <2>2, <2>4 DEF t
\* A metadata frame gives nothing to trim.
<1>7. ASSUME ~IsMedia(f)
      PROVE  Poppable(PushFrame(c, f)) = Poppable(c)
  <2> DEFINE p == PushFrame(c, f)
  <2>1. /\ p.gops = c.gops
        /\ c.gops # <<>> => p.current.fmedia = c.current.fmedia /\ p.latestMedia = c.latestMedia
        /\ c.gops # <<>> /\ IsMeta(f) => HasMedia(c.current)
    <3>1. c.gops # <<>> /\ IsMeta(f) => HasMedia(c.current)
      BY <1>1 DEF Filled
    <3> QED  BY <1>1, <1>4, <1>6, <1>7, <1>11, <3>1
  <2> HIDE DEF p
  <2>2. CASE c.gops = <<>>
    <3>1. Len(c.gops) = 0 /\ Len(p.gops) = 0 /\ 1..0 = {}
      BY <2>1, <2>2
    <3> QED  BY <3>1 DEF Poppable, p
  <2>3. CASE c.gops # <<>>
    <3>1. c.gops \in Seq(Queue) /\ c.current \in Queue /\ p.current \in Queue
          /\ Len(c.gops) \in Nat
      <4>1. Exact(p)
        BY <1>1, <1>4, <1>6, <1>11, <2>1 DEF p
      <4> QED  BY <1>1, <4>1, QueueKinds, LenProperties DEF Exact
    <3>2. ASSUME NEW k \in 1..Len(c.gops)  PROVE Gops(p)[k + 1].fmedia = Gops(c)[k + 1].fmedia
      <4>1. CASE k = Len(c.gops)
        <5>1. Gops(p)[k + 1] = p.current /\ Gops(c)[k + 1] = c.current
          BY <2>1, <3>1, <4>1, AppendProperties DEF Gops
        <5> QED  BY <2>1, <2>3, <5>1
      <4>2. CASE k # Len(c.gops)
        <5>1. k + 1 \in 1..Len(c.gops)
          BY <3>1, <4>2
        <5> QED  BY <2>1, <3>1, <5>1, AppendProperties DEF Gops
      <4> QED  BY <4>1, <4>2
    <3>3. ASSUME NEW k \in 1..Len(c.gops)  PROVE Spans(p, k) <=> Spans(c, k)
      BY <2>1, <2>3, <3>2 DEF Spans, HasMedia
    <3>4. ASSUME NEW k \in 1..Len(c.gops)
          PROVE  (\A j \in 1..k : Spans(p, j)) <=> (\A j \in 1..k : Spans(c, j))
      <4>1. \A j \in 1..k : j \in 1..Len(c.gops)
        BY <3>1
      <4> QED  BY <3>3, <4>1
    <3>5. {k \in 1..Len(c.gops) : \A j \in 1..k : Spans(p, j)}
             = {k \in 1..Len(c.gops) : \A j \in 1..k : Spans(c, j)}
      BY <3>4
    <3> QED  BY <2>1, <3>5 DEF Poppable, p
  <2> QED  BY <2>2, <2>3
<1>8. CASE OnlyMetadata(c.current)
  <2>1. d = PushFrame(c, f)
    BY <1>8 DEF AddFrame
  <2>2. c.gops = <<>>
    <3> SUFFICES ASSUME c.gops # <<>>  PROVE FALSE
      OBVIOUS
    <3> DEFINE s == c.current.frames
    <3>1. FirstMediaIn(s) # NoFrame /\ s \in Seq(Frame) /\ Len(s) = 1 /\ IsMeta(s[1])
      BY <1>1, <1>8, AllOf DEF Filled, HasMedia, Exact, ExactQueue, OnlyMetadata
    <3> HIDE DEF s
    <3>2. \A i \in 1..Len(s) : s[i] \notin MediaFrame
      <4>1. 1 \in 1..Len(s) /\ \A i \in 1..Len(s) : i = 1
        BY <3>1
      <4>2. s[1] \in Frame
        BY <3>1, <4>1, ElementOfSeq
      <4> QED  BY <3>1, <4>1, <4>2, KindsOfFrames
    <3>3. FirstOf(s, MediaFrame, FirstMediaIn(s))
      BY <3>1, FirstMediaIs
    <3> QED  BY <3>1, <3>2, <3>3 DEF FirstOf
  <2>3. /\ Exact(d) /\ Filled(d) /\ Pointers(d) /\ View(AllFrames(d), g)
        /\ d.gops = <<>>
    BY <1>1, <1>4, <1>6, <1>11, <2>1, <2>2
  <2>4. Trimmed(d)
    <3>1. Len(d.gops) = 0 /\ 1..0 = {}
      BY <2>3
    <3> QED  BY <3>1 DEF Trimmed, Poppable
  <2> HIDE DEF d, g
  <2>5. Shown(d, g)
    BY <1>2, <2>3, <2>4 DEF Shown
  <2> QED  BY <2>5 DEF d, g
<1>9. CASE ~OnlyMetadata(c.current) /\ ~IsMedia(f)
  <2>1. opened = c
    BY <1>1, <1>9 DEF RequiresNewGop, IsMedia, MediaKinds
  <2>2. d = PushFrame(c, f)
    BY <1>9, <2>1 DEF AddFrame
  <2>3. Exact(d) /\ Filled(d) /\ Pointers(d) /\ View(AllFrames(d), g)
    <3>1. c.gops # <<>> /\ IsMeta(f) => HasMedia(c.current)
      BY <1>1 DEF Filled
    <3> QED  BY <1>1, <1>4, <1>6, <1>11, <2>2, <3>1
  <2>4. Trimmed(d)
    BY <1>1, <1>7, <1>9, <2>2 DEF Trimmed
  <2> HIDE DEF d, g
  <2>5. Shown(d, g)
    BY <1>2, <2>3, <2>4 DEF Shown
  <2> QED  BY <2>5 DEF d, g
<1>10. CASE ~OnlyMetadata(c.current) /\ IsMedia(f)
  <2>1. /\ GoodCache(opened) /\ Exact(opened) /\ Pointers(opened)
        /\ AllFrames(opened) = AllFrames(c)
        /\ opened = EmptyCache => IsMeta(f)
        /\ f.kind = "inter" => HasMedia(opened.current) /\ opened.current.fmedia.kind = "key"
    <3>1. CASE RequiresNewGop(c, f)
      <4>1. HasMedia(c.current) /\ c # EmptyCache
        BY <3>1 DEF RequiresNewGop, HasMedia, EmptyCache, EmptyQueue
      <4> QED  BY <1>1, <1>11, <3>1, <4>1, CloseCurrentGood, CloseCurrentExact
    <3>2. CASE ~RequiresNewGop(c, f)
      BY <1>1, <1>4, <1>11, <3>2
    <3> QED  BY <3>1, <3>2
  <2> HIDE DEF opened
  <2>2. /\ GoodCache(pushed) /\ FirstGood(pushed)
        /\ Exact(pushed) /\ Filled(pushed) /\ Pointers(pushed)
        /\ View(AllFrames(pushed), g)
    BY <1>1, <1>6, <1>10, <2>1
  <2>3. d = IF MinCache > 0 THEN UpdateGop(pushed) ELSE pushed
    BY <1>10 DEF AddFrame, opened
  <2> HIDE DEF pushed, d, g
  <2>4. CASE MinCache > 0
    <3>1. /\ Exact(d) /\ Filled(d) /\ Pointers(d) /\ Poppable(d) = {}
          /\ View(AllFrames(d), g)
      BY <1>3, <2>2, <2>3, <2>4, UpdateGopExact
    <3>2. Shown(d, g)
      BY <1>2, <3>1 DEF Shown, Trimmed
    <3> QED  BY <3>2 DEF d, g
  <2>5. CASE ~(MinCache > 0)
    <3>1. Shown(d, g)
      BY <1>2, <2>2, <2>3, <2>5 DEF Shown, Trimmed
    <3> QED  BY <3>1 DEF d, g
  <2> QED  BY <2>4, <2>5
<1> QED  BY <1>8, <1>9, <1>10

-----------------------------------------------------------------------------
(* The specification: what the cache shows of the history.                 *)

Content == Numbered(accepted) /\ Shown(cache, accepted)

\* The frames the session offers can be accepted next.
LEMMA OfferedNext ==
    ASSUME IInv, NEW f \in OfferedMetadata \union OfferedMedia
    PROVE  NextOf(accepted, f)
<1>1. f \in Frame /\ f.id = Len(accepted) + 1
  BY OfferedType DEF OfferedMetadata, OfferedMedia
<1>2. ASSUME IsMedia(f), LastMediaIn(accepted) # NoFrame
      PROVE  f.dts >= LastMediaIn(accepted).dts
  <2>1. f \in OfferedMedia
    BY <1>2 DEF OfferedMetadata, IsMedia, MediaKinds
  <2>2. PICK d \in DtsSteps : f.dts = LastDts + d
    BY <2>1 DEF OfferedMedia
  <2>3. LastDts = LastMediaIn(accepted).dts
    BY <1>2 DEF LastDts, LastMediaIn, FrameAt
  <2>4. LastMediaIn(accepted) \in Frame
    BY <1>2, FoundKinds, KindsOfFrames DEF IInv, MaybeMedia
  <2>5. LastDts \in Int /\ d \in Nat
    BY <2>3, <2>4, DtsStepsAssumption DEF Frame
  <2> QED  BY <2>2, <2>3, <2>5
<1> QED  BY <1>1, <1>2 DEF NextOf

LEMMA InitShows == Init => Content
<1> SUFFICES ASSUME Init  PROVE Content
  OBVIOUS
<1>1. cache = EmptyCache /\ accepted = <<>> /\ GoodCache(cache)
  BY InitGood DEF Init, IInv
<1>2. cache.gops = <<>> /\ cache.current = EmptyQueue
  BY <1>1 DEF EmptyCache
<1>3. Exact(cache) /\ Filled(cache)
  BY <1>1, <1>2, EmptyQueueExact DEF Exact, Filled, GoodCache
<1>4. AllFrames(cache) = <<>>
  <2>1. AllFrames(cache) = cache.current.frames
    BY <1>2, <1>3, AllOf
  <2> QED  BY <1>2, <2>1 DEF EmptyQueue
<1>5. Pointers(cache)
  BY <1>1, <1>4, FindInNone DEF Pointers, EmptyCache
<1>6. Trimmed(cache)
  <2>1. Len(cache.gops) = 0 /\ 1..0 = {}
    BY <1>2
  <2> QED  BY <2>1 DEF Trimmed, Poppable
<1> QED  BY <1>1, <1>3, <1>4, <1>5, <1>6, ViewOfNothing DEF Content, Shown

LEMMA StepShows == IInv /\ Content /\ [Next]_vars => Content'
<1> SUFFICES ASSUME IInv, Content, [Next]_vars  PROVE Content'
  OBVIOUS
<1>1. ASSUME NEW f \in OfferedMetadata \union OfferedMedia, Accept(f)
      PROVE  Content'
  <2>1. NextOf(accepted, f)
    BY OfferedNext
  <2>2. ValidFrame(cache, f) /\ cache' = AddFrame(cache, f) /\ accepted' = Append(accepted, f)
    BY <1>1 DEF Accept
  <2>3. Shown(AddFrame(cache, f), Append(accepted, f)) /\ Numbered(Append(accepted, f))
    BY <2>1, <2>2, AddFrameShows, NumberedGrows DEF Content
  <2> QED  BY <2>2, <2>3 DEF Content
<1>2. CASE Clear
  <2>1. Init'
    BY <1>2 DEF Clear, Init
  <2> QED  BY <2>1, InitShows, PTL
<1>3. CASE UNCHANGED vars
  BY <1>3 DEF vars, Content
<1> QED  BY <1>1, <1>2, <1>3 DEF Next, Reject

\* Every reachable cache shows the history.
THEOREM ContentInvariance == Spec => []Content
BY InitGood, StepGood, InitShows, StepShows, PTL DEF Spec

\* The content as the properties of GopCache put it.
LEMMA ContentIsPiece ==
    ASSUME Content
    PROVE  Ordered(Cached) /\ Gapless(Cached, Len(accepted)) /\ InForce(Cached)
<1> DEFINE s == AllFrames(cache)
<1>1. s \in Seq(Frame) /\ Numbered(accepted) /\ Piece(s, accepted, Len(accepted))
  BY DEF Content, Shown, View
<1>2. Len(accepted) \in 0..Len(accepted)
  BY <1>1, LenProperties DEF Numbered
<1> HIDE DEF s
<1>3. Ordered(s) /\ Gapless(s, Len(accepted)) /\ InForce(s)
  BY <1>1, <1>2, PieceIsThat
<1> QED  BY <1>3 DEF s, Cached

\* The metadata in force for a cached media frame is the one it was sent under,
\* however often metadata frames collapsed and whatever was popped in front of it.
THEOREM MetadataInForce == Spec => []MetadataInForceKept
<1>1. Content => MetadataInForceKept
  BY ContentIsPiece DEF MetadataInForceKept
<1> QED  BY <1>1, ContentInvariance, PTL

\* The cache holds the latest media frames, in the order they were accepted in,
\* each once and none missing, for a stream of any length.
THEOREM MediaIsSuffix == Spec => []CachedMediaIsSuffix
<1>1. Content => CachedMediaIsSuffix
  BY ContentIsPiece DEF CachedMediaIsSuffix, Content, Shown, View, Cached
<1> QED  BY <1>1, ContentInvariance, PTL

\* Trimming stops at exactly the right GOP: MinCache of media is left, and the first
\* GOP is needed for it, whatever the dts of the frames.
THEOREM TrimsExactly == Spec => []TrimmedExactly
<1>1. Content => TrimmedExactly
  BY DEF TrimmedExactly, MinCacheRetained, NothingToTrim, Content, Shown, View, Retained,
         Trimmed, Cached
<1> QED  BY <1>1, ContentInvariance, PTL

\* The pointers that duration, start_dts and the trimming rule read are the first and
\* the last media frame and the first frame of what is cached, after any operation.
THEOREM PointersAgree == Spec => []PointersMatchFrames
<1>1. Content => PointersMatchFrames
  BY DEF PointersMatchFrames, Content, Shown, Pointers, Cached
<1> QED  BY <1>1, ContentInvariance, PTL

-----------------------------------------------------------------------------
(* An inter frame has a keyframe somewhere before it.                      *)

KeyBefore(s) ==
    \A i \in 1..Len(s) : s[i].kind = "inter" => \E j \in 1..(i - 1) : s[j].kind = "key"

LEMMA KeyBeforeNothing == KeyBefore(<<>>)
<1>1. Len(<<>>) = 0 /\ \A i \in 1..0 : FALSE
  OBVIOUS
<1> QED  BY <1>1 DEF KeyBefore

\* Of two sequences in a row it holds, with what the second one has behind a
\* keyframe of the first.
LEMMA KeyBeforeConcat ==
    ASSUME NEW a \in Seq(Frame), NEW b \in Seq(Frame), KeyBefore(a),
           KeyBefore(b) \/ \E i \in 1..Len(a) : a[i].kind = "key"
    PROVE  KeyBefore(a \o b)
<1> DEFINE c == a \o b
           n == Len(a)
           m == Len(b)
<1>1. /\ n \in Nat /\ m \in Nat
      /\ \A i \in 1..n : i \in 1..Len(c) /\ c[i] = a[i]
      /\ \A i \in 1..m : n + i \in 1..Len(c) /\ c[n + i] = b[i]
      /\ \A i \in 1..Len(c) : i \in 1..n \/ i - n \in 1..m
      /\ Len(c) \in Nat
  BY Concatenated
<1>2. /\ \A i \in 1..n : a[i].kind = "inter" => \E j \in 1..(i - 1) : a[j].kind = "key"
      /\ \/ \A i \in 1..m : b[i].kind = "inter" => \E j \in 1..(i - 1) : b[j].kind = "key"
         \/ \E i \in 1..n : a[i].kind = "key"
  BY DEF KeyBefore
<1> HIDE DEF c, n, m
<1>3. ASSUME NEW i \in 1..Len(c), c[i].kind = "inter"
      PROVE  \E j \in 1..(i - 1) : c[j].kind = "key"
  <2>1. CASE i \in 1..n
    <3>1. PICK j \in 1..(i - 1) : a[j].kind = "key"
      BY <1>1, <1>2, <1>3, <2>1
    <3>2. j \in 1..n
      BY <1>1, <2>1
    <3> QED  BY <1>1, <3>1, <3>2
  <2>2. CASE i - n \in 1..m
    <3>1. c[i] = b[i - n] /\ n < i
      <4>1. n + (i - n) = i /\ n < i
        BY <1>1, <2>2
      <4> QED  BY <1>1, <2>2, <4>1
    <3>2. CASE \E j \in 1..n : a[j].kind = "key"
      <4>1. PICK j \in 1..n : a[j].kind = "key"
        BY <3>2
      <4>2. j \in 1..(i - 1)
        BY <1>1, <3>1
      <4> QED  BY <1>1, <4>1, <4>2
    <3>3. CASE \A k \in 1..m : b[k].kind = "inter" => \E j \in 1..(k - 1) : b[j].kind = "key"
      <4>1. PICK j \in 1..((i - n) - 1) : b[j].kind = "key"
        BY <1>3, <2>2, <3>1, <3>3
      <4>2. j \in 1..m /\ n + j \in 1..(i - 1)
        BY <1>1, <2>2
      <4> QED  BY <1>1, <4>1, <4>2
    <3> QED  BY <1>2, <3>2, <3>3
  <2> QED  BY <1>1, <2>1, <2>2
<1> QED  BY <1>3 DEF KeyBefore, c

LEMMA KeyBeforeFront ==
    ASSUME NEW a \in Seq(Frame), NEW b \in Seq(Frame), KeyBefore(a \o b)
    PROVE  KeyBefore(a)
<1> DEFINE c == a \o b
<1>1. /\ Len(a) \in Nat
      /\ \A i \in 1..Len(a) : i \in 1..Len(c) /\ c[i] = a[i]
  BY Concatenated
<1>2. KeyBefore(c)
  OBVIOUS
<1> HIDE DEF c
<1>3. ASSUME NEW i \in 1..Len(a), a[i].kind = "inter"
      PROVE  \E j \in 1..(i - 1) : a[j].kind = "key"
  <2>1. PICK j \in 1..(i - 1) : c[j].kind = "key"
    BY <1>1, <1>2, <1>3 DEF KeyBefore
  <2>2. j \in 1..Len(a)
    BY <1>1
  <2> QED  BY <1>1, <2>1, <2>2
<1> QED  BY <1>3 DEF KeyBefore

\* In the frames of queues in a row, if in each queue a keyframe leads.
LEMMA KeyBeforeInQueue ==
    ASSUME NEW q \in ExactQueue
    PROVE  q.frames \in Seq(Frame) /\ KeyBefore(q.frames)
<1> DEFINE s == q.frames
<1>1. s \in Seq(Frame) /\ q.fmedia = FirstMediaIn(s) /\ KeyLed(q) /\ Len(s) \in Nat
  BY QueueKinds, LenProperties DEF ExactQueue, Queue
<1>2. FirstOf(s, MediaFrame, q.fmedia)
  BY <1>1, FirstMediaIs
<1>3. ASSUME NEW i \in 1..Len(s), s[i].kind = "inter"
      PROVE  \E j \in 1..(i - 1) : s[j].kind = "key"
  <2>1. q.fmedia # NoFrame /\ q.fmedia.kind = "key"
    BY <1>1, <1>3 DEF KeyLed, HasMedia
  <2>2. s[i] \in MediaFrame
    <3>1. s[i] \in Frame
      BY <1>1, ElementOfSeq
    <3> QED  BY <1>3, <3>1 DEF MediaFrame, MediaKinds
  <2> HIDE DEF s
  <2>3. PICK p \in 1..Len(s) : s[p] = q.fmedia /\ \A j \in 1..(p - 1) : s[j] \notin MediaFrame
    BY <1>2, <2>1 DEF FirstOf
  <2>4. p # i
    BY <1>3, <2>1, <2>3
  <2>5. p \in 1..(i - 1)
    BY <1>1, <2>2, <2>3, <2>4
  <2> QED  BY <2>1, <2>3, <2>5
<1> QED  BY <1>1, <1>3 DEF KeyBefore

LEMMA KeyBeforeInFrames ==
    ASSUME NEW gs \in Seq(ExactQueue)
    PROVE  KeyBefore(FramesOf(gs))
<1> DEFINE P == {hs \in Seq(ExactQueue) : KeyBefore(FramesOf(hs))}
<1>1. <<>> \in P
  <2>1. <<>> \in Seq(ExactQueue)
    OBVIOUS
  <2> QED  BY <2>1, FramesOfNone, KeyBeforeNothing
<1>2. ASSUME NEW hs \in Seq(ExactQueue), NEW q \in ExactQueue, hs \in P
      PROVE  Append(hs, q) \in P
  <2>1. Append(hs, q) \in Seq(ExactQueue) /\ hs \in Seq(Queue) /\ q \in Queue
    BY QueueKinds, AppendProperties
  <2>2. FramesOf(Append(hs, q)) = FramesOf(hs) \o q.frames /\ FramesOf(hs) \in Seq(Frame)
    BY <2>1, FramesOfAppend, FramesOfType
  <2>3. KeyBefore(FramesOf(hs)) /\ KeyBefore(q.frames) /\ q.frames \in Seq(Frame)
    BY <1>2, KeyBeforeInQueue
  <2>4. KeyBefore(FramesOf(hs) \o q.frames)
    <3> DEFINE a == FramesOf(hs)
               b == q.frames
    <3> HIDE DEF a, b
    <3>1. a \in Seq(Frame) /\ b \in Seq(Frame) /\ KeyBefore(a) /\ KeyBefore(b)
      BY <2>2, <2>3 DEF a, b
    <3>2. KeyBefore(a \o b)
      BY <3>1, KeyBeforeConcat
    <3> QED  BY <3>2 DEF a, b
  <2> QED  BY <2>1, <2>2, <2>4
<1>3. Seq(ExactQueue) \subseteq P
  <2> HIDE DEF P
  <2> QED  BY <1>1, <1>2, ListInduction
<1> QED  BY <1>3

-----------------------------------------------------------------------------
(* A frame more, and a metadata frame less.                                *)

LEMMA DroppedBetween ==
    ASSUME NEW a \in Seq(Frame), NEW x \in Frame, NEW t \in Seq(Frame)
    PROVE  /\ Dropped(a \o t, (a \o <<x>>) \o t, Len(a))
           /\ ((a \o <<x>>) \o t)[Len(a) + 1] = x
<1> DEFINE n == Len(a)
           m == Len(t)
           e == <<x>>
           ax == a \o e
           r == a \o t
           s == ax \o t
<1>1. e \in Seq(Frame) /\ Len(e) = 1 /\ e[1] = x /\ 1 \in 1..1
  BY OnlyOne
<1> HIDE DEF e
<1>2. /\ ax \in Seq(Frame) /\ Len(ax) = n + Len(e) /\ n \in Nat
      /\ \A i \in 1..n : i \in 1..Len(ax) /\ ax[i] = a[i]
      /\ \A i \in 1..Len(e) : n + i \in 1..Len(ax) /\ ax[n + i] = e[i]
  BY <1>1, Concatenated
<1>3. /\ Len(r) = n + m /\ m \in Nat
      /\ \A i \in 1..n : r[i] = a[i]
      /\ \A i \in 1..m : r[n + i] = t[i]
  BY Concatenated
<1> HIDE DEF ax
<1>4. /\ Len(s) = Len(ax) + m
      /\ \A i \in 1..Len(ax) : s[i] = ax[i]
      /\ \A i \in 1..m : s[Len(ax) + i] = t[i]
  BY <1>2, Concatenated
<1> HIDE DEF r, s, n, m
<1>5. Len(ax) = n + 1 /\ ax[n + 1] = x /\ n + 1 \in 1..Len(ax)
  BY <1>1, <1>2
<1>6. s[n + 1] = x /\ Len(s) = (n + m) + 1 /\ n \in 0..(n + m)
  BY <1>2, <1>3, <1>4, <1>5
<1>7. ASSUME NEW i \in 1..(n + m)  PROVE r[i] = IF i <= n THEN s[i] ELSE s[i + 1]
  <2>1. CASE i <= n
    <3>1. i \in 1..n /\ i \in 1..Len(ax)
      BY <1>2, <1>3, <1>5, <2>1
    <3> QED  BY <1>2, <1>3, <1>4, <2>1, <3>1
  <2>2. CASE ~(i <= n)
    <3>1. i - n \in 1..m /\ n + (i - n) = i /\ (n + 1) + (i - n) = i + 1
      BY <1>2, <1>3, <2>2
    <3>2. r[i] = t[i - n]
      BY <1>3, <3>1
    <3>3. s[i + 1] = t[i - n]
      BY <1>4, <1>5, <3>1
    <3> QED  BY <2>2, <3>2, <3>3
  <2> QED  BY <2>1, <2>2
<1>8. Dropped(r, s, n)
  BY <1>2, <1>3, <1>6, <1>7 DEF Dropped
<1> QED  BY <1>6, <1>8 DEF r, s, n, ax, e

\* It holds of what is left when the frame that goes is no keyframe.
LEMMA KeyBeforeDropped ==
    ASSUME NEW r, NEW s, NEW n, Dropped(r, s, n), s[n + 1].kind # "key", KeyBefore(s)
    PROVE  KeyBefore(r)
<1>1. /\ Len(r) \in Nat /\ Len(s) = Len(r) + 1 /\ n \in 0..Len(r) /\ n \in Nat
      /\ \A i \in 1..Len(r) : r[i] = IF i <= n THEN s[i] ELSE s[i + 1]
  BY DEF Dropped
<1>2. ASSUME NEW i \in 1..Len(r), r[i].kind = "inter"
      PROVE  \E j \in 1..(i - 1) : r[j].kind = "key"
  <2> DEFINE p == IF i <= n THEN i ELSE i + 1
  <2>1. p \in 1..Len(s) /\ s[p].kind = "inter"
    BY <1>1, <1>2
  <2>2. PICK j \in 1..(p - 1) : s[j].kind = "key"
    BY <2>1 DEF KeyBefore
  <2>3. j # n + 1 /\ j \in Nat /\ j >= 1
    BY <2>1, <2>2
  <2> DEFINE k == IF j <= n THEN j ELSE j - 1
  <2>4. k \in 1..(i - 1) /\ k \in 1..Len(r) /\ j = (IF k <= n THEN k ELSE k + 1)
    BY <1>1, <2>3
  <2>5. r[k] = s[j]
    <3> HIDE DEF k
    <3> QED  BY <1>1, <2>4
  <2> QED  BY <2>2, <2>4, <2>5
<1> QED  BY <1>2 DEF KeyBefore

\* x, unless it is null, is a frame of s.
Has(s, x) == x # NoFrame => \E i \in 1..Len(s) : s[i] = x

LEMMA HasDropped ==
    ASSUME NEW r, NEW s, NEW n, Dropped(r, s, n), NEW x, s[n + 1] # x, Has(s, x)
    PROVE  Has(r, x)
<1>1. /\ Len(r) \in Nat /\ Len(s) = Len(r) + 1 /\ n \in 0..Len(r) /\ n \in Nat
      /\ \A i \in 1..Len(r) : r[i] = IF i <= n THEN s[i] ELSE s[i + 1]
  BY DEF Dropped
<1> SUFFICES ASSUME NEW j \in 1..Len(s), s[j] = x  PROVE \E i \in 1..Len(r) : r[i] = x
  BY DEF Has
<1>2. j # n + 1
  OBVIOUS
<1> DEFINE k == IF j <= n THEN j ELSE j - 1
<1>3. k \in 1..Len(r) /\ j = (IF k <= n THEN k ELSE k + 1)
  BY <1>1, <1>2
<1> HIDE DEF k
<1> QED  BY <1>1, <1>3

-----------------------------------------------------------------------------
(* What a viewer has, and what it is going to have.                        *)

\* s is what a viewer may have had of the history h: a decodable piece of it.
Run(s, h) ==
    /\ s \in Seq(Frame)
    /\ s # <<>> => /\ Last(s).id \in 0..Len(h) /\ Piece(s, h, Last(s).id)
                   /\ IsMeta(s[1]) /\ KeyBefore(s)

\* s is decodable, reaches the end of the history and has the frame x, the first
\* media frame of the current GOP: an inter frame can follow.
Follows(s, h, x) ==
    /\ View(s, h) /\ s # <<>> /\ IsMeta(s[1]) /\ KeyBefore(s) /\ Has(s, x)

LEMMA RunOfNothing ==
    ASSUME NEW h
    PROVE  Run(<<>>, h)
BY DEF Run

LEMMA RunGrows ==
    ASSUME NEW s, NEW h, Numbered(h), Run(s, h), NEW f, NextOf(h, f)
    PROVE  Run(s, Append(h, f))
<1>1. f \in Frame /\ Len(Append(h, f)) = Len(h) + 1 /\ Len(h) \in Nat
  BY NumberedGrows, LenProperties DEF NextOf, Numbered
<1>2. CASE s = <<>>
  BY <1>2, RunOfNothing
<1>3. CASE s # <<>>
  <2>1. Last(s).id \in 0..Len(h) /\ Piece(s, h, Last(s).id) /\ s \in Seq(Frame)
    BY <1>3 DEF Run
  <2>2. Piece(s, Append(h, f), Last(s).id)
    BY <1>1, <2>1, PieceGrows
  <2>3. Last(s).id \in 0..Len(Append(h, f))
    BY <1>1, <2>1
  <2> QED  BY <2>2, <2>3 DEF Run
<1> QED  BY <1>2, <1>3

\* What is before what is still to come.
LEMMA RunBegins ==
    ASSUME NEW s \in Seq(Frame), NEW rest \in Seq(Frame), NEW h, Numbered(h), NEW x,
           Follows(s \o rest, h, x)
    PROVE  Run(s, h)
<1> SUFFICES ASSUME s # <<>>  PROVE Run(s, h)
  BY RunOfNothing
<1> DEFINE w == s \o rest
           n == Len(s)
           y == Last(s)
<1>1. /\ n \in Nat /\ n \in 1..n
      /\ \A i \in 1..n : i \in 1..Len(w) /\ w[i] = s[i]
      /\ \A i \in 1..Len(rest) : n + i \in 1..Len(w) /\ w[n + i] = rest[i]
  <2>1. n > 0 /\ n \in Nat
    BY LenProperties, EmptySeq
  <2> QED  BY <2>1, Concatenated
<1>2. y = s[n]
  BY DEF Last
<1>3. View(w, h) /\ IsMeta(w[1]) /\ KeyBefore(w)
  BY DEF Follows
<1>4. Piece(w, h, Len(h)) /\ Len(h) \in Nat
  BY <1>3, LenProperties DEF View, Numbered
<1>5. KeyBefore(s)
  BY <1>3, KeyBeforeFront
<1> HIDE DEF w, n, y
<1>6. 1 \in 1..n /\ IsMeta(s[1])
  <2>1. 1 \in 1..n
    BY <1>1
  <2> QED  BY <1>1, <1>3, <2>1
<1>7. w[n] = y /\ y.id \in 1..Len(h) /\ y.id \in 0..Len(h) /\ Len(h) \in 0..Len(h)
  BY <1>1, <1>2, <1>4 DEF Piece, OrderedIn
<1>8. ASSUME NEW i \in 1..Len(rest)  PROVE y.id < rest[i].id
  <2>1. n + i \in 1..Len(w) /\ n \in 1..((n + i) - 1)
    BY <1>1
  <2> QED  BY <1>1, <1>4, <1>7, <2>1 DEF Piece, OrderedIn
<1>9. Piece(s, h, y.id)
  <2>1. Piece(s \o rest, h, Len(h))
    BY <1>4 DEF w
  <2>2. y.id \in 0..Len(h)
    BY <1>7
  <2> QED  BY <1>7, <1>8, <2>1, <2>2, PieceBegins
<1> QED  BY <1>5, <1>6, <1>7, <1>9 DEF Run, y

\* The next frame of the first group of frames a viewer is to have is pushed on
\* its queue.
LEMMA FollowsDelivered ==
    ASSUME NEW s \in Seq(Frame), NEW rest \in Seq(Frame), NEW f \in Frame,
           NEW h, Numbered(h), NEW x \in MaybeMedia, NEW t, PushedOn(s, t, f),
           Follows(s \o (<<f>> \o rest), h, x)
    PROVE  t \in Seq(Frame) /\ Follows(t \o rest, h, x)
<1>0. t \in Seq(Frame) /\ <<f>> \in Seq(Frame) /\ Len(<<f>>) = 1 /\ <<f>>[1] = f /\ 1 \in 1..1
  BY FindPushed, OnlyOne
<1>1. CASE t = s \o <<f>>
  <2> DEFINE e == <<f>>
  <2>1. e \in Seq(Frame)
    BY <1>0
  <2> HIDE DEF e
  <2>2. (s \o e) \o rest = s \o (e \o rest)
    BY <2>1, ConcatAssociative
  <2> QED  BY <1>0, <1>1, <2>2 DEF e
<1>2. ASSUME NEW a \in Seq(Frame), NEW y \in Frame,
             IsMeta(y), IsMeta(f), s = a \o <<y>>, t = a \o <<f>>
      PROVE  Follows(t \o rest, h, x)
  <2> DEFINE tt == <<f>> \o rest
             r == a \o tt
             w == (a \o <<y>>) \o tt
  <2>1. /\ tt \in Seq(Frame) /\ Len(tt) > 0 /\ tt[1] = f
        /\ LastMetaIn(tt) # NoFrame
        /\ t \o rest = r
    <3> DEFINE e == <<f>>
    <3>1. e \in Seq(Frame) /\ Len(e) = 1 /\ e[1] = f /\ 1 \in 1..Len(e)
      BY <1>0
    <3>2. LastMetaIn(e) = f /\ f # NoFrame
      BY <1>2, FindInOne, KindsOfFrames
    <3> HIDE DEF e
    <3>3. /\ e \o rest \in Seq(Frame) /\ Len(e \o rest) = Len(e) + Len(rest) /\ Len(rest) \in Nat
          /\ (e \o rest)[1] = e[1]
      BY <3>1, Concatenated
    <3>4. Len(e \o rest) > 0
      <4> DEFINE m == Len(rest)
      <4> HIDE DEF m
      <4>1. m \in Nat => 1 + m > 0
        OBVIOUS
      <4> QED  BY <3>1, <3>3, <4>1 DEF m
    <3>5. LastMetaIn(e \o rest) # NoFrame
      BY <3>1, <3>2, FindInConcat
    <3>6. (a \o e) \o rest = a \o (e \o rest)
      BY <3>1, ConcatAssociative
    <3> QED  BY <1>2, <3>1, <3>3, <3>4, <3>5, <3>6 DEF e
  <2>2. View(w, h) /\ w # <<>> /\ IsMeta(w[1]) /\ KeyBefore(w) /\ Has(w, x)
    BY <1>2 DEF Follows
  <2>3. Dropped(r, w, Len(a)) /\ w[Len(a) + 1] = y
    BY <2>1, DroppedBetween
  <2>4. KeyBefore(r) /\ Has(r, x)
    <3>1. y.kind # "key" /\ y # x
      BY <1>2, KindsOfFrames DEF IsMeta, MaybeMedia
    <3> HIDE DEF r, w
    <3> QED  BY <2>2, <2>3, <3>1, KeyBeforeDropped, HasDropped
  <2>5. Piece(r, h, Len(h))
    <3>1. Len(h) \in 0..Len(h)
      BY LenProperties DEF Numbered
    <3>2. Piece((a \o <<y>>) \o (<<f>> \o rest), h, Len(h))
      BY <2>2 DEF View
    <3>3. Piece(a \o (<<f>> \o rest), h, Len(h))
      BY <1>2, <3>1, <3>2, PieceCollapses
    <3> QED  BY <3>3
  <2>6. /\ r \in Seq(Frame) /\ Len(r) > 0
        /\ FirstMediaIn(r) = FirstMediaIn(w) /\ LastMediaIn(r) = LastMediaIn(w)
        /\ LastMetaIn(r) = LastMetaIn(w)
    <3> HIDE DEF tt
    <3> DEFINE ay == a \o <<y>>
    <3>1. ~IsMedia(y) /\ <<y>> \in Seq(Frame)
      BY <1>2, KindsOfFrames, OnlyOne
    <3>2. ay \in Seq(Frame) /\ FirstMediaIn(ay) = FirstMediaIn(a) /\ LastMediaIn(ay) = LastMediaIn(a)
      <4> DEFINE e == <<y>>
      <4>1. e \in Seq(Frame) /\ FirstMediaIn(e) = NoFrame /\ LastMediaIn(e) = NoFrame
        BY <3>1, FindInOne
      <4> HIDE DEF e
      <4>2. /\ a \o e \in Seq(Frame)
            /\ FirstMediaIn(a \o e) = FirstMediaIn(a) /\ LastMediaIn(a \o e) = LastMediaIn(a)
        BY <4>1, Concatenated, FindInConcat
      <4> QED  BY <4>2 DEF e
    <3> HIDE DEF ay
    <3>3. /\ FirstMediaIn(r) = FirstMediaIn(ay \o tt) /\ LastMediaIn(r) = LastMediaIn(ay \o tt)
          /\ LastMetaIn(r) = LastMetaIn(ay \o tt)
      BY <2>1, <3>2, FindInConcat
    <3>4. r \in Seq(Frame) /\ Len(r) = Len(a) + Len(tt) /\ Len(a) \in Nat /\ Len(tt) \in Nat
      BY <2>1, Concatenated
    <3> DEFINE p == Len(a)
               m == Len(tt)
    <3> HIDE DEF p, m
    <3>5. p \in Nat /\ m \in Nat /\ m > 0 => p + m > 0
      OBVIOUS
    <3> QED  BY <2>1, <3>3, <3>4, <3>5 DEF ay, p, m
  <2>7. IsMeta(r[1])
    <3>1. CASE a = <<>>
      <4>1. r = tt
        BY <2>1, <3>1, ConcatEmptySeq
      <4> QED  BY <1>2, <2>1, <4>1
    <3>2. CASE a # <<>>
      <4>1. Len(a) \in Nat /\ Len(a) > 0
        BY <3>2, LenProperties, EmptySeq
      <4> HIDE DEF r, w, tt
      <4>2. 1 \in 1..Len(r) /\ 1 <= Len(a)
        BY <2>3, <4>1 DEF Dropped
      <4>3. r[1] = w[1]
        BY <2>3, <4>2 DEF Dropped
      <4> QED  BY <2>2, <4>3
    <3> QED  BY <3>1, <3>2
  <2> HIDE DEF r, w, tt
  <2>8. View(r, h)
    BY <2>2, <2>5, <2>6 DEF View, Retained
  <2>9. r # <<>>
    BY <2>6, EmptySeq
  <2> QED  BY <2>1, <2>4, <2>7, <2>8, <2>9 DEF Follows
<1> QED  BY <1>0, <1>1, <1>2 DEF PushedOn

-----------------------------------------------------------------------------
(* A frame is published.                                                   *)

\* update_gop leaves the media of the GOP being filled alone.
LEMMA UpdateGopCurrent ==
    ASSUME NEW c \in Cache
    PROVE  UpdateGop(c).current.fmedia = c.current.fmedia
<1> DEFINE k == PopCount(c)
           G == Gops(c)
           n == Len(G)
           left == SubSeq(G, k + 1, n)
           first == IF StartsWithMetadata(Head(left)) THEN Head(left)
                    ELSE PushFront(Head(left), CarriedMetadata(c))
           kept == <<first>> \o Tail(left)
<1>1. CASE k = 0
  BY <1>1 DEF UpdateGop
<1>2. CASE k # 0
  <2>1. UpdateGop(c) = [c EXCEPT !.gops = Front(kept), !.current = Last(kept),
                                 !.firstMedia = FirstMediaOf(kept),
                                 !.firstMeta = FirstMetaOf(kept)]
    BY <1>2 DEF UpdateGop
  <2>2. /\ c.gops \in Seq(Queue) /\ c.current \in Queue /\ Len(c.gops) \in Nat
        /\ k \in 0..Len(c.gops)
    <3>1. c.gops \in Seq(Queue) /\ c.current \in Queue /\ Len(c.gops) \in Nat
      BY LenProperties DEF Cache
    <3> QED  BY <3>1, PopCountBound
  <2>3. G \in Seq(Queue) /\ n = Len(c.gops) + 1 /\ G[n] = c.current /\ n \in Nat
    BY <2>2, AppendProperties DEF Gops
  <2>4. /\ left \in Seq(Queue) /\ Len(left) = n - k /\ Len(left) > 0 /\ n - k \in Nat
        /\ \A i \in 1..(n - k) : left[i] = G[k + i]
    <3> HIDE DEF G, k
    <3>1. k \in 0..Len(G)
      BY <2>2, <2>3
    <3>2. SubSeq(G, k + 1, Len(G)) \in Seq(Queue) /\ Len(SubSeq(G, k + 1, Len(G))) = Len(G) - k
          /\ \A i \in 1..(Len(G) - k) : SubSeq(G, k + 1, Len(G))[i] = G[k + i]
      BY <2>3, <3>1, Cut
    <3>3. n - k \in Nat /\ n - k > 0
      BY <2>2, <2>3
    <3> QED  BY <3>2, <3>3
  <2>5. left # <<>>
    <3> HIDE DEF left
    <3> QED  BY <2>4, EmptySeq
  <2> DEFINE S == Queue \cup {first}
             rest == Tail(left)
             m == Len(rest)
  <2>6. /\ first \in S /\ first.fmedia = left[1].fmedia
        /\ rest \in Seq(S) /\ m + 1 = Len(left) /\ m \in Nat
        /\ \A i \in 1..m : rest[i] = left[i + 1]
    <3> HIDE DEF left
    <3>1. /\ Head(left) = left[1] /\ left[1] \in Queue
          /\ rest \in Seq(Queue) /\ Len(left) \in Nat /\ Len(left) > 0 /\ m = Len(left) - 1
          /\ \A i \in 1..(Len(left) - 1) : rest[i] = left[i + 1]
      BY <2>4, <2>5, FirstAndRest
    <3>2. PushFront(left[1], CarriedMetadata(c)).fmedia = left[1].fmedia
      BY <3>1 DEF PushFront, Queue
    <3>3. rest \in Seq(S)
      <4>1. Queue \subseteq S
        OBVIOUS
      <4> HIDE DEF S
      <4> QED  BY <3>1, <4>1, SeqMonotonic
    <3> HIDE DEF rest, m
    <3>4. m + 1 = Len(left) /\ m \in Nat /\ \A i \in 1..m : rest[i] = left[i + 1]
      BY <3>1
    <3> QED  BY <3>1, <3>2, <3>3, <3>4
  <2>7. Last(kept).fmedia = c.current.fmedia
    <3> DEFINE e == <<first>>
               w == e \o rest
    <3> HIDE DEF G, left, first, S, rest
    <3>1. e \in Seq(S) /\ Len(e) = 1 /\ e[1] = first
      BY <2>6
    <3> HIDE DEF e, m
    <3>2. Len(w) = Len(e) + m /\ \A i \in 1..(Len(e) + m) :
             w[i] = IF i <= Len(e) THEN e[i] ELSE rest[i - Len(e)]
      <4>1. rest \in Seq(S) /\ e \in Seq(S)
        BY <2>6, <3>1
      <4> QED  BY <4>1, ConcatProperties DEF m
    <3> HIDE DEF w
    <3>3. Len(w) = m + 1 /\ w[m + 1] = IF m = 0 THEN first ELSE rest[m]
      BY <2>6, <3>1, <3>2
    <3>4. m + 1 = n - k /\ k + (m + 1) = n /\ m + 1 \in 1..(n - k)
      <4> HIDE DEF n, k
      <4>1. m + 1 = n - k /\ m \in Nat /\ n \in Nat /\ k \in Nat
        BY <2>2, <2>3, <2>4, <2>6
      <4> QED  BY <4>1
    <3>5. left[m + 1] = c.current
      BY <2>3, <2>4, <3>4
    <3>6. w[m + 1].fmedia = c.current.fmedia
      <4>1. CASE m = 0
        BY <2>6, <3>3, <3>5, <4>1
      <4>2. CASE m # 0
        <5>1. m \in 1..m
          BY <2>6, <4>2
        <5> QED  BY <2>6, <3>3, <3>5, <4>2, <5>1
      <4> QED  BY <4>1, <4>2
    <3>7. Last(w) = w[m + 1]
      BY <3>3 DEF Last
    <3> QED  BY <3>6, <3>7 DEF w, e, rest
  <2>8. UpdateGop(c).current = Last(kept)
    <3> HIDE DEF kept
    <3> QED  BY <2>1 DEF Cache
  <2> QED  BY <2>7, <2>8
<1> QED  BY <1>1, <1>2

LEMMA PushFrameCurrent ==
    ASSUME NEW c, GoodCache(c), NEW f \in Frame
    PROVE  PushFrame(c, f).current.fmedia \in {c.current.fmedia, f}
<1> DEFINE q == c.current
           d == [c EXCEPT !.current = PushBack(q, f)]
<1>1. c \in Cache /\ q \in Queue /\ q \in GoodQueue
  BY DEF GoodCache, GoodQueue
<1>2. PushBack(q, f) \in Queue
  BY <1>1, PushBackGood DEF GoodQueue
<1>3. PushBack(q, f).fmedia \in {q.fmedia, f}
  BY <1>1 DEF PushBack, PushMedia, PushMetadata, Queue
<1>4. d \in Cache /\ d.current = PushBack(q, f)
  BY <1>1, <1>2 DEF Cache
<1> HIDE DEF d
<1>5. OnFrame(d, f).current = d.current
  BY <1>4, OnFrameGood
<1> QED  BY <1>3, <1>4, <1>5 DEF PushFrame, d

\* The media of the current GOP begin with the same frame as before, with the new
\* frame or with none.
LEMMA AddFrameCurrent ==
    ASSUME NEW c, GoodCache(c), NEW f \in Frame, ValidFrame(c, f)
    PROVE  AddFrame(c, f).current.fmedia \in {c.current.fmedia, f, NoFrame}
<1> DEFINE opened == IF RequiresNewGop(c, f) THEN CloseCurrent(c) ELSE c
           pushed == PushFrame(opened, f)
<1>1. c = EmptyCache => IsMeta(f)
  BY DEF ValidFrame, Allows, EmptyCache
<1>2. /\ GoodCache(opened) /\ (opened = EmptyCache => IsMeta(f))
      /\ opened.current.fmedia \in {c.current.fmedia, NoFrame}
  <2>1. CASE RequiresNewGop(c, f)
    <3>1. c # EmptyCache
      BY <2>1 DEF RequiresNewGop, HasMedia, EmptyCache, EmptyQueue
    <3>2. CloseCurrent(c).current = EmptyQueue
      BY DEF CloseCurrent, GoodCache, Cache
    <3> QED  BY <2>1, <3>1, <3>2, CloseCurrentGood DEF EmptyQueue
  <2>2. CASE ~RequiresNewGop(c, f)
    BY <1>1, <2>2
  <2> QED  BY <2>1, <2>2
<1>3. pushed \in Cache /\ pushed.current.fmedia \in {opened.current.fmedia, f}
  <2> HIDE DEF opened
  <2> QED  BY <1>2, PushFrameGood, PushFrameCurrent DEF GoodCache
<1>4. PushFrame(c, f).current.fmedia \in {c.current.fmedia, f}
  BY PushFrameCurrent
<1>5. UpdateGop(pushed).current.fmedia = pushed.current.fmedia
  <2> HIDE DEF pushed
  <2> QED  BY <1>3, UpdateGopCurrent
<1>6. AddFrame(c, f) \in {PushFrame(c, f), UpdateGop(pushed), pushed}
  BY DEF AddFrame
<1> HIDE DEF pushed, opened
<1> QED  BY <1>2, <1>3, <1>4, <1>5, <1>6

\* The whole cache is what a new viewer can follow the stream with.
LEMMA CacheFollows ==
    ASSUME NEW c, NEW h, Shown(c, h), AllFrames(c) # <<>>
    PROVE  Follows(AllFrames(c), h, c.current.fmedia)
<1> DEFINE s == AllFrames(c)
           a == FramesOf(c.gops)
           b == c.current.frames
<1>1. GoodCache(c) /\ Exact(c) /\ View(s, h)
  BY DEF Shown
<1>2. /\ s = a \o b /\ s \in Seq(Frame) /\ a \in Seq(Frame) /\ b \in Seq(Frame)
      /\ Gops(c) \in Seq(ExactQueue)
      /\ c.gops = <<>> => s = b
      /\ c.gops # <<>> => s[1] = c.gops[1].frames[1]
  BY <1>1, AllOf
<1>3. IsMeta(s[1])
  <2>1. c # EmptyCache
    <3>1. c = EmptyCache => c.gops = <<>> /\ b = <<>>
      BY DEF EmptyCache, EmptyQueue
    <3> QED  BY <1>2, <3>1
  <2>2. FirstGood(c) /\ FirstGop(c) = IF c.gops = <<>> THEN c.current ELSE c.gops[1]
    BY <1>1, <2>1, GopsGood DEF GoodCache
  <2> HIDE DEF s
  <2> QED  BY <1>2, <2>2 DEF FirstGood, StartsWithMetadata
<1>4. KeyBefore(s)
  BY <1>2, KeyBeforeInFrames DEF AllFrames
<1>5. Has(s, c.current.fmedia)
  <2> DEFINE x == c.current.fmedia
  <2>1. FirstOf(b, MediaFrame, x)
    BY <1>1, <1>2, FirstMediaIs DEF Exact, ExactQueue
  <2>2. /\ Len(a) \in Nat /\ \A i \in 1..Len(b) : Len(a) + i \in 1..Len(s) /\ s[Len(a) + i] = b[i]
    <3> HIDE DEF s, a, b
    <3> QED  BY <1>2, Concatenated
  <2> HIDE DEF s, a, b, x
  <2>3. ASSUME x # NoFrame  PROVE \E i \in 1..Len(s) : s[i] = x
    <3>1. PICK i \in 1..Len(b) : b[i] = x
      BY <2>1, <2>3 DEF FirstOf
    <3> QED  BY <2>2, <3>1
  <2> QED  BY <2>3 DEF Has, x
<1> QED  BY <1>1, <1>3, <1>4, <1>5 DEF Follows

LEMMA NewViewerFollows ==
    ASSUME NEW c, NEW h, Numbered(h), Shown(c, h), NEW f, NextOf(h, f), ValidFrame(c, f)
    PROVE  LET d == AddFrame(c, f)
           IN  /\ Follows(AllFrames(d), Append(h, f), d.current.fmedia)
               /\ d.current.fmedia \in MaybeMedia
<1> DEFINE d == AddFrame(c, f)
           g == Append(h, f)
<1>1. Shown(d, g)
  BY AddFrameShows
<1> HIDE DEF d
<1>2. PushedOn(h, g, f) /\ h \in Seq(Frame) /\ f \in Frame /\ f # NoFrame
      /\ (IsMedia(f) <=> ~IsMeta(f))
  BY NumberedGrows, KindsOfFrames DEF Numbered, NextOf
<1>3. LastMediaIn(g) # NoFrame \/ LastMetaIn(g) # NoFrame
  <2> HIDE DEF g
  <2> QED  BY <1>2, FindPushed
<1>4. AllFrames(d) # <<>>
  <2> HIDE DEF g
  <2>1. /\ LastMediaIn(AllFrames(d)) = LastMediaIn(g)
        /\ LastMetaIn(AllFrames(d)) = LastMetaIn(g)
    BY <1>1 DEF Shown, View
  <2> QED  BY <1>3, <2>1, FindInNone
<1>5. d.current.fmedia \in MaybeMedia
  BY <1>1 DEF Shown, GoodCache, Cache, Queue
<1> QED  BY <1>1, <1>4, <1>5, CacheFollows DEF d

\* Whoever follows the stream can be sent the next frame alone.
LEMMA FrameFollows ==
    ASSUME NEW c, NEW h, Numbered(h), Shown(c, h), NEW f, NextOf(h, f), ValidFrame(c, f),
           NEW s, Follows(s, h, c.current.fmedia)
    PROVE  Follows(s \o <<f>>, Append(h, f), AddFrame(c, f).current.fmedia)
<1> DEFINE e == <<f>>
           t == s \o e
           g == Append(h, f)
           x == c.current.fmedia
           y == AddFrame(c, f).current.fmedia
<1>1. /\ View(s, h) /\ s # <<>> /\ IsMeta(s[1]) /\ KeyBefore(s) /\ Has(s, x)
      /\ s \in Seq(Frame) /\ f \in Frame /\ f # NoFrame
  BY KindsOfFrames DEF Follows, View, NextOf
<1>2. View(t, g)
  <2>1. PushedOn(s, s \o <<f>>, f)
    BY DEF PushedOn
  <2> QED  BY <1>1, <2>1, ViewPushed
<1>3. e \in Seq(Frame) /\ Len(e) = 1 /\ e[1] = f /\ 1 \in 1..Len(e)
  BY <1>1, OnlyOne
<1>4. y \in {x, f, NoFrame}
  BY <1>1, AddFrameCurrent DEF Shown
<1>5. f.kind = "inter" => x # NoFrame /\ x.kind = "key"
  BY <1>1, ValidFrameFits DEF HasMedia
<1> HIDE DEF e, g, x, y
<1>6. /\ t \in Seq(Frame) /\ Len(t) = Len(s) + Len(e) /\ Len(s) \in Nat
      /\ \A i \in 1..Len(s) : i \in 1..Len(t) /\ t[i] = s[i]
      /\ \A i \in 1..Len(e) : Len(s) + i \in 1..Len(t) /\ t[Len(s) + i] = e[i]
  BY <1>1, <1>3, Concatenated
<1>7. KeyBefore(t)
  <2>1. CASE f.kind # "inter"
    <3>1. KeyBefore(e)
      BY <1>3, <2>1 DEF KeyBefore
    <3> QED  BY <1>1, <1>3, <3>1, KeyBeforeConcat
  <2>2. CASE f.kind = "inter"
    <3>1. \E i \in 1..Len(s) : s[i].kind = "key"
      BY <1>1, <1>5, <2>2 DEF Has
    <3> QED  BY <1>1, <1>3, <3>1, KeyBeforeConcat
  <2> QED  BY <2>1, <2>2
<1>8. t # <<>> /\ IsMeta(t[1])
  <2>1. Len(s) > 0
    BY <1>1, <1>6, EmptySeq
  <2>2. 1 \in 1..Len(s)
    BY <1>6, <2>1
  <2>3. t # <<>>
    BY <1>1, <1>3, ConcatEqualIffEmpty
  <2> HIDE DEF t
  <2> QED  BY <1>1, <1>6, <2>2, <2>3
<1>9. Has(t, y)
  <2> HIDE DEF t
  <2>1. \A i \in 1..Len(s) : i \in 1..Len(t) /\ t[i] = s[i]
    BY <1>6
  <2>2. \E i \in 1..Len(t) : t[i] = f
    BY <1>3, <1>6
  <2> QED  BY <1>1, <1>4, <2>1, <2>2 DEF Has
<1> HIDE DEF t
<1>10. Follows(t, g, y)
  BY <1>2, <1>7, <1>8, <1>9 DEF Follows
<1> QED  BY <1>10 DEF t, e, g, y

-----------------------------------------------------------------------------
(* The inductive invariant.                                                *)

In(v, s) == \E i \in 1..Len(s) : s[i] = v

\* The frames of the publication under way that a viewer is still to be pushed.
Coming(v) ==
    IF delivery.to = v THEN delivery.frames
    ELSE IF In(v, todo) THEN FramesFor(v) ELSE <<>>

GoodViewer == {p \in Viewer : p.queue \in GoodQueue}

Typed ==
    /\ subscribers \in Seq(Viewers) /\ todo \in Seq(Viewers)
    /\ publishing \in BOOLEAN /\ receiving \in SUBSET Viewers
    /\ viewer \in [Viewers -> GoodViewer]
    /\ delivery \in [to : Viewers \cup {NoFrame}, frames : Seq(Frame)]
    /\ delivery # NoDelivery => todo # <<>> /\ delivery.to = Head(todo)

\* Who is on the lists, and how far along.
Books ==
    /\ Distinct(subscribers) /\ Distinct(todo)
    /\ ~publishing => todo = <<>>
    /\ todo # <<>> => accepted # <<>>
    /\ \A v \in Viewers :
          /\ In(v, subscribers) => viewer[v].reader \notin {"away", "gone"}
          /\ viewer[v].reader \in {"stopped", "gone"} => viewer[v].complete
          /\ (v \in receiving \/ In(v, todo)) /\ ~viewer[v].complete => In(v, subscribers)

\* What a viewer has had is a run of the stream; together with what is coming, it
\* lets a viewer that is being served follow the stream.
Had ==
    \A v \in Viewers :
        /\ Run(Got(v), accepted)
        /\ v \notin receiving /\ delivery.to # v => Got(v) = <<>>
        /\ publishing /\ ~viewer[v].complete /\ (v \in receiving \/ In(v, todo)) =>
              Follows(Got(v) \o Coming(v), accepted, cache.current.fmedia)

DInv == IInv /\ Content /\ Typed /\ Books /\ Had

LEMMA NotNobody ==
    ASSUME NEW v \in Viewers
    PROVE  v # NoFrame /\ NoDelivery.to # v /\ ~In(v, <<>>)
<1>1. Len(<<>>) = 0 /\ \A i \in 1..0 : FALSE
  OBVIOUS
<1>2. ~In(v, <<>>)
  BY <1>1 DEF In
<1> QED  BY <1>2, ViewersAssumption DEF NoDelivery

LEMMA GotIsFrames ==
    ASSUME Typed, NEW v \in Viewers
    PROVE  /\ viewer[v] \in GoodViewer
           /\ viewer[v].received \in Seq(Frame) /\ viewer[v].queue.frames \in Seq(Frame)
           /\ viewer[v].queue \in GoodQueue /\ viewer[v].queue \in Queue
           /\ Got(v) \in Seq(Frame)
<1>1. viewer[v] \in GoodViewer
  BY DEF Typed
<1>2. /\ viewer[v].received \in Seq(Frame) /\ viewer[v].queue.frames \in Seq(Frame)
      /\ viewer[v].queue \in GoodQueue /\ viewer[v].queue \in Queue
  BY <1>1 DEF GoodViewer, Viewer, Queue
<1> QED  BY <1>1, <1>2, ConcatProperties DEF Got

\* Nothing in a step's effect on the cache and the history is new.
LEMMA DeliveryIsCache ==
    /\ DeliveryInit => Init
    /\ [DeliveryNext]_allVars => [Next]_vars
BY DEF DeliveryInit, DeliveryNext, allVars, deliveryVars, Publish, Deliver, ReceiveFrame, Notify,
       Subscribe, Written, End, Unsubscribe, Finished, Next, vars

LEMMA DeliveryInitGood == DeliveryInit => Typed /\ Books /\ Had
<1> SUFFICES ASSUME DeliveryInit  PROVE Typed /\ Books /\ Had
  OBVIOUS
<1>1. /\ publishing = TRUE /\ subscribers = <<>> /\ receiving = {} /\ todo = <<>>
      /\ delivery = NoDelivery
      /\ viewer = [v \in Viewers |-> [reader |-> "away", complete |-> FALSE,
                                      queue |-> EmptyQueue, received |-> <<>>]]
  BY DEF DeliveryInit
<1>2. /\ <<>> \in Seq(Viewers) /\ <<>> \in Seq(Frame) /\ Len(<<>>) = 0
      /\ \A i \in 1..0 : FALSE
  OBVIOUS
<1>3. EmptyQueue \in GoodQueue /\ EmptyQueue \in Queue
  BY EmptyQueueGood DEF GoodQueue
<1>4. Typed
  <2>1. [reader |-> "away", complete |-> FALSE, queue |-> EmptyQueue, received |-> <<>>]
           \in GoodViewer
    BY <1>2, <1>3 DEF GoodViewer, Viewer
  <2> QED  BY <1>1, <1>2, <2>1 DEF Typed, NoDelivery
<1>5. Books
  BY <1>1, <1>2, NotNobody DEF Books, Distinct
<1>6. Had
  <2> SUFFICES ASSUME NEW v \in Viewers
               PROVE  /\ Got(v) = <<>>
                      /\ v \notin receiving /\ ~In(v, todo)
    BY RunOfNothing DEF Had
  <2>1. viewer[v].received = <<>> /\ viewer[v].queue.frames = <<>>
    BY <1>1 DEF EmptyQueue
  <2> QED  BY <1>1, <1>2, <2>1, NotNobody, ConcatEmptySeq DEF Got
<1> QED  BY <1>4, <1>5, <1>6

-----------------------------------------------------------------------------
(* The steps.                                                              *)

LEMMA PublishKeeps ==
    ASSUME DInv, Publish
    PROVE  Typed' /\ Books' /\ Had'
<1>1. PICK f \in OfferedMetadata \union OfferedMedia : Accept(f)
  BY DEF Publish
<1>2. /\ NextOf(accepted, f) /\ ValidFrame(cache, f) /\ f \in Frame
      /\ cache' = AddFrame(cache, f) /\ accepted' = Append(accepted, f)
      /\ Numbered(accepted) /\ Shown(cache, accepted) /\ accepted \in Seq(Frame)
  BY <1>1, OfferedNext DEF Accept, DInv, Content, NextOf, Numbered
<1>3. /\ publishing /\ todo = <<>>
      /\ publishing' \in BOOLEAN
      /\ todo' = IF publishing' THEN subscribers ELSE <<>>
      /\ subscribers' = subscribers /\ receiving' = receiving /\ delivery' = delivery
      /\ viewer' = viewer
  BY DEF Publish
<1>4. delivery = NoDelivery
  BY <1>3 DEF DInv, Typed
<1>5. Last(accepted') = f /\ accepted' # <<>>
  <2>1. Len(accepted') = Len(accepted) + 1 /\ accepted'[Len(accepted) + 1] = f
        /\ accepted' \in Seq(Frame) /\ Len(accepted) \in Nat
    BY <1>2, AppendProperties, LenProperties
  <2>2. Len(accepted') # 0
    BY <2>1
  <2> QED  BY <2>1, <2>2 DEF Last
<1>6. Typed'
  <2>1. todo' \in Seq(Viewers)
    BY <1>3 DEF DInv, Typed
  <2>2. delivery' = NoDelivery
    BY <1>3, <1>4
  <2> QED  BY <1>3, <2>1, <2>2 DEF DInv, Typed
<1>7. Books'
  <2>1. Distinct(todo') /\ (~publishing' => todo' = <<>>)
    BY <1>3 DEF DInv, Books
  <2>2. ASSUME NEW v \in Viewers  PROVE In(v, todo') => In(v, subscribers)
    BY <1>3, NotNobody
  <2> QED  BY <1>3, <1>5, <2>1, <2>2 DEF DInv, Books, In
<1>8. Had'
  <2> SUFFICES ASSUME NEW v \in Viewers
               PROVE  /\ Run(Got(v)', accepted')
                      /\ v \notin receiving' /\ delivery'.to # v => Got(v)' = <<>>
                      /\ publishing' /\ ~viewer[v].complete' /\ (v \in receiving' \/ In(v, todo)') =>
                            Follows(Got(v)' \o Coming(v)', accepted', cache'.current.fmedia)
    BY DEF Had
  <2>1. Got(v)' = Got(v) /\ Got(v) \in Seq(Frame)
    BY <1>3, GotIsFrames DEF Got, DInv
  <2>2. /\ Run(Got(v), accepted)
        /\ v \notin receiving /\ delivery.to # v => Got(v) = <<>>
        /\ ~viewer[v].complete /\ v \in receiving =>
              Follows(Got(v) \o Coming(v), accepted, cache.current.fmedia)
        /\ v \in receiving /\ ~viewer[v].complete => In(v, subscribers)
    BY <1>3 DEF DInv, Had, Books
  <2>3. delivery.to # v /\ delivery'.to # v
    BY <1>3, <1>4, NotNobody
  <2>4. Run(Got(v), accepted')
    BY <1>2, <2>2, RunGrows
  <2>5. ASSUME publishing', ~viewer[v].complete, v \in receiving
        PROVE  Follows(Got(v) \o Coming(v)', accepted', cache'.current.fmedia)
    <3>1. In(v, todo)' /\ Coming(v)' = <<f>>
      <4>1. In(v, todo)'
        BY <1>3, <2>2, <2>5 DEF In
      <4>2. FramesFor(v)' = <<f>>
        BY <1>3, <1>5, <2>5 DEF FramesFor
      <4> QED  BY <2>3, <4>1, <4>2 DEF Coming
    <3>2. Coming(v) = <<>>
      BY <1>3, <2>3, NotNobody DEF Coming
    <3>3. Follows(Got(v), accepted, cache.current.fmedia)
      <4>1. Got(v) \o <<>> = Got(v)
        BY <2>1, ConcatEmptySeq
      <4> QED  BY <2>2, <2>5, <3>2, <4>1
    <3> QED  BY <1>2, <3>1, <3>3, FrameFollows
  <2>6. ASSUME publishing', v \notin receiving, In(v, todo)'
        PROVE  Follows(Got(v) \o Coming(v)', accepted', cache'.current.fmedia)
    <3>1. Coming(v)' = AllFrames(cache')
      BY <1>3, <2>3, <2>6 DEF Coming, FramesFor
    <3>2. Got(v) = <<>>
      BY <2>2, <2>3, <2>6
    <3>3. Follows(AllFrames(cache'), accepted', cache'.current.fmedia)
      BY <1>2, NewViewerFollows
    <3>4. <<>> \o AllFrames(cache') = AllFrames(cache')
      <4>1. AllFrames(cache') \in Seq(Frame)
        BY <3>3 DEF Follows, View
      <4> QED  BY <4>1, ConcatEmptySeq
    <3> QED  BY <3>1, <3>2, <3>3, <3>4
  <2> QED  BY <1>3, <2>1, <2>2, <2>4, <2>5, <2>6
<1> QED  BY <1>6, <1>7, <1>8

LEMMA DeliverKeeps ==
    ASSUME DInv, Deliver
    PROVE  Typed' /\ Books' /\ Had'
<1> DEFINE u == Head(todo)
<1>1. /\ todo # <<>> /\ delivery = NoDelivery
      /\ delivery' = [to |-> u, frames |-> FramesFor(u)]
      /\ cache' = cache /\ accepted' = accepted /\ publishing' = publishing
      /\ subscribers' = subscribers /\ receiving' = receiving /\ todo' = todo
      /\ viewer' = viewer
  BY DEF Deliver, vars
<1>2. u \in Viewers /\ u = todo[1] /\ 1 \in 1..Len(todo)
  <2>1. todo \in Seq(Viewers)
    BY DEF DInv, Typed
  <2>2. u = todo[1] /\ todo[1] \in Viewers /\ Len(todo) \in Nat /\ Len(todo) > 0
    BY <1>1, <2>1, FirstAndRest
  <2> QED  BY <2>2
<1>3. In(u, todo)
  BY <1>2 DEF In
<1> HIDE DEF u
<1>4. FramesFor(u) \in Seq(Frame)
  <2>1. AllFrames(cache) \in Seq(Frame)
    BY DEF DInv, Content, Shown, View
  <2>2. Last(accepted) \in Frame
    <3>1. accepted \in Seq(Frame) /\ accepted # <<>>
      BY <1>1 DEF DInv, Books, IInv
    <3> QED  BY <3>1, FrontAndLast
  <2> QED  BY <2>1, <2>2, OnlyOne DEF FramesFor
<1>5. Typed'
  BY <1>1, <1>2, <1>4 DEF DInv, Typed, u
<1>6. Books'
  BY <1>1 DEF DInv, Books, In
<1>7. ASSUME NEW v \in Viewers  PROVE Coming(v)' = Coming(v) \/ ~In(v, todo)
  <2>1. delivery.to # v
    BY <1>1, NotNobody
  <2>2. FramesFor(v)' = FramesFor(v)
    BY <1>1 DEF FramesFor
  <2>3. CASE v = u
    BY <1>1, <1>3, <2>1, <2>3 DEF Coming
  <2>4. CASE v # u
    BY <1>1, <2>1, <2>2, <2>4 DEF Coming, In
  <2> QED  BY <2>3, <2>4
<1>8. ASSUME NEW v \in Viewers, v \in receiving, ~In(v, todo)  PROVE Coming(v)' = Coming(v)
  <2>1. delivery.to # v /\ delivery'.to # v
    BY <1>1, <1>3, <1>8, NotNobody
  <2> QED  BY <1>1, <1>8, <2>1 DEF Coming, In
<1>9. Had'
  <2> SUFFICES ASSUME NEW v \in Viewers
               PROVE  /\ Run(Got(v)', accepted')
                      /\ v \notin receiving' /\ delivery'.to # v => Got(v)' = <<>>
                      /\ publishing' /\ ~viewer[v].complete' /\ (v \in receiving' \/ In(v, todo)') =>
                            Follows(Got(v)' \o Coming(v)', accepted', cache'.current.fmedia)
    BY DEF Had
  <2>1. Got(v)' = Got(v) /\ (In(v, todo)' <=> In(v, todo))
    BY <1>1 DEF Got, In
  <2>2. delivery.to # v
    BY <1>1, NotNobody
  <2>3. v \in receiving \/ In(v, todo) => Coming(v)' = Coming(v)
    BY <1>7, <1>8
  <2> QED  BY <1>1, <2>1, <2>2, <2>3 DEF DInv, Had
<1> QED  BY <1>5, <1>6, <1>9

\* What a viewer is, once a frame is pushed, its queue handed over or it has ended.
LEMMA CompletedViewer ==
    ASSUME NEW p \in GoodViewer
    PROVE  /\ Completed(p) \in GoodViewer
           /\ Completed(p).queue = p.queue /\ Completed(p).received = p.received
           /\ Completed(p).complete = TRUE
           /\ Completed(p).reader \in {p.reader, "stopped"}
BY DEF GoodViewer, Viewer, Completed

LEMMA HandedViewer ==
    ASSUME NEW p \in GoodViewer
    PROVE  /\ Handed(p) \in GoodViewer
           /\ Handed(p).received \o Handed(p).queue.frames = p.received \o p.queue.frames
           /\ Handed(p).complete = p.complete
           /\ Handed(p).reader \in {p.reader, "busy"}
<1> DEFINE r == p.received \o p.queue.frames
           q == [p EXCEPT !.queue = EmptyQueue, !.reader = "busy", !.received = r]
<1>1. p \in Viewer /\ p.received \in Seq(Frame) /\ p.queue.frames \in Seq(Frame)
  BY DEF GoodViewer, Viewer, Queue
<1>2. r \in Seq(Frame) /\ r \o <<>> = r
  BY <1>1, ConcatProperties, ConcatEmptySeq
<1>3. EmptyQueue \in GoodQueue /\ EmptyQueue \in Queue /\ EmptyQueue.frames = <<>>
  BY EmptyQueueGood DEF GoodQueue, EmptyQueue
<1>4. CASE Handed(p) = p
  BY <1>4
<1>5. CASE Handed(p) = q
  <2> HIDE DEF r
  <2>1. /\ q \in GoodViewer /\ q.received = r /\ q.queue = EmptyQueue
        /\ q.complete = p.complete /\ q.reader = "busy"
    BY <1>1, <1>2, <1>3 DEF GoodViewer, Viewer
  <2> HIDE DEF q
  <2> QED  BY <1>2, <1>3, <1>5, <2>1 DEF r
<1> QED  BY <1>4, <1>5 DEF Handed

LEMMA PushBackPushes ==
    ASSUME NEW q \in Queue, NEW f \in Frame
    PROVE  PushedOn(q.frames, PushBack(q, f).frames, f)
<1>1. q.frames \in Seq(Frame)
  BY DEF Queue
<1>2. CASE IsMedia(f)
  <2>1. PushBack(q, f).frames = Append(q.frames, f)
    BY <1>2 DEF PushBack, PushMedia, Queue
  <2> QED  BY <1>1, <2>1, AppendIsConcat DEF PushedOn
<1>3. CASE ~IsMedia(f)
  <2> DEFINE kept == IF EndsWithMetadata(q) THEN Front(q.frames) ELSE q.frames
  <2>1. PushBack(q, f).frames = Append(kept, f)
    BY <1>3 DEF PushBack, PushMetadata, Queue
  <2>2. kept \in Seq(Frame) /\ PushedOn(q.frames, kept \o <<f>>, f)
    <3>1. CASE ~EndsWithMetadata(q)
      BY <1>1, <3>1 DEF PushedOn
    <3>2. CASE EndsWithMetadata(q)
      <4> DEFINE a == Front(q.frames)
                 x == Last(q.frames)
      <4>1. q.frames # <<>> /\ IsMeta(x)
        BY <3>2 DEF EndsWithMetadata
      <4>2. a \in Seq(Frame) /\ x \in Frame /\ q.frames = a \o <<x>>
        BY <1>1, <4>1, FrontAndLast
      <4> HIDE DEF a, x
      <4>3. kept = a /\ IsMeta(f)
        BY <1>3, <3>2, KindsOfFrames DEF a
      <4> QED  BY <4>1, <4>2, <4>3 DEF PushedOn
    <3> QED  BY <3>1, <3>2
  <2> HIDE DEF kept
  <2> QED  BY <2>1, <2>2, AppendIsConcat
<1> QED  BY <1>2, <1>3

LEMMA PushedViewer ==
    ASSUME NEW p \in GoodViewer, NEW f \in Frame
    PROVE  /\ Pushed(p, f) \in GoodViewer
           /\ Pushed(p, f).received = p.received
           /\ PushedOn(p.received \o p.queue.frames,
                       Pushed(p, f).received \o Pushed(p, f).queue.frames, f)
           /\ \/ Pushed(p, f).complete = p.complete /\ Pushed(p, f).reader = p.reader
              \/ Pushed(p, f).complete = TRUE /\ Pushed(p, f).reader \in {p.reader, "stopped"}
<1> DEFINE q == [p EXCEPT !.queue = PushBack(p.queue, f)]
<1>1. /\ p \in Viewer /\ p.queue \in GoodQueue /\ p.queue \in Queue
      /\ p.received \in Seq(Frame) /\ p.queue.frames \in Seq(Frame)
  BY DEF GoodViewer, Viewer, Queue
<1>2. PushBack(p.queue, f) \in GoodQueue /\ PushBack(p.queue, f) \in Queue
  BY <1>1, PushBackGood DEF GoodQueue
<1>3. /\ q \in GoodViewer /\ q.received = p.received /\ q.queue = PushBack(p.queue, f)
      /\ q.complete = p.complete /\ q.reader = p.reader
  BY <1>1, <1>2 DEF GoodViewer, Viewer
<1>4. PushedOn(p.queue.frames, q.queue.frames, f)
  BY <1>1, <1>3, PushBackPushes
<1>5. PushedOn(p.received \o p.queue.frames, q.received \o q.queue.frames, f)
  <2> HIDE DEF q
  <2> QED  BY <1>1, <1>3, <1>4, PushedBehind
<1>6. Pushed(p, f) \in {q, Completed(q)}
  BY DEF Pushed
<1> HIDE DEF q
<1> QED  BY <1>3, <1>5, <1>6, CompletedViewer

\* The viewer that is being delivered to is the first that is due.
LEMMA ServedViewer ==
    ASSUME DInv, delivery # NoDelivery
    PROVE  /\ delivery.to \in Viewers /\ delivery.frames \in Seq(Frame)
           /\ todo # <<>> /\ delivery.to = todo[1] /\ 1 \in 1..Len(todo)
           /\ In(delivery.to, todo) /\ publishing
<1>1. /\ todo \in Seq(Viewers) /\ todo # <<>> /\ delivery.to = Head(todo)
      /\ delivery.frames \in Seq(Frame)
  BY DEF DInv, Typed
<1>2. Head(todo) = todo[1] /\ todo[1] \in Viewers /\ Len(todo) \in Nat /\ Len(todo) > 0
  BY <1>1, FirstAndRest
<1>3. 1 \in 1..Len(todo)
  BY <1>2
<1>4. publishing
  BY <1>1 DEF DInv, Books, Typed
<1> QED  BY <1>1, <1>2, <1>3, <1>4 DEF In

LEMMA ReceiveFrameKeeps ==
    ASSUME DInv, ReceiveFrame
    PROVE  Typed' /\ Books' /\ Had'
<1> DEFINE u == delivery.to
           f == Head(delivery.frames)
           rest == Tail(delivery.frames)
           p == viewer[u]
<1>1. /\ delivery.frames # <<>>
      /\ delivery' = [delivery EXCEPT !.frames = rest]
      /\ viewer' = IF p.complete THEN viewer ELSE [viewer EXCEPT ![u] = Pushed(p, f)]
      /\ cache' = cache /\ accepted' = accepted /\ publishing' = publishing
      /\ subscribers' = subscribers /\ receiving' = receiving /\ todo' = todo
  BY DEF ReceiveFrame, vars
<1>2. /\ u \in Viewers /\ delivery.frames \in Seq(Frame) /\ todo # <<>> /\ u = todo[1]
      /\ In(u, todo) /\ publishing
  <2>1. delivery # NoDelivery
    BY <1>1 DEF NoDelivery
  <2> QED  BY <2>1, ServedViewer
<1>3. f \in Frame /\ rest \in Seq(Frame) /\ delivery.frames = <<f>> \o rest
  BY <1>1, <1>2, FirstAndRest
<1>4. delivery'.to = u /\ delivery'.frames = rest
      /\ delivery' \in [to : Viewers \cup {NoFrame}, frames : Seq(Frame)]
  <2> HIDE DEF rest
  <2> QED  BY <1>1, <1>3 DEF DInv, Typed
<1>5. /\ p \in GoodViewer /\ Pushed(p, f) \in GoodViewer
      /\ PushedOn(Got(u), Pushed(p, f).received \o Pushed(p, f).queue.frames, f)
      /\ \/ Pushed(p, f).complete = p.complete /\ Pushed(p, f).reader = p.reader
         \/ Pushed(p, f).complete = TRUE /\ Pushed(p, f).reader \in {p.reader, "stopped"}
  <2>1. p \in GoodViewer
    BY <1>2 DEF DInv, Typed
  <2> HIDE DEF p, f
  <2>2. Got(u) = p.received \o p.queue.frames
    BY DEF Got, p
  <2> QED  BY <1>3, <2>1, <2>2, PushedViewer
<1> HIDE DEF f, rest
<1>6. ASSUME NEW v \in Viewers, v # u \/ p.complete
      PROVE  viewer'[v] = viewer[v]
  BY <1>1, <1>2, <1>6 DEF DInv, Typed
<1>7. ~p.complete => viewer'[u] = Pushed(p, f)
  BY <1>1, <1>2 DEF DInv, Typed
<1>8. Typed'
  <2>1. viewer' \in [Viewers -> GoodViewer]
    BY <1>1, <1>5 DEF DInv, Typed
  <2>2. todo' # <<>> /\ delivery'.to = Head(todo')
    <3>1. delivery # NoDelivery
      BY <1>1 DEF NoDelivery
    <3> QED  BY <1>1, <1>4, <3>1 DEF DInv, Typed
  <2> QED  BY <1>1, <1>4, <2>1, <2>2 DEF DInv, Typed
<1>9. Books'
  <2>1. ASSUME NEW v \in Viewers
        PROVE  /\ In(v, subscribers) => viewer'[v].reader \notin {"away", "gone"}
               /\ viewer'[v].reader \in {"stopped", "gone"} => viewer'[v].complete
               /\ (v \in receiving \/ In(v, todo)) /\ ~viewer'[v].complete => In(v, subscribers)
    <3>0. /\ In(v, subscribers) => viewer[v].reader \notin {"away", "gone"}
          /\ viewer[v].reader \in {"stopped", "gone"} => viewer[v].complete
          /\ (v \in receiving \/ In(v, todo)) /\ ~viewer[v].complete => In(v, subscribers)
      BY DEF DInv, Books
    <3>1. CASE v # u \/ p.complete
      BY <1>6, <3>0, <3>1
    <3>2. CASE v = u /\ ~p.complete
      BY <1>5, <1>7, <3>0, <3>2
    <3> QED  BY <3>1, <3>2
  <2> QED  BY <1>1, <2>1 DEF DInv, Books, In
<1>10. Had'
  <2> SUFFICES ASSUME NEW v \in Viewers
               PROVE  /\ Run(Got(v)', accepted')
                      /\ v \notin receiving' /\ delivery'.to # v => Got(v)' = <<>>
                      /\ publishing' /\ ~viewer[v].complete' /\ (v \in receiving' \/ In(v, todo)') =>
                            Follows(Got(v)' \o Coming(v)', accepted', cache'.current.fmedia)
    BY DEF Had
  <2>0. /\ Run(Got(v), accepted)
        /\ v \notin receiving /\ delivery.to # v => Got(v) = <<>>
        /\ publishing /\ ~viewer[v].complete /\ (v \in receiving \/ In(v, todo)) =>
              Follows(Got(v) \o Coming(v), accepted, cache.current.fmedia)
        /\ In(v, todo)' <=> In(v, todo)
    BY <1>1 DEF DInv, Had, In
  <2>1. CASE v = u /\ p.complete
    <3>1. Got(v)' = Got(v) /\ viewer[v].complete' = TRUE
      <4>1. p.complete = TRUE
        BY <1>5, <2>1, Zenon DEF GoodViewer, Viewer
      <4> QED  BY <1>6, <2>1, <4>1 DEF Got
    <3> QED  BY <1>1, <1>4, <2>0, <2>1, <3>1
  <2>2. CASE v # u
    <3>1. Got(v)' = Got(v) /\ viewer[v].complete' = viewer[v].complete
      BY <1>6, <2>2 DEF Got
    <3>2. Coming(v)' = Coming(v)
      BY <1>1, <1>4, <2>2 DEF Coming, FramesFor, In
    <3> QED  BY <1>1, <1>4, <2>0, <2>2, <3>1, <3>2
  <2>3. CASE v = u /\ ~p.complete
    <3> DEFINE t == Got(v)'
               x == cache.current.fmedia
    <3>1. PushedOn(Got(v), t, f) /\ Got(v) \in Seq(Frame)
      BY <1>5, <1>7, <2>3, GotIsFrames DEF Got, DInv
    <3>2. Coming(v) = <<f>> \o rest /\ Coming(v)' = rest
      BY <1>3, <1>4, <2>3 DEF Coming
    <3>3. Follows(Got(v) \o (<<f>> \o rest), accepted, x)
      BY <1>2, <2>0, <2>3, <3>2
    <3>4. Numbered(accepted) /\ x \in MaybeMedia
      BY DEF DInv, Content, Shown, GoodCache, Cache, Queue
    <3> HIDE DEF t, x
    <3>5. t \in Seq(Frame) /\ Follows(t \o rest, accepted, x)
      BY <1>3, <3>1, <3>3, <3>4, FollowsDelivered
    <3>6. Run(t, accepted)
      BY <1>3, <3>4, <3>5, RunBegins
    <3> QED  BY <1>1, <1>4, <2>3, <3>2, <3>5, <3>6 DEF t, x
  <2> QED  BY <2>1, <2>2, <2>3
<1> QED  BY <1>8, <1>9, <1>10

\* The tail of a list of distinct elements has the others.
LEMMA TailDistinct ==
    ASSUME NEW S, NEW list \in Seq(S), list # <<>>, Distinct(list)
    PROVE  /\ Tail(list) \in Seq(S) /\ Distinct(Tail(list))
           /\ \A v : In(v, Tail(list)) <=> In(v, list) /\ v # list[1]
<1> DEFINE t == Tail(list)
<1>1. /\ t \in Seq(S) /\ Len(list) \in Nat /\ Len(list) > 0 /\ Len(t) = Len(list) - 1
      /\ \A i \in 1..(Len(list) - 1) : t[i] = list[i + 1]
  BY FirstAndRest
<1> HIDE DEF t
<1>2. 1 \in 1..Len(list) /\ \A i \in 1..Len(t) : i + 1 \in 1..Len(list) /\ i + 1 # 1 /\ t[i] = list[i + 1]
  BY <1>1
<1>3. ASSUME NEW i \in 1..Len(t), NEW j \in 1..Len(t), t[i] = t[j]  PROVE i = j
  <2>1. i + 1 = j + 1
    BY <1>2, <1>3 DEF Distinct
  <2> QED  BY <1>1, <2>1
<1>4. ASSUME NEW v, In(v, t)  PROVE In(v, list) /\ v # list[1]
  BY <1>2, <1>4 DEF In, Distinct
<1>5. ASSUME NEW v, In(v, list), v # list[1]  PROVE In(v, t)
  <2>1. PICK i \in 1..Len(list) : list[i] = v
    BY <1>5 DEF In
  <2>2. i # 1
    BY <1>5, <2>1
  <2>3. i - 1 \in 1..Len(t) /\ (i - 1) + 1 = i
    BY <1>1, <2>2
  <2> QED  BY <1>2, <2>1, <2>3 DEF In
<1> QED  BY <1>1, <1>3, <1>4, <1>5 DEF t, Distinct

LEMMA NotifyKeeps ==
    ASSUME DInv, Notify
    PROVE  Typed' /\ Books' /\ Had'
<1> DEFINE u == delivery.to
<1>1. /\ delivery # NoDelivery /\ delivery.frames = <<>>
      /\ viewer' = [viewer EXCEPT ![u] = Handed(viewer[u])]
      /\ receiving' = receiving \union {u} /\ delivery' = NoDelivery /\ todo' = Tail(todo)
      /\ cache' = cache /\ accepted' = accepted /\ publishing' = publishing
      /\ subscribers' = subscribers
  BY DEF Notify, vars
<1>2. /\ u \in Viewers /\ todo # <<>> /\ u = todo[1] /\ In(u, todo) /\ publishing
  BY <1>1, ServedViewer
<1>3. /\ todo' \in Seq(Viewers) /\ Distinct(todo')
      /\ \A v : In(v, todo') <=> In(v, todo) /\ v # u
  <2>1. todo \in Seq(Viewers) /\ Distinct(todo)
    BY DEF DInv, Typed, Books
  <2> QED  BY <1>1, <1>2, <2>1, TailDistinct
<1>4. /\ Handed(viewer[u]) \in GoodViewer
      /\ Handed(viewer[u]).received \o Handed(viewer[u]).queue.frames = Got(u)
      /\ Handed(viewer[u]).complete = viewer[u].complete
      /\ Handed(viewer[u]).reader \in {viewer[u].reader, "busy"}
  BY <1>2, HandedViewer DEF DInv, Typed, Got
<1>5. ASSUME NEW v \in Viewers
      PROVE  viewer'[v] = IF v = u THEN Handed(viewer[u]) ELSE viewer[v]
  BY <1>1 DEF DInv, Typed
<1>6. Typed'
  <2>1. viewer' \in [Viewers -> GoodViewer]
    BY <1>1, <1>4 DEF DInv, Typed
  <2>2. delivery' \in [to : Viewers \cup {NoFrame}, frames : Seq(Frame)]
    BY <1>1 DEF NoDelivery
  <2>3. receiving' \in SUBSET Viewers
    BY <1>1, <1>2 DEF DInv, Typed
  <2> QED  BY <1>1, <1>3, <2>1, <2>2, <2>3 DEF DInv, Typed
<1>7. Books'
  <2>1. ASSUME NEW v \in Viewers
        PROVE  /\ In(v, subscribers) => viewer'[v].reader \notin {"away", "gone"}
               /\ viewer'[v].reader \in {"stopped", "gone"} => viewer'[v].complete
               /\ (v \in receiving' \/ In(v, todo')) /\ ~viewer'[v].complete => In(v, subscribers)
    <3>0. /\ In(v, subscribers) => viewer[v].reader \notin {"away", "gone"}
          /\ viewer[v].reader \in {"stopped", "gone"} => viewer[v].complete
          /\ (v \in receiving \/ In(v, todo)) /\ ~viewer[v].complete => In(v, subscribers)
      BY DEF DInv, Books
    <3>1. CASE v = u
      BY <1>2, <1>4, <1>5, <3>0, <3>1
    <3>2. CASE v # u
      BY <1>1, <1>3, <1>5, <3>0, <3>2
    <3> QED  BY <3>1, <3>2
  <2>2. /\ Distinct(subscribers') /\ accepted' # <<>> /\ publishing'
        /\ \A v : In(v, subscribers') <=> In(v, subscribers)
    BY <1>1, <1>2 DEF DInv, Books
  <2> QED  BY <1>3, <2>1, <2>2 DEF Books, In
<1>8. Had'
  <2> SUFFICES ASSUME NEW v \in Viewers
               PROVE  /\ Run(Got(v)', accepted')
                      /\ v \notin receiving' /\ delivery'.to # v => Got(v)' = <<>>
                      /\ publishing' /\ ~viewer[v].complete' /\ (v \in receiving' \/ In(v, todo)') =>
                            Follows(Got(v)' \o Coming(v)', accepted', cache'.current.fmedia)
    BY DEF Had
  <2>0. /\ Run(Got(v), accepted)
        /\ v \notin receiving /\ delivery.to # v => Got(v) = <<>>
        /\ publishing /\ ~viewer[v].complete /\ (v \in receiving \/ In(v, todo)) =>
              Follows(Got(v) \o Coming(v), accepted, cache.current.fmedia)
    BY DEF DInv, Had
  <2>1. Got(v)' = Got(v) /\ viewer'[v].complete = viewer[v].complete
    <3>1. CASE v = u
      BY <1>4, <1>5, <3>1 DEF Got
    <3>2. CASE v # u
      BY <1>5, <3>2 DEF Got
    <3> QED  BY <3>1, <3>2
  <2>2. In(v, todo)' <=> In(v, todo) /\ v # u
    BY <1>3 DEF In
  <2>3. v \in receiving' \/ In(v, todo)' => v \in receiving \/ In(v, todo)
    BY <1>1, <1>2, <2>2
  <2>4. Coming(v)' = Coming(v)
    <3>1. delivery'.to # v
      BY <1>1, NotNobody
    <3>2. CASE v = u
      BY <1>1, <2>2, <3>1, <3>2 DEF Coming
    <3>3. CASE v # u
      <4>1. FramesFor(v)' = FramesFor(v)
        BY <1>1, <3>3 DEF FramesFor
      <4> QED  BY <2>2, <3>1, <3>3, <4>1 DEF Coming
    <3> QED  BY <3>2, <3>3
  <2>5. v \notin receiving' => v \notin receiving /\ delivery.to # v
    BY <1>1
  <2> QED  BY <1>1, <2>0, <2>1, <2>3, <2>4, <2>5
<1> QED  BY <1>6, <1>7, <1>8

\* A step of a viewer u that takes no frame from it and keeps it ended, if it is.
\* Its place among the subscribers is another matter.
LEMMA ViewerStepKeeps ==
    ASSUME DInv, NEW u \in Viewers, NEW p \in GoodViewer,
           p.queue = viewer[u].queue, p.received = viewer[u].received,
           viewer[u].complete => p.complete,
           viewer' = [viewer EXCEPT ![u] = p],
           UNCHANGED <<vars, publishing, receiving, todo, delivery>>
    PROVE  /\ Had'
           /\ subscribers' \in Seq(Viewers) => Typed'
           /\ \A v \in Viewers : viewer'[v] = IF v = u THEN p ELSE viewer[v]
<1>1. /\ cache' = cache /\ accepted' = accepted /\ publishing' = publishing
      /\ receiving' = receiving /\ todo' = todo /\ delivery' = delivery
  BY DEF vars
<1>2. \A v \in Viewers : viewer'[v] = IF v = u THEN p ELSE viewer[v]
  BY DEF DInv, Typed
<1>3. viewer' \in [Viewers -> GoodViewer]
  BY DEF DInv, Typed
<1>4. subscribers' \in Seq(Viewers) => Typed'
  BY <1>1, <1>3 DEF DInv, Typed
<1>5. ASSUME NEW v \in Viewers
      PROVE  /\ Run(Got(v)', accepted')
             /\ v \notin receiving' /\ delivery'.to # v => Got(v)' = <<>>
             /\ publishing' /\ ~viewer[v].complete' /\ (v \in receiving' \/ In(v, todo)') =>
                   Follows(Got(v)' \o Coming(v)', accepted', cache'.current.fmedia)
  <2>1. Got(v)' = Got(v) /\ (~viewer[v].complete' => ~viewer[v].complete)
    BY <1>2 DEF Got
  <2>2. Coming(v)' = Coming(v) /\ (In(v, todo)' <=> In(v, todo))
    BY <1>1 DEF Coming, FramesFor, In
  <2> QED  BY <1>1, <2>1, <2>2 DEF DInv, Had
<1>6. Had'
  BY <1>5 DEF Had
<1> QED  BY <1>2, <1>4, <1>6

\* Books, when a viewer's step leaves the subscribers alone.
LEMMA BooksKept ==
    ASSUME DInv, NEW u \in Viewers, NEW p \in GoodViewer,
           \A v \in Viewers : viewer'[v] = IF v = u THEN p ELSE viewer[v],
           viewer[u].complete => p.complete,
           p.reader \in {"stopped", "gone"} => p.complete,
           p.reader \in {"away", "gone"} => p.reader = viewer[u].reader,
           UNCHANGED <<vars, publishing, subscribers, receiving, todo, delivery>>
    PROVE  Books'
<1>1. /\ accepted' = accepted /\ publishing' = publishing /\ subscribers' = subscribers
      /\ receiving' = receiving /\ todo' = todo
  BY DEF vars
<1>2. ASSUME NEW v \in Viewers
      PROVE  /\ In(v, subscribers) => viewer'[v].reader \notin {"away", "gone"}
             /\ viewer'[v].reader \in {"stopped", "gone"} => viewer'[v].complete
             /\ (v \in receiving \/ In(v, todo)) /\ ~viewer'[v].complete => In(v, subscribers)
  <2>0. /\ In(v, subscribers) => viewer[v].reader \notin {"away", "gone"}
        /\ viewer[v].reader \in {"stopped", "gone"} => viewer[v].complete
        /\ (v \in receiving \/ In(v, todo)) /\ ~viewer[v].complete => In(v, subscribers)
    BY DEF DInv, Books
  <2>1. CASE v = u
    BY <2>0, <2>1
  <2>2. CASE v # u
    BY <2>0, <2>2
  <2> QED  BY <2>1, <2>2
<1> QED  BY <1>1, <1>2 DEF DInv, Books, In

LEMMA WrittenKeeps ==
    ASSUME DInv, NEW u \in Viewers, Written(u)
    PROVE  Typed' /\ Books' /\ Had'
<1> DEFINE p == [viewer[u] EXCEPT !.reader = IF viewer[u].complete THEN "stopped" ELSE "waiting"]
<1>1. viewer[u] \in GoodViewer /\ viewer[u].complete \in BOOLEAN
  BY DEF DInv, Typed, GoodViewer, Viewer
<1>2. /\ p \in GoodViewer /\ p.queue = viewer[u].queue /\ p.received = viewer[u].received
      /\ p.complete = viewer[u].complete
      /\ p.reader = IF viewer[u].complete THEN "stopped" ELSE "waiting"
  BY <1>1 DEF GoodViewer, Viewer
<1>3. /\ viewer' = [viewer EXCEPT ![u] = p]
      /\ UNCHANGED <<vars, publishing, subscribers, receiving, todo, delivery>>
  BY DEF Written
<1> HIDE DEF p
<1>4. Had' /\ Typed' /\ \A v \in Viewers : viewer'[v] = IF v = u THEN p ELSE viewer[v]
  <2>1. subscribers' \in Seq(Viewers)
    BY <1>3 DEF DInv, Typed
  <2> QED  BY <1>2, <1>3, <2>1, ViewerStepKeeps
<1>5. Books'
  BY <1>2, <1>3, <1>4, BooksKept
<1> QED  BY <1>4, <1>5

LEMMA EndKeeps ==
    ASSUME DInv, NEW u \in Viewers, End(u)
    PROVE  Typed' /\ Books' /\ Had'
<1> DEFINE p == Completed(viewer[u])
<1>1. viewer[u] \in GoodViewer
  BY DEF DInv, Typed
<1>2. /\ p \in GoodViewer /\ p.queue = viewer[u].queue /\ p.received = viewer[u].received
      /\ p.complete = TRUE /\ p.reader \in {viewer[u].reader, "stopped"}
  BY <1>1, CompletedViewer
<1>3. /\ viewer' = [viewer EXCEPT ![u] = p]
      /\ UNCHANGED <<vars, publishing, subscribers, receiving, todo, delivery>>
  BY DEF End
<1> HIDE DEF p
<1>4. Had' /\ Typed' /\ \A v \in Viewers : viewer'[v] = IF v = u THEN p ELSE viewer[v]
  <2>1. subscribers' \in Seq(Viewers)
    BY <1>3 DEF DInv, Typed
  <2> QED  BY <1>2, <1>3, <2>1, ViewerStepKeeps
<1>5. Books'
  BY <1>2, <1>3, <1>4, BooksKept
<1> QED  BY <1>4, <1>5

LEMMA SubscribeKeeps ==
    ASSUME DInv, NEW u \in Viewers, Subscribe(u)
    PROVE  Typed' /\ Books' /\ Had'
<1> DEFINE p == [viewer[u] EXCEPT !.reader = "busy"]
           n == Len(subscribers)
<1>1. viewer[u] \in GoodViewer /\ viewer[u].reader = "away"
  BY DEF DInv, Typed, Subscribe
<1>2. /\ p \in GoodViewer /\ p.queue = viewer[u].queue /\ p.received = viewer[u].received
      /\ p.complete = viewer[u].complete /\ p.reader = "busy"
  BY <1>1 DEF GoodViewer, Viewer
<1>3. /\ viewer' = [viewer EXCEPT ![u] = p]
      /\ UNCHANGED <<vars, publishing, receiving, todo, delivery>>
      /\ subscribers' = Append(subscribers, u)
  BY DEF Subscribe
<1>4. /\ subscribers' \in Seq(Viewers) /\ n \in Nat /\ Len(subscribers') = n + 1
      /\ \A i \in 1..n : subscribers'[i] = subscribers[i]
      /\ subscribers'[n + 1] = u
  BY <1>3, AppendProperties, LenProperties DEF DInv, Typed
<1> HIDE DEF p
<1>5. Had' /\ Typed' /\ \A v \in Viewers : viewer'[v] = IF v = u THEN p ELSE viewer[v]
  BY <1>2, <1>3, <1>4, ViewerStepKeeps
<1>6. ~In(u, subscribers)
  BY <1>1 DEF DInv, Books
<1>7. Distinct(subscribers')
  <2>1. ASSUME NEW i \in 1..(n + 1), NEW j \in 1..(n + 1), subscribers'[i] = subscribers'[j]
        PROVE  i = j
    <3>1. (i \in 1..n \/ i = n + 1) /\ (j \in 1..n \/ j = n + 1)
      BY <1>4
    <3>2. \A k \in 1..n : subscribers[k] # u
      BY <1>6 DEF In
    <3>3. \A k, l \in 1..n : subscribers[k] = subscribers[l] => k = l
      BY DEF DInv, Books, Distinct
    <3> QED  BY <1>4, <2>1, <3>1, <3>2, <3>3
  <2> QED  BY <1>4, <2>1 DEF Distinct
<1>8. \A v : In(v, subscribers)' <=> In(v, subscribers) \/ v = u
  <2>1. \A i \in 1..(n + 1) : i \in 1..n \/ i = n + 1
    BY <1>4
  <2>2. n + 1 \in 1..(n + 1) /\ \A i \in 1..n : i \in 1..(n + 1)
    BY <1>4
  <2> QED  BY <1>4, <2>1, <2>2 DEF In
<1>9. ASSUME NEW v \in Viewers
      PROVE  /\ In(v, subscribers)' => viewer'[v].reader \notin {"away", "gone"}
             /\ viewer'[v].reader \in {"stopped", "gone"} => viewer'[v].complete
             /\ (v \in receiving \/ In(v, todo)) /\ ~viewer'[v].complete => In(v, subscribers)'
  <2>0. /\ In(v, subscribers) => viewer[v].reader \notin {"away", "gone"}
        /\ viewer[v].reader \in {"stopped", "gone"} => viewer[v].complete
        /\ (v \in receiving \/ In(v, todo)) /\ ~viewer[v].complete => In(v, subscribers)
    BY DEF DInv, Books
  <2>1. CASE v = u
    BY <1>2, <1>5, <1>8, <2>1
  <2>2. CASE v # u
    BY <1>5, <1>8, <2>0, <2>2
  <2> QED  BY <2>1, <2>2
<1>10. Books'
  BY <1>3, <1>7, <1>9 DEF DInv, Books, In, vars
<1> QED  BY <1>5, <1>10

LEMMA UnsubscribeKeeps ==
    ASSUME DInv, NEW u \in Viewers, Unsubscribe(u)
    PROVE  Typed' /\ Books' /\ Had'
<1> DEFINE p == [viewer[u] EXCEPT !.reader = "gone"]
<1>1. viewer[u] \in GoodViewer /\ viewer[u].reader = "stopped" /\ viewer[u].complete
  BY DEF DInv, Typed, Books, Unsubscribe
<1>2. /\ p \in GoodViewer /\ p.queue = viewer[u].queue /\ p.received = viewer[u].received
      /\ p.complete = viewer[u].complete /\ p.reader = "gone"
  BY <1>1 DEF GoodViewer, Viewer
<1>3. /\ viewer' = [viewer EXCEPT ![u] = p]
      /\ UNCHANGED <<vars, publishing, receiving, todo, delivery>>
      /\ subscribers' = RemoveFirst(subscribers, u)
  BY DEF Unsubscribe
<1>4. /\ subscribers' \in Seq(Viewers) /\ Distinct(subscribers')
      /\ \A v : In(v, subscribers)' <=> In(v, subscribers) /\ v # u
  <2>1. subscribers \in Seq(Viewers) /\ Distinct(subscribers)
    BY DEF DInv, Typed, Books
  <2>2. subscribers' \in Seq(Viewers)
    BY <1>3, <2>1, RemoveFirstType
  <2> DEFINE r == RemoveFirst(subscribers, u)
  <2>3. /\ Distinct(r)
        /\ \A i \in 1..Len(r) : r[i] # u /\ \E j \in 1..Len(subscribers) : r[i] = subscribers[j]
        /\ \A j \in 1..Len(subscribers) : subscribers[j] # u =>
              \E i \in 1..Len(r) : r[i] = subscribers[j]
    BY <2>1, RemoveFirstDistinct
  <2> HIDE DEF r
  <2>4. \A v : In(v, r) <=> In(v, subscribers) /\ v # u
    BY <2>3 DEF In
  <2>5. subscribers' = r
    BY <1>3 DEF r
  <2> QED  BY <2>2, <2>3, <2>4, <2>5 DEF In
<1> HIDE DEF p
<1>5. Had' /\ Typed' /\ \A v \in Viewers : viewer'[v] = IF v = u THEN p ELSE viewer[v]
  BY <1>2, <1>3, <1>4, ViewerStepKeeps
<1>6. ASSUME NEW v \in Viewers
      PROVE  /\ In(v, subscribers)' => viewer'[v].reader \notin {"away", "gone"}
             /\ viewer'[v].reader \in {"stopped", "gone"} => viewer'[v].complete
             /\ (v \in receiving \/ In(v, todo)) /\ ~viewer'[v].complete => In(v, subscribers)'
  <2>0. /\ In(v, subscribers) => viewer[v].reader \notin {"away", "gone"}
        /\ viewer[v].reader \in {"stopped", "gone"} => viewer[v].complete
        /\ (v \in receiving \/ In(v, todo)) /\ ~viewer[v].complete => In(v, subscribers)
    BY DEF DInv, Books
  <2>1. CASE v = u
    BY <1>1, <1>2, <1>4, <1>5, <2>1
  <2>2. CASE v # u
    BY <1>4, <1>5, <2>0, <2>2
  <2> QED  BY <2>1, <2>2
<1>7. Books'
  BY <1>3, <1>4, <1>6 DEF DInv, Books, In, vars
<1> QED  BY <1>5, <1>7

LEMMA DeliveryStepGood == DInv /\ [DeliveryNext]_allVars => DInv'
<1> SUFFICES ASSUME DInv, [DeliveryNext]_allVars  PROVE DInv'
  OBVIOUS
<1>1. IInv' /\ Content'
  BY DeliveryIsCache, StepGood, StepShows DEF DInv
<1>2. CASE UNCHANGED allVars
  <2>1. Typed' /\ Books' /\ Had'
    BY <1>2 DEF DInv, Typed, Books, Had, Got, Coming, FramesFor, In, allVars, deliveryVars, vars
  <2> QED  BY <1>1, <2>1 DEF DInv
<1>3. CASE Publish
  BY <1>1, <1>3, PublishKeeps DEF DInv
<1>4. CASE Deliver
  BY <1>1, <1>4, DeliverKeeps DEF DInv
<1>5. CASE ReceiveFrame
  BY <1>1, <1>5, ReceiveFrameKeeps DEF DInv
<1>6. CASE Notify
  BY <1>1, <1>6, NotifyKeeps DEF DInv
<1>7. ASSUME NEW v \in Viewers, Subscribe(v) \/ Written(v) \/ End(v) \/ Unsubscribe(v)
      PROVE  DInv'
  BY <1>1, <1>7, SubscribeKeeps, WrittenKeeps, EndKeeps, UnsubscribeKeeps DEF DInv
<1>8. CASE Finished
  BY <1>2, <1>8 DEF Finished
<1> QED  BY <1>2, <1>3, <1>4, <1>5, <1>6, <1>7, <1>8 DEF DeliveryNext

-----------------------------------------------------------------------------
(* What holds of every delivery.                                           *)

\* Delivering frames uses the cache as its specification says: what is proved of
\* every cache holds of the one that is delivered from.
THEOREM DeliveryUsesCache == DeliverySpec => Spec
BY DeliveryIsCache, PTL DEF DeliverySpec, Spec

\* The invariant holds in every state: each viewer has had a run of the stream, and
\* with what is coming it can follow it.
THEOREM DeliveryInvariance == DeliverySpec => []DInv
<1>1. DeliveryInit => DInv
  BY DeliveryIsCache, InitGood, InitShows, DeliveryInitGood DEF DInv
<1> QED  BY <1>1, DeliveryStepGood, PTL DEF DeliverySpec

\* The types, and that a delivery under way is to the first viewer that is due,
\* whoever comes and goes meanwhile.
THEOREM DeliveryTypeCorrect == DeliverySpec => []DeliveryTypeOK
<1>1. DInv => DeliveryTypeOK
  BY DEF DInv, Typed, DeliveryTypeOK, GoodViewer
<1> QED  BY <1>1, DeliveryInvariance, PTL

\* What a viewer has had, as the properties of FrameDelivery put it.
LEMMA GotIsRun ==
    ASSUME DInv, NEW v \in Viewers
    PROVE  /\ Ordered(Got(v)) /\ InForce(Got(v))
           /\ Got(v) # <<>> => Gapless(Got(v), Last(Got(v)).id)
           /\ Got(v) # <<>> => IsMeta(Got(v)[1]) /\ KeyBefore(Got(v))
           /\ DOMAIN Got(v) = 1..Len(Got(v))
<1> DEFINE s == Got(v)
<1>1. s \in Seq(Frame) /\ Numbered(accepted) /\ Run(s, accepted)
  BY GotIsFrames DEF DInv, Had, Content
<1> HIDE DEF s
<1>2. DOMAIN s = 1..Len(s)
  BY <1>1, LenProperties
<1>3. CASE s = <<>>
  <2>1. DOMAIN s = {}
    BY <1>3
  <2> QED  BY <1>2, <1>3, <2>1 DEF Ordered, InForce, s
<1>4. CASE s # <<>>
  <2>1. /\ Last(s).id \in 0..Len(accepted) /\ Piece(s, accepted, Last(s).id)
        /\ IsMeta(s[1]) /\ KeyBefore(s)
    BY <1>1, <1>4 DEF Run
  <2>2. Ordered(s) /\ Gapless(s, Last(s).id) /\ InForce(s)
    BY <1>1, <2>1, PieceIsThat
  <2> QED  BY <1>2, <2>1, <2>2 DEF s
<1> QED  BY <1>3, <1>4

\* A viewer's media frames are a gapless run of the stream that, while it is served,
\* reaches the last frame published, however slowly it reads.
THEOREM ViewersGetRuns == DeliverySpec => []ViewerGetsRun
<1>1. ASSUME DInv, NEW v \in Viewers,
             v \in receiving, ~viewer[v].complete, publishing, todo = <<>>
      PROVE  LastMediaIn(Got(v)) = LastMediaIn(accepted)
  <2>1. Follows(Got(v) \o Coming(v), accepted, cache.current.fmedia)
    BY <1>1 DEF DInv, Had
  <2>2. Coming(v) = <<>>
    BY <1>1, NotNobody DEF DInv, Typed, Coming
  <2>3. Got(v) \o <<>> = Got(v)
    BY <1>1, GotIsFrames, ConcatEmptySeq DEF DInv
  <2> QED  BY <2>1, <2>2, <2>3 DEF Follows, View
<1>2. DInv => ViewerGetsRun
  BY <1>1, GotIsRun DEF ViewerGetsRun
<1> QED  BY <1>2, DeliveryInvariance, PTL

\* What a viewer has had can be decoded from its beginning.
THEOREM ViewersCanDecode == DeliverySpec => []ViewerCanDecode
<1>1. DInv => ViewerCanDecode
  <2> SUFFICES ASSUME DInv, NEW v \in Viewers, NEW i \in DOMAIN Got(v)
               PROVE  /\ IsMeta(Got(v)[1])
                      /\ Got(v)[i].kind = "inter" => \E j \in 1..(i - 1) : Got(v)[j].kind = "key"
    BY DEF ViewerCanDecode
  <2>1. DOMAIN Got(v) = 1..Len(Got(v)) /\ Got(v) # <<>>
    BY GotIsRun
  <2>2. IsMeta(Got(v)[1]) /\ KeyBefore(Got(v))
    BY <2>1, GotIsRun
  <2> QED  BY <2>1, <2>2 DEF KeyBefore
<1> QED  BY <1>1, DeliveryInvariance, PTL

\* The metadata in force for a media frame a viewer has had is the one the frame was
\* sent under, although the cache and the queue both collapse metadata.
THEOREM ViewersHaveMetadata == DeliverySpec => []ViewerMetadataInForce
<1>1. DInv => ViewerMetadataInForce
  BY GotIsRun DEF ViewerMetadataInForce
<1> QED  BY <1>1, DeliveryInvariance, PTL
=============================================================================
