------------------------------ MODULE GopCache ------------------------------
(***************************************************************************)
(* The cache of groups of pictures (GOPs) that a publish session keeps for *)
(* its late subscribers: gop_queue_t of frame/gop_queue.hh, built from     *)
(* frame_queue_t of frame/frame_queue.hh.  Every operation runs under the  *)
(* queue's mutex, so each is one action.                                   *)
(*                                                                         *)
(* A metadata frame lists the tracks it enables; a media frame belongs to  *)
(* one track.  Payloads, byte counts and the session's trace are left out; *)
(* dts is a number of milliseconds, never decreasing because the session   *)
(* rectifies it first (session/rtmp/publish_session.cc, rectify_dts).      *)
(***************************************************************************)
EXTENDS Integers, Sequences, FiniteSets, SequencesExt

CONSTANTS
    MinCache,    \* _min_cache_duration in ms; 0 or less never trims the cache
    DtsSteps,    \* the dts increments a publisher may put between two frames
    MaxFrames,   \* bound: frames accepted since the last clear
    NoFrame      \* the null frame pointer

Tracks == {"audio", "video"}
MediaKinds == {"key", "inter", "audio"}
Kinds == MediaKinds \union {"meta"}

\* id is the rank of the frame among the accepted ones.
Frame == [id : Nat, kind : Kinds, tracks : SUBSET Tracks, dts : Int]
MetaFrame == {f \in Frame : f.kind = "meta"}
MediaFrame == {f \in Frame : f.kind \in MediaKinds}

ASSUME MinCacheAssumption == MinCache \in Int
ASSUME DtsStepsAssumption == DtsSteps \subseteq Nat
ASSUME NoFrameAssumption == NoFrame \notin Frame

VARIABLES
    cache,      \* the gop_queue_t object
    accepted    \* history: the frames add_frame accepted since the last clear

vars == <<cache, accepted>>

IsMeta(f) == f.kind = "meta"
IsMedia(f) == f.kind \in MediaKinds
TracksOf(kind) == IF kind = "audio" THEN {"audio"} ELSE {"video"}

\* The frame of s with index i, which is 0 when there is none.
FrameAt(s, i) == IF i = 0 THEN NoFrame ELSE s[i]

FirstMediaIn(s) == FrameAt(s, SelectInSeq(s, IsMedia))
LastMediaIn(s) == FrameAt(s, SelectLastInSeq(s, IsMedia))

-----------------------------------------------------------------------------
(* frame_queue_t: a sequence of frames and four pointers into it.          *)

MaybeMeta == MetaFrame \union {NoFrame}
MaybeMedia == MediaFrame \union {NoFrame}

Queue == [frames : Seq(Frame), fmeta : MaybeMeta, lmeta : MaybeMeta,
          fmedia : MaybeMedia, lmedia : MaybeMedia]

EmptyQueue == [frames |-> <<>>, fmeta |-> NoFrame, lmeta |-> NoFrame,
               fmedia |-> NoFrame, lmedia |-> NoFrame]

IsEmpty(q) == q.frames = <<>>
HasMedia(q) == q.fmedia # NoFrame
HasMetadata(q) == q.fmeta # NoFrame
OnlyMetadata(q) == Len(q.frames) = 1 /\ IsMeta(q.frames[1])
StartsWithMetadata(q) == Len(q.frames) > 0 /\ IsMeta(q.frames[1])
EndsWithMetadata(q) == Len(q.frames) > 0 /\ IsMeta(Last(q.frames))

PushMedia(q, f) ==
    [q EXCEPT !.frames = Append(q.frames, f),
              !.fmedia = IF HasMedia(q) THEN q.fmedia ELSE f,
              !.lmedia = f]

\* Mutant: any last frame is replaced.
PushMetadataOverAnything(q, f) ==
    LET kept == IF IsEmpty(q) THEN <<>> ELSE Front(q.frames)
    IN  [q EXCEPT !.frames = Append(kept, f),
                  !.fmeta = IF kept = <<>> \/ ~HasMetadata(q) THEN f ELSE q.fmeta,
                  !.lmeta = f]

\* Two metadata frames in a row collapse into the later one.
PushMetadata(q, f) ==
    LET kept == IF EndsWithMetadata(q)
                THEN Front(q.frames)
                ELSE q.frames
    IN  [q EXCEPT !.frames = Append(kept, f),
                  !.fmeta = IF kept = <<>> \/ ~HasMetadata(q) THEN f ELSE q.fmeta,
                  !.lmeta = f]

PushBack(q, f) == IF IsMedia(f) THEN PushMedia(q, f) ELSE PushMetadata(q, f)

\* push_front is only ever called with a metadata frame.
PushFront(q, f) ==
    LET rest == IF StartsWithMetadata(q) THEN Tail(q.frames) ELSE q.frames
    IN  [q EXCEPT !.frames = <<f>> \o rest,
                  !.fmeta = f,
                  !.lmeta = IF q.lmeta = NoFrame THEN f ELSE q.lmeta]

-----------------------------------------------------------------------------
(* gop_queue_t: closed GOPs, the GOP being filled, and four pointers.      *)

Cache == [gops : Seq(Queue), current : Queue,
          firstMeta : MaybeMeta, latestMeta : MaybeMeta,
          firstMedia : MaybeMedia, latestMedia : MaybeMedia]

EmptyCache == [gops |-> <<>>, current |-> EmptyQueue,
               firstMeta |-> NoFrame, latestMeta |-> NoFrame,
               firstMedia |-> NoFrame, latestMedia |-> NoFrame]

\* All the queues of the cache, oldest first; the last one is _current.
Gops(c) == Append(c.gops, c.current)
FirstGop(c) == Gops(c)[1]

FramesOf(gops) == FlattenSeq([i \in 1..Len(gops) |-> gops[i].frames])

\* What a late subscriber is sent: every cached frame, oldest first.
AllFrames(c) == FramesOf(Gops(c))

Allows(c, tracks) ==
    /\ c.latestMeta # NoFrame
    /\ tracks \subseteq c.latestMeta.tracks

ValidFrame(c, f) ==
    \/ IsMeta(f)
    \/ /\ Allows(c, f.tracks)
       /\ \/ f.kind \in {"key", "audio"}
          \/ IsEmpty(c.current)
          \/ HasMedia(c.current) /\ c.current.fmedia.kind = "key"

AudioOnly(c) == Allows(c, {"audio"}) /\ ~Allows(c, {"video"})

RequiresNewGop(c, f) ==
    /\ f.kind = "key" \/ (f.kind = "audio" /\ AudioOnly(c))
    /\ HasMedia(c.current)

CloseCurrent(c) ==
    [c EXCEPT !.gops = Append(c.gops, c.current), !.current = EmptyQueue]

\* Mutant: the last pointer follows every frame, metadata included.
OnFrameAnyKind(c, f) ==
    IF c.gops = <<>>
    THEN [c EXCEPT !.firstMeta = c.current.fmeta, !.latestMeta = c.current.fmeta,
                   !.firstMedia = c.current.fmedia, !.latestMedia = c.current.lmedia]
    ELSE [c EXCEPT !.latestMeta = IF IsMeta(f) THEN f ELSE c.latestMeta,
                   !.latestMedia = f]

\* on_frame: while no GOP is closed the pointers are copied from _current,
\* the latest metadata from _current's FIRST metadata.
OnFrame(c, f) ==
    IF c.gops = <<>>
    THEN [c EXCEPT !.firstMeta = c.current.fmeta, !.latestMeta = c.current.fmeta,
                   !.firstMedia = c.current.fmedia, !.latestMedia = c.current.lmedia]
    ELSE IF IsMeta(f)
    THEN [c EXCEPT !.firstMeta = IF c.firstMeta = NoFrame THEN f ELSE c.firstMeta,
                   !.latestMeta = f]
    ELSE [c EXCEPT !.firstMedia = IF c.firstMedia = NoFrame THEN f ELSE c.firstMedia,
                   !.latestMedia = f]

PushFrame(c, f) == OnFrame([c EXCEPT !.current = PushBack(c.current, f)], f)

\* Mutant: the span of the popped GOP counts too.
SpansWithFirst(c, k) ==
    LET second == Gops(c)[k]
    IN  /\ HasMedia(second)
        /\ c.latestMedia # NoFrame
        /\ c.latestMedia.dts - second.fmedia.dts >= MinCache

\* GOP k can go when the GOP after it alone still spans MinCache.
Spans(c, k) ==
    LET second == Gops(c)[k + 1]
    IN  /\ HasMedia(second)
        /\ c.latestMedia # NoFrame
        /\ c.latestMedia.dts - second.fmedia.dts >= MinCache

\* update_gop pops and calls itself until a GOP cannot go: what it pops is
\* the longest run of leading GOPs that can, and PopCount is its length.
Poppable(c) == {k \in 1..Len(c.gops) : \A j \in 1..k : Spans(c, j)}
PopCount(c) == Cardinality(Poppable(c))

\* Mutant: the popped GOP's first metadata is handed on.
CarriedFirst(c) == Gops(c)[1].fmeta

\* Each pop hands its latest metadata to a next GOP that has none in front, so
\* the GOP that ends up first gets the latest metadata of the popped ones.
CarriedMetadata(c) ==
    Gops(c)[Max({i \in 1..PopCount(c) : Gops(c)[i].lmeta # NoFrame})].lmeta

FirstMediaOf(gops) ==
    LET i == SelectInSeq(gops, HasMedia)
    IN  IF i = 0 THEN NoFrame ELSE gops[i].fmedia

FirstMetaOf(gops) ==
    LET i == SelectInSeq(gops, HasMetadata)
    IN  IF i = 0 THEN NoFrame ELSE gops[i].fmeta

\* Mutant: the new first GOP is left as it is.
UpdateGopNoCarry(c) ==
    LET left == SubSeq(Gops(c), PopCount(c) + 1, Len(Gops(c)))
    IN  IF PopCount(c) = 0 THEN c
        ELSE [c EXCEPT !.gops = Front(left), !.current = Last(left),
                       !.firstMedia = FirstMediaOf(left),
                       !.firstMeta = FirstMetaOf(left)]

\* Mutant: the pointers are not recomputed after a pop.
UpdateGopNoRefresh(c) ==
    LET left == SubSeq(Gops(c), PopCount(c) + 1, Len(Gops(c)))
        first == IF StartsWithMetadata(Head(left)) THEN Head(left)
                 ELSE PushFront(Head(left), CarriedMetadata(c))
        kept == <<first>> \o Tail(left)
    IN  IF PopCount(c) = 0 THEN c
        ELSE [c EXCEPT !.gops = Front(kept), !.current = Last(kept)]

UpdateGop(c) ==
    LET left == SubSeq(Gops(c), PopCount(c) + 1, Len(Gops(c)))
        first == IF StartsWithMetadata(Head(left)) THEN Head(left)
                 ELSE PushFront(Head(left), CarriedMetadata(c))
        kept == <<first>> \o Tail(left)
    IN  IF PopCount(c) = 0 THEN c
        ELSE [c EXCEPT !.gops = Front(kept), !.current = Last(kept),
                       !.firstMedia = FirstMediaOf(kept),
                       !.firstMeta = FirstMetaOf(kept)]

\* What update_gop, which calls itself, does before the call: it pops the first
\* GOP if it can go, and the next one gets its latest metadata unless it begins
\* with a metadata frame of its own.
CanPop(c) == c.gops # <<>> /\ Spans(c, 1)

PopGop(c) ==
    LET next == IF StartsWithMetadata(Gops(c)[2]) THEN Gops(c)[2]
                ELSE PushFront(Gops(c)[2], c.gops[1].lmeta)
        popped == IF Len(c.gops) = 1
                  THEN [c EXCEPT !.gops = <<>>, !.current = next]
                  ELSE [c EXCEPT !.gops = <<next>> \o SubSeq(c.gops, 3, Len(c.gops))]
    IN  [popped EXCEPT !.firstMedia = FirstMediaOf(Gops(popped)),
                       !.firstMeta = FirstMetaOf(Gops(popped))]

AddFrame(c, f) ==
    LET opened == IF RequiresNewGop(c, f) THEN CloseCurrent(c) ELSE c
        pushed == PushFrame(opened, f)
    IN  IF OnlyMetadata(c.current) THEN PushFrame(c, f)
        ELSE IF IsMedia(f) /\ MinCache > 0 THEN UpdateGop(pushed)
        ELSE pushed

-----------------------------------------------------------------------------
Init == cache = EmptyCache /\ accepted = <<>>

LastDts == LET i == SelectLastInSeq(accepted, IsMedia)
           IN  IF i = 0 THEN 0 ELSE accepted[i].dts

\* The frames the publish session can offer next: on_recv_script, _video and
\* _audio hand over a metadata frame only if it enables some track.
OfferedMetadata ==
    {[id |-> Len(accepted) + 1, kind |-> "meta", tracks |-> t, dts |-> 0] :
        t \in (SUBSET Tracks) \ {{}}}
OfferedMedia ==
    {[id |-> Len(accepted) + 1, kind |-> k, tracks |-> TracksOf(k), dts |-> LastDts + d] :
        k \in MediaKinds, d \in DtsSteps}

\* add_frame returns true.
Accept(f) ==
    /\ Len(accepted) < MaxFrames
    /\ ValidFrame(cache, f)
    /\ cache' = AddFrame(cache, f)
    /\ accepted' = Append(accepted, f)

\* add_frame returns false: the session does not publish the frame either.
Reject(f) ==
    /\ ~ValidFrame(cache, f)
    /\ UNCHANGED vars

\* clear, when the session begins (again).
Clear == cache' = EmptyCache /\ accepted' = <<>>

Next ==
    \/ \E f \in OfferedMetadata \union OfferedMedia : Accept(f)
    \/ \E f \in OfferedMedia : Reject(f)
    \/ Clear

Spec == Init /\ [][Next]_vars

-----------------------------------------------------------------------------
Cached == AllFrames(cache)
MetadataBefore(s, i) == SelectLastInSubSeq(s, 1, i - 1, IsMeta)

\* Frames that were accepted, in the order they were accepted in, none twice.
Ordered(s) ==
    \A i \in DOMAIN s :
        /\ s[i].id \in DOMAIN accepted /\ s[i] = accepted[s[i].id]
        /\ \A j \in 1..(i - 1) : s[j].id < s[i].id

\* From the first media frame of s on none up to the last-th accepted is missing.
Gapless(s, last) ==
    \A i \in DOMAIN s : IsMedia(s[i]) =>
        \A k \in s[i].id..last : IsMedia(accepted[k]) =>
            \E m \in DOMAIN s : s[m] = accepted[k]

\* Each media frame of s comes after the same metadata as when it was sent.
InForce(s) ==
    \A i \in DOMAIN s : IsMedia(s[i]) =>
        LET sent == MetadataBefore(accepted, s[i].id)
            kept == MetadataBefore(s, i)
        IN  sent > 0 /\ kept > 0 /\ s[kept] = accepted[sent]

\* Type invariant of the cache and of the history.
TypeOK == cache \in Cache /\ accepted \in Seq(Frame)

\* A late subscriber always gets a metadata frame first, whatever update_gop has
\* popped, and the assertion of update_gop holds of the GOP it pops next.
CacheStartsWithMetadata ==
    cache # EmptyCache =>
        /\ StartsWithMetadata(FirstGop(cache))
        /\ FirstGop(cache).lmeta # NoFrame

\* Trimming and collapsing never change the metadata in force: the last
\* metadata before a cached media frame is the one that preceded it when the
\* publisher sent it.
MetadataInForceKept == InForce(Cached)

\* The cache drops whole leading pieces only: what it holds is in the order it was
\* accepted in, and its media frames are the last ones, with no gap and no repetition.
CachedMediaIsSuffix ==
    /\ Ordered(Cached) /\ Gapless(Cached, Len(accepted))
    /\ LastMediaIn(Cached) = LastMediaIn(accepted)

\* Trimming leaves at least MinCache of media, and keeps no GOP it does not need
\* for that: it stops at exactly the right one, however many GOPs one update pops.
MinCacheRetained ==
    FirstMediaIn(Cached) # FirstMediaIn(accepted) =>
        /\ FirstMediaIn(Cached) # NoFrame
        /\ LastMediaIn(Cached).dts - FirstMediaIn(Cached).dts >= MinCache

NothingToTrim == MinCache > 0 => Poppable(cache) = {}

TrimmedExactly == MinCacheRetained /\ NothingToTrim

\* duration, start_dts, the trimming rule and for_each_gop's assertion read the
\* pointers instead of the frames: they must agree with the frames.
PointersMatchFrames ==
    /\ cache.firstMedia = FirstMediaIn(Cached)
    /\ cache.latestMedia = LastMediaIn(Cached)
    /\ cache.firstMeta = IF Cached = <<>> THEN NoFrame ELSE Head(Cached)
=============================================================================
