---------------------------- MODULE FrameDelivery ----------------------------
(***************************************************************************)
(* How the frames of a publish session reach its viewers: publish and      *)
(* on_frame of session/rtmp/publish_session.cc on the publisher's shard,   *)
(* on_frames and the write loop of the play sessions on the viewers'       *)
(* shards, and the async_frame_queue_t between them.                       *)
(*                                                                         *)
(* The publisher serves one frame to one viewer after the other and reads  *)
(* its next packet only when all have it; the viewers' writers run at      *)
(* their own pace.  The cache is GopCache's; a frame it rejects is not     *)
(* published.                                                              *)
(***************************************************************************)
EXTENDS GopCache

CONSTANTS
    Viewers,    \* the play sessions
    MaxQueue    \* frames the cache and a viewer's queue may hold (rtmp_max_gop_bytes)

ASSUME ViewersAssumption == NoFrame \notin Viewers
ASSUME MaxQueueAssumption == MaxQueue \in Nat

VARIABLES
    publishing,    \* the publish session is not cancelled
    subscribers,   \* the publisher's subscriber items, in order
    receiving,     \* the viewers whose item says they have had the cache
    todo,          \* the viewers the frame being published has still to go to
    delivery,      \* the on_frames call under way: its viewer and frames to push
    viewer         \* the play sessions

deliveryVars == <<publishing, subscribers, receiving, todo, delivery, viewer>>
allVars == <<vars, deliveryVars>>

\* reader: where the write loop is.  "busy" has frames in hand to write,
\* "waiting" waits on not_empty.  received is history: all it was handed.
Viewer == [reader : {"away", "busy", "waiting", "stopped", "gone"},
           complete : BOOLEAN, queue : Queue, received : Seq(Frame)]

NoDelivery == [to |-> NoFrame, frames |-> <<>>]

DeliveryInit ==
    /\ Init
    /\ publishing = TRUE
    /\ subscribers = <<>> /\ receiving = {} /\ todo = <<>> /\ delivery = NoDelivery
    /\ viewer = [v \in Viewers |-> [reader |-> "away", complete |-> FALSE,
                                    queue |-> EmptyQueue, received |-> <<>>]]

-----------------------------------------------------------------------------
(* The publisher.                                                          *)

\* add_frame, then publish: a cache too large cancels the session, else the
\* subscribers are copied under the lock.
Publish ==
    /\ publishing /\ todo = <<>>
    /\ \E f \in OfferedMetadata \union OfferedMedia : Accept(f)
    /\ publishing' = (Len(AllFrames(cache')) <= MaxQueue)
    /\ todo' = IF publishing' THEN subscribers ELSE <<>>
    /\ UNCHANGED <<subscribers, receiving, delivery, viewer>>

\* Mutant: every viewer gets just the frame.
FramesForNoCache(v) == <<Last(accepted)>>

\* Mutant: every viewer gets the cache each time.
FramesForAlways(v) == AllFrames(cache)

\* A viewer's first delivery is the whole cache, the frame included.
FramesFor(v) == IF v \in receiving THEN <<Last(accepted)>> ELSE AllFrames(cache)

\* on_frame: the call is submitted to the viewer's shard.
Deliver ==
    /\ todo # <<>> /\ delivery = NoDelivery
    /\ delivery' = [to |-> Head(todo), frames |-> FramesFor(Head(todo))]
    /\ UNCHANGED <<vars, publishing, subscribers, receiving, todo, viewer>>

-----------------------------------------------------------------------------
(* on_frames, on the viewer's shard.                                       *)

\* close: a waiting reader is woken with nothing and ends its loop.
Completed(p) ==
    [p EXCEPT !.complete = TRUE,
              !.reader = IF p.reader = "waiting" THEN "stopped" ELSE p.reader]

\* Mutant: a metadata frame goes to a viewer only as its first frame.
PushedMediaOnly(p, f) ==
    [p EXCEPT !.queue = IF IsMeta(f) /\ p.received # <<>> THEN p.queue
                        ELSE PushBack(p.queue, f)]

\* A frame too many cancels the session.
Pushed(p, f) ==
    LET q == [p EXCEPT !.queue = PushBack(p.queue, f)]
    IN  IF Len(q.queue.frames) > MaxQueue THEN Completed(q) ELSE q

\* on_frame for one frame; a complete session ignores it.
ReceiveFrame ==
    LET v == delivery.to IN
    /\ delivery.frames # <<>>
    /\ delivery' = [delivery EXCEPT !.frames = Tail(@)]
    /\ viewer' = IF viewer[v].complete THEN viewer
                 ELSE [viewer EXCEPT ![v] = Pushed(@, Head(delivery.frames))]
    /\ UNCHANGED <<vars, publishing, subscribers, receiving, todo>>

\* notify_not_empty: a waiting reader takes the whole queue.
Handed(p) ==
    IF ~p.complete /\ p.reader = "waiting" /\ ~IsEmpty(p.queue)
    THEN [p EXCEPT !.queue = EmptyQueue, !.reader = "busy",
                   !.received = @ \o p.queue.frames]
    ELSE p

\* The end of on_frames; back on the publisher's shard, the item is receiving.
Notify ==
    LET v == delivery.to IN
    /\ delivery # NoDelivery /\ delivery.frames = <<>>
    /\ viewer' = [viewer EXCEPT ![v] = Handed(@)]
    /\ receiving' = receiving \union {v}
    /\ delivery' = NoDelivery
    /\ todo' = Tail(todo)
    /\ UNCHANGED <<vars, publishing, subscribers>>

-----------------------------------------------------------------------------
(* A viewer.                                                               *)

Subscribe(v) ==
    /\ viewer[v].reader = "away"
    /\ viewer' = [viewer EXCEPT ![v].reader = "busy"]
    /\ subscribers' = Append(subscribers, v)
    /\ UNCHANGED <<vars, publishing, receiving, todo, delivery>>

\* The frames in hand are written.  not_empty waits for the next notify, whatever
\* the queue holds already.
Written(v) ==
    /\ viewer[v].reader = "busy"
    /\ viewer' = [viewer EXCEPT ![v].reader =
                     IF viewer[v].complete THEN "stopped" ELSE "waiting"]
    /\ UNCHANGED <<vars, publishing, subscribers, receiving, todo, delivery>>

\* The session is cancelled, fails to write or gets no frame in time.
End(v) ==
    /\ viewer[v].reader \in {"busy", "waiting"} /\ ~viewer[v].complete
    /\ viewer' = [viewer EXCEPT ![v] = Completed(@)]
    /\ UNCHANGED <<vars, publishing, subscribers, receiving, todo, delivery>>

\* Mutant: the frame being published skips whoever unsubscribes.
UnsubscribeAtOnce(v) ==
    /\ viewer[v].reader = "stopped"
    /\ viewer' = [viewer EXCEPT ![v].reader = "gone"]
    /\ subscribers' = RemoveFirst(subscribers, v)
    /\ todo' = RemoveFirst(todo, v)
    /\ UNCHANGED <<vars, publishing, receiving, delivery>>

Unsubscribe(v) ==
    /\ viewer[v].reader = "stopped"
    /\ viewer' = [viewer EXCEPT ![v].reader = "gone"]
    /\ subscribers' = RemoveFirst(subscribers, v)
    /\ UNCHANGED <<vars, publishing, receiving, todo, delivery>>

\* Bound: the publisher has sent all its frames.
Finished ==
    /\ ~publishing \/ Len(accepted) = MaxFrames
    /\ todo = <<>>
    /\ \A v \in Viewers : viewer[v].reader = "gone"
    /\ UNCHANGED allVars

DeliveryNext ==
    \/ Publish \/ Deliver \/ ReceiveFrame \/ Notify
    \/ \E v \in Viewers : Subscribe(v) \/ Written(v) \/ End(v) \/ Unsubscribe(v)
    \/ Finished

DeliverySpec == DeliveryInit /\ [][DeliveryNext]_allVars

-----------------------------------------------------------------------------
\* What a viewer has had so far: what it was handed and what is queued for it.
Got(v) == viewer[v].received \o viewer[v].queue.frames

\* Type invariant; a delivery is always to the first viewer that is due.
DeliveryTypeOK ==
    /\ subscribers \in Seq(Viewers) /\ todo \in Seq(Viewers)
    /\ publishing \in BOOLEAN /\ receiving \subseteq Viewers
    /\ viewer \in [Viewers -> Viewer]
    /\ delivery.frames \in Seq(Frame)
    /\ delivery # NoDelivery => todo # <<>> /\ delivery.to = Head(todo)

\* Nothing is lost, repeated or reordered on the way to a viewer: its media frames
\* are a gapless piece of the stream, and unless the session has ended they reach
\* up to the last frame that was published to it.
ViewerGetsRun ==
    \A v \in Viewers :
        /\ Ordered(Got(v))
        /\ Got(v) # <<>> => Gapless(Got(v), Last(Got(v)).id)
        /\ v \in receiving /\ ~viewer[v].complete /\ publishing /\ todo = <<>>
              => LastMediaIn(Got(v)) = LastMediaIn(accepted)

\* Each viewer can decode what it has had: it begins with a metadata frame, and
\* each inter frame has a keyframe somewhere before it.
ViewerCanDecode ==
    \A v \in Viewers : \A i \in DOMAIN Got(v) :
        /\ IsMeta(Got(v)[1])
        /\ Got(v)[i].kind = "inter" => \E j \in 1..(i - 1) : Got(v)[j].kind = "key"

\* Each media frame reaches a viewer under the metadata the client sent it under,
\* although the cache and the queue both collapse metadata.
ViewerMetadataInForce == \A v \in Viewers : InForce(Got(v))

\* Each media frame that is written for a viewer belongs to a track the metadata
\* before it enables, as tag_header asserts (flv/media.cc:36 and :97).  It does not
\* hold: until a GOP is closed the cache asks the first metadata of the GOP, not the
\* latest (gop_queue.hh:287), and accepts frames of a track that is withdrawn.
WrittenMediaEnabled ==
    \A v \in Viewers : \A i \in DOMAIN viewer[v].received :
        LET f == viewer[v].received[i]
            kept == MetadataBefore(viewer[v].received, i)
        IN  IsMedia(f) => f.tracks \subseteq viewer[v].received[kept].tracks
=============================================================================
