---------------------------- MODULE PublishSession ----------------------------
(***************************************************************************)
(* What a publish session makes of its packets: on_recv_script, _video,    *)
(* _audio and add_frame of session/rtmp/publish_session.cc, which compose  *)
(* the metadata of the stream (flv/metadata.cc), the rectifier of the dts  *)
(* (DtsRectifier) and the cache of frames (GopCache).                      *)
(*                                                                         *)
(* Metadata grows from two sources: the onMetaData script announces codecs *)
(* and withdraws those it does not name, the sequence header of a track    *)
(* brings the decoder's configuration.  Only what has both is enabled.     *)
(*                                                                         *)
(* The rectifier moves on before the cache has its say: a rejected frame   *)
(* may begin a segment, and the next one is shifted by it.  What the cache *)
(* takes for granted, that the dts of its frames never decrease, holds     *)
(* only if this is harmless: the session implements GopCache.              *)
(***************************************************************************)
EXTENDS DtsRectifier

CONSTANTS
    AudioCodecs, \* the codecs of the tracks; those of SelfPointing keep, in a valid
    VideoCodecs, \* record, pointers into the record itself (H.264 and H.265, whose
    SelfPointing,\* parameter sets codec::copy points at the copy's own bytes)
    None,        \* no codec (-1), or no metadata (the null pointer)
    MinCache,    \* as in GopCache
    NoFrame,     \* as in GopCache
    MaxStep      \* bound: no rectified dts is further past the last accepted one

ASSUME CodecAssumption == None \notin AudioCodecs \union VideoCodecs

\* No frame is further past the last accepted one than its own dts and the one
\* millisecond between segments: the bound leaves nothing out.
ASSUME StepAssumption == MaxStep \in Nat /\ \A dts \in DtsRange : dts + 1 <= MaxStep

VARIABLES
    metadata,    \* pipe_state::metadata
    cache,       \* _rtmp_cache
    accepted,    \* history: the frames the cache accepted
    published,   \* history: the metadata of the last metadata frame among them
    told         \* history: what all the client's scripts and headers amount to

sessionVars == <<vars, metadata, cache, accepted, published, told>>

C == INSTANCE GopCache WITH DtsSteps <- 0 .. MaxStep

SessionInit ==
    /\ Init /\ C!Init
    /\ metadata = None /\ published = None /\ told = None

-----------------------------------------------------------------------------
(* metadata_t: audio_meta_t and video_meta_t.  Of the configuration record *)
(* the model keeps whether it is there (_valid): a header is one record.   *)

Track(codecs) == [codec : codecs \union {None}, valid : BOOLEAN]
Metadata == [audio : Track(AudioCodecs), video : Track(VideoCodecs)]

NoTrack == [codec |-> None, valid |-> FALSE]

\* What a handler starts from: a copy of the last metadata, if there is one.
Copied(m) == IF m = None THEN [audio |-> NoTrack, video |-> NoTrack] ELSE m

IsEnabled(track) == track.valid /\ track.codec # None
EnabledTracks(m) == {t \in C!Tracks : IsEnabled(m[t])}

\* metadata_t::load: a codec that is announced is taken over and the record stays,
\* a track whose codec is not announced is forgotten.
Announced(track, codec) == IF codec = None THEN NoTrack ELSE [track EXCEPT !.codec = codec]

Scripted(m, audio, video) ==
    [audio |-> Announced(Copied(m).audio, audio), video |-> Announced(Copied(m).video, video)]

\* audio_meta_t::load and video_meta_t::load.
Configured(m, t, codec) == [Copied(m) EXCEPT ![t] = [codec |-> codec, valid |-> TRUE]]

\* Mutant: the configuration records are not compared.
SameCodecs(m) ==
    metadata # None /\ \A t \in C!Tracks : m[t].codec = metadata[t].codec

\* operator==, which compares the records byte by byte: pointers into the record
\* itself make it differ from every copy.
Same(m) ==
    /\ metadata # None /\ m = metadata
    /\ \A t \in C!Tracks : ~(m[t].valid /\ m[t].codec \in SelfPointing)

-----------------------------------------------------------------------------
\* add_frame of a metadata frame that differs from the last: one that enables no
\* track replaces it all the same but never reaches the cache.
AddMetadata(m) ==
    /\ metadata' = m
    /\ IF EnabledTracks(m) = {} THEN UNCHANGED <<cache, accepted, published>>
       ELSE /\ C!Accept([id |-> Len(accepted) + 1, kind |-> "meta",
                         tracks |-> EnabledTracks(m), dts |-> 0])
            /\ published' = m
    /\ UNCHANGED vars

Ignore == UNCHANGED <<vars, metadata, cache, accepted, published>>

\* on_recv_script.  Bit rates, sizes and the encoder's name are left out: a script
\* that says the same codecs again may be new for one of them, or not.
ReceiveScript ==
    \E audio \in AudioCodecs \union {None}, video \in VideoCodecs \union {None} :
        LET m == Scripted(metadata, audio, video)
        IN  /\ AddMetadata(m) \/ (Same(m) /\ Ignore)
            /\ told' = Scripted(told, audio, video)

\* on_recv_audio and on_recv_video, of a sequence header.
ReceiveHeader(t, codecs) ==
    \E codec \in codecs :
        LET m == Configured(metadata, t, codec)
        IN  /\ IF Same(m) THEN Ignore ELSE AddMetadata(m)
            /\ told' = Configured(told, t, codec)

Received(kind, dts) ==
    [id |-> Len(accepted) + 1, kind |-> kind, tracks |-> C!TracksOf(kind), dts |-> Rectified(dts)]

\* on_recv_audio and on_recv_video of a frame, which are ignored before there was
\* metadata: rectify_dts, then the cache's verdict.
ReceiveMedia(kind, dts) ==
    /\ metadata # None
    /\ \/ Accept(dts) /\ C!Accept(Received(kind, dts))
       \/ Reject(dts) /\ C!Reject(Received(kind, dts))
    /\ UNCHANGED <<metadata, published, told>>

SessionNext ==
    \/ ReceiveScript
    \/ ReceiveHeader("audio", AudioCodecs)
    \/ ReceiveHeader("video", VideoCodecs)
    \/ \E kind \in C!MediaKinds, dts \in DtsRange : ReceiveMedia(kind, dts)

SessionSpec == SessionInit /\ [][SessionNext]_sessionVars

-----------------------------------------------------------------------------
\* The cache, and with it every viewer, is told of each change of the metadata:
\* what was published last is all the client has said so far, unless that enables
\* no track.  A header dropped as a repetition would leave viewers with a decoder
\* that is not configured (publish_session.cc:386).
MetadataPublished ==
    told # published => EnabledTracks(Copied(told)) = {}

\* The session implements the cache's specification, the dts of whose frames
\* never decrease: a segment that a rejected frame began leaves no trace that
\* the cache could see (publish_session.cc:404, gop_queue.hh:249).
ImplementsCache == C!Spec
=============================================================================
