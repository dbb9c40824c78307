----------------------------- MODULE Transmition -----------------------------
(***************************************************************************)
(* The session registry of the server (class transmition) together with    *)
(* the life cycle of the publish and play sessions of one stream and the   *)
(* route handlers that create them.  Sessions of different streams do not  *)
(* meet.                                                                   *)
(*                                                                         *)
(* Each connection lives on one reactor shard.  A handler that does not    *)
(* wait keeps its shard until it ends, so between two of its steps only    *)
(* the other shards move: busy[s] is the session whose handler is half way *)
(* on shard s.  The two lists are shared by all shards; each of their      *)
(* operations takes a mutex and is one step.                               *)
(*                                                                         *)
(* Frames, delays and settings are left out (GopCache models the frames).  *)
(***************************************************************************)
EXTENDS FiniteSets

CONSTANTS
    Publishers,   \* publish sessions of the stream
    Users,        \* play sessions of viewers (ownership_t::user)
    HlsOf,        \* HlsOf[p] is the HLS play session scheduled for publisher p
    Shards,       \* the reactor shards
    PubShards,    \* the shards that accept publishers
    HlsEnabled,   \* setting hls_ts_enabled
    AutoStop,     \* setting auto_stop_publish_mode
    Asserts,      \* TRUE in a build with assertions (Debug)
    None          \* the null pointer

HlsPlayers == {HlsOf[p] : p \in Publishers}
Players == Users \union HlsPlayers
Sessions == Publishers \union Players

ASSUME SessionsAssumption ==
    /\ None \notin Sessions \union Shards
    /\ Publishers \intersect Players = {}
    /\ Users \intersect HlsPlayers = {}
    /\ \A p, q \in Publishers : HlsOf[p] = HlsOf[q] => p = q
ASSUME ShardsAssumption == PubShards \subseteq Shards
ASSUME SettingsAssumption ==
    /\ HlsEnabled \in BOOLEAN
    /\ AutoStop \in {"none", "internal", "user", "all"}
    /\ Asserts \in BOOLEAN

VARIABLES
    registered,  \* _publishers of the transmition
    listed,      \* _players of the transmition
    pub,         \* the publish sessions
    play,        \* the play sessions
    autoStop,    \* autoStop[l]: the publisher a task spawned by l's end cancels
    busy,        \* the session whose handler holds the shard, or None
    fault        \* "none", or why the process died

vars == <<registered, listed, pub, play, autoStop, busy, fault>>

\* _done and _canceled; "failed" stands for _failed or _timeout, which
\* on_terminate treats alike.
Flags == {"done", "canceled", "failed"}

\* targets: the players that the task spawned by the publisher's end has still
\* to cancel.  scheduled: the task that makes the HLS player is pending.
Publisher ==
    [phase : {"idle", "made", "adding", "ready", "running", "closing", "removed", "dead"},
     shard : PubShards \union {None}, flags : SUBSET Flags, meta : BOOLEAN,
     lifecycle : BOOLEAN, scheduled : BOOLEAN,
     subs : SUBSET Players, targets : SUBSET Players]

\* late is history: on_begin ran when the publisher was no longer registered.
Player ==
    [phase : {"idle", "made", "ready", "beginning", "running", "closing", "gone"},
     shard : Shards \union {None}, flags : SUBSET Flags,
     of : Publishers \union {None}, late : BOOLEAN]

NewPublisher ==
    [phase |-> "idle", shard |-> None, flags |-> {}, meta |-> FALSE,
     lifecycle |-> FALSE, scheduled |-> FALSE, subs |-> {}, targets |-> {}]

NewPlayer ==
    [phase |-> "idle", shard |-> None, flags |-> {}, of |-> None, late |-> FALSE]

Init ==
    /\ registered = {} /\ listed = {}
    /\ pub = [p \in Publishers |-> NewPublisher]
    /\ play = [l \in Players |-> NewPlayer]
    /\ autoStop = [l \in Users |-> None]
    /\ busy = [s \in Shards |-> None]
    /\ fault = "none"

Up == fault = "none"
Free(s) == s \in Shards /\ busy[s] = None
Runs(x) == Up /\ Free(x.shard)

Complete(x) == x.flags # {}
\* A player after on_terminate.  Nobody reads its flags any more: they are dropped.
Gone(l) == [NewPlayer EXCEPT !.phase = "gone", !.shard = play[l].shard]
\* What _end, _cancel and _fail set: nothing once the session is complete.
Completed(x, flag) == IF Complete(x) THEN x.flags ELSE {flag}

-----------------------------------------------------------------------------
(* A publisher: publish_stream_route_handler, then start_with.             *)

\* The handler and make_valid_publisher look the stream up.
Publish(p) ==
    /\ Up /\ pub[p].phase = "idle" /\ registered = {}
    /\ \E s \in PubShards :
          /\ Free(s)
          /\ pub' = [pub EXCEPT ![p].phase = "made", ![p].shard = s]
    /\ UNCHANGED <<registered, listed, play, autoStop, busy, fault>>

\* Mutant: add_publisher does not look the stream up again.
AddPublisherUnchecked(p) ==
    /\ Runs(pub[p]) /\ pub[p].phase = "made"
    /\ pub' = [pub EXCEPT ![p].phase = "adding"]
    /\ busy' = [busy EXCEPT ![pub[p].shard] = p]
    /\ UNCHANGED <<registered, listed, play, autoStop, fault>>

\* add_publisher looks the stream up again.  The handler ignores its answer: a
\* publisher that lost the race runs all the same, unregistered.
AddPublisher(p) ==
    /\ Runs(pub[p]) /\ pub[p].phase = "made"
    /\ IF registered = {}
       THEN /\ pub' = [pub EXCEPT ![p].phase = "adding"]
            /\ busy' = [busy EXCEPT ![pub[p].shard] = p]
       ELSE /\ pub' = [pub EXCEPT ![p].phase = "ready"]
            /\ UNCHANGED busy
    /\ UNCHANGED <<registered, listed, play, autoStop, fault>>

\* Mutant: the life cycle is not handed to the transmition.
RegisterWithoutLifecycle(p) ==
    /\ Up /\ pub[p].phase = "adding"
    /\ registered' = registered \union {p}
    /\ pub' = [pub EXCEPT ![p].phase = "ready", ![p].scheduled = HlsEnabled]
    /\ busy' = [busy EXCEPT ![pub[p].shard] = None]
    /\ UNCHANGED <<listed, play, autoStop, fault>>

Register(p) ==
    /\ Up /\ pub[p].phase = "adding"
    /\ registered' = registered \union {p}
    /\ pub' = [pub EXCEPT ![p].phase = "ready", ![p].lifecycle = TRUE,
                          ![p].scheduled = HlsEnabled]
    /\ busy' = [busy EXCEPT ![pub[p].shard] = None]
    /\ UNCHANGED <<listed, play, autoStop, fault>>

\* on_begin resets the flags, a cancel that came before included.
BeginPublish(p) ==
    /\ Runs(pub[p]) /\ pub[p].phase = "ready"
    /\ pub' = [pub EXCEPT ![p].phase = "running", ![p].flags = {}, ![p].meta = FALSE]
    /\ UNCHANGED <<registered, listed, play, autoStop, busy, fault>>

Reading(p) == Runs(pub[p]) /\ pub[p].phase = "running"

Metadata(p) ==
    /\ Reading(p) /\ ~Complete(pub[p])
    /\ pub' = [pub EXCEPT ![p].meta = TRUE]
    /\ UNCHANGED <<registered, listed, play, autoStop, busy, fault>>

StopReading(p, flags) ==
    /\ pub' = [pub EXCEPT ![p].phase = "closing", ![p].flags = flags]
    /\ UNCHANGED <<registered, listed, play, autoStop, busy, fault>>

\* An invalid packet; one that overfills the cache ends the loop likewise, with
\* _canceled for _failed.
BadPacket(p) ==
    /\ Reading(p) /\ ~Complete(pub[p])
    /\ StopReading(p, {"failed"})

\* The packet after a cancel is dropped and ends the loop.
PacketAfterCancel(p) ==
    /\ Reading(p) /\ Complete(pub[p])
    /\ StopReading(p, pub[p].flags)

Eof(p) ==
    /\ Reading(p)
    /\ StopReading(p, Completed(pub[p], "done"))

\* on_timeout sets its flag whatever the others are.
PublishTimeout(p) ==
    /\ Reading(p)
    /\ StopReading(p, pub[p].flags \union {"failed"})

\* Mutant: on_terminate does not look whether the session was registered.
RemovePublisherAlways(p) ==
    /\ Runs(pub[p]) /\ pub[p].phase = "closing"
    /\ registered' = registered \ {p}
    /\ pub' = [pub EXCEPT ![p].phase = "removed"]
    /\ busy' = [busy EXCEPT ![pub[p].shard] = p]
    /\ UNCHANGED <<listed, play, autoStop, fault>>

\* Mutant: on_terminate has no branch for a cancelled session.
RemovePublisherUncanceled(p) ==
    /\ Runs(pub[p]) /\ pub[p].phase = "closing"
    /\ IF pub[p].lifecycle /\ "canceled" \notin pub[p].flags
       THEN /\ registered' = registered \ {p}
            /\ pub' = [pub EXCEPT ![p].phase = "removed"]
            /\ busy' = [busy EXCEPT ![pub[p].shard] = p]
       ELSE /\ pub' = [pub EXCEPT ![p].phase = "dead", ![p].subs = {}]
            /\ UNCHANGED <<registered, busy>>
    /\ UNCHANGED <<listed, play, autoStop, fault>>

\* in.close() is over.  on_terminate asks the transmition to remove the session,
\* unless it was never registered.
RemovePublisher(p) ==
    /\ Runs(pub[p]) /\ pub[p].phase = "closing"
    /\ IF pub[p].lifecycle
       THEN /\ registered' = registered \ {p}
            /\ pub' = [pub EXCEPT ![p].phase = "removed"]
            /\ busy' = [busy EXCEPT ![pub[p].shard] = p]
       ELSE /\ pub' = [pub EXCEPT ![p].phase = "dead", ![p].subs = {}]
            /\ UNCHANGED <<registered, busy>>
    /\ UNCHANGED <<listed, play, autoStop, fault>>

\* stop_all_players_after_publisher_shutdown, then the end of on_terminate.
StopPlayers(p) ==
    /\ Up /\ pub[p].phase = "removed"
    /\ pub' = [pub EXCEPT ![p].phase = "dead", ![p].lifecycle = FALSE, ![p].subs = {},
                          ![p].targets = listed]
    /\ busy' = [busy EXCEPT ![pub[p].shard] = None]
    /\ UNCHANGED <<registered, listed, play, autoStop, fault>>

\* The spawned task cancels each player on the player's shard.
CancelPlayer(p, l) ==
    /\ l \in pub[p].targets /\ Runs(play[l])
    /\ pub' = [pub EXCEPT ![p].targets = @ \ {l}]
    /\ play' = [play EXCEPT ![l].flags = IF play[l].phase = "gone" THEN {}
                                         ELSE Completed(play[l], "canceled")]
    /\ UNCHANGED <<registered, listed, autoStop, busy, fault>>

-----------------------------------------------------------------------------
(* A viewer: play_stream_route_handler, then svr::play_session::start_with.*)

\* Mutant: the answer of find_publisher is not checked for null.
FindPublisherUnchecked(l) ==
    /\ Up /\ play[l].phase = "idle"
    /\ \E p \in registered \union {None}, s \in Shards :
          /\ Free(s)
          /\ play' = [play EXCEPT ![l].phase = "made", ![l].of = p, ![l].shard = s]
    /\ UNCHANGED <<registered, listed, pub, autoStop, busy, fault>>

\* make_valid_player: find_publisher answers a registered session of the stream.
FindPublisher(l) ==
    /\ Up /\ play[l].phase = "idle"
    /\ \E p \in registered, s \in Shards :
          /\ Free(s)
          /\ play' = [play EXCEPT ![l].phase = "made", ![l].of = p, ![l].shard = s]
    /\ UNCHANGED <<registered, listed, pub, autoStop, busy, fault>>

\* Mutant: the player is never put on the list.
AddPlayerNowhere(l) ==
    /\ Runs(play[l]) /\ play[l].phase = "made"
    /\ play' = [play EXCEPT ![l].phase = "ready"]
    /\ UNCHANGED <<registered, listed, pub, autoStop, busy, fault>>

AddPlayer(l) ==
    /\ Runs(play[l]) /\ play[l].phase = "made"
    /\ listed' = listed \union {l}
    /\ play' = [play EXCEPT ![l].phase = "ready"]
    /\ UNCHANGED <<registered, pub, autoStop, busy, fault>>

\* find_publisher of stop_publisher_after_player_shutdown.  Every publisher is
\* the user's own, so mode "internal" finds none.
StoppedPublisher ==
    IF AutoStop \in {"user", "all"} /\ registered # {} THEN registered ELSE {None}

\* Mutant: a viewer that ends stays on the list of its publisher's subscribers.
EndPlayStillSubscribed(l) ==
    /\ listed' = listed \ {l}
    /\ \E p \in StoppedPublisher : autoStop' = [autoStop EXCEPT ![l] = p]
    /\ play' = [play EXCEPT ![l] = Gone(l)]
    /\ UNCHANGED <<registered, pub, busy, fault>>

\* on_end and on_terminate: unsubscribe, leave the list (remove_player and
\* on_remove_player), drop the publisher.
EndPlay(l) ==
    /\ pub' = [pub EXCEPT ![play[l].of].subs = @ \ {l}]
    /\ listed' = listed \ {l}
    /\ \E p \in StoppedPublisher : autoStop' = [autoStop EXCEPT ![l] = p]
    /\ play' = [play EXCEPT ![l] = Gone(l)]
    /\ UNCHANGED <<registered, busy, fault>>

Starting(l) == Runs(play[l]) /\ play[l].phase = "ready" /\ l \in Users

\* start_with of a publisher that is done: on_terminate.  No flag of the player
\* is set unless it was cancelled, and on_terminate asserts that one is.
StartWithDone(l) ==
    /\ Starting(l) /\ "done" \in pub[play[l].of].flags
    /\ IF Complete(play[l])
       THEN EndPlay(l)
       ELSE /\ play' = [play EXCEPT ![l] = Gone(l)]
            /\ fault' = IF Asserts THEN "assert" ELSE fault
            /\ UNCHANGED <<registered, listed, pub, autoStop, busy>>

StartWith(l) ==
    /\ Starting(l) /\ "done" \notin pub[play[l].of].flags
    /\ play' = [play EXCEPT ![l].phase = "beginning"]
    /\ busy' = [busy EXCEPT ![play[l].shard] = l]
    /\ UNCHANGED <<registered, listed, pub, autoStop, fault>>

\* What on_begin leaves of a player: no flag, an earlier cancel is forgotten.
Begun(l) ==
    [play[l] EXCEPT !.phase = "running", !.flags = {},
                    !.late = play[l].of \notin registered]

\* on_begin copies the publisher's metadata, and dereferences a null pointer
\* when there is none yet; then it subscribes.
BeginPlay(l) ==
    LET p == play[l].of IN
    /\ Up /\ play[l].phase = "beginning"
    /\ IF pub[p].meta
       THEN /\ play' = [play EXCEPT ![l] = Begun(l)]
            /\ pub' = [pub EXCEPT ![p].subs = @ \union {l}]
            /\ busy' = [busy EXCEPT ![play[l].shard] = None]
            /\ UNCHANGED fault
       ELSE /\ fault' = "null"
            /\ UNCHANGED <<play, pub, busy>>
    /\ UNCHANGED <<registered, listed, autoStop>>

-----------------------------------------------------------------------------
(* The HLS player of a publisher: _schedule_hls_player and play_session::start.*)

\* submit_to(next_cpu()): any shard.
AddHlsPlayer(p) ==
    /\ Up /\ pub[p].scheduled
    /\ \E s \in Shards :
          /\ Free(s)
          /\ play' = [play EXCEPT ![HlsOf[p]] =
                         [NewPlayer EXCEPT !.phase = "ready", !.of = p, !.shard = s]]
    /\ listed' = listed \union {HlsOf[p]}
    /\ pub' = [pub EXCEPT ![p].scheduled = FALSE]
    /\ UNCHANGED <<registered, autoStop, busy, fault>>

BeginHls(p) ==
    LET h == HlsOf[p] IN
    /\ Runs(play[h]) /\ play[h].phase = "ready"
    /\ play' = [play EXCEPT ![h] = Begun(h)]
    /\ pub' = [pub EXCEPT ![p].subs = @ \union {h}]
    /\ UNCHANGED <<registered, listed, autoStop, busy, fault>>

\* on_end looks for the player among the publisher's FLV subscribers, but it
\* subscribed among the RTMP ones: it stays there.
EndHls(h) ==
    /\ listed' = listed \ {h}
    /\ play' = [play EXCEPT ![h] = Gone(h)]
    /\ UNCHANGED <<registered, pub, autoStop, busy, fault>>

-----------------------------------------------------------------------------
(* Any player: the write loop and its end.                                 *)

Writing(l) == Runs(play[l]) /\ play[l].phase = "running"

StopWriting(l, flags) ==
    /\ play' = [play EXCEPT ![l].phase = "closing", ![l].flags = flags]
    /\ UNCHANGED <<registered, listed, pub, autoStop, busy, fault>>

\* on_frame of a frame too many: the player cancels itself.
Overflow(l) ==
    /\ Writing(l) /\ ~Complete(play[l])
    /\ l \in pub[play[l].of].subs /\ pub[play[l].of].phase = "running"
    /\ play' = [play EXCEPT ![l].flags = {"canceled"}]
    /\ UNCHANGED <<registered, listed, pub, autoStop, busy, fault>>

\* A cancel closes the queue, which wakes the loop.
StopCanceled(l) ==
    /\ Writing(l) /\ Complete(play[l])
    /\ StopWriting(l, play[l].flags)

WriteFails(l) ==
    /\ Writing(l) /\ ~Complete(play[l])
    /\ StopWriting(l, {"failed"})

\* Mutant: waiting for a frame has no time limit once the publisher left.
PlayTimeoutWhileRegistered(l) ==
    /\ Writing(l) /\ ~Complete(play[l]) /\ play[l].of \in registered
    /\ StopWriting(l, {"failed"})

\* with_frames got no frame within stream_timeout_interval.
PlayTimeout(l) ==
    /\ Writing(l) /\ ~Complete(play[l])
    /\ StopWriting(l, {"failed"})

\* out.close() is over.
TerminatePlay(l) ==
    /\ Runs(play[l]) /\ play[l].phase = "closing"
    /\ IF l \in Users THEN EndPlay(l) ELSE EndHls(l)

\* The task spawned by l's end cancels the publisher it found.
CancelPublisher(l) ==
    LET p == autoStop[l] IN
    /\ p # None /\ Runs(pub[p])
    /\ pub' = [pub EXCEPT ![p].flags = Completed(pub[p], "canceled")]
    /\ autoStop' = [autoStop EXCEPT ![l] = None]
    /\ UNCHANGED <<registered, listed, play, busy, fault>>

-----------------------------------------------------------------------------
(* Objects nobody refers to any more make room for new connections.        *)

ForgetPlayer(l) ==
    /\ Up /\ play[l].phase = "gone" /\ l \notin listed /\ autoStop[l] = None
    /\ \A p \in Publishers : l \notin pub[p].targets \union pub[p].subs
    /\ play' = [play EXCEPT ![l] = NewPlayer]
    /\ UNCHANGED <<registered, listed, pub, autoStop, busy, fault>>

\* The publisher goes with its HLS player.
ForgetPublisher(p) ==
    LET h == HlsOf[p] IN
    /\ Up /\ pub[p].phase = "dead" /\ ~pub[p].scheduled /\ pub[p].targets = {}
    /\ \A l \in Users : autoStop[l] # p
    /\ \A l \in Players : play[l].of # p
    /\ \A q \in Publishers : h \notin pub[q].targets
    /\ pub' = [pub EXCEPT ![p] = NewPublisher]
    /\ play' = [play EXCEPT ![h] = NewPlayer]
    /\ UNCHANGED <<registered, listed, autoStop, busy, fault>>

\* The process is dead.
Crashed == ~Up /\ UNCHANGED vars

PublisherStep(p) ==
    \/ Publish(p) \/ AddPublisher(p) \/ Register(p) \/ BeginPublish(p)
    \/ Metadata(p) \/ BadPacket(p) \/ PacketAfterCancel(p) \/ Eof(p)
    \/ PublishTimeout(p) \/ RemovePublisher(p) \/ StopPlayers(p)
    \/ AddHlsPlayer(p) \/ BeginHls(p) \/ ForgetPublisher(p)
    \/ \E l \in Players : CancelPlayer(p, l)

UserStep(l) ==
    \/ FindPublisher(l) \/ AddPlayer(l) \/ StartWithDone(l) \/ StartWith(l)
    \/ BeginPlay(l) \/ CancelPublisher(l) \/ ForgetPlayer(l)

PlayerStep(l) ==
    \/ Overflow(l) \/ StopCanceled(l) \/ WriteFails(l) \/ PlayTimeout(l)
    \/ TerminatePlay(l)

Next ==
    \/ \E p \in Publishers : PublisherStep(p)
    \/ \E l \in Users : UserStep(l)
    \/ \E l \in Players : PlayerStep(l)
    \/ Crashed


Spec == Init /\ [][Next]_vars

\* What the reactor owes a publisher that has to stop: the read ends by a packet,
\* the end of the stream or its timeout, then in.close() ends.
PublisherDue(p) ==
    \/ Complete(pub[p]) /\ (PacketAfterCancel(p) \/ Eof(p) \/ PublishTimeout(p))
    \/ RemovePublisher(p)

\* What it owes a player: a cancel wakes it, out.close() ends, and the wait for a
\* frame ends.  A write to a stalled viewer has no time limit, so the timeout is
\* only sure for a player whose publisher has stopped sending.
PlayerDue(l) ==
    \/ StopCanceled(l) \/ TerminatePlay(l)
    \/ PlayTimeout(l) /\ pub[play[l].of].phase = "dead"

\* A handler that does not wait runs to its end (weak fairness); a task or timer
\* that is due is run whatever handlers the shard runs in between (strong).
FairSpec ==
    /\ Spec
    /\ \A p \in Publishers :
          WF_vars(Register(p)) /\ WF_vars(StopPlayers(p)) /\ SF_vars(PublisherDue(p))
    /\ \A l \in Users : WF_vars(BeginPlay(l))
    /\ \A l \in Players : SF_vars(PlayerDue(l))

-----------------------------------------------------------------------------
(* Properties                                                              *)

\* Who may be half way through a handler on its shard.
HalfWay(x) ==
    \/ x \in Publishers /\ pub[x].phase \in {"adding", "removed"}
    \/ x \in Users /\ play[x].phase = "beginning"

ShardOf(x) == IF x \in Publishers THEN pub[x].shard ELSE play[x].shard

\* Every variable has its type, a player has a publisher as long as it lives, and
\* a shard is kept by exactly the session whose handler is half way on it.
TypeOK ==
    /\ registered \subseteq Publishers /\ listed \subseteq Players
    /\ pub \in [Publishers -> Publisher] /\ play \in [Players -> Player]
    /\ autoStop \in [Users -> Publishers \union {None}]
    /\ busy \in [Shards -> Publishers \union Users \union {None}]
    /\ fault \in {"none", "assert", "null"}
    /\ \A l \in Players : play[l].of = None <=> play[l].phase \in {"idle", "gone"}
    /\ \A s \in Shards, x \in Publishers \union Users :
          busy[s] = x <=> HalfWay(x) /\ ShardOf(x) = s

\* A stream never has two registered publishers (add_publisher's second lookup
\* closes the window between the handler's lookup and the registration).
UniquePublisher == \A p, q \in registered : p = q

\* A session is registered exactly while its life cycle is the transmition's:
\* none leaves the list without having run to its end, none stays after it.
RegisteredIffAlive ==
    \A p \in Publishers :
        /\ p \in registered => pub[p].phase \in {"ready", "running", "closing"}
        /\ pub[p].phase \in {"ready", "running", "closing"} /\ pub[p].lifecycle
              => p \in registered

\* A viewer that plays a stream is among its publisher's subscribers as long as
\* the publisher is registered, and a viewer that is gone is among nobody's.
SubscribedIffPlaying ==
    \A l \in Users : \A p \in Publishers :
        /\ play[l].phase \in {"running", "closing"} /\ play[l].of = p /\ p \in registered
              => l \in pub[p].subs
        /\ l \in pub[p].subs
              => play[l].phase \in {"running", "closing"} /\ play[l].of = p

\* When a publisher has ended, every player it served is complete or about to be
\* cancelled, but for those that began after it left the list.
ShutdownReachesPlayers ==
    \A l \in Players :
        play[l].phase = "running" /\ ~Complete(play[l]) /\ ~play[l].late
            => LET p == play[l].of IN
               pub[p].phase = "dead" => l \in pub[p].targets

\* The end of one publisher never cancels the players of the next publisher of
\* the stream.
NoCrossCancel ==
    \A p \in Publishers, l \in Players :
        l \in pub[p].targets => play[l].of \notin registered

\* A viewer's end stops the publisher only when no other viewer plays.  It does not
\* hold in mode "user" (README, section 6).
AutoStopOnlyWhenNoUserPlayers ==
    [][\A l \in Users :
          autoStop[l] = None /\ autoStop'[l] # None
              => \A k \in Users : play'[k].phase # "running"]_vars

\* No assertion of the session life cycle fails.  It does not hold of a build with
\* assertions (README, section 6).
NoAssertFails == fault # "assert"

\* A publisher that was cancelled while it read leaves the registry.
CanceledPublisherEnds ==
    \A p \in Publishers :
        pub[p].phase = "running" /\ Complete(pub[p]) ~> p \notin registered \/ ~Up

\* No player outlives its publisher: the cancel or the frame timeout ends it,
\* even one that began too late for the cancel.
PlayersOfDeadPublisherEnd ==
    \A l \in Players :
        play[l].phase = "running" /\ pub[play[l].of].phase = "dead"
            ~> play[l].phase = "gone" \/ ~Up
=============================================================================
