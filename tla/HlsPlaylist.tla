------------------------------ MODULE HlsPlaylist ------------------------------
(***************************************************************************)
(* The HLS play sessions of one stream, which follow one another in one    *)
(* directory: session/hls/play_session{,_v3}.cc cut the frames into .ts    *)
(* fragments and keep the play list, m3u8_writer (hls/m3u8.cc) writes the  *)
(* .m3u8 file, file_cleaner (hls/file_clean.cc) deletes the files of       *)
(* removed fragments after a delay, which outlives the session.            *)
(*                                                                         *)
(* Time is in seconds and the dts of a frame is the time it arrives at;    *)
(* composition offsets are left out, so pts and dts agree.  The two        *)
(* tracers see the same calls and hold the same list, modelled once.       *)
(***************************************************************************)
EXTENDS Integers, Sequences, SequencesExt, FiniteSets, FiniteSetsExt

CONSTANTS
    FragmentDuration,  \* hls_ts_fragment_duration
    MinDuration,       \* hls_ts_playlist_min_duration
    MaxFragments,      \* hls_ts_max_fragments
    DeleteDelay,       \* hls_ts_fragment_file_delete_delay
    MaxTime,           \* bound: seconds
    MaxSessions,       \* bound: sessions of the stream
    MaxMetas,          \* bound: metadata frames of a session
    MaxFaults,         \* bound: operations that fail
    Lead,              \* assumption: fragments a session may be ahead of the clock
    NoFragment         \* model value: _fragment is null

ASSUME DurationAssumption ==
    FragmentDuration \in Nat \ {0} /\ MinDuration \in Nat /\ DeleteDelay \in Nat \ {0}
ASSUME LimitAssumption == MaxFragments \in Nat \ {0}
ASSUME BoundAssumption == MaxTime \in Nat \ {0} /\ MaxSessions \in Nat \ {0} /\ Lead \in Nat

VARIABLES
    now,       \* the system clock
    state,     \* the session: "open", "writing" or "listing" a fragment, "ended"
    complete,  \* is_complete
    nextId,    \* _next_fragment_id
    fragment,  \* _fragment
    next,      \* while a fragment is stored: the frame that ended it
    playlist,  \* _playlist of the session
    tracked,   \* _playlist of the writer and of the cleaner, headers included
    files,     \* the ids whose .ts file is on disk
    m3u8,      \* the play list on disk
    doomed,    \* files to delete, with the time that is due
    sessions,  \* bound: sessions begun
    removed,   \* history: the session has trimmed its play list
    faults     \* history: the operations that have failed

vars == <<now, state, complete, nextId, fragment, next, playlist, tracked, files,
          m3u8, doomed, sessions, removed, faults>>

\* A media frame; key is true of keyframes of video only.
Frame == [dts : Nat, key : BOOLEAN]

\* fragment_info; a header has no file, and an id no fragment has.
Item == [id : Nat, dts : Nat, duration : Nat, key : BOOLEAN]
Header == [id |-> 0, dts |-> 0, duration |-> 0, key |-> FALSE]
IsHeader(i) == i.id = 0
Segments(list) ==
    LET upTo[k \in 0..Len(list)] ==
            IF k = 0 THEN <<>>
            ELSE IF IsHeader(list[k]) THEN upTo[k - 1] ELSE Append(upTo[k - 1], list[k])
    IN  upTo[Len(list)]
Ids(list) == {list[i].id : i \in DOMAIN list} \ {Header.id}

Fragment == [id : Nat, dts : Nat, key : BOOLEAN, filled : BOOLEAN]

ASSUME NoFragmentAssumption == NoFragment \notin Fragment \union Frame

NoPlaylist == [entries |-> <<>>, ended |-> FALSE]

\* The fragment ids of a session count on from the time it was made at.
Init ==
    /\ now = 1 /\ nextId = 1
    /\ state = "open" /\ complete = FALSE
    /\ fragment = NoFragment /\ next = NoFragment
    /\ playlist = <<>> /\ tracked = <<>>
    /\ files = {} /\ m3u8 = NoPlaylist /\ doomed = {}
    /\ sessions = 1 /\ removed = FALSE /\ faults = <<>>

-----------------------------------------------------------------------------
(* Fragments.                                                              *)

\* Mutant: the id is taken before it is counted on.
NewFragmentStale(id, frame) ==
    [id |-> id - 1, dts |-> frame.dts, key |-> frame.key, filled |-> FALSE]

\* make_fragment.
NewFragment(id, frame) ==
    [id |-> id, dts |-> frame.dts, key |-> frame.key, filled |-> FALSE]

\* is_fragment_header_frame.
BeginsFragment(f, frame) == frame.key \/ frame.dts - f.dts >= FragmentDuration

\* Bound: MaxFaults.
Fails(what) ==
    /\ Len(faults \o what) <= MaxFaults
    /\ faults' = faults \o what

Failed(what) == what \in Range(faults)

\* write_ts_frame into f, after what has failed; a frame that cannot be muxed
\* leaves f as it was.
Mux(f, failed) ==
    \/ fragment' = [f EXCEPT !.filled = TRUE] /\ Fails(failed)
    \/ fragment' = f /\ Fails(failed \o <<"mux">>)

\* handle_frame.  The first frame of a session is a metadata frame (GopCache).
\* A fragment without data is replaced and leaves no trace but its id.
MediaFrame(key) ==
    LET frame == [dts |-> now, key |-> key]
        f    == IF fragment = NoFragment THEN NewFragment(nextId + 1, frame) ELSE fragment
        used == IF fragment = NoFragment THEN nextId + 1 ELSE nextId
    IN  /\ state = "open" /\ ~complete /\ tracked # <<>>
        /\ used < now + Lead
        /\ \/ /\ ~BeginsFragment(f, frame)
              /\ Mux(f, <<>>) /\ nextId' = used
              /\ UNCHANGED <<state, next>>
           \/ /\ BeginsFragment(f, frame) /\ ~f.filled
              /\ Mux(NewFragment(used + 1, frame), <<>>) /\ nextId' = used + 1
              /\ UNCHANGED <<state, next>>
           \/ /\ BeginsFragment(f, frame) /\ f.filled
              /\ state' = "writing" /\ next' = frame
              /\ UNCHANGED <<fragment, nextId, faults>>
        /\ UNCHANGED <<now, complete, playlist, tracked, files, m3u8, doomed, sessions,
                       removed>>

\* The rest of dump_fragment's continuation: the frame that ended the fragment
\* begins the next one.
NextFragment(failed) ==
    /\ nextId' = nextId + 1 /\ next' = NoFragment
    /\ Mux(NewFragment(nextId + 1, next), failed)

-----------------------------------------------------------------------------
(* The lists.                                                              *)

\* Mutant: the last header goes as well.
UsefulFromItem(list) ==
    LET after == {i \in 2..Len(list) : ~IsHeader(list[i])}
    IN  IF after = {} \/ Min(after) = 2 THEN list
        ELSE SubSeq(list, Min(after), Len(list))

\* remove_useless_headers: of the entries before the first item that is not at
\* the front, only the last stays.
Useful(list) ==
    LET after == {i \in 2..Len(list) : ~IsHeader(list[i])}
    IN  IF after = {} \/ Min(after) = 2 THEN list
        ELSE SubSeq(list, Min(after) - 1, Len(list))

\* on_remove_playitem, for the items of seq in turn.
Without(list, seq) ==
    LET left[k \in 0..Len(seq)] ==
            IF k = 0 THEN list ELSE Useful(RemoveFirst(left[k - 1], seq[k]))
    IN  left[Len(seq)]

\* The cleaner schedules files for deletion: those of the segments in seq, and of
\* whatever else its list has lost.
Doom(seq, before, after) ==
    doomed \union {[id |-> i, due |-> now + DeleteDelay] :
                       i \in Ids(seq) \union (Ids(before) \ Ids(after))}

\* Mutant: the first keyframe counts, not the second.
OutOfDurationFirst(list, end) ==
    LET keys == {i \in DOMAIN list : list[i].key} IN
    /\ Len(list) > 1
    /\ \/ Len(list) > MaxFragments
       \/ keys # {} /\ end - list[Min(keys)].dts > MinDuration

\* out_of_gop_duration.
OutOfDuration(list, end) ==
    LET keys == {i \in DOMAIN list : list[i].key} IN
    /\ Len(list) > 1
    /\ \/ Len(list) > MaxFragments
       \/ /\ Cardinality(keys) > 1
          /\ end - list[Min(keys \ {Min(keys)})].dts > MinDuration

\* Mutant: the play list loses one segment at a time.
KeptFromAny(list, end) ==
    Min({i \in 1..(Len(list) + 1) :
            ~OutOfDuration(SubSeq(list, i, Len(list)), end)})

\* The loop of add_play_item: remove_first_gop_play_items takes all up to the next
\* item that begins with a keyframe, or all there is.
KeptFrom(list, end) ==
    LET cuts == {1} \union {i \in 2..Len(list) : list[i].key} \union {Len(list) + 1}
    IN  Min({i \in cuts : ~OutOfDuration(SubSeq(list, i, Len(list)), end)})

-----------------------------------------------------------------------------
\* handle_meta: the tracers get a header.  Bound: MaxMetas.
MetaFrame ==
    /\ state = "open" /\ ~complete
    /\ Cardinality({i \in DOMAIN tracked : IsHeader(tracked[i])}) < MaxMetas
    /\ tracked' = Useful(Append(tracked, Header))
    /\ doomed' = Doom(<<>>, Append(tracked, Header), tracked')
    /\ UNCHANGED <<now, state, complete, nextId, fragment, next, playlist, files, m3u8,
                   sessions, removed, faults>>

\* add_fragment_file; a complete session stores nothing.
WriteFile ==
    /\ state = "writing"
    /\ \/ /\ ~complete
          /\ files' = files \union {fragment.id}
          /\ state' = "listing"
          /\ UNCHANGED <<fragment, nextId, next, faults>>
       \/ /\ complete
          /\ state' = "open" /\ UNCHANGED files
          /\ NextFragment(<<>>)
    /\ UNCHANGED <<now, complete, playlist, tracked, m3u8, doomed, sessions, removed>>

\* Mutant: a fragment that cannot be stored is thrown away.
WriteFileFailsLosing ==
    /\ state = "writing" /\ ~complete
    /\ Fails(<<"file">>)
    /\ state' = "open" /\ next' = NoFragment /\ fragment' = NoFragment
    /\ UNCHANGED <<now, complete, nextId, playlist, tracked, files, m3u8, doomed, sessions,
                   removed>>

\* The file cannot be written: the fragment stays as it is, the frame that ended
\* it and the rest of its batch are gone.
WriteFileFails ==
    /\ state = "writing" /\ ~complete
    /\ Fails(<<"file">>)
    /\ state' = "open" /\ next' = NoFragment
    /\ UNCHANGED <<now, complete, nextId, fragment, playlist, tracked, files, m3u8,
                   doomed, sessions, removed>>

\* make_fragment_info: the fragment lasts up to the frame that ended it.
NewItem == [id |-> fragment.id, dts |-> fragment.dts, duration |-> next.dts - fragment.dts,
            key |-> fragment.key]

\* add_play_item.  A write of the .m3u8 file after a removal may fail unnoticed:
\* the file then shows one of the lists before.
AddPlayItem ==
    LET all  == Append(playlist, NewItem)
        from == KeptFrom(all, next.dts)
        added == Append(tracked, NewItem)
    IN
    /\ state = "listing"
    /\ playlist' = SubSeq(all, from, Len(all))
    /\ tracked' = Without(added, SubSeq(all, 1, from - 1))
    /\ doomed' = Doom(SubSeq(all, 1, from - 1), added, tracked')
    /\ \/ m3u8' = [entries |-> tracked', ended |-> FALSE] /\ NextFragment(<<>>)
       \/ \E shown \in 0..(from - 2) :
             /\ m3u8' = [entries |-> Without(added, SubSeq(all, 1, shown)), ended |-> FALSE]
             /\ NextFragment(<<"m3u8">>)
    /\ removed' = (removed \/ from > 1)
    /\ state' = "open"
    /\ UNCHANGED <<now, complete, files, sessions>>

\* The write of the .m3u8 file for the new item fails: nothing is trimmed and the
\* fragment stays as it is, to be listed again.
AddPlayItemFails ==
    /\ state = "listing"
    /\ playlist' = Append(playlist, NewItem)
    /\ tracked' = Append(tracked, NewItem)
    /\ Fails(<<"m3u8">>)
    /\ state' = "open" /\ next' = NoFragment
    /\ UNCHANGED <<now, complete, nextId, fragment, files, m3u8, doomed, sessions, removed>>

-----------------------------------------------------------------------------
\* The session is cancelled, done, failed or timed out, at any moment.
Complete ==
    /\ state # "ended" /\ ~complete
    /\ complete' = TRUE
    /\ UNCHANGED <<now, state, nextId, fragment, next, playlist, tracked, files, m3u8,
                   doomed, sessions, removed, faults>>

\* do_write's last part: the .m3u8 file is closed.  The open fragment is lost.
Close ==
    /\ state = "open" /\ complete
    /\ state' = "ended"
    /\ \/ m3u8' = (IF tracked = <<>> THEN m3u8
                   ELSE [entries |-> tracked, ended |-> TRUE]) /\ UNCHANGED faults
       \/ tracked # <<>> /\ UNCHANGED m3u8 /\ Fails(<<"m3u8">>)
    /\ UNCHANGED <<now, complete, nextId, fragment, next, playlist, tracked, files,
                   doomed, sessions, removed>>

\* Mutant: the ids of a session count from zero.
FirstIdZero == 0

\* The next publisher's session: unix seconds give its ids.
FirstId == now

\* init_directory clears the directory; deletions of the last session stay due.
BeginSession ==
    /\ state = "ended" /\ sessions < MaxSessions
    /\ sessions' = sessions + 1
    /\ state' = "open" /\ complete' = FALSE
    /\ nextId' = FirstId /\ fragment' = NoFragment /\ next' = NoFragment
    /\ playlist' = <<>> /\ tracked' = <<>>
    /\ files' = {} /\ m3u8' = NoPlaylist
    /\ removed' = FALSE
    /\ UNCHANGED <<now, doomed, faults>>

\* remove_file_delay, after its sleep.
DeleteFile ==
    /\ \E d \in doomed :
          /\ d.due <= now
          /\ files' = files \ {d.id} /\ doomed' = doomed \ {d}
    /\ UNCHANGED <<now, state, complete, nextId, fragment, next, playlist, tracked, m3u8,
                   sessions, removed, faults>>

\* Timers are on time: what is due happens within its second.  Bound: MaxTime.
Tick ==
    /\ now < MaxTime /\ \A d \in doomed : d.due > now
    /\ now' = now + 1
    /\ UNCHANGED <<state, complete, nextId, fragment, next, playlist, tracked, files,
                   m3u8, doomed, sessions, removed, faults>>

Next ==
    \/ MetaFrame \/ MediaFrame(TRUE) \/ MediaFrame(FALSE)
    \/ WriteFile \/ WriteFileFails \/ AddPlayItem \/ AddPlayItemFails
    \/ Complete \/ Close \/ BeginSession \/ DeleteFile \/ Tick

Spec == Init /\ [][Next]_vars

-----------------------------------------------------------------------------
\* Type invariant.
TypeOK ==
    /\ now \in 1..MaxTime /\ nextId \in Nat /\ sessions \in 1..MaxSessions
    /\ state \in {"open", "writing", "listing", "ended"}
    /\ complete \in BOOLEAN /\ next \in Frame \union {NoFragment} /\ removed \in BOOLEAN
    /\ fragment \in Fragment \union {NoFragment}
    /\ fragment # NoFragment => fragment.id = nextId
    /\ state \in {"writing", "listing"} => fragment \in Fragment /\ next \in Frame
    /\ playlist \in Seq(Item) /\ tracked \in Seq(Item)
    /\ files \subseteq Nat /\ doomed \subseteq [id : Nat, due : Nat]
    /\ m3u8.entries \in Seq(Item) /\ faults \in Seq({"mux", "file", "m3u8"})

\* Each segment the .m3u8 file lists can be fetched: no deletion, of this session
\* or left by the last one in the same directory, takes a listed file.
ListedFilesExist ==
    ~Failed("m3u8") => Ids(m3u8.entries) \subseteq files

\* The session, the writer and the file agree on the segments, in spite of failed
\* stores of fragments; headers are dropped without the segments among them.
ListsAgree ==
    /\ Segments(tracked) = playlist
    /\ tracked # <<>> => IsHeader(Head(tracked))
    /\ state # "listing" /\ ~Failed("m3u8") => Segments(m3u8.entries) = playlist

\* The .m3u8 file numbers its segments by counting on from the id of the first
\* (EXT-X-MEDIA-SEQUENCE), so ids have no gaps; nor has the time they cover.
SegmentsConsecutive ==
    ~Failed("mux") /\ ~Failed("m3u8") =>
        \A i \in 1..(Len(playlist) - 1) :
            /\ playlist[i + 1].id = playlist[i].id + 1
            /\ playlist[i + 1].dts = playlist[i].dts + playlist[i].duration

\* Once trimmed, the play list begins where a client can begin to decode.
TrimmedStartsWithKey ==
    removed => playlist # <<>> /\ Head(playlist).key

\* Trimming never takes the segment that was just added, and so never all there is.
\* It does not hold when MaxFragments is within reach (README, section 6).
NeverEmptied == removed => playlist # <<>>

\* Trimming leaves the duration the play list must have, and, whatever failed
\* before, nothing that could go: it stops at the right group of pictures.
PlaylistDuration(list) == Last(list).dts + Last(list).duration - Head(list).dts

MinDurationKept ==
    removed => playlist # <<>> /\ PlaylistDuration(playlist) >= MinDuration

NothingToTrim ==
    playlist # <<>> /\ ~Failed("m3u8") =>
        ~OutOfDuration(playlist, Last(playlist).dts + Last(playlist).duration)

TrimmedExactly == MinDurationKept /\ NothingToTrim
=============================================================================
