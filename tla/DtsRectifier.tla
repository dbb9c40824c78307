----------------------------- MODULE DtsRectifier -----------------------------
(***************************************************************************)
(* rectify_dts of session/rtmp/publish_session.cc: the time line a publish *)
(* session makes of the dts its client sends.  A dts below the one before  *)
(* it (the client restarted, the 32-bit RTMP clock wrapped, or a frame was *)
(* merely late) starts a new segment that is shifted past the last frame   *)
(* the cache accepted.                                                     *)
(*                                                                         *)
(* Audio and video share one time line.  The cache may still reject the    *)
(* rectified frame (GopCache): then _current_dts stays, but the segment    *)
(* that the frame began is not undone.                                     *)
(***************************************************************************)
EXTENDS Integers, Sequences

CONSTANTS
    DtsRange,    \* the dts a packet can carry
    MaxFrames    \* bound: accepted frames, and segments begun by rejected ones

ASSUME DtsRangeAssumption == DtsRange \subseteq Nat

VARIABLES
    lastActual,  \* _last_actual_dts: what the client sent last
    lastEnd,     \* _last_end_dts: the shift of the segment
    current,     \* _current_dts: the last accepted frame
    segment,     \* history: how many segments have begun
    sent         \* history: accepted frames, as [actual, dts, segment]

vars == <<lastActual, lastEnd, current, segment, sent>>

Init ==
    /\ lastActual = -1 /\ lastEnd = -1 /\ current = -1
    /\ segment = 0 /\ sent = <<>>

Backflow(dts) == dts < lastActual

\* Mutant: the new segment is put after the last dts the client sent.
ShiftPastActual(dts) == IF Backflow(dts) THEN lastActual + 1 ELSE lastEnd

\* Mutant: the new segment begins on the last accepted dts.
ShiftOntoCurrent(dts) == IF Backflow(dts) THEN current ELSE lastEnd

\* The value of _last_end_dts once the frame has been looked at.
Shift(dts) == IF Backflow(dts) THEN current + 1 ELSE lastEnd

\* Mutant: a segment is shifted only at the frame that begins it.
RectifiedOnce(dts) == IF Backflow(dts) THEN dts + Shift(dts) ELSE dts

\* Mutant: the shift that is not set yet (-1) is added too.
RectifiedAlways(dts) == dts + Shift(dts)

Rectified(dts) ==
    IF Backflow(dts) \/ Shift(dts) > 0 THEN dts + Shift(dts) ELSE dts

\* rectify_dts, then the cache's verdict.
Rectify(dts) ==
    /\ lastActual' = dts
    /\ lastEnd' = Shift(dts)
    /\ segment' = IF Backflow(dts) THEN segment + 1 ELSE segment

Accept(dts) ==
    /\ Len(sent) < MaxFrames
    /\ Rectify(dts)
    /\ current' = Rectified(dts)
    /\ sent' = Append(sent, [actual |-> dts, dts |-> Rectified(dts), segment |-> segment'])

\* Bound: rejected frames begin segments only up to MaxFrames.
Reject(dts) ==
    /\ Backflow(dts) => segment < MaxFrames
    /\ Rectify(dts)
    /\ UNCHANGED <<current, sent>>

Next == \E dts \in DtsRange : Accept(dts) \/ Reject(dts)

Spec == Init /\ [][Next]_vars

-----------------------------------------------------------------------------
\* Type invariant.
TypeOK ==
    /\ lastActual \in Nat \union {-1} /\ lastEnd \in Nat \union {-1}
    /\ current \in Nat \union {-1} /\ segment \in Nat
    /\ sent \in Seq([actual : Nat, dts : Nat, segment : Nat])

\* The time line never goes back, whatever the client sends and whatever the
\* cache rejects: the caches and players subtract one dts from another.
NeverBack ==
    \A i \in 1..(Len(sent) - 1) : sent[i].dts <= sent[i + 1].dts

\* Within a segment the distances between frames, of audio to video above all,
\* are those the client sent.
DistancesKept ==
    \A i, j \in DOMAIN sent :
        sent[i].segment = sent[j].segment
            => sent[j].dts - sent[i].dts = sent[j].actual - sent[i].actual

\* A new segment begins strictly after everything accepted before it, unless
\* nothing was accepted before it.
SegmentsDisjoint ==
    \A i, j \in DOMAIN sent :
        sent[i].segment < sent[j].segment => sent[i].dts < sent[j].dts
=============================================================================
