------------------------- MODULE PublishSessionProofs -------------------------
(***************************************************************************)
(* The time line of DtsRectifier, and then what a publish session owes it, *)
(* the cache and the viewers, for every set of codecs and of dts, any      *)
(* length and any MinCache.                                                *)
(***************************************************************************)
EXTENDS PublishSession, BasicLemmas

-----------------------------------------------------------------------------
(* The rectifier.                                                          *)

\* What the current segment adds to a dts.
Offset == IF lastEnd > 0 THEN lastEnd ELSE 0

SentFrame == [actual : Nat, dts : Nat, segment : Nat]

\* The last accepted frame is not beyond what the segment would make of the
\* client's last dts; accepted frames of this segment carry its offset, those of
\* earlier segments lie before it.
IInv ==
    /\ lastActual \in Nat \union {-1} /\ lastEnd \in Nat \union {-1}
    /\ current \in Nat \union {-1} /\ segment \in Nat
    /\ sent \in Seq(SentFrame)
    /\ current <= lastActual + Offset
    /\ \A i \in DOMAIN sent :
          /\ sent[i].dts <= current
          /\ sent[i].segment <= segment
          /\ sent[i].segment = segment => sent[i].dts = sent[i].actual + Offset
          /\ sent[i].segment < segment => sent[i].dts < lastEnd
    /\ NeverBack /\ DistancesKept /\ SegmentsDisjoint

LEMMA InitIInv == Init => IInv
  BY DEF Init, IInv, Offset, NeverBack, DistancesKept, SegmentsDisjoint

LEMMA FrameTypes ==
  ASSUME NEW s \in Seq(SentFrame), NEW i \in DOMAIN s
  PROVE  s[i].actual \in Nat /\ s[i].dts \in Nat /\ s[i].segment \in Nat
<1>1. s[i] \in SentFrame
  BY ElementOfSeq, LenProperties
<1> QED
  BY <1>1 DEF SentFrame

-----------------------------------------------------------------------------
\* rectify_dts alone: the frame is not before anything accepted, it carries the
\* offset of its segment, and what was accepted in earlier segments is before it.
LEMMA RectifyKeeps ==
  ASSUME IInv, NEW dts \in Nat, Rectify(dts)
  PROVE  /\ lastActual' \in Nat /\ lastEnd' \in Nat \union {-1} /\ segment' \in Nat
         /\ Rectified(dts) \in Nat
         /\ Rectified(dts) = lastActual' + Offset'
         /\ current <= Rectified(dts)
         /\ \A i \in DOMAIN sent :
               /\ sent[i].segment <= segment'
               /\ sent[i].segment = segment' => sent[i].dts = sent[i].actual + Offset'
               /\ sent[i].segment < segment'
                     => sent[i].dts < lastEnd' /\ sent[i].dts < Rectified(dts)
<1> USE DEF IInv, Rectify, Offset, Rectified, Shift
<1>1. CASE Backflow(dts)
  <2>1. lastEnd' = current + 1 /\ segment' = segment + 1 /\ lastActual' = dts
    BY <1>1
  <2>2. Rectified(dts) = dts + current + 1
    BY <1>1
  <2>3. \A i \in DOMAIN sent : /\ sent[i].segment < segment'
                               /\ sent[i].dts < lastEnd'
                               /\ sent[i].dts < Rectified(dts)
    <3> SUFFICES ASSUME NEW i \in DOMAIN sent
                 PROVE  /\ sent[i].segment < segment'
                        /\ sent[i].dts < lastEnd'
                        /\ sent[i].dts < Rectified(dts)
      OBVIOUS
    <3>1. sent[i].dts \in Nat /\ sent[i].segment \in Nat
      BY FrameTypes
    <3> QED
      BY <2>1, <2>2, <3>1
  <2>4. /\ lastActual' \in Nat /\ lastEnd' \in Nat \union {-1} /\ segment' \in Nat
        /\ Rectified(dts) \in Nat /\ Rectified(dts) = lastActual' + Offset'
        /\ current <= Rectified(dts)
    BY <2>1, <2>2
  <2>5. \A i \in DOMAIN sent :
           sent[i].segment <= segment' /\ sent[i].segment # segment'
    <3> SUFFICES ASSUME NEW i \in DOMAIN sent
                 PROVE  sent[i].segment <= segment' /\ sent[i].segment # segment'
      OBVIOUS
    <3>1. sent[i].segment \in Nat /\ sent[i].segment < segment' /\ segment' \in Nat
      BY <2>3, <2>4, FrameTypes
    <3> QED
      BY ONLY <3>1
  <2> QED
    BY ONLY <2>3, <2>4, <2>5
<1>2. CASE ~Backflow(dts)
  <2>1. lastEnd' = lastEnd /\ segment' = segment /\ lastActual' = dts
    BY <1>2
  <2>2. Rectified(dts) = dts + Offset /\ Offset' = Offset
    BY <1>2, <2>1
  <2>3. lastActual <= dts
    BY <1>2 DEF Backflow
  <2>4. current <= Rectified(dts)
    BY <2>2, <2>3
  <2>5. \A i \in DOMAIN sent : sent[i].segment < segment => sent[i].dts < Rectified(dts)
    <3> SUFFICES ASSUME NEW i \in DOMAIN sent, sent[i].segment < segment
                 PROVE  sent[i].dts < Rectified(dts)
      OBVIOUS
    <3>1. sent[i].dts \in Nat
      BY FrameTypes
    <3>2. sent[i].dts < lastEnd
      OBVIOUS
    <3> QED
      BY <2>2, <3>1, <3>2
  <2> QED
    BY <2>1, <2>2, <2>4, <2>5
<1> QED
  BY <1>1, <1>2

LEMMA RejectStep ==
  ASSUME IInv, NEW dts \in Nat, Reject(dts)
  PROVE  IInv'
<1>1. Rectify(dts) /\ current' = current /\ sent' = sent
  BY DEF Reject
<1>2. current' <= lastActual' + Offset'
  BY <1>1, RectifyKeeps
<1>3. (NeverBack /\ DistancesKept /\ SegmentsDisjoint)'
  BY <1>1 DEF IInv, NeverBack, DistancesKept, SegmentsDisjoint
<1> QED
  BY <1>1, <1>2, <1>3, RectifyKeeps DEF IInv

\* The accepted frame goes to the end of the history.
LEMMA AppendFrame ==
  ASSUME NEW s \in Seq(SentFrame), NEW f \in SentFrame
  PROVE  /\ Append(s, f) \in Seq(SentFrame)
         /\ DOMAIN Append(s, f) = DOMAIN s \union {Len(s) + 1}
         /\ Len(s) \in Nat /\ Len(Append(s, f)) = Len(s) + 1
         /\ \A i \in DOMAIN s : Append(s, f)[i] = s[i]
         /\ Append(s, f)[Len(s) + 1] = f
         /\ DOMAIN s = 1..Len(s)
  BY AppendProperties

LEMMA AcceptStep ==
  ASSUME IInv, NEW dts \in Nat, Accept(dts)
  PROVE  IInv'
<1> DEFINE f == [actual |-> dts, dts |-> Rectified(dts), segment |-> segment']
<1>1. Rectify(dts) /\ current' = Rectified(dts) /\ sent' = Append(sent, f)
  BY DEF Accept
<1>2. lastActual' = dts
  BY <1>1 DEF Rectify
<1>3. f \in SentFrame /\ sent \in Seq(SentFrame)
  BY <1>1, RectifyKeeps DEF SentFrame, IInv
<1>4. f.actual = dts /\ f.dts = Rectified(dts) /\ f.segment = segment'
  OBVIOUS
<1> HIDE DEF f
<1> DEFINE n == Len(sent)
<1>5. /\ sent' \in Seq(SentFrame)
      /\ n \in Nat /\ Len(sent') = n + 1 /\ DOMAIN sent = 1..n
      /\ DOMAIN sent' = DOMAIN sent \union {n + 1}
      /\ \A i \in DOMAIN sent : sent'[i] = sent[i]
      /\ sent'[n + 1] = f
  BY <1>1, <1>3, AppendFrame
<1> HIDE DEF n
<1>6. \A i \in DOMAIN sent : /\ sent[i].dts \in Nat /\ sent[i].actual \in Nat
                             /\ sent[i].segment \in Nat
  BY <1>3, FrameTypes
<1>7. /\ Rectified(dts) \in Nat /\ current <= Rectified(dts)
      /\ Rectified(dts) = dts + Offset' /\ segment' \in Nat
      /\ lastEnd' \in Nat \union {-1} /\ current \in Nat \union {-1}
  BY <1>1, <1>2, RectifyKeeps DEF IInv
<1>8. \A i \in DOMAIN sent : sent[i].dts <= current'
  BY <1>1, <1>6, <1>7 DEF IInv
<1>9. \A i \in DOMAIN sent' :
          /\ sent'[i].dts <= current'
          /\ sent'[i].segment <= segment'
          /\ sent'[i].segment = segment' => sent'[i].dts = sent'[i].actual + Offset'
          /\ sent'[i].segment < segment' => sent'[i].dts < lastEnd'
  BY <1>1, <1>4, <1>5, <1>7, <1>8, RectifyKeeps
<1>10. NeverBack'
  <2> SUFFICES ASSUME NEW i \in 1..n
               PROVE  sent'[i].dts <= sent'[i + 1].dts
    BY <1>5 DEF NeverBack
  <2>1. CASE i = n
    BY <2>1, <1>1, <1>4, <1>5, <1>8
  <2>2. CASE i # n
    <3>1. i \in DOMAIN sent /\ i + 1 \in DOMAIN sent /\ i \in 1..(n - 1)
      BY <2>2, <1>5
    <3>2. sent[i].dts <= sent[i + 1].dts
      BY <3>1 DEF IInv, NeverBack, n
    <3> QED
      BY <3>1, <3>2, <1>5
  <2> QED
    BY <2>1, <2>2
<1>11. DistancesKept'
  <2> SUFFICES ASSUME NEW i \in DOMAIN sent', NEW j \in DOMAIN sent',
                      sent'[i].segment = sent'[j].segment
               PROVE  sent'[j].dts - sent'[i].dts = sent'[j].actual - sent'[i].actual
    BY DEF DistancesKept
  <2>1. CASE i \in DOMAIN sent /\ j \in DOMAIN sent
    BY <2>1, <1>5 DEF IInv, DistancesKept
  <2>2. CASE i = n + 1 \/ j = n + 1
    <3>1. sent'[i].segment = segment' /\ sent'[j].segment = segment'
      BY <2>2, <1>4, <1>5
    <3>2. sent'[i].actual \in Nat /\ sent'[j].actual \in Nat
      BY <1>5, FrameTypes
    <3>3. /\ sent'[i].dts = sent'[i].actual + Offset'
          /\ sent'[j].dts = sent'[j].actual + Offset'
      BY <3>1, <1>9
    <3>4. Offset' \in Nat
      BY <1>7 DEF Offset
    <3> HIDE DEF Offset
    <3> QED
      BY <3>2, <3>3, <3>4
  <2> QED
    BY <2>1, <2>2, <1>5
<1>12. SegmentsDisjoint'
  <2> SUFFICES ASSUME NEW i \in DOMAIN sent', NEW j \in DOMAIN sent',
                      sent'[i].segment < sent'[j].segment
               PROVE  sent'[i].dts < sent'[j].dts
    BY DEF SegmentsDisjoint
  <2>1. CASE i \in DOMAIN sent /\ j \in DOMAIN sent
    BY <2>1, <1>5 DEF IInv, SegmentsDisjoint
  <2>2. CASE i \in DOMAIN sent /\ j = n + 1
    BY <2>2, <1>1, <1>4, <1>5, RectifyKeeps
  <2>3. CASE i = n + 1
    <3>1. sent'[i].segment = segment' /\ sent'[j].segment <= segment'
      BY <2>3, <1>4, <1>5, <1>9
    <3>2. sent'[j].segment \in Nat
      BY <1>5, FrameTypes
    <3> QED
      BY <3>1, <3>2, <1>7
  <2> QED
    BY <2>1, <2>2, <2>3, <1>5
<1>13. current' \in Nat \union {-1} /\ lastActual' \in Nat \union {-1}
  BY <1>1, <1>2, <1>7
<1>14. current' <= lastActual' + Offset'
  BY <1>1, <1>2, <1>7
<1> QED
  BY <1>5, <1>7, <1>9, <1>10, <1>11, <1>12, <1>13, <1>14 DEF IInv

LEMMA StepIInv == IInv /\ [Next]_vars => IInv'
<1> SUFFICES ASSUME IInv, [Next]_vars
             PROVE  IInv'
  OBVIOUS
<1>1. CASE UNCHANGED vars
  BY <1>1 DEF IInv, vars, Offset, NeverBack, DistancesKept, SegmentsDisjoint
<1>2. CASE Next
  <2>1. PICK dts \in Nat : Accept(dts) \/ Reject(dts)
    BY <1>2, DtsRangeAssumption DEF Next
  <2> QED
    BY <2>1, AcceptStep, RejectStep
<1> QED
  BY <1>1, <1>2

-----------------------------------------------------------------------------
\* The invariant of the time line holds in every state: each accepted frame carries
\* the shift of its segment, and segments lie one after the other.
THEOREM Invariance == Spec => []IInv
  BY InitIInv, StepIInv, PTL DEF Spec

\* Type correctness.
THEOREM TypeCorrect == Spec => []TypeOK
<1>1. IInv => TypeOK
  BY DEF IInv, TypeOK, SentFrame
<1> QED
  BY <1>1, Invariance, PTL

\* The time line never goes back, whatever dts the client sends in whatever
\* order, and whichever of the frames the cache rejects.
THEOREM NeverGoesBack == Spec => []NeverBack
<1>1. IInv => NeverBack
  BY DEF IInv
<1> QED
  BY <1>1, Invariance, PTL

\* Within a segment the frames keep the distances the client gave them.
THEOREM KeepsDistances == Spec => []DistancesKept
<1>1. IInv => DistancesKept
  BY DEF IInv
<1> QED
  BY <1>1, Invariance, PTL

\* Each segment lies strictly after the earlier ones.
THEOREM SegmentsAreDisjoint == Spec => []SegmentsDisjoint
<1>1. IInv => SegmentsDisjoint
  BY DEF IInv
<1> QED
  BY <1>1, Invariance, PTL

-----------------------------------------------------------------------------
(* The session rectifies as DtsRectifier does.                               *)

LEMMA MediaStep ==
  ASSUME NEW kind \in C!MediaKinds, NEW dts \in DtsRange, ReceiveMedia(kind, dts)
  PROVE  Next
BY DEF ReceiveMedia, Next

LEMMA MetadataStep ==
  ASSUME \/ ReceiveScript
         \/ ReceiveHeader("audio", AudioCodecs)
         \/ ReceiveHeader("video", VideoCodecs)
  PROVE  UNCHANGED vars
BY DEF ReceiveScript, ReceiveHeader, AddMetadata, Ignore, vars

\* Scripts and sequence headers leave the time line alone, and a packet is one
\* step of rectify_dts: the session implements DtsRectifier.
THEOREM ImplementsRectifier == SessionSpec => Spec
<1>1. SessionInit => Init
  BY DEF SessionInit
<1>2. [SessionNext]_sessionVars => [Next]_vars
  <2> SUFFICES ASSUME [SessionNext]_sessionVars PROVE [Next]_vars
    OBVIOUS
  <2>1. CASE UNCHANGED sessionVars
    BY <2>1 DEF sessionVars, vars
  <2>2. CASE SessionNext
    BY <2>2, MediaStep, MetadataStep DEF SessionNext
  <2> QED
    BY <2>1, <2>2
<1> QED
  BY <1>1, <1>2, PTL DEF SessionSpec, Spec

\* Distances within a segment are the client's, and segments lie one after the
\* other, through any mixture of packets with scripts and sequence headers.
THEOREM SessionKeepsDistances == SessionSpec => []DistancesKept
BY ImplementsRectifier, KeepsDistances, PTL

\* In a session, too, a later segment lies strictly after every earlier one.
THEOREM SessionSegmentsAreDisjoint == SessionSpec => []SegmentsDisjoint
BY ImplementsRectifier, SegmentsAreDisjoint, PTL

-----------------------------------------------------------------------------
(* The dts the cache saw last, and the next one.                             *)

\* The largest of some of the numbers up to n + 1, when n + 1 is one of them.
LEMMA MaxIsLast ==
  ASSUME NEW n \in Nat, NEW I \in SUBSET (1..(n + 1)), n + 1 \in I
  PROVE  C!Max(I) = n + 1
<1> DEFINE P(x) == x \in I /\ \A y \in I : x >= y
<1>1. P(n + 1)
  OBVIOUS
<1>2. \A x : P(x) => x = n + 1
  OBVIOUS
<1> HIDE DEF P
<1>3. P(CHOOSE x : P(x))
  BY <1>1
<1> QED
  BY <1>2, <1>3 DEF C!Max, P

\* LastDts of a history, and of the history with one more frame.
LastDtsOf(s) ==
  LET i == C!SelectLastInSeq(s, C!IsMedia) IN IF i = 0 THEN 0 ELSE s[i].dts

\* A non-empty set of numbers between 1 and n contains its maximum.
LEMMA MaxBelongs ==
  ASSUME NEW n \in Nat, NEW I \in SUBSET (1..n), I # {}
  PROVE  C!Max(I) \in 1..n
<1>1. Max(I) \in I
  BY MaxOfInterval
<1> QED
  BY <1>1 DEF C!Max, Max

LEMMA LastDtsAppend ==
  ASSUME NEW s \in Seq(C!Frame), NEW f \in C!Frame
  PROVE  LastDtsOf(Append(s, f)) = IF C!IsMedia(f) THEN f.dts ELSE LastDtsOf(s)
<1> DEFINE n == Len(s)
           t == Append(s, f)
           I == {i \in 1..n : C!IsMedia(s[i])}
           J == {i \in 1..Len(t) : C!IsMedia(t[i])}
<1>1. /\ n \in Nat /\ Len(t) = n + 1 /\ t[n + 1] = f
      /\ \A i \in 1..n : t[i] = s[i]
  BY AppendProperties, LenProperties
<1>2. /\ LastDtsOf(s) = IF I # {} THEN (IF C!Max(I) = 0 THEN 0 ELSE s[C!Max(I)].dts) ELSE 0
      /\ LastDtsOf(t) = IF J # {} THEN (IF C!Max(J) = 0 THEN 0 ELSE t[C!Max(J)].dts) ELSE 0
  BY DEF LastDtsOf, C!SelectLastInSeq
<1>3. CASE C!IsMedia(f)
  <2>1. n + 1 \in J /\ J \in SUBSET (1..(n + 1))
    BY <1>1, <1>3
  <2> HIDE DEF t, J
  <2>2. C!Max(J) = n + 1
    BY <1>1, <2>1, MaxIsLast
  <2> QED
    BY <1>1, <1>2, <1>3, <2>1, <2>2 DEF t
<1>4. CASE ~C!IsMedia(f)
  <2>1. I = J /\ I \in SUBSET (1..n)
    BY <1>1, <1>4
  <2> HIDE DEF I, J, t
  <2>2. CASE I = {}
    BY <1>2, <1>4, <2>1, <2>2 DEF t
  <2>3. CASE I # {}
    <3>1. C!Max(I) \in 1..n
      BY <1>1, <2>1, <2>3, MaxBelongs
    <3> QED
      BY <1>1, <1>2, <1>4, <2>1, <2>3, <3>1 DEF t
  <2> QED
    BY <2>2, <2>3
<1> QED
  BY <1>3, <1>4

-----------------------------------------------------------------------------
(* The cache.                                                                *)

\* The cache's last dts is the session's, and what a segment adds is at most one
\* past it: rejected frames may have moved the segment, not the frames.
CacheView ==
  /\ accepted \in Seq(C!Frame)
  /\ C!LastDts = IF current < 0 THEN 0 ELSE current
  /\ lastEnd <= current + 1

\* Every frame handed to the cache is one that GopCache offers it: the rectified
\* dts is not before the last one and at most one past it and the frame's own.
LEMMA ReceivedIsOffered ==
  ASSUME CacheView, IInv, NEW kind \in C!MediaKinds, NEW dts \in DtsRange, Rectify(dts)
  PROVE  /\ Received(kind, dts) \in C!OfferedMedia
         /\ Received(kind, dts) \in C!Frame
         /\ C!IsMedia(Received(kind, dts))
         /\ Received(kind, dts).dts = Rectified(dts)
         /\ Rectified(dts) \in Nat /\ current <= Rectified(dts)
         /\ lastEnd' <= current + 1
<1> DEFINE r == Rectified(dts)
           last == C!LastDts
<1>1. dts \in Nat /\ dts + 1 <= MaxStep /\ MaxStep \in Nat
  BY DtsRangeAssumption, StepAssumption
<1>2. r \in Nat /\ current <= r
  BY <1>1, RectifyKeeps
<1>3. current \in Nat \union {-1} /\ lastEnd \in Nat \union {-1} /\ lastEnd <= current + 1
  BY DEF IInv, CacheView
<1>4. r <= dts \/ r <= dts + current + 1
  BY <1>1, <1>3 DEF Rectified, Shift
<1>5. r - last \in 0..MaxStep /\ last \in Nat
  <2> last = IF current < 0 THEN 0 ELSE current
    BY DEF CacheView
  <2> HIDE DEF r, last
  <2> QED
    BY <1>1, <1>2, <1>3, <1>4
<1>6. lastEnd' <= current + 1
  BY <1>3 DEF Rectify, Shift
<1>7. Len(accepted) + 1 \in Nat
  BY LenProperties DEF CacheView
<1>8. C!TracksOf(kind) \in SUBSET C!Tracks /\ kind \in C!Kinds
  BY DEF C!TracksOf, C!Tracks, C!Kinds
<1> DEFINE g(d) == [id |-> Len(accepted) + 1, kind |-> kind, tracks |-> C!TracksOf(kind),
                    dts |-> last + d]
<1>9. Received(kind, dts) = g(r - last)
  <2> last + (r - last) = r
    BY <1>2, <1>5
  <2> HIDE DEF last, r
  <2> QED
    BY DEF Received, r
<1>10. g(r - last) \in C!OfferedMedia
  <2> HIDE DEF r
  <2> QED
    BY <1>5 DEF C!OfferedMedia
<1>11. Received(kind, dts) \in C!Frame
  BY <1>2, <1>7, <1>8 DEF Received, C!Frame
<1> QED
  BY <1>2, <1>6, <1>9, <1>10, <1>11 DEF Received, C!IsMedia

LEMMA MetadataIsOffered ==
  ASSUME CacheView, NEW m, EnabledTracks(m) # {}
  PROVE  LET f == [id |-> Len(accepted) + 1, kind |-> "meta",
                   tracks |-> EnabledTracks(m), dts |-> 0]
         IN  f \in C!OfferedMetadata /\ f \in C!Frame /\ ~C!IsMedia(f)
<1>1. Len(accepted) + 1 \in Nat
  BY LenProperties DEF CacheView
<1>2. EnabledTracks(m) \in SUBSET C!Tracks
  BY DEF EnabledTracks
<1> QED
  BY <1>1, <1>2 DEF C!OfferedMetadata, C!Frame, C!Kinds, C!MediaKinds, C!IsMedia

\* One frame more in the history.
LEMMA AcceptedView ==
  ASSUME CacheView, NEW f \in C!Frame, C!Accept(f)
  PROVE  /\ accepted' \in Seq(C!Frame)
         /\ C!LastDts' = IF C!IsMedia(f) THEN f.dts ELSE C!LastDts
<1>1. accepted \in Seq(C!Frame) /\ accepted' = Append(accepted, f)
  BY DEF CacheView, C!Accept
<1>2. accepted' \in Seq(C!Frame)
  BY <1>1, AppendProperties
<1>3. C!LastDts = LastDtsOf(accepted) /\ C!LastDts' = LastDtsOf(accepted')
  BY DEF C!LastDts, LastDtsOf
<1> QED
  BY <1>1, <1>2, <1>3, LastDtsAppend

LEMMA AddMetadataView ==
  ASSUME CacheView, NEW m, AddMetadata(m)
  PROVE  CacheView' /\ [C!Next]_<<cache, accepted>>
<1>0. UNCHANGED <<current, lastEnd>>
  BY DEF AddMetadata, vars
<1>1. CASE EnabledTracks(m) = {}
  BY <1>0, <1>1 DEF AddMetadata, CacheView, C!LastDts
<1>2. CASE EnabledTracks(m) # {}
  <2> DEFINE f == [id |-> Len(accepted) + 1, kind |-> "meta",
                   tracks |-> EnabledTracks(m), dts |-> 0]
  <2>1. C!Accept(f)
    BY <1>2 DEF AddMetadata
  <2>2. f \in C!OfferedMetadata /\ f \in C!Frame /\ ~C!IsMedia(f)
    BY <1>2, MetadataIsOffered
  <2> HIDE DEF f
  <2>3. accepted' \in Seq(C!Frame) /\ C!LastDts' = C!LastDts
    BY <2>1, <2>2, AcceptedView
  <2> QED
    BY <1>0, <2>1, <2>2, <2>3 DEF CacheView, C!Next
<1> QED
  BY <1>1, <1>2

LEMMA IgnoreView ==
  ASSUME CacheView, Ignore
  PROVE  CacheView' /\ [C!Next]_<<cache, accepted>>
BY DEF CacheView, Ignore, vars, C!LastDts

LEMMA MediaView ==
  ASSUME CacheView, IInv, NEW kind \in C!MediaKinds, NEW dts \in DtsRange,
         ReceiveMedia(kind, dts)
  PROVE  CacheView' /\ [C!Next]_<<cache, accepted>>
<1> DEFINE f == Received(kind, dts)
<1>0. Rectify(dts)
  BY DEF ReceiveMedia, Accept, Reject
<1>1. /\ f \in C!OfferedMedia /\ f \in C!Frame /\ C!IsMedia(f)
      /\ f.dts = Rectified(dts)
      /\ Rectified(dts) \in Nat /\ current <= Rectified(dts)
      /\ lastEnd' <= current + 1
  BY <1>0, ReceivedIsOffered
<1> HIDE DEF f
<1>2. CASE Accept(dts) /\ C!Accept(f)
  <2>1. accepted' \in Seq(C!Frame) /\ C!LastDts' = f.dts
    BY <1>1, <1>2, AcceptedView
  <2>2. current' = Rectified(dts)
    BY <1>2 DEF Accept
  <2>3. current \in Nat \union {-1} /\ lastEnd' \in Nat \union {-1}
    BY <1>0, DtsRangeAssumption, RectifyKeeps DEF IInv
  <2>4. lastEnd' <= current' + 1
    BY <1>1, <2>2, <2>3
  <2>5. C!LastDts' = IF current' < 0 THEN 0 ELSE current'
    BY <1>1, <2>1, <2>2
  <2>6. C!Next
    BY <1>1, <1>2 DEF C!Next
  <2> QED
    BY <2>1, <2>4, <2>5, <2>6 DEF CacheView
<1>3. CASE Reject(dts) /\ C!Reject(f)
  <2>1. UNCHANGED <<cache, accepted, current>>
    BY <1>3 DEF Reject, C!Reject, C!vars
  <2>2. C!LastDts' = C!LastDts
    BY <2>1 DEF C!LastDts
  <2> QED
    BY <1>1, <2>1, <2>2 DEF CacheView
<1> QED
  BY <1>2, <1>3 DEF ReceiveMedia, f

LEMMA SessionStepView ==
  ASSUME IInv, CacheView, [SessionNext]_sessionVars
  PROVE  CacheView' /\ [C!Next]_<<cache, accepted>>
<1>1. CASE UNCHANGED sessionVars
  BY <1>1 DEF CacheView, sessionVars, vars, C!LastDts
<1>2. CASE ReceiveScript
  BY <1>2, AddMetadataView, IgnoreView DEF ReceiveScript
<1>3. CASE ReceiveHeader("audio", AudioCodecs) \/ ReceiveHeader("video", VideoCodecs)
  BY <1>3, AddMetadataView, IgnoreView DEF ReceiveHeader
<1>4. CASE \E kind \in C!MediaKinds, dts \in DtsRange : ReceiveMedia(kind, dts)
  BY <1>4, MediaView
<1> QED
  BY <1>1, <1>2, <1>3, <1>4 DEF SessionNext

LEMMA SessionInitView == SessionInit => CacheView
<1> SUFFICES ASSUME SessionInit PROVE CacheView
  OBVIOUS
<1>1. accepted = <<>> /\ current = -1 /\ lastEnd = -1
  BY DEF SessionInit, Init, C!Init
<1>2. C!SelectLastInSeq(<<>>, C!IsMedia) = 0
  BY DEF C!SelectLastInSeq
<1> QED
  BY <1>1, <1>2 DEF CacheView, C!LastDts

\* The session implements the cache's specification: whatever the client sends and
\* whatever the cache rejects, no frame it is given has an earlier dts than the
\* last one it took.
THEOREM SessionImplementsCache == SessionSpec => ImplementsCache
<1>1. SessionSpec => []IInv
  BY ImplementsRectifier, Invariance, PTL
<1>2. SessionInit => CacheView /\ C!Init
  BY SessionInitView DEF SessionInit
<1>3. IInv /\ CacheView /\ [SessionNext]_sessionVars => CacheView' /\ [C!Next]_C!vars
  BY SessionStepView DEF C!vars
<1> QED
  BY <1>1, <1>2, <1>3, PTL DEF SessionSpec, ImplementsCache, C!Spec

-----------------------------------------------------------------------------
(* The metadata.                                                             *)

\* The session's metadata is all the client has said, and a header that repeats
\* it is told from one that does not.
MetadataInv == metadata = told /\ MetadataPublished

\* What add_frame publishes is all the client has said, now that it has said m.
LEMMA AddMetadataPublishes ==
  ASSUME NEW m, AddMetadata(m), told' = m
  PROVE  MetadataInv'
<1>1. CASE EnabledTracks(m) # {}
  BY <1>1 DEF AddMetadata, MetadataInv, MetadataPublished
<1>2. CASE EnabledTracks(m) = {}
  <2>1. EnabledTracks(Copied(m)) = {}
    BY <1>2 DEF EnabledTracks, Copied, IsEnabled, NoTrack, C!Tracks
  <2> QED
    BY <2>1 DEF AddMetadata, MetadataInv, MetadataPublished, EnabledTracks
<1> QED
  BY <1>1, <1>2

LEMMA SameIsUnchanged ==
  ASSUME MetadataInv, NEW m, Same(m), Ignore, told' = m
  PROVE  MetadataInv'
BY DEF Same, Ignore, MetadataInv, MetadataPublished, Copied, EnabledTracks

\* No header and no script is lost on the viewers: what was published last is all
\* the client has said, unless that enables no track.
THEOREM MetadataIsPublished == SessionSpec => []MetadataPublished
<1>1. SessionInit => MetadataInv
  BY DEF SessionInit, MetadataInv, MetadataPublished
<1>2. MetadataInv /\ [SessionNext]_sessionVars => MetadataInv'
  <2> SUFFICES ASSUME MetadataInv, [SessionNext]_sessionVars PROVE MetadataInv'
    OBVIOUS
  <2>1. CASE UNCHANGED sessionVars
    BY <2>1 DEF sessionVars, MetadataInv, MetadataPublished, EnabledTracks, Copied
  <2>2. CASE ReceiveScript
    <3>1. PICK audio, video :
            LET m == Scripted(metadata, audio, video)
            IN  /\ AddMetadata(m) \/ (Same(m) /\ Ignore)
                /\ told' = Scripted(told, audio, video)
      BY <2>2 DEF ReceiveScript
    <3> DEFINE m == Scripted(metadata, audio, video)
    <3>2. told' = m
      BY <3>1 DEF MetadataInv
    <3> QED
      BY <3>1, <3>2, AddMetadataPublishes, SameIsUnchanged
  <2>3. ASSUME NEW t \in C!Tracks, NEW codecs, ReceiveHeader(t, codecs)
        PROVE  MetadataInv'
    <3>1. PICK codec \in codecs :
            LET m == Configured(metadata, t, codec)
            IN  /\ IF Same(m) THEN Ignore ELSE AddMetadata(m)
                /\ told' = Configured(told, t, codec)
      BY <2>3 DEF ReceiveHeader
    <3> DEFINE m == Configured(metadata, t, codec)
    <3>2. told' = m
      BY <3>1 DEF MetadataInv
    <3> QED
      BY <3>1, <3>2, AddMetadataPublishes, SameIsUnchanged
  <2>4. ASSUME NEW kind, NEW dts, ReceiveMedia(kind, dts)
        PROVE  MetadataInv'
    BY <2>4 DEF ReceiveMedia, MetadataInv, MetadataPublished, EnabledTracks, Copied
  <2> QED
    BY <2>1, <2>2, <2>3, <2>4 DEF SessionNext, C!Tracks
<1>3. MetadataInv => MetadataPublished
  BY DEF MetadataInv
<1> QED
  BY <1>1, <1>2, <1>3, PTL DEF SessionSpec
=============================================================================
