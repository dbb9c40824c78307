--------------------------- MODULE RtmpClientProofs ---------------------------
(***************************************************************************)
(* The pool of the RTMP client and the requests that wait for it, for any  *)
(* number of requests and any limits.                                      *)
(***************************************************************************)
EXTENDS RtmpClient, SequenceTheorems, TLAPS

-----------------------------------------------------------------------------
(* The pool as a sequence that holds nothing twice.                        *)

Members(s) == {s[i] : i \in DOMAIN s}

LEMMA AppendMember ==
  ASSUME NEW s \in Seq(Requests), IsInjective(s), NEW r \in Requests, r \notin Members(s)
  PROVE  /\ Append(s, r) \in Seq(Requests) /\ Len(Append(s, r)) = Len(s) + 1
         /\ IsInjective(Append(s, r))
         /\ Members(Append(s, r)) = Members(s) \union {r}
<1> DEFINE n == Len(s)
           t == Append(s, r)
<1>1. /\ n \in Nat /\ Len(t) = n + 1 /\ t \in Seq(Requests) /\ t[n + 1] = r
      /\ \A i \in 1..n : t[i] = s[i]
  BY AppendProperties, LenProperties
<1>2. DOMAIN s = 1..n /\ DOMAIN t = 1..(n + 1)
  BY <1>1, LenProperties
<1> HIDE DEF t, n
<1>3. \A i \in 1..(n + 1) : i \in 1..n \/ i = n + 1
  BY <1>1
<1>4. IsInjective(t)
  BY <1>1, <1>2, <1>3 DEF IsInjective, Members
<1>5. Members(t) = Members(s) \union {r}
  <2>1. n + 1 \in 1..(n + 1) /\ 1..n \subseteq 1..(n + 1)
    BY <1>1
  <2> QED  BY <1>1, <1>2, <1>3, <2>1 DEF Members
<1> QED  BY <1>1, <1>4, <1>5 DEF t, n

LEMMA TailMember ==
  ASSUME NEW s \in Seq(Requests), IsInjective(s), s # <<>>
  PROVE  /\ Tail(s) \in Seq(Requests) /\ Len(Tail(s)) = Len(s) - 1
         /\ IsInjective(Tail(s))
         /\ Members(Tail(s)) = Members(s) \ {Head(s)}
         /\ Head(s) \in Members(s) /\ Head(s) \in Requests
<1> DEFINE n == Len(s)
           t == Tail(s)
<1>1. /\ n \in Nat /\ n > 0 /\ Len(t) = n - 1 /\ t \in Seq(Requests)
      /\ \A i \in 1..Len(t) : t[i] = s[i + 1]
      /\ Head(s) = s[1] /\ Head(s) \in Requests
  <2>1. n \in Nat /\ n > 0 /\ Head(s) = s[1]
    OBVIOUS
  <2> QED  BY <2>1, HeadTailProperties
<1>2. DOMAIN s = 1..n /\ DOMAIN t = 1..(n - 1)
  BY <1>1, LenProperties
<1> HIDE DEF t, n
<1>3. \A i \in 1..(n - 1) : i + 1 \in 1..n /\ i + 1 # 1 /\ t[i] = s[i + 1]
  BY <1>1
<1>4. IsInjective(t)
  BY <1>1, <1>2, <1>3 DEF IsInjective
<1>5. 1 \in DOMAIN s
  BY <1>1, <1>2
<1>6. ASSUME NEW x \in Members(t)  PROVE x \in Members(s) \ {Head(s)}
  <2>1. PICK i \in 1..(n - 1) : x = t[i]
    BY <1>2 DEF Members
  <2>2. i + 1 \in 1..n /\ i + 1 # 1 /\ x = s[i + 1]
    BY <1>3, <2>1
  <2>3. x # s[1]
    BY <1>2, <1>5, <2>2 DEF IsInjective
  <2> QED  BY <1>1, <1>2, <2>2, <2>3 DEF Members
<1>7. ASSUME NEW x \in Members(s) \ {Head(s)}  PROVE x \in Members(t)
  <2>1. PICK i \in 1..n : x = s[i]
    BY <1>2 DEF Members
  <2>2. i # 1
    BY <1>1, <2>1
  <2>3. i - 1 \in 1..(n - 1) /\ (i - 1) + 1 = i
    BY <1>1, <2>1, <2>2
  <2>4. t[i - 1] = s[i]
    BY <1>3, <2>3
  <2> QED  BY <1>2, <2>1, <2>3, <2>4 DEF Members
<1>8. Members(t) = Members(s) \ {Head(s)}
  BY <1>6, <1>7
<1> QED  BY <1>1, <1>4, <1>5, <1>8 DEF t, n, Members

-----------------------------------------------------------------------------
(* The inductive invariant.                                                *)

Phases == {"idle", "waiting", "woken", "connecting", "running", "closing", "ended"}

Types ==
  /\ phase \in [Requests -> Phases]
  /\ conn \in [Requests -> Connection]
  /\ limit \in Limits /\ closing \in [Closers -> Requests \union {None}]
  /\ closed \in BOOLEAN /\ shard \in {"up", "spinning", "undefined"}

\* The pool holds connections in use, each once; one in use that it does not hold
\* has been closed.
PoolSound ==
  /\ pool \in Seq(Requests) /\ IsInjective(pool)
  /\ \A r \in Members(pool) : phase[r] = "running"
  /\ \A r \in Requests : phase[r] = "running" /\ r \notin Members(pool) => conn[r].eof

\* Nobody waits beside a free place, and close pops only once it was called.
WaitSound ==
  /\ closing["close"] # None => closed
  /\ WaitersHaveCause

IInv == Types /\ PoolSound /\ WaitSound

LEMMA InitIInv == Init => IInv
<1> SUFFICES ASSUME Init  PROVE IInv
  OBVIOUS
<1>1. NewConnection \in Connection
  BY DEF NewConnection, Connection
<1>2. Types
  BY <1>1 DEF Init, Types, Phases
<1>3. pool \in Seq(Requests) /\ IsInjective(pool) /\ Members(pool) = {}
  BY DEF Init, IsInjective, Members
<1>4. PoolSound
  BY <1>3 DEF Init, PoolSound
<1>5. WaitSound
  BY DEF Init, WaitSound, WaitersHaveCause, Closers
<1> QED  BY <1>2, <1>4, <1>5 DEF IInv

-----------------------------------------------------------------------------
(* The pool's operations.                                                  *)

LEMMA LenPool ==
  ASSUME IInv
  PROVE  Len(pool) \in Nat /\ limit \in Nat \ {0}
BY ClientAssumption, LenProperties DEF IInv, PoolSound, Types

LEMMA GetStep ==
  ASSUME IInv, NEW r \in Requests, Get(r)
  PROVE  IInv'
<1>1. /\ phase[r] \in {"idle", "woken"}
      /\ phase' = [phase EXCEPT ![r] = IF Len(pool) >= limit THEN "waiting" ELSE "connecting"]
      /\ UNCHANGED <<conn, pool, limit, closing, closed, shard>>
  BY DEF Get
<1>2. Types'
  BY <1>1 DEF IInv, Types, Phases
<1>3. \A q \in Requests : phase'[q] = "running" <=> phase[q] = "running"
  BY <1>1 DEF IInv, Types
<1>4. Members(pool) \subseteq Requests
  BY LenProperties DEF Members, IInv, PoolSound
<1>5. PoolSound'
  BY <1>1, <1>3, <1>4 DEF IInv, PoolSound
<1>6. WaitSound'
  BY <1>1 DEF IInv, Types, WaitSound, WaitersHaveCause
<1> QED  BY <1>2, <1>5, <1>6 DEF IInv

LEMMA ConnectedStep ==
  ASSUME IInv, NEW r \in Requests, Connected(r)
  PROVE  IInv'
<1>1. /\ phase[r] = "connecting"
      /\ phase' = [phase EXCEPT ![r] = "running"]
      /\ conn' = [conn EXCEPT ![r] = NewConnection]
      /\ pool' = Append(pool, r)
      /\ UNCHANGED <<limit, closing, closed, shard>>
  BY DEF Connected
<1>2. Types'
  <2>1. NewConnection \in Connection
    BY DEF NewConnection, Connection
  <2> QED  BY <1>1, <2>1 DEF IInv, Types, Phases
<1>3. pool \in Seq(Requests) /\ IsInjective(pool) /\ r \notin Members(pool)
  BY <1>1 DEF IInv, PoolSound
<1>4. /\ pool' \in Seq(Requests) /\ Len(pool') = Len(pool) + 1 /\ IsInjective(pool')
      /\ Members(pool') = Members(pool) \union {r}
  BY <1>1, <1>3, AppendMember
<1>5. PoolSound'
  <2>1. Members(pool) \subseteq Requests
    BY <1>3, LenProperties DEF Members
  <2>2. /\ \A q \in Requests \ {r} : phase'[q] = phase[q] /\ conn'[q] = conn[q]
        /\ phase'[r] = "running"
    BY <1>1 DEF IInv, Types
  <2>3. \A q \in Members(pool') : phase'[q] = "running"
    BY <1>3, <1>4, <2>1, <2>2 DEF IInv, PoolSound
  <2>4. \A q \in Requests : phase'[q] = "running" /\ q \notin Members(pool') => conn'[q].eof
    BY <1>4, <2>2 DEF IInv, PoolSound
  <2> QED  BY <1>4, <2>3, <2>4 DEF PoolSound, Members
<1>6. WaitSound'
  <2>1. Len(pool) \in Nat /\ limit \in Nat
    BY LenPool
  <2> QED  BY <1>1, <1>4, <2>1 DEF IInv, Types, WaitSound, WaitersHaveCause
<1> QED  BY <1>2, <1>5, <1>6 DEF IInv

LEMMA RemoveStep ==
  ASSUME IInv, NEW r \in Requests, Remove(r)
  PROVE  IInv'
<1>1. phase[r] = "running" /\ UNCHANGED <<conn, limit, closing, closed>>
  BY DEF Remove
<1>2. pool \in Seq(Requests) /\ IsInjective(pool) /\ Members(pool) \subseteq Requests
  BY LenProperties DEF IInv, PoolSound, Members
<1>3. CASE pool = <<>> /\ phase' = [phase EXCEPT ![r] = "ended"] /\ UNCHANGED <<pool, shard>>
  <2>1. Types'
    BY <1>1, <1>3 DEF IInv, Types, Phases
  <2>2. PoolSound'
    BY <1>1, <1>2, <1>3 DEF IInv, Types, PoolSound, Members
  <2>3. WaitSound'
    BY <1>1, <1>3 DEF IInv, Types, WaitSound, WaitersHaveCause
  <2> QED  BY <2>1, <2>2, <2>3 DEF IInv
<1>4. CASE /\ pool # <<>> /\ Head(pool) = r
           /\ phase' = Woken([phase EXCEPT ![r] = "closing"]) /\ pool' = Tail(pool)
           /\ UNCHANGED shard
  <2>1. /\ pool' \in Seq(Requests) /\ IsInjective(pool')
        /\ Members(pool') = Members(pool) \ {r}
    BY <1>2, <1>4, TailMember
  <2>2. /\ phase' \in [Requests -> Phases]
        /\ \A q \in Requests : phase'[q] # "waiting"
        /\ \A q \in Requests : phase'[q] = "running" <=> phase[q] = "running" /\ q # r
    BY <1>4 DEF IInv, Types, Phases, Woken
  <2>3. Types'
    BY <1>1, <1>4, <2>2 DEF IInv, Types
  <2>4. PoolSound'
    BY <1>1, <1>2, <2>1, <2>2 DEF IInv, PoolSound
  <2>5. WaitSound'
    BY <1>1, <2>2 DEF IInv, WaitSound, WaitersHaveCause
  <2> QED  BY <2>3, <2>4, <2>5 DEF IInv
<1>5. CASE shard' = "spinning" /\ UNCHANGED <<phase, pool>>
  BY <1>1, <1>5 DEF IInv, Types, PoolSound, WaitSound, WaitersHaveCause
<1> QED  BY <1>3, <1>4, <1>5 DEF Remove

\* A request that is not in the pool comes to its end.
LEMMA EndStep ==
  ASSUME IInv, NEW r \in Requests, ConnectFails(r) \/ Removed(r)
  PROVE  IInv'
<1>1. /\ phase[r] # "running"
      /\ phase' = [phase EXCEPT ![r] = "ended"]
      /\ UNCHANGED <<conn, pool, limit, closing, closed, shard>>
  BY DEF ConnectFails, Removed
<1>2. Types'
  BY <1>1 DEF IInv, Types, Phases
<1>3. \A q \in Requests : phase'[q] = "running" <=> phase[q] = "running"
  BY <1>1 DEF IInv, Types
<1>4. Members(pool) \subseteq Requests
  BY LenProperties DEF Members, IInv, PoolSound
<1>5. PoolSound'
  BY <1>1, <1>3, <1>4 DEF IInv, PoolSound
<1>6. WaitSound'
  BY <1>1 DEF IInv, Types, WaitSound, WaitersHaveCause
<1> QED  BY <1>2, <1>5, <1>6 DEF IInv

\* A connection that is taken off the pool is closed, so that it ends.
LEMMA PopFrontStep ==
  ASSUME IInv, NEW t \in Closers, pool # <<>>, PopFront(t), UNCHANGED phase
  PROVE  /\ conn' \in [Requests -> Connection]
         /\ closing' \in [Closers -> Requests \union {None}]
         /\ \A u \in Closers \ {t} : closing'[u] = closing[u]
         /\ PoolSound' /\ Len(pool') = Len(pool) - 1
<1>1. pool \in Seq(Requests) /\ IsInjective(pool) /\ Members(pool) \subseteq Requests
  BY LenProperties DEF IInv, PoolSound, Members
<1>2. /\ pool' \in Seq(Requests) /\ IsInjective(pool') /\ Len(pool') = Len(pool) - 1
      /\ Members(pool') = Members(pool) \ {Head(pool)}
      /\ Head(pool) \in Requests
  BY <1>1, TailMember DEF PopFront
<1>3. conn' = [conn EXCEPT ![Head(pool)] = Closed(@)]
  BY DEF PopFront
<1>4. /\ conn' \in [Requests -> Connection]
      /\ conn'[Head(pool)].eof
      /\ \A q \in Requests \ {Head(pool)} : conn'[q] = conn[q]
  <2>1. conn \in [Requests -> Connection]
    BY DEF IInv, Types
  <2>2. ASSUME NEW c \in Connection  PROVE Closed(c) \in Connection /\ Closed(c).eof
    BY DEF Closed, Connection
  <2> QED  BY <1>2, <1>3, <2>1, <2>2
<1>5. PoolSound'
  BY <1>1, <1>2, <1>4 DEF IInv, PoolSound
<1>6. /\ closing' \in [Closers -> Requests \union {None}]
      /\ \A u \in Closers \ {t} : closing'[u] = closing[u]
  BY <1>2 DEF PopFront, IInv, Types
<1> QED  BY <1>2, <1>4, <1>5, <1>6

\* One round of shrink_connections: it never pops below the maximum.
LEMMA ShrinkStep ==
  ASSUME IInv, NEW max \in Nat, Shrink(max), UNCHANGED phase
  PROVE  /\ conn' \in [Requests -> Connection]
         /\ closing' \in [Closers -> Requests \union {None}]
         /\ closing'["close"] = closing["close"]
         /\ PoolSound'
         /\ Len(pool') = Len(pool) \/ Len(pool') >= max
<1>1. CASE Len(pool) > max
  <2>1. Len(pool) \in Nat /\ pool # <<>>
    BY <1>1, LenPool
  <2>2. PopFront("shrink")
    BY <1>1 DEF Shrink
  <2>3. /\ conn' \in [Requests -> Connection]
        /\ closing' \in [Closers -> Requests \union {None}]
        /\ closing'["close"] = closing["close"]
        /\ PoolSound' /\ Len(pool') = Len(pool) - 1
    BY <2>1, <2>2, PopFrontStep DEF Closers
  <2> QED  BY <1>1, <2>1, <2>3
<1>2. CASE ~(Len(pool) > max)
  <2>1. closing' = [closing EXCEPT !["shrink"] = None] /\ UNCHANGED <<conn, pool>>
    BY <1>2 DEF Shrink
  <2>2. PoolSound'
    BY <2>1 DEF IInv, PoolSound
  <2> QED  BY <2>1, <2>2 DEF IInv, Types, Closers
<1> QED  BY <1>1, <1>2

LEMMA SetMaximumStep ==
  ASSUME IInv, SetMaximumConnections
  PROVE  IInv'
<1>1. PICK nr \in Limits \ {limit} :
         /\ limit' = nr
         /\ IF nr > limit THEN phase' = Woken(phase) /\ UNCHANGED <<conn, pool, closing>>
            ELSE Shrink(nr) /\ UNCHANGED phase
  BY DEF SetMaximumConnections
<1>2. nr \in Nat /\ UNCHANGED <<closed, shard>>
  BY ClientAssumption DEF SetMaximumConnections
<1>3. CASE phase' = Woken(phase) /\ UNCHANGED <<conn, pool, closing>>
  <2>1. /\ phase' \in [Requests -> Phases]
        /\ \A q \in Requests : phase'[q] # "waiting"
        /\ \A q \in Requests : phase'[q] = "running" <=> phase[q] = "running"
    BY <1>3 DEF IInv, Types, Phases, Woken
  <2>2. Types'
    BY <1>1, <1>2, <1>3, <2>1 DEF IInv, Types
  <2>3. Members(pool) \subseteq Requests
    BY LenProperties DEF Members, IInv, PoolSound
  <2>4. PoolSound'
    BY <1>3, <2>1, <2>3 DEF IInv, PoolSound
  <2>5. WaitSound'
    BY <1>2, <1>3, <2>1 DEF IInv, WaitSound, WaitersHaveCause
  <2> QED  BY <2>2, <2>4, <2>5 DEF IInv
<1>4. CASE ~(nr > limit) /\ Shrink(nr) /\ UNCHANGED phase
  <2>1. /\ conn' \in [Requests -> Connection]
        /\ closing' \in [Closers -> Requests \union {None}]
        /\ closing'["close"] = closing["close"]
        /\ PoolSound'
        /\ Len(pool') = Len(pool) \/ Len(pool') >= nr
    BY <1>2, <1>4, ShrinkStep
  <2>2. Types'
    BY <1>1, <1>2, <1>4, <2>1 DEF IInv, Types
  <2>3. Len(pool) \in Nat /\ limit \in Nat /\ (Len(pool) >= limit => Len(pool) >= nr)
    BY <1>2, <1>4, LenPool
  <2>4. WaitSound'
    BY <1>1, <1>2, <1>4, <2>1, <2>3 DEF IInv, WaitSound, WaitersHaveCause
  <2> QED  BY <2>1, <2>2, <2>4 DEF IInv
<1> QED  BY <1>1, <1>3, <1>4

\* close(): from its call on requests may wait that nobody wakes.
LEMMA CloseRoundStep ==
  ASSUME IInv, CloseRound, closed', UNCHANGED <<phase, limit, shard>>, closed' \in BOOLEAN
  PROVE  IInv'
<1>1. CASE pool # <<>>
  <2>1. PopFront("close")
    BY <1>1 DEF CloseRound
  <2>2. /\ conn' \in [Requests -> Connection]
        /\ closing' \in [Closers -> Requests \union {None}]
        /\ PoolSound'
    BY <1>1, <2>1, PopFrontStep DEF Closers
  <2> QED  BY <2>2 DEF IInv, Types, WaitSound, WaitersHaveCause
<1>2. CASE pool = <<>>
  <2>1. closing' = [closing EXCEPT !["close"] = None] /\ UNCHANGED <<conn, pool>>
    BY <1>2 DEF CloseRound
  <2>2. PoolSound'
    BY <2>1 DEF IInv, PoolSound
  <2> QED  BY <2>1, <2>2 DEF IInv, Types, WaitSound, WaitersHaveCause
<1> QED  BY <1>1, <1>2

LEMMA NextRoundStep ==
  ASSUME IInv, NEW t \in Closers, NextRound(t)
  PROVE  IInv'
<1>1. closing[t] # None /\ UNCHANGED <<phase, limit, closed, shard>>
  BY DEF NextRound
<1>2. CASE t = "shrink"
  <2>1. limit \in Nat /\ Len(pool) \in Nat /\ Shrink(limit)
    BY <1>2, LenPool DEF NextRound
  <2>2. /\ conn' \in [Requests -> Connection]
        /\ closing' \in [Closers -> Requests \union {None}]
        /\ closing'["close"] = closing["close"]
        /\ PoolSound'
        /\ Len(pool') = Len(pool) \/ Len(pool') >= limit
    BY <1>1, <2>1, ShrinkStep
  <2>3. Types'
    BY <1>1, <2>2 DEF IInv, Types
  <2>4. WaitSound'
    BY <1>1, <2>1, <2>2 DEF IInv, WaitSound, WaitersHaveCause
  <2> QED  BY <2>2, <2>3, <2>4 DEF IInv
<1>3. CASE t = "close"
  <2>1. CloseRound
    BY <1>3 DEF NextRound
  <2>2. closed /\ closed \in BOOLEAN
    BY <1>1, <1>3 DEF IInv, WaitSound, Types
  <2> QED  BY <1>1, <2>1, <2>2, CloseRoundStep
<1> QED  BY <1>2, <1>3 DEF Closers

-----------------------------------------------------------------------------
(* The tasks of a connection.                                              *)

\* The end of the stream, once there, stays.
LEMMA BecomesStep ==
  ASSUME IInv, NEW r \in Requests, NEW c \in Connection, conn[r].eof => c.eof, Becomes(r, c)
  PROVE  IInv'
<1>1. conn' = [conn EXCEPT ![r] = c] /\ UNCHANGED <<phase, pool, limit, closing, closed, shard>>
  BY DEF Becomes
<1>2. Types'
  BY <1>1 DEF IInv, Types
<1>3. PoolSound'
  BY <1>1 DEF IInv, Types, PoolSound
<1>4. WaitSound'
  BY <1>1 DEF IInv, WaitSound, WaitersHaveCause
<1> QED  BY <1>2, <1>3, <1>4 DEF IInv

LEMMA ConnectionStep ==
  ASSUME IInv, NEW r \in Requests,
         \/ StartFails(r) \/ Shaken(r) \/ BodyEnds(r) \/ StopStreams(r)
         \/ ServerStarts(r) \/ ServerStops(r) \/ InputEnds(r)
         \/ OutputAborted(r) \/ OutputEnds(r) \/ WriteFails(r) \/ HangUp(r)
  PROVE  \E c \in Connection : (conn[r].eof => c.eof) /\ Becomes(r, c)
<1>1. conn[r] \in Connection
  BY DEF IInv, Types
<1> USE <1>1 DEF Connection, StreamsClosed, Handshake
<1>2. CASE StartFails(r)
  BY <1>2 DEF StartFails
<1>3. CASE Shaken(r)
  BY <1>3 DEF Shaken
<1>4. CASE BodyEnds(r)
  BY <1>4 DEF BodyEnds
<1>5. CASE StopStreams(r)
  BY <1>5 DEF StopStreams
<1>6. CASE ServerStarts(r)
  BY <1>6 DEF ServerStarts
<1>7. CASE ServerStops(r)
  BY <1>7 DEF ServerStops
<1>8. CASE InputEnds(r)
  BY <1>8 DEF InputEnds, EndInput
<1>9. CASE OutputAborted(r)
  BY <1>9 DEF OutputAborted
<1>10. CASE OutputEnds(r)
  BY <1>10 DEF OutputEnds
<1>11. CASE WriteFails(r)
  BY <1>11 DEF WriteFails
<1>12. CASE HangUp(r)
  BY <1>12 DEF HangUp
<1> QED
  BY <1>2, <1>3, <1>4, <1>5, <1>6, <1>7, <1>8, <1>9, <1>10, <1>11, <1>12

LEMMA StartedStep ==
  ASSUME IInv, NEW r \in Requests, Started(r)
  PROVE  IInv'
<1>1. CASE conn[r].handshake = "pending"
  <2> DEFINE c == [conn[r] EXCEPT !.task = "shaking"]
  <2>1. Becomes(r, c)
    BY <1>1 DEF Started
  <2>2. c \in Connection /\ c.eof = conn[r].eof
    BY DEF IInv, Types, Connection
  <2> HIDE DEF c
  <2> QED  BY <2>1, <2>2, BecomesStep
<1>2. CASE shard' = "undefined" /\ UNCHANGED <<phase, conn, pool, limit, closing, closed>>
  BY <1>2 DEF IInv, Types, PoolSound, WaitSound, WaitersHaveCause
<1> QED  BY <1>1, <1>2 DEF Started

-----------------------------------------------------------------------------
(* The theorems.                                                           *)

LEMMA StepIInv == IInv /\ [Next]_vars => IInv'
<1> SUFFICES ASSUME IInv, [Next]_vars  PROVE IInv'
  OBVIOUS
<1>1. CASE UNCHANGED vars
  BY <1>1 DEF vars, IInv, Types, PoolSound, WaitSound, WaitersHaveCause
<1>2. CASE SetMaximumConnections
  BY <1>2, SetMaximumStep
<1>3. CASE CloseClient
  BY <1>3, CloseRoundStep DEF CloseClient
<1>4. CASE \E t \in Closers : NextRound(t)
  BY <1>4, NextRoundStep
<1>5. ASSUME NEW r \in Requests, RequestStep(r)  PROVE IInv'
  <2>1. CASE Get(r)
    BY <2>1, GetStep
  <2>2. CASE ConnectFails(r) \/ Removed(r)
    BY <2>2, EndStep
  <2>3. CASE Connected(r)
    BY <2>3, ConnectedStep
  <2>4. CASE Remove(r)
    BY <2>4, RemoveStep
  <2>5. CASE Started(r)
    BY <2>5, StartedStep
  <2>6. CASE \/ StartFails(r) \/ Shaken(r) \/ BodyEnds(r) \/ StopStreams(r)
             \/ ServerStarts(r) \/ ServerStops(r) \/ InputEnds(r)
             \/ OutputAborted(r) \/ OutputEnds(r) \/ WriteFails(r) \/ HangUp(r)
    BY <2>6, ConnectionStep, BecomesStep
  <2> QED  BY <1>5, <2>1, <2>2, <2>3, <2>4, <2>5, <2>6 DEF RequestStep
<1> QED  BY <1>1, <1>2, <1>3, <1>4, <1>5 DEF Next

LEMMA IInvImplies == IInv => ClientTypeOK /\ WaitersHaveCause /\ RunningCanBeClosed
<1> SUFFICES ASSUME IInv  PROVE ClientTypeOK /\ RunningCanBeClosed
  BY DEF IInv, WaitSound
<1>1. \A i \in DOMAIN pool : pool[i] \in Members(pool)
  BY DEF Members
<1>2. ClientTypeOK
  BY <1>1 DEF IInv, Types, Phases, PoolSound, ClientTypeOK
<1>3. RunningCanBeClosed
  BY DEF IInv, PoolSound, RunningCanBeClosed, Members
<1> QED  BY <1>2, <1>3

\* The inductive invariant of the client.
THEOREM Invariance == Spec => []IInv
<1> QED  BY InitIInv, StepIInv, PTL DEF Spec

\* Types, and that the pool holds no connection twice and only those in use.
THEOREM TypeCorrect == Spec => []ClientTypeOK
<1> QED  BY Invariance, IInvImplies, PTL

\* No wake-up is lost until the client is closed, for any number of requests and
\* any limits.
THEOREM NoLostWakeUp == Spec => []WaitersHaveCause
<1> QED  BY Invariance, IInvImplies, PTL

\* A connection in use that the pool does not hold has been closed.
THEOREM ClosersFindConnections == Spec => []RunningCanBeClosed
<1> QED  BY Invariance, IInvImplies, PTL
=============================================================================
