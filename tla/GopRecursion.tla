---------------------------- MODULE GopRecursion ----------------------------
(* update_gop as the code writes it, a pop that calls itself, which GopCache *)
(* states without recursion.                                                 *)
EXTENDS GopCache

RECURSIVE PopWhilePossible(_)
PopWhilePossible(c) ==
    IF CanPop(c) THEN PopWhilePossible(PopGop(c)) ELSE c

\* The cache after the frames of the given kinds, one millisecond apart, with
\* those it refuses left out.
Offered(kind, i) ==
    [id |-> i, kind |-> kind, dts |-> i,
     tracks |-> IF kind = "meta" THEN Tracks ELSE TracksOf(kind)]

CacheOf(kinds) ==
    FoldLeft(LAMBDA c, f : IF ValidFrame(c, f) THEN AddFrame(c, f) ELSE c, EmptyCache,
             [i \in DOMAIN kinds |-> Offered(kinds[i], i)])

\* The definition of update_gop without recursion, which the proofs use, is the
\* code's recursion: whatever jump of the dts makes GOPs go, both leave the same
\* cache.  A constant formula, evaluated at the start of every run.
ASSUME UpdateGopIsTheRecursion ==
    \A n \in 1..6 : \A kinds \in [1..n -> Kinds] : \A jump \in 0..6 :
        LET c == CacheOf(kinds)
            later == [c EXCEPT !.latestMedia.dts = @ + jump]
        IN  c.latestMedia # NoFrame => UpdateGop(later) = PopWhilePossible(later)
=============================================================================
