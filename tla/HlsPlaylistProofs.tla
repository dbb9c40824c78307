-------------------------- MODULE HlsPlaylistProofs --------------------------
(***************************************************************************)
(* The play list of a stream for every setting, any pace of the frames and *)
(* any number of sessions, headers and failures: first what the operations *)
(* on the writer's list do to the segments among its headers, then the     *)
(* invariants of the session.                                              *)
(***************************************************************************)
EXTENDS HlsPlaylist, BasicLemmas, SequenceTheorems, TLAPS

-----------------------------------------------------------------------------
(* Segments.                                                               *)

\* The segments of list[1..k], for every k.
SegmentsTo(f, list) ==
    /\ f \in [0..Len(list) -> Seq(Item)] /\ f[0] = <<>>
    /\ \A k \in 1..Len(list) :
          f[k] = IF IsHeader(list[k]) THEN f[k - 1] ELSE Append(f[k - 1], list[k])

LEMMA SegmentsExist ==
  ASSUME NEW list \in Seq(Item)
  PROVE  \E f : SegmentsTo(f, list) /\ Segments(list) = f[Len(list)]
<1> DEFINE n == Len(list)
           Add(k, s) == IF IsHeader(list[k]) THEN s ELSE Append(s, list[k])
           Body(f) == [k \in 0..n |-> IF k = 0 THEN <<>> ELSE Add(k, f[k - 1])]
           step == [k \in 1..n |-> [s \in Seq(Item) |-> Add(k, s)]]
<1>0. n \in Nat /\ \A k \in 1..n : list[k] \in Item
  BY ElementOfSeq
<1>1. ASSUME NEW k \in 1..n, NEW s \in Seq(Item)  PROVE Add(k, s) \in Seq(Item)
  BY <1>0, AppendProperties
<1>2. PICK g \in [0..n -> Seq(Item)] :
         g[0] = <<>> /\ \A k \in 1..n : g[k] = Add(k, g[k - 1])
  <2>1. <<>> \in Seq(Item)
    OBVIOUS
  <2>2. step \in [1..n -> [Seq(Item) -> Seq(Item)]]
    <3> HIDE DEF n, Add
    <3> QED  BY <1>1
  <2>3. \E g \in [0..n -> Seq(Item)] :
           g[0] = <<>> /\ \A k \in 1..n : g[k] = step[k][g[k - 1]]
    <3> HIDE DEF n, step
    <3>1. \E g \in [0..n -> Seq(Item)] : Recursion(g, n, <<>>, step)
      BY <1>0, <2>1, <2>2, RecursionUpTo
    <3> QED  BY <3>1 DEF Recursion
  <2>4. PICK g \in [0..n -> Seq(Item)] :
           g[0] = <<>> /\ \A k \in 1..n : g[k] = step[k][g[k - 1]]
    BY <2>3
  <2>5. ASSUME NEW k \in 1..n  PROVE g[k] = Add(k, g[k - 1])
    <3>1. k - 1 \in 0..n
      BY <1>0
    <3>2. g[k - 1] \in Seq(Item)
      BY <3>1
    <3>3. \A s \in Seq(Item) : step[k][s] = Add(k, s)
      <4> HIDE DEF Add, n
      <4> QED  OBVIOUS
    <3> HIDE DEF Add, step
    <3> QED  BY <2>4, <3>2, <3>3
  <2> HIDE DEF Add, step, n
  <2> QED  BY <2>4, <2>5
<1>4. g = Body(g)
  <2>1. \A k \in 0..n : g[k] = IF k = 0 THEN <<>> ELSE Add(k, g[k - 1])
    <3> HIDE DEF Add
    <3> QED  BY <1>0, <1>2
  <2> HIDE DEF Add, n
  <2> QED  BY <2>1
<1> DEFINE upTo == CHOOSE f : f = Body(f)
<1>5. upTo = Body(upTo)
  <2> HIDE DEF Body
  <2> QED  BY <1>4
<1>6. Segments(list) = upTo[n]
  BY DEF Segments
<1> HIDE DEF upTo, Add, n
<1>7. \A k \in 0..n : upTo[k] = g[k]
  <2> DEFINE S == {k \in 0..n : upTo[k] = g[k]}
  <2>1. 0 \in S
    BY <1>0, <1>2, <1>5
  <2>2. ASSUME NEW k \in 0..(n - 1), k \in S  PROVE k + 1 \in S
    <3>1. k + 1 \in 1..n /\ (k + 1) - 1 = k /\ k + 1 \in 0..n /\ k + 1 # 0
      BY <1>0
    <3>2. upTo[k + 1] = Add(k + 1, upTo[k])
      BY <1>5, <3>1
    <3> QED  BY <1>2, <2>2, <3>1, <3>2
  <2>3. 0..n \subseteq S
    <3> HIDE DEF S
    <3> QED  BY <1>0, <2>1, <2>2, InductionUpTo
  <2> QED  BY <2>3
<1>8. upTo = g
  BY <1>5, <1>7
<1>9. SegmentsTo(g, list)
  BY <1>2 DEF SegmentsTo, Add, n
<1> QED  BY <1>6, <1>8, <1>9 DEF n

LEMMA SegmentsOfPrefix ==
  ASSUME NEW a \in Seq(Item), NEW b \in Seq(Item), NEW f, NEW g,
         SegmentsTo(f, a), SegmentsTo(g, b),
         Len(a) <= Len(b), \A k \in 1..Len(a) : a[k] = b[k]
  PROVE  f[Len(a)] = g[Len(a)]
<1> DEFINE n == Len(a)
           S == {k \in 0..n : f[k] = g[k]}
<1>0. n \in Nat /\ Len(b) \in Nat /\ n <= Len(b)
  OBVIOUS
<1> HIDE DEF n
<1>1. 0 \in S
  BY <1>0 DEF SegmentsTo
<1>2. ASSUME NEW k \in 0..(n - 1), k \in S  PROVE k + 1 \in S
  <2>1. k + 1 \in 1..n /\ (k + 1) - 1 = k /\ k + 1 \in 0..n /\ k + 1 \in 1..Len(b)
    BY <1>0
  <2>2. f[k + 1] = IF IsHeader(a[k + 1]) THEN f[k] ELSE Append(f[k], a[k + 1])
    BY <2>1 DEF SegmentsTo, n
  <2>3. g[k + 1] = IF IsHeader(b[k + 1]) THEN g[k] ELSE Append(g[k], b[k + 1])
    BY <2>1 DEF SegmentsTo
  <2>4. a[k + 1] = b[k + 1] /\ f[k] = g[k]
    BY <1>2, <2>1 DEF n
  <2> QED  BY <2>1, <2>2, <2>3, <2>4
<1>3. 0..n \subseteq S
  <2> HIDE DEF S
  <2> QED  BY <1>0, <1>1, <1>2, InductionUpTo
<1>4. n \in S
  BY <1>0, <1>3
<1> QED  BY <1>4 DEF n

LEMMA SegmentsType ==
  ASSUME NEW list \in Seq(Item)
  PROVE  Segments(list) \in Seq(Item)
<1>1. PICK f : SegmentsTo(f, list) /\ Segments(list) = f[Len(list)]
  BY SegmentsExist
<1>2. Len(list) \in 0..Len(list)
  OBVIOUS
<1> QED  BY <1>1, <1>2 DEF SegmentsTo

LEMMA SegmentsOfEmpty == Segments(<<>>) = <<>>
<1>1. <<>> \in Seq(Item) /\ Len(<<>>) = 0
  OBVIOUS
<1>2. PICK f : SegmentsTo(f, <<>>) /\ Segments(<<>>) = f[Len(<<>>)]
  BY <1>1, SegmentsExist
<1> QED  BY <1>1, <1>2 DEF SegmentsTo

\* What an entry at the end of the list adds to its segments.
Added(s, x) == IF IsHeader(x) THEN s ELSE Append(s, x)

LEMMA SegmentsOfAppend ==
  ASSUME NEW list \in Seq(Item), NEW x \in Item
  PROVE  Segments(Append(list, x)) = Added(Segments(list), x)
<1> DEFINE longer == Append(list, x)
           n == Len(list)
<1>0. /\ longer \in Seq(Item) /\ Len(longer) = n + 1 /\ n \in Nat
      /\ \A k \in 1..n : longer[k] = list[k]
      /\ longer[n + 1] = x
  BY AppendProperties
<1>1. PICK f : SegmentsTo(f, list) /\ Segments(list) = f[n]
  BY SegmentsExist
<1> HIDE DEF longer
<1>2. PICK g : SegmentsTo(g, longer) /\ Segments(longer) = g[Len(longer)]
  BY <1>0, SegmentsExist
<1>3. f[n] = g[n]
  BY <1>0, <1>1, <1>2, SegmentsOfPrefix
<1>4. g[n + 1] = IF IsHeader(longer[n + 1]) THEN g[n] ELSE Append(g[n], longer[n + 1])
  <2>1. n + 1 \in 1..Len(longer) /\ (n + 1) - 1 = n
    BY <1>0
  <2> QED  BY <1>2, <2>1 DEF SegmentsTo
<1>5. Segments(longer) = Added(Segments(list), x)
  <2> HIDE DEF n
  <2> QED  BY <1>0, <1>1, <1>2, <1>3, <1>4 DEF Added
<1> QED  BY <1>5 DEF longer

LEMMA SegmentsOfConcat ==
  ASSUME NEW a \in Seq(Item), NEW b \in Seq(Item)
  PROVE  Segments(a \o b) = Segments(a) \o Segments(b)
<1> DEFINE P == {s \in Seq(Item) : Segments(a \o s) = Segments(a) \o Segments(s)}
<1>0. Segments(a) \in Seq(Item)
  BY SegmentsType
<1>1. <<>> \in P
  <2>1. a \o <<>> = a /\ Segments(a) \o <<>> = Segments(a) /\ <<>> \in Seq(Item)
    BY <1>0, ConcatEmptySeq
  <2> QED  BY <2>1, SegmentsOfEmpty
<1>2. ASSUME NEW s \in Seq(Item), NEW e \in Item, s \in P  PROVE Append(s, e) \in P
  <2>1. a \o s \in Seq(Item) /\ Append(s, e) \in Seq(Item) /\ Segments(s) \in Seq(Item)
    BY ConcatProperties, AppendProperties, SegmentsType
  <2>2. a \o Append(s, e) = Append(a \o s, e)
    <3>1. Append(s, e) = s \o <<e>> /\ Append(a \o s, e) = (a \o s) \o <<e>>
      BY <2>1, AppendIsConcat
    <3>2. <<e>> \in Seq(Item)
      OBVIOUS
    <3> QED  BY <3>1, <3>2, ConcatAssociative
  <2>3. Segments(Append(a \o s, e)) = Added(Segments(a \o s), e)
    BY <2>1, SegmentsOfAppend
  <2>4. Segments(Append(s, e)) = Added(Segments(s), e)
    BY SegmentsOfAppend
  <2>5. Added(Segments(a) \o Segments(s), e) = Segments(a) \o Added(Segments(s), e)
    <3>1. CASE IsHeader(e)
      BY <3>1 DEF Added
    <3>2. CASE ~IsHeader(e)
      <4>1. Segments(a) \o Segments(s) \in Seq(Item)
        BY <1>0, <2>1, ConcatProperties
      <4>2. /\ Append(Segments(s), e) = Segments(s) \o <<e>>
            /\ Append(Segments(a) \o Segments(s), e) = (Segments(a) \o Segments(s)) \o <<e>>
        BY <2>1, <4>1, AppendIsConcat
      <4>3. <<e>> \in Seq(Item)
        OBVIOUS
      <4>4. (Segments(a) \o Segments(s)) \o <<e>> = Segments(a) \o (Segments(s) \o <<e>>)
        BY <1>0, <2>1, <4>3, ConcatAssociative
      <4> QED  BY <3>2, <4>2, <4>4 DEF Added
    <3> QED  BY <3>1, <3>2
  <2> QED  BY <1>2, <2>1, <2>2, <2>3, <2>4, <2>5
<1>3. Seq(Item) \subseteq P
  <2> HIDE DEF P
  <2> QED  BY <1>1, <1>2, ListInduction
<1> QED  BY <1>3

\* The segments of a list are its entries that are no headers.
LEMMA SegmentsAreEntries ==
  ASSUME NEW list \in Seq(Item)
  PROVE  \A x : (\E i \in 1..Len(Segments(list)) : Segments(list)[i] = x)
                   <=> ~IsHeader(x) /\ \E i \in 1..Len(list) : list[i] = x
<1> DEFINE In(x, s) == \E i \in 1..Len(s) : s[i] = x
           P == {s \in Seq(Item) : \A x : In(x, Segments(s)) <=> ~IsHeader(x) /\ In(x, s)}
<1>1. <<>> \in P
  BY SegmentsOfEmpty
<1>2. ASSUME NEW s \in Seq(Item), NEW e \in Item  PROVE \A x : In(x, Append(s, e)) <=> x = e \/ In(x, s)
  <2>1. /\ Len(Append(s, e)) = Len(s) + 1 /\ Len(s) \in Nat
        /\ \A i \in 1..Len(s) : Append(s, e)[i] = s[i]
        /\ Append(s, e)[Len(s) + 1] = e
    BY AppendProperties
  <2> QED  BY <2>1
<1>3. ASSUME NEW s \in Seq(Item), NEW e \in Item, s \in P  PROVE Append(s, e) \in P
  <2>1. Append(s, e) \in Seq(Item) /\ Segments(s) \in Seq(Item)
    BY AppendProperties, SegmentsType
  <2>2. Segments(Append(s, e)) = Added(Segments(s), e)
    BY SegmentsOfAppend
  <2>3. \A x : In(x, Append(s, e)) <=> x = e \/ In(x, s)
    BY <1>2
  <2>4. \A x : In(x, Append(Segments(s), e)) <=> x = e \/ In(x, Segments(s))
    BY <1>2, <2>1
  <2>5. \A x : In(x, Segments(s)) <=> ~IsHeader(x) /\ In(x, s)
    BY <1>3
  <2> HIDE DEF In
  <2>6. CASE IsHeader(e)
    BY <2>1, <2>2, <2>3, <2>5, <2>6 DEF Added
  <2>7. CASE ~IsHeader(e)
    BY <2>1, <2>2, <2>3, <2>4, <2>5, <2>7 DEF Added
  <2> QED  BY <2>6, <2>7
<1>4. Seq(Item) \subseteq P
  <2> HIDE DEF P
  <2> QED  BY <1>1, <1>3, ListInduction
<1> QED  BY <1>4

-----------------------------------------------------------------------------
(* What the writer does to its list.                                       *)

Headed(list) == list \in Seq(Item) /\ list # <<>> /\ IsHeader(list[1])

LEMMA SegmentsOfHeaders ==
  ASSUME NEW list \in Seq(Item), \A i \in 1..Len(list) : IsHeader(list[i])
  PROVE  Segments(list) = <<>>
<1>1. Segments(list) \in Seq(Item)
  BY SegmentsType
<1>2. ~\E i \in 1..Len(Segments(list)) : TRUE
  BY SegmentsAreEntries
<1>3. Len(Segments(list)) \in Nat
  BY <1>1, LenProperties
<1>4. Len(Segments(list)) = 0
  BY <1>2, <1>3
<1> QED  BY <1>1, <1>4, EmptySeq

\* A suffix of a list that is cut among headers has the list's segments.
LEMMA SegmentsOfSuffix ==
  ASSUME NEW list \in Seq(Item), NEW m \in 1..Len(list),
         \A i \in 1..(m - 1) : IsHeader(list[i])
  PROVE  /\ SubSeq(list, m, Len(list)) \in Seq(Item)
         /\ SubSeq(list, m, Len(list)) # <<>>
         /\ SubSeq(list, m, Len(list))[1] = list[m]
         /\ Segments(SubSeq(list, m, Len(list))) = Segments(list)
<1> DEFINE n == Len(list)
           front == SubSeq(list, 1, m - 1)
           back == SubSeq(list, m, n)
<1>0. n \in Nat /\ m \in Nat /\ m - 1 \in Nat /\ m <= n /\ \A i \in 1..n : list[i] \in Item
  BY ElementOfSeq
<1>1. /\ back \in Seq(Item) /\ Len(back) = n - m + 1
      /\ \A i \in 1..(n - m + 1) : back[i] = list[m + i - 1]
  <2>1. \A i \in m..n : list[i] \in Item
    BY <1>0
  <2> HIDE DEF n
  <2> QED  BY <1>0, <2>1, SubSeqProperties
<1>2. back # <<>> /\ back[1] = list[m]
  <2>1. 1 \in 1..(n - m + 1) /\ m + 1 - 1 = m /\ n - m + 1 # 0
    BY <1>0
  <2> HIDE DEF back, n
  <2> QED  BY <1>1, <2>1, EmptySeq
<1>3. /\ front \in Seq(Item) /\ Len(front) = m - 1
      /\ \A i \in 1..(m - 1) : front[i] = list[i]
  <2>1. \A i \in 1..(m - 1) : list[i] \in Item
    BY <1>0
  <2>2. /\ front \in Seq(Item) /\ Len(front) = (IF 1 <= m - 1 THEN (m - 1) - 1 + 1 ELSE 0)
        /\ \A i \in 1..((m - 1) - 1 + 1) : front[i] = list[1 + i - 1]
    BY <1>0, <2>1, SubSeqProperties
  <2> HIDE DEF front
  <2> QED  BY <1>0, <2>2
<1>4. Segments(front) = <<>>
  <2> HIDE DEF front
  <2> QED  BY <1>3, SegmentsOfHeaders
<1>5. list = front \o back
  <2>1. 1 \in 1..(Len(list) + 1) /\ m - 1 \in (1 - 1)..Len(list) /\ n \in (m - 1)..Len(list)
        /\ (m - 1) + 1 = m
    BY <1>0
  <2>2. SubSeq(list, 1, m - 1) \o SubSeq(list, (m - 1) + 1, n) = SubSeq(list, 1, n)
    BY <2>1, ConcatAdjacentSubSeq
  <2> QED  BY <2>1, <2>2, SubSeqFull
<1>6. Segments(list) = Segments(back)
  <2> HIDE DEF front, back
  <2>1. Segments(front \o back) = Segments(front) \o Segments(back)
    BY <1>1, <1>3, SegmentsOfConcat
  <2> QED  BY <1>1, <1>4, <1>5, <2>1, SegmentsType, ConcatEmptySeq
<1> QED  BY <1>1, <1>2, <1>6

LEMMA UsefulKeeps ==
  ASSUME NEW list \in Seq(Item)
  PROVE  /\ Useful(list) \in Seq(Item)
         /\ Headed(list) => Headed(Useful(list)) /\ Segments(Useful(list)) = Segments(list)
<1> DEFINE after == {i \in 2..Len(list) : ~IsHeader(list[i])}
<1>1. CASE after = {} \/ Min(after) = 2
  BY <1>1 DEF Useful
<1>2. CASE after # {} /\ Min(after) # 2
  <2> DEFINE m == Min(after) - 1
  <2>0. Len(list) \in Nat /\ after \subseteq Nat
    OBVIOUS
  <2>1. Min(after) \in after /\ \A i \in after : Min(after) <= i
    <3> HIDE DEF after
    <3> QED  BY <1>2, <2>0, MinOfNaturals
  <2>2. Useful(list) = SubSeq(list, m, Len(list))
    BY <1>2 DEF Useful
  <2>3. Min(after) \in 2..Len(list) /\ Min(after) \in Nat
    BY <2>0, <2>1
  <2>4. m \in 1..Len(list) /\ m \in 2..Len(list) /\ m < Min(after)
    <3> HIDE DEF after
    <3> QED  BY <1>2, <2>0, <2>3
  <2>5. ASSUME NEW i \in 2..m  PROVE IsHeader(list[i])
    <3>1. i \in 2..Len(list) /\ ~(Min(after) <= i)
      <4> HIDE DEF after
      <4> QED  BY <2>0, <2>3, <2>4
    <3>2. i \notin after
      <4> HIDE DEF after
      <4> QED  BY <2>1, <3>1
    <3> QED  BY <3>1, <3>2
  <2> HIDE DEF m, after
  <2>6. SubSeq(list, m, Len(list)) \in Seq(Item)
    <3>1. \A i \in m..Len(list) : list[i] \in Item
      BY <2>0, <2>4, ElementOfSeq
    <3> QED  BY <2>0, <2>4, <3>1, SubSeqProperties
  <2>7. ASSUME Headed(list)
        PROVE  Headed(Useful(list)) /\ Segments(Useful(list)) = Segments(list)
    <3>1. \A i \in 1..m : IsHeader(list[i])
      BY <2>4, <2>5, <2>7 DEF Headed
    <3>2. IsHeader(list[m]) /\ \A i \in 1..(m - 1) : IsHeader(list[i])
      BY <2>4, <3>1
    <3> QED  BY <2>2, <2>4, <3>2, SegmentsOfSuffix DEF Headed
  <2> QED  BY <2>2, <2>6, <2>7
<1> QED  BY <1>1, <1>2

\* Taking the first segment from a list takes it from its segments.
LEMMA RemoveFirstSegment ==
  ASSUME NEW list, Headed(list), NEW x \in Item, NEW rest \in Seq(Item),
         Segments(list) = <<x>> \o rest
  PROVE  Headed(RemoveFirst(list, x)) /\ Segments(RemoveFirst(list, x)) = rest
<1>0. list \in Seq(Item) /\ Len(list) \in Nat /\ \A i \in 1..Len(list) : list[i] \in Item
  BY ElementOfSeq DEF Headed
<1>1. ~IsHeader(x) /\ \E i \in 1..Len(list) : list[i] = x
  <2>1. <<x>> \in Seq(Item) /\ Len(<<x>>) = 1 /\ <<x>>[1] = x /\ Len(rest) \in Nat
    OBVIOUS
  <2>2. Len(<<x>> \o rest) = 1 + Len(rest) /\ (<<x>> \o rest)[1] = x
    BY <2>1, ConcatProperties
  <2>3. 1 \in 1..Len(Segments(list)) /\ Segments(list)[1] = x
    BY <2>1, <2>2
  <2>4. \E i \in 1..Len(Segments(list)) : Segments(list)[i] = x
    BY <2>3
  <2> QED  BY <1>0, <2>4, SegmentsAreEntries
<1>2. PICK j \in 1..Len(list) :
         /\ list[j] = x /\ \A k \in 1..(j - 1) : list[k] # x
         /\ RemoveFirst(list, x) = SubSeq(list, 1, j - 1) \o SubSeq(list, j + 1, Len(list))
  BY <1>0, <1>1, RemoveFirstCuts
<1> DEFINE n == Len(list)
           front == SubSeq(list, 1, j - 1)
           back == SubSeq(list, j + 1, n)
<1>3. j \in Nat /\ j - 1 \in Nat /\ j \in 2..n
  <2>1. j # 1
    BY <1>1, <1>2 DEF Headed
  <2> QED  BY <1>0, <2>1
<1>4. /\ front \in Seq(Item) /\ Len(front) = j - 1
      /\ \A i \in 1..(j - 1) : front[i] = list[i]
  <2>1. \A i \in 1..(j - 1) : list[i] \in Item
    BY <1>0, <1>3
  <2>2. /\ front \in Seq(Item) /\ Len(front) = (IF 1 <= j - 1 THEN (j - 1) - 1 + 1 ELSE 0)
        /\ \A i \in 1..((j - 1) - 1 + 1) : front[i] = list[1 + i - 1]
    BY <1>3, <2>1, SubSeqProperties
  <2> HIDE DEF front
  <2> QED  BY <1>3, <2>2
<1>5. back \in Seq(Item)
  <2>1. \A i \in (j + 1)..n : list[i] \in Item
    BY <1>0, <1>3
  <2> QED  BY <1>0, <1>3, <2>1, SubSeqProperties
<1>6. list = front \o (<<x>> \o back)
  <2>1. 1 \in 1..(Len(list) + 1) /\ j - 1 \in (1 - 1)..Len(list) /\ n \in (j - 1)..Len(list)
        /\ (j - 1) + 1 = j
    BY <1>0, <1>3
  <2>2. SubSeq(list, 1, j - 1) \o SubSeq(list, (j - 1) + 1, n) = SubSeq(list, 1, n)
    <3> HIDE DEF n
    <3> QED  BY <2>1, <1>0, ConcatAdjacentSubSeq
  <2>3. SubSeq(list, j, n) = <<list[j]>> \o SubSeq(list, j + 1, n)
    <3>1. n \in j..Len(list)
      BY <1>0, <1>3
    <3> QED  BY <1>0, <3>1, SubSeqRecursiveFirst
  <2> QED  BY <1>0, <1>2, <2>1, <2>2, <2>3, SubSeqFull
<1> HIDE DEF front, back, n
<1>7. <<x>> \in Seq(Item) /\ <<x>> \o back \in Seq(Item) /\ Segments(<<x>>) = <<x>>
  <2>1. <<x>> \in Seq(Item) /\ <<>> \in Seq(Item) /\ <<x>> = Append(<<>>, x)
    OBVIOUS
  <2>2. Segments(Append(<<>>, x)) = Added(<<>>, x)
    BY <2>1, SegmentsOfAppend, SegmentsOfEmpty
  <2> QED  BY <1>1, <1>5, <2>1, <2>2, ConcatProperties DEF Added
<1>8. Segments(list) = Segments(front) \o (<<x>> \o Segments(back))
  BY <1>4, <1>5, <1>6, <1>7, SegmentsOfConcat
<1>9. Segments(front) \in Seq(Item) /\ Segments(back) \in Seq(Item)
  BY <1>4, <1>5, SegmentsType
<1>10. Segments(front) = <<>>
  <2>1. SUFFICES ASSUME Segments(front) # <<>>  PROVE FALSE
    OBVIOUS
  <2>2. Len(Segments(front)) \in Nat /\ Len(Segments(front)) # 0
    BY <1>9, <2>1, EmptySeq
  <2>3. <<x>> \o Segments(back) \in Seq(Item)
    BY <1>7, <1>9, ConcatProperties
  <2>4. Segments(list)[1] = Segments(front)[1]
    <3>1. 1 \in 1..(Len(Segments(front)) + Len(<<x>> \o Segments(back))) /\ 1 <= Len(Segments(front))
      BY <2>2, <2>3, LenProperties
    <3> QED  BY <1>8, <1>9, <2>3, <3>1, ConcatProperties
  <2>5. Segments(list)[1] = x
    <3>1. <<x>> \in Seq(Item) /\ Len(<<x>>) = 1 /\ <<x>>[1] = x /\ Len(rest) \in Nat
      OBVIOUS
    <3> QED  BY <3>1, ConcatProperties
  <2>6. \E i \in 1..Len(Segments(front)) : Segments(front)[i] = x
    <3>1. 1 \in 1..Len(Segments(front)) /\ Segments(front)[1] = x
      BY <2>2, <2>4, <2>5
    <3> QED  BY <3>1
  <2>7. PICK i \in 1..Len(front) : front[i] = x
    BY <1>4, <2>6, SegmentsAreEntries
  <2> QED  BY <1>2, <1>4, <2>7
<1>11. Segments(back) = rest
  <2>1. <<x>> \o Segments(back) \in Seq(Item)
    BY <1>7, <1>9, ConcatProperties
  <2>2. <<x>> \o Segments(back) = <<x>> \o rest
    BY <1>8, <1>10, <2>1, ConcatEmptySeq
  <2> QED  BY <1>7, <1>9, <2>2, ConcatSimplifications
<1>12. Segments(front \o back) = rest
  <2>1. Segments(front \o back) = Segments(front) \o Segments(back)
    BY <1>4, <1>5, SegmentsOfConcat
  <2> QED  BY <1>9, <1>10, <1>11, <2>1, ConcatEmptySeq
<1>13. Headed(front \o back)
  <2>1. front \o back \in Seq(Item) /\ Len(front \o back) = Len(front) + Len(back) /\ Len(back) \in Nat
    BY <1>4, <1>5, ConcatProperties, LenProperties
  <2>2. 1 \in 1..(Len(front) + Len(back)) /\ 1 <= Len(front) /\ Len(front) + Len(back) # 0
        /\ 1 \in 1..(j - 1)
    BY <1>3, <1>4, <2>1
  <2>3. (front \o back)[1] = front[1] /\ front[1] = list[1]
    BY <1>4, <1>5, <2>2, ConcatProperties
  <2>4. front \o back # <<>>
    BY <2>1, <2>2, EmptySeq
  <2> QED  BY <2>1, <2>3, <2>4 DEF Headed
<1> QED  BY <1>2, <1>12, <1>13 DEF front, back, n

LEMMA RemovalKeeps ==
  ASSUME NEW list \in Seq(Item), NEW x
  PROVE  Useful(RemoveFirst(list, x)) \in Seq(Item)
BY RemoveFirstType, UsefulKeeps

\* left[k]: the list without the first k items of seq.
WithoutTo(left, list, seq) ==
    /\ left \in [0..Len(seq) -> Seq(Item)] /\ left[0] = list
    /\ \A k \in 1..Len(seq) : left[k] = Useful(RemoveFirst(left[k - 1], seq[k]))

LEMMA WithoutExists ==
  ASSUME NEW list \in Seq(Item), NEW seq \in Seq(Item)
  PROVE  \E f : WithoutTo(f, list, seq) /\ Without(list, seq) = f[Len(seq)]
<1> DEFINE n == Len(seq)
           Take(k, s) == Useful(RemoveFirst(s, seq[k]))
           Body(f) == [k \in 0..n |-> IF k = 0 THEN list ELSE Take(k, f[k - 1])]
           step == [k \in 1..n |-> [s \in Seq(Item) |-> Take(k, s)]]
<1>0. n \in Nat
  OBVIOUS
<1>1. ASSUME NEW k \in 1..n, NEW s \in Seq(Item)  PROVE Take(k, s) \in Seq(Item)
  BY RemovalKeeps
<1> HIDE DEF Take, n
<1>2. PICK g \in [0..n -> Seq(Item)] :
         g[0] = list /\ \A k \in 1..n : g[k] = Take(k, g[k - 1])
  <2>2. step \in [1..n -> [Seq(Item) -> Seq(Item)]]
    BY <1>1
  <2>3. \E g \in [0..n -> Seq(Item)] :
           g[0] = list /\ \A k \in 1..n : g[k] = step[k][g[k - 1]]
    <3> HIDE DEF step
    <3>1. \E g \in [0..n -> Seq(Item)] : Recursion(g, n, list, step)
      BY <1>0, <2>2, RecursionUpTo
    <3> QED  BY <3>1 DEF Recursion
  <2>4. PICK g \in [0..n -> Seq(Item)] :
           g[0] = list /\ \A k \in 1..n : g[k] = step[k][g[k - 1]]
    BY <2>3
  <2>5. ASSUME NEW k \in 1..n  PROVE g[k] = Take(k, g[k - 1])
    <3>1. k - 1 \in 0..n
      BY <1>0
    <3>2. g[k - 1] \in Seq(Item)
      BY <3>1
    <3>3. \A s \in Seq(Item) : step[k][s] = Take(k, s)
      OBVIOUS
    <3> HIDE DEF step
    <3> QED  BY <2>4, <3>2, <3>3
  <2> HIDE DEF step
  <2> QED  BY <2>4, <2>5
<1>4. g = Body(g)
  <2>1. \A k \in 0..n : g[k] = IF k = 0 THEN list ELSE Take(k, g[k - 1])
    BY <1>0, <1>2
  <2> QED  BY <2>1
<1> DEFINE left == CHOOSE f : f = Body(f)
<1>5. left = Body(left)
  <2> HIDE DEF Body
  <2> QED  BY <1>4
<1>6. Without(list, seq) = left[n]
  BY DEF Without, Take, n
<1> HIDE DEF left
<1>7. \A k \in 0..n : left[k] = g[k]
  <2> DEFINE S == {k \in 0..n : left[k] = g[k]}
  <2>1. 0 \in S
    BY <1>0, <1>2, <1>5
  <2>2. ASSUME NEW k \in 0..(n - 1), k \in S  PROVE k + 1 \in S
    <3>1. k + 1 \in 1..n /\ (k + 1) - 1 = k /\ k + 1 \in 0..n /\ k + 1 # 0
      BY <1>0
    <3>2. left[k + 1] = Take(k + 1, left[k])
      BY <1>5, <3>1
    <3> QED  BY <1>2, <2>2, <3>1, <3>2
  <2>3. 0..n \subseteq S
    <3> HIDE DEF S
    <3> QED  BY <1>0, <2>1, <2>2, InductionUpTo
  <2> QED  BY <2>3
<1>8. left = g
  BY <1>5, <1>7
<1>9. WithoutTo(g, list, seq)
  BY <1>2 DEF WithoutTo, Take, n
<1> QED  BY <1>6, <1>8, <1>9 DEF n

LEMMA WithoutType ==
  ASSUME NEW list \in Seq(Item), NEW seq \in Seq(Item)
  PROVE  Without(list, seq) \in Seq(Item)
<1>1. PICK f : WithoutTo(f, list, seq) /\ Without(list, seq) = f[Len(seq)]
  BY WithoutExists
<1>2. Len(seq) \in 0..Len(seq)
  OBVIOUS
<1> QED  BY <1>1, <1>2 DEF WithoutTo

\* Removing the first segments of a list in turn leaves the other segments, behind a
\* header.
LEMMA WithoutSegments ==
  ASSUME NEW list, Headed(list), NEW seq \in Seq(Item), NEW rest \in Seq(Item),
         Segments(list) = seq \o rest
  PROVE  Headed(Without(list, seq)) /\ Segments(Without(list, seq)) = rest
<1> DEFINE n == Len(seq)
<1>0. list \in Seq(Item) /\ n \in Nat /\ \A i \in 1..n : seq[i] \in Item
  BY ElementOfSeq DEF Headed
<1>1. PICK left : WithoutTo(left, list, seq) /\ Without(list, seq) = left[n]
  BY <1>0, WithoutExists
<1> DEFINE S == {k \in 0..n : /\ Headed(left[k])
                              /\ Segments(left[k]) = SubSeq(seq, k + 1, n) \o rest}
<1>2. 0 \in S
  <2>1. SubSeq(seq, 0 + 1, n) = seq
    BY SubSeqFull
  <2>2. left[0] = list
    BY <1>1 DEF WithoutTo
  <2>3. Headed(left[0]) /\ Segments(left[0]) = SubSeq(seq, 0 + 1, n) \o rest
    BY <2>1, <2>2, Zenon
  <2>4. 0 \in 0..n
    BY <1>0
  <2> HIDE DEF n
  <2> QED  BY <2>3, <2>4, Zenon
<1>3. ASSUME NEW k \in 0..(n - 1), k \in S  PROVE k + 1 \in S
  <2>1. k + 1 \in 1..n /\ (k + 1) - 1 = k /\ k + 1 \in 0..n /\ n \in (k + 1)..n
    BY <1>0
  <2> DEFINE x == seq[k + 1]
             tail == SubSeq(seq, (k + 1) + 1, n)
             others == tail \o rest
  <2>2. left[k + 1] = Useful(RemoveFirst(left[k], x))
    BY <1>1, <2>1 DEF WithoutTo
  <2>3. tail \in Seq(Item)
    <3>1. \A i \in ((k + 1) + 1)..n : seq[i] \in Item
      BY <1>0, <2>1
    <3> HIDE DEF n
    <3> QED  BY <1>0, <2>1, <3>1, SubSeqProperties
  <2>4. x \in Item /\ others \in Seq(Item)
    BY <1>0, <2>1, <2>3, ConcatProperties
  <2>5. Segments(left[k]) = <<x>> \o others
    <3>1. SubSeq(seq, k + 1, n) = <<x>> \o tail
      BY <1>0, <2>1, SubSeqRecursiveFirst
    <3>2. <<x>> \in Seq(Item)
      BY <2>4
    <3>3. (<<x>> \o tail) \o rest = <<x>> \o others
      <4> HIDE DEF x, tail
      <4> QED  BY <2>3, <3>2, ConcatAssociative
    <3> HIDE DEF x, tail, others, n
    <3> QED  BY <1>3, <3>1, <3>3
  <2> HIDE DEF x, tail, others
  <2>6. Headed(left[k])
    BY <1>3
  <2>7. Headed(RemoveFirst(left[k], x)) /\ Segments(RemoveFirst(left[k], x)) = others
    BY <2>4, <2>5, <2>6, RemoveFirstSegment
  <2>8. Headed(left[k + 1]) /\ Segments(left[k + 1]) = others
    BY <2>2, <2>7, UsefulKeeps DEF Headed
  <2> HIDE DEF n
  <2> QED  BY <2>1, <2>8 DEF others, tail
<1>4. 0..n \subseteq S
  <2> HIDE DEF S, n
  <2> QED  BY <1>0, <1>2, <1>3, InductionUpTo
<1>5. n \in S
  BY <1>0, <1>4
<1>6. SubSeq(seq, n + 1, n) \o rest = rest
  BY <1>0, SubSeqEmpty, ConcatEmptySeq
<1> HIDE DEF n
<1> QED  BY <1>1, <1>5, <1>6

-----------------------------------------------------------------------------
(* Faults and fragments.                                                   *)

Faults == {"mux", "file", "m3u8"}

\* What has failed once stays on record.
LEMMA FailsRecords ==
  ASSUME faults \in Seq(Faults), NEW what \in Seq(Faults), Fails(what)
  PROVE  /\ faults' \in Seq(Faults)
         /\ Range(faults') = Range(faults) \union Range(what)
BY ConcatProperties, RangeConcatenation DEF Fails

LEMMA RangeOfOne == \A x : Range(<<x>>) = {x}
BY DEF Range

LEMMA MuxKeeps ==
  ASSUME faults \in Seq(Faults), NEW f \in Fragment, NEW failed \in Seq(Faults),
         Mux(f, failed)
  PROVE  /\ fragment' \in Fragment /\ fragment' # NoFragment
         /\ fragment'.id = f.id /\ fragment'.dts = f.dts /\ fragment'.key = f.key
         /\ fragment'.filled \/ Failed("mux")'
         /\ faults' \in Seq(Faults)
         /\ Range(faults) \union Range(failed) \subseteq Range(faults')
<1>1. CASE fragment' = [f EXCEPT !.filled = TRUE] /\ Fails(failed)
  <2>1. /\ fragment' \in Fragment /\ fragment'.id = f.id /\ fragment'.dts = f.dts
        /\ fragment'.key = f.key /\ fragment'.filled
    BY <1>1 DEF Fragment
  <2> QED  BY <1>1, <2>1, FailsRecords, NoFragmentAssumption
<1>2. CASE fragment' = f /\ Fails(failed \o <<"mux">>)
  <2>1. <<"mux">> \in Seq(Faults)
    BY DEF Faults
  <2>2. failed \o <<"mux">> \in Seq(Faults)
    BY <2>1, ConcatProperties
  <2>3. faults' \in Seq(Faults) /\ Range(faults') = Range(faults) \union Range(failed \o <<"mux">>)
    BY <1>2, <2>2, FailsRecords
  <2>4. Range(failed \o <<"mux">>) = Range(failed) \union {"mux"}
    <3>1. Range(failed \o <<"mux">>) = Range(failed) \union Range(<<"mux">>)
      BY <2>1, RangeConcatenation, Zenon
    <3>2. Range(<<"mux">>) = {"mux"}
      BY RangeOfOne, Zenon
    <3> QED  BY <3>1, <3>2
  <2>5. Failed("mux")'
    BY <2>3, <2>4 DEF Failed
  <2> QED  BY <1>2, <2>3, <2>4, <2>5, NoFragmentAssumption
<1> QED  BY <1>1, <1>2 DEF Mux

LEMMA NewFragmentType ==
  ASSUME NEW id \in Nat, NEW frame \in Frame
  PROVE  /\ NewFragment(id, frame) \in Fragment /\ NewFragment(id, frame).id = id
         /\ NewFragment(id, frame).dts = frame.dts /\ NewFragment(id, frame).key = frame.key
         /\ ~NewFragment(id, frame).filled
BY DEF NewFragment, Frame, Fragment

-----------------------------------------------------------------------------
(* Where the play list is cut.                                             *)

\* The places where it may be.
Cuts(list) == {1} \union {i \in 2..Len(list) : list[i].key} \union {Len(list) + 1}

LEMMA KeptFromIsCut ==
  ASSUME NEW list \in Seq(Item), NEW end
  PROVE  /\ KeptFrom(list, end) \in Cuts(list)
         /\ KeptFrom(list, end) \in 1..(Len(list) + 1)
         /\ ~OutOfDuration(SubSeq(list, KeptFrom(list, end), Len(list)), end)
         /\ \A i \in Cuts(list) : i < KeptFrom(list, end)
               => OutOfDuration(SubSeq(list, i, Len(list)), end)
<1> DEFINE n == Len(list)
           Kept == {i \in Cuts(list) : ~OutOfDuration(SubSeq(list, i, n), end)}
<1>0. n \in Nat
  OBVIOUS
<1>1. KeptFrom(list, end) = Min(Kept)
  BY DEF KeptFrom, Cuts
<1>2. n + 1 \in Kept
  <2>1. SubSeq(list, n + 1, n) = <<>>
    BY <1>0, SubSeqEmpty
  <2>2. ~OutOfDuration(<<>>, end)
    BY DEF OutOfDuration
  <2> HIDE DEF n
  <2>3. n + 1 \in Cuts(list)
    BY DEF Cuts, n
  <2> QED  BY <2>1, <2>2, <2>3
<1>3. Cuts(list) \subseteq 1..(n + 1)
  BY <1>0 DEF Cuts
<1>4. Min(Kept) \in Kept /\ \A i \in Kept : Min(Kept) <= i
  <2>1. Kept \in SUBSET Nat /\ Kept # {}
    BY <1>0, <1>2, <1>3
  <2> HIDE DEF Kept
  <2> QED  BY <2>1, MinOfNaturals
<1>5. ASSUME NEW i \in Cuts(list), i < Min(Kept)  PROVE OutOfDuration(SubSeq(list, i, n), end)
  <2>1. i \in Nat /\ Min(Kept) \in Nat
    <3> HIDE DEF Kept, n
    <3> QED  BY <1>0, <1>3, <1>4 DEF Kept
  <2>2. i \notin Kept
    <3> HIDE DEF Kept
    <3> QED  BY <1>4, <1>5, <2>1
  <2> QED  BY <1>5, <2>2
<1>6. Min(Kept) \in Cuts(list) /\ ~OutOfDuration(SubSeq(list, Min(Kept), n), end)
  BY <1>4
<1> HIDE DEF Kept
<1> QED  BY <1>1, <1>3, <1>5, <1>6

\* What is cut off and what is kept make up the list.
LEMMA CutInTwo ==
  ASSUME NEW list \in Seq(Item), NEW m \in 1..(Len(list) + 1)
  PROVE  /\ SubSeq(list, 1, m - 1) \in Seq(Item) /\ SubSeq(list, m, Len(list)) \in Seq(Item)
         /\ SubSeq(list, 1, m - 1) \o SubSeq(list, m, Len(list)) = list
         /\ Len(SubSeq(list, 1, m - 1)) = m - 1
         /\ Len(SubSeq(list, m, Len(list))) = Len(list) - m + 1
         /\ \A i \in 1..(m - 1) : SubSeq(list, 1, m - 1)[i] = list[i]
         /\ \A i \in 1..(Len(list) - m + 1) : SubSeq(list, m, Len(list))[i] = list[m + i - 1]
<1> DEFINE n == Len(list)
<1>0. n \in Nat /\ m \in Nat /\ m - 1 \in Nat /\ m - 1 <= n /\ \A i \in 1..n : list[i] \in Item
  BY ElementOfSeq
<1>1. /\ SubSeq(list, m, n) \in Seq(Item)
      /\ Len(SubSeq(list, m, n)) = (IF m <= n THEN n - m + 1 ELSE 0)
      /\ \A i \in 1..(n - m + 1) : SubSeq(list, m, n)[i] = list[m + i - 1]
  <2>1. \A i \in m..n : list[i] \in Item
    BY <1>0
  <2> HIDE DEF n
  <2> QED  BY <1>0, <2>1, SubSeqProperties
<1>2. /\ SubSeq(list, 1, m - 1) \in Seq(Item)
      /\ Len(SubSeq(list, 1, m - 1)) = (IF 1 <= m - 1 THEN (m - 1) - 1 + 1 ELSE 0)
      /\ \A i \in 1..((m - 1) - 1 + 1) : SubSeq(list, 1, m - 1)[i] = list[1 + i - 1]
  <2>1. \A i \in 1..(m - 1) : list[i] \in Item
    BY <1>0
  <2> QED  BY <1>0, <2>1, SubSeqProperties
<1>3. SubSeq(list, 1, m - 1) \o SubSeq(list, m, n) = list
  <2>1. 1 \in 1..(Len(list) + 1) /\ m - 1 \in (1 - 1)..Len(list) /\ n \in (m - 1)..Len(list)
        /\ (m - 1) + 1 = m
    BY <1>0
  <2>2. SubSeq(list, 1, m - 1) \o SubSeq(list, (m - 1) + 1, n) = SubSeq(list, 1, n)
    <3> HIDE DEF n
    <3> QED  BY <1>0, <2>1, ConcatAdjacentSubSeq
  <2> QED  BY <2>1, <2>2, SubSeqFull
<1> DEFINE front == SubSeq(list, 1, m - 1)
           back == SubSeq(list, m, n)
<1> HIDE DEF n
<1>4. (m <= n => Len(back) = n - m + 1) /\ (~(m <= n) => Len(back) = 0 /\ n - m + 1 = 0)
  BY <1>0, <1>1
<1>5. (1 <= m - 1 => Len(front) = m - 1) /\ (~(1 <= m - 1) => Len(front) = 0 /\ m - 1 = 0)
  BY <1>0, <1>2
<1>6. \A i \in 1..(m - 1) : i \in 1..((m - 1) - 1 + 1) /\ 1 + i - 1 = i
  BY <1>0
<1> QED
  <2>1. Len(front) = m - 1 /\ Len(back) = n - m + 1
    <3> HIDE DEF front, back
    <3> QED  BY <1>4, <1>5, <1>0
  <2> QED  BY <1>1, <1>2, <1>3, <1>6, <2>1 DEF n

-----------------------------------------------------------------------------
(* Types.                                                                  *)

\* The frame that ended a fragment is not before the one that began it, nor after
\* the clock; ids begin above a header's.
Types ==
    /\ TypeOK
    /\ nextId # 0
    /\ fragment # NoFragment => fragment.dts <= now
    /\ state \in {"writing", "listing"} => fragment.dts <= next.dts /\ next.dts <= now

LEMMA InitTypes == Init => Types
<1>1. <<>> \in Seq(Item) /\ <<>> \in Seq(Faults)
  OBVIOUS
<1>2. 1 \in 1..MaxTime /\ 1 \in 1..MaxSessions /\ 1 \in Nat /\ 1 # 0
  BY BoundAssumption
<1> SUFFICES ASSUME Init  PROVE Types
  OBVIOUS
<1>3. m3u8.entries = <<>>
  BY DEF Init, NoPlaylist
<1> QED  BY <1>1, <1>2, <1>3 DEF Init, Types, TypeOK, Faults

LEMMA NewItemType ==
  ASSUME Types, state = "listing"
  PROVE  /\ NewItem \in Item /\ ~IsHeader(NewItem) /\ NewItem.id = nextId
         /\ NewItem.id = fragment.id /\ NewItem.dts = fragment.dts /\ NewItem.key = fragment.key
         /\ NewItem.dts + NewItem.duration = next.dts
<1>1. /\ fragment \in Fragment /\ next \in Frame /\ fragment # NoFragment
      /\ fragment.dts <= next.dts /\ fragment.id = nextId /\ nextId # 0
  BY NoFragmentAssumption DEF Types, TypeOK
<1>2. next.dts - fragment.dts \in Nat /\ fragment.dts + (next.dts - fragment.dts) = next.dts
  BY <1>1 DEF Fragment, Frame
<1> QED  BY <1>1, <1>2 DEF NewItem, Item, IsHeader, Header, Fragment

LEMMA HeaderType == Header \in Item /\ IsHeader(Header)
BY DEF Header, Item, IsHeader

LEMMA DoomType ==
  ASSUME Types, NEW seq \in Seq(Item), NEW before \in Seq(Item), NEW after \in Seq(Item)
  PROVE  Doom(seq, before, after) \subseteq [id : Nat, due : Nat]
<1>1. \A s \in Seq(Item) : Ids(s) \subseteq Nat
  <2>1. ASSUME NEW s \in Seq(Item), NEW i \in DOMAIN s  PROVE s[i].id \in Nat
    <3>1. s[i] \in Item
      BY <2>1, LenProperties, ElementOfSeq
    <3> QED  BY <3>1 DEF Item
  <2> QED  BY <2>1 DEF Ids
<1>2. now + DeleteDelay \in Nat /\ doomed \subseteq [id : Nat, due : Nat]
  BY DurationAssumption, BoundAssumption DEF Types, TypeOK
<1> QED  BY <1>1, <1>2 DEF Doom

LEMMA NextFragmentKeeps ==
  ASSUME Types, state \in {"writing", "listing"}, NEW failed \in Seq(Faults),
         NextFragment(failed)
  PROVE  /\ nextId' = nextId + 1 /\ next' = NoFragment
         /\ fragment' \in Fragment /\ fragment' # NoFragment
         /\ fragment'.id = nextId + 1 /\ fragment'.dts = next.dts /\ fragment'.key = next.key
         /\ fragment'.filled \/ Failed("mux")'
         /\ faults' \in Seq(Faults)
         /\ Range(faults) \union Range(failed) \subseteq Range(faults')
<1>1. next \in Frame /\ nextId \in Nat /\ faults \in Seq(Faults)
  BY DEF Types, TypeOK, Faults
<1>2. Mux(NewFragment(nextId + 1, next), failed) /\ nextId' = nextId + 1 /\ next' = NoFragment
  BY DEF NextFragment
<1>3. /\ NewFragment(nextId + 1, next) \in Fragment
      /\ NewFragment(nextId + 1, next).id = nextId + 1
      /\ NewFragment(nextId + 1, next).dts = next.dts
      /\ NewFragment(nextId + 1, next).key = next.key
  BY <1>1, NewFragmentType
<1> QED  BY <1>1, <1>2, <1>3, MuxKeeps

\* The three ways a media frame goes: into the fragment, into a new one in place of
\* an empty one, or it ends the fragment.
LEMMA MediaFrameCases ==
  ASSUME Types, NEW key \in BOOLEAN, MediaFrame(key)
  PROVE  /\ state = "open" /\ ~complete /\ tracked # <<>>
         /\ UNCHANGED <<now, complete, playlist, tracked, files, m3u8, doomed, sessions,
                        removed>>
         /\ Range(faults) \subseteq Range(faults') /\ faults' \in Seq(Faults)
         /\ fragment' \in Fragment /\ fragment' # NoFragment /\ nextId' \in Nat
         /\ fragment'.id = nextId' /\ fragment'.dts <= now
         /\ nextId <= nextId'
         /\ \/ /\ state' = state /\ next' = next
               /\ fragment'.filled \/ Failed("mux")'
               /\ \/ fragment # NoFragment /\ nextId' = nextId
                        /\ fragment'.dts = fragment.dts /\ fragment'.key = fragment.key
                  \/ fragment # NoFragment /\ ~fragment.filled /\ nextId' < now + Lead + 1
                        /\ fragment'.dts = now /\ nextId' = nextId + 1
                        /\ fragment'.key = key
                  \/ fragment = NoFragment /\ nextId' < now + Lead + 1 /\ fragment'.dts = now
                        /\ nextId < nextId' /\ fragment'.key = key
            \/ /\ fragment # NoFragment /\ fragment' = fragment /\ nextId' = nextId
               /\ fragment.filled /\ faults' = faults /\ nextId < now + Lead
               /\ state' = "writing" /\ next' = [dts |-> now, key |-> key]
<1> DEFINE frame == [dts |-> now, key |-> key]
           f == IF fragment = NoFragment THEN NewFragment(nextId + 1, frame) ELSE fragment
           used == IF fragment = NoFragment THEN nextId + 1 ELSE nextId
<1>1. /\ now \in Nat /\ nextId \in Nat /\ faults \in Seq(Faults) /\ frame \in Frame
      /\ fragment \in Fragment \union {NoFragment} /\ Lead \in Nat
      /\ fragment # NoFragment => fragment.id = nextId /\ fragment.dts <= now
  BY BoundAssumption DEF Types, TypeOK, Faults, Frame
<1>2. /\ used \in Nat /\ f \in Fragment /\ f.id = used /\ f.dts <= now
      /\ fragment = NoFragment => ~f.filled /\ f.dts = now /\ f.key = key
  <2>1. CASE fragment = NoFragment
    <3>1. NewFragment(nextId + 1, frame) \in Fragment
          /\ NewFragment(nextId + 1, frame).id = nextId + 1
          /\ NewFragment(nextId + 1, frame).dts = frame.dts
          /\ NewFragment(nextId + 1, frame).key = frame.key
          /\ ~NewFragment(nextId + 1, frame).filled
      <4> HIDE DEF frame
      <4> QED  BY <1>1, NewFragmentType
    <3>2. frame.dts = now /\ frame.key = key
      OBVIOUS
    <3> HIDE DEF frame
    <3> QED  BY <1>1, <2>1, <3>1, <3>2
  <2>2. CASE fragment # NoFragment
    BY <1>1, <2>2
  <2> QED  BY <2>1, <2>2
<1>3. /\ state = "open" /\ ~complete /\ tracked # <<>> /\ used < now + Lead
      /\ UNCHANGED <<now, complete, playlist, tracked, files, m3u8, doomed, sessions,
                     removed>>
  BY DEF MediaFrame
<1>4. \/ /\ Mux(f, <<>>) /\ nextId' = used /\ UNCHANGED <<state, next>>
      \/ /\ ~f.filled /\ BeginsFragment(f, frame)
         /\ Mux(NewFragment(used + 1, frame), <<>>) /\ nextId' = used + 1
         /\ UNCHANGED <<state, next>>
      \/ /\ f.filled /\ state' = "writing" /\ next' = frame
         /\ UNCHANGED <<fragment, nextId, faults>>
  BY DEF MediaFrame
<1>5. <<>> \in Seq(Faults)
  OBVIOUS
<1> DEFINE g == NewFragment(used + 1, frame)
<1>6. g \in Fragment /\ g.id = used + 1 /\ g.dts = now /\ g.key = key
  <2>1. g \in Fragment /\ g.id = used + 1 /\ g.dts = frame.dts /\ g.key = frame.key
    <3>1. used + 1 \in Nat
      BY <1>2
    <3> HIDE DEF frame, used
    <3> QED  BY <1>1, <3>1, NewFragmentType
  <2> HIDE DEF g
  <2> QED  BY <2>1
<1>7. CASE Mux(f, <<>>) /\ nextId' = used /\ UNCHANGED <<state, next>>
  <2>1. /\ fragment' \in Fragment /\ fragment' # NoFragment
        /\ fragment'.id = f.id /\ fragment'.dts = f.dts /\ fragment'.key = f.key
        /\ fragment'.filled \/ Failed("mux")'
        /\ faults' \in Seq(Faults) /\ Range(faults) \subseteq Range(faults')
    <3> HIDE DEF f
    <3> QED  BY <1>1, <1>2, <1>5, <1>7, MuxKeeps
  <2>2. CASE fragment = NoFragment
    BY <1>1, <1>2, <1>3, <1>7, <2>1, <2>2
  <2>3. CASE fragment # NoFragment
    <3>1. f = fragment /\ used = nextId
      BY <2>3
    <3> HIDE DEF f, used, frame
    <3> QED  BY <1>1, <1>2, <1>3, <1>7, <2>1, <2>3, <3>1
  <2> QED  BY <2>2, <2>3
<1>8. CASE /\ ~f.filled /\ BeginsFragment(f, frame) /\ Mux(g, <<>>) /\ nextId' = used + 1
           /\ UNCHANGED <<state, next>>
  <2>1. /\ fragment' \in Fragment /\ fragment' # NoFragment
        /\ fragment'.id = g.id /\ fragment'.dts = g.dts /\ fragment'.key = g.key
        /\ fragment'.filled \/ Failed("mux")'
        /\ faults' \in Seq(Faults) /\ Range(faults) \subseteq Range(faults')
    <3> HIDE DEF g
    <3> QED  BY <1>1, <1>6, <1>5, <1>8, MuxKeeps
  <2>2. CASE fragment = NoFragment
    <3>1. used = nextId + 1
      BY <2>2
    <3> HIDE DEF f, used, frame, g
    <3> QED  BY <1>1, <1>3, <1>6, <1>8, <2>1, <2>2, <3>1
  <2>3. CASE fragment # NoFragment
    <3>1. f = fragment /\ used = nextId
      BY <2>3
    <3> HIDE DEF f, used, frame, g
    <3> QED  BY <1>1, <1>2, <1>3, <1>6, <1>8, <2>1, <2>3, <3>1
  <2> QED  BY <2>2, <2>3
<1>9. CASE /\ f.filled /\ state' = "writing" /\ next' = frame
           /\ UNCHANGED <<fragment, nextId, faults>>
  <2>1. fragment # NoFragment
    BY <1>2, <1>9
  <2>2. f = fragment /\ used = nextId
    BY <2>1
  <2> HIDE DEF f, used
  <2> QED  BY <1>1, <1>2, <1>3, <1>9, <2>1, <2>2
<1> QED  BY <1>4, <1>7, <1>8, <1>9

LEMMA MetaFrameTypes == Types /\ MetaFrame => Types'
<1> SUFFICES ASSUME Types, MetaFrame  PROVE Types'
  OBVIOUS
<1>1. tracked \in Seq(Item)
  BY DEF Types, TypeOK
<1>2. Append(tracked, Header) \in Seq(Item)
  BY <1>1, HeaderType, AppendProperties
<1>3. tracked' = Useful(Append(tracked, Header)) /\ tracked' \in Seq(Item)
  BY <1>2, UsefulKeeps DEF MetaFrame
<1>4. doomed' \subseteq [id : Nat, due : Nat]
  <2>1. doomed' = Doom(<<>>, Append(tracked, Header), tracked') /\ <<>> \in Seq(Item)
    BY DEF MetaFrame
  <2> QED  BY <1>2, <1>3, <2>1, DoomType
<1> QED  BY <1>3, <1>4 DEF MetaFrame, Types, TypeOK

LEMMA MediaFrameTypes == \A key \in BOOLEAN : Types /\ MediaFrame(key) => Types'
<1> SUFFICES ASSUME Types, NEW key \in BOOLEAN, MediaFrame(key)  PROVE Types'
  OBVIOUS
<1>1. /\ state = "open"
      /\ UNCHANGED <<now, complete, playlist, tracked, files, m3u8, doomed, sessions,
                     removed>>
      /\ faults' \in Seq(Faults) /\ fragment' \in Fragment /\ nextId' \in Nat
      /\ fragment'.id = nextId' /\ fragment'.dts <= now /\ nextId <= nextId'
      /\ \/ state' = state /\ next' = next
         \/ fragment' = fragment /\ state' = "writing" /\ next' = [dts |-> now, key |-> key]
  BY MediaFrameCases
<1>2. now \in Nat /\ next \in Frame \union {NoFragment} /\ nextId \in Nat /\ nextId # 0
  BY BoundAssumption DEF Types, TypeOK
<1>3. next' \in Frame \union {NoFragment}
      /\ (state' = "writing" => next' \in Frame /\ next'.dts = now)
  BY <1>1, <1>2 DEF Frame
<1>4. nextId' # 0
  BY <1>1, <1>2
<1> HIDE DEF Frame
<1> QED  BY <1>1, <1>3, <1>4 DEF Types, TypeOK, Faults

LEMMA WriteFileTypes == Types /\ WriteFile => Types'
<1> SUFFICES ASSUME Types, WriteFile  PROVE Types'
  OBVIOUS
<1>1. CASE /\ files' = files \union {fragment.id} /\ state' = "listing"
           /\ UNCHANGED <<fragment, nextId, next, faults>>
  <2>1. fragment.id \in Nat
    BY DEF WriteFile, Types, TypeOK, Fragment
  <2> QED  BY <1>1, <2>1 DEF WriteFile, Types, TypeOK
<1>2. CASE state' = "open" /\ UNCHANGED files /\ NextFragment(<<>>)
  <2>1. state = "writing" /\ next \in Frame /\ next.dts <= now /\ nextId \in Nat
    BY DEF WriteFile, Types, TypeOK
  <2>2. <<>> \in Seq(Faults)
    OBVIOUS
  <2>3. /\ nextId' = nextId + 1 /\ next' = NoFragment /\ fragment' \in Fragment
        /\ fragment'.id = nextId + 1 /\ fragment'.dts = next.dts /\ faults' \in Seq(Faults)
    BY <1>2, <2>1, <2>2, NextFragmentKeeps
  <2> QED  BY <1>2, <2>1, <2>3 DEF WriteFile, Types, TypeOK, Faults
<1> QED  BY <1>1, <1>2 DEF WriteFile

\* A failure of one operation is recorded.
LEMMA FailsOnce ==
  ASSUME Types, NEW what \in Faults, Fails(<<what>>)
  PROVE  faults' \in Seq(Faults) /\ Range(faults') = Range(faults) \union {what}
<1>1. <<what>> \in Seq(Faults) /\ faults \in Seq(Faults)
  BY DEF Types, TypeOK, Faults
<1>2. Range(<<what>>) = {what}
  BY RangeOfOne, Zenon
<1> QED  BY <1>1, <1>2, FailsRecords

LEMMA WriteFileFailsTypes == Types /\ WriteFileFails => Types'
<1> SUFFICES ASSUME Types, WriteFileFails  PROVE Types'
  OBVIOUS
<1>1. faults' \in Seq(Faults)
  BY FailsOnce DEF WriteFileFails, Faults
<1> QED  BY <1>1 DEF WriteFileFails, Types, TypeOK, Faults

\* What add_play_item makes of the lists when nothing fails before the removals.
LEMMA AddPlayItemTypes == Types /\ AddPlayItem => Types'
<1> SUFFICES ASSUME Types, AddPlayItem  PROVE Types'
  OBVIOUS
<1> DEFINE all == Append(playlist, NewItem)
           from == KeptFrom(all, next.dts)
           added == Append(tracked, NewItem)
           gone == SubSeq(all, 1, from - 1)
<1>1. state = "listing" /\ NewItem \in Item /\ playlist \in Seq(Item) /\ tracked \in Seq(Item)
  BY NewItemType DEF AddPlayItem, Types, TypeOK
<1>2. all \in Seq(Item) /\ added \in Seq(Item)
  BY <1>1, AppendProperties
<1>3. from \in 1..(Len(all) + 1)
  <2> HIDE DEF all
  <2> QED  BY <1>2, KeptFromIsCut
<1>4. gone \in Seq(Item) /\ SubSeq(all, from, Len(all)) \in Seq(Item)
  <2> HIDE DEF all, from
  <2> QED  BY <1>2, <1>3, CutInTwo
<1>5. playlist' = SubSeq(all, from, Len(all)) /\ tracked' = Without(added, gone)
      /\ doomed' = Doom(gone, added, tracked') /\ state' = "open"
      /\ removed' = (removed \/ from > 1)
      /\ UNCHANGED <<now, complete, files, sessions>>
  BY DEF AddPlayItem
<1>6. \/ m3u8' = [entries |-> tracked', ended |-> FALSE] /\ NextFragment(<<>>)
      \/ \E shown \in 0..(from - 2) :
            /\ m3u8' = [entries |-> Without(added, SubSeq(all, 1, shown)), ended |-> FALSE]
            /\ NextFragment(<<"m3u8">>)
  BY DEF AddPlayItem
<1> HIDE DEF all, from, added
<1>7. tracked' \in Seq(Item)
  BY <1>2, <1>4, <1>5, WithoutType
<1>8. doomed' \subseteq [id : Nat, due : Nat]
  BY <1>2, <1>4, <1>5, <1>7, DoomType
<1>9. m3u8'.entries \in Seq(Item)
  <2>1. CASE m3u8' = [entries |-> tracked', ended |-> FALSE]
    BY <1>7, <2>1
  <2>2. ASSUME NEW shown \in 0..(from - 2),
               m3u8' = [entries |-> Without(added, SubSeq(all, 1, shown)), ended |-> FALSE]
        PROVE  m3u8'.entries \in Seq(Item)
    <3>1. shown + 1 \in 1..(Len(all) + 1) /\ (shown + 1) - 1 = shown
      BY <1>2, <1>3
    <3>2. SubSeq(all, 1, shown) \in Seq(Item)
      <4>1. SubSeq(all, 1, (shown + 1) - 1) \in Seq(Item)
        BY <1>2, <3>1, CutInTwo
      <4> QED  BY <3>1, <4>1
    <3> QED  BY <1>2, <2>2, <3>2, WithoutType
  <2> QED  BY <1>6, <2>1, <2>2
<1>10. /\ nextId' = nextId + 1 /\ next' = NoFragment /\ fragment' \in Fragment
       /\ fragment'.id = nextId + 1 /\ fragment'.dts = next.dts /\ faults' \in Seq(Faults)
  <2>1. <<>> \in Seq(Faults) /\ <<"m3u8">> \in Seq(Faults)
    BY DEF Faults
  <2> QED  BY <1>1, <1>6, <2>1, NextFragmentKeeps
<1>11. nextId \in Nat /\ next \in Frame /\ next.dts <= now
  BY <1>1 DEF Types, TypeOK
<1>12. removed' \in BOOLEAN
  BY <1>5, Zenon
<1> QED  BY <1>4, <1>5, <1>7, <1>8, <1>9, <1>10, <1>11, <1>12 DEF Types, TypeOK, Faults

LEMMA AddPlayItemFailsTypes == Types /\ AddPlayItemFails => Types'
<1> SUFFICES ASSUME Types, AddPlayItemFails  PROVE Types'
  OBVIOUS
<1>1. faults' \in Seq(Faults)
  BY FailsOnce DEF AddPlayItemFails, Faults
<1>2. NewItem \in Item
  BY NewItemType DEF AddPlayItemFails
<1>3. playlist' \in Seq(Item) /\ tracked' \in Seq(Item)
  BY <1>2, AppendProperties DEF AddPlayItemFails, Types, TypeOK
<1> QED  BY <1>1, <1>3 DEF AddPlayItemFails, Types, TypeOK, Faults

LEMMA SessionTypes == Types /\ (Complete \/ Close \/ BeginSession \/ DeleteFile \/ Tick) => Types'
<1> SUFFICES ASSUME Types, Complete \/ Close \/ BeginSession \/ DeleteFile \/ Tick
             PROVE  Types'
  OBVIOUS
<1>1. CASE Complete
  BY <1>1 DEF Complete, Types, TypeOK
<1>2. CASE Close
  <2>1. faults' \in Seq(Faults)
    BY <1>2, FailsOnce DEF Close, Faults, Types, TypeOK
  <2>2. m3u8'.entries \in Seq(Item)
    BY <1>2 DEF Close, Types, TypeOK
  <2> QED  BY <1>2, <2>1, <2>2 DEF Close, Types, TypeOK, Faults
<1>3. CASE BeginSession
  <2>1. <<>> \in Seq(Item)
    OBVIOUS
  <2>2. now \in Nat /\ now # 0 /\ sessions + 1 \in 1..MaxSessions
    BY <1>3, BoundAssumption DEF BeginSession, Types, TypeOK
  <2>3. m3u8'.entries = <<>>
    BY <1>3 DEF BeginSession, NoPlaylist
  <2> QED  BY <1>3, <2>1, <2>2, <2>3 DEF BeginSession, Types, TypeOK, FirstId
<1>4. CASE DeleteFile
  BY <1>4 DEF DeleteFile, Types, TypeOK
<1>5. CASE Tick
  <2>1. now' \in 1..MaxTime /\ now <= now' /\ now \in Nat
    BY <1>5, BoundAssumption DEF Tick, Types, TypeOK
  <2>2. fragment # NoFragment => fragment.dts <= now'
    BY <2>1 DEF Types, TypeOK, Fragment
  <2>3. state \in {"writing", "listing"} => next.dts <= now'
    BY <2>1 DEF Types, TypeOK, Frame
  <2> QED  BY <1>5, <2>1, <2>2, <2>3 DEF Tick, Types, TypeOK
<1> QED  BY <1>1, <1>2, <1>3, <1>4, <1>5

LEMMA TypesStep == Types /\ [Next]_vars => Types'
<1> SUFFICES ASSUME Types, [Next]_vars  PROVE Types'
  OBVIOUS
<1>1. CASE UNCHANGED vars
  BY <1>1 DEF vars, Types, TypeOK
<1>2. CASE Next
  BY <1>2, MetaFrameTypes, MediaFrameTypes, WriteFileTypes, WriteFileFailsTypes,
     AddPlayItemTypes, AddPlayItemFailsTypes, SessionTypes DEF Next
<1> QED  BY <1>1, <1>2

LEMMA TypesInvariant == Spec => []Types
BY InitTypes, TypesStep, PTL DEF Spec

\* All the values of the session are of their types, for every setting, and a frame
\* that ends a fragment is never before the one that began it.
THEOREM TypeCorrect == Spec => []TypeOK
<1>1. Types => TypeOK
  BY DEF Types
<1> QED  BY <1>1, TypesInvariant, PTL

-----------------------------------------------------------------------------
(* The lists agree.                                                        *)

\* A fragment begins after the first header, so whatever list there are segments on
\* is headed by a header; the file shows the writer's list as long as its writes
\* succeed.
Lists ==
    /\ tracked # <<>> => Headed(tracked)
    /\ fragment # NoFragment => tracked # <<>>
    /\ Segments(tracked) = playlist
    /\ ~Failed("m3u8") => Segments(m3u8.entries) = playlist

LEMMA InitLists == Init => Lists
<1> SUFFICES ASSUME Init  PROVE Lists
  OBVIOUS
<1>1. m3u8.entries = <<>>
  BY DEF Init, NoPlaylist
<1> QED  BY <1>1, SegmentsOfEmpty DEF Init, Lists

LEMMA HeadedAppend ==
  ASSUME NEW list \in Seq(Item), NEW x \in Item,
         list # <<>> => Headed(list), list = <<>> => IsHeader(x)
  PROVE  Headed(Append(list, x))
<1>1. /\ Append(list, x) \in Seq(Item) /\ Append(list, x) # <<>>
      /\ \A i \in 1..Len(list) : Append(list, x)[i] = list[i]
      /\ Append(list, x)[Len(list) + 1] = x
  BY AppendProperties
<1>2. CASE list = <<>>
  <2>1. Len(list) = 0
    BY <1>2
  <2>2. Append(list, x)[1] = x
    BY <1>1, <2>1
  <2> QED  BY <1>1, <1>2, <2>2 DEF Headed
<1>3. CASE list # <<>>
  <2>1. 1 \in 1..Len(list)
    BY <1>3, EmptySeq
  <2>2. Append(list, x)[1] = list[1]
    BY <1>1, <2>1
  <2> QED  BY <1>1, <1>3, <2>2 DEF Headed
<1> QED  BY <1>2, <1>3

LEMMA MetaFrameLists == Types /\ Lists /\ MetaFrame => Lists'
<1> SUFFICES ASSUME Types, Lists, MetaFrame  PROVE Lists'
  OBVIOUS
<1> DEFINE added == Append(tracked, Header)
<1>1. tracked \in Seq(Item) /\ added \in Seq(Item)
  BY HeaderType, AppendProperties DEF Types, TypeOK
<1>2. Headed(added)
  BY <1>1, HeaderType, HeadedAppend DEF Lists
<1>3. Segments(added) = Segments(tracked)
  BY <1>1, HeaderType, SegmentsOfAppend DEF Added
<1>4. tracked' = Useful(added)
  BY DEF MetaFrame
<1> HIDE DEF added
<1>5. Headed(tracked') /\ Segments(tracked') = Segments(tracked)
  BY <1>1, <1>2, <1>3, <1>4, UsefulKeeps
<1>6. tracked' # <<>>
  BY <1>5 DEF Headed
<1> QED  BY <1>5, <1>6 DEF MetaFrame, Lists, Failed

LEMMA MediaFrameLists == \A key \in BOOLEAN : Types /\ Lists /\ MediaFrame(key) => Lists'
<1> SUFFICES ASSUME Types, Lists, NEW key \in BOOLEAN, MediaFrame(key)  PROVE Lists'
  OBVIOUS
<1>1. /\ tracked # <<>> /\ UNCHANGED <<playlist, tracked, m3u8>>
      /\ Range(faults) \subseteq Range(faults')
  BY MediaFrameCases
<1> QED  BY <1>1 DEF Lists, Failed

LEMMA WriteFileLists == Types /\ Lists /\ (WriteFile \/ WriteFileFails) => Lists'
<1> SUFFICES ASSUME Types, Lists, WriteFile \/ WriteFileFails  PROVE Lists'
  OBVIOUS
<1>1. CASE WriteFile
  <2>1. /\ state = "writing" /\ UNCHANGED <<playlist, tracked, m3u8>>
        /\ \/ UNCHANGED <<fragment, faults>>
           \/ NextFragment(<<>>)
    BY <1>1 DEF WriteFile
  <2>2. fragment # NoFragment
    BY <2>1, NoFragmentAssumption DEF Types, TypeOK
  <2>3. Range(faults) \subseteq Range(faults')
    <3>1. <<>> \in Seq(Faults)
      OBVIOUS
    <3> QED  BY <2>1, <3>1, NextFragmentKeeps
  <2> QED  BY <2>1, <2>2, <2>3 DEF Lists, Failed
<1>2. CASE WriteFileFails
  <2>1. Range(faults) \subseteq Range(faults')
    BY <1>2, FailsOnce DEF WriteFileFails, Faults
  <2> QED  BY <1>2, <2>1 DEF WriteFileFails, Lists, Failed
<1> QED  BY <1>1, <1>2

\* In "listing" the two lists take the item alike.
LEMMA ListsWithItem ==
  ASSUME Types, Lists, state = "listing"
  PROVE  /\ NewItem \in Item /\ playlist \in Seq(Item) /\ tracked \in Seq(Item)
         /\ Append(playlist, NewItem) \in Seq(Item) /\ Append(tracked, NewItem) \in Seq(Item)
         /\ Headed(Append(tracked, NewItem))
         /\ Segments(Append(tracked, NewItem)) = Append(playlist, NewItem)
<1>1. /\ NewItem \in Item /\ ~IsHeader(NewItem)
      /\ playlist \in Seq(Item) /\ tracked \in Seq(Item)
      /\ Segments(tracked) = playlist
  BY NewItemType DEF Types, TypeOK, Lists
<1>2. tracked # <<>> /\ Headed(tracked)
  BY NoFragmentAssumption DEF Types, TypeOK, Lists
<1>3. Headed(Append(tracked, NewItem))
  BY <1>1, <1>2, HeadedAppend
<1>4. Segments(Append(tracked, NewItem)) = Append(playlist, NewItem)
  BY <1>1, SegmentsOfAppend DEF Added
<1> QED  BY <1>1, <1>3, <1>4, AppendProperties

\* What add_play_item makes of the lists: it takes the new item and loses a group of
\* segments at its front, on the writer's list as in the session.
LEMMA AddPlayItemKeeps ==
  ASSUME Types, Lists, AddPlayItem
  PROVE  LET all  == Append(playlist, NewItem)
             from == KeptFrom(all, next.dts)
         IN  /\ state = "listing" /\ state' = "open" /\ all \in Seq(Item)
             /\ from \in 1..(Len(all) + 1)
             /\ playlist' = SubSeq(all, from, Len(all))
             /\ Headed(tracked') /\ Segments(tracked') = playlist'
             /\ doomed' = Doom(SubSeq(all, 1, from - 1), Append(tracked, NewItem), tracked')
             /\ removed' = (removed \/ from > 1)
             /\ \/ m3u8' = [entries |-> tracked', ended |-> FALSE]
                \/ Failed("m3u8")'
             /\ UNCHANGED <<now, complete, files, sessions>>
             /\ nextId' = nextId + 1 /\ next' = NoFragment
             /\ fragment' \in Fragment /\ fragment' # NoFragment
             /\ fragment'.id = nextId + 1 /\ fragment'.dts = next.dts
             /\ fragment'.key = next.key
             /\ fragment'.filled \/ Failed("mux")'
             /\ Range(faults) \subseteq Range(faults')
<1> DEFINE all == Append(playlist, NewItem)
           from == KeptFrom(all, next.dts)
           added == Append(tracked, NewItem)
           gone == SubSeq(all, 1, from - 1)
           kept == SubSeq(all, from, Len(all))
<1>1. state = "listing" /\ state' = "open"
  BY DEF AddPlayItem
<1>2. all \in Seq(Item) /\ added \in Seq(Item) /\ Headed(added) /\ Segments(added) = all
  BY <1>1, ListsWithItem
<1>3. from \in 1..(Len(all) + 1)
  <2> HIDE DEF all
  <2> QED  BY <1>2, KeptFromIsCut
<1>4. gone \in Seq(Item) /\ kept \in Seq(Item) /\ gone \o kept = all
  <2> HIDE DEF all, from
  <2> QED  BY <1>2, <1>3, CutInTwo
<1>5. /\ playlist' = kept /\ tracked' = Without(added, gone)
      /\ doomed' = Doom(gone, added, tracked')
      /\ removed' = (removed \/ from > 1)
      /\ UNCHANGED <<now, complete, files, sessions>>
  BY DEF AddPlayItem
<1>6. \/ m3u8' = [entries |-> tracked', ended |-> FALSE] /\ NextFragment(<<>>)
      \/ NextFragment(<<"m3u8">>)
  BY DEF AddPlayItem
<1>7. Headed(tracked') /\ Segments(tracked') = playlist'
  <2> HIDE DEF all, from, added, gone, kept
  <2> QED  BY <1>2, <1>4, <1>5, WithoutSegments
<1>8. <<>> \in Seq(Faults) /\ <<"m3u8">> \in Seq(Faults)
  BY DEF Faults
<1>9. /\ nextId' = nextId + 1 /\ next' = NoFragment
      /\ fragment' \in Fragment /\ fragment' # NoFragment
      /\ fragment'.id = nextId + 1 /\ fragment'.dts = next.dts
      /\ fragment'.key = next.key
      /\ fragment'.filled \/ Failed("mux")'
      /\ Range(faults) \subseteq Range(faults')
  BY <1>1, <1>6, <1>8, NextFragmentKeeps
<1>10. m3u8' = [entries |-> tracked', ended |-> FALSE] \/ Failed("m3u8")'
  <2>1. CASE NextFragment(<<"m3u8">>)
    <3>1. Range(<<"m3u8">>) \subseteq Range(faults')
      BY <1>1, <1>8, <2>1, NextFragmentKeeps
    <3>2. Range(<<"m3u8">>) = {"m3u8"}
      BY RangeOfOne, Zenon
    <3> QED  BY <3>1, <3>2 DEF Failed
  <2> QED  BY <1>6, <2>1
<1> HIDE DEF from, all, added
<1> QED  BY <1>1, <1>2, <1>3, <1>5, <1>7, <1>9, <1>10 DEF from, all, added

LEMMA AddPlayItemLists == Types /\ Lists /\ AddPlayItem => Lists'
<1> SUFFICES ASSUME Types, Lists, AddPlayItem  PROVE Lists'
  OBVIOUS
<1>1. /\ Headed(tracked') /\ Segments(tracked') = playlist'
      /\ m3u8' = [entries |-> tracked', ended |-> FALSE] \/ Failed("m3u8")'
  BY AddPlayItemKeeps
<1>2. ~Failed("m3u8")' => m3u8'.entries = tracked'
  BY <1>1
<1>3. tracked' # <<>>
  BY <1>1 DEF Headed
<1> QED  BY <1>1, <1>2, <1>3 DEF Lists

LEMMA AddPlayItemFailsLists == Types /\ Lists /\ AddPlayItemFails => Lists'
<1> SUFFICES ASSUME Types, Lists, AddPlayItemFails  PROVE Lists'
  OBVIOUS
<1>1. /\ playlist' = Append(playlist, NewItem) /\ tracked' = Append(tracked, NewItem)
      /\ state = "listing" /\ Fails(<<"m3u8">>) /\ UNCHANGED fragment
  BY DEF AddPlayItemFails
<1>2. Headed(tracked') /\ Segments(tracked') = playlist'
  BY <1>1, ListsWithItem
<1>3. Failed("m3u8")'
  BY <1>1, FailsOnce DEF Failed, Faults
<1>4. tracked' # <<>>
  BY <1>2 DEF Headed
<1> QED  BY <1>2, <1>3, <1>4 DEF Lists

LEMMA SessionLists == Types /\ Lists /\ (Complete \/ Close \/ BeginSession \/ DeleteFile \/ Tick) => Lists'
<1> SUFFICES ASSUME Types, Lists, Complete \/ Close \/ BeginSession \/ DeleteFile \/ Tick
             PROVE  Lists'
  OBVIOUS
<1>1. CASE Complete \/ DeleteFile \/ Tick
  BY <1>1 DEF Complete, DeleteFile, Tick, Lists, Failed
<1>2. CASE Close
  <2>1. CASE UNCHANGED faults /\ m3u8' = (IF tracked = <<>> THEN m3u8
                                          ELSE [entries |-> tracked, ended |-> TRUE])
    BY <1>2, <2>1 DEF Close, Lists, Failed
  <2>2. CASE Fails(<<"m3u8">>)
    <3>1. Failed("m3u8")'
      BY <2>2, FailsOnce DEF Failed, Faults
    <3> QED  BY <1>2, <3>1 DEF Close, Lists
  <2> QED  BY <1>2, <2>1, <2>2 DEF Close
<1>3. CASE BeginSession
  <2>1. m3u8'.entries = <<>>
    BY <1>3 DEF BeginSession, NoPlaylist
  <2> QED  BY <1>3, <2>1, SegmentsOfEmpty DEF BeginSession, Lists
<1> QED  BY <1>1, <1>2, <1>3

LEMMA ListsStep == Types /\ Lists /\ [Next]_vars => Lists'
<1> SUFFICES ASSUME Types, Lists, [Next]_vars  PROVE Lists'
  OBVIOUS
<1>1. CASE UNCHANGED vars
  BY <1>1 DEF vars, Lists, Failed
<1>2. CASE Next
  BY <1>2, MetaFrameLists, MediaFrameLists, WriteFileLists, AddPlayItemLists,
     AddPlayItemFailsLists, SessionLists DEF Next
<1> QED  BY <1>1, <1>2

LEMMA ListsInvariant == Spec => []Lists
BY InitLists, ListsStep, TypesInvariant, PTL DEF Spec

\* The session, the writer and the file agree on the segments, whatever headers lie
\* among them, whatever was removed and whatever failed before.
THEOREM SegmentsAgree == Spec => []ListsAgree
<1>1. Lists => ListsAgree
  <2> SUFFICES ASSUME Lists  PROVE ListsAgree
    OBVIOUS
  <2>1. tracked # <<>> => Head(tracked) = tracked[1]
    OBVIOUS
  <2> QED  BY <2>1 DEF Lists, ListsAgree, Headed
<1> QED  BY <1>1, ListsInvariant, PTL

-----------------------------------------------------------------------------
(* Segments have no gaps.                                                  *)

Successor(x, y) == y.id = x.id + 1 /\ y.dts = x.dts + x.duration

Consecutive(list) == \A i \in 1..(Len(list) - 1) : Successor(list[i], list[i + 1])

LEMMA ConsecutiveAppend ==
  ASSUME NEW list \in Seq(Item), NEW x \in Item, Consecutive(list),
         list # <<>> => Successor(list[Len(list)], x)
  PROVE  Consecutive(Append(list, x))
<1> DEFINE longer == Append(list, x)
           n == Len(list)
<1>1. /\ n \in Nat /\ Len(longer) = n + 1 /\ longer[n + 1] = x
      /\ \A i \in 1..n : longer[i] = list[i]
  BY AppendProperties
<1> HIDE DEF longer
<1>2. ASSUME NEW i \in 1..n  PROVE Successor(longer[i], longer[i + 1])
  <2>1. CASE i = n
    <3>1. list # <<>>
      BY <2>1, EmptySeq
    <3> QED  BY <1>1, <2>1, <3>1
  <2>2. CASE i # n
    <3>1. i \in 1..(n - 1) /\ i + 1 \in 1..n
      BY <1>1, <2>2
    <3>2. Successor(list[i], list[i + 1])
      BY <3>1 DEF Consecutive
    <3> QED  BY <1>1, <3>1, <3>2
  <2> QED  BY <2>1, <2>2
<1>3. Len(longer) - 1 = n
  BY <1>1
<1>4. Consecutive(longer)
  BY <1>2, <1>3 DEF Consecutive
<1> QED  BY <1>4 DEF longer

LEMMA ConsecutiveSuffix ==
  ASSUME NEW list \in Seq(Item), NEW m \in 1..(Len(list) + 1), Consecutive(list)
  PROVE  Consecutive(SubSeq(list, m, Len(list)))
<1> DEFINE n == Len(list)
           kept == SubSeq(list, m, n)
<1>1. /\ n \in Nat /\ m \in Nat /\ Len(kept) = n - m + 1
      /\ \A i \in 1..(n - m + 1) : kept[i] = list[m + i - 1]
  BY CutInTwo
<1> HIDE DEF kept
<1>2. ASSUME NEW i \in 1..(Len(kept) - 1)  PROVE Successor(kept[i], kept[i + 1])
  <2>1. /\ i \in 1..(n - m + 1) /\ i + 1 \in 1..(n - m + 1)
        /\ m + (i + 1) - 1 = (m + i - 1) + 1 /\ m + i - 1 \in 1..(n - 1)
    BY <1>1
  <2>2. Successor(list[m + i - 1], list[(m + i - 1) + 1])
    BY <2>1 DEF Consecutive
  <2> QED  BY <1>1, <2>1, <2>2
<1>3. Consecutive(kept)
  BY <1>2 DEF Consecutive
<1> QED  BY <1>3 DEF kept

\* The last item stays when not all are cut off.
LEMMA LastOfSuffix ==
  ASSUME NEW list \in Seq(Item), NEW m \in 1..(Len(list) + 1),
         SubSeq(list, m, Len(list)) # <<>>
  PROVE  /\ m <= Len(list)
         /\ SubSeq(list, m, Len(list))[Len(SubSeq(list, m, Len(list)))] = list[Len(list)]
<1> DEFINE n == Len(list)
           kept == SubSeq(list, m, n)
<1>1. /\ n \in Nat /\ m \in Nat /\ Len(kept) = n - m + 1 /\ kept \in Seq(Item)
      /\ \A i \in 1..(n - m + 1) : kept[i] = list[m + i - 1]
  BY CutInTwo
<1>2. Len(kept) \in Nat \ {0}
  <2> HIDE DEF kept
  <2> QED  BY <1>1, EmptySeq
<1> HIDE DEF kept, n
<1>3. m <= n /\ Len(kept) \in 1..(n - m + 1) /\ m + Len(kept) - 1 = n
  BY <1>1, <1>2
<1> QED  BY <1>1, <1>3 DEF kept, n

Sound == ~Failed("mux") /\ ~Failed("m3u8")

\* The open fragment follows the last segment, until a complete session has thrown
\* away the fragment it was to store: no segment follows then.
Abandoned == state = "open" /\ complete

Order ==
    /\ fragment = NoFragment => playlist = <<>>
    /\ Sound =>
          /\ fragment # NoFragment => fragment.filled
          /\ Consecutive(playlist)
          /\ playlist # <<>> /\ state # "ended" /\ ~Abandoned
                => Successor(playlist[Len(playlist)], fragment)

LEMMA InitOrder == Init => Order
BY DEF Init, Order, Abandoned, Consecutive

LEMMA NextOrder ==
  ASSUME Types, Lists, Order, Next
  PROVE  Order'
<1>0. /\ faults \in Seq(Faults) /\ playlist \in Seq(Item) /\ tracked \in Seq(Item)
      /\ state \in {"writing", "listing"} => fragment \in Fragment /\ fragment # NoFragment
  BY NoFragmentAssumption DEF Types, TypeOK, Faults
<1>1. CASE MetaFrame
  BY <1>1 DEF MetaFrame, Order, Abandoned, Sound, Failed
<1>2. ASSUME NEW key \in BOOLEAN, MediaFrame(key)  PROVE Order'
  <2>1. /\ state = "open" /\ ~complete /\ UNCHANGED <<playlist, complete>>
        /\ fragment' # NoFragment /\ Range(faults) \subseteq Range(faults')
        /\ \/ /\ state' = state
              /\ fragment'.filled \/ Failed("mux")'
              /\ \/ fragment # NoFragment /\ nextId' = nextId
                       /\ fragment'.dts = fragment.dts
                 \/ fragment # NoFragment /\ ~fragment.filled
                 \/ fragment = NoFragment
           \/ fragment # NoFragment /\ fragment' = fragment /\ state' = "writing"
        /\ fragment'.id = nextId'
    BY <1>2, MediaFrameCases
  <2>2. Sound' => Sound
    BY <2>1 DEF Sound, Failed
  <2>3. fragment # NoFragment => fragment.id = nextId
    BY DEF Types, TypeOK
  <2> SUFFICES ASSUME Sound'
               PROVE  /\ fragment'.filled /\ Consecutive(playlist)
                      /\ playlist # <<>> => Successor(playlist[Len(playlist)], fragment')
    BY <2>1 DEF Order, Abandoned
  <2>4. /\ fragment # NoFragment => fragment.filled
        /\ Consecutive(playlist)
        /\ playlist # <<>> => fragment # NoFragment /\ Successor(playlist[Len(playlist)], fragment)
    BY <2>1, <2>2 DEF Order, Abandoned
  <2>5. ~Failed("mux")'
    BY DEF Sound
  <2> QED  BY <2>1, <2>3, <2>4, <2>5 DEF Successor
<1>3. CASE WriteFile
  <2>1. CASE state' = "listing" /\ UNCHANGED <<fragment, nextId, next, faults>>
    BY <1>3, <2>1 DEF WriteFile, Order, Abandoned, Sound, Failed
  <2>2. CASE complete /\ state' = "open" /\ NextFragment(<<>>)
    <3>1. <<>> \in Seq(Faults)
      OBVIOUS
    <3>2. /\ fragment' # NoFragment
          /\ fragment'.filled \/ Failed("mux")'
          /\ Range(faults) \subseteq Range(faults')
      BY <1>3, <2>2, <3>1, NextFragmentKeeps DEF WriteFile
    <3>3. Sound' => Sound /\ ~Failed("mux")'
      BY <3>2 DEF Sound, Failed
    <3>4. complete' /\ UNCHANGED playlist
      BY <1>3, <2>2 DEF WriteFile
    <3>5. Sound' => Consecutive(playlist') /\ fragment'.filled
      BY <3>2, <3>3, <3>4 DEF Order, Abandoned
    <3>6. Abandoned'
      BY <2>2, <3>4, Zenon DEF Abandoned
    <3> QED  BY <3>2, <3>5, <3>6 DEF Order
  <2> QED  BY <1>3, <2>1, <2>2 DEF WriteFile
<1>4. CASE WriteFileFails
  <2>1. Range(faults) \subseteq Range(faults')
    BY <1>4, FailsOnce DEF WriteFileFails, Faults
  <2>2. Sound' => Sound
    BY <2>1 DEF Sound, Failed
  <2> QED  BY <1>4, <2>2 DEF WriteFileFails, Order, Abandoned
<1>5. CASE AddPlayItem
  <2> DEFINE all == Append(playlist, NewItem)
             from == KeptFrom(all, next.dts)
  <2>1. /\ state = "listing" /\ all \in Seq(Item) /\ from \in 1..(Len(all) + 1)
        /\ playlist' = SubSeq(all, from, Len(all))
        /\ nextId' = nextId + 1 /\ fragment' # NoFragment
        /\ fragment'.id = nextId + 1 /\ fragment'.dts = next.dts
        /\ fragment'.filled \/ Failed("mux")'
        /\ Range(faults) \subseteq Range(faults')
    BY <1>5, AddPlayItemKeeps
  <2>2. /\ NewItem \in Item /\ NewItem.id = nextId
        /\ NewItem.id = fragment.id /\ NewItem.dts = fragment.dts
        /\ NewItem.dts + NewItem.duration = next.dts
    BY <2>1, NewItemType
  <2>3. Len(all) = Len(playlist) + 1 /\ all[Len(all)] = NewItem
    BY <1>0, <2>2, AppendProperties
  <2> SUFFICES ASSUME Sound'
               PROVE  /\ fragment'.filled /\ Consecutive(playlist')
                      /\ playlist' # <<>> => Successor(playlist'[Len(playlist')], fragment')
    BY <2>1 DEF Order, Abandoned
  <2>4. Sound /\ ~Failed("mux")'
    BY <2>1 DEF Sound, Failed
  <2>5. Consecutive(all)
    <3>1. Consecutive(playlist)
          /\ (playlist # <<>> => Successor(playlist[Len(playlist)], NewItem))
      BY <2>1, <2>2, <2>4 DEF Order, Abandoned, Successor
    <3> QED  BY <1>0, <2>2, <3>1, ConsecutiveAppend
  <2> HIDE DEF all, from
  <2>6. Consecutive(playlist')
    BY <2>1, <2>5, ConsecutiveSuffix
  <2>7. playlist' # <<>> => playlist'[Len(playlist')] = NewItem
    BY <2>1, <2>3, LastOfSuffix
  <2> QED  BY <2>1, <2>2, <2>4, <2>6, <2>7 DEF Successor
<1>6. CASE AddPlayItemFails
  <2>1. Failed("m3u8")'
    BY <1>6, FailsOnce DEF AddPlayItemFails, Failed, Faults
  <2> QED  BY <1>0, <1>6, <2>1 DEF AddPlayItemFails, Order, Abandoned, Sound
<1>7. CASE Complete \/ DeleteFile \/ Tick
  BY <1>7 DEF Complete, DeleteFile, Tick, Order, Abandoned, Sound, Failed
<1>8. CASE Close
  <2>1. Range(faults) \subseteq Range(faults')
    BY <1>8, FailsOnce DEF Close, Faults
  <2>2. Sound' => Sound
    BY <2>1 DEF Sound, Failed
  <2> QED  BY <1>8, <2>2 DEF Close, Order, Abandoned
<1>9. CASE BeginSession
  BY <1>9 DEF BeginSession, Order, Abandoned, Consecutive
<1> QED
  BY <1>1, <1>2, <1>3, <1>4, <1>5, <1>6, <1>7, <1>8, <1>9 DEF Next

LEMMA OrderInvariant == Spec => []Order
<1>1. Types /\ Lists /\ Order /\ [Next]_vars => Order'
  <2> SUFFICES ASSUME Types, Lists, Order, [Next]_vars  PROVE Order'
    OBVIOUS
  <2>1. CASE UNCHANGED vars
    BY <2>1 DEF vars, Order, Abandoned, Sound, Failed
  <2> QED  BY <2>1, NextOrder
<1> QED  BY <1>1, InitOrder, TypesInvariant, ListsInvariant, PTL DEF Spec

\* The ids that EXT-X-MEDIA-SEQUENCE counts on have no gaps, nor has the time the
\* segments cover, for every pace of the frames, whatever files could not be written.
THEOREM NoGaps == Spec => []SegmentsConsecutive
<1>1. Order => SegmentsConsecutive
  BY DEF Order, Abandoned, Sound, Consecutive, Successor, SegmentsConsecutive
<1> QED  BY <1>1, OrderInvariant, PTL

-----------------------------------------------------------------------------
(* What trimming leaves.                                                   *)

\* A cut below the maximum is made at a keyframe, and a later segment, at a keyframe
\* as well, is what was too old: the second keyframe of what the cut before it leaves.
LEMMA CutAtKey ==
  ASSUME NEW list \in Seq(Item), NEW end \in Nat,
         Len(list) <= MaxFragments, KeptFrom(list, end) > 1
  PROVE  /\ KeptFrom(list, end) <= Len(list) /\ list[KeptFrom(list, end)].key
         /\ \E k \in KeptFrom(list, end)..Len(list) : end - list[k].dts > MinDuration
<1> DEFINE n == Len(list)
           from == KeptFrom(list, end)
           Before == {i \in Cuts(list) : i < from}
<1>0. n \in Nat /\ from \in 1..(n + 1) /\ from \in Cuts(list) /\ Cuts(list) \subseteq 1..(n + 1)
  <2>1. from \in Cuts(list) /\ from \in 1..(n + 1)
    BY KeptFromIsCut
  <2>2. n \in Nat
    OBVIOUS
  <2> HIDE DEF from
  <2> QED  BY <2>1, <2>2 DEF Cuts
<1> HIDE DEF from, n
<1>1. Before \in SUBSET (1..n) /\ Before # {}
  <2>1. 1 \in Before
    BY DEF from, Cuts
  <2>2. Before \subseteq 1..n
    BY <1>0
  <2> QED  BY <2>1, <2>2
<1> DEFINE c == Max(Before)
<1>2. c \in Before /\ \A i \in Before : i <= c
  <2> HIDE DEF Before
  <2> QED  BY <1>0, <1>1, MaxOfInterval
<1>3. c \in Cuts(list) /\ c < from /\ c \in 1..n
  BY <1>1, <1>2
<1> HIDE DEF c
<1> DEFINE rest == SubSeq(list, c, n)
           keys == {i \in DOMAIN rest : rest[i].key}
<1>4. OutOfDuration(rest, end)
  BY <1>3, KeptFromIsCut DEF from, n
<1>5. /\ rest \in Seq(Item) /\ Len(rest) = n - c + 1 /\ DOMAIN rest = 1..Len(rest)
      /\ \A i \in 1..(n - c + 1) : rest[i] = list[c + i - 1]
  <2>1. c \in 1..(Len(list) + 1)
    BY <1>0, <1>3 DEF n
  <2>2. /\ rest \in Seq(Item) /\ Len(rest) = n - c + 1
        /\ \A i \in 1..(n - c + 1) : rest[i] = list[c + i - 1]
    BY <2>1, CutInTwo DEF n
  <2> HIDE DEF rest
  <2> QED  BY <2>2, LenProperties
<1>6. /\ Cardinality(keys) > 1
      /\ end - rest[Min(keys \ {Min(keys)})].dts > MinDuration
  <2>1. ~(Len(rest) > MaxFragments)
    <3> HIDE DEF rest
    <3> QED  BY <1>0, <1>3, <1>5, LimitAssumption DEF n
  <2> HIDE DEF rest
  <2> QED  BY <1>4, <2>1 DEF OutOfDuration
<1> HIDE DEF rest
<1>7. keys \in SUBSET Nat /\ keys \subseteq 1..Len(rest) /\ Len(rest) \in Nat
  BY <1>0, <1>3, <1>5
<1> HIDE DEF keys
<1>8. keys # {}
  BY <1>6, FS_EmptySet
<1>9. Min(keys) \in keys /\ \A i \in keys : Min(keys) <= i
  BY <1>7, <1>8, MinOfNaturals
<1>10. keys \ {Min(keys)} # {}
  <2>1. PICK m : m = Min(keys)
    OBVIOUS
  <2>2. Cardinality({m}) = 1
    BY FS_Singleton
  <2>3. keys # {m}
    <3>1. SUFFICES ASSUME keys = {m}  PROVE FALSE
      OBVIOUS
    <3>2. Cardinality(keys) = 1
      BY <2>2, <3>1, Zenon
    <3> QED  BY <1>6, <3>2
  <2> QED  BY <1>9, <2>1, <2>3
<1> DEFINE q == Min(keys \ {Min(keys)})
<1>11. q \in keys \ {Min(keys)}
  BY <1>7, <1>10, MinOfNaturals
<1> HIDE DEF q
<1>12. q \in 2..Len(rest) /\ rest[q].key /\ end - rest[q].dts > MinDuration
  <2>1. q \in 1..Len(rest) /\ Min(keys) \in 1..Len(rest) /\ Min(keys) <= q /\ q # Min(keys)
    BY <1>7, <1>9, <1>11
  <2>2. rest[q].key
    BY <1>11 DEF keys
  <2> QED  BY <1>6, <1>7, <2>1, <2>2 DEF q
<1> DEFINE k == c + q - 1
<1>13. k \in Nat /\ k > c /\ k \in 2..n /\ list[k] = rest[q]
  BY <1>0, <1>3, <1>5, <1>12
<1> HIDE DEF k
<1>14. k \in Cuts(list)
  BY <1>12, <1>13 DEF Cuts, n
<1>15. from <= k
  <2>1. SUFFICES ASSUME k < from  PROVE FALSE
    BY <1>0, <1>13
  <2>2. k \in Before
    BY <1>14, <2>1
  <2> HIDE DEF Before
  <2> QED  BY <1>2, <1>3, <1>13, <2>2
<1>16. from <= n /\ from # 1 /\ from # n + 1
  BY <1>0, <1>13, <1>15 DEF from
<1>17. list[from].key
  BY <1>0, <1>16 DEF Cuts, n
<1>18. k \in from..n /\ end - list[k].dts > MinDuration
  BY <1>0, <1>12, <1>13, <1>15
<1> QED  BY <1>16, <1>17, <1>18 DEF from, n

\* The end of a play list in time.
EndOf(list) == list[Len(list)].dts + list[Len(list)].duration

Rising(list) == \A i, j \in 1..Len(list) : i <= j => list[i].dts <= list[j].dts

\* Time only goes on along the play list, whatever has failed: a fragment that is
\* listed again, because the file could not be written, begins where it began.
Times ==
    /\ fragment = NoFragment => playlist = <<>>
    /\ Rising(playlist)
    /\ playlist # <<>> =>
          /\ playlist[Len(playlist)].dts <= fragment.dts
          /\ EndOf(playlist) <= now
          /\ state \in {"writing", "listing"} => EndOf(playlist) <= next.dts
    /\ NothingToTrim

LEMMA RisingAppend ==
  ASSUME NEW list \in Seq(Item), NEW x \in Item, Rising(list),
         list # <<>> => list[Len(list)].dts <= x.dts
  PROVE  Rising(Append(list, x))
<1> DEFINE longer == Append(list, x)
           n == Len(list)
<1>1. /\ n \in Nat /\ Len(longer) = n + 1 /\ longer[n + 1] = x
      /\ \A i \in 1..n : longer[i] = list[i]
  BY AppendProperties
<1>2. x.dts \in Nat /\ \A i \in 1..n : list[i].dts \in Nat
  <2>1. \A i \in 1..n : list[i] \in Item
    BY ElementOfSeq
  <2> HIDE DEF n
  <2> QED  BY <2>1 DEF Item
<1> HIDE DEF longer
<1>3. ASSUME NEW i \in 1..(n + 1), NEW j \in 1..(n + 1), i <= j
      PROVE  longer[i].dts <= longer[j].dts
  <2>1. CASE j = n + 1 /\ i = n + 1
    BY <1>1, <1>2, <2>1
  <2>2. CASE j = n + 1 /\ i # n + 1
    <3>1. i \in 1..n /\ n \in 1..n
      BY <1>1, <2>2
    <3>2. list # <<>>
      BY <3>1, EmptySeq
    <3>3. list[i].dts <= list[n].dts /\ list[n].dts <= x.dts
      BY <1>1, <3>1, <3>2 DEF Rising
    <3>4. list[i].dts <= x.dts
      BY <1>2, <3>1, <3>3
    <3> QED  BY <1>1, <2>2, <3>1, <3>4
  <2>3. CASE j # n + 1
    <3>1. i \in 1..n /\ j \in 1..n
      BY <1>1, <1>3, <2>3
    <3> QED  BY <1>1, <1>3, <3>1 DEF Rising
  <2> QED  BY <2>1, <2>2, <2>3
<1>4. Rising(longer)
  BY <1>1, <1>3 DEF Rising
<1> QED  BY <1>4 DEF longer

LEMMA RisingSuffix ==
  ASSUME NEW list \in Seq(Item), NEW m \in 1..(Len(list) + 1), Rising(list)
  PROVE  Rising(SubSeq(list, m, Len(list)))
<1> DEFINE n == Len(list)
           kept == SubSeq(list, m, n)
<1>1. /\ n \in Nat /\ m \in Nat /\ Len(kept) = n - m + 1
      /\ \A i \in 1..(n - m + 1) : kept[i] = list[m + i - 1]
  BY CutInTwo
<1> HIDE DEF kept
<1>2. ASSUME NEW i \in 1..Len(kept), NEW j \in 1..Len(kept), i <= j
      PROVE  kept[i].dts <= kept[j].dts
  <2>1. /\ i \in 1..(n - m + 1) /\ j \in 1..(n - m + 1)
        /\ m + i - 1 \in 1..n /\ m + j - 1 \in 1..n /\ m + i - 1 <= m + j - 1
    BY <1>1, <1>2
  <2>2. list[m + i - 1].dts <= list[m + j - 1].dts
    BY <2>1 DEF Rising
  <2> QED  BY <1>1, <2>1, <2>2
<1>3. Rising(kept)
  BY <1>2 DEF Rising
<1> QED  BY <1>3 DEF kept

LEMMA InitTimes == Init => Times
BY DEF Init, Times, Rising, NothingToTrim

\* What the item just added says of the list it ends.
LEMMA ItemEnds ==
  ASSUME Types, Times, state = "listing"
  PROVE  LET all == Append(playlist, NewItem)
         IN  /\ all \in Seq(Item) /\ all # <<>> /\ Rising(all)
             /\ Len(all) = Len(playlist) + 1 /\ Len(playlist) \in Nat
             /\ \A i \in 1..Len(playlist) : all[i] = playlist[i]
             /\ all[Len(all)] = NewItem
             /\ NewItem.dts = fragment.dts /\ NewItem.dts + NewItem.duration = next.dts
             /\ fragment.dts <= next.dts /\ next.dts <= now
<1>1. /\ NewItem \in Item /\ playlist \in Seq(Item)
      /\ NewItem.dts = fragment.dts /\ NewItem.dts + NewItem.duration = next.dts
      /\ fragment.dts <= next.dts /\ next.dts <= now
  BY NewItemType DEF Types, TypeOK
<1>2. Rising(Append(playlist, NewItem))
  BY <1>1, RisingAppend DEF Times
<1>3. /\ Append(playlist, NewItem) \in Seq(Item) /\ Append(playlist, NewItem) # <<>>
      /\ Len(Append(playlist, NewItem)) = Len(playlist) + 1
      /\ \A i \in 1..Len(playlist) : Append(playlist, NewItem)[i] = playlist[i]
      /\ Append(playlist, NewItem)[Len(playlist) + 1] = NewItem
  BY <1>1, AppendProperties
<1> QED  BY <1>1, <1>2, <1>3

LEMMA NextTimes ==
  ASSUME Types, Lists, Times, Next
  PROVE  Times'
<1>0. /\ playlist \in Seq(Item)
      /\ state \in {"writing", "listing"} => fragment \in Fragment /\ fragment # NoFragment
      /\ now \in Nat
      /\ fragment # NoFragment => fragment.dts \in Nat
      /\ state \in {"writing", "listing"} => next \in Frame
  BY NoFragmentAssumption DEF Types, TypeOK, Fragment
<1>i. \A i \in 1..Len(playlist) : /\ playlist[i].dts \in Nat /\ playlist[i].duration \in Nat
  <2>1. \A i \in 1..Len(playlist) : playlist[i] \in Item
    BY <1>0, ElementOfSeq
  <2> QED  BY <2>1 DEF Item
<1>l. playlist # <<>> => Len(playlist) \in 1..Len(playlist)
  BY <1>0, EmptySeq
<1>1. CASE MetaFrame
  BY <1>1 DEF MetaFrame, Times, EndOf, NothingToTrim, Failed
<1>2. ASSUME NEW key \in BOOLEAN, MediaFrame(key)  PROVE Times'
  <2>1. /\ state = "open" /\ UNCHANGED <<playlist, now>>
        /\ fragment' # NoFragment /\ Range(faults) \subseteq Range(faults')
        /\ fragment' \in Fragment
        /\ \/ /\ state' = state
              /\ \/ fragment # NoFragment /\ fragment'.dts = fragment.dts
                 \/ fragment # NoFragment /\ fragment'.dts = now
                 \/ fragment = NoFragment
           \/ /\ fragment # NoFragment /\ fragment' = fragment /\ state' = "writing"
              /\ next' = [dts |-> now, key |-> key]
    BY <1>2, MediaFrameCases
  <2>2. NothingToTrim'
    BY <2>1 DEF Times, NothingToTrim, Failed
  <2>3. fragment # NoFragment => fragment.dts <= fragment'.dts
    BY <1>0, <2>1 DEF Types
  <2>4. playlist # <<>> => playlist[Len(playlist)].dts <= fragment'.dts
    BY <1>0, <1>i, <1>l, <2>1, <2>3 DEF Times, Fragment
  <2>5. state' \in {"writing", "listing"} => next'.dts = now
    BY <2>1
  <2> QED  BY <2>1, <2>2, <2>4, <2>5 DEF Times, EndOf
<1>3. CASE WriteFile
  <2>1. CASE state' = "listing" /\ UNCHANGED <<fragment, nextId, next, faults>>
    BY <1>3, <2>1 DEF WriteFile, Times, EndOf, NothingToTrim, Failed
  <2>2. CASE complete /\ state' = "open" /\ NextFragment(<<>>)
    <3>1. <<>> \in Seq(Faults)
      OBVIOUS
    <3>2. /\ fragment' # NoFragment /\ fragment'.dts = next.dts
          /\ Range(faults) \subseteq Range(faults')
      BY <1>3, <2>2, <3>1, NextFragmentKeeps DEF WriteFile
    <3>3. state = "writing" /\ fragment.dts <= next.dts /\ next.dts \in Nat
          /\ UNCHANGED <<playlist, now>>
      BY <1>0, <1>3 DEF WriteFile, Types, Frame
    <3>4. NothingToTrim'
      BY <3>2, <3>3 DEF Times, NothingToTrim, Failed
    <3>5. playlist # <<>> => playlist[Len(playlist)].dts <= next.dts
      BY <1>0, <1>i, <1>l, <3>3 DEF Times
    <3> QED  BY <2>2, <3>2, <3>3, <3>4, <3>5 DEF Times, EndOf
  <2> QED  BY <1>3, <2>1, <2>2 DEF WriteFile
<1>4. CASE WriteFileFails
  <2>1. Range(faults) \subseteq Range(faults')
    BY <1>4, FailsOnce DEF WriteFileFails, Faults
  <2> QED  BY <1>4, <2>1 DEF WriteFileFails, Times, EndOf, NothingToTrim, Failed
<1>5. CASE AddPlayItem
  <2> DEFINE all == Append(playlist, NewItem)
             from == KeptFrom(all, next.dts)
  <2>1. /\ state = "listing" /\ state' = "open" /\ from \in 1..(Len(all) + 1)
        /\ playlist' = SubSeq(all, from, Len(all)) /\ UNCHANGED now
        /\ fragment' # NoFragment /\ fragment'.dts = next.dts
    BY <1>5, AddPlayItemKeeps
  <2>2. /\ all \in Seq(Item) /\ Rising(all) /\ all[Len(all)] = NewItem
        /\ NewItem.dts = fragment.dts /\ NewItem.dts + NewItem.duration = next.dts
        /\ fragment.dts <= next.dts /\ next.dts <= now
    BY <2>1, ItemEnds
  <2>3. ~OutOfDuration(SubSeq(all, from, Len(all)), next.dts)
    <3> HIDE DEF all
    <3> QED  BY <2>2, KeptFromIsCut
  <2> HIDE DEF all, from
  <2>4. Rising(playlist')
    BY <2>1, <2>2, RisingSuffix
  <2>5. playlist' # <<>> => playlist'[Len(playlist')] = NewItem
    BY <2>1, <2>2, LastOfSuffix
  <2>6. playlist' # <<>> => EndOf(playlist') = next.dts
    BY <2>2, <2>5 DEF EndOf
  <2>7. NothingToTrim'
    <3>1. Last(playlist') = playlist'[Len(playlist')]
      BY DEF Last
    <3> QED  BY <2>1, <2>2, <2>3, <2>5, <3>1 DEF NothingToTrim
  <2> QED  BY <2>1, <2>2, <2>4, <2>5, <2>6, <2>7 DEF Times, EndOf
<1>6. CASE AddPlayItemFails
  <2>1. Failed("m3u8")'
    BY <1>6, FailsOnce DEF AddPlayItemFails, Failed, Faults
  <2>2. /\ state = "listing" /\ state' = "open" /\ playlist' = Append(playlist, NewItem)
        /\ UNCHANGED <<now, fragment>>
    BY <1>6 DEF AddPlayItemFails
  <2>3. /\ Rising(playlist') /\ playlist'[Len(playlist')] = NewItem
        /\ NewItem.dts = fragment.dts /\ NewItem.dts + NewItem.duration = next.dts
        /\ next.dts <= now
    BY <2>2, ItemEnds
  <2>4. fragment.dts \in Nat /\ fragment # NoFragment
    BY <1>0, <2>2
  <2> QED  BY <2>1, <2>2, <2>3, <2>4 DEF Times, EndOf, NothingToTrim
<1>7. CASE Complete \/ DeleteFile
  BY <1>7 DEF Complete, DeleteFile, Times, EndOf, NothingToTrim, Failed
<1>8. CASE Tick
  <2>1. now' = now + 1 /\ UNCHANGED <<playlist, fragment, state, next, faults>>
    BY <1>8 DEF Tick
  <2>2. playlist # <<>> => EndOf(playlist) <= now'
    BY <1>0, <1>i, <1>l, <2>1 DEF Times, EndOf
  <2> QED  BY <2>1, <2>2 DEF Times, EndOf, NothingToTrim, Failed
<1>9. CASE Close
  <2>1. Range(faults) \subseteq Range(faults')
    BY <1>9, FailsOnce DEF Close, Faults
  <2> QED  BY <1>9, <2>1 DEF Close, Times, EndOf, NothingToTrim, Failed
<1>10. CASE BeginSession
  BY <1>10 DEF BeginSession, Times, Rising, NothingToTrim
<1> QED
  BY <1>1, <1>2, <1>3, <1>4, <1>5, <1>6, <1>7, <1>8, <1>9, <1>10 DEF Next

LEMMA TimesInvariant == Spec => []Times
<1>1. Types /\ Lists /\ Times /\ [Next]_vars => Times'
  <2> SUFFICES ASSUME Types, Lists, Times, [Next]_vars  PROVE Times'
    OBVIOUS
  <2>1. CASE UNCHANGED vars
    BY <2>1 DEF vars, Times, EndOf, NothingToTrim, Failed
  <2> QED  BY <2>1, NextTimes
<1> QED  BY <1>1, InitTimes, TypesInvariant, ListsInvariant, PTL DEF Spec

\* Below the maximum: the list never has to lose segments for their number alone.
BelowLimit == Len(playlist) < MaxFragments

Trimmed ==
    removed => /\ playlist # <<>> /\ playlist[1].key
               /\ EndOf(playlist) - playlist[1].dts >= MinDuration

\* The cut of add_play_item, if there is one.
LEMMA AddPlayItemCuts ==
  ASSUME Types, Times, BelowLimit, state = "listing"
  PROVE  LET all  == Append(playlist, NewItem)
             from == KeptFrom(all, next.dts)
         IN  from > 1 =>
                /\ from \in 2..Len(all) /\ all[from].key
                /\ \E k \in from..Len(all) : next.dts - all[k].dts > MinDuration
<1> DEFINE all == Append(playlist, NewItem)
           from == KeptFrom(all, next.dts)
<1>1. all \in Seq(Item) /\ Len(all) = Len(playlist) + 1 /\ Len(playlist) \in Nat
  BY ItemEnds
<1>2. next.dts \in Nat
  BY DEF Types, TypeOK, Frame
<1>3. Len(all) <= MaxFragments
  <2> HIDE DEF all
  <2> QED  BY <1>1, LimitAssumption DEF BelowLimit
<1>4. from \in 1..(Len(all) + 1)
  <2> HIDE DEF all
  <2> QED  BY <1>1, KeptFromIsCut
<1>5. from > 1 => /\ from <= Len(all) /\ all[from].key
                  /\ \E k \in from..Len(all) : next.dts - all[k].dts > MinDuration
  <2> HIDE DEF all
  <2> QED  BY <1>1, <1>2, <1>3, CutAtKey
<1>6. from > 1 => from \in 2..Len(all)
  <2> HIDE DEF all, from
  <2> QED  BY <1>1, <1>4, <1>5
<1> HIDE DEF all, from
<1> QED  BY <1>5, <1>6 DEF all, from

LEMMA NextTrimmed ==
  ASSUME Types, Lists, Times, BelowLimit, Trimmed, Next
  PROVE  Trimmed'
<1>1. CASE AddPlayItem
  <2> DEFINE all == Append(playlist, NewItem)
             from == KeptFrom(all, next.dts)
             n == Len(all)
  <2>1. /\ state = "listing" /\ from \in 1..(n + 1)
        /\ playlist' = SubSeq(all, from, n) /\ removed' = (removed \/ from > 1)
    BY <1>1, AddPlayItemKeeps
  <2>2. /\ all \in Seq(Item) /\ Rising(all) /\ all[n] = NewItem /\ n \in Nat
        /\ n = Len(playlist) + 1 /\ \A i \in 1..Len(playlist) : all[i] = playlist[i]
        /\ NewItem.dts + NewItem.duration = next.dts
    BY <2>1, ItemEnds
  <2>3. from > 1 => /\ from \in 2..n /\ all[from].key
                    /\ \E k \in from..n : next.dts - all[k].dts > MinDuration
    BY <2>1, AddPlayItemCuts
  <2>4. \A i \in 1..n : all[i].dts \in Nat
    <3>1. \A i \in 1..n : all[i] \in Item
      BY <2>2, ElementOfSeq
    <3> HIDE DEF all
    <3> QED  BY <3>1 DEF Item
  <2>5. next.dts \in Nat /\ MinDuration \in Nat /\ playlist \in Seq(Item)
    BY <2>1, DurationAssumption DEF Types, TypeOK, Frame
  <2>6. playlist' # <<>> => EndOf(playlist') = next.dts
    <3> HIDE DEF all, from
    <3> QED  BY <2>1, <2>2, LastOfSuffix DEF EndOf
  <2> HIDE DEF all, from
  <2>7. /\ Len(playlist') = n - from + 1 /\ playlist' \in Seq(Item)
        /\ \A i \in 1..(n - from + 1) : playlist'[i] = all[from + i - 1]
    BY <2>1, <2>2, CutInTwo
  <2> HIDE DEF n
  <2>8. CASE from > 1
    <3>1. PICK k \in from..n : next.dts - all[k].dts > MinDuration
      BY <2>3, <2>8
    <3>2. /\ 1 \in 1..(n - from + 1) /\ from + 1 - 1 = from /\ n - from + 1 # 0
          /\ from \in 1..n /\ k \in 1..n /\ from <= k
      BY <2>1, <2>2, <2>3, <2>8
    <3>3. playlist' # <<>> /\ playlist'[1] = all[from]
      BY <2>7, <3>2, EmptySeq
    <3>4. all[from].dts <= all[k].dts
      <4>1. Rising(all)
        BY <2>2
      <4> QED  BY <3>2, <4>1 DEF Rising, n
    <3>5. next.dts - all[from].dts >= MinDuration
      BY <2>4, <2>5, <3>1, <3>2, <3>4
    <3> QED  BY <2>3, <2>6, <2>8, <3>3, <3>5 DEF Trimmed
  <2>9. CASE ~(from > 1)
    <3>1. from = 1 /\ n - from + 1 = n
      BY <2>1, <2>2, <2>9
    <3>2. SUFFICES ASSUME removed
                   PROVE  /\ playlist' # <<>> /\ playlist'[1].key
                          /\ EndOf(playlist') - playlist'[1].dts >= MinDuration
      BY <2>1, <2>9, Zenon DEF Trimmed
    <3>3. /\ playlist # <<>> /\ playlist[1].key
          /\ EndOf(playlist) - playlist[1].dts >= MinDuration
      BY <3>2 DEF Trimmed
    <3>4. Len(playlist) \in Nat \ {0}
      BY <2>5, <3>3, EmptySeq
    <3>5. /\ 1 \in 1..n /\ 1 \in 1..Len(playlist) /\ 1 + 1 - 1 = 1 /\ n # 0
          /\ Len(playlist) \in 1..Len(playlist)
      BY <2>2, <3>4
    <3>6. playlist'[1] = playlist[1] /\ playlist' # <<>>
      BY <2>2, <2>7, <3>1, <3>5, EmptySeq
    <3>7. EndOf(playlist) <= next.dts
      BY <2>1, <3>3 DEF Times
    <3>8. EndOf(playlist) \in Nat /\ playlist[1].dts \in Nat
      <4>1. playlist[1] \in Item /\ playlist[Len(playlist)] \in Item
        BY <2>5, <3>5, ElementOfSeq
      <4> QED  BY <4>1 DEF EndOf, Item
    <3>9. EndOf(playlist') - playlist'[1].dts >= MinDuration
      BY <2>5, <2>6, <3>3, <3>6, <3>7, <3>8
    <3> QED  BY <3>3, <3>6, <3>9
  <2> QED  BY <2>8, <2>9
<1>2. CASE AddPlayItemFails
  <2> DEFINE all == Append(playlist, NewItem)
  <2>1. state = "listing" /\ playlist' = all /\ removed' = removed
    BY <1>2 DEF AddPlayItemFails
  <2>2. /\ all # <<>> /\ all[Len(all)] = NewItem
        /\ \A i \in 1..Len(playlist) : all[i] = playlist[i]
        /\ NewItem.dts + NewItem.duration = next.dts
    BY <2>1, ItemEnds
  <2>3. next.dts \in Nat /\ MinDuration \in Nat /\ playlist \in Seq(Item)
    BY <2>1, DurationAssumption DEF Types, TypeOK, Frame
  <2> HIDE DEF all
  <2>4. SUFFICES ASSUME removed
                 PROVE  playlist'[1].key /\ EndOf(playlist') - playlist'[1].dts >= MinDuration
    BY <2>1, <2>2 DEF Trimmed
  <2>5. /\ playlist # <<>> /\ playlist[1].key
        /\ EndOf(playlist) - playlist[1].dts >= MinDuration
    BY <2>4 DEF Trimmed
  <2>6. 1 \in 1..Len(playlist) /\ Len(playlist) \in 1..Len(playlist)
    BY <2>3, <2>5, EmptySeq
  <2>7. playlist'[1] = playlist[1] /\ EndOf(playlist') = next.dts
    BY <2>1, <2>2, <2>6 DEF EndOf
  <2>8. EndOf(playlist) <= next.dts
    BY <2>1, <2>5 DEF Times
  <2>9. EndOf(playlist) \in Nat /\ playlist[1].dts \in Nat
    <3>1. playlist[1] \in Item /\ playlist[Len(playlist)] \in Item
      BY <2>3, <2>6, ElementOfSeq
    <3> QED  BY <3>1 DEF EndOf, Item
  <2> QED  BY <2>3, <2>5, <2>7, <2>8, <2>9
<1>3. ASSUME NEW key \in BOOLEAN, MediaFrame(key)  PROVE Trimmed'
  BY <1>3, MediaFrameCases DEF Trimmed, EndOf
<1>4. CASE BeginSession
  BY <1>4 DEF BeginSession, Trimmed
<1>5. CASE \/ MetaFrame \/ WriteFile \/ WriteFileFails \/ Complete \/ Close \/ DeleteFile \/ Tick
  <2>1. UNCHANGED <<playlist, removed>>
    BY <1>5 DEF MetaFrame, WriteFile, WriteFileFails, Complete, Close, DeleteFile, Tick
  <2> QED  BY <2>1 DEF Trimmed, EndOf
<1> QED  BY <1>1, <1>2, <1>3, <1>4, <1>5 DEF Next

LEMMA TrimmedInvariant == Spec /\ []BelowLimit => []Trimmed
<1>1. Init => Trimmed
  BY DEF Init, Trimmed
<1>2. Types /\ Lists /\ Times /\ BelowLimit /\ Trimmed /\ [Next]_vars => Trimmed'
  <2> SUFFICES ASSUME Types, Lists, Times, BelowLimit, Trimmed, [Next]_vars  PROVE Trimmed'
    OBVIOUS
  <2>1. CASE UNCHANGED vars
    BY <2>1 DEF vars, Trimmed, EndOf
  <2> QED  BY <2>1, NextTrimmed
<1> QED  BY <1>1, <1>2, TypesInvariant, ListsInvariant, TimesInvariant, PTL DEF Spec

\* As long as the list stays below the maximum, a trimmed list begins at a keyframe.
THEOREM TrimsToKeyframe == Spec /\ []BelowLimit => []TrimmedStartsWithKey
<1>1. Types /\ Trimmed => TrimmedStartsWithKey
  <2> SUFFICES ASSUME Types, Trimmed  PROVE TrimmedStartsWithKey
    OBVIOUS
  <2>1. playlist # <<>> => Head(playlist) = playlist[1]
    BY DEF Types, TypeOK
  <2> QED  BY <2>1 DEF Trimmed, TrimmedStartsWithKey
<1> QED  BY <1>1, TypesInvariant, TrimmedInvariant, PTL

\* As long as the list stays below the maximum, trimming leaves the duration the list
\* must have; that it leaves nothing that could go holds in any case.
THEOREM TrimsExactly == Spec /\ []BelowLimit => []TrimmedExactly
<1>1. Types /\ Times /\ Trimmed => TrimmedExactly
  <2> SUFFICES ASSUME Types, Times, Trimmed  PROVE TrimmedExactly
    OBVIOUS
  <2>1. playlist # <<>> => Head(playlist) = playlist[1] /\ Last(playlist) = playlist[Len(playlist)]
    BY DEF Types, TypeOK, Last
  <2>2. MinDurationKept
    <3>1. playlist # <<>> => PlaylistDuration(playlist) = EndOf(playlist) - playlist[1].dts
      <4> SUFFICES ASSUME playlist # <<>>
                   PROVE  PlaylistDuration(playlist) = EndOf(playlist) - playlist[1].dts
        OBVIOUS
      <4>1. Head(playlist) = playlist[1] /\ Last(playlist) = playlist[Len(playlist)]
        BY <2>1
      <4> DEFINE last == playlist[Len(playlist)]
                 first == playlist[1]
      <4>i. first \in Item /\ last \in Item
        <5>1. playlist \in Seq(Item) /\ 1 \in 1..Len(playlist) /\ Len(playlist) \in 1..Len(playlist)
          BY EmptySeq DEF Types, TypeOK
        <5> QED  BY <5>1, ElementOfSeq
      <4>2. PlaylistDuration(playlist)
              = last.dts + (last.duration - first.dts)
        BY <4>1, Zenon DEF PlaylistDuration
      <4>3. EndOf(playlist) = last.dts + last.duration
        BY DEF EndOf
      <4> HIDE DEF last
      <4>4. EndOf(playlist) - first.dts = last.dts + (last.duration - first.dts)
        BY <4>i, <4>3 DEF Item
      <4> QED  BY <4>2, <4>4
    <3> QED  BY <3>1 DEF Trimmed, MinDurationKept
  <2> QED  BY <2>2 DEF Times, TrimmedExactly
<1> QED  BY <1>1, TypesInvariant, TimesInvariant, TrimmedInvariant, PTL

\* Trimming stops only where nothing more could go, at the maximum as well.
THEOREM TrimsEnough == Spec => []NothingToTrim
<1>1. Times => NothingToTrim
  BY DEF Times
<1> QED  BY <1>1, TimesInvariant, PTL

-----------------------------------------------------------------------------
(* Deletions take no listed file.                                          *)

\* The pace that keeps the ids of removed fragments behind the clock: a session is not
\* further ahead of it than what it must keep on its list, and two fragments.
Paced == Lead <= MinDuration + 2

LEMMA IdsOfSegments ==
  ASSUME NEW list \in Seq(Item)
  PROVE  Ids(list) = {Segments(list)[i].id : i \in 1..Len(Segments(list))}
<1>1. Segments(list) \in Seq(Item) /\ DOMAIN list = 1..Len(list)
  BY SegmentsType, LenProperties
<1>2. \A x : (\E i \in 1..Len(Segments(list)) : Segments(list)[i] = x)
                 <=> x.id # 0 /\ \E i \in 1..Len(list) : list[i] = x
  BY SegmentsAreEntries DEF IsHeader
<1>3. ASSUME NEW i \in 1..Len(list), list[i].id # 0
      PROVE  \E j \in 1..Len(Segments(list)) : Segments(list)[j].id = list[i].id
  BY <1>2, <1>3
<1>4. ASSUME NEW j \in 1..Len(Segments(list))
      PROVE  Segments(list)[j].id # 0
             /\ \E i \in 1..Len(list) : list[i].id = Segments(list)[j].id
  BY <1>2
<1>5. Ids(list) = {list[i].id : i \in 1..Len(list)} \ {0}
  BY <1>1 DEF Ids, Header
<1> DEFINE segs == Segments(list)
<1> HIDE DEF segs
<1>6. {list[i].id : i \in 1..Len(list)} \ {0} = {segs[i].id : i \in 1..Len(segs)}
  BY <1>3, <1>4 DEF segs
<1> QED  BY <1>5, <1>6 DEF segs

\* Ids rise along the play list up to the open fragment, whose id is no further ahead of
\* the clock than the pace allows; the ids to delete are below them all, and behind the
\* clock, where the next session's ids begin.
Files ==
    ~Failed("m3u8") =>
       /\ \A i, j \in 1..Len(playlist) : i < j => playlist[i].id < playlist[j].id
       /\ \A i \in 1..Len(playlist) : /\ playlist[i].id < fragment.id
                                      /\ playlist[i].id <= playlist[i].dts + Lead
                                      /\ playlist[i].id \in files
       /\ fragment # NoFragment => fragment.id <= fragment.dts + Lead
       /\ state \in {"writing", "listing"} => nextId < next.dts + Lead
       /\ state = "listing" => fragment.id \in files
       /\ \A d \in doomed : /\ d.id <= now /\ d.id <= nextId
                            /\ fragment # NoFragment => d.id < fragment.id
                            /\ \A i \in 1..Len(playlist) : d.id < playlist[i].id

LEMMA InitFiles == Init => Files
BY DEF Init, Files

LEMMA FileTypes ==
  ASSUME Types, Times
  PROVE  /\ playlist \in Seq(Item) /\ Len(playlist) \in Nat
         /\ \A i \in 1..Len(playlist) : playlist[i].id \in Nat /\ playlist[i].dts \in Nat
         /\ now \in Nat /\ nextId \in Nat /\ Lead \in Nat /\ MinDuration \in Nat
         /\ \A d \in doomed : d.id \in Nat
         /\ fragment # NoFragment =>
               /\ fragment.id = nextId /\ fragment.dts \in Nat /\ fragment.dts <= now
         /\ fragment = NoFragment => playlist = <<>>
         /\ state \in {"writing", "listing"} =>
               /\ fragment # NoFragment /\ next.dts \in Nat /\ next.dts <= now
<1>1. playlist \in Seq(Item) /\ \A i \in 1..Len(playlist) : playlist[i] \in Item
  BY ElementOfSeq DEF Types, TypeOK
<1>2. \A i \in 1..Len(playlist) : playlist[i].id \in Nat /\ playlist[i].dts \in Nat
  BY <1>1 DEF Item
<1>3. fragment # NoFragment =>
               /\ fragment.id = nextId /\ fragment.dts \in Nat /\ fragment.dts <= now
  BY DEF Types, TypeOK, Fragment
<1>4. state \in {"writing", "listing"} =>
               /\ fragment # NoFragment /\ next.dts \in Nat /\ next.dts <= now
  BY NoFragmentAssumption DEF Types, TypeOK, Frame
<1>5. /\ now \in Nat /\ nextId \in Nat /\ Lead \in Nat /\ MinDuration \in Nat
      /\ \A d \in doomed : d.id \in Nat
  BY BoundAssumption, DurationAssumption DEF Types, TypeOK
<1> QED  BY <1>1, <1>2, <1>3, <1>4, <1>5 DEF Times

LEMMA MetaFrameFiles ==
  ASSUME Types, Lists, Times, Files, MetaFrame
  PROVE  Files'
<1> DEFINE added == Append(tracked, Header)
<1>1. tracked \in Seq(Item) /\ added \in Seq(Item)
  BY HeaderType, AppendProperties DEF Types, TypeOK
<1>2. Segments(added) = Segments(tracked)
  BY <1>1, HeaderType, SegmentsOfAppend DEF Added
<1>3. Lists' /\ Types'
  BY MetaFrameLists, MetaFrameTypes
<1>4. tracked' \in Seq(Item) /\ Segments(tracked') = Segments(tracked)
  BY <1>3 DEF Lists, Types, TypeOK, MetaFrame
<1> HIDE DEF added
<1>5. Ids(tracked') = Ids(added)
  BY <1>1, <1>2, <1>4, IdsOfSegments
<1>6. Ids(<<>>) = {}
  BY DEF Ids
<1>7. doomed' = doomed
  <2>1. doomed' = Doom(<<>>, added, tracked')
    BY DEF MetaFrame, added
  <2> QED  BY <1>5, <1>6, <2>1 DEF Doom
<1> QED  BY <1>7 DEF MetaFrame, Files, Failed

LEMMA MediaFrameFiles ==
  ASSUME Types, Times, Files, NEW key \in BOOLEAN, MediaFrame(key)
  PROVE  Files'
<1>1. /\ state = "open" /\ UNCHANGED <<playlist, now, files, doomed>>
      /\ fragment' # NoFragment /\ Range(faults) \subseteq Range(faults')
      /\ nextId' \in Nat /\ fragment'.id = nextId'
      /\ \/ /\ state' = state
            /\ \/ /\ fragment # NoFragment /\ nextId' = nextId
                  /\ fragment'.dts = fragment.dts
               \/ /\ fragment # NoFragment /\ nextId' < now + Lead + 1
                  /\ fragment'.dts = now /\ nextId' = nextId + 1
               \/ /\ fragment = NoFragment /\ nextId' < now + Lead + 1
                  /\ fragment'.dts = now /\ nextId < nextId'
         \/ /\ fragment # NoFragment /\ fragment' = fragment /\ nextId' = nextId
            /\ nextId < now + Lead
            /\ state' = "writing" /\ next' = [dts |-> now, key |-> key]
  BY MediaFrameCases
<1>2. ~Failed("m3u8")' => ~Failed("m3u8")
  BY <1>1 DEF Failed
<1> SUFFICES ASSUME ~Failed("m3u8"), ~Failed("m3u8")'  PROVE Files'
  BY <1>2 DEF Files
<1>3. /\ nextId <= nextId'
      /\ fragment = NoFragment => nextId < nextId'
      /\ fragment'.id <= fragment'.dts + Lead
      /\ state' \in {"writing", "listing"} => state' = "writing" /\ nextId' < next'.dts + Lead
  BY <1>1, FileTypes DEF Files
<1>4. \A i \in 1..Len(playlist) : playlist[i].id < fragment'.id
  BY <1>1, <1>3, FileTypes DEF Files
<1>5. \A d \in doomed : d.id <= nextId' /\ d.id < fragment'.id
  BY <1>1, <1>3, FileTypes DEF Files
<1> QED  BY <1>1, <1>3, <1>4, <1>5 DEF Files

LEMMA WriteFileFiles ==
  ASSUME Types, Times, Files, WriteFile
  PROVE  Files'
<1>1. CASE /\ files' = files \union {fragment.id} /\ state' = "listing"
           /\ UNCHANGED <<fragment, nextId, next, faults>>
  BY <1>1 DEF WriteFile, Files, Failed
<1>2. CASE state' = "open" /\ UNCHANGED files /\ NextFragment(<<>>)
  <2>1. <<>> \in Seq(Faults)
    OBVIOUS
  <2>2. /\ fragment' # NoFragment /\ fragment'.dts = next.dts /\ nextId' = nextId + 1
        /\ fragment'.id = nextId + 1 /\ Range(faults) \subseteq Range(faults')
    BY <1>2, <2>1, NextFragmentKeeps DEF WriteFile
  <2>3. state = "writing" /\ UNCHANGED <<playlist, now, files, doomed>>
    BY <1>2 DEF WriteFile
  <2>4. ~Failed("m3u8")' => ~Failed("m3u8")
    BY <2>2 DEF Failed
  <2> SUFFICES ASSUME ~Failed("m3u8"), ~Failed("m3u8")'  PROVE Files'
    BY <2>4 DEF Files
  <2>5. fragment'.id <= fragment'.dts + Lead
    BY <2>2, <2>3, FileTypes DEF Files
  <2>6. \A i \in 1..Len(playlist) : playlist[i].id < fragment'.id
    BY <2>2, <2>3, FileTypes DEF Files
  <2>7. \A d \in doomed : d.id <= nextId' /\ d.id < fragment'.id
    BY <2>2, <2>3, FileTypes DEF Files
  <2> QED  BY <1>2, <2>2, <2>3, <2>5, <2>6, <2>7 DEF Files
<1> QED  BY <1>1, <1>2 DEF WriteFile

LEMMA SessionFiles ==
  ASSUME Types, Times, Files,
         WriteFileFails \/ AddPlayItemFails \/ Complete \/ Close \/ BeginSession \/ DeleteFile \/ Tick
  PROVE  Files'
<1>1. CASE WriteFileFails
  <2>1. Range(faults) \subseteq Range(faults')
    BY <1>1, FailsOnce DEF WriteFileFails, Faults
  <2> QED  BY <1>1, <2>1 DEF WriteFileFails, Files, Failed
<1>2. CASE AddPlayItemFails
  <2>1. Failed("m3u8")'
    BY <1>2, FailsOnce DEF AddPlayItemFails, Failed, Faults
  <2> QED  BY <2>1 DEF Files
<1>3. CASE Complete
  BY <1>3 DEF Complete, Files, Failed
<1>4. CASE Close
  <2>1. Range(faults) \subseteq Range(faults')
    BY <1>4, FailsOnce DEF Close, Faults
  <2> QED  BY <1>4, <2>1 DEF Close, Files, Failed
<1>5. CASE BeginSession
  BY <1>5 DEF BeginSession, FirstId, Files, Failed
<1>6. CASE DeleteFile
  <2>1. PICK d \in doomed : files' = files \ {d.id} /\ doomed' = doomed \ {d}
    BY <1>6 DEF DeleteFile
  <2>2. ~Failed("m3u8") => /\ \A i \in 1..Len(playlist) : playlist[i].id # d.id
                           /\ state = "listing" => fragment.id # d.id
    BY FileTypes DEF Files
  <2> QED  BY <1>6, <2>1, <2>2 DEF DeleteFile, Files, Failed
<1>7. CASE Tick
  <2>1. now' = now + 1 /\ UNCHANGED <<playlist, fragment, state, next, faults, nextId, files, doomed>>
    BY <1>7 DEF Tick
  <2>2. ~Failed("m3u8") => \A d \in doomed : d.id <= now'
    BY <2>1, FileTypes DEF Files
  <2> QED  BY <2>1, <2>2 DEF Files, Failed
<1> QED  BY <1>1, <1>2, <1>3, <1>4, <1>5, <1>6, <1>7

LEMMA AddPlayItemFiles ==
  ASSUME Paced, Types, Lists, Times, Files, BelowLimit, AddPlayItem
  PROVE  Files'
<1> DEFINE all == Append(playlist, NewItem)
           from == KeptFrom(all, next.dts)
           n == Len(all)
           gone == SubSeq(all, 1, from - 1)
           added == Append(tracked, NewItem)
<1>1. /\ state = "listing" /\ state' = "open" /\ from \in 1..(n + 1)
      /\ playlist' = SubSeq(all, from, n)
      /\ Headed(tracked') /\ Segments(tracked') = playlist'
      /\ doomed' = Doom(gone, added, tracked')
      /\ UNCHANGED <<now, files>>
      /\ nextId' = nextId + 1 /\ fragment' # NoFragment
      /\ fragment'.id = nextId + 1 /\ fragment'.dts = next.dts
      /\ Range(faults) \subseteq Range(faults')
  BY AddPlayItemKeeps
<1>2. /\ all \in Seq(Item) /\ n = Len(playlist) + 1 /\ Rising(all)
      /\ \A i \in 1..Len(playlist) : all[i] = playlist[i]
      /\ all[n] = NewItem
  BY <1>1, ItemEnds
<1>3. NewItem.id = nextId /\ NewItem.dts = fragment.dts /\ NewItem.id = fragment.id
  BY <1>1, NewItemType
<1>4. from > 1 => /\ from \in 2..n
                  /\ \E k \in from..n : next.dts - all[k].dts > MinDuration
  BY <1>1, AddPlayItemCuts
<1>5. added \in Seq(Item) /\ Segments(added) = all
  BY <1>1, ListsWithItem
<1>6. ~Failed("m3u8")' => ~Failed("m3u8")
  BY <1>1 DEF Failed
<1> SUFFICES ASSUME ~Failed("m3u8"), ~Failed("m3u8")'  PROVE Files'
  BY <1>6 DEF Files
<1>t. /\ Len(playlist) \in Nat /\ now \in Nat /\ nextId \in Nat /\ Lead \in Nat
      /\ MinDuration \in Nat /\ \A d \in doomed : d.id \in Nat
      /\ fragment # NoFragment /\ fragment.id = nextId /\ fragment.dts \in Nat
      /\ next.dts \in Nat /\ next.dts <= now
      /\ \A i \in 1..Len(playlist) : playlist[i].id \in Nat /\ playlist[i].dts \in Nat
  BY <1>1, FileTypes
<1> HIDE DEF all, from, n, gone, added
<1>7. /\ \A i \in 1..n : /\ all[i].id \in Nat /\ all[i].dts \in Nat
                         /\ all[i].id < nextId + 1 /\ all[i].id <= all[i].dts + Lead
                         /\ all[i].id \in files
      /\ n \in Nat
  <2>1. \A i \in 1..n : i \in 1..Len(playlist) \/ i = n
    BY <1>2, <1>t
  <2>2. \A i \in 1..Len(playlist) :
           /\ playlist[i].id < nextId + 1 /\ playlist[i].id <= playlist[i].dts + Lead
           /\ playlist[i].id \in files
    BY <1>t DEF Files
  <2>3. nextId <= fragment.dts + Lead /\ nextId \in files
    BY <1>1, <1>t DEF Files
  <2>4. ASSUME NEW i \in 1..n
        PROVE  /\ all[i].id \in Nat /\ all[i].dts \in Nat
               /\ all[i].id < nextId + 1 /\ all[i].id <= all[i].dts + Lead
               /\ all[i].id \in files
    <3>1. CASE i = n
      BY <1>2, <1>3, <1>t, <2>3, <3>1
    <3>2. CASE i \in 1..Len(playlist)
      BY <1>2, <1>t, <2>2, <3>2
    <3> QED  BY <2>1, <3>1, <3>2
  <2>5. n \in Nat
    BY <1>2, <1>t
  <2> QED  BY <2>4, <2>5
<1>8. \A i, j \in 1..n : i < j => all[i].id < all[j].id
  <2> SUFFICES ASSUME NEW i \in 1..n, NEW j \in 1..n, i < j  PROVE all[i].id < all[j].id
    OBVIOUS
  <2>1. i \in 1..Len(playlist)
    BY <1>2, <1>t, <1>7
  <2>2. CASE j = n
    BY <1>2, <1>3, <1>t, <2>1, <2>2 DEF Files
  <2>3. CASE j # n
    <3>1. j \in 1..Len(playlist)
      BY <1>2, <1>t, <1>7, <2>3
    <3> QED  BY <1>2, <2>1, <3>1 DEF Files
  <2> QED  BY <2>2, <2>3
<1>9. \A d \in doomed : \A i \in 1..n : d.id < all[i].id
  <2>1. \A i \in 1..n : i \in 1..Len(playlist) \/ i = n
    BY <1>2, <1>t
  <2> QED  BY <1>2, <1>3, <1>t, <2>1 DEF Files
<1>10. /\ Len(playlist') = n - from + 1 /\ playlist' \in Seq(Item) /\ gone \in Seq(Item)
       /\ \A i \in 1..(n - from + 1) : playlist'[i] = all[from + i - 1]
       /\ Len(gone) = from - 1 /\ \A i \in 1..(from - 1) : gone[i] = all[i]
  BY <1>1, <1>2, CutInTwo DEF n, gone
<1>11. \A i \in 1..Len(playlist') : /\ from + i - 1 \in from..n /\ from + i - 1 \in 1..n
                                    /\ playlist'[i] = all[from + i - 1]
  BY <1>1, <1>7, <1>10
\* Whatever is to be deleted now was in front of the cut, or was to be deleted before.
<1>12. \A d \in doomed' : d \in doomed \/ \E i \in 1..(from - 1) : d.id = all[i].id
  <2>1. Ids(added) = {all[i].id : i \in 1..n}
    BY <1>5, IdsOfSegments DEF n
  <2>2. Ids(tracked') = {playlist'[i].id : i \in 1..Len(playlist')}
    BY <1>1, IdsOfSegments DEF Headed
  <2>3. Ids(gone) \subseteq {all[i].id : i \in 1..(from - 1)}
    <3>1. DOMAIN gone = 1..(from - 1)
      BY <1>10, LenProperties
    <3> QED  BY <1>10, <3>1 DEF Ids
  <2>4. ASSUME NEW x \in Ids(added) \ Ids(tracked')
        PROVE  \E i \in 1..(from - 1) : x = all[i].id
    <3>1. PICK i \in 1..n : x = all[i].id
      BY <2>1
    <3>2. CASE i < from
      BY <1>1, <1>7, <3>1, <3>2
    <3>3. CASE ~(i < from)
      <4>1. /\ i - from + 1 \in 1..Len(playlist') /\ i - from + 1 \in 1..(n - from + 1)
            /\ from + (i - from + 1) - 1 = i
        BY <1>1, <1>7, <1>10, <3>3
      <4>2. playlist'[i - from + 1] = all[i]
        BY <1>10, <4>1
      <4> QED  BY <2>2, <3>1, <4>1, <4>2
    <3> QED  BY <3>2, <3>3
  <2>5. \A d \in doomed' : d \in doomed \/ d.id \in Ids(gone) \/ d.id \in Ids(added) \ Ids(tracked')
    BY <1>1 DEF Doom
  <2> QED  BY <2>3, <2>4, <2>5
\* What was in front of the cut is behind the clock.
<1>13. \A i \in 1..(from - 1) : /\ i \in 1..n /\ all[i].id <= now
                                /\ \A j \in from..n : all[i].id < all[j].id
  <2> SUFFICES ASSUME NEW i \in 1..(from - 1)
               PROVE  /\ i \in 1..n /\ all[i].id <= now
                      /\ \A j \in from..n : all[i].id < all[j].id
    OBVIOUS
  <2>1. i \in 1..n /\ \A j \in from..n : j \in 1..n /\ i < j
    BY <1>1, <1>7
  <2>2. \A j \in from..n : all[i].id < all[j].id
    BY <1>8, <2>1
  <2>3. PICK k \in from..n : next.dts - all[k].dts > MinDuration
    BY <1>1, <1>4
  <2>4. k \in 1..n /\ all[i].id < all[k].id
    BY <2>1, <2>2
  <2>5. all[k].id <= all[k].dts + Lead /\ all[k].id \in Nat /\ all[k].dts \in Nat
        /\ all[i].id \in Nat
    BY <1>7, <2>1, <2>4
  <2>6. all[i].id <= now
    <3>1. PICK x \in Nat, y \in Nat, t \in Nat :
             x = all[i].id /\ y = all[k].id /\ t = all[k].dts
      BY <2>5
    <3>2. x < y /\ y <= t + Lead /\ next.dts - t > MinDuration
      BY <2>3, <2>4, <2>5, <3>1
    <3>3. x <= now
      BY <1>t, <3>2 DEF Paced
    <3> QED  BY <3>1, <3>3
  <2> QED  BY <2>1, <2>2, <2>6
<1>14. \A d \in doomed' : /\ d.id <= now' /\ d.id <= nextId' /\ d.id < fragment'.id
                          /\ \A i \in 1..Len(playlist') : d.id < playlist'[i].id
  <2> SUFFICES ASSUME NEW d \in doomed'
               PROVE  /\ d.id <= now /\ d.id <= nextId + 1 /\ d.id < nextId + 1
                      /\ \A j \in from..n : d.id < all[j].id
    BY <1>1, <1>11
  <2>1. CASE d \in doomed
    <3>1. \A j \in from..n : j \in 1..n
      BY <1>1, <1>7
    <3> QED  BY <1>9, <1>t, <2>1, <3>1 DEF Files
  <2>2. CASE \E i \in 1..(from - 1) : d.id = all[i].id
    BY <1>7, <1>13, <1>t, <2>2
  <2> QED  BY <1>12, <2>1, <2>2
<1>15. \A i \in 1..Len(playlist') : /\ playlist'[i].id < fragment'.id
                                    /\ playlist'[i].id <= playlist'[i].dts + Lead
                                    /\ playlist'[i].id \in files'
  BY <1>1, <1>7, <1>11
<1>16. \A i, j \in 1..Len(playlist') : i < j => playlist'[i].id < playlist'[j].id
  <2> SUFFICES ASSUME NEW i \in 1..Len(playlist'), NEW j \in 1..Len(playlist'), i < j
               PROVE  playlist'[i].id < playlist'[j].id
    OBVIOUS
  <2>1. from + i - 1 < from + j - 1
    BY <1>1, <1>7
  <2> QED  BY <1>8, <1>11, <2>1
<1>17. fragment'.id <= fragment'.dts + Lead
  BY <1>1, <1>t DEF Files
<1> QED  BY <1>1, <1>14, <1>15, <1>16, <1>17 DEF Files

LEMMA FilesInvariant ==
  ASSUME Paced
  PROVE  Spec /\ []BelowLimit => []Files
<1>1. Types /\ Lists /\ Times /\ BelowLimit /\ Files /\ [Next]_vars => Files'
  <2> SUFFICES ASSUME Types, Lists, Times, BelowLimit, Files, [Next]_vars  PROVE Files'
    OBVIOUS
  <2>1. CASE UNCHANGED vars
    BY <2>1 DEF vars, Files, Failed
  <2>2. CASE Next
    BY <2>2, MetaFrameFiles, MediaFrameFiles, WriteFileFiles, AddPlayItemFiles,
       SessionFiles DEF Next
  <2> QED  BY <2>1, <2>2
<1> QED  BY <1>1, InitFiles, TypesInvariant, ListsInvariant, TimesInvariant, PTL DEF Spec

\* No deletion takes a file that the .m3u8 file lists, of this session or of one before
\* it in the directory, however long the cleaner waits: as long as the list stays below
\* the maximum and the ids do not run away from the clock.
THEOREM ListedFilesStay ==
  ASSUME Paced
  PROVE  Spec /\ []BelowLimit => []ListedFilesExist
<1>1. Types /\ Lists /\ Files => ListedFilesExist
  <2> SUFFICES ASSUME Types, Lists, Files, ~Failed("m3u8")
               PROVE  Ids(m3u8.entries) \subseteq files
    BY DEF ListedFilesExist
  <2>1. m3u8.entries \in Seq(Item) /\ Segments(m3u8.entries) = playlist
    BY DEF Types, TypeOK, Lists
  <2>2. Ids(m3u8.entries) = {playlist[i].id : i \in 1..Len(playlist)}
    BY <2>1, IdsOfSegments
  <2> QED  BY <2>2 DEF Files
<1> QED  BY <1>1, TypesInvariant, ListsInvariant, FilesInvariant, PTL
=============================================================================
