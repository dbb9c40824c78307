------------------------------ MODULE BasicLemmas ------------------------------
(***************************************************************************)
(* Least and greatest elements of sets of naturals, induction and recursion *)
(* as facts about sets and functions, and what follows for sequences: for   *)
(* the proofs of the other modules.                                         *)
(***************************************************************************)
EXTENDS Integers, FiniteSetsExt, SequencesExt, FiniteSetTheorems, SequenceTheorems, TLAPS

\* A non-empty set of naturals has a minimum: its initial segments are finite
\* sets, which strict inclusion orders well.
LEMMA MinOfNaturals ==
    ASSUME NEW S \in SUBSET Nat, S # {}
    PROVE  /\ Min(S) \in S
           /\ \A x \in S : Min(S) <= x
<1> DEFINE T == {0..i : i \in S}
<1>1. T \subseteq FiniteSubsetsOf(Nat) /\ T # {}
  <2>1. ASSUME NEW i \in S  PROVE 0..i \in SUBSET Nat /\ IsFiniteSet(0..i)
    <3>1. i \in Int /\ 0 \in Int
      OBVIOUS
    <3>2. IsFiniteSet(0..i)
      BY <3>1, FS_Interval
    <3> QED  BY <3>2
  <2> QED  BY <2>1 DEF FiniteSubsetsOf
<1>2. PICK x \in T : \A y \in T : ~(<<y, x>> \in StrictSubsetOrdering(Nat))
  <2> HIDE DEF T
  <2> QED  BY <1>1, FS_StrictSubsetOrderingWellFounded, WFMin
<1>3. PICK m \in S : x = 0..m
  OBVIOUS
<1>4. ASSUME NEW n \in S  PROVE m <= n
  <2>1. SUFFICES ASSUME n < m  PROVE FALSE
    OBVIOUS
  <2>2. 0..n \subseteq 0..m /\ 0..n # 0..m /\ 0..n \in SUBSET Nat /\ 0..m \in SUBSET Nat
    BY <2>1
  <2>3. <<0..n, 0..m>> \in StrictSubsetOrdering(Nat)
    BY <2>2 DEF StrictSubsetOrdering
  <2> QED  BY <2>3, <1>2, <1>3
<1> QED  BY <1>4 DEF Min

\* A non-empty set of numbers between 1 and n has a maximum.
LEMMA MaxOfInterval ==
    ASSUME NEW n \in Nat, NEW S \in SUBSET (1..n), S # {}
    PROVE  /\ Max(S) \in S
           /\ \A x \in S : x <= Max(S)
<1> DEFINE U == {n - i : i \in S}
<1>1. U \in SUBSET Nat /\ U # {}
  <2>1. \A i \in S : i \in Int /\ n - i \in Nat
    OBVIOUS
  <2> QED  BY <2>1
<1>2. Min(U) \in U /\ \A u \in U : Min(U) <= u
  <2> HIDE DEF U
  <2> QED  BY <1>1, MinOfNaturals
<1>3. PICK m \in S : Min(U) = n - m
  BY <1>2
<1>4. ASSUME NEW x \in S  PROVE m >= x
  <2>1. n - x \in U /\ x \in Int /\ m \in Int
    OBVIOUS
  <2>2. n - m <= n - x
    BY <1>2, <1>3, <2>1
  <2> QED  BY <2>1, <2>2
<1> QED  BY <1>4 DEF Max

-----------------------------------------------------------------------------
\* A set of the numbers from 0 to n that holds 0 and with each number the next
\* one holds them all.
LEMMA InductionUpTo ==
    ASSUME NEW n \in Nat, NEW S, 0 \in S, \A k \in 0..(n - 1) : k \in S => k + 1 \in S
    PROVE  0..n \subseteq S
<1> DEFINE Left == {k \in 0..n : k \notin S}
<1>1. SUFFICES ASSUME Left # {}  PROVE FALSE
  OBVIOUS
<1>2. Left \in SUBSET Nat
  OBVIOUS
<1>3. Min(Left) \in Left /\ \A k \in Left : Min(Left) <= k
  <2> HIDE DEF Left
  <2> QED  BY <1>1, <1>2, MinOfNaturals
<1>4. PICK m \in Left : \A k \in Left : m <= k
  BY <1>3
<1>5. m \in Nat /\ m <= n /\ m \notin S /\ m # 0
  OBVIOUS
<1>6. m - 1 \in 0..(n - 1) /\ (m - 1) + 1 = m
  BY <1>5
<1>7. m - 1 \in S
  <2>1. SUFFICES ASSUME m - 1 \notin S  PROVE FALSE
    OBVIOUS
  <2>2. m - 1 \in Left
    BY <1>5, <1>6, <2>1
  <2> QED  BY <1>4, <1>5, <2>2
<1> QED  BY <1>5, <1>6, <1>7

\* f is the recursion from x up to n: step[k] gives its value at k from the value
\* at k - 1.  There is one.
Recursion(f, n, x, step) == f[0] = x /\ \A k \in 1..n : f[k] = step[k][f[k - 1]]

LEMMA RecursionUpTo ==
    ASSUME NEW n \in Nat, NEW X, NEW x \in X, NEW step \in [1..n -> [X -> X]]
    PROVE  \E f \in [0..n -> X] : Recursion(f, n, x, step)
<1> DEFINE Values(f, m) == f[0] = x /\ \A k \in 1..m : f[k] = step[k][f[k - 1]]
           S == {m \in 0..n : \E f \in [0..m -> X] : Values(f, m)}
<1>1. 0 \in S
  <2> DEFINE f == [k \in 0..0 |-> x]
  <2>1. f \in [0..0 -> X] /\ f[0] = x /\ 0 \in 0..n
    OBVIOUS
  <2>2. \A k \in 1..0 : f[k] = step[k][f[k - 1]]
    OBVIOUS
  <2> HIDE DEF f
  <2> QED  BY <2>1, <2>2
<1>2. ASSUME NEW m \in 0..(n - 1), m \in S  PROVE m + 1 \in S
  <2>1. PICK f \in [0..m -> X] : Values(f, m)
    BY <1>2
  <2> DEFINE g == [k \in 0..(m + 1) |-> IF k = m + 1 THEN step[m + 1][f[m]] ELSE f[k]]
  <2>2. m \in Nat /\ m + 1 \in 1..n /\ m \in 0..m /\ m + 1 \in 0..n
    OBVIOUS
  <2>3. step[m + 1][f[m]] \in X
    BY <2>2
  <2>4. g \in [0..(m + 1) -> X]
    BY <2>2, <2>3
  <2>5. g[0] = x
    BY <2>1, <2>2
  <2>6. ASSUME NEW k \in 1..(m + 1)  PROVE g[k] = step[k][g[k - 1]]
    <3>1. k - 1 \in 0..m /\ k - 1 # m + 1 /\ k \in 0..(m + 1) /\ k - 1 \in 0..(m + 1)
      BY <2>2
    <3>2. g[k - 1] = f[k - 1]
      BY <3>1
    <3>3. CASE k = m + 1
      BY <3>1, <3>2, <3>3, <2>2
    <3>4. CASE k # m + 1
      <4>1. k \in 1..m
        BY <3>4, <2>2
      <4> QED  BY <3>1, <3>2, <3>4, <4>1, <2>1
    <3> QED  BY <3>3, <3>4
  <2> QED
    <3> HIDE DEF g
    <3> QED  BY <2>2, <2>4, <2>5, <2>6
<1>3. n \in S
  <2>1. 0..n \subseteq S
    <3> HIDE DEF S
    <3> QED  BY <1>1, <1>2, InductionUpTo
  <2>2. n \in 0..n
    OBVIOUS
  <2> QED  BY <2>1, <2>2
<1> QED  BY <1>3 DEF Recursion

-----------------------------------------------------------------------------
\* A set that holds the empty list and with each list those one entry longer holds
\* every list.
LEMMA ListInduction ==
  ASSUME NEW S, NEW P, <<>> \in P,
         \A s \in Seq(S), e \in S : s \in P => Append(s, e) \in P
  PROVE  Seq(S) \subseteq P
<1> SUFFICES ASSUME NEW list \in Seq(S)  PROVE list \in P
  OBVIOUS
<1> DEFINE n == Len(list)
           Q == {k \in 0..n : SubSeq(list, 1, k) \in P}
<1>0. n \in Nat /\ \A k \in 1..n : list[k] \in S
  BY ElementOfSeq
<1>1. 0 \in Q
  <2>1. SubSeq(list, 1, 0) = <<>>
    BY SubSeqEmpty
  <2>2. 0 \in 0..n
    BY <1>0
  <2>3. SubSeq(list, 1, 0) \in P
    BY <2>1, Zenon
  <2> HIDE DEF n
  <2> QED  BY <2>2, <2>3
<1>2. ASSUME NEW k \in 0..(n - 1), k \in Q  PROVE k + 1 \in Q
  <2>1. k + 1 \in 1..n /\ k \in Nat /\ (k + 1) - 1 = k /\ 1 \in 1..n
    BY <1>0
  <2>2. SubSeq(list, 1, k + 1) = SubSeq(list, 1, k) \o <<list[k + 1]>>
    <3>1. k + 1 \in 1..Len(list) /\ 1 \in 1..Len(list)
      BY <2>1
    <3>2. SubSeq(list, 1, k + 1) = SubSeq(list, 1, (k + 1) - 1) \o <<list[k + 1]>>
      BY <3>1, SubSeqRecursiveSecond
    <3> QED  BY <2>1, <3>2
  <2>3. SubSeq(list, 1, k) \in Seq(S)
    <3>1. \A i \in 1..k : list[i] \in S
      BY <1>0, <2>1
    <3> QED  BY <2>1, <3>1, SubSeqProperties
  <2>4. SubSeq(list, 1, k + 1) = Append(SubSeq(list, 1, k), list[k + 1])
    BY <1>0, <2>1, <2>2, <2>3, AppendIsConcat
  <2>5. SubSeq(list, 1, k) \in P /\ list[k + 1] \in S
    BY <1>0, <1>2, <2>1
  <2>6. SubSeq(list, 1, k + 1) \in P
    BY <2>3, <2>4, <2>5, Zenon
  <2>7. k + 1 \in 0..n
    BY <2>1
  <2> HIDE DEF n
  <2> QED  BY <2>6, <2>7
<1>3. 0..n \subseteq Q
  <2> HIDE DEF Q, n
  <2> QED  BY <1>0, <1>1, <1>2, InductionUpTo
<1>4. SubSeq(list, 1, n) \in P
  <2>1. n \in 0..n
    BY <1>0
  <2> QED  BY <1>3, <2>1
<1> QED  BY <1>4, SubSeqFull

\* A sequence of sequences, put together one after the other up to each place.
FlattenTo(f, S, seqs) ==
    /\ f \in [0..Len(seqs) -> Seq(S)] /\ f[0] = <<>>
    /\ \A k \in 1..Len(seqs) : f[k] = f[k - 1] \o seqs[k]

LEMMA FlattenExists ==
    ASSUME NEW S, NEW seqs \in Seq(Seq(S))
    PROVE  \E f : FlattenTo(f, S, seqs) /\ FlattenSeq(seqs) = f[Len(seqs)]
<1> DEFINE n == Len(seqs)
           step == [k \in 1..n |-> [s \in Seq(S) |-> s \o seqs[k]]]
           Body(g) == [k \in 1..n |-> IF k = 1 THEN seqs[k] ELSE g[k - 1] \o seqs[k]]
           flatten == CHOOSE g : g = Body(g)
<1>0. n \in Nat /\ (\A k \in 1..n : seqs[k] \in Seq(S)) /\ (n = 0 => seqs = <<>>)
  BY ElementOfSeq, LenProperties, EmptySeq
<1>1. PICK f \in [0..n -> Seq(S)] : f[0] = <<>> /\ \A k \in 1..n : f[k] = f[k - 1] \o seqs[k]
  <2>1. <<>> \in Seq(S)
    OBVIOUS
  <2>2. step \in [1..n -> [Seq(S) -> Seq(S)]]
    <3>1. ASSUME NEW k \in 1..n, NEW s \in Seq(S)  PROVE s \o seqs[k] \in Seq(S)
      BY <1>0, ConcatProperties
    <3> HIDE DEF n
    <3> QED  BY <3>1
  <2>3. \E f \in [0..n -> Seq(S)] : Recursion(f, n, <<>>, step)
    <3> HIDE DEF n, step
    <3> QED  BY <1>0, <2>1, <2>2, RecursionUpTo
  <2>4. PICK f \in [0..n -> Seq(S)] : f[0] = <<>> /\ \A k \in 1..n : f[k] = step[k][f[k - 1]]
    <3> HIDE DEF n, step
    <3> QED  BY <2>3 DEF Recursion
  <2>5. ASSUME NEW k \in 1..n  PROVE f[k] = f[k - 1] \o seqs[k]
    <3>1. k - 1 \in 0..n
      BY <1>0
    <3>2. f[k - 1] \in Seq(S)
      BY <3>1
    <3>3. \A s \in Seq(S) : step[k][s] = s \o seqs[k]
      <4> HIDE DEF n
      <4> QED  OBVIOUS
    <3> HIDE DEF step
    <3> QED  BY <2>4, <3>2, <3>3
  <2> HIDE DEF step, n
  <2> QED  BY <2>4, <2>5
<1>2. FlattenTo(f, S, seqs)
  BY <1>1 DEF FlattenTo
<1>3. CASE n = 0
  <2>1. FlattenSeq(seqs) = <<>>
    BY <1>0, <1>3 DEF FlattenSeq
  <2> QED  BY <1>1, <1>2, <1>3, <2>1
<1>4. CASE n # 0
  <2> DEFINE h == [k \in 1..n |-> f[k]]
  <2>1. h = Body(h)
    <3>1. ASSUME NEW k \in 1..n  PROVE f[k] = IF k = 1 THEN seqs[k] ELSE h[k - 1] \o seqs[k]
      <4>1. CASE k = 1
        <5>0. 1 - 1 = 0 /\ 1 \in 1..n /\ seqs[1] \in Seq(S)
          BY <1>0, <4>1
        <5>1. f[1] = <<>> \o seqs[1]
          <6>1. f[1] = f[1 - 1] \o seqs[1]
            BY <1>1, <5>0
          <6> QED  BY <1>1, <5>0, <6>1
        <5> QED  BY <4>1, <5>0, <5>1, ConcatEmptySeq
      <4>2. CASE k # 1
        <5>1. k - 1 \in 1..n
          BY <1>0, <4>2
        <5> QED  BY <1>1, <4>2, <5>1
      <4> QED  BY <4>1, <4>2
    <3> HIDE DEF n
    <3> QED  BY <3>1
  <2>2. flatten = Body(flatten)
    <3> HIDE DEF Body, h
    <3> QED  BY <2>1
  <2>3. FlattenSeq(seqs) = flatten[n]
    BY <1>4 DEF FlattenSeq
  <2> HIDE DEF flatten, n
  <2>4. 0..n \subseteq {k \in 0..n : k = 0 \/ flatten[k] = f[k]}
    <3> DEFINE Q == {k \in 0..n : k = 0 \/ flatten[k] = f[k]}
    <3>1. 0 \in Q
      BY <1>0
    <3>2. ASSUME NEW k \in 0..(n - 1), k \in Q  PROVE k + 1 \in Q
      <4>1. k + 1 \in 1..n /\ (k + 1) - 1 = k /\ k + 1 \in 0..n
        BY <1>0
      <4>2. flatten[k + 1] = IF k + 1 = 1 THEN seqs[k + 1] ELSE flatten[k] \o seqs[k + 1]
        BY <2>2, <4>1
      <4>3. f[k + 1] = f[k] \o seqs[k + 1]
        BY <1>1, <4>1
      <4>4. CASE k = 0
        <5>0. 1 - 1 = 0 /\ 1 \in 1..n /\ seqs[1] \in Seq(S)
          BY <1>0, <4>1, <4>4
        <5>1. f[1] = <<>> \o seqs[1]
          <6>1. f[1] = f[1 - 1] \o seqs[1]
            BY <1>1, <5>0
          <6> QED  BY <1>1, <5>0, <6>1
        <5>2. flatten[1] = f[1]
          BY <4>2, <4>4, <5>0, <5>1, ConcatEmptySeq
        <5> QED  BY <4>1, <4>4, <5>2
      <4>5. CASE k # 0
        <5>1. flatten[k] = f[k] /\ k + 1 # 1
          BY <3>2, <4>5, <1>0
        <5> QED  BY <4>1, <4>2, <4>3, <5>1
      <4> QED  BY <4>4, <4>5
    <3> HIDE DEF Q
    <3>3. 0..n \subseteq Q
      BY <1>0, <3>1, <3>2, InductionUpTo
    <3> QED  BY <3>3 DEF Q
  <2>5. flatten[n] = f[n]
    <3>1. n \in 0..n
      BY <1>0
    <3> QED  BY <1>4, <2>4, <3>1
  <2> QED  BY <1>2, <2>3, <2>5 DEF n
<1> QED  BY <1>3, <1>4

\* Flattening a sequence with one more part puts that part at the end.
LEMMA FlattenAppend ==
    ASSUME NEW S, NEW seqs \in Seq(Seq(S)), NEW s \in Seq(S)
    PROVE  FlattenSeq(Append(seqs, s)) = FlattenSeq(seqs) \o s
<1> DEFINE n == Len(seqs)
           longer == Append(seqs, s)
<1>0. /\ n \in Nat /\ longer \in Seq(Seq(S)) /\ Len(longer) = n + 1
      /\ \A k \in 1..n : longer[k] = seqs[k]
      /\ longer[n + 1] = s
  BY AppendProperties, LenProperties
<1> HIDE DEF longer
<1>1. PICK f : FlattenTo(f, S, seqs) /\ FlattenSeq(seqs) = f[n]
  BY FlattenExists
<1>2. PICK g : FlattenTo(g, S, longer) /\ FlattenSeq(longer) = g[n + 1]
  BY <1>0, FlattenExists
<1> DEFINE Q == {k \in 0..n : f[k] = g[k]}
<1> HIDE DEF n
<1>3. 0 \in Q
  BY <1>0, <1>1, <1>2 DEF FlattenTo
<1>4. ASSUME NEW k \in 0..(n - 1), k \in Q  PROVE k + 1 \in Q
  <2>1. k + 1 \in 1..n /\ k + 1 \in 1..(n + 1) /\ (k + 1) - 1 = k /\ k + 1 \in 0..n
    BY <1>0
  <2>2. f[k + 1] = f[k] \o seqs[k + 1] /\ g[k + 1] = g[k] \o longer[k + 1]
    BY <1>0, <1>1, <1>2, <2>1 DEF FlattenTo, n
  <2> QED  BY <1>0, <1>4, <2>1, <2>2
<1>5. f[n] = g[n]
  <2>1. 0..n \subseteq Q
    <3> HIDE DEF Q
    <3> QED  BY <1>0, <1>3, <1>4, InductionUpTo
  <2>2. n \in 0..n
    BY <1>0
  <2> QED  BY <2>1, <2>2
<1>6. g[n + 1] = g[n] \o s
  <2>1. n + 1 \in 1..(n + 1) /\ (n + 1) - 1 = n
    BY <1>0
  <2> QED  BY <1>0, <1>2, <2>1 DEF FlattenTo
<1> QED  BY <1>1, <1>2, <1>5, <1>6 DEF longer

\* Flattening gives a sequence of the elements' type.
LEMMA FlattenType ==
    ASSUME NEW S, NEW seqs \in Seq(Seq(S))
    PROVE  FlattenSeq(seqs) \in Seq(S)
<1>1. PICK f : FlattenTo(f, S, seqs) /\ FlattenSeq(seqs) = f[Len(seqs)]
  BY FlattenExists
<1>2. Len(seqs) \in 0..Len(seqs)
  BY LenProperties
<1> QED  BY <1>1, <1>2 DEF FlattenTo

\* A sequence that is not empty is its front and its last element.
LEMMA FrontAndLast ==
    ASSUME NEW S, NEW s \in Seq(S), s # <<>>
    PROVE  /\ Front(s) \in Seq(S) /\ Last(s) \in S
           /\ Append(Front(s), Last(s)) = s /\ s = Front(s) \o <<Last(s)>>
           /\ Len(Front(s)) = Len(s) - 1
<1> DEFINE n == Len(s)
<1>1. n \in Nat /\ n > 0 /\ n - 1 \in Nat /\ \A i \in 1..n : s[i] \in S
  BY ElementOfSeq, LenProperties, EmptySeq
<1>2. /\ Front(s) \in Seq(S) /\ Len(Front(s)) = n - 1
      /\ \A i \in 1..(n - 1) : Front(s)[i] = s[i]
  <2>1. \A i \in 1..(n - 1) : s[i] \in S
    BY <1>1
  <2>2. /\ SubSeq(s, 1, n - 1) \in Seq(S)
        /\ Len(SubSeq(s, 1, n - 1)) = IF 1 <= n - 1 THEN (n - 1) - 1 + 1 ELSE 0
        /\ \A i \in 1..((n - 1) - 1 + 1) : SubSeq(s, 1, n - 1)[i] = s[1 + i - 1]
    <3> HIDE DEF n
    <3> QED  BY <1>1, <2>1, SubSeqProperties
  <2>3. Front(s) = SubSeq(s, 1, n - 1)
    BY DEF Front
  <2> DEFINE m == Len(Front(s))
  <2>4. m = IF 1 <= n - 1 THEN (n - 1) - 1 + 1 ELSE 0
    BY <2>2, <2>3
  <2> HIDE DEF n, m
  <2>5. m = n - 1
    BY <1>1, <2>4
  <2>6. ASSUME NEW i \in 1..(n - 1)  PROVE Front(s)[i] = s[i]
    <3>1. i \in 1..((n - 1) - 1 + 1) /\ 1 + i - 1 = i
      BY <1>1
    <3> QED  BY <2>2, <2>3, <3>1
  <2> QED  BY <2>2, <2>3, <2>5, <2>6 DEF m
<1>3. Last(s) = s[n] /\ Last(s) \in S
  BY <1>1 DEF Last
<1>4. /\ Append(Front(s), Last(s)) \in Seq(S) /\ Len(Append(Front(s), Last(s))) = n
      /\ \A i \in 1..n : Append(Front(s), Last(s))[i] = s[i]
  <2> DEFINE a == Front(s)
             e == Last(s)
  <2>1. /\ Append(a, e) \in Seq(S) /\ Len(Append(a, e)) = Len(a) + 1
        /\ \A i \in 1..Len(a) : Append(a, e)[i] = a[i]
        /\ Append(a, e)[Len(a) + 1] = e
    <3> HIDE DEF a, e
    <3>1. a \in Seq(S) /\ e \in S
      BY <1>2, <1>3 DEF a, e
    <3> QED  BY <3>1, AppendProperties
  <2>2. Len(a) = n - 1 /\ e = s[n] /\ \A i \in 1..(n - 1) : a[i] = s[i]
    BY <1>2, <1>3
  <2> HIDE DEF a, e, n
  <2>3. ASSUME NEW i \in 1..n  PROVE Append(a, e)[i] = s[i]
    <3>1. (n - 1) + 1 = n /\ (i = n \/ i \in 1..(n - 1))
      BY <1>1
    <3> QED  BY <2>1, <2>2, <3>1
  <2> QED  BY <1>1, <2>1, <2>2, <2>3 DEF a, e, n
<1>5. Append(Front(s), Last(s)) = s
  BY <1>4, SeqEqual
<1> QED  BY <1>2, <1>3, <1>5, AppendIsConcat

\* A sequence cut in two.
LEMMA Cut ==
    ASSUME NEW S, NEW s \in Seq(S), NEW m \in 0..Len(s)
    PROVE  /\ SubSeq(s, 1, m) \in Seq(S) /\ SubSeq(s, m + 1, Len(s)) \in Seq(S)
           /\ s = SubSeq(s, 1, m) \o SubSeq(s, m + 1, Len(s))
           /\ Len(SubSeq(s, 1, m)) = m /\ Len(SubSeq(s, m + 1, Len(s))) = Len(s) - m
           /\ \A i \in 1..m : SubSeq(s, 1, m)[i] = s[i]
           /\ \A i \in 1..(Len(s) - m) : SubSeq(s, m + 1, Len(s))[i] = s[m + i]
<1> DEFINE n == Len(s)
<1>0. n \in Nat /\ m \in Nat /\ m <= n /\ \A i \in 1..n : s[i] \in S
  BY ElementOfSeq
<1>1. /\ SubSeq(s, m + 1, n) \in Seq(S)
      /\ Len(SubSeq(s, m + 1, n)) = (IF m + 1 <= n THEN n - (m + 1) + 1 ELSE 0)
      /\ \A i \in 1..(n - (m + 1) + 1) : SubSeq(s, m + 1, n)[i] = s[(m + 1) + i - 1]
  <2>1. \A i \in (m + 1)..n : s[i] \in S
    BY <1>0
  <2> HIDE DEF n
  <2> QED  BY <1>0, <2>1, SubSeqProperties
<1>2. /\ SubSeq(s, 1, m) \in Seq(S)
      /\ Len(SubSeq(s, 1, m)) = (IF 1 <= m THEN m - 1 + 1 ELSE 0)
      /\ \A i \in 1..(m - 1 + 1) : SubSeq(s, 1, m)[i] = s[1 + i - 1]
  <2>1. \A i \in 1..m : s[i] \in S
    BY <1>0
  <2> QED  BY <1>0, <2>1, SubSeqProperties
<1>3. s = SubSeq(s, 1, m) \o SubSeq(s, m + 1, n)
  <2>1. 1 \in 1..(Len(s) + 1) /\ m \in (1 - 1)..Len(s) /\ n \in m..Len(s)
    BY <1>0
  <2> HIDE DEF n
  <2>2. SubSeq(s, 1, m) \o SubSeq(s, m + 1, n) = SubSeq(s, 1, n)
    BY <2>1, ConcatAdjacentSubSeq
  <2> QED  BY <2>2, SubSeqFull DEF n
<1> DEFINE a == SubSeq(s, 1, m)
           b == SubSeq(s, m + 1, n)
           p == Len(a)
           q == Len(b)
<1>4. p = (IF 1 <= m THEN m - 1 + 1 ELSE 0) /\ q = (IF m + 1 <= n THEN n - (m + 1) + 1 ELSE 0)
  BY <1>1, <1>2
<1> HIDE DEF n, a, b, p, q
<1>5. p = m /\ q = n - m
  BY <1>0, <1>4
<1>6. ASSUME NEW i \in 1..m  PROVE a[i] = s[i]
  <2>1. i \in 1..(m - 1 + 1) /\ 1 + i - 1 = i
    BY <1>0
  <2> QED  BY <1>2, <2>1 DEF a
<1>7. ASSUME NEW i \in 1..(n - m)  PROVE b[i] = s[m + i]
  <2>1. i \in 1..(n - (m + 1) + 1) /\ (m + 1) + i - 1 = m + i
    BY <1>0
  <2> QED  BY <1>1, <2>1 DEF b
<1> QED  BY <1>1, <1>2, <1>3, <1>5, <1>6, <1>7 DEF n, a, b, p, q

\* A sequence that is not empty is its first element and its tail.
LEMMA FirstAndRest ==
    ASSUME NEW S, NEW s \in Seq(S), s # <<>>
    PROVE  /\ s[1] \in S /\ Head(s) = s[1] /\ Tail(s) \in Seq(S)
           /\ s = <<s[1]>> \o Tail(s)
           /\ Len(s) \in Nat /\ Len(s) > 0 /\ Len(Tail(s)) = Len(s) - 1
           /\ \A i \in 1..(Len(s) - 1) : Tail(s)[i] = s[i + 1]
<1>1. Len(s) \in Nat /\ Len(s) > 0 /\ 1 \in 1..Len(s) /\ Len(s) \in 1..Len(s)
  BY LenProperties, EmptySeq
<1>2. s[1] \in S /\ Head(s) = s[1]
  BY <1>1, ElementOfSeq
<1>3. SubSeq(s, 1, Len(s)) = <<s[1]>> \o SubSeq(s, 1 + 1, Len(s))
  BY <1>1, SubSeqRecursiveFirst
<1>4. Tail(s) = SubSeq(s, 2, Len(s))
  BY TailIsSubSeq
<1>5. s = <<s[1]>> \o Tail(s)
  BY <1>3, <1>4, SubSeqFull
<1> QED  BY <1>1, <1>2, <1>5, HeadTailProperties

\* remove_first takes out the first place where x is.
LEMMA RemoveFirstCuts ==
    ASSUME NEW S, NEW list \in Seq(S), NEW x, NEW i \in 1..Len(list), list[i] = x
    PROVE  \E j \in 1..Len(list) :
              /\ list[j] = x /\ \A k \in 1..(j - 1) : list[k] # x
              /\ RemoveFirst(list, x) = SubSeq(list, 1, j - 1) \o SubSeq(list, j + 1, Len(list))
<1> DEFINE Places == {k \in 1..Len(list) : list[k] = x}
<1>1. Places # {} /\ Places \subseteq Nat /\ Len(list) \in Nat
  OBVIOUS
<1>2. SelectInSeq(list, LAMBDA v : v = x) = Min(Places)
  BY <1>1 DEF SelectInSeq
<1>3. RemoveFirst(list, x) = RemoveAt(list, Min(Places))
  BY <1>2 DEF RemoveFirst
<1>4. Min(Places) \in Places /\ \A k \in Places : Min(Places) <= k
  <2> HIDE DEF Places
  <2> QED  BY <1>1, MinOfNaturals
<1>5. PICK j \in 1..Len(list) : j = Min(Places) /\ list[j] = x /\ \A k \in Places : j <= k
  BY <1>4
<1>6. ASSUME NEW k \in 1..(j - 1), list[k] = x  PROVE FALSE
  BY <1>1, <1>5, <1>6
<1> QED  BY <1>3, <1>5, <1>6 DEF RemoveAt

LEMMA RemoveFirstType ==
    ASSUME NEW S, NEW list \in Seq(S), NEW x
    PROVE  RemoveFirst(list, x) \in Seq(S)
<1>1. CASE \E i \in 1..Len(list) : list[i] = x
  <2>1. PICK j \in 1..Len(list) :
           RemoveFirst(list, x) = SubSeq(list, 1, j - 1) \o SubSeq(list, j + 1, Len(list))
    BY <1>1, RemoveFirstCuts
  <2>2. /\ Len(list) \in Nat /\ \A i \in 1..(j - 1) : list[i] \in S
        /\ \A i \in (j + 1)..Len(list) : list[i] \in S
    BY ElementOfSeq
  <2>3. SubSeq(list, 1, j - 1) \in Seq(S) /\ SubSeq(list, j + 1, Len(list)) \in Seq(S)
    BY <2>2, SubSeqProperties
  <2> QED  BY <2>1, <2>3, ConcatProperties
<1>2. CASE ~\E i \in 1..Len(list) : list[i] = x
  BY <1>2 DEF RemoveFirst
<1> QED  BY <1>1, <1>2

\* r is s without the element at its place n + 1.
Dropped(r, s, n) ==
    /\ Len(r) \in Nat /\ Len(s) = Len(r) + 1 /\ n \in 0..Len(r)
    /\ \A i \in 1..Len(r) : r[i] = IF i <= n THEN s[i] ELSE s[i + 1]

Distinct(s) == \A i, j \in 1..Len(s) : s[i] = s[j] => i = j

LEMMA RemoveFirstDrops ==
    ASSUME NEW S, NEW list \in Seq(S), NEW x, NEW i \in 1..Len(list), list[i] = x
    PROVE  \E m \in Nat : Dropped(RemoveFirst(list, x), list, m) /\ list[m + 1] = x
<1> DEFINE r == RemoveFirst(list, x)
           n == Len(list)
<1>1. PICK j \in 1..n :
         /\ list[j] = x
         /\ r = SubSeq(list, 1, j - 1) \o SubSeq(list, j + 1, n)
  BY RemoveFirstCuts
<1>2. n \in Nat /\ j - 1 \in 0..n /\ j \in 0..n /\ (j - 1) + 1 = j
  BY LenProperties
<1> DEFINE a == SubSeq(list, 1, j - 1)
           b == SubSeq(list, j + 1, n)
<1>3. a \in Seq(S) /\ Len(a) = j - 1 /\ \A k \in 1..(j - 1) : a[k] = list[k]
  <2>1. j - 1 \in 0..Len(list)
    BY <1>2
  <2> QED  BY <2>1, Cut
<1>4. b \in Seq(S) /\ Len(b) = n - j /\ \A k \in 1..(n - j) : b[k] = list[j + k]
  <2>1. j \in 0..Len(list)
    BY <1>2
  <2> QED  BY <2>1, Cut
<1> HIDE DEF a, b, r, n
<1>5. /\ Len(r) = Len(a) + Len(b)
      /\ \A k \in 1..(Len(a) + Len(b)) : r[k] = IF k <= Len(a) THEN a[k] ELSE b[k - Len(a)]
  BY <1>1, <1>3, <1>4, ConcatProperties DEF a, b
<1>6. Len(r) = n - 1 /\ Len(r) \in Nat /\ n = Len(r) + 1 /\ j - 1 \in 0..Len(r)
  BY <1>2, <1>3, <1>4, <1>5
<1>7. ASSUME NEW k \in 1..(n - 1)  PROVE r[k] = IF k <= j - 1 THEN list[k] ELSE list[k + 1]
  <2>1. r[k] = IF k <= j - 1 THEN a[k] ELSE b[k - (j - 1)]
    BY <1>2, <1>3, <1>4, <1>5
  <2>2. CASE k <= j - 1
    <3>1. k \in 1..(j - 1)
      BY <1>2, <2>2
    <3> QED  BY <1>3, <2>1, <2>2, <3>1
  <2>3. CASE ~(k <= j - 1)
    <3>1. k - (j - 1) \in 1..(n - j) /\ j + (k - (j - 1)) = k + 1
      BY <1>2, <2>3
    <3> QED  BY <1>4, <2>1, <2>3, <3>1
  <2> QED  BY <2>2, <2>3
<1>8. Dropped(r, list, j - 1) /\ j - 1 \in Nat
  BY <1>2, <1>6, <1>7 DEF Dropped, n
<1> QED  BY <1>1, <1>2, <1>8 DEF r

\* The elements of a list of distinct elements without x are the others.
LEMMA RemoveFirstDistinct ==
    ASSUME NEW S, NEW list \in Seq(S), NEW x, Distinct(list)
    PROVE  LET r == RemoveFirst(list, x)
           IN  /\ Distinct(r)
               /\ \A i \in 1..Len(r) : r[i] # x /\ \E j \in 1..Len(list) : r[i] = list[j]
               /\ \A j \in 1..Len(list) : list[j] # x => \E i \in 1..Len(r) : r[i] = list[j]
<1> DEFINE r == RemoveFirst(list, x)
<1>1. CASE \E i \in 1..Len(list) : list[i] = x
  <2>1. PICK m \in Nat : Dropped(r, list, m) /\ list[m + 1] = x
    BY <1>1, RemoveFirstDrops
  <2> HIDE DEF r
  <2>2. /\ Len(r) \in Nat /\ Len(list) = Len(r) + 1 /\ m \in 0..Len(r)
        /\ \A i \in 1..Len(r) : r[i] = IF i <= m THEN list[i] ELSE list[i + 1]
    BY <2>1 DEF Dropped
  <2> DEFINE at(i) == IF i <= m THEN i ELSE i + 1
  <2>3. ASSUME NEW i \in 1..Len(r)
        PROVE  at(i) \in 1..Len(list) /\ r[i] = list[at(i)] /\ at(i) # m + 1
    BY <2>2
  <2>4. ASSUME NEW i \in 1..Len(r), NEW j \in 1..Len(r), r[i] = r[j]  PROVE i = j
    <3>1. at(i) = at(j)
      <4> HIDE DEF at
      <4> QED  BY <2>3, <2>4 DEF Distinct
    <3> QED  BY <2>2, <3>1
  <2>5. ASSUME NEW i \in 1..Len(r)  PROVE r[i] # x
    <3>1. m + 1 \in 1..Len(list)
      BY <2>2
    <3> HIDE DEF at
    <3> QED  BY <2>1, <2>3, <3>1 DEF Distinct
  <2>6. ASSUME NEW j \in 1..Len(list), list[j] # x
        PROVE  \E i \in 1..Len(r) : r[i] = list[j]
    <3> DEFINE k == IF j <= m THEN j ELSE j - 1
    <3>1. j # m + 1
      BY <2>1, <2>6
    <3>2. k \in 1..Len(r) /\ j = (IF k <= m THEN k ELSE k + 1)
      BY <2>2, <3>1
    <3> HIDE DEF k
    <3> QED  BY <2>2, <3>2
  <2>7. \A i \in 1..Len(r) : \E j \in 1..Len(list) : r[i] = list[j]
    <3> HIDE DEF at
    <3> QED  BY <2>3
  <2> QED  BY <2>4, <2>5, <2>6, <2>7 DEF Distinct, r
<1>2. CASE ~\E i \in 1..Len(list) : list[i] = x
  <2>1. r = list
    BY <1>2 DEF RemoveFirst
  <2> HIDE DEF r
  <2>2. Distinct(r) /\ \A i \in 1..Len(r) : r[i] # x /\ \E j \in 1..Len(list) : r[i] = list[j]
    BY <1>2, <2>1
  <2>3. \A j \in 1..Len(list) : list[j] # x => \E i \in 1..Len(r) : r[i] = list[j]
    BY <2>1
  <2> QED  BY <2>2, <2>3 DEF r
<1> QED  BY <1>1, <1>2
=============================================================================
