----------------------------- MODULE Code_proofs ------------------------------
(***************************************************************************)
(* What is proved of the modules that read or write a text line by line or *)
(* a list case by case: CodeDiff, Workspace, RepairLoop, Evals and         *)
(* MemoryDocument, each for files, outputs, suites and documents of any    *)
(* length. What they compute over a sequence is a fold or a walk, so the   *)
(* first two parts say how a finite set and a fold are gone through one    *)
(* element at a time; the parts after them have an inductive invariant     *)
(* each, a lemma per action and the theorems that follow from it.          *)
(***************************************************************************)
EXTENDS CodeDiff, Workspace, RepairLoop, Evals, MemoryDocument, Integers,
        FiniteSets, FiniteSetsExt, SequencesExt, FiniteSetTheorems,
        SequenceTheorems, WellFoundedInduction, TLAPS

\* A set of naturals that is not empty has a least element.  Its initial
\* segments are finite, and of those one has none of the others within it.
LEMMA LeastThere ==
    ASSUME NEW S \in SUBSET Nat, S # {}
    PROVE  \E i \in S : \A j \in S : i <= j
<1> DEFINE Initials == {0..i : i \in S}
<1>1. Initials \subseteq FiniteSubsetsOf(Nat) /\ Initials # {}
  <2>1. \A i \in S : 0..i \in SUBSET Nat /\ IsFiniteSet(0..i)
    BY FS_Interval
  <2> QED  BY <2>1 DEF FiniteSubsetsOf
<1>2. PICK T \in Initials : \A U \in Initials : <<U, T>> \notin StrictSubsetOrdering(Nat)
  <2> HIDE DEF Initials
  <2> QED  BY <1>1, FS_StrictSubsetOrderingWellFounded, WFMin
<1>3. PICK i \in S : T = 0..i
  OBVIOUS
<1>4. ASSUME NEW j \in S, j < i PROVE FALSE
  <2>1. 0..j \subseteq 0..i /\ 0..j # 0..i
    BY <1>4
  <2>2. <<0..j, 0..i>> \in StrictSubsetOrdering(Nat)
    BY <2>1 DEF StrictSubsetOrdering
  <2> QED  BY <1>2, <1>3, <2>2
<1> QED  BY <1>4

\* What the library's Min picks of a set of naturals is in it and is its least.
LEMMA LeastIsMin ==
    ASSUME NEW S \in SUBSET Nat, S # {}
    PROVE  Min(S) \in S /\ \A j \in S : Min(S) <= j
  BY LeastThere DEF Min

\* What holds of 0, and of the successor of every number it holds of, holds of
\* every natural number: of those it did not there would be a least one.
LEMMA SetInduction ==
    ASSUME NEW S, 0 \in S, \A n \in Nat : n \in S => n + 1 \in S
    PROVE  Nat \subseteq S
<1> SUFFICES ASSUME Nat \ S # {} PROVE FALSE
  OBVIOUS
<1>1. PICK m \in Nat \ S : \A j \in Nat \ S : m <= j
  BY LeastThere
<1>2. m # 0 /\ m - 1 \in Nat
  BY <1>1
<1>3. m - 1 \in S
  BY <1>1, <1>2
<1> QED  BY <1>1, <1>2, <1>3

\* Where two sequences were put together they are cut apart.
LEMMA CutInTwo ==
    ASSUME NEW S, NEW a \in Seq(S), NEW b \in Seq(S)
    PROVE  /\ SubSeq(a \o b, 1, Len(a)) = a
           /\ SubSeq(a \o b, Len(a) + 1, Len(a) + Len(b)) = b
<1>1. a \o b \in Seq(S) /\ Len(a \o b) = Len(a) + Len(b)
        /\ \A k \in 1..(Len(a) + Len(b)) : (a \o b)[k] = IF k <= Len(a) THEN a[k] ELSE b[k - Len(a)]
  BY ConcatProperties
<1>2. PICK c : c = a \o b
  OBVIOUS
<1>3. c \in Seq(S) /\ Len(c) = Len(a) + Len(b)
        /\ \A k \in 1..(Len(a) + Len(b)) : c[k] = IF k <= Len(a) THEN a[k] ELSE b[k - Len(a)]
  BY <1>1, <1>2, Zenon
<1>4. SubSeq(c, 1, Len(a)) = a
  BY <1>3
<1>5. SubSeq(c, Len(a) + 1, Len(a) + Len(b)) = b
  <2>1. \A i \in (Len(a) + 1)..(Len(a) + Len(b)) : c[i] \in S
    BY <1>3
  <2>2. /\ SubSeq(c, Len(a) + 1, Len(a) + Len(b)) \in Seq(S)
        /\ Len(SubSeq(c, Len(a) + 1, Len(a) + Len(b))) = Len(b)
        /\ \A i \in 1..Len(b) : SubSeq(c, Len(a) + 1, Len(a) + Len(b))[i] = c[Len(a) + i]
    BY <2>1, SubSeqProperties
  <2>3. \A i \in 1..Len(b) : c[Len(a) + i] = b[i]
    BY <1>3
  <2> QED  BY <2>2, <2>3, SeqEqual
<1> QED  BY <1>2, <1>4, <1>5

\* Three sequences: what is at their places, and what is left in place of the
\* second.
LEMMA CutInThree ==
    ASSUME NEW S, NEW a \in Seq(S), NEW b \in Seq(S), NEW c \in Seq(S)
    PROVE  /\ a \o b \o c \in Seq(S)
           /\ Len(a \o b \o c) = Len(a) + Len(b) + Len(c)
           /\ SubSeq(a \o b \o c, 1, Len(a)) = a
           /\ SubSeq(a \o b \o c, Len(a) + 1, Len(a) + Len(b)) = b
           /\ SubSeq(a \o b \o c, Len(a) + Len(b) + 1, Len(a \o b \o c)) = c
<1>1. PICK d : d = a \o b
  OBVIOUS
<1>2. d \in Seq(S) /\ Len(d) = Len(a) + Len(b)
  BY <1>1, ConcatProperties
<1>3. d \o c \in Seq(S) /\ Len(d \o c) = Len(a) + Len(b) + Len(c)
  <2>1. d \o c \in Seq(S) /\ Len(d \o c) = Len(d) + Len(c)
    BY <1>2, ConcatProperties
  <2> QED  BY <2>1, <1>2, Zenon
<1>4. SubSeq(d \o c, Len(a) + Len(b) + 1, Len(d \o c)) = c
  BY <1>2, <1>3, CutInTwo
<1>5. PICK e : e = b \o c
  OBVIOUS
<1>6. e \in Seq(S) /\ Len(e) = Len(b) + Len(c)
  BY <1>5, ConcatProperties
<1>7. d \o c = a \o e
  BY <1>1, <1>5, ConcatAssociative
<1>8. SubSeq(a \o e, 1, Len(a)) = a
  BY <1>6, CutInTwo
<1>9. SubSeq(d \o c, 1, Len(d)) = d
  BY <1>2, CutInTwo
<1>10. SubSeq(d \o c, Len(a) + 1, Len(a) + Len(b)) = b
  <2>1. SubSeq(d, Len(a) + 1, Len(a) + Len(b)) = b
    BY <1>1, CutInTwo
  <2>2. CASE b = <<>>
    BY <2>2, <1>3, SubSeqEmpty
  <2>3. CASE b # <<>>
    <3>1. Len(a) + 1 \in 1..Len(d) /\ Len(a) + Len(b) \in 1..Len(d)
      BY <1>2, <2>3
    <3> QED  BY <3>1, <2>1, <1>2, SubSeqOfConcat1
  <2> QED  BY <2>2, <2>3
<1> QED  BY <1>1, <1>3, <1>4, <1>7, <1>8, <1>10

-----------------------------------------------------------------------------
\* A set of numbers up to one of its own has that for its greatest.
LEMMA GreatestIs ==
    ASSUME NEW n \in Nat, NEW S \in SUBSET (1..n), n \in S
    PROVE  Max(S) = n
<1>1. \A y \in S : n >= y
  OBVIOUS
<1>2. \A x \in S : (\A y \in S : x >= y) => x = n
  OBVIOUS
<1> QED  BY <1>1, <1>2 DEF Max

\* What a step st makes of the places in a set, the last of them last.
Folded(g, base, st, s, n) ==
    \A S \in SUBSET (1..n) :
        g[S] = IF S = {} THEN base ELSE st[<<g[S \ {Max(S)}], s[Max(S)]>>]

HasFold(X, base, st, s, n) == \E g \in [SUBSET (1..n) -> X] : Folded(g, base, st, s, n)

\* Every step function has a fold: there is a function on the sets of indexes
\* that takes its steps from the smallest index to the greatest.
LEMMA FoldExists ==
    ASSUME NEW X, NEW L, NEW base \in X, NEW st \in [X \X L -> X], NEW s \in Seq(L)
    PROVE  HasFold(X, base, st, s, Len(s))
<1> DEFINE Good == {n \in Nat : n <= Len(s) => HasFold(X, base, st, s, n)}
<1>1. 0 \in Good
  <2> DEFINE g == [S \in SUBSET (1..0) |-> base]
  <2>1. g \in [SUBSET (1..0) -> X] /\ \A S \in SUBSET (1..0) : S = {} /\ g[S] = base
    OBVIOUS
  <2> HIDE DEF g
  <2> QED  BY <2>1 DEF Folded, HasFold
<1>2. ASSUME NEW n \in Nat, n \in Good PROVE n + 1 \in Good
  <2> SUFFICES ASSUME n + 1 <= Len(s) PROVE HasFold(X, base, st, s, n + 1)
    OBVIOUS
  <2>1. PICK h \in [SUBSET (1..n) -> X] : Folded(h, base, st, s, n)
    <3>1. HasFold(X, base, st, s, n)
      BY <1>2
    <3> QED  BY <3>1 DEF HasFold
  <2>2. s[n + 1] \in L
    OBVIOUS
  <2> DEFINE g == [S \in SUBSET (1..n + 1) |-> IF n + 1 \in S THEN st[<<h[S \ {n + 1}], s[n + 1]>>] ELSE h[S]]
  <2>3. \A S \in SUBSET (1..n + 1) : S \ {n + 1} \in SUBSET (1..n) /\ (n + 1 \notin S => S \in SUBSET (1..n))
    OBVIOUS
  <2>4. g \in [SUBSET (1..n + 1) -> X]
    <3>1. \A S \in SUBSET (1..n) : h[S] \in X
      BY <2>1
    <3>2. \A x \in X : st[<<x, s[n + 1]>>] \in X
      BY <2>2
    <3> QED  BY <2>3, <3>1, <3>2
  <2>5. ASSUME NEW S \in SUBSET (1..n + 1)
        PROVE  g[S] = IF S = {} THEN base ELSE st[<<g[S \ {Max(S)}], s[Max(S)]>>]
    <3>1. CASE n + 1 \in S
      <4>1. Max(S) = n + 1 /\ S # {}
        BY <3>1, GreatestIs
      <4>2. S \ {n + 1} \in SUBSET (1..n + 1) /\ n + 1 \notin S \ {n + 1}
        OBVIOUS
      <4>3. g[S \ {n + 1}] = h[S \ {n + 1}]
        BY <4>2
      <4>4. g[S] = st[<<h[S \ {n + 1}], s[n + 1]>>]
        BY <3>1
      <4> HIDE DEF g
      <4> QED  BY <4>1, <4>3, <4>4
    <3>2. CASE n + 1 \notin S
      <4>1. S \in SUBSET (1..n)
        BY <2>3, <3>2
      <4>2. h[S] = IF S = {} THEN base ELSE st[<<h[S \ {Max(S)}], s[Max(S)]>>]
        BY <2>1, <4>1 DEF Folded
      <4>3. S \ {Max(S)} \in SUBSET (1..n + 1) /\ n + 1 \notin S \ {Max(S)}
        BY <3>2
      <4>4. g[S] = h[S] /\ g[S \ {Max(S)}] = h[S \ {Max(S)}]
        BY <3>2, <4>3
      <4> HIDE DEF g
      <4> QED  BY <4>2, <4>4
    <3> QED  BY <3>1, <3>2
  <2> HIDE DEF g
  <2> QED  BY <2>4, <2>5 DEF Folded, HasFold
<1>3. Nat \subseteq Good
  <2> HIDE DEF Good
  <2> QED  BY <1>1, <1>2, SetInduction
<1> QED  BY <1>3

\* What the library's Max picks of a set of indexes is in it and is its greatest.
LEMMA GreatestAbove ==
    ASSUME NEW n \in Nat, NEW S \in SUBSET (1..n), S # {}
    PROVE  Max(S) \in S /\ \A j \in S : Max(S) >= j
<1> DEFINE D == {n - i : i \in S}
<1>1. D \in SUBSET Nat /\ D # {}
  <2>1. \A i \in S : n - i \in Nat
    OBVIOUS
  <2> QED  BY <2>1
<1>2. PICK d \in D : \A e \in D : d <= e
  BY <1>1, LeastThere
<1>3. PICK i \in S : d = n - i
  BY <1>2
<1>4. \A j \in S : n - i <= n - j
  BY <1>2, <1>3
<1>5. \A j \in S : i >= j
  BY <1>4
<1> QED  BY <1>5 DEF Max

\* The greatest index of a set is one of the set.
LEMMA GreatestWithin ==
    ASSUME NEW n \in Nat, NEW S \in SUBSET (1..n), S # {}
    PROVE  Max(S) \in S
  BY GreatestAbove

\* Without its greatest number an initial part of the indexes is the one before it.
LEMMA InitialPart ==
    ASSUME NEW n \in Nat, NEW k \in 1..n
    PROVE  /\ 1..k \in SUBSET (1..n) /\ 1..k # {} /\ Max(1..k) = k
           /\ (1..k) \ {Max(1..k)} = 1..(k - 1)
<1>1. k \in Nat /\ 1 <= k /\ k <= n
  OBVIOUS
<1>2. k \in 1..k /\ 1..k \in SUBSET (1..k)
  BY <1>1
<1>3. Max(1..k) = k
  BY <1>1, <1>2, GreatestIs
<1>4. \A i \in 1..k : i \in 1..n
  BY <1>1
<1> QED  BY <1>1, <1>2, <1>3, <1>4

-----------------------------------------------------------------------------
(* The diff *)

DiffHunks == [start : Nat, old : Seq(Line), new : Seq(Line)]

DiffTypes ==
    /\ taken \in BOOLEAN /\ applyErr \in BOOLEAN /\ unique \in BOOLEAN /\ bare \in BOOLEAN
    /\ original \in Seq(Line) /\ edited \in Seq(Line) /\ drift \in Seq(Line)
    /\ lines \in Seq(Line) /\ hunks \in Seq(DiffHunks)
    /\ cursor \in 0..Len(lines) /\ lineOffset \in Int

\* The two cases in which a diff is promised to land.
Promised == (drift = <<>> /\ ~bare) \/ unique

\* The last hunk is to replace what is between a and c, and then all is done.
\* In a file that is as it was, that is where its header and the offset say.
LastToCome(h, a, c) ==
    /\ hunks = <<h>>
    /\ lines = a \o h.old \o c /\ drift \o edited = a \o h.new \o c
    /\ cursor <= Len(a)
    /\ drift = <<>> /\ ~bare =>
         IF h.old = <<>> THEN Len(a) = 0 /\ h.start - 1 + lineOffset <= 0
         ELSE h.start - 1 + lineOffset = Len(a)

\* Both hunks are to come, for the first line x, which becomes s, and the last
\* line y, which becomes t, with m between them.
BothToCome(x, m, y, s, t) ==
    /\ hunks = <<[start |-> 1, old |-> <<x>>, new |-> s],
                 [start |-> Len(m) + 2, old |-> <<y>>, new |-> t]>>
    /\ lines = drift \o (<<x>> \o (m \o <<y>>)) /\ edited = s \o (m \o t)
    /\ cursor = 0 /\ lineOffset = 0

DiffPlaces ==
    /\ ~taken => hunks = <<>> /\ cursor = 0 /\ lineOffset = 0 /\ ~applyErr /\ unique
    /\ taken /\ Promised =>
         /\ ~applyErr
         /\ \/ hunks = <<>> /\ lines = drift \o edited
            \/ \E h \in DiffHunks, a, c \in Seq(Line) : LastToCome(h, a, c)
            \/ \E x, y \in Line, m, s, t \in Seq(Line) : BothToCome(x, m, y, s, t)

DiffInv == DiffTypes /\ DiffPlaces

\* Lines that are put together are lines again.
LEMMA Together == \A a, b \in Seq(Line) : a \o b \in Seq(Line) /\ Len(a \o b) = Len(a) + Len(b)
  OBVIOUS

\* The order does not matter.
LEMMA AnyOrder == \A a, b, c \in Seq(Line) : a \o (b \o c) = (a \o b) \o c
  OBVIOUS

\* Five parts, of which those in the middle are put together first.
SameFive(a, p, s, q, c) == (a \o p) \o s \o (q \o c) = a \o (p \o s \o q) \o c
\* Five parts can be put together in either order.
LEMMA FiveTogether == \A a, p, s, q, c \in Seq(Line) : SameFive(a, p, s, q, c)
<1> SUFFICES ASSUME NEW a \in Seq(Line), NEW p \in Seq(Line), NEW s \in Seq(Line),
                    NEW q \in Seq(Line), NEW c \in Seq(Line)
             PROVE  (a \o p) \o s \o (q \o c) = a \o (p \o s \o q) \o c
  BY Zenon DEF SameFive
<1>1. PICK u \in Seq(Line) : u = (a \o p) \o s
  BY Together
<1>2. u \o (q \o c) = (u \o q) \o c
  OBVIOUS
<1>3. PICK v \in Seq(Line) : v = p \o s
  BY Together
<1>4. u = a \o v
  BY <1>1, <1>3, AnyOrder
<1>5. (a \o v) \o q = a \o (v \o q)
  OBVIOUS
<1> QED  BY <1>1, <1>2, <1>3, <1>4, <1>5, Zenon

\* No lines are nothing more.
LEMMA NoneAdded == \A a \in Seq(Line) : a \o <<>> = a
  OBVIOUS

\* A place that is found is one of the file, behind the cursor.
LEMMA PlaceInFile ==
    ASSUME NEW f \in Seq(Line), NEW seq \in Seq(Line), NEW from \in 0..Len(f), NEW hint \in Int
    PROVE  LET pos == findHunkPosition(f, seq, from, hint) IN
           (pos = -1 /\ seq # <<>>) \/ (pos \in from..Len(f) /\ pos + Len(seq) <= Len(f))
<1>1. CASE seq = <<>>
  <2> DEFINE from_ == Max({hint, from, 0})
  <2>1. from_ \in Int /\ from_ >= from
    <3>1. \E i \in {hint, from, 0} : \A j \in {hint, from, 0} : i >= j
      <4>1. CASE hint >= from /\ hint >= 0
        BY <4>1
      <4>2. CASE ~(hint >= from /\ hint >= 0)
        BY <4>2
      <4> QED  BY <4>1, <4>2
    <3>2. from_ \in {hint, from, 0} /\ \A j \in {hint, from, 0} : from_ >= j
      BY <3>1 DEF Max
    <3> QED  BY <3>2
  <2> HIDE DEF from_
  <2>2. Min({from_, Len(f)}) \in {from_, Len(f)} /\ \A j \in {from_, Len(f)} : Min({from_, Len(f)}) <= j
    <3>1. \E i \in {from_, Len(f)} : \A j \in {from_, Len(f)} : i <= j
      BY <2>1
    <3> QED  BY <3>1 DEF Min
  <2>3. Min({from_, Len(f)}) \in from..Len(f)
    BY <2>1, <2>2
  <2>4. Len(seq) = 0
    BY <1>1
  <2> QED  BY <1>1, <2>3, <2>4 DEF findHunkPosition, from_
<1>2. CASE seq # <<>> /\ hint >= from /\ sequenceMatches(f, seq, hint)
  BY <1>2 DEF findHunkPosition, sequenceMatches
<1>3. CASE seq # <<>> /\ ~(hint >= from /\ sequenceMatches(f, seq, hint))
  <2>1. findHunkPosition(f, seq, from, hint) = findLineSequence(f, seq, from)
    BY <1>3 DEF findHunkPosition
  <2>2. CASE Matches(f, seq, from) = {}
    BY <1>3, <2>1, <2>2 DEF findLineSequence
  <2>3. CASE Matches(f, seq, from) # {}
    <3>1. Matches(f, seq, from) \in SUBSET Nat
      BY DEF Matches
    <3>2. Min(Matches(f, seq, from)) \in Matches(f, seq, from)
      BY <3>1, <2>3, LeastIsMin
    <3>3. \A i \in Matches(f, seq, from) : i \in from..Len(f) /\ i + Len(seq) <= Len(f)
      BY DEF Matches, sequenceMatches
    <3>4. findLineSequence(f, seq, from) = Min(Matches(f, seq, from))
      BY <2>3 DEF findLineSequence
    <3> QED  BY <2>1, <3>2, <3>3, <3>4
  <2> QED  BY <2>2, <2>3
<1> QED  BY <1>1, <1>2, <1>3

\* Lines old stand in the file right behind a.
StandsBehind(a, old, f) == \E c \in Seq(Line) : f = a \o old \o c

\* They are where the header says, or they can be in one place only.
FoundAt(a, old, f, from, hint) ==
    \/ old # <<>> /\ hint = Len(a)
    \/ old = <<>> /\ Len(a) = 0 /\ hint <= 0
    \/ \E i \in 0..Len(f) : Matches(f, old, from) = {i}

\* Lines that stand right behind a are found there if the header says so, or
\* if they stand nowhere else.
LEMMA PlaceBetween ==
    ASSUME NEW a \in Seq(Line), NEW old \in Seq(Line), NEW f, StandsBehind(a, old, f),
           NEW from \in 0..Len(a), NEW hint \in Int, FoundAt(a, old, f, from, hint)
    PROVE  findHunkPosition(f, old, from, hint) = Len(a)
<1>. PICK c \in Seq(Line) : f = a \o old \o c
  BY DEF StandsBehind
<1> USE DEF FoundAt
<1>1. f \in Seq(Line) /\ Len(f) = Len(a) + Len(old) + Len(c)
      /\ SubSeq(f, Len(a) + 1, Len(a) + Len(old)) = old
  BY CutInThree
<1>2. sequenceMatches(f, old, Len(a))
  BY <1>1 DEF sequenceMatches
<1>3. Len(a) \in Matches(f, old, from)
  BY <1>1, <1>2 DEF Matches
<1>4. CASE old # <<>> /\ hint = Len(a)
  BY <1>4, <1>2 DEF findHunkPosition
<1>5. CASE old = <<>> /\ Len(a) = 0 /\ hint <= 0
  <2>1. from = 0
    BY <1>5
  <2>2. Max({hint, from, 0}) = 0
    BY <1>5, <2>1 DEF Max
  <2>3. Min({0, Len(f)}) = 0
    BY <1>1 DEF Min
  <2> QED  BY <1>5, <2>1, <2>2, <2>3 DEF findHunkPosition
<1>6. ASSUME NEW i \in 0..Len(f), Matches(f, old, from) = {i}
      PROVE  findHunkPosition(f, old, from, hint) = Len(a)
  <2>1. i = Len(a)
    BY <1>3, <1>6
  <2>2. CASE old = <<>>
    <3>1. Len(f) \in Matches(f, old, from)
      <4>1. SubSeq(f, Len(f) + 1, Len(f) + Len(old)) = <<>>
        BY <1>1, <2>2
      <4> QED  BY <4>1, <1>1, <2>2 DEF Matches, sequenceMatches
    <3>2. Len(f) = Len(a)
      BY <3>1, <1>6, <2>1
    <3>3. findHunkPosition(f, old, from, hint) \in from..Len(f)
      <4>1. from \in 0..Len(f)
        BY <1>1
      <4>2. \/ findHunkPosition(f, old, from, hint) = -1 /\ old # <<>>
            \/ /\ findHunkPosition(f, old, from, hint) \in from..Len(f)
               /\ findHunkPosition(f, old, from, hint) + Len(old) <= Len(f)
        BY <4>1, <1>1, PlaceInFile, Zenon
      <4> QED  BY <4>2, <2>2
    <3>4. \A p \in from..Len(f) : p \in Matches(f, old, from)
      <4>1. \A p \in from..Len(f) : SubSeq(f, p + 1, p + Len(old)) = <<>>
        BY <1>1, <2>2
      <4> QED  BY <4>1, <1>1, <2>2 DEF Matches, sequenceMatches
    <3> QED  BY <3>3, <3>4, <1>6, <2>1
  <2>3. CASE old # <<>> /\ hint >= from /\ sequenceMatches(f, old, hint)
    <3>1. hint \in Matches(f, old, from)
      BY <2>3, <1>1 DEF Matches, sequenceMatches
    <3> QED  BY <3>1, <2>1, <2>3, <1>6 DEF findHunkPosition
  <2>4. CASE old # <<>> /\ ~(hint >= from /\ sequenceMatches(f, old, hint))
    <3>1. findHunkPosition(f, old, from, hint) = Min({i})
      BY <2>4, <1>6 DEF findHunkPosition, findLineSequence
    <3>2. Min({i}) = i
      BY DEF Min
    <3> QED  BY <3>1, <3>2, <2>1
  <2> QED  BY <2>2, <2>3, <2>4
<1> QED  BY <1>4, <1>5, <1>6

\* What replaces a hunk's lines, and where the search goes on.
LEMMA SplicedBetween ==
    ASSUME NEW h \in DiffHunks, NEW a \in Seq(Line), NEW c \in Seq(Line),
           lines = a \o h.old \o c, Splice(h, Len(a)), lineOffset \in Int
    PROVE  /\ lines' = a \o h.new \o c /\ cursor' = Len(a) + Len(h.new)
           /\ lineOffset' = lineOffset + Len(h.new) - Len(h.old) /\ lineOffset' \in Int
           /\ hunks' = Tail(hunks) /\ UNCHANGED applyErr
<1>1. PICK old \in Seq(Line), new \in Seq(Line) : old = h.old /\ new = h.new
  BY DEF DiffHunks
<1>2. lines = a \o old \o c
  BY <1>1
<1>3. SubSeq(lines, 1, Len(a)) = a /\ SubSeq(lines, Len(a) + Len(old) + 1, Len(lines)) = c
  <2>1. PICK f : f = lines
    OBVIOUS
  <2>2. f = a \o old \o c
    BY <2>1, <1>2
  <2>3. SubSeq(f, 1, Len(a)) = a /\ SubSeq(f, Len(a) + Len(old) + 1, Len(f)) = c
    BY <2>2, CutInThree
  <2> QED  BY <2>1, <2>3
<1>4. lines' = SubSeq(lines, 1, Len(a)) \o new \o SubSeq(lines, Len(a) + Len(old) + 1, Len(lines))
  BY <1>1 DEF Splice
<1>5. lines' = a \o new \o c
  BY <1>3, <1>4, Zenon
<1>6. cursor' = Len(a) + Len(new) /\ lineOffset' = lineOffset + Len(new) - Len(old)
      /\ hunks' = Tail(hunks) /\ UNCHANGED applyErr
  BY <1>1 DEF Splice
<1>7. lineOffset' \in Int
  BY <1>6
<1> QED  BY <1>1, <1>5, <1>6, <1>7, Zenon

\* A file is its parts.
LEMMA LineParts ==
    \A f \in Seq(Line) : \A i \in 0..Len(f) : \A j \in i..Len(f) :
        /\ SubSeq(f, 1, i) \in Seq(Line) /\ Len(SubSeq(f, 1, i)) = i
        /\ SubSeq(f, i + 1, j) \in Seq(Line) /\ Len(SubSeq(f, i + 1, j)) = j - i
        /\ SubSeq(f, j + 1, Len(f)) \in Seq(Line)
        /\ f = SubSeq(f, 1, i) \o SubSeq(f, i + 1, j) \o SubSeq(f, j + 1, Len(f))
<1> SUFFICES ASSUME NEW f \in Seq(Line), NEW i \in 0..Len(f), NEW j \in i..Len(f)
             PROVE  /\ SubSeq(f, 1, i) \in Seq(Line) /\ Len(SubSeq(f, 1, i)) = i
                    /\ SubSeq(f, i + 1, j) \in Seq(Line) /\ Len(SubSeq(f, i + 1, j)) = j - i
                    /\ SubSeq(f, j + 1, Len(f)) \in Seq(Line)
                    /\ f = SubSeq(f, 1, i) \o SubSeq(f, i + 1, j) \o SubSeq(f, j + 1, Len(f))
  BY Zenon
<1> DEFINE a == SubSeq(f, 1, i)  b == SubSeq(f, i + 1, j)  c == SubSeq(f, j + 1, Len(f))
<1>1. a \in Seq(Line) /\ Len(a) = i
  <2>1. \A k \in 1..i : f[k] \in Line
    OBVIOUS
  <2> QED  BY <2>1, SubSeqProperties
<1>2. b \in Seq(Line) /\ Len(b) = j - i
  <2>1. \A k \in (i+1)..j : f[k] \in Line
    OBVIOUS
  <2> QED  BY <2>1, SubSeqProperties
<1>3. c \in Seq(Line)
  <2>1. \A k \in (j+1)..Len(f) : f[k] \in Line
    OBVIOUS
  <2> QED  BY <2>1, SubSeqProperties
<1>4. SubSeq(f, 1, i) \o SubSeq(f, i + 1, j) = SubSeq(f, 1, j)
  BY ConcatAdjacentSubSeq
<1>5. SubSeq(f, 1, j) \o SubSeq(f, j + 1, Len(f)) = SubSeq(f, 1, Len(f))
  <2>1. 1 \in 1..(Len(f) + 1) /\ j \in (1 - 1)..Len(f) /\ Len(f) \in j..Len(f)
    OBVIOUS
  <2> QED  BY <2>1, ConcatAdjacentSubSeq
<1>6. f = a \o b \o c
  BY <1>4, <1>5, SubSeqFull, Zenon
<1> QED  BY <1>1, <1>2, <1>3, <1>6, Zenon

\* A sequence of one element.
LEMMA OneElement ==
    ASSUME NEW S, NEW a \in Seq(S), Len(a) = 1
    PROVE  \E x \in S : a = <<x>>
<1>1. a[1] \in S
  OBVIOUS
<1>2. <<a[1]>> \in Seq(S) /\ Len(<<a[1]>>) = 1 /\ <<a[1]>>[1] = a[1]
  BY <1>1
<1>3. \A k \in 1..Len(a) : a[k] = <<a[1]>>[k]
  BY <1>2
<1>4. a = <<a[1]>>
  BY <1>2, <1>3, SeqEqual
<1> QED  BY <1>1, <1>4

\* Every hunk of a diff of f, and what it is to become, is a part of f that is
\* replaced.
LEMMA DiffsAre ==
    ASSUME NEW f \in Seq(Line), NEW d \in Diffs(f)
    PROVE  /\ d[1] \in Seq(Line) /\ d[2] \in Seq(DiffHunks)
           /\ \/ \E h \in DiffHunks, a, c \in Seq(Line) :
                    /\ d[2] = <<h>> /\ f = a \o h.old \o c /\ d[1] = a \o h.new \o c
                    /\ h.start = IF h.old = <<>> THEN Len(a) ELSE Len(a) + 1
              \/ \E x, y \in Line, m, s, t \in Seq(Line) :
                    /\ f = <<x>> \o (m \o <<y>>) /\ d[1] = s \o (m \o t)
                    /\ d[2] = <<[start |-> 1, old |-> <<x>>, new |-> s],
                                [start |-> Len(m) + 2, old |-> <<y>>, new |-> t]>>
<1>1. ASSUME NEW ij \in Segments(f), NEW s \in Insertions, NEW n \in 0..1
      PROVE  \E h \in DiffHunks, a, c \in Seq(Line) :
                /\ h = HunkOf(f, ij[1], ij[2], s, n) /\ f = a \o h.old \o c
                /\ Edit(f, ij[1], ij[2], s) = a \o h.new \o c
                /\ h.start = IF h.old = <<>> THEN Len(a) ELSE Len(a) + 1
  <2>1. PICK i \in 1..(Len(f) + 1), j \in 0..Len(f) : i = ij[1] /\ j = ij[2] /\ j >= i - 1
    BY DEF Segments
  <2>2. PICK first \in 1..i : first = IF i > n THEN i - n ELSE 1
    <3>1. (IF i > n THEN i - n ELSE 1) \in 1..i
      OBVIOUS
    <3> QED  BY <3>1, Zenon
  <2>3. PICK last \in j..Len(f) : last = IF j + n < Len(f) THEN j + n ELSE Len(f)
    OBVIOUS
  <2>4. PICK h : h = [start |-> IF SubSeq(f, first, last) = <<>> THEN first - 1 ELSE first,
                      old |-> SubSeq(f, first, last),
                      new |-> SubSeq(f, first, i - 1) \o s \o SubSeq(f, j + 1, last)]
    OBVIOUS
  <2>5. h = HunkOf(f, i, j, s, n)
    BY <2>2, <2>3, <2>4 DEF HunkOf
  <2>6. s \in Seq(Line)
    BY CodeDiffAssumption
  <2>7. first - 1 \in 0..Len(f) /\ last \in (first - 1)..Len(f)
    BY <2>1
  <2>8. PICK a, b, c \in Seq(Line) :
              /\ f = a \o b \o c /\ Len(a) = first - 1 /\ Len(a) + Len(b) = last
              /\ SubSeq(f, 1, first - 1) = a /\ SubSeq(f, (first - 1) + 1, last) = b
              /\ SubSeq(f, last + 1, Len(f)) = c
    <3>1. /\ SubSeq(f, 1, first - 1) \in Seq(Line) /\ Len(SubSeq(f, 1, first - 1)) = first - 1
          /\ SubSeq(f, (first - 1) + 1, last) \in Seq(Line)
          /\ Len(SubSeq(f, (first - 1) + 1, last)) = last - (first - 1)
          /\ SubSeq(f, last + 1, Len(f)) \in Seq(Line)
          /\ f = SubSeq(f, 1, first - 1) \o SubSeq(f, (first - 1) + 1, last) \o SubSeq(f, last + 1, Len(f))
      BY <2>7, LineParts, Zenon
    <3>2. (first - 1) + (last - (first - 1)) = last
      BY <2>7
    <3> QED  BY <3>1, <3>2, Zenon
  <2>9. h.old = b
    BY <2>4, <2>8
  <2>10. PICK p \in Seq(Line) : p = SubSeq(f, first, i - 1)
    <3>1. \A k \in first..(i - 1) : f[k] \in Line
      BY <2>1, <2>2
    <3>2. first \in Int /\ i - 1 \in Int
      OBVIOUS
    <3>3. SubSeq(f, first, i - 1) \in Seq(Line)
      BY <3>1, <3>2, SubSeqProperties, Zenon
    <3> QED  BY <3>3
  <2>11. PICK q \in Seq(Line) : q = SubSeq(f, j + 1, last)
    <3>1. \A k \in (j + 1)..last : f[k] \in Line
      BY <2>1, <2>3
    <3>2. j + 1 \in Int /\ last \in Int
      OBVIOUS
    <3>3. SubSeq(f, j + 1, last) \in Seq(Line)
      BY <3>1, <3>2, SubSeqProperties, Zenon
    <3> QED  BY <3>3
  <2>12. SubSeq(f, 1, i - 1) = a \o p
    <3>1. 1 \in 1..(Len(f) + 1) /\ first - 1 \in (1 - 1)..Len(f) /\ i - 1 \in (first - 1)..Len(f)
      <4>1. Len(f) \in Nat /\ i <= Len(f) + 1 /\ 1 <= first /\ first <= i
        OBVIOUS
      <4> QED  BY <4>1
    <3>2. SubSeq(f, 1, first - 1) \o SubSeq(f, (first - 1) + 1, i - 1) = SubSeq(f, 1, i - 1)
      BY <3>1, ConcatAdjacentSubSeq
    <3>3. (first - 1) + 1 = first
      OBVIOUS
    <3> QED  BY <3>2, <3>3, <2>8, <2>10, Zenon
  <2>13. SubSeq(f, j + 1, Len(f)) = q \o c
    <3>1. j + 1 \in 1..(Len(f) + 1) /\ last \in ((j + 1) - 1)..Len(f) /\ Len(f) \in last..Len(f)
      <4>1. Len(f) \in Nat /\ j \in 0..Len(f) /\ last \in j..Len(f)
        OBVIOUS
      <4> QED  BY <4>1
    <3>2. SubSeq(f, j + 1, last) \o SubSeq(f, last + 1, Len(f)) = SubSeq(f, j + 1, Len(f))
      BY <3>1, ConcatAdjacentSubSeq
    <3> QED  BY <3>2, <2>8, <2>11, Zenon
  <2>14. h.new = p \o s \o q /\ p \o s \o q \in Seq(Line)
    <3>1. p \o s \o q \in Seq(Line)
      BY <2>6, CutInThree
    <3> QED  BY <3>1, <2>4, <2>10, <2>11
  <2>15. Edit(f, i, j, s) = (a \o p) \o s \o (q \o c)
    BY <2>12, <2>13, Zenon DEF Edit
  <2>16. (a \o p) \o s \o (q \o c) = a \o (p \o s \o q) \o c
    <3>1. SameFive(a, p, s, q, c)
      BY <2>6, FiveTogether, Zenon
    <3> QED  BY <3>1, Zenon DEF SameFive
  <2>17. h.start = (IF h.old = <<>> THEN Len(a) ELSE Len(a) + 1) /\ h.start \in Nat
    BY <2>4, <2>8
  <2>18. h \in DiffHunks
    BY <2>4, <2>9, <2>14, <2>17 DEF DiffHunks
  <2> QED  BY <2>1, <2>5, <2>8, <2>9, <2>14, <2>15, <2>16, <2>17, <2>18
<1>2. ASSUME NEW s \in Insertions, NEW t \in Insertions, Len(f) > 1
      PROVE  \E x, y \in Line, m \in Seq(Line) :
                /\ f = <<x>> \o (m \o <<y>>)
                /\ Edit(Edit(f, Len(f), Len(f), t), 1, 1, s) = s \o (m \o t)
                /\ HunkOf(f, 1, 1, s, 0) = [start |-> 1, old |-> <<x>>, new |-> s]
                /\ HunkOf(f, Len(f), Len(f), t, 0) = [start |-> Len(m) + 2, old |-> <<y>>, new |-> t]
  <2>1. s \in Seq(Line) /\ t \in Seq(Line)
    BY CodeDiffAssumption
  <2>2. 1 \in 0..Len(f) /\ Len(f) - 1 \in 1..Len(f)
    BY <1>2
  <2>3. PICK a, m, b \in Seq(Line) :
              /\ f = a \o m \o b /\ Len(a) = 1 /\ Len(a) + Len(m) = Len(f) - 1
              /\ SubSeq(f, 1, 1) = a /\ SubSeq(f, 1 + 1, Len(f) - 1) = m
              /\ SubSeq(f, (Len(f) - 1) + 1, Len(f)) = b
    <3>1. /\ SubSeq(f, 1, 1) \in Seq(Line) /\ Len(SubSeq(f, 1, 1)) = 1
          /\ SubSeq(f, 1 + 1, Len(f) - 1) \in Seq(Line)
          /\ Len(SubSeq(f, 1 + 1, Len(f) - 1)) = Len(f) - 1 - 1
          /\ SubSeq(f, (Len(f) - 1) + 1, Len(f)) \in Seq(Line)
          /\ f = SubSeq(f, 1, 1) \o SubSeq(f, 1 + 1, Len(f) - 1) \o SubSeq(f, (Len(f) - 1) + 1, Len(f))
      BY <2>2, LineParts, Zenon
    <3>2. 1 + (Len(f) - 1 - 1) = Len(f) - 1
      BY <2>2
    <3> QED  BY <3>1, <3>2, Zenon
  <2>4. PICK x \in Line : a = <<x>>
    BY <2>3, Zenon, OneElement
  <2>5. Len(b) = 1
    BY <2>3, CutInThree
  <2>6. PICK y \in Line : b = <<y>>
    BY <2>5, Zenon, OneElement
  <2>7. f = <<x>> \o (m \o <<y>>)
    BY <2>3, <2>4, <2>6, ConcatAssociative
  <2>8. SubSeq(f, 1, Len(f) - 1) = <<x>> \o m
    <3>1. (<<x>> \o m) \in Seq(Line) /\ Len(<<x>> \o m) = Len(f) - 1
      BY <2>3, <2>4, ConcatProperties
    <3>2. f = (<<x>> \o m) \o <<y>>
      BY <2>3, <2>4, <2>6
    <3> QED  BY <3>1, <3>2, CutInTwo
  <2>9. SubSeq(f, Len(f) + 1, Len(f)) = <<>> /\ SubSeq(f, 1, 0) = <<>> /\ SubSeq(f, 2, 1) = <<>>
        /\ SubSeq(f, Len(f), Len(f) - 1) = <<>>
    BY SubSeqEmpty
  <2>10. PICK g : g = Edit(f, Len(f), Len(f), t)
    OBVIOUS
  <2>11. g = <<x>> \o (m \o t)
    <3>1. g = ((<<x>> \o m) \o t) \o <<>>
      BY <2>8, <2>9, <2>10, Zenon DEF Edit
    <3>2. (<<x>> \o m) \o t \in Seq(Line)
      BY <2>1, <2>4, CutInThree
    <3>3. g = (<<x>> \o m) \o t
      BY <3>1, <3>2, ConcatEmptySeq
    <3> QED  BY <3>3, <2>1, ConcatAssociative
  <2>12. SubSeq(g, 2, Len(g)) = m \o t /\ SubSeq(g, 1, 0) = <<>>
    <3>1. m \o t \in Seq(Line)
      BY <2>1, ConcatProperties
    <3>2. <<x>> \in Seq(Line) /\ Len(<<x>>) = 1
      OBVIOUS
    <3>3. Len(g) = 1 + Len(m \o t)
      BY <3>1, <3>2, <2>11, ConcatProperties
    <3>4. SubSeq(<<x>> \o (m \o t), Len(<<x>>) + 1, Len(<<x>>) + Len(m \o t)) = m \o t
      BY <3>1, <3>2, CutInTwo
    <3>5. SubSeq(g, 2, Len(g)) = m \o t
      BY <3>2, <3>3, <3>4, <2>11
    <3> QED  BY <3>5, SubSeqEmpty
  <2>13. Edit(g, 1, 1, s) = s \o (m \o t)
    <3>1. Edit(g, 1, 1, s) = SubSeq(g, 1, 1 - 1) \o s \o SubSeq(g, 1 + 1, Len(g))
      BY DEF Edit
    <3>2. 1 - 1 = 0 /\ 1 + 1 = 2
      OBVIOUS
    <3>3. Edit(g, 1, 1, s) = (<<>> \o s) \o (m \o t)
      BY <3>1, <3>2, <2>12, Zenon
    <3>4. <<>> \o s = s
      BY <2>1, ConcatEmptySeq
    <3> QED  BY <3>3, <3>4, Zenon
  <2>14. HunkOf(f, 1, 1, s, 0) = [start |-> 1, old |-> <<x>>, new |-> s]
    <3>1. /\ (IF 1 > 0 THEN 1 - 0 ELSE 1) = 1 /\ (IF 1 + 0 < Len(f) THEN 1 + 0 ELSE Len(f)) = 1
          /\ 1 - 1 = 0 /\ 1 + 1 = 2
      BY <1>2
    <3>2. HunkOf(f, 1, 1, s, 0) = [start |-> IF SubSeq(f, 1, 1) = <<>> THEN 0 ELSE 1,
                                   old |-> SubSeq(f, 1, 1),
                                   new |-> SubSeq(f, 1, 0) \o s \o SubSeq(f, 2, 1)]
      BY <3>1, Zenon DEF HunkOf
    <3>3. (<<>> \o s) \o <<>> = s
      BY <2>1
    <3>4. <<x>> # <<>> /\ SubSeq(f, 1, 1) = <<x>>
      BY <2>3, <2>4
    <3> QED  BY <3>2, <3>3, <3>4, <2>9, Zenon
  <2>15. HunkOf(f, Len(f), Len(f), t, 0) = [start |-> Len(m) + 2, old |-> <<y>>, new |-> t]
    <3>1. /\ (IF Len(f) > 0 THEN Len(f) - 0 ELSE 1) = Len(f)
          /\ (IF Len(f) + 0 < Len(f) THEN Len(f) + 0 ELSE Len(f)) = Len(f)
      BY <1>2
    <3>2. HunkOf(f, Len(f), Len(f), t, 0) =
             [start |-> IF SubSeq(f, Len(f), Len(f)) = <<>> THEN Len(f) - 1 ELSE Len(f),
              old |-> SubSeq(f, Len(f), Len(f)),
              new |-> SubSeq(f, Len(f), Len(f) - 1) \o t \o SubSeq(f, Len(f) + 1, Len(f))]
      BY <3>1, Zenon DEF HunkOf
    <3>3. (<<>> \o t) \o <<>> = t
      BY <2>1
    <3>4. SubSeq(f, Len(f), Len(f)) = <<y>> /\ Len(f) = Len(m) + 2
      BY <2>3, <2>6
    <3>5. <<y>> # <<>>
      OBVIOUS
    <3> QED  BY <3>2, <3>3, <3>4, <3>5, <2>9, Zenon
  <2> QED  BY <2>7, <2>10, <2>13, <2>14, <2>15
<1>3. CASE \E ij \in Segments(f), s \in Insertions, c \in {0, 1} :
              d = <<Edit(f, ij[1], ij[2], s), <<HunkOf(f, ij[1], ij[2], s, c)>>>>
  <2>1. PICK ij \in Segments(f), s \in Insertions, n \in 0..1 :
           d[1] = Edit(f, ij[1], ij[2], s) /\ d[2] = <<HunkOf(f, ij[1], ij[2], s, n)>>
    BY <1>3
  <2>2. PICK h \in DiffHunks, a, c \in Seq(Line) :
                /\ h = HunkOf(f, ij[1], ij[2], s, n) /\ f = a \o h.old \o c
                /\ Edit(f, ij[1], ij[2], s) = a \o h.new \o c
                /\ h.start = IF h.old = <<>> THEN Len(a) ELSE Len(a) + 1
    BY <1>1
  <2>3. d[2] = <<h>> /\ d[2] \in Seq(DiffHunks)
    <3>1. <<h>> \in Seq(DiffHunks)
      OBVIOUS
    <3> QED  BY <3>1, <2>1, <2>2, Zenon
  <2>4. d[1] = a \o h.new \o c /\ d[1] \in Seq(Line)
    <3>1. h.new \in Seq(Line)
      BY DEF DiffHunks
    <3>2. a \o h.new \o c \in Seq(Line)
      BY <3>1, CutInThree, Zenon
    <3> QED  BY <3>2, <2>1, <2>2, Zenon
  <2> QED  BY <2>2, <2>3, <2>4
<1>4. CASE \E s \in Insertions, t \in IF Len(f) > 1 THEN Insertions ELSE {} :
              d = <<Edit(Edit(f, Len(f), Len(f), t), 1, 1, s),
                    <<HunkOf(f, 1, 1, s, 0), HunkOf(f, Len(f), Len(f), t, 0)>>>>
  <2>1. PICK s \in Insertions, t \in IF Len(f) > 1 THEN Insertions ELSE {} :
           /\ d[1] = Edit(Edit(f, Len(f), Len(f), t), 1, 1, s)
           /\ d[2] = <<HunkOf(f, 1, 1, s, 0), HunkOf(f, Len(f), Len(f), t, 0)>>
    BY <1>4
  <2>2. Len(f) > 1 /\ t \in Insertions
    BY <2>1
  <2>3. PICK x, y \in Line, m \in Seq(Line) :
                /\ f = <<x>> \o (m \o <<y>>)
                /\ Edit(Edit(f, Len(f), Len(f), t), 1, 1, s) = s \o (m \o t)
                /\ HunkOf(f, 1, 1, s, 0) = [start |-> 1, old |-> <<x>>, new |-> s]
                /\ HunkOf(f, Len(f), Len(f), t, 0) = [start |-> Len(m) + 2, old |-> <<y>>, new |-> t]
    BY <2>2, <1>2
  <2>4. s \in Seq(Line) /\ t \in Seq(Line)
    BY <2>2, CodeDiffAssumption
  <2>5. d[1] \in Seq(Line)
    <3>1. s \o (m \o t) \in Seq(Line)
      BY <2>4, ConcatProperties
    <3> QED  BY <3>1, <2>1, <2>3, Zenon
  <2>6. /\ d[2] = <<[start |-> 1, old |-> <<x>>, new |-> s], [start |-> Len(m) + 2, old |-> <<y>>, new |-> t]>>
        /\ d[2] \in Seq(DiffHunks)
    <3>1. [start |-> 1, old |-> <<x>>, new |-> s] \in DiffHunks
      BY <2>4 DEF DiffHunks
    <3>2. [start |-> Len(m) + 2, old |-> <<y>>, new |-> t] \in DiffHunks
      BY <2>4 DEF DiffHunks
    <3>3. <<[start |-> 1, old |-> <<x>>, new |-> s], [start |-> Len(m) + 2, old |-> <<y>>, new |-> t]>>
             \in Seq(DiffHunks)
      BY <3>1, <3>2
    <3> QED  BY <3>3, <2>1, <2>3, Zenon
  <2>7. /\ s \in Seq(Line) /\ t \in Seq(Line)
        /\ f = <<x>> \o (m \o <<y>>) /\ d[1] = s \o (m \o t)
        /\ d[2] = <<[start |-> 1, old |-> <<x>>, new |-> s], [start |-> Len(m) + 2, old |-> <<y>>, new |-> t]>>
    BY <2>1, <2>3, <2>4, <2>6, Zenon
  <2> QED  BY <2>5, <2>6, <2>7, Zenon
<1>5. \/ \E ij \in Segments(f), s \in Insertions, c \in {0, 1} :
              d = <<Edit(f, ij[1], ij[2], s), <<HunkOf(f, ij[1], ij[2], s, c)>>>>
      \/ \E s \in Insertions, t \in IF Len(f) > 1 THEN Insertions ELSE {} :
              d = <<Edit(Edit(f, Len(f), Len(f), t), 1, 1, s),
                    <<HunkOf(f, 1, 1, s, 0), HunkOf(f, Len(f), Len(f), t, 0)>>>>
  <2> DEFINE One == {<<Edit(f, ij[1], ij[2], s), <<HunkOf(f, ij[1], ij[2], s, c)>>>> :
                        ij \in Segments(f), s \in Insertions, c \in {0, 1}}
             Two == {<<Edit(Edit(f, Len(f), Len(f), t), 1, 1, s),
                       <<HunkOf(f, 1, 1, s, 0), HunkOf(f, Len(f), Len(f), t, 0)>>>> :
                        s \in Insertions, t \in IF Len(f) > 1 THEN Insertions ELSE {}}
  <2>1. Diffs(f) = One \cup Two
    BY DEF Diffs
  <2>2. CASE d \in One
    <3>1. \E ij \in Segments(f), s \in Insertions, c \in {0, 1} :
              d = <<Edit(f, ij[1], ij[2], s), <<HunkOf(f, ij[1], ij[2], s, c)>>>>
      BY <2>2
    <3> QED  BY <3>1
  <2>3. CASE d \in Two
    BY <2>3
  <2> HIDE DEF One, Two
  <2> QED  BY <2>1, <2>2, <2>3
<1> QED  BY <1>3, <1>4, <1>5, Zenon

BehindAlso(g, a, old, new, c) ==
    \E b \in Seq(Line) :
        /\ Len(b) = Len(g) + Len(a)
        /\ g \o (a \o old \o c) = b \o old \o c /\ g \o (a \o new \o c) = b \o new \o c

\* A hunk that stands behind a stands behind the lines on top of a and a.
LEMMA OnTopOfHunk ==
    \A g, a, old, new, c \in Seq(Line) : BehindAlso(g, a, old, new, c)
<1> SUFFICES ASSUME NEW g \in Seq(Line), NEW a \in Seq(Line), NEW old \in Seq(Line),
                    NEW new \in Seq(Line), NEW c \in Seq(Line)
             PROVE  \E b \in Seq(Line) :
                       /\ Len(b) = Len(g) + Len(a)
                       /\ g \o (a \o old \o c) = b \o old \o c
                       /\ g \o (a \o new \o c) = b \o new \o c
  BY Zenon DEF BehindAlso
<1>1. g \o a \in Seq(Line) /\ Len(g \o a) = Len(g) + Len(a)
  BY Together, Zenon
<1>2. ASSUME NEW o \in Seq(Line) PROVE g \o (a \o o \o c) = (g \o a) \o o \o c
  <2>1. PICK u \in Seq(Line) : u = a \o o
    BY Together
  <2>2. g \o (u \o c) = (g \o u) \o c
    OBVIOUS
  <2>3. g \o (a \o o) = (g \o a) \o o
    OBVIOUS
  <2> QED  BY <2>1, <2>2, <2>3, Zenon
<1>3. g \o (a \o old \o c) = (g \o a) \o old \o c /\ g \o (a \o new \o c) = (g \o a) \o new \o c
  BY <1>2, Zenon
<1> QED  BY <1>1, <1>3, Zenon

LastBehind(g, s, m, last, t) ==
    \E a, e \in Seq(Line) :
        /\ Len(a) = Len(g) + Len(s) + Len(m)
        /\ g \o s \o (m \o last) = a \o last \o e
        /\ g \o (s \o (m \o t)) = a \o t \o e

\* The last line stands behind the lines on top, those the first line became
\* and those between.
LEMMA BehindFirst ==
    \A g, s, m, last, t \in Seq(Line) : LastBehind(g, s, m, last, t)
<1> SUFFICES ASSUME NEW g \in Seq(Line), NEW s \in Seq(Line), NEW m \in Seq(Line),
                    NEW last \in Seq(Line), NEW t \in Seq(Line)
             PROVE  \E a, e \in Seq(Line) :
                       /\ Len(a) = Len(g) + Len(s) + Len(m)
                       /\ g \o s \o (m \o last) = a \o last \o e
                       /\ g \o (s \o (m \o t)) = a \o t \o e
  BY Zenon DEF LastBehind
<1>1. g \o s \in Seq(Line) /\ (g \o s) \o m \in Seq(Line) /\ <<>> \in Seq(Line)
  BY Together
<1>2. Len((g \o s) \o m) = Len(g) + Len(s) + Len(m)
  BY CutInThree
<1>3. ASSUME NEW z \in Seq(Line) PROVE (g \o s) \o (m \o z) = ((g \o s) \o m) \o z \o <<>>
  <2>1. PICK u \in Seq(Line) : u = g \o s
    BY Together
  <2>2. u \o (m \o z) = (u \o m) \o z
    OBVIOUS
  <2>3. (u \o m) \o z \in Seq(Line)
    BY Together
  <2>4. ((u \o m) \o z) \o <<>> = (u \o m) \o z
    BY <2>3, NoneAdded
  <2> QED  BY <2>1, <2>2, <2>4, Zenon
<1>4. g \o (s \o (m \o t)) = (g \o s) \o (m \o t)
  <2>1. PICK u \in Seq(Line) : u = m \o t
    BY Together
  <2>2. g \o (s \o u) = (g \o s) \o u
    OBVIOUS
  <2> QED  BY <2>1, <2>2, Zenon
<1>5. /\ Len((g \o s) \o m) = Len(g) + Len(s) + Len(m)
      /\ g \o s \o (m \o last) = ((g \o s) \o m) \o last \o <<>>
      /\ g \o (s \o (m \o t)) = ((g \o s) \o m) \o t \o <<>>
  BY <1>2, <1>3, <1>4, Zenon
<1> QED  BY <1>1, <1>5, Zenon

\* At the start nothing is taken.
LEMMA DiffInit == CodeDiffInit => DiffInv
<1>1. CodeDiffInit => DiffTypes
  <2>1. <<>> \in Seq(Line) /\ <<>> \in Seq(DiffHunks) /\ 0 \in 0..Len(<<>>) /\ 0 \in Int
    OBVIOUS
  <2> QED  BY <2>1, Zenon DEF CodeDiffInit, DiffTypes
<1>2. CodeDiffInit => DiffPlaces
  BY DEF CodeDiffInit, DiffPlaces
<1> QED  BY <1>1, <1>2 DEF DiffInv

\* The hunks of the diff fit into the file, the lines on top of it included.
LEMMA DiffTaken == DiffInv /\ TakeDiff => DiffInv'
<1> SUFFICES ASSUME DiffInv, TakeDiff PROVE DiffInv'
  OBVIOUS
<1>1. original' \in Seq(Line) /\ drift' \in Seq(Line)
  BY CodeDiffAssumption DEF TakeDiff, BoundedSeq, SeqOf
<1>2. PICK d \in Diffs(original') : edited' = d[1] /\ hunks' = d[2]
  BY DEF TakeDiff
<1>3. PICK f \in Seq(Line), g \in Seq(Line) : f = original' /\ g = drift'
  BY <1>1
<1>4. lines' = g \o f /\ lines' \in Seq(Line)
  <2>1. lines' = g \o f
    BY <1>3 DEF TakeDiff
  <2>2. g \o f \in Seq(Line)
    BY ConcatProperties
  <2> QED  BY <2>1, <2>2
<1>5. /\ d[1] \in Seq(Line) /\ d[2] \in Seq(DiffHunks)
      /\ \/ \E h \in DiffHunks, a, c \in Seq(Line) :
               /\ d[2] = <<h>> /\ f = a \o h.old \o c /\ d[1] = a \o h.new \o c
               /\ h.start = IF h.old = <<>> THEN Len(a) ELSE Len(a) + 1
         \/ \E x, y \in Line, m, s, t \in Seq(Line) :
               /\ f = <<x>> \o (m \o <<y>>) /\ d[1] = s \o (m \o t)
               /\ d[2] = <<[start |-> 1, old |-> <<x>>, new |-> s],
                           [start |-> Len(m) + 2, old |-> <<y>>, new |-> t]>>
  <2>1. d \in Diffs(f)
    BY <1>2, <1>3
  <2> QED  BY <2>1, DiffsAre
<1>6. /\ cursor' = 0 /\ lineOffset' = 0 /\ ~applyErr' /\ unique' /\ taken'
      /\ bare' = (\E i \in DOMAIN hunks' : hunks'[i].old = <<>> /\ hunks'[i].start > 0)
  BY DEF TakeDiff, DiffInv, DiffPlaces
<1>7. DiffTypes'
  <2>1. cursor' \in 0..Len(lines')
    <3>1. PICK l \in Seq(Line) : l = lines'
      BY <1>4
    <3>2. Len(l) \in Nat
      OBVIOUS
    <3> QED  BY <3>1, <3>2, <1>6
  <2>2. bare' \in BOOLEAN
    BY <1>6
  <2>3. edited' \in Seq(Line) /\ hunks' \in Seq(DiffHunks)
    BY <1>2, <1>5
  <2>4. taken' \in BOOLEAN /\ applyErr' \in BOOLEAN /\ unique' \in BOOLEAN /\ lineOffset' \in Int
    BY DEF DiffInv, DiffTypes, TakeDiff
  <2> QED  BY <1>1, <1>4, <2>1, <2>2, <2>3, <2>4, Zenon DEF DiffTypes
<1>8. CASE \E h \in DiffHunks, a, c \in Seq(Line) :
              /\ d[2] = <<h>> /\ f = a \o h.old \o c /\ d[1] = a \o h.new \o c
              /\ h.start = IF h.old = <<>> THEN Len(a) ELSE Len(a) + 1
  <2>1. PICK h \in DiffHunks, a \in Seq(Line), c \in Seq(Line) :
              /\ d[2] = <<h>> /\ f = a \o h.old \o c /\ d[1] = a \o h.new \o c
              /\ h.start = IF h.old = <<>> THEN Len(a) ELSE Len(a) + 1
    BY <1>8
  <2>4. PICK old \in Seq(Line), new \in Seq(Line) : old = h.old /\ new = h.new
    BY DEF DiffHunks
  <2>3. PICK b \in Seq(Line) :
            /\ Len(b) = Len(g) + Len(a)
            /\ g \o (a \o old \o c) = b \o old \o c /\ g \o (a \o new \o c) = b \o new \o c
    <3>1. BehindAlso(g, a, old, new, c)
      BY OnTopOfHunk, Zenon
    <3> QED  BY <3>1, Zenon DEF BehindAlso
  <2>6. lines' = b \o h.old \o c /\ drift' \o edited' = b \o h.new \o c
    BY <1>2, <1>3, <1>4, <2>1, <2>3, <2>4, Zenon
  <2>7. hunks' = <<h>>
    BY <1>2, <2>1
  <2>8. drift' = <<>> /\ ~bare' =>
           IF h.old = <<>> THEN Len(b) = 0 /\ h.start - 1 + 0 <= 0
           ELSE h.start - 1 + 0 = Len(b)
    <3> SUFFICES ASSUME drift' = <<>>, ~bare'
                 PROVE  IF h.old = <<>> THEN Len(b) = 0 /\ h.start - 1 + 0 <= 0
                        ELSE h.start - 1 + 0 = Len(b)
      OBVIOUS
    <3>1. Len(b) = Len(a)
      BY <1>3, <2>3
    <3>2. ~(h.old = <<>> /\ h.start > 0)
      <4>1. 1 \in DOMAIN hunks' /\ hunks'[1] = h
        BY <2>7
      <4> QED  BY <4>1, <1>6
    <3> QED  BY <3>1, <3>2, <2>1
  <2>9. LastToCome(h, b, c)'
    <3>1. cursor' <= Len(b)
      BY <1>6
    <3> QED  BY <3>1, <1>6, <2>6, <2>7, <2>8 DEF LastToCome
  <2> QED  BY <2>9, <1>6, <1>7 DEF DiffInv, DiffPlaces
<1>9. CASE \E x, y \in Line, m, s, t \in Seq(Line) :
              /\ f = <<x>> \o (m \o <<y>>) /\ d[1] = s \o (m \o t)
              /\ d[2] = <<[start |-> 1, old |-> <<x>>, new |-> s],
                          [start |-> Len(m) + 2, old |-> <<y>>, new |-> t]>>
  <2>1. PICK x, y \in Line, m, s, t \in Seq(Line) :
              /\ f = <<x>> \o (m \o <<y>>) /\ d[1] = s \o (m \o t)
              /\ d[2] = <<[start |-> 1, old |-> <<x>>, new |-> s],
                          [start |-> Len(m) + 2, old |-> <<y>>, new |-> t]>>
    BY <1>9, Zenon
  <2>2. BothToCome(x, m, y, s, t)'
    BY <2>1, <1>2, <1>3, <1>4, <1>6, Zenon DEF BothToCome
  <2> QED  BY <2>2, <1>6, <1>7 DEF DiffInv, DiffPlaces
<1> QED  BY <1>5, <1>8, <1>9, Zenon

\* A hunk with no place is refused, and the others leave the cursor within the
\* file they make.
LEMMA HunkTyped == DiffInv /\ ApplyHunk => DiffTypes'
<1> SUFFICES ASSUME DiffInv, ApplyHunk PROVE DiffTypes'
  OBVIOUS
<1> USE DEF DiffInv, DiffTypes
<1>1. PICK h \in DiffHunks : h = Head(hunks)
  BY DEF ApplyHunk
<1>2. PICK old \in Seq(Line), new \in Seq(Line) : old = h.old /\ new = h.new
  BY DEF DiffHunks
<1>3. PICK f \in Seq(Line) : f = lines
  OBVIOUS
<1>4. PICK from \in 0..Len(f), hint \in Int : from = cursor /\ hint = h.start - 1 + lineOffset
  <2>1. h.start - 1 + lineOffset \in Int
    BY DEF DiffHunks
  <2>2. cursor \in 0..Len(f)
    BY <1>3
  <2> QED  BY <2>1, <2>2
<1>5. PICK pos : pos = findHunkPosition(f, old, from, hint)
  OBVIOUS
<1>6. (pos = -1 /\ old # <<>>) \/ (pos \in from..Len(f) /\ pos + Len(old) <= Len(f))
  BY <1>5, PlaceInFile, Zenon
<1>7. (IF pos < 0 THEN NoPlace ELSE Splice(h, pos)) /\ unique' \in BOOLEAN
      /\ UNCHANGED <<taken, original, edited, drift, bare>>
  BY <1>1, <1>2, <1>3, <1>4, <1>5 DEF ApplyHunk
<1>8. CASE pos < 0
  BY <1>7, <1>8 DEF NoPlace
<1>9. CASE ~(pos < 0)
  <2>1. pos \in from..Len(f) /\ pos + Len(old) <= Len(f)
    BY <1>6, <1>9
  <2>2. pos \in 0..Len(f) /\ pos + Len(old) \in pos..Len(f)
    BY <2>1
  <2>3. PICK a \in Seq(Line), c \in Seq(Line) :
           /\ a = SubSeq(f, 1, pos) /\ c = SubSeq(f, (pos + Len(old)) + 1, Len(f)) /\ Len(a) = pos
    BY <2>2, LineParts, Zenon
  <2>4. lines' = a \o new \o c
    BY <1>7, <1>9, <1>2, <1>3, <2>3 DEF Splice
  <2>5. a \o new \o c \in Seq(Line) /\ Len(a \o new \o c) = Len(a) + Len(new) + Len(c)
    BY CutInThree
  <2>6. cursor' = pos + Len(new) /\ lineOffset' = lineOffset + Len(new) - Len(old)
        /\ hunks' = Tail(hunks) /\ UNCHANGED applyErr
    BY <1>7, <1>9, <1>2 DEF Splice
  <2>7. cursor' \in 0..Len(lines')
    <3>1. PICK l : l = lines'
      OBVIOUS
    <3>2. Len(l) = pos + Len(new) + Len(c)
      BY <3>1, <2>3, <2>4, <2>5, Zenon
    <3>3. pos + Len(new) \in 0..(pos + Len(new) + Len(c))
      BY <2>2
    <3> QED  BY <3>1, <3>2, <3>3, <2>6, Zenon
  <2>8. hunks' \in Seq(DiffHunks)
    BY <2>6 DEF ApplyHunk
  <2>9. lineOffset' \in Int
    BY <2>6
  <2> QED  BY <1>7, <2>4, <2>5, <2>6, <2>7, <2>8, <2>9
<1> QED  BY <1>8, <1>9

\* The hunk that is next goes where its lines are, and the rest then fits.
LEMMA HunkPlaced == DiffInv /\ ApplyHunk => DiffPlaces'
<1> SUFFICES ASSUME DiffInv, ApplyHunk PROVE DiffPlaces'
  OBVIOUS
<1> USE DEF DiffInv
<1>1. taken /\ taken' /\ UNCHANGED <<edited, drift, bare>> /\ hunks # <<>>
  BY DEF DiffPlaces, ApplyHunk
<1>2. SUFFICES ASSUME Promised'
      PROVE  /\ ~applyErr'
             /\ \/ hunks' = <<>> /\ lines' = drift' \o edited'
                \/ \E h \in DiffHunks, a, c \in Seq(Line) : LastToCome(h, a, c)'
  BY <1>1 DEF DiffPlaces
<1>3. \/ drift = <<>> /\ ~bare
      \/ unique /\ \E i \in 0..Len(lines) : Matches(lines, Head(hunks).old, cursor) = {i}
  <2>1. PICK p \in BOOLEAN : p = \E i \in 0..Len(lines) : Matches(lines, Head(hunks).old, cursor) = {i}
    OBVIOUS
  <2>2. unique' = (unique /\ p)
    BY <2>1 DEF ApplyHunk
  <2>3. (drift = <<>> /\ ~bare) \/ (unique /\ p)
    BY <1>1, <1>2, <2>2 DEF Promised
  <2> QED  BY <2>1, <2>3, Zenon
<1>8. LET h == Head(hunks)
          pos == findHunkPosition(lines, h.old, cursor, h.start - 1 + lineOffset)
      IN  IF pos < 0 THEN NoPlace ELSE Splice(h, pos)
  BY DEF ApplyHunk
<1>4. /\ ~applyErr
      /\ \/ \E h \in DiffHunks, a, c \in Seq(Line) : LastToCome(h, a, c)
         \/ \E x, y \in Line, m, s, t \in Seq(Line) : BothToCome(x, m, y, s, t)
  BY <1>1, <1>3 DEF DiffPlaces, Promised
<1>5. lineOffset \in Int /\ drift \in Seq(Line) /\ lines \in Seq(Line) /\ cursor \in 0..Len(lines)
  BY DEF DiffTypes
<1>6. CASE \E h \in DiffHunks, a, c \in Seq(Line) : LastToCome(h, a, c)
  <2>1. PICK h \in DiffHunks, a \in Seq(Line), c \in Seq(Line) : LastToCome(h, a, c)
    BY <1>6
  <2>2. PICK old \in Seq(Line) : old = h.old
    BY DEF DiffHunks
  <2>3. h = Head(hunks) /\ Tail(hunks) = <<>>
    BY <2>1 DEF LastToCome
  <2>4. PICK f : f = lines
    OBVIOUS
  <2>5. PICK hint \in Int : hint = h.start - 1 + lineOffset
    BY <1>5 DEF DiffHunks
  <2>6. StandsBehind(a, old, f) /\ cursor \in 0..Len(a)
    <3>1. f = a \o old \o c /\ cursor \in 0..Len(a)
      BY <1>5, <2>1, <2>2, <2>4 DEF LastToCome
    <3> QED  BY <3>1, Zenon DEF StandsBehind
  <2>7. FoundAt(a, old, f, cursor, hint)
    BY <1>3, <2>1, <2>2, <2>3, <2>4, <2>5 DEF LastToCome, FoundAt
  <2>8. findHunkPosition(f, old, cursor, hint) = Len(a)
    <3>1. PICK from \in 0..Len(a) : from = cursor
      BY <2>6
    <3> QED  BY <3>1, <2>6, <2>7, PlaceBetween, Zenon
  <2>9. Splice(h, Len(a))
    <3>1. Len(a) \in Nat
      OBVIOUS
    <3>2. findHunkPosition(lines, h.old, cursor, h.start - 1 + lineOffset) = Len(a)
      BY <2>8, <2>2, <2>4, <2>5, Zenon
    <3>3. IF Len(a) < 0 THEN NoPlace ELSE Splice(h, Len(a))
      BY <3>2, <1>8, <2>3, Zenon
    <3>4. ~(Len(a) < 0)
      BY <3>1
    <3> QED  BY <3>3, <3>4, Zenon
  <2>10. lines' = a \o h.new \o c /\ hunks' = Tail(hunks) /\ UNCHANGED applyErr
    <3>1. lines = a \o h.old \o c
      BY <2>1 DEF LastToCome
    <3> QED  BY <3>1, <2>9, <1>5, SplicedBetween
  <2>11. drift' \o edited' = a \o h.new \o c
    BY <1>1, <2>1, Zenon DEF LastToCome
  <2> QED  BY <1>4, <2>3, <2>10, <2>11, Zenon
<1>7. CASE \E x, y \in Line, m, s, t \in Seq(Line) : BothToCome(x, m, y, s, t)
  <2>1. PICK x, y \in Line, m, s, t \in Seq(Line) : BothToCome(x, m, y, s, t)
    BY <1>7
  <2>2. PICK h, k : h = [start |-> 1, old |-> <<x>>, new |-> s]
                    /\ k = [start |-> Len(m) + 2, old |-> <<y>>, new |-> t]
    OBVIOUS
  <2>3. hunks = <<h, k>> /\ h \in DiffHunks /\ k \in DiffHunks
    BY <2>1, <2>2 DEF BothToCome, DiffHunks
  <2>4. PICK g \in Seq(Line), c \in Seq(Line), old \in Seq(Line) :
           g = drift /\ c = m \o <<y>> /\ old = <<x>>
    <3>1. <<x>> \in Seq(Line) /\ <<y>> \in Seq(Line)
      OBVIOUS
    <3>2. m \o <<y>> \in Seq(Line)
      BY <3>1, ConcatProperties
    <3> QED  BY <1>5, <3>1, <3>2
  <2>5. PICK f : f = lines
    OBVIOUS
  <2>6. f = g \o old \o c /\ cursor = 0 /\ lineOffset = 0 /\ edited = s \o (m \o t)
    <3>1. f = g \o (old \o c)
      BY <2>1, <2>4, <2>5, Zenon DEF BothToCome
    <3>2. g \o (old \o c) = g \o old \o c
      OBVIOUS
    <3> QED  BY <3>1, <3>2, <2>1 DEF BothToCome
  <2>7. Head(hunks) = h /\ Tail(hunks) = <<k>> /\ h.old = old /\ h.new = s /\ h.start = 1
    <3>1. Head(<<h, k>>) = h /\ Tail(<<h, k>>) = <<k>>
      OBVIOUS
    <3>2. h.old = <<x>> /\ h.new = s /\ h.start = 1
      BY <2>2
    <3> QED  BY <3>1, <3>2, <2>3, <2>4, Zenon
  <2>8. FoundAt(g, old, f, 0, 0) /\ StandsBehind(g, old, f)
    <3>1. StandsBehind(g, old, f)
      BY <2>6, Zenon DEF StandsBehind
    <3>2. CASE drift = <<>> /\ ~bare
      <4>1. old # <<>> /\ 0 = Len(g)
        BY <3>2, <2>4
      <4> QED  BY <4>1, <3>1, Zenon DEF FoundAt
    <3>3. CASE unique /\ \E i \in 0..Len(lines) : Matches(lines, Head(hunks).old, cursor) = {i}
      <4>1. PICK i \in 0..Len(lines) : Matches(lines, Head(hunks).old, cursor) = {i}
        BY <3>3
      <4>2. i \in 0..Len(f) /\ Matches(f, old, 0) = {i}
        BY <4>1, <2>5, <2>6, <2>7
      <4> QED  BY <4>2, <3>1, Zenon DEF FoundAt
    <3> QED  BY <1>3, <3>1, <3>2, <3>3, Zenon
  <2>9. findHunkPosition(f, old, 0, 0) = Len(g)
    <3>1. 0 \in 0..Len(g) /\ 0 \in Int
      OBVIOUS
    <3> QED  BY <3>1, <2>8, PlaceBetween, Zenon
  <2>10. Splice(h, Len(g))
    <3>1. Len(g) \in Nat
      OBVIOUS
    <3>2. h.start - 1 + lineOffset = 0
      BY <2>6, <2>7
    <3>3. findHunkPosition(lines, h.old, cursor, h.start - 1 + lineOffset) = Len(g)
      BY <2>9, <3>2, <2>5, <2>6, <2>7, Zenon
    <3>4. IF Len(g) < 0 THEN NoPlace ELSE Splice(h, Len(g))
      BY <3>3, <1>8, <2>7, Zenon
    <3>5. ~(Len(g) < 0)
      BY <3>1
    <3> QED  BY <3>4, <3>5, Zenon
  <2>11. /\ lines' = g \o s \o c /\ cursor' = Len(g) + Len(s)
         /\ lineOffset' = 0 + Len(s) - Len(old)
         /\ hunks' = <<k>> /\ UNCHANGED applyErr
    <3>1. lines = g \o h.old \o c
      BY <2>5, <2>6, <2>7
    <3>2. /\ lines' = g \o h.new \o c /\ cursor' = Len(g) + Len(h.new)
          /\ lineOffset' = lineOffset + Len(h.new) - Len(h.old) /\ lineOffset' \in Int
          /\ hunks' = Tail(hunks) /\ UNCHANGED applyErr
      BY <3>1, <2>3, <2>10, <1>5, SplicedBetween
    <3> QED  BY <3>2, <2>6, <2>7
  <2>12. PICK last \in Seq(Line) : last = <<y>>
    <3>1. <<y>> \in Seq(Line)
      OBVIOUS
    <3> QED  BY <3>1
  <2>13. PICK a, e \in Seq(Line) :
            /\ Len(a) = Len(g) + Len(s) + Len(m)
            /\ g \o s \o (m \o last) = a \o last \o e
            /\ g \o (s \o (m \o t)) = a \o t \o e
    <3>1. LastBehind(g, s, m, last, t)
      BY BehindFirst, Zenon
    <3> QED  BY <3>1, Zenon DEF LastBehind
  <2>14. lines' = a \o k.old \o e
    <3>1. k.old = last
      BY <2>2, <2>12
    <3> QED  BY <3>1, <2>4, <2>11, <2>12, <2>13, Zenon
  <2>15. drift' \o edited' = a \o k.new \o e
    <3>1. k.new = t
      BY <2>2
    <3> QED  BY <3>1, <1>1, <2>4, <2>6, <2>13, Zenon
  <2>16. drift' = <<>> => k.start - 1 + lineOffset' = Len(a) /\ k.old # <<>>
    <3> SUFFICES ASSUME drift' = <<>> PROVE k.start - 1 + lineOffset' = Len(a) /\ k.old # <<>>
      OBVIOUS
    <3>1. Len(g) = 0 /\ Len(old) = 1
      BY <1>1, <2>4
    <3>2. k.start = Len(m) + 2 /\ k.old # <<>>
      BY <2>2
    <3>3. Len(m) \in Nat /\ Len(s) \in Nat
      OBVIOUS
    <3> QED  BY <3>1, <3>2, <3>3, <2>11, <2>13
  <2>17. cursor' <= Len(a)
    <3>1. Len(g) \in Nat /\ Len(s) \in Nat /\ Len(m) \in Nat
      OBVIOUS
    <3> QED  BY <3>1, <2>11, <2>13
  <2>18. LastToCome(k, a, e)'
    BY <2>11, <2>14, <2>15, <2>16, <2>17, Zenon DEF LastToCome
  <2> QED  BY <1>4, <2>3, <2>11, <2>18
<1> QED  BY <1>4, <1>6, <1>7, Zenon

\* What is promised of a diff is what comes of it.
LEMMA DiffPromise == DiffInv => CodeDiffTypeOK /\ DiffLands
<1> SUFFICES ASSUME DiffInv PROVE CodeDiffTypeOK /\ DiffLands
  OBVIOUS
<1>1. CodeDiffTypeOK
  BY DEF DiffInv, DiffTypes, CodeDiffTypeOK
<1>2. ASSUME taken, Promised
      PROVE  ~applyErr /\ (Applied => lines = drift \o edited)
  <2>1. ~applyErr
    BY <1>2 DEF DiffInv, DiffPlaces
  <2>2. CASE hunks = <<>> /\ lines = drift \o edited
    BY <2>1, <2>2
  <2>3. CASE \E h \in DiffHunks, a, c \in Seq(Line) : LastToCome(h, a, c)
    BY <2>1, <2>3 DEF LastToCome, Applied
  <2>4. CASE \E x, y \in Line, m, s, t \in Seq(Line) : BothToCome(x, m, y, s, t)
    BY <2>1, <2>4 DEF BothToCome, Applied
  <2> QED  BY <1>2, <2>2, <2>3, <2>4 DEF DiffInv, DiffPlaces
<1>3. ASSUME taken, drift = <<>>, ~bare
      PROVE  ~applyErr /\ (Applied => lines = edited)
  <2>1. drift \o edited = edited
    BY <1>3 DEF DiffInv, DiffTypes
  <2> QED  BY <2>1, <1>2, <1>3 DEF Promised
<1>4. ASSUME unique
      PROVE  ~applyErr /\ (Applied => lines = drift \o edited)
  <2>1. CASE taken
    BY <2>1, <1>2, <1>4 DEF Promised
  <2>2. CASE ~taken
    BY <2>2 DEF DiffInv, DiffPlaces, Applied
  <2> QED  BY <2>1, <2>2 DEF DiffInv, DiffTypes
<1> QED  BY <1>1, <1>3, <1>4 DEF DiffLands

\* The invariant of the application of a diff.
LEMMA DiffInvariant == CodeDiffSpec => []DiffInv
<1>1. DiffInv /\ [TakeDiff \/ ApplyHunk]_diffVars => DiffInv'
  <2> SUFFICES ASSUME DiffInv, [TakeDiff \/ ApplyHunk]_diffVars PROVE DiffInv'
    OBVIOUS
  <2>1. CASE TakeDiff
    BY <2>1, DiffTaken
  <2>2. CASE ApplyHunk
    BY <2>2, HunkTyped, HunkPlaced DEF DiffInv
  <2>3. CASE UNCHANGED diffVars
    BY <2>3 DEF diffVars, DiffInv, DiffTypes, DiffPlaces, Promised, LastToCome, BothToCome
  <2> QED  BY <2>1, <2>2, <2>3
<1> QED  BY <1>1, DiffInit, PTL DEF CodeDiffSpec

\* The lines of the file, the cursor and the offset stay what they are.
THEOREM DiffTyped == CodeDiffSpec => []CodeDiffTypeOK
  BY DiffInvariant, DiffPromise, PTL

\* A diff applied to the file it was made from gives the file that was edited,
\* and it follows lines that have moved down, if it can (patch_validate.go).
THEOREM DiffsLand == CodeDiffSpec => []DiffLands
  BY DiffInvariant, DiffPromise, PTL

-----------------------------------------------------------------------------
(* The workspace *)

Finds == [entry : DOMAIN TreeEntries, line : Nat]
WalkRecord == [at : {"walking", "done", "error"}, tool : {"search_text", "search_symbol", "list", "detect"},
               root : DOMAIN TreeEntries, limit : Nat \ {0}, depth : Nat, sensitive : BOOLEAN]

WalkTypes ==
    /\ tree \subseteq DOMAIN TreeEntries /\ steady \subseteq tree
    /\ content \in [Files -> FileContents]
    /\ walk \in {NoWalk} \cup WalkRecord
    /\ listed \subseteq DOMAIN TreeEntries /\ tally \in Nat /\ found \in Seq(Finds)

\* What is there has its directory there, and so has what was steady.
TreesAreWhole == Rooted(tree) /\ Rooted(steady)

\* Nothing that is to be visited has been visited.
WalkInOrder ==
    /\ \A k \in DOMAIN found : \A j \in listed : found[k].entry < j
    /\ \A k, l \in DOMAIN found : found[k] = found[l] => k = l

\* A walk comes to what is below its root, through directories it may enter.
ComesTo(j) ==
    /\ walk.root \in Above[j]
    /\ \A k \in Above[j] \ Above[walk.root] : k # j => ~shouldSkipDir(k)

NoMoreSoFar ==
    walk # NoWalk =>
        /\ \A j \in listed : ComesTo(j)
        /\ \A k \in DOMAIN found :
              /\ WithinReach(found[k].entry)
              /\ walk.tool # "detect" /\ ~walk.sensitive => ~isSensitive(found[k].entry)
        /\ Len(found) <= walk.limit
        /\ walk.tool = "detect" => Len(found) <= tally /\ tally <= walk.limit

IsWanted(t) == WithinReach(t) /\ (walk.tool = "detect" \/ walk.sensitive \/ ~isSensitive(t))
Shown(t) ==
    IF walk.tool \in {"list", "detect"} THEN t \in FoundEntries
    ELSE Range(searchFile(t, walk.tool = "search_symbol", walk.limit)) \subseteq Range(found)
BelowLimit == Len(found) < walk.limit /\ (walk.tool = "detect" => tally < walk.limit)

AllSoFar ==
    /\ walk.at # "walking" => listed = {}
    /\ walk.at \in {"walking", "done"} /\ BelowLimit =>
          \A t \in steady : IsWanted(t) => Shown(t) \/ \E j \in Above[t] : j \in listed
    /\ walk.at = "error" => \E i \in DOMAIN TreeEntries : i \notin steady

WalkInv == WalkTypes /\ TreesAreWhole /\ WalkInOrder /\ NoMoreSoFar /\ AllSoFar

\* The entries of the tree, as they are assumed to be.
LEMMA EntriesAre ==
    /\ DOMAIN TreeEntries = 1..Len(TreeEntries) /\ Len(TreeEntries) \in Nat
    /\ \A i \in DOMAIN TreeEntries :
          /\ TreeEntries[i].parent \in 0..(i - 1)
          /\ i = 1 <=> TreeEntries[i].parent = 0
          /\ i # 1 => TreeEntries[i].parent \in DOMAIN TreeEntries /\ TreeEntries[TreeEntries[i].parent].dir
          /\ i # 1 /\ TreeEntries[i].parent # 1 /\ TreeEntries[TreeEntries[i].parent].sensitive
                => TreeEntries[i].sensitive
<1>1. DOMAIN TreeEntries = 1..Len(TreeEntries) /\ Len(TreeEntries) \in Nat
  BY WorkspaceAssumption
<1>2. ASSUME NEW i \in DOMAIN TreeEntries
      PROVE  /\ TreeEntries[i].parent \in 0..(i - 1)
             /\ i = 1 <=> TreeEntries[i].parent = 0
             /\ i # 1 => TreeEntries[i].parent \in DOMAIN TreeEntries /\ TreeEntries[TreeEntries[i].parent].dir
             /\ i # 1 /\ TreeEntries[i].parent # 1 /\ TreeEntries[TreeEntries[i].parent].sensitive
                   => TreeEntries[i].sensitive
  <2>1. PICK p : p = TreeEntries[i].parent
    OBVIOUS
  <2>2. IF i = 1 THEN p = 0
        ELSE p \in 1..(i - 1) /\ TreeEntries[p].dir /\ (p > 1 /\ TreeEntries[p].sensitive => TreeEntries[i].sensitive)
    BY <2>1, WorkspaceAssumption
  <2> QED  BY <1>1, <2>1, <2>2
<1> QED  BY <1>1, <1>2

\* What is above an entry: itself, then its directory and what is above that.
LEMMA AboveIs ==
    ASSUME NEW i \in DOMAIN TreeEntries
    PROVE  /\ i \in Above[i] /\ Above[i] \subseteq DOMAIN TreeEntries /\ Above[i] \subseteq 1..i
           /\ Rooted(Above[i])
           /\ \A j \in Above[i] : Above[j] \subseteq Above[i]
           /\ \A j \in Above[i] : j # i => \E c \in Above[i] : TreeEntries[c].parent = j
<1> DEFINE D == DOMAIN TreeEntries
<1>1. ASSUME NEW h \in D
      PROVE  Above[h] = {j \in D : \A S \in SUBSET D : h \in S /\ Rooted(S) => j \in S}
  BY DEF Above
<1>2. i \in Above[i] /\ Above[i] \subseteq D
  BY <1>1
<1>3. ASSUME NEW h \in D, NEW S \in SUBSET D, h \in S, Rooted(S)
      PROVE  Above[h] \subseteq S
  BY <1>1, <1>3
<1>4. Above[i] \subseteq 1..i
  <2>1. 1..i \in SUBSET D /\ i \in 1..i
    BY EntriesAre
  <2>2. Rooted(1..i)
    <3> SUFFICES ASSUME NEW k \in 1..i PROVE TreeEntries[k].parent \in (1..i) \cup {0}
      BY DEF Rooted
    <3>1. k \in D /\ i \in Nat /\ k \in Nat
      BY <2>1, EntriesAre
    <3>2. TreeEntries[k].parent \in 0..(k - 1)
      BY <3>1, EntriesAre
    <3> QED  BY <3>1, <3>2
  <2> QED  BY <1>3, <2>1, <2>2
<1>5. Rooted(Above[i])
  <2> SUFFICES ASSUME NEW k \in Above[i], TreeEntries[k].parent # 0 PROVE TreeEntries[k].parent \in Above[i]
    BY DEF Rooted
  <2>1. k \in D /\ TreeEntries[k].parent \in D
    BY <1>2, EntriesAre
  <2>2. ASSUME NEW S \in SUBSET D, i \in S, Rooted(S) PROVE TreeEntries[k].parent \in S
    <3>1. k \in S
      BY <1>3, <2>2
    <3> QED  BY <2>2, <3>1 DEF Rooted
  <2> QED  BY <1>1, <2>1, <2>2
<1>6. \A j \in Above[i] : Above[j] \subseteq Above[i]
  BY <1>2, <1>3, <1>5
<1>7. ASSUME NEW j \in Above[i], j # i PROVE \E c \in Above[i] : TreeEntries[c].parent = j
  <2> DEFINE S == {k \in Above[i] : k = i \/ \E c \in Above[i] : TreeEntries[c].parent = k}
  <2>1. S \in SUBSET D /\ i \in S
    BY <1>2
  <2>2. Rooted(S)
    BY <1>5 DEF Rooted
  <2>3. j \in S
    BY <1>3, <2>1, <2>2
  <2> QED  BY <2>3, <1>7
<1> QED  BY <1>2, <1>4, <1>5, <1>6, <1>7

\* An entry in a directory has that and what is above it above itself.
LEMMA AboveChild ==
    ASSUME NEW c \in DOMAIN TreeEntries, NEW i \in DOMAIN TreeEntries, TreeEntries[c].parent = i
    PROVE  Above[c] = {c} \cup Above[i] /\ c > i
<1>1. c > i
  BY EntriesAre
<1>2. i # 0
  BY EntriesAre
<1>3. i \in Above[c]
  BY <1>2, AboveIs DEF Rooted
<1>4. {c} \cup Above[i] \subseteq Above[c]
  BY <1>3, AboveIs
<1>5. Rooted({c} \cup Above[i])
  <2>1. Rooted(Above[i]) /\ i \in Above[i]
    BY AboveIs
  <2> QED  BY <2>1 DEF Rooted
<1>6. {c} \cup Above[i] \in SUBSET (DOMAIN TreeEntries)
  BY AboveIs
<1>7. Above[c] \subseteq {c} \cup Above[i]
  BY <1>5, <1>6 DEF Above
<1> QED  BY <1>1, <1>4, <1>7

\* What is below something sensitive is sensitive, but for the root.
LEMMA SensitiveBelow ==
    ASSUME NEW t \in DOMAIN TreeEntries, NEW j \in Above[t], j # 1, TreeEntries[j].sensitive
    PROVE  TreeEntries[t].sensitive
<1> DEFINE S == {k \in DOMAIN TreeEntries : k # 1 /\ TreeEntries[k].sensitive => TreeEntries[t].sensitive}
<1>1. t \in S /\ S \in SUBSET (DOMAIN TreeEntries)
  OBVIOUS
<1>2. Rooted(S)
  <2> SUFFICES ASSUME NEW k \in S, TreeEntries[k].parent # 0 PROVE TreeEntries[k].parent \in S
    BY DEF Rooted
  <2>1. k # 1 /\ TreeEntries[k].parent \in DOMAIN TreeEntries
    BY EntriesAre
  <2> QED  BY <2>1, EntriesAre
<1>3. j \in S
  BY <1>1, <1>2 DEF Above
<1> QED  BY <1>3

\* What is above is not deeper.
LEMMA DepthAbove ==
    ASSUME NEW r \in DOMAIN TreeEntries, NEW t \in DOMAIN TreeEntries, NEW j \in Above[t]
    PROVE  pathDepth(r, j) <= pathDepth(r, t)
<1>1. IsFiniteSet(Above[t] \ Above[r])
  <2>1. Above[t] \ Above[r] \subseteq 1..t /\ t \in Nat
    BY AboveIs, EntriesAre
  <2>2. IsFiniteSet(1..t)
    BY <2>1, FS_Interval
  <2> QED  BY <2>1, <2>2, FS_Subset
<1>2. Above[j] \ Above[r] \subseteq Above[t] \ Above[r]
  BY AboveIs
<1>3. Cardinality(Above[j] \ Above[r]) <= Cardinality(Above[t] \ Above[r])
  BY <1>1, <1>2, FS_Subset
<1> QED  BY <1>3 DEF pathDepth

\* How deep an entry lies is a number.
LEMMA DepthIsNat ==
    ASSUME NEW r \in DOMAIN TreeEntries, NEW t \in DOMAIN TreeEntries
    PROVE  pathDepth(r, t) \in Nat
<1>1. Above[t] \ Above[r] \subseteq 1..t /\ t \in Nat
  BY AboveIs, EntriesAre
<1>2. IsFiniteSet(1..t)
  BY <1>1, FS_Interval
<1>3. IsFiniteSet(Above[t] \ Above[r])
  BY <1>1, <1>2, FS_Subset
<1> QED  BY <1>3, FS_CardinalityType DEF pathDepth

\* Nothing is found twice if no place holds what another does.
LEMMA FindsCounted ==
    ASSUME NEW S, NEW f \in Seq(S), \A k, l \in DOMAIN f : f[k] = f[l] => k = l
    PROVE  Cardinality(Range(f)) = Len(f)
<1>1. f \in Bijection(1..Len(f), Range(f))
  BY DEF Bijection, Injection, Surjection, Range, IsInjective
<1>2. Len(f) \in Nat /\ 1 \in Int /\ Len(f) \in Int
  OBVIOUS
<1>3. IsFiniteSet(1..Len(f)) /\ Cardinality(1..Len(f)) = Len(f)
  <2>1. /\ IsFiniteSet(1..Len(f))
        /\ Cardinality(1..Len(f)) = IF 1 > Len(f) THEN 0 ELSE Len(f) - 1 + 1
    BY <1>2, FS_Interval
  <2> QED  BY <1>2, <2>1
<1>4. ExistsBijection(1..Len(f), Range(f))
  BY <1>1 DEF ExistsBijection
<1>5. Cardinality(1..Len(f)) = Cardinality(Range(f))
  BY <1>3, <1>4, FS_Bijection
<1> QED  BY <1>3, <1>5

\* A call at work, or one that has ended, is one.
LEMMA WalkIsOne ==
    ASSUME WalkTypes, walk.at # "idle"
    PROVE  walk \in WalkRecord /\ walk # NoWalk
<1>1. NoWalk.at = "idle"
  BY DEF NoWalk
<1> QED  BY <1>1 DEF WalkTypes

\* What a call that has just begun promises: all below its root is still to
\* be visited.
LEMMA WalkBegins ==
    ASSUME WalkInv, NEW w \in Walks, BeginWalk(w)
    PROVE  WalkInv'
<1>1. /\ w.tool \in {"search_text", "search_symbol", "list", "detect"} /\ w.root \in DOMAIN TreeEntries
      /\ w.limit \in Nat \ {0} /\ w.depth \in Nat /\ w.sensitive \in BOOLEAN
  BY WorkspaceAssumption
<1>2. /\ walk' \in WalkRecord /\ walk'.at = "walking" /\ walk'.root = w.root /\ walk'.limit = w.limit
      /\ listed' = {w.root} /\ found' = <<>> /\ tally' = 0 /\ steady' = tree /\ tree' = tree
      /\ content' = content
  BY <1>1, Zenon DEF BeginWalk, WalkRecord
<1>3. WalkTypes'
  BY <1>1, <1>2 DEF WalkInv, WalkTypes
<1>4. TreesAreWhole' /\ WalkInOrder'
  BY <1>2 DEF WalkInv, TreesAreWhole, WalkInOrder, Rooted
<1>5. NoMoreSoFar'
  <2>1. w.root \in Above[w.root] /\ Above[w.root] \ Above[w.root] = {}
    BY <1>1, AboveIs
  <2>2. \A j \in listed' : ComesTo(j)'
    BY <1>2, <2>1 DEF ComesTo
  <2> QED  BY <1>1, <1>2, <2>2 DEF NoMoreSoFar
<1>6. AllSoFar'
  <2> SUFFICES ASSUME NEW t \in steady', IsWanted(t)' PROVE \E j \in Above[t] : j \in listed'
    BY <1>2 DEF AllSoFar
  <2>1. w.root \in Above[t]
    BY <1>2 DEF IsWanted, WithinReach, Under
  <2> QED  BY <1>2, <2>1
<1> QED  BY <1>3, <1>4, <1>5, <1>6 DEF WalkInv

\* A walk that comes to an entry above one it is about may enter it.
LEMMA MayEnter ==
    ASSUME WalkInv, walk.at = "walking", NEW i \in listed,
           NEW t \in steady, IsWanted(t), i \in Above[t], t # i
    PROVE  /\ TreeEntries[i].dir /\ i \in tree
           /\ i # walk.root => i # 1 /\ ~shouldSkipDir(i)
           /\ walk.tool = "list" => pathDepth(walk.root, i) <= walk.depth
           /\ i # walk.root /\ walk.tool # "detect" /\ ~walk.sensitive => ~isSensitive(i)
           /\ \E c \in Above[t] : c \in Children(i)
<1>1. walk \in WalkRecord /\ walk # NoWalk /\ i \in DOMAIN TreeEntries /\ t \in DOMAIN TreeEntries
        /\ steady \subseteq tree
  BY WalkIsOne DEF WalkInv, WalkTypes
<1>2. walk.root \in DOMAIN TreeEntries /\ walk.depth \in Nat /\ walk.sensitive \in BOOLEAN
  BY <1>1 DEF WalkRecord
<1>3. walk.root \in Above[i]
  BY <1>1 DEF WalkInv, NoMoreSoFar, ComesTo
<1>4. PICK c \in Above[t] : TreeEntries[c].parent = i
  BY <1>1, AboveIs
<1>5. c \in DOMAIN TreeEntries /\ i # 0 /\ c # 1
  BY <1>1, <1>4, AboveIs, EntriesAre
<1>6. TreeEntries[i].dir
  BY <1>4, <1>5, EntriesAre
<1>7. Above[t] \subseteq steady
  <2>1. Rooted(steady) /\ steady \in SUBSET (DOMAIN TreeEntries)
    BY <1>1 DEF WalkInv, TreesAreWhole, WalkTypes
  <2> QED  BY <2>1 DEF Above
<1>8. i # walk.root => i # 1 /\ i \notin Above[walk.root]
  <2>1. walk.root \in 1..i
    BY <1>1, <1>3, AboveIs
  <2>2. Above[walk.root] \subseteq 1..walk.root
    BY <1>2, AboveIs
  <2>3. i \in Nat /\ walk.root \in Nat
    BY <1>1, <1>2, EntriesAre
  <2> QED  BY <2>1, <2>2, <2>3
<1>9. i # walk.root => ~shouldSkipDir(i)
  BY <1>8 DEF IsWanted, WithinReach
<1>10. walk.tool = "list" => pathDepth(walk.root, i) <= walk.depth
  <2> SUFFICES ASSUME walk.tool = "list" PROVE pathDepth(walk.root, i) <= walk.depth
    OBVIOUS
  <2>1. pathDepth(walk.root, t) <= walk.depth
    BY DEF IsWanted, WithinReach
  <2>2. pathDepth(walk.root, i) <= pathDepth(walk.root, t)
    BY <1>1, <1>2, DepthAbove
  <2>3. pathDepth(walk.root, i) \in Nat /\ pathDepth(walk.root, t) \in Nat
    BY <1>1, <1>2, DepthIsNat
  <2> QED  BY <1>2, <2>1, <2>2, <2>3
<1>11. i # walk.root /\ walk.tool # "detect" /\ ~walk.sensitive => ~isSensitive(i)
  <2> SUFFICES ASSUME i # walk.root, walk.tool # "detect", ~walk.sensitive, isSensitive(i) PROVE FALSE
    OBVIOUS
  <2>1. ~isSensitive(t)
    BY DEF IsWanted
  <2> QED  BY <1>1, <1>8, <2>1, SensitiveBelow DEF isSensitive
<1>12. c \in Children(i) /\ i \in tree
  BY <1>1, <1>4, <1>7 DEF Children
<1> QED  BY <1>6, <1>8, <1>9, <1>10, <1>11, <1>12

\* One step of a walk at entry i: whether it enters it, and what it finds.
VisitsOne(i, enters, finds) ==
    /\ UNCHANGED <<walk, tree, content, treeEdits, steady>>
    /\ listed' = (listed \ {i}) \cup (IF enters THEN Children(i) ELSE {})
    /\ found' = found \o finds

\* What it finds there is there, each once, and meant to be found.
FindsWell(i, finds) ==
    /\ \A k \in DOMAIN finds : finds[k].entry = i
    /\ \A k, l \in DOMAIN finds : finds[k] = finds[l] => k = l
    /\ finds # <<>> => WithinReach(i) /\ (walk.tool # "detect" /\ ~walk.sensitive => ~isSensitive(i))

StaysBelow ==
    /\ Len(found') <= walk.limit /\ tally' \in Nat
    /\ walk.tool = "detect" => Len(found') <= tally' /\ tally <= tally' /\ tally' <= walk.limit

\* What was shown stays so while nobody writes it.
LEMMA ShownStays ==
    ASSUME NEW t \in DOMAIN TreeEntries, walk' = walk, content'[t] = content[t],
           NEW F, found \in Seq(F), NEW g \in Seq(F), found' = found \o g, Shown(t)
    PROVE  Shown(t)'
<1>1. /\ found' \in Seq(F) /\ Len(found') = Len(found) + Len(g)
      /\ \A k \in 1..Len(found) : found'[k] = found[k]
  OBVIOUS
<1>2. DOMAIN found \subseteq DOMAIN found' /\ \A k \in DOMAIN found : found'[k] = found[k]
  BY <1>1
<1>3. FoundEntries \subseteq FoundEntries' /\ Range(found) \subseteq Range(found')
  BY <1>2 DEF FoundEntries, Range
<1>4. searchFile(t, walk.tool = "search_symbol", walk.limit)'
        = searchFile(t, walk.tool = "search_symbol", walk.limit)
  BY DEF searchFile, Matching
<1> QED  BY <1>3, <1>4 DEF Shown

\* A visit of the least entry that waits keeps WalkInv: it notes that entry
\* where it should, and queues what lies under it where it enters.
LEMMA OneVisitKeeps ==
    ASSUME WalkInv, walk.at = "walking", NEW i \in listed, \A j \in listed : i <= j,
           NEW enters \in BOOLEAN, NEW finds \in Seq(Finds),
           VisitsOne(i, enters, finds), FindsWell(i, finds), StaysBelow,
           enters => i = walk.root \/ ~shouldSkipDir(i),
           \A t \in steady : IsWanted(t) /\ BelowLimit' /\ i \in Above[t] /\ t # i => enters,
           i \in steady /\ IsWanted(i) /\ BelowLimit' => Shown(i)'
    PROVE  WalkInv'
<1>1. /\ walk \in WalkRecord /\ walk # NoWalk /\ i \in DOMAIN TreeEntries /\ found \in Seq(Finds)
      /\ listed \subseteq DOMAIN TreeEntries /\ steady \subseteq tree /\ tree \subseteq DOMAIN TreeEntries
  BY WalkIsOne DEF WalkInv, WalkTypes
<1>2. walk' = walk /\ tree' = tree /\ content' = content /\ steady' = steady
  BY DEF VisitsOne
<1>3. /\ listed' \subseteq (listed \ {i}) \cup Children(i) /\ listed \ {i} \subseteq listed'
      /\ enters => Children(i) \subseteq listed'
      /\ ~enters => listed' \subseteq listed \ {i}
  BY Zenon DEF VisitsOne
<1>4. /\ found' \in Seq(Finds) /\ Len(found') = Len(found) + Len(finds) /\ DOMAIN found' = 1..Len(found')
      /\ DOMAIN found = 1..Len(found) /\ DOMAIN finds = 1..Len(finds) /\ Len(found) \in Nat /\ Len(finds) \in Nat
      /\ \A k \in 1..Len(found') : found'[k] = IF k <= Len(found) THEN found[k] ELSE finds[k - Len(found)]
  <2>1. found' = found \o finds
    BY DEF VisitsOne
  <2> QED  BY <1>1, <2>1
<1>5. \A c \in Children(i) : c \in DOMAIN TreeEntries /\ c > i /\ Above[c] = {c} \cup Above[i]
  BY <1>1, AboveChild DEF Children
<1>6. \A j \in DOMAIN TreeEntries : j \in Nat
  BY EntriesAre
<1>7. \A k \in DOMAIN found' :
         \/ k \in DOMAIN found /\ found'[k] = found[k]
         \/ k - Len(found) \in DOMAIN finds /\ found'[k] = finds[k - Len(found)] /\ k > Len(found)
  <2> SUFFICES ASSUME NEW k \in 1..Len(found')
               PROVE  \/ k \in 1..Len(found) /\ found'[k] = found[k]
                      \/ k - Len(found) \in 1..Len(finds) /\ found'[k] = finds[k - Len(found)] /\ k > Len(found)
    BY <1>4
  <2>1. found'[k] = IF k <= Len(found) THEN found[k] ELSE finds[k - Len(found)]
    BY <1>4
  <2>2. Len(found') = Len(found) + Len(finds) /\ Len(found) \in Nat /\ Len(finds) \in Nat
    BY <1>4
  <2>4. CASE k <= Len(found)
    <3>1. k \in 1..Len(found)
      BY <2>2, <2>4
    <3>2. found'[k] = found[k]
      BY <2>1, <2>4, Zenon
    <3> QED  BY <3>1, <3>2
  <2>5. CASE ~(k <= Len(found))
    <3>1. k - Len(found) \in 1..Len(finds) /\ k > Len(found)
      BY <2>2, <2>5
    <3>2. found'[k] = finds[k - Len(found)]
      BY <2>1, <2>5, Zenon
    <3> QED  BY <3>1, <3>2
  <2> QED  BY <2>4, <2>5
<1>8. WalkTypes'
  BY <1>1, <1>2, <1>3, <1>4, <1>5 DEF WalkInv, WalkTypes, StaysBelow
<1>9. TreesAreWhole'
  BY <1>2 DEF WalkInv, TreesAreWhole, Rooted
<1>10. WalkInOrder'
  <2>1. \A k \in DOMAIN found : found[k].entry < i /\ found[k].entry \in Nat
    <3>1. \A k \in DOMAIN found : found[k] \in Finds
      BY <1>1
    <3>2. \A k \in DOMAIN found : found[k].entry \in DOMAIN TreeEntries
      BY <3>1 DEF Finds
    <3> QED  BY <3>2, <1>6 DEF WalkInv, WalkInOrder
  <2>2. \A j \in listed' : i < j /\ j \in Nat
    BY <1>1, <1>3, <1>5, <1>6
  <2>3. \A k \in DOMAIN finds : finds[k].entry = i
    BY DEF FindsWell
  <2>4. ASSUME NEW k \in DOMAIN found', NEW j \in listed' PROVE found'[k].entry < j
    <3>1. found'[k].entry <= i /\ found'[k].entry \in Nat
      BY <1>1, <1>6, <1>7, <2>1, <2>3
    <3> QED  BY <1>1, <1>6, <2>2, <3>1
  <2>5. ASSUME NEW k \in DOMAIN found', NEW l \in DOMAIN found', found'[k] = found'[l] PROVE k = l
    <3>1. CASE k \in DOMAIN found /\ found'[k] = found[k] /\ l \in DOMAIN found /\ found'[l] = found[l]
      BY <2>5, <3>1 DEF WalkInv, WalkInOrder
    <3>2. CASE /\ k - Len(found) \in DOMAIN finds /\ found'[k] = finds[k - Len(found)]
               /\ l - Len(found) \in DOMAIN finds /\ found'[l] = finds[l - Len(found)]
      <4>1. k - Len(found) = l - Len(found)
        BY <2>5, <3>2 DEF FindsWell
      <4> QED  BY <1>4, <4>1
    <3>3. found'[k].entry = found'[l].entry
      BY <2>5
    <3>4. i \in Nat
      BY <1>1, <1>6
    <3>5. CASE k \in DOMAIN found /\ found'[k] = found[k] /\ l - Len(found) \in DOMAIN finds /\ found'[l] = finds[l - Len(found)]
      BY <3>3, <3>4, <3>5, <2>1, <2>3
    <3>6. CASE l \in DOMAIN found /\ found'[l] = found[l] /\ k - Len(found) \in DOMAIN finds /\ found'[k] = finds[k - Len(found)]
      BY <3>3, <3>4, <3>6, <2>1, <2>3
    <3> QED  BY <1>7, <3>1, <3>2, <3>5, <3>6
  <2> QED  BY <2>4, <2>5 DEF WalkInOrder
<1>11. NoMoreSoFar'
  <2>1. \A j \in listed : ComesTo(j)
    BY <1>1 DEF WalkInv, NoMoreSoFar
  <2>2. ASSUME NEW j \in listed' PROVE ComesTo(j)'
    <3>1. CASE j \in listed
      BY <1>2, <2>1, <3>1 DEF ComesTo
    <3>2. CASE enters /\ j \in Children(i)
      <4>1. Above[j] = {j} \cup Above[i] /\ ComesTo(i) /\ walk.root \in Above[walk.root]
        BY <1>1, <1>5, <2>1, <3>2, AboveIs DEF WalkRecord
      <4>2. i = walk.root \/ ~shouldSkipDir(i)
        BY <3>2
      <4>3. \A k \in Above[i] \ Above[walk.root] : ~shouldSkipDir(k)
        BY <4>1, <4>2 DEF ComesTo
      <4> QED  BY <1>2, <4>1, <4>3 DEF ComesTo
    <3> QED  BY <1>3, <3>1, <3>2
  <2>3. ASSUME NEW k \in DOMAIN found'
        PROVE  /\ WithinReach(found[k].entry)'
               /\ walk'.tool # "detect" /\ ~walk'.sensitive => ~isSensitive(found[k].entry)'
    <3>1. PICK e : e = found'[k].entry
      OBVIOUS
    <3>2. WithinReach(e) /\ (walk.tool # "detect" /\ ~walk.sensitive => ~isSensitive(e))
      <4>1. CASE k \in DOMAIN found /\ found'[k] = found[k]
        BY <1>1, <3>1, <4>1 DEF WalkInv, NoMoreSoFar
      <4>2. CASE k - Len(found) \in DOMAIN finds /\ found'[k] = finds[k - Len(found)]
        <5>1. e = i /\ finds # <<>>
          BY <3>1, <4>2 DEF FindsWell
        <5> QED  BY <5>1 DEF FindsWell
      <4> QED  BY <1>7, <4>1, <4>2
    <3> QED  BY <1>2, <3>1, <3>2 DEF WithinReach
  <2> QED  BY <1>2, <2>2, <2>3 DEF NoMoreSoFar, StaysBelow
<1>12. AllSoFar'
  <2>1. ASSUME NEW t \in steady, IsWanted(t)', BelowLimit'
        PROVE  Shown(t)' \/ \E j \in Above[t] : j \in listed'
    <3>1. IsWanted(t) /\ t \in DOMAIN TreeEntries
      BY <1>1, <1>2, <2>1 DEF IsWanted, WithinReach
    <3>2. BelowLimit
      BY <1>1, <1>2, <1>4, <2>1 DEF BelowLimit, StaysBelow, WalkRecord, WalkInv, WalkTypes
    <3>3. CASE Shown(t)
      BY <1>1, <1>2, <3>1, <3>3, ShownStays DEF VisitsOne
    <3>4. CASE t = i
      BY <2>1, <3>1, <3>4
    <3>5. CASE i \in Above[t] /\ t # i
      <4>1. enters
        BY <2>1, <3>1, <3>5
      <4>2. \E c \in Above[t] : c \in Children(i)
        BY <3>1, <3>5, MayEnter
      <4> QED  BY <1>3, <4>1, <4>2
    <3>6. CASE ~Shown(t) /\ i \notin Above[t]
      <4>1. PICK j \in Above[t] : j \in listed
        BY <3>1, <3>2, <3>6 DEF WalkInv, AllSoFar
      <4> QED  BY <1>3, <3>6, <4>1
    <3> QED  BY <3>3, <3>4, <3>5, <3>6
  <2> QED  BY <1>2, <2>1 DEF AllSoFar
<1> QED  BY <1>8, <1>9, <1>10, <1>11, <1>12 DEF WalkInv

\* A walk that ends has come to its limit, or there is nothing left to visit,
\* or something is gone.
LEMMA EndKeeps ==
    ASSUME WalkInv, walk.at = "walking", NEW how \in {"done", "error"}, EndsWalk(how),
           UNCHANGED <<tree, content, found, tally, treeEdits, steady>>,
           how = "done" => listed = {} \/ ~BelowLimit,
           how = "error" => \E i \in DOMAIN TreeEntries : i \notin steady
    PROVE  WalkInv'
<1>1. walk \in WalkRecord /\ walk # NoWalk
  BY WalkIsOne DEF WalkInv, WalkTypes
<1>2. /\ walk'.at = how /\ walk'.tool = walk.tool /\ walk'.root = walk.root /\ walk'.limit = walk.limit
      /\ walk'.depth = walk.depth /\ walk'.sensitive = walk.sensitive /\ walk' \in WalkRecord /\ listed' = {}
  BY <1>1 DEF EndsWalk, WalkRecord
<1>3. WalkTypes' /\ TreesAreWhole' /\ WalkInOrder'
  BY <1>2 DEF WalkInv, WalkTypes, TreesAreWhole, WalkInOrder, Rooted
<1>4. NoMoreSoFar'
  BY <1>1, <1>2 DEF WalkInv, NoMoreSoFar, WithinReach
<1>5. AllSoFar'
  <2>1. ASSUME NEW t \in steady, IsWanted(t)', BelowLimit', how = "done"
        PROVE  Shown(t)'
    <3>1. IsWanted(t) /\ BelowLimit
      BY <1>2, <2>1 DEF IsWanted, WithinReach, BelowLimit
    <3>2. Shown(t)
      BY <2>1, <3>1 DEF WalkInv, AllSoFar
    <3> QED  BY <1>2, <3>2 DEF Shown, FoundEntries, searchFile, Matching
  <2> QED  BY <1>2, <2>1 DEF AllSoFar
<1> QED  BY <1>3, <1>4, <1>5 DEF WalkInv

\* A walk comes to an entry below its root, or to the root.
LEMMA ComesBelow ==
    ASSUME WalkInv, walk.at = "walking", NEW i \in listed
    PROVE  /\ walk \in WalkRecord /\ i \in DOMAIN TreeEntries /\ found \in Seq(Finds) /\ Len(found) \in Nat
           /\ walk.limit \in Nat /\ Len(found) <= walk.limit /\ tally \in Nat
           /\ walk.tool = "detect" => Len(found) <= tally /\ tally <= walk.limit
           /\ i \in Under(walk.root) /\ i \in Above[i]
           /\ i # walk.root => i \notin Above[walk.root]
           /\ i # walk.root /\ shouldSkipDir(i) => ~WithinReach(i)
           /\ ~shouldSkipDir(i) => \A j \in Above[i] \ Above[walk.root] : ~shouldSkipDir(j)
<1>1. walk \in WalkRecord /\ walk # NoWalk /\ i \in DOMAIN TreeEntries /\ found \in Seq(Finds) /\ tally \in Nat
  BY WalkIsOne DEF WalkInv, WalkTypes
<1>2. walk.root \in DOMAIN TreeEntries /\ walk.limit \in Nat
  BY <1>1 DEF WalkRecord
<1>3. ComesTo(i) /\ Len(found) <= walk.limit /\ (walk.tool = "detect" => Len(found) <= tally /\ tally <= walk.limit)
  BY <1>1 DEF WalkInv, NoMoreSoFar
<1>4. walk.root \in Above[i]
  BY <1>3 DEF ComesTo
<1>5. i # walk.root => i \notin Above[walk.root]
  <2>1. walk.root \in 1..i /\ Above[walk.root] \subseteq 1..walk.root
    BY <1>1, <1>2, <1>4, AboveIs
  <2>2. i \in Nat /\ walk.root \in Nat
    BY <1>1, <1>2, EntriesAre
  <2> QED  BY <2>1, <2>2
<1>6. i \in Above[i]
  BY <1>1, AboveIs
<1>7. i # walk.root /\ shouldSkipDir(i) => ~WithinReach(i)
  BY <1>5, <1>6 DEF WithinReach
<1>8. ~shouldSkipDir(i) => \A j \in Above[i] \ Above[walk.root] : ~shouldSkipDir(j)
  BY <1>3 DEF ComesTo
<1>9. i \in Under(walk.root)
  BY <1>1, <1>4 DEF Under
<1>10. Len(found) \in Nat
  BY <1>1
<1> QED  BY <1>1, <1>2, <1>3, <1>5, <1>6, <1>7, <1>8, <1>9, <1>10

\* An entry is passed by if it is nothing that the walk is about, and nothing
\* below it is either.
LEMMA PassKeeps ==
    ASSUME WalkInv, walk.at = "walking", NEW i \in listed, \A j \in listed : i <= j,
           UNCHANGED <<walk, found, tree, content, treeEdits, steady>>,
           listed' = listed \ {i}, tally' \in Nat, walk.tool = "detect" => tally' = tally,
           i \in steady => ~IsWanted(i),
           \A t \in steady : IsWanted(t) /\ i \in Above[t] => t = i
    PROVE  WalkInv'
<1>1. found \in Seq(Finds) /\ <<>> \in Seq(Finds) /\ found' = found /\ walk' = walk
  BY ComesBelow
<1>2. found' = found \o <<>>
  BY <1>1
<1>3. VisitsOne(i, FALSE, <<>>)
  BY <1>2 DEF VisitsOne
<1>4. FindsWell(i, <<>>)
  BY DEF FindsWell
<1>5. StaysBelow
  BY <1>1, ComesBelow DEF StaysBelow
<1> QED  BY <1>1, <1>3, <1>4, <1>5, OneVisitKeeps

\* A directory is entered, and is itself nothing that the walk is about.
LEMMA EnterKeeps ==
    ASSUME WalkInv, walk.at = "walking", NEW i \in listed, \A j \in listed : i <= j,
           UNCHANGED <<walk, found, tally, tree, content, treeEdits, steady>>,
           Enters(i), i = walk.root \/ ~shouldSkipDir(i), i \in steady => ~IsWanted(i)
    PROVE  WalkInv'
<1>1. found \in Seq(Finds) /\ <<>> \in Seq(Finds) /\ found' = found /\ walk' = walk /\ tally' = tally
  BY ComesBelow
<1>2. found' = found \o <<>>
  BY <1>1
<1>3. VisitsOne(i, TRUE, <<>>)
  BY <1>2 DEF VisitsOne, Enters
<1>4. FindsWell(i, <<>>)
  BY DEF FindsWell
<1>5. StaysBelow
  BY <1>1, ComesBelow DEF StaysBelow
<1> QED  BY <1>1, <1>3, <1>4, <1>5, OneVisitKeeps

\* What the searches find in a file.
LEMMA SearchFinds ==
    ASSUME WalkTypes, NEW i \in Files, NEW symbol \in BOOLEAN, NEW limit \in Nat
    PROVE  /\ searchFile(i, symbol, limit) \in Seq(Finds) /\ Len(searchFile(i, symbol, limit)) <= limit
           /\ \A k \in DOMAIN searchFile(i, symbol, limit) : searchFile(i, symbol, limit)[k].entry = i
           /\ \A k, l \in DOMAIN searchFile(i, symbol, limit) :
                 searchFile(i, symbol, limit)[k] = searchFile(i, symbol, limit)[l] => k = l
           /\ \A m \in Nat : Len(searchFile(i, symbol, limit)) < limit /\ limit <= m
                 => searchFile(i, symbol, m) = searchFile(i, symbol, limit)
<1>1. content[i] \in FileContents /\ i \in DOMAIN TreeEntries
  BY DEF WalkTypes, Files
<1>2. content[i].text \in Nat /\ content[i].symbol \in Nat
  BY <1>1, WorkspaceAssumption
<1>3. PICK n : n = IF content[i].binary THEN 0 ELSE Matching(i, symbol)
  OBVIOUS
<1>4. n \in Nat
  BY <1>2, <1>3 DEF Matching
<1> DEFINE Part(m) == [k \in 1..(IF n > m THEN m ELSE n) |-> [entry |-> i, line |-> k]]
<1>5. \A m : searchFile(i, symbol, m) = Part(m)
  BY <1>3 DEF searchFile
<1>6. ASSUME NEW m \in Nat
      PROVE  /\ Part(m) \in Seq(Finds) /\ Len(Part(m)) = (IF n > m THEN m ELSE n)
             /\ DOMAIN Part(m) = 1..(IF n > m THEN m ELSE n)
             /\ \A k \in 1..(IF n > m THEN m ELSE n) : Part(m)[k] = [entry |-> i, line |-> k]
  <2>1. PICK h \in Nat : h = IF n > m THEN m ELSE n
    BY <1>4
  <2>2. \A k \in 1..h : [entry |-> i, line |-> k] \in Finds
    BY <1>1, <2>1 DEF Finds
  <2>3. [k \in 1..h |-> [entry |-> i, line |-> k]] \in Seq(Finds)
    BY <2>1, <2>2
  <2> QED  BY <2>1, <2>3
<1>7. \A m \in Nat : Len(Part(limit)) < limit /\ limit <= m => Part(m) = Part(limit)
  <2> SUFFICES ASSUME NEW m \in Nat, Len(Part(limit)) < limit, limit <= m PROVE Part(m) = Part(limit)
    OBVIOUS
  <2>1. (IF n > m THEN m ELSE n) = n /\ (IF n > limit THEN limit ELSE n) = n
    BY <1>4, <1>6
  <2> QED  BY <2>1
<1>8. \A k, l \in DOMAIN Part(limit) : Part(limit)[k] = Part(limit)[l] => k = l
  <2> SUFFICES ASSUME NEW k \in DOMAIN Part(limit), NEW l \in DOMAIN Part(limit), Part(limit)[k] = Part(limit)[l]
               PROVE  k = l
    OBVIOUS
  <2>1. [entry |-> i, line |-> k] = [entry |-> i, line |-> l]
    BY <1>6
  <2> QED  BY <2>1
<1>9. Len(Part(limit)) <= limit /\ \A k \in DOMAIN Part(limit) : Part(limit)[k].entry = i
  BY <1>4, <1>6
<1> HIDE DEF Part
<1> QED  BY <1>5, <1>6, <1>7, <1>8, <1>9, Zenon

\* What a sequence has behind another is in both together.
LEMMA RangesTogether ==
    ASSUME NEW S, NEW f \in Seq(S), NEW g \in Seq(S)
    PROVE  Range(g) \subseteq Range(f \o g)
<1>1. PICK h : h = f \o g
  OBVIOUS
<1>2. h \in Seq(S) /\ Len(h) = Len(f) + Len(g) /\ \A k \in 1..Len(g) : h[k + Len(f)] = g[k]
  BY <1>1
<1>3. \A k \in DOMAIN g : k + Len(f) \in DOMAIN h /\ h[k + Len(f)] = g[k]
  <2>1. Len(f) \in Nat /\ Len(g) \in Nat /\ DOMAIN g = 1..Len(g) /\ DOMAIN h = 1..Len(h)
    BY <1>2
  <2>2. ASSUME NEW k \in 1..Len(g) PROVE k + Len(f) \in 1..Len(h)
    BY <1>2, <2>1
  <2> QED  BY <1>2, <2>1, <2>2, Zenon
<1>4. Range(g) \subseteq Range(h)
  BY <1>3 DEF Range
<1> QED  BY <1>1, <1>4

\* The searches: every branch of the code at an entry.
LEMMA SearchKeeps ==
    ASSUME WalkInv, walk.at = "walking", NEW i \in listed, \A j \in listed : i <= j,
           NEW symbol \in BOOLEAN, walk.tool = (IF symbol THEN "search_symbol" ELSE "search_text"),
           VisitSearch(i, symbol), UNCHANGED <<tree, content, treeEdits, steady>>
    PROVE  WalkInv'
<1>1. /\ walk \in WalkRecord /\ i \in DOMAIN TreeEntries /\ found \in Seq(Finds) /\ Len(found) \in Nat
      /\ walk.limit \in Nat /\ Len(found) <= walk.limit /\ tally \in Nat
      /\ i \in Under(walk.root)
      /\ ~shouldSkipDir(i) => \A j \in Above[i] \ Above[walk.root] : ~shouldSkipDir(j)
  BY ComesBelow
<1>2. walk.tool # "detect" /\ walk.tool # "list" /\ (symbol <=> walk.tool = "search_symbol")
  OBVIOUS
<1>3. WalkTypes
  BY DEF WalkInv
<1>4. TreeEntries[i].dir => ~IsWanted(i)
  BY <1>2 DEF IsWanted, WithinReach
<1>5. ~TreeEntries[i].dir => \A t \in steady : IsWanted(t) /\ i \in Above[t] => t = i
  BY MayEnter
<1>6. CASE TreeEntries[i].dir /\ shouldSkipDir(i) /\ i # walk.root
  <2>1. Passes(i)
    BY <1>6, Zenon DEF VisitSearch
  <2>2. \A t \in steady : IsWanted(t) /\ i \in Above[t] => t = i
    BY <1>6, MayEnter
  <2> QED  BY <1>1, <1>2, <1>4, <1>6, <2>1, <2>2, PassKeeps DEF Passes
<1>7. CASE TreeEntries[i].dir /\ ~(shouldSkipDir(i) /\ i # walk.root)
  <2>1. Enters(i) /\ UNCHANGED <<walk, found, tally>>
    BY <1>7, Zenon DEF VisitSearch
  <2> QED  BY <1>4, <1>7, <2>1, EnterKeeps
<1>8. CASE ~TreeEntries[i].dir /\ Len(found) >= walk.limit
  <2>1. EndsWalk("done") /\ UNCHANGED <<found, tally>>
    BY <1>8, Zenon DEF VisitSearch
  <2>2. ~BelowLimit
    BY <1>1, <1>8 DEF BelowLimit
  <2> QED  BY <2>1, <2>2, EndKeeps
<1>9. CASE ~TreeEntries[i].dir /\ ~(Len(found) >= walk.limit) /\ isSensitive(i) /\ ~walk.sensitive
  <2>1. Hides(i)
    BY <1>9, Zenon DEF VisitSearch
  <2>2. ~IsWanted(i)
    BY <1>2, <1>9 DEF IsWanted
  <2> QED  BY <1>1, <1>2, <1>5, <1>9, <2>1, <2>2, PassKeeps DEF Hides
<1>10. CASE ~TreeEntries[i].dir /\ ~(Len(found) >= walk.limit) /\ ~(isSensitive(i) /\ ~walk.sensitive) /\ i \notin tree
  <2>1. Passes(i)
    BY <1>10, Zenon DEF VisitSearch
  <2>2. i \notin steady
    BY <1>3, <1>10 DEF WalkTypes
  <2> QED  BY <1>1, <1>2, <1>5, <1>10, <2>1, <2>2, PassKeeps DEF Passes
<1>11. CASE ~TreeEntries[i].dir /\ ~(Len(found) >= walk.limit) /\ ~(isSensitive(i) /\ ~walk.sensitive) /\ i \in tree
  <2> DEFINE limit == walk.limit - Len(found)
             g == searchFile(i, symbol, limit)
  <2>1. found' = found \o g /\ listed' = listed \ {i} /\ UNCHANGED <<walk, tally>>
    BY <1>11, Zenon DEF VisitSearch
  <2>2. i \in Files /\ limit \in Nat /\ limit <= walk.limit /\ ~shouldSkipDir(i)
    BY <1>1, <1>11 DEF Files, shouldSkipDir
  <2>3. /\ g \in Seq(Finds) /\ Len(g) <= limit
        /\ \A k \in DOMAIN g : g[k].entry = i
        /\ \A k, l \in DOMAIN g : g[k] = g[l] => k = l
        /\ Len(g) < limit => searchFile(i, symbol, walk.limit) = g
    <3> HIDE DEF limit
    <3> QED  BY <1>1, <1>3, <2>2, SearchFinds
  <2>4. WithinReach(i)
    BY <1>1, <1>2, <1>11, <2>2 DEF WithinReach
  <2>5. FindsWell(i, g)
    <3> HIDE DEF g
    <3> QED  BY <1>11, <2>3, <2>4 DEF FindsWell
  <2>6. Len(found') = Len(found) + Len(g) /\ Len(g) \in Nat
    <3> HIDE DEF g
    <3> QED  BY <1>1, <2>1, <2>3
  <2>7. StaysBelow
    <3> HIDE DEF g
    <3> QED  BY <1>1, <1>2, <2>1, <2>3, <2>6 DEF StaysBelow
  <2>8. VisitsOne(i, FALSE, g)
    <3> HIDE DEF g
    <3> QED  BY <2>1 DEF VisitsOne
  <2>9. BelowLimit' => Shown(i)'
    <3> SUFFICES ASSUME BelowLimit' PROVE Shown(i)'
      OBVIOUS
    <3>1. Len(found') < walk.limit
      BY <2>1 DEF BelowLimit
    <3>2. Len(g) < limit
      <4> HIDE DEF g
      <4> QED  BY <1>1, <2>6, <3>1
    <3>3. searchFile(i, symbol, walk.limit) = g
      BY <2>3, <3>2, Zenon
    <3>4. Range(g) \subseteq Range(found')
      <4> HIDE DEF g
      <4> QED  BY <1>1, <2>1, <2>3, RangesTogether
    <3>5. symbol = (walk.tool = "search_symbol")
      BY <1>2
    <3>6. searchFile(i, walk.tool = "search_symbol", walk.limit)' = g
      <4>1. searchFile(i, walk.tool = "search_symbol", walk.limit)'
              = searchFile(i, walk.tool = "search_symbol", walk.limit)
        BY <2>1 DEF searchFile, Matching
      <4> QED  BY <3>3, <3>5, <4>1, Zenon
    <3> QED  BY <1>2, <2>1, <3>4, <3>6 DEF Shown
  <2> HIDE DEF g
  <2> QED  BY <1>5, <1>11, <2>3, <2>5, <2>7, <2>8, <2>9, OneVisitKeeps
<1> QED  BY <1>6, <1>7, <1>8, <1>9, <1>10, <1>11

\* One more that is found.
LEMMA FindsOneMore ==
    ASSUME WalkInv, walk.at = "walking", NEW i \in listed
    PROVE  /\ [entry |-> i, line |-> 0] \in Finds /\ <<[entry |-> i, line |-> 0]>> \in Seq(Finds)
           /\ Append(found, [entry |-> i, line |-> 0]) = found \o <<[entry |-> i, line |-> 0]>>
           /\ Len(Append(found, [entry |-> i, line |-> 0])) = Len(found) + 1
           /\ \E k \in DOMAIN Append(found, [entry |-> i, line |-> 0]) :
                 Append(found, [entry |-> i, line |-> 0])[k].entry = i
<1>1. i \in DOMAIN TreeEntries /\ found \in Seq(Finds)
  BY ComesBelow
<1>2. PICK e \in Finds : e = [entry |-> i, line |-> 0]
  BY <1>1 DEF Finds
<1>3. e.entry = i
  BY <1>2
<1>4. <<e>> \in Seq(Finds) /\ Append(found, e) = found \o <<e>> /\ Len(Append(found, e)) = Len(found) + 1
        /\ Len(found) + 1 \in DOMAIN Append(found, e) /\ Append(found, e)[Len(found) + 1] = e
  BY <1>1
<1> QED  BY <1>2, <1>3, <1>4

\* The list.
LEMMA ListKeeps ==
    ASSUME WalkInv, walk.at = "walking", NEW i \in listed, \A j \in listed : i <= j,
           walk.tool = "list", VisitList(i), UNCHANGED <<tree, content, treeEdits, steady>>
    PROVE  WalkInv'
<1>1. /\ walk \in WalkRecord /\ i \in DOMAIN TreeEntries /\ found \in Seq(Finds) /\ Len(found) \in Nat
      /\ walk.limit \in Nat /\ Len(found) <= walk.limit /\ tally \in Nat
      /\ i \in Under(walk.root)
      /\ i # walk.root /\ shouldSkipDir(i) => ~WithinReach(i)
      /\ ~shouldSkipDir(i) => \A j \in Above[i] \ Above[walk.root] : ~shouldSkipDir(j)
  BY ComesBelow
<1>2. WalkTypes
  BY DEF WalkInv
<1>3. walk.root \in DOMAIN TreeEntries /\ walk.depth \in Nat /\ pathDepth(walk.root, i) \in Nat
        /\ walk.sensitive \in BOOLEAN
  BY <1>1, DepthIsNat DEF WalkRecord
<1> DEFINE limited == i # walk.root /\ (pathDepth(walk.root, i) > walk.depth \/ shouldSkipDir(i))
           hidden == isSensitive(i) /\ ~walk.sensitive
<1>4. CASE i = walk.root
  <2>1. Enters(i) /\ UNCHANGED <<walk, found, tally>>
    BY <1>4, Zenon DEF VisitList
  <2>2. ~IsWanted(i)
    BY <1>4 DEF IsWanted, WithinReach
  <2> QED  BY <1>4, <2>1, <2>2, EnterKeeps
<1>5. CASE i # walk.root /\ (pathDepth(walk.root, i) > walk.depth \/ shouldSkipDir(i))
  <2>1. Passes(i)
    BY <1>5, Zenon DEF VisitList
  <2>2. ~IsWanted(i)
    BY <1>1, <1>3, <1>5 DEF IsWanted, WithinReach
  <2>3. \A t \in steady : IsWanted(t) /\ i \in Above[t] => t = i
    BY <1>3, <1>5, MayEnter
  <2> QED  BY <1>1, <2>1, <2>2, <2>3, PassKeeps DEF Passes
<1>6. CASE i # walk.root /\ ~(pathDepth(walk.root, i) > walk.depth \/ shouldSkipDir(i)) /\ hidden
  <2>1. Hides(i)
    BY <1>6, Zenon DEF VisitList
  <2>2. ~IsWanted(i)
    BY <1>6 DEF IsWanted
  <2>3. \A t \in steady : IsWanted(t) /\ i \in Above[t] => t = i
    BY <1>6, MayEnter
  <2> QED  BY <1>1, <2>1, <2>2, <2>3, PassKeeps DEF Hides
<1>7. CASE i # walk.root /\ ~(pathDepth(walk.root, i) > walk.depth \/ shouldSkipDir(i)) /\ ~hidden
           /\ Len(found) >= walk.limit
  <2>1. EndsWalk("done") /\ UNCHANGED <<found, tally>>
    BY <1>7, Zenon DEF VisitList
  <2>2. ~BelowLimit
    BY <1>1, <1>7 DEF BelowLimit
  <2> QED  BY <2>1, <2>2, EndKeeps
<1>8. CASE i # walk.root /\ ~(pathDepth(walk.root, i) > walk.depth \/ shouldSkipDir(i)) /\ ~hidden
           /\ ~(Len(found) >= walk.limit) /\ i \notin tree
  <2>1. Passes(i)
    BY <1>8, Zenon DEF VisitList
  <2>2. i \notin steady
    BY <1>2, <1>8 DEF WalkTypes
  <2>3. \A t \in steady : IsWanted(t) /\ i \in Above[t] => t = i
    BY <1>8, MayEnter
  <2> QED  BY <1>1, <2>1, <2>2, <2>3, PassKeeps DEF Passes
<1>9. CASE i # walk.root /\ ~(pathDepth(walk.root, i) > walk.depth \/ shouldSkipDir(i)) /\ ~hidden
           /\ ~(Len(found) >= walk.limit) /\ i \in tree
  <2> DEFINE e == [entry |-> i, line |-> 0]
  <2>1. found' = Append(found, e) /\ Enters(i) /\ UNCHANGED <<walk, tally>>
    BY <1>9, Zenon DEF VisitList
  <2>2. /\ e \in Finds /\ <<e>> \in Seq(Finds) /\ Append(found, e) = found \o <<e>>
        /\ Len(Append(found, e)) = Len(found) + 1
        /\ \E k \in DOMAIN Append(found, e) : Append(found, e)[k].entry = i
    BY FindsOneMore
  <2>3. WithinReach(i)
    BY <1>1, <1>3, <1>9 DEF WithinReach
  <2>4. FindsWell(i, <<e>>)
    BY <1>9, <2>3 DEF FindsWell
  <2> HIDE DEF e
  <2>5. VisitsOne(i, TRUE, <<e>>)
    BY <2>1, <2>2 DEF VisitsOne, Enters
  <2>6. StaysBelow
    BY <1>1, <1>9, <2>1, <2>2 DEF StaysBelow
  <2>7. Shown(i)'
    BY <2>1, <2>2 DEF Shown, FoundEntries
  <2> QED  BY <1>9, <2>2, <2>4, <2>5, <2>6, <2>7, OneVisitKeeps
<1> QED  BY <1>4, <1>5, <1>6, <1>7, <1>8, <1>9

\* The detection of the languages.
LEMMA DetectKeeps ==
    ASSUME WalkInv, walk.at = "walking", NEW i \in listed, \A j \in listed : i <= j,
           walk.tool = "detect", VisitDetect(i), UNCHANGED <<tree, content, treeEdits, steady>>
    PROVE  WalkInv'
<1>1. /\ walk \in WalkRecord /\ i \in DOMAIN TreeEntries /\ found \in Seq(Finds) /\ Len(found) \in Nat
      /\ walk.limit \in Nat /\ Len(found) <= walk.limit /\ tally \in Nat
      /\ Len(found) <= tally /\ tally <= walk.limit /\ i \in Under(walk.root)
      /\ ~shouldSkipDir(i) => \A j \in Above[i] \ Above[walk.root] : ~shouldSkipDir(j)
  BY ComesBelow
<1>2. TreeEntries[i].dir => ~IsWanted(i)
  BY DEF IsWanted, WithinReach
<1>3. ~TreeEntries[i].dir => \A t \in steady : IsWanted(t) /\ i \in Above[t] => t = i
  BY MayEnter
<1>4. CASE TreeEntries[i].dir /\ shouldSkipDir(i) /\ i # walk.root
  <2>1. Passes(i)
    BY <1>4, Zenon DEF VisitDetect
  <2>2. \A t \in steady : IsWanted(t) /\ i \in Above[t] => t = i
    BY <1>4, MayEnter
  <2> QED  BY <1>1, <1>2, <1>4, <2>1, <2>2, PassKeeps DEF Passes
<1>5. CASE TreeEntries[i].dir /\ ~(shouldSkipDir(i) /\ i # walk.root)
  <2>1. Enters(i) /\ UNCHANGED <<walk, found, tally>>
    BY <1>5, Zenon DEF VisitDetect
  <2> QED  BY <1>2, <1>5, <2>1, EnterKeeps
<1>6. CASE ~TreeEntries[i].dir /\ tally + 1 > walk.limit
  <2>1. EndsWalk("done") /\ UNCHANGED <<found, tally>>
    BY <1>6, Zenon DEF VisitDetect
  <2>2. ~BelowLimit
    BY <1>1, <1>6 DEF BelowLimit
  <2> QED  BY <2>1, <2>2, EndKeeps
<1>7. CASE ~TreeEntries[i].dir /\ ~(tally + 1 > walk.limit)
  <2> DEFINE e == [entry |-> i, line |-> 0]
  <2>1. tally' = tally + 1 /\ listed' = listed \ {i} /\ walk' = walk
          /\ found' = IF languageForPath(i) = "" THEN found ELSE Append(found, e)
    BY <1>7, Zenon DEF VisitDetect
  <2>2. /\ e \in Finds /\ <<e>> \in Seq(Finds) /\ Append(found, e) = found \o <<e>>
        /\ Len(Append(found, e)) = Len(found) + 1
        /\ \E k \in DOMAIN Append(found, e) : Append(found, e)[k].entry = i
    BY FindsOneMore
  <2>5. tally' \in Nat /\ tally' = tally + 1 /\ tally' <= walk.limit
    <3>1. tally' = tally + 1
      BY <2>1, Zenon
    <3>2. PICK m \in Nat : m = walk.limit
      BY <1>1
    <3>3. ~(tally + 1 > m)
      BY <1>7, <3>2, Zenon
    <3>4. tally + 1 \in Nat /\ tally + 1 <= m
      BY <1>1, <3>3
    <3> QED  BY <3>1, <3>2, <3>4, Zenon
  <2>3. CASE languageForPath(i) = ""
    <3>0. found' = found
      BY <2>1, <2>3, Zenon
    <3>1. found' = found /\ <<>> \in Seq(Finds)
      BY <3>0
    <3>2. found' = found \o <<>>
      BY <1>1, <3>1
    <3>3. VisitsOne(i, FALSE, <<>>)
      BY <2>1, <3>2 DEF VisitsOne
    <3>4. FindsWell(i, <<>>)
      BY DEF FindsWell
    <3>5. StaysBelow
      BY <1>1, <2>5, <3>1 DEF StaysBelow
    <3>6. ~IsWanted(i)
      BY <2>3 DEF IsWanted, WithinReach
    <3> QED  BY <1>3, <1>7, <3>1, <3>3, <3>4, <3>5, <3>6, OneVisitKeeps
  <2>4. CASE languageForPath(i) # ""
    <3>1. WithinReach(i)
      BY <1>1, <1>7, <2>4 DEF WithinReach, shouldSkipDir
    <3>2. FindsWell(i, <<e>>)
      BY <3>1 DEF FindsWell
    <3> HIDE DEF e
    <3>3. found' = Append(found, e)
      BY <2>1, <2>4
    <3>4. VisitsOne(i, FALSE, <<e>>)
      BY <2>1, <2>2, <3>3 DEF VisitsOne
    <3>5. StaysBelow
      <4>1. Len(found') = Len(found) + 1
        BY <2>2, <3>3, Zenon
      <4> QED  BY <1>1, <2>5, <4>1 DEF StaysBelow
    <3>6. Shown(i)'
      BY <2>1, <2>2, <3>3 DEF Shown, FoundEntries
    <3> QED  BY <1>3, <1>7, <2>2, <3>2, <3>4, <3>5, <3>6, OneVisitKeeps
  <2> QED  BY <2>3, <2>4
<1> QED  BY <1>4, <1>5, <1>6, <1>7

\* The next entry of a walk, whatever it is and whichever walk.
LEMMA VisitKeeps ==
    ASSUME WalkInv, Visit
    PROVE  WalkInv'
<1>1. walk.at = "walking" /\ listed # {} /\ UNCHANGED <<tree, content, treeEdits, steady>>
  BY DEF Visit
<1>2. walk \in WalkRecord /\ listed \in SUBSET Nat /\ steady \subseteq tree /\ listed \subseteq DOMAIN TreeEntries
  BY <1>1, WalkIsOne, EntriesAre DEF WalkInv, WalkTypes
<1>3. PICK i \in listed : i = Min(listed) /\ \A j \in listed : i <= j
  BY <1>1, <1>2, LeastIsMin
<1>4. \/ i \notin tree /\ EndsWalk("error") /\ UNCHANGED <<found, tally>>
      \/ CASE walk.tool = "list" -> VisitList(i)
           [] walk.tool = "detect" -> VisitDetect(i)
           [] walk.tool = "search_symbol" -> VisitSymbol(i)
           [] OTHER -> VisitSearch(i, FALSE)
  BY <1>3, Zenon DEF Visit
<1>5. CASE i \notin tree /\ EndsWalk("error") /\ UNCHANGED <<found, tally>>
  <2>1. i \in DOMAIN TreeEntries /\ i \notin steady
    BY <1>2, <1>5
  <2> QED  BY <1>1, <1>5, <2>1, EndKeeps
<1>6. CASE CASE walk.tool = "list" -> VisitList(i)
             [] walk.tool = "detect" -> VisitDetect(i)
             [] walk.tool = "search_symbol" -> VisitSymbol(i)
             [] OTHER -> VisitSearch(i, FALSE)
  <2>1. CASE walk.tool = "list"
    <3>1. VisitList(i)
      BY <1>6, <2>1
    <3> QED  BY <1>1, <1>3, <2>1, <3>1, ListKeeps
  <2>2. CASE walk.tool = "detect"
    <3>1. VisitDetect(i)
      BY <1>6, <2>2
    <3> QED  BY <1>1, <1>3, <2>2, <3>1, DetectKeeps
  <2>3. CASE walk.tool = "search_symbol"
    <3>1. VisitSearch(i, TRUE)
      BY <1>6, <2>3 DEF VisitSymbol
    <3> QED  BY <1>1, <1>3, <2>3, <3>1, SearchKeeps
  <2>4. CASE walk.tool = "search_text"
    <3>1. VisitSearch(i, FALSE)
      BY <1>6, <2>4
    <3> QED  BY <1>1, <1>3, <2>4, <3>1, SearchKeeps
  <2> QED  BY <1>2, <2>1, <2>2, <2>3, <2>4 DEF WalkRecord
<1> QED  BY <1>4, <1>5, <1>6

\* Others change the tree, and leave what they have not touched.
LEMMA TreeEdited ==
    ASSUME WalkInv, walk' = walk, listed' = listed, found' = found, tally' = tally,
           tree' \subseteq DOMAIN TreeEntries, Rooted(tree'), Rooted(steady'),
           steady' \subseteq steady, steady' \subseteq tree', content' \in [Files -> FileContents],
           \A t \in steady' : t \in Files => content'[t] = content[t]
    PROVE  WalkInv'
<1>1. steady \subseteq DOMAIN TreeEntries
  BY DEF WalkInv, WalkTypes
<1>2. WalkTypes' /\ TreesAreWhole' /\ WalkInOrder'
  <2>1. WalkTypes' /\ TreesAreWhole'
    BY DEF WalkInv, WalkTypes, TreesAreWhole, Rooted
  <2> QED  BY <2>1 DEF WalkInv, WalkInOrder
<1>3. NoMoreSoFar'
  BY DEF WalkInv, NoMoreSoFar, WithinReach, ComesTo
<1>4. AllSoFar'
  <2>1. ASSUME NEW t \in steady', IsWanted(t)', BelowLimit', walk.at \in {"walking", "done"}
        PROVE  Shown(t)' \/ \E j \in Above[t] : j \in listed'
    <3>1. IsWanted(t) /\ BelowLimit /\ t \in DOMAIN TreeEntries
      BY <1>1, <2>1 DEF IsWanted, WithinReach, BelowLimit
    <3>2. Shown(t) \/ \E j \in Above[t] : j \in listed
      BY <2>1, <3>1 DEF WalkInv, AllSoFar
    <3>3. CASE walk.tool \in {"list", "detect"}
      BY <3>2, <3>3 DEF Shown, FoundEntries
    <3>4. CASE walk.tool \notin {"list", "detect"}
      <4>1. t \in Files
        BY <3>1, <3>4 DEF IsWanted, WithinReach, Files
      <4>2. content'[t] = content[t]
        BY <4>1
      <4>3. searchFile(t, walk.tool = "search_symbol", walk.limit)'
              = searchFile(t, walk.tool = "search_symbol", walk.limit)
        BY <4>2 DEF searchFile, Matching
      <4> QED  BY <3>2, <3>4, <4>3 DEF Shown
    <3> QED  BY <3>3, <3>4
  <2> QED  BY <2>1 DEF WalkInv, AllSoFar
<1> QED  BY <1>2, <1>3, <1>4 DEF WalkInv

\* With an entry goes all that is below it.
LEMMA RootedWithout ==
    ASSUME NEW S \in SUBSET (DOMAIN TreeEntries), Rooted(S), NEW i \in DOMAIN TreeEntries
    PROVE  Rooted(S \ Under(i))
<1> SUFFICES ASSUME NEW k \in S \ Under(i), TreeEntries[k].parent # 0
             PROVE  TreeEntries[k].parent \in S \ Under(i)
  BY DEF Rooted
<1> DEFINE p == TreeEntries[k].parent
<1>1. p \in S
  BY DEF Rooted
<1>2. Above[p] \subseteq Above[k]
  BY <1>1, AboveChild
<1>3. i \notin Above[k]
  BY DEF Under
<1> QED  BY <1>1, <1>2, <1>3 DEF Under

\* An edit of the tree keeps WalkInv: what it touches is steady no longer.
LEMMA TreeEditKeeps ==
    ASSUME WalkInv, TreeEdit
    PROVE  WalkInv'
<1>1. /\ tree \in SUBSET (DOMAIN TreeEntries) /\ steady \subseteq tree /\ steady \in SUBSET (DOMAIN TreeEntries)
      /\ content \in [Files -> FileContents] /\ Rooted(tree) /\ Rooted(steady)
  BY DEF WalkInv, WalkTypes, TreesAreWhole
<1>2. walk' = walk /\ listed' = listed /\ found' = found /\ tally' = tally
  BY DEF TreeEdit, walkVars
<1>3. ASSUME NEW i \in DOMAIN TreeEntries \ {1}, Vanish(i) PROVE WalkInv'
  <2>1. /\ tree' = tree \ Under(i) /\ steady' = steady \ Under(i) /\ content' = content
    BY <1>3 DEF Vanish
  <2>2. Rooted(tree') /\ Rooted(steady')
    BY <1>1, <2>1, RootedWithout, Zenon
  <2> QED  BY <1>1, <1>2, <2>1, <2>2, TreeEdited
<1>4. ASSUME NEW i \in DOMAIN TreeEntries \ {1}, Appear(i) PROVE WalkInv'
  <2>1. TreeEntries[i].parent \in tree /\ tree' = tree \cup {i} /\ steady' = steady /\ content' = content
    BY <1>4 DEF Appear
  <2>2. Rooted(tree') /\ Rooted(steady')
    BY <1>1, <2>1 DEF Rooted
  <2> QED  BY <1>1, <1>2, <2>1, <2>2, TreeEdited
<1>5. ASSUME NEW i \in Files, NEW c \in FileContents, Write(i, c) PROVE WalkInv'
  <2>1. tree' = tree /\ steady' = steady \ {i} /\ content' = [content EXCEPT ![i] = c]
    BY <1>5 DEF Write
  <2>2. \A k \in DOMAIN TreeEntries : TreeEntries[k].parent # i
    <3> SUFFICES ASSUME NEW k \in DOMAIN TreeEntries, TreeEntries[k].parent = i PROVE FALSE
      OBVIOUS
    <3>1. ~TreeEntries[i].dir /\ i \in DOMAIN TreeEntries
      BY DEF Files
    <3>2. i # 0
      BY <3>1, EntriesAre
    <3> QED  BY <3>1, <3>2, EntriesAre
  <2>3. Rooted(steady')
    BY <1>1, <2>1, <2>2 DEF Rooted
  <2>4. content' \in [Files -> FileContents] /\ \A t \in steady' : t \in Files => content'[t] = content[t]
    BY <1>1, <2>1
  <2> QED  BY <1>1, <1>2, <2>1, <2>3, <2>4, TreeEdited
<1> QED  BY <1>3, <1>4, <1>5 DEF TreeEdit

\* In a state of WalkInv the walk that has ended is faithful.
LEMMA WalkHolds ==
    ASSUME WalkInv
    PROVE  WalksAreFaithful
<1>1. /\ walk.at # "idle" => walk \in WalkRecord /\ walk # NoWalk
      /\ found \in Seq(Finds)
  BY WalkIsOne DEF WalkInv, WalkTypes
<1>2. WalkShowsNoMore
  <2> SUFFICES ASSUME walk.at # "idle"
               PROVE  /\ \A i \in FoundEntries : WithinReach(i)
                      /\ Cardinality(Range(found)) = Len(found) /\ Len(found) <= walk.limit
                      /\ walk.tool # "detect" /\ ~walk.sensitive => \A i \in FoundEntries : ~isSensitive(i)
    BY DEF WalkShowsNoMore
  <2>1. Cardinality(Range(found)) = Len(found)
    BY <1>1, FindsCounted DEF WalkInv, WalkInOrder
  <2> QED  BY <1>1, <2>1 DEF WalkInv, NoMoreSoFar, FoundEntries
<1>3. WalkShowsAll
  BY DEF WalkShowsAll, WalkInv, AllSoFar, BelowLimit, IsWanted, Shown
<1> QED  BY <1>2, <1>3 DEF WalksAreFaithful

\* WalkInv holds of every walk, whatever others do to the tree meanwhile.
THEOREM WalkInvariant == WorkspaceSpec => []WalkInv
<1>1. WorkspaceInit => WalkInv
  <2> SUFFICES ASSUME WorkspaceInit PROVE WalkInv
    OBVIOUS
  <2>1. WalkTypes
    BY DEF WorkspaceInit, WalkTypes
  <2>2. TreesAreWhole
    BY EntriesAre DEF WorkspaceInit, TreesAreWhole, Rooted
  <2>3. WalkInOrder /\ NoMoreSoFar /\ AllSoFar
    BY DEF WorkspaceInit, WalkInOrder, NoMoreSoFar, AllSoFar, NoWalk
  <2> QED  BY <2>1, <2>2, <2>3 DEF WalkInv
<1>2. WalkInv /\ [WorkspaceNext]_wsVars => WalkInv'
  <2> SUFFICES ASSUME WalkInv, [WorkspaceNext]_wsVars PROVE WalkInv'
    OBVIOUS
  <2>1. ASSUME NEW w \in Walks, BeginWalk(w) PROVE WalkInv'
    BY <2>1, WalkBegins
  <2>2. CASE Visit
    BY <2>2, VisitKeeps
  <2>3. CASE FinishWalk
    <3>1. walk.at = "walking" /\ listed = {} /\ EndsWalk("done")
            /\ UNCHANGED <<tree, content, found, tally, treeEdits, steady>>
      BY <2>3 DEF FinishWalk
    <3> QED  BY <3>1, EndKeeps
  <2>4. CASE TreeEdit
    BY <2>4, TreeEditKeeps
  <2>5. CASE UNCHANGED wsVars
    <3>1. tree' = tree /\ content' = content /\ steady' = steady /\ walk' = walk /\ listed' = listed
            /\ found' = found /\ tally' = tally
      BY <2>5 DEF wsVars, walkVars
    <3>2. tree' \subseteq DOMAIN TreeEntries /\ Rooted(tree') /\ Rooted(steady') /\ steady' \subseteq tree'
            /\ content' \in [Files -> FileContents]
      BY <3>1 DEF WalkInv, WalkTypes, TreesAreWhole
    <3> QED  BY <3>1, <3>2, TreeEdited
  <2> QED  BY <2>1, <2>2, <2>3, <2>4, <2>5 DEF WorkspaceNext
<1> QED  BY <1>1, <1>2, PTL DEF WorkspaceSpec

\* A call that reads the workspace while others change it shows what it is
\* about, nothing twice and no more than its limit; and one that has not come
\* to its limit misses nothing that nobody has touched meanwhile (project.go
\* and workspace.go: SearchExecutor, SearchSymbolExecutor, ListFilesExecutor,
\* detectLanguages), for every tree and every call.
THEOREM WalksFaithful == WorkspaceSpec => []WalksAreFaithful
<1> QED  BY WalkInvariant, WalkHolds, PTL

\* What has been counted has been visited, in the order of the walk.
TallyBehind == tally \in 0..Len(TreeEntries) /\ \A j \in listed : tally < j
WalkRest == TallyBehind /\ treeEdits \in 0..MaxTreeEdits

\* A visit goes on with what comes after the entry, and counts it at most.
LEMMA VisitCounted ==
    ASSUME WalkInv, TallyBehind, Visit PROVE TallyBehind'
<1>1. listed # {} /\ listed \in SUBSET Nat /\ listed \subseteq DOMAIN TreeEntries
      /\ tree \subseteq DOMAIN TreeEntries
  BY EntriesAre DEF Visit, WalkInv, WalkTypes
<1>2. PICK i \in listed : i = Min(listed) /\ \A j \in listed : i <= j
  BY <1>1, LeastIsMin
<1>3. i \in 1..Len(TreeEntries) /\ Len(TreeEntries) \in Nat /\ tally \in Nat /\ tally < i
  BY <1>1, <1>2, EntriesAre DEF TallyBehind
<1>4. \A j \in Children(i) : j \in Nat /\ j > i
  BY <1>1, <1>3, EntriesAre DEF Children
<1> DEFINE GoesOn ==
             /\ listed' = {} \/ listed' = listed \ {i} \/ listed' = (listed \ {i}) \cup Children(i)
             /\ tally' = tally \/ (tally' = tally + 1 /\ listed' = listed \ {i})
<1>5. GoesOn
  <2>1. ASSUME NEW how, EndsWalk(how), UNCHANGED <<found, tally>> PROVE GoesOn
    <3>1. listed' = {} /\ tally' = tally
      BY <2>1 DEF EndsWalk
    <3> QED  BY <3>1, Zenon
  <2>2. Passes(i) => GoesOn
    BY DEF Passes
  <2>3. Hides(i) => GoesOn
    BY DEF Hides
  <2>4. ASSUME Enters(i), tally' = tally PROVE GoesOn
    BY <2>4, Zenon DEF Enters
  <2>5. listed' = listed \ {i} /\ (tally' = tally \/ tally' = tally + 1) => GoesOn
    OBVIOUS
  <2> HIDE DEF GoesOn
  <2>6. \/ EndsWalk("error") /\ UNCHANGED <<found, tally>>
        \/ VisitList(i) \/ VisitDetect(i) \/ VisitSearch(i, TRUE) \/ VisitSearch(i, FALSE)
    BY <1>2 DEF Visit, VisitSymbol
  <2>7. CASE VisitList(i)
    BY <2>1, <2>2, <2>3, <2>4, <2>7 DEF VisitList
  <2>8. CASE VisitDetect(i)
    BY <2>1, <2>2, <2>4, <2>5, <2>8 DEF VisitDetect
  <2>9. ASSUME NEW symbol \in BOOLEAN, VisitSearch(i, symbol) PROVE GoesOn
    BY <2>1, <2>2, <2>3, <2>4, <2>5, <2>9 DEF VisitSearch
  <2> QED  BY <2>1, <2>6, <2>7, <2>8, <2>9
<1>6. \A j \in listed \ {i} : j > i /\ j \in Nat
  BY <1>1, <1>2
<1>7. CASE tally' = tally
  <2>1. \A j \in listed' : j \in Nat /\ (j > i \/ j \in listed)
    BY <1>4, <1>5, <1>6
  <2>2. \A j \in listed' : tally < j
    BY <1>3, <2>1 DEF TallyBehind
  <2> QED  BY <1>7, <2>2 DEF TallyBehind
<1>8. CASE tally' = tally + 1 /\ listed' = listed \ {i}
  <2>1. \A j \in listed' : tally + 1 < j
    BY <1>3, <1>6, <1>8
  <2>2. tally + 1 \in 0..Len(TreeEntries)
    BY <1>3
  <2> QED  BY <1>8, <2>1, <2>2 DEF TallyBehind
<1> QED  BY <1>5, <1>7, <1>8

\* The variables of the walks have their types.
THEOREM WorkspaceTyped == WorkspaceSpec => []WorkspaceTypeOK
<1>1. WorkspaceInit => WalkRest
  BY EntriesAre, WorkspaceAssumption DEF WorkspaceInit, WalkRest, TallyBehind
<1>2. ASSUME WalkInv, WalkRest, [WorkspaceNext]_wsVars PROVE WalkRest'
  <2>1. ASSUME NEW w \in Walks, BeginWalk(w) PROVE WalkRest'
    <3>1. w.root \in DOMAIN TreeEntries
      BY WorkspaceAssumption
    <3>2. listed' = {w.root} /\ tally' = 0 /\ treeEdits' = treeEdits
      BY <2>1 DEF BeginWalk
    <3> QED  BY <1>2, <3>1, <3>2, EntriesAre DEF WalkRest, TallyBehind
  <2>2. CASE Visit
    BY <1>2, <2>2, VisitCounted DEF WalkRest, Visit
  <2>3. CASE FinishWalk
    BY <1>2, <2>3 DEF WalkRest, TallyBehind, FinishWalk, EndsWalk
  <2>4. CASE TreeEdit
    BY <1>2, <2>4, WorkspaceAssumption DEF WalkRest, TallyBehind, TreeEdit, walkVars
  <2>5. CASE UNCHANGED wsVars
    BY <1>2, <2>5 DEF WalkRest, TallyBehind, wsVars, walkVars
  <2> QED  BY <1>2, <2>1, <2>2, <2>3, <2>4, <2>5 DEF WorkspaceNext
<1>3. ASSUME WalkInv, WalkRest PROVE WorkspaceTypeOK
  <2>1. walk.at \in {"idle", "walking", "done", "error"}
    BY <1>3 DEF WalkInv, WalkTypes, NoWalk, WalkRecord
  <2> QED  BY <1>3, <2>1 DEF WorkspaceTypeOK, WalkInv, WalkTypes, WalkRest, TallyBehind
<1>4. WalkInv /\ WalkRest /\ [WorkspaceNext]_wsVars => WalkRest'
  BY <1>2
<1>5. WalkInv /\ WalkRest => WorkspaceTypeOK
  BY <1>3
<1> QED  BY <1>1, <1>4, <1>5, WalkInvariant, PTL DEF WorkspaceSpec

-----------------------------------------------------------------------------
TestLine == [like : STRING, name : STRING]
LineNames == STRING \cup {""}
FailureRecord == [test : LineNames, file : LineNames]

\* What a fold comes to on its way.
GoesThrough(t, output) ==
    /\ t[0] = <<>> /\ t[Len(output)] = parseGoFailures(output)
    /\ \A k \in 1..Len(output) : t[k - 1] \in Seq(FailureRecord) /\ t[k] = goLine(t[k - 1], output[k])
    /\ \A k \in 0..Len(output) : t[k] \in Seq(FailureRecord)

\* A line of go's output adds a failure or changes the last one.
LEMMA GoLineTyped ==
    ASSUME NEW acc \in Seq(FailureRecord), NEW l \in TestLine
    PROVE  goLine(acc, l) \in Seq(FailureRecord)
<1>1. l.name \in STRING
  BY DEF TestLine
<1>2. CASE l.like = "fail"
  <2>1. Failure(l.name, "") \in FailureRecord
    BY <1>1 DEF Failure, FailureRecord, LineNames
  <2>2. PICK r \in FailureRecord : r = Failure(l.name, "")
    BY <2>1
  <2>3. goLine(acc, l) = Append(acc, r)
    BY <1>2, <2>2, Zenon DEF goLine
  <2> QED  BY <2>3
<1>3. CASE l.like # "fail" /\ l.like = "location" /\ acc # <<>>
  <2>1. Len(acc) \in 1..Len(acc) /\ acc[Len(acc)] \in FailureRecord
    BY <1>3
  <2>2. PICK r \in FailureRecord : r = [acc[Len(acc)] EXCEPT !.file = l.name]
    BY <1>1, <2>1 DEF FailureRecord, LineNames
  <2>3. goLine(acc, l) = [acc EXCEPT ![Len(acc)] = r]
    BY <1>3, <2>2 DEF goLine
  <2>4. [acc EXCEPT ![Len(acc)] = r] \in Seq(FailureRecord)
    BY <2>1
  <2> QED  BY <2>3, <2>4
<1>4. CASE l.like # "fail" /\ ~(l.like = "location" /\ acc # <<>>)
  BY <1>4 DEF goLine
<1> QED  BY <1>2, <1>3, <1>4

GoIter(h, output) ==
    h = [S \in SUBSET DOMAIN output |->
            IF S = {} THEN <<>> ELSE goLine(h[S \ {Max(S)}], output[Max(S)])]

\* parseGoFailures goes through the lines one by one.
LEMMA GoFold ==
    ASSUME NEW output \in Seq(TestLine)
    PROVE  \E t : GoesThrough(t, output)
<1> DEFINE X == Seq(FailureRecord)
           st == [p \in X \X TestLine |-> goLine(p[1], p[2])]
<1>1. st \in [X \X TestLine -> X] /\ <<>> \in X
  BY GoLineTyped
<1>2. \A x \in X, l \in TestLine : st[<<x, l>>] = goLine(x, l)
  OBVIOUS
<1>3. parseGoFailures(output) = (CHOOSE h : GoIter(h, output))[DOMAIN output]
  BY DEF parseGoFailures, FoldLeft, MapThenFoldSet, GoIter
<1>4. DOMAIN output = 1..Len(output) /\ Len(output) \in Nat /\ \A k \in 1..Len(output) : output[k] \in TestLine
  OBVIOUS
<1>5. \E h : GoIter(h, output)
  <2> HIDE DEF st
  <2>1. PICK g \in [SUBSET (1..Len(output)) -> X] : Folded(g, <<>>, st, output, Len(output))
    <3> HIDE DEF X
    <3> QED  BY <1>1, FoldExists DEF HasFold
  <2>2. ASSUME NEW S \in SUBSET (1..Len(output))
        PROVE  g[S] = IF S = {} THEN <<>> ELSE goLine(g[S \ {Max(S)}], output[Max(S)])
    <3>1. g[S] = IF S = {} THEN <<>> ELSE st[<<g[S \ {Max(S)}], output[Max(S)]>>]
      BY <2>1 DEF Folded
    <3>2. CASE S # {}
      <4>1. Max(S) \in S
        BY <1>4, <3>2, GreatestWithin
      <4>2. output[Max(S)] \in TestLine /\ S \ {Max(S)} \in SUBSET (1..Len(output))
        BY <1>4, <4>1
      <4>3. g[S \ {Max(S)}] \in X
        BY <2>1, <4>2
      <4> QED  BY <1>2, <3>1, <3>2, <4>2, <4>3
    <3> QED  BY <3>1, <3>2
  <2>3. GoIter(g, output)
    BY <1>4, <2>1, <2>2 DEF GoIter
  <2> QED  BY <2>3
<1>6. PICK h : GoIter(h, output) /\ parseGoFailures(output) = h[DOMAIN output]
  BY <1>3, <1>5
<1>7. \A S \in SUBSET (1..Len(output)) : h[S] = IF S = {} THEN <<>> ELSE goLine(h[S \ {Max(S)}], output[Max(S)])
  BY <1>4, <1>6 DEF GoIter
<1> DEFINE t == [k \in 0..Len(output) |-> h[1..k]]
<1>8. t[0] = <<>> /\ t[Len(output)] = parseGoFailures(output)
  <2>1. 1..0 = {} /\ 1..0 \in SUBSET (1..Len(output)) /\ 0 \in 0..Len(output) /\ Len(output) \in 0..Len(output)
    OBVIOUS
  <2>2. h[1..0] = <<>>
    BY <1>7, <2>1
  <2> QED  BY <1>4, <1>6, <2>1, <2>2
<1>9. ASSUME NEW k \in 1..Len(output)
      PROVE  t[k] = goLine(t[k - 1], output[k])
  <2>1. h[1..k] = goLine(h[1..(k - 1)], output[k])
    <3>1. 1..k \in SUBSET (1..Len(output)) /\ 1..k # {} /\ (1..k) \ {Max(1..k)} = 1..(k - 1) /\ Max(1..k) = k
      BY InitialPart
    <3>2. h[1..k] = IF 1..k = {} THEN <<>> ELSE goLine(h[(1..k) \ {Max(1..k)}], output[Max(1..k)])
      BY <1>7, <3>1, Zenon
    <3> QED  BY <3>1, <3>2
  <2>2. k \in 0..Len(output) /\ k - 1 \in 0..Len(output)
    OBVIOUS
  <2> QED  BY <2>1, <2>2
<1>10. \A k \in 0..Len(output) : t[k] \in Seq(FailureRecord)
  <2> DEFINE Good == {k \in Nat : k <= Len(output) => t[k] \in Seq(FailureRecord)}
  <2> HIDE DEF t
  <2>1. 0 \in Good
    <3>1. 0 \in Nat /\ t[0] \in Seq(FailureRecord)
      BY <1>8
    <3> QED  BY <3>1
  <2>2. ASSUME NEW k \in Nat, k \in Good PROVE k + 1 \in Good
    <3> SUFFICES ASSUME k + 1 <= Len(output) PROVE t[k + 1] \in Seq(FailureRecord)
      OBVIOUS
    <3>1. k + 1 \in 1..Len(output) /\ (k + 1) - 1 = k /\ t[k] \in Seq(FailureRecord) /\ output[k + 1] \in TestLine
      BY <2>2
    <3> QED  BY <1>9, <3>1, GoLineTyped
  <2>3. Nat \subseteq Good
    <3> HIDE DEF Good
    <3> QED  BY <2>1, <2>2, SetInduction
  <2> QED  BY <2>3
<1>11. GoesThrough(t, output)
  <2> HIDE DEF t
  <2>1. \A k \in 1..Len(output) : k - 1 \in 0..Len(output)
    OBVIOUS
  <2> QED  BY <1>8, <1>9, <1>10, <2>1 DEF GoesThrough
<1> QED  BY <1>11

\* The lines that report a failed test, among the first n.
FailLines(output, n) == {k \in 1..n : output[k].like = "fail"}
LocatesBy(output, k, l, n) ==
    /\ k < l /\ output[l].like = "location" /\ \A m \in k+1..l : output[m].like # "fail"
    /\ \A m \in l+1..n : output[m].like = "location" => \E i \in l+1..m : output[i].like = "fail"

\* What the first n lines are parsed to.
Reported(acc, output, n) ==
    /\ Len(acc) = Cardinality(FailLines(output, n))
    /\ \A k \in FailLines(output, n) :
          /\ acc[Cardinality(FailLines(output, k))].test = output[k].name
          /\ \A l \in 1..n : LocatesBy(output, k, l, n)
                => acc[Cardinality(FailLines(output, k))].file = output[l].name

\* The failures up to a line are counted: one more for a line that reports one,
\* and those reported earlier have smaller counts.
LEMMA FailCounts ==
    ASSUME NEW output, NEW n \in Nat
    PROVE  /\ IsFiniteSet(FailLines(output, n)) /\ Cardinality(FailLines(output, n)) \in Nat
           /\ Cardinality(FailLines(output, n + 1)) = Cardinality(FailLines(output, n))
                + (IF output[n + 1].like = "fail" THEN 1 ELSE 0)
           /\ \A k \in FailLines(output, n) :
                 /\ Cardinality(FailLines(output, k)) \in 1..Cardinality(FailLines(output, n))
                 /\ \A i \in FailLines(output, n) : k < i
                       => Cardinality(FailLines(output, k)) < Cardinality(FailLines(output, n))
<1>1. ASSUME NEW m \in Nat PROVE IsFiniteSet(FailLines(output, m)) /\ Cardinality(FailLines(output, m)) \in Nat
  <2>1. IsFiniteSet(1..m)
    BY FS_Interval
  <2>2. FailLines(output, m) \subseteq 1..m
    BY DEF FailLines
  <2> QED  BY <2>1, <2>2, FS_Subset, FS_CardinalityType
<1>4. ASSUME NEW k \in FailLines(output, n)
      PROVE  /\ Cardinality(FailLines(output, k)) \in 1..Cardinality(FailLines(output, n))
             /\ \A i \in FailLines(output, n) : k < i
                   => Cardinality(FailLines(output, k)) < Cardinality(FailLines(output, n))
  <2>1. k \in Nat /\ k \in FailLines(output, k) /\ FailLines(output, k) \subseteq FailLines(output, n)
    BY DEF FailLines
  <2>2. Cardinality(FailLines(output, k)) <= Cardinality(FailLines(output, n))
    BY <1>1, <2>1, FS_Subset
  <2>3. Cardinality(FailLines(output, k)) # 0
    BY <1>1, <2>1, FS_EmptySet
  <2>4. ASSUME NEW i \in FailLines(output, n), k < i
        PROVE  Cardinality(FailLines(output, k)) # Cardinality(FailLines(output, n))
    <3>1. i \notin FailLines(output, k)
      BY <2>1, <2>4 DEF FailLines
    <3> QED  BY <1>1, <2>1, <3>1, FS_Subset
  <2> QED  BY <1>1, <2>1, <2>2, <2>3, <2>4
<1>2. CASE output[n + 1].like = "fail"
  <2>1. FailLines(output, n + 1) = FailLines(output, n) \cup {n + 1} /\ n + 1 \notin FailLines(output, n)
    BY <1>2 DEF FailLines
  <2>2. Cardinality(FailLines(output, n + 1)) = Cardinality(FailLines(output, n)) + 1
    BY <1>1, <2>1, FS_AddElement
  <2> QED  BY <1>1, <1>2, <2>2, <1>4
<1>3. CASE output[n + 1].like # "fail"
  <2>1. FailLines(output, n + 1) = FailLines(output, n)
    BY <1>3 DEF FailLines
  <2> QED  BY <1>1, <1>3, <2>1, <1>4
<1> QED  BY <1>2, <1>3

\* The last of the lines that report one counts them all.
LEMMA LastFails ==
    ASSUME NEW output, NEW n \in Nat, Cardinality(FailLines(output, n)) # 0
    PROVE  \E j \in FailLines(output, n) :
              Cardinality(FailLines(output, j)) = Cardinality(FailLines(output, n))
<1>1. FailLines(output, n) \in SUBSET (1..n)
  BY DEF FailLines
<1>2. FailLines(output, n) # {}
  BY FS_EmptySet
<1>3. PICK j \in FailLines(output, n) : j = Max(FailLines(output, n))
  BY <1>1, <1>2, GreatestWithin
<1>4. \A i \in FailLines(output, n) : j >= i
  BY <1>1, <1>2, <1>3, GreatestAbove
<1>5. FailLines(output, j) = FailLines(output, n)
  BY <1>1, <1>4 DEF FailLines
<1> QED  BY <1>5

\* What has been reported up to a line is reported still after the next one.
LEMMA OneMoreLine ==
    ASSUME NEW output \in Seq(TestLine), NEW n \in Nat, n + 1 \in 1..Len(output),
           NEW acc \in Seq(FailureRecord), Reported(acc, output, n)
    PROVE  Reported(goLine(acc, output[n + 1]), output, n + 1)
<1> DEFINE l1 == output[n + 1]
           C(k) == Cardinality(FailLines(output, k))
<1>1. PICK l \in TestLine : l = output[n + 1]
  OBVIOUS
<1>2. l.name \in STRING
  BY DEF TestLine
<1>3. /\ Len(acc) = C(n) /\ C(n) \in Nat
      /\ C(n + 1) = C(n) + (IF l.like = "fail" THEN 1 ELSE 0)
      /\ \A k \in FailLines(output, n) : C(k) \in 1..C(n) /\ \A i \in FailLines(output, n) : k < i => C(k) < C(n)
  BY <1>1, FailCounts DEF Reported
<1>4. ASSUME NEW k \in FailLines(output, n), NEW p \in 1..n, LocatesBy(output, k, p, n + 1)
      PROVE  LocatesBy(output, k, p, n)
  BY <1>4 DEF LocatesBy
<1>5. CASE l.like = "fail"
  <2>1. PICK r \in FailureRecord : r = Failure(l.name, "")
    BY <1>2 DEF Failure, FailureRecord, LineNames
  <2>2. r.test = l.name
    BY <2>1 DEF Failure
  <2>3. goLine(acc, l) = Append(acc, r)
    BY <1>5, <2>1, Zenon DEF goLine
  <2>4. PICK new \in Seq(FailureRecord) : new = Append(acc, r)
    <3>1. Append(acc, r) \in Seq(FailureRecord)
      OBVIOUS
    <3> QED  BY <3>1, Zenon
  <2>5. Len(new) = C(n) + 1 /\ new[C(n) + 1] = r /\ \A j \in 1..C(n) : new[j] = acc[j]
    BY <1>3, <2>4
  <2>6. C(n + 1) = C(n) + 1
    BY <1>3, <1>5
  <2>7. ASSUME NEW k \in FailLines(output, n + 1)
        PROVE  /\ new[C(k)].test = output[k].name
               /\ \A p \in 1..(n + 1) : LocatesBy(output, k, p, n + 1) => new[C(k)].file = output[p].name
    <3>1. CASE k = n + 1
      <4>1. \A p \in 1..(n + 1) : ~LocatesBy(output, k, p, n + 1)
        BY <3>1 DEF LocatesBy
      <4> QED  BY <1>1, <2>2, <2>5, <2>6, <3>1, <4>1
    <3>2. CASE k # n + 1
      <4>1. k \in FailLines(output, n)
        BY <3>2 DEF FailLines
      <4>2. new[C(k)] = acc[C(k)]
        BY <1>3, <2>5, <4>1
      <4>3. ASSUME NEW p \in 1..(n + 1), LocatesBy(output, k, p, n + 1) PROVE new[C(k)].file = output[p].name
        <5>1. p # n + 1
          BY <1>1, <1>5, <4>3 DEF LocatesBy
        <5>2. p \in 1..n
          BY <5>1
        <5> QED  BY <1>4, <4>1, <4>2, <4>3, <5>2 DEF Reported
      <4> QED  BY <4>1, <4>2, <4>3 DEF Reported
    <3> QED  BY <3>1, <3>2
  <2>8. Reported(new, output, n + 1)
    BY <2>5, <2>6, <2>7 DEF Reported
  <2> QED  BY <1>1, <2>3, <2>4, <2>8, Zenon
<1>6. CASE l.like # "fail"
  <2>1. C(n + 1) = C(n) /\ FailLines(output, n + 1) = FailLines(output, n)
    BY <1>1, <1>3, <1>6 DEF FailLines
  <2>2. CASE l.like = "location" /\ acc # <<>>
    <3>1. C(n) \in 1..C(n) /\ acc[C(n)] \in FailureRecord /\ C(n) = Len(acc)
      BY <1>3, <2>2
    <3>2. PICK r \in FailureRecord : r = [acc[C(n)] EXCEPT !.file = l.name]
      BY <1>2, <3>1 DEF FailureRecord, LineNames
    <3>3. r.file = l.name /\ r.test = acc[C(n)].test
      BY <3>1, <3>2 DEF FailureRecord, LineNames
    <3>4. goLine(acc, l) = [acc EXCEPT ![C(n)] = r]
      BY <1>6, <2>2, <3>1, <3>2 DEF goLine
    <3>5. PICK new \in Seq(FailureRecord) : new = [acc EXCEPT ![C(n)] = r]
      <4>1. [acc EXCEPT ![C(n)] = r] \in Seq(FailureRecord)
        BY <3>1
      <4> QED  BY <4>1, Zenon
    <3>6. Len(new) = C(n) /\ new[C(n)] = r /\ \A j \in 1..C(n) : j # C(n) => new[j] = acc[j]
      BY <3>1, <3>5
    <3>7. ASSUME NEW k \in FailLines(output, n)
          PROVE  /\ new[C(k)].test = output[k].name
                 /\ \A p \in 1..(n + 1) : LocatesBy(output, k, p, n + 1) => new[C(k)].file = output[p].name
      <4>1. C(k) \in 1..C(n) /\ k \in 1..n
        BY <1>3 DEF FailLines
      <4>2. new[C(k)].test = acc[C(k)].test
        BY <3>3, <3>6, <4>1
      <4>3. ASSUME NEW p \in 1..(n + 1), LocatesBy(output, k, p, n + 1) PROVE new[C(k)].file = output[p].name
        <5>1. CASE p = n + 1
          <6>1. \A i \in FailLines(output, n) : ~(k < i)
            BY <4>1, <4>3, <5>1 DEF LocatesBy, FailLines
          <6>2. C(k) = C(n)
            <7>1. PICK j \in FailLines(output, n) : C(j) = C(n) /\ ~(k < j)
              BY <6>1, <3>1, LastFails
            <7>2. k = j \/ j < k
              BY <4>1, <7>1 DEF FailLines
            <7>3. j < k => C(j) < C(n)
              BY <1>3, <7>1
            <7> QED  BY <1>3, <7>1, <7>2, <7>3
          <6> QED  BY <1>1, <3>3, <3>6, <5>1, <6>2
        <5>2. CASE p # n + 1
          <6>1. p \in 1..n
            BY <5>2
          <6>2. PICK i \in p+1..(n + 1) : output[i].like = "fail"
            <7>1. n + 1 \in p+1..(n + 1) /\ output[n + 1].like = "location"
              BY <1>1, <2>2, <6>1
            <7> QED  BY <4>3, <7>1 DEF LocatesBy
          <6>3. k < i /\ i \in FailLines(output, n)
            BY <1>1, <1>6, <4>1, <4>3, <6>1, <6>2 DEF FailLines, LocatesBy
          <6>4. C(k) < C(n)
            BY <1>3, <6>3
          <6>5. new[C(k)] = acc[C(k)]
            BY <1>3, <3>6, <4>1, <6>4
          <6> QED  BY <1>4, <4>3, <6>1, <6>5 DEF Reported
        <5> QED  BY <5>1, <5>2
      <4>4. acc[C(k)].test = output[k].name
        BY DEF Reported
      <4> QED  BY <4>2, <4>3, <4>4
    <3> QED  BY <1>1, <2>1, <3>4, <3>5, <3>6, <3>7 DEF Reported
  <2>3. CASE ~(l.like = "location" /\ acc # <<>>)
    <3>1. goLine(acc, l) = acc
      BY <1>6, <2>3, Zenon DEF goLine
    <3>2. ASSUME NEW k \in FailLines(output, n), NEW p \in 1..(n + 1), LocatesBy(output, k, p, n + 1)
          PROVE  acc[C(k)].file = output[p].name
      <4>1. C(k) \in 1..C(n)
        BY <1>3
      <4>2. acc # <<>>
        BY <1>3, <4>1
      <4>3. p # n + 1
        BY <1>1, <2>3, <3>2, <4>2 DEF LocatesBy
      <4>4. p \in 1..n
        BY <4>3
      <4> QED  BY <1>4, <3>2, <4>4 DEF Reported
    <3> QED  BY <1>1, <1>3, <2>1, <3>1, <3>2 DEF Reported
  <2> QED  BY <2>2, <2>3
<1> QED  BY <1>5, <1>6

\* When parseGoFailures has gone through the lines, all of them are reported.
LEMMA GoParsed ==
    ASSUME NEW output \in Seq(TestLine)
    PROVE  /\ parseGoFailures(output) \in Seq(FailureRecord)
           /\ Reported(parseGoFailures(output), output, Len(output))
<1>1. PICK t : GoesThrough(t, output)
  BY GoFold
<1>2. \A n \in 0..Len(output) : t[n] \in Seq(FailureRecord)
  BY <1>1 DEF GoesThrough
<1> DEFINE Good == {n \in Nat : n <= Len(output) => Reported(t[n], output, n)}
<1>3. 0 \in Good
  <2>1. FailLines(output, 0) = {} /\ t[0] = <<>> /\ Len(<<>>) = 0
    BY <1>1 DEF FailLines, GoesThrough
  <2>2. Cardinality(FailLines(output, 0)) = 0
    BY <2>1, FS_EmptySet
  <2>3. Reported(t[0], output, 0)
    BY <2>1, <2>2 DEF Reported
  <2> QED  BY <2>3
<1>4. ASSUME NEW n \in Nat, n \in Good PROVE n + 1 \in Good
  <2> SUFFICES ASSUME n + 1 <= Len(output) PROVE Reported(t[n + 1], output, n + 1)
    OBVIOUS
  <2>1. n \in 0..Len(output) /\ n + 1 \in 1..Len(output) /\ (n + 1) - 1 = n
    OBVIOUS
  <2>2. t[n + 1] = goLine(t[n], output[n + 1])
    BY <1>1, <2>1 DEF GoesThrough
  <2>3. Reported(t[n], output, n)
    BY <1>4, <2>1
  <2> QED  BY <1>2, <2>1, <2>2, <2>3, OneMoreLine
<1>5. Nat \subseteq Good
  <2> HIDE DEF Good
  <2> QED  BY <1>3, <1>4, SetInduction
<1>6. Len(output) \in Nat /\ Len(output) \in 0..Len(output) /\ t[Len(output)] = parseGoFailures(output)
  BY <1>1 DEF GoesThrough
<1>7. Reported(t[Len(output)], output, Len(output))
  BY <1>5, <1>6
<1> QED  BY <1>2, <1>6, <1>7

LinesIter(h, output, like) ==
    h = [S \in SUBSET DOMAIN output |->
            IF S = {} THEN <<>> ELSE oneMore(like, h[S \ {Max(S)}], output[Max(S)])]

\* The lines that look like something are a sequence of lines.
LEMMA LinesTyped ==
    ASSUME NEW output \in Seq(TestLine), NEW like
    PROVE  Lines(output, like) \in Seq(TestLine)
<1> DEFINE X == Seq(TestLine)
           st == [p \in X \X TestLine |-> oneMore(like, p[1], p[2])]
<1>0. \A x \in X, l \in TestLine : oneMore(like, x, l) \in X
  BY DEF oneMore
<1>1. st \in [X \X TestLine -> X] /\ <<>> \in X
  BY <1>0
<1>2. \A x \in X, l \in TestLine : st[<<x, l>>] = oneMore(like, x, l)
  OBVIOUS
<1>3. Lines(output, like) = (CHOOSE h : LinesIter(h, output, like))[DOMAIN output]
  BY DEF Lines, FoldLeft, MapThenFoldSet, LinesIter
<1>4. DOMAIN output = 1..Len(output) /\ Len(output) \in Nat /\ \A k \in 1..Len(output) : output[k] \in TestLine
  OBVIOUS
<1> HIDE DEF st
<1>5. \E h : LinesIter(h, output, like)
  <2>1. PICK g \in [SUBSET (1..Len(output)) -> X] : Folded(g, <<>>, st, output, Len(output))
    <3> HIDE DEF X
    <3> QED  BY <1>1, FoldExists DEF HasFold
  <2>2. ASSUME NEW S \in SUBSET (1..Len(output))
        PROVE  g[S] = IF S = {} THEN <<>> ELSE oneMore(like, g[S \ {Max(S)}], output[Max(S)])
    <3>1. g[S] = IF S = {} THEN <<>> ELSE st[<<g[S \ {Max(S)}], output[Max(S)]>>]
      BY <2>1 DEF Folded
    <3>2. CASE S # {}
      <4>1. Max(S) \in S
        BY <1>4, <3>2, GreatestWithin
      <4>2. output[Max(S)] \in TestLine /\ S \ {Max(S)} \in SUBSET (1..Len(output))
        BY <1>4, <4>1
      <4>3. g[S \ {Max(S)}] \in X
        BY <2>1, <4>2
      <4> QED  BY <1>2, <3>1, <3>2, <4>2, <4>3
    <3> QED  BY <3>1, <3>2
  <2>3. LinesIter(g, output, like)
    BY <1>4, <2>1, <2>2 DEF LinesIter
  <2> QED  BY <2>3
<1>6. PICK h : LinesIter(h, output, like) /\ Lines(output, like) = h[DOMAIN output]
  BY <1>3, <1>5
<1>7. \A S \in SUBSET (1..Len(output)) : h[S] = IF S = {} THEN <<>> ELSE oneMore(like, h[S \ {Max(S)}], output[Max(S)])
  BY <1>4, <1>6 DEF LinesIter
<1> DEFINE Good == {k \in Nat : k <= Len(output) => h[1..k] \in X}
<1>8. 0 \in Good
  <2>1. 1..0 = {} /\ 1..0 \in SUBSET (1..Len(output))
    OBVIOUS
  <2>2. h[1..0] = <<>>
    BY <1>7, <2>1
  <2> QED  BY <1>1, <2>2
<1>9. ASSUME NEW k \in Nat, k \in Good PROVE k + 1 \in Good
  <2> SUFFICES ASSUME k + 1 <= Len(output) PROVE h[1..k + 1] \in X
    OBVIOUS
  <2>1. k + 1 \in 1..Len(output) /\ (k + 1) - 1 = k /\ h[1..k] \in X
    BY <1>4, <1>9
  <2>2. 1..k + 1 \in SUBSET (1..Len(output)) /\ 1..k + 1 # {} /\ (1..k + 1) \ {Max(1..k + 1)} = 1..k /\ Max(1..k + 1) = k + 1
    BY <1>4, <2>1, InitialPart
  <2>3. h[1..k + 1] = IF 1..k + 1 = {} THEN <<>> ELSE oneMore(like, h[(1..k + 1) \ {Max(1..k + 1)}], output[Max(1..k + 1)])
    BY <1>7, <2>2, Zenon
  <2>4. h[1..k + 1] = oneMore(like, h[1..k], output[k + 1])
    BY <2>2, <2>3
  <2>5. output[k + 1] \in TestLine
    BY <1>4, <2>1
  <2> HIDE DEF X
  <2> QED  BY <1>0, <2>1, <2>4, <2>5
<1>10. Nat \subseteq Good
  <2> HIDE DEF Good
  <2> QED  BY <1>8, <1>9, SetInduction
<1> QED  BY <1>4, <1>6, <1>10

\* A sequence that is cut keeps its first elements, and is not emptied.
LEMMA CutIs ==
    ASSUME NEW S, NEW f \in Seq(S), NEW limit \in Nat
    PROVE  /\ Cut(f, limit) \in Seq(S)
           /\ Len(Cut(f, limit)) = IF Len(f) > limit THEN limit ELSE Len(f)
           /\ limit # 0 /\ f # <<>> => Cut(f, limit) # <<>>
<1>1. PICK n \in Nat : n = IF Len(f) > limit THEN limit ELSE Len(f)
  OBVIOUS
<1>2. n <= Len(f) /\ (limit # 0 /\ f # <<>> => n # 0)
  BY <1>1
<1>3. PICK c : c = SubSeq(f, 1, n)
  OBVIOUS
<1>4. c \in Seq(S) /\ Len(c) = n
  BY <1>2, <1>3
<1>5. Cut(f, limit) = c
  BY <1>1, <1>3, Zenon DEF Cut
<1>6. n # 0 => c # <<>>
  BY <1>4
<1> QED  BY <1>1, <1>2, <1>4, <1>5, <1>6

FailuresOf(f, n, a) == [k \in DOMAIN f |-> Failure(n, IF a = "" THEN f[k].name ELSE a)]

\* The failures another parser finds are failures.
LEMMA FailuresTyped ==
    ASSUME NEW f \in Seq(TestLine), NEW n \in LineNames, NEW a \in LineNames
    PROVE  FailuresOf(f, n, a) \in Seq(FailureRecord)
<1>1. ASSUME NEW k \in DOMAIN f PROVE Failure(n, IF a = "" THEN f[k].name ELSE a) \in FailureRecord
  <2>1. PICK l \in TestLine : l = f[k]
    OBVIOUS
  <2>2. l.name \in STRING
    BY DEF TestLine
  <2> QED  BY <2>1, <2>2 DEF Failure, FailureRecord, LineNames
<1> DEFINE g == [k \in DOMAIN f |-> Failure(n, IF a = "" THEN f[k].name ELSE a)]
<1>2. DOMAIN f = 1..Len(f) /\ Len(f) \in Nat
  OBVIOUS
<1>3. g \in [1..Len(f) -> FailureRecord]
  BY <1>1, <1>2
<1> HIDE DEF g
<1>4. g \in Seq(FailureRecord)
  BY <1>2, <1>3
<1> QED  BY <1>4 DEF g, FailuresOf

\* What a run is parsed to: something if it said anything, and for Go what the
\* lines report.
LEMMA Parsed ==
    ASSUME NEW run, run.lines \in Seq(TestLine)
    PROVE  /\ ParseTestFailure(run).failures \in Seq(FailureRecord)
           /\ (\E k \in DOMAIN run.lines : run.lines[k].like # "blank") => ParseTestFailure(run).failures # <<>>
           /\ run.command.name = "go" /\ FailLines(run.lines, Len(run.lines)) # {}
                => ParseTestFailure(run).failures = parseGoFailures(run.lines)
<1> DEFINE output == run.lines
<1>1. /\ Lines(output, "location") \in Seq(TestLine) /\ Lines(output, "title") \in Seq(TestLine)
      /\ Lines(output, "fail") \in Seq(TestLine) /\ Lines(output, "panic") \in Seq(TestLine)
  BY LinesTyped
<1>2. ParsedLimit \in Nat
  BY RepairAssumption
<1>3. ASSUME NEW f \in Seq(TestLine) PROVE FirstName(f) \in LineNames
  <2>1. CASE f = <<>>
    BY <2>1 DEF FirstName, LineNames
  <2>2. CASE f # <<>>
    <3>1. Head(f) \in TestLine
      BY <2>2
    <3> QED  BY <2>2, <3>1 DEF FirstName, TestLine, LineNames
  <2> QED  BY <2>1, <2>2
<1>4. ASSUME NEW a \in LineNames, NEW b \in LineNames PROVE Failure(a, b) \in FailureRecord
  BY DEF Failure, FailureRecord
<1>5. ASSUME NEW like PROVE Cut(Lines(output, like), ParsedLimit) \in Seq(TestLine)
  BY <1>2, LinesTyped, CutIs
<1>6. parsePythonFailures(output) \in Seq(FailureRecord)
  <2>1. PICK f \in Seq(TestLine) : f = Cut(Lines(output, "location"), ParsedLimit)
    BY <1>5
  <2>2. PICK n \in LineNames : n = FirstName(Lines(output, "title"))
    BY <1>1, <1>3
  <2>3. FailuresOf(f, n, "") \in Seq(FailureRecord)
    <3>1. "" \in LineNames
      BY DEF LineNames
    <3> QED  BY <3>1, FailuresTyped
  <2> QED  BY <2>1, <2>2, <2>3 DEF parsePythonFailures, FailuresOf
<1>7. parseRustFailures(output) \in Seq(FailureRecord)
  <2>1. PICK f \in Seq(TestLine) : f = Cut(Lines(output, "panic"), ParsedLimit)
    BY <1>5
  <2>3. \A k \in DOMAIN f : Failure(f[k].name, f[k].name) \in FailureRecord
    <3>1. \A k \in DOMAIN f : f[k] \in TestLine
      OBVIOUS
    <3>2. \A k \in DOMAIN f : f[k].name \in STRING
      BY <3>1 DEF TestLine
    <3>3. \A k \in DOMAIN f : f[k].name \in LineNames
      BY <3>2 DEF LineNames
    <3> QED  BY <1>4, <3>3
  <2>4. [k \in DOMAIN f |-> Failure(f[k].name, f[k].name)] \in Seq(FailureRecord)
    BY <2>3
  <2> QED  BY <2>1, <2>4, Zenon DEF parseRustFailures
<1>8. parseNodeFailures(output) \in Seq(FailureRecord)
  <2>1. PICK f \in Seq(TestLine) : f = Cut(Lines(output, "fail"), ParsedLimit)
    BY <1>5
  <2>2. PICK a \in LineNames : a = FirstName(Lines(output, "location"))
    BY <1>1, <1>3
  <2>3. PICK n \in LineNames : n = FirstName(Lines(output, "title"))
    BY <1>1, <1>3
  <2>5. FailuresOf(f, n, a) \in Seq(FailureRecord)
    BY FailuresTyped
  <2>6. PICK r \in FailureRecord : r = Failure(n, a)
    BY <1>4
  <2>7. <<>> \in Seq(FailureRecord) /\ <<r>> \in Seq(FailureRecord)
    OBVIOUS
  <2>8. parseNodeFailures(output) =
           IF f = <<>> THEN IF a = "" THEN <<>> ELSE <<r>>
           ELSE FailuresOf(f, n, a)
    BY <2>1, <2>2, <2>3, <2>6, Zenon DEF parseNodeFailures, FailuresOf
  <2> QED  BY <2>5, <2>7, <2>8, Zenon
<1>9. parseGenericFailures(output) \in Seq(FailureRecord)
        /\ ((\E k \in DOMAIN output : output[k].like # "blank") => parseGenericFailures(output) # <<>>)
  <2>1. PICK r \in FailureRecord : r = Failure("", "")
    <3>1. "" \in LineNames
      BY DEF LineNames
    <3> QED  BY <1>4, <3>1
  <2>2. <<r>> \in Seq(FailureRecord) /\ <<r>> # <<>> /\ <<>> \in Seq(FailureRecord)
    OBVIOUS
  <2>3. parseGenericFailures(output) = IF \A k \in DOMAIN output : output[k].like = "blank" THEN <<>> ELSE <<r>>
    BY <2>1, Zenon DEF parseGenericFailures
  <2> QED  BY <2>2, <2>3, Zenon
<1>10. parseGoFailures(output) \in Seq(FailureRecord) /\ Reported(parseGoFailures(output), output, Len(output))
  BY GoParsed
<1> DEFINE lang == languageFromCommand(run.command)
<1>11. PICK reported \in Seq(FailureRecord) :
          /\ reported = CASE lang = "go" -> parseGoFailures(output)
                       [] lang = "python" -> parsePythonFailures(output)
                       [] lang = "javascript" -> parseNodeFailures(output)
                       [] lang = "rust" -> parseRustFailures(output)
                       [] OTHER -> <<>>
          /\ lang = "go" => reported = parseGoFailures(output)
  <2>1. <<>> \in Seq(FailureRecord)
    OBVIOUS
  <2> HIDE DEF lang, output
  <2> QED  BY <1>6, <1>7, <1>8, <1>10, <2>1
<1>12. ParseTestFailure(run).failures = IF reported = <<>> THEN parseGenericFailures(output) ELSE reported
  BY <1>11 DEF ParseTestFailure
<1>13. run.command.name = "go" => lang = "go"
  BY DEF languageFromCommand
<1>14. ASSUME FailLines(output, Len(output)) # {} PROVE parseGoFailures(output) # <<>>
  <2>1. Cardinality(FailLines(output, Len(output))) # 0
    <3>1. Len(output) \in Nat
      OBVIOUS
    <3>2. IsFiniteSet(FailLines(output, Len(output)))
      BY <3>1, FailCounts
    <3> QED  BY <1>14, <3>2, FS_EmptySet
  <2> QED  BY <1>10, <2>1 DEF Reported
<1> HIDE DEF output, lang
<1> QED  BY <1>9, <1>11, <1>12, <1>13, <1>14 DEF output

\* A sequence of whatever it holds.
IsSeq(f) == f \in Seq(Range(f))
FailedOf(runs) == Cardinality({k \in DOMAIN runs : ~runs[k].passed})

\* A sequence of anything is a sequence of what it holds.
LEMMA SeqIs ==
    ASSUME NEW S, NEW f \in Seq(S)
    PROVE  IsSeq(f)
<1>1. \A k \in 1..Len(f) : f[k] \in Range(f)
  BY DEF Range
<1> QED  BY <1>1 DEF IsSeq

\* Append to a sequence of whatever it holds.
LEMMA OneMore ==
    ASSUME NEW f, IsSeq(f), NEW x
    PROVE  /\ IsSeq(Append(f, x)) /\ Append(f, x) # <<>>
           /\ Len(f) \in Nat /\ Len(Append(f, x)) = Len(f) + 1 /\ Last(Append(f, x)) = x
           /\ DOMAIN f = 1..Len(f) /\ DOMAIN Append(f, x) = 1..(Len(f) + 1)
           /\ Append(f, x)[Len(f) + 1] = x /\ \A k \in 1..Len(f) : Append(f, x)[k] = f[k]
<1> DEFINE S == Range(f) \cup {x}
<1>1. f \in Seq(S)
  BY DEF IsSeq
<1>2. x \in S
  OBVIOUS
<1> HIDE DEF S
<1>3. PICK g \in Seq(S) : g = Append(f, x)
  <2>1. Append(f, x) \in Seq(S)
    BY <1>1, <1>2
  <2> QED  BY <2>1, Zenon
<1>4. /\ Len(f) \in Nat /\ Len(g) = Len(f) + 1 /\ DOMAIN f = 1..Len(f) /\ DOMAIN g = 1..(Len(f) + 1)
      /\ g[Len(f) + 1] = x /\ \A k \in 1..Len(f) : g[k] = f[k]
  BY <1>1, <1>2, <1>3
<1>5. Last(g) = x /\ g # <<>>
  BY <1>4 DEF Last
<1>6. IsSeq(g)
  BY <1>3, SeqIs
<1> QED  BY <1>3, <1>4, <1>5, <1>6, Zenon

\* One more run is one more failed run, or none if it passed.
LEMMA FailedCounts ==
    ASSUME NEW runs, IsSeq(runs), NEW run
    PROVE  /\ FailedOf(runs) \in Nat
           /\ FailedOf(Append(runs, run)) = FailedOf(runs) + (IF run.passed THEN 0 ELSE 1)
<1> DEFINE F == {k \in DOMAIN runs : ~runs[k].passed}
           g == Append(runs, run)
           G == {k \in DOMAIN g : ~g[k].passed}
<1>1. /\ Len(runs) \in Nat /\ DOMAIN runs = 1..Len(runs) /\ DOMAIN g = 1..(Len(runs) + 1)
      /\ g[Len(runs) + 1] = run /\ \A k \in 1..Len(runs) : g[k] = runs[k]
  BY OneMore
<1> HIDE DEF g
<1>2. IsFiniteSet(F) /\ Cardinality(F) \in Nat
  <2>1. IsFiniteSet(1..Len(runs)) /\ F \subseteq 1..Len(runs)
    BY <1>1, FS_Interval
  <2> QED  BY <2>1, FS_Subset, FS_CardinalityType
<1>5. FailedOf(runs) = Cardinality(F) /\ FailedOf(g) = Cardinality(G)
  BY DEF FailedOf
<1>3. CASE run.passed
  <2>1. G = F
    BY <1>1, <1>3
  <2> HIDE DEF F, G
  <2> QED  BY <1>2, <1>3, <1>5, <2>1 DEF g
<1>4. CASE ~run.passed
  <2>1. G = F \cup {Len(runs) + 1} /\ Len(runs) + 1 \notin F
    BY <1>1, <1>4
  <2>2. Cardinality(G) = Cardinality(F) + 1
    <3> HIDE DEF F, G
    <3> QED  BY <1>2, <2>1, FS_AddElement
  <2> HIDE DEF F, G
  <2> QED  BY <1>2, <1>4, <1>5, <2>2 DEF g
<1> QED  BY <1>3, <1>4

\* The caller has all that it was handed, and it counts.
AllInHand ==
    /\ IsSeq(carried.runs) /\ IsSeq(carried.history) /\ carried.rejected \in BOOLEAN /\ carried.lost \in BOOLEAN
    /\ repaired = NoResult \/ carried.rejected => Len(carried.runs) = executed_
    /\ ~carried.lost => Len(carried.history) = FailedOf(carried.runs)
    /\ executed_ \in Nat
Returned ==
    /\ repaired # NoResult => repaired.reason # "none"
    /\ repaired.reason = "waiting_for_patch_proposal" =>
          IsSeq(repaired.runs) /\ IsSeq(repaired.history) /\ IsSeq(repaired.failures)
    /\ repaired.reason = "tests_passed" => lastOutcome.exit = 0 /\ ~lastOutcome.timedOut
    /\ repaired.reason \notin {"none", "error"} => repaired.passed = (repaired.reason = "tests_passed")

RepairInv == AllInHand /\ Returned /\ RepairIsSound

\* What FailuresAreFound says of a run and of what it was parsed to.
FoundIn(run, failures, parsed) ==
    LET failed == {k \in DOMAIN run.lines : run.lines[k].like = "fail"}
    IN  /\ (\E k \in DOMAIN run.lines : run.lines[k].like # "blank") => failures # <<>>
        /\ run.command.name = "go" /\ failed # {} =>
             /\ Len(failures) = IF Cardinality(failed) > ContextLimit THEN ContextLimit
                                ELSE Cardinality(failed)
             /\ \A k \in failed : \E f \in Range(parsed.failures) :
                  /\ f.test = run.lines[k].name
                  /\ \A l \in DOMAIN run.lines : Locates(run.lines, k, l) => f.file = run.lines[l].name

\* One call that runs the tests.
LEMMA RunKeeps ==
    ASSUME RepairInv, repaired = NoResult, NEW c, NEW limit \in Nat, limit <= LoopLimit,
           NEW iteration, iteration = Len(carried.runs) + 1, ~(carried.rejected \/ iteration > limit),
           NEW o \in TestOutcomes, NEW run, run = TestRun(c, o), lastOutcome' = o, executed_' = executed_ + 1,
           NEW parsed, parsed = ParseTestFailure(run), carried' = carried,
           repaired' =
              IF run.passed
              THEN Result("tests_passed", iteration, limit, Append(carried.runs, run), carried.history, <<>>)
              ELSE Result(IF iteration >= limit THEN "max_iterations_reached" ELSE "waiting_for_patch_proposal",
                          iteration, limit, Append(carried.runs, run), Append(carried.history, parsed),
                          Cut(parsed.failures, ContextLimit))
    PROVE  RepairInv'
<1> DEFINE runs == Append(carried.runs, run)
           history == Append(carried.history, parsed)
           failures == Cut(parsed.failures, ContextLimit)
<1>1. /\ IsSeq(carried.runs) /\ IsSeq(carried.history) /\ carried.rejected \in BOOLEAN
      /\ Len(carried.runs) = executed_ /\ executed_ \in Nat
      /\ (~carried.lost => Len(carried.history) = FailedOf(carried.runs))
  BY DEF RepairInv, AllInHand
<1>2. /\ o.exit \in Int /\ o.timedOut \in BOOLEAN /\ o.lines \in Seq(TestLine)
      /\ OutputLimit \in Nat /\ ContextLimit \in Nat \ {0} /\ LoopLimit \in Nat
  BY RepairAssumption DEF TestLine
<1>3. run.lines \in Seq(TestLine) /\ run.command = c /\ (run.passed <=> o.exit = 0 /\ ~o.timedOut)
  BY <1>2, CutIs DEF TestRun, truncateBytes
<1>4. /\ IsSeq(runs) /\ Len(runs) = executed_ + 1 /\ Last(runs) = run
      /\ FailedOf(runs) = FailedOf(carried.runs) + (IF run.passed THEN 0 ELSE 1) /\ FailedOf(carried.runs) \in Nat
  BY <1>1, OneMore, FailedCounts
<1>5. IsSeq(history) /\ Len(history) = Len(carried.history) + 1 /\ Last(history) = parsed
        /\ Len(carried.history) \in Nat
  BY <1>1, OneMore
<1>6. /\ parsed.failures \in Seq(FailureRecord)
      /\ (\E k \in DOMAIN run.lines : run.lines[k].like # "blank") => parsed.failures # <<>>
      /\ run.command.name = "go" /\ FailLines(run.lines, Len(run.lines)) # {}
            => parsed.failures = parseGoFailures(run.lines)
  BY <1>3, Parsed
<1>7. /\ failures \in Seq(FailureRecord) /\ IsSeq(failures)
      /\ Len(failures) = IF Len(parsed.failures) > ContextLimit THEN ContextLimit ELSE Len(parsed.failures)
      /\ parsed.failures # <<>> => failures # <<>>
  BY <1>2, <1>6, CutIs, SeqIs
<1> HIDE DEF runs, history, failures
<1>8. carried.rejected = FALSE /\ iteration <= limit /\ iteration = executed_ + 1 /\ iteration \in Nat
  BY <1>1, <1>2
<1>9. executed_' \in Nat /\ executed_' <= LoopLimit
  BY <1>1, <1>2, <1>8
<1>12. ASSUME repaired' # NoResult PROVE AllInHand'
  <2>1. FailedOf(carried.runs)' = FailedOf(carried.runs) /\ IsSeq(carried.runs)' /\ IsSeq(carried.history)'
    BY <1>1 DEF FailedOf, IsSeq, Range
  <2>2. carried'.rejected = FALSE /\ carried'.lost \in BOOLEAN
    BY <1>8 DEF RepairInv, AllInHand
  <2>3. ~carried'.lost => Len(carried'.history) = FailedOf(carried.runs)'
    BY <1>1, <2>1
  <2>4. carried'.rejected \in BOOLEAN /\ executed_' \in Nat
    BY <1>9, <2>2
  <2> QED  BY <1>12, <2>1, <2>2, <2>3, <2>4, Zenon DEF AllInHand
<1>10. CASE run.passed
  <2>1. repaired' = [reason |-> "tests_passed", passed |-> TRUE, iterations |-> iteration, limit |-> limit,
                     runs |-> runs, history |-> carried.history, failures |-> <<>>]
    BY <1>10 DEF Result, runs
  <2>2. /\ repaired'.reason = "tests_passed" /\ repaired'.passed = TRUE /\ repaired'.runs = runs
        /\ repaired'.history = carried.history /\ repaired' # NoResult
    <3>1. repaired'.reason # NoResult.reason
      BY <2>1 DEF NoResult
    <3> QED  BY <2>1, <3>1
  <2>3. AllInHand'
    BY <1>12, <2>2
  <2>4. Returned'
    BY <1>3, <1>10, <2>2 DEF Returned
  <2>5. LoopIsBounded'
    BY <1>8, <1>9, <2>2 DEF LoopIsBounded
  <2>6. LoopTellsTheTruth'
    <3>1. ~carried.lost => Len(carried.history) = FailedOf(runs)
      BY <1>1, <1>4, <1>10
    <3> QED  BY <1>1, <1>3, <1>4, <1>10, <2>2, <3>1 DEF LoopTellsTheTruth, FailedOf
  <2>7. FailuresAreFound'
    BY <2>2 DEF FailuresAreFound
  <2> QED  BY <2>3, <2>4, <2>5, <2>6, <2>7 DEF RepairInv, RepairIsSound
<1>11. CASE ~run.passed
  <2> DEFINE why == IF iteration >= limit THEN "max_iterations_reached" ELSE "waiting_for_patch_proposal"
  <2>1. repaired' = [reason |-> why, passed |-> FALSE, iterations |-> iteration, limit |-> limit,
                     runs |-> runs, history |-> history, failures |-> failures]
    BY <1>11 DEF Result, runs, history, failures
  <2>2. /\ repaired'.reason = why /\ repaired'.passed = FALSE /\ repaired'.runs = runs
        /\ repaired'.history = history /\ repaired'.failures = failures
        /\ repaired'.iterations = iteration /\ repaired'.limit = limit /\ repaired' # NoResult
    <3>1. repaired'.reason # NoResult.reason
      BY <2>1 DEF NoResult
    <3> QED  BY <2>1, <3>1
  <2>3. AllInHand'
    BY <1>12, <2>2
  <2>4. Returned'
    BY <1>4, <1>5, <1>7, <2>2 DEF Returned
  <2>5. LoopIsBounded'
    BY <1>8, <1>9, <2>2 DEF LoopIsBounded
  <2>6. LoopTellsTheTruth'
    <3>1. ~carried.lost => Len(history) = FailedOf(runs)
      BY <1>1, <1>4, <1>5, <1>11
    <3> QED  BY <1>4, <2>2, <3>1 DEF LoopTellsTheTruth, FailedOf
  <2>7. FailuresAreFound'
    <3> DEFINE output == run.lines
    <3>1. FailLines(output, Len(output)) = {k \in DOMAIN output : output[k].like = "fail"} /\ Len(output) \in Nat
            /\ DOMAIN output = 1..Len(output)
      BY <1>3 DEF FailLines
    <3>2. Reported(parseGoFailures(output), output, Len(output)) /\ parseGoFailures(output) \in Seq(FailureRecord)
      BY <1>3, GoParsed
    <3>3. ASSUME run.command.name = "go", FailLines(output, Len(output)) # {}
          PROVE  /\ Len(failures) = IF Cardinality(FailLines(output, Len(output))) > ContextLimit THEN ContextLimit
                                    ELSE Cardinality(FailLines(output, Len(output)))
                 /\ \A k \in FailLines(output, Len(output)) : \E f \in Range(parsed.failures) :
                      /\ f.test = output[k].name
                      /\ \A l \in DOMAIN output : Locates(output, k, l) => f.file = output[l].name
      <4>1. parsed.failures = parseGoFailures(output)
        BY <1>6, <3>3
      <4>2. Len(parsed.failures) = Cardinality(FailLines(output, Len(output)))
        BY <3>2, <4>1 DEF Reported
      <4>3. ASSUME NEW k \in FailLines(output, Len(output))
            PROVE  \E f \in Range(parsed.failures) :
                      /\ f.test = output[k].name
                      /\ \A l \in DOMAIN output : Locates(output, k, l) => f.file = output[l].name
        <5>1. PICK j : j = Cardinality(FailLines(output, k))
          OBVIOUS
        <5>2. j \in 1..Len(parsed.failures)
          BY <3>1, <4>2, <5>1, FailCounts
        <5>3. parsed.failures[j] \in Range(parsed.failures)
          BY <1>6, <5>2 DEF Range
        <5>4. parsed.failures[j].test = output[k].name
          BY <3>2, <4>1, <5>1 DEF Reported
        <5>5. \A l \in DOMAIN output : Locates(output, k, l) => parsed.failures[j].file = output[l].name
          <6> SUFFICES ASSUME NEW l \in DOMAIN output, Locates(output, k, l)
                       PROVE  parsed.failures[j].file = output[l].name
            OBVIOUS
          <6>1. LocatesBy(output, k, l, Len(output)) /\ l \in 1..Len(output)
            BY <3>1 DEF Locates, LocatesBy
          <6> QED  BY <3>2, <4>1, <5>1, <6>1 DEF Reported
        <5> QED  BY <5>3, <5>4, <5>5
      <4> QED  BY <1>7, <4>2, <4>3
    <3> HIDE DEF output
    <3>4. Last(repaired'.runs) = run /\ Last(repaired'.history) = parsed
      BY <1>4, <1>5, <2>2
    <3>5. (\E k \in DOMAIN output : output[k].like # "blank") => failures # <<>>
      BY <1>6, <1>7 DEF output
    <3>6. FoundIn(run, failures, parsed)
      BY <3>1, <3>3, <3>5 DEF FoundIn, output
    <3>7. FailuresAreFound' = (repaired'.reason = "waiting_for_patch_proposal"
                                  => FoundIn(Last(repaired'.runs), repaired'.failures, Last(repaired'.history)))
      BY Zenon DEF FailuresAreFound, FoundIn
    <3> QED  BY <2>2, <3>4, <3>6, <3>7, Zenon
  <2> QED  BY <2>3, <2>4, <2>5, <2>6, <2>7 DEF RepairInv, RepairIsSound
<1> QED  BY <1>10, <1>11

\* One call that is told to stop, or has come to its limit before.
LEMMA StopKeeps ==
    ASSUME RepairInv, repaired = NoResult, NEW limit \in Nat, NEW iteration, iteration = Len(carried.runs) + 1,
           carried.rejected \/ iteration > limit,
           repaired' = Result(IF carried.rejected THEN "approval_rejected" ELSE "max_iterations_reached",
                              Len(carried.runs), limit, carried.runs, carried.history, <<>>),
           UNCHANGED <<carried, executed_, lastOutcome>>
    PROVE  RepairInv'
<1> DEFINE why == IF carried.rejected THEN "approval_rejected" ELSE "max_iterations_reached"
<1>1. repaired' = [reason |-> why, passed |-> FALSE, iterations |-> Len(carried.runs), limit |-> limit,
                   runs |-> carried.runs, history |-> carried.history, failures |-> <<>>]
  BY DEF Result
<1>2. /\ repaired'.reason = why /\ repaired'.passed = FALSE /\ repaired'.runs = carried.runs
      /\ repaired'.history = carried.history /\ repaired'.iterations = Len(carried.runs) /\ repaired'.limit = limit
      /\ repaired' # NoResult
  <2>1. repaired'.reason # NoResult.reason
    BY <1>1 DEF NoResult
  <2> QED  BY <1>1, <2>1
<1>3. /\ Len(carried.runs) = executed_ /\ executed_ \in Nat /\ executed_ <= LoopLimit
      /\ ~carried.lost => Len(carried.history) = FailedOf(carried.runs)
  BY DEF RepairInv, AllInHand, RepairIsSound, LoopIsBounded
<1>4. carried' = carried /\ executed_' = executed_
  OBVIOUS
<1>5. AllInHand'
  <2>1. FailedOf(carried.runs)' = FailedOf(carried.runs) /\ IsSeq(carried.runs)' = IsSeq(carried.runs)
          /\ IsSeq(carried.history)' = IsSeq(carried.history)
    BY <1>4 DEF FailedOf, IsSeq, Range
  <2>2. carried.rejected \in BOOLEAN /\ carried.lost \in BOOLEAN /\ IsSeq(carried.runs) /\ IsSeq(carried.history)
    BY DEF RepairInv, AllInHand
  <2> QED  BY <1>2, <1>3, <1>4, <2>1, <2>2 DEF AllInHand
<1>6. Returned'
  BY <1>2 DEF Returned
<1>7. LoopIsBounded'
  BY <1>2, <1>3, <1>4 DEF LoopIsBounded
<1>8. LoopTellsTheTruth'
  BY <1>2, <1>3, <1>4 DEF LoopTellsTheTruth, FailedOf
<1>9. FailuresAreFound'
  BY <1>2 DEF FailuresAreFound
<1> QED  BY <1>5, <1>6, <1>7, <1>8, <1>9 DEF RepairInv, RepairIsSound

\* One call that finds no command that it may run.
LEMMA ErrorKeeps ==
    ASSUME RepairInv, repaired = NoResult, ~carried.rejected, repaired' = [reason |-> "error"],
           UNCHANGED <<carried, executed_, lastOutcome>>
    PROVE  RepairInv'
<1>1. repaired'.reason = "error" /\ repaired' # NoResult
  <2>1. repaired'.reason # NoResult.reason
    BY DEF NoResult
  <2> QED  BY <2>1
<1>2. carried' = carried /\ executed_' = executed_
  OBVIOUS
<1>3. AllInHand'
  <2>1. FailedOf(carried.runs)' = FailedOf(carried.runs) /\ IsSeq(carried.runs)' = IsSeq(carried.runs)
          /\ IsSeq(carried.history)' = IsSeq(carried.history)
    BY <1>2 DEF FailedOf, IsSeq, Range
  <2> QED  BY <1>1, <1>2, <2>1 DEF RepairInv, AllInHand
<1>4. Returned'
  BY <1>1 DEF Returned
<1>5. LoopIsBounded'
  BY <1>1, <1>2 DEF LoopIsBounded, RepairInv, RepairIsSound
<1>6. LoopTellsTheTruth' /\ FailuresAreFound'
  BY <1>1 DEF LoopTellsTheTruth, FailuresAreFound
<1> QED  BY <1>3, <1>4, <1>5, <1>6 DEF RepairInv, RepairIsSound

\* A call of the loop keeps RepairInv: it is refused, stops, runs the tests or fails.
LEMMA CallKeeps ==
    ASSUME RepairInv, repaired = NoResult, NEW asked, NEW wanted \in Int, NEW said,
           said = 0 \/ said = Len(carried.runs) + 1, FixTestFailureLoop(asked, wanted, said)
    PROVE  RepairInv'
<1>1. PICK limit \in Nat : limit = clampIterations(wanted) /\ limit <= LoopLimit
  BY RepairAssumption DEF clampIterations
<1>2. Len(carried.runs) \in Nat
  BY OneMore DEF RepairInv, AllInHand
<1>3. PICK iteration \in Nat : iteration = nextIteration(said, carried.runs) /\ iteration = Len(carried.runs) + 1
  BY <1>2 DEF nextIteration
<1>4. PICK c : c = testCommand(asked, project)
  OBVIOUS
<1> DEFINE stops == carried.rejected \/ iteration > limit
           Runs(o) == LET run == TestRun(c, o)
                          runs == Append(carried.runs, run)
                          parsed == ParseTestFailure(run)
                      IN  /\ lastOutcome' = o /\ executed_' = executed_ + 1
                          /\ repaired' =
                               IF run.passed
                               THEN Result("tests_passed", iteration, limit, runs, carried.history, <<>>)
                               ELSE Result(IF iteration >= limit THEN "max_iterations_reached"
                                           ELSE "waiting_for_patch_proposal",
                                           iteration, limit, runs, Append(carried.history, parsed),
                                           Cut(parsed.failures, ContextLimit))
<1>5. carried' = carried
  BY Zenon DEF FixTestFailureLoop
<1>6. \/ stops /\ repaired' = Result(IF carried.rejected THEN "approval_rejected" ELSE "max_iterations_reached",
                                     Len(carried.runs), limit, carried.runs, carried.history, <<>>)
               /\ UNCHANGED <<executed_, lastOutcome>>
      \/ ~stops /\ \E o \in TestOutcomes : Runs(o)
      \/ ~stops /\ repaired' = [reason |-> "error"] /\ UNCHANGED <<executed_, lastOutcome>>
  BY <1>1, <1>3, <1>4, Zenon DEF FixTestFailureLoop
<1>7. CASE stops /\ repaired' = Result(IF carried.rejected THEN "approval_rejected" ELSE "max_iterations_reached",
                                     Len(carried.runs), limit, carried.runs, carried.history, <<>>)
               /\ UNCHANGED <<executed_, lastOutcome>>
  BY <1>3, <1>5, <1>7, StopKeeps
<1>8. ASSUME ~stops, NEW o \in TestOutcomes, Runs(o) PROVE RepairInv'
  BY <1>1, <1>3, <1>5, <1>8, RunKeeps
<1>9. CASE ~stops /\ repaired' = [reason |-> "error"] /\ UNCHANGED <<executed_, lastOutcome>>
  BY <1>5, <1>9, ErrorKeeps
<1> QED  BY <1>6, <1>7, <1>8, <1>9

\* Handing the state back keeps RepairInv: the caller returns what it was given.
LEMMA HandBackKeeps ==
    ASSUME RepairInv, NEW applied \in BOOLEAN, NEW all \in BOOLEAN, HandBack(applied, all)
    PROVE  RepairInv'
<1>1. /\ repaired.reason = "waiting_for_patch_proposal" /\ repaired' = NoResult /\ executed_' = executed_
      /\ carried' = [runs |-> repaired.runs, rejected |-> ~applied,
                     history |-> IF all THEN repaired.failures ELSE repaired.history,
                     lost |-> carried.lost \/ all]
  BY DEF HandBack
<1>2. /\ IsSeq(repaired.runs) /\ IsSeq(repaired.history) /\ IsSeq(repaired.failures)
      /\ Len(repaired.runs) = executed_ /\ (~carried.lost => Len(repaired.history) = FailedOf(repaired.runs))
      /\ executed_ \in Nat /\ executed_ <= LoopLimit /\ carried.lost \in BOOLEAN
  BY <1>1 DEF RepairInv, Returned, AllInHand, RepairIsSound, LoopTellsTheTruth, LoopIsBounded, FailedOf
<1>3. /\ carried'.runs = repaired.runs /\ carried'.rejected = ~applied
      /\ carried'.history = (IF all THEN repaired.failures ELSE repaired.history)
      /\ carried'.lost = (carried.lost \/ all)
  BY <1>1
<1>4. NoResult.reason = "none"
  BY DEF NoResult
<1>5. AllInHand'
  <2>1. FailedOf(carried.runs)' = FailedOf(repaired.runs) /\ IsSeq(carried.runs)'
    BY <1>2, <1>3 DEF FailedOf, IsSeq, Range
  <2>2. IsSeq(carried.history)'
    BY <1>2, <1>3 DEF IsSeq, Range
  <2>3. ~carried'.lost => Len(carried'.history) = FailedOf(carried.runs)'
    BY <1>2, <1>3, <2>1
  <2> QED  BY <1>1, <1>2, <1>3, <2>1, <2>2, <2>3 DEF AllInHand
<1>6. Returned' /\ LoopTellsTheTruth' /\ FailuresAreFound'
  BY <1>1, <1>4 DEF Returned, LoopTellsTheTruth, FailuresAreFound
<1>7. LoopIsBounded'
  BY <1>1, <1>2, <1>3, <1>4 DEF LoopIsBounded
<1> QED  BY <1>5, <1>6, <1>7 DEF RepairInv, RepairIsSound

\* Before the first call there is nothing to be wrong about.
LEMMA FreshIs ==
    ASSUME carried = EmptyState, repaired = NoResult, executed_ = 0
    PROVE  RepairInv
<1>1. /\ carried.runs = <<>> /\ carried.history = <<>> /\ carried.rejected = FALSE /\ carried.lost = FALSE
  BY DEF EmptyState
<1>2. repaired.reason = "none"
  BY DEF NoResult
<1>3. IsSeq(<<>>) /\ Len(<<>>) = 0
  BY DEF IsSeq
<1>4. FailedOf(<<>>) = 0
  <2>1. {k \in DOMAIN <<>> : ~<<>>[k].passed} = {}
    OBVIOUS
  <2> QED  BY <2>1, FS_EmptySet DEF FailedOf
<1>5. AllInHand
  BY <1>1, <1>3, <1>4 DEF AllInHand
<1>6. Returned /\ LoopTellsTheTruth /\ FailuresAreFound
  BY <1>2 DEF Returned, LoopTellsTheTruth, FailuresAreFound
<1>7. LoopIsBounded
  BY <1>1, <1>2, RepairAssumption DEF LoopIsBounded
<1> QED  BY <1>5, <1>6, <1>7 DEF RepairInv, RepairIsSound

\* And where a call begins anew.
LEMMA FreshNext ==
    ASSUME carried' = EmptyState, repaired' = NoResult, executed_' = 0
    PROVE  RepairInv'
<1>1. /\ carried'.runs = <<>> /\ carried'.history = <<>> /\ carried'.rejected = FALSE /\ carried'.lost = FALSE
  BY DEF EmptyState
<1>2. repaired'.reason = "none"
  BY DEF NoResult
<1>3. IsSeq(<<>>) /\ Len(<<>>) = 0
  BY DEF IsSeq
<1>4. FailedOf(<<>>) = 0
  <2>1. {k \in DOMAIN <<>> : ~<<>>[k].passed} = {}
    OBVIOUS
  <2> QED  BY <2>1, FS_EmptySet DEF FailedOf
<1>5. AllInHand'
  BY <1>1, <1>3, <1>4 DEF AllInHand
<1>6. Returned' /\ LoopTellsTheTruth' /\ FailuresAreFound'
  BY <1>2 DEF Returned, LoopTellsTheTruth, FailuresAreFound
<1>7. LoopIsBounded'
  BY <1>1, <1>2, RepairAssumption DEF LoopIsBounded
<1> QED  BY <1>5, <1>6, <1>7 DEF RepairInv, RepairIsSound

\* RepairInv holds in every state of the loop.
THEOREM RepairInvariant == RepairSpec => []RepairInv
<1>1. RepairInit => RepairInv
  BY FreshIs DEF RepairInit
<1>2. RepairInv /\ [RepairNext]_repairVars => RepairInv'
  <2> SUFFICES ASSUME RepairInv, [RepairNext]_repairVars PROVE RepairInv'
    OBVIOUS
  <2>1. ASSUME repaired = NoResult, NEW asked, NEW wanted \in Wanted, FixTestFailureLoop(asked, wanted, 0)
        PROVE  RepairInv'
    BY <2>1, CallKeeps, RepairAssumption
  <2>2. CASE repaired = NoResult /\ FixTestFailureLoop(NoCommand, LoopLimit, Len(carried.runs) + 1)
    BY <2>2, CallKeeps, RepairAssumption
  <2>3. ASSUME NEW applied \in BOOLEAN, NEW all \in BOOLEAN, HandBack(applied, all) PROVE RepairInv'
    BY <2>3, HandBackKeeps
  <2>4. CASE BeginAnew
    <3>1. (carried = EmptyState)' /\ (repaired = NoResult)' /\ executed_' = 0
      BY <2>4 DEF BeginAnew, EmptyState, NoResult
    <3> QED  BY <3>1, FreshNext
  <2>5. CASE UNCHANGED repairVars
    <3>1. carried' = carried /\ repaired' = repaired /\ executed_' = executed_ /\ lastOutcome' = lastOutcome
      BY <2>5 DEF repairVars
    <3>2. AllInHand'
      BY <3>1 DEF RepairInv, AllInHand, IsSeq, Range, FailedOf
    <3>3. Returned'
      BY <3>1 DEF RepairInv, Returned, IsSeq, Range
    <3>4. LoopIsBounded' /\ LoopTellsTheTruth'
      BY <3>1 DEF RepairInv, RepairIsSound, LoopIsBounded, LoopTellsTheTruth
    <3>5. FailuresAreFound'
      BY <3>1 DEF RepairInv, RepairIsSound, FailuresAreFound, Locates
    <3> QED  BY <3>2, <3>3, <3>4, <3>5 DEF RepairInv, RepairIsSound
  <2> QED  BY <2>1, <2>2, <2>3, <2>4, <2>5 DEF RepairNext
<1> QED  BY <1>1, <1>2, PTL DEF RepairSpec

\* The repair loop runs its tests no more often than it may and never after a
\* rejected patch, says truly how they ended and what it has counted, and
\* hands back what failed: every failed test of Go, with the last place that
\* is named for it (test_runner.go: FixTestFailureLoopExecutor.Execute and the
\* parsers), whatever the tests put out and whatever the limits are.
THEOREM RepairsSound == RepairSpec => []RepairIsSound
<1>1. RepairInv => RepairIsSound
  BY DEF RepairInv
<1> QED  BY <1>1, RepairInvariant, PTL

RepairReasons == {"none", "error", "tests_passed", "approval_rejected",
                  "max_iterations_reached", "waiting_for_patch_proposal"}
\* Every run of the tests is one of a call.
RunsCounted == Len(carried.runs) <= executed_ /\ executed_ <= repairs
RepairRest ==
    /\ project \in Projects /\ repairs \in 0..MaxRepairCalls
    /\ repaired.reason \in RepairReasons /\ RunsCounted

\* A call counts, runs the tests at most once, and says why it returns.
LEMMA CallCounted ==
    ASSUME RepairInv, RepairRest, NEW asked, NEW wanted, NEW said,
           FixTestFailureLoop(asked, wanted, said)
    PROVE  RepairRest'
<1>1. /\ repairs < MaxRepairCalls /\ repairs' = repairs + 1 /\ UNCHANGED <<project, carried>>
      /\ executed_' = executed_ \/ executed_' = executed_ + 1
  BY Zenon DEF FixTestFailureLoop
<1>2. repaired'.reason \in RepairReasons
  <2>1. \A reason, a, b, c, d, e : Result(reason, a, b, c, d, e).reason = reason
    BY DEF Result
  <2>2. \/ \E reason \in RepairReasons : \E a, b, c, d, e : repaired' = Result(reason, a, b, c, d, e)
        \/ repaired' = [reason |-> "error"]
    <3> DEFINE limit == clampIterations(wanted)
               iteration == nextIteration(said, carried.runs)
               command == testCommand(asked, project)
    <3>1. "tests_passed" \in RepairReasons /\ "max_iterations_reached" \in RepairReasons
          /\ "waiting_for_patch_proposal" \in RepairReasons /\ "approval_rejected" \in RepairReasons
      BY DEF RepairReasons
    <3>2. ASSUME NEW o \in TestOutcomes,
                 repaired' = IF TestRun(command, o).passed
                             THEN Result("tests_passed", iteration, limit,
                                         Append(carried.runs, TestRun(command, o)), carried.history, <<>>)
                             ELSE Result(IF iteration >= limit THEN "max_iterations_reached"
                                         ELSE "waiting_for_patch_proposal",
                                         iteration, limit, Append(carried.runs, TestRun(command, o)),
                                         Append(carried.history, ParseTestFailure(TestRun(command, o))),
                                         Cut(ParseTestFailure(TestRun(command, o)).failures, ContextLimit))
          PROVE  \E reason \in RepairReasons : \E a, b, c, d, e : repaired' = Result(reason, a, b, c, d, e)
      BY <3>1, <3>2, Zenon
    <3>3. ASSUME repaired' = Result(IF carried.rejected THEN "approval_rejected" ELSE "max_iterations_reached",
                                    Len(carried.runs), limit, carried.runs, carried.history, <<>>)
          PROVE  \E reason \in RepairReasons : \E a, b, c, d, e : repaired' = Result(reason, a, b, c, d, e)
      BY <3>1, <3>3, Zenon
    <3> QED  BY <3>2, <3>3, Zenon DEF FixTestFailureLoop
  <2>3. CASE repaired' = [reason |-> "error"]
    BY <2>3 DEF RepairReasons
  <2>4. ASSUME NEW reason \in RepairReasons, NEW a, NEW b, NEW c, NEW d, NEW e,
               repaired' = Result(reason, a, b, c, d, e)
        PROVE  repaired'.reason \in RepairReasons
    BY <2>1, <2>4
  <2> QED  BY <2>2, <2>3, <2>4
<1>3. executed_ \in Nat /\ Len(carried.runs) \in Nat
  BY OneMore DEF RepairInv, AllInHand
<1>4. RunsCounted' /\ repairs' \in 0..MaxRepairCalls
  BY <1>1, <1>3, RepairAssumption DEF RepairRest, RunsCounted
<1> QED  BY <1>1, <1>2, <1>4 DEF RepairRest

\* The variables of the repair loop have their types.
THEOREM RepairTyped == RepairSpec => []RepairTypeOK
<1>1. RepairInit => RepairRest
  BY RepairAssumption
  DEF RepairInit, RepairRest, RunsCounted, EmptyState, NoResult, RepairReasons
<1>2. ASSUME RepairInv, RepairRest, [RepairNext]_repairVars PROVE RepairRest'
  <2>1. ASSUME NEW asked, NEW wanted, FixTestFailureLoop(asked, wanted, 0) PROVE RepairRest'
    BY <1>2, <2>1, CallCounted
  <2>2. CASE FixTestFailureLoop(NoCommand, LoopLimit, Len(carried.runs) + 1)
    BY <1>2, <2>2, CallCounted
  <2>3. ASSUME NEW applied \in BOOLEAN, NEW all \in BOOLEAN, HandBack(applied, all) PROVE RepairRest'
    <3>1. /\ repaired.reason = "waiting_for_patch_proposal" /\ UNCHANGED <<project, repairs, executed_>>
          /\ carried'.runs = repaired.runs /\ repaired' = NoResult
      BY <2>3 DEF HandBack
    <3>2. Len(repaired.runs) = executed_ /\ executed_ \in Nat
      BY <1>2, <3>1 DEF RepairInv, RepairIsSound, LoopTellsTheTruth, AllInHand
    <3> QED  BY <1>2, <3>1, <3>2 DEF RepairRest, RunsCounted, NoResult, RepairReasons
  <2>4. CASE BeginAnew
    <3>1. /\ UNCHANGED <<project, repairs>> /\ executed_' = 0 /\ repaired' = NoResult
          /\ carried'.runs = <<>>
      BY <2>4 DEF BeginAnew, EmptyState
    <3> QED  BY <1>2, <3>1, RepairAssumption DEF RepairRest, RunsCounted, NoResult, RepairReasons
  <2>5. CASE UNCHANGED repairVars
    BY <1>2, <2>5 DEF RepairRest, RunsCounted, repairVars
  <2> QED  BY <1>2, <2>1, <2>2, <2>3, <2>4, <2>5 DEF RepairNext
<1>3. ASSUME RepairInv, RepairRest PROVE RepairTypeOK
  <2>1. executed_ \in Nat /\ Len(carried.runs) \in Nat
    BY <1>3, OneMore DEF RepairInv, AllInHand
  <2> QED  BY <1>3, <2>1, RepairAssumption DEF RepairTypeOK, RepairRest, RunsCounted, RepairReasons
<1>4. RepairInv /\ RepairRest /\ [RepairNext]_repairVars => RepairRest'
  BY <1>2
<1>5. RepairInv /\ RepairRest => RepairTypeOK
  BY <1>3
<1> QED  BY <1>1, <1>4, <1>5, RepairInvariant, PTL DEF RepairSpec

-----------------------------------------------------------------------------
(* The evaluation runner *)

\* What is known of a case that is being judged, or was.
Judgement == [id : Nat, case : EvalCase, step : Nat, pos : Nat, calls : Seq(EvalTools),
              asked : BOOLEAN, ran : SUBSET EvalTools, refused : BOOLEAN, cited : BOOLEAN]
Verdicts == [judged : Judgement, status : {"passed", "failed"}]

SuiteRun == [stage : {"dir", "files", "judge", "report"}, kind : {"suite"}, mode : EvalModes,
             wanted : SUBSET EvalIds,
             dirs : {<<"chat", "code">>, <<"code">>, <<>>}, names : SUBSET EvalIds,
             listed : Seq(Judgement), results : Seq(Verdicts)]
Replay == [stage : {"judge"}, kind : {"replay"}, mode : {"reject_all_writes"},
           source : SourceRun, compareTools : BOOLEAN, compareApprovals : BOOLEAN,
           listed : Seq(Judgement)]
EditInHand == [stage : {"write", "fill"}, category : {"chat", "code"}, id : EvalIds, case : EvalCases]

EvalTypes ==
    /\ caseFiles \in [{"chat", "code"} -> [EvalIds -> CaseFiles]]
    /\ edit \in {NoEdit} \cup EditInHand
    /\ suite \in {NoSuite} \cup SuiteRun \cup Replay
    /\ evalEdits \in 0..MaxEvalEdits /\ evalFaults \in 0..MaxEvalFaults
    /\ touched \subseteq EvalIds

\* The edit in hand is one of those that count.
EditCounts == edit # NoEdit => edit.id \in touched

\* A case that is there is still to be found, or listed, or judged.
ComesUp(d, i) ==
    \/ suite.stage \in {"dir", "files"} /\ d \in ToSet(suite.dirs)
       /\ (suite.stage = "files" /\ d = Head(suite.dirs) => i \in suite.names)
    \/ \E k \in DOMAIN suite.listed : suite.listed[k].id = i
    \/ \E k \in DOMAIN suite.results : suite.results[k].judged.id = i

Truthful(v) ==
    v.status = "passed" => /\ v.judged.case.tools \subseteq ToSet(v.judged.calls)
                           /\ v.judged.case.forbidden \cap ToSet(v.judged.calls) = {}

SuiteSound ==
    suite \in SuiteRun =>
        /\ suite.stage = "files" => suite.dirs # <<>>
        /\ suite.stage = "judge" => suite.listed # <<>>
        /\ suite.stage = "report" => suite.listed = <<>>
        /\ \A d \in DOMAIN caseFiles : \A i \in suite.wanted \ touched :
              caseFiles[d][i] # NoCase => ComesUp(d, i)
        /\ \A k \in DOMAIN suite.listed : SafeMode(suite.listed[k], suite.mode)
        /\ \A k \in DOMAIN suite.results :
              SafeMode(suite.results[k].judged, suite.mode) /\ Truthful(suite.results[k])

ReplaySound ==
    suite \in Replay => suite.listed # <<>> /\ \A k \in DOMAIN suite.listed : SafeMode(suite.listed[k], suite.mode)

SavedSound ==
    /\ saved.stage = "run" => saved.wanted \subseteq EvalIds
    /\ SuiteIsFaithful

EvalInv == EvalTypes /\ EditCounts /\ SuiteSound /\ ReplaySound /\ SavedSound

\* What the stage says of the suite.
LEMMA StageTells ==
    ASSUME EvalTypes
    PROVE  /\ suite.stage \in {"dir", "files", "report"} => suite \in SuiteRun
           /\ suite.stage = "judge" /\ suite.kind = "suite" => suite \in SuiteRun
           /\ suite.stage = "judge" => suite \in SuiteRun \cup Replay
           /\ suite.stage = "judge" /\ suite.kind = "replay" => suite \in Replay
  BY DEF EvalTypes, NoSuite, SuiteRun, Replay

\* A suite in progress is of one kind.
LEMMA OneKind == NoSuite \notin SuiteRun /\ NoSuite \notin Replay /\ SuiteRun \cap Replay = {}
  BY DEF NoSuite, SuiteRun, Replay

\* The directories that are left to walk.
LEMMA DirsLeft ==
    ASSUME NEW ds \in {<<"chat", "code">>, <<"code">>, <<>>}, ds # <<>>
    PROVE  /\ Tail(ds) \in {<<"chat", "code">>, <<"code">>, <<>>}
           /\ Head(ds) \in {"chat", "code"}
           /\ \A d \in ToSet(ds) : d = Head(ds) \/ d \in ToSet(Tail(ds))
<1>1. CASE ds = <<"chat", "code">>
  <2>1. Tail(ds) = <<"code">> /\ Head(ds) = "chat"
    BY <1>1
  <2>2. ToSet(ds) = {"chat", "code"} /\ ToSet(Tail(ds)) = {"code"}
    BY <1>1, <2>1 DEF ToSet
  <2> QED  BY <2>1, <2>2
<1>2. CASE ds = <<"code">>
  <2>1. Tail(ds) = <<>> /\ Head(ds) = "code"
    BY <1>2
  <2>2. ToSet(ds) = {"code"}
    BY <1>2 DEF ToSet
  <2> QED  BY <2>1, <2>2
<1> QED  BY <1>1, <1>2

\* Whatever changes in the files that somebody edits, the suite and what was
\* saved stay sound.
LEMMA FilesChange ==
    ASSUME EvalInv, UNCHANGED <<suite, saved>>, touched \subseteq touched',
           DOMAIN caseFiles' = DOMAIN caseFiles,
           \A d \in DOMAIN caseFiles : \A i \in EvalIds \ touched' : caseFiles'[d][i] = caseFiles[d][i]
    PROVE  SuiteSound' /\ ReplaySound' /\ SavedSound'
<1> USE DEF EvalInv
<1>1. SuiteSound'
  <2> SUFFICES ASSUME suite \in SuiteRun PROVE SuiteSound'
    BY DEF SuiteSound
  <2>1. \A d \in DOMAIN caseFiles' : \A i \in suite.wanted \ touched' :
           caseFiles'[d][i] # NoCase => ComesUp(d, i)
    <3>1. suite.wanted \subseteq EvalIds
      BY DEF SuiteRun
    <3> QED  BY <3>1 DEF SuiteSound
  <2>2. \A d, i : ComesUp(d, i) => ComesUp(d, i)'
    BY DEF ComesUp
  <2> QED  BY <2>1, <2>2 DEF SuiteSound
<1>2. ReplaySound'
  BY DEF ReplaySound
<1>3. SavedSound'
  <2>1. saved'.stage = "run" => saved'.wanted \subseteq EvalIds
    BY DEF SavedSound
  <2>2. ASSUME saved.stage = "run", NEW i \in saved.wanted \ touched',
               \E d \in DOMAIN caseFiles' : caseFiles'[d][i] # NoCase
        PROVE  \E k \in DOMAIN saved.results : saved.results[k].judged.id = i
    <3>1. i \in EvalIds \ touched' /\ i \in saved.wanted \ touched
      BY <2>1, <2>2
    <3>2. \E d \in DOMAIN caseFiles : caseFiles[d][i] # NoCase
      BY <2>2, <3>1
    <3> QED  BY <3>1, <3>2, <2>2 DEF SavedSound, SuiteIsFaithful
  <2> QED  BY <2>1, <2>2 DEF SavedSound, SuiteIsFaithful
<1> QED  BY <1>1, <1>2, <1>3

\* A proposal keeps safe mode, and stays the judgement of its case.
LEMMA ProposalIsSafe ==
    ASSUME NEW r \in Judgement, NEW mode, r.pos < Len(r.case.plan), SafeMode(r, mode)
    PROVE  /\ proposeInEval(r, mode) \in Judgement /\ proposeInEval(r, mode).id = r.id
           /\ SafeMode(proposeInEval(r, mode), mode)
<1> PICK tool \in EvalTools : tool = r.case.plan[r.pos + 1]
  <2>1. r.case.plan \in Seq(EvalTools) /\ r.pos \in Nat
    BY DEF Judgement, EvalCase
  <2>2. r.pos + 1 \in 1..Len(r.case.plan)
    BY <2>1
  <2> QED  BY <2>1, <2>2
<1> DEFINE called == [r EXCEPT !.step = @ + 1, !.calls = Append(@, tool)]
<1>1. /\ called \in Judgement /\ called.id = r.id /\ called.case = r.case /\ called.ran = r.ran
      /\ called.pos = r.pos
  <2>1. Append(r.calls, tool) \in Seq(EvalTools) /\ r.step + 1 \in Nat
    BY DEF Judgement
  <2> QED  BY <2>1 DEF Judgement
<1>2. ASSUME NEW q \in Judgement, q.id = r.id, q.case = r.case, q.ran = r.ran,
             tool # "denied", tool = "write" => shouldApproveInEval(mode, r.case, tool)
      PROVE  /\ Mocked(q, tool) \in Judgement /\ Mocked(q, tool).id = r.id
             /\ SafeMode(Mocked(q, tool), mode)
  <2>1. /\ Mocked(q, tool).id = q.id /\ Mocked(q, tool).case = q.case
        /\ Mocked(q, tool).ran = q.ran \cup {tool}
    BY DEF Mocked, Judgement
  <2>2. Mocked(q, tool) \in Judgement
    <3>1. PICK s \in SUBSET EvalTools, n \in Nat, b \in BOOLEAN, c \in BOOLEAN :
             /\ s = q.ran \cup {tool} /\ n = q.pos + 1
             /\ b = (q.cited \/ (tool = "answer" /\ q.case.sources))
             /\ c = (q.refused \/ (tool = "answer" /\
                      (q.case.refusal = "yes" \/ (q.case.citation = "yes" /\ ~q.case.sources))))
      <4>1. q.ran \cup {tool} \in SUBSET EvalTools /\ q.pos + 1 \in Nat
        BY DEF Judgement
      <4> QED  BY <4>1
    <3>2. Mocked(q, tool) = [q EXCEPT !.ran = s, !.pos = n, !.cited = b, !.refused = c]
      BY <3>1 DEF Mocked
    <3>3. [q EXCEPT !.ran = s, !.pos = n, !.cited = b, !.refused = c] \in Judgement
      BY DEF Judgement
    <3> QED  BY <3>2, <3>3
  <2> QED  BY <1>2, <2>1, <2>2 DEF SafeMode, shouldApproveInEval
<1> HIDE DEF called
<1>3. CASE tool = "denied"
  <2>1. proposeInEval(r, mode) = [called EXCEPT !.refused = TRUE, !.pos = @ + 1]
    BY <1>3 DEF proposeInEval, called
  <2>2. [called EXCEPT !.refused = TRUE, !.pos = @ + 1] \in Judgement
    <3>1. called.pos + 1 \in Nat
      BY <1>1 DEF Judgement
    <3> QED  BY <3>1, <1>1 DEF Judgement
  <2> QED  BY <1>1, <2>1, <2>2 DEF Judgement, SafeMode
<1>4. CASE tool = "write" /\ shouldApproveInEval(mode, r.case, tool)
  <2>1. proposeInEval(r, mode) = Mocked([called EXCEPT !.asked = TRUE], tool)
    BY <1>4 DEF proposeInEval, called
  <2>2. PICK q : q = [called EXCEPT !.asked = TRUE]
    OBVIOUS
  <2>3. q \in Judgement /\ q.id = r.id /\ q.case = r.case /\ q.ran = r.ran
    BY <1>1, <2>2 DEF Judgement
  <2> QED  BY <1>2, <1>4, <2>1, <2>2, <2>3
<1>5. CASE tool = "write" /\ ~shouldApproveInEval(mode, r.case, tool)
  <2>1. proposeInEval(r, mode) = [called EXCEPT !.asked = TRUE, !.pos = 0]
    BY <1>5 DEF proposeInEval, called
  <2>2. [called EXCEPT !.asked = TRUE, !.pos = 0] \in Judgement
    BY <1>1 DEF Judgement
  <2> QED  BY <1>1, <2>1, <2>2 DEF Judgement, SafeMode
<1>6. CASE tool \notin {"denied", "write"}
  <2>1. proposeInEval(r, mode) = Mocked(called, tool)
    BY <1>6 DEF proposeInEval, called
  <2> QED  BY <1>1, <1>2, <1>6, <2>1
<1> QED  BY <1>3, <1>4, <1>5, <1>6

\* A case that is yet to be judged has done nothing.
LEMMA FreshIsSafe ==
    ASSUME NEW id \in Nat, NEW c \in EvalCase, NEW mode
    PROVE  Fresh(id, c) \in Judgement /\ SafeMode(Fresh(id, c), mode) /\ Fresh(id, c).id = id
  BY DEF Fresh, Judgement, SafeMode

\* No suite has run yet.
LEMMA EvalInitially == EvalInit => EvalInv
<1> SUFFICES ASSUME EvalInit PROVE EvalInv
  OBVIOUS
<1>1. EvalTypes
  <2>1. ToSet(Categories) = {"chat", "code"}
    BY DEF Categories, ToSet
  <2>2. \A c \in EvalCases : Written(c) \in CaseFiles
    BY DEF Written, CaseFiles
  <2>3. {NoCase} \cup {Written(c) : c \in EvalCases} \subseteq CaseFiles
    BY <2>2 DEF CaseFiles
  <2>4. caseFiles \in [{"chat", "code"} -> [EvalIds -> CaseFiles]]
    BY <2>1, <2>3 DEF EvalInit
  <2>5. evalEdits \in 0..MaxEvalEdits /\ evalFaults \in 0..MaxEvalFaults
    BY EvalAssumption DEF EvalInit
  <2> QED  BY <2>4, <2>5 DEF EvalInit, EvalTypes
<1>2. EditCounts /\ SuiteSound /\ ReplaySound
  BY OneKind DEF EvalInit, EditCounts, SuiteSound, ReplaySound
<1>3. SavedSound
  BY DEF EvalInit, SavedSound, SuiteIsFaithful, NoSuite
<1> QED  BY <1>1, <1>2, <1>3 DEF EvalInv

\* The edits of the store.
LEMMA EditKeeps ==
    ASSUME EvalInv, NEW id \in EvalIds, Edits(id),
           edit' \in {edit} \cup EditInHand, edit' = edit \/ edit'.id = id,
           \/ caseFiles' = caseFiles
           \/ \E old \in DOMAIN caseFiles : caseFiles' = [caseFiles EXCEPT ![old][id] = NoCase]
    PROVE  EvalInv'
<1> USE DEF EvalInv
<1>2. /\ touched' = touched \cup {id} /\ UNCHANGED <<suite, saved, evalFaults>>
      /\ evalEdits' \in 0..MaxEvalEdits
  <2>1. /\ touched' = touched \cup {id} /\ UNCHANGED <<suite, saved, evalFaults>>
        /\ evalEdits < MaxEvalEdits /\ evalEdits' = evalEdits + 1
    BY DEF Edits
  <2> QED  BY <2>1, EvalAssumption DEF EvalTypes
<1>3. edit' \in {NoEdit} \cup EditInHand /\ (edit' # NoEdit => edit'.id \in touched')
  BY <1>2 DEF EvalTypes, EditCounts
<1>5. /\ caseFiles' \in [{"chat", "code"} -> [EvalIds -> CaseFiles]]
      /\ \A e \in DOMAIN caseFiles : \A i \in EvalIds \ touched' : caseFiles'[e][i] = caseFiles[e][i]
  BY <1>2 DEF EvalTypes, CaseFiles
<1>6. EvalTypes' /\ EditCounts'
  BY <1>2, <1>3, <1>5 DEF EvalTypes, EditCounts
<1>7. DOMAIN caseFiles' = DOMAIN caseFiles
  BY <1>5 DEF EvalTypes
<1> QED  BY <1>2, <1>5, <1>6, <1>7, FilesChange

\* The edits one by one.
LEMMA EditsKeep ==
    ASSUME EvalInv, NEW id \in EvalIds, NEW d \in ToSet(Categories), NEW c \in EvalCases,
           CreateCase(id, d, c) \/ UpdateCase(id, d, c)
    PROVE  EvalInv'
<1>1. d \in {"chat", "code"}
  BY DEF Categories, ToSet
<1>2. edit' \in EditInHand /\ edit'.id = id
  BY <1>1 DEF CreateCase, UpdateCase, EditInHand
<1>3. \/ caseFiles' = caseFiles
      \/ \E old \in DOMAIN caseFiles : caseFiles' = [caseFiles EXCEPT ![old][id] = NoCase]
  BY Zenon DEF CreateCase, UpdateCase, CategoriesOf
<1>4. Edits(id)
  BY DEF CreateCase, UpdateCase
<1> QED  BY <1>2, <1>3, <1>4, EditKeeps

\* A case is deleted.
LEMMA DeletesKeep ==
    ASSUME EvalInv, NEW id \in EvalIds, DeleteCase(id)
    PROVE  EvalInv'
<1>1. \E old \in DOMAIN caseFiles : caseFiles' = [caseFiles EXCEPT ![old][id] = NoCase]
  BY Zenon DEF DeleteCase, CategoriesOf
<1> QED  BY <1>1, EditKeeps DEF DeleteCase

\* The writing of a case, which may fail.
LEMMA WritesKeep ==
    ASSUME EvalInv, WriteCase \/ FillCase \/ WriteCaseFails
    PROVE  EvalInv'
<1> USE DEF EvalInv
<1>1. edit \in EditInHand /\ edit.id \in touched /\ edit.id \in EvalIds
      /\ edit.category \in {"chat", "code"} /\ edit.case \in EvalCases
  BY DEF WriteCase, FillCase, WriteCaseFails, EvalTypes, EditCounts, NoEdit, EditInHand
<1>2. /\ UNCHANGED <<suite, saved, evalEdits, touched>>
      /\ evalFaults' \in 0..MaxEvalFaults
  <2>1. /\ UNCHANGED <<suite, saved, evalEdits, touched>>
        /\ UNCHANGED evalFaults \/ (evalFaults < MaxEvalFaults /\ evalFaults' = evalFaults + 1)
    BY DEF WriteCase, FillCase, WriteCaseFails
  <2> QED  BY <2>1, EvalAssumption DEF EvalTypes
<1>3. edit' \in {NoEdit} \cup EditInHand /\ (edit' # NoEdit => edit'.id \in touched')
  <2>1. CASE WriteCase
    BY <2>1, <1>1 DEF WriteCase, EditInHand
  <2>2. CASE ~WriteCase
    BY <2>2 DEF FillCase, WriteCaseFails
  <2> QED  BY <2>1, <2>2
<1>4. \/ caseFiles' = caseFiles
      \/ \E f \in CaseFiles : caseFiles' = [caseFiles EXCEPT ![edit.category][edit.id] = f]
  <2>1. Torn \in CaseFiles /\ Written(edit.case) \in CaseFiles
    BY <1>1 DEF CaseFiles, Written
  <2> QED  BY <2>1, Zenon DEF WriteCase, FillCase, WriteCaseFails
<1>5. /\ caseFiles' \in [{"chat", "code"} -> [EvalIds -> CaseFiles]]
      /\ \A e \in DOMAIN caseFiles : \A i \in EvalIds \ touched' : caseFiles'[e][i] = caseFiles[e][i]
  <2>1. CASE caseFiles' = caseFiles
    BY <2>1 DEF EvalTypes
  <2>2. ASSUME NEW f \in CaseFiles, caseFiles' = [caseFiles EXCEPT ![edit.category][edit.id] = f]
        PROVE  /\ caseFiles' \in [{"chat", "code"} -> [EvalIds -> CaseFiles]]
               /\ \A e \in DOMAIN caseFiles : \A i \in EvalIds \ touched' : caseFiles'[e][i] = caseFiles[e][i]
    <3>1. PICK g \in {"chat", "code"}, n \in EvalIds : g = edit.category /\ n = edit.id /\ n \in touched
      BY <1>1
    <3>2. caseFiles' = [caseFiles EXCEPT ![g][n] = f]
      BY <2>2, <3>1
    <3> QED  BY <3>1, <3>2, <1>2 DEF EvalTypes
  <2> QED  BY <1>4, <2>1, <2>2
<1>6. EvalTypes' /\ EditCounts'
  BY <1>2, <1>3, <1>5 DEF EvalTypes, EditCounts
<1>7. DOMAIN caseFiles' = DOMAIN caseFiles
  BY <1>5 DEF EvalTypes
<1> QED  BY <1>2, <1>5, <1>6, <1>7, FilesChange

\* What leaves the files and what was saved alone, and may leave no suite.
LEMMA SuiteOnly ==
    ASSUME EvalInv, UNCHANGED <<caseFiles, edit, saved, evalEdits, evalFaults, touched>>,
           suite' \in SuiteRun \cup Replay \cup {NoSuite},
           suite' \in SuiteRun => SuiteSound', suite' \in Replay => ReplaySound'
    PROVE  EvalInv'
<1> USE DEF EvalInv
<1>1. EvalTypes' /\ EditCounts' /\ SavedSound'
  BY DEF EvalTypes, EditCounts, SavedSound, SuiteIsFaithful
<1>2. SuiteSound' /\ ReplaySound'
  BY DEF SuiteSound, ReplaySound
<1> QED  BY <1>1, <1>2

\* A suite begins, or a replay, or all is over.
LEMMA SuiteBegins ==
    ASSUME EvalInv, NEW mode \in EvalModes, NEW wanted \in SUBSET EvalIds, RunSuite(mode, wanted)
    PROVE  EvalInv'
<1> USE DEF EvalInv
<1>1. suite' = [stage |-> "dir", kind |-> "suite", mode |-> mode, wanted |-> wanted,
                dirs |-> <<"chat", "code">>, names |-> {}, listed |-> <<>>, results |-> <<>>]
      /\ saved = NoSuite /\ UNCHANGED <<caseFiles, edit, saved, evalEdits, evalFaults>>
      /\ touched' = IF edit = NoEdit THEN {} ELSE {edit.id}
  BY DEF RunSuite, Categories
<1>2. suite' \in SuiteRun
  BY <1>1 DEF SuiteRun
<1>3. EvalTypes' /\ EditCounts'
  BY <1>1, <1>2 DEF EvalTypes, EditCounts, EditInHand
<1>4. SuiteSound'
  <2>1. \A d \in DOMAIN caseFiles' : \A i : ComesUp(d, i)'
    <3>1. ToSet(<<"chat", "code">>) = {"chat", "code"}
      BY DEF ToSet
    <3> QED  BY <1>1, <3>1 DEF ComesUp, EvalTypes
  <2>2. DOMAIN suite'.listed = {} /\ DOMAIN suite'.results = {}
    BY <1>1
  <2>3. suite'.stage = "dir"
    BY <1>1
  <2> QED  BY <2>1, <2>2, <2>3, Zenon DEF SuiteSound
<1>5. ReplaySound' /\ SavedSound'
  BY <1>1, <1>2, OneKind DEF ReplaySound, SavedSound, SuiteIsFaithful, NoSuite
<1> QED  BY <1>3, <1>4, <1>5

\* A death leaves the files.
LEMMA DeathKeeps ==
    ASSUME EvalInv, EvalDies
    PROVE  EvalInv'
<1> USE DEF EvalInv
<1>1. /\ UNCHANGED <<caseFiles, saved, evalEdits, touched>> /\ edit' = NoEdit /\ suite' = NoSuite
      /\ evalFaults < MaxEvalFaults /\ evalFaults' = evalFaults + 1
  BY DEF EvalDies
<1>2. EvalTypes' /\ EditCounts'
  BY <1>1, EvalAssumption DEF EvalTypes, EditCounts
<1>3. SuiteSound' /\ ReplaySound'
  BY <1>1, OneKind DEF SuiteSound, ReplaySound
<1>4. SavedSound'
  BY <1>1 DEF SavedSound, SuiteIsFaithful
<1> QED  BY <1>2, <1>3, <1>4

\* The directories are walked, and then the cases are sorted.
LEMMA WalkKeeps ==
    ASSUME EvalInv, WalkDir
    PROVE  EvalInv'
<1> USE DEF EvalInv
<1>1. suite \in SuiteRun /\ suite.stage = "dir"
      /\ UNCHANGED <<caseFiles, edit, saved, evalEdits, evalFaults, touched>>
  BY StageTells DEF WalkDir
<1>2. CASE suite.dirs # <<>>
  <2>1. PICK names \in SUBSET EvalIds : names = {i \in EvalIds : caseFiles[Head(suite.dirs)][i] # NoCase}
    OBVIOUS
  <2>2. suite' = [suite EXCEPT !.stage = "files", !.names = names]
    BY <1>2, <2>1 DEF WalkDir
  <2>3. suite' \in SuiteRun
    BY <1>1, <2>2 DEF SuiteRun
  <2>4. /\ suite'.stage = "files" /\ suite'.names = names /\ suite'.dirs = suite.dirs
        /\ suite'.listed = suite.listed /\ suite'.results = suite.results
        /\ suite'.wanted = suite.wanted /\ suite'.mode = suite.mode
    BY <1>1, <2>2 DEF SuiteRun
  <2>5. ASSUME NEW d \in DOMAIN caseFiles, NEW i \in suite.wanted \ touched, caseFiles[d][i] # NoCase
        PROVE  ComesUp(d, i)'
    <3>1. ComesUp(d, i) /\ i \in EvalIds
      BY <1>1, <2>5 DEF SuiteSound, SuiteRun
    <3>2. d = Head(suite.dirs) => i \in names
      BY <2>1, <2>5, <3>1
    <3> QED  BY <3>1, <3>2, <2>4 DEF ComesUp
  <2>6. SuiteSound'
    BY <1>1, <1>2, <2>4, <2>5 DEF SuiteSound
  <2> QED  BY <1>1, <2>3, <2>6, OneKind, SuiteOnly
<1>3. CASE suite.dirs = <<>> /\ suite.listed = <<>>
  <2>1. suite' = NoSuite
    BY <1>3 DEF WalkDir
  <2> QED  BY <1>1, <2>1, OneKind, SuiteOnly
<1>4. CASE suite.dirs = <<>> /\ suite.listed # <<>>
  <2>1. PICK sorted \in ById(suite.listed) : suite' = [suite EXCEPT !.stage = "judge", !.listed = sorted]
    BY <1>4 DEF WalkDir
  <2>2. PICK cases \in Seq(Judgement) : cases = suite.listed /\ cases # <<>>
    BY <1>1, <1>4 DEF SuiteRun
  <2>3. PICK p \in [DOMAIN cases -> DOMAIN cases] :
           /\ \A k \in DOMAIN cases : \E j \in DOMAIN cases : p[j] = k
           /\ sorted = [k \in DOMAIN cases |-> cases[p[k]]]
    <3> DEFINE orders == {p \in [DOMAIN cases -> DOMAIN cases] :
                             \A k \in DOMAIN cases : \E j \in DOMAIN cases : p[j] = k}
               Permuted(p) == [k \in DOMAIN cases |-> cases[p[k]]]
               all == {Permuted(p) : p \in orders}
    <3>1. sorted \in all
      <4>1. ById(cases) = {s \in all : \A j, k \in DOMAIN cases : j < k => s[j].id <= s[k].id}
        BY Zenon DEF ById
      <4> HIDE DEF all
      <4> QED  BY <4>1, <2>1, <2>2, Zenon
    <3> HIDE DEF Permuted
    <3>2. PICK p \in orders : sorted = Permuted(p)
      BY <3>1, Zenon
    <3> QED  BY <3>2 DEF Permuted
  <2>4. sorted \in Seq(Judgement) /\ Len(sorted) = Len(cases) /\ DOMAIN sorted = DOMAIN cases
        /\ \A k \in DOMAIN cases : sorted[k] = cases[p[k]] /\ p[k] \in DOMAIN cases
    <3>1. PICK n \in Nat : n = Len(cases) /\ DOMAIN cases = 1..n /\ \A k \in 1..n : cases[k] \in Judgement
      OBVIOUS
    <3>2. sorted \in [1..n -> Judgement] /\ \A k \in 1..n : sorted[k] = cases[p[k]] /\ p[k] \in 1..n
      BY <2>3, <3>1
    <3> QED  BY <3>1, <3>2
  <2>5. suite' \in SuiteRun
    BY <1>1, <2>1, <2>4 DEF SuiteRun
  <2>6. /\ suite'.stage = "judge" /\ suite'.listed = sorted /\ suite'.results = suite.results
        /\ suite'.wanted = suite.wanted /\ suite'.mode = suite.mode
    BY <1>1, <2>1 DEF SuiteRun
  <2>7. ASSUME NEW d \in DOMAIN caseFiles, NEW i \in suite.wanted \ touched, caseFiles[d][i] # NoCase
        PROVE  ComesUp(d, i)'
    <3>1. ComesUp(d, i)
      BY <1>1, <2>7 DEF SuiteSound
    <3>2. ToSet(suite.dirs) = {}
      BY <1>4 DEF ToSet
    <3>3. CASE \E k \in DOMAIN cases : cases[k].id = i
      <4>1. PICK k \in DOMAIN cases : cases[k].id = i
        BY <3>3
      <4>2. PICK j \in DOMAIN cases : p[j] = k
        BY <2>3
      <4>3. sorted[j].id = i /\ j \in DOMAIN sorted
        BY <2>4, <4>1, <4>2
      <4> QED  BY <4>3, <2>6 DEF ComesUp
    <3> QED  BY <3>1, <3>2, <3>3, <2>2, <2>6 DEF ComesUp
  <2>8. \A k \in DOMAIN sorted : SafeMode(sorted[k], suite.mode)
    <3>1. \A k \in DOMAIN cases : SafeMode(cases[k], suite.mode)
      BY <1>1, <2>2 DEF SuiteSound
    <3> QED  BY <3>1, <2>4
  <2>9. sorted # <<>>
    BY <2>2, <2>4
  <2>10. SuiteSound'
    BY <1>1, <2>6, <2>7, <2>8, <2>9 DEF SuiteSound
  <2> QED  BY <1>1, <2>5, <2>10, OneKind, SuiteOnly
<1> QED  BY <1>2, <1>3, <1>4

\* A file is read, or the directory is at its end, or the listing fails.
LEMMA ReadKeeps ==
    ASSUME EvalInv, ReadCase
    PROVE  EvalInv'
<1> USE DEF EvalInv
<1>1. suite \in SuiteRun /\ suite.stage = "files" /\ suite.dirs # <<>>
      /\ UNCHANGED <<caseFiles, edit, saved, evalEdits, evalFaults, touched>>
  BY StageTells DEF ReadCase, SuiteSound
<1>2. /\ Tail(suite.dirs) \in {<<"chat", "code">>, <<"code">>, <<>>} /\ Head(suite.dirs) \in {"chat", "code"}
      /\ \A d \in ToSet(suite.dirs) : d = Head(suite.dirs) \/ d \in ToSet(Tail(suite.dirs))
  BY <1>1, DirsLeft DEF SuiteRun
<1>3. CASE suite.names = {}
  <2>1. suite' = [suite EXCEPT !.stage = "dir", !.dirs = Tail(@)]
    BY <1>3 DEF ReadCase
  <2>2. suite' \in SuiteRun
    BY <1>1, <1>2, <2>1 DEF SuiteRun
  <2>3. /\ suite'.stage = "dir" /\ suite'.dirs = Tail(suite.dirs)
        /\ suite'.listed = suite.listed /\ suite'.results = suite.results
        /\ suite'.wanted = suite.wanted /\ suite'.mode = suite.mode
    BY <1>1, <2>1 DEF SuiteRun
  <2>4. ASSUME NEW d \in DOMAIN caseFiles, NEW i \in suite.wanted \ touched, caseFiles[d][i] # NoCase
        PROVE  ComesUp(d, i)'
    <3>1. ComesUp(d, i)
      BY <1>1, <2>4 DEF SuiteSound
    <3> QED  BY <1>1, <1>2, <1>3, <2>3, <3>1 DEF ComesUp
  <2>5. SuiteSound'
    BY <1>1, <2>3, <2>4 DEF SuiteSound
  <2> QED  BY <1>1, <2>2, <2>5, OneKind, SuiteOnly
<1>4. CASE suite.names # {}
  <2>1. PICK i \in suite.names : i = CHOOSE n \in suite.names : \A m \in suite.names : n <= m
    <3>1. suite.names \in SUBSET Nat
      BY <1>1, EvalAssumption DEF SuiteRun
    <3>2. \E n \in suite.names : \A m \in suite.names : n <= m
      BY <1>4, <3>1, LeastThere
    <3> QED  BY <3>2
  <2>2. PICK f : f = caseFiles[Head(suite.dirs)][i]
    OBVIOUS
  <2>3. i \in EvalIds /\ i \in Nat /\ f \in CaseFiles
    BY <1>1, <1>2, <2>1, <2>2, EvalAssumption DEF SuiteRun, EvalTypes
  <2>4. suite' = IF f.state # "written" THEN NoSuite
                 ELSE [suite EXCEPT !.names = @ \ {i},
                          !.listed = IF i \in suite.wanted THEN Append(@, Fresh(i, f.case)) ELSE @]
    BY <1>4, <2>1, <2>2 DEF ReadCase
  <2>5. CASE f.state # "written"
    <3>1. suite' = NoSuite
      BY <2>4, <2>5
    <3> QED  BY <1>1, <3>1, OneKind, SuiteOnly
  <2>6. CASE f.state = "written"
    <3>1. f.case \in EvalCase
      BY <2>3, <2>6, EvalAssumption DEF CaseFiles, NoCase, Torn
    <3>2. PICK r \in Judgement : r = Fresh(i, f.case) /\ SafeMode(r, suite.mode) /\ r.id = i
      BY <2>3, <3>1, FreshIsSafe
    <3>3. PICK l \in Seq(Judgement) : l = suite.listed
      BY <1>1 DEF SuiteRun
    <3>4. PICK n \in Seq(Judgement) :
             /\ n = IF i \in suite.wanted THEN Append(l, r) ELSE l
             /\ \A k \in DOMAIN l : k \in DOMAIN n /\ n[k] = l[k]
             /\ \A k \in DOMAIN n : k \in DOMAIN l \/ n[k] = r
             /\ i \in suite.wanted => \E k \in DOMAIN n : n[k] = r
      <4>1. /\ Append(l, r) \in Seq(Judgement)
            /\ \A k \in DOMAIN l : k \in DOMAIN Append(l, r) /\ Append(l, r)[k] = l[k]
            /\ \A k \in DOMAIN Append(l, r) : k \in DOMAIN l \/ Append(l, r)[k] = r
            /\ Len(l) + 1 \in DOMAIN Append(l, r) /\ Append(l, r)[Len(l) + 1] = r
        OBVIOUS
      <4>2. CASE i \in suite.wanted
        BY <4>1, <4>2, Zenon
      <4>3. CASE i \notin suite.wanted
        BY <4>3, Zenon
      <4> QED  BY <4>2, <4>3
    <3>5. suite' = [suite EXCEPT !.names = @ \ {i}, !.listed = n]
      BY <2>4, <2>6, <3>2, <3>3, <3>4
    <3>6. suite' \in SuiteRun
      BY <1>1, <3>5 DEF SuiteRun
    <3>7. /\ suite'.stage = "files" /\ suite'.dirs = suite.dirs /\ suite'.names = suite.names \ {i}
          /\ suite'.listed = n /\ suite'.results = suite.results
          /\ suite'.wanted = suite.wanted /\ suite'.mode = suite.mode
      BY <1>1, <3>5 DEF SuiteRun
    <3>8. ASSUME NEW d \in DOMAIN caseFiles, NEW j \in suite.wanted \ touched, caseFiles[d][j] # NoCase
          PROVE  ComesUp(d, j)'
      <4>1. ComesUp(d, j)
        BY <1>1, <3>8 DEF SuiteSound
      <4>2. CASE j = i
        BY <3>2, <3>4, <3>7, <3>8, <4>2 DEF ComesUp
      <4>3. CASE \E k \in DOMAIN l : l[k].id = j
        BY <3>4, <3>7, <4>3 DEF ComesUp
      <4>4. CASE j # i /\ ~\E k \in DOMAIN l : l[k].id = j
        BY <1>1, <3>3, <3>7, <4>1, <4>4 DEF ComesUp
      <4> QED  BY <4>2, <4>3, <4>4
    <3>9. \A k \in DOMAIN n : SafeMode(n[k], suite.mode)
      <4>1. \A k \in DOMAIN l : SafeMode(l[k], suite.mode)
        BY <1>1, <3>3 DEF SuiteSound
      <4> QED  BY <3>2, <3>4, <4>1
    <3>10. SuiteSound'
      BY <1>1, <3>7, <3>8, <3>9 DEF SuiteSound
    <3> QED  BY <1>1, <3>6, <3>10, OneKind, SuiteOnly
  <2> QED  BY <2>5, <2>6
<1> QED  BY <1>3, <1>4

\* A proposal, in a suite or in a replay.
LEMMA ProposeKeeps ==
    ASSUME EvalInv, ProposeInEval
    PROVE  EvalInv'
<1> USE DEF EvalInv
<1>1. suite \in SuiteRun \cup Replay /\ suite.stage = "judge"
      /\ UNCHANGED <<caseFiles, edit, saved, evalEdits, evalFaults, touched>>
  BY StageTells DEF ProposeInEval
<1>2. PICK l \in Seq(Judgement) : l = suite.listed /\ l # <<>>
  BY <1>1 DEF SuiteRun, Replay, SuiteSound, ReplaySound
<1>3. \A k \in DOMAIN l : SafeMode(l[k], suite.mode)
  BY <1>1, <1>2 DEF SuiteSound, ReplaySound
<1>4. l[1] \in Judgement /\ 1 \in DOMAIN l /\ SafeMode(l[1], suite.mode) /\ l[1].pos < Len(l[1].case.plan)
  BY <1>2, <1>3 DEF ProposeInEval, Judging
<1>5. PICK r \in Judgement : r = proposeInEval(l[1], suite.mode) /\ r.id = l[1].id /\ SafeMode(r, suite.mode)
  BY <1>4, ProposalIsSafe
<1>6. PICK n \in Seq(Judgement) :
         n = [l EXCEPT ![1] = r] /\ n # <<>> /\ DOMAIN n = DOMAIN l
         /\ \A k \in DOMAIN l : n[k] = IF k = 1 THEN r ELSE l[k]
  <2>1. [l EXCEPT ![1] = r] \in Seq(Judgement) /\ Len([l EXCEPT ![1] = r]) = Len(l)
        /\ DOMAIN [l EXCEPT ![1] = r] = DOMAIN l
    BY <1>4
  <2>2. [l EXCEPT ![1] = r] # <<>>
    BY <2>1, <1>2
  <2> QED  BY <2>1, <2>2
<1>7. suite' = [suite EXCEPT !.listed = n]
  <2>1. suite' = [suite EXCEPT !.listed[1] = proposeInEval(suite.listed[1], suite.mode)]
    BY DEF ProposeInEval
  <2> QED  BY <2>1, <1>1, <1>2, <1>5, <1>6 DEF SuiteRun, Replay
<1>8. \A k \in DOMAIN n : SafeMode(n[k], suite.mode) /\ n[k].id = l[k].id
  BY <1>3, <1>4, <1>5, <1>6
<1>9. CASE suite \in SuiteRun
  <2>1. suite' \in SuiteRun
    BY <1>7, <1>9 DEF SuiteRun
  <2>2. /\ suite'.stage = "judge" /\ suite'.listed = n /\ suite'.results = suite.results
        /\ suite'.wanted = suite.wanted /\ suite'.mode = suite.mode
    BY <1>1, <1>7, <1>9 DEF SuiteRun
  <2>3. ASSUME NEW d \in DOMAIN caseFiles, NEW i \in suite.wanted \ touched, caseFiles[d][i] # NoCase
        PROVE  ComesUp(d, i)'
    <3>1. ComesUp(d, i)
      BY <1>9, <2>3 DEF SuiteSound
    <3> QED  BY <3>1, <1>1, <1>2, <1>6, <1>8, <2>2 DEF ComesUp
  <2>4. SuiteSound'
    BY <1>1, <1>6, <1>8, <1>9, <2>2, <2>3 DEF SuiteSound
  <2> QED  BY <1>1, <2>1, <2>4, OneKind, SuiteOnly
<1>10. CASE suite \in Replay
  <2>1. suite' \in Replay /\ suite'.listed = n /\ suite'.mode = suite.mode
    BY <1>7, <1>10 DEF Replay
  <2>2. ReplaySound'
    BY <1>6, <1>8, <2>1 DEF ReplaySound
  <2> QED  BY <1>1, <2>1, <2>2, OneKind, SuiteOnly
<1> QED  BY <1>1, <1>9, <1>10

\* What passed did what it was expected to do, and is counted.
LEMMA PassedIsTrue ==
    ASSUME NEW r \in Judgement, NEW others \in BOOLEAN, NEW v,
           v = [judged |-> r, status |-> IF others /\ assertionsPassed(r) THEN "passed" ELSE "failed"]
    PROVE  v \in Verdicts /\ v.judged = r /\ Truthful(v)
<1>1. assertionsPassed(r) => r.case.tools \subseteq ToSet(r.calls) /\ r.case.forbidden \cap ToSet(r.calls) = {}
  BY DEF assertionsPassed
<1>2. v.judged = r /\ v.status \in {"passed", "failed"}
      /\ (v.status = "passed" => others /\ assertionsPassed(r))
  OBVIOUS
<1>3. v \in Verdicts
  BY <1>2 DEF Verdicts
<1> QED  BY <1>1, <1>2, <1>3 DEF Truthful

\* A case is over: its judgement is one of the results.
LEMMA AssertKeeps ==
    ASSUME EvalInv, AssertCase
    PROVE  EvalInv'
<1> USE DEF EvalInv
<1>1. suite \in SuiteRun /\ suite.stage = "judge"
      /\ UNCHANGED <<caseFiles, edit, saved, evalEdits, evalFaults, touched>>
  BY StageTells DEF AssertCase
<1>2. PICK l \in Seq(Judgement) : l = suite.listed /\ l # <<>>
  BY <1>1 DEF SuiteRun, SuiteSound
<1>3. PICK q \in Seq(Verdicts) : q = suite.results
  BY <1>1 DEF SuiteRun
<1>4. l[1] \in Judgement /\ 1 \in DOMAIN l /\ SafeMode(l[1], suite.mode)
  BY <1>1, <1>2 DEF SuiteSound
<1>5. PICK others \in BOOLEAN :
         suite' = [suite EXCEPT
            !.results = Append(@, [judged |-> l[1],
                status |-> IF others /\ assertionsPassed(l[1]) THEN "passed" ELSE "failed"]),
            !.listed = Tail(@),
            !.stage = IF Len(suite.listed) = 1 THEN "report" ELSE "judge"]
  BY <1>2, Zenon DEF AssertCase, Judging
<1>6. PICK v \in Verdicts :
         /\ v = [judged |-> l[1], status |-> IF others /\ assertionsPassed(l[1]) THEN "passed" ELSE "failed"]
         /\ v.judged = l[1] /\ Truthful(v)
  BY <1>4, PassedIsTrue
<1>7. PICK n \in Seq(Verdicts) :
         /\ n = Append(q, v)
         /\ \A k \in DOMAIN q : k \in DOMAIN n /\ n[k] = q[k]
         /\ \A k \in DOMAIN n : (k \in DOMAIN q /\ n[k] = q[k]) \/ n[k] = v
         /\ \E k \in DOMAIN n : n[k] = v
  <2>1. /\ Append(q, v) \in Seq(Verdicts)
        /\ \A k \in DOMAIN q : k \in DOMAIN Append(q, v) /\ Append(q, v)[k] = q[k]
        /\ \A k \in DOMAIN Append(q, v) :
              (k \in DOMAIN q /\ Append(q, v)[k] = q[k]) \/ Append(q, v)[k] = v
        /\ Len(q) + 1 \in DOMAIN Append(q, v) /\ Append(q, v)[Len(q) + 1] = v
    OBVIOUS
  <2> QED  BY <2>1
<1>8. PICK t \in Seq(Judgement) :
         /\ t = Tail(l) /\ Len(t) = Len(l) - 1
         /\ \A k \in DOMAIN t : k + 1 \in DOMAIN l /\ t[k] = l[k + 1]
         /\ \A k \in DOMAIN l : k = 1 \/ (k - 1 \in DOMAIN t /\ t[k - 1] = l[k])
  <2>1. PICK m \in Nat : m = Len(l) /\ m > 0 /\ DOMAIN l = 1..m
    BY <1>2
  <2>2. PICK t \in Seq(Judgement) : t = Tail(l) /\ Len(t) = m - 1
    <3>1. Tail(l) \in Seq(Judgement) /\ Len(Tail(l)) = Len(l) - 1
      BY <1>2
    <3> QED  BY <3>1, <2>1
  <2>3. DOMAIN t = 1..(m - 1)
    BY <2>2
  <2>4. \A k \in 1..(m - 1) : t[k] = l[k + 1]
    BY <2>1, <2>2
  <2>5. \A k \in DOMAIN l : k = 1 \/ (k - 1 \in DOMAIN t /\ t[k - 1] = l[k])
    <3> SUFFICES ASSUME NEW k \in DOMAIN l, k # 1 PROVE k - 1 \in DOMAIN t /\ t[k - 1] = l[k]
      OBVIOUS
    <3>1. k - 1 \in 1..(m - 1) /\ (k - 1) + 1 = k
      BY <2>1
    <3> QED  BY <2>3, <2>4, <3>1
  <2>6. \A k \in DOMAIN t : k + 1 \in DOMAIN l
    BY <2>1, <2>3
  <2> QED  BY <2>1, <2>2, <2>3, <2>4, <2>5, <2>6
<1>9. PICK stage \in {"report", "judge"} : stage = IF Len(l) = 1 THEN "report" ELSE "judge"
  OBVIOUS
<1>10. suite' = [suite EXCEPT !.results = n, !.listed = t, !.stage = stage]
  BY <1>2, <1>3, <1>5, <1>6, <1>7, <1>8, <1>9
<1>11. suite' \in SuiteRun
  BY <1>1, <1>10 DEF SuiteRun
<1>12. /\ suite'.stage = stage /\ suite'.listed = t /\ suite'.results = n
       /\ suite'.wanted = suite.wanted /\ suite'.mode = suite.mode
  BY <1>1, <1>10 DEF SuiteRun
<1>13. ASSUME NEW d \in DOMAIN caseFiles, NEW i \in suite.wanted \ touched, caseFiles[d][i] # NoCase
       PROVE  ComesUp(d, i)'
  <2>1. \/ \E k \in DOMAIN l : l[k].id = i
        \/ \E k \in DOMAIN q : q[k].judged.id = i
    BY <1>1, <1>2, <1>3, <1>13 DEF SuiteSound, ComesUp
  <2>2. CASE \E k \in DOMAIN q : q[k].judged.id = i
    BY <2>2, <1>7, <1>12 DEF ComesUp
  <2>3. CASE l[1].id = i
    BY <2>3, <1>6, <1>7, <1>12 DEF ComesUp
  <2>4. CASE \E k \in DOMAIN l : l[k].id = i /\ k # 1
    <3>1. PICK k \in DOMAIN l : l[k].id = i /\ k # 1
      BY <2>4
    <3>2. PICK j : j = k - 1
      OBVIOUS
    <3>3. j \in DOMAIN t /\ t[j].id = i
      BY <3>1, <3>2, <1>8
    <3> QED  BY <3>3, <1>12, Zenon DEF ComesUp
  <2> QED  BY <2>1, <2>2, <2>3, <2>4
<1>14. /\ stage = "judge" => t # <<>>
       /\ stage = "report" => t = <<>>
       /\ stage # "files"
  <2>1. Len(l) > 0
    BY <1>2
  <2>2. Len(t) = 0 <=> t = <<>>
    OBVIOUS
  <2> QED  BY <2>1, <2>2, <1>8, <1>9
<1>15. \A k \in DOMAIN t : SafeMode(t[k], suite.mode)
  BY <1>1, <1>2, <1>8 DEF SuiteSound
<1>16. \A k \in DOMAIN n : SafeMode(n[k].judged, suite.mode) /\ Truthful(n[k])
  BY <1>1, <1>3, <1>4, <1>6, <1>7 DEF SuiteSound
<1>17. SuiteSound'
  BY <1>1, <1>12, <1>13, <1>14, <1>15, <1>16 DEF SuiteSound
<1> QED  BY <1>1, <1>11, <1>17, OneKind, SuiteOnly

\* None is counted only if there is none.
LEMMA NoneCounted ==
    ASSUME NEW q \in Seq(Verdicts), ~(Count(q, "failed") > 0), NEW k \in DOMAIN q
    PROVE  q[k].status = "passed"
<1> DEFINE failed == {j \in DOMAIN q : q[j].status = "failed"}
<1>1. IsFiniteSet(failed)
  <2>1. IsFiniteSet(1..Len(q))
    BY FS_Interval
  <2>2. failed \subseteq 1..Len(q)
    OBVIOUS
  <2> QED  BY <2>1, <2>2, FS_Subset
<1>2. Cardinality(failed) \in Nat /\ (Cardinality(failed) = 0 <=> failed = {})
  BY <1>1, FS_CardinalityType, FS_EmptySet
<1>3. failed = {}
  BY <1>2 DEF Count
<1>4. q[k] \in Verdicts
  OBVIOUS
<1> QED  BY <1>3, <1>4 DEF Verdicts

\* The run is saved, or not.
LEMMA SaveKeeps ==
    ASSUME EvalInv, SaveRun
    PROVE  EvalInv'
<1> USE DEF EvalInv
<1>1. suite \in SuiteRun /\ suite.stage = "report" /\ suite' = NoSuite
      /\ UNCHANGED <<caseFiles, edit, evalEdits, touched>>
      /\ (UNCHANGED evalFaults \/ (evalFaults < MaxEvalFaults /\ evalFaults' = evalFaults + 1))
  BY StageTells DEF SaveRun
<1>2. EvalTypes' /\ EditCounts' /\ SuiteSound' /\ ReplaySound'
  <2>1. evalFaults' \in 0..MaxEvalFaults
    BY <1>1, EvalAssumption DEF EvalTypes
  <2> QED  BY <1>1, <2>1, OneKind DEF EvalTypes, EditCounts, SuiteSound, ReplaySound
<1>3. CASE UNCHANGED saved
  BY <1>1, <1>2, <1>3 DEF SavedSound, SuiteIsFaithful
<1>4. CASE saved' = [stage |-> "run", mode |-> suite.mode, wanted |-> suite.wanted,
                     results |-> suite.results,
                     passed |-> Count(suite.results, "passed"),
                     failed |-> Count(suite.results, "failed"),
                     status |-> IF Count(suite.results, "failed") > 0 THEN "failed" ELSE "passed"]
  <2>1. /\ saved'.stage = "run" /\ saved'.mode = suite.mode /\ saved'.wanted = suite.wanted
        /\ saved'.results = suite.results
        /\ saved'.status = IF Count(suite.results, "failed") > 0 THEN "failed" ELSE "passed"
    BY <1>4
  <2>2. suite.wanted \subseteq EvalIds /\ suite.results \in Seq(Verdicts) /\ DOMAIN suite.listed = {}
    BY <1>1 DEF SuiteRun, SuiteSound
  <2>3. ASSUME NEW i \in suite.wanted \ touched, \E d \in DOMAIN caseFiles : caseFiles[d][i] # NoCase
        PROVE  \E k \in DOMAIN suite.results : suite.results[k].judged.id = i
    BY <1>1, <2>2, <2>3 DEF SuiteSound, ComesUp
  <2>4. ASSUME saved'.status = "passed", NEW k \in DOMAIN suite.results
        PROVE  Truthful(suite.results[k]) /\ suite.results[k].status = "passed"
    <3>1. ~(Count(suite.results, "failed") > 0)
      BY <2>1, <2>4
    <3> QED  BY <1>1, <2>2, <3>1, NoneCounted DEF SuiteSound
  <2>5. \A k \in DOMAIN suite.results : SafeMode(suite.results[k].judged, suite.mode)
    BY <1>1 DEF SuiteSound
  <2>6. SavedSound'
    BY <1>1, <2>1, <2>2, <2>3, <2>4, <2>5 DEF SavedSound, SuiteIsFaithful, Truthful
  <2> QED  BY <1>2, <2>6
<1> QED  BY <1>3, <1>4 DEF SaveRun

\* A replay begins.
LEMMA ReplayBegins ==
    ASSUME EvalInv, NEW s \in SourceRuns, NEW t \in BOOLEAN, NEW a \in BOOLEAN, ReplayRun(s, t, a)
    PROVE  EvalInv'
<1> USE DEF EvalInv
<1>1. PICK c : c = [plan |-> IF s.secret THEN <<>> ELSE s.plan, tools |-> {}, sequence |-> s.tools,
                 approval |-> IF s.approvals THEN "yes" ELSE "no", refusal |-> "unset",
                 citation |-> "unset", sources |-> FALSE, forbidden |-> {}]
  OBVIOUS
<1>2. s \in SourceRun
  BY EvalAssumption
<1>3. c \in EvalCase
  BY <1>1, <1>2 DEF EvalCase, SourceRun, Tristate
<1>4. PICK r \in Judgement : r = Fresh(0, c) /\ SafeMode(r, "reject_all_writes")
  BY <1>3, FreshIsSafe
<1>5. suite' = [stage |-> "judge", kind |-> "replay", mode |-> "reject_all_writes",
                source |-> s, compareTools |-> t, compareApprovals |-> a, listed |-> <<r>>]
      /\ UNCHANGED <<caseFiles, edit, saved, evalEdits, evalFaults, touched>>
  BY <1>1, <1>4 DEF ReplayRun
<1>6. suite' \in Replay
  BY <1>2, <1>5 DEF Replay
<1>7. ReplaySound'
  <2>1. suite'.listed = <<r>> /\ suite'.mode = "reject_all_writes"
    BY <1>5
  <2>2. <<r>> # <<>> /\ \A k \in DOMAIN <<r>> : <<r>>[k] = r
    OBVIOUS
  <2> QED  BY <1>4, <2>1, <2>2 DEF ReplaySound
<1> QED  BY <1>5, <1>6, <1>7, OneKind, SuiteOnly

\* A replay is saved.
LEMMA ReplayKeeps ==
    ASSUME EvalInv, SaveReplay
    PROVE  EvalInv'
<1> USE DEF EvalInv
<1>1. suite \in Replay /\ suite' = NoSuite /\ UNCHANGED <<caseFiles, edit, evalEdits, evalFaults, touched>>
      /\ saved'.stage = "replay" /\ saved'.judged = suite.listed[1]
  BY StageTells DEF SaveReplay, Judging
<1>2. EvalTypes' /\ EditCounts' /\ SuiteSound' /\ ReplaySound'
  BY <1>1, OneKind DEF EvalTypes, EditCounts, SuiteSound, ReplaySound
<1>3. SafeMode(suite.listed[1], "reject_all_writes")
  <2>1. suite.listed \in Seq(Judgement) /\ suite.listed # <<>> /\ suite.mode = "reject_all_writes"
    BY <1>1 DEF Replay, ReplaySound
  <2>2. 1 \in DOMAIN suite.listed
    BY <2>1
  <2> QED  BY <1>1, <2>1, <2>2 DEF ReplaySound
<1>4. SavedSound'
  BY <1>1, <1>3 DEF SavedSound, SuiteIsFaithful
<1> QED  BY <1>2, <1>4

\* The invariant of the runner and of the store.
LEMMA EvalInvariant == EvalSpec => []EvalInv
<1>1. EvalInv /\ [EvalNext]_evalVars => EvalInv'
  <2> SUFFICES ASSUME EvalInv, [EvalNext]_evalVars PROVE EvalInv'
    OBVIOUS
  <2>1. ASSUME NEW id \in EvalIds, NEW d \in ToSet(Categories), NEW c \in EvalCases,
               CreateCase(id, d, c) \/ UpdateCase(id, d, c)
        PROVE  EvalInv'
    BY <2>1, EditsKeep
  <2>2. ASSUME NEW id \in EvalIds, DeleteCase(id) PROVE EvalInv'
    BY <2>2, DeletesKeep
  <2>3. CASE WriteCase \/ FillCase \/ WriteCaseFails
    BY <2>3, WritesKeep
  <2>4. CASE EvalDies
    BY <2>4, DeathKeeps
  <2>5. ASSUME NEW mode \in EvalModes, NEW wanted \in SUBSET EvalIds, RunSuite(mode, wanted) PROVE EvalInv'
    BY <2>5, SuiteBegins
  <2>6. CASE WalkDir
    BY <2>6, WalkKeeps
  <2>7. CASE ReadCase
    BY <2>7, ReadKeeps
  <2>8. CASE ProposeInEval
    BY <2>8, ProposeKeeps
  <2>9. CASE AssertCase
    BY <2>9, AssertKeeps
  <2>10. CASE SaveRun
    BY <2>10, SaveKeeps
  <2>11. ASSUME NEW s \in SourceRuns, NEW t \in BOOLEAN, NEW a \in BOOLEAN, ReplayRun(s, t, a) PROVE EvalInv'
    BY <2>11, ReplayBegins
  <2>12. CASE SaveReplay
    BY <2>12, ReplayKeeps
  <2>13. CASE UNCHANGED evalVars
    BY <2>13 DEF evalVars, EvalInv, EvalTypes, EditCounts, SuiteSound, ComesUp, ReplaySound, SavedSound, SuiteIsFaithful
  <2> QED  BY <2>1, <2>2, <2>3, <2>4, <2>5, <2>6, <2>7, <2>8, <2>9, <2>10, <2>11, <2>12, <2>13 DEF EvalNext
<1> QED  BY <1>1, EvalInitially, PTL DEF EvalSpec

\* A saved run tells the truth about every case it was to judge, and nothing ran
\* in it that safe mode keeps from running (internal/evals).
THEOREM SuitesAreFaithful == EvalSpec => []SuiteIsFaithful
  BY EvalInvariant, PTL DEF EvalInv, SavedSound

\* What is saved is nothing, a run or a replay.
LEMMA SavedStages ==
    ASSUME saved.stage \in {"idle", "run", "replay"}, [EvalNext]_evalVars
    PROVE  saved'.stage \in {"idle", "run", "replay"}
<1>1. CASE SaveRun
  BY <1>1 DEF SaveRun
<1>2. CASE SaveReplay
  BY <1>2 DEF SaveReplay
<1>3. CASE ~SaveRun /\ ~SaveReplay
  <2>1. UNCHANGED saved
    BY <1>3 DEF EvalNext, evalVars, CreateCase, UpdateCase, DeleteCase, WriteCase, FillCase, WriteCaseFails,
                EvalDies, Edits, RunSuite, WalkDir, ReadCase, ProposeInEval, AssertCase, ReplayRun
  <2> QED  BY <2>1
<1> QED  BY <1>1, <1>2, <1>3

\* The variables of the evaluation runner have their types.
THEOREM EvalTyped == EvalSpec => []EvalTypeOK
<1> DEFINE Stages == saved.stage \in {"idle", "run", "replay"}
<1>1. EvalInit => Stages
  BY DEF EvalInit, NoSuite
<1>2. Stages /\ [EvalNext]_evalVars => Stages'
  BY SavedStages
<1>3. ASSUME EvalInv, Stages PROVE EvalTypeOK
  <2>1. ToSet(Categories) = {"chat", "code"}
    BY DEF ToSet, Categories
  <2>2. edit.stage \in {"none", "write", "fill"}
    BY <1>3 DEF EvalInv, EvalTypes, NoEdit, EditInHand
  <2>3. suite.stage \in {"idle", "dir", "files", "judge", "report"}
    BY <1>3 DEF EvalInv, EvalTypes, NoSuite, SuiteRun, Replay
  <2> QED  BY <1>3, <2>1, <2>2, <2>3 DEF EvalTypeOK, EvalInv, EvalTypes
<1>4. EvalInv /\ Stages => EvalTypeOK
  BY <1>3
<1> QED  BY <1>1, <1>2, <1>4, EvalInvariant, PTL DEF EvalSpec

-----------------------------------------------------------------------------
(* The text form of memory *)

DocTags == {"plain", "quoted", "angle", "cut"}
StartLine == [is : {"start"}, id : Nat, status : {"active", "archived"}, tag : DocTags]
FileLine == DocLines \cup StartLine

\* An item as it is read, and one that is written.
ItemRecord == [id : Nat, status : {"active", "archived"}, tag : DocTags, text : Seq(FileLine)]
WrittenItem == [id : Nat, status : {"active", "archived"}, tag : DocTags, text : Seq(DocLines) \ {<<>>}]

ReadDoc == {d \in [preamble : Seq(FileLine), items : Seq(ItemRecord), open : BOOLEAN] :
                d.open => d.items # <<>>}
NothingRead == [preamble |-> <<>>, items |-> <<>>, open |-> FALSE]

\* A line that opens an item is a whole one, and names its tag.
LEMMA OpensOne ==
    ASSUME NEW line \in FileLine
    PROVE  /\ Opens(line) <=> line \in StartLine /\ line.tag # "angle"
           /\ Opens(line) => line # End
           /\ Unlisted(line) \in FileLine
           /\ line \in DocLines => Unlisted(line) \in DocLines /\ Unlisted(line).word = line.word
           /\ End \in DocLines /\ ~Opens(End)
<1>1. End \in DocLines /\ ~Opens(End)
  BY DEF End, DocText, DocLines, Opens
<1>2. CASE line \in DocLines
  <2>1. ~Opens(line) /\ line \notin StartLine
    BY <1>2 DEF DocLines, StartLine, Opens
  <2>2. Unlisted(line) \in DocLines /\ Unlisted(line).word = line.word
    BY <1>2 DEF DocLines, Unlisted
  <2> QED  BY <1>1, <2>1, <2>2 DEF FileLine
<1>3. CASE line \in StartLine
  <2>1. line \notin DocLines /\ Unlisted(line) = line /\ (Opens(line) <=> line.tag # "angle")
    BY <1>3 DEF DocLines, StartLine, Opens, Unlisted
  <2> QED  BY <1>1, <1>3, <2>1
<1> QED  BY <1>2, <1>3 DEF FileLine

\* The items before the last, when that has no text.
LEMMA WithTextIs ==
    ASSUME NEW S, NEW items \in Seq(S)
    PROVE  /\ WithText(items) \in Seq(S)
           /\ items = <<>> => WithText(items) = <<>>
           /\ items # <<>> /\ items[Len(items)].text # <<>> => WithText(items) = items
<1>1. CASE items = <<>> \/ items[Len(items)].text # <<>>
  <2>1. WithText(items) = items
    BY <1>1 DEF WithText, Last
  <2> QED  BY <2>1
<1>2. CASE items # <<>> /\ items[Len(items)].text = <<>>
  <2>1. WithText(items) = SubSeq(items, 1, Len(items) - 1)
    BY <1>2 DEF WithText, Last, Front
  <2>2. \A k \in 1..Len(items) - 1 : items[k] \in S
    OBVIOUS
  <2>3. SubSeq(items, 1, Len(items) - 1) \in Seq(S)
    BY <1>2, <2>2, SubSeqProperties
  <2> QED  BY <1>2, <2>1, <2>3
<1> QED  BY <1>1, <1>2

\* The start of an item, as it is read.
Opened(line) == [id |-> line.id, status |-> line.status, tag |-> ReadTag(line.tag), text |-> <<>>]
\* A line more of one.
MoreText(item, line) == [item EXCEPT !.text = Append(@, Unlisted(line))]

\* The four things that a line may be.
LEMMA LineIs ==
    ASSUME NEW doc \in ReadDoc, NEW line \in FileLine
    PROVE  /\ ~doc.open /\ ~Opens(line) =>
                ParseLine(doc, line) = [preamble |-> Append(doc.preamble, line), items |-> doc.items, open |-> FALSE]
           /\ ~doc.open /\ Opens(line) =>
                ParseLine(doc, line) = [preamble |-> doc.preamble, items |-> Append(doc.items, Opened(line)), open |-> TRUE]
           /\ doc.open /\ line = End =>
                ParseLine(doc, line) = [preamble |-> doc.preamble, items |-> WithText(doc.items), open |-> FALSE]
           /\ doc.open /\ line # End =>
                ParseLine(doc, line) = [preamble |-> doc.preamble, open |-> TRUE,
                    items |-> [doc.items EXCEPT ![Len(doc.items)] = MoreText(doc.items[Len(doc.items)], line)]]
<1>1. PICK p, i, o : doc = [preamble |-> p, items |-> i, open |-> o] /\ i \in Seq(ItemRecord) /\ o \in BOOLEAN /\ p \in Seq(FileLine)
  BY DEF ReadDoc
<1>2. doc.preamble = p /\ doc.items = i /\ doc.open = o
  BY <1>1
<1>3. CASE ~doc.open /\ ~Opens(line)
  <2>1. o = FALSE
    BY <1>1, <1>2, <1>3
  <2>2. doc = [preamble |-> p, items |-> i, open |-> FALSE]
    BY <1>1, <2>1, Zenon
  <2>3. ParseLine(doc, line) = [doc EXCEPT !.preamble = Append(p, line)]
    BY <1>2, <1>3, Zenon DEF ParseLine
  <2>4. PICK q : q = Append(p, line)
    OBVIOUS
  <2>5. ParseLine(doc, line) = [preamble |-> q, items |-> i, open |-> FALSE]
    BY <2>2, <2>3, <2>4
  <2> QED  BY <1>2, <1>3, <2>4, <2>5
<1>4. CASE ~doc.open /\ Opens(line)
  BY <1>1, <1>2, <1>4 DEF ParseLine, Opened
<1>5. CASE doc.open /\ line = End
  BY <1>1, <1>2, <1>5 DEF ParseLine
<1>6. CASE doc.open /\ line # End
  BY <1>1, <1>2, <1>6 DEF ParseLine, MoreText
<1> QED  BY <1>3, <1>4, <1>5, <1>6

\* A line that opens an item opens one that can be read.
LEMMA OpenedTyped ==
    ASSUME NEW line \in FileLine, Opens(line)
    PROVE  Opened(line) \in ItemRecord /\ Opened(line).tag \in {"plain", "cut"}
<1>1. line \in StartLine /\ line.tag # "angle"
  BY OpensOne
<1>2. line.id \in Nat /\ line.status \in {"active", "archived"} /\ line.tag \in {"plain", "quoted", "cut"}
  BY <1>1 DEF StartLine, DocTags
<1>3. ReadTag(line.tag) \in {"plain", "cut"} /\ ReadTag(line.tag) \in DocTags
  BY <1>2 DEF ReadTag, DocTags
<1> QED  BY <1>2, <1>3 DEF Opened, ItemRecord

\* A line of text added to an item leaves one that can be read.
LEMMA MoreTextTyped ==
    ASSUME NEW item \in ItemRecord, NEW line \in FileLine
    PROVE  MoreText(item, line) \in ItemRecord
<1>1. item.text \in Seq(FileLine) /\ Unlisted(line) \in FileLine
  BY OpensOne DEF ItemRecord
<1>2. Append(item.text, Unlisted(line)) \in Seq(FileLine)
  BY <1>1
<1> QED  BY <1>2 DEF MoreText, ItemRecord

\* Line by line, what is read keeps its form.
LEMMA ParseTyped ==
    ASSUME NEW doc \in ReadDoc, NEW line \in FileLine
    PROVE  ParseLine(doc, line) \in ReadDoc
<1>1. /\ doc.preamble \in Seq(FileLine) /\ doc.items \in Seq(ItemRecord) /\ doc.open \in BOOLEAN
      /\ doc.open => doc.items # <<>>
  BY DEF ReadDoc
<1>2. CASE ~doc.open /\ ~Opens(line)
  <2>0. Append(doc.preamble, line) \in Seq(FileLine)
    BY <1>1
  <2>1. PICK p \in Seq(FileLine) : p = Append(doc.preamble, line)
    BY <2>0, Zenon
  <2>2. ParseLine(doc, line) = [preamble |-> p, items |-> doc.items, open |-> FALSE]
    BY <1>2, <2>1, LineIs
  <2> QED  BY <1>1, <2>2 DEF ReadDoc
<1>3. CASE ~doc.open /\ Opens(line)
  <2>1. PICK i \in ItemRecord : i = Opened(line)
    BY <1>3, OpenedTyped
  <2>4. Append(doc.items, i) \in Seq(ItemRecord) /\ Append(doc.items, i) # <<>>
    BY <1>1, AppendProperties, EmptySeq
  <2>2. PICK q \in Seq(ItemRecord) : q = Append(doc.items, i) /\ q # <<>>
    BY <2>4, Zenon
  <2>3. ParseLine(doc, line) = [preamble |-> doc.preamble, items |-> q, open |-> TRUE]
    BY <1>3, <2>1, <2>2, LineIs
  <2> QED  BY <1>1, <2>2, <2>3 DEF ReadDoc
<1>4. CASE doc.open /\ line = End
  <2>1. PICK q \in Seq(ItemRecord) : q = WithText(doc.items)
    BY <1>1, WithTextIs
  <2>2. ParseLine(doc, line) = [preamble |-> doc.preamble, items |-> q, open |-> FALSE]
    BY <1>4, <2>1, LineIs
  <2> QED  BY <1>1, <2>2 DEF ReadDoc
<1>5. CASE doc.open /\ line # End
  <2>1. Len(doc.items) \in 1..Len(doc.items) /\ doc.items[Len(doc.items)] \in ItemRecord
    BY <1>1, <1>5
  <2>2. PICK i \in ItemRecord : i = MoreText(doc.items[Len(doc.items)], line)
    BY <2>1, MoreTextTyped
  <2>3. [doc.items EXCEPT ![Len(doc.items)] = i] \in Seq(ItemRecord)
    BY <1>1, <2>1
  <2>4. PICK q \in Seq(ItemRecord) : q = [doc.items EXCEPT ![Len(doc.items)] = i]
    BY <2>3, Zenon
  <2>5. Len(q) = Len(doc.items)
    BY <1>1, <2>1, <2>4
  <2>6. q # <<>>
    BY <2>1, <2>5
  <2>7. ParseLine(doc, line) = [preamble |-> doc.preamble, items |-> q, open |-> TRUE]
    BY <1>5, <2>2, <2>4, LineIs
  <2> QED  BY <1>1, <2>6, <2>7 DEF ReadDoc
<1> QED  BY <1>1, <1>2, <1>3, <1>4, <1>5

\* What reading a file comes to on its way.
Reading(t, page) ==
    /\ t[0] = NothingRead
    /\ ParseMemoryDocument(page) =
          [preamble |-> t[Len(page)].preamble, items |-> WithText(t[Len(page)].items)]
    /\ \A k \in 1..Len(page) : t[k] = ParseLine(t[k - 1], page[k])
    /\ \A k \in 0..Len(page) : t[k] \in ReadDoc

ParseIter(h, page) ==
    h = [S \in SUBSET DOMAIN page |->
            IF S = {} THEN NothingRead ELSE ParseLine(h[S \ {Max(S)}], page[Max(S)])]

\* ParseMemoryDocument goes through the lines one by one.
LEMMA ParseFold ==
    ASSUME NEW page \in Seq(FileLine)
    PROVE  \E t : Reading(t, page)
<1> DEFINE X == ReadDoc
           st == [p \in X \X FileLine |-> ParseLine(p[1], p[2])]
<1>1. st \in [X \X FileLine -> X] /\ NothingRead \in X
  BY ParseTyped DEF NothingRead, ReadDoc
<1>2. \A x \in X, l \in FileLine : st[<<x, l>>] = ParseLine(x, l)
  OBVIOUS
<1>3. LET d == (CHOOSE h : ParseIter(h, page))[DOMAIN page]
      IN  ParseMemoryDocument(page) = [preamble |-> d.preamble, items |-> WithText(d.items)]
  BY DEF ParseMemoryDocument, FoldLeft, MapThenFoldSet, ParseIter, NothingRead
<1>4. DOMAIN page = 1..Len(page) /\ Len(page) \in Nat /\ \A k \in 1..Len(page) : page[k] \in FileLine
  OBVIOUS
<1>5. \E h : ParseIter(h, page)
  <2> HIDE DEF st
  <2>1. PICK g \in [SUBSET (1..Len(page)) -> X] : Folded(g, NothingRead, st, page, Len(page))
    <3> HIDE DEF X
    <3> QED  BY <1>1, FoldExists DEF HasFold
  <2>2. ASSUME NEW S \in SUBSET (1..Len(page))
        PROVE  g[S] = IF S = {} THEN NothingRead ELSE ParseLine(g[S \ {Max(S)}], page[Max(S)])
    <3>1. g[S] = IF S = {} THEN NothingRead ELSE st[<<g[S \ {Max(S)}], page[Max(S)]>>]
      BY <2>1 DEF Folded
    <3>2. CASE S # {}
      <4>1. Max(S) \in S
        BY <1>4, <3>2, GreatestWithin
      <4>2. page[Max(S)] \in FileLine /\ S \ {Max(S)} \in SUBSET (1..Len(page))
        BY <1>4, <4>1
      <4>3. g[S \ {Max(S)}] \in X
        BY <2>1, <4>2
      <4> QED  BY <1>2, <3>1, <3>2, <4>2, <4>3
    <3> QED  BY <3>1, <3>2
  <2>3. ParseIter(g, page)
    BY <1>4, <2>1, <2>2 DEF ParseIter
  <2> QED  BY <2>3
<1>6. PICK h : /\ ParseIter(h, page)
               /\ ParseMemoryDocument(page) = [preamble |-> h[DOMAIN page].preamble,
                                                items |-> WithText(h[DOMAIN page].items)]
  BY <1>3, <1>5
<1>7. \A S \in SUBSET (1..Len(page)) : h[S] = IF S = {} THEN NothingRead ELSE ParseLine(h[S \ {Max(S)}], page[Max(S)])
  BY <1>4, <1>6 DEF ParseIter
<1> DEFINE t == [k \in 0..Len(page) |-> h[1..k]]
<1>8. t[0] = NothingRead /\ t[Len(page)] = h[DOMAIN page]
  <2>1. 1..0 = {} /\ 1..0 \in SUBSET (1..Len(page)) /\ 0 \in 0..Len(page) /\ Len(page) \in 0..Len(page)
    OBVIOUS
  <2>2. h[1..0] = NothingRead
    BY <1>7, <2>1
  <2> QED  BY <1>4, <1>6, <2>1, <2>2
<1>9. ASSUME NEW k \in 1..Len(page)
      PROVE  t[k] = ParseLine(t[k - 1], page[k])
  <2>1. h[1..k] = ParseLine(h[1..(k - 1)], page[k])
    <3>1. 1..k \in SUBSET (1..Len(page)) /\ 1..k # {} /\ (1..k) \ {Max(1..k)} = 1..(k - 1) /\ Max(1..k) = k
      BY InitialPart
    <3>2. h[1..k] = IF 1..k = {} THEN NothingRead ELSE ParseLine(h[(1..k) \ {Max(1..k)}], page[Max(1..k)])
      BY <1>7, <3>1, Zenon
    <3> QED  BY <3>1, <3>2
  <2>2. k \in 0..Len(page) /\ k - 1 \in 0..Len(page)
    OBVIOUS
  <2> QED  BY <2>1, <2>2
<1>10. \A k \in 0..Len(page) : t[k] \in ReadDoc
  <2> DEFINE Good == {k \in Nat : k <= Len(page) => t[k] \in ReadDoc}
  <2> HIDE DEF t
  <2>1. 0 \in Good
    BY <1>1, <1>8
  <2>2. ASSUME NEW k \in Nat, k \in Good PROVE k + 1 \in Good
    <3> SUFFICES ASSUME k + 1 <= Len(page) PROVE t[k + 1] \in ReadDoc
      OBVIOUS
    <3>1. k + 1 \in 1..Len(page) /\ (k + 1) - 1 = k /\ t[k] \in ReadDoc /\ page[k + 1] \in FileLine
      BY <2>2
    <3> QED  BY <1>9, <3>1, ParseTyped
  <2>3. Nat \subseteq Good
    <3> HIDE DEF Good
    <3> QED  BY <2>1, <2>2, SetInduction
  <2> QED  BY <2>3
<1>11. Reading(t, page)
  <2> HIDE DEF t
  <2> QED  BY <1>6, <1>8, <1>9, <1>10 DEF Reading
<1> QED  BY <1>11

\* The text of an item as it is written.
Listed(text) == IF text[1].bullets > 0 THEN text ELSE [text EXCEPT ![1].bullets = 1]

\* Only the bullet of the first line of a text is changed.
LEMMA ListedIs ==
    ASSUME NEW text \in Seq(DocLines), text # <<>>
    PROVE  /\ Listed(text) \in Seq(DocLines) /\ Len(Listed(text)) = Len(text)
           /\ \A m \in 1..Len(text) : Unlisted(Listed(text)[m]).word = text[m].word
           /\ \A m \in 1..Len(text) : Listed(text)[m] = End => m > 1 /\ text[m].word = "end"
<1>1. 1 \in 1..Len(text) /\ text[1] \in DocLines /\ Len(text) \in Nat
  BY EmptySeq
<1>2. PICK first \in DocLines : first = text[1]
  BY <1>1
<1>8. first.bullets \in 0..2 /\ first = [is |-> "text", word |-> first.word, bullets |-> first.bullets]
  BY DEF DocLines
<1>9. PICK l \in DocLines : /\ l.bullets > 0 /\ l.word = first.word
                            /\ Listed(text) = [text EXCEPT ![1] = l]
  <2>1. CASE first.bullets > 0
    <3>1. text = [text EXCEPT ![1] = first]
      BY <1>1, <1>2
    <3> QED  BY <1>2, <2>1, <3>1 DEF Listed
  <2>2. CASE ~(first.bullets > 0)
    <3> DEFINE n == [is |-> "text", word |-> first.word, bullets |-> 1]
    <3>3. [first EXCEPT !.bullets = 1] = n
      BY <1>8
    <3>4. n \in DocLines /\ n.bullets > 0 /\ n.word = first.word
      BY DEF DocLines
    <3>1. PICK l \in DocLines : l = [first EXCEPT !.bullets = 1] /\ l.bullets > 0 /\ l.word = first.word
      BY <3>3, <3>4
    <3>2. Listed(text) = [text EXCEPT ![1] = l]
      BY <1>1, <1>2, <2>2, <3>1 DEF Listed
    <3> QED  BY <3>1, <3>2
  <2> QED  BY <2>1, <2>2
<1>3. Listed(text) = [text EXCEPT ![1] = l]
  BY <1>9
<1>4. [text EXCEPT ![1] = l] \in Seq(DocLines)
  BY <1>1
<1>5. PICK new \in Seq(DocLines) : new = [text EXCEPT ![1] = l]
  BY <1>4, Zenon
<1>6. Len(new) = Len(text) /\ new[1] = l /\ \A m \in 1..Len(text) : m # 1 => new[m] = text[m]
  BY <1>1, <1>5
<1>7. ASSUME NEW m \in 1..Len(text)
      PROVE  /\ Unlisted(new[m]).word = text[m].word
             /\ new[m] = End => m > 1 /\ text[m].word = "end"
  <2>1. new[m] \in DocLines /\ new[m].word = text[m].word
    <3>1. CASE m = 1
      BY <1>2, <1>6, <1>9, <3>1
    <3>2. CASE m # 1
      BY <1>6, <3>2
    <3> QED  BY <3>1, <3>2
  <2>2. Unlisted(new[m]).word = new[m].word
    BY <2>1, OpensOne DEF FileLine
  <2>3. new[m] = End => new[m].bullets = 0 /\ new[m].word = "end"
    BY DEF End, DocText
  <2>4. m = 1 => new[m].bullets > 0
    BY <1>6, <1>9
  <2> QED  BY <2>1, <2>2, <2>3, <2>4
<1> QED  BY <1>3, <1>5, <1>6, <1>7

\* What a written item is in the file: the line that opens it, its text, and the
\* line that closes it.
LEMMA BlockIs ==
    ASSUME NEW item \in WrittenItem
    PROVE  /\ RenderMemoryItem(item) \in Seq(FileLine)
           /\ Len(RenderMemoryItem(item)) = Len(item.text) + 2
           /\ RenderMemoryItem(item)[1] = Start(item)
           /\ \A m \in 1..Len(item.text) : RenderMemoryItem(item)[m + 1] = Listed(item.text)[m]
           /\ RenderMemoryItem(item)[Len(item.text) + 2] = End
<1>1. item.text \in Seq(DocLines) /\ item.text # <<>>
  BY DEF WrittenItem
<1>2. PICK body \in Seq(FileLine) : body = Listed(item.text) /\ Len(body) = Len(item.text)
  <2>1. Listed(item.text) \in Seq(FileLine) /\ Len(Listed(item.text)) = Len(item.text)
    <3>1. Listed(item.text) \in Seq(DocLines) /\ Len(Listed(item.text)) = Len(item.text)
      BY <1>1, ListedIs
    <3> QED  BY <3>1 DEF FileLine
  <2> QED  BY <2>1, Zenon
<1>3. PICK s \in FileLine : s = Start(item)
  BY DEF WrittenItem, Start, FileLine, StartLine
<1>4. PICK e \in FileLine : e = End
  BY OpensOne DEF FileLine
<1>5. RenderMemoryItem(item) = <<s>> \o body \o <<e>>
  BY <1>2, <1>3, <1>4 DEF RenderMemoryItem, Listed
<1>6. <<s>> \o body \o <<e>> \in Seq(FileLine) /\ Len(<<s>> \o body \o <<e>>) = Len(body) + 2
  OBVIOUS
<1>7. /\ (<<s>> \o body \o <<e>>)[1] = s
      /\ \A m \in 1..Len(body) : (<<s>> \o body \o <<e>>)[m + 1] = body[m]
      /\ (<<s>> \o body \o <<e>>)[Len(body) + 2] = e
  OBVIOUS
<1> QED  BY <1>2, <1>3, <1>4, <1>5, <1>6, <1>7

\* What writing a file comes to on its way.
Writing(r, preamble, items) ==
    /\ r[0] = preamble /\ RenderMemoryDocument(preamble, items) = r[Len(items)]
    /\ \A k \in 1..Len(items) : r[k] = AndItem(r[k - 1], items[k])
    /\ \A k \in 0..Len(items) : r[k] \in Seq(FileLine)

RenderIter(h, preamble, items) ==
    h = [S \in SUBSET DOMAIN items |->
            IF S = {} THEN preamble ELSE AndItem(h[S \ {Max(S)}], items[Max(S)])]

\* RenderMemoryDocument goes through the items one by one.
LEMMA RenderFold ==
    ASSUME NEW preamble \in Seq(FileLine), NEW items \in Seq(WrittenItem)
    PROVE  \E r : Writing(r, preamble, items)
<1> DEFINE X == Seq(FileLine)
           st == [p \in X \X WrittenItem |-> AndItem(p[1], p[2])]
<1>0. \A x \in X, l \in WrittenItem : AndItem(x, l) \in X
  BY BlockIs DEF AndItem
<1>1. st \in [X \X WrittenItem -> X] /\ preamble \in X
  <2>1. \A p \in X \X WrittenItem : AndItem(p[1], p[2]) \in X
    <3> HIDE DEF X
    <3>1. \A p \in X \X WrittenItem : p[1] \in X /\ p[2] \in WrittenItem
      OBVIOUS
    <3> QED  BY <1>0, <3>1, Zenon
  <2> HIDE DEF X
  <2>2. preamble \in X
    BY DEF X
  <2> QED  BY <2>1, <2>2, Zenon
<1>2. \A x \in X, l \in WrittenItem : st[<<x, l>>] = AndItem(x, l)
  OBVIOUS
<1>3. RenderMemoryDocument(preamble, items) = (CHOOSE h : RenderIter(h, preamble, items))[DOMAIN items]
  BY DEF RenderMemoryDocument, FoldLeft, MapThenFoldSet, RenderIter
<1>4. DOMAIN items = 1..Len(items) /\ Len(items) \in Nat /\ \A k \in 1..Len(items) : items[k] \in WrittenItem
  OBVIOUS
<1>5. \E h : RenderIter(h, preamble, items)
  <2> HIDE DEF st
  <2>1. PICK g \in [SUBSET (1..Len(items)) -> X] : Folded(g, preamble, st, items, Len(items))
    <3> HIDE DEF X
    <3> QED  BY <1>1, FoldExists DEF HasFold
  <2>2. ASSUME NEW S \in SUBSET (1..Len(items))
        PROVE  g[S] = IF S = {} THEN preamble ELSE AndItem(g[S \ {Max(S)}], items[Max(S)])
    <3>1. g[S] = IF S = {} THEN preamble ELSE st[<<g[S \ {Max(S)}], items[Max(S)]>>]
      BY <2>1 DEF Folded
    <3>2. CASE S # {}
      <4>1. Max(S) \in S
        BY <1>4, <3>2, GreatestWithin
      <4>2. items[Max(S)] \in WrittenItem /\ S \ {Max(S)} \in SUBSET (1..Len(items))
        BY <1>4, <4>1
      <4>3. g[S \ {Max(S)}] \in X
        BY <2>1, <4>2
      <4> HIDE DEF X
      <4> QED  BY <1>2, <3>1, <3>2, <4>2, <4>3
    <3> QED  BY <3>1, <3>2
  <2>3. RenderIter(g, preamble, items)
    BY <1>4, <2>1, <2>2 DEF RenderIter
  <2> QED  BY <2>3
<1>6. PICK h : RenderIter(h, preamble, items) /\ RenderMemoryDocument(preamble, items) = h[DOMAIN items]
  BY <1>3, <1>5
<1>7. \A S \in SUBSET (1..Len(items)) : h[S] = IF S = {} THEN preamble ELSE AndItem(h[S \ {Max(S)}], items[Max(S)])
  BY <1>4, <1>6 DEF RenderIter
<1> DEFINE r == [k \in 0..Len(items) |-> h[1..k]]
<1>8. r[0] = preamble /\ r[Len(items)] = h[DOMAIN items]
  <2>1. 1..0 = {} /\ 1..0 \in SUBSET (1..Len(items)) /\ 0 \in 0..Len(items) /\ Len(items) \in 0..Len(items)
    OBVIOUS
  <2>2. h[1..0] = preamble
    BY <1>7, <2>1
  <2> QED  BY <1>4, <1>6, <2>1, <2>2
<1>9. ASSUME NEW k \in 1..Len(items)
      PROVE  r[k] = AndItem(r[k - 1], items[k])
  <2>1. h[1..k] = AndItem(h[1..(k - 1)], items[k])
    <3>1. 1..k \in SUBSET (1..Len(items)) /\ 1..k # {} /\ (1..k) \ {Max(1..k)} = 1..(k - 1) /\ Max(1..k) = k
      BY InitialPart
    <3>2. h[1..k] = IF 1..k = {} THEN preamble ELSE AndItem(h[(1..k) \ {Max(1..k)}], items[Max(1..k)])
      BY <1>7, <3>1, Zenon
    <3> QED  BY <3>1, <3>2
  <2>2. k \in 0..Len(items) /\ k - 1 \in 0..Len(items)
    OBVIOUS
  <2> QED  BY <2>1, <2>2
<1>10. \A k \in 0..Len(items) : r[k] \in X
  <2> DEFINE Good == {k \in Nat : k <= Len(items) => r[k] \in X}
  <2> HIDE DEF r, X
  <2>1. 0 \in Good
    BY <1>1, <1>8
  <2>2. ASSUME NEW k \in Nat, k \in Good PROVE k + 1 \in Good
    <3> SUFFICES ASSUME k + 1 <= Len(items) PROVE r[k + 1] \in X
      OBVIOUS
    <3>1. k + 1 \in 1..Len(items) /\ (k + 1) - 1 = k /\ r[k] \in X /\ items[k + 1] \in WrittenItem
      BY <2>2
    <3> QED  BY <1>9, <3>1, <1>0
  <2>3. Nat \subseteq Good
    <3> HIDE DEF Good
    <3> QED  BY <2>1, <2>2, SetInduction
  <2> QED  BY <2>3
<1>11. Writing(r, preamble, items)
  <2> HIDE DEF r
  <2> QED  BY <1>6, <1>8, <1>9, <1>10 DEF Writing
<1> QED  BY <1>11

\* A file, and where in it the items end.
LaidOut(page, b, preamble, items) ==
    /\ b[0] = Len(preamble) /\ b[Len(items)] = Len(page)
    /\ \A k \in 0..Len(items) : b[k] \in Nat /\ b[k] <= Len(page)
    /\ \A k \in 1..Len(preamble) : page[k] = preamble[k]
    /\ \A k \in 1..Len(items) :
          /\ b[k] = b[k - 1] + Len(items[k].text) + 2
          /\ page[b[k - 1] + 1] = Start(items[k])
          /\ \A m \in 1..Len(items[k].text) : page[b[k - 1] + 1 + m] = Listed(items[k].text)[m]
          /\ page[b[k]] = End

Begins(a, c) == Len(a) <= Len(c) /\ \A k \in 1..Len(a) : c[k] = a[k]

\* What is written is the preamble and after it the items, each from its opening
\* line to its end.
LEMMA WholeIsLaidOut ==
    ASSUME NEW preamble \in Seq(FileLine), NEW items \in Seq(WrittenItem)
    PROVE  /\ RenderMemoryDocument(preamble, items) \in Seq(FileLine)
           /\ \E b : LaidOut(RenderMemoryDocument(preamble, items), b, preamble, items)
<1>1. PICK r : Writing(r, preamble, items)
  BY RenderFold
<1> DEFINE n == Len(items)
<1>2. n \in Nat /\ \A k \in 1..n : items[k] \in WrittenItem /\ k \in 0..n /\ k - 1 \in 0..n
  OBVIOUS
<1>3. /\ r[0] = preamble /\ RenderMemoryDocument(preamble, items) = r[n]
      /\ \A k \in 1..n : r[k] = r[k - 1] \o RenderMemoryItem(items[k])
      /\ \A k \in 0..n : r[k] \in Seq(FileLine)
  BY <1>1 DEF Writing, AndItem
<1> HIDE DEF n
<1>4. ASSUME NEW k \in 1..n
      PROVE  /\ Begins(r[k - 1], r[k])
             /\ Len(r[k]) = Len(r[k - 1]) + Len(items[k].text) + 2
             /\ r[k][Len(r[k - 1]) + 1] = Start(items[k])
             /\ \A m \in 1..Len(items[k].text) : r[k][Len(r[k - 1]) + 1 + m] = Listed(items[k].text)[m]
             /\ r[k][Len(r[k])] = End
  <2>1. PICK a \in Seq(FileLine) : a = r[k - 1]
    BY <1>2, <1>3
  <2>2. PICK c \in Seq(FileLine) : c = RenderMemoryItem(items[k])
    BY <1>2, BlockIs
  <2>3. r[k] = a \o c
    BY <1>3, <2>1, <2>2
  <2>4. PICK t \in Seq(DocLines) : t = items[k].text
    BY <1>2 DEF WrittenItem
  <2>5. /\ Len(c) = Len(t) + 2 /\ c[1] = Start(items[k]) /\ c[Len(t) + 2] = End
        /\ \A m \in 1..Len(t) : c[m + 1] = Listed(t)[m]
    BY <1>2, <2>2, <2>4, BlockIs
  <2>6. /\ Len(a \o c) = Len(a) + Len(c)
        /\ \A i \in 1..(Len(a) + Len(c)) : (a \o c)[i] = IF i <= Len(a) THEN a[i] ELSE c[i - Len(a)]
    BY ConcatProperties
  <2>7. PICK e : e = a \o c
    OBVIOUS
  <2>8. Len(e) = Len(a) + Len(t) + 2
    BY <2>5, <2>6, <2>7
  <2>9. \A i \in 1..Len(a) : e[i] = a[i]
    BY <2>6, <2>7
  <2>10. \A i \in 1..Len(c) : e[Len(a) + i] = c[i]
    BY <2>6, <2>7
  <2>11. e[Len(a) + 1] = Start(items[k]) /\ e[Len(e)] = End
    BY <2>5, <2>8, <2>10
  <2>12. ASSUME NEW m \in 1..Len(t) PROVE e[Len(a) + 1 + m] = Listed(t)[m]
    <3>1. m + 1 \in 1..Len(c) /\ Len(a) + (m + 1) = Len(a) + 1 + m
      BY <2>5
    <3> QED  BY <2>5, <2>10, <3>1
  <2>13. Begins(a, e)
    BY <2>8, <2>9 DEF Begins
  <2>14. r[k] = e /\ r[k - 1] = a /\ items[k].text = t
    BY <2>1, <2>3, <2>4, <2>7
  <2> QED  BY <2>8, <2>11, <2>12, <2>13, <2>14, Zenon
<1>5. \A k \in 0..n : Begins(r[k], r[n])
  <2> DEFINE Good == {d \in Nat : d <= n => Begins(r[n - d], r[n])}
  <2>1. 0 \in Good
    BY <1>2, <1>3 DEF Begins
  <2>2. ASSUME NEW d \in Nat, d \in Good PROVE d + 1 \in Good
    <3> SUFFICES ASSUME d + 1 <= n PROVE Begins(r[n - (d + 1)], r[n])
      OBVIOUS
    <3>1. n - d \in 1..n /\ n - (d + 1) = (n - d) - 1 /\ n - (d + 1) \in 0..n
      BY <1>2
    <3>2. Begins(r[n - (d + 1)], r[n - d]) /\ Begins(r[n - d], r[n])
      <4>1. d \in Nat /\ d <= n
        BY <1>2
      <4>2. Begins(r[n - d], r[n])
        BY <2>2, <4>1
      <4>3. Begins(r[(n - d) - 1], r[n - d])
        BY <1>4, <3>1
      <4> QED  BY <3>1, <4>2, <4>3
    <3>3. Len(r[n - (d + 1)]) \in Nat /\ Len(r[n - d]) \in Nat /\ Len(r[n]) \in Nat
      BY <1>2, <1>3, <3>1
    <3> QED  BY <3>2, <3>3 DEF Begins
  <2>3. Nat \subseteq Good
    <3> HIDE DEF Good
    <3> QED  BY <2>1, <2>2, SetInduction
  <2>4. ASSUME NEW k \in 0..n PROVE Begins(r[k], r[n])
    <3>1. n - k \in Nat /\ n - k <= n /\ n - (n - k) = k
      BY <1>2
    <3>2. n - k \in Good
      <4> HIDE DEF Good
      <4> QED  BY <2>3, <3>1
    <3>3. Begins(r[n - (n - k)], r[n])
      BY <3>1, <3>2
    <3> QED  BY <3>1, <3>3
  <2> QED  BY <2>4
<1> DEFINE b == [k \in 0..n |-> Len(r[k])]
<1>6. b[0] = Len(preamble) /\ b[n] = Len(r[n])
  BY <1>2, <1>3
<1>7. ASSUME NEW k \in 0..n PROVE b[k] \in Nat /\ b[k] <= Len(r[n])
  BY <1>3, <1>5 DEF Begins
<1>8. \A k \in 1..Len(preamble) : r[n][k] = preamble[k]
  <2>1. 0 \in 0..n
    BY <1>2
  <2> QED  BY <1>3, <1>5, <2>1 DEF Begins
<1>9. ASSUME NEW k \in 1..n
      PROVE  /\ b[k] = b[k - 1] + Len(items[k].text) + 2
             /\ r[n][b[k - 1] + 1] = Start(items[k])
             /\ \A m \in 1..Len(items[k].text) : r[n][b[k - 1] + 1 + m] = Listed(items[k].text)[m]
             /\ r[n][b[k]] = End
  <2>1. k \in 0..n /\ k - 1 \in 0..n /\ b[k] = Len(r[k]) /\ b[k - 1] = Len(r[k - 1]) /\ Len(items[k].text) \in Nat
    BY <1>2 DEF WrittenItem
  <2>2. \A i \in 1..Len(r[k]) : r[n][i] = r[k][i]
    BY <1>5, <2>1 DEF Begins
  <2>3. b[k] \in Nat /\ b[k - 1] \in Nat
    BY <1>7, <2>1
  <2> HIDE DEF b
  <2>4. b[k - 1] + 1 \in 1..Len(r[k]) /\ b[k] \in 1..Len(r[k])
        /\ \A m \in 1..Len(items[k].text) : b[k - 1] + 1 + m \in 1..Len(r[k])
    <3>1. PICK w \in Nat : w = Len(items[k].text)
      BY <2>1
    <3>2. Len(r[k]) = b[k - 1] + w + 2 /\ b[k] = Len(r[k])
      BY <1>4, <2>1, <3>1
    <3>3. \A m \in 1..w : b[k - 1] + 1 + m \in 1..Len(r[k])
      BY <2>3, <3>2
    <3> QED  BY <2>3, <3>1, <3>2, <3>3
  <2> QED  BY <1>4, <2>1, <2>2, <2>4
<1>10. LaidOut(r[n], b, preamble, items)
  <2> HIDE DEF b
  <2> QED  BY <1>6, <1>7, <1>8, <1>9 DEF LaidOut, n
<1>11. r[n] \in Seq(FileLine)
  BY <1>2, <1>3
<1> QED  BY <1>3, <1>10, <1>11

\* A preamble that begins with another, and in which no line opens an item.
StaysPlain(first, p) ==
    /\ p \in Seq(FileLine) /\ Len(first) <= Len(p)
    /\ \A k \in 1..Len(first) : p[k] = first[k]
    /\ \A k \in 1..Len(p) : ~Opens(p[k])

\* A line that opens no item goes to the preamble.
LEMMA PlainGrows ==
    ASSUME NEW first, Len(first) \in Nat, NEW p, StaysPlain(first, p), NEW line \in FileLine, ~Opens(line)
    PROVE  StaysPlain(first, Append(p, line))
<1>1. p \in Seq(FileLine)
  BY DEF StaysPlain
<1>2. PICK q : q = Append(p, line)
  OBVIOUS
<1>3. q \in Seq(FileLine) /\ Len(q) = Len(p) + 1 /\ q[Len(p) + 1] = line /\ \A k \in 1..Len(p) : q[k] = p[k]
  BY <1>1, <1>2, AppendProperties
<1>4. \A k \in 1..Len(q) : k = Len(p) + 1 \/ k \in 1..Len(p)
  BY <1>1, <1>3
<1>5. \A k \in 1..Len(first) : k \in 1..Len(p)
  BY <1>1 DEF StaysPlain
<1>6. Len(first) <= Len(q)
  BY <1>1, <1>3 DEF StaysPlain
<1>7. StaysPlain(first, q)
  BY <1>3, <1>4, <1>5, <1>6 DEF StaysPlain
<1> QED  BY <1>2, <1>7

\* The item that was read for a written one.
SameMarks(a, item) == a.id = item.id /\ a.status = item.status /\ a.tag = ReadTag(item.tag)
NoEndWithin(text) == \A m \in 1..Len(text) : m > 1 => text[m].word # "end"
SameWords(s, text) == Len(s) = Len(text) /\ \A m \in 1..Len(text) : s[m].word = text[m].word
SameItem(a, item) == SameMarks(a, item) /\ (NoEndWithin(item.text) => SameWords(a.text, item.text))

\* All of a sequence but its last, and its last.
OneMoreItem(items, before, a) ==
    /\ items \in Seq(ItemRecord) /\ Len(items) = Len(before) + 1 /\ items[Len(before) + 1] = a
    /\ \A k \in 1..Len(before) : items[k] = before[k]

\* In the middle of an item, behind m lines of its text.
TextSoFar(s, text, m, open) ==
    /\ s \in Seq(DocLines) /\ (m >= 1 => s # <<>>)
    /\ open => Len(s) = m /\ \A k \in 1..m : s[k].word = text[k].word
    /\ ~open => m >= 1 /\ ~NoEndWithin(text)
InItem(d, before, item, first, m) ==
    /\ d \in ReadDoc /\ StaysPlain(first, d.preamble)
    /\ \E a \in ItemRecord :
          /\ OneMoreItem(d.items, before, a) /\ SameMarks(a, item)
          /\ TextSoFar(a.text, item.text, m, d.open)

\* A line that opens an item begins one, and none of its text is read yet.
LEMMA ItemBegins ==
    ASSUME NEW d \in ReadDoc, ~d.open, NEW item \in WrittenItem, item.tag # "angle",
           NEW first, StaysPlain(first, d.preamble)
    PROVE  InItem(ParseLine(d, Start(item)), d.items, item, first, 0)
<1>1. PICK s \in FileLine : s = Start(item) /\ Opens(s) /\ Opened(s).text = <<>> /\ SameMarks(Opened(s), item)
  <2>1. Start(item) \in FileLine /\ Opens(Start(item))
    BY DEF WrittenItem, Start, FileLine, StartLine, Opens
  <2>2. Opened(Start(item)).text = <<>> /\ SameMarks(Opened(Start(item)), item)
    BY DEF Opened, Start, SameMarks
  <2> QED  BY <2>1, <2>2
<1>2. PICK a \in ItemRecord : a = Opened(s)
  BY <1>1, OpenedTyped
<1>3. d.items \in Seq(ItemRecord)
  BY DEF ReadDoc
<1>4. PICK q : q = Append(d.items, a)
  OBVIOUS
<1>5. OneMoreItem(q, d.items, a)
  BY <1>3, <1>4, AppendProperties DEF OneMoreItem
<1>6. PICK e \in ReadDoc : e = ParseLine(d, s)
  BY ParseTyped
<1>7. e.preamble = d.preamble /\ e.items = q /\ e.open = TRUE
  BY <1>1, <1>2, <1>4, <1>6, LineIs
<1>8. TextSoFar(a.text, item.text, 0, TRUE)
  <2>1. PICK none \in Seq(DocLines) : none = a.text /\ Len(none) = 0
    <3>1. <<>> \in Seq(DocLines) /\ Len(<<>>) = 0
      OBVIOUS
    <3> QED  BY <1>1, <1>2, <3>1, Zenon
  <2>2. \A k \in 1..0 : FALSE
    OBVIOUS
  <2>3. TextSoFar(none, item.text, 0, TRUE)
    BY <2>1, <2>2 DEF TextSoFar
  <2> QED  BY <2>1, <2>3, Zenon
<1>9. SameMarks(a, item)
  BY <1>1, <1>2
<1>10. InItem(e, d.items, item, first, 0)
  BY <1>5, <1>7, <1>8, <1>9 DEF InItem
<1> QED  BY <1>1, <1>6, <1>10

\* One line more of the text of an item, or one behind its end.
LEMMA ItemGoesOn ==
    ASSUME NEW d, NEW item \in WrittenItem, NEW before \in Seq(ItemRecord), NEW first, Len(first) \in Nat,
           NEW m \in Nat, m + 1 \in 1..Len(item.text), InItem(d, before, item, first, m)
    PROVE  InItem(ParseLine(d, Listed(item.text)[m + 1]), before, item, first, m + 1)
<1>1. PICK text \in Seq(DocLines) : text = item.text /\ text # <<>> /\ m + 1 \in 1..Len(text)
  BY DEF WrittenItem
<1>2. PICK line \in DocLines : line = Listed(item.text)[m + 1]
  BY <1>1, ListedIs
<1>3. /\ line \in FileLine /\ ~Opens(line)
      /\ Unlisted(line) \in DocLines /\ Unlisted(line).word = text[m + 1].word
      /\ line = End => m + 1 > 1 /\ text[m + 1].word = "end"
  <2>1. line \in FileLine
    BY DEF FileLine
  <2>2. ~Opens(line)
    BY DEF DocLines, Opens
  <2> QED  BY <1>1, <1>2, <2>1, <2>2, OpensOne, ListedIs
<1>4. PICK a \in ItemRecord : /\ OneMoreItem(d.items, before, a) /\ SameMarks(a, item)
                            /\ TextSoFar(a.text, text, m, d.open)
  BY <1>1 DEF InItem
<1>5. PICK e \in ReadDoc : e = ParseLine(d, line)
  BY <1>3, ParseTyped DEF InItem
<1>6. /\ d \in ReadDoc /\ d.open \in BOOLEAN /\ StaysPlain(first, d.preamble)
      /\ d.items \in Seq(ItemRecord) /\ Len(d.items) = Len(before) + 1 /\ d.items[Len(d.items)] = a
      /\ Len(before) \in Nat /\ d.items # <<>>
  BY <1>4 DEF InItem, ReadDoc, OneMoreItem
<1>7. CASE ~d.open
  <2>1. e = [preamble |-> Append(d.preamble, line), items |-> d.items, open |-> FALSE]
    BY <1>3, <1>5, <1>6, <1>7, LineIs
  <2>2. StaysPlain(first, Append(d.preamble, line))
    BY <1>3, <1>6, PlainGrows
  <2>3. TextSoFar(a.text, text, m + 1, FALSE)
    BY <1>4, <1>7 DEF TextSoFar
  <2>4. StaysPlain(first, e.preamble) /\ e.items = d.items /\ e.open = FALSE
    BY <2>1, <2>2
  <2> QED  BY <1>1, <1>2, <1>4, <1>5, <2>3, <2>4 DEF InItem
<1>8. CASE d.open /\ line = End
  <2>1. a.text # <<>> /\ ~NoEndWithin(text)
    BY <1>1, <1>3, <1>4, <1>8 DEF TextSoFar, NoEndWithin
  <2>2. WithText(d.items) = d.items
    BY <1>6, <2>1, WithTextIs
  <2>3. e = [preamble |-> d.preamble, items |-> d.items, open |-> FALSE]
    BY <1>3, <1>5, <1>6, <1>8, <2>2, LineIs
  <2>4. TextSoFar(a.text, text, m + 1, FALSE)
    BY <1>4, <2>1 DEF TextSoFar
  <2>5. e.preamble = d.preamble /\ e.items = d.items /\ e.open = FALSE
    BY <2>3
  <2> QED  BY <1>1, <1>2, <1>4, <1>5, <1>6, <2>4, <2>5 DEF InItem
<1>9. CASE d.open /\ line # End
  <2>1. PICK b \in ItemRecord : b = MoreText(a, line)
    BY <1>3, MoreTextTyped
  <2>2. PICK s \in Seq(DocLines) : s = a.text
    BY <1>4 DEF TextSoFar
  <2>3. PICK u \in DocLines : u = Unlisted(line)
    BY <1>3
  <2>4. PICK v : v = Append(s, u)
    OBVIOUS
  <2>5. v \in Seq(DocLines) /\ v # <<>> /\ Len(v) = Len(s) + 1 /\ v[Len(s) + 1] = u /\ \A k \in 1..Len(s) : v[k] = s[k]
    BY <2>4, AppendProperties
  <2>6. b.text = v /\ b.id = a.id /\ b.status = a.status /\ b.tag = a.tag
    BY <2>1, <2>2, <2>3, <2>4 DEF MoreText, ItemRecord
  <2>7. Len(s) = m /\ \A k \in 1..m : s[k].word = text[k].word
    BY <1>4, <1>9, <2>2 DEF TextSoFar
  <2>8. \A k \in 1..m + 1 : v[k].word = text[k].word
    <3>1. ASSUME NEW k \in 1..m + 1 PROVE v[k].word = text[k].word
      <4>1. CASE k = m + 1
        BY <1>3, <2>3, <2>5, <2>7, <4>1
      <4>2. CASE k \in 1..m
        BY <2>5, <2>7, <4>2
      <4> QED  BY <4>1, <4>2
    <3> QED  BY <3>1
  <2>9. TextSoFar(b.text, text, m + 1, TRUE)
    BY <2>5, <2>6, <2>7, <2>8 DEF TextSoFar
  <2>10. [d.items EXCEPT ![Len(d.items)] = b] \in Seq(ItemRecord)
    BY <1>6
  <2>11. PICK q \in Seq(ItemRecord) : q = [d.items EXCEPT ![Len(d.items)] = b]
    BY <2>10, Zenon
  <2>12. Len(q) = Len(d.items) /\ q[Len(d.items)] = b /\ \A k \in 1..Len(d.items) : k # Len(d.items) => q[k] = d.items[k]
    BY <1>6, <2>11
  <2>13. OneMoreItem(q, before, b)
    <3>1. Len(d.items) = Len(before) + 1 /\ \A k \in 1..Len(before) : d.items[k] = before[k]
      BY <1>4 DEF OneMoreItem
    <3>2. \A k \in 1..Len(before) : k \in 1..Len(d.items) /\ k # Len(d.items)
      BY <1>6
    <3> QED  BY <2>12, <3>1, <3>2 DEF OneMoreItem
  <2>14. SameMarks(b, item)
    BY <1>4, <2>6 DEF SameMarks
  <2>15. e.preamble = d.preamble /\ e.items = q /\ e.open = TRUE
    BY <1>3, <1>5, <1>6, <1>9, <2>1, <2>11, LineIs
  <2> QED  BY <1>1, <1>2, <1>5, <1>6, <2>9, <2>13, <2>14, <2>15 DEF InItem
<1> QED  BY <1>6, <1>7, <1>8, <1>9

\* Its last line ends the item, or is one of the preamble if it had ended.
LEMMA ItemEnds ==
    ASSUME NEW d, NEW item \in WrittenItem, NEW before \in Seq(ItemRecord), NEW first, Len(first) \in Nat,
           InItem(d, before, item, first, Len(item.text))
    PROVE  /\ ParseLine(d, End) \in ReadDoc /\ ~ParseLine(d, End).open
           /\ StaysPlain(first, ParseLine(d, End).preamble)
           /\ \E a \in ItemRecord :
                 /\ OneMoreItem(ParseLine(d, End).items, before, a) /\ SameItem(a, item)
                 /\ a.text \in Seq(DocLines) \ {<<>>}
<1>1. PICK text \in Seq(DocLines) : text = item.text /\ text # <<>> /\ Len(text) >= 1
  BY EmptySeq DEF WrittenItem
<1>2. PICK a \in ItemRecord : /\ OneMoreItem(d.items, before, a) /\ SameMarks(a, item)
                            /\ TextSoFar(a.text, text, Len(text), d.open)
  BY <1>1 DEF InItem
<1>3. /\ d \in ReadDoc /\ d.open \in BOOLEAN /\ StaysPlain(first, d.preamble)
      /\ d.items \in Seq(ItemRecord) /\ Len(d.items) = Len(before) + 1 /\ d.items[Len(d.items)] = a
      /\ Len(before) \in Nat /\ d.items # <<>>
  BY <1>2 DEF InItem, ReadDoc, OneMoreItem
<1>4. End \in FileLine /\ ~Opens(End)
  BY OpensOne DEF FileLine, DocLines, End, DocText, Opens
<1>5. a.text \in Seq(DocLines) /\ a.text # <<>>
  BY <1>1, <1>2 DEF TextSoFar
<1>6. PICK e \in ReadDoc : e = ParseLine(d, End)
  BY <1>3, <1>4, ParseTyped
<1>7. CASE d.open
  <2>1. WithText(d.items) = d.items
    BY <1>3, <1>5, WithTextIs
  <2>2. e.preamble = d.preamble /\ e.items = d.items /\ e.open = FALSE
    BY <1>3, <1>4, <1>6, <1>7, <2>1, LineIs
  <2>3. SameItem(a, item)
    BY <1>1, <1>2, <1>7 DEF SameItem, SameWords, TextSoFar
  <2> QED  BY <1>2, <1>3, <1>5, <1>6, <2>2, <2>3
<1>8. CASE ~d.open
  <2>1. e.preamble = Append(d.preamble, End) /\ e.items = d.items /\ e.open = FALSE
    BY <1>3, <1>4, <1>6, <1>8, LineIs
  <2>2. StaysPlain(first, Append(d.preamble, End))
    BY <1>3, <1>4, PlainGrows
  <2>3. SameItem(a, item)
    BY <1>1, <1>2, <1>8 DEF SameItem, TextSoFar
  <2> QED  BY <1>2, <1>3, <1>5, <1>6, <2>1, <2>2, <2>3
<1> QED  BY <1>3, <1>7, <1>8

\* An item that has been read whole.
WholeItem(a) == a.text \in Seq(DocLines) \ {<<>>} /\ a.tag \in {"plain", "cut"}
IsAmong(items, j, i) == \E k \in 1..j : items[k].id = i /\ items[k].tag # "angle"
Distinct(items) == \A k, l \in 1..Len(items) : items[k].id = items[l].id => k = l
FoundAgain(items, item) == \E k \in 1..Len(items) : SameItem(items[k], item)

\* Behind the first j items: they have all been read, and nothing else has.
ReadSoFar(d, first, items, j) ==
    /\ d \in ReadDoc /\ ~d.open /\ StaysPlain(first, d.preamble)
    /\ \A k \in 1..Len(d.items) : WholeItem(d.items[k]) /\ IsAmong(items, j, d.items[k].id)
    /\ Distinct(d.items)
    /\ \A k \in 1..j : items[k].tag # "angle" => FoundAgain(d.items, items[k])

\* The lines of an item whose opening line reads as text.
LEMMA ItemIsText ==
    ASSUME NEW d \in ReadDoc, ~d.open, NEW line \in FileLine, ~Opens(line),
           NEW first, Len(first) \in Nat, StaysPlain(first, d.preamble)
    PROVE  /\ ParseLine(d, line) \in ReadDoc /\ ~ParseLine(d, line).open
           /\ StaysPlain(first, ParseLine(d, line).preamble) /\ ParseLine(d, line).items = d.items
<1>1. ParseLine(d, line) = [preamble |-> Append(d.preamble, line), items |-> d.items, open |-> FALSE]
  BY LineIs
<1>2. StaysPlain(first, Append(d.preamble, line))
  BY PlainGrows
<1>3. ParseLine(d, line) \in ReadDoc
  BY ParseTyped
<1> QED  BY <1>1, <1>2, <1>3

\* One item more.
LEMMA NextItemRead ==
    ASSUME NEW preamble \in Seq(FileLine), NEW items \in Seq(WrittenItem), Distinct(items),
           NEW page \in Seq(FileLine), NEW b, LaidOut(page, b, preamble, items),
           NEW t, Reading(t, page), NEW j \in Nat, j + 1 \in 1..Len(items),
           ReadSoFar(t[b[j]], preamble, items, j)
    PROVE  ReadSoFar(t[b[j + 1]], preamble, items, j + 1)
<1>1. j + 1 \in 1..Len(items) /\ (j + 1) - 1 = j /\ j \in 0..Len(items) /\ j + 1 \in 0..Len(items)
  OBVIOUS
<1>2. PICK item \in WrittenItem : item = items[j + 1]
  BY <1>1
<1>3. PICK w \in Nat : w = Len(item.text) /\ \A m \in 1..w : Listed(item.text)[m] \in DocLines
  <2>1. item.text \in Seq(DocLines) /\ item.text # <<>>
    BY DEF WrittenItem
  <2>2. Listed(item.text) \in Seq(DocLines) /\ Len(Listed(item.text)) = Len(item.text)
    BY <2>1, ListedIs
  <2> QED  BY <2>1, <2>2
<1>4. /\ b[j] \in Nat /\ b[j + 1] \in Nat /\ b[j + 1] <= Len(page) /\ b[j + 1] = b[j] + w + 2
      /\ page[b[j] + 1] = Start(item)
      /\ \A m \in 1..w : page[b[j] + 1 + m] = Listed(item.text)[m]
      /\ page[b[j + 1]] = End
  BY <1>1, <1>2, <1>3, Zenon DEF LaidOut
<1>5. /\ \A k \in 1..Len(page) : t[k] = ParseLine(t[k - 1], page[k])
      /\ \A k \in 0..Len(page) : t[k] \in ReadDoc
  BY DEF Reading
<1>6. PICK d \in ReadDoc : d = t[b[j]] /\ ReadSoFar(d, preamble, items, j)
  BY DEF ReadSoFar
<1>7. ~d.open /\ StaysPlain(preamble, d.preamble) /\ d.items \in Seq(ItemRecord) /\ Len(preamble) \in Nat
  BY <1>6 DEF ReadSoFar, ReadDoc
<1>8. Len(page) \in Nat /\ b[j] + 1 \in 1..Len(page) /\ b[j] + w + 2 \in 1..Len(page)
        /\ \A m \in 1..w : b[j] + 1 + m \in 1..Len(page)
  <2>1. Len(page) \in Nat
    OBVIOUS
  <2>2. b[j] \in Nat /\ b[j] + w + 2 <= Len(page) /\ w \in Nat
    BY <1>3, <1>4
  <2> DEFINE n == Len(page)  x == b[j]
  <2>3. n \in Nat /\ x \in Nat /\ x + w + 2 <= n /\ w \in Nat
    BY <2>1, <2>2
  <2>4. /\ x + 1 \in 1..n /\ x + w + 2 \in 1..n
        /\ \A m \in 1..w : x + 1 + m \in 1..n
    <3> HIDE DEF n, x
    <3> QED  BY <2>3
  <2> QED  BY <2>1, <2>4
<1>9. t[b[j] + 1] = ParseLine(d, Start(item))
  <2>1. (b[j] + 1) - 1 = b[j]
    BY <1>4
  <2> QED  BY <1>4, <1>5, <1>6, <1>8, <2>1
<1>10. \A m \in 1..w : t[b[j] + 1 + m] = ParseLine(t[b[j] + 1 + (m - 1)], Listed(item.text)[m])
  <2>1. \A m \in 1..w : (b[j] + 1 + m) - 1 = b[j] + 1 + (m - 1)
    BY <1>4
  <2> QED  BY <1>4, <1>5, <1>8, <2>1
<1>11. t[b[j + 1]] = ParseLine(t[b[j] + 1 + w], End)
  <2>1. (b[j] + w + 2) - 1 = b[j] + 1 + w
    BY <1>4
  <2> QED  BY <1>4, <1>5, <1>8, <2>1
<1>12. CASE item.tag = "angle"
  <2> DEFINE AsText(e) == e \in ReadDoc /\ ~e.open /\ StaysPlain(preamble, e.preamble) /\ e.items = d.items
  <2>1. AsText(t[b[j] + 1])
    <3>1. Start(item) \in FileLine /\ ~Opens(Start(item))
      BY <1>12 DEF WrittenItem, Start, FileLine, StartLine, Opens
    <3> QED  BY <1>7, <1>9, <3>1, ItemIsText
  <2>2. ASSUME NEW m \in 1..w, AsText(t[b[j] + 1 + (m - 1)]) PROVE AsText(t[b[j] + 1 + m])
    <3>1. PICK line \in DocLines : line = Listed(item.text)[m]
      BY <1>3
    <3>2. line \in FileLine /\ ~Opens(line)
      BY DEF FileLine, DocLines, Opens
    <3>3. PICK e \in ReadDoc : e = t[b[j] + 1 + (m - 1)] /\ ~e.open /\ StaysPlain(preamble, e.preamble) /\ e.items = d.items
      BY <2>2
    <3>4. t[b[j] + 1 + m] = ParseLine(e, line)
      BY <1>10, <3>1, <3>3
    <3> QED  BY <1>7, <3>2, <3>3, <3>4, ItemIsText
  <2>3. AsText(t[b[j] + 1 + w])
    <3> DEFINE Good == {m \in Nat : m <= w => AsText(t[b[j] + 1 + m])}
    <3> HIDE DEF AsText
    <3>1. 0 \in Good
      <4>1. b[j] + 1 + 0 = b[j] + 1
        BY <1>4
      <4> QED  BY <2>1, <4>1
    <3>2. ASSUME NEW m \in Nat, m \in Good PROVE m + 1 \in Good
      <4> SUFFICES ASSUME m + 1 <= w PROVE AsText(t[b[j] + 1 + (m + 1)])
        OBVIOUS
      <4>1. m + 1 \in 1..w /\ (m + 1) - 1 = m /\ AsText(t[b[j] + 1 + m])
        BY <1>3, <3>2
      <4> QED  BY <2>2, <4>1
    <3>3. w \in Good
      <4> HIDE DEF Good
      <4> QED  BY <3>1, <3>2, SetInduction
    <3> QED  BY <3>3
  <2>4. AsText(t[b[j + 1]])
    <3>1. End \in FileLine /\ ~Opens(End)
      BY OpensOne DEF FileLine, DocLines, End, DocText, Opens
    <3>2. PICK e \in ReadDoc : e = t[b[j] + 1 + w] /\ ~e.open /\ StaysPlain(preamble, e.preamble) /\ e.items = d.items
      BY <2>3
    <3> QED  BY <1>7, <1>11, <3>1, <3>2, ItemIsText
  <2>5. PICK e \in ReadDoc : e = t[b[j + 1]] /\ ~e.open /\ StaysPlain(preamble, e.preamble) /\ e.items = d.items
    BY <2>4
  <2>6. \A i : IsAmong(items, j, i) => IsAmong(items, j + 1, i)
    BY DEF IsAmong
  <2>7. \A k \in 1..j + 1 : items[k].tag # "angle" => k \in 1..j
    BY <1>2, <1>12
  <2>8. ReadSoFar(e, preamble, items, j + 1)
    BY <1>6, <2>5, <2>6, <2>7 DEF ReadSoFar
  <2> QED  BY <2>5, <2>8
<1>13. CASE item.tag # "angle"
  <2> DEFINE Within(m) == InItem(t[b[j] + 1 + m], d.items, item, preamble, m)
  <2>1. Within(0)
    <3>1. b[j] + 1 + 0 = b[j] + 1
      BY <1>4
    <3> QED  BY <1>7, <1>9, <1>13, <3>1, ItemBegins
  <2>2. ASSUME NEW m \in Nat, m + 1 <= w, Within(m) PROVE Within(m + 1)
    <3>1. m + 1 \in 1..w /\ (m + 1) - 1 = m
      BY <1>3, <2>2
    <3>2. PICK e : e = t[b[j] + 1 + m]
      OBVIOUS
    <3>3. t[b[j] + 1 + (m + 1)] = ParseLine(e, Listed(item.text)[m + 1])
      BY <1>10, <3>1, <3>2
    <3>4. InItem(e, d.items, item, preamble, m)
      BY <2>2, <3>2
    <3>5. InItem(ParseLine(e, Listed(item.text)[m + 1]), d.items, item, preamble, m + 1)
      BY <1>3, <1>7, <3>1, <3>4, ItemGoesOn
    <3> QED  BY <3>3, <3>5
  <2>3. Within(w)
    <3> DEFINE Good == {m \in Nat : m <= w => Within(m)}
    <3> HIDE DEF Within
    <3>1. 0 \in Good
      BY <2>1
    <3>2. ASSUME NEW m \in Nat, m \in Good PROVE m + 1 \in Good
      <4> SUFFICES ASSUME m + 1 <= w PROVE Within(m + 1)
        OBVIOUS
      <4>1. Within(m)
        BY <1>3, <3>2
      <4> QED  BY <2>2, <4>1
    <3>3. w \in Good
      <4> HIDE DEF Good
      <4> QED  BY <3>1, <3>2, SetInduction
    <3> QED  BY <3>3
  <2>4. PICK e : e = t[b[j + 1]] /\ e = ParseLine(t[b[j] + 1 + w], End)
    BY <1>11
  <2>5. /\ e \in ReadDoc /\ ~e.open /\ StaysPlain(preamble, e.preamble)
        /\ \E a \in ItemRecord : /\ OneMoreItem(e.items, d.items, a) /\ SameItem(a, item)
                               /\ a.text \in Seq(DocLines) \ {<<>>}
    BY <1>3, <1>7, <2>3, <2>4, ItemEnds
  <2>6. PICK a \in ItemRecord : /\ OneMoreItem(e.items, d.items, a) /\ SameItem(a, item)
                              /\ a.text \in Seq(DocLines) \ {<<>>}
    BY <2>5
  <2>7. /\ Len(e.items) = Len(d.items) + 1 /\ e.items[Len(d.items) + 1] = a /\ Len(d.items) \in Nat
        /\ \A k \in 1..Len(d.items) : e.items[k] = d.items[k]
        /\ \A k \in 1..Len(e.items) : k = Len(d.items) + 1 \/ k \in 1..Len(d.items)
    BY <1>7, <2>6 DEF OneMoreItem
  <2>8. WholeItem(a) /\ IsAmong(items, j + 1, a.id) /\ ~IsAmong(items, j, a.id)
    <3>1. a.id = item.id /\ a.tag = ReadTag(item.tag)
      BY <2>6 DEF SameItem, SameMarks
    <3>2. a.tag \in {"plain", "cut"}
      BY <1>13, <3>1 DEF ReadTag, WrittenItem, DocTags
    <3>3. IsAmong(items, j + 1, a.id)
      BY <1>2, <1>13, <3>1 DEF IsAmong
    <3>4. \A k \in 1..j : items[k].id # items[j + 1].id
      <4>1. \A k \in 1..j : k \in 1..Len(items) /\ k # j + 1
        BY <1>1
      <4> QED  BY <1>1, <4>1 DEF Distinct
    <3>5. ~IsAmong(items, j, a.id)
      BY <1>2, <3>1, <3>4 DEF IsAmong
    <3> QED  BY <2>6, <3>2, <3>3, <3>5 DEF WholeItem
  <2>9. \A k \in 1..Len(d.items) : WholeItem(d.items[k]) /\ IsAmong(items, j, d.items[k].id)
    BY <1>6 DEF ReadSoFar
  <2>10. \A i : IsAmong(items, j, i) => IsAmong(items, j + 1, i)
    BY DEF IsAmong
  <2>11. \A k \in 1..Len(e.items) : WholeItem(e.items[k]) /\ IsAmong(items, j + 1, e.items[k].id)
    BY <2>7, <2>8, <2>9, <2>10
  <2>12. Distinct(e.items)
    <3> SUFFICES ASSUME NEW k \in 1..Len(e.items), NEW l \in 1..Len(e.items), e.items[k].id = e.items[l].id
                 PROVE  k = l
      BY DEF Distinct
    <3>1. CASE k \in 1..Len(d.items) /\ l \in 1..Len(d.items)
      BY <1>6, <2>7, <3>1 DEF ReadSoFar, Distinct
    <3>2. CASE k = Len(d.items) + 1 /\ l \in 1..Len(d.items)
      BY <2>7, <2>8, <2>9, <3>2
    <3>3. CASE l = Len(d.items) + 1 /\ k \in 1..Len(d.items)
      BY <2>7, <2>8, <2>9, <3>3
    <3>4. CASE k = Len(d.items) + 1 /\ l = Len(d.items) + 1
      BY <3>4
    <3> QED  BY <2>7, <3>1, <3>2, <3>3, <3>4
  <2>13. ASSUME NEW k \in 1..j + 1, items[k].tag # "angle" PROVE FoundAgain(e.items, items[k])
    <3>1. CASE k = j + 1
      <4>1. Len(d.items) + 1 \in 1..Len(e.items)
        BY <2>7
      <4> QED  BY <1>2, <2>6, <2>7, <3>1, <4>1 DEF FoundAgain
    <3>2. CASE k \in 1..j
      <4>1. PICK l \in 1..Len(d.items) : SameItem(d.items[l], items[k])
        BY <1>6, <2>13, <3>2 DEF ReadSoFar, FoundAgain
      <4>2. l \in 1..Len(e.items)
        BY <2>7
      <4> QED  BY <2>7, <4>1, <4>2 DEF FoundAgain
    <3> QED  BY <3>1, <3>2
  <2>14. ReadSoFar(e, preamble, items, j + 1)
    BY <2>5, <2>11, <2>12, <2>13 DEF ReadSoFar
  <2> QED  BY <2>4, <2>14
<1> QED  BY <1>12, <1>13

\* What is written is read again: every item whose opening line can be read, all
\* of its words unless one of its lines ends it, and no others.
WrittenIsRead(doc, preamble, items) ==
    /\ StaysPlain(preamble, doc.preamble)
    /\ doc.items \in Seq(ItemRecord) /\ Distinct(doc.items)
    /\ \A k \in 1..Len(doc.items) : WholeItem(doc.items[k]) /\ IsAmong(items, Len(items), doc.items[k].id)
    /\ \A k \in 1..Len(items) : items[k].tag # "angle" => FoundAgain(doc.items, items[k])

\* What is written is read again: the preamble stays first, every item that is
\* read was written, and every item whose tag can be read comes back whole.
LEMMA RoundTrip ==
    ASSUME NEW preamble \in Seq(FileLine), \A k \in 1..Len(preamble) : ~Opens(preamble[k]),
           NEW items \in Seq(WrittenItem), Distinct(items)
    PROVE  WrittenIsRead(ParseMemoryDocument(RenderMemoryDocument(preamble, items)), preamble, items)
<1>1. PICK page \in Seq(FileLine) : page = RenderMemoryDocument(preamble, items)
  BY WholeIsLaidOut
<1>2. PICK b : LaidOut(page, b, preamble, items)
  BY <1>1, WholeIsLaidOut
<1>3. PICK t : Reading(t, page)
  BY ParseFold
<1>4. /\ t[0] = NothingRead
      /\ \A k \in 1..Len(page) : t[k] = ParseLine(t[k - 1], page[k])
      /\ \A k \in 0..Len(page) : t[k] \in ReadDoc
      /\ ParseMemoryDocument(page) = [preamble |-> t[Len(page)].preamble, items |-> WithText(t[Len(page)].items)]
  BY <1>3 DEF Reading
<1>5. /\ b[0] = Len(preamble) /\ b[Len(items)] = Len(page) /\ Len(preamble) \in Nat /\ Len(items) \in Nat
      /\ b[0] <= Len(page) /\ Len(page) \in Nat
      /\ \A k \in 1..Len(preamble) : page[k] = preamble[k]
  BY <1>2 DEF LaidOut
<1>6. ReadSoFar(t[b[0]], preamble, items, 0)
  <2> DEFINE Begun(d, k) ==
               /\ d \in ReadDoc /\ ~d.open /\ d.items = <<>> /\ Len(d.preamble) = k
               /\ \A i \in 1..k : d.preamble[i] = preamble[i]
             Good == {k \in Nat : k <= Len(preamble) => Begun(t[k], k)}
  <2>1. 0 \in Good
    <3>1. NothingRead \in ReadDoc /\ ~NothingRead.open /\ NothingRead.items = <<>> /\ NothingRead.preamble = <<>>
      BY DEF NothingRead, ReadDoc
    <3>2. Len(NothingRead.preamble) = 0 /\ \A i \in 1..0 : FALSE
      BY <3>1
    <3>3. Begun(NothingRead, 0)
      BY <3>1, <3>2
    <3> QED  BY <1>4, <3>3
  <2>2. ASSUME NEW k \in Nat, k \in Good PROVE k + 1 \in Good
    <3> SUFFICES ASSUME k + 1 <= Len(preamble) PROVE Begun(t[k + 1], k + 1)
      OBVIOUS
    <3>1. PICK d \in ReadDoc : d = t[k] /\ Begun(d, k)
      BY <1>5, <2>2
    <3>2. PICK line \in FileLine : line = preamble[k + 1] /\ ~Opens(line)
      <4>1. k + 1 \in 1..Len(preamble)
        BY <1>5
      <4> QED  BY <4>1
    <3>3. t[k + 1] = ParseLine(d, line)
      <4>1. k + 1 \in 1..Len(preamble) /\ k + 1 \in 1..Len(page) /\ (k + 1) - 1 = k
        BY <1>5
      <4> QED  BY <1>4, <1>5, <3>1, <3>2, <4>1
    <3>4. ParseLine(d, line) = [preamble |-> Append(d.preamble, line), items |-> d.items, open |-> FALSE]
      BY <3>1, <3>2, LineIs
    <3>5. ParseLine(d, line) \in ReadDoc
      BY ParseTyped
    <3>6. d.preamble \in Seq(FileLine)
      BY DEF ReadDoc
    <3>7. PICK p : p = Append(d.preamble, line)
      OBVIOUS
    <3>8. Len(p) = k + 1 /\ \A i \in 1..k + 1 : p[i] = preamble[i]
      <4>1. /\ Len(p) = Len(d.preamble) + 1 /\ p[Len(d.preamble) + 1] = line
            /\ \A i \in 1..Len(d.preamble) : p[i] = d.preamble[i]
        BY <3>6, <3>7, AppendProperties
      <4>2. \A i \in 1..k + 1 : i = k + 1 \/ i \in 1..k
        OBVIOUS
      <4> QED  BY <3>1, <3>2, <4>1, <4>2
    <3> QED  BY <3>1, <3>3, <3>4, <3>5, <3>7, <3>8
  <2>3. Len(preamble) \in Good
    <3> HIDE DEF Good
    <3> QED  BY <1>5, <2>1, <2>2, SetInduction
  <2>4. PICK d \in ReadDoc : d = t[b[0]] /\ Begun(d, Len(preamble))
    BY <1>5, <2>3
  <2>5. d.preamble \in Seq(FileLine)
    BY DEF ReadDoc
  <2>6. StaysPlain(preamble, d.preamble)
    BY <1>5, <2>4, <2>5 DEF StaysPlain
  <2>7. \A k \in 1..Len(d.items) : FALSE
    BY <2>4
  <2>8. \A k \in 1..0 : FALSE
    OBVIOUS
  <2> QED  BY <2>4, <2>6, <2>7, <2>8 DEF ReadSoFar, Distinct
<1>7. ReadSoFar(t[b[Len(items)]], preamble, items, Len(items))
  <2> DEFINE Good == {j \in Nat : j <= Len(items) => ReadSoFar(t[b[j]], preamble, items, j)}
  <2>1. 0 \in Good
    BY <1>6
  <2>2. ASSUME NEW j \in Nat, j \in Good PROVE j + 1 \in Good
    <3> SUFFICES ASSUME j + 1 <= Len(items) PROVE ReadSoFar(t[b[j + 1]], preamble, items, j + 1)
      OBVIOUS
    <3>1. j + 1 \in 1..Len(items) /\ ReadSoFar(t[b[j]], preamble, items, j)
      BY <1>5, <2>2
    <3> QED  BY <1>2, <1>3, <3>1, NextItemRead
  <2>3. Len(items) \in Good
    <3> HIDE DEF Good
    <3> QED  BY <1>5, <2>1, <2>2, SetInduction
  <2> QED  BY <2>3
<1>8. PICK d \in ReadDoc : d = t[Len(page)] /\ ReadSoFar(d, preamble, items, Len(items))
  BY <1>5, <1>7 DEF ReadSoFar
<1>9. d.items \in Seq(ItemRecord)
  BY DEF ReadDoc
<1>10. WithText(d.items) = d.items
  <2>1. CASE d.items = <<>>
    BY <1>9, <2>1, WithTextIs
  <2>2. CASE d.items # <<>>
    <3>1. Len(d.items) \in 1..Len(d.items)
      BY <1>9, <2>2, EmptySeq
    <3>2. d.items[Len(d.items)].text # <<>>
      BY <1>8, <3>1 DEF ReadSoFar, WholeItem
    <3> QED  BY <1>9, <2>2, <3>2, WithTextIs
  <2> QED  BY <2>1, <2>2
<1>11. PICK doc : doc = ParseMemoryDocument(page) /\ doc.preamble = d.preamble /\ doc.items = d.items
  BY <1>4, <1>8, <1>10
<1>12. WrittenIsRead(doc, preamble, items)
  BY <1>8, <1>9, <1>11 DEF WrittenIsRead, ReadSoFar
<1> QED  BY <1>1, <1>11, <1>12

\* Nothing is read from an empty file.
LEMMA NothingIsRead == LET doc == ParseMemoryDocument(<<>>) IN doc.preamble = <<>> /\ doc.items = <<>>
<1>1. PICK none \in Seq(FileLine) : none = <<>> /\ Len(none) = 0
  <2>1. <<>> \in Seq(FileLine) /\ Len(<<>>) = 0
    OBVIOUS
  <2> QED  BY <2>1, Zenon
<1>2. PICK t : Reading(t, none)
  BY ParseFold
<1>3. ParseMemoryDocument(none) = [preamble |-> <<>>, items |-> WithText(<<>>)]
  BY <1>1, <1>2 DEF Reading, NothingRead
<1>4. WithText(<<>>) = <<>>
  BY DEF WithText
<1> QED  BY <1>1, <1>3, <1>4

\* An item as it was meant.
KeptItem == [id : Nat, status : {"active", "archived", "gone"}, tag : {"plain", "quoted", "angle"}, text : DocTexts]

DocTypes ==
    /\ handwritten \in Handwritten /\ docBody \in Seq(FileLine)
    /\ docOps \in 0..MaxDocOps
    /\ kept \in Seq(KeptItem) /\ Len(kept) <= MaxDocItems
    /\ \A i \in 1..Len(kept) : kept[i].id = i

\* Neither deleted, nor with an attribute that hides the line it is in.
MayBeRead(i) == i \in 1..Len(kept) /\ kept[i].status # "gone" /\ kept[i].tag # "angle"

\* Every item that is read is one that was made and not deleted, and every one
\* whose attributes can be read is there.
ItemsAreKept(doc) ==
    /\ doc.items \in Seq(ItemRecord) /\ Distinct(doc.items)
    /\ \A k \in 1..Len(doc.items) :
          /\ WholeItem(doc.items[k])
          /\ MayBeRead(doc.items[k].id)
    /\ \A i \in 1..Len(kept) :
          kept[i].status # "gone" /\ kept[i].tag # "angle" => FoundAgain(doc.items, kept[i])

DocInv ==
    /\ DocTypes
    /\ StaysPlain(handwritten, ParseMemoryDocument(docBody).preamble)
    /\ ItemsAreKept(ParseMemoryDocument(docBody))

\* The item that is written for one as it was meant.
Stands(item, meant) ==
    /\ item.tag # "angle"
    /\ item.id = meant.id /\ item.status = meant.status /\ ReadTag(item.tag) = ReadTag(meant.tag)
    /\ NoEndWithin(meant.text) => SameWords(item.text, meant.text)
StoodFor(items, meant) == \E k \in 1..Len(items) : Stands(items[k], meant)

\* What is the same as an item that stands for another is the same as the other.
LEMMA StandsIsSame ==
    ASSUME NEW a, NEW item, NEW meant, SameItem(a, item), Stands(item, meant),
           Len(item.text) \in Nat, Len(meant.text) \in Nat
    PROVE  SameItem(a, meant)
<1>1. SameMarks(a, meant)
  BY DEF SameItem, SameMarks, Stands
<1>2. ASSUME NoEndWithin(meant.text) PROVE SameWords(a.text, meant.text)
  <2>1. SameWords(item.text, meant.text)
    BY <1>2 DEF Stands
  <2>2. NoEndWithin(item.text)
    BY <1>2, <2>1 DEF NoEndWithin, SameWords
  <2>3. SameWords(a.text, item.text)
    BY <2>2 DEF SameItem
  <2> QED  BY <2>1, <2>3 DEF SameWords
<1> QED  BY <1>1, <1>2 DEF SameItem

\* What was read of an item stands for it.
LEMMA SameStands ==
    ASSUME NEW a, NEW meant, SameItem(a, meant), WholeItem(a)
    PROVE  Stands(a, meant)
  BY DEF SameItem, SameMarks, Stands, WholeItem, ReadTag

\* The file is written: what is written must stand for what is meant.
LEMMA WriteKeeps ==
    ASSUME DocInv, DocTypes', NEW preamble, StaysPlain(handwritten, preamble),
           NEW items \in Seq(WrittenItem), Distinct(items), WriteDocument(preamble, items),
           \A k \in 1..Len(items) : items[k].tag # "angle" => MayBeRead(items[k].id)',
           \A i \in 1..Len(kept') :
              kept'[i].status # "gone" /\ kept'[i].tag # "angle" => StoodFor(items, kept'[i])
    PROVE  DocInv'
<1>1. docBody' = RenderMemoryDocument(preamble, items) /\ handwritten' = handwritten
  BY DEF WriteDocument
<1>2. preamble \in Seq(FileLine) /\ \A k \in 1..Len(preamble) : ~Opens(preamble[k])
  BY DEF StaysPlain
<1>3. PICK doc : doc = ParseMemoryDocument(docBody') /\ WrittenIsRead(doc, preamble, items)
  BY <1>1, <1>2, RoundTrip
<1>4. StaysPlain(handwritten, doc.preamble)
  <2>1. StaysPlain(preamble, doc.preamble)
    BY <1>3 DEF WrittenIsRead
  <2>2. handwritten \in Seq(DocLines)
    BY DocAssumption DEF DocInv, DocTypes
  <2>3. Len(handwritten) \in Nat /\ Len(preamble) \in Nat /\ Len(doc.preamble) \in Nat
    BY <1>2, <2>1, <2>2 DEF StaysPlain
  <2>4. Len(handwritten) <= Len(preamble) /\ Len(preamble) <= Len(doc.preamble)
    BY <2>1 DEF StaysPlain
  <2>5. \A k \in 1..Len(handwritten) : k \in 1..Len(preamble)
    BY <2>3, <2>4
  <2> QED  BY <2>1, <2>3, <2>4, <2>5 DEF StaysPlain
<1>5. /\ doc.items \in Seq(ItemRecord) /\ Distinct(doc.items)
      /\ \A k \in 1..Len(doc.items) : WholeItem(doc.items[k]) /\ IsAmong(items, Len(items), doc.items[k].id)
      /\ \A k \in 1..Len(items) : items[k].tag # "angle" => FoundAgain(doc.items, items[k])
  BY <1>3 DEF WrittenIsRead
<1>6. ASSUME NEW k \in 1..Len(doc.items)
      PROVE  MayBeRead(doc.items[k].id)'
  BY <1>5 DEF IsAmong
<1>7. ASSUME NEW i \in 1..Len(kept'), kept'[i].status # "gone", kept'[i].tag # "angle"
      PROVE  FoundAgain(doc.items, kept'[i])
  <2>1. PICK k \in 1..Len(items) : Stands(items[k], kept'[i])
    BY <1>7 DEF StoodFor
  <2>2. PICK l \in 1..Len(doc.items) : SameItem(doc.items[l], items[k])
    BY <1>5, <2>1 DEF Stands, FoundAgain
  <2>3. Len(items[k].text) \in Nat
    <3>1. items[k] \in WrittenItem
      OBVIOUS
    <3> QED  BY <3>1 DEF WrittenItem
  <2>4. Len(kept'[i].text) \in Nat
    <3>1. kept'[i] \in KeptItem
      BY DEF DocTypes
    <3>2. kept'[i].text \in Seq(DocLines)
      BY <3>1, DocAssumption DEF KeptItem
    <3> QED  BY <3>2
  <2>5. SameItem(doc.items[l], kept'[i])
    BY <2>1, <2>2, <2>3, <2>4, StandsIsSame
  <2> QED  BY <2>5 DEF FoundAgain
<1>8. ItemsAreKept(doc)'
  BY <1>5, <1>6, <1>7 DEF ItemsAreKept
<1> QED  BY <1>1, <1>3, <1>4, <1>8 DEF DocInv

\* What is known of a document that was read, as it is written again.
LEMMA ReadStands ==
    ASSUME DocInv, NEW doc, doc = ParseMemoryDocument(docBody)
    PROVE  /\ doc.items \in Seq(WrittenItem) /\ Distinct(doc.items) /\ StaysPlain(handwritten, doc.preamble)
           /\ \A k \in 1..Len(doc.items) : MayBeRead(doc.items[k].id)
           /\ \A i \in 1..Len(kept) : kept[i].status # "gone" /\ kept[i].tag # "angle" => StoodFor(doc.items, kept[i])
<1>1. ItemsAreKept(doc) /\ StaysPlain(handwritten, doc.preamble)
  BY DEF DocInv
<1>2. doc.items \in Seq(ItemRecord) /\ \A k \in 1..Len(doc.items) : WholeItem(doc.items[k])
  BY <1>1 DEF ItemsAreKept
<1>3. doc.items \in Seq(WrittenItem)
  <2>1. ASSUME NEW k \in 1..Len(doc.items) PROVE doc.items[k] \in WrittenItem
    <3>1. PICK a \in ItemRecord : a = doc.items[k] /\ WholeItem(a)
      BY <1>2
    <3>2. a \in WrittenItem
      BY <3>1 DEF ItemRecord, WrittenItem, WholeItem
    <3> QED  BY <3>1, <3>2
  <2> QED  BY <1>2, <2>1
<1>4. ASSUME NEW i \in 1..Len(kept), kept[i].status # "gone", kept[i].tag # "angle" PROVE StoodFor(doc.items, kept[i])
  <2>1. PICK k \in 1..Len(doc.items) : SameItem(doc.items[k], kept[i])
    BY <1>1, <1>4 DEF ItemsAreKept, FoundAgain
  <2> QED  BY <1>2, <2>1, SameStands DEF StoodFor
<1> QED  BY <1>1, <1>3, <1>4 DEF ItemsAreKept

\* A file that has been written has the type of a file.
LEMMA DocWritten ==
    ASSUME DocInv, NEW preamble, NEW items, WriteDocument(preamble, items),
           RenderMemoryDocument(preamble, items) \in Seq(FileLine),
           kept' \in Seq(KeptItem), Len(kept') <= MaxDocItems, \A i \in 1..Len(kept') : kept'[i].id = i
    PROVE  DocTypes'
<1>1. handwritten' = handwritten /\ docBody' = RenderMemoryDocument(preamble, items)
      /\ docOps < MaxDocOps /\ docOps' = docOps + 1
  BY DEF WriteDocument
<1>2. docOps' \in 0..MaxDocOps
  BY <1>1, DocAssumption DEF DocInv, DocTypes
<1> QED  BY <1>1, <1>2 DEF DocInv, DocTypes

\* An item made is one more, below a title in a file that was empty.
LEMMA CreateKeeps ==
    ASSUME DocInv, NEW text \in DocTexts, NEW tag \in {"plain", "quoted", "angle"}, CreateDocItem(text, tag)
    PROVE  DocInv'
<1>1. PICK doc : doc = ParseMemoryDocument(docBody)
  OBVIOUS
<1>2. /\ doc.items \in Seq(WrittenItem) /\ Distinct(doc.items) /\ StaysPlain(handwritten, doc.preamble)
      /\ \A k \in 1..Len(doc.items) : MayBeRead(doc.items[k].id)
      /\ \A i \in 1..Len(kept) : kept[i].status # "gone" /\ kept[i].tag # "angle" => StoodFor(doc.items, kept[i])
  BY <1>1, ReadStands
<1>3. PICK item : item = [id |-> Len(kept) + 1, status |-> "active", tag |-> tag, text |-> text]
  OBVIOUS
<1>4. PICK preamble : preamble = IF docBody = <<>> THEN <<Title>> ELSE doc.preamble
  OBVIOUS
<1>5. /\ Len(kept) < MaxDocItems /\ kept' = Append(kept, item)
      /\ WriteDocument(preamble, Append(doc.items, item))
  BY <1>1, <1>3, <1>4 DEF CreateDocItem
<1>6. /\ kept \in Seq(KeptItem) /\ Len(kept) \in Nat /\ \A i \in 1..Len(kept) : kept[i].id = i
      /\ text \in Seq(DocLines) /\ text # <<>>
  BY DocAssumption DEF DocInv, DocTypes
<1>7. item \in WrittenItem /\ item \in KeptItem /\ item.status = "active" /\ item.id = Len(kept) + 1
  BY <1>3, <1>6 DEF WrittenItem, KeptItem, DocTags
<1>8. PICK more : more = Append(doc.items, item)
  OBVIOUS
<1>9. /\ more \in Seq(WrittenItem) /\ Len(more) = Len(doc.items) + 1 /\ more[Len(doc.items) + 1] = item
      /\ \A k \in 1..Len(doc.items) : more[k] = doc.items[k] /\ k \in 1..Len(more)
      /\ Len(doc.items) \in Nat /\ \A k \in 1..Len(more) : k = Len(doc.items) + 1 \/ k \in 1..Len(doc.items)
  <2>1. /\ more \in Seq(WrittenItem) /\ Len(more) = Len(doc.items) + 1 /\ more[Len(doc.items) + 1] = item
        /\ \A k \in 1..Len(doc.items) : more[k] = doc.items[k]
    BY <1>2, <1>7, <1>8, AppendProperties
  <2>2. Len(doc.items) \in Nat
    BY <1>2
  <2> QED  BY <2>1, <2>2
<1>10. PICK after : after = kept'
  OBVIOUS
<1>11. /\ after \in Seq(KeptItem) /\ Len(after) = Len(kept) + 1 /\ after[Len(kept) + 1] = item
       /\ \A i \in 1..Len(kept) : after[i] = kept[i]
  BY <1>5, <1>6, <1>7, <1>10, AppendProperties
<1>12. \A i \in 1..Len(after) : i = Len(kept) + 1 \/ i \in 1..Len(kept)
  BY <1>6, <1>11
<1>13. Distinct(more)
  <2> SUFFICES ASSUME NEW k \in 1..Len(more), NEW l \in 1..Len(more), more[k].id = more[l].id PROVE k = l
    BY DEF Distinct
  <2>1. CASE k \in 1..Len(doc.items) /\ l \in 1..Len(doc.items)
    BY <1>2, <1>9, <2>1 DEF Distinct
  <2>2. \A i \in 1..Len(doc.items) : more[i].id # item.id
    <3>1. ASSUME NEW i \in 1..Len(doc.items) PROVE more[i].id # item.id
      <4>1. PICK j \in 1..Len(kept) : j = more[i].id
        BY <1>2, <1>9 DEF MayBeRead
      <4>2. j # Len(kept) + 1
        BY <1>6
      <4> QED  BY <1>7, <4>1, <4>2
    <3> QED  BY <3>1
  <2> QED  BY <1>9, <2>1, <2>2
<1>14. \A k \in 1..Len(more) : more[k].tag # "angle" => MayBeRead(more[k].id)'
  <2>1. ASSUME NEW k \in 1..Len(doc.items) PROVE MayBeRead(more[k].id)'
    <3>1. PICK i \in 1..Len(kept) : i = more[k].id /\ kept[i].status # "gone" /\ kept[i].tag # "angle"
      BY <1>2, <1>9 DEF MayBeRead
    <3>2. i \in 1..Len(after)
      BY <1>6, <1>11
    <3> QED  BY <1>10, <1>11, <3>1, <3>2 DEF MayBeRead
  <2>2. item.tag # "angle" => MayBeRead(item.id)'
    <3>1. item.id \in 1..Len(after) /\ after[item.id] = item
      BY <1>6, <1>7, <1>11
    <3> QED  BY <1>7, <1>10, <3>1 DEF MayBeRead
  <2> QED  BY <1>9, <2>1, <2>2
<1>15. ASSUME NEW i \in 1..Len(after), after[i].status # "gone", after[i].tag # "angle" PROVE StoodFor(more, after[i])
  <2>1. CASE i = Len(kept) + 1
    <3>1. Stands(item, item)
      BY <1>11, <1>15, <2>1 DEF Stands, SameWords
    <3>2. Len(doc.items) + 1 \in 1..Len(more)
      BY <1>9
    <3> QED  BY <1>9, <1>11, <2>1, <3>1, <3>2 DEF StoodFor
  <2>2. CASE i \in 1..Len(kept)
    <3>1. PICK k \in 1..Len(doc.items) : Stands(doc.items[k], kept[i])
      BY <1>2, <1>11, <1>15, <2>2 DEF StoodFor
    <3> QED  BY <1>9, <1>11, <2>2, <3>1 DEF StoodFor
  <2> QED  BY <1>12, <2>1, <2>2
<1>16. StaysPlain(handwritten, preamble)
  <2>1. CASE docBody # <<>>
    BY <1>2, <1>4, <2>1
  <2>2. CASE docBody = <<>>
    <3>1. preamble = <<Title>>
      BY <1>4, <2>2
    <3>2. doc.preamble = <<>>
      BY <1>1, <2>2, NothingIsRead
    <3>3. handwritten \in Seq(DocLines)
      BY DocAssumption DEF DocInv, DocTypes
    <3>4. Len(handwritten) = 0
      <4>1. Len(handwritten) <= Len(doc.preamble)
        BY <1>2 DEF StaysPlain
      <4> QED  BY <3>2, <3>3, <4>1
    <3>5. PICK line \in FileLine : line = Title /\ ~Opens(line)
      <4>1. Title \in DocLines /\ Title.is = "text"
        BY DEF Title, DocText, DocLines
      <4>2. Title \in FileLine /\ ~Opens(Title)
        BY <4>1 DEF FileLine, Opens
      <4> QED  BY <4>2
    <3>6. PICK p : p = <<line>>
      OBVIOUS
    <3>7. p \in Seq(FileLine) /\ Len(p) = 1 /\ p[1] = line
      BY <3>6
    <3>8. StaysPlain(handwritten, p)
      BY <3>4, <3>5, <3>7 DEF StaysPlain
    <3> QED  BY <3>1, <3>5, <3>6, <3>8
  <2> QED  BY <2>1, <2>2
<1>17. DocTypes'
  <2>1. RenderMemoryDocument(preamble, more) \in Seq(FileLine)
    BY <1>9, <1>16, WholeIsLaidOut DEF StaysPlain
  <2>2. Len(after) <= MaxDocItems
    BY <1>5, <1>6, <1>11, DocAssumption
  <2>3. \A i \in 1..Len(after) : after[i].id = i
    BY <1>6, <1>7, <1>11, <1>12
  <2> QED  BY <1>5, <1>8, <1>10, <1>11, <2>1, <2>2, <2>3, DocWritten
<1> QED  BY <1>5, <1>8, <1>9, <1>10, <1>13, <1>14, <1>15, <1>16, <1>17, WriteKeeps

\* An item that was found is changed as it was meant, and no other one is.
LEMMA ChangeKeeps ==
    ASSUME DocInv, NEW doc, doc = ParseMemoryDocument(docBody), NEW i \in 1..Len(kept), NEW k \in 1..Len(doc.items),
           doc.items[k].id = i, NEW item \in WrittenItem, NEW meant \in KeptItem,
           item.id = i, meant.id = i, meant.status # "gone", meant.tag # "angle" => Stands(item, meant),
           item.tag # "angle" => meant.tag # "angle",
           WriteDocument(doc.preamble, [doc.items EXCEPT ![k] = item]), kept' = [kept EXCEPT ![i] = meant]
    PROVE  DocInv'
<1>1. /\ doc.items \in Seq(WrittenItem) /\ Distinct(doc.items) /\ StaysPlain(handwritten, doc.preamble)
      /\ \A l \in 1..Len(doc.items) : MayBeRead(doc.items[l].id)
      /\ \A j \in 1..Len(kept) : kept[j].status # "gone" /\ kept[j].tag # "angle" => StoodFor(doc.items, kept[j])
  BY ReadStands
<1>2. kept \in Seq(KeptItem) /\ Len(kept) <= MaxDocItems /\ \A j \in 1..Len(kept) : kept[j].id = j
  BY DEF DocInv, DocTypes
<1>3. [doc.items EXCEPT ![k] = item] \in Seq(WrittenItem) /\ [kept EXCEPT ![i] = meant] \in Seq(KeptItem)
  BY <1>1, <1>2
<1>4. PICK changed \in Seq(WrittenItem) : changed = [doc.items EXCEPT ![k] = item]
  BY <1>3, Zenon
<1>5. PICK after \in Seq(KeptItem) : after = [kept EXCEPT ![i] = meant] /\ after = kept'
  BY <1>3, Zenon
<1>6. Len(changed) = Len(doc.items) /\ changed[k] = item /\ \A l \in 1..Len(doc.items) : l # k => changed[l] = doc.items[l]
  BY <1>1, <1>4
<1>7. Len(after) = Len(kept) /\ after[i] = meant /\ \A j \in 1..Len(kept) : j # i => after[j] = kept[j]
  BY <1>2, <1>5
<1>8. \A l \in 1..Len(changed) : changed[l].id = doc.items[l].id
  BY <1>6
<1>9. Distinct(changed)
  BY <1>1, <1>6, <1>8 DEF Distinct
<1>10. ASSUME NEW l \in 1..Len(changed), changed[l].tag # "angle" PROVE MayBeRead(changed[l].id)'
  <2>1. CASE l = k
    BY <1>5, <1>6, <1>7, <1>10, <2>1 DEF MayBeRead
  <2>2. CASE l # k
    <3>1. doc.items[l].id # i
      BY <1>1, <1>6, <2>2 DEF Distinct
    <3> QED  BY <1>1, <1>5, <1>6, <1>7, <2>2, <3>1 DEF MayBeRead
  <2> QED  BY <2>1, <2>2
<1>11. ASSUME NEW j \in 1..Len(after), after[j].status # "gone", after[j].tag # "angle" PROVE StoodFor(changed, after[j])
  <2>1. CASE j = i
    BY <1>6, <1>7, <1>11, <2>1 DEF StoodFor
  <2>2. CASE j # i
    <3>1. PICK l \in 1..Len(doc.items) : Stands(doc.items[l], kept[j])
      BY <1>1, <1>7, <1>11, <2>2 DEF StoodFor
    <3>2. l # k
      BY <1>2, <1>7, <2>2, <3>1 DEF Stands
    <3> QED  BY <1>6, <1>7, <2>2, <3>1, <3>2 DEF StoodFor
  <2> QED  BY <2>1, <2>2
<1>12. DocTypes'
  <2>1. RenderMemoryDocument(doc.preamble, changed) \in Seq(FileLine)
    BY <1>1, WholeIsLaidOut DEF StaysPlain
  <2>2. \A j \in 1..Len(after) : after[j].id = j
    BY <1>2, <1>7
  <2>3. after \in Seq(KeptItem) /\ Len(after) <= MaxDocItems
    BY <1>2, <1>7
  <2> QED  BY <1>4, <1>5, <2>1, <2>2, <2>3, DocWritten
<1> QED  BY <1>1, <1>4, <1>5, <1>9, <1>10, <1>11, <1>12, WriteKeeps

\* Where the item is found, its position and its name belong to each other.
LEMMA FoundItem ==
    ASSUME DocInv, NEW doc, doc = ParseMemoryDocument(docBody), NEW i \in DOMAIN kept, NEW k \in WithId(doc, i)
    PROVE  /\ i \in 1..Len(kept) /\ k \in 1..Len(doc.items) /\ doc.items[k].id = i
           /\ kept[i] \in KeptItem /\ kept[i].id = i /\ MayBeRead(i)
           /\ doc.items[k] \in WrittenItem /\ doc.items \in Seq(WrittenItem)
           /\ Stands(doc.items[k], kept[i])
<1>1. /\ doc.items \in Seq(WrittenItem) /\ Distinct(doc.items)
      /\ \A l \in 1..Len(doc.items) : MayBeRead(doc.items[l].id)
      /\ \A j \in 1..Len(kept) : kept[j].status # "gone" /\ kept[j].tag # "angle" => StoodFor(doc.items, kept[j])
  BY ReadStands
<1>2. kept \in Seq(KeptItem) /\ \A j \in 1..Len(kept) : kept[j].id = j
  BY DEF DocInv, DocTypes
<1>3. i \in 1..Len(kept) /\ k \in 1..Len(doc.items) /\ doc.items[k].id = i
  BY <1>1, <1>2 DEF WithId
<1>4. Stands(doc.items[k], kept[i])
  <2>1. PICK l \in 1..Len(doc.items) : Stands(doc.items[l], kept[i])
    BY <1>1, <1>3 DEF StoodFor, MayBeRead
  <2>2. l = k
    BY <1>1, <1>2, <1>3, <2>1 DEF Stands, Distinct
  <2> QED  BY <2>1, <2>2
<1>5. MayBeRead(i)
  BY <1>1, <1>3
<1> QED  BY <1>1, <1>2, <1>3, <1>4, <1>5

\* Updating an item replaces its text and its tag, and no other item.
LEMMA UpdateKeeps ==
    ASSUME DocInv, NEW text \in DocTexts, NEW tag \in {"plain", "quoted", "angle"}, NEW i \in DOMAIN kept,
           UpdateDocItem(i, text, tag)
    PROVE  DocInv'
<1>1. PICK doc : doc = ParseMemoryDocument(docBody)
  OBVIOUS
<1>2. PICK k \in WithId(doc, i) :
         /\ WriteDocument(doc.preamble, [doc.items EXCEPT ![k].text = text, ![k].tag = tag])
         /\ kept' = [kept EXCEPT ![i].text = text, ![i].tag = tag]
  BY <1>1 DEF UpdateDocItem
<1>3. /\ i \in 1..Len(kept) /\ k \in 1..Len(doc.items) /\ doc.items[k].id = i
      /\ kept[i] \in KeptItem /\ kept[i].id = i /\ kept[i].status # "gone"
      /\ doc.items[k] \in WrittenItem /\ doc.items \in Seq(WrittenItem)
      /\ doc.items[k].status = kept[i].status
  BY <1>1, FoundItem DEF MayBeRead, Stands
<1>4. kept \in Seq(KeptItem) /\ text \in Seq(DocLines) /\ text # <<>>
  BY DocAssumption DEF DocInv, DocTypes
<1>5. PICK old \in WrittenItem : old = doc.items[k]
  BY <1>3
<1>6. PICK item \in WrittenItem :
         /\ item = [old EXCEPT !.text = text, !.tag = tag]
         /\ item.id = i /\ item.status = old.status /\ item.tag = tag /\ item.text = text
  <2>1. [old EXCEPT !.text = text, !.tag = tag] \in WrittenItem
    BY <1>4 DEF WrittenItem, DocTags
  <2> QED  BY <1>3, <1>5, <2>1 DEF WrittenItem
<1>7. PICK was \in KeptItem : was = kept[i]
  BY <1>3
<1>8. PICK meant \in KeptItem :
         /\ meant = [was EXCEPT !.text = text, !.tag = tag]
         /\ meant.id = i /\ meant.status = was.status /\ meant.tag = tag /\ meant.text = text
  <2>1. [was EXCEPT !.text = text, !.tag = tag] \in KeptItem
    BY DEF KeptItem
  <2> QED  BY <1>3, <1>7, <2>1 DEF KeptItem
<1>9. [doc.items EXCEPT ![k].text = text, ![k].tag = tag] = [doc.items EXCEPT ![k] = item]
  BY <1>3, <1>5, <1>6
<1>10. [kept EXCEPT ![i].text = text, ![i].tag = tag] = [kept EXCEPT ![i] = meant]
  BY <1>3, <1>4, <1>7, <1>8
<1>11. meant.tag # "angle" => Stands(item, meant)
  BY <1>3, <1>5, <1>6, <1>7, <1>8 DEF Stands, SameWords
<1>12. meant.status # "gone" /\ (item.tag # "angle" => meant.tag # "angle")
  BY <1>3, <1>6, <1>7, <1>8
<1>13. WriteDocument(doc.preamble, [doc.items EXCEPT ![k] = item]) /\ kept' = [kept EXCEPT ![i] = meant]
  BY <1>2, <1>9, <1>10
<1> QED  BY <1>1, <1>3, <1>6, <1>8, <1>11, <1>12, <1>13, ChangeKeeps

\* Marking an item changes its status, and no other item.
LEMMA MarkKeeps ==
    ASSUME DocInv, NEW status \in {"active", "archived"}, NEW i \in DOMAIN kept, MarkDocItem(i, status)
    PROVE  DocInv'
<1>1. PICK doc : doc = ParseMemoryDocument(docBody)
  OBVIOUS
<1>2. PICK k \in WithId(doc, i) :
         /\ WriteDocument(doc.preamble, [doc.items EXCEPT ![k].status = status])
         /\ kept' = [kept EXCEPT ![i].status = status]
  BY <1>1 DEF MarkDocItem
<1>3. /\ i \in 1..Len(kept) /\ k \in 1..Len(doc.items) /\ doc.items[k].id = i
      /\ kept[i] \in KeptItem /\ kept[i].id = i /\ kept[i].tag # "angle"
      /\ doc.items[k] \in WrittenItem /\ doc.items \in Seq(WrittenItem)
      /\ Stands(doc.items[k], kept[i])
  BY <1>1, FoundItem DEF MayBeRead
<1>4. kept \in Seq(KeptItem)
  BY DEF DocInv, DocTypes
<1>5. PICK old \in WrittenItem : old = doc.items[k]
  BY <1>3
<1>6. PICK item \in WrittenItem :
         /\ item = [old EXCEPT !.status = status]
         /\ item.id = i /\ item.status = status /\ item.tag = old.tag /\ item.text = old.text
  <2>1. [old EXCEPT !.status = status] \in WrittenItem
    BY DEF WrittenItem
  <2> QED  BY <1>3, <1>5, <2>1 DEF WrittenItem
<1>7. PICK was \in KeptItem : was = kept[i]
  BY <1>3
<1>8. PICK meant \in KeptItem :
         /\ meant = [was EXCEPT !.status = status]
         /\ meant.id = i /\ meant.status = status /\ meant.tag = was.tag /\ meant.text = was.text
  <2>1. [was EXCEPT !.status = status] \in KeptItem
    BY DEF KeptItem
  <2> QED  BY <1>3, <1>7, <2>1 DEF KeptItem
<1>9. [doc.items EXCEPT ![k].status = status] = [doc.items EXCEPT ![k] = item]
  BY <1>3, <1>5, <1>6
<1>10. [kept EXCEPT ![i].status = status] = [kept EXCEPT ![i] = meant]
  BY <1>3, <1>4, <1>7, <1>8
<1>11. Stands(item, meant)
  BY <1>3, <1>5, <1>6, <1>7, <1>8 DEF Stands
<1>12. meant.status # "gone" /\ (item.tag # "angle" => meant.tag # "angle")
  BY <1>3, <1>7, <1>8
<1>13. WriteDocument(doc.preamble, [doc.items EXCEPT ![k] = item]) /\ kept' = [kept EXCEPT ![i] = meant]
  BY <1>2, <1>9, <1>10
<1> QED  BY <1>1, <1>3, <1>6, <1>8, <1>11, <1>12, <1>13, ChangeKeeps

\* Without one of its elements a sequence has the others, in their order.
LEMMA WithoutOne ==
    ASSUME NEW S, NEW s \in Seq(S), NEW k \in 1..Len(s)
    PROVE  /\ RemoveAt(s, k) \in Seq(S) /\ Len(RemoveAt(s, k)) = Len(s) - 1
           /\ \A m \in 1..Len(s) - 1 : RemoveAt(s, k)[m] = IF m < k THEN s[m] ELSE s[m + 1]
<1>1. \A m \in 1..Len(s) : s[m] \in S
  OBVIOUS
<1>2. PICK a \in Seq(S) : a = SubSeq(s, 1, k - 1) /\ Len(a) = k - 1 /\ \A m \in 1..k - 1 : a[m] = s[m]
  <2>1. /\ SubSeq(s, 1, k - 1) \in Seq(S) /\ Len(SubSeq(s, 1, k - 1)) = k - 1
        /\ \A m \in 1..k - 1 : SubSeq(s, 1, k - 1)[m] = s[m]
    BY <1>1, SubSeqProperties
  <2> QED  BY <2>1, Zenon
<1>3. PICK b \in Seq(S) : b = SubSeq(s, k + 1, Len(s)) /\ Len(b) = Len(s) - k /\ \A m \in 1..Len(s) - k : b[m] = s[k + m]
  <2>1. /\ SubSeq(s, k + 1, Len(s)) \in Seq(S) /\ Len(SubSeq(s, k + 1, Len(s))) = Len(s) - k
        /\ \A m \in 1..Len(s) - k : SubSeq(s, k + 1, Len(s))[m] = s[k + m]
    <3>1. \A m \in k + 1..Len(s) : s[m] \in S
      BY <1>1
    <3> QED  BY <3>1, SubSeqProperties
  <2> QED  BY <2>1, Zenon
<1>4. PICK c : c = a \o b
  OBVIOUS
<1>5. /\ c \in Seq(S) /\ Len(c) = Len(a) + Len(b)
      /\ \A m \in 1..Len(a) + Len(b) : c[m] = IF m <= Len(a) THEN a[m] ELSE b[m - Len(a)]
  BY <1>4, ConcatProperties
<1>8. /\ Len(a) = k - 1 /\ \A m \in 1..k - 1 : a[m] = s[m]
      /\ Len(b) = Len(s) - k /\ \A m \in 1..Len(s) - k : b[m] = s[k + m]
  BY <1>2, <1>3, Zenon
<1>9. Len(s) \in Nat /\ k \in Nat /\ 1 <= k /\ k <= Len(s)
  OBVIOUS
<1>10. Len(c) = Len(s) - 1
  BY <1>5, <1>8, <1>9
<1>6. ASSUME NEW m \in 1..Len(s) - 1 PROVE c[m] = IF m < k THEN s[m] ELSE s[m + 1]
  <2>1. CASE m < k
    <3>1. m \in 1..k - 1 /\ m \in 1..Len(a) + Len(b) /\ m <= Len(a)
      BY <1>8, <1>9, <2>1
    <3> QED  BY <1>5, <1>8, <2>1, <3>1
  <2>2. CASE ~(m < k)
    <3>1. PICK l \in 1..Len(s) - k : l = m - (k - 1)
      BY <1>9, <2>2
    <3>2. m \in 1..Len(a) + Len(b) /\ ~(m <= Len(a)) /\ m - Len(a) = l /\ k + l = m + 1
      BY <1>8, <1>9, <2>2, <3>1
    <3>3. c[m] = b[l] /\ b[l] = s[m + 1]
      BY <1>5, <1>8, <3>2
    <3> QED  BY <2>2, <3>3
  <2> QED  BY <2>1, <2>2
<1>7. RemoveAt(s, k) = c
  BY <1>2, <1>3, <1>4 DEF RemoveAt
<1> QED  BY <1>5, <1>6, <1>7, <1>10

\* Deleting an item takes it from the file, and no other item.
LEMMA DeleteKeeps ==
    ASSUME DocInv, NEW i \in DOMAIN kept, DeleteDocItem(i)
    PROVE  DocInv'
<1>1. PICK doc : doc = ParseMemoryDocument(docBody)
  OBVIOUS
<1>2. PICK k \in WithId(doc, i) :
         /\ WriteDocument(doc.preamble, RemoveAt(doc.items, k))
         /\ kept' = [kept EXCEPT ![i].status = "gone"]
  BY <1>1 DEF DeleteDocItem
<1>3. /\ i \in 1..Len(kept) /\ k \in 1..Len(doc.items) /\ doc.items[k].id = i
      /\ kept[i] \in KeptItem /\ kept[i].id = i
  BY <1>1, FoundItem
<1>4. /\ doc.items \in Seq(WrittenItem) /\ Distinct(doc.items) /\ StaysPlain(handwritten, doc.preamble)
      /\ \A l \in 1..Len(doc.items) : MayBeRead(doc.items[l].id)
      /\ \A j \in 1..Len(kept) : kept[j].status # "gone" /\ kept[j].tag # "angle" => StoodFor(doc.items, kept[j])
  BY <1>1, ReadStands
<1>5. kept \in Seq(KeptItem) /\ Len(kept) <= MaxDocItems /\ \A j \in 1..Len(kept) : kept[j].id = j
  BY DEF DocInv, DocTypes
<1>6. PICK was \in KeptItem : was = kept[i]
  BY <1>3
<1>7. PICK meant \in KeptItem : meant = [was EXCEPT !.status = "gone"] /\ meant.id = i /\ meant.status = "gone"
  <2>1. [was EXCEPT !.status = "gone"] \in KeptItem
    BY DEF KeptItem
  <2> QED  BY <1>3, <1>6, <2>1 DEF KeptItem
<1>8. kept' = [kept EXCEPT ![i] = meant]
  BY <1>2, <1>3, <1>5, <1>6, <1>7
<1>9. [kept EXCEPT ![i] = meant] \in Seq(KeptItem)
  BY <1>3, <1>5
<1>10. PICK after \in Seq(KeptItem) : after = kept' /\ after = [kept EXCEPT ![i] = meant]
  BY <1>8, <1>9, Zenon
<1>11. Len(after) = Len(kept) /\ after[i] = meant /\ \A j \in 1..Len(kept) : j # i => after[j] = kept[j]
  BY <1>5, <1>10
<1>12. PICK fewer \in Seq(WrittenItem) :
          /\ fewer = RemoveAt(doc.items, k) /\ Len(fewer) = Len(doc.items) - 1
          /\ \A m \in 1..Len(doc.items) - 1 : fewer[m] = IF m < k THEN doc.items[m] ELSE doc.items[m + 1]
  <2>1. /\ RemoveAt(doc.items, k) \in Seq(WrittenItem) /\ Len(RemoveAt(doc.items, k)) = Len(doc.items) - 1
        /\ \A m \in 1..Len(doc.items) - 1 : RemoveAt(doc.items, k)[m] = IF m < k THEN doc.items[m] ELSE doc.items[m + 1]
    BY <1>3, <1>4, WithoutOne
  <2> QED  BY <2>1, Zenon
<1> DEFINE from(m) == IF m < k THEN m ELSE m + 1
<1>13. \A m \in 1..Len(fewer) : from(m) \in 1..Len(doc.items) /\ from(m) # k /\ fewer[m] = doc.items[from(m)]
  BY <1>3, <1>4, <1>12
<1>14. \A m, l \in 1..Len(fewer) : from(m) = from(l) => m = l
  BY <1>3, <1>4
<1>15. \A l \in 1..Len(doc.items) : l # k => \E m \in 1..Len(fewer) : from(m) = l
  <2> SUFFICES ASSUME NEW l \in 1..Len(doc.items), l # k PROVE \E m \in 1..Len(fewer) : from(m) = l
    OBVIOUS
  <2>1. CASE l < k
    <3>1. l \in 1..Len(fewer) /\ from(l) = l
      BY <1>3, <1>4, <1>12, <2>1
    <3> QED  BY <3>1
  <2>2. CASE ~(l < k)
    <3>1. l - 1 \in 1..Len(fewer) /\ from(l - 1) = l
      BY <1>3, <1>4, <1>12, <2>2
    <3> HIDE DEF from
    <3> QED  BY <3>1, Zenon
  <2> QED  BY <2>1, <2>2
<1> HIDE DEF from
<1>16. Distinct(fewer)
  BY <1>4, <1>13, <1>14 DEF Distinct
<1>17. ASSUME NEW m \in 1..Len(fewer) PROVE MayBeRead(fewer[m].id)'
  <2>1. PICK l \in 1..Len(doc.items) : l # k /\ fewer[m] = doc.items[l]
    BY <1>13
  <2>2. doc.items[l].id # i /\ MayBeRead(doc.items[l].id)
    BY <1>3, <1>4, <2>1 DEF Distinct
  <2> QED  BY <1>10, <1>11, <2>1, <2>2 DEF MayBeRead
<1>18. ASSUME NEW j \in 1..Len(after), after[j].status # "gone", after[j].tag # "angle" PROVE StoodFor(fewer, after[j])
  <2>1. j # i /\ after[j] = kept[j] /\ j \in 1..Len(kept)
    BY <1>7, <1>11, <1>18
  <2>2. PICK l \in 1..Len(doc.items) : Stands(doc.items[l], kept[j])
    BY <1>4, <1>18, <2>1 DEF StoodFor
  <2>3. l # k
    BY <1>3, <1>5, <2>1, <2>2 DEF Stands
  <2>4. PICK m \in 1..Len(fewer) : from(m) = l
    BY <1>15, <2>3
  <2>5. PICK given : given = fewer[m]
    OBVIOUS
  <2>6. PICK other : other = after[j]
    OBVIOUS
  <2>7. given = doc.items[l] /\ other = kept[j]
    BY <1>13, <2>1, <2>4, <2>5, <2>6
  <2>8. Stands(given, other)
    BY <2>2, <2>7, Zenon
  <2> QED  BY <2>4, <2>5, <2>6, <2>8 DEF StoodFor
<1>19. DocTypes'
  <2>1. RenderMemoryDocument(doc.preamble, fewer) \in Seq(FileLine)
    BY <1>4, WholeIsLaidOut DEF StaysPlain
  <2>2. \A j \in 1..Len(after) : after[j].id = j
    BY <1>5, <1>7, <1>11
  <2>3. after \in Seq(KeptItem) /\ Len(after) <= MaxDocItems
    BY <1>5, <1>11
  <2> QED  BY <1>2, <1>10, <1>12, <2>1, <2>2, <2>3, DocWritten
<1> QED  BY <1>2, <1>4, <1>10, <1>12, <1>16, <1>17, <1>18, <1>19, WriteKeeps

\* In a file written by hand, or in none, every line is preamble.
LEMMA DocInitially == DocInit => DocInv
<1> SUFFICES ASSUME DocInit PROVE DocInv
  OBVIOUS
<1>1. PICK hand \in Seq(FileLine) : hand = handwritten /\ \A k \in 1..Len(hand) : ~Opens(hand[k])
  <2>1. handwritten \in Seq(DocLines)
    BY DocAssumption DEF DocInit
  <2>2. \A k \in 1..Len(handwritten) : ~Opens(handwritten[k])
    <3>1. \A l \in DocLines : ~Opens(l)
      BY DEF DocLines, Opens
    <3>2. \A k \in 1..Len(handwritten) : handwritten[k] \in DocLines
      BY <2>1
    <3> QED  BY <3>1, <3>2
  <2>3. handwritten \in Seq(FileLine)
    BY <2>1 DEF FileLine
  <2> QED  BY <2>2, <2>3
<1>2. PICK none \in Seq(WrittenItem) : none = <<>> /\ Len(none) = 0
  <2>1. <<>> \in Seq(WrittenItem) /\ Len(<<>>) = 0
    OBVIOUS
  <2> QED  BY <2>1, Zenon
<1>3. \A k \in 1..Len(none) : FALSE
  BY <1>2
<1>4. RenderMemoryDocument(hand, none) = hand
  <2>1. PICK r : Writing(r, hand, none)
    BY RenderFold
  <2> QED  BY <1>2, <2>1 DEF Writing
<1>5. PICK doc : doc = ParseMemoryDocument(hand) /\ WrittenIsRead(doc, hand, none)
  <2>1. Distinct(none)
    BY <1>3 DEF Distinct
  <2> QED  BY <1>1, <1>4, <2>1, RoundTrip
<1>6. /\ StaysPlain(hand, doc.preamble) /\ doc.items \in Seq(ItemRecord) /\ Distinct(doc.items)
      /\ \A k \in 1..Len(doc.items) : FALSE
  BY <1>3, <1>5 DEF WrittenIsRead, IsAmong
<1>7. kept \in Seq(KeptItem) /\ Len(kept) = 0 /\ \A i \in 1..Len(kept) : FALSE
  <2>1. kept = <<>>
    BY DEF DocInit
  <2> QED  BY <2>1
<1>8. DocTypes
  BY <1>1, <1>7, DocAssumption DEF DocInit, DocTypes
<1>9. ItemsAreKept(doc)
  BY <1>6, <1>7 DEF ItemsAreKept
<1> QED  BY <1>1, <1>5, <1>6, <1>8, <1>9 DEF DocInit, DocInv

\* The inductive invariant of a file of memories, for any files written by hand
\* and any texts.
LEMMA DocHolds == DocSpec => []DocInv
<1>1. DocInv /\ [DocNext]_docVars => DocInv'
  <2> SUFFICES ASSUME DocInv, [DocNext]_docVars PROVE DocInv'
    OBVIOUS
  <2>1. ASSUME NEW text \in DocTexts, NEW tag \in {"plain", "quoted", "angle"}, CreateDocItem(text, tag) PROVE DocInv'
    BY <2>1, CreateKeeps
  <2>2. ASSUME NEW text \in DocTexts, NEW tag \in {"plain", "quoted", "angle"}, NEW i \in DOMAIN kept,
               UpdateDocItem(i, text, tag) PROVE DocInv'
    BY <2>2, UpdateKeeps
  <2>3. ASSUME NEW status \in {"active", "archived"}, NEW i \in DOMAIN kept, MarkDocItem(i, status) PROVE DocInv'
    BY <2>3, MarkKeeps
  <2>4. ASSUME NEW i \in DOMAIN kept, DeleteDocItem(i) PROVE DocInv'
    BY <2>4, DeleteKeeps
  <2>5. CASE UNCHANGED docVars
    BY <2>5 DEF docVars, DocInv, DocTypes, ItemsAreKept, MayBeRead
  <2> QED  BY <2>1, <2>2, <2>3, <2>4, <2>5, Zenon DEF DocNext
<1> QED  BY <1>1, DocInitially, PTL DEF DocSpec

\* The lines of the file are lines that a memory file may have, and the items
\* are numbered in the order in which they were made.
THEOREM DocumentTyped == DocSpec => []DocTypeOK
<1>1. DocInv => DocTypeOK
  <2> SUFFICES ASSUME DocInv PROVE DocTypeOK
    OBVIOUS
  <2>1. /\ handwritten \in Handwritten /\ docBody \in Seq(FileLine) /\ docOps \in 0..MaxDocOps
        /\ kept \in Seq(KeptItem) /\ Len(kept) <= MaxDocItems /\ \A i \in 1..Len(kept) : kept[i].id = i
    BY DEF DocInv, DocTypes
  <2>2. ASSUME NEW i \in DOMAIN kept
        PROVE  /\ kept[i].id = i /\ kept[i].text \in DocTexts /\ kept[i].tag \in {"plain", "quoted", "angle"}
               /\ kept[i].status \in {"active", "archived", "gone"}
    <3>1. i \in 1..Len(kept) /\ kept[i] \in KeptItem
      BY <2>1
    <3> QED  BY <2>1, <3>1 DEF KeptItem
  <2>3. ASSUME NEW k \in DOMAIN docBody PROVE docBody[k] \in DocLines \/ docBody[k].is = "start"
    <3>1. docBody[k] \in FileLine
      BY <2>1
    <3> QED  BY <3>1 DEF FileLine, StartLine
  <2> QED  BY <2>1, <2>2, <2>3 DEF DocTypeOK
<1> QED  BY <1>1, DocHolds, PTL

\* DocumentIsKept (memory/items.go): after any sequence of operations, each of
\* which reads the whole file and writes it anew, what was written by hand is
\* there, an item that its text form can hold is found once with its status, its
\* words and its tag, and a deleted one is not found.
THEOREM DocumentsKept == DocSpec => []DocumentIsKept
<1>1. DocInv => DocumentIsKept
  <2> SUFFICES ASSUME DocInv PROVE DocumentIsKept
    OBVIOUS
  <2>1. PICK doc : doc = ParseMemoryDocument(docBody)
    OBVIOUS
  <2>2. /\ doc.items \in Seq(ItemRecord) /\ Distinct(doc.items)
        /\ \A k \in 1..Len(doc.items) : WholeItem(doc.items[k]) /\ MayBeRead(doc.items[k].id)
        /\ \A i \in 1..Len(kept) : kept[i].status # "gone" /\ kept[i].tag # "angle" => FoundAgain(doc.items, kept[i])
        /\ StaysPlain(handwritten, doc.preamble)
    BY <2>1 DEF DocInv, ItemsAreKept
  <2>3. kept \in Seq(KeptItem) /\ \A i \in 1..Len(kept) : kept[i].id = i
    BY DEF DocInv, DocTypes
  <2>4. ASSUME NEW i \in DOMAIN kept, kept[i].status = "gone" PROVE WithId(doc, i) = {}
    <3>1. \A k \in 1..Len(doc.items) : doc.items[k].id # i
      BY <2>2, <2>4 DEF MayBeRead
    <3> QED  BY <2>2, <3>1 DEF WithId
  <2>5. ASSUME NEW i \in DOMAIN kept, kept[i].status # "gone", Representable(kept[i])
        PROVE  \E k \in WithId(doc, i) :
                  /\ WithId(doc, i) = {k}
                  /\ doc.items[k].status = kept[i].status
                  /\ WordsOfText(doc.items[k].text) = WordsOfText(kept[i].text)
                  /\ doc.items[k].tag = ReadTag(kept[i].tag)
    <3>1. i \in 1..Len(kept) /\ kept[i].id = i /\ kept[i] \in KeptItem
      BY <2>3
    <3>2. PICK text \in Seq(DocLines) : text = kept[i].text
      BY <3>1, DocAssumption DEF KeptItem
    <3>3. kept[i].tag # "angle" /\ NoEndWithin(text)
      BY <2>5, <3>2 DEF Representable, NoEndWithin
    <3>4. PICK k \in 1..Len(doc.items) : SameItem(doc.items[k], kept[i])
      BY <2>2, <2>5, <3>1, <3>3 DEF FoundAgain
    <3>5. doc.items[k].id = i /\ doc.items[k].status = kept[i].status /\ doc.items[k].tag = ReadTag(kept[i].tag)
      BY <3>1, <3>4 DEF SameItem, SameMarks
    <3>6. WithId(doc, i) = {k}
      <4>1. k \in WithId(doc, i)
        BY <2>2, <3>5 DEF WithId
      <4>2. \A l \in WithId(doc, i) : l = k
        BY <2>2, <3>5 DEF WithId, Distinct
      <4> QED  BY <4>1, <4>2
    <3>7. PICK s \in Seq(DocLines) : s = doc.items[k].text /\ SameWords(s, text)
      <4>1. doc.items[k].text \in Seq(DocLines)
        BY <2>2 DEF WholeItem
      <4>2. SameWords(doc.items[k].text, text)
        BY <3>2, <3>3, <3>4 DEF SameItem
      <4> QED  BY <4>1, <4>2
    <3>8. WordsOfText(s) = WordsOfText(text)
      <4>1. DOMAIN s = 1..Len(text) /\ DOMAIN text = 1..Len(text) /\ \A m \in 1..Len(text) : s[m].word = text[m].word
        BY <3>7 DEF SameWords
      <4> QED  BY <4>1 DEF WordsOfText
    <3> QED  BY <3>2, <3>5, <3>6, <3>7, <3>8
  <2>6. ItemsSurvive
    BY <2>1, <2>4, <2>5 DEF ItemsSurvive
  <2>7. HandwrittenStays
    <3>1. handwritten \in Seq(DocLines)
      BY DocAssumption DEF DocInv, DocTypes
    <3>2. PICK p \in Seq(FileLine) : p = doc.preamble /\ Len(handwritten) <= Len(p)
             /\ \A k \in 1..Len(handwritten) : p[k] = handwritten[k]
      BY <2>2 DEF StaysPlain
    <3>3. SubSeq(handwritten, 1, Len(handwritten)) = SubSeq(p, 1, Len(handwritten))
      BY <3>1, <3>2
    <3> QED  BY <2>1, <3>2, <3>3 DEF HandwrittenStays, IsPrefix
  <2> QED  BY <2>6, <2>7 DEF DocumentIsKept
<1> QED  BY <1>1, DocHolds, PTL

=============================================================================
