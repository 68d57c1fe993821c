----------------------- MODULE ConnectedElementsProofs -----------------------
(***************************************************************************)
(* Proofs about ConnectedElements for every set of elements and documents. *)
(***************************************************************************)
EXTENDS ConnectedElements, SequenceTheorems, FiniteSetTheorems, WellFoundedInduction, TLAPS

\* An arrangement of a list has every entry of it, once.
LEMMA ReorderedKeeps ==
    ASSUME NEW S, NEW segs \in Seq(S), NEW l \in Reordered(segs)
    PROVE  /\ l \in Seq(S)
           /\ Len(l) = Len(segs)
           /\ \A i \in DOMAIN segs : segs[i] \in ToSet(l)
<1>1. PICK p \in Bijection(DOMAIN segs, DOMAIN segs) : l = [i \in DOMAIN segs |-> segs[p[i]]]
  BY DEF Reordered
<1>2. /\ p \in [DOMAIN segs -> DOMAIN segs]
      /\ \A i \in DOMAIN segs : \E k \in DOMAIN segs : p[k] = i
  BY DEF Bijection, Injection, Surjection
<1>3. DOMAIN segs = 1 .. Len(segs) /\ Len(segs) \in Nat
  OBVIOUS
<1>4. l \in [1 .. Len(segs) -> S]
  BY <1>1, <1>2, <1>3
<1>5. l \in Seq(S) /\ Len(l) = Len(segs)
  BY <1>3, <1>4
<1>6. ASSUME NEW i \in DOMAIN segs
      PROVE  segs[i] \in ToSet(l)
  <2>1. PICK k \in DOMAIN segs : p[k] = i
    BY <1>2
  <2>2. k \in DOMAIN l /\ l[k] = segs[i]
    BY <1>1, <2>1
  <2>3. QED
    BY <2>2 DEF ToSet
<1>7. QED
  BY <1>5, <1>6

\* An appended entry leaves the others.
LEMMA AppendKeeps ==
    ASSUME NEW S, NEW segs \in Seq(S), NEW x \in S
    PROVE  /\ Append(segs, x) \in Seq(S)
           /\ \A i \in DOMAIN segs : /\ i \in DOMAIN Append(segs, x)
                                     /\ Append(segs, x)[i] = segs[i]
                                     /\ segs[i] \in ToSet(Append(segs, x))
BY DEF ToSet

\* A list without one of its entries is shorter.
LEMMA RemoveShortens ==
    ASSUME NEW S, NEW segs \in Seq(S), NEW i \in DOMAIN segs
    PROVE  RemoveAt(segs, i) \in Seq(S) /\ Len(RemoveAt(segs, i)) < Len(segs)
<1>1. i \in 1 .. Len(segs) /\ Len(segs) \in Nat
  OBVIOUS
<1>2. SubSeq(segs, 1, i - 1) \in Seq(S) /\ Len(SubSeq(segs, 1, i - 1)) = i - 1
  BY <1>1
<1>3. /\ SubSeq(segs, i + 1, Len(segs)) \in Seq(S)
      /\ Len(SubSeq(segs, i + 1, Len(segs))) = Len(segs) - i
  BY <1>1
<1>4. QED
  BY <1>1, <1>2, <1>3 DEF RemoveAt

\* A segment that is looked up is in the list and has the ends it was asked for.
LEMMA FoundSegment ==
    ASSUME NEW segs, NEW start, NEW end, NEW i \in SegmentFromTo(segs, start, end)
    PROVE  i \in DOMAIN segs /\ segs[i].from = start /\ segs[i].to = end
BY DEF SegmentFromTo

\* A gap is closed by extending one segment and removing another.
LEMMA GapClosedBy ==
    ASSUME NEW segs, NEW row, NEW k, NEW l \in GapClosed(segs, row, k)
    PROVE  \E i \in SegmentFromTo(segs, row[k - 1], row[k]) :
           \E j \in SegmentFromTo(segs, row[k], row[k + 1]) :
              l = Extended(segs, i, j, row[k + 1])
BY DEF GapClosed

-----------------------------------------------------------------------------
(* What each operation does to the segments.                               *)

SegmentsTyped == segments \in Seq(Segment)

\* What creations promise: a guided segment is not lost.
GuidedStay ==
    \A i \in DOMAIN segments : segments[i].guided => segments[i] \in ToSet(segments')

LEMMA BetweenStep ==
    ASSUME SegmentsTyped, NEW start, NEW end, NEW new \in Element,
           CreateNewConnectedElementBetween(start, end, new)
    PROVE  SegmentsTyped' /\ GuidedStay
<1> USE DEF SegmentsTyped
<1>1. PICK i \in SegmentFromTo(segments, start, end) :
         ~segments[i].guided /\ segments' \in Reordered(SplitSegment(i, new))
  BY DEF CreateNewConnectedElementBetween
<1>2. i \in DOMAIN segments /\ segments[i] \in Segment
  BY <1>1, FoundSegment
<1> DEFINE cut == [segments EXCEPT ![i].to = new]
           rest == NewSegment(new, segments[i].to)
<1>3. rest \in Segment
  BY <1>2 DEF NewSegment, Segment
<1>4. cut \in Seq(Segment) /\ DOMAIN cut = DOMAIN segments
        /\ \A j \in DOMAIN segments : j # i => cut[j] = segments[j]
  <2>1. [segments[i] EXCEPT !.to = new] \in Segment
    BY <1>2 DEF Segment
  <2>2. cut = [segments EXCEPT ![i] = [segments[i] EXCEPT !.to = new]]
    OBVIOUS
  <2>3. QED
    BY <1>2, <2>1, <2>2
<1>5. SplitSegment(i, new) = Append(cut, rest)
  BY DEF SplitSegment
<1> HIDE DEF cut, rest
<1>6. SplitSegment(i, new) \in Seq(Segment)
        /\ \A j \in DOMAIN cut : /\ j \in DOMAIN SplitSegment(i, new)
                                 /\ SplitSegment(i, new)[j] = cut[j]
  BY <1>3, <1>4, <1>5, AppendKeeps
<1>7. SegmentsTyped'
  BY <1>1, <1>6, ReorderedKeeps
<1>8. ASSUME NEW j \in DOMAIN segments, segments[j].guided
      PROVE  segments[j] \in ToSet(segments')
  <2>1. j # i
    BY <1>1, <1>8
  <2>2. segments[j] = SplitSegment(i, new)[j] /\ j \in DOMAIN SplitSegment(i, new)
    BY <1>4, <1>6, <2>1
  <2>3. QED
    BY <1>1, <1>6, <2>2, ReorderedKeeps
<1>9. QED
  BY <1>7, <1>8 DEF GuidedStay

LEMMA AfterLastStep ==
    ASSUME SegmentsTyped, NEW start \in Element, NEW new \in Element,
           CreateAfterLast(start, new)
    PROVE  SegmentsTyped' /\ GuidedStay
<1>1. NewSegment(start, new) \in Segment
  BY DEF NewSegment, Segment
<1>2. segments' = Append(segments, NewSegment(start, new))
  BY DEF CreateAfterLast
<1>3. QED
  BY <1>1, <1>2, AppendKeeps DEF SegmentsTyped, GuidedStay

LEMMA BeforeFirstStep ==
    ASSUME SegmentsTyped, NEW start \in Element, NEW new \in Element,
           CreateBeforeFirst(start, new)
    PROVE  SegmentsTyped' /\ GuidedStay
<1> DEFINE longer == Append(segments, NewSegment(new, start))
<1>1. NewSegment(new, start) \in Segment
  BY DEF NewSegment, Segment
<1>2. segments' \in Reordered(longer)
  BY DEF CreateBeforeFirst
<1>3. longer \in Seq(Segment)
        /\ \A i \in DOMAIN segments : i \in DOMAIN longer /\ longer[i] = segments[i]
  BY <1>1, AppendKeeps DEF SegmentsTyped
<1> HIDE DEF longer
<1>4. SegmentsTyped' /\ \A i \in DOMAIN longer : longer[i] \in ToSet(segments')
  BY <1>2, <1>3, ReorderedKeeps DEF SegmentsTyped
<1>5. QED
  BY <1>3, <1>4 DEF GuidedStay

LEMMA DeleteStep ==
    ASSUME SegmentsTyped, NEW e \in Element, DeleteConnectedElement(e)
    PROVE  SegmentsTyped' /\ Len(segments') < Len(segments)
<1> USE DEF SegmentsTyped
<1>1. PICK k \in DOMAIN Order : segments' \in Disconnected(segments, Order, k)
  BY DEF DeleteConnectedElement
<1>2. CASE segments' \in GapClosed(segments, Order, k)
  <2>1. PICK i \in SegmentFromTo(segments, Order[k - 1], Order[k]),
             j \in SegmentFromTo(segments, Order[k], Order[k + 1]) :
           segments' = RemoveAt([segments EXCEPT ![i].to = Order[k + 1]], j)
    BY <1>2, GapClosedBy DEF Extended
  <2>2. /\ i \in DOMAIN segments /\ j \in DOMAIN segments
        /\ segments[i] \in Segment /\ segments[j] \in Segment
        /\ Order[k + 1] = segments[j].to
    <3>1. i \in DOMAIN segments /\ j \in DOMAIN segments /\ Order[k + 1] = segments[j].to
      BY <2>1, FoundSegment
    <3>2. QED
      BY <3>1
  <2>3. Order[k + 1] \in Element
    BY <2>2 DEF Segment
  <2> DEFINE longer == [segments EXCEPT ![i].to = Order[k + 1]]
  <2>4. longer \in Seq(Segment) /\ Len(longer) = Len(segments)
    <3>1. [segments[i] EXCEPT !.to = Order[k + 1]] \in Segment
      BY <2>2, <2>3 DEF Segment
    <3>2. longer = [segments EXCEPT ![i] = [segments[i] EXCEPT !.to = Order[k + 1]]]
      OBVIOUS
    <3>3. QED
      BY <2>2, <3>1, <3>2
  <2>5. j \in DOMAIN longer /\ segments' = RemoveAt(longer, j)
    BY <2>1, <2>2, <2>4
  <2> HIDE DEF longer
  <2>6. QED
    BY <2>4, <2>5, RemoveShortens
<1>3. CASE \E i \in DOMAIN segments : segments' = RemoveAt(segments, i)
  BY <1>3, RemoveShortens
<1>4. QED
  BY <1>1, <1>2, <1>3, FoundSegment DEF Disconnected

-----------------------------------------------------------------------------
(* Segments with guide curves.                                             *)

\* Every step that is not a deletion keeps the segments with guide curves.
LEMMA SegmentsStep ==
    ASSUME SegmentsTyped, [Next]_vars
    PROVE  SegmentsTyped' /\ (Len(segments') > Len(segments) => GuidedStay)
<1>1. Unused \subseteq Element /\ Len(segments) \in Nat
  BY DEF Unused, SegmentsTyped
<1>2. CASE UNCHANGED segments
  BY <1>1, <1>2 DEF SegmentsTyped
<1>3. CASE ReadHelper
  BY <1>2, <1>3 DEF ReadHelper
<1>4. ASSUME NEW start \in Element, NEW end \in Element, NEW new \in Unused,
             CreateNewConnectedElementBetween(start, end, new)
      PROVE  SegmentsTyped' /\ GuidedStay
  BY <1>1, <1>4, BetweenStep
<1>5. ASSUME NEW start \in Element, NEW new \in Unused,
             CreateNewConnectedElementAfter(start, new)
      PROVE  SegmentsTyped' /\ GuidedStay
  BY <1>1, <1>5, BetweenStep, AfterLastStep DEF CreateNewConnectedElementAfter
<1>6. ASSUME NEW start \in Element, NEW new \in Unused,
             CreateNewConnectedElementBefore(start, new)
      PROVE  SegmentsTyped' /\ GuidedStay
  BY <1>1, <1>6, BetweenStep, BeforeFirstStep DEF CreateNewConnectedElementBefore
<1>7. CASE \E new \in Unused : AbandonCreation(new)
  BY <1>2, <1>7 DEF AbandonCreation
<1>8. ASSUME NEW e \in Element, DeleteConnectedElement(e)
      PROVE  SegmentsTyped' /\ ~(Len(segments') > Len(segments))
  <2>1. SegmentsTyped' /\ Len(segments') < Len(segments)
    BY <1>8, DeleteStep
  <2>2. QED
    BY <1>1, <2>1 DEF SegmentsTyped
<1>9. CASE UNCHANGED vars
  BY <1>2, <1>9 DEF vars
<1>10. QED
  BY <1>3, <1>4, <1>5, <1>6, <1>7, <1>8, <1>9 DEF Next

\* The segments remain a list of segments between elements.
THEOREM SegmentsCorrect == Spec => []SegmentsTyped
<1>1. Init => SegmentsTyped
  BY DocumentsAssumption DEF Init, SegmentsTyped
<1>2. SegmentsTyped /\ [Next]_vars => SegmentsTyped'
  BY SegmentsStep
<1>3. QED
  BY <1>1, <1>2, PTL DEF Spec

\* However rows are split, extended and reordered, creating an element leaves
\* every segment with guide curves between its two elements.
THEOREM GuidedSegmentsCorrect == Spec => GuidedSegmentsStay
<1>1. SegmentsTyped /\ [Next]_vars =>
        [Len(segments') > Len(segments)
           => \A i \in DOMAIN segments :
                 segments[i].guided => segments[i] \in ToSet(segments')]_vars
  BY SegmentsStep DEF GuidedStay
<1>2. QED
  BY <1>1, SegmentsCorrect, PTL DEF Spec, GuidedSegmentsStay

-----------------------------------------------------------------------------
(* Numbers and lists.                                                      *)

\* A non-empty set of natural numbers has a smallest one.
LEMMA SmallestOf ==
    ASSUME NEW T \in SUBSET Nat, T # {}
    PROVE  \E x \in T : \A y \in T : x <= y
<1> DEFINE R == OpToRel(<, Nat)
<1>1. IsWellFoundedOn(R, Nat)
  BY NatLessThanWellFounded
<1>2. \A x, y \in Nat : x < y => <<x, y>> \in R
  BY DEF OpToRel
<1> HIDE DEF R
<1>3. PICK x \in T : \A y \in T : ~(<<y, x>> \in R)
  BY <1>1, WFMin
<1>4. \A y \in T : x <= y
  <2> TAKE y \in T
  <2>1. x \in Nat /\ y \in Nat /\ ~(y < x)
    BY <1>2, <1>3
  <2> QED
    BY <2>1
<1> QED
  BY <1>4

\* A set of numbers up to n that holds 0, and with each its successor, holds all.
LEMMA AllSteps ==
    ASSUME NEW n \in Nat, NEW Good \in SUBSET (0 .. n), 0 \in Good,
           \A d \in 1 .. n : d - 1 \in Good => d \in Good
    PROVE  \A d \in 0 .. n : d \in Good
<1> DEFINE T == {d \in 0 .. n : d \notin Good}
<1> SUFFICES ASSUME T # {} PROVE FALSE
  OBVIOUS
<1>1. T \in SUBSET Nat
  OBVIOUS
<1> HIDE DEF T
<1>2. PICK d \in T : \A y \in T : d <= y
  BY <1>1, SmallestOf
<1> USE DEF T
<1>3. d \in 1 .. n /\ d \notin Good
  BY <1>2
<1>4. d - 1 \in 0 .. n /\ ~(d <= d - 1)
  BY <1>3
<1>5. d - 1 \in Good
  BY <1>2, <1>4
<1> QED
  BY <1>3, <1>5

\* A sequence is a function on 1 .. n, and such a function a sequence.
LEMMA SequenceIsFunction ==
    ASSUME NEW S, NEW f \in Seq(S)
    PROVE  /\ Len(f) \in Nat
           /\ DOMAIN f = 1 .. Len(f)
           /\ f \in [1 .. Len(f) -> S]
           /\ ToSet(f) = {f[i] : i \in 1 .. Len(f)}
           /\ ToSet(f) \subseteq S
  BY LenProperties DEF ToSet

LEMMA FunctionIsSequence ==
    ASSUME NEW S, NEW n \in Nat, NEW f \in [1 .. n -> S]
    PROVE  f \in Seq(S) /\ Len(f) = n
<1>1. f \in Seq(S)
  BY SeqDef
<1>2. Len(f) \in Nat /\ DOMAIN f = 1 .. Len(f)
  BY <1>1, LenProperties
<1>3. 1 .. Len(f) = 1 .. n
  BY <1>2
<1> QED
  BY <1>1, <1>2, <1>3

\* The entries of a list with one more.
LEMMA InsertedEntries ==
    ASSUME NEW S, NEW row \in Seq(S), NEW m \in 1 .. Len(row) + 1, NEW new \in S
    PROVE  /\ InsertAt(row, m, new) \in Seq(S)
           /\ Len(InsertAt(row, m, new)) = Len(row) + 1
           /\ \A k \in 1 .. Len(row) + 1 :
                 InsertAt(row, m, new)[k] =
                    IF k < m THEN row[k] ELSE IF k = m THEN new ELSE row[k - 1]
<1> DEFINE head == SubSeq(row, 1, m - 1)
           tail == SubSeq(row, m, Len(row))
<1>1. Len(row) \in Nat /\ m \in Int /\ \A i \in 1 .. Len(row) : row[i] \in S
  BY SequenceIsFunction
<1>2. /\ head \in Seq(S) /\ Len(head) = m - 1
      /\ \A i \in 1 .. m - 1 : head[i] = row[i]
  <2>1. \A i \in 1 .. m - 1 : row[i] \in S
    BY <1>1
  <2> QED
    BY <1>1, <2>1, SubSeqProperties
<1>3. /\ tail \in Seq(S) /\ Len(tail) = Len(row) - m + 1
      /\ \A i \in 1 .. Len(row) - m + 1 : tail[i] = row[m + i - 1]
  <2>1. \A i \in m .. Len(row) : row[i] \in S
    BY <1>1
  <2> QED
    BY <1>1, <2>1, SubSeqProperties
<1> DEFINE one == <<new>>
           start == head \o one
<1> HIDE DEF head, tail
<1>4. one \in Seq(S) /\ Len(one) = 1 /\ one[1] = new
  OBVIOUS
<1> HIDE DEF one
<1>5. /\ start \in Seq(S) /\ Len(start) = m
      /\ \A i \in 1 .. m : start[i] = IF i < m THEN row[i] ELSE new
  <2>1. /\ start \in Seq(S) /\ Len(start) = Len(head) + Len(one)
        /\ \A i \in 1 .. Len(head) + Len(one) :
              start[i] = IF i <= Len(head) THEN head[i] ELSE one[i - Len(head)]
    BY <1>2, <1>4, ConcatProperties
  <2> HIDE DEF start
  <2>2. Len(head) + Len(one) = m
    BY <1>1, <1>2, <1>4
  <2>3. \A i \in 1 .. m : start[i] = IF i < m THEN row[i] ELSE new
    <3> TAKE i \in 1 .. m
    <3>1. start[i] = IF i <= m - 1 THEN head[i] ELSE one[i - (m - 1)]
      BY <1>2, <2>1, <2>2
    <3>2. CASE i < m
      BY <1>1, <1>2, <3>1, <3>2
    <3>3. CASE ~(i < m)
      <4>1. i = m /\ i - (m - 1) = 1 /\ ~(i <= m - 1)
        BY <1>1, <3>3
      <4> QED
        BY <1>4, <3>1, <4>1
    <3> QED
      BY <3>2, <3>3
  <2> QED
    BY <2>1, <2>2, <2>3
<1> HIDE DEF start
<1>6. /\ start \o tail \in Seq(S) /\ Len(start \o tail) = Len(row) + 1
      /\ \A k \in 1 .. Len(row) + 1 :
            (start \o tail)[k] = IF k < m THEN row[k] ELSE IF k = m THEN new ELSE row[k - 1]
  <2>1. /\ start \o tail \in Seq(S) /\ Len(start \o tail) = Len(start) + Len(tail)
        /\ \A i \in 1 .. Len(start) + Len(tail) :
              (start \o tail)[i] = IF i <= Len(start) THEN start[i] ELSE tail[i - Len(start)]
    BY <1>3, <1>5, ConcatProperties
  <2>2. Len(start) + Len(tail) = Len(row) + 1
    BY <1>1, <1>3, <1>5
  <2> DEFINE all == start \o tail
  <2> HIDE DEF all
  <2>3. ASSUME NEW k \in 1 .. Len(row) + 1
        PROVE  all[k] = IF k < m THEN row[k] ELSE IF k = m THEN new ELSE row[k - 1]
    <3>1. all[k] = IF k <= m THEN start[k] ELSE tail[k - m]
      BY <1>5, <2>1, <2>2 DEF all
    <3>2. CASE k <= m
      <4>1. k \in 1 .. m
        BY <1>1, <3>2
      <4>2. start[k] = IF k < m THEN row[k] ELSE new
        BY <1>5, <4>1
      <4> QED
        BY <1>1, <3>1, <3>2, <4>2
    <3>3. CASE ~(k <= m)
      <4>1. k - m \in 1 .. Len(row) - m + 1 /\ m + (k - m) - 1 = k - 1 /\ ~(k < m) /\ k # m
        BY <1>1, <3>3
      <4>2. tail[k - m] = row[m + (k - m) - 1]
        BY <1>3, <4>1
      <4> QED
        BY <3>1, <3>3, <4>1, <4>2
    <3> QED
      BY <3>2, <3>3
  <2> QED
    BY <2>1, <2>2, <2>3 DEF all
<1> QED
  BY <1>6 DEF InsertAt, start, head, one, tail

\* The entries of a list with one less.
LEMMA RemovedEntries ==
    ASSUME NEW S, NEW row \in Seq(S), NEW m \in 1 .. Len(row)
    PROVE  /\ RemoveAt(row, m) \in Seq(S)
           /\ Len(RemoveAt(row, m)) = Len(row) - 1
           /\ \A k \in 1 .. Len(row) - 1 :
                 RemoveAt(row, m)[k] = IF k < m THEN row[k] ELSE row[k + 1]
<1> DEFINE head == SubSeq(row, 1, m - 1)
           tail == SubSeq(row, m + 1, Len(row))
<1>1. Len(row) \in Nat /\ m \in Int /\ \A i \in 1 .. Len(row) : row[i] \in S
  BY SequenceIsFunction
<1>2. /\ head \in Seq(S) /\ Len(head) = m - 1
      /\ \A i \in 1 .. m - 1 : head[i] = row[i]
  <2>1. \A i \in 1 .. m - 1 : row[i] \in S
    BY <1>1
  <2> QED
    BY <1>1, <2>1, SubSeqProperties
<1>3. /\ tail \in Seq(S) /\ Len(tail) = Len(row) - m
      /\ \A i \in 1 .. Len(row) - m : tail[i] = row[m + i]
  <2>1. \A i \in m + 1 .. Len(row) : row[i] \in S
    BY <1>1
  <2> QED
    BY <1>1, <2>1, SubSeqProperties
<1> HIDE DEF head, tail
<1>4. /\ head \o tail \in Seq(S) /\ Len(head \o tail) = Len(row) - 1
      /\ \A k \in 1 .. Len(row) - 1 : (head \o tail)[k] = IF k < m THEN row[k] ELSE row[k + 1]
  <2> DEFINE all == head \o tail
  <2>1. /\ all \in Seq(S) /\ Len(all) = Len(head) + Len(tail)
        /\ \A i \in 1 .. Len(head) + Len(tail) :
              all[i] = IF i <= Len(head) THEN head[i] ELSE tail[i - Len(head)]
    BY <1>2, <1>3, ConcatProperties
  <2> HIDE DEF all
  <2>2. Len(head) + Len(tail) = Len(row) - 1
    BY <1>1, <1>2, <1>3
  <2>3. ASSUME NEW k \in 1 .. Len(row) - 1
        PROVE  all[k] = IF k < m THEN row[k] ELSE row[k + 1]
    <3>1. all[k] = IF k <= m - 1 THEN head[k] ELSE tail[k - (m - 1)]
      BY <1>2, <2>1, <2>2
    <3>2. CASE k < m
      BY <1>1, <1>2, <3>1, <3>2
    <3>3. CASE ~(k < m)
      <4>1. k - (m - 1) \in 1 .. Len(row) - m /\ m + (k - (m - 1)) = k + 1 /\ ~(k <= m - 1)
        BY <1>1, <3>3
      <4>2. tail[k - (m - 1)] = row[m + (k - (m - 1))]
        BY <1>3, <4>1
      <4> QED
        BY <3>1, <3>3, <4>1, <4>2
    <3> QED
      BY <3>2, <3>3
  <2> QED
    BY <2>1, <2>2, <2>3 DEF all
<1> QED
  BY <1>4 DEF RemoveAt, head, tail

-----------------------------------------------------------------------------
(* Rows.                                                                   *)

\* The elements of segments that lead through a row are found in its order.
LEMMA RowOfSegments ==
    ASSUME NEW segs \in Seq(Segment), NEW row, LeadThrough(segs, row)
    PROVE  GetElementUIDsInOrder(segs) = row
<1> DEFINE n == Len(segs)
           listed(k) == UNION {{segs[m].from, segs[m].to} : m \in 1 .. k - 1}
           A(k) == Unlisted(segs[k].from, listed(k))
           B(k) == Unlisted(segs[k].to, listed(k) \cup {segs[k].from})
           R(f) == f = [k \in 0 .. Len(segs) |->
                          IF k = 0 THEN <<>> ELSE f[k - 1] \o A(k) \o B(k)]
           S == CHOOSE f : R(f)
           first(k) == IF k = 0 THEN <<>> ELSE SubSeq(row, 1, k + 1)
<1>1. /\ n \in Nat /\ DOMAIN segs = 1 .. n
      /\ row \in Seq(Element)
      /\ Len(row) = IF n = 0 THEN 0 ELSE n + 1
      /\ DOMAIN row = 1 .. Len(row)
      /\ \A i \in 1 .. n : segs[i].from = row[i] /\ segs[i].to = row[i + 1]
      /\ \A i, j \in 1 .. Len(row) : row[i] = row[j] => i = j
  <2>1. n \in Nat /\ DOMAIN segs = 1 .. n /\ (segs = <<>> <=> n = 0)
    BY SequenceIsFunction, EmptySeq
  <2>2. row \in Seq(Element) /\ DOMAIN row = 1 .. Len(row)
    BY SequenceIsFunction DEF LeadThrough
  <2> QED
    BY <2>1, <2>2 DEF LeadThrough, IsInjective
<1>2. ASSUME NEW k \in 1 .. n
      PROVE  A(k) = IF k = 1 THEN <<row[1]>> ELSE <<>>
  <2>1. segs[k].from = row[k] /\ k \in 1 .. Len(row)
    BY <1>1
  <2>2. CASE k = 1
    <3>1. listed(k) = {}
      BY <2>2
    <3> HIDE DEF listed
    <3> QED
      BY <2>1, <2>2, <3>1 DEF Unlisted
  <2>3. CASE k # 1
    <3>1. k - 1 \in 1 .. k - 1 /\ k - 1 \in 1 .. n /\ k - 1 + 1 = k
      BY <1>1, <2>3
    <3>2. segs[k - 1].to = row[k]
      BY <1>1, <3>1
    <3>3. row[k] \in listed(k)
      BY <3>1, <3>2
    <3> HIDE DEF listed
    <3> QED
      BY <2>1, <2>3, <3>3 DEF Unlisted
  <2> QED
    BY <2>2, <2>3
<1>3. ASSUME NEW k \in 1 .. n
      PROVE  B(k) = <<row[k + 1]>>
  <2>1. /\ segs[k].to = row[k + 1] /\ segs[k].from = row[k]
        /\ k + 1 \in 1 .. Len(row) /\ k \in 1 .. Len(row)
    BY <1>1
  <2>2. ASSUME NEW m \in 1 .. k - 1
        PROVE  row[k + 1] # segs[m].from /\ row[k + 1] # segs[m].to
    <3>1. /\ m \in 1 .. n /\ m \in 1 .. Len(row) /\ m + 1 \in 1 .. Len(row)
          /\ m # k + 1 /\ m + 1 # k + 1
      BY <1>1
    <3> QED
      BY <1>1, <2>1, <3>1
  <2>3. row[k + 1] \notin listed(k)
    BY <2>2
  <2>4. row[k + 1] # row[k]
    BY <1>1, <2>1
  <2> HIDE DEF listed
  <2> QED
    BY <2>1, <2>3, <2>4 DEF Unlisted
<1>4. ASSUME NEW k \in 1 .. n
      PROVE  first(k - 1) \o A(k) \o B(k) = first(k)
  <2>1. /\ 1 \in 1 .. Len(row) /\ k + 1 \in 1 .. Len(row) /\ k + 1 - 1 = k
        /\ row[1] \in Element /\ row[k + 1] \in Element
    BY <1>1
  <2>2. SubSeq(row, 1, k + 1) = SubSeq(row, 1, k) \o <<row[k + 1]>>
    BY <1>1, <2>1, SubSeqRecursiveSecond
  <2>3. CASE k = 1
    <3>1. first(k - 1) = <<>> /\ A(k) = <<row[1]>>
      <4>1. k - 1 = 0
        BY <2>3
      <4>2. first(k - 1) = <<>>
        BY <4>1
      <4> HIDE DEF A, first
      <4>3. A(k) = IF k = 1 THEN <<row[1]>> ELSE <<>>
        BY <1>2
      <4> QED
        BY <2>3, <4>2, <4>3
    <3>2. <<>> \o <<row[1]>> = <<row[1]>>
      BY <2>1
    <3>3. SubSeq(row, 1, k) = <<row[1]>>
      <4>1. SubSeq(row, 1, 1) = SubSeq(row, 1, 0) \o <<row[1]>>
        BY <1>1, <2>1, SubSeqRecursiveSecond
      <4>2. SubSeq(row, 1, 0) = <<>>
        BY SubSeqEmpty
      <4> QED
        BY <2>3, <3>2, <4>1, <4>2
    <3>4. first(k) = SubSeq(row, 1, k + 1)
      BY <2>3
    <3> HIDE DEF A, B, first
    <3> QED
      BY <1>3, <2>2, <3>1, <3>2, <3>3, <3>4
  <2>4. CASE k # 1
    <3>1. k \in Nat /\ k # 0 /\ k - 1 # 0 /\ k - 1 + 1 = k
      BY <1>1, <2>4
    <3>2. first(k - 1) = SubSeq(row, 1, k) /\ first(k) = SubSeq(row, 1, k + 1)
      BY <3>1
    <3>3. A(k) = <<>> /\ B(k) = <<row[k + 1]>>
      BY <1>2, <1>3, <2>4
    <3>4. SubSeq(row, 1, k) \in Seq(Element)
      <4>1. \A i \in 1 .. k : row[i] \in Element
        BY <1>1
      <4> QED
        BY <3>1, <4>1, SubSeqProperties
    <3>5. SubSeq(row, 1, k) \o <<>> = SubSeq(row, 1, k)
      BY <3>4, ConcatEmptySeq
    <3> HIDE DEF A, B, first
    <3> QED
      BY <2>2, <3>2, <3>3, <3>5
  <2> QED
    BY <2>3, <2>4
<1>5. first(0) = <<>> /\ first(n) = row
  <2>1. CASE n = 0
    BY <1>1, <2>1, EmptySeq
  <2>2. CASE n # 0
    <3>1. first(n) = SubSeq(row, 1, Len(row))
      BY <1>1, <2>2
    <3> QED
      BY <1>1, <3>1, SubSeqFull
  <2> QED
    BY <2>1, <2>2
<1> HIDE DEF first, A, B, n
<1>6. R([k \in 0 .. n |-> first(k)])
  <2> DEFINE f == [k \in 0 .. n |-> first(k)]
  <2>1. \A k \in 0 .. n : f[k] = IF k = 0 THEN <<>> ELSE f[k - 1] \o A(k) \o B(k)
    <3> TAKE k \in 0 .. n
    <3>1. CASE k = 0
      BY <1>5, <3>1
    <3>2. CASE k # 0
      <4>1. k \in 1 .. n /\ k - 1 \in 0 .. n
        BY <1>1, <3>2
      <4> QED
        BY <1>4, <3>2, <4>1
    <3> QED
      BY <3>1, <3>2
  <2>2. f = [k \in 0 .. n |-> f[k]]
    OBVIOUS
  <2> HIDE DEF f
  <2>3. f = [k \in 0 .. n |-> IF k = 0 THEN <<>> ELSE f[k - 1] \o A(k) \o B(k)]
    BY <2>1, <2>2
  <2> QED
    BY <2>3 DEF f, n
<1>7. R(S)
  <2> HIDE DEF R
  <2> QED
    BY <1>6
<1>8. GetElementUIDsInOrder(segs) = S[n]
  BY DEF GetElementUIDsInOrder, A, B, n
<1> HIDE DEF S
<1>9. \A k \in 0 .. n : S[k] = first(k)
  <2> DEFINE Good == {k \in 0 .. n : S[k] = first(k)}
  <2>1. \A k \in 0 .. n : S[k] = IF k = 0 THEN <<>> ELSE S[k - 1] \o A(k) \o B(k)
    BY <1>7 DEF n
  <2>2. 0 \in Good
    BY <1>1, <1>5, <2>1
  <2>3. \A k \in 1 .. n : k - 1 \in Good => k \in Good
    <3> TAKE k \in 1 .. n
    <3> HAVE k - 1 \in Good
    <3>1. k \in 0 .. n /\ k # 0
      BY <1>1
    <3> QED
      BY <1>4, <2>1, <3>1
  <2> HIDE DEF Good
  <2>4. Good \in SUBSET (0 .. n)
    BY DEF Good
  <2>5. \A k \in 0 .. n : k \in Good
    BY <1>1, <2>2, <2>3, <2>4, AllSteps
  <2> QED
    BY <2>5 DEF Good
<1> QED
  BY <1>1, <1>5, <1>8, <1>9

\* What it is to lead through a row, entry by entry.
LEMMA LeadFacts ==
    ASSUME NEW segs \in Seq(Segment), NEW row, LeadThrough(segs, row)
    PROVE  /\ Len(segs) \in Nat /\ DOMAIN segs = 1 .. Len(segs)
           /\ row \in Seq(Element) /\ Len(row) \in Nat
           /\ Len(row) = IF Len(segs) = 0 THEN 0 ELSE Len(segs) + 1
           /\ DOMAIN row = 1 .. Len(row)
           /\ \A i \in 1 .. Len(row) : row[i] \in Element
           /\ \A i \in 1 .. Len(segs) : segs[i].from = row[i] /\ segs[i].to = row[i + 1]
           /\ \A i, j \in 1 .. Len(row) : row[i] = row[j] => i = j
<1>1. Len(segs) \in Nat /\ DOMAIN segs = 1 .. Len(segs) /\ (segs = <<>> <=> Len(segs) = 0)
  BY SequenceIsFunction, EmptySeq
<1>2. /\ row \in Seq(Element) /\ Len(row) \in Nat /\ DOMAIN row = 1 .. Len(row)
      /\ \A i \in 1 .. Len(row) : row[i] \in Element
  BY SequenceIsFunction DEF LeadThrough
<1> QED
  BY <1>1, <1>2 DEF LeadThrough, IsInjective

LEMMA LeadsIf ==
    ASSUME NEW segs \in Seq(Segment), NEW row \in Seq(Element),
           Len(row) = IF Len(segs) = 0 THEN 0 ELSE Len(segs) + 1,
           \A i \in 1 .. Len(segs) : segs[i].from = row[i] /\ segs[i].to = row[i + 1],
           \A i, j \in 1 .. Len(row) : row[i] = row[j] => i = j
    PROVE  LeadThrough(segs, row)
<1>1. DOMAIN segs = 1 .. Len(segs) /\ (segs = <<>> <=> Len(segs) = 0) /\ DOMAIN row = 1 .. Len(row)
  BY SequenceIsFunction, EmptySeq
<1> QED
  BY <1>1 DEF LeadThrough, IsInjective

\* Segments of which one arrangement leads through a row have no other order.
LEMMA OneOrder ==
    ASSUME NEW segs \in Seq(Segment), NEW t \in Seq(Segment), NEW row, LeadThrough(t, row),
           NEW p \in Bijection(DOMAIN segs, DOMAIN segs),
           t = [i \in DOMAIN segs |-> segs[p[i]]],
           NEW l \in Reordered(segs)
    PROVE  l = t
<1> DEFINE n == Len(t)
<1>1. /\ n \in Nat /\ DOMAIN t = 1 .. n /\ DOMAIN segs = 1 .. n
      /\ Len(row) = IF n = 0 THEN 0 ELSE n + 1
      /\ \A i \in 1 .. n : t[i].from = row[i] /\ t[i].to = row[i + 1]
      /\ \A i, j \in 1 .. Len(row) : row[i] = row[j] => i = j
  BY LeadFacts
<1>2. ~NeedReordering(t)
  <2>1. ASSUME NEW i \in 1 .. n - 1
        PROVE  t[i].to = t[i + 1].from
    <3>1. i \in 1 .. n /\ i + 1 \in 1 .. n
      BY <1>1
    <3> QED
      BY <1>1, <3>1
  <2> QED
    BY <2>1 DEF NeedReordering
<1>3. PICK q \in Bijection(DOMAIN segs, DOMAIN segs) :
        l = [i \in DOMAIN segs |-> segs[q[i]]] /\ ~NeedReordering(l)
  <2> DEFINE arrangements == {[i \in DOMAIN segs |-> segs[a[i]]] :
                                 a \in Bijection(DOMAIN segs, DOMAIN segs)}
             ordered == {a \in arrangements : ~NeedReordering(a)}
  <2>1. t \in arrangements
    OBVIOUS
  <2>2. t \in ordered
    BY <1>2, <2>1
  <2>3. l \in ordered
    BY <2>2, Zenon DEF Reordered
  <2> QED
    BY <2>3
<1>4. /\ q \in [1 .. n -> 1 .. n] /\ p \in [1 .. n -> 1 .. n]
      /\ \A i \in 1 .. n : \E j \in 1 .. n : p[j] = i
  <2> HIDE DEF n
  <2>1. q \in Bijection(1 .. n, 1 .. n) /\ p \in Bijection(1 .. n, 1 .. n)
    BY <1>1, <1>3
  <2> QED
    BY <2>1, Zenon DEF Bijection, Injection, Surjection
<1> DEFINE r == [k \in 1 .. n |-> CHOOSE j \in 1 .. n : p[j] = q[k]]
<1>5. \A k \in 1 .. n : r[k] \in 1 .. n /\ p[r[k]] = q[k]
  BY <1>4
<1> HIDE DEF r
<1>6. \A k \in 1 .. n : l[k] = t[r[k]]
  BY <1>1, <1>3, <1>5
<1>7. l = [k \in 1 .. n |-> l[k]] /\ t = [k \in 1 .. n |-> t[k]]
  BY <1>1, <1>3
<1>8. l \in Seq(Segment) /\ Len(l) = n
  <2>1. l \in [1 .. n -> Segment]
    <3>1. t \in [1 .. n -> Segment]
      BY SequenceIsFunction
    <3>2. \A k \in 1 .. n : l[k] \in Segment
      BY <1>5, <1>6, <3>1
    <3> HIDE DEF n
    <3> QED
      BY <1>7, <3>2
  <2>2. n \in Nat
    BY <1>1
  <2> HIDE DEF n
  <2> QED
    BY <2>1, <2>2, FunctionIsSequence
<1>9. ASSUME NEW k \in 1 .. n - 1
      PROVE  r[k + 1] = r[k] + 1
  <2>1. k \in 1 .. n /\ k + 1 \in 1 .. n /\ n # 0 /\ Len(row) = n + 1
    BY <1>1
  <2>2. l[k].to = l[k + 1].from
    BY <1>3, <1>8 DEF NeedReordering
  <2>3. /\ r[k] \in 1 .. n /\ r[k + 1] \in 1 .. n
        /\ r[k] + 1 \in 1 .. Len(row) /\ r[k + 1] \in 1 .. Len(row)
    BY <1>1, <1>5, <2>1
  <2>4. row[r[k] + 1] = row[r[k + 1]]
    <3>1. l[k].to = row[r[k] + 1]
      BY <1>1, <1>6, <2>1, <2>3
    <3>2. l[k + 1].from = row[r[k + 1]]
      BY <1>1, <1>6, <2>1, <2>3
    <3> QED
      BY <2>2, <3>1, <3>2
  <2> QED
    BY <1>1, <2>3, <2>4
<1> HIDE DEF n
<1>10. \A k \in 1 .. n : r[k] = r[1] + k - 1
  <2> DEFINE Good == {k \in 0 .. n : k # 0 => r[k] = r[1] + k - 1}
  <2>1. 0 \in Good
    BY <1>1
  <2>2. \A k \in 1 .. n : k - 1 \in Good => k \in Good
    <3> TAKE k \in 1 .. n
    <3> HAVE k - 1 \in Good
    <3>1. k \in 0 .. n /\ 1 \in 1 .. n /\ r[1] \in 1 .. n
      BY <1>1, <1>5
    <3>2. CASE k = 1
      BY <1>1, <3>1, <3>2
    <3>3. CASE k # 1
      <4>1. k - 1 \in 1 .. n - 1 /\ k - 1 + 1 = k /\ k - 1 # 0
        BY <1>1, <3>3
      <4>2. r[k] = r[k - 1] + 1
        BY <1>9, <4>1
      <4>3. r[k - 1] = r[1] + (k - 1) - 1
        BY <4>1
      <4> QED
        BY <1>1, <3>1, <4>2, <4>3
    <3> QED
      BY <3>2, <3>3
  <2> HIDE DEF Good
  <2>3. Good \in SUBSET (0 .. n)
    BY DEF Good
  <2>4. \A k \in 0 .. n : k \in Good
    BY <1>1, <2>1, <2>2, <2>3, AllSteps
  <2>5. \A k \in 1 .. n : k \in 0 .. n /\ k # 0
    BY <1>1
  <2> QED
    BY <2>4, <2>5 DEF Good
<1>11. ASSUME NEW k \in 1 .. n
       PROVE  r[k] = k
  <2>1. n \in 1 .. n /\ 1 \in 1 .. n /\ r[1] \in 1 .. n /\ r[n] \in 1 .. n
    BY <1>1, <1>5
  <2>2. r[n] = r[1] + n - 1
    BY <1>10, <2>1
  <2>3. r[1] = 1
    BY <1>1, <2>1, <2>2
  <2> QED
    BY <1>1, <1>10, <2>3
<1>12. \A k \in 1 .. n : l[k] = t[k]
  BY <1>6, <1>11
<1> QED
  BY <1>7, <1>12

\* The entries of a list whose last one belongs at place m.
Moved(segs, m) ==
    [k \in DOMAIN segs |-> IF k < m THEN segs[k]
                           ELSE IF k = m THEN segs[Len(segs)]
                           ELSE segs[k - 1]]

\* ReorderSegments puts an added segment where it belongs.
LEMMA AddedInPlace ==
    ASSUME NEW segs \in Seq(Segment), NEW m \in 1 .. Len(segs), NEW row,
           LeadThrough(Moved(segs, m), row),
           NEW l \in Reordered(segs)
    PROVE  l = Moved(segs, m) /\ l \in Seq(Segment) /\ Len(l) = Len(segs)
<1> DEFINE n == Len(segs)
           t == Moved(segs, m)
           p == [k \in 1 .. n |-> IF k < m THEN k ELSE IF k = m THEN n ELSE k - 1]
<1>1. n \in Nat /\ DOMAIN segs = 1 .. n /\ segs \in [1 .. n -> Segment] /\ m \in 1 .. n
  BY SequenceIsFunction
<1>2. p \in [1 .. n -> 1 .. n]
  BY <1>1
<1>3. \A i, j \in 1 .. n : p[i] = p[j] => i = j
  BY <1>1
<1>4. ASSUME NEW i \in 1 .. n
      PROVE  \E j \in 1 .. n : p[j] = i
  <2>1. CASE i < m
    BY <1>1, <2>1
  <2>2. CASE i = n
    <3>1. m \in 1 .. n /\ ~(m < m)
      BY <1>1
    <3>2. p[m] = IF m < m THEN m ELSE IF m = m THEN n ELSE m - 1
      BY <3>1
    <3>3. p[m] = n
      BY <3>1, <3>2
    <3> HIDE DEF p
    <3> QED
      BY <2>2, <3>1, <3>3
  <2>3. CASE ~(i < m) /\ i # n
    <3> HIDE DEF n
    <3>1. /\ n \in Int /\ m \in Int
          /\ i + 1 \in 1 .. n /\ ~(i + 1 < m) /\ i + 1 # m /\ i + 1 - 1 = i
      <4>1. n \in Nat /\ m \in 1 .. n /\ i \in 1 .. n
        BY <1>1
      <4> QED
        BY <2>3, <4>1
    <3>2. p[i + 1] = IF i + 1 < m THEN i + 1 ELSE IF i + 1 = m THEN n ELSE i + 1 - 1
      BY <3>1
    <3>3. p[i + 1] = i
      BY <3>1, <3>2
    <3> HIDE DEF p
    <3> QED
      BY <3>1, <3>3
  <2> QED
    BY <2>1, <2>2, <2>3
<1>5. p \in Bijection(DOMAIN segs, DOMAIN segs)
  <2> HIDE DEF p, n
  <2> QED
    BY <1>1, <1>2, <1>3, <1>4 DEF Bijection, Injection, Surjection, IsInjective
<1>6. t = [i \in DOMAIN segs |-> segs[p[i]]]
  BY <1>1 DEF Moved
<1>7. t \in [1 .. n -> Segment]
  <2> HIDE DEF p, t
  <2> QED
    BY <1>1, <1>2, <1>6
<1>8. t \in Seq(Segment) /\ Len(t) = n
  BY <1>1, <1>7, FunctionIsSequence
<1> HIDE DEF p, t, n
<1>9. LeadThrough(t, row)
  BY DEF t
<1>10. l = t
  BY <1>5, <1>6, <1>8, <1>9, OneOrder
<1> QED
  BY <1>8, <1>10 DEF t, n

\* A row with one more element, and with one less, has each element once.
LEMMA InsertedRow ==
    ASSUME NEW S, NEW row \in Seq(S), IsInjective(row), NEW m \in 1 .. Len(row) + 1,
           NEW new \in S, new \notin ToSet(row)
    PROVE  /\ IsInjective(InsertAt(row, m, new))
           /\ ToSet(InsertAt(row, m, new)) = ToSet(row) \cup {new}
<1> DEFINE l == InsertAt(row, m, new)
<1>1. /\ Len(row) \in Nat /\ DOMAIN row = 1 .. Len(row)
      /\ ToSet(row) = {row[i] : i \in 1 .. Len(row)}
      /\ \A i, j \in 1 .. Len(row) : row[i] = row[j] => i = j
  BY SequenceIsFunction DEF IsInjective
<1>2. /\ l \in Seq(S) /\ Len(l) = Len(row) + 1
      /\ \A k \in 1 .. Len(row) + 1 :
            l[k] = IF k < m THEN row[k] ELSE IF k = m THEN new ELSE row[k - 1]
  BY InsertedEntries
<1> HIDE DEF l
<1>3. DOMAIN l = 1 .. Len(row) + 1 /\ ToSet(l) = {l[i] : i \in 1 .. Len(row) + 1}
  BY <1>2, SequenceIsFunction
<1>4. m \in 1 .. Len(row) + 1 /\ l[m] = new
  BY <1>1, <1>2
<1>5. \A k \in 1 .. Len(row) + 1 : k < m => k \in 1 .. Len(row) /\ l[k] = row[k]
  BY <1>1, <1>2
<1>6. \A k \in 1 .. Len(row) + 1 : k > m => k - 1 \in 1 .. Len(row) /\ l[k] = row[k - 1]
  BY <1>1, <1>2
<1>7. ASSUME NEW i \in 1 .. Len(row) + 1, NEW j \in 1 .. Len(row) + 1, l[i] = l[j]
      PROVE  i = j
  <2>1. \A k \in 1 .. Len(row) : row[k] # new
    BY <1>1
  <2>2. CASE i = m
    BY <1>1, <1>4, <1>5, <1>6, <1>7, <2>1, <2>2
  <2>3. CASE i < m
    BY <1>1, <1>4, <1>5, <1>6, <1>7, <2>1, <2>3
  <2>4. CASE i > m
    BY <1>1, <1>4, <1>5, <1>6, <1>7, <2>1, <2>4
  <2> QED
    BY <1>1, <2>2, <2>3, <2>4
<1>8. \A k \in 1 .. Len(row) + 1 : l[k] \in ToSet(row) \cup {new}
  BY <1>1, <1>4, <1>5, <1>6
<1>9. ASSUME NEW k \in 1 .. Len(row)
      PROVE  row[k] \in ToSet(l)
  <2>1. CASE k < m
    <3>1. k \in 1 .. Len(row) + 1
      BY <1>1
    <3> QED
      BY <1>3, <1>5, <2>1, <3>1
  <2>2. CASE ~(k < m)
    <3>1. k + 1 \in 1 .. Len(row) + 1 /\ k + 1 > m /\ k + 1 - 1 = k
      BY <1>1, <2>2
    <3>2. l[k + 1] = row[k]
      BY <1>6, <3>1
    <3> QED
      BY <1>3, <3>1, <3>2
  <2> QED
    BY <2>1, <2>2
<1>10. new \in ToSet(l)
  BY <1>3, <1>4
<1>11. ToSet(l) = ToSet(row) \cup {new}
  BY <1>1, <1>3, <1>8, <1>9, <1>10
<1>12. IsInjective(l)
  BY <1>3, <1>7 DEF IsInjective
<1> QED
  BY <1>11, <1>12 DEF l

LEMMA RemovedRow ==
    ASSUME NEW S, NEW row \in Seq(S), IsInjective(row), NEW m \in 1 .. Len(row)
    PROVE  /\ IsInjective(RemoveAt(row, m))
           /\ ToSet(RemoveAt(row, m)) = ToSet(row) \ {row[m]}
<1> DEFINE l == RemoveAt(row, m)
<1>1. /\ Len(row) \in Nat /\ DOMAIN row = 1 .. Len(row)
      /\ ToSet(row) = {row[i] : i \in 1 .. Len(row)}
      /\ \A i, j \in 1 .. Len(row) : row[i] = row[j] => i = j
  BY SequenceIsFunction DEF IsInjective
<1>2. /\ l \in Seq(S) /\ Len(l) = Len(row) - 1
      /\ \A k \in 1 .. Len(row) - 1 : l[k] = IF k < m THEN row[k] ELSE row[k + 1]
  BY RemovedEntries
<1> HIDE DEF l
<1>3. DOMAIN l = 1 .. Len(row) - 1 /\ ToSet(l) = {l[i] : i \in 1 .. Len(row) - 1}
  BY <1>2, SequenceIsFunction
<1>4. \A k \in 1 .. Len(row) - 1 : k < m => k \in 1 .. Len(row) /\ k # m /\ l[k] = row[k]
  BY <1>1, <1>2
<1>5. \A k \in 1 .. Len(row) - 1 :
         ~(k < m) => k + 1 \in 1 .. Len(row) /\ k + 1 # m /\ l[k] = row[k + 1]
  BY <1>1, <1>2
<1>6. ASSUME NEW i \in 1 .. Len(row) - 1, NEW j \in 1 .. Len(row) - 1, l[i] = l[j]
      PROVE  i = j
  <2>1. CASE i < m
    BY <1>1, <1>4, <1>5, <1>6, <2>1
  <2>2. CASE ~(i < m)
    BY <1>1, <1>4, <1>5, <1>6, <2>2
  <2> QED
    BY <2>1, <2>2
<1>7. \A k \in 1 .. Len(row) - 1 : l[k] \in ToSet(row) \ {row[m]}
  <2> TAKE k \in 1 .. Len(row) - 1
  <2>1. \A i \in 1 .. Len(row) : i # m => row[i] # row[m]
    BY <1>1
  <2> QED
    BY <1>1, <1>4, <1>5, <2>1
<1>8. ASSUME NEW k \in 1 .. Len(row), k # m
      PROVE  row[k] \in ToSet(l)
  <2>1. CASE k < m
    <3>1. k \in 1 .. Len(row) - 1
      BY <1>1, <2>1
    <3> QED
      BY <1>3, <1>4, <2>1, <3>1
  <2>2. CASE ~(k < m)
    <3>1. k - 1 \in 1 .. Len(row) - 1 /\ ~(k - 1 < m) /\ k - 1 + 1 = k
      BY <1>1, <1>8, <2>2
    <3>2. l[k - 1] = row[k]
      BY <1>5, <3>1
    <3> QED
      BY <1>3, <3>1, <3>2
  <2> QED
    BY <2>1, <2>2
<1>9. ToSet(l) = ToSet(row) \ {row[m]}
  <2>1. ToSet(l) \subseteq ToSet(row) \ {row[m]}
    BY <1>3, <1>7
  <2>2. \A k \in 1 .. Len(row) : row[k] # row[m] => k # m
    OBVIOUS
  <2>3. ToSet(row) \ {row[m]} \subseteq ToSet(l)
    BY <1>1, <1>8, <2>2
  <2> QED
    BY <2>1, <2>3
<1>10. IsInjective(l)
  BY <1>3, <1>6 DEF IsInjective
<1> QED
  BY <1>9, <1>10 DEF l

\* Between an element of the row and the next there is one segment.
LEMMA FoundInRow ==
    ASSUME NEW segs \in Seq(Segment), NEW row, LeadThrough(segs, row), NEW k \in 1 .. Len(row) - 1
    PROVE  SegmentFromTo(segs, row[k], row[k + 1]) = {k} /\ k \in DOMAIN segs
<1>1. /\ Len(segs) \in Nat /\ DOMAIN segs = 1 .. Len(segs)
      /\ Len(row) = IF Len(segs) = 0 THEN 0 ELSE Len(segs) + 1
      /\ \A i \in 1 .. Len(segs) : segs[i].from = row[i] /\ segs[i].to = row[i + 1]
      /\ \A i, j \in 1 .. Len(row) : row[i] = row[j] => i = j
  BY LeadFacts
<1> DEFINE fits == {i \in DOMAIN segs : segs[i].from = row[k] /\ segs[i].to = row[k + 1]}
<1>2. k \in 1 .. Len(segs)
  BY <1>1
<1>3. k \in fits
  BY <1>1, <1>2
<1>4. ASSUME NEW i \in fits
      PROVE  i = k
  <2>1. i \in 1 .. Len(segs) /\ row[i] = row[k]
    BY <1>1
  <2>2. i \in 1 .. Len(row) /\ k \in 1 .. Len(row)
    BY <1>1, <1>2, <2>1
  <2> QED
    BY <1>1, <2>1, <2>2
<1> HIDE DEF fits
<1>5. fits = {k}
  BY <1>3, <1>4
<1>6. SegmentFromTo(segs, row[k], row[k + 1]) = {i \in fits : \A j \in fits : i <= j}
  BY DEF SegmentFromTo, fits
<1> QED
  BY <1>1, <1>2, <1>5, <1>6

LEMMA FoundBefore ==
    ASSUME NEW segs \in Seq(Segment), NEW row, LeadThrough(segs, row), NEW k \in 2 .. Len(row)
    PROVE  SegmentFromTo(segs, row[k - 1], row[k]) = {k - 1}
<1> DEFINE m == k - 1
<1>1. m \in 1 .. Len(row) - 1 /\ m + 1 = k
  BY LeadFacts
<1> HIDE DEF m
<1>2. SegmentFromTo(segs, row[m], row[m + 1]) = {m}
  BY <1>1, FoundInRow
<1> QED
  BY <1>1, <1>2 DEF m

\* Splitting a segment puts the new element between its ends.
LEMMA SplitLeads ==
    ASSUME SegmentsTyped, NEW row, LeadThrough(segments, row), NEW i \in DOMAIN segments,
           NEW new \in Element, new \notin ToSet(row),
           NEW l \in Reordered(SplitSegment(i, new))
    PROVE  /\ LeadThrough(l, InsertAt(row, i + 1, new))
           /\ l \in Seq(Segment)
           /\ i + 1 \in 2 .. Len(row)
<1> DEFINE n == Len(segments)
           cut == [segments EXCEPT ![i].to = new]
           rest == NewSegment(new, segments[i].to)
           split == SplitSegment(i, new)
           ins == InsertAt(row, i + 1, new)
           t == Moved(split, i + 1)
<1>1. /\ n \in Nat /\ n # 0 /\ DOMAIN segments = 1 .. n
      /\ row \in Seq(Element)
      /\ Len(row) = n + 1
      /\ \A k \in 1 .. n : segments[k].from = row[k] /\ segments[k].to = row[k + 1]
      /\ IsInjective(row)
      /\ i \in 1 .. n
  <2>1. DOMAIN segments = 1 .. n /\ n \in Nat
    BY LeadFacts DEF SegmentsTyped
  <2>2. i \in 1 .. n /\ n # 0
    BY <2>1
  <2> QED
    BY <2>1, <2>2, LeadFacts DEF SegmentsTyped, LeadThrough
<1>2. \A k \in 1 .. n : segments[k] \in Segment
  BY <1>1 DEF SegmentsTyped
<1>3. rest \in Segment /\ rest.from = new /\ rest.to = row[i + 1]
  BY <1>1, <1>2 DEF NewSegment, Segment
<1>4. /\ cut \in Seq(Segment) /\ Len(cut) = n
      /\ \A k \in 1 .. n : cut[k].from = row[k]
      /\ \A k \in 1 .. n : cut[k].to = IF k = i THEN new ELSE row[k + 1]
  <2>1. [segments[i] EXCEPT !.to = new] \in Segment
    BY <1>1, <1>2 DEF Segment
  <2>2. cut = [segments EXCEPT ![i] = [segments[i] EXCEPT !.to = new]]
    OBVIOUS
  <2>3. cut \in Seq(Segment) /\ Len(cut) = n
    BY <1>1, <2>1, <2>2 DEF SegmentsTyped
  <2>4. \A k \in 1 .. n : cut[k] = IF k = i THEN [segments[i] EXCEPT !.to = new] ELSE segments[k]
    BY <1>1
  <2>5. /\ [segments[i] EXCEPT !.to = new].from = segments[i].from
        /\ [segments[i] EXCEPT !.to = new].to = new
    BY <1>1, <1>2 DEF Segment
  <2> QED
    BY <1>1, <2>3, <2>4, <2>5
<1>5. split = Append(cut, rest)
  BY DEF SplitSegment
<1> HIDE DEF cut, rest, split, n
<1>6. /\ split \in Seq(Segment) /\ Len(split) = n + 1
      /\ \A k \in 1 .. n : split[k] = cut[k]
      /\ split[n + 1] = rest
  BY <1>1, <1>3, <1>4, <1>5, AppendProperties
<1>7. /\ ins \in Seq(Element) /\ Len(ins) = n + 2
      /\ \A k \in 1 .. n + 2 :
            ins[k] = IF k < i + 1 THEN row[k] ELSE IF k = i + 1 THEN new ELSE row[k - 1]
  <2>1. i + 1 \in 1 .. Len(row) + 1 /\ Len(row) + 1 = n + 2
    BY <1>1
  <2>2. /\ ins \in Seq(Element) /\ Len(ins) = Len(row) + 1
        /\ \A k \in 1 .. Len(row) + 1 :
              ins[k] = IF k < i + 1 THEN row[k] ELSE IF k = i + 1 THEN new ELSE row[k - 1]
    <3>1. row \in Seq(Element)
      BY <1>1
    <3> DEFINE m == i + 1
    <3>2. m \in 1 .. Len(row) + 1
      BY <2>1
    <3> HIDE DEF m
    <3>3. /\ InsertAt(row, m, new) \in Seq(Element)
          /\ Len(InsertAt(row, m, new)) = Len(row) + 1
          /\ \A k \in 1 .. Len(row) + 1 :
                InsertAt(row, m, new)[k] =
                   IF k < m THEN row[k] ELSE IF k = m THEN new ELSE row[k - 1]
      BY <3>1, <3>2, InsertedEntries
    <3> QED
      BY <3>3 DEF m
  <2> HIDE DEF ins
  <2> QED
    BY <2>1, <2>2
<1>8. IsInjective(ins)
  <2>1. i + 1 \in 1 .. Len(row) + 1
    BY <1>1
  <2> QED
    BY <1>1, <2>1, InsertedRow
<1>9. /\ \A k \in 1 .. n + 1 : t[k] = IF k < i + 1 THEN split[k]
                                      ELSE IF k = i + 1 THEN split[n + 1] ELSE split[k - 1]
      /\ t \in [1 .. n + 1 -> Segment]
  <2>1. DOMAIN split = 1 .. n + 1 /\ \A k \in 1 .. n + 1 : split[k] \in Segment
    <3>1. n + 1 \in Nat
      BY <1>1
    <3> QED
      BY <1>6, <3>1, SequenceIsFunction
  <2>2. t = [k \in 1 .. n + 1 |-> IF k < i + 1 THEN split[k]
                                      ELSE IF k = i + 1 THEN split[n + 1] ELSE split[k - 1]]
    BY <1>6, <2>1 DEF Moved
  <2>3. \A k \in 1 .. n + 1 : (IF k < i + 1 THEN split[k]
                                      ELSE IF k = i + 1 THEN split[n + 1] ELSE split[k - 1]) \in Segment
    <3> TAKE k \in 1 .. n + 1
    <3>1. n + 1 \in 1 .. n + 1 /\ (~(k < i + 1) /\ k # i + 1 => k - 1 \in 1 .. n + 1)
      BY <1>1
    <3> QED
      BY <2>1, <3>1
  <2> HIDE DEF t
  <2> QED
    BY <2>2, <2>3
<1> HIDE DEF ins, t
<1>10. t \in Seq(Segment) /\ Len(t) = n + 1
  <2>1. n + 1 \in Nat
    BY <1>1
  <2> QED
    BY <1>9, <2>1, FunctionIsSequence
<1>11. ASSUME NEW k \in 1 .. n + 1
       PROVE  t[k].from = ins[k] /\ t[k].to = ins[k + 1]
  <2>1. CASE k < i + 1
    <3>1. /\ k \in 1 .. n /\ k \in 1 .. n + 2 /\ k + 1 \in 1 .. n + 2
          /\ (k = i \/ k + 1 < i + 1) /\ (k = i => k + 1 = i + 1 /\ ~(k + 1 < i + 1))
          /\ (k + 1 < i + 1 => k # i)
      BY <1>1, <2>1
    <3>2. t[k] = cut[k]
      BY <1>6, <1>9, <2>1, <3>1
    <3>3. t[k].from = row[k] /\ t[k].to = IF k = i THEN new ELSE row[k + 1]
      BY <1>4, <3>1, <3>2
    <3>4. ins[k] = row[k]
      BY <1>7, <2>1, <3>1
    <3>5. ins[k + 1] = IF k = i THEN new ELSE row[k + 1]
      BY <1>7, <3>1
    <3> QED
      BY <3>3, <3>4, <3>5
  <2>2. CASE k = i + 1
    <3>1. /\ k \in 1 .. n + 2 /\ k + 1 \in 1 .. n + 2 /\ ~(k < i + 1)
          /\ ~(k + 1 < i + 1) /\ k + 1 # i + 1 /\ k + 1 - 1 = i + 1
      BY <1>1, <2>2
    <3>2. t[k] = rest
      BY <1>6, <1>9, <2>2, <3>1
    <3>3. ins[k] = new
      BY <1>7, <2>2, <3>1
    <3>4. ins[k + 1] = row[i + 1]
      BY <1>7, <3>1
    <3> QED
      BY <1>3, <3>2, <3>3, <3>4
  <2>3. CASE ~(k < i + 1) /\ k # i + 1
    <3>1. /\ k \in 1 .. n + 2 /\ k + 1 \in 1 .. n + 2 /\ k - 1 \in 1 .. n
          /\ ~(k + 1 < i + 1) /\ k + 1 # i + 1 /\ k + 1 - 1 = k /\ k - 1 # i /\ k - 1 + 1 = k
      BY <1>1, <2>3
    <3>2. t[k] = cut[k - 1]
      BY <1>6, <1>9, <2>3, <3>1
    <3>3. t[k].from = row[k - 1] /\ t[k].to = row[k]
      BY <1>4, <3>1, <3>2
    <3>4. ins[k] = row[k - 1]
      BY <1>7, <2>3, <3>1
    <3>5. ins[k + 1] = row[k]
      BY <1>7, <3>1
    <3> QED
      BY <3>3, <3>4, <3>5
  <2> QED
    BY <2>1, <2>2, <2>3
<1>12. LeadThrough(t, ins)
  <2>1. Len(ins) = IF Len(t) = 0 THEN 0 ELSE Len(t) + 1
    BY <1>1, <1>7, <1>10
  <2>2. DOMAIN ins = 1 .. Len(ins)
    BY <1>7, SequenceIsFunction
  <2>3. \A a, b \in 1 .. Len(ins) : ins[a] = ins[b] => a = b
    BY <1>8, <2>2 DEF IsInjective
  <2> QED
    BY <1>7, <1>10, <1>11, <2>1, <2>3, LeadsIf
<1>13. i + 1 \in 1 .. Len(split)
  BY <1>1, <1>6
<1>14. l \in Reordered(split)
  BY DEF split
<1>15. l = t /\ l \in Seq(Segment)
  BY <1>6, <1>12, <1>13, <1>14, AddedInPlace DEF t
<1>16. i + 1 \in 2 .. Len(row)
  BY <1>1
<1> QED
  BY <1>12, <1>15, <1>16 DEF ins

\* What a row looks like with a new element at place m.
WithElement(row, m, new, l) ==
    /\ l \in Seq(Element) /\ Len(l) = Len(row) + 1
    /\ \A k \in 1 .. Len(row) + 1 :
          l[k] = IF k < m THEN row[k] ELSE IF k = m THEN new ELSE row[k - 1]

LEMMA InsertedElements ==
    ASSUME NEW row \in Seq(Element), NEW m \in 1 .. Len(row) + 1, NEW new \in Element
    PROVE  WithElement(row, m, new, InsertAt(row, m, new))
BY InsertedEntries DEF WithElement

\* A segment from the last element leads on to the new one.
LEMMA AppendLeads ==
    ASSUME SegmentsTyped, NEW row, LeadThrough(segments, row), Len(row) >= 2,
           NEW new \in Element, new \notin ToSet(row)
    PROVE  LeadThrough(Append(segments, NewSegment(row[Len(row)], new)),
                       InsertAt(row, Len(row) + 1, new))
<1> DEFINE n == Len(segments)
           m == Len(row) + 1
           end == NewSegment(row[Len(row)], new)
           l == Append(segments, end)
           ins == InsertAt(row, m, new)
<1>1. /\ n \in Nat /\ segments \in Seq(Segment)
      /\ row \in Seq(Element) /\ Len(row) \in Nat
      /\ Len(row) = n + 1
      /\ \A i \in 1 .. Len(row) : row[i] \in Element
      /\ \A k \in 1 .. n : segments[k].from = row[k] /\ segments[k].to = row[k + 1]
      /\ IsInjective(row)
  BY LeadFacts DEF SegmentsTyped, LeadThrough
<1>2. m \in 1 .. Len(row) + 1
  BY <1>1
<1>3. end \in Segment /\ end.from = row[n + 1] /\ end.to = new
  <2>1. Len(row) \in 1 .. Len(row)
    BY <1>1
  <2> QED
    BY <1>1, <2>1 DEF NewSegment, Segment
<1> HIDE DEF end, n
<1>4. /\ l \in Seq(Segment) /\ Len(l) = n + 1
      /\ \A k \in 1 .. n : l[k] = segments[k]
      /\ l[n + 1] = end
  BY <1>1, <1>3, AppendProperties DEF n
<1> HIDE DEF l, m
<1>5. /\ ins \in Seq(Element) /\ Len(ins) = Len(row) + 1
      /\ \A k \in 1 .. Len(row) + 1 :
            ins[k] = IF k < m THEN row[k] ELSE IF k = m THEN new ELSE row[k - 1]
  <2>1. row \in Seq(Element)
    BY <1>1
  <2>2. WithElement(row, m, new, ins)
    BY <1>2, <2>1, InsertedElements
  <2> QED
    BY <2>2 DEF WithElement
<1>6. IsInjective(ins)
  BY <1>1, <1>2, InsertedRow
<1> HIDE DEF ins
<1>7. (\A k \in 1 .. n + 1 : ins[k] = row[k]) /\ ins[n + 2] = new
  BY <1>1, <1>5 DEF m
<1>8. ASSUME NEW k \in 1 .. Len(l)
      PROVE  l[k].from = ins[k] /\ l[k].to = ins[k + 1]
  <2>1. CASE k = n + 1
    BY <1>1, <1>3, <1>4, <1>7, <2>1
  <2>2. CASE k # n + 1
    <3>1. k \in 1 .. n /\ k \in 1 .. n + 1 /\ k + 1 \in 1 .. n + 1
      BY <1>1, <1>4, <2>2
    <3> QED
      BY <1>1, <1>4, <1>7, <3>1
  <2> QED
    BY <2>1, <2>2
<1>9. Len(ins) = IF Len(l) = 0 THEN 0 ELSE Len(l) + 1
  BY <1>1, <1>4, <1>5
<1>10. \A a, b \in 1 .. Len(ins) : ins[a] = ins[b] => a = b
  BY <1>5, <1>6, SequenceIsFunction DEF IsInjective
<1>11. LeadThrough(l, ins)
  BY <1>4, <1>5, <1>8, <1>9, <1>10, LeadsIf
<1> QED
  BY <1>11 DEF l, ins, end, m

\* A segment to the first element is put before the others.
LEMMA FirstLeads ==
    ASSUME SegmentsTyped, NEW row, LeadThrough(segments, row), Len(row) >= 2,
           NEW new \in Element, new \notin ToSet(row),
           NEW l \in Reordered(Append(segments, NewSegment(new, row[1])))
    PROVE  LeadThrough(l, InsertAt(row, 1, new)) /\ l \in Seq(Segment)
<1> DEFINE n == Len(segments)
           begin == NewSegment(new, row[1])
           longer == Append(segments, begin)
           ins == InsertAt(row, 1, new)
           t == Moved(longer, 1)
<1>1. /\ n \in Nat /\ segments \in Seq(Segment)
      /\ row \in Seq(Element) /\ Len(row) \in Nat
      /\ Len(row) = n + 1
      /\ \A i \in 1 .. Len(row) : row[i] \in Element
      /\ \A k \in 1 .. n : segments[k].from = row[k] /\ segments[k].to = row[k + 1]
      /\ IsInjective(row)
  BY LeadFacts DEF SegmentsTyped, LeadThrough
<1>2. 1 \in 1 .. Len(row) /\ 1 \in 1 .. Len(row) + 1
  BY <1>1
<1>3. begin \in Segment /\ begin.from = new /\ begin.to = row[1]
  BY <1>1, <1>2 DEF NewSegment, Segment
<1> HIDE DEF begin, n
<1>4. /\ longer \in Seq(Segment) /\ Len(longer) = n + 1
      /\ \A k \in 1 .. n : longer[k] = segments[k]
      /\ longer[n + 1] = begin
  BY <1>1, <1>3, AppendProperties DEF n
<1> HIDE DEF longer
<1>5. /\ ins \in Seq(Element) /\ Len(ins) = Len(row) + 1
      /\ \A k \in 1 .. Len(row) + 1 :
            ins[k] = IF k < 1 THEN row[k] ELSE IF k = 1 THEN new ELSE row[k - 1]
  <2>1. row \in Seq(Element)
    BY <1>1
  <2>2. WithElement(row, 1, new, ins)
    BY <1>2, <2>1, InsertedElements
  <2> QED
    BY <2>2 DEF WithElement
<1>6. IsInjective(ins)
  BY <1>1, <1>2, InsertedRow
<1> HIDE DEF ins
<1>7. ins[1] = new /\ \A k \in 2 .. n + 2 : ins[k] = row[k - 1]
  BY <1>1, <1>5
<1>8. /\ t[1] = begin
      /\ \A k \in 2 .. n + 1 : t[k] = segments[k - 1]
      /\ t \in [1 .. n + 1 -> Segment]
  <2>1. DOMAIN longer = 1 .. n + 1 /\ \A k \in 1 .. n + 1 : longer[k] \in Segment
    BY <1>4, SequenceIsFunction
  <2>2. t = [k \in 1 .. n + 1 |-> IF k < 1 THEN longer[k]
                                  ELSE IF k = 1 THEN longer[n + 1] ELSE longer[k - 1]]
    BY <1>4, <2>1 DEF Moved
  <2> HIDE DEF t
  <2>3. 1 \in 1 .. n + 1 /\ n + 1 \in 1 .. n + 1
    BY <1>1
  <2>4. t[1] = begin
    BY <1>4, <2>2, <2>3
  <2>5. ASSUME NEW k \in 2 .. n + 1
        PROVE  t[k] = segments[k - 1] /\ t[k] \in Segment
    <3>1. k \in 1 .. n + 1 /\ ~(k < 1) /\ k # 1 /\ k - 1 \in 1 .. n /\ k - 1 \in 1 .. n + 1
      BY <1>1
    <3> QED
      BY <1>4, <2>1, <2>2, <3>1
  <2>6. \A k \in 1 .. n + 1 : k = 1 \/ k \in 2 .. n + 1
    BY <1>1
  <2>7. DOMAIN t = 1 .. n + 1 /\ \A k \in 1 .. n + 1 : t[k] \in Segment
    BY <1>3, <2>2, <2>4, <2>5, <2>6
  <2>8. t = [k \in 1 .. n + 1 |-> t[k]]
    BY <2>2
  <2> QED
    BY <2>4, <2>5, <2>7, <2>8
<1> HIDE DEF t
<1>9. t \in Seq(Segment) /\ Len(t) = n + 1
  <2>1. n + 1 \in Nat
    BY <1>1
  <2> QED
    BY <1>8, <2>1, FunctionIsSequence
<1>10. ASSUME NEW k \in 1 .. Len(t)
       PROVE  t[k].from = ins[k] /\ t[k].to = ins[k + 1]
  <2>1. CASE k = 1
    <3>1. 2 \in 2 .. n + 2 /\ 2 - 1 = 1 /\ 1 + 1 = 2
      BY <1>1
    <3> QED
      BY <1>3, <1>7, <1>8, <2>1, <3>1
  <2>2. CASE k # 1
    <3>1. /\ k \in 2 .. n + 1 /\ k \in 2 .. n + 2 /\ k + 1 \in 2 .. n + 2
          /\ k - 1 \in 1 .. n /\ k - 1 + 1 = k /\ k + 1 - 1 = k
      BY <1>1, <1>9, <2>2
    <3>2. t[k] = segments[k - 1] /\ ins[k] = row[k - 1] /\ ins[k + 1] = row[k]
      BY <1>7, <1>8, <3>1
    <3> QED
      BY <1>1, <3>1, <3>2
  <2> QED
    BY <2>1, <2>2
<1>11. Len(ins) = IF Len(t) = 0 THEN 0 ELSE Len(t) + 1
  BY <1>1, <1>5, <1>9
<1>12. \A a, b \in 1 .. Len(ins) : ins[a] = ins[b] => a = b
  BY <1>5, <1>6, SequenceIsFunction DEF IsInjective
<1>13. LeadThrough(t, ins)
  BY <1>5, <1>9, <1>10, <1>11, <1>12, LeadsIf
<1>14. 1 \in 1 .. Len(longer) /\ l \in Reordered(longer)
  BY <1>1, <1>4 DEF longer, begin
<1>15. l = t
  BY <1>4, <1>13, <1>14, AddedInPlace DEF t
<1> QED
  BY <1>9, <1>13, <1>15 DEF ins

\* The row without its k-th element; no segment leads through a single one.
RowWithout(row, k) == IF Len(row) > 2 THEN RemoveAt(row, k) ELSE <<>>

\* Segments that pass over the k-th element lead through the others.
LEMMA PassingLeads ==
    ASSUME NEW row \in Seq(Element), IsInjective(row), Len(row) >= 2, NEW k \in 1 .. Len(row),
           NEW l \in Seq(Segment), Len(l) = Len(row) - 2,
           \A j \in 1 .. Len(l) : /\ l[j].from = IF j < k THEN row[j] ELSE row[j + 1]
                                  /\ l[j].to = IF j + 1 < k THEN row[j + 1] ELSE row[j + 2]
    PROVE  LeadThrough(l, RowWithout(row, k))
<1>1. Len(row) \in Nat /\ Len(l) \in Nat
  BY SequenceIsFunction
<1>2. CASE Len(row) > 2
  <2> DEFINE less == RemoveAt(row, k)
  <2>1. /\ less \in Seq(Element) /\ Len(less) = Len(row) - 1
        /\ \A j \in 1 .. Len(row) - 1 : less[j] = IF j < k THEN row[j] ELSE row[j + 1]
    BY RemovedEntries
  <2>2. IsInjective(less)
    BY RemovedRow
  <2> HIDE DEF less
  <2>3. ASSUME NEW j \in 1 .. Len(l)
        PROVE  l[j].from = less[j] /\ l[j].to = less[j + 1]
    <3>1. j \in 1 .. Len(row) - 1 /\ j + 1 \in 1 .. Len(row) - 1 /\ j + 1 + 1 = j + 2
      BY <1>1
    <3> QED
      BY <2>1, <3>1
  <2>4. Len(less) = IF Len(l) = 0 THEN 0 ELSE Len(l) + 1
    <3>1. Len(l) # 0 /\ Len(l) + 1 = Len(row) - 1
      BY <1>1, <1>2
    <3> QED
      BY <2>1, <3>1
  <2>5. \A a, b \in 1 .. Len(less) : less[a] = less[b] => a = b
    BY <2>1, <2>2, SequenceIsFunction DEF IsInjective
  <2>6. LeadThrough(l, less)
    BY <2>1, <2>3, <2>4, <2>5, LeadsIf
  <2> QED
    BY <1>2, <2>6 DEF RowWithout, less
<1>3. CASE ~(Len(row) > 2)
  <2>1. Len(l) = 0
    BY <1>1, <1>3
  <2> DEFINE none == <<>>
  <2>2. none \in Seq(Element) /\ Len(none) = 0
    OBVIOUS
  <2>3. \A j \in 1 .. Len(l) : l[j].from = none[j] /\ l[j].to = none[j + 1]
    <3>1. \A j \in 1 .. Len(l) : FALSE
      <4> TAKE j \in 1 .. Len(l)
      <4>1. j \in 1 .. 0
        BY <2>1
      <4> QED
        BY <4>1
    <3> HIDE DEF none
    <3> QED
      BY <3>1
  <2>4. \A a, b \in 1 .. Len(none) : none[a] = none[b] => a = b
    BY <2>2
  <2> HIDE DEF none
  <2>5. Len(none) = IF Len(l) = 0 THEN 0 ELSE Len(l) + 1
    BY <2>1, <2>2
  <2>6. LeadThrough(l, none)
    BY <2>2, <2>3, <2>4, <2>5, LeadsIf
  <2> QED
    BY <1>3, <2>6 DEF RowWithout, none
<1> QED
  BY <1>2, <1>3

LEMMA ClosedLeads ==
    ASSUME SegmentsTyped, NEW row, LeadThrough(segments, row),
           NEW k \in 2 .. Len(row) - 1, NEW l \in GapClosed(segments, row, k)
    PROVE  LeadThrough(l, RowWithout(row, k)) /\ l \in Seq(Segment)
<1> DEFINE n == Len(segments)
           longer == [segments EXCEPT ![k - 1].to = row[k + 1]]
<1>1. /\ n \in Nat /\ segments \in Seq(Segment) /\ DOMAIN segments = 1 .. n
      /\ row \in Seq(Element) /\ Len(row) \in Nat /\ Len(row) = n + 1
      /\ \A i \in 1 .. Len(row) : row[i] \in Element
      /\ \A i \in 1 .. n : segments[i].from = row[i] /\ segments[i].to = row[i + 1]
      /\ IsInjective(row)
  BY LeadFacts DEF SegmentsTyped, LeadThrough
<1>2. /\ k \in 1 .. n /\ k - 1 \in 1 .. n /\ k - 1 + 1 = k /\ k # k - 1
      /\ k - 1 \in 1 .. Len(row) - 1 /\ k \in 1 .. Len(row) - 1
      /\ k \in 1 .. Len(row) /\ k + 1 \in 1 .. Len(row) /\ Len(row) >= 2
  BY <1>1
<1>3. /\ SegmentFromTo(segments, row[k - 1], row[k]) = {k - 1}
      /\ SegmentFromTo(segments, row[k], row[k + 1]) = {k}
  <2>1. k \in 2 .. Len(row) /\ k \in 1 .. Len(row) - 1
    BY <1>1
  <2>2. segments \in Seq(Segment)
    BY <1>1
  <2>3. SegmentFromTo(segments, row[k - 1], row[k]) = {k - 1}
    BY <2>1, <2>2, FoundBefore
  <2>4. SegmentFromTo(segments, row[k], row[k + 1]) = {k}
    BY <2>1, <2>2, FoundInRow
  <2> QED
    BY <2>3, <2>4
<1>4. l = RemoveAt(longer, k)
  <2>1. PICK i \in SegmentFromTo(segments, row[k - 1], row[k]),
             j \in SegmentFromTo(segments, row[k], row[k + 1]) :
           l = Extended(segments, i, j, row[k + 1])
    BY GapClosedBy
  <2>2. i = k - 1 /\ j = k
    BY <1>3
  <2> QED
    BY <2>1, <2>2 DEF Extended
<1>5. /\ longer \in Seq(Segment) /\ Len(longer) = n
      /\ \A i \in 1 .. n : longer[i].from = row[i]
      /\ \A i \in 1 .. n : longer[i].to = IF i = k - 1 THEN row[k + 1] ELSE row[i + 1]
  <2>1. segments[k - 1] \in Segment /\ row[k + 1] \in Element
    BY <1>1, <1>2
  <2>2. [segments[k - 1] EXCEPT !.to = row[k + 1]] \in Segment
    BY <2>1 DEF Segment
  <2>3. longer = [segments EXCEPT ![k - 1] = [segments[k - 1] EXCEPT !.to = row[k + 1]]]
    OBVIOUS
  <2>4. longer \in Seq(Segment) /\ Len(longer) = n
    BY <1>1, <1>2, <2>2, <2>3
  <2>5. \A i \in 1 .. n : longer[i] = IF i = k - 1 THEN [segments[k - 1] EXCEPT !.to = row[k + 1]]
                                      ELSE segments[i]
    BY <1>1
  <2>6. /\ [segments[k - 1] EXCEPT !.to = row[k + 1]].from = segments[k - 1].from
        /\ [segments[k - 1] EXCEPT !.to = row[k + 1]].to = row[k + 1]
    BY <2>1 DEF Segment
  <2> HIDE DEF longer, n
  <2> QED
    BY <1>1, <2>4, <2>5, <2>6
<1> HIDE DEF longer, n
<1>6. /\ l \in Seq(Segment) /\ Len(l) = n - 1
      /\ \A j \in 1 .. n - 1 : l[j] = IF j < k THEN longer[j] ELSE longer[j + 1]
  <2>1. k \in 1 .. Len(longer)
    BY <1>2, <1>5
  <2> QED
    BY <1>4, <1>5, <2>1, RemovedEntries
<1>7. ASSUME NEW j \in 1 .. Len(l)
      PROVE  /\ l[j].from = IF j < k THEN row[j] ELSE row[j + 1]
             /\ l[j].to = IF j + 1 < k THEN row[j + 1] ELSE row[j + 2]
  <2>1. j \in 1 .. n /\ j + 1 \in 1 .. n /\ j \in 1 .. n - 1 /\ j + 1 + 1 = j + 2
    BY <1>1, <1>6
  <2>2. CASE j + 1 < k
    <3>1. j < k /\ j # k - 1
      BY <1>2, <2>1, <2>2
    <3> QED
      BY <1>5, <1>6, <2>1, <2>2, <3>1
  <2>3. CASE j + 1 = k
    <3>1. j < k /\ j = k - 1 /\ ~(j + 1 < k) /\ k + 1 = j + 2
      BY <1>2, <2>1, <2>3
    <3> QED
      BY <1>5, <1>6, <2>1, <3>1
  <2>4. CASE ~(j + 1 < k) /\ j + 1 # k
    <3>1. ~(j < k) /\ j + 1 # k - 1
      BY <1>2, <2>1, <2>4
    <3> QED
      BY <1>5, <1>6, <2>1, <2>4, <3>1
  <2> QED
    BY <2>2, <2>3, <2>4
<1>8. Len(l) = Len(row) - 2
  BY <1>1, <1>6
<1>9. LeadThrough(l, RowWithout(row, k))
  BY <1>1, <1>2, <1>6, <1>7, <1>8, PassingLeads
<1> QED
  BY <1>6, <1>9

\* The first or the last segment goes with the first or the last element.
LEMMA EndRemovedLeads ==
    ASSUME SegmentsTyped, NEW row, LeadThrough(segments, row), Len(row) >= 2,
           NEW k \in {1, Len(row)}, NEW i, i = IF k = 1 THEN 1 ELSE k - 1
    PROVE  /\ LeadThrough(RemoveAt(segments, i), RowWithout(row, k))
           /\ RemoveAt(segments, i) \in Seq(Segment)
<1> DEFINE n == Len(segments)
           l == RemoveAt(segments, i)
<1>1. /\ n \in Nat /\ segments \in Seq(Segment)
      /\ row \in Seq(Element) /\ Len(row) \in Nat /\ Len(row) = n + 1
      /\ \A j \in 1 .. n : segments[j].from = row[j] /\ segments[j].to = row[j + 1]
      /\ IsInjective(row)
  BY LeadFacts DEF SegmentsTyped, LeadThrough
<1>2. i \in 1 .. n /\ k \in 1 .. Len(row)
  BY <1>1
<1>3. /\ l \in Seq(Segment) /\ Len(l) = n - 1
      /\ \A j \in 1 .. n - 1 : l[j] = IF j < i THEN segments[j] ELSE segments[j + 1]
  BY <1>1, <1>2, RemovedEntries
<1> HIDE DEF l, n
<1>4. ASSUME NEW j \in 1 .. Len(l)
      PROVE  /\ l[j].from = IF j < k THEN row[j] ELSE row[j + 1]
             /\ l[j].to = IF j + 1 < k THEN row[j + 1] ELSE row[j + 2]
  <2>1. j \in 1 .. n /\ j + 1 \in 1 .. n /\ j \in 1 .. n - 1 /\ j + 1 + 1 = j + 2
    BY <1>1, <1>3
  <2>2. CASE k = 1
    <3>1. ~(j < i) /\ ~(j < k) /\ ~(j + 1 < k)
      BY <2>1, <2>2
    <3> QED
      BY <1>1, <1>3, <2>1, <3>1
  <2>3. CASE k # 1
    <3>1. j < i /\ j < k /\ j + 1 < k
      BY <1>1, <2>1, <2>3
    <3> QED
      BY <1>1, <1>3, <2>1, <3>1
  <2> QED
    BY <2>2, <2>3
<1>5. Len(l) = Len(row) - 2
  BY <1>1, <1>3
<1>6. LeadThrough(l, RowWithout(row, k))
  BY <1>1, <1>2, <1>3, <1>4, <1>5, PassingLeads
<1> QED
  BY <1>3, <1>6 DEF l

\* Whatever element is disconnected, the segments lead through the others.
LEMMA DisconnectedLeads ==
    ASSUME SegmentsTyped, NEW row, LeadThrough(segments, row), Len(row) >= 2,
           NEW k \in 1 .. Len(row), NEW l \in Disconnected(segments, row, k)
    PROVE  LeadThrough(l, RowWithout(row, k)) /\ l \in Seq(Segment)
<1>1. Len(row) \in Nat /\ segments \in Seq(Segment)
  BY LeadFacts DEF SegmentsTyped
<1>2. CASE 1 < k /\ k < Len(row)
  <2>1. k \in 2 .. Len(row) - 1
    BY <1>1, <1>2
  <2>2. l \in GapClosed(segments, row, k)
    BY <1>2 DEF Disconnected
  <2> QED
    BY <2>1, <2>2, ClosedLeads
<1>3. CASE k = 1
  <2>1. 1 \in 1 .. Len(row) - 1 /\ ~(k > 1) /\ ~(1 < k)
    BY <1>1, <1>3
  <2>2. SegmentFromTo(segments, row[1], row[1 + 1]) = {1}
    BY <1>1, <2>1, FoundInRow
  <2>3. l = RemoveAt(segments, 1)
    BY <1>3, <2>1, <2>2 DEF Disconnected
  <2> QED
    BY <1>3, <2>3, EndRemovedLeads
<1>4. CASE k = Len(row) /\ k # 1
  <2>1. k - 1 \in 1 .. Len(row) - 1 /\ k > 1 /\ k - 1 + 1 = k /\ ~(k < Len(row))
    BY <1>1, <1>4
  <2>2. SegmentFromTo(segments, row[k - 1], row[k]) = {k - 1}
    <3>1. k \in 2 .. Len(row)
      BY <1>1, <1>4
    <3> QED
      BY <1>1, <3>1, FoundBefore
  <2>3. l = RemoveAt(segments, k - 1)
    BY <1>4, <2>1, <2>2 DEF Disconnected
  <2> QED
    BY <1>4, <2>3, EndRemovedLeads
<1> QED
  BY <1>1, <1>2, <1>3, <1>4

-----------------------------------------------------------------------------
(* Sections.                                                               *)

\* Sorting puts every section at one place, and none before one of lower rank.
LEMMA SortedSections ==
    ASSUME NEW S, NEW secs \in Seq(S), NEW rank \in [DOMAIN secs -> Int]
    PROVE  /\ Sorted(secs, rank) \in Seq(S)
           /\ Len(Sorted(secs, rank)) = Len(secs)
           /\ ToSet(Sorted(secs, rank)) = ToSet(secs)
           /\ \E at \in [DOMAIN secs -> DOMAIN secs] :
                 /\ \A k \in DOMAIN secs : Sorted(secs, rank)[k] = secs[at[k]]
                 /\ \A j, k \in DOMAIN secs : j < k => rank[at[j]] <= rank[at[k]]
<1> DEFINE n == Len(secs)
           before(i) == {j \in DOMAIN secs : rank[j] < rank[i] \/ (rank[j] = rank[i] /\ j < i)}
           place == [i \in DOMAIN secs |-> Cardinality(before(i)) + 1]
           l == Sorted(secs, rank)
           at == [k \in DOMAIN secs |-> CHOOSE i \in DOMAIN secs : place[i] = k]
<1>1. /\ n \in Nat /\ DOMAIN secs = 1 .. n /\ secs \in [1 .. n -> S]
      /\ ToSet(secs) = {secs[i] : i \in 1 .. n}
      /\ rank \in [1 .. n -> Int]
  BY SequenceIsFunction
<1>2. l = [k \in 1 .. n |-> secs[at[k]]]
  BY <1>1 DEF Sorted
<1> HIDE DEF n, l
<1>3. IsFiniteSet(1 .. n) /\ Cardinality(1 .. n) = n
  BY <1>1, FS_Interval
<1>4. \A i \in 1 .. n : before(i) \in SUBSET (1 .. n) /\ i \notin before(i)
  BY <1>1
<1>5. \A i, j \in 1 .. n : i \in before(j) => before(i) \subseteq before(j)
  <2> TAKE i, j \in 1 .. n
  <2> HAVE i \in before(j)
  <2>1. ASSUME NEW k \in before(i)
        PROVE  k \in before(j)
    <3>1. k \in 1 .. n /\ rank[i] \in Int /\ rank[j] \in Int /\ rank[k] \in Int
      BY <1>1
    <3> QED
      BY <1>1, <3>1
  <2> QED
    BY <2>1
<1>6. \A i, j \in 1 .. n : i # j => i \in before(j) \/ j \in before(i)
  <2> TAKE i, j \in 1 .. n
  <2>1. rank[i] \in Int /\ rank[j] \in Int
    BY <1>1
  <2> QED
    BY <1>1, <2>1
<1>7. \A i, j \in 1 .. n : rank[i] < rank[j] => i \in before(j)
  BY <1>1
<1> HIDE DEF before
<1>8. \A i \in 1 .. n : IsFiniteSet(before(i)) /\ Cardinality(before(i)) \in Nat
  BY <1>3, <1>4, FS_Subset, FS_CardinalityType
<1>9. ASSUME NEW i \in 1 .. n
      PROVE  Cardinality(before(i)) < n
  <2>1. before(i) # 1 .. n
    BY <1>4
  <2>2. Cardinality(before(i)) <= n /\ Cardinality(before(i)) # n
    BY <1>3, <1>4, <2>1, FS_Subset
  <2> QED
    BY <1>1, <1>8, <2>2
<1>10. ASSUME NEW i \in 1 .. n, NEW j \in 1 .. n, i \in before(j)
       PROVE  Cardinality(before(i)) < Cardinality(before(j))
  <2>1. before(i) # before(j)
    BY <1>4, <1>10
  <2>2. before(i) \in SUBSET before(j) /\ IsFiniteSet(before(j))
    BY <1>5, <1>8, <1>10
  <2>3. /\ Cardinality(before(i)) <= Cardinality(before(j))
        /\ Cardinality(before(i)) # Cardinality(before(j))
    BY <2>1, <2>2, FS_Subset
  <2> QED
    BY <1>8, <2>3
<1>11. place \in [1 .. n -> 1 .. n]
  <2>1. \A i \in 1 .. n : Cardinality(before(i)) + 1 \in 1 .. n
    BY <1>1, <1>8, <1>9
  <2> QED
    BY <1>1, <2>1
<1>12. \A i, j \in 1 .. n : i \in before(j) => place[i] < place[j]
  <2> TAKE i, j \in 1 .. n
  <2> HAVE i \in before(j)
  <2>1. place[i] = Cardinality(before(i)) + 1 /\ place[j] = Cardinality(before(j)) + 1
    BY <1>1
  <2> QED
    BY <1>8, <1>10, <2>1
<1> HIDE DEF place
<1>13. \A i, j \in 1 .. n : place[i] = place[j] => i = j
  <2> TAKE i, j \in 1 .. n
  <2>1. place[i] \in 1 .. n /\ place[j] \in 1 .. n
    BY <1>11
  <2> QED
    BY <1>6, <1>12, <2>1
<1>14. \A k \in 1 .. n : \E i \in 1 .. n : place[i] = k
  <2>1. place \in Injection(1 .. n, 1 .. n)
    BY <1>11, <1>13 DEF Injection, IsInjective
  <2>2. place \in Surjection(1 .. n, 1 .. n)
    BY <1>3, <2>1, FS_Injection
  <2> QED
    BY <2>2 DEF Surjection
<1>15. at \in [1 .. n -> 1 .. n] /\ \A k \in 1 .. n : place[at[k]] = k
  BY <1>1, <1>14
<1>16. \A i \in 1 .. n : at[place[i]] = i
  BY <1>11, <1>13, <1>15
<1> HIDE DEF at
<1>17. l \in Seq(S) /\ Len(l) = n
  <2>1. l \in [1 .. n -> S]
    BY <1>1, <1>2, <1>15
  <2> QED
    BY <1>1, <2>1, FunctionIsSequence
<1>18. ToSet(l) = ToSet(secs)
  <2>1. ToSet(l) = {l[k] : k \in 1 .. n}
    BY <1>17, SequenceIsFunction
  <2>2. \A k \in 1 .. n : l[k] \in ToSet(secs)
    BY <1>1, <1>2, <1>15
  <2>3. \A i \in 1 .. n : secs[i] = l[place[i]] /\ place[i] \in 1 .. n
    BY <1>2, <1>11, <1>16
  <2>4. ToSet(secs) \subseteq ToSet(l)
    BY <1>1, <2>1, <2>3
  <2> QED
    BY <2>1, <2>2, <2>4
<1>19. ASSUME NEW j \in 1 .. n, NEW k \in 1 .. n, j < k
       PROVE  rank[at[j]] <= rank[at[k]]
  <2>1. at[j] \in 1 .. n /\ at[k] \in 1 .. n
    BY <1>15
  <2>2. rank[at[j]] \in Int /\ rank[at[k]] \in Int
    BY <1>1, <2>1
  <2>3. ~(rank[at[k]] < rank[at[j]])
    <3>1. at[k] \in before(at[j]) => k < j
      BY <1>12, <1>15, <2>1
    <3> QED
      BY <1>1, <1>7, <1>19, <2>1, <3>1
  <2> QED
    BY <2>2, <2>3
<1> QED
  BY <1>1, <1>2, <1>15, <1>17, <1>18, <1>19 DEF l, n

\* A list and the elements of its sections.
LEMMA ElementsBySection ==
    ASSUME NEW S, NEW secs \in Seq(S)
    PROVE  \A e : e \in ElementsOf(secs) <=> \E s \in ToSet(secs) : e \in ToSet(s.elements)
<1>1. /\ \A i \in DOMAIN secs : secs[i] \in ToSet(secs)
      /\ \A s \in ToSet(secs) : \E i \in DOMAIN secs : secs[i] = s
  BY DEF ToSet
<1> QED
  BY <1>1 DEF ElementsOf

\* A new section joins the others.
SectionsTyped == sections \in Seq(Section)
NewSection(new, positioned) == [elements |-> <<new>>, positioned |-> positioned]

LEMMA AddedSections ==
    ASSUME SectionsTyped, NEW new \in Element, NEW positioned \in BOOLEAN
    PROVE  /\ SectionAdded(new, positioned) \in Seq(Section)
           /\ ToSet(SectionAdded(new, positioned)) = ToSet(sections) \cup {NewSection(new, positioned)}
           /\ NewSection(new, positioned) \in Section
<1> DEFINE s == NewSection(new, positioned)
           l == Append(sections, s)
<1>1. s \in Section
  BY DEF NewSection, Section
<1> HIDE DEF s
<1>2. /\ Len(sections) \in Nat /\ sections \in Seq(Section)
      /\ ToSet(sections) = {sections[i] : i \in 1 .. Len(sections)}
  BY SequenceIsFunction DEF SectionsTyped
<1>3. /\ l \in Seq(Section) /\ Len(l) = Len(sections) + 1
      /\ \A i \in 1 .. Len(sections) : l[i] = sections[i]
      /\ l[Len(sections) + 1] = s
  BY <1>1, <1>2, AppendProperties
<1> HIDE DEF l
<1>4. ToSet(l) = {l[i] : i \in 1 .. Len(sections) + 1}
  BY <1>3, SequenceIsFunction
<1>5. \A i \in 1 .. Len(sections) + 1 : l[i] \in ToSet(sections) \cup {s}
  <2> TAKE i \in 1 .. Len(sections) + 1
  <2>1. i \in 1 .. Len(sections) \/ i = Len(sections) + 1
    BY <1>2
  <2> QED
    BY <1>2, <1>3, <2>1
<1>6. \A i \in 1 .. Len(sections) : i \in 1 .. Len(sections) + 1
  BY <1>2
<1>7. Len(sections) + 1 \in 1 .. Len(sections) + 1
  BY <1>2
<1>8. ToSet(sections) \cup {s} \subseteq ToSet(l)
  BY <1>2, <1>3, <1>4, <1>6, <1>7
<1>9. ToSet(l) = ToSet(sections) \cup {s}
  BY <1>4, <1>5, <1>8
<1>10. SectionAdded(new, positioned) = l
  BY DEF SectionAdded, l, s, NewSection
<1> QED
  BY <1>1, <1>3, <1>9, <1>10 DEF s

\* The ranks that ReorderSections sorts by are numbers.
LEMMA RankNumbers ==
    ASSUME NEW row \in Seq(Element), NEW s
    PROVE  Rank(s, row) \in Int
<1>1. /\ Len(row) \in Nat /\ DOMAIN row = 1 .. Len(row)
      /\ ToSet(row) = {row[i] : i \in 1 .. Len(row)}
  BY SequenceIsFunction
<1>2. CASE s.elements[1] \in ToSet(row)
  <2>1. \E k \in DOMAIN row : row[k] = s.elements[1]
    BY <1>1, <1>2
  <2>2. (CHOOSE k \in DOMAIN row : row[k] = s.elements[1]) \in DOMAIN row
    BY <2>1
  <2> QED
    BY <1>1, <1>2, <2>2 DEF Rank
<1>3. CASE s.elements[1] \notin ToSet(row)
  BY <1>1, <1>3 DEF Rank
<1> QED
  BY <1>2, <1>3

LEMMA ReorderedSections ==
    ASSUME NEW secs \in Seq(Section), NEW segs \in Seq(Segment), NEW row, LeadThrough(segs, row)
    PROVE  /\ SectionsReordered(secs, segs) \in Seq(Section)
           /\ Len(SectionsReordered(secs, segs)) = Len(secs)
           /\ ToSet(SectionsReordered(secs, segs)) = ToSet(secs)
           /\ \E at \in [DOMAIN secs -> DOMAIN secs] :
                 /\ \A k \in DOMAIN secs : SectionsReordered(secs, segs)[k] = secs[at[k]]
                 /\ \A j, k \in DOMAIN secs :
                       j < k => Rank(secs[at[j]], row) <= Rank(secs[at[k]], row)
<1> DEFINE rank == [i \in DOMAIN secs |-> Rank(secs[i], row)]
<1>1. row \in Seq(Element) /\ GetElementUIDsInOrder(segs) = row
  BY RowOfSegments DEF LeadThrough
<1>2. rank \in [DOMAIN secs -> Int]
  BY <1>1, RankNumbers
<1>3. SectionsReordered(secs, segs) = Sorted(secs, rank)
  BY <1>1 DEF SectionsReordered
<1>4. \A i \in DOMAIN secs : rank[i] = Rank(secs[i], row)
  OBVIOUS
<1> HIDE DEF rank
<1>5. /\ Sorted(secs, rank) \in Seq(Section)
      /\ Len(Sorted(secs, rank)) = Len(secs)
      /\ ToSet(Sorted(secs, rank)) = ToSet(secs)
  BY <1>2, SortedSections
<1>6. PICK at \in [DOMAIN secs -> DOMAIN secs] :
         /\ \A k \in DOMAIN secs : Sorted(secs, rank)[k] = secs[at[k]]
         /\ \A j, k \in DOMAIN secs : j < k => rank[at[j]] <= rank[at[k]]
  BY <1>2, SortedSections
<1>7. \A k \in DOMAIN secs : rank[at[k]] = Rank(secs[at[k]], row)
  BY <1>4
<1> QED
  BY <1>3, <1>5, <1>6, <1>7

\* Without one of them, the other sections are left.
LEMMA SectionsWithout ==
    ASSUME SectionsTyped, NEW e \in ElementsOf(sections)
    PROVE  /\ Without(sections, e) \in Seq(Section)
           /\ ToSet(Without(sections, e)) \subseteq ToSet(sections)
           /\ \E s \in ToSet(sections) : /\ e \in ToSet(s.elements)
                                         /\ ToSet(sections) \ {s} \subseteq ToSet(Without(sections, e))
<1> DEFINE m == CHOOSE i \in DOMAIN sections : e \in ToSet(sections[i].elements)
           l == RemoveAt(sections, m)
<1>1. /\ Len(sections) \in Nat /\ DOMAIN sections = 1 .. Len(sections)
      /\ sections \in Seq(Section)
      /\ ToSet(sections) = {sections[i] : i \in 1 .. Len(sections)}
  BY SequenceIsFunction DEF SectionsTyped
<1>2. m \in 1 .. Len(sections) /\ e \in ToSet(sections[m].elements)
  <2>1. \E i \in DOMAIN sections : e \in ToSet(sections[i].elements)
    BY DEF ElementsOf
  <2> QED
    BY <1>1, <2>1
<1>3. Without(sections, e) = l
  BY Zenon DEF Without
<1> HIDE DEF m
<1>4. /\ l \in Seq(Section) /\ Len(l) = Len(sections) - 1
      /\ \A k \in 1 .. Len(sections) - 1 : l[k] = IF k < m THEN sections[k] ELSE sections[k + 1]
  BY <1>1, <1>2, RemovedEntries
<1> HIDE DEF l
<1>5. ToSet(l) = {l[i] : i \in 1 .. Len(sections) - 1}
  BY <1>4, SequenceIsFunction
<1>6. ToSet(l) \subseteq ToSet(sections)
  <2>1. \A k \in 1 .. Len(sections) - 1 : k \in 1 .. Len(sections) /\ k + 1 \in 1 .. Len(sections)
    BY <1>1
  <2>2. \A k \in 1 .. Len(sections) - 1 : l[k] \in ToSet(sections)
    BY <1>1, <1>4, <2>1
  <2> QED
    BY <1>5, <2>2
<1>7. ASSUME NEW i \in 1 .. Len(sections), i # m
      PROVE  sections[i] \in ToSet(l)
  <2>1. CASE i < m
    <3>1. i \in 1 .. Len(sections) - 1
      BY <1>1, <1>2, <2>1
    <3> QED
      BY <1>4, <1>5, <2>1, <3>1
  <2>2. CASE ~(i < m)
    <3>1. i - 1 \in 1 .. Len(sections) - 1 /\ ~(i - 1 < m) /\ i - 1 + 1 = i
      BY <1>1, <1>2, <1>7, <2>2
    <3>2. l[i - 1] = sections[i]
      BY <1>4, <3>1
    <3> QED
      BY <1>5, <3>1, <3>2
  <2> QED
    BY <2>1, <2>2
<1>8. ToSet(sections) \ {sections[m]} \subseteq ToSet(l)
  <2>1. \A i \in 1 .. Len(sections) : sections[i] # sections[m] => i # m
    OBVIOUS
  <2> QED
    BY <1>1, <1>7, <2>1
<1>9. sections[m] \in ToSet(sections)
  BY <1>1, <1>2
<1> QED
  BY <1>2, <1>3, <1>4, <1>6, <1>8, <1>9

\* A section with a new element shares none with the others.
LEMMA HoldGrows ==
    ASSUME SectionsTyped, NEW row, Hold(sections, row),
           NEW new \in Element, new \notin ElementsOf(sections), NEW positioned \in BOOLEAN,
           NEW secs \in Seq(Section),
           ToSet(secs) = ToSet(sections) \cup {NewSection(new, positioned)},
           NEW longer, ToSet(longer) \subseteq ToSet(row) \cup {new}
    PROVE  /\ Hold(secs, longer)
           /\ ElementsOf(sections) \subseteq ElementsOf(secs)
           /\ (positioned \/ new \notin ToSet(longer)) /\ AllPositioned(sections, row)
                 => AllPositioned(secs, longer)
<1> DEFINE n == NewSection(new, positioned)
<1>1. /\ n.elements # <<>> /\ ToSet(n.elements) = {new} /\ n.positioned = positioned
  BY DEF NewSection, ToSet
<1>2. \A s \in ToSet(sections) : new \notin ToSet(s.elements)
  BY ElementsBySection DEF SectionsTyped
<1> HIDE DEF n
<1>3. ToSet(secs) = ToSet(sections) \cup {n}
  BY DEF n
<1>4. \A e : e \in ElementsOf(secs) <=> \E s \in ToSet(secs) : e \in ToSet(s.elements)
  BY ElementsBySection
<1>5. \A e : e \in ElementsOf(sections) <=> \E s \in ToSet(sections) : e \in ToSet(s.elements)
  BY ElementsBySection DEF SectionsTyped
<1>6. ElementsOf(sections) \subseteq ElementsOf(secs) /\ new \in ElementsOf(secs)
  <2>1. new \in ToSet(n.elements) /\ n \in ToSet(secs)
    BY <1>1, <1>3
  <2> QED
    BY <1>3, <1>4, <1>5, <2>1
<1>7. ASSUME NEW s \in ToSet(secs)
      PROVE  /\ s.elements # <<>>
             /\ \A x, y \in ToSet(s.elements) \cap ToSet(longer) : x = y
  <2>1. CASE s = n
    BY <1>1, <2>1
  <2>2. CASE s \in ToSet(sections)
    <3>1. /\ s.elements # <<>>
          /\ \A x, y \in ToSet(s.elements) \cap ToSet(row) : x = y
      BY <2>2 DEF Hold
    <3>2. ToSet(s.elements) \cap ToSet(longer) \subseteq ToSet(s.elements) \cap ToSet(row)
      BY <1>2, <2>2
    <3> QED
      BY <3>1, <3>2
  <2> QED
    BY <1>3, <2>1, <2>2
<1>8. ASSUME NEW s \in ToSet(secs), NEW t \in ToSet(secs),
             ToSet(s.elements) \cap ToSet(t.elements) # {}
      PROVE  s = t
  <2>1. PICK x : x \in ToSet(s.elements) /\ x \in ToSet(t.elements)
    BY <1>8
  <2>2. CASE s \in ToSet(sections) /\ t \in ToSet(sections)
    BY <1>8, <2>2 DEF Hold
  <2>3. CASE s = n \/ t = n
    BY <1>1, <1>2, <1>3, <2>1, <2>3
  <2> QED
    BY <1>3, <2>2, <2>3
<1>9. ToSet(longer) \subseteq ElementsOf(secs)
  BY <1>6 DEF Hold
<1>10. Hold(secs, longer)
  BY <1>7, <1>8, <1>9 DEF Hold
<1>11. ASSUME positioned \/ new \notin ToSet(longer), AllPositioned(sections, row),
              NEW e \in ToSet(longer)
       PROVE  \E s \in ToSet(secs) : s.positioned /\ e \in ToSet(s.elements)
  <2>1. CASE e = new
    BY <1>1, <1>3, <1>11, <2>1
  <2>2. CASE e # new
    <3>1. e \in ToSet(row)
      BY <2>2
    <3> QED
      BY <1>3, <1>11, <3>1 DEF AllPositioned
  <2> QED
    BY <2>1, <2>2
<1>12. (positioned \/ new \notin ToSet(longer)) /\ AllPositioned(sections, row)
          => AllPositioned(secs, longer)
  BY <1>11 DEF AllPositioned
<1> QED
  BY <1>6, <1>10, <1>12

\* With a connected element goes its section, and no other connected element.
LEMMA HoldShrinks ==
    ASSUME SectionsTyped, NEW row, Hold(sections, row), NEW e \in ToSet(row),
           NEW less, ToSet(less) \subseteq ToSet(row) \ {e}
    PROVE  /\ Hold(Without(sections, e), less)
           /\ AllPositioned(sections, row) => AllPositioned(Without(sections, e), less)
<1> DEFINE secs == Without(sections, e)
<1>1. e \in ElementsOf(sections)
  BY DEF Hold
<1>2. secs \in Seq(Section) /\ ToSet(secs) \subseteq ToSet(sections)
  BY <1>1, SectionsWithout
<1>3. PICK gone \in ToSet(sections) :
         e \in ToSet(gone.elements) /\ ToSet(sections) \ {gone} \subseteq ToSet(secs)
  BY <1>1, SectionsWithout
<1> HIDE DEF secs
<1>4. ASSUME NEW x \in ToSet(less), NEW s \in ToSet(sections), x \in ToSet(s.elements)
      PROVE  s \in ToSet(secs)
  <2>1. x \in ToSet(row) /\ x # e
    OBVIOUS
  <2>2. s # gone
    BY <1>3, <1>4, <2>1 DEF Hold
  <2> QED
    BY <1>3, <2>2
<1>5. \A x : x \in ElementsOf(secs) <=> \E s \in ToSet(secs) : x \in ToSet(s.elements)
  BY <1>2, ElementsBySection
<1>6. \A x : x \in ElementsOf(sections) <=> \E s \in ToSet(sections) : x \in ToSet(s.elements)
  BY ElementsBySection DEF SectionsTyped
<1>7. \A x \in ToSet(less) : x \in ElementsOf(secs)
  <2> TAKE x \in ToSet(less)
  <2>1. x \in ElementsOf(sections)
    BY DEF Hold
  <2> QED
    BY <1>4, <1>5, <1>6, <2>1
<1>8. \A s \in ToSet(secs) :
         /\ s.elements # <<>>
         /\ \A x, y \in ToSet(s.elements) \cap ToSet(less) : x = y
  BY <1>2 DEF Hold
<1>9. \A s, t \in ToSet(secs) : ToSet(s.elements) \cap ToSet(t.elements) # {} => s = t
  BY <1>2 DEF Hold
<1>10. Hold(secs, less)
  BY <1>7, <1>8, <1>9 DEF Hold
<1>11. ASSUME AllPositioned(sections, row), NEW x \in ToSet(less)
       PROVE  \E s \in ToSet(secs) : s.positioned /\ x \in ToSet(s.elements)
  <2>1. PICK s \in ToSet(sections) : s.positioned /\ x \in ToSet(s.elements)
    BY <1>11 DEF AllPositioned
  <2> QED
    BY <1>4, <2>1
<1>12. AllPositioned(sections, row) => AllPositioned(secs, less)
  BY <1>11 DEF AllPositioned
<1> QED
  BY <1>10, <1>12 DEF secs

-----------------------------------------------------------------------------
(* The invariant.                                                          *)

CurrentRow == GetElementUIDsInOrder(segments)

Leading == LeadThrough(segments, CurrentRow)
Holding == Hold(sections, CurrentRow)
FuselagePositioned == kind = "fuselage" => AllPositioned(sections, CurrentRow)

ConnectedInv == ConnectedTypeOK /\ Leading /\ Holding /\ FuselagePositioned /\ HelperCurrent

\* Whether it is cached or built, the helper is right.
LEMMA HelperRight ==
    ASSUME ConnectedInv
    PROVE  /\ Order = CurrentRow
           /\ Helper.order \in Seq(Element)
           /\ ToSet(Helper.order) \subseteq Helper.elements
           /\ Helper.elements \subseteq ElementsOf(sections)
<1>1. CurrentRow \in Seq(Element) /\ ToSet(CurrentRow) \subseteq ElementsOf(sections)
  BY DEF ConnectedInv, Leading, LeadThrough, Holding, Hold
<1>2. CASE helper = None
  BY <1>1, <1>2 DEF Order, Helper, Built, CurrentRow
<1>3. CASE helper # None
  BY <1>3 DEF Order, Helper, CurrentRow, ConnectedInv, ConnectedTypeOK, HelperCurrent
<1> QED
  BY <1>2, <1>3

LEMMA ElementsTyped ==
    ASSUME SectionsTyped
    PROVE  ElementsOf(sections) \subseteq Element
<1>1. \A i \in DOMAIN sections : sections[i] \in Section
  BY DEF SectionsTyped
<1>2. \A s \in Section : ToSet(s.elements) \subseteq Element
  BY SequenceIsFunction DEF Section
<1> QED
  BY <1>1, <1>2 DEF ElementsOf

LEMMA LedInOrder ==
    ASSUME NEW segs \in Seq(Segment), NEW row, LeadThrough(segs, row)
    PROVE  ~NeedReordering(segs)
<1>1. ASSUME NEW i \in 1 .. Len(segs) - 1
      PROVE  segs[i].to = segs[i + 1].from
  <2>1. Len(segs) \in Nat /\ \A k \in 1 .. Len(segs) : segs[k].from = row[k] /\ segs[k].to = row[k + 1]
    BY LeadFacts
  <2>2. i \in 1 .. Len(segs) /\ i + 1 \in 1 .. Len(segs)
    BY <2>1
  <2> QED
    BY <2>1, <2>2
<1> QED
  BY <1>1 DEF NeedReordering

-----------------------------------------------------------------------------
(* What each operation does to the row.                                    *)

\* A new element at place m of the row.
Inserted(m, new) ==
    /\ m \in 1 .. Len(CurrentRow) + 1
    /\ segments' \in Seq(Segment)
    /\ LeadThrough(segments', CurrentRow')
    /\ CurrentRow' = InsertAt(CurrentRow, m, new)

LEMMA InsertedIf ==
    ASSUME Leading, NEW m \in 1 .. Len(CurrentRow) + 1, NEW new,
           segments' \in Seq(Segment),
           LeadThrough(segments', InsertAt(CurrentRow, m, new))
    PROVE  Inserted(m, new)
<1>1. GetElementUIDsInOrder(segments') = InsertAt(CurrentRow, m, new)
  BY RowOfSegments
<1>2. CurrentRow' = GetElementUIDsInOrder(segments')
  BY DEF CurrentRow
<1> QED
  BY <1>1, <1>2 DEF Inserted

\* The sections get a new one, and their order.
SectionsPut(new) == sections' = SectionsReordered(SectionAdded(new, TRUE), segments')

LEMMA BetweenEffect ==
    ASSUME ConnectedInv, NEW start, NEW end,
           NEW new \in Element, new \notin ToSet(CurrentRow),
           CreateNewConnectedElementBetween(start, end, new)
    PROVE  /\ \E i \in 1 .. Len(CurrentRow) - 1 :
                 start = CurrentRow[i] /\ end = CurrentRow[i + 1] /\ Inserted(i + 1, new)
           /\ SectionsPut(new)
           /\ helper' = None /\ kind' = kind
<1>1. SegmentsTyped /\ Leading
  BY DEF ConnectedInv, ConnectedTypeOK, SegmentsTyped
<1>2. PICK i \in SegmentFromTo(segments, start, end) :
         /\ segments' \in Reordered(SplitSegment(i, new))
         /\ sections' = SectionsFor(segments', new)
  BY DEF CreateNewConnectedElementBetween
<1>3. i \in DOMAIN segments /\ segments[i].from = start /\ segments[i].to = end
  BY <1>2, FoundSegment
<1>4. /\ LeadThrough(segments', InsertAt(CurrentRow, i + 1, new))
      /\ segments' \in Seq(Segment)
      /\ i + 1 \in 2 .. Len(CurrentRow)
  BY <1>1, <1>2, <1>3, SplitLeads DEF Leading
<1>5. /\ Len(CurrentRow) \in Nat /\ DOMAIN segments = 1 .. Len(segments)
      /\ segments[i].from = CurrentRow[i] /\ segments[i].to = CurrentRow[i + 1]
  BY <1>1, <1>3, LeadFacts DEF Leading, SegmentsTyped
<1>6. i \in 1 .. Len(CurrentRow) - 1 /\ i + 1 \in 1 .. Len(CurrentRow) + 1
  <2>1. i \in Nat /\ i # 0
    BY <1>3, <1>5
  <2> QED
    BY <1>4, <1>5, <2>1
<1>7. Inserted(i + 1, new)
  BY <1>1, <1>4, <1>6, InsertedIf
<1>8. ~NeedReordering(segments')
  BY <1>4, LedInOrder
<1>9. SectionsPut(new)
  BY <1>2, <1>8 DEF SectionsFor, SectionsPut
<1>10. helper' = None /\ kind' = kind
  BY DEF CreateNewConnectedElementBetween
<1> QED
  BY <1>3, <1>5, <1>6, <1>7, <1>9, <1>10

LEMMA BeforeFirstEffect ==
    ASSUME ConnectedInv, NEW start, NEW new \in Element, new \notin ToSet(CurrentRow),
           CreateBeforeFirst(start, new)
    PROVE  /\ Len(CurrentRow) >= 2 /\ start = CurrentRow[1]
           /\ Inserted(1, new) /\ SectionsPut(new)
           /\ helper' = None /\ kind' = kind
<1>1. SegmentsTyped /\ Leading /\ Order = CurrentRow
  BY HelperRight DEF ConnectedInv, ConnectedTypeOK, SegmentsTyped
<1>2. /\ Len(CurrentRow) >= 2 /\ start = CurrentRow[1]
      /\ segments' \in Reordered(Append(segments, NewSegment(new, start)))
      /\ sections' = SectionsFor(segments', new)
      /\ helper' = None /\ kind' = kind
  BY <1>1 DEF CreateBeforeFirst
<1>3. LeadThrough(segments', InsertAt(CurrentRow, 1, new)) /\ segments' \in Seq(Segment)
  BY <1>1, <1>2, FirstLeads DEF Leading
<1>4. 1 \in 1 .. Len(CurrentRow) + 1
  BY <1>1, LeadFacts DEF Leading, SegmentsTyped
<1>5. Inserted(1, new)
  BY <1>1, <1>3, <1>4, InsertedIf
<1>6. ~NeedReordering(segments')
  BY <1>3, LedInOrder
<1> QED
  BY <1>2, <1>5, <1>6 DEF SectionsFor, SectionsPut

\* A wing is told of a new segment; a fuselage of the element before it.
LEMMA AfterLastEffect ==
    ASSUME ConnectedInv, NEW start, NEW new \in Element, new \notin ToSet(CurrentRow),
           CreateAfterLast(start, new)
    PROVE  /\ Len(CurrentRow) >= 2 /\ start = CurrentRow[Len(CurrentRow)]
           /\ Inserted(Len(CurrentRow) + 1, new)
           /\ sections' = SectionAdded(new, TRUE)
           /\ helper' = None /\ kind' = kind
<1>1. SegmentsTyped /\ Leading /\ Order = CurrentRow
  BY HelperRight DEF ConnectedInv, ConnectedTypeOK, SegmentsTyped
<1>2. /\ Len(CurrentRow) \in Nat /\ DOMAIN CurrentRow = 1 .. Len(CurrentRow)
      /\ CurrentRow \in Seq(Element)
      /\ \A i \in 1 .. Len(CurrentRow) : CurrentRow[i] \in Element
  BY <1>1, LeadFacts DEF Leading, SegmentsTyped
<1>3. /\ Len(CurrentRow) >= 2 /\ start = CurrentRow[Len(CurrentRow)]
      /\ segments' = Append(segments, NewSegment(start, new))
      /\ sections' = SectionAdded(new, TRUE)
      /\ kind' = kind
  BY <1>1 DEF CreateAfterLast, Last
<1>4. LeadThrough(segments', InsertAt(CurrentRow, Len(CurrentRow) + 1, new))
  BY <1>1, <1>3, AppendLeads DEF Leading
<1>5. segments' \in Seq(Segment)
  <2>1. start \in Element
    BY <1>2, <1>3
  <2>2. NewSegment(start, new) \in Segment
    BY <2>1 DEF NewSegment, Segment
  <2> QED
    BY <1>1, <1>3, <2>2, AppendProperties DEF SegmentsTyped
<1>6. Len(CurrentRow) + 1 \in 1 .. Len(CurrentRow) + 1
  BY <1>2
<1>7. Inserted(Len(CurrentRow) + 1, new)
  BY <1>1, <1>4, <1>5, <1>6, InsertedIf
<1>8. helper' = None
  <2>1. PICK told \in OwnerTold({start, Order[Len(Order) - 1]}) :
           helper' = IF told \/ kind = "wing" THEN None ELSE Helper
    BY DEF CreateAfterLast
  <2>2. CASE kind = "wing"
    BY <2>1, <2>2
  <2>3. CASE kind # "wing"
    <3>1. kind = "fuselage"
      BY <2>3 DEF ConnectedInv, ConnectedTypeOK, Kind
    <3>2. start \in ToSet(CurrentRow)
      <4>1. Len(CurrentRow) \in 1 .. Len(CurrentRow)
        BY <1>2, <1>3
      <4> QED
        BY <1>2, <1>3, <4>1 DEF ToSet
    <3>3. PICK s \in ToSet(sections) : s.positioned /\ start \in ToSet(s.elements)
      BY <3>1, <3>2 DEF ConnectedInv, FuselagePositioned, AllPositioned
    <3>4. Positioned(start)
      BY <3>3 DEF Positioned, ToSet
    <3>5. told
      BY <2>1, <3>4 DEF OwnerTold
    <3> QED
      BY <2>1, <3>5
  <2> QED
    BY <2>2, <2>3
<1> QED
  BY <1>3, <1>7, <1>8

LEMMA DeleteEffect ==
    ASSUME ConnectedInv, NEW e, DeleteConnectedElement(e)
    PROVE  /\ Len(CurrentRow) >= 2
           /\ \E k \in 1 .. Len(CurrentRow) :
                 /\ CurrentRow[k] = e
                 /\ CurrentRow' = RowWithout(CurrentRow, k)
           /\ segments' \in Seq(Segment)
           /\ LeadThrough(segments', CurrentRow')
           /\ sections' = Without(sections, e)
           /\ helper' = None /\ kind' = kind
<1>1. SegmentsTyped /\ Leading /\ Order = CurrentRow
  BY HelperRight DEF ConnectedInv, ConnectedTypeOK, SegmentsTyped
<1>2. PICK k \in DOMAIN CurrentRow :
         /\ CurrentRow[k] = e
         /\ Len(CurrentRow) >= 2
         /\ segments' \in Disconnected(segments, CurrentRow, k)
         /\ sections' = Without(sections, e)
         /\ helper' = None
         /\ kind' = kind
  BY <1>1 DEF DeleteConnectedElement
<1>3. k \in 1 .. Len(CurrentRow)
  BY <1>1, LeadFacts DEF Leading, SegmentsTyped
<1>4. LeadThrough(segments', RowWithout(CurrentRow, k)) /\ segments' \in Seq(Segment)
  BY <1>1, <1>2, <1>3, DisconnectedLeads DEF Leading
<1>5. CurrentRow' = RowWithout(CurrentRow, k)
  <2>1. GetElementUIDsInOrder(segments') = RowWithout(CurrentRow, k)
    BY <1>4, RowOfSegments
  <2>2. CurrentRow' = GetElementUIDsInOrder(segments')
    BY DEF CurrentRow
  <2> QED
    BY <2>1, <2>2
<1> QED
  BY <1>2, <1>3, <1>4, <1>5

\* A created element joins the row and gets a section.
LEMMA CreationKeepsInv ==
    ASSUME ConnectedInv, NEW new \in Unused, NEW m, Inserted(m, new),
           SectionsPut(new) \/ sections' = SectionAdded(new, TRUE),
           helper' = None, kind' = kind
    PROVE  ConnectedInv'
<1>1. /\ SectionsTyped /\ CurrentRow \in Seq(Element) /\ IsInjective(CurrentRow)
      /\ Hold(sections, CurrentRow)
  BY DEF ConnectedInv, ConnectedTypeOK, SectionsTyped, Leading, LeadThrough, Holding
<1>2. new \in Element /\ new \notin ElementsOf(sections) /\ new \notin ToSet(CurrentRow)
  BY <1>1 DEF Unused, Hold
<1>3. /\ segments' \in Seq(Segment)
      /\ LeadThrough(segments', CurrentRow')
      /\ ToSet(CurrentRow') = ToSet(CurrentRow) \cup {new}
  BY <1>1, <1>2, InsertedRow DEF Inserted
<1>4. /\ SectionAdded(new, TRUE) \in Seq(Section)
      /\ ToSet(SectionAdded(new, TRUE)) = ToSet(sections) \cup {NewSection(new, TRUE)}
  BY <1>1, <1>2, AddedSections
<1>5. /\ sections' \in Seq(Section)
      /\ ToSet(sections') = ToSet(sections) \cup {NewSection(new, TRUE)}
  <2>1. CASE sections' = SectionAdded(new, TRUE)
    BY <1>4, <2>1
  <2>2. CASE SectionsPut(new)
    <3> DEFINE secs == SectionAdded(new, TRUE)
    <3>1. secs \in Seq(Section)
      BY <1>4
    <3> HIDE DEF secs
    <3>2. /\ SectionsReordered(secs, segments') \in Seq(Section)
          /\ ToSet(SectionsReordered(secs, segments')) = ToSet(secs)
      BY <1>3, <3>1, ReorderedSections
    <3> QED
      BY <1>4, <2>2, <3>2 DEF SectionsPut, secs
  <2> QED
    BY <2>1, <2>2
<1>6. /\ Hold(sections', CurrentRow')
      /\ AllPositioned(sections, CurrentRow) => AllPositioned(sections', CurrentRow')
  BY <1>1, <1>2, <1>3, <1>5, HoldGrows
<1>7. ConnectedTypeOK'
  BY <1>3, <1>5 DEF ConnectedTypeOK, ConnectedInv
<1>8. Leading' /\ Holding' /\ FuselagePositioned'
  BY <1>3, <1>6 DEF ConnectedInv, Leading, Holding, FuselagePositioned
<1> QED
  BY <1>7, <1>8 DEF ConnectedInv, HelperCurrent

LEMMA DeletionKeepsInv ==
    ASSUME ConnectedInv, NEW e, DeleteConnectedElement(e)
    PROVE  ConnectedInv'
<1>1. /\ SectionsTyped /\ CurrentRow \in Seq(Element) /\ IsInjective(CurrentRow)
      /\ Hold(sections, CurrentRow)
  BY DEF ConnectedInv, ConnectedTypeOK, SectionsTyped, Leading, LeadThrough, Holding
<1>2. PICK k \in 1 .. Len(CurrentRow) : CurrentRow[k] = e /\ CurrentRow' = RowWithout(CurrentRow, k)
  BY DeleteEffect
<1>3. /\ segments' \in Seq(Segment)
      /\ LeadThrough(segments', CurrentRow')
      /\ sections' = Without(sections, e)
      /\ helper' = None /\ kind' = kind
  BY DeleteEffect
<1>4. e \in ToSet(CurrentRow)
  BY <1>1, <1>2, SequenceIsFunction
<1>5. ToSet(CurrentRow') \subseteq ToSet(CurrentRow) \ {e}
  <2>1. ToSet(RemoveAt(CurrentRow, k)) = ToSet(CurrentRow) \ {e}
    BY <1>1, <1>2, RemovedRow
  <2>2. ToSet(<<>>) = {}
    BY DEF ToSet
  <2> QED
    BY <1>2, <2>1, <2>2 DEF RowWithout
<1>6. /\ Hold(sections', CurrentRow')
      /\ AllPositioned(sections, CurrentRow) => AllPositioned(sections', CurrentRow')
  BY <1>1, <1>3, <1>4, <1>5, HoldShrinks
<1>7. sections' \in Seq(Section)
  <2>1. e \in ElementsOf(sections)
    BY <1>1, <1>4 DEF Hold
  <2> QED
    BY <1>1, <1>3, <2>1, SectionsWithout
<1>8. ConnectedTypeOK'
  BY <1>3, <1>7 DEF ConnectedTypeOK, ConnectedInv
<1>9. Leading' /\ Holding' /\ FuselagePositioned'
  BY <1>3, <1>6 DEF ConnectedInv, Leading, Holding, FuselagePositioned
<1> QED
  BY <1>3, <1>8, <1>9 DEF ConnectedInv, HelperCurrent

LEMMA AbandonKeepsInv ==
    ASSUME ConnectedInv, NEW new \in Unused, AbandonCreation(new)
    PROVE  ConnectedInv' /\ CurrentRow' = CurrentRow
<1>1. /\ SectionsTyped /\ Hold(sections, CurrentRow)
      /\ new \in Element /\ new \notin ElementsOf(sections) /\ new \notin ToSet(CurrentRow)
  BY DEF ConnectedInv, ConnectedTypeOK, SectionsTyped, Holding, Unused, Hold
<1>2. PICK positioned \in BOOLEAN : sections' = SectionAdded(new, positioned)
  BY DEF AbandonCreation
<1>3. segments' = segments /\ kind' = kind /\ CurrentRow' = CurrentRow
  BY DEF AbandonCreation, CurrentRow
<1>4. /\ sections' \in Seq(Section)
      /\ ToSet(sections') = ToSet(sections) \cup {NewSection(new, positioned)}
  BY <1>1, <1>2, AddedSections
<1>5. /\ Hold(sections', CurrentRow)
      /\ ElementsOf(sections) \subseteq ElementsOf(sections')
      /\ AllPositioned(sections, CurrentRow) => AllPositioned(sections', CurrentRow)
  BY <1>1, <1>4, HoldGrows
<1>6. helper' = None \/ helper' = Helper
  BY DEF AbandonCreation
<1>7. /\ Helper.order = CurrentRow /\ Helper.order \in Seq(Element)
      /\ ToSet(Helper.order) \subseteq Helper.elements
      /\ Helper.elements \subseteq ElementsOf(sections)
      /\ ElementsOf(sections) \subseteq Element
  BY <1>1, HelperRight, ElementsTyped DEF Order
<1>8. ConnectedTypeOK'
  BY <1>3, <1>4, <1>6, <1>7 DEF ConnectedTypeOK, ConnectedInv
<1>9. Leading' /\ Holding' /\ FuselagePositioned'
  BY <1>3, <1>5 DEF ConnectedInv, Leading, Holding, FuselagePositioned
<1>10. HelperCurrent'
  <2>1. GetElementUIDsInOrder(segments') = CurrentRow
    BY <1>3 DEF CurrentRow
  <2> QED
    BY <1>5, <1>6, <1>7, <2>1 DEF HelperCurrent
<1> QED
  BY <1>3, <1>8, <1>9, <1>10 DEF ConnectedInv

LEMMA ReadKeepsInv ==
    ASSUME ConnectedInv, ReadHelper
    PROVE  ConnectedInv' /\ CurrentRow' = CurrentRow
<1>1. /\ helper' = Built /\ kind' = kind /\ sections' = sections /\ segments' = segments
      /\ CurrentRow' = CurrentRow
  BY DEF ReadHelper, CurrentRow
<1>2. ElementsOf(sections) \subseteq Element
  BY ElementsTyped DEF ConnectedInv, ConnectedTypeOK, SectionsTyped
<1>3. /\ Built.order = CurrentRow /\ Built.elements = ElementsOf(sections)
      /\ CurrentRow \in Seq(Element) /\ ToSet(CurrentRow) \subseteq ElementsOf(sections)
  BY DEF Built, CurrentRow, ConnectedInv, Leading, LeadThrough, Holding, Hold
<1>4. ConnectedTypeOK'
  BY <1>1, <1>2, <1>3 DEF ConnectedTypeOK, ConnectedInv
<1>5. Leading' /\ Holding' /\ FuselagePositioned'
  BY <1>1 DEF ConnectedInv, Leading, Holding, FuselagePositioned
<1>6. HelperCurrent'
  BY <1>1, <1>3 DEF HelperCurrent, CurrentRow
<1> QED
  BY <1>1, <1>4, <1>5, <1>6 DEF ConnectedInv

LEMMA ConnectedInit == Init => ConnectedInv
<1> SUFFICES ASSUME Init PROVE ConnectedInv
  OBVIOUS
<1>1. PICK d \in Documents :
         kind = d.kind /\ sections = d.sections /\ segments = d.segments
  BY DEF Init
<1>2. helper = None /\ d \in [kind: Kind, sections: Seq(Section), segments: Seq(Segment)]
  BY DocumentsAssumption DEF Init
<1>3. /\ LeadThrough(d.segments, GetElementUIDsInOrder(d.segments))
      /\ Hold(d.sections, GetElementUIDsInOrder(d.segments))
      /\ d.kind = "fuselage" => AllPositioned(d.sections, GetElementUIDsInOrder(d.segments))
  BY RowsAssumption
<1>4. ConnectedTypeOK
  BY <1>1, <1>2 DEF ConnectedTypeOK
<1>5. Leading /\ Holding /\ FuselagePositioned
  BY <1>1, <1>3 DEF Leading, Holding, FuselagePositioned, CurrentRow
<1> QED
  BY <1>2, <1>4, <1>5 DEF ConnectedInv, HelperCurrent

LEMMA BetweenKeepsInv ==
    ASSUME ConnectedInv, NEW start, NEW end, NEW new \in Unused,
           CreateNewConnectedElementBetween(start, end, new)
    PROVE  ConnectedInv'
<1>1. new \in Element /\ new \notin ToSet(CurrentRow)
  BY DEF ConnectedInv, Holding, Hold, Unused
<1>2. PICK i \in 1 .. Len(CurrentRow) - 1 : Inserted(i + 1, new)
  BY <1>1, BetweenEffect
<1>3. SectionsPut(new) /\ helper' = None /\ kind' = kind
  BY <1>1, BetweenEffect
<1> QED
  BY <1>2, <1>3, CreationKeepsInv

LEMMA ConnectedStep ==
    ASSUME ConnectedInv, [Next]_vars
    PROVE  ConnectedInv'
<1>1. ASSUME NEW new \in Unused
      PROVE  new \in Element /\ new \notin ToSet(CurrentRow)
  BY DEF ConnectedInv, Holding, Hold, Unused
<1>2. CASE ReadHelper
  BY <1>2, ReadKeepsInv
<1>3. ASSUME NEW start \in Element, NEW end \in Element, NEW new \in Unused,
             CreateNewConnectedElementBetween(start, end, new)
      PROVE  ConnectedInv'
  BY <1>3, BetweenKeepsInv
<1>4. ASSUME NEW start \in Element, NEW new \in Unused,
             CreateNewConnectedElementAfter(start, new)
      PROVE  ConnectedInv'
  <2>1. CASE CreateAfterLast(start, new)
    BY <1>1, <2>1, AfterLastEffect, CreationKeepsInv
  <2>2. CASE \E i \in 1 .. Len(Order) - 1 :
                CreateNewConnectedElementBetween(start, Order[i + 1], new)
    BY <2>2, BetweenKeepsInv
  <2> QED
    BY <1>4, <2>1, <2>2 DEF CreateNewConnectedElementAfter
<1>5. ASSUME NEW start \in Element, NEW new \in Unused,
             CreateNewConnectedElementBefore(start, new)
      PROVE  ConnectedInv'
  <2>1. CASE CreateBeforeFirst(start, new)
    BY <1>1, <2>1, BeforeFirstEffect, CreationKeepsInv
  <2>2. CASE \E i \in 2 .. Len(Order) :
                CreateNewConnectedElementBetween(Order[i - 1], start, new)
    BY <2>2, BetweenKeepsInv
  <2> QED
    BY <1>5, <2>1, <2>2 DEF CreateNewConnectedElementBefore
<1>6. ASSUME NEW new \in Unused, AbandonCreation(new)
      PROVE  ConnectedInv'
  BY <1>6, AbandonKeepsInv
<1>7. ASSUME NEW e \in Element, DeleteConnectedElement(e)
      PROVE  ConnectedInv'
  BY <1>7, DeletionKeepsInv
<1>8. CASE UNCHANGED vars
  BY <1>8 DEF vars, ConnectedInv, ConnectedTypeOK, Leading, Holding, FuselagePositioned,
              HelperCurrent, CurrentRow
<1> QED
  BY <1>2, <1>3, <1>4, <1>5, <1>6, <1>7, <1>8 DEF Next

\* Where the new element is.
LEMMA NextToInserted ==
    ASSUME Leading, NEW m, NEW new \in Element, new \notin ToSet(CurrentRow), Inserted(m, new)
    PROVE  /\ m \in 1 .. Len(CurrentRow) + 1
           /\ Len(CurrentRow') = Len(CurrentRow) + 1
           /\ m > 1 => IsNext(CurrentRow', CurrentRow[m - 1], new)
           /\ m <= Len(CurrentRow) => IsNext(CurrentRow', new, CurrentRow[m])
           /\ \A k \in 1 .. Len(CurrentRow') :
                 CurrentRow'[k] = IF k < m THEN CurrentRow[k]
                                  ELSE IF k = m THEN new ELSE CurrentRow[k - 1]
<1>1. /\ m \in 1 .. Len(CurrentRow) + 1 /\ CurrentRow' = InsertAt(CurrentRow, m, new)
      /\ CurrentRow \in Seq(Element)
  BY DEF Leading, LeadThrough, Inserted
<1>2. Len(CurrentRow) \in Nat
  BY <1>1, SequenceIsFunction
<1>3. /\ Len(CurrentRow') = Len(CurrentRow) + 1
      /\ \A k \in 1 .. Len(CurrentRow) + 1 :
            CurrentRow'[k] = IF k < m THEN CurrentRow[k]
                             ELSE IF k = m THEN new ELSE CurrentRow[k - 1]
  BY <1>1, InsertedEntries
<1>4. ASSUME m > 1
      PROVE  IsNext(CurrentRow', CurrentRow[m - 1], new)
  <2>1. /\ m - 1 \in 1 .. Len(CurrentRow) + 1 - 1 /\ m - 1 \in 1 .. Len(CurrentRow) + 1
        /\ m - 1 < m /\ m - 1 + 1 = m /\ ~(m < m)
    BY <1>1, <1>2, <1>4
  <2>2. CurrentRow'[m - 1] = CurrentRow[m - 1] /\ CurrentRow'[m] = new
    BY <1>1, <1>3, <2>1
  <2> QED
    BY <1>3, <2>1, <2>2 DEF IsNext
<1>5. ASSUME m <= Len(CurrentRow)
      PROVE  IsNext(CurrentRow', new, CurrentRow[m])
  <2>1. /\ m \in 1 .. Len(CurrentRow) + 1 - 1 /\ m + 1 \in 1 .. Len(CurrentRow) + 1
        /\ ~(m < m) /\ ~(m + 1 < m) /\ m + 1 # m /\ m + 1 - 1 = m
    BY <1>1, <1>2, <1>5
  <2>2. CurrentRow'[m] = new /\ CurrentRow'[m + 1] = CurrentRow[m]
    BY <1>1, <1>3, <2>1
  <2> QED
    BY <1>3, <2>1, <2>2 DEF IsNext
<1> QED
  BY <1>1, <1>3, <1>4, <1>5

LEMMA BetweenInPlace ==
    ASSUME ConnectedInv, NEW start, NEW end,
           NEW new \in Element, new \notin ToSet(CurrentRow),
           CreateNewConnectedElementBetween(start, end, new)
    PROVE  IsNext(CurrentRow', start, new) /\ IsNext(CurrentRow', new, end)
<1>1. PICK i \in 1 .. Len(CurrentRow) - 1 :
         start = CurrentRow[i] /\ end = CurrentRow[i + 1] /\ Inserted(i + 1, new)
  BY BetweenEffect
<1>2. Leading /\ Len(CurrentRow) \in Nat
  BY SequenceIsFunction DEF ConnectedInv, Leading, LeadThrough
<1> DEFINE m == i + 1
<1>3. m > 1 /\ m <= Len(CurrentRow) /\ m - 1 = i
  BY <1>1, <1>2
<1>4. start = CurrentRow[m - 1] /\ end = CurrentRow[m] /\ Inserted(m, new)
  BY <1>1, <1>3
<1> HIDE DEF m
<1>5. /\ IsNext(CurrentRow', CurrentRow[m - 1], new)
      /\ IsNext(CurrentRow', new, CurrentRow[m])
  BY <1>2, <1>3, <1>4, NextToInserted
<1> QED
  BY <1>4, <1>5

LEMMA AfterInPlace ==
    ASSUME ConnectedInv, NEW start, NEW new \in Element, new \notin ToSet(CurrentRow),
           CreateNewConnectedElementAfter(start, new)
    PROVE  IsNext(CurrentRow', start, new)
<1>1. CASE CreateAfterLast(start, new)
  <2>1. /\ Len(CurrentRow) >= 2 /\ start = CurrentRow[Len(CurrentRow)]
        /\ Inserted(Len(CurrentRow) + 1, new)
    BY <1>1, AfterLastEffect
  <2>2. Leading /\ Len(CurrentRow) \in Nat
    BY SequenceIsFunction DEF ConnectedInv, Leading, LeadThrough
  <2> DEFINE m == Len(CurrentRow) + 1
  <2>3. m > 1 /\ m - 1 = Len(CurrentRow) /\ Inserted(m, new)
    BY <2>1, <2>2
  <2> HIDE DEF m
  <2>4. IsNext(CurrentRow', CurrentRow[m - 1], new)
    BY <2>2, <2>3, NextToInserted
  <2> QED
    BY <2>1, <2>3, <2>4
<1>2. CASE \E i \in 1 .. Len(Order) - 1 :
              CreateNewConnectedElementBetween(start, Order[i + 1], new)
  BY <1>2, BetweenInPlace
<1> QED
  BY <1>1, <1>2 DEF CreateNewConnectedElementAfter

LEMMA BeforeInPlace ==
    ASSUME ConnectedInv, NEW start, NEW new \in Element, new \notin ToSet(CurrentRow),
           CreateNewConnectedElementBefore(start, new)
    PROVE  IsNext(CurrentRow', new, start)
<1>1. CASE CreateBeforeFirst(start, new)
  <2>1. Len(CurrentRow) >= 2 /\ start = CurrentRow[1] /\ Inserted(1, new)
    BY <1>1, BeforeFirstEffect
  <2>2. Leading /\ 1 <= Len(CurrentRow)
    <3>1. Leading /\ Len(CurrentRow) \in Nat
      BY SequenceIsFunction DEF ConnectedInv, Leading, LeadThrough
    <3> QED
      BY <2>1, <3>1
  <2>3. IsNext(CurrentRow', new, CurrentRow[1])
    BY <2>1, <2>2, NextToInserted
  <2> QED
    BY <2>1, <2>3
<1>2. CASE \E i \in 2 .. Len(Order) :
              CreateNewConnectedElementBetween(Order[i - 1], start, new)
  BY <1>2, BetweenInPlace
<1> QED
  BY <1>1, <1>2 DEF CreateNewConnectedElementBefore

-----------------------------------------------------------------------------
(* The order of the sections.                                              *)

LEMMA RankIs ==
    ASSUME NEW row \in Seq(Element), IsInjective(row), NEW k \in DOMAIN row,
           NEW s, s.elements[1] = row[k]
    PROVE  Rank(s, row) = k
<1>1. s.elements[1] \in ToSet(row)
  BY SequenceIsFunction
<1>2. \A j \in DOMAIN row : row[j] = s.elements[1] => j = k
  BY DEF IsInjective
<1>3. (CHOOSE j \in DOMAIN row : row[j] = s.elements[1]) = k
  BY <1>2
<1> QED
  BY <1>1, <1>3 DEF Rank

\* ReorderSections sorts.
LEMMA PutInOrder ==
    ASSUME SectionsTyped, NEW new \in Element,
           segments' \in Seq(Segment), LeadThrough(segments', CurrentRow'),
           SectionsPut(new)
    PROVE  SectionsSorted'
<1> DEFINE secs == SectionAdded(new, TRUE)
           row == CurrentRow'
<1>1. secs \in Seq(Section)
  BY AddedSections
<1> HIDE DEF secs
<1>2. sections' = SectionsReordered(secs, segments')
  BY DEF SectionsPut, secs
<1>3. row \in Seq(Element) /\ IsInjective(row) /\ row = GetElementUIDsInOrder(segments')
  BY DEF LeadThrough, CurrentRow
<1>4. sections' \in Seq(Section) /\ Len(sections') = Len(secs)
  BY <1>1, <1>2, ReorderedSections
<1>5. PICK at \in [DOMAIN secs -> DOMAIN secs] :
         /\ \A k \in DOMAIN secs : sections'[k] = secs[at[k]]
         /\ \A j, k \in DOMAIN secs : j < k => Rank(secs[at[j]], row) <= Rank(secs[at[k]], row)
  BY <1>1, <1>2, ReorderedSections
<1>6. DOMAIN sections' = DOMAIN secs
  BY <1>1, <1>4, SequenceIsFunction
<1> HIDE DEF row
<1>7. ASSUME NEW i \in DOMAIN sections', NEW j \in DOMAIN sections',
             NEW k \in DOMAIN row, NEW l \in DOMAIN row,
             i < j, sections'[i].elements[1] = row[k], sections'[j].elements[1] = row[l]
      PROVE  k <= l
  <2>1. Rank(sections'[i], row) = k /\ Rank(sections'[j], row) = l
    BY <1>3, <1>7, RankIs
  <2>2. Rank(sections'[i], row) <= Rank(sections'[j], row)
    BY <1>5, <1>6, <1>7
  <2> QED
    BY <2>1, <2>2
<1> QED
  BY <1>3, <1>7 DEF SectionsSorted

\* Sections end with a new one whose element, if it is connected, is the last.
LEMMA AddedInOrder ==
    ASSUME SectionsTyped, Holding, Leading, SectionsSorted,
           NEW new \in Element, new \notin ElementsOf(sections), NEW positioned \in BOOLEAN,
           sections' = SectionAdded(new, positioned),
           \A k \in DOMAIN CurrentRow' :
              \/ CurrentRow'[k] = new /\ \A j \in DOMAIN CurrentRow' : j <= k
              \/ k \in DOMAIN CurrentRow /\ CurrentRow'[k] = CurrentRow[k]
    PROVE  SectionsSorted'
<1> DEFINE n == Len(sections)
           row == CurrentRow
           next == CurrentRow'
<1>1. /\ n \in Nat /\ DOMAIN sections = 1 .. n /\ sections \in Seq(Section)
      /\ row = GetElementUIDsInOrder(segments) /\ next = GetElementUIDsInOrder(segments')
      /\ \A i \in 1 .. n : sections[i] \in ToSet(sections) /\ sections[i] \in Section
  BY SequenceIsFunction DEF SectionsTyped, CurrentRow
<1>2. /\ DOMAIN sections' = 1 .. n + 1
      /\ \A i \in 1 .. n : sections'[i] = sections[i]
      /\ sections'[n + 1].elements[1] = new
  <2> DEFINE s == [elements |-> <<new>>, positioned |-> positioned]
  <2>1. s \in Section /\ s.elements[1] = new
    BY DEF Section
  <2> HIDE DEF s
  <2>2. sections' = Append(sections, s)
    BY DEF SectionAdded, s
  <2>3. /\ sections' \in Seq(Section) /\ Len(sections') = n + 1
        /\ \A i \in 1 .. n : sections'[i] = sections[i]
        /\ sections'[n + 1] = s
    BY <1>1, <2>1, <2>2, AppendProperties
  <2> QED
    BY <2>1, <2>3, SequenceIsFunction
<1>3. \A i \in 1 .. n : sections[i].elements[1] \in ElementsOf(sections)
  <2> TAKE i \in 1 .. n
  <2>1. sections[i].elements # <<>> /\ sections[i].elements \in Seq(Element)
    BY <1>1 DEF Holding, Hold, Section
  <2>2. Len(sections[i].elements) \in Nat /\ Len(sections[i].elements) # 0
    BY <2>1, SequenceIsFunction, EmptySeq
  <2>3. 1 \in 1 .. Len(sections[i].elements)
    BY <2>2
  <2>4. sections[i].elements[1] \in ToSet(sections[i].elements)
    BY <2>1, <2>3, SequenceIsFunction
  <2> QED
    BY <1>1, <2>4, ElementsBySection
<1>4. /\ \A k \in DOMAIN row : row[k] \in ToSet(row)
      /\ new \notin ToSet(row)
      /\ DOMAIN row = 1 .. Len(row) /\ Len(row) \in Nat
  <2>1. row \in Seq(Element) /\ ToSet(row) \subseteq ElementsOf(sections)
    BY DEF Leading, LeadThrough, Holding, Hold
  <2> QED
    BY <2>1, SequenceIsFunction
<1>5. \A i, j \in DOMAIN sections, k, l \in DOMAIN row :
         /\ i < j
         /\ sections[i].elements[1] = row[k]
         /\ sections[j].elements[1] = row[l]
         => k <= l
  BY <1>1 DEF SectionsSorted
<1>6. \A k \in DOMAIN next : \/ next[k] = new /\ \A j \in DOMAIN next : j <= k
                             \/ k \in DOMAIN row /\ next[k] = row[k]
  OBVIOUS
<1> HIDE DEF next, row, n
<1>7. ASSUME NEW i \in DOMAIN sections', NEW j \in DOMAIN sections',
             NEW k \in DOMAIN next, NEW l \in DOMAIN next,
             i < j, sections'[i].elements[1] = next[k], sections'[j].elements[1] = next[l]
      PROVE  k <= l
  <2>1. i \in 1 .. n /\ (j \in 1 .. n \/ j = n + 1)
    BY <1>1, <1>2, <1>7
  <2>2. sections'[i] = sections[i] /\ sections[i].elements[1] # new
    BY <1>2, <1>3, <2>1
  <2>3. k \in DOMAIN row /\ next[k] = row[k]
    BY <1>6, <1>7, <2>2
  <2>4. CASE j = n + 1
    <3>1. next[l] = new
      BY <1>2, <1>7, <2>4
    <3>2. ~(l \in DOMAIN row /\ next[l] = row[l])
      BY <1>4, <3>1
    <3> QED
      BY <1>6, <3>2
  <2>5. CASE j \in 1 .. n
    <3>1. sections'[j] = sections[j] /\ sections[j].elements[1] # new
      BY <1>2, <1>3, <2>5
    <3>2. l \in DOMAIN row /\ next[l] = row[l]
      BY <1>6, <1>7, <3>1
    <3> QED
      BY <1>1, <1>5, <1>7, <2>1, <2>2, <2>3, <2>5, <3>1, <3>2
  <2> QED
    BY <2>1, <2>4, <2>5
<1> QED
  BY <1>1, <1>7 DEF SectionsSorted

\* Sorted sections without one of them are sorted, by the row without an element.
LEMMA RemovedInOrder ==
    ASSUME ConnectedInv, SectionsSorted, NEW e, DeleteConnectedElement(e)
    PROVE  SectionsSorted'
<1> DEFINE n == Len(sections)
           row == CurrentRow
           next == CurrentRow'
           m == CHOOSE i \in DOMAIN sections : e \in ToSet(sections[i].elements)
<1>1. /\ n \in Nat /\ DOMAIN sections = 1 .. n /\ sections \in Seq(Section)
      /\ row = GetElementUIDsInOrder(segments) /\ next = GetElementUIDsInOrder(segments')
      /\ row \in Seq(Element) /\ Len(row) \in Nat /\ DOMAIN row = 1 .. Len(row)
  <2>1. sections \in Seq(Section) /\ row \in Seq(Element)
    BY DEF ConnectedInv, ConnectedTypeOK, Leading, LeadThrough
  <2> QED
    BY <2>1, SequenceIsFunction DEF CurrentRow
<1>2. PICK k0 \in 1 .. Len(row) : row[k0] = e /\ next = RowWithout(row, k0)
  BY DeleteEffect
<1>3. m \in 1 .. n /\ sections' = RemoveAt(sections, m)
  <2>1. e \in ElementsOf(sections)
    <3>1. e \in ToSet(row)
      BY <1>1, <1>2, SequenceIsFunction
    <3> QED
      BY <3>1 DEF ConnectedInv, Holding, Hold
  <2>2. \E i \in DOMAIN sections : e \in ToSet(sections[i].elements)
    BY <2>1 DEF ElementsOf
  <2>3. sections' = Without(sections, e)
    BY DeleteEffect
  <2> QED
    BY <1>1, <2>2, <2>3 DEF Without
<1> HIDE DEF m, n
<1>4. /\ DOMAIN sections' = 1 .. n - 1
      /\ \A i \in 1 .. n - 1 : sections'[i] = IF i < m THEN sections[i] ELSE sections[i + 1]
  <2>1. /\ sections' \in Seq(Section) /\ Len(sections') = n - 1
        /\ \A i \in 1 .. n - 1 : sections'[i] = IF i < m THEN sections[i] ELSE sections[i + 1]
    BY <1>1, <1>3, RemovedEntries DEF n
  <2>2. DOMAIN sections' = 1 .. Len(sections')
    BY <2>1, SequenceIsFunction
  <2> QED
    BY <2>1, <2>2
<1>5. \A i, j \in DOMAIN sections, k, l \in DOMAIN row :
         /\ i < j
         /\ sections[i].elements[1] = row[k]
         /\ sections[j].elements[1] = row[l]
         => k <= l
  BY <1>1 DEF SectionsSorted
<1>6. \A k \in DOMAIN next :
         /\ k \in 1 .. Len(row) - 1
         /\ next[k] = IF k < k0 THEN row[k] ELSE row[k + 1]
  <2>1. CASE Len(row) > 2
    <3> DEFINE less == RemoveAt(row, k0)
    <3>1. /\ less \in Seq(Element) /\ Len(less) = Len(row) - 1
          /\ \A k \in 1 .. Len(row) - 1 : less[k] = IF k < k0 THEN row[k] ELSE row[k + 1]
      BY <1>1, RemovedEntries
    <3> HIDE DEF less
    <3>2. DOMAIN less = 1 .. Len(row) - 1
      BY <3>1, SequenceIsFunction
    <3>3. next = less
      BY <1>2, <2>1 DEF RowWithout, less
    <3> HIDE DEF next, row
    <3> QED
      BY <3>1, <3>2, <3>3
  <2>2. CASE ~(Len(row) > 2)
    <3>1. next = <<>>
      BY <1>2, <2>2 DEF RowWithout
    <3>2. DOMAIN next = {}
      BY <3>1
    <3> QED
      BY <3>2
  <2> QED
    BY <2>1, <2>2
<1> HIDE DEF next, row
<1>7. ASSUME NEW i \in DOMAIN sections', NEW j \in DOMAIN sections',
             NEW k \in DOMAIN next, NEW l \in DOMAIN next,
             i < j, sections'[i].elements[1] = next[k], sections'[j].elements[1] = next[l]
      PROVE  k <= l
  <2> DEFINE p(x) == IF x < m THEN x ELSE x + 1
             q(x) == IF x < k0 THEN x ELSE x + 1
  <2>1. \A x \in 1 .. n - 1 : p(x) \in 1 .. n /\ sections'[x] = sections[p(x)]
    <3> TAKE x \in 1 .. n - 1
    <3>1. x \in 1 .. n /\ x + 1 \in 1 .. n
      BY <1>1
    <3> QED
      BY <1>4, <3>1
  <2>2. \A x \in DOMAIN next : q(x) \in DOMAIN row /\ next[x] = row[q(x)]
    <3> TAKE x \in DOMAIN next
    <3>1. x \in 1 .. Len(row) - 1 /\ next[x] = IF x < k0 THEN row[x] ELSE row[x + 1]
      BY <1>6
    <3>2. x \in 1 .. Len(row) /\ x + 1 \in 1 .. Len(row)
      BY <1>1, <3>1
    <3> QED
      BY <1>1, <3>1, <3>2
  <2>3. i \in 1 .. n - 1 /\ j \in 1 .. n - 1
    BY <1>4
  <2>4. p(i) < p(j)
    BY <1>1, <1>3, <1>7, <2>3
  <2>5. k \in Int /\ l \in Int
    BY <1>6
  <2>6. q(k) <= q(l) => k <= l
    BY <1>1, <2>5
  <2> HIDE DEF p, q
  <2>7. /\ sections[p(i)].elements[1] = row[q(k)]
        /\ sections[p(j)].elements[1] = row[q(l)]
    BY <1>7, <2>1, <2>2, <2>3
  <2>8. /\ p(i) \in DOMAIN sections /\ p(j) \in DOMAIN sections
        /\ q(k) \in DOMAIN row /\ q(l) \in DOMAIN row
    BY <1>1, <2>1, <2>2, <2>3
  <2>9. q(k) <= q(l)
    BY <1>5, <2>4, <2>7, <2>8
  <2> QED
    BY <2>6, <2>9
<1> QED
  BY <1>1, <1>7 DEF SectionsSorted

\* The order of the sections survives a step, or is restored by it.
SortedOrRestored ==
    SectionsSorted \/ (Len(CurrentRow') > Len(CurrentRow) /\ Last(CurrentRow') = Last(CurrentRow))
       => SectionsSorted'

LEMMA BetweenSorts ==
    ASSUME ConnectedInv, NEW start, NEW end, NEW new \in Unused,
           CreateNewConnectedElementBetween(start, end, new)
    PROVE  SortedOrRestored
<1>1. new \in Element /\ new \notin ToSet(CurrentRow) /\ SectionsTyped
  BY DEF ConnectedInv, ConnectedTypeOK, SectionsTyped, Holding, Hold, Unused
<1>2. SectionsPut(new) /\ segments' \in Seq(Segment) /\ LeadThrough(segments', CurrentRow')
  BY <1>1, BetweenEffect DEF Inserted
<1> QED
  BY <1>1, <1>2, PutInOrder DEF SortedOrRestored

LEMMA AfterLastSorts ==
    ASSUME ConnectedInv, NEW start, NEW new \in Unused, CreateAfterLast(start, new)
    PROVE  SortedOrRestored
<1>1. /\ new \in Element /\ new \notin ElementsOf(sections) /\ new \notin ToSet(CurrentRow)
      /\ SectionsTyped /\ Holding /\ Leading
  BY DEF ConnectedInv, ConnectedTypeOK, SectionsTyped, Holding, Hold, Unused
<1> DEFINE m == Len(CurrentRow) + 1
<1>2. /\ Len(CurrentRow) >= 2 /\ Inserted(m, new) /\ sections' = SectionAdded(new, TRUE)
  BY <1>1, AfterLastEffect
<1>3. /\ CurrentRow \in Seq(Element) /\ Len(CurrentRow) \in Nat
      /\ DOMAIN CurrentRow = 1 .. Len(CurrentRow)
      /\ \A i \in 1 .. Len(CurrentRow) : CurrentRow[i] \in ToSet(CurrentRow)
      /\ CurrentRow' \in Seq(Element) /\ DOMAIN CurrentRow' = 1 .. Len(CurrentRow')
  <2>1. CurrentRow \in Seq(Element) /\ CurrentRow' \in Seq(Element)
    BY <1>1, <1>2 DEF Leading, LeadThrough, Inserted
  <2> QED
    BY <2>1, SequenceIsFunction
<1> HIDE DEF m
<1>4. /\ Len(CurrentRow') = Len(CurrentRow) + 1
      /\ \A k \in 1 .. Len(CurrentRow') :
            CurrentRow'[k] = IF k < m THEN CurrentRow[k]
                             ELSE IF k = m THEN new ELSE CurrentRow[k - 1]
  BY <1>1, <1>2, NextToInserted
<1>5. /\ m \in 1 .. Len(CurrentRow') /\ CurrentRow'[m] = new /\ m = Len(CurrentRow')
      /\ \A k \in 1 .. Len(CurrentRow') :
            k # m => k \in 1 .. Len(CurrentRow) /\ CurrentRow'[k] = CurrentRow[k]
      /\ \A k \in 1 .. Len(CurrentRow') : k <= m
  BY <1>3, <1>4 DEF m
<1>6. \A k \in DOMAIN CurrentRow' :
         \/ CurrentRow'[k] = new /\ \A j \in DOMAIN CurrentRow' : j <= k
         \/ k \in DOMAIN CurrentRow /\ CurrentRow'[k] = CurrentRow[k]
  BY <1>3, <1>5
<1>7. SectionsSorted => SectionsSorted'
  BY <1>1, <1>2, <1>6, AddedInOrder
<1>8. Last(CurrentRow') # Last(CurrentRow)
  <2>1. Len(CurrentRow) \in 1 .. Len(CurrentRow)
    BY <1>2, <1>3
  <2>2. Last(CurrentRow) \in ToSet(CurrentRow)
    BY <1>3, <2>1 DEF Last
  <2>3. Last(CurrentRow') = new
    BY <1>5 DEF Last
  <2> QED
    BY <1>1, <2>2, <2>3
<1> QED
  BY <1>7, <1>8 DEF SortedOrRestored

LEMMA OrderStep ==
    ASSUME ConnectedInv, Next
    PROVE  SortedOrRestored
<1>1. ASSUME NEW new \in Unused
      PROVE  /\ new \in Element /\ new \notin ElementsOf(sections) /\ new \notin ToSet(CurrentRow)
             /\ SectionsTyped /\ Holding /\ Leading
  BY DEF ConnectedInv, ConnectedTypeOK, SectionsTyped, Holding, Hold, Unused
<1>2. Len(CurrentRow) \in Nat /\ CurrentRow \in Seq(Element)
  BY SequenceIsFunction DEF ConnectedInv, Leading, LeadThrough
<1>3. CASE ReadHelper
  <2>1. CurrentRow' = CurrentRow /\ segments' = segments /\ sections' = sections
    BY <1>3, ReadKeepsInv DEF ReadHelper
  <2>2. SectionsSorted => SectionsSorted'
    BY <2>1 DEF SectionsSorted
  <2>3. ~(Len(CurrentRow') > Len(CurrentRow))
    BY <1>2, <2>1
  <2> QED
    BY <2>2, <2>3 DEF SortedOrRestored
<1>4. ASSUME NEW start \in Element, NEW end \in Element, NEW new \in Unused,
             CreateNewConnectedElementBetween(start, end, new)
      PROVE  SortedOrRestored
  BY <1>4, BetweenSorts
<1>5. ASSUME NEW start \in Element, NEW new \in Unused,
             CreateNewConnectedElementAfter(start, new)
      PROVE  SortedOrRestored
  BY <1>5, BetweenSorts, AfterLastSorts DEF CreateNewConnectedElementAfter
<1>6. ASSUME NEW start \in Element, NEW new \in Unused,
             CreateNewConnectedElementBefore(start, new)
      PROVE  SortedOrRestored
  <2>1. CASE CreateBeforeFirst(start, new)
    <3>1. SectionsPut(new) /\ segments' \in Seq(Segment) /\ LeadThrough(segments', CurrentRow')
      BY <1>1, <2>1, BeforeFirstEffect DEF Inserted
    <3> QED
      BY <1>1, <3>1, PutInOrder DEF SortedOrRestored
  <2>2. CASE \E i \in 2 .. Len(Order) :
                CreateNewConnectedElementBetween(Order[i - 1], start, new)
    BY <2>2, BetweenSorts
  <2> QED
    BY <1>6, <2>1, <2>2 DEF CreateNewConnectedElementBefore
<1>7. ASSUME NEW new \in Unused, AbandonCreation(new)
      PROVE  SortedOrRestored
  <2>1. CurrentRow' = CurrentRow
    BY <1>7, AbandonKeepsInv
  <2>2. PICK positioned \in BOOLEAN : sections' = SectionAdded(new, positioned)
    BY <1>7 DEF AbandonCreation
  <2>3. \A k \in DOMAIN CurrentRow' : k \in DOMAIN CurrentRow /\ CurrentRow'[k] = CurrentRow[k]
    BY <2>1
  <2>4. SectionsSorted => SectionsSorted'
    BY <1>1, <2>2, <2>3, AddedInOrder
  <2>5. ~(Len(CurrentRow') > Len(CurrentRow))
    BY <1>2, <2>1
  <2> QED
    BY <2>4, <2>5 DEF SortedOrRestored
<1>8. ASSUME NEW e \in Element, DeleteConnectedElement(e)
      PROVE  SortedOrRestored
  <2>1. SectionsSorted => SectionsSorted'
    BY <1>8, RemovedInOrder
  <2>2. ~(Len(CurrentRow') > Len(CurrentRow))
    <3>1. PICK k \in 1 .. Len(CurrentRow) : CurrentRow' = RowWithout(CurrentRow, k)
      BY <1>8, DeleteEffect
    <3>2. Len(RemoveAt(CurrentRow, k)) = Len(CurrentRow) - 1
      BY <1>2, RemovedEntries
    <3>3. Len(<<>>) = 0
      OBVIOUS
    <3> QED
      BY <1>2, <3>1, <3>2, <3>3 DEF RowWithout
  <2> QED
    BY <2>1, <2>2 DEF SortedOrRestored
<1> QED
  BY <1>3, <1>4, <1>5, <1>6, <1>7, <1>8 DEF Next

-----------------------------------------------------------------------------
(* The row, as others see it.                                              *)

\* ElementOrder means the same lists.
LEMMA SameLists ==
    ASSUME NEW row
    PROVE  /\ \A m, new : ElementRow!InsertAt(row, m, new) = InsertAt(row, m, new)
           /\ \A k : ElementRow!RemoveAt(row, k) = RemoveAt(row, k)
           /\ ElementRow!Range(row) = ToSet(row)
           /\ ElementRow!IsInjective(row) <=> IsInjective(row)
<1>1. \A m, new : ElementRow!InsertAt(row, m, new) = InsertAt(row, m, new)
  BY DEF ElementRow!InsertAt, InsertAt
<1>2. \A k : ElementRow!RemoveAt(row, k) = RemoveAt(row, k)
  BY DEF ElementRow!RemoveAt, RemoveAt
<1>3. ElementRow!Range(row) = ToSet(row)
  BY DEF ElementRow!Range, ToSet
<1>4. ElementRow!IsInjective(row) <=> IsInjective(row)
  BY DEF ElementRow!IsInjective, IsInjective
<1> QED
  BY <1>1, <1>2, <1>3, <1>4

\* What entered the row, in the words of ElementOrder.
LEMMA InsertedIsInsert ==
    ASSUME ConnectedInv, Len(CurrentRow) >= 2, NEW m,
           NEW new \in Element, new \notin ToSet(CurrentRow), Inserted(m, new)
    PROVE  ElementRow!Insert
<1>1. CurrentRow = GetElementUIDsInOrder(segments) /\ CurrentRow' = GetElementUIDsInOrder(segments')
  BY DEF CurrentRow
<1>2. new \notin ElementRow!Range(CurrentRow)
  BY SameLists
<1>3. /\ m \in 1 .. Len(CurrentRow) + 1
      /\ CurrentRow' = ElementRow!InsertAt(CurrentRow, m, new)
  BY SameLists DEF Inserted
<1> QED
  BY <1>1, <1>2, <1>3 DEF ElementRow!Insert

LEMMA BetweenInserts ==
    ASSUME ConnectedInv, NEW start, NEW end, NEW new \in Unused,
           CreateNewConnectedElementBetween(start, end, new)
    PROVE  ElementRow!Insert
<1>1. new \in Element /\ new \notin ToSet(CurrentRow)
  BY DEF ConnectedInv, Holding, Hold, Unused
<1>2. PICK i \in 1 .. Len(CurrentRow) - 1 : Inserted(i + 1, new)
  BY <1>1, BetweenEffect
<1>3. Len(CurrentRow) >= 2
  <2>1. Len(CurrentRow) \in Nat
    BY SequenceIsFunction DEF ConnectedInv, Leading, LeadThrough
  <2> QED
    BY <1>2, <2>1
<1> QED
  BY <1>1, <1>2, <1>3, InsertedIsInsert

LEMMA DeletionDeletes ==
    ASSUME ConnectedInv, NEW e, DeleteConnectedElement(e)
    PROVE  ElementRow!Delete
<1>1. CurrentRow = GetElementUIDsInOrder(segments) /\ CurrentRow' = GetElementUIDsInOrder(segments')
  BY DEF CurrentRow
<1>2. PICK k \in 1 .. Len(CurrentRow) : CurrentRow' = RowWithout(CurrentRow, k)
  BY DeleteEffect
<1>3. k \in DOMAIN CurrentRow
  BY SequenceIsFunction DEF ConnectedInv, Leading, LeadThrough
<1> QED
  BY <1>1, <1>2, <1>3, SameLists DEF ElementRow!Delete, RowWithout

\* Every step is one of the row, or leaves it.
LEMMA RowStep ==
    ASSUME ConnectedInv, [Next]_vars
    PROVE  ElementRow!Insert \/ ElementRow!Delete \/ CurrentRow' = CurrentRow
<1>1. ASSUME NEW new \in Unused
      PROVE  new \in Element /\ new \notin ToSet(CurrentRow)
  BY DEF ConnectedInv, Holding, Hold, Unused
<1>2. CASE ReadHelper
  BY <1>2, ReadKeepsInv
<1>3. ASSUME NEW start \in Element, NEW end \in Element, NEW new \in Unused,
             CreateNewConnectedElementBetween(start, end, new)
      PROVE  ElementRow!Insert
  BY <1>3, BetweenInserts
<1>4. ASSUME NEW start \in Element, NEW new \in Unused,
             CreateNewConnectedElementAfter(start, new)
      PROVE  ElementRow!Insert
  <2>1. CASE CreateAfterLast(start, new)
    BY <1>1, <2>1, AfterLastEffect, InsertedIsInsert
  <2>2. CASE \E i \in 1 .. Len(Order) - 1 :
                CreateNewConnectedElementBetween(start, Order[i + 1], new)
    BY <2>2, BetweenInserts
  <2> QED
    BY <1>4, <2>1, <2>2 DEF CreateNewConnectedElementAfter
<1>5. ASSUME NEW start \in Element, NEW new \in Unused,
             CreateNewConnectedElementBefore(start, new)
      PROVE  ElementRow!Insert
  <2>1. CASE CreateBeforeFirst(start, new)
    BY <1>1, <2>1, BeforeFirstEffect, InsertedIsInsert
  <2>2. CASE \E i \in 2 .. Len(Order) :
                CreateNewConnectedElementBetween(Order[i - 1], start, new)
    BY <2>2, BetweenInserts
  <2> QED
    BY <1>5, <2>1, <2>2 DEF CreateNewConnectedElementBefore
<1>6. ASSUME NEW new \in Unused, AbandonCreation(new)
      PROVE  CurrentRow' = CurrentRow
  BY <1>6, AbandonKeepsInv
<1>7. ASSUME NEW e \in Element, DeleteConnectedElement(e)
      PROVE  ElementRow!Delete
  BY <1>7, DeletionDeletes
<1>8. CASE UNCHANGED vars
  BY <1>8 DEF vars, CurrentRow
<1> QED
  BY <1>2, <1>3, <1>4, <1>5, <1>6, <1>7, <1>8 DEF Next

LEMMA RowIsChain ==
    ASSUME ConnectedInv
    PROVE  ChainContinuous
<1>1. /\ segments \in Seq(Segment) /\ LeadThrough(segments, CurrentRow)
      /\ ToSet(CurrentRow) \subseteq ElementsOf(sections)
  BY DEF ConnectedInv, ConnectedTypeOK, Leading, Holding, Hold
<1>2. /\ Len(segments) \in Nat /\ DOMAIN segments = 1 .. Len(segments)
      /\ CurrentRow \in Seq(Element)
      /\ Len(CurrentRow) = IF Len(segments) = 0 THEN 0 ELSE Len(segments) + 1
      /\ \A i \in 1 .. Len(segments) :
            segments[i].from = CurrentRow[i] /\ segments[i].to = CurrentRow[i + 1]
      /\ \A i, j \in 1 .. Len(CurrentRow) : CurrentRow[i] = CurrentRow[j] => i = j
  BY <1>1, LeadFacts
<1>3. \A i \in 1 .. Len(segments) : i \in 1 .. Len(CurrentRow) /\ i + 1 \in 1 .. Len(CurrentRow)
  BY <1>2
<1>4. ASSUME NEW i \in DOMAIN segments, NEW j \in DOMAIN segments, i < j
      PROVE  segments[i].from # segments[j].from /\ segments[i].from # segments[j].to
  <2>1. i \in 1 .. Len(segments) /\ j \in 1 .. Len(segments) /\ i # j /\ i # j + 1
    BY <1>2, <1>4
  <2> QED
    BY <1>2, <1>3, <2>1
<1>5. ASSUME NEW i \in DOMAIN segments
      PROVE  {segments[i].from, segments[i].to} \subseteq ElementsOf(sections)
  <2>1. \A k \in 1 .. Len(CurrentRow) : CurrentRow[k] \in ElementsOf(sections)
    BY <1>1, <1>2, SequenceIsFunction
  <2> QED
    BY <1>2, <1>3, <2>1
<1>6. ~NeedReordering(segments)
  BY <1>1, LedInOrder
<1> QED
  BY <1>4, <1>5, <1>6 DEF ChainContinuous

-----------------------------------------------------------------------------
(* The theorems.                                                           *)

\* Types, the row and the sections, and the helper are right in every state.
THEOREM ConnectedInductive == Spec => []ConnectedInv
<1>1. ConnectedInv /\ [Next]_vars => ConnectedInv'
  BY ConnectedStep
<1>2. QED
  BY <1>1, ConnectedInit, PTL DEF Spec

\* Sections, segments and the helper keep their types.
THEOREM ConnectedTypeCorrect == Spec => []ConnectedTypeOK
<1>1. ConnectedInv => ConnectedTypeOK
  BY DEF ConnectedInv
<1>2. QED
  BY <1>1, ConnectedInductive, PTL

\* However elements are created and deleted, the segments lead in order through
\* elements whose sections exist, without a branch, a gap or a return.
THEOREM ChainCorrect == Spec => []ChainContinuous
<1>1. ConnectedInv => ChainContinuous
  BY RowIsChain
<1>2. QED
  BY <1>1, ConnectedInductive, PTL

\* A cached helper has the row that the segments make, and elements that exist:
\* in a wing, and in a fuselage whose elements are positioned.  The code leaves
\* the helper of other fuselages outdated (CCPACSFuselage::CreateNewConnected-
\* ElementAfter); RowsAssumption keeps them out.
THEOREM HelperCorrect == Spec => []HelperCurrent
<1>1. ConnectedInv => HelperCurrent
  BY DEF ConnectedInv
<1>2. QED
  BY <1>1, ConnectedInductive, PTL

\* Sorted sections stay sorted, and an element created elsewhere than at the end
\* makes them so.
THEOREM SectionsFollowCorrect == Spec => SectionsFollowSegments
<1>1. ConnectedInv /\ [Next]_vars =>
        [LET old == GetElementUIDsInOrder(segments)
             row == GetElementUIDsInOrder(segments')
         IN  SectionsSorted \/ (Len(row) > Len(old) /\ Last(row) = Last(old))
               => SectionsSorted']_vars
  BY OrderStep DEF SortedOrRestored, CurrentRow
<1>2. QED
  BY <1>1, ConnectedInductive, PTL DEF Spec, SectionsFollowSegments

\* A new element is directly after, before or between the elements that were named.
THEOREM InsertedCorrect == Spec => InsertedInPlace
<1>1. ASSUME ConnectedInv, ConnectedInv',
             NEW a \in Connected, NEW b \in Connected,
             NEW new \in ToSet(GetElementUIDsInOrder(segments')) \ Connected
      PROVE  LET row == GetElementUIDsInOrder(segments')
             IN  /\ CreateNewConnectedElementBetween(a, b, new)
                      => IsNext(row, a, new) /\ IsNext(row, new, b)
                 /\ CreateNewConnectedElementAfter(a, new) => IsNext(row, a, new)
                 /\ CreateNewConnectedElementBefore(a, new) => IsNext(row, new, a)
  <2>1. CurrentRow' = GetElementUIDsInOrder(segments') /\ Connected = ToSet(CurrentRow)
    BY DEF CurrentRow, Connected
  <2>2. CurrentRow' \in Seq(Element)
    BY <1>1 DEF ConnectedInv, Leading, LeadThrough
  <2>3. new \in Element /\ new \notin ToSet(CurrentRow)
    BY <2>1, <2>2, SequenceIsFunction
  <2> QED
    BY <1>1, <2>1, <2>3, BetweenInPlace, AfterInPlace, BeforeInPlace
<1>2. ConnectedInv /\ ConnectedInv' /\ [Next]_vars =>
        [LET row == GetElementUIDsInOrder(segments')
         IN  \A a, b \in Connected, new \in ToSet(row) \ Connected :
                 /\ CreateNewConnectedElementBetween(a, b, new)
                      => IsNext(row, a, new) /\ IsNext(row, new, b)
                 /\ CreateNewConnectedElementAfter(a, new) => IsNext(row, a, new)
                 /\ CreateNewConnectedElementBefore(a, new) => IsNext(row, new, a)]_vars
  BY <1>1
<1>3. QED
  BY <1>2, ConnectedInductive, PTL DEF Spec, InsertedInPlace

\* The row changes by one element at a time, as ElementOrder says: the segments,
\* whatever is split, extended, removed and reordered, implement it.
THEOREM ElementOrderImplemented == Spec => ImplementsElementOrder
<1>1. Init => ElementRow!OrderInit
  BY ConnectedInit, SameLists
     DEF ConnectedInv, Leading, LeadThrough, CurrentRow, ElementRow!OrderInit
<1>2. ConnectedInv /\ [Next]_vars =>
        [ElementRow!OrderNext]_(GetElementUIDsInOrder(segments))
  BY RowStep DEF ElementRow!OrderNext, CurrentRow
<1>3. QED
  BY <1>1, <1>2, ConnectedInductive, PTL
     DEF Spec, ImplementsElementOrder, ElementRow!OrderSpec
=============================================================================
