--------------------------- MODULE ConnectedElements ---------------------------
(***************************************************************************)
(* The connected elements of a wing or fuselage, as the TiGLCreator edits  *)
(* them: CCPACSWing and CCPACSFuselage, CreateNewConnectedElementBetween,  *)
(* After and Before, and DeleteConnectedElement.                           *)
(*                                                                         *)
(* Three structures have to agree: the sections with their elements, the   *)
(* segments that connect elements, and the cached helper (CTiglWingHelper, *)
(* CTiglFuselageHelper), which remembers the row of elements that the      *)
(* segments made when it was built and points to the elements.  Every      *)
(* operation decides by the helper and changes the other two.              *)
(*                                                                         *)
(* An operation that throws before it changed anything has at most built   *)
(* the helper, and is the step ReadHelper.  Where and how large the new    *)
(* element is, is left out.  uIDs of segments are left out too: a segment  *)
(* is its place in the list.                                               *)
(***************************************************************************)
EXTENDS Integers, Sequences, FiniteSets, SequencesExt

CONSTANTS
    Element,     \* the uIDs of section elements; bounds how many there can be
    Documents,   \* what a document may define, with its segments in order
    None

Section == [elements: Seq(Element), positioned: BOOLEAN]
Segment == [from: Element, to: Element, guided: BOOLEAN]
Kind == {"wing", "fuselage"}

ASSUME DocumentsAssumption ==
    Documents \subseteq [kind: Kind, sections: Seq(Section), segments: Seq(Segment)]

VARIABLES
    kind,        \* whether the owner is a wing or a fuselage
    sections,    \* m_sections; positioned if a positioning leads to the section
    segments,    \* m_segments; guided if the segment has guide curves
    helper       \* wingHelper or fuselageHelper, None while it is cleared

vars == <<kind, sections, segments, helper>>

ConnectedTypeOK ==
    /\ kind \in Kind
    /\ sections \in Seq(Section)
    /\ segments \in Seq(Segment)
    /\ helper # None =>
           helper.order \in Seq(Element) /\ helper.elements \subseteq Element

-----------------------------------------------------------------------------
(* The lists.                                                              *)

ElementsOf(secs) == UNION {ToSet(secs[i].elements) : i \in DOMAIN secs}

\* What push_back adds: nothing, if the element is in the list.
Unlisted(e, listed) == IF e \in listed THEN <<>> ELSE <<e>>

\* Each element where it occurs first.
GetElementUIDsInOrder(segs) ==
    LET listed(n) == UNION {{segs[m].from, segs[m].to} : m \in 1 .. n - 1}
        Row[n \in 0 .. Len(segs)] ==
          IF n = 0 THEN <<>>
          ELSE Row[n - 1] \o Unlisted(segs[n].from, listed(n))
                          \o Unlisted(segs[n].to, listed(n) \cup {segs[n].from})
    IN  Row[Len(segs)]

\* GetSegmentFromTo, the index; a set of at most one, and empty if it throws.
SegmentFromTo(segs, start, end) ==
    LET fits == {i \in DOMAIN segs : segs[i].from = start /\ segs[i].to = end}
    IN  {i \in fits : \A j \in fits : i <= j}

NeedReordering(segs) == \E i \in 1 .. Len(segs) - 1 : segs[i].to # segs[i + 1].from

\* What ReorderSegments may leave behind, by the contract in module Reordering:
\* the segments in order or, if there is no order and it throws, a beginning that
\* none of the others continues.
Reordered(segs) ==
    LET arrangements == {[i \in DOMAIN segs |-> segs[p[i]]] :
                            p \in Bijection(DOMAIN segs, DOMAIN segs)}
        ordered == {l \in arrangements : ~NeedReordering(l)}
        Stuck(l, n) == /\ ~NeedReordering(SubSeq(l, 1, n))
                       /\ \A i \in n + 1 .. Len(l) : l[i].from # l[n].to /\ l[1].from # l[i].to
    IN  IF ordered # {} THEN ordered
        ELSE {l \in arrangements : \E n \in DOMAIN l : Stuck(l, n)}

\* stable_sort: each section goes where the number of those before it says.
Sorted(secs, rank) ==
    LET before(i) == {j \in DOMAIN secs : rank[j] < rank[i] \/ (rank[j] = rank[i] /\ j < i)}
        place == [i \in DOMAIN secs |-> Cardinality(before(i)) + 1]
    IN  [k \in DOMAIN secs |-> secs[CHOOSE i \in DOMAIN secs : place[i] = k]]

\* The place of a section's first element in the row; the largest number without one.
Rank(s, row) ==
    IF s.elements[1] \in ToSet(row) THEN CHOOSE k \in DOMAIN row : row[k] = s.elements[1]
    ELSE Len(row) + 1

\* Mutant: from tip to root.
SortedBackwards(secs, segs) ==
    LET row == Reverse(GetElementUIDsInOrder(segs))
    IN  Sorted(secs, [i \in DOMAIN secs |-> Rank(secs[i], row)])

\* ReorderSections.
SectionsReordered(secs, segs) ==
    LET row == GetElementUIDsInOrder(segs)
    IN  Sorted(secs, [i \in DOMAIN secs |-> Rank(secs[i], row)])

-----------------------------------------------------------------------------
(* The documents.                                                          *)

\* The segments connect a row of elements, each of them once.
LeadThrough(segs, row) ==
    /\ row \in Seq(Element)
    /\ IsInjective(row)
    /\ Len(row) = IF segs = <<>> THEN 0 ELSE Len(segs) + 1
    /\ \A i \in DOMAIN segs : segs[i].from = row[i] /\ segs[i].to = row[i + 1]

\* Each section has elements, none of them in another section, and one at most
\* that is connected; every connected element is in a section.
Hold(secs, row) ==
    /\ \A s \in ToSet(secs) :
           /\ s.elements # <<>>
           /\ \A x, y \in ToSet(s.elements) \cap ToSet(row) : x = y
           /\ \A t \in ToSet(secs) :
                 ToSet(s.elements) \cap ToSet(t.elements) # {} => s = t
    /\ ToSet(row) \subseteq ElementsOf(secs)

\* A positioning leads to the section of every connected element.
AllPositioned(secs, row) ==
    \A e \in ToSet(row) : \E s \in ToSet(secs) : s.positioned /\ e \in ToSet(s.elements)

\* The documents considered: no row returns to an element, no section has two
\* connected elements, and fuselages are positioned.
ASSUME RowsAssumption ==
    \A d \in Documents :
        LET row == GetElementUIDsInOrder(d.segments)
        IN  /\ LeadThrough(d.segments, row)
            /\ Hold(d.sections, row)
            /\ d.kind = "fuselage" => AllPositioned(d.sections, row)

-----------------------------------------------------------------------------
(* The helper.                                                             *)

Built == [order |-> GetElementUIDsInOrder(segments), elements |-> ElementsOf(sections)]
Helper == IF helper = None THEN Built ELSE helper
Order == Helper.order

\* Any operation that reads the row of elements.
ReadHelper ==
    /\ helper = None
    /\ helper' = Built
    /\ UNCHANGED <<kind, sections, segments>>

Positioned(e) == \E i \in DOMAIN sections : sections[i].positioned /\ e \in ToSet(sections[i].elements)
Connected == ToSet(GetElementUIDsInOrder(segments))

-----------------------------------------------------------------------------
(* Creation.                                                               *)

\* MakeUIDUnique: the uID of an element that no section has.
Unused == Element \ ElementsOf(sections)

\* CreateSection, and setters of the new element, which create a positioning.
SectionAdded(new, positioned) ==
    Append(sections, [elements |-> <<new>>, positioned |-> positioned])

\* Mutant: only the start of the segment is set.
EndLeftOpen(start, end) == [from |-> start, to |-> None, guided |-> FALSE]

NewSegment(start, end) == [from |-> start, to |-> end, guided |-> FALSE]

\* Mutant: the old segment goes on to its old end.
BothToTheEnd(i, new) == Append(segments, NewSegment(new, segments[i].to))

SplitSegment(i, new) ==
    Append([segments EXCEPT ![i].to = new], NewSegment(new, segments[i].to))

\* The sections with the new one, in order unless ReorderSegments threw.
SectionsFor(segs, new) ==
    IF NeedReordering(segs) THEN SectionAdded(new, TRUE)
    ELSE SectionsReordered(SectionAdded(new, TRUE), segs)

\* Mutant: the guide curves of the segment are not looked at.
SplitAlsoGuided(start, end, new) ==
    \E i \in SegmentFromTo(segments, start, end) :
        /\ {start, end} \subseteq Helper.elements
        /\ \E ordered \in Reordered(SplitSegment(i, new)) :
               /\ segments' = ordered
               /\ sections' = SectionsFor(ordered, new)
        /\ helper' = None
        /\ UNCHANGED kind

\* A start or end that the helper does not know would be a null pointer.
\* SplitSegment invalidates the segments, and they their owner, before it
\* reorders them; when it throws, the sections stay as they are.
CreateNewConnectedElementBetween(start, end, new) ==
    \E i \in SegmentFromTo(segments, start, end) :
        /\ ~segments[i].guided
        /\ {start, end} \subseteq Helper.elements
        /\ \E ordered \in Reordered(SplitSegment(i, new)) :
               /\ segments' = ordered
               /\ sections' = SectionsFor(ordered, new)
        /\ helper' = None
        /\ UNCHANGED kind

\* The positionings that the position of an element was computed from are
\* invalidated when the new element is placed, and with them their sections,
\* the segments there and the owner.  Other positionings may be invalid already.
OwnerTold(read) ==
    {told \in BOOLEAN : /\ (\E e \in read : Positioned(e)) => told
                        /\ told => \E e \in Connected : Positioned(e)}

\* Mutant: a wing is not told of a new segment either.
AfterTipUnnoticed(start, new) ==
    LET previous == Order[Len(Order) - 1]
    IN  /\ Len(Order) >= 2
        /\ start = Last(Order)
        /\ \A i \in DOMAIN segments : ~segments[i].guided
        /\ sections' = SectionAdded(new, TRUE)
        /\ segments' = Append(segments, NewSegment(start, new))
        /\ \E told \in OwnerTold({start, previous}) : helper' = IF told THEN None ELSE Helper
        /\ UNCHANGED kind

\* CreateNewConnectedElementAfter the last element.  AddSegment invalidates a
\* wing, but not a fuselage; the ends are set without a further invalidation.
CreateAfterLast(start, new) ==
    LET previous == Order[Len(Order) - 1]
    IN  /\ Len(Order) >= 2
        /\ start = Last(Order)
        /\ \A i \in DOMAIN segments : ~segments[i].guided
        /\ sections' = SectionAdded(new, TRUE)
        /\ segments' = Append(segments, NewSegment(start, new))
        /\ \E told \in OwnerTold({start, previous}) :
               helper' = IF told \/ kind = "wing" THEN None ELSE Helper
        /\ UNCHANGED kind

\* Mutant: the segment leads from the first element to the new one.
BeforeFirstTurned(start, new) ==
    /\ Len(Order) >= 2
    /\ start = Order[1]
    /\ \A i \in DOMAIN segments : ~segments[i].guided
    /\ \E ordered \in Reordered(Append(segments, NewSegment(start, new))) :
           /\ segments' = ordered
           /\ sections' = SectionsFor(ordered, new)
    /\ helper' = None
    /\ UNCHANGED kind

\* CreateNewConnectedElementBefore the first element.  The new segment is added
\* at the end, so that NeedReordering holds; an error of ReorderSegments is
\* logged and forgotten.
CreateBeforeFirst(start, new) ==
    /\ Len(Order) >= 2
    /\ start = Order[1]
    /\ \A i \in DOMAIN segments : ~segments[i].guided
    /\ \E ordered \in Reordered(Append(segments, NewSegment(new, start))) :
           /\ segments' = ordered
           /\ sections' = SectionsFor(ordered, new)
    /\ helper' = None
    /\ UNCHANGED kind

\* Without or with an eta: between the element and the next in the row, if
\* there is one.
CreateNewConnectedElementAfter(start, new) ==
    \/ CreateAfterLast(start, new)
    \/ \E i \in 1 .. Len(Order) - 1 :
           /\ start = Order[i]
           /\ CreateNewConnectedElementBetween(start, Order[i + 1], new)

CreateNewConnectedElementBefore(start, new) ==
    \/ CreateBeforeFirst(start, new)
    \/ \E i \in 2 .. Len(Order) :
           /\ start = Order[i]
           /\ CreateNewConnectedElementBetween(Order[i - 1], start, new)

\* A setter throws, as for a profile without width or area: the section
\* remains, and no segment uses it.
AbandonCreation(new) ==
    /\ Len(Order) >= 2
    /\ \E positioned \in BOOLEAN : sections' = SectionAdded(new, positioned)
    /\ \E told \in OwnerTold({}) : helper' = IF told THEN None ELSE Helper
    /\ UNCHANGED <<kind, segments>>

-----------------------------------------------------------------------------
(* Deletion.                                                               *)

\* RemoveSection: the section of the element, with all its elements.
Without(secs, e) == RemoveAt(secs, CHOOSE i \in DOMAIN secs : e \in ToSet(secs[i].elements))

\* Mutant: the segment before a deleted element is removed, and the one after
\* it not changed.
GapClosedWrongly(segs, row, k) ==
    {RemoveAt(segs, i) : i \in SegmentFromTo(segs, row[k - 1], row[k])}

\* Segment i takes the place of segment j.
Extended(segs, i, j, end) == RemoveAt([segs EXCEPT ![i].to = end], j)

\* The segment after the element is removed, and the one before it extended.
GapClosed(segs, row, k) ==
    {Extended(segs, i, j, row[k + 1]) :
        i \in SegmentFromTo(segs, row[k - 1], row[k]),
        j \in SegmentFromTo(segs, row[k], row[k + 1])}

\* The segments without the k-th element of the row; empty if a segment that
\* the row promises is missing.
Disconnected(segs, row, k) ==
    IF 1 < k /\ k < Len(row) THEN GapClosed(segs, row, k)
    ELSE {RemoveAt(segs, i) :
             i \in IF k > 1 THEN SegmentFromTo(segs, row[k - 1], row[k])
                            ELSE SegmentFromTo(segs, row[k], row[k + 1])}

DeleteConnectedElement(e) ==
    \E k \in DOMAIN Order :
        /\ Order[k] = e
        /\ Len(Order) >= 2
        /\ e \in Helper.elements
        /\ segments' \in Disconnected(segments, Order, k)
        /\ sections' = Without(sections, e)
        /\ helper' = None
        /\ UNCHANGED kind

-----------------------------------------------------------------------------
Init ==
    /\ \E d \in Documents : kind = d.kind /\ sections = d.sections /\ segments = d.segments
    /\ helper = None

Next ==
    \/ ReadHelper
    \/ \E start, end \in Element, new \in Unused :
           CreateNewConnectedElementBetween(start, end, new)
    \/ \E start \in Element, new \in Unused : CreateNewConnectedElementAfter(start, new)
    \/ \E start \in Element, new \in Unused : CreateNewConnectedElementBefore(start, new)
    \/ \E new \in Unused : AbandonCreation(new)
    \/ \E e \in Element : DeleteConnectedElement(e)

Spec == Init /\ [][Next]_vars

-----------------------------------------------------------------------------
(* Properties.                                                             *)

\* The segments are in order and lead through the elements without a branch, a
\* gap or a return, and end on elements whose sections exist, whatever was created
\* and deleted: "It is assumed that the
\* elements are already ordered according to the m_segments"
\* (CCPACSWingSegments.h:62-63).
ChainContinuous ==
    /\ ~NeedReordering(segments)
    /\ \A i, j \in DOMAIN segments :
           i < j => segments[i].from # segments[j].from /\ segments[i].from # segments[j].to
    /\ \A i \in DOMAIN segments :
           {segments[i].from, segments[i].to} \subseteq ElementsOf(sections)

\* Whoever finds the helper cached finds the row that the segments make now, and
\* no pointer to an element that was destroyed.  For fuselages this is about
\* positioned ones, the documents of RowsAssumption: only through a positioning
\* does an appended element clear the helper.
HelperCurrent ==
    helper # None =>
        /\ helper.order = GetElementUIDsInOrder(segments)
        /\ ToSet(helper.order) \subseteq helper.elements
        /\ helper.elements \subseteq ElementsOf(sections)

\* Sections are in the order of the elements they begin with, as far as these
\* are connected.
SectionsSorted ==
    LET row == GetElementUIDsInOrder(segments)
    IN  \A i, j \in DOMAIN sections, k, l \in DOMAIN row :
            /\ i < j
            /\ sections[i].elements[1] = row[k]
            /\ sections[j].elements[1] = row[l]
            => k <= l

\* Sorted sections stay sorted, and an element created elsewhere than at the end
\* makes them so ("orders the sections according to the segments from root to
\* tip", CCPACSWing.h:620-621).
SectionsFollowSegments ==
    [][LET old == GetElementUIDsInOrder(segments)
           row == GetElementUIDsInOrder(segments')
       IN  SectionsSorted \/ (Len(row) > Len(old) /\ Last(row) = Last(old)) => SectionsSorted']_vars

IsNext(row, a, b) == \E i \in 1 .. Len(row) - 1 : row[i] = a /\ row[i + 1] = b

\* A new element is where it was asked for: directly after, before or between
\* the elements that were named.
InsertedInPlace ==
    [][LET row == GetElementUIDsInOrder(segments')
       IN  \A a, b \in Connected, new \in ToSet(row) \ Connected :
               /\ CreateNewConnectedElementBetween(a, b, new)
                    => IsNext(row, a, new) /\ IsNext(row, new, b)
               /\ CreateNewConnectedElementAfter(a, new) => IsNext(row, a, new)
               /\ CreateNewConnectedElementBefore(a, new) => IsNext(row, new, a)]_vars

\* Creating an element leaves every segment that has guide curves between its
\* two elements ("Adding sections in wing segments containing guide curves is
\* currently not supported", CCPACSWing.cpp:1435).
GuidedSegmentsStay ==
    [][Len(segments') > Len(segments)
       => \A i \in DOMAIN segments : segments[i].guided => segments[i] \in ToSet(segments')]_vars

ElementRow == INSTANCE ElementOrder WITH order <- GetElementUIDsInOrder(segments)

\* The row of connected elements changes by one element at a time.
ImplementsElementOrder == ElementRow!OrderSpec
=============================================================================
