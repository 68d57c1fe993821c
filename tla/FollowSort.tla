------------------------------ MODULE FollowSort ------------------------------
(***************************************************************************)
(* follow_sort, as ReadCPACS of the segments of a wing, pylon or fuselage  *)
(* calls it through ReorderSegments.  The sorted part of the array grows   *)
(* at both of its ends while the array is scanned, so the scan may pass a  *)
(* segment that fits only later; passes are repeated until one adds none.  *)
(* Positions count from 1.                                                 *)
(***************************************************************************)
EXTENDS Integers, Sequences

CONSTANTS
    Segment,      \* the segment objects
    Element,      \* the uIDs of section elements
    Connections,  \* what the segments of a document may connect
    Inputs        \* the lists of segments that documents may define

VARIABLES
    ends,         \* the elements that each segment connects
    input,        \* history: the list as it was read
    list,         \* the array
    sorted,       \* the last position of the sorted part
    it,           \* the position that is looked at
    swapped,      \* whether this pass added a segment
    pc            \* "read", "scan", "done" or "thrown"

vars == <<ends, input, list, sorted, it, swapped, pc>>

\* The list is what the caller sees: before and after, but not in between.
Contract == INSTANCE Reordering WITH
    list    <- IF pc \in {"read", "scan"} THEN input ELSE list,
    outcome <- CASE pc = "done" -> "continuous"
                 [] pc = "thrown" -> "failed"
                 [] OTHER -> "pending"

ASSUME InputAssumption ==
    /\ Connections \subseteq [Segment -> Contract!Ends]
    /\ \A l \in Inputs : /\ l \in Seq(Segment)
                         /\ \A i, j \in DOMAIN l : l[i] = l[j] => i = j

Follows(b, a) == Contract!Follows(b, a)
Continuous(l) == Contract!Continuous(l)

FollowSortTypeOK ==
    /\ ends \in Connections
    /\ input \in Inputs
    /\ list \in [DOMAIN input -> Segment]
    /\ sorted \in 1 .. Len(list) + 1
    /\ it \in 2 .. Len(list) + 2
    /\ swapped \in BOOLEAN
    /\ pc \in {"read", "scan", "done", "thrown"}

Init ==
    /\ ends \in Connections
    /\ input \in Inputs
    /\ list = input
    /\ sorted = 1
    /\ it = 2
    /\ swapped = FALSE
    /\ pc = "read"

-----------------------------------------------------------------------------

\* Mutant: one of the two is lost.
Overwritten(l, i, j) == [l EXCEPT ![j] = l[i]]

Exchanged(l, i, j) == [l EXCEPT ![i] = l[j], ![j] = l[i]]

\* Mutant: the ends are exchanged, what is between stays.
EndsExchanged(l, n) ==
    [i \in DOMAIN l |-> IF i = 1 THEN l[n] ELSE IF i = n THEN l[1] ELSE l[i]]

\* rotate_right: entry n goes to the front, those before it one place back.
Rotated(l, n) ==
    [i \in DOMAIN l |-> IF i = 1 THEN l[n] ELSE IF i <= n THEN l[i - 1] ELSE l[i]]

\* Mutant: only the last pair counts.
LastPairInOrder == Len(list) > 1 /\ ~Follows(list[Len(list)], list[Len(list) - 1])

NeedReordering == Len(list) > 1 /\ ~Continuous(list)

\* ReadCPACS, after the segments themselves were read.
ReadCPACS ==
    /\ pc = "read"
    /\ pc' = IF NeedReordering THEN "scan" ELSE "done"
    /\ UNCHANGED <<ends, input, list, sorted, it, swapped>>

Scanning == pc = "scan" /\ it <= Len(list)

\* The segment continues the sorted part at its end.
Extend ==
    /\ Scanning
    /\ Follows(list[it], list[sorted])
    /\ sorted' = sorted + 1
    /\ list' = Exchanged(list, it, sorted + 1)
    /\ swapped' = TRUE
    /\ it' = it + 1
    /\ UNCHANGED <<ends, input, pc>>

\* Mutant: the pass does not count as one that added a segment.
PrependUnnoticed ==
    /\ Scanning
    /\ ~Follows(list[it], list[sorted])
    /\ Follows(list[1], list[it])
    /\ sorted' = sorted + 1
    /\ list' = Rotated(Exchanged(list, it, sorted + 1), sorted + 1)
    /\ it' = it + 1
    /\ UNCHANGED <<ends, input, swapped, pc>>

\* It continues the sorted part at its start.
Prepend ==
    /\ Scanning
    /\ ~Follows(list[it], list[sorted])
    /\ Follows(list[1], list[it])
    /\ sorted' = sorted + 1
    /\ list' = Rotated(Exchanged(list, it, sorted + 1), sorted + 1)
    /\ swapped' = TRUE
    /\ it' = it + 1
    /\ UNCHANGED <<ends, input, pc>>

Pass ==
    /\ Scanning
    /\ ~Follows(list[it], list[sorted])
    /\ ~Follows(list[1], list[it])
    /\ it' = it + 1
    /\ UNCHANGED <<ends, input, list, sorted, swapped, pc>>

\* Mutant: starts over at the first entry.
NextPassFromBegin ==
    /\ pc = "scan"
    /\ it > Len(list)
    /\ swapped
    /\ swapped' = FALSE
    /\ it' = 1
    /\ UNCHANGED <<ends, input, list, sorted, pc>>

\* Mutant: the flag is set once and never reset.
NextPassUnreset ==
    /\ pc = "scan"
    /\ it > Len(list)
    /\ swapped
    /\ it' = sorted + 1
    /\ UNCHANGED <<ends, input, list, sorted, swapped, pc>>

NextPass ==
    /\ pc = "scan"
    /\ it > Len(list)
    /\ swapped
    /\ swapped' = FALSE
    /\ it' = sorted + 1
    /\ UNCHANGED <<ends, input, list, sorted, pc>>

\* Mutant: off by one.
FinishShort ==
    /\ pc = "scan"
    /\ it > Len(list)
    /\ ~swapped
    /\ pc' = IF sorted + 1 = Len(list) THEN "done" ELSE "thrown"
    /\ UNCHANGED <<ends, input, list, sorted, it, swapped>>

Finish ==
    /\ pc = "scan"
    /\ it > Len(list)
    /\ ~swapped
    /\ pc' = IF sorted = Len(list) THEN "done" ELSE "thrown"
    /\ UNCHANGED <<ends, input, list, sorted, it, swapped>>

Next == ReadCPACS \/ Extend \/ Prepend \/ Pass \/ NextPass \/ Finish

\* Nothing else runs while the segments are sorted.
Spec == Init /\ [][Next]_vars /\ WF_vars(Next)

-----------------------------------------------------------------------------
(* Safety.                                                                 *)

\* The part that counts as sorted is in order at every step of the scan, although
\* it grows at both ends and entries are exchanged across its boundary.
PrefixContinuous ==
    pc = "scan" => sorted < it /\ Contract!ContinuousUpTo(list, sorted)

\* Exchanging and rotating loses no segment and duplicates none.
NothingLost == Contract!Rearranges(list, input)

\* What the scan passed in a pass that added nothing yet does not fit at either
\* end, so it is right to stop after such a pass.
PassedSegmentsDoNotFit ==
    pc = "scan" /\ ~swapped =>
        \A i \in sorted + 1 .. it - 1 :
            ~Follows(list[i], list[sorted]) /\ ~Follows(list[1], list[i])

\* No two segments start, or end, at the same element.
Unambiguous ==
    \A i, j \in DOMAIN input :
        \/ ends[input[i]].from = ends[input[j]].from
        \/ ends[input[i]].to = ends[input[j]].to
        => i = j

\* An error is thrown only if there is no order: the segments of one chain, in
\* whatever order they are read, are sorted.
ChainsAreSorted ==
    pc = "thrown" /\ Unambiguous =>
        ~\E order \in [DOMAIN input -> DOMAIN input] :
            LET chain == [i \in DOMAIN input |-> input[order[i]]]
            IN Contract!Rearranges(chain, input) /\ Continuous(chain)

\* The caller sees one step: the same segments in order, or an error and the same
\* segments in an order that none of those behind the sorted part continues.
ImplementsContract == Contract!ContractSpec

\* The passes come to an end: each that adds nothing is the last.
SortingEnds == <>(pc \in {"done", "thrown"})
=============================================================================
