------------------------------ MODULE Reordering ------------------------------
(***************************************************************************)
(* What the segments of a wing or fuselage may expect of being put into    *)
(* order: CCPACSWingSegments and CCPACSFuselageSegments, NeedReordering    *)
(* and ReorderSegments.  Each segment leads from one section element to    *)
(* another; in order, each starts where the one before it ends.            *)
(***************************************************************************)
EXTENDS Integers, Sequences

CONSTANTS
    Segment,      \* the segment objects
    Element,      \* the uIDs of section elements
    Connections,  \* what the segments of a document may connect
    Inputs        \* the lists of segments that may have to be ordered

Ends == [from : Element, to : Element]

VARIABLES
    ends,         \* the elements that each segment connects
    list,         \* m_segments
    outcome       \* "pending", "continuous" or "failed", when an error was thrown

contract == <<ends, list, outcome>>

\* segment_follows.
Follows(b, a) == ends[b].from = ends[a].to

ContinuousUpTo(l, n) == \A i \in 1 .. n - 1 : Follows(l[i + 1], l[i])
Continuous(l) == ContinuousUpTo(l, Len(l))

\* The same objects, each once.
Rearranges(l, m) ==
    /\ Len(l) = Len(m)
    /\ \A i, j \in DOMAIN l : l[i] = l[j] => i = j
    /\ \A i \in DOMAIN m : \E j \in DOMAIN l : l[j] = m[i]
    /\ \A j \in DOMAIN l : \E i \in DOMAIN m : l[j] = m[i]

\* The first n segments are in order, and none of the others continues them.
StuckAt(l, n) ==
    /\ n \in 1 .. Len(l) - 1
    /\ ContinuousUpTo(l, n)
    /\ \A i \in n + 1 .. Len(l) : ~Follows(l[i], l[n]) /\ ~Follows(l[1], l[i])

ContractInit ==
    /\ ends \in Connections
    /\ list \in Inputs
    /\ outcome = "pending"

Succeed ==
    /\ outcome = "pending"
    /\ list' \in [DOMAIN list -> Segment]
    /\ Rearranges(list', list)
    /\ Continuous(list')
    /\ outcome' = "continuous"
    /\ UNCHANGED ends

Fail ==
    /\ outcome = "pending"
    /\ list' \in [DOMAIN list -> Segment]
    /\ Rearranges(list', list)
    /\ \E n \in DOMAIN list : StuckAt(list', n)
    /\ outcome' = "failed"
    /\ UNCHANGED ends

ContractNext == Succeed \/ Fail

ContractSpec == ContractInit /\ [][ContractNext]_contract
=============================================================================
