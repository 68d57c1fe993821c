CONSTANTS
    g1 = g1
    g2 = g2
    g3 = g3
    g4 = g4
    Segment <- MCSegment
    Element <- MCElement
    Connections <- MCConnections
    Inputs <- MCInputs
SPECIFICATION Spec
CHECK_DEADLOCK FALSE
INVARIANTS
    FollowSortTypeOK
    PrefixContinuous
    NothingLost
    PassedSegmentsDoNotFit
    ChainsAreSorted
PROPERTIES
    ImplementsContract
    SortingEnds
