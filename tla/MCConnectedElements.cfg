SPECIFICATION Spec
CONSTANTS
    a = a
    b = b
    c = c
    d = d
    e = e
    Element = {a, b, c, d, e}
    Documents <- MCDocuments
    None = None
SYMMETRY Symmetry
INVARIANTS
    ConnectedTypeOK
    ChainContinuous
    HelperCurrent
PROPERTIES
    SectionsFollowSegments
    InsertedInPlace
    GuidedSegmentsStay
    ImplementsElementOrder
CHECK_DEADLOCK FALSE
