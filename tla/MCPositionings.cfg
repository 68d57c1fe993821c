CONSTANTS
    None = None
    s1 = s1
    s2 = s2
    s3 = s3
    Section <- MCSection
    Order <- MCOrder
    Documents <- MCDocuments
    N = 2
    MaxPositionings = 3
    MaxEdits = 1
SPECIFICATION Spec
CHECK_DEADLOCK FALSE
INVARIANTS
    PositioningsTypeOK
    LoftFollowsPositions
    MovesAreExact
    StandardizedSectionsStay
