CONSTANTS
    None = None
    EmptyUID = EmptyUID
    fuselage = fuselage
    wing = wing
    segment = segment
    Object <- MCObject
    UID <- MCUID
    Field = {parentUID}
    ParentField = parentUID
    RefValue <- MCRefValue
    Above <- MCAbove
    Blade = {wing}
    Geometric <- MCObject
    Relative <- MCRelative
SPECIFICATION TreeSpec
CHECK_DEADLOCK FALSE
INVARIANTS
    TreeTypeOK
    ContainersMatchRegistry
    ValidTreeIsForest
PROPERTIES
    OpenLinksEveryComponent
