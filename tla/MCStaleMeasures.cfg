CONSTANTS
    None = None
    Object <- Aircraft
    KindOf <- AircraftKind
    Owner <- AircraftOwner
    Named <- AircraftNamed
    Value = {0, 1}
    Default = 0
    Editable = {"bodyPlace"}
    Replaced = {}
    Unread = {}
SPECIFICATION Spec
INVARIANT
    MeasuresFollowDefinitions
