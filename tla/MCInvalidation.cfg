CONSTANTS
    None = None
    Object <- Aircraft
    KindOf <- AircraftKind
    Owner <- AircraftOwner
    Named <- AircraftNamed
    Value = {0, 1}
    Default = 0
    Editable = {"bodyPlace", "airfoil", "duct", "ducts", "wing"}
    Replaced = {"fuselage"}
    Unread = {"boundingBox"}
SPECIFICATION Spec
INVARIANTS
    InvalidationTypeOK
    ShapesFollowDefinitions
    InputsStayCached
