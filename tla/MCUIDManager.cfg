CONSTANTS
    None = None
    wing = wing
    segment = segment
    element = element
    Object <- MCObject
    UID <- MCUID
    Field = {from, to}
    RefValue <- MCRefValue
    Above <- MCAbove
    Blade = {}
SPECIFICATION Spec
CHECK_DEADLOCK FALSE
INVARIANTS
    TypeOK
    RegistryMatchesObjects
    CountsBackedByFields
PROPERTIES
    ReferencesKeepTheirMeaning
