CONSTANTS
    None = None
    Cache = {"place", "clean", "loft", "segment"}
    Thread = {s, t, u}
    Reads <- FuselageReads
    MaxCalls = 3
SPECIFICATION FairSpec
INVARIANTS
    CachesTypeOK
    BuildsAreLocked
    NoCircularWait
PROPERTIES
    OnlyClearEndsValues
    CallsEnd
