SPECIFICATION Spec
CONSTANTS
    None = None
    PageSize = 100
    MaxRetests = 2
    Settings <- MCSettings
    MaxItems = 6
    MaxTime = 2
INVARIANTS
    HoldsAreEarned
    GaugeIsExact
PROPERTIES
    ExcessIsHeld
CHECK_DEADLOCK FALSE
