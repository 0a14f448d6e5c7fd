SPECIFICATION Spec
CONSTANTS
    None = None
    compute = compute
    network = network
    serial = serial
    Sigs = {compute, network}
    Serial = serial
    FirstMinor = 33
    MaxMinor = 38
    Patiences = {"required", "copied"}
    MaxEdits = 1
INVARIANTS
    TypeOK
PROPERTIES
    GatesHandOver
    SupportedStay
    TriedBeforeRequired
    LatestGates
CHECK_DEADLOCK FALSE
