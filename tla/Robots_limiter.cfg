SPECIFICATION Spec
CONSTANTS
    ContinueOnError = FALSE
    Artifacts = {"rpm", "tool", "sdk"}
    OnGoogleStorage = {"sdk"}
    BumpedArtifacts = {"rpm"}
    MaxArtifactVersion = 1
    MaxSourceChanges = 2
    MaxMirrorFailures = 1
INVARIANTS
    ConnectionsAreCut
CHECK_DEADLOCK FALSE
