SPECIFICATION Spec
CONSTANTS
    ContinueOnError = TRUE
    Artifacts = {"rpm", "tool", "sdk"}
    OnGoogleStorage = {"sdk"}
    BumpedArtifacts = {"rpm"}
    MaxArtifactVersion = 1
    MaxSourceChanges = 2
    MaxMirrorFailures = 1
INVARIANTS
    CopiesExist
CHECK_DEADLOCK FALSE
