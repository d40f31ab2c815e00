SPECIFICATION Spec
CONSTANTS
    None = None
    Calls = {"c1", "c2", "c3"}
    MaxCalls = 5
INVARIANTS
    UploadIsDurable
    NoOrphanedBytes
    OtherTenantsFindNothing
    CalmGoneAfterDelete
    ArtifactIsWhole
CHECK_DEADLOCK FALSE
