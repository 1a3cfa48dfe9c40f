SPECIFICATION FairSpec

CONSTANTS
    r1 = r1
    r2 = r2
    Readers = {r1, r2}
    Ops = {"op1", "op2"}
    Moving = {"op1"}
    Scope <- MCScope
    Requests <- MCRequests
    Statuses <- MCStatuses
    Previews <- MCPreviews
    Sources <- MCSources
    Manifests = {"m1", "m2"}
    Modes = {"oidc", "oidcTenantWide", "fixture"}
    Skew = 1
    maxPreviewArtifact = 2097152
    maxSourceArchive = 16777216
    MaxTime = 2
    Unset = Unset

INVARIANTS
    ServedIsRecorded
    ServedInScope
    ServedWasEntitled
    AlarmIsHonest
    LocksAgree

PROPERTIES
    EveryReadAnswered

CHECK_DEADLOCK FALSE
