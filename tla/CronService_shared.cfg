CONSTANTS
    MaxJobs = 2
    MaxTime = 3
    Period = 1
    Kinds <- TwoKinds
    MaxCalls = 3
    MaxCrashes = 1
    MaxForeign = 2
SPECIFICATION Spec
INVARIANTS CacheIsFresh
PROPERTIES ExternalDisableHonored
