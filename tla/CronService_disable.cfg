CONSTANTS
    MaxJobs = 1
    MaxTime = 3
    Period = 1
    Kinds <- TwoKinds
    MaxCalls = 2
    MaxCrashes = 0
    MaxForeign = 0
SPECIFICATION Spec
PROPERTIES DisableKeepsTurn
