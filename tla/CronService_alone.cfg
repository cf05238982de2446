CONSTANTS
    MaxJobs = 2
    MaxTime = 4
    Period = 2
    Kinds <- AllKinds
    MaxCalls = 3
    MaxCrashes = 1
    MaxForeign = 0
SPECIFICATION FairSpec
INVARIANTS TypeOK TimerCoversJobs
PROPERTIES StartsOnlyLiveJobs RecordedRunsAreFinal DueJobRuns
