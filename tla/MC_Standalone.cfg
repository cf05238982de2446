CONSTANTS
    KeepRecent = 2
    MaxIterations = 2
    RetryDelays = 1
    MaxTurns = 2
    MaxCalls = 1
    MaxArchives = 2
    MaxErrors = 1
    MaxRestarts = 1
    Items = {1, 2, 3, 4}
    Class <- MCClass
    Text <- MCText
    Levels = {0, 1, 2}
    Floor = 1
    Extract = 2
    Overwrite = 3
    Same = 3
    TopK = 2
    MaxItems <- MCMaxItems
    MaxCases = 2
    Memories = {1, 2, 3, 4, 5}
    Main <- MCMain
    Normal <- MCNormal
    Core = {"profile"}
    Closeness = {0, 1}
    Most = 2
    MostGone = 1
    MaxInputs = 2
    MaxParts = 2
    MaxBackground = 1
    MaxEdits = 2
    MaxCrashes = 1
SPECIFICATION MCSpec
INVARIANTS RequestsAreLegal NothingForgotten EvaluationIsSound CommandLineIsSound
PROPERTIES PromptReturns
CHECK_DEADLOCK FALSE
