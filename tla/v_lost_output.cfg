SPECIFICATION Spec
CONSTANTS
    Styles = {"function"}
    MaxTurns = 2
    MaxSteps = 2
    MaxCalls = 2
    MaxParallel = 2
    MaxRetries = 1
    RepeatLimit = 2
    MaxRestarts = 1
INVARIANT EveryOutputReachesTheModel
CHECK_DEADLOCK FALSE
