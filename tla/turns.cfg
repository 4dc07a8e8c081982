SPECIFICATION Spec
CONSTANTS
    Styles = {"chat", "function"}
    MaxTurns = 2
    MaxSteps = 2
    MaxCalls = 2
    MaxParallel = 2
    MaxRetries = 1
    RepeatLimit = 2
    MaxRestarts = 1
INVARIANTS  OutputsReachTheModel 
PROPERTY TurnEnds
CHECK_DEADLOCK FALSE
