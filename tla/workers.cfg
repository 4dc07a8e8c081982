SPECIFICATION MCSpec
CONSTANTS
    MaxCommands = 3
    MaxAsks = 1
    MaxTimeouts = 1
    MaxMessages = 2
    MaxTexts = 2
    Streaming = TRUE
    MaxRetries = 1
    MaxSteps = 2
    MaxPieces = 1
INVARIANTS EveryCommandIsSomewhere  
           AnswerMeansTheTurnIsOver AnswerIsOneResponse
PROPERTIES  WorkerEnds FinishedTurnIsReported TurnIsAnswered
CHECK_DEADLOCK FALSE
