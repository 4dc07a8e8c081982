SPECIFICATION FairSpec

CONSTANTS
  MaxTasks = 2
  MaxRevisionAttempts = 2
  UseVerifierWorker = TRUE
  QuestionDecider = FALSE
  MaxUserTurns = 0
  MaxQuestions = 0
  ThreadWorkers = FALSE
  WorkersMayDie = FALSE
  VerifiersMayAsk = FALSE
  VoidReplies = FALSE
  MayRestart = FALSE

INVARIANT NoTaskWaitsAlone
PROPERTY ReviewEnds
PROPERTY QueuedTaskGetsItsTurn

CHECK_DEADLOCK FALSE
