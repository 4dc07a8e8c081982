SPECIFICATION FairSpec

CONSTANTS
  MaxTasks = 1
  MaxRevisionAttempts = 1
  UseVerifierWorker = TRUE
  QuestionDecider = FALSE
  MaxUserTurns = 0
  MaxQuestions = 1
  ThreadWorkers = FALSE
  WorkersMayDie = FALSE
  VerifiersMayAsk = FALSE
  VoidReplies = FALSE
  MayRestart = FALSE

PROPERTY CancelledAsksNothing

CHECK_DEADLOCK FALSE
