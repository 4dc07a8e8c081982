SPECIFICATION FairSpec

CONSTANTS
  MaxTasks = 1
  MaxRevisionAttempts = 1
  UseVerifierWorker = TRUE
  QuestionDecider = FALSE
  MaxUserTurns = 1
  MaxQuestions = 0
  ThreadWorkers = FALSE
  WorkersMayDie = FALSE
  VerifiersMayAsk = FALSE
  VoidReplies = FALSE
  MayRestart = FALSE

PROPERTY RevisionEnds

CHECK_DEADLOCK FALSE
