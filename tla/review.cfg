SPECIFICATION Spec

CONSTANTS
  MaxTasks = 1
  MaxRevisionAttempts = 1
  UseVerifierWorker = TRUE
  QuestionDecider = TRUE
  MaxUserTurns = 2
  MaxQuestions = 2
  ThreadWorkers = TRUE
  WorkersMayDie = FALSE
  VerifiersMayAsk = FALSE
  VoidReplies = FALSE
  MayRestart = FALSE

INVARIANT RevisionIsWorkedOn
INVARIANT AskerCanBeAnswered

CHECK_DEADLOCK FALSE
