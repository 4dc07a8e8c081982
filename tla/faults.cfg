SPECIFICATION Spec

CONSTANTS
  MaxTasks = 1
  MaxRevisionAttempts = 1
  UseVerifierWorker = TRUE
  QuestionDecider = TRUE
  MaxUserTurns = 2
  MaxQuestions = 2
  ThreadWorkers = TRUE
  WorkersMayDie = TRUE
  VerifiersMayAsk = TRUE
  VoidReplies = TRUE
  MayRestart = TRUE

 
INVARIANT NeedsUserHasQuestion
INVARIANT EachSubmissionJudgedOnce
INVARIANT EndedTaskHasNoWorker
PROPERTY OnlyLateMessagesReopen

CHECK_DEADLOCK FALSE
