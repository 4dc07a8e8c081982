------------------------ MODULE TaskCoordinatorProofs ------------------------
(***************************************************************************)
(* Theorems about TaskCoordinator, for every value of its constants.       *)
(***************************************************************************)
EXTENDS TaskCoordinator, TLAPS

\* Withdrawing pending questions keeps a box a sequence of question statuses.
LEMMA CancelPendingType ==
  ASSUME NEW box \in Seq(MailStatuses)
  PROVE  CancelPending(box) \in Seq(MailStatuses)
  BY DEF CancelPending, MailStatuses

\* Draining keeps an inbox a sequence of commands.
LEMMA DrainedType ==
  ASSUME NEW box \in Seq(Commands)
  PROVE  Drained(box) \in Seq(Commands)
  BY DEF Drained, Commands

\* A command that is sent leaves every inbox a sequence of commands.
LEMMA DeliverType ==
  ASSUME TypeOK, NEW t \in Tasks, NEW command \in Commands
  PROVE  Deliver(t, command) \in [Tasks -> Seq(Commands)]
  BY DEF Deliver, TypeOK

\* What a cancelled worker still writes are events.
LEMMA FarewellsType ==
  ASSUME NEW t \in Tasks, NEW f \in Farewells(t)
  PROVE  f \in Seq(EventKinds)
<1>1. f \in {<<>>, <<"failed">>, <<"cancelled">>, <<"completed", "cancelled">>,
             <<"question", "failed">>}
  BY Zenon DEF Farewells
<1>2. /\ <<>> \in Seq(EventKinds)
      /\ <<"failed">> \in Seq(EventKinds)
      /\ <<"cancelled">> \in Seq(EventKinds)
      /\ <<"completed", "cancelled">> \in Seq(EventKinds)
      /\ <<"question", "failed">> \in Seq(EventKinds)
  BY DEF EventKinds
<1>3. QED
  BY <1>1, <1>2

\* Clearing the current task leaves a task number, or 0.
LEMMA ClearCurrentType ==
  ASSUME TypeOK, NEW t, NEW S, ClearCurrentIf(t, S)
  PROVE  current' \in 0..MaxTasks
  BY DEF ClearCurrentIf, LastActive, TypeOK

\* Starting a waiting task, or none, keeps the types of what a handler passes.
LEMMA TryStartType ==
  ASSUME NEW S \in [Tasks -> Statuses], NEW C \in [Tasks -> SUBSET Tasks],
         NEW W \in SUBSET Tasks, NEW P \in [Tasks -> ProcStates],
         TryStartWaiting(S, C, W, P)
  PROVE  /\ status' \in [Tasks -> Statuses]
         /\ conflicts' \in [Tasks -> SUBSET Tasks]
         /\ workers' \in SUBSET Tasks
         /\ proc' \in [Tasks -> ProcStates]
<1>1. "running" \in Statuses /\ "busy" \in ProcStates
  BY DEF Statuses, ActiveStatuses, ProcStates
<1>2. CASE Startable(S, C) = {} /\ status' = S /\ conflicts' = C /\ workers' = W /\ proc' = P
  BY <1>2
<1>3. ASSUME NEW w \in Startable(S, C),
             status' = [S EXCEPT ![w] = "running"],
             conflicts' = [C EXCEPT ![w] = {}],
             workers' = W \cup {w},
             proc' = [P EXCEPT ![w] = "busy"]
      PROVE  /\ status' \in [Tasks -> Statuses]
             /\ conflicts' \in [Tasks -> SUBSET Tasks]
             /\ workers' \in SUBSET Tasks
             /\ proc' \in [Tasks -> ProcStates]
  BY <1>1, <1>3 DEF Startable
<1>4. QED
  BY <1>2, <1>3 DEF TryStartWaiting
-----------------------------------------------------------------------------
(***************************************************************************)
(* Type correctness.                                                       *)
(***************************************************************************)

\* TypeOK without what is saved on disk.
MemoryOK ==
  /\ added \in 0..MaxTasks
  /\ status \in [Tasks -> Statuses]
  /\ overlaps \in [Tasks -> SUBSET Tasks]
  /\ conflicts \in [Tasks -> SUBSET Tasks]
  /\ attempts \in [Tasks -> Nat]
  /\ subs \in [Tasks -> Nat]
  /\ current \in 0..MaxTasks
  /\ workers \in SUBSET Tasks
  /\ threads \in SUBSET Tasks
  /\ verifiers \in SUBSET Verifiers
  /\ silent \in SUBSET Verifiers
  /\ mail \in [Tasks -> Seq(MailStatuses)]
  /\ eventLoop \in BOOLEAN
  /\ proc \in [Tasks -> ProcStates]
  /\ inbox \in [Tasks -> Seq(Commands)]
  /\ answer \in [Tasks -> {"none", "usable", "void"}]
  /\ events \in [Tasks -> Seq(EventKinds)]
  /\ turns \in Nat

\* What is saved on disk is the only part of the state that saving touches.
LEMMA TypeSplit == TypeOK <=> MemoryOK /\ disk \in DiskImage
  BY DEF TypeOK, MemoryOK

\* Saving, or leaving the files alone, keeps them well-typed.
LEMMA PersistType ==
  ASSUME TypeOK, MemoryOK',
         Persist \/ PersistUnlessAborted \/ UNCHANGED disk
  PROVE  TypeOK'
<1>1. CASE Persist
  <2>1. disk' \in DiskImage
    BY <1>1 DEF Persist, DiskImage, MemoryOK
  <2>2. QED
    BY <2>1 DEF TypeOK, MemoryOK
<1>2. CASE UNCHANGED disk
  BY <1>2 DEF TypeOK, MemoryOK
<1>3. QED
  BY <1>1, <1>2 DEF PersistUnlessAborted

\* The initial state is well-typed.
LEMMA InitType == Init => TypeOK
  BY ConstantsAssumption
  DEF Init, TypeOK, DiskImage, Statuses, ProcStates

\* A new task, or a promoted turn, keeps the types.
LEMMA StartNewTaskType ==
  ASSUME TypeOK, NEW isThread \in BOOLEAN, StartNewTask(isThread)
  PROVE  TypeOK'
<1>1. MemoryOK'
  BY DEF StartNewTask, TypeOK, MemoryOK, Tasks, Statuses, ActiveStatuses, ProcStates
<1>2. QED
  BY <1>1, PersistType DEF StartNewTask

\* Queuing a task keeps the types.
LEMMA QueueTaskType ==
  ASSUME TypeOK, NEW C \in SUBSET (1..added), QueueTask(C)
  PROVE  TypeOK'
<1>1. C \in SUBSET Tasks
  BY ConstantsAssumption DEF TypeOK, Tasks
<1>2. added' \in 0..MaxTasks /\ current' \in 0..MaxTasks
  BY ConstantsAssumption DEF QueueTask, TypeOK, Tasks
<1>3. status' \in [Tasks -> Statuses]
  BY DEF QueueTask, TypeOK, Statuses, ActiveStatuses
<1>4. overlaps' \in [Tasks -> SUBSET Tasks] /\ conflicts' \in [Tasks -> SUBSET Tasks]
  BY <1>1 DEF QueueTask, TypeOK
<1>5. MemoryOK'
  BY <1>2, <1>3, <1>4 DEF QueueTask, TypeOK, MemoryOK, peerVars, workVars
<1>6. QED
  BY <1>5, PersistType DEF QueueTask

\* A message to a worker keeps the types.
LEMMA AttachToTaskType ==
  ASSUME TypeOK, NEW t \in Tasks, AttachToTask(t)
  PROVE  TypeOK'
<1>1. inbox' \in [Tasks -> Seq(Commands)]
  BY DeliverType DEF AttachToTask, Commands
<1>2. MemoryOK'
  BY <1>1 DEF AttachToTask, TypeOK, MemoryOK, boardVars, peerVars
<1>3. QED
  BY <1>2, PersistType DEF AttachToTask

\* The user's decision on a task keeps the types.
LEMMA TalkDecisionType ==
  ASSUME TypeOK, NEW t \in Tasks, TalkDecision(t)
  PROVE  TypeOK'
<1>1. inbox' \in [Tasks -> Seq(Commands)]
  BY DeliverType DEF TalkDecision, Commands, TypeOK
<1>2. status' \in [Tasks -> Statuses]
  BY DEF TalkDecision, TypeOK, Statuses, ActiveStatuses
<1>3. MemoryOK'
  BY <1>1, <1>2 DEF TalkDecision, TypeOK, MemoryOK, peerVars
<1>4. Persist \/ UNCHANGED disk
  BY DEF TalkDecision
<1>5. QED
  BY <1>3, <1>4, PersistType

\* An answer to a question keeps the types.
LEMMA ReplyMailboxType ==
  ASSUME TypeOK, NEW t \in Tasks, NEW k \in DOMAIN mail[t],
         NEW reply \in {"usable", "void"}, ReplyMailbox(t, k, reply)
  PROVE  TypeOK'
<1>1. mail' \in [Tasks -> Seq(MailStatuses)]
  BY DEF ReplyMailbox, TypeOK, MailStatuses
<1>2. StatusAfterReply(t, k) \in [Tasks -> Statuses]
  BY DEF StatusAfterReply, TypeOK, Statuses, ActiveStatuses
<1>3. AnswerSent(t, reply) \in [Tasks -> {"none", "usable", "void"}]
  BY DEF AnswerSent, TypeOK
<1>4. MemoryOK'
  BY <1>1, <1>2, <1>3 DEF ReplyMailbox, TypeOK, MemoryOK
<1>5. QED
  BY <1>4, PersistType DEF ReplyMailbox

\* Withdrawing questions, dropping verifiers and the last words of the workers.
LEMMA CancelTasksType ==
  ASSUME TypeOK, NEW T \in SUBSET Tasks, CancelTasks(T)
  PROVE  /\ events' \in [Tasks -> Seq(EventKinds)]
         /\ mail' \in [Tasks -> Seq(MailStatuses)]
         /\ verifiers' \in SUBSET Verifiers
         /\ silent' \in SUBSET Verifiers
         /\ Gone(T) \in [Tasks -> ProcStates]
         /\ Cancelled(T) \in [Tasks -> Statuses]
<1>1. events' \in [Tasks -> Seq(EventKinds)]
  <2>1. PICK f \in [T -> LastWords] :
          /\ \A t \in T : f[t] \in Farewells(t)
          /\ events' = [t \in Tasks |-> IF t \in T THEN events[t] \o f[t]
                                                  ELSE events[t]]
    BY DEF CancelTasks
  <2>2. \A t \in T : f[t] \in Seq(EventKinds)
    BY <2>1, FarewellsType
  <2>3. QED
    BY <2>1, <2>2 DEF TypeOK
<1>2. mail' \in [Tasks -> Seq(MailStatuses)]
  BY CancelPendingType DEF CancelTasks, TypeOK
<1>3. verifiers' \in SUBSET Verifiers /\ silent' \in SUBSET Verifiers
  BY DEF CancelTasks, Spared, TypeOK
<1>4. Gone(T) \in [Tasks -> ProcStates]
  BY DEF Gone, TypeOK, ProcStates
<1>5. Cancelled(T) \in [Tasks -> Statuses]
  BY DEF Cancelled, TypeOK, Statuses, TerminalStatuses
<1>6. QED
  BY <1>1, <1>2, <1>3, <1>4, <1>5

\* Cancelling tasks keeps the types.
LEMMA CancelAndStartNextType ==
  ASSUME TypeOK, NEW T \in SUBSET Tasks, CancelAndStartNext(T)
  PROVE  TypeOK'
<1>1. /\ events' \in [Tasks -> Seq(EventKinds)]
      /\ mail' \in [Tasks -> Seq(MailStatuses)]
      /\ verifiers' \in SUBSET Verifiers
      /\ silent' \in SUBSET Verifiers
      /\ Gone(T) \in [Tasks -> ProcStates]
      /\ Cancelled(T) \in [Tasks -> Statuses]
  BY CancelTasksType DEF CancelAndStartNext
<1>2. TryStartWaiting(Cancelled(T), conflicts, workers, Gone(T))
  BY DEF CancelAndStartNext
<1>3. /\ status' \in [Tasks -> Statuses]
      /\ conflicts' \in [Tasks -> SUBSET Tasks]
      /\ workers' \in SUBSET Tasks
      /\ proc' \in [Tasks -> ProcStates]
  BY <1>1, <1>2, TryStartType DEF TypeOK
<1>4. current' \in 0..MaxTasks
  BY DEF CancelAndStartNext, LastActive, TypeOK
<1>5. MemoryOK'
  BY <1>1, <1>3, <1>4 DEF CancelAndStartNext, TypeOK, MemoryOK
<1>6. QED
  BY <1>5, PersistType DEF CancelAndStartNext

\* Replacing a task by a new one keeps the types.
LEMMA CancelAndRestartType ==
  ASSUME TypeOK, NEW t \in Tasks, CancelAndRestart(t)
  PROVE  TypeOK'
<1>1. /\ events' \in [Tasks -> Seq(EventKinds)]
      /\ mail' \in [Tasks -> Seq(MailStatuses)]
      /\ verifiers' \in SUBSET Verifiers
      /\ silent' \in SUBSET Verifiers
      /\ Gone({t}) \in [Tasks -> ProcStates]
      /\ Cancelled({t}) \in [Tasks -> Statuses]
  BY CancelTasksType DEF CancelAndRestart
<1>2. /\ status' \in [Tasks -> Statuses]
      /\ proc' \in [Tasks -> ProcStates]
  BY <1>1 DEF CancelAndRestart, Statuses, ActiveStatuses, ProcStates
<1>3. /\ added' \in 0..MaxTasks
      /\ current' \in 0..MaxTasks
      /\ workers' \in SUBSET Tasks
  BY ConstantsAssumption DEF CancelAndRestart, TypeOK, Tasks
<1>4. MemoryOK'
  BY <1>1, <1>2, <1>3 DEF CancelAndRestart, TypeOK, MemoryOK
<1>5. QED
  BY <1>4, PersistType DEF CancelAndRestart

\* The variables a review or the end of a task may change.
JudgedOK ==
  /\ status \in [Tasks -> Statuses]
  /\ conflicts \in [Tasks -> SUBSET Tasks]
  /\ attempts \in [Tasks -> Nat]
  /\ current \in 0..MaxTasks
  /\ workers \in SUBSET Tasks
  /\ proc \in [Tasks -> ProcStates]
  /\ inbox \in [Tasks -> Seq(Commands)]
  /\ eventLoop \in BOOLEAN

\* Giving one task a status keeps the types.
LEMMA SetStatusType ==
  ASSUME TypeOK, NEW t \in Tasks, NEW s \in Statuses
  PROVE  SetStatus(t, s) \in [Tasks -> Statuses]
  BY DEF SetStatus, TypeOK

\* The end of a handler keeps the types of what it is given.
LEMMA SettleType ==
  ASSUME TypeOK, NEW S \in [Tasks -> Statuses], NEW W \in SUBSET Tasks, Settle(S, W)
  PROVE  /\ status' \in [Tasks -> Statuses]
         /\ conflicts' \in [Tasks -> SUBSET Tasks]
         /\ workers' \in SUBSET Tasks
         /\ proc' \in [Tasks -> ProcStates]
         /\ eventLoop' \in BOOLEAN
  BY TryStartType DEF Settle, TypeOK

\* Accepting a submission keeps the types.
LEMMA AcceptType ==
  ASSUME TypeOK, NEW t \in Tasks, Accept(t)
  PROVE  JudgedOK'
<1>1. SetStatus(t, "accepted") \in [Tasks -> Statuses]
  BY SetStatusType DEF Statuses, TerminalStatuses
<1>2. CASE AbortHandler(SetStatus(t, "accepted"))
  BY <1>1, <1>2 DEF Accept, AbortHandler, JudgedOK, TypeOK
<1>3. CASE /\ inbox' = Deliver(t, "accepted")
           /\ ClearCurrentIf(t, SetStatus(t, "accepted"))
           /\ Settle(SetStatus(t, "accepted"), Drop(t))
  <2>1. inbox' \in [Tasks -> Seq(Commands)]
    BY <1>3, DeliverType DEF Commands
  <2>2. current' \in 0..MaxTasks
    BY <1>3, ClearCurrentType
  <2>3. Drop(t) \in SUBSET Tasks
    BY DEF Drop, TypeOK
  <2>4. QED
    BY <1>1, <1>3, <2>1, <2>2, <2>3, SettleType DEF Accept, JudgedOK, TypeOK
<1>4. QED
  BY <1>2, <1>3 DEF Accept

\* Sending a submission back keeps the types.
LEMMA ReviseType ==
  ASSUME TypeOK, NEW t \in Tasks, Revise(t)
  PROVE  JudgedOK'
<1>1. /\ SetStatus(t, Refused) \in [Tasks -> Statuses]
      /\ Escalate(t) \in [Tasks -> Statuses]
      /\ SetStatus(t, "needs_revision") \in [Tasks -> Statuses]
  <2>1. Refused \in Statuses
    BY DEF Refused, Statuses, ActiveStatuses, TerminalStatuses
  <2>2. "needs_user_decision" \in Statuses /\ "needs_revision" \in Statuses
    BY DEF Statuses, ActiveStatuses
  <2>3. QED
    BY <2>1, <2>2, SetStatusType DEF Escalate
<1>2. workers \in SUBSET Tasks
  BY DEF TypeOK
<1>3. CASE /\ ClearCurrentIf(t, SetStatus(t, Refused))
           /\ Settle(SetStatus(t, Refused), workers)
           /\ UNCHANGED <<attempts, inbox>>
  <2>1. current' \in 0..MaxTasks
    BY <1>3, ClearCurrentType
  <2>2. QED
    BY <1>1, <1>2, <1>3, <2>1, SettleType DEF JudgedOK, TypeOK
<1>4. CASE /\ Settle(Escalate(t), workers)
           /\ UNCHANGED <<attempts, inbox, current>>
  BY <1>1, <1>2, <1>4, SettleType DEF JudgedOK, TypeOK
<1>5. CASE attempts' = [attempts EXCEPT ![t] = @ + 1]
  <2>1. attempts' \in [Tasks -> Nat]
    BY <1>5 DEF TypeOK
  <2>2. CASE /\ Settle(Escalate(t), workers)
             /\ UNCHANGED <<inbox, current>>
    BY <1>1, <1>2, <2>1, <2>2, SettleType DEF JudgedOK, TypeOK
  <2>3. CASE AbortHandler(SetStatus(t, "needs_revision"))
    BY <1>1, <2>1, <2>3 DEF AbortHandler, JudgedOK, TypeOK
  <2>4. CASE /\ inbox' = Deliver(t, "feedback")
             /\ Settle(SetStatus(t, "needs_revision"), workers)
             /\ UNCHANGED current
    <3>1. inbox' \in [Tasks -> Seq(Commands)]
      BY <2>4, DeliverType DEF Commands
    <3>2. QED
      BY <1>1, <1>2, <2>1, <2>4, <3>1, SettleType DEF JudgedOK, TypeOK
  <2>5. CASE \/ Settle(Escalate(t), workers) /\ UNCHANGED <<attempts, inbox, current>>
             \/ /\ ClearCurrentIf(t, SetStatus(t, Refused))
                /\ Settle(SetStatus(t, Refused), workers)
                /\ UNCHANGED <<attempts, inbox>>
    BY <1>3, <1>4, <2>5
  <2>6. QED
    BY <2>2, <2>3, <2>4, <2>5 DEF Revise
<1>6. QED
  BY <1>3, <1>4, <1>5 DEF Revise

\* A verdict keeps the types.
LEMMA HandleVerdictType ==
  ASSUME TypeOK, NEW v \in verifiers, NEW verdict, HandleVerdict(v, verdict)
  PROVE  TypeOK'
<1> DEFINE t == v.task
<1>1. t \in Tasks
  BY DEF TypeOK, Verifiers
<1>2. verifiers' \in SUBSET Verifiers
  BY DEF HandleVerdict, Retire, TypeOK
<1>3. Escalate(t) \in [Tasks -> Statuses]
  BY <1>1, SetStatusType DEF Escalate, Statuses, ActiveStatuses
<1>4. workers \in SUBSET Tasks
  BY DEF TypeOK
<1>5. JudgedOK'
  <2>1. CASE Accept(t)
    BY <1>1, <2>1, AcceptType
  <2>2. CASE Revise(t)
    BY <1>1, <2>2, ReviseType
  <2>3. CASE /\ ClearCurrentIf(t, Escalate(t))
             /\ Settle(Escalate(t), workers)
             /\ UNCHANGED <<attempts, inbox>>
    <3>1. current' \in 0..MaxTasks
      BY <2>3, ClearCurrentType
    <3>2. QED
      BY <1>3, <1>4, <2>3, <3>1, SettleType DEF JudgedOK, TypeOK
  <2>4. CASE /\ status' = Escalate(t)
             /\ UNCHANGED <<attempts, inbox, current, conflicts, workers, proc, eventLoop>>
    BY <1>3, <2>4 DEF JudgedOK, TypeOK
  <2>5. QED
    BY <2>1, <2>2, <2>3, <2>4 DEF HandleVerdict
<1>6. MemoryOK'
  BY <1>2, <1>5 DEF HandleVerdict, JudgedOK, MemoryOK, TypeOK
<1>7. QED
  BY <1>6, PersistType DEF HandleVerdict

\* A verifier that stalls keeps the types.
LEMMA VerifierStallsType ==
  ASSUME TypeOK, NEW v \in verifiers, VerifierStalls(v)
  PROVE  TypeOK'
<1>1. MemoryOK'
  BY DEF VerifierStalls, TypeOK, MemoryOK, boardVars, workVars
<1>2. QED
  BY <1>1, PersistType DEF VerifierStalls

\* Taking the oldest event of a worker leaves the other events.
LEMMA TakeType ==
  ASSUME TypeOK, NEW t \in Tasks, NEW kind, Take(t, kind)
  PROVE  events' \in [Tasks -> Seq(EventKinds)]
  BY DEF Take, TypeOK

\* The handler of a worker event keeps the types.
LEMMA HandleEventType ==
  ASSUME TypeOK, NEW t \in Tasks, HandleEvent(t)
  PROVE  TypeOK'
<1>1. ASSUME NEW kind \in LateKinds, HandleLateEvent(t, kind)
      PROVE  TypeOK'
  <2>1. MemoryOK'
    BY <1>1, TakeType DEF HandleLateEvent, TypeOK, MemoryOK, boardVars, peerVars
  <2>2. QED
    BY <1>1, <2>1, PersistType DEF HandleLateEvent
<1>2. CASE HandleQuestion(t)
  <2>1. /\ events' \in [Tasks -> Seq(EventKinds)]
        /\ mail' \in [Tasks -> Seq(MailStatuses)]
        /\ status' \in [Tasks -> Statuses]
    BY <1>2, TakeType
    DEF HandleQuestion, TypeOK, MailStatuses, SetStatus, Statuses, ActiveStatuses
  <2>2. MemoryOK'
    BY <1>2, <2>1 DEF HandleQuestion, TypeOK, MemoryOK
  <2>3. QED
    BY <1>2, <2>2, PersistType DEF HandleQuestion
<1>3. CASE HandleQuestionByNote(t)
  <2>1. /\ events' \in [Tasks -> Seq(EventKinds)]
        /\ mail' \in [Tasks -> Seq(MailStatuses)]
    BY <1>3, TakeType DEF HandleQuestionByNote, TypeOK, MailStatuses
  <2>2. /\ status' = status
        /\ answer' \in [Tasks -> {"none", "usable", "void"}]
        /\ UNCHANGED <<conflicts, workers, proc, current, inbox>>
        /\ eventLoop' \in BOOLEAN
    BY <1>3 DEF HandleQuestionByNote, AbortHandler, AnswerSent, TypeOK
  <2>3. MemoryOK'
    BY <1>3, <2>1, <2>2 DEF HandleQuestionByNote, TypeOK, MemoryOK
  <2>4. QED
    BY <1>3, <2>3, PersistType DEF HandleQuestionByNote
<1>4. CASE HandleCompleted(t)
  <2>1. /\ events' \in [Tasks -> Seq(EventKinds)]
        /\ subs' \in [Tasks -> Nat]
    BY <1>4, TakeType DEF HandleCompleted, TypeOK
  <2>2. verifiers' \in SUBSET Verifiers
    BY <1>4 DEF HandleCompleted, TypeOK, Verifiers
  <2>3. JudgedOK'
    <3>1. CASE Accept(t) \/ Revise(t)
      BY <3>1, AcceptType, ReviseType
    <3>2. CASE /\ status' = SetStatus(t, "verifying")
               /\ UNCHANGED <<conflicts, attempts, current, workers, proc, inbox, eventLoop>>
      <4>1. status' \in [Tasks -> Statuses]
        BY <3>2, SetStatusType DEF Statuses, ActiveStatuses
      <4>2. QED
        BY <3>2, <4>1 DEF JudgedOK, TypeOK
    <3>3. QED
      BY <1>4, <3>1, <3>2 DEF HandleCompleted
  <2>4. MemoryOK'
    BY <1>4, <2>1, <2>2, <2>3 DEF HandleCompleted, JudgedOK, MemoryOK, TypeOK
  <2>5. QED
    BY <1>4, <2>4, PersistType DEF HandleCompleted
<1>5. ASSUME NEW kind \in LateKinds, HandleEnded(t, kind)
      PROVE  TypeOK'
  <2>1. SetStatus(t, EndStatus(kind)) \in [Tasks -> Statuses]
    BY <1>5, SetStatusType
    DEF HandleEnded, EndStatus, LateKinds, EventKinds, Statuses, TerminalStatuses
  <2>2. events' \in [Tasks -> Seq(EventKinds)]
    BY <1>5, TakeType DEF HandleEnded
  <2>3. current' \in 0..MaxTasks
    BY <1>5, ClearCurrentType DEF HandleEnded
  <2>4. Drop(t) \in SUBSET Tasks
    BY DEF Drop, TypeOK
  <2>5. MemoryOK'
    BY <1>5, <2>1, <2>2, <2>3, <2>4, SettleType DEF HandleEnded, MemoryOK, TypeOK
  <2>6. QED
    BY <1>5, <2>5, PersistType DEF HandleEnded
<1>6. QED
  BY <1>1, <1>2, <1>3, <1>4, <1>5 DEF HandleEvent

\* A step of a worker keeps the types.
LEMMA WorkerType ==
  ASSUME TypeOK, NEW t \in Tasks, WorkerStep(t) \/ WorkerDies(t)
  PROVE  TypeOK'
<1>1. /\ proc' \in [Tasks -> ProcStates]
      /\ inbox' \in [Tasks -> Seq(Commands)]
      /\ answer' \in [Tasks -> {"none", "usable", "void"}]
      /\ events' \in [Tasks -> Seq(EventKinds)]
      /\ CoordinatorUnchanged
  <2>1. CASE WorkerAsk(t)
    BY <2>1 DEF WorkerAsk, Becomes, Emit, TypeOK, ProcStates, EventKinds
  <2>2. CASE WorkerAnswered(t)
    BY <2>2 DEF WorkerAnswered, Becomes, TypeOK, ProcStates
  <2>3. CASE WorkerDiscards(t)
    BY <2>3 DEF WorkerDiscards, TypeOK
  <2>4. CASE WorkerCompletes(t)
    <3>1. Drained(inbox[t]) \in Seq(Commands)
      BY DrainedType DEF TypeOK
    <3>2. CASE inbox' = [inbox EXCEPT ![t] = Drained(@)] /\ UNCHANGED <<proc, events>>
      BY <2>4, <3>1, <3>2 DEF WorkerCompletes, TypeOK
    <3>3. CASE /\ Emit(t, "completed")
               /\ Becomes(t, IF t \in threads THEN "exited" ELSE "submitted")
               /\ UNCHANGED inbox
      <4>1. events' \in [Tasks -> Seq(EventKinds)]
        BY <3>3 DEF Emit, TypeOK, EventKinds
      <4>2. proc' \in [Tasks -> ProcStates]
        BY <3>3 DEF Becomes, TypeOK, ProcStates
      <4>3. QED
        BY <2>4, <3>3, <4>1, <4>2 DEF WorkerCompletes, TypeOK
    <3>4. QED
      BY <2>4, <3>2, <3>3 DEF WorkerCompletes
  <2>5. CASE WorkerTakesFollowup(t)
    <3>1. AfterCommand(Head(inbox[t])) \in ProcStates
      BY <2>5 DEF AfterCommand, ProcStates
    <3>2. QED
      BY <2>5, <3>1 DEF WorkerTakesFollowup, Becomes, TypeOK
  <2>6. CASE WorkerFails(t)
    BY <2>6 DEF WorkerFails, Becomes, Emit, TypeOK, ProcStates, EventKinds
  <2>7. CASE WorkerDies(t)
    BY <2>7 DEF WorkerDies, Becomes, TypeOK, ProcStates
  <2>8. QED
    BY <2>1, <2>2, <2>3, <2>4, <2>5, <2>6, <2>7 DEF WorkerStep
<1>2. MemoryOK'
  BY <1>1 DEF CoordinatorUnchanged, boardVars, peerVars, MemoryOK, TypeOK
<1>3. QED
  BY <1>1, <1>2, PersistType DEF CoordinatorUnchanged

\* A restart keeps the types, if what was saved has them.
LEMMA RestartType ==
  ASSUME TypeOK, Restart
  PROVE  TypeOK'
<1>1. Recovered \in [Tasks -> Statuses]
  BY DEF Recovered, TypeOK, DiskImage, Statuses, TerminalStatuses
<1>2. RecoveredConflicts \in [Tasks -> SUBSET Tasks]
  BY DEF RecoveredConflicts, TypeOK, DiskImage
<1>3. [t \in Tasks |-> IF proc[t] = "none" THEN "none" ELSE "exited"]
        \in [Tasks -> ProcStates]
  BY DEF ProcStates
<1>4. /\ status' \in [Tasks -> Statuses]
      /\ conflicts' \in [Tasks -> SUBSET Tasks]
      /\ workers' \in SUBSET Tasks
      /\ proc' \in [Tasks -> ProcStates]
  BY <1>1, <1>2, <1>3, TryStartType DEF Restart
<1>5. mail' \in [Tasks -> Seq(MailStatuses)]
  BY CancelPendingType DEF Restart, TypeOK, DiskImage
<1>6. current' \in 0..MaxTasks
  BY ConstantsAssumption DEF Restart
<1>7. /\ added' \in 0..MaxTasks
      /\ attempts' \in [Tasks -> Nat]
      /\ subs' \in [Tasks -> Nat]
  BY DEF Restart, TypeOK, DiskImage
<1>8. /\ inbox' \in [Tasks -> Seq(Commands)]
      /\ events' \in [Tasks -> Seq(EventKinds)]
      /\ answer' \in [Tasks -> {"none", "usable", "void"}]
  BY DEF Restart
<1>9. MemoryOK'
  BY <1>4, <1>5, <1>6, <1>7, <1>8 DEF Restart, MemoryOK, TypeOK
<1>10. QED
  BY <1>9, PersistType DEF Restart

\* Every step keeps the types.
LEMMA NextType == TypeOK /\ [Next]_vars => TypeOK'
<1> SUFFICES ASSUME TypeOK, [Next]_vars
             PROVE  TypeOK'
  OBVIOUS
<1>1. CASE UserStep
  <2>1. ASSUME NEW isThread \in BOOLEAN, StartNewTask(isThread)
        PROVE  TypeOK'
    BY <2>1, StartNewTaskType
  <2>2. ASSUME NEW C \in SUBSET (1..added), QueueTask(C)
        PROVE  TypeOK'
    BY <2>2, QueueTaskType
  <2>3. ASSUME NEW t \in Tasks, AttachToTask(t) \/ TalkDecision(t)
        PROVE  TypeOK'
    BY <2>3, AttachToTaskType, TalkDecisionType
  <2>4. ASSUME NEW t \in Tasks, CancelTask(t)
        PROVE  TypeOK'
    BY <2>4, CancelAndStartNextType DEF CancelTask
  <2>5. ASSUME NEW t \in Tasks, CancelAndRestart(t)
        PROVE  TypeOK'
    BY <2>5, CancelAndRestartType
  <2>6. ASSUME NEW t \in Tasks, NEW k \in DOMAIN mail[t],
               NEW reply \in {"usable", "void"}, ReplyMailbox(t, k, reply)
        PROVE  TypeOK'
    BY <2>6, ReplyMailboxType
  <2>7. CASE CancelAll
    BY <2>7, CancelAndStartNextType DEF CancelAll
  <2>8. QED
    BY <1>1, <2>1, <2>2, <2>3, <2>4, <2>5, <2>6, <2>7 DEF UserStep
<1>2. ASSUME NEW t \in Tasks,
             HandleEvent(t) \/ VerifierVerdict(t) \/ WorkerStep(t) \/ WorkerDies(t)
      PROVE  TypeOK'
  BY <1>2, HandleEventType, HandleVerdictType, WorkerType DEF VerifierVerdict
<1>3. ASSUME NEW v \in verifiers, VerifierStalls(v)
      PROVE  TypeOK'
  BY <1>3, VerifierStallsType
<1>4. CASE Restart
  BY <1>4, RestartType
<1>5. CASE UNCHANGED vars
  BY <1>5 DEF TypeOK, vars, boardVars, peerVars, workVars
<1>6. QED
  BY <1>1, <1>2, <1>3, <1>4, <1>5 DEF Next

\* Every variable keeps its type, in every behaviour of the coordinator, its
\* workers and its restarts.
THEOREM TypeCorrect == Spec => []TypeOK
  BY InitType, NextType, PTL DEF Spec
-----------------------------------------------------------------------------
(***************************************************************************)
(* Safety.  Most invariants only read the status of a task, so the proofs  *)
(* rest on what each action does to it.                                    *)
(***************************************************************************)

\* Starting a waiting task changes no other status, and adds no other worker.
LEMMA TryStartEffect ==
  ASSUME NEW S \in [Tasks -> Statuses], NEW C, NEW W, NEW P,
         TryStartWaiting(S, C, W, P)
  PROVE  /\ \A t \in Tasks : \/ status'[t] = S[t]
                             \/ S[t] = "waiting" /\ status'[t] = "running"
         /\ \A t \in workers' : t \in W \/ status'[t] = "running"
  BY DEF TryStartWaiting, Startable

\* The same of the end of a handler, which keeps the event thread alive.
LEMMA SettleEffect ==
  ASSUME NEW S \in [Tasks -> Statuses], NEW W, Settle(S, W)
  PROVE  /\ \A t \in Tasks : \/ status'[t] = S[t]
                             \/ S[t] = "waiting" /\ status'[t] = "running"
         /\ \A t \in workers' : t \in W \/ status'[t] = "running"
         /\ UNCHANGED eventLoop
  BY TryStartEffect DEF Settle

\* The statuses a verdict on task t, or the inline review of it, can lead to.
Judged == {"accepted", "rejected", "needs_revision", "needs_user_decision"}

\* Task t reaches one of the outcomes; of the others, at most a waiting one starts.
Moves(t, Outcomes) ==
  /\ status'[t] \in Outcomes
  /\ \A u \in Tasks \ {t} :
       \/ status'[u] = status[u]
       \/ status[u] = "waiting" /\ status'[u] = "running"

\* A handler that gives task t the status s moves t there, and no other.
LEMMA SettleMoves ==
  ASSUME TypeOK, NEW t \in Tasks, NEW s \in Statuses \ {"waiting"}, NEW W,
         Settle(SetStatus(t, s), W)
  PROVE  Moves(t, {s})
<1>1. SetStatus(t, s) \in [Tasks -> Statuses]
  BY SetStatusType
<1>2. \A u \in Tasks : \/ status'[u] = SetStatus(t, s)[u]
                       \/ SetStatus(t, s)[u] = "waiting" /\ status'[u] = "running"
  BY <1>1, SettleEffect
<1>3. SetStatus(t, s)[t] = s /\ \A u \in Tasks \ {t} : SetStatus(t, s)[u] = status[u]
  BY DEF SetStatus, TypeOK
<1>4. QED
  BY <1>2, <1>3 DEF Moves

\* Accepting moves a task to accepted.
LEMMA AcceptMoves ==
  ASSUME TypeOK, NEW t \in Tasks, Accept(t)
  PROVE  Moves(t, {"accepted"})
<1>1. CASE AbortHandler(SetStatus(t, "accepted"))
  BY <1>1 DEF AbortHandler, SetStatus, Moves, TypeOK
<1>2. CASE Settle(SetStatus(t, "accepted"), Drop(t))
  BY <1>2, SettleMoves DEF Statuses, TerminalStatuses
<1>3. QED
  BY <1>1, <1>2 DEF Accept

\* Sending back moves a task to revision, to the user, or to rejected.
LEMMA ReviseMoves ==
  ASSUME TypeOK, NEW t \in Tasks, Revise(t)
  PROVE  Moves(t, {"rejected", "needs_revision", "needs_user_decision"})
<1> DEFINE Outcomes == {"rejected", "needs_revision", "needs_user_decision"}
<1>1. Outcomes \subseteq Statuses \ {"waiting"}
  BY DEF Statuses, ActiveStatuses, TerminalStatuses
<1>2. ASSUME NEW s \in Outcomes, Settle(SetStatus(t, s), workers)
      PROVE  Moves(t, Outcomes)
  BY <1>1, <1>2, SettleMoves DEF Moves
<1>3. CASE AbortHandler(SetStatus(t, "needs_revision"))
  BY <1>3 DEF AbortHandler, SetStatus, Moves, TypeOK
<1>4. Refused \in Outcomes
  BY DEF Refused
<1>5. QED
  BY <1>2, <1>3, <1>4 DEF Revise, Escalate

\* A verdict moves its task to one of the outcomes of a review.
LEMMA VerdictMoves ==
  ASSUME TypeOK, NEW v \in verifiers, NEW verdict, HandleVerdict(v, verdict)
  PROVE  Moves(v.task, Judged)
<1> DEFINE t == v.task
<1>1. t \in Tasks
  BY DEF TypeOK, Verifiers
<1>2. CASE Accept(t)
  BY <1>1, <1>2, AcceptMoves DEF Moves, Judged
<1>3. CASE Revise(t)
  BY <1>1, <1>3, ReviseMoves DEF Moves, Judged
<1>4. CASE Settle(Escalate(t), workers)
  BY <1>1, <1>4, SettleMoves DEF Escalate, Moves, Judged, Statuses, ActiveStatuses
<1>5. CASE status' = Escalate(t)
  BY <1>1, <1>5 DEF Escalate, SetStatus, Moves, Judged, TypeOK
<1>6. QED
  BY <1>2, <1>3, <1>4, <1>5 DEF HandleVerdict

\* The last event of a worker moves its task to one of three ends.
LEMMA EndedMoves ==
  ASSUME TypeOK, NEW t \in Tasks, NEW kind \in LateKinds, HandleEnded(t, kind)
  PROVE  Moves(t, {"failed", "blocked", "cancelled"})
<1>1. EndStatus(kind) \in {"failed", "blocked", "cancelled"}
  BY DEF HandleEnded, EndStatus, LateKinds, EventKinds
<1>2. QED
  BY <1>1, SettleMoves DEF HandleEnded, Moves, Statuses, TerminalStatuses

\* Cancelling the tasks of T ends them, and at most starts a waiting task.
LEMMA CancelEffect ==
  ASSUME TypeOK, NEW T \in SUBSET Tasks, CancelAndStartNext(T)
  PROVE  /\ \A t \in T : status'[t] = "cancelled"
         /\ \A t \in Tasks \ T :
              \/ status'[t] = status[t]
              \/ status[t] = "waiting" /\ status'[t] = "running"
         /\ \A t \in workers' : t \in workers \/ status'[t] = "running"
<1>1. Cancelled(T) \in [Tasks -> Statuses]
  BY DEF Cancelled, TypeOK, Statuses, TerminalStatuses
<1>2. TryStartWaiting(Cancelled(T), conflicts, workers, Gone(T))
  BY DEF CancelAndStartNext
<1>3. /\ \A t \in Tasks : \/ status'[t] = Cancelled(T)[t]
                          \/ Cancelled(T)[t] = "waiting" /\ status'[t] = "running"
      /\ \A t \in workers' : t \in workers \/ status'[t] = "running"
  BY <1>1, <1>2, TryStartEffect
<1>4. QED
  BY <1>3 DEF Cancelled

\* A restart leaves no task in a status that needs a worker or a verifier of
\* before, other than the one it starts.
LEMMA RestartEffect ==
  ASSUME TypeOK, Restart
  PROVE  /\ \A t \in Tasks : status'[t] \notin StaleStatuses \/ status'[t] = "running"
         /\ \A t \in workers' : status'[t] = "running"
<1>1. Recovered \in [Tasks -> Statuses]
  BY DEF Recovered, TypeOK, DiskImage, Statuses, TerminalStatuses
<1>2. \A t \in Tasks : Recovered[t] \notin StaleStatuses
  BY DEF Recovered, Stale, StaleStatuses
<1>3. /\ \A t \in Tasks : \/ status'[t] = Recovered[t]
                          \/ Recovered[t] = "waiting" /\ status'[t] = "running"
      /\ \A t \in workers' : t \in {} \/ status'[t] = "running"
  BY <1>1, TryStartEffect DEF Restart
<1>4. QED
  BY <1>2, <1>3
-----------------------------------------------------------------------------
\* No step leaves a task under review without its verifier.
LEMMA VerifyingStep == TypeOK /\ VerifyingHasVerifier /\ [Next]_vars => VerifyingHasVerifier'
<1> SUFFICES ASSUME TypeOK, VerifyingHasVerifier, [Next]_vars,
                    NEW t \in Tasks, status'[t] = "verifying"
             PROVE  [task |-> t, round |-> subs'[t]] \in verifiers'
  BY DEF VerifyingHasVerifier
<1> DEFINE Kept == /\ status[t] = "verifying"
                   /\ subs'[t] = subs[t]
                   /\ \A v \in verifiers : v.task = t => v \in verifiers'
<1>1. ASSUME Kept PROVE [task |-> t, round |-> subs'[t]] \in verifiers'
  BY <1>1 DEF VerifyingHasVerifier
<1>2. CASE UserStep
  <2>1. ASSUME NEW isThread \in BOOLEAN, StartNewTask(isThread)
        PROVE  Kept
    BY <2>1 DEF StartNewTask, TypeOK
  <2>2. ASSUME NEW C \in SUBSET (1..added), QueueTask(C)
        PROVE  Kept
    BY <2>2 DEF QueueTask, TypeOK, peerVars
  <2>3. ASSUME NEW u \in Tasks, AttachToTask(u) \/ TalkDecision(u)
        PROVE  Kept
    BY <2>3 DEF AttachToTask, TalkDecision, TypeOK, boardVars, peerVars
  <2>4. ASSUME NEW T \in SUBSET Tasks, CancelAndStartNext(T)
        PROVE  Kept
    BY <2>4, CancelEffect DEF CancelAndStartNext, CancelTasks, Spared, TypeOK, Verifiers
  <2>5. ASSUME NEW u \in Tasks, CancelAndRestart(u)
        PROVE  Kept
    BY <2>5 DEF CancelAndRestart, CancelTasks, Cancelled, Spared, TypeOK, Verifiers
  <2>6. ASSUME NEW u \in Tasks, NEW k \in DOMAIN mail[u],
               NEW reply \in {"usable", "void"}, ReplyMailbox(u, k, reply)
        PROVE  Kept
    BY <2>6 DEF ReplyMailbox, StatusAfterReply, TypeOK
  <2>7. QED
    BY <1>1, <1>2, <2>1, <2>2, <2>3, <2>4, <2>5, <2>6 DEF UserStep, CancelTask, CancelAll
<1>3. ASSUME NEW u \in Tasks, HandleEvent(u)
      PROVE  [task |-> t, round |-> subs'[t]] \in verifiers'
  <2>1. CASE HandleQuestion(u) \/ HandleQuestionByNote(u)
    BY <1>1, <2>1 DEF HandleQuestion, HandleQuestionByNote, AbortHandler, SetStatus, TypeOK
  <2>2. ASSUME NEW kind \in LateKinds, HandleLateEvent(u, kind)
        PROVE  Kept
    BY <2>2 DEF HandleLateEvent, boardVars, peerVars
  <2>3. ASSUME NEW kind \in LateKinds, HandleEnded(u, kind)
        PROVE  Kept
    BY <2>3, EndedMoves DEF HandleEnded, Moves
  <2>4. CASE HandleCompleted(u) /\ (Accept(u) \/ Revise(u)) /\ UNCHANGED verifiers
    BY <1>1, <2>4, AcceptMoves, ReviseMoves DEF HandleCompleted, Moves, TypeOK
  <2>5. CASE /\ HandleCompleted(u)
             /\ status' = SetStatus(u, "verifying")
             /\ verifiers' = verifiers \cup {[task |-> u, round |-> subs[u] + 1]}
    BY <1>1, <2>5 DEF HandleCompleted, SetStatus, TypeOK
  <2>6. QED
    BY <1>1, <1>3, <2>1, <2>2, <2>3, <2>4, <2>5 DEF HandleEvent, HandleCompleted
<1>4. ASSUME NEW v \in verifiers, NEW verdict, HandleVerdict(v, verdict)
      PROVE  Kept
  BY <1>4, VerdictMoves DEF HandleVerdict, Moves, Judged, Retire
<1>5. ASSUME NEW u \in Tasks, WorkerStep(u) \/ WorkerDies(u)
      PROVE  Kept
  BY <1>5 DEF WorkerStep, WorkerDies, WorkerAsk, WorkerAnswered, WorkerDiscards,
    WorkerCompletes, WorkerTakesFollowup, WorkerFails, CoordinatorUnchanged,
    boardVars, peerVars
<1>6. ASSUME NEW v \in verifiers, VerifierStalls(v)
      PROVE  Kept
  BY <1>6 DEF VerifierStalls, boardVars
<1>7. CASE Restart
  BY <1>7, RestartEffect DEF StaleStatuses
<1>8. CASE UNCHANGED vars
  BY <1>1, <1>8 DEF vars, boardVars, peerVars
<1>9. QED
  BY <1>1, <1>2, <1>3, <1>4, <1>5, <1>6, <1>7, <1>8 DEF Next, VerifierVerdict

\* A task under review always has a verifier on its latest submission, however
\* many submissions, questions, cancellations and restarts went before.
THEOREM VerifyingAlwaysHasVerifier == Spec => []VerifyingHasVerifier
<1>1. Init => VerifyingHasVerifier
  BY DEF Init, VerifyingHasVerifier
<1>2. QED
  BY <1>1, VerifyingStep, TypeCorrect, PTL DEF Spec
-----------------------------------------------------------------------------
\* No step leaves a task waiting for the user without a question.
LEMMA NeedsUserStep == TypeOK /\ NeedsUserHasQuestion /\ [Next]_vars => NeedsUserHasQuestion'
<1> SUFFICES ASSUME TypeOK, NeedsUserHasQuestion, [Next]_vars,
                    NEW t \in Tasks, status'[t] = "needs_user"
             PROVE  Pending(t)' # {}
  BY DEF NeedsUserHasQuestion
<1> DEFINE Kept == status[t] = "needs_user" /\ mail'[t] = mail[t]
<1>1. ASSUME Kept PROVE Pending(t)' # {}
  BY <1>1 DEF NeedsUserHasQuestion, Pending
<1>2. CASE UserStep
  <2>1. ASSUME NEW isThread \in BOOLEAN, StartNewTask(isThread)
        PROVE  Kept
    BY <2>1 DEF StartNewTask, TypeOK
  <2>2. ASSUME NEW C \in SUBSET (1..added), QueueTask(C)
        PROVE  Kept
    BY <2>2 DEF QueueTask, TypeOK, peerVars
  <2>3. ASSUME NEW u \in Tasks, AttachToTask(u) \/ TalkDecision(u)
        PROVE  Kept
    BY <2>3 DEF AttachToTask, TalkDecision, TypeOK, boardVars, peerVars
  <2>4. ASSUME NEW T \in SUBSET Tasks, CancelAndStartNext(T)
        PROVE  Kept
    BY <2>4, CancelEffect DEF CancelAndStartNext, CancelTasks
  <2>5. ASSUME NEW u \in Tasks, CancelAndRestart(u)
        PROVE  Kept
    BY <2>5 DEF CancelAndRestart, CancelTasks, Cancelled, TypeOK
  <2>6. ASSUME NEW u \in Tasks, NEW k \in DOMAIN mail[u],
               NEW reply \in {"usable", "void"}, ReplyMailbox(u, k, reply)
        PROVE  Pending(t)' # {}
    <3>1. status[t] = "needs_user" /\ ~(u = t /\ Pending(t) = {k})
      BY <2>6 DEF ReplyMailbox, StatusAfterReply, TypeOK
    <3>2. CASE u # t
      BY <1>1, <2>6, <3>1, <3>2 DEF ReplyMailbox, TypeOK
    <3>3. CASE u = t
      <4>1. PICK j \in Pending(t) : j # k
        BY <3>1, <3>3 DEF NeedsUserHasQuestion
      <4>2. j \in DOMAIN mail'[t] /\ mail'[t][j] = "pending"
        BY <2>6, <3>3, <4>1 DEF ReplyMailbox, Pending, TypeOK
      <4>3. QED
        BY <4>2 DEF Pending
    <3>4. QED
      BY <3>2, <3>3
  <2>7. QED
    BY <1>1, <1>2, <2>1, <2>2, <2>3, <2>4, <2>5, <2>6 DEF UserStep, CancelTask, CancelAll
<1>3. ASSUME NEW u \in Tasks, HandleEvent(u)
      PROVE  Pending(t)' # {}
  <2>1. CASE HandleQuestion(u)
    <3>1. CASE u # t
      BY <1>1, <2>1, <3>1 DEF HandleQuestion, SetStatus, TypeOK
    <3>2. CASE u = t
      <4>1. mail'[t] = Append(mail[t], "pending")
        BY <2>1, <3>2 DEF HandleQuestion, TypeOK
      <4>2. Len(mail[t]) + 1 \in DOMAIN mail'[t] /\ mail'[t][Len(mail[t]) + 1] = "pending"
        BY <4>1 DEF TypeOK
      <4>3. QED
        BY <4>2 DEF Pending
    <3>3. QED
      BY <3>1, <3>2
  <2>2. CASE HandleQuestionByNote(u)
    <3>1. status[t] = "needs_user"
      BY <2>2 DEF HandleQuestionByNote, AbortHandler
    <3>2. PICK j \in DOMAIN mail[t] : mail[t][j] = "pending"
      BY <3>1 DEF NeedsUserHasQuestion, Pending
    <3>3. j \in DOMAIN mail'[t] /\ mail'[t][j] = "pending"
      BY <2>2, <3>2 DEF HandleQuestionByNote, TypeOK
    <3>4. QED
      BY <3>3 DEF Pending
  <2>3. ASSUME NEW kind \in LateKinds, HandleLateEvent(u, kind)
        PROVE  Kept
    BY <2>3 DEF HandleLateEvent, boardVars, peerVars
  <2>4. ASSUME NEW kind \in LateKinds, HandleEnded(u, kind)
        PROVE  Kept
    BY <2>4, EndedMoves DEF HandleEnded, Moves
  <2>5. CASE HandleCompleted(u)
    BY <1>1, <2>5, AcceptMoves, ReviseMoves DEF HandleCompleted, Moves, SetStatus, TypeOK
  <2>6. QED
    BY <1>1, <1>3, <2>1, <2>2, <2>3, <2>4, <2>5 DEF HandleEvent
<1>4. ASSUME NEW v \in verifiers, NEW verdict, HandleVerdict(v, verdict)
      PROVE  Kept
  BY <1>4, VerdictMoves DEF HandleVerdict, Moves, Judged
<1>5. ASSUME NEW u \in Tasks, WorkerStep(u) \/ WorkerDies(u)
      PROVE  Kept
  BY <1>5 DEF WorkerStep, WorkerDies, WorkerAsk, WorkerAnswered, WorkerDiscards,
    WorkerCompletes, WorkerTakesFollowup, WorkerFails, CoordinatorUnchanged,
    boardVars, peerVars
<1>6. ASSUME NEW v \in verifiers, VerifierStalls(v)
      PROVE  Kept
  BY <1>6 DEF VerifierStalls, boardVars
<1>7. CASE Restart
  BY <1>7, RestartEffect DEF StaleStatuses
<1>8. CASE UNCHANGED vars
  BY <1>1, <1>8 DEF vars, boardVars, peerVars
<1>9. QED
  BY <1>1, <1>2, <1>3, <1>4, <1>5, <1>6, <1>7, <1>8 DEF Next, VerifierVerdict

\* A task that waits for the user always has a question the user can answer,
\* across replies, cancellations, late questions and restarts.
THEOREM NeedsUserAlwaysHasQuestion == Spec => []NeedsUserHasQuestion
<1>1. Init => NeedsUserHasQuestion
  BY DEF Init, NeedsUserHasQuestion
<1>2. QED
  BY <1>1, NeedsUserStep, TypeCorrect, PTL DEF Spec
-----------------------------------------------------------------------------
\* Whatever the handler did before, once it has looked for a task to start no
\* queued task is left alone: it starts one unless each has a running conflict.
LEMMA TryStartLeavesNoneAlone ==
  ASSUME NEW S \in [Tasks -> Statuses], NEW C \in [Tasks -> SUBSET Tasks],
         NEW W, NEW P, TryStartWaiting(S, C, W, P)
  PROVE  NoTaskWaitsAlone'
<1>1. ASSUME NEW w \in Startable(S, C), status' = [S EXCEPT ![w] = "running"]
      PROVE  NoTaskWaitsAlone'
  <2>1. w \in Tasks /\ status'[w] = "running"
    BY <1>1 DEF Startable
  <2>2. QED
    BY <2>1 DEF NoTaskWaitsAlone, ActiveStatuses
<1>2. CASE Startable(S, C) = {} /\ status' = S /\ conflicts' = C
  <2>1. ASSUME NEW w \in Tasks, status'[w] = "waiting"
        PROVE  \E c \in conflicts'[w] : status'[c] \notin TerminalStatuses
    BY <1>2, <2>1 DEF Startable, BlockingStatuses, TerminalStatuses
  <2>2. QED
    BY <2>1 DEF NoTaskWaitsAlone
<1>3. QED
  BY <1>1, <1>2 DEF TryStartWaiting

\* An active task that does not wait keeps every queued task company.
LEMMA CompanyIsEnough ==
  ASSUME NEW t \in Tasks, status'[t] \in ActiveStatuses \ {"waiting"}
  PROVE  NoTaskWaitsAlone'
  BY DEF NoTaskWaitsAlone

\* A review that is not aborted ends with the start of a queued task, or of none.
LEMMA ReviewLeavesNoneAlone ==
  ASSUME TypeOK, NEW t \in Tasks, Accept(t) \/ Revise(t), eventLoop'
  PROVE  NoTaskWaitsAlone'
<1>1. ASSUME NEW s \in Statuses, NEW W, Settle(SetStatus(t, s), W)
      PROVE  NoTaskWaitsAlone'
  BY <1>1, SetStatusType, TryStartLeavesNoneAlone DEF Settle, TypeOK
<1>2. {"accepted", "rejected", "needs_revision", "needs_user_decision"} \subseteq Statuses
  BY DEF Statuses, ActiveStatuses, TerminalStatuses
<1>3. QED
  BY <1>1, <1>2 DEF Accept, Revise, Refused, Escalate, AbortHandler

\* No step leaves a queued task alone.
LEMMA NoTaskWaitsAloneStep == TypeOK /\ NoTaskWaitsAlone /\ [Next]_vars => NoTaskWaitsAlone'
<1> SUFFICES ASSUME TypeOK, NoTaskWaitsAlone, [Next]_vars, eventLoop'
             PROVE  NoTaskWaitsAlone'
  BY DEF NoTaskWaitsAlone
<1>1. ASSUME UNCHANGED <<status, conflicts, eventLoop>> PROVE NoTaskWaitsAlone'
  BY <1>1 DEF NoTaskWaitsAlone
<1>2. CASE UserStep
  <2>1. ASSUME NEW isThread \in BOOLEAN, StartNewTask(isThread)
        PROVE  NoTaskWaitsAlone'
    <3>1. added + 1 \in Tasks /\ status'[added + 1] = "running"
      BY <2>1 DEF StartNewTask, TypeOK
    <3>2. QED
      BY <3>1, CompanyIsEnough DEF ActiveStatuses
  <2>2. ASSUME NEW C \in SUBSET (1..added), QueueTask(C)
        PROVE  NoTaskWaitsAlone'
    <3>1. PICK c \in C : status[c] \in {"running", "needs_user"}
      BY <2>2 DEF QueueTask
    <3>2. c \in Tasks /\ c # added + 1
      BY ConstantsAssumption DEF TypeOK, Tasks
    <3>3. status'[c] = status[c]
      BY <2>2, <3>2 DEF QueueTask, TypeOK
    <3>4. QED
      BY <3>1, <3>2, <3>3, CompanyIsEnough DEF ActiveStatuses
  <2>3. ASSUME NEW u \in Tasks, AttachToTask(u)
        PROVE  NoTaskWaitsAlone'
    BY <1>1, <2>3 DEF AttachToTask, boardVars
  <2>4. ASSUME NEW u \in Tasks, TalkDecision(u)
        PROVE  NoTaskWaitsAlone'
    <3>1. status'[u] = "running"
      BY <2>4 DEF TalkDecision, TypeOK
    <3>2. QED
      BY <3>1, CompanyIsEnough DEF ActiveStatuses
  <2>5. ASSUME NEW T \in SUBSET Tasks, CancelAndStartNext(T)
        PROVE  NoTaskWaitsAlone'
    <3>1. Cancelled(T) \in [Tasks -> Statuses]
      BY DEF Cancelled, TypeOK, Statuses, TerminalStatuses
    <3>2. QED
      BY <2>5, <3>1, TryStartLeavesNoneAlone DEF CancelAndStartNext, TypeOK
  <2>6. ASSUME NEW u \in Tasks, CancelAndRestart(u)
        PROVE  NoTaskWaitsAlone'
    <3>1. added + 1 \in Tasks /\ status'[added + 1] = "running"
      BY <2>6 DEF CancelAndRestart, Cancelled
    <3>2. QED
      BY <3>1, CompanyIsEnough DEF ActiveStatuses
  <2>7. ASSUME NEW u \in Tasks, NEW k \in DOMAIN mail[u],
               NEW reply \in {"usable", "void"}, ReplyMailbox(u, k, reply)
        PROVE  NoTaskWaitsAlone'
    <3>1. CASE status' = status
      BY <1>1, <2>7, <3>1 DEF ReplyMailbox
    <3>2. CASE status' = [status EXCEPT ![u] = "running"]
      BY <3>2, CompanyIsEnough DEF ActiveStatuses, TypeOK
    <3>3. QED
      BY <2>7, <3>1, <3>2 DEF ReplyMailbox, StatusAfterReply
  <2>8. QED
    BY <1>2, <2>1, <2>2, <2>3, <2>4, <2>5, <2>6, <2>7 DEF UserStep, CancelTask, CancelAll
<1>3. ASSUME NEW u \in Tasks, HandleEvent(u)
      PROVE  NoTaskWaitsAlone'
  <2>1. CASE HandleQuestion(u)
    <3>1. status'[u] = "needs_user"
      BY <2>1 DEF HandleQuestion, SetStatus, TypeOK
    <3>2. QED
      BY <3>1, CompanyIsEnough DEF ActiveStatuses
  <2>2. CASE HandleQuestionByNote(u)
    BY <1>1, <2>2 DEF HandleQuestionByNote, AbortHandler
  <2>3. ASSUME NEW kind \in LateKinds, HandleLateEvent(u, kind)
        PROVE  NoTaskWaitsAlone'
    BY <1>1, <2>3 DEF HandleLateEvent, boardVars
  <2>4. ASSUME NEW kind \in LateKinds, HandleEnded(u, kind)
        PROVE  NoTaskWaitsAlone'
    <3>1. EndStatus(kind) \in Statuses
      BY <2>4 DEF HandleEnded, EndStatus, LateKinds, EventKinds, Statuses, TerminalStatuses
    <3>2. SetStatus(u, EndStatus(kind)) \in [Tasks -> Statuses]
      BY <3>1, SetStatusType
    <3>3. QED
      BY <2>4, <3>2, TryStartLeavesNoneAlone DEF HandleEnded, Settle, TypeOK
  <2>5. CASE HandleCompleted(u)
    <3>1. CASE status' = SetStatus(u, "verifying")
      BY <3>1, CompanyIsEnough DEF SetStatus, ActiveStatuses, TypeOK
    <3>2. CASE Accept(u) \/ Revise(u)
      BY <3>2, ReviewLeavesNoneAlone
    <3>3. QED
      BY <2>5, <3>1, <3>2 DEF HandleCompleted
  <2>6. QED
    BY <1>3, <2>1, <2>2, <2>3, <2>4, <2>5 DEF HandleEvent
<1>4. ASSUME NEW v \in verifiers, NEW verdict, HandleVerdict(v, verdict)
      PROVE  NoTaskWaitsAlone'
  <2>1. v.task \in Tasks
    BY DEF TypeOK, Verifiers
  <2>2. CASE Accept(v.task) \/ Revise(v.task)
    BY <2>1, <2>2, ReviewLeavesNoneAlone
  <2>3. CASE status'[v.task] = "needs_user_decision"
    BY <2>1, <2>3, CompanyIsEnough DEF ActiveStatuses
  <2>4. CASE Settle(Escalate(v.task), workers)
    BY <2>1, <2>3, <2>4, SettleMoves
    DEF Escalate, Moves, Statuses, ActiveStatuses
  <2>5. CASE status' = Escalate(v.task)
    BY <2>1, <2>3, <2>5 DEF Escalate, SetStatus, TypeOK
  <2>6. QED
    BY <1>4, <2>2, <2>4, <2>5 DEF HandleVerdict
<1>5. ASSUME NEW u \in Tasks, WorkerStep(u) \/ WorkerDies(u)
      PROVE  NoTaskWaitsAlone'
  BY <1>1, <1>5 DEF WorkerStep, WorkerDies, WorkerAsk, WorkerAnswered, WorkerDiscards,
    WorkerCompletes, WorkerTakesFollowup, WorkerFails, CoordinatorUnchanged, boardVars
<1>6. ASSUME NEW v \in verifiers, VerifierStalls(v)
      PROVE  NoTaskWaitsAlone'
  BY <1>1, <1>6 DEF VerifierStalls, boardVars
<1>7. CASE Restart
  <2>1. Recovered \in [Tasks -> Statuses] /\ RecoveredConflicts \in [Tasks -> SUBSET Tasks]
    BY DEF Recovered, RecoveredConflicts, TypeOK, DiskImage, Statuses, TerminalStatuses
  <2>2. QED
    BY <1>7, <2>1, TryStartLeavesNoneAlone DEF Restart
<1>8. CASE UNCHANGED vars
  BY <1>1, <1>8 DEF vars, boardVars
<1>9. QED
  BY <1>2, <1>3, <1>4, <1>5, <1>6, <1>7, <1>8 DEF Next, VerifierVerdict

\* The start of queued tasks is never forgotten: while a queued task's conflicts
\* have all ended, some task is at work or with the user whose end will start it.
THEOREM NoTaskEverWaitsAlone == Spec => []NoTaskWaitsAlone
<1>1. Init => NoTaskWaitsAlone
  BY DEF Init, NoTaskWaitsAlone
<1>2. QED
  BY <1>1, NoTaskWaitsAloneStep, TypeCorrect, PTL DEF Spec
-----------------------------------------------------------------------------
\* Clearing the current task and starting a queued one leaves a current task
\* that is active, when the task that ended is the only one that is not.
LEMMA ClearLeavesActive ==
  ASSUME TypeOK, NEW t \in Tasks, NEW S \in [Tasks -> Statuses], NEW W,
         current \notin {0, t} => S[current] \in ActiveStatuses,
         ClearCurrentIf(t, S), Settle(S, W), current' # 0
  PROVE  status'[current'] \in ActiveStatuses
<1>1. current' \in Tasks /\ S[current'] \in ActiveStatuses
  BY ConstantsAssumption DEF ClearCurrentIf, LastActive, TypeOK, Tasks
<1>2. QED
  BY <1>1, SettleEffect DEF ActiveStatuses

\* The same without clearing, when the task that moves stays active.
LEMMA SettleLeavesActive ==
  ASSUME TypeOK, NEW S \in [Tasks -> Statuses], NEW W,
         current # 0 => S[current] \in ActiveStatuses,
         UNCHANGED current, Settle(S, W), current' # 0
  PROVE  status'[current'] \in ActiveStatuses
<1>1. current' \in Tasks /\ S[current'] \in ActiveStatuses
  BY ConstantsAssumption DEF TypeOK, Tasks
<1>2. QED
  BY <1>1, SettleEffect DEF ActiveStatuses

\* A review that is not aborted leaves a current task that is active.
LEMMA ReviewLeavesActive ==
  ASSUME TypeOK, CurrentIsActive, eventLoop, NEW t \in Tasks, Accept(t) \/ Revise(t),
         eventLoop', current' # 0
  PROVE  status'[current'] \in ActiveStatuses
<1>1. ASSUME NEW s \in Statuses, NEW W, ClearCurrentIf(t, SetStatus(t, s)),
             Settle(SetStatus(t, s), W)
      PROVE  status'[current'] \in ActiveStatuses
  <2>1. current \notin {0, t} => SetStatus(t, s)[current] \in ActiveStatuses
    BY ConstantsAssumption DEF SetStatus, CurrentIsActive, TypeOK, Tasks
  <2>2. QED
    BY <1>1, <2>1, SetStatusType, ClearLeavesActive
<1>2. ASSUME NEW s \in ActiveStatuses, UNCHANGED current, Settle(SetStatus(t, s), workers)
      PROVE  status'[current'] \in ActiveStatuses
  <2>1. current # 0 => SetStatus(t, s)[current] \in ActiveStatuses
    BY ConstantsAssumption DEF SetStatus, CurrentIsActive, TypeOK, Tasks
  <2>2. s \in Statuses
    BY DEF Statuses
  <2>3. QED
    BY <1>2, <2>1, <2>2, SetStatusType, SettleLeavesActive
<1>3. /\ {"accepted", "rejected", "needs_user_decision"} \subseteq Statuses
      /\ {"needs_revision", "needs_user_decision"} \subseteq ActiveStatuses
  BY DEF Statuses, ActiveStatuses, TerminalStatuses
<1>4. CASE Accept(t)
  BY <1>1, <1>3, <1>4 DEF Accept, AbortHandler
<1>5. CASE Revise(t)
  BY <1>1, <1>2, <1>3, <1>5 DEF Revise, Refused, Escalate, AbortHandler
<1>6. QED
  BY <1>4, <1>5

\* No step leaves a current task that has ended.
LEMMA CurrentStep == TypeOK /\ CurrentIsActive /\ [Next]_vars => CurrentIsActive'
<1> SUFFICES ASSUME TypeOK, CurrentIsActive, [Next]_vars, eventLoop', current' # 0
             PROVE  status'[current'] \in ActiveStatuses
  BY DEF CurrentIsActive
<1> DEFINE Goal == status'[current'] \in ActiveStatuses
<1>1. ASSUME UNCHANGED <<current, eventLoop>>,
             \A t \in Tasks : status'[t] = status[t] \/ status'[t] \in ActiveStatuses
      PROVE  Goal
  <2>1. current \in Tasks /\ status[current] \in ActiveStatuses
    BY <1>1, ConstantsAssumption DEF CurrentIsActive, TypeOK, Tasks
  <2>2. QED
    BY <1>1, <2>1
<1>2. CASE UserStep
  <2>1. ASSUME NEW isThread \in BOOLEAN, StartNewTask(isThread)
        PROVE  Goal
    BY <2>1 DEF StartNewTask, TypeOK, ActiveStatuses
  <2>2. ASSUME NEW C \in SUBSET (1..added), QueueTask(C)
        PROVE  Goal
    BY <2>2 DEF QueueTask, TypeOK, ActiveStatuses
  <2>3. ASSUME NEW u \in Tasks, AttachToTask(u)
        PROVE  Goal
    BY <1>1, <2>3 DEF AttachToTask, boardVars
  <2>4. ASSUME NEW u \in Tasks, TalkDecision(u)
        PROVE  Goal
    <3>1. \A t \in Tasks : status'[t] = status[t] \/ status'[t] \in ActiveStatuses
      BY <2>4 DEF TalkDecision, TypeOK, ActiveStatuses
    <3>2. QED
      BY <1>1, <2>4, <3>1 DEF TalkDecision
  <2>5. ASSUME NEW T \in SUBSET Tasks, CancelAndStartNext(T)
        PROVE  Goal
    <3>1. Cancelled(T) \in [Tasks -> Statuses]
      BY DEF Cancelled, TypeOK, Statuses, TerminalStatuses
    <3>2. current' \in Tasks /\ Cancelled(T)[current'] \in ActiveStatuses
      <4>1. CASE current \in T
        BY <2>5, <4>1 DEF CancelAndStartNext, LastActive
      <4>2. CASE current \notin T
        <5>1. current' = current /\ current \in Tasks /\ eventLoop
          BY <2>5, <4>2, ConstantsAssumption DEF CancelAndStartNext, TypeOK, Tasks
        <5>2. QED
          BY <4>2, <5>1 DEF Cancelled, CurrentIsActive
      <4>3. QED
        BY <4>1, <4>2
    <3>3. \/ status'[current'] = Cancelled(T)[current']
          \/ status'[current'] = "running"
      BY <2>5, <3>1, <3>2, TryStartEffect DEF CancelAndStartNext
    <3>4. QED
      BY <3>2, <3>3 DEF ActiveStatuses
  <2>6. ASSUME NEW u \in Tasks, CancelAndRestart(u)
        PROVE  Goal
    BY <2>6 DEF CancelAndRestart, Cancelled, ActiveStatuses
  <2>7. ASSUME NEW u \in Tasks, NEW k \in DOMAIN mail[u],
               NEW reply \in {"usable", "void"}, ReplyMailbox(u, k, reply)
        PROVE  Goal
    <3>1. \A t \in Tasks : status'[t] = status[t] \/ status'[t] \in ActiveStatuses
      BY <2>7 DEF ReplyMailbox, StatusAfterReply, TypeOK, ActiveStatuses
    <3>2. QED
      BY <1>1, <2>7, <3>1 DEF ReplyMailbox
  <2>8. QED
    BY <1>2, <2>1, <2>2, <2>3, <2>4, <2>5, <2>6, <2>7 DEF UserStep, CancelTask, CancelAll
<1>3. ASSUME NEW u \in Tasks, HandleEvent(u)
      PROVE  Goal
  <2>1. CASE HandleQuestion(u)
    <3>1. \A t \in Tasks : status'[t] = status[t] \/ status'[t] \in ActiveStatuses
      BY <2>1 DEF HandleQuestion, SetStatus, TypeOK, ActiveStatuses
    <3>2. QED
      BY <1>1, <2>1, <3>1 DEF HandleQuestion
  <2>2. CASE HandleQuestionByNote(u)
    BY <1>1, <2>2 DEF HandleQuestionByNote, AbortHandler
  <2>3. ASSUME NEW kind \in LateKinds, HandleLateEvent(u, kind)
        PROVE  Goal
    BY <1>1, <2>3 DEF HandleLateEvent, boardVars
  <2>4. ASSUME NEW kind \in LateKinds, HandleEnded(u, kind)
        PROVE  Goal
    <3>1. EndStatus(kind) \in Statuses
      BY <2>4 DEF HandleEnded, EndStatus, LateKinds, EventKinds, Statuses, TerminalStatuses
    <3>2. SetStatus(u, EndStatus(kind)) \in [Tasks -> Statuses]
      BY <3>1, SetStatusType
    <3>3. eventLoop
      BY <2>4 DEF HandleEnded, Take
    <3>4. current \notin {0, u} =>
            SetStatus(u, EndStatus(kind))[current] \in ActiveStatuses
      BY <3>3, ConstantsAssumption DEF SetStatus, CurrentIsActive, TypeOK, Tasks
    <3>5. /\ ClearCurrentIf(u, SetStatus(u, EndStatus(kind)))
          /\ Settle(SetStatus(u, EndStatus(kind)), Drop(u))
      BY <2>4 DEF HandleEnded
    <3>6. QED
      BY <3>2, <3>4, <3>5, ClearLeavesActive
  <2>5. CASE HandleCompleted(u)
    <3>1. CASE status' = SetStatus(u, "verifying") /\ UNCHANGED <<current, eventLoop>>
      <4>1. \A t \in Tasks : status'[t] = status[t] \/ status'[t] \in ActiveStatuses
        BY <3>1 DEF SetStatus, TypeOK, ActiveStatuses
      <4>2. QED
        BY <1>1, <3>1, <4>1
    <3>2. CASE Accept(u) \/ Revise(u)
      BY <2>5, <3>2, ReviewLeavesActive DEF HandleCompleted, Take
    <3>3. QED
      BY <2>5, <3>1, <3>2 DEF HandleCompleted
  <2>6. QED
    BY <1>3, <2>1, <2>2, <2>3, <2>4, <2>5 DEF HandleEvent
<1>4. ASSUME NEW v \in verifiers, NEW verdict, HandleVerdict(v, verdict)
      PROVE  Goal
  <2>1. v.task \in Tasks /\ eventLoop
    BY <1>4 DEF HandleVerdict, TypeOK, Verifiers
  <2>2. CASE Accept(v.task) \/ Revise(v.task)
    BY <2>1, <2>2, ReviewLeavesActive
  <2>3. Escalate(v.task) \in [Tasks -> Statuses]
    BY <2>1, SetStatusType DEF Escalate, Statuses, ActiveStatuses
  <2>4. current \notin {0, v.task} => Escalate(v.task)[current] \in ActiveStatuses
    BY <2>1, ConstantsAssumption DEF Escalate, SetStatus, CurrentIsActive, TypeOK, Tasks
  <2>5. CASE ClearCurrentIf(v.task, Escalate(v.task)) /\ Settle(Escalate(v.task), workers)
    BY <2>1, <2>3, <2>4, <2>5, ClearLeavesActive
  <2>6. CASE status' = Escalate(v.task) /\ UNCHANGED <<current, eventLoop>>
    <3>1. \A t \in Tasks : status'[t] = status[t] \/ status'[t] \in ActiveStatuses
      BY <2>1, <2>6 DEF Escalate, SetStatus, TypeOK, ActiveStatuses
    <3>2. QED
      BY <1>1, <2>6, <3>1
  <2>7. QED
    BY <1>4, <2>2, <2>5, <2>6 DEF HandleVerdict
<1>5. ASSUME NEW u \in Tasks, WorkerStep(u) \/ WorkerDies(u)
      PROVE  Goal
  BY <1>1, <1>5 DEF WorkerStep, WorkerDies, WorkerAsk, WorkerAnswered, WorkerDiscards,
    WorkerCompletes, WorkerTakesFollowup, WorkerFails, CoordinatorUnchanged, boardVars
<1>6. ASSUME NEW v \in verifiers, VerifierStalls(v)
      PROVE  Goal
  BY <1>1, <1>6 DEF VerifierStalls, boardVars
<1>7. CASE Restart
  BY <1>7 DEF Restart
<1>8. CASE UNCHANGED vars
  BY <1>1, <1>8 DEF vars, boardVars
<1>9. QED
  BY <1>2, <1>3, <1>4, <1>5, <1>6, <1>7, <1>8 DEF Next, VerifierVerdict

\* The task the user means by "the current task" has not ended, for as long as
\* the event thread is alive.
THEOREM CurrentAlwaysActive == Spec => []CurrentIsActive
<1>1. Init => CurrentIsActive
  BY DEF Init, CurrentIsActive
<1>2. QED
  BY <1>1, CurrentStep, TypeCorrect, PTL DEF Spec
-----------------------------------------------------------------------------
\* The statuses in which a task may not have a handle.
Over == {"accepted", "failed", "blocked"}

\* Where a review leaves the handles: an accepted task has lost its own, and only
\* a task that starts gains one.
LEMMA ReviewHandles ==
  ASSUME TypeOK, NEW t \in Tasks, Accept(t) \/ Revise(t), eventLoop'
  PROVE  /\ \A u \in workers' : u \in workers \/ status'[u] = "running"
         /\ status'[t] = "accepted" => t \notin workers'
<1>1. CASE Accept(t)
  <2>1. Settle(SetStatus(t, "accepted"), Drop(t))
    BY <1>1 DEF Accept, AbortHandler
  <2>2. SetStatus(t, "accepted") \in [Tasks -> Statuses]
    BY SetStatusType DEF Statuses, TerminalStatuses
  <2>3. \A u \in workers' : u \in Drop(t) \/ status'[u] = "running"
    BY <2>1, <2>2, SettleEffect
  <2>4. QED
    BY <2>3 DEF Drop
<1>2. CASE Revise(t)
  <2>1. PICK s \in Statuses : Settle(SetStatus(t, s), workers)
    BY <1>2 DEF Revise, Refused, Escalate, AbortHandler, Statuses, ActiveStatuses,
      TerminalStatuses
  <2>2. \A u \in workers' : u \in workers \/ status'[u] = "running"
    BY <2>1, SetStatusType, SettleEffect
  <2>3. QED
    BY <1>2, <2>2, ReviseMoves DEF Moves
<1>3. QED
  BY <1>1, <1>2

\* No step leaves a handle to a task that has ended by itself.
LEMMA EndedStep == TypeOK /\ EndedTaskHasNoWorker /\ [Next]_vars => EndedTaskHasNoWorker'
<1> SUFFICES ASSUME TypeOK, EndedTaskHasNoWorker, [Next]_vars, eventLoop',
                    NEW t \in Tasks, status'[t] \in Over
             PROVE  t \notin workers'
  BY DEF EndedTaskHasNoWorker, Over
<1> DEFINE Kept == /\ eventLoop
                   /\ status'[t] = status[t]
                   /\ t \in workers' => t \in workers
<1>1. ASSUME Kept PROVE t \notin workers'
  BY <1>1 DEF EndedTaskHasNoWorker, Over
<1>2. CASE UserStep
  <2>1. ASSUME NEW isThread \in BOOLEAN, StartNewTask(isThread)
        PROVE  Kept
    BY <2>1 DEF StartNewTask, TypeOK, Over
  <2>2. ASSUME NEW C \in SUBSET (1..added), QueueTask(C)
        PROVE  Kept
    BY <2>2 DEF QueueTask, TypeOK, Over, peerVars
  <2>3. ASSUME NEW u \in Tasks, AttachToTask(u)
        PROVE  Kept
    BY <2>3 DEF AttachToTask, boardVars, peerVars
  <2>4. ASSUME NEW u \in Tasks, TalkDecision(u)
        PROVE  Kept
    BY <2>4 DEF TalkDecision, TypeOK, Over, peerVars
  <2>5. ASSUME NEW T \in SUBSET Tasks, CancelAndStartNext(T)
        PROVE  Kept
    <3>1. UNCHANGED eventLoop
      BY <2>5 DEF CancelAndStartNext
    <3>2. QED
      BY <2>5, <3>1, CancelEffect DEF Over
  <2>6. ASSUME NEW u \in Tasks, CancelAndRestart(u)
        PROVE  Kept
    BY <2>6 DEF CancelAndRestart, Cancelled, Over
  <2>7. ASSUME NEW u \in Tasks, NEW k \in DOMAIN mail[u],
               NEW reply \in {"usable", "void"}, ReplyMailbox(u, k, reply)
        PROVE  Kept
    BY <2>7 DEF ReplyMailbox, StatusAfterReply, TypeOK, Over
  <2>8. QED
    BY <1>1, <1>2, <2>1, <2>2, <2>3, <2>4, <2>5, <2>6, <2>7
    DEF UserStep, CancelTask, CancelAll
<1>3. ASSUME NEW u \in Tasks, HandleEvent(u)
      PROVE  t \notin workers'
  <2>1. CASE HandleQuestion(u) \/ HandleQuestionByNote(u)
    BY <1>1, <2>1
    DEF HandleQuestion, HandleQuestionByNote, AbortHandler, SetStatus, TypeOK, Over
  <2>2. ASSUME NEW kind \in LateKinds, HandleLateEvent(u, kind)
        PROVE  Kept
    BY <2>2 DEF HandleLateEvent, boardVars, peerVars
  <2>3. ASSUME NEW kind \in LateKinds, HandleEnded(u, kind)
        PROVE  t \notin workers'
    <3>1. EndStatus(kind) \in Statuses
      BY <2>3 DEF HandleEnded, EndStatus, LateKinds, EventKinds, Statuses, TerminalStatuses
    <3>2. /\ Settle(SetStatus(u, EndStatus(kind)), Drop(u))
          /\ eventLoop
      BY <2>3 DEF HandleEnded, Take
    <3>3. \A w \in workers' : w \in Drop(u) \/ status'[w] = "running"
      BY <3>1, <3>2, SetStatusType, SettleEffect
    <3>4. CASE t = u
      BY <3>3, <3>4 DEF Drop, Over
    <3>5. CASE t # u
      BY <1>1, <2>3, <3>2, <3>3, <3>5, EndedMoves DEF Moves, Drop, Over
    <3>6. QED
      BY <3>4, <3>5
  <2>4. CASE HandleCompleted(u)
    <3>1. eventLoop
      BY <2>4 DEF HandleCompleted, Take
    <3>2. CASE status' = SetStatus(u, "verifying") /\ UNCHANGED workers
      BY <1>1, <3>1, <3>2 DEF SetStatus, TypeOK, Over
    <3>3. CASE Accept(u) \/ Revise(u)
      <4>1. CASE t = u
        BY <3>3, <4>1, ReviewHandles, ReviseMoves, AcceptMoves DEF Moves, Over
      <4>2. CASE t # u
        BY <1>1, <3>1, <3>3, <4>2, ReviewHandles, ReviseMoves, AcceptMoves DEF Moves, Over
      <4>3. QED
        BY <4>1, <4>2
    <3>4. QED
      BY <2>4, <3>2, <3>3 DEF HandleCompleted
  <2>5. QED
    BY <1>1, <1>3, <2>1, <2>2, <2>3, <2>4 DEF HandleEvent
<1>4. ASSUME NEW v \in verifiers, NEW verdict, HandleVerdict(v, verdict)
      PROVE  t \notin workers'
  <2>1. v.task \in Tasks /\ eventLoop
    BY <1>4 DEF HandleVerdict, TypeOK, Verifiers
  <2>2. Moves(v.task, Judged)
    BY <1>4, VerdictMoves
  <2>3. /\ \A u \in workers' : u \in workers \/ status'[u] = "running"
        /\ status'[v.task] = "accepted" => v.task \notin workers'
    <3>1. CASE Accept(v.task) \/ Revise(v.task)
      BY <2>1, <3>1, ReviewHandles
    <3>2. CASE Settle(Escalate(v.task), workers)
      <4>1. Escalate(v.task) \in [Tasks -> Statuses]
        BY <2>1, SetStatusType DEF Escalate, Statuses, ActiveStatuses
      <4>2. Moves(v.task, {"needs_user_decision"})
        BY <2>1, <3>2, SettleMoves DEF Escalate, Statuses, ActiveStatuses
      <4>3. QED
        BY <3>2, <4>1, <4>2, SettleEffect DEF Moves
    <3>3. CASE status' = Escalate(v.task) /\ UNCHANGED workers
      BY <2>1, <3>3 DEF Escalate, SetStatus, TypeOK
    <3>4. QED
      BY <1>4, <3>1, <3>2, <3>3 DEF HandleVerdict
  <2>4. CASE t = v.task
    BY <2>2, <2>3, <2>4 DEF Moves, Judged, Over
  <2>5. CASE t # v.task
    BY <1>1, <2>1, <2>2, <2>3, <2>5 DEF Moves, Over
  <2>6. QED
    BY <2>4, <2>5
<1>5. ASSUME NEW u \in Tasks, WorkerStep(u) \/ WorkerDies(u)
      PROVE  Kept
  BY <1>5 DEF WorkerStep, WorkerDies, WorkerAsk, WorkerAnswered, WorkerDiscards,
    WorkerCompletes, WorkerTakesFollowup, WorkerFails, CoordinatorUnchanged,
    boardVars, peerVars
<1>6. ASSUME NEW v \in verifiers, VerifierStalls(v)
      PROVE  Kept
  BY <1>6 DEF VerifierStalls, boardVars
<1>7. CASE Restart
  BY <1>7, RestartEffect DEF Over
<1>8. CASE UNCHANGED vars
  BY <1>1, <1>8 DEF vars, boardVars, peerVars
<1>9. QED
  BY <1>1, <1>2, <1>3, <1>4, <1>5, <1>6, <1>7, <1>8 DEF Next, VerifierVerdict

\* A task that was accepted, failed or blocked has no handle any more, so no
\* message and no feedback can be sent to its worker.
THEOREM EndedTaskNeverHasWorker == Spec => []EndedTaskHasNoWorker
<1>1. Init => EndedTaskHasNoWorker
  BY DEF Init, EndedTaskHasNoWorker
<1>2. QED
  BY <1>1, EndedStep, TypeCorrect, PTL DEF Spec
=============================================================================
