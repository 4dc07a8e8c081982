--------------------------- MODULE TaskCoordinator ---------------------------
(***************************************************************************)
(* The background-task coordinator of async_runtime/coordinator.py and the *)
(* workers at the other end of its pipes.                                  *)
(*                                                                         *)
(* The coordinator keeps a registry of tasks (tasks.py), a mailbox of      *)
(* worker questions (mailbox.py), a table of worker handles and a table of *)
(* verifier workers.  Every handler runs under one lock, so each is one    *)
(* action.  What interleaves is everything around the lock: the user's     *)
(* commands, each worker's own steps, the worker's events waiting in its   *)
(* pipe and in the event queue, the verifiers' verdicts, and restarts.     *)
(*                                                                         *)
(* Tasks are numbered in the order the registry adds them, which is the    *)
(* order its dictionary iterates in.                                       *)
(***************************************************************************)
EXTENDS Naturals, Sequences, FiniteSets

CONSTANTS
  MaxTasks,             \* bound: tasks ever added to the registry
  MaxRevisionAttempts,  \* CoordinatorConfig.max_revision_attempts
  UseVerifierWorker,    \* _use_verifier_worker: review by a worker, or inline
  QuestionDecider,      \* a question_decider is configured
  MaxUserTurns,         \* bound: messages and decisions the user sends to workers
  MaxQuestions,         \* bound: questions one worker asks
  ThreadWorkers,        \* foreground tasks may be promoted to workers
  WorkersMayDie,        \* a worker process may vanish without a last event
  VerifiersMayAsk,      \* a verifier may ask for an approval
  VoidReplies,          \* an approval may be answered with decision "none"
  MayRestart            \* the coordinator process may stop or crash, and restart

ASSUME ConstantsAssumption ==
  /\ MaxTasks \in Nat
  /\ MaxRevisionAttempts \in Nat
  /\ MaxUserTurns \in Nat
  /\ MaxQuestions \in Nat
  /\ UseVerifierWorker \in BOOLEAN
  /\ QuestionDecider \in BOOLEAN
  /\ ThreadWorkers \in BOOLEAN
  /\ WorkersMayDie \in BOOLEAN
  /\ VerifiersMayAsk \in BOOLEAN
  /\ VoidReplies \in BOOLEAN
  /\ MayRestart \in BOOLEAN

VARIABLES
  added,      \* how many tasks the registry holds
  status,     \* TaskRecord.status, "absent" before the task is added
  overlaps,   \* earlier tasks whose files, modules or domains the task shares
  conflicts,  \* TaskRecord.conflicts_with
  attempts,   \* TaskRecord.revision_attempts
  subs,       \* len(TaskRecord.worker_submissions)
  current,    \* TaskRegistry.current_task_id, 0 for None
  workers,    \* keys of _workers
  threads,    \* the tasks whose handle is a ForegroundWorkerHandle
  verifiers,  \* keys of _verifier_workers: [task, round]
  silent,     \* those of them that wait for an answer nobody will send
  mail,       \* MailboxStore: per task, the status of each question, in order
  eventLoop,  \* the thread of _run_worker_events is alive
  disk,       \* what tasks/index.json and tasks/mailbox.json hold
  proc,       \* the worker's own state
  inbox,      \* commands in the worker's stdin
  answer,     \* an answer_question on its way to the worker
  events,     \* the worker's events that are not handled yet
  turns       \* messages and decisions sent so far (bounded)

boardVars == <<added, status, overlaps, conflicts, attempts, subs, current>>
peerVars  == <<workers, threads, verifiers, silent, mail>>
workVars  == <<proc, inbox, answer, events>>
vars      == <<boardVars, peerVars, workVars, eventLoop, disk, turns>>

Tasks == 1..MaxTasks

TerminalStatuses == {"accepted", "rejected", "failed", "blocked", "cancelled"}
ActiveStatuses == {"waiting", "running", "needs_user", "verifying",
                   "needs_revision", "needs_user_decision"}
Statuses == {"absent"} \cup ActiveStatuses \cup TerminalStatuses

\* Mutants: recovery forgets the tasks under review, or includes ended ones.
StaleWithoutVerifying == {"running", "needs_user", "needs_revision"}
StaleWithBlocked == {"running", "needs_user", "verifying", "needs_revision", "blocked"}

\* The statuses that _recover_loaded_registry declares failed.
StaleStatuses == {"running", "needs_user", "verifying", "needs_revision"}

\* Mutant: a failed task keeps blocking the queue.
BlockingWithFailed == {"running", "needs_user", "failed"}

\* The statuses that keep a queued task waiting in _try_start_waiting_locked.
BlockingStatuses == {"running", "needs_user"}

EventKinds == {"question", "completed", "failed", "cancelled",
               "reported_failed", "reported_blocked"}

\* The events a task that has ended no longer listens to.
LateKinds == EventKinds \ {"question"}

\* "taken" is the place of a message that was read out of its turn.
Commands == {"append", "feedback", "accepted", "taken"}
ProcStates == {"none", "busy", "asking", "submitted", "exited"}
Live == {"busy", "asking", "submitted"}
MailStatuses == {"pending", "answered", "cancelled"}
Verdicts == {"ACCEPTED", "NEEDS_REVISION", "NEEDS_USER_DECISION"}

Verifiers == [task : Tasks, round : Nat]

DiskImage == [added : 0..MaxTasks, status : [Tasks -> Statuses],
              conflicts : [Tasks -> SUBSET Tasks], attempts : [Tasks -> Nat],
              subs : [Tasks -> Nat], mail : [Tasks -> Seq(MailStatuses)]]
-----------------------------------------------------------------------------
(***************************************************************************)
(* Helpers of the handlers.                                                *)
(***************************************************************************)

Pending(t) == {k \in DOMAIN mail[t] : mail[t][k] = "pending"}

CancelPending(box) ==
  [k \in DOMAIN box |-> IF box[k] = "pending" THEN "cancelled" ELSE box[k]]

\* Both files are rewritten at the end of a handler.
Persist ==
  disk' = [added |-> added', status |-> status', conflicts |-> conflicts',
           attempts |-> attempts', subs |-> subs', mail |-> mail']

\* An event handler that was aborted by an exception saves nothing.
PersistUnlessAborted == IF eventLoop' THEN Persist ELSE UNCHANGED disk

\* active()[-1] of the registry, 0 when nothing is active.
LastActive(S) ==
  {c \in 0..MaxTasks :
     /\ c = 0 \/ (c \in Tasks /\ S[c] \in ActiveStatuses)
     /\ \A x \in Tasks : S[x] \in ActiveStatuses => x <= c}

ClearCurrentIf(t, S) ==
  IF current = t THEN current' \in LastActive(S) ELSE UNCHANGED current

\* A write to the pipe of a process that is gone raises BrokenPipeError.
SendFails(t) == t \in workers \ threads /\ proc[t] \in {"exited", "none"}

\* Mutant: a command replaces the ones the worker has not read.
DeliverOverwriting(t, command) ==
  IF t \in workers \ threads THEN [inbox EXCEPT ![t] = <<command>>] ELSE inbox

\* The inbox after _send_to_worker.  Nobody reads the inbox of a promoted
\* foreground turn once the turn is over, and it is not kept here.
Deliver(t, command) ==
  IF t \in workers \ threads
    THEN [inbox EXCEPT ![t] = Append(@, command)] ELSE inbox

\* Mutant: the handle stays.
Keep(t) == workers

\* _workers.pop(task_id).
Drop(t) == workers \ {t}

Startable(S, C) ==
  {w \in Tasks : S[w] = "waiting" /\ \A c \in C[w] : S[c] \notin BlockingStatuses}

\* _try_start_waiting_locked after a handler that leads to statuses S,
\* conflicts C, worker table W and worker states P: the first task in the
\* registry's order that may run is started, and only that one.
TryStartWaiting(S, C, W, P) ==
  \/ /\ Startable(S, C) = {}
     /\ status' = S
     /\ conflicts' = C
     /\ workers' = W
     /\ proc' = P
  \/ \E w \in Startable(S, C) :
       /\ \A x \in Startable(S, C) : w <= x
       /\ status' = [S EXCEPT ![w] = "running"]
       /\ conflicts' = [C EXCEPT ![w] = {}]
       /\ workers' = W \cup {w}
       /\ proc' = [P EXCEPT ![w] = "busy"]

\* An exception in the event thread after the status was set in memory: the
\* handler ends there, nothing is saved and no event is handled any more.
AbortHandler(S) ==
  /\ status' = S
  /\ eventLoop' = FALSE
  /\ UNCHANGED <<conflicts, workers, proc, current, inbox>>
-----------------------------------------------------------------------------
(***************************************************************************)
(* Initial state.                                                          *)
(***************************************************************************)

Init ==
  /\ added = 0
  /\ status = [t \in Tasks |-> "absent"]
  /\ overlaps = [t \in Tasks |-> {}]
  /\ conflicts = [t \in Tasks |-> {}]
  /\ attempts = [t \in Tasks |-> 0]
  /\ subs = [t \in Tasks |-> 0]
  /\ current = 0
  /\ workers = {}
  /\ threads = {}
  /\ verifiers = {}
  /\ silent = {}
  /\ mail = [t \in Tasks |-> <<>>]
  /\ eventLoop = TRUE
  /\ disk = [added |-> added, status |-> status, conflicts |-> conflicts,
             attempts |-> attempts, subs |-> subs, mail |-> mail]
  /\ proc = [t \in Tasks |-> "none"]
  /\ inbox = [t \in Tasks |-> <<>>]
  /\ answer = [t \in Tasks |-> "none"]
  /\ events = [t \in Tasks |-> <<>>]
  /\ turns = 0
-----------------------------------------------------------------------------
(***************************************************************************)
(* The user's commands.                                                    *)
(***************************************************************************)

\* start_new_task, and the promotion of a foreground turn to a worker.
StartNewTask(isThread) ==
  LET t == added + 1 IN
  /\ t \in Tasks
  /\ isThread => ThreadWorkers
  /\ added' = t
  /\ current' = t
  /\ status' = [status EXCEPT ![t] = "running"]
  /\ workers' = workers \cup {t}
  /\ threads' = IF isThread THEN threads \cup {t} ELSE threads
  /\ proc' = [proc EXCEPT ![t] = "busy"]
  /\ UNCHANGED <<overlaps, conflicts, attempts, subs, verifiers, silent, mail,
                 inbox, answer, events, eventLoop, turns>>
  /\ Persist

\* queue_task: the scheduler names the tasks the new one shares files, modules
\* or domains with, and at least one of them is running or asking.
QueueTask(C) ==
  LET t == added + 1 IN
  /\ t \in Tasks
  /\ \E c \in C : status[c] \in {"running", "needs_user"}
  /\ added' = t
  /\ current' = t
  /\ status' = [status EXCEPT ![t] = "waiting"]
  /\ overlaps' = [overlaps EXCEPT ![t] = C]
  /\ conflicts' = [conflicts EXCEPT ![t] = C]
  /\ UNCHANGED <<attempts, subs, peerVars, workVars, eventLoop, turns>>
  /\ Persist

\* attach_to_task: the message goes to the worker whatever the task's status.
AttachToTask(t) ==
  /\ turns < MaxUserTurns
  /\ t \in workers
  /\ ~SendFails(t)
  /\ turns' = turns + 1
  /\ inbox' = Deliver(t, "append")
  /\ UNCHANGED <<boardVars, peerVars, proc, answer, events, eventLoop>>
  /\ Persist

\* talk_to_peer on a task that needs a user decision and has a worker: the task
\* runs again.  The status is set before the message is written, so a dead
\* worker leaves it running in memory, unsaved.
TalkDecision(t) ==
  /\ turns < MaxUserTurns
  /\ t \in workers
  /\ status[t] = "needs_user_decision"
  /\ turns' = turns + 1
  /\ status' = [status EXCEPT ![t] = "running"]
  /\ UNCHANGED <<added, overlaps, conflicts, attempts, subs, current, peerVars,
                 proc, answer, events, eventLoop>>
  /\ IF SendFails(t)
       THEN UNCHANGED <<inbox, disk>>
       ELSE inbox' = Deliver(t, "feedback") /\ Persist

\* Mutant: looks for pending questions before the reply is recorded.
StatusBeforeReply(t, k) ==
  IF Pending(t) = {} /\ status[t] = "needs_user"
    THEN [status EXCEPT ![t] = "running"] ELSE status

\* _mark_mailbox_question_answered_locked, for an answer to question k.
StatusAfterReply(t, k) ==
  IF Pending(t) = {k} /\ status[t] = "needs_user"
    THEN [status EXCEPT ![t] = "running"] ELSE status

\* Mutant: the answer only goes out while the task shows that it waits.
AnswerSentIfWaiting(t, reply) ==
  IF t \in workers /\ status[t] = "needs_user"
    THEN [answer EXCEPT ![t] = reply] ELSE answer

AnswerSent(t, reply) ==
  IF t \in workers THEN [answer EXCEPT ![t] = reply] ELSE answer

\* reply_mailbox_message: the answer is recorded under the lock and written to
\* the worker after the lock is released.  "void" is an approval answered with
\* decision "none", which the worker's wait does not accept.
ReplyMailbox(t, k, reply) ==
  /\ k \in Pending(t)
  /\ reply = "void" => VoidReplies /\ t \notin threads
  /\ mail' = [mail EXCEPT ![t][k] = "answered"]
  /\ status' = StatusAfterReply(t, k)
  /\ answer' = AnswerSent(t, reply)
  /\ UNCHANGED <<added, overlaps, conflicts, attempts, subs, current, workers,
                 threads, verifiers, silent, proc, inbox, events, eventLoop,
                 turns>>
  /\ Persist

-----------------------------------------------------------------------------
(***************************************************************************)
(* Cancellation.                                                           *)
(***************************************************************************)

\* What a process still writes between the cancel command and its death.  One
\* that is killed after the timeout writes nothing more.
Farewells(t) ==
  CASE t \in threads -> {<<>>}
    [] t \in workers \ threads /\ proc[t] = "busy" ->
         {<<>>, <<"failed">>, <<"cancelled">>, <<"completed", "cancelled">>}
           \cup IF Len(mail[t]) < MaxQuestions THEN {<<"question", "failed">>} ELSE {}
    [] t \in workers \ threads /\ proc[t] = "asking" -> {<<>>, <<"failed">>}
    [] t \in workers \ threads /\ proc[t] = "submitted" ->
         {<<>>, <<"cancelled">>}
    [] OTHER -> {<<>>}

\* _terminate_verifiers_for_task_locked: those of the tasks of T are dropped.
Spared(vs, T) == {v \in vs : v.task \notin T}

LastWords == UNION {Farewells(t) : t \in Tasks}

\* _cancel_task_locked for each task of T: the questions are withdrawn and the
\* verifiers terminated; the process is gone when terminate() returns, the
\* thread of a foreground turn is only flagged.  The handle stays in _workers.
CancelTasks(T) ==
  /\ \E f \in [T -> LastWords] :
       /\ \A t \in T : f[t] \in Farewells(t)
       /\ events' = [t \in Tasks |-> IF t \in T THEN events[t] \o f[t]
                                               ELSE events[t]]
  /\ mail' = [t \in Tasks |-> IF t \in T THEN CancelPending(mail[t]) ELSE mail[t]]
  /\ verifiers' = Spared(verifiers, T)
  /\ silent' = silent \cap verifiers'

\* The worker states once the processes of T are gone.
Gone(T) ==
  [t \in Tasks |-> IF t \in T /\ t \in workers \ threads /\ proc[t] \in Live
                     THEN "exited" ELSE proc[t]]

Cancelled(T) == [t \in Tasks |-> IF t \in T THEN "cancelled" ELSE status[t]]

CancelAndStartNext(T) ==
  /\ CancelTasks(T)
  /\ IF current \in T THEN current' \in LastActive(Cancelled(T))
                       ELSE UNCHANGED current
  /\ TryStartWaiting(Cancelled(T), conflicts, workers, Gone(T))
  /\ UNCHANGED <<added, overlaps, attempts, subs, threads, inbox, answer,
                 eventLoop, turns>>
  /\ Persist

\* cancel_background_task, and cancel_current for the current task.
CancelTask(t) ==
  /\ status[t] \in ActiveStatuses
  /\ CancelAndStartNext({t})

CancelAll ==
  LET T == {t \in Tasks : status[t] \in ActiveStatuses} IN
  /\ T # {}
  /\ CancelAndStartNext(T)

\* cancel_and_restart: the target is an active task the scheduler was shown.
CancelAndRestart(t) ==
  LET new == added + 1 IN
  /\ status[t] \in ActiveStatuses
  /\ new \in Tasks
  /\ CancelTasks({t})
  /\ added' = new
  /\ current' = new
  /\ status' = [Cancelled({t}) EXCEPT ![new] = "running"]
  /\ workers' = workers \cup {new}
  /\ proc' = [Gone({t}) EXCEPT ![new] = "busy"]
  /\ UNCHANGED <<overlaps, conflicts, attempts, subs, threads, inbox, answer,
                 eventLoop, turns>>
  /\ Persist
-----------------------------------------------------------------------------
(***************************************************************************)
(* The review of a submission.                                             *)
(***************************************************************************)

SetStatus(t, s) == [status EXCEPT ![t] = s]

\* Mutant: the user is told and the status is left as it was.
EscalateSilently(t) == status

\* The user has to decide.
Escalate(t) == SetStatus(t, "needs_user_decision")

\* Mutant: no waiting task is started.
SettleWithoutStart(S, W) ==
  /\ status' = S
  /\ workers' = W
  /\ UNCHANGED <<conflicts, proc, eventLoop>>

\* The end of most handlers: one waiting task may start.
Settle(S, W) ==
  /\ TryStartWaiting(S, conflicts, W, proc)
  /\ UNCHANGED eventLoop

Accept(t) ==
  /\ UNCHANGED attempts
  /\ \/ /\ SendFails(t)
        /\ AbortHandler(SetStatus(t, "accepted"))
     \/ /\ ~SendFails(t)
        /\ inbox' = Deliver(t, "accepted")
        /\ ClearCurrentIf(t, SetStatus(t, "accepted"))
        /\ Settle(SetStatus(t, "accepted"), Drop(t))

\* The status of a task whose result is refused and may not be revised.
Refused == IF UseVerifierWorker THEN "needs_user_decision" ELSE "rejected"

\* _start_revision_if_available_locked and what its caller does when it
\* returns False.
Revise(t) ==
  \/ /\ MaxRevisionAttempts = 0
     /\ ClearCurrentIf(t, SetStatus(t, Refused))
     /\ Settle(SetStatus(t, Refused), workers)
     /\ UNCHANGED <<attempts, inbox>>
  \/ /\ MaxRevisionAttempts > 0
     /\ attempts[t] >= MaxRevisionAttempts
     /\ Settle(Escalate(t), workers)
     /\ UNCHANGED <<attempts, inbox, current>>
  \/ /\ attempts[t] < MaxRevisionAttempts
     /\ attempts' = [attempts EXCEPT ![t] = @ + 1]
     /\ \/ /\ t \notin workers
           /\ Settle(Escalate(t), workers)
           /\ UNCHANGED <<inbox, current>>
        \/ /\ SendFails(t)
           /\ AbortHandler(SetStatus(t, "needs_revision"))
        \/ /\ t \in workers
           /\ ~SendFails(t)
           /\ inbox' = Deliver(t, "feedback")
           /\ Settle(SetStatus(t, "needs_revision"), workers)
           /\ UNCHANGED current

\* Mutant: the verifier stays registered.
RetireLater(v) == verifiers

\* _verifier_workers.pop(verifier_id).
Retire(v) == verifiers \ {v}

\* The last event of a verifier.  The task's own status is not looked at.  The
\* verdict "unreadable" also stands for a verifier that failed.
HandleVerdict(v, verdict) ==
  LET t == v.task IN
  /\ eventLoop
  /\ v \in verifiers \ silent
  /\ verifiers' = Retire(v)
  /\ \/ verdict = "ACCEPTED" /\ Accept(t)
     \/ verdict = "NEEDS_REVISION" /\ Revise(t)
     \/ /\ verdict = "NEEDS_USER_DECISION"
        /\ ClearCurrentIf(t, Escalate(t))
        /\ Settle(Escalate(t), workers)
        /\ UNCHANGED <<attempts, inbox>>
     \/ /\ verdict = "unreadable"
        /\ status' = Escalate(t)
        /\ UNCHANGED <<attempts, inbox, current, conflicts, workers, proc, eventLoop>>
  /\ UNCHANGED <<added, overlaps, subs, threads, silent, mail, answer, events, turns>>
  /\ PersistUnlessAborted

\* The verifier asks for an approval, which its parent's handler ignores, or its
\* process vanishes: either way no verdict follows.
VerifierStalls(v) ==
  /\ VerifiersMayAsk \/ WorkersMayDie
  /\ v \in verifiers \ silent
  /\ silent' = silent \cup {v}
  /\ UNCHANGED <<boardVars, workers, threads, verifiers, mail, workVars,
                 eventLoop, disk, turns>>
-----------------------------------------------------------------------------
(***************************************************************************)
(* The worker events: one handler per event, run by the event thread.      *)
(***************************************************************************)

\* The oldest event of worker t is taken from the queue.
Take(t, kind) ==
  /\ eventLoop
  /\ events[t] # <<>>
  /\ Head(events[t]) = kind
  /\ events' = [events EXCEPT ![t] = Tail(@)]

\* The task has ended and the event is one it ignores from then on.
HandleLateEvent(t, kind) ==
  /\ status[t] \in TerminalStatuses
  /\ kind \in LateKinds
  /\ Take(t, kind)
  /\ UNCHANGED <<boardVars, peerVars, proc, inbox, answer, eventLoop, disk, turns>>

\* A question is recorded whatever the status, and the user is asked.
HandleQuestion(t) ==
  /\ Take(t, "question")
  /\ mail' = [mail EXCEPT ![t] = Append(@, "pending")]
  /\ status' = SetStatus(t, "needs_user")
  /\ UNCHANGED <<added, overlaps, conflicts, attempts, subs, current, workers,
                 threads, verifiers, silent, proc, inbox, answer, eventLoop, turns>>
  /\ Persist

\* The decider answers for the user; it may also leave the question to them.
HandleQuestionByNote(t) ==
  /\ QuestionDecider
  /\ Take(t, "question")
  /\ mail' = [mail EXCEPT ![t] = Append(@, "answered")]
  /\ \/ SendFails(t) /\ AbortHandler(status) /\ UNCHANGED answer
     \/ /\ ~SendFails(t)
        /\ answer' = AnswerSent(t, "usable")
        /\ UNCHANGED <<status, conflicts, workers, proc, current, inbox, eventLoop>>
  /\ UNCHANGED <<added, overlaps, attempts, subs, threads, verifiers, silent, turns>>
  /\ PersistUnlessAborted

\* A submission goes to a new verifier worker, or is judged on the spot.
HandleCompleted(t) ==
  /\ status[t] \notin TerminalStatuses
  /\ Take(t, "completed")
  /\ subs' = [subs EXCEPT ![t] = @ + 1]
  /\ \/ /\ UseVerifierWorker
        /\ status' = SetStatus(t, "verifying")
        /\ verifiers' = verifiers \cup {[task |-> t, round |-> subs[t] + 1]}
        /\ UNCHANGED <<conflicts, attempts, current, workers, proc, inbox, eventLoop>>
     \/ /\ ~UseVerifierWorker
        /\ Accept(t) \/ Revise(t)
        /\ UNCHANGED verifiers
  /\ UNCHANGED <<added, overlaps, threads, silent, mail, answer, turns>>
  /\ PersistUnlessAborted

\* The final status an event of this kind leads to.
EndStatus(kind) == CASE kind \in {"failed", "reported_failed"} -> "failed"
                     [] kind = "reported_blocked" -> "blocked"
                     [] kind = "cancelled" -> "cancelled"

\* failed, cancelled, and the reports of failure: the handle is dropped.  The
\* verifiers and the pending questions of the task are left alone.
HandleEnded(t, kind) ==
  /\ status[t] \notin TerminalStatuses
  /\ kind \in LateKinds \ {"completed"}
  /\ Take(t, kind)
  /\ ClearCurrentIf(t, SetStatus(t, EndStatus(kind)))
  /\ Settle(SetStatus(t, EndStatus(kind)), Drop(t))
  /\ UNCHANGED <<added, overlaps, attempts, subs, threads, verifiers, silent, mail,
                 inbox, answer, turns>>
  /\ Persist

HandleEvent(t) ==
  \/ HandleQuestion(t)
  \/ HandleQuestionByNote(t)
  \/ HandleCompleted(t)
  \/ \E kind \in LateKinds : HandleLateEvent(t, kind) \/ HandleEnded(t, kind)
-----------------------------------------------------------------------------
(***************************************************************************)
(* The worker: worker_main.py in a process, or a promoted foreground turn. *)
(***************************************************************************)

CoordinatorUnchanged == UNCHANGED <<boardVars, peerVars, eventLoop, disk, turns>>

Emit(t, kind) == events' = [events EXCEPT ![t] = Append(@, kind)]
Becomes(t, state) == proc' = [proc EXCEPT ![t] = state]

\* _approve_via_parent, _talk_via_parent, request_approval: ask, then wait.
WorkerAsk(t) ==
  /\ proc[t] = "busy"
  /\ Len(mail[t]) < MaxQuestions
  /\ Becomes(t, "asking")
  /\ Emit(t, "question")
  /\ UNCHANGED <<inbox, answer>>
  /\ CoordinatorUnchanged

\* An approval waits on until the decision is "approved" or "denied".
WorkerAnswered(t) ==
  /\ proc[t] = "asking"
  /\ answer[t] # "none"
  /\ IF answer[t] = "usable" THEN Becomes(t, "busy") ELSE UNCHANGED proc
  /\ answer' = [answer EXCEPT ![t] = "none"]
  /\ UNCHANGED <<inbox, events>>
  /\ CoordinatorUnchanged

\* A worker that waits for an answer reads its inbox and drops what is not one.
WorkerDiscards(t) ==
  /\ proc[t] = "asking"
  /\ inbox[t] # <<>>
  /\ inbox' = [inbox EXCEPT ![t] = Tail(@)]
  /\ UNCHANGED <<proc, answer, events>>
  /\ CoordinatorUnchanged

\* drain_appends: the messages are taken, the other commands keep their order.
Drained(box) ==
  [k \in DOMAIN box |-> IF box[k] = "append" THEN "taken" ELSE box[k]]

\* The turn ends with an answer.  Messages that came in meanwhile are worked on
\* first; otherwise the answer is submitted.  A foreground thread ends here.
WorkerCompletes(t) ==
  /\ proc[t] = "busy"
  /\ \/ /\ \E k \in DOMAIN inbox[t] : inbox[t][k] = "append"
        /\ inbox' = [inbox EXCEPT ![t] = Drained(@)]
        /\ UNCHANGED <<proc, events>>
     \/ /\ \A k \in DOMAIN inbox[t] : inbox[t][k] # "append"
        /\ Emit(t, "completed")
        /\ Becomes(t, IF t \in threads THEN "exited" ELSE "submitted")
        /\ UNCHANGED inbox
  /\ UNCHANGED answer
  /\ CoordinatorUnchanged

\* Mutant: feedback is not taken for new work.
AfterCommandOnlyAppends(command) ==
  CASE command = "accepted" -> "exited"
    [] command = "append" -> "busy"
    [] OTHER -> "submitted"

AfterCommand(command) ==
  CASE command = "accepted" -> "exited"
    [] command \in {"append", "feedback"} -> "busy"
    [] OTHER -> "submitted"

\* _wait_for_review_followup.
WorkerTakesFollowup(t) ==
  /\ proc[t] = "submitted"
  /\ inbox[t] # <<>>
  /\ inbox' = [inbox EXCEPT ![t] = Tail(@)]
  /\ Becomes(t, AfterCommand(Head(inbox[t])))
  /\ UNCHANGED <<answer, events>>
  /\ CoordinatorUnchanged

\* The turn fails.  The "reported" event of the protocol is not sent by
\* worker_main.py: it comes from a worker that uses submit_worker_event.
WorkerFails(t) ==
  /\ proc[t] = "busy"
  /\ Becomes(t, "exited")
  /\ \E kind \in {"failed", "reported_failed", "reported_blocked"} : Emit(t, kind)
  /\ UNCHANGED <<inbox, answer>>
  /\ CoordinatorUnchanged

\* The process is killed from outside: its pipe ends without a last event.
WorkerDies(t) ==
  /\ WorkersMayDie
  /\ t \notin threads
  /\ proc[t] \in Live
  /\ Becomes(t, "exited")
  /\ UNCHANGED <<inbox, answer, events>>
  /\ CoordinatorUnchanged

-----------------------------------------------------------------------------
(***************************************************************************)
(* The coordinator stops or crashes, and is started again on what is saved.*)
(* No worker of before can reach it any more.                              *)
(***************************************************************************)

Stale == {t \in Tasks : disk.status[t] \in StaleStatuses}

\* _recover_loaded_registry.
Recovered ==
  [t \in Tasks |-> IF t \in Stale THEN "failed" ELSE disk.status[t]]

RecoveredConflicts ==
  [t \in Tasks |-> IF disk.status[t] = "waiting" THEN disk.conflicts[t] \ Stale
                                                 ELSE disk.conflicts[t]]

\* load_registry and load_mailbox, _cancel_mailbox_messages_for_terminal_tasks,
\* and the start of one waiting task.
Restart ==
  /\ MayRestart
  /\ added' = disk.added
  /\ attempts' = disk.attempts
  /\ subs' = disk.subs
  /\ mail' = [t \in Tasks |-> IF Recovered[t] \in TerminalStatuses
                                 THEN CancelPending(disk.mail[t]) ELSE disk.mail[t]]
  /\ current' = 0
  /\ threads' = {}
  /\ verifiers' = {}
  /\ silent' = {}
  /\ inbox' = [t \in Tasks |-> <<>>]
  /\ answer' = [t \in Tasks |-> "none"]
  /\ events' = [t \in Tasks |-> <<>>]
  /\ eventLoop' = TRUE
  /\ TryStartWaiting(Recovered, RecoveredConflicts, {},
                     [t \in Tasks |-> IF proc[t] = "none" THEN "none" ELSE "exited"])
  /\ UNCHANGED <<overlaps, turns>>
  /\ Persist
-----------------------------------------------------------------------------
(***************************************************************************)
(* The specification.                                                      *)
(***************************************************************************)

UserStep ==
  \/ \E isThread \in BOOLEAN : StartNewTask(isThread)
  \/ \E C \in SUBSET (1..added) : QueueTask(C)
  \/ \E t \in Tasks :
       \/ AttachToTask(t)
       \/ TalkDecision(t)
       \/ CancelTask(t)
       \/ CancelAndRestart(t)
       \/ \E k \in DOMAIN mail[t], reply \in {"usable", "void"} :
            ReplyMailbox(t, k, reply)
  \/ CancelAll

VerifierVerdict(t) ==
  \E v \in verifiers, verdict \in Verdicts \cup {"unreadable"} :
    v.task = t /\ HandleVerdict(v, verdict)

WorkerStep(t) ==
  \/ WorkerAsk(t)
  \/ WorkerAnswered(t)
  \/ WorkerDiscards(t)
  \/ WorkerCompletes(t)
  \/ WorkerTakesFollowup(t)
  \/ WorkerFails(t)

Next ==
  \/ UserStep
  \/ \E t \in Tasks :
       HandleEvent(t) \/ VerifierVerdict(t) \/ WorkerStep(t) \/ WorkerDies(t)
  \/ \E v \in verifiers : VerifierStalls(v)
  \/ Restart

Spec == Init /\ [][Next]_vars

\* The event thread takes the next event, a worker's turn ends (max_turns and
\* the model timeout bound it) and a verifier's too.  Nothing is assumed of the
\* user.
Fairness ==
  \A t \in Tasks :
    WF_vars(HandleEvent(t)) /\ WF_vars(VerifierVerdict(t)) /\ WF_vars(WorkerStep(t))

FairSpec == Spec /\ Fairness
-----------------------------------------------------------------------------
(***************************************************************************)
(* Properties.                                                             *)
(***************************************************************************)

\* The type of every variable.
TypeOK ==
  /\ added \in 0..MaxTasks
  /\ status \in [Tasks -> Statuses]
  /\ overlaps \in [Tasks -> SUBSET Tasks]
  /\ conflicts \in [Tasks -> SUBSET Tasks]
  /\ attempts \in [Tasks -> Nat]
  /\ subs \in [Tasks -> Nat]
  /\ current \in 0..MaxTasks
  /\ workers \in SUBSET Tasks
  /\ threads \in SUBSET Tasks
  /\ verifiers \in SUBSET Verifiers
  /\ silent \in SUBSET Verifiers
  /\ mail \in [Tasks -> Seq(MailStatuses)]
  /\ eventLoop \in BOOLEAN
  /\ disk \in DiskImage
  /\ proc \in [Tasks -> ProcStates]
  /\ inbox \in [Tasks -> Seq(Commands)]
  /\ answer \in [Tasks -> {"none", "usable", "void"}]
  /\ events \in [Tasks -> Seq(EventKinds)]
  /\ turns \in Nat

\* A task that is being verified has a verifier worker on its latest submission,
\* whatever the user, late verdicts and restarts did in between: nothing else
\* could end the status (_verify_completed_report_locked).
VerifyingHasVerifier ==
  \A t \in Tasks :
    status[t] = "verifying" => [task |-> t, round |-> subs[t]] \in verifiers

\* A task that waits for the user shows the user a question they can answer: the
\* status and the mailbox are changed by different handlers.
NeedsUserHasQuestion ==
  \A t \in Tasks : status[t] = "needs_user" => Pending(t) # {}

\* A task sent back for revision is still worked on: its worker runs, or will read
\* the feedback in its inbox, or has an event of its own on the way.
RevisionIsWorkedOn ==
  \A t \in Tasks \ threads :
    status[t] = "needs_revision" /\ eventLoop =>
      /\ t \in workers
      /\ \/ proc[t] \in {"busy", "asking"}
         \/ proc[t] = "submitted" /\ \E k \in DOMAIN inbox[t] : inbox[t][k] = "feedback"
         \/ \E k \in DOMAIN events[t] : events[t][k] # "question"

\* The task that "cancel the current task" means has not ended.
CurrentIsActive ==
  eventLoop /\ current # 0 => status[current] \in ActiveStatuses

\* Each submission is judged at most once: the verdicts that were turned into
\* revisions and the verifiers still at work never outnumber the submissions.
EachSubmissionJudgedOnce ==
  \A t \in Tasks :
    attempts[t] + Cardinality({v \in verifiers : v.task = t}) <= subs[t]

\* The handle of a task that ended by itself is dropped, so that nothing is sent
\* to its worker any more.  A cancelled task keeps its handle.
EndedTaskHasNoWorker ==
  \A t \in Tasks :
    eventLoop /\ status[t] \in {"accepted", "failed", "blocked"} => t \notin workers

\* A worker that waits for an answer gets one sooner or later if the user
\* replies: its question is on the way, or pending, or the answer is.
AskerCanBeAnswered ==
  \A t \in workers :
    proc[t] = "asking" /\ status[t] \notin TerminalStatuses =>
      \/ \E k \in DOMAIN events[t] : events[t][k] = "question"
      \/ Pending(t) # {}
      \/ answer[t] = "usable"

\* A task that has ended is only reopened by a question its worker asked before
\* it ended, by a verdict on a submission made before it ended, or by a restart
\* after the event thread died before it saved the end.  No command of the user
\* and no other event does it.
OnlyLateMessagesReopen ==
  [][\A t \in Tasks :
       status[t] \in TerminalStatuses /\ status'[t] # status[t] =>
         \/ Len(mail'[t]) > Len(mail[t]) /\ status'[t] = "needs_user"
         \/ /\ status[t] # "cancelled"
            /\ \E v \in verifiers \ verifiers' : v.task = t
         \/ ~eventLoop /\ eventLoop']_vars

\* What the tests expect of cancel_task: the questions of a cancelled task are gone.
\* A question that was on its way when the task was cancelled brings one back.
CancelledAsksNothing ==
  [][\A t \in Tasks : status[t] = "cancelled" => Pending(t)' = {}]_vars

\* A queued task whose conflicts are all over is never the only task left: some
\* other task is active, and the handler that ends it starts the queued one.
NoTaskWaitsAlone ==
  \A w \in Tasks :
    eventLoop /\ status[w] = "waiting"
              /\ (\A c \in conflicts[w] : status[c] \in TerminalStatuses) =>
      \E t \in Tasks : status[t] \in ActiveStatuses \ {"waiting"}

\* A verification ends: a verdict is handled, or the user cancels.
VerificationEnds ==
  \A t \in Tasks : status[t] = "verifying" ~> status[t] # "verifying"

\* A revision is submitted again, fails, or asks.
RevisionEnds ==
  \A t \in Tasks : status[t] = "needs_revision" ~> status[t] # "needs_revision"

\* What a worker submits does not stay under review: neither with the verifier nor
\* with the worker that has to revise it.
ReviewEnds == VerificationEnds /\ RevisionEnds

\* A queued task starts, unless some task needs the user.
QueuedTaskGetsItsTurn ==
  \A w \in Tasks :
    status[w] = "waiting" ~>
      \/ status[w] # "waiting"
      \/ \E t \in Tasks : status[t] \in {"needs_user", "needs_user_decision"}
=============================================================================
