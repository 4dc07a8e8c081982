# XiaoMing in TLA+

XiaoMing is a terminal agent. The user types messages; each one runs as a turn of
a model with tools, and may be sent to the background. A coordinator in the
terminal's process runs background tasks in worker processes, relays the workers'
questions to the user, has each result reviewed by a verifier, sends refused
results back for revision, and lets tasks that touch the same files wait for one
another. Sessions, checkpoints, leases, tasks and the memory of dreams are files
that threads and processes share.

This directory holds specifications of those parts, the TLC runs that check them
on small instances, and theorems about them that TLAPS proves for every size.
Paths below are relative to `src/src/xiaoming/`; tests are in `src/tests/`.

| Module | Models | Proofs |
| --- | --- | --- |
| `TaskCoordinator` | `async_runtime/coordinator.py` with tasks, mailbox, store, scheduler decisions, and the workers at the other end | `TaskCoordinatorProofs`, `TaskReviewProofs` |
| `TaskFiles` | `async_runtime/task_store.py`: the saves of the coordinator, step by step, and what a start makes of them | `StoresProofs` |
| `Notices` | notices, their cache and `follow_task` of the coordinator, the notice buffer of `cli.py` | `TerminalProofs` |
| `WorkerLoop` | `worker_main.py`: one worker's loop and inbox, and the coordinator's end of its pipes | `WorkersProofs` |
| `CodexSession` | `async_runtime/external_sessions.py`: the worker that drives a Codex server | `WorkersProofs` |
| `Foreground` | `cli.py` and `local_thread_worker.py`: turns in threads and their promotion to workers | `TerminalProofs` |
| `ChatRuntime` | `cli.py`: sessions, settings and rules behind the terminal | `ChatProofs`, `TerminalProofs` |
| `Screen` | `cli.py`: the output buffer and its refresh | `TerminalProofs` |
| `TurnLoop` | `agent_loop.py`, `prompting/runtime.py`, `context/`: turns of one session and its log | `TurnLoopProofs` |
| `ForkedContext` | what a worker gets of that conversation; extends `TurnLoop` | `TurnLoopProofs` |
| `ModelCall` | `agent_loop.py`, `streaming.py`: the requests of one turn and their streams | `WorkersProofs` |
| `LeaseTable` | `WriteLeaseServer` of `async_runtime/leases.py`, the abstract specification | |
| `FileLease` | `FileWriteLeaseClient` in several processes, refines `LeaseTable` | `StoresProofs` |
| `Checkpoints` | the tools that change files, and `checkpoints/store.py`; uses `LeaseTable` | `TerminalProofs` |
| `Sessions` | `sessions/store.py`: the index and the files of events | `StoresProofs` |
| `Dreams` | `memory/`: diaries of a dream, saved and replayed | `StoresProofs` |
| `SkillInstall` | `skill_installer.py`, `tools/skill.py`, `skills.py`: skills installed by several processes | `StoresProofs` |
| `Subsequences`, `SequenceFacts` | sequences put together part by part, selections by position, and what is true of them | `SequenceFacts` |
| `MCFileLease`, `MCStores`, `MCWorkers`, `MCTerminal`, `MCTurnLoop` | instances for TLC | |

`MCStores`, `MCWorkers` and `MCTerminal` hold several specifications that share no
variable: what is kept in files, what may stand behind a worker handle, what
threads of the terminal share. One variable says which of them a behaviour is
about, the others stay as they were; the theorems about them are about these
specifications as well, so what is proved is what the runs check. `MCTerminal` checks
the properties of `Screen` and the first two of `ChatRuntime` only in the behaviours that
are about them: the others keep their initial states. They are not compositions; the
compositions are inside them: the worker with the coordinator's
end of its pipes (`WorkerLoop`), the turn with the fork (`ForkedContext`), the
editing tools with the lease table (`Checkpoints`), the coordinator with its workers
and verifiers (`TaskCoordinator`).

## The system

### Components

**Task coordinator** (`async_runtime/coordinator.py`, `tasks.py`, `mailbox.py`). State:
the task registry, the mailbox, a table of worker handles (`_workers`), a table of
verifier workers, reply queues of plain talk, all under one lock. Operations: the
scheduling decisions, replies, cancellations, and one handler per event a worker
sends. Right if the status of a task agrees with who is working on it: a task in
review has a reviewer, one that needs the user shows a question, one in revision
has a worker, a queued one is started when its turn comes, an ended one stays
ended.

**Task store** (`async_runtime/task_store.py`). `index.json` and `mailbox.json`,
rewritten after each handler. Right if what has ended is not forgotten, and no
status is recovered that nobody will ever end.

**Worker process** (`worker_process.py`, `worker_main.py`). Reads commands from stdin
and writes events to stdout. Right if no command that asks for work is lost,
nothing is submitted twice, and it ends when it is told to.

**Promoted foreground turn** (`local_thread_worker.py`, `cli.py` 931-967). A thread of
the terminal behind the interface of a worker. Right if it reports as itself,
once, and if whoever waits for an approval can get it.

**External Codex session** (`external_sessions.py`). A process that speaks JSON-RPC.
Right if an answer is that of the turn that was asked for, and is reported.

**Write leases** (`leases.py`). A file per leased path in a shared directory. Right if
two workers never write one file at the same time, and who leaves leaves none.

**Agent turn loop and context** (`agent_loop.py`, `prompting/`, `context/`). Right if
every prompt is one a provider accepts, tool results reach the model, the log
gives back the conversation, and turns end.

**Model providers** (`llm/`, `streaming.py`). Right if an answer is one response's text.

**Sessions, checkpoints, dream memory** (`sessions/`, `checkpoints/`, `memory/`). Right
if what was written is found again, after a crash as well, and `/rewind` brings back
the files a turn found.

**Skills** (`skill_installer.py`, `skills.py`). Right if a skill that is reported as
installed is whole and from one installation, and can be loaded.

**Terminal** (`cli.py`). Right if what is typed is answered in the session it was
typed in, settings agree in all of the runtime's parts, and nothing that was
written or asked is missing on the screen.

`PROJECT.json` lists all components with their status, those that are not modelled
included.

### How they interact

- The main thread (terminal) and tool calls enter the coordinator under its
  lock. So does the event thread, which takes worker events from one queue.
- Each worker process has a pipe in each direction, a thread that reads its
  output into the event queue, and inside the worker a thread that reads its
  input. Commands and events are therefore in order for one worker and in no
  order among workers, and a command may cross an event on the way.
- Verifiers are workers whose handle is in another table; their last event is
  applied to the task whose submission they were started for.
- Each handler ends by saving the registry and the mailbox.
- Each message of the user runs in a thread of its own. Threads and the
  interface share the runtime (session, settings, checkpoint, foreground task)
  without a lock, the output and notice buffers under locks of their own.
- Worker processes share the lease directory and the workspace with each other,
  and the workspace with the turns of the terminal, which take no leases. All of
  them may install skills into `.agents/skills`.

### What is hard

Handlers of the coordinator exclude one another, so what goes wrong there goes
wrong between them: a question written before a cancel and handled after it, a
verdict on a submission that is no longer the latest, a command to a process that
has just ended. In the terminal nothing excludes anything: a promotion meets the
end of its turn, two turns share one checkpoint or one pending turn. The worker
takes commands out of its inbox and puts some back while its reader puts new ones
in. Streams time out while their threads go on. Files are truncated before they
are filled, and read, changed and written back by several threads. `PROJECT.json`
lists each of these at its line with the properties that cover it.

## The modules

Each action names the code it models in `PROJECT.json` "map". A handler that runs
under a lock is one action; elsewhere a step ends where the code does I/O, takes or
gives back a lock, or calls another component. What models and providers answer
is a free choice among what the code accepts. Texts are numbers or model values.

### TaskCoordinator

| Variable | Code |
| --- | --- |
| `added`, `status`, `conflicts`, `attempts`, `subs` | `TaskRegistry` and the fields of `TaskRecord` |
| `overlaps` | the earlier tasks a queued task shares files, modules or domains with |
| `current` | `current_task_id`, 0 for `None` |
| `workers`, `threads` | keys of `_workers`, and those whose handle is a `ForegroundWorkerHandle` |
| `verifiers` | keys of `_verifier_workers` as task and round |
| `silent` | verifiers from which no verdict will come |
| `mail` | status of each question in the mailbox |
| `eventLoop` | the thread of `_run_worker_events` is alive |
| `disk` | what the last save wrote |
| `proc`, `inbox`, `answer`, `events` | the worker: where it is, its unread commands, the answer it waits for, its unhandled events |

| Actions | Code |
| --- | --- |
| `StartNewTask`, `QueueTask`, `AttachToTask`, `CancelAndRestart` | `_apply_decision_locked` |
| `TalkDecision` | `talk_to_peer` on a task that needs a user decision |
| `ReplyMailbox` | `reply_mailbox_message` |
| `CancelTask`, `CancelAll` | `cancel_current`, `cancel_task`, `cancel_all`, `_cancel_task_locked` |
| `HandleQuestion`, `HandleQuestionByNote`, `HandleCompleted`, `HandleEnded`, `HandleLateEvent` | `_handle_worker_event_locked` |
| `HandleVerdict` with `Accept`, `Revise` | `_handle_verifier_worker_event_locked`, `_apply_review_report_locked`, `_start_revision_if_available_locked` |
| `VerifierStalls`, `WorkerDies` | a process that asks what nobody answers, or vanishes |
| `WorkerAsk`, `WorkerAnswered`, `WorkerDiscards`, `WorkerCompletes`, `WorkerTakesFollowup`, `WorkerFails` | `worker_main.py` and `local_thread_worker.py` |
| `Restart` | `load_registry`, `load_mailbox`, `start` |

`TryStartWaiting`, `ClearCurrentIf`, `CancelTasks` and `Persist` are part of the
handlers that call them, never steps of their own. Progress events change no
status and are left out. A worker that `terminate` had to stop may still have
written some last events (`Farewells`); the handle of a cancelled task stays in
`workers`, as it does in the code. A command to a process that is gone fails
(`SendFails`): in the event thread this ends the thread (`AbortHandler`), after the
status was changed in memory and before it was saved.

`RevisionIsWorkedOn` says that a task in `needs_revision` has a worker that runs,
that will read the feedback, or that has an event to report which is more than a
question. `AskerCanBeAnswered` says that a worker that waits for an answer has its
question in the queue, pending in the mailbox, or its answer on the way.
`EachSubmissionJudgedOnce` counts: revisions and verifiers at work never outnumber
submissions.

### TaskFiles

The save that is one step in `TaskCoordinator` is four here: each file is truncated
and then filled. The process may crash between any two; a file that does not parse
counts as empty (`Registry`, `Mailbox`). `Load` recovers: tasks whose worker is gone
fail, questions of tasks that are over are withdrawn. `Replace` is a settings
command that restarts the coordinator: `stop` waits three seconds for a handler,
whose save may therefore come after its successor has started (`LateSave`).
`RestartKeepsTheOutcome`: what has ended on disk stays as it ended, and a
coordinator does not start with a question of a task it does not have or that has
ended; the two cases in which the code does not keep this are named by
`disturbed` (a truncated index was read, a late save).

### Notices

The mailbox, `_notice_cache` with its window of 30 s, the buffer, and the terminal
that pulls it and marks messages as presented one at a time.
`OpenQuestionIsAnnounced`: a question that waits for the user and was not shown yet is
in the buffer or among the notices just pulled, unless it was swallowed because the
same was said of the task within the window. `/quiet`, repeated notices of progress and
`replay_pending_questions` are left out.

### WorkerLoop

One worker with its reader thread (`ReadStdin`, `ReadEof`), the loop of `main`
(`StartTurn`, `FinishTurn`, `DrainOne`, `DrainEnds`, `AfterTurn`, `TakeFollowup`), the
wait for an answer (`Ask`, `TakeWhileAsking`), and the coordinator that sends
commands (`Send`), closes the pipe (`HangUp`) and waits for the reply to one talk at a
time, 120 seconds at most (`TalkTimesOut`). `done`, `dropped`, `submitted` and
`replies` record what became of everything. A worker that waits for an answer reads
and drops other commands, as the code does; `OnlyTheseAreDropped` says that this and
a talk behind another talk are the only cases, and `EveryCommandIsSomewhere` that
each command is in exactly one place. `ReplyIsForItsTalk` holds until a talk was
given up; afterwards replies stay one behind, which the code does not prevent.

### CodexSession

The handle's queue and flags, the thread (`Top`, `Get`, `EnsureStarted`,
`ReadResponse`, `ReadAnswer`, `RequestTimesOut`, `Disconnected`), and the pipe with
`readline`'s buffer, which `select` does not see. The server is external and modelled
as the code uses it. `AnswerMeansTheTurnIsOver`: when the thread goes on to the next
message, the server is not at work on a turn. `FinishedTurnIsReported` excepts the
turn whose end waits in the buffer.

### Foreground

The handler of one line of input in its steps, one thread per turn, the table from
thread idents to workers (`contexts`; idents are used again), the terminal's one
pending approval, and of the coordinator the status of promoted tasks.
`PromotedTurnReports` and `WaitingTurnCanBeAnswered` say what a promotion must not
break; `stranded` names the promotions that come before the loop, after it, or
after the thread, for which the code has nobody to report.

### ChatRuntime

Session objects and their files, the turn that takes `runtime.session`, stages the
user's message in the session's one `pending_turn` and commits it, the fork of the
main session at a promotion, `/clear`, `/new`, `/resume`, the settings commands with
their steps (arguments, loop, session, coordinator) and their roll back, and rules.
`MessageIsKept`: an answered message is once in its session, before its answer.
`ResumedAsItWas`: the file gives back the session as it was in memory.
`SettingsAgree`: between two lines, arguments, loop and coordinator have the same
settings. `OwnSession` names the turns for which the first is claimed: those whose session no
turn used that the interface lost track of (`missed`), and that was not resumed into
a second object; for the others the code keeps no message safe. The interface loses
track of a turn that has not come to `begin_foreground_task` when the next line is
handled, that was promoted before it took its session (cli.py 1504-1506), or whose
`foreground_task` another turn has finished or replaced (cli.py 851-866). The last case,
two turns that begin one after the other, needs three turns; the run has two, and it
came up when the theorem could not be proved without it. `/clear` empties the memory only, and
a failed `/model` leaves a new session.

### Screen

The lines and the stream that threads write under a lock, and `_refresh_ui`, which
takes the lock twice (`Flush`, `Show`) and replaces the streamed text from
`_streaming_pos` on. `NothingIsOverwritten`: all that was written is on the screen or
in a buffer, in order, and streamed text is there once, unless a notice came: it
sets the position back (cli.py 1466) and the text is shown again.

### TurnLoop

One action for each return or branch of `run`: `Input`, `BlockTurn`, `PrepareTurn`,
`SendPrompt`, `RetryModel`, `FailModel`, `InterruptModel`, `AnswerWithText`,
`AnswerWithCalls`, `AnswerWithBadCalls`, `RunGroup`, `InterruptTool`,
`FinalizeToolCall`, `RunOutOfSteps`; and `Compact`, `AcceptDream`, `RequestCancel`,
`Restart`. `items` is the history, `prompt` what was sent, `log` the session file.
`NormalizeForPrompt`, `RepairDanglingToolCalls` and `Rehydrate` are the code's
functions on histories. `Styles` says how a provider writes calls: one message with
all of them (`chat`), or an item per call (`function`, `custom`).
`PromptIsPaired`: no call without an output and no output without its call.
`OutputsReachTheModel`: each output of the history is in the next prompt (for
`chat`; see `v_lost_output`). `ReplayAgrees`: the log gives back the conversation and
the results of the calls, but for payloads that were cut.

### ForkedContext

`TurnLoop` with the two assignments of the last prompt and the last output as two
steps (agent_loop.py 150-151) and a worker that is prepared at any moment.
`ForkIsFaithful`: what the worker starts with is what was said, once, and its first
request is what was taken, outside the moment between the two assignments. Results
of tools that have finished since the last answer are hidden behind placeholders,
as in the code; the text of a chat answer that also has calls is not modelled.

### ModelCall

The requests of one turn: the provider's thread that puts events into a queue, the
loop that takes them, idle timeouts, retries in which the old thread goes on, tool
calls whose arguments are cut or are no object, and the text that is printed,
returned and submitted. `AnswerIsOneResponse`: what a turn returns, or a worker
submits, is the text of one response. It excepts a worker whose turn returned
nothing after a retry: it submits the text it has collected of both requests
(worker_main.py 199-211). What is not claimed: that an answer was complete. A
stream that ends early and an answer cut at its limit count as whole
(streaming.py 76); `streamed_text` is remembered for the turn, not for the response
(agent_loop.py 167, 278), so a last response that does not come as a stream is
neither printed by the terminal (cli.py 1510-1522) nor by a one-shot run
(cli.py 2098-2100).

### LeaseTable and FileLease

`LeaseTable` is the table behind one lock: acquire all paths or none, release one's
own. `FileLease` is what worker processes run. A call opens each path's file with
`O_CREAT` and `O_EXCL` (`Create`, `Exists`), writes its task id into it (`Fill`, or
`FillFails`), reads the file if it was there (`Check`), gives back what it has leased
if a path belongs to another (`Undo`, one path at a time), or goes on to write
(`Grant`, `Written`). A process leaves through `release_all` (`Leave`, `ReleaseAll`) or
is killed at any point (`Kill`). Each step of a file system is a step of the model.

`FileLease` implements `LeaseTable` with `holder` read off the lease files, where a
file that is not yet filled belongs to nobody. A call of several paths is several
steps of the table: the files give single paths atomically, not the call. What the
files do promise is that a lease passes from one task to another only by being
free in between.

### Checkpoints

The tools `write_file`, `append_file`, `edit_file` and `apply_patch` with their reads,
approvals, leases, snapshots and writes as steps, for turns of the terminal (no
leases, the checkpoint that is active) and workers (leases, no snapshots).
A snapshot copies files before it writes the manifest; the index keeps `Kept`
checkpoints. `RewindUndoesTheTurn`: rewinding a turn that ran alone gives back the
files it found. `LeaseKeepsWhatWasRead`: what `apply_patch` has read under its lease
is what it writes over, unless a turn has changed it meanwhile. `edit_file` reads
before it has the lease, and nothing is claimed of it.

### Sessions and Dreams

`Sessions`: `append` looks the session up, writes a line, reads the index and writes it
back whole, as steps of several threads, with crashes that leave a torn line or a
truncated index. `SessionsStayListed` excepts writers that had the index in hand at
once; `EventsAreReadBack` bounds what a crash costs by the torn line and the one
written behind it, and says that the rest comes back in its order (events are
numbered). The index is a set here: the order in which it lists the sessions is left
out. `Dreams`: drafts, revisions, accept or reject, the accepted
diaries recorded one by one, and the replay of the log. `DreamsAreAtomic`: memory
holds all diaries of an accepted dream or none, a crash in the middle of saving
excepted.

### SkillInstall

Calls of the tool, which leaves alone what has a `SKILL.md`, and of `/skill install`,
which does not look first. `Check` (no destination may exist), `Fetch` (the archive,
then two sparse checkouts), `Plan` (the limits, `SKILL.md`, no links), `MakeDirectory` and
`CopyFile` for each skill, `Refresh` of the library. What was checked before the
download may no longer be so after it; only the creation of the directory, which
raises when it exists, keeps two installers apart. `InstalledSkillWorks`: a skill that is
answered as installed has all the files that were checked, from this call only, and
its process can load it by the name in the answer, unless another skill has that
title or the same one (`Discovered`, `Loads`: titles come before names of directories).
Not claimed: that a skill reported as already installed is whole. A copy that
failed or was killed half way may leave a `SKILL.md` without its other files
(tools/skill.py 119); the bounds include that case.

## Runs

| Run | Instance | Question |
| --- | --- | --- |
| `review` (`TaskCoordinator`) | 1 task, 1 revision, verifier worker, decider, 2 messages of the user, 2 questions, promoted turns, no faults | `RevisionIsWorkedOn`, `AskerCanBeAnswered` |
| `faults` (`TaskCoordinator`) | the same, with deaths of workers, verifiers that ask, void replies and restarts | `VerifyingHasVerifier`, `NeedsUserHasQuestion`, `EachSubmissionJudgedOnce`, `EndedTaskHasNoWorker`, `OnlyLateMessagesReopen` |
| `progress` (`TaskCoordinator`) | 2 tasks, 2 revisions, fairness, nothing of the user | `NoTaskWaitsAlone`, `ReviewEnds`, `QueuedTaskGetsItsTurn` |
| `turns` (`MCTurnLoop`) | 2 styles of calls, 2 turns of 2 requests, 2 calls side by side, 1 retry, 2 repeats, 1 restart, fairness | `PromptIsPaired`, `OutputsReachTheModel`, `ReplayAgrees`, `TurnEnds` |
| `forks` (`ForkedContext`) | the same, calls one by one, no retry, a fork at any moment | `ForkIsFaithful` |
| `workers` (`MCWorkers`) | 3 commands, 1 question, 1 late talk; a Codex session with 2 messages and 2 deltas; 2 requests with 1 retry and 1 piece; fairness | `EveryCommandIsSomewhere`, `OnlyTheseAreDropped`, `SubmittedOnce`, `ReplyIsForItsTalk`, `WorkerEnds`; `AnswerMeansTheTurnIsOver`, `FinishedTurnIsReported`; `AnswerIsOneResponse`, `TurnIsAnswered` |
| `stores` (`MCStores`) | 3 processes, 2 paths, failing writes, kills; 2 sessions, 2 writers, 3 events, 1 crash; 2 dreams of 2 diaries; 1 task, 2 questions, 2 starts; 2 installers, 2 calls, 3 skills in 2 directories, failing copies, kills | `WritersExclude`, `ImplementsTable`; `SessionsStayListed`, `EventsAreReadBack`; `DreamsAreAtomic`; `RestartKeepsTheOutcome`; `InstalledSkillWorks` |
| `terminal` (`MCTerminal`) | 2 turns, 2 idents, 2 approvals; 2 messages, 1 command, 4 session objects, 3 settings; 2 turns and 2 workers with 2 calls on 2 files, crashes; 2 messages in the mailbox; 5 writes | `PromotedTurnReports`, `WaitingTurnCanBeAnswered`; `MessageIsKept`, `ResumedAsItWas`, `SettingsAgree`; `RewindUndoesTheTurn`, `LeaseKeepsWhatWasRead`; `OpenQuestionIsAnnounced`; `NothingIsOverwritten` |

Why the bounds are enough. One task is enough for the properties that speak of one
task: handlers reach across tasks only through the queue and `current`, which
`progress` and the theorems cover. Two messages and two questions let a second
submission overtake the first verdict, and a second question stand behind one that
is answered; one revision lets the next refusal find the attempts spent. Two
turns, two calls and one restart give a call without an output, a turn behind it
that repairs it, and a log that ends in between. Three commands fill a drain with
one of each kind, two turns let a promoted one go on beside the next and an ident
come back. Three lease clients are two that want the same two paths in opposite
orders and a third that takes what they give back. Two writers are the least that
race, and one crash leaves a torn line that the next write meets. Five writes let a
refresh meet a line, a piece and a notice. `review`, `faults` and `workers` use the
bounds of the theorems' modules, which hold for every value.

Every constant commented "bound" in its module is a bound of the model; the others
(`MaxRevisionAttempts`, `UseVerifierWorker`, `MaxSteps`, `MaxParallel`, `MaxRetries`,
`RepeatLimit`, `MaxTurns` of `Dreams`, `Kept`) are the program's configuration. The
system may really stop (all bounds used up, all tasks ended), so deadlock is not an
error.

Five constants of `TaskCoordinator` switch faults on. Three of them the code is
known not to survive, so some properties are checked without them: with
`VoidReplies` a worker may wait for an answer that the mailbox holds for given
(`AskerCanBeAnswered` fails); with `VerifiersMayAsk` a verifier waits for ever
(`ReviewEnds` fails); with `WorkersMayDie` nothing notices a dead worker
(`RevisionIsWorkedOn` and the liveness properties fail). With `ThreadWorkers` the
feedback of a review goes to a turn that is over, so `ReviewEnds` fails too.

### Fairness

- `TaskCoordinator`: weak fairness of three things for each task: the event thread
  takes the next event (it polls the queue without end), a verifier's turn ends
  and its verdict is handled, a worker's step is taken (a turn is bounded by
  `max_turns` and each call of the model by a timeout). Nothing is assumed of the
  user, so `QueuedTaskGetsItsTurn` excuses the time in which some task needs the
  user. A worker's turn may end in several ways, and fairness chooses none.
- `TurnLoop`: weak fairness of the loop's own steps. What the model answers, a
  cancel and a restart are not fair.
- `WorkerLoop`: the worker's own steps and its reader thread, but no command of the
  coordinator: `WorkerEnds` starts from a cancel, or from a closed pipe (a worker that
  waits for an answer stays there when its pipe closes).
- `CodexSession`: its thread, a close under way, and that the server says what it has
  still to say about the end of a turn; not that a turn ends.
- `ModelCall`: the loop, whose reads have a timeout; nothing of the provider.

## Where code and documents disagree

| Run | What TLC finds |
| --- | --- |
| `v_dead_worker` | Feedback to a worker process that has ended raises in the event thread, which ends (coordinator.py 600-607, 979-982): the task stays in `needs_revision`, and no event is handled any more. `tests/test_async_coordinator.py` 994 expects that the user is asked when the worker is gone. |
| `v_late_question` | A question written before a cancel and handled after it makes the cancelled task need the user again (coordinator.py 619-660); `tests/test_async_coordinator.py` 2470 says that nothing is pending after a cancellation. |
| `v_lost_output` | With the items of the Responses API, the repair before a request closes an open call before the next call of the same answer with an invented output, and drops the real one (context/manager.py 46). `tests/test_agent_loop.py` 455-477 expects the output in the next request. |
| `v_lost_backup` | A turn beside another clears the checkpoint both use, and the next edit is in no checkpoint (cli.py 1532); `README.md` 63 promises snapshots before each turn. |

Met while modelling, kept in the specifications as the code does it, and excepted by
name where a property would fail:

- After a follow-up message a worker submits twice; the verdict on the first
  submission accepts the task, the second one unseen (coordinator.py 882-928).
- A verifier's approval request is dropped (coordinator.py 914): it waits for ever.
- A lease is on the text of a path (leases.py 107): `notes.md` and `./notes.md` are
  leased to two workers. `WritersAlwaysExclude` is proved for one name per file.
- A talk given up after 120 seconds leaves its reply to the next caller.
- Two appends that have the session index in hand at once lose a session
  (sessions/store.py 168).
- A turn cancelled while it waits at its handle waits for ever
  (local_thread_worker.py 48).
- Both the screen's and the answer's exceptions named above.

## What is proved

The proofs hold for every value of the constants that the modules' assumptions and the
hypotheses named here allow: any number of tasks, messages, questions, turns,
processes and paths, any combination of faults but where it says otherwise.

| Theorem | Statement | Hypotheses |
| --- | --- | --- |
| `TaskCoordinatorProofs` | | |
| `TypeCorrect` | `[]TypeOK` | |
| `VerifyingAlwaysHasVerifier` | `[]VerifyingHasVerifier` | |
| `NeedsUserAlwaysHasQuestion` | `[]NeedsUserHasQuestion` | |
| `NoTaskEverWaitsAlone` | `[]NoTaskWaitsAlone` | |
| `CurrentAlwaysActive` | `[]CurrentIsActive` | |
| `EndedTaskNeverHasWorker` | `[]EndedTaskHasNoWorker` | |
| `TaskReviewProofs` | | |
| `SubmissionsJudgedOnce` | `[]EachSubmissionJudgedOnce` | |
| `AskersCanBeAnswered` | `[]AskerCanBeAnswered` | no void replies |
| `RevisionsAreWorkedOn` | `[]RevisionIsWorkedOn` | no deaths of workers |
| `OnlyLateMessagesEverReopen` | `OnlyLateMessagesReopen` | |
| `WorkersProofs` | | |
| `TypeCorrect`, `SubmittedAtMostOnce` | `[]TypeOK`, `[]SubmittedOnce` | |
| `WorkIsNotThrownAway` | `OnlyTheseAreDropped` | |
| `NoCommandIsLost` | `[]EveryCommandIsSomewhere` | |
| `RepliesAreForTheirTalks` | `[]ReplyIsForItsTalk` | |
| `StreamInvariant`, `NextMessageAfterTheTurn` | `[]CodexInv`, `[]AnswerMeansTheTurnIsOver` | |
| `AnswersAreOneResponse` | `[]AnswerIsOneResponse` | |
| `TerminalProofs` | | |
| `TableInvariant`, `PromotedTurnsReport`, `WaitingTurnsCanBeAnswered` | `[]Table`, `[]PromotedTurnReports`, `[]WaitingTurnCanBeAnswered` | 0 is not an ident |
| `SettingsAlwaysAgree` | `[]SettingsAgree` | |
| `OpenQuestionsAreAnnounced` | `[]OpenQuestionIsAnnounced` | |
| `LeasesKeepWhatWasRead` | `[]LeaseKeepsWhatWasRead` | `EditsAssumption` |
| `RewindsUndoTheirTurn` | `[]RewindUndoesTheTurn` | `EditsAssumption` |
| `NothingIsEverOverwritten` | `[]NothingIsOverwritten` | |
| `ChatProofs` | | |
| `MessagesAreKept` | `[]MessageIsKept` | |
| `SessionsResumeAsTheyWere` | `[]ResumedAsItWas` | |
| `TurnLoopProofs` | | |
| `TurnInvariant`, `TurnTypes` | `[]Inv`, `[]TypeOK` | |
| `PromptsArePaired` | `[]PromptIsPaired` | |
| `OutputsShown` | `[]OutputsReachTheModel` | |
| `ReplaysAgree` | `[]ReplayAgrees` | |
| `ForksAreFaithful` | `[]ForkIsFaithful` | |
| `StoresProofs` | | |
| `LeaseInvariant`, `ExitAlwaysReleasesAll`, `OnlyHolderEverReleases` | `[]LeaseInv`, `[]ExitReleasesAll`, `OnlyHolderReleases` | |
| `WritersAlwaysExclude` | `[]WritersExclude` | one name per file |
| `LeaseFilesImplementTable` | `ImplementsTable` | |
| `FilesInvariant`, `OutcomeIsAlwaysKept` | `[]FilesInv`, `[]RestartKeepsTheOutcome` | `OutcomesAreTerminal` |
| `InstalledSkillsWork` | `[]InstalledSkillWorks` | `SkillsAssumption` |
| `SessionsAlwaysStayListed`, `EventsAreAlwaysReadBack` | `[]SessionsStayListed`, `[]EventsAreReadBack` | |
| `DreamsAreAlwaysAtomic` | `[]DreamsAreAtomic` | `DreamsAssumption` |

The theorems of the `Task...` modules and of `TurnLoopProofs`, and those about
`WorkerLoop`, `Foreground` and the leases are about the `Spec` of these modules. The others
are about the `MCSpec` of `MCWorkers`, `MCTerminal` and `MCStores`, whose constants are the
modules' own and may have any value.

The assumptions on constants say what the code cannot do otherwise. Bounds are
natural numbers. `EditsAssumption`: turns and workers are not the same, there are
finitely many files, a call has a path, and a checkpoint is kept. `OutcomesAreTerminal`: the
outcomes of tasks are terminal statuses. `SkillsAssumption`: names and titles are
ordered. `DreamsAssumption`: dreams are numbered.

**Coordinator.** `TypeOK` is proved action by action, from lemmas on the helpers
(what `TryStartWaiting`, `ClearCurrentIf`, `Farewells` and `Deliver` may return).
Each of the other five of `TaskCoordinatorProofs` is inductive together with `TypeOK`;
the proofs rest on lemmas that say what a handler does to the statuses of all
tasks. `TryStartEffect` and the `...Moves` lemmas: a handler moves its own task to
one of a few statuses and perhaps one waiting task to `running`.
`TryStartLeavesNoneAlone`: after `TryStartWaiting` no startable task is left by
itself; handlers that do not call it leave their own task active
(`CompanyIsEnough`). `RestartEffect` says the same of recovery, from the code of
recovery alone: however old the save is, the recovered state satisfies the property.

**Review.** `EachSubmissionJudgedOnce` is not inductive: a restart takes the counts from
the disk. `JudgedInv` adds that the verifiers are finite and that the saved attempts
do not exceed the saved submissions. `AskerCanBeAnswered` needs `KnownInv` (only tasks
that were added have workers, commands, questions or events, on disk as well) and
`AskerInv` (where the question is at each point of its way). `RevisionIsWorkedOn` needs,
besides, that a worker that was told it is accepted has no handle (`DismissedInv`)
and `RevisedInv`, which follows the feedback from the verdict through the inbox into the
worker's turn.

**Reopening.** `OnlyLateMessagesReopen` is about a step: an ended task changes its status
only because its own worker's question, asked before, is handled, because the verdict
on an earlier submission is, or in a restart after the event thread died. `ReopenInv`
is the account of what may still be under way: a worker asks one question at a time,
which is in its queue, with the user, or answered (`QuestionInv`); "cancelled" is the
last word but for questions, and no verifier is left behind it (`CancelInv`); a task
without a process has nothing under way (`SilentInv`, `FreshInv`); while the event
thread lives, an end is on disk (`SavedInv`).

**Task files.** The index is never older than the mailbox. `FilesInv` says so by what has
"begun" (a task that is neither unknown nor waiting): what asks in the mailbox has
begun in the index, what has begun in the index has begun in memory, and an
outcome in the index is the one in memory. Once a truncated index was read, or a
replaced coordinator has saved late, nothing is claimed.

**Worker.** `EveryCommandIsSomewhere` is proved from the invariant that the places are
pairwise disjoint sets of numbers up to those sent, with sequences that hold each
number once; one lemma for each way a command moves. `SubmittedOnce` needs that a
pending completion is an earlier turn than the one that runs and was not submitted.
`ReplyIsForItsTalk` needs three facts (`ReplyInv`): no talk is replied to twice, and
each reply that is on its way or was given is for a talk whose turn has begun; the
turn that runs has not replied yet; and every talk that was sent is the one whose
caller waits, was given up, or its caller got a reply.

**Codex session.** What the thread has still to read, buffer and pipe, is one stream.
`UnreadInv`: it holds at most one response for a request, and while the server works on
a turn nothing but deltas follows the response to that turn's request. Lines left
from an earlier turn come before that response, and `ReadResponse` reads past them.

**Answers.** The old thread of a request that was given up still writes into its own
queue. `StreamInv`: the pieces that were said and not yet heard are in the present
queue, once each and in order (`Carries`), and nothing follows a last word. `DeltasInv`:
what a worker has collected is what was heard while there was only one request.

**Turn loop.** What the functions on histories return is not known to the provers, so
each is characterised once: the recursive function behind `Joined` exists
(`SequenceFacts`), and what `NormalizeForPrompt` and `RepairDanglingToolCalls` give is
related position by position to what they are given, by induction over the length
(`LeastNumber`: a set of numbers that is not empty has a least element). A history is
`Sound` when no call and no output is in it twice and the outputs of a chat message come
directly behind it. `Inv` is `TypeOK` with three parts. `Flow`: the calls that run (`batch`
and `rest`) are different ones that were given out. `Recorded`: the history, and what the log
replays as, are sound, the running calls are `Open` in both (no output yet, and only
outputs behind their message), every beginning of the log replays as something sound
(`LogSound`: a crash may cut a handler half way), and unless a payload was cut the two have the
same conversation and results (`SameAs`). `PromptOK`: in the prompt each call has its output
behind it (`Pairs`), and for chat items it shows the outputs of the history.

**Fork.** `ForkInv` adds to `Inv` what a reader finds at any moment, since it shares no lock
with the turn. The prompt, the last prompt and the prompt that was read are `Settled`:
each call has its outputs behind it and there are no others, so that repairing them
changes nothing, and behind them nothing else is changed but calls and outputs
(`SettledBegins`). With placeholders for all calls of one answer the fork is settled as
well; for chat items that needs that an answer is at most one item, for the other
styles the first request may still move the outputs, and the property then claims
the beginning only. `OwnMessage`: the message of the turn is in the prompt it sends.
`Heard`: what was said in the history is in the prompt that is about to be sent, and
in the last prompt together with the answer to it, until a compaction or a dream. `Said` leaves calls, outputs and
summaries out.

**Foreground.** `Table` relates the threads, their idents, and the table that makes a
thread a worker: an entry that counts is that of the thread that has the ident now,
and a promotion overwrites none that counts. Reports and approvals follow from it.

**Settings.** `SettingsInv`: while a change is under way, the settings that may be put
back are those of the coordinator, which is restarted last, and can be built.

**Messages and sessions.** `ChatInv` has six parts. `Known`: types, and that what refers to a
turn or session refers to one that exists. `Flow`: of the turns the interface has not lost
track of, one at most is no worker; it is the foreground task once its thread has begun,
and the one that is handed over when a line is entered. `Apart`: no two such turns are in one
session, unless the user has resumed it, and a worker's session is not the main one.
`Told`: a turn that has not staged its message is mentioned nowhere, and what is pending in a
session is a message of a turn in it. `Keeps`: the message comes once, and right before the
answer. `Recorded`: a turn is in the newest object of its file, and the file leaves what that
object holds. The theorems have `part = "runtime"` as a condition: the other behaviours of
`MCTerminal` leave these variables alone.

**Screen.** The text on the screen is split at `_streaming_pos`: in front of it lie texts that
are done, behind it what the buffers still hold and will be shown again. The invariant says
where the pieces of what was written are at each point of a refresh, by kind; a piece that
is overwritten is a piece of the buffers (`InParts` of `SequenceFacts`: what is an element of
a sequence put together from parts).

**Questions on their way to the screen.** `MailInv`: the number of each question that is
unannounced is in the notice buffer or among the notices just pulled. Only the handler
that makes a notice may leave one out, and then it says so in `swallowed`.

**Editing.** `LeaseKeepsWhatWasRead` needs that a worker in a call holds the leases of all
the paths it has still to write (`Holds`), from the table's exclusion. For
`RewindUndoesTheTurn`, `AloneInv`: at most one turn that has run alone is live, it is the
active one, and nobody else writes into its checkpoint. `BackupInv`: each copy is what
the turn found, for the entries already in the manifest and for those copied and not
yet in it, and what the turn is about to write has a copy. `Fades` says that histories
only lose what they claim, so that other turns' steps keep both.

**Skills.** A directory belongs to the call that made it: nobody else copies into it,
and when the call goes on to the next skill its files are the checked ones
(`CopyOf`, `DoneOf`). Each step is shown to change at most the directory its process
copies into (`OwnDirectory`) or one that was not there (`Enters`); `OthersKeep` then does
all other calls at once.

**Sessions.** `ListedInv`: until two threads had the index in hand, the one that has it has
read all there is. `EventInv` counts a line cut short as the loss of the next event
already: with this `Lost` grows by two at a crash and never else.

**Dreams.** `DreamInv`: memory and log agree on the last dream at every step, and the
last record of an accepted dream is the last line of the log, so that a replay finds
its status.

**Lease files.** `WritersExclude` speaks of the end of a call only. `LeaseInv`
adds what holds in between: the paths a call has leased so far name it on disk,
a file being filled is unreadable to others and being filled by one process
only (`CallInv`), and a process's own account covers its files (`HeldInv`). The
lemma `StepEffect` sorts all steps into those that create, fill, or release one
file and those that change none; exclusion, the account, `OnlyHolderReleases` and the
refinement each follow from that one lemma.

## What is only model-checked

- The liveness properties (`ReviewEnds`, `QueuedTaskGetsItsTurn`, `TurnEnds`, `WorkerEnds`,
  `FinishedTurnIsReported`, `TurnIsAnswered`), which need fairness and `ENABLED`.

## What is not modelled

`PROJECT.json` gives every component with its status. Left out:

- Parsing and formatting of text, token estimates, model clients, layout, and the
  file, process and network access inside tools (web, shell, search).
- The permission engine: one pass over a call's arguments without state, most of it
  the reading of shell text. What its rules file and its approvals do to the
  rest is in `ChatRuntime` and `Foreground`.
- Context packets, agent profiles, responder, worker handle types: data assembled for
  a prompt, and constant tables. Hooks (but for the blocking one), configuration,
  logging, evaluations: loading of files, without state over time. Of skills: other
  destinations, built-in ones, the choice by the words of a request.
- Of the coordinator: sessions that `talk_to_peer` drives without a worker
  (coordinator.py 235-299, 1073-1096) with their store, a process that fails to
  start (coordinator.py 872; a hazard without a property), authorization notes, the
  window in `reply_mailbox_message` between the release of the lock and the write.
- Of the terminal: commands that only print, key bindings other than enter and
  interrupt, `/quiet`, the replay of questions after a restart.
- Of the task files: records that do not parse in an index that does.

## Plan

1. The sessions that `talk_to_peer` drives without a worker.
2. An abstract life cycle of a task that `TaskCoordinator` implements, and
   `WorkerLoop` as a refinement of the worker in `TaskCoordinator`.
3. The start of a worker process that fails.

## Running

```
tlc -workers 2 -config review.cfg TaskCoordinator.tla
tlc -workers 2 -config workers.cfg MCWorkers.tla
tlapm WorkersProofs.tla
```

The module of each run is in the table above; the runs `v_...` go with
`TaskCoordinator`, `MCTurnLoop` and `MCTerminal`. `review`, `faults` and `progress` take
seconds, the others between one and three minutes. `tlapm` takes up to ten
minutes for a module.
