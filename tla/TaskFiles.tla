----------------------------- MODULE TaskFiles -----------------------------
(***************************************************************************)
(* The files of the task coordinator, tasks/index.json and                  *)
(* tasks/mailbox.json, step by step (async_runtime/task_store.py), and what  *)
(* a coordinator makes of them when it starts.                              *)
(*                                                                         *)
(* TaskCoordinator says what each handler does to the tasks, and saves in no *)
(* time.  Here a handler is only what it does to one task, and its save is   *)
(* four steps: each file is truncated and then filled.  The process may      *)
(* crash between any two, and a command that replaces the coordinator waits  *)
(* three seconds for a handler of the old one, which then saves late.        *)
(* Whether a waiting task may start is TaskCoordinator's business.           *)
(***************************************************************************)
EXTENDS Naturals, Sequences

CONSTANTS
    Tasks,
    Outcomes,      \* the statuses a handler may end a task with: terminal ones
    MaxQuestions,  \* bound: messages of one task
    MaxLoads       \* bound: coordinators that start on the files

VARIABLES
    status, mail,  \* the registry and the mailbox of the coordinator in use
    at,            \* what it is doing
    late,          \* the save of a coordinator that has been replaced
    index, box,    \* the two files
    loads,
    ended,         \* history: the outcome of each task that the index was given
    disturbed      \* history: a truncated index was read, or a save came late

memory == <<status, mail>>
files == <<index, box>>
vars == <<memory, at, late, files, loads, ended, disturbed>>

TerminalStatuses == {"accepted", "rejected", "failed", "blocked", "cancelled"}
Stale == {"running", "needs_user", "verifying", "needs_revision"}
Underway == Stale \union {"needs_user_decision"}
Statuses == {"absent", "waiting"} \union Underway \union TerminalStatuses

\* A file that is being written: it does not parse.
Torn == [torn |-> TRUE]
NoSave == [at |-> "free"]

Nothing == [t \in Tasks |-> "absent"]
NoMail == [t \in Tasks |-> <<>>]

Init ==
    /\ status = Nothing /\ mail = NoMail
    /\ at = "free" /\ late = NoSave
    /\ index = Nothing /\ box = NoMail
    /\ loads = 0
    /\ ended = [t \in Tasks |-> "none"] /\ disturbed = FALSE
---------------------------------------------------------------------------
(* Handlers, all under the lock *)

IsPending(message) == message = "pending"
HasPending(messages) == \E i \in DOMAIN messages : IsPending(messages[i])
Cancelled(messages) ==
    [i \in DOMAIN messages |-> IF IsPending(messages[i]) THEN "cancelled" ELSE messages[i]]

\* A handler leaves a task with this status and these messages, and saves.
Becomes(t, newStatus, messages) ==
    /\ at = "free" /\ at' = "truncate index"
    /\ status' = [status EXCEPT ![t] = newStatus]
    /\ mail' = [mail EXCEPT ![t] = messages]
    /\ UNCHANGED <<late, files, loads, disturbed>>

Schedule(t) ==
    /\ status[t] = "absent"
    /\ \E s \in {"running", "waiting"} : Becomes(t, s, mail[t])
    /\ UNCHANGED ended

\* A waiting task is started, a worker submits, a verdict or a decision comes.
Proceed(t) ==
    /\ status[t] \in Underway \union {"waiting"}
    /\ \E s \in Underway \ {"needs_user"} : Becomes(t, s, mail[t])
    /\ UNCHANGED ended

\* A question, also of a task that has ended: it needs the user again.
Ask(t) ==
    /\ status[t] # "absent" /\ Len(mail[t]) < MaxQuestions
    /\ Becomes(t, "needs_user", Append(mail[t], "pending"))
    /\ ended' = [ended EXCEPT ![t] = "none"]

Reply(t) ==
    \E i \in DOMAIN mail[t] :
      LET messages == [mail[t] EXCEPT ![i] = "answered"] IN
      /\ IsPending(mail[t][i])
      /\ Becomes(t, IF status[t] = "needs_user" /\ ~HasPending(messages)
                    THEN "running" ELSE status[t], messages)
      /\ UNCHANGED ended

End(t) ==
    /\ status[t] \in Underway
    /\ \E s \in Outcomes : Becomes(t, s, mail[t])
    /\ UNCHANGED ended

Cancel(t) ==
    /\ status[t] \in Underway \union {"waiting"}
    /\ Becomes(t, "cancelled", Cancelled(mail[t]))
    /\ UNCHANGED ended
---------------------------------------------------------------------------
(* _persist: save_registry, then save_mailbox *)

TruncateIndex ==
    /\ at = "truncate index" /\ at' = "fill index" /\ index' = Torn
    /\ UNCHANGED <<memory, late, box, loads, ended, disturbed>>

\* From now on the outcome of a task is known to the user and to the disk.
FillIndex ==
    /\ at = "fill index" /\ at' = "truncate mailbox" /\ index' = status
    /\ ended' = [t \in Tasks |-> IF status[t] \in TerminalStatuses THEN status[t] ELSE "none"]
    /\ UNCHANGED <<memory, late, box, loads, disturbed>>

TruncateMailbox ==
    /\ at = "truncate mailbox" /\ at' = "fill mailbox" /\ box' = Torn
    /\ UNCHANGED <<memory, late, index, loads, ended, disturbed>>

FillMailbox ==
    /\ at = "fill mailbox" /\ at' = "free" /\ box' = mail
    /\ UNCHANGED <<memory, late, index, loads, ended, disturbed>>

\* The same four steps of a coordinator that is no longer in use.
LateSave ==
    /\ \/ /\ late.at = "truncate index" /\ late' = [late EXCEPT !.at = "fill index"]
          /\ index' = Torn /\ UNCHANGED box
       \/ /\ late.at = "fill index" /\ late' = [late EXCEPT !.at = "truncate mailbox"]
          /\ index' = late.status /\ UNCHANGED box
       \/ /\ late.at = "truncate mailbox" /\ late' = [late EXCEPT !.at = "fill mailbox"]
          /\ box' = Torn /\ UNCHANGED index
       \/ /\ late.at = "fill mailbox" /\ late' = NoSave
          /\ box' = late.mail /\ UNCHANGED index
    /\ UNCHANGED <<memory, at, loads, ended, disturbed>>
---------------------------------------------------------------------------
(* A coordinator starts *)

Registry == IF index = Torn THEN Nothing ELSE index
Mailbox == IF box = Torn THEN NoMail ELSE box

\* _recover_loaded_registry
Recovered(registry) ==
    [t \in Tasks |-> IF registry[t] \in Stale THEN "failed" ELSE registry[t]]

\* Mutant: the questions are withdrawn by the statuses on disk.
CancelByDisk(registry, messages) ==
    [t \in Tasks |-> IF registry[t] \in TerminalStatuses THEN Cancelled(messages[t])
                     ELSE messages[t]]

\* _cancel_mailbox_messages_for_terminal_tasks
CancelForTerminal(registry, messages) ==
    [t \in Tasks |-> IF Recovered(registry)[t] \in TerminalStatuses
                     THEN Cancelled(messages[t]) ELSE messages[t]]

\* The constructor reads both files.
Load ==
    /\ loads < MaxLoads /\ loads' = loads + 1
    /\ at' = "start"
    /\ status' = Recovered(Registry)
    /\ mail' = CancelForTerminal(Registry, Mailbox)
    /\ UNCHANGED files

\* The process ends, or crashes, and another is started.
Restart ==
    /\ Load
    /\ late' = NoSave
    /\ disturbed' = (disturbed \/ index = Torn)
    /\ UNCHANGED ended

\* _restart_async_coordinator: stop gives up on a handler after three seconds.
Replace ==
    /\ at # "start" /\ late = NoSave
    /\ Load
    /\ late' = IF at = "free" THEN NoSave ELSE [at |-> at, status |-> status, mail |-> mail]
    /\ disturbed' = (disturbed \/ index = Torn \/ late' # NoSave)
    /\ UNCHANGED ended

\* start: a waiting task may be started, and both files are written.
Start ==
    /\ at = "start" /\ at' = "truncate index"
    /\ \/ UNCHANGED status
       \/ \E t \in Tasks : status[t] = "waiting" /\ status' = [status EXCEPT ![t] = "running"]
    /\ UNCHANGED <<mail, late, files, loads, ended, disturbed>>

Next ==
    \/ \E t \in Tasks : \/ Schedule(t) \/ Proceed(t) \/ Ask(t) \/ Reply(t)
                        \/ End(t) \/ Cancel(t)
    \/ TruncateIndex \/ FillIndex \/ TruncateMailbox \/ FillMailbox \/ LateSave
    \/ Restart \/ Replace \/ Start

Spec == Init /\ [][Next]_vars
---------------------------------------------------------------------------
(* Properties *)

\* Once an outcome is in the index it is the outcome, whatever crashes come and
\* however far the save was, until a late question of its worker reopens the task.
\* Only a crash that hits the index truncated, or a save of a coordinator that has
\* been replaced, takes it back.
OutcomesAreKept ==
    ~disturbed => \A t \in Tasks : ended[t] # "none" => status[t] = ended[t]

\* A coordinator starts with no question that nobody waits for: its task waits for
\* the user's decision - or is unknown, when the index did not parse or was older
\* than the mailbox.
QuestionsHaveATask ==
    at = "start" =>
      \A t \in Tasks : HasPending(mail[t]) =>
        status[t] = "needs_user_decision" \/ disturbed

\* Both: a restart keeps what has ended and asks nothing in the name of what it ended.
RestartKeepsTheOutcome == OutcomesAreKept /\ QuestionsHaveATask
=============================================================================
