----------------------------- MODULE Foreground -----------------------------
(***************************************************************************)
(* The terminal interface and the threads it starts (cli.py): each message   *)
(* of the user runs as a turn in a thread of its own; the next line that is  *)
(* typed promotes the turn that runs to a worker of the coordinator, through *)
(* a ForegroundWorkerHandle (local_thread_worker.py).                        *)
(*                                                                         *)
(* A turn, its task and the worker made of it are one number; its checkpoint *)
(* is in Checkpoints, its session in TurnLoop.  The interface handles one    *)
(* line at a time; its handler and the threads interleave between the steps  *)
(* below, each of which ends where the code does I/O, takes a lock or calls  *)
(* the coordinator, of which only the status of promoted tasks is kept       *)
(* (TaskCoordinator has the rest).                                           *)
(***************************************************************************)
EXTENDS Integers, Sequences, FiniteSets

CONSTANTS
    MaxTurns,   \* bound: messages the user types
    Idents,     \* what threading.get_ident() returns; reused when a thread ends
    MaxAsks     \* bound: approvals the tools of all turns ask for

Turns == 1..MaxTurns

VARIABLES
    ui,          \* where the handler of a line is, "ready" between lines
    moving,      \* the task promote_foreground_to_worker works on
    started,     \* turns started so far
    foreground,  \* runtime.foreground_task, 0 for None
    status,      \* ForegroundTask.status
    pc,          \* where the thread of a turn is
    ident,       \* its ident
    bound,       \* ForegroundTask.thread_id, 0 for None
    contexts,    \* runtime._worker_threads: the worker of an ident, 0 for none
    pending,     \* TuiApprovalController._pending: the turn that asks, or 0
    asks,        \* approvals asked so far
    asking,      \* the worker whose handle a turn waits at
    worker,      \* status of the promoted task at the coordinator
    open,        \* turns whose question is pending in the mailbox
    reports,     \* completed and failed events: worker and thread they come from
    stranded     \* turns whose worker context missed or outlived their thread

uiVars == <<ui, moving, started>>
turnVars == <<foreground, status, bound, contexts>>
approvalVars == <<pending, asks, asking>>
workerVars == <<worker, open, reports, stranded>>
vars == <<uiVars, turnVars, approvalVars, workerVars, pc, ident>>

Init ==
    /\ ui = "ready" /\ moving = 0 /\ started = 0
    /\ foreground = 0 /\ status = [t \in Turns |-> "running"]
    /\ pc = [t \in Turns |-> "none"] /\ ident = [t \in Turns |-> 0]
    /\ bound = [t \in Turns |-> 0] /\ contexts = [i \in Idents |-> 0]
    /\ pending = 0 /\ asks = 0 /\ asking = [t \in Turns |-> 0]
    /\ worker = [t \in Turns |-> "none"] /\ open = {}
    /\ reports = {} /\ stranded = {}

Live(t) == pc[t] \notin {"none", "done"}
InLoop(t) == pc[t] \in {"run", "approve", "ask"}

---------------------------------------------------------------------------
(* The interface *)

\* A line is the answer to the approval that is pending, whatever the user meant.
AnswerApproval ==
    /\ ui = "ready" /\ pending # 0
    /\ pc' = [pc EXCEPT ![pending] = "run"] /\ pending' = 0
    /\ UNCHANGED <<uiVars, turnVars, workerVars, asks, asking, ident>>

Enter ==
    /\ ui = "ready" /\ pending = 0
    /\ ui' = "handle"
    /\ UNCHANGED <<moving, started, turnVars, approvalVars, workerVars, pc, ident>>

HandleInput ==
    /\ ui = "handle"
    /\ IF foreground # 0 /\ status[foreground] = "running"
       THEN ui' = "register" /\ moving' = foreground
       ELSE ui' = "dispatch" /\ UNCHANGED moving
    /\ UNCHANGED <<started, turnVars, approvalVars, workerVars, pc, ident>>

\* promote_foreground_to_worker, in the order of its effects: the coordinator
\* has a running task, the thread becomes its worker, the session forks.
RegisterWorker ==
    /\ ui = "register"
    /\ worker' = [worker EXCEPT ![moving] = "running"]
    /\ ui' = "mark"
    /\ UNCHANGED <<moving, started, turnVars, approvalVars, open, reports, stranded, pc, ident>>

MarkWorker ==
    /\ ui = "mark"
    /\ status' = [status EXCEPT ![moving] = "worker"]
    /\ contexts' = IF bound[moving] = 0 THEN contexts
                   ELSE [contexts EXCEPT ![bound[moving]] = moving]
    /\ stranded' = IF InLoop(moving) THEN stranded ELSE stranded \union {moving}
    /\ ui' = "fork"
    /\ UNCHANGED <<moving, started, foreground, bound, approvalVars, worker,
                   open, reports, pc, ident>>

ForkSession ==
    /\ ui = "fork"
    /\ foreground' = 0
    /\ ui' = "dispatch" /\ moving' = 0
    /\ UNCHANGED <<started, status, bound, contexts, approvalVars, workerVars, pc,
                   ident>>

StartTurn ==
    /\ ui = "dispatch" /\ started < MaxTurns
    /\ started' = started + 1 /\ ui' = "ready"
    /\ \E i \in Idents :
         /\ \A t \in Turns : Live(t) => ident[t] # i
         /\ ident' = [ident EXCEPT ![started'] = i]
    /\ pc' = [pc EXCEPT ![started'] = "begin"]
    /\ UNCHANGED <<moving, turnVars, approvalVars, workerVars>>

\* The coordinator cancels a task, its questions and, by terminate, its turn.
CancelWorker(t) ==
    /\ worker[t] \in {"running", "reported"}
    /\ worker' = [worker EXCEPT ![t] = "cancelled"]
    /\ open' = {u \in open : asking[u] # t}

\* The line is a command; /cancel cancels a task.
RunCommand ==
    /\ ui = "dispatch" /\ ui' = "ready"
    /\ \/ UNCHANGED <<worker, open>>
       \/ \E t \in Turns : CancelWorker(t)
    /\ UNCHANGED <<moving, started, turnVars, approvalVars, reports, stranded, pc, ident>>

\* Ctrl-C cancels a task of the coordinator.  (While there is a foreground task
\* it sets that one's cancel event, and its loop may return at any time anyway.)
Interrupt ==
    /\ ui = "ready" /\ foreground = 0
    /\ \E t \in Turns : CancelWorker(t)
    /\ UNCHANGED <<uiVars, turnVars, approvalVars, reports, stranded, pc, ident>>

\* The review at the coordinator accepts the result and lets go of the handle.
AcceptResult(t) ==
    /\ worker[t] = "reported"
    /\ worker' = [worker EXCEPT ![t] = "accepted"]
    /\ UNCHANGED <<uiVars, turnVars, approvalVars, open, reports, stranded, pc, ident>>

---------------------------------------------------------------------------
(* The thread of a turn *)

Goto(t, place) == pc' = [pc EXCEPT ![t] = place]

BeginForegroundTask(t) ==
    /\ pc[t] = "begin" /\ Goto(t, "bind")
    /\ foreground' = t
    /\ UNCHANGED <<uiVars, status, bound, contexts, approvalVars, workerVars,
                   ident>>

BindForegroundTask(t) ==
    /\ pc[t] = "bind" /\ Goto(t, "run")
    /\ bound' = [bound EXCEPT ![t] = ident[t]]
    /\ UNCHANGED <<uiVars, foreground, status, contexts, approvalVars, workerVars,
                   ident>>

AlwaysFree == TRUE   \* mutant
TerminalIsFree == pending = 0

\* A tool asks: at the handle of the worker this thread has become, which puts
\* the task back to needs_user, or else in the terminal, where a second request
\* is refused while one is pending.
RouteApproval(t) ==
    /\ pc[t] = "run" /\ asks < MaxAsks
    /\ asks' = asks + 1
    /\ LET context == contexts[ident[t]] IN
         CASE context # 0 -> /\ Goto(t, "ask")
                             /\ asking' = [asking EXCEPT ![t] = context]
                             /\ open' = open \union {t}
                             /\ worker' = IF worker[context] = "accepted" THEN worker
                                          ELSE [worker EXCEPT ![context] = "running"]
                             /\ UNCHANGED pending
           [] context = 0 /\ TerminalIsFree -> /\ Goto(t, "approve") /\ pending' = t
                                               /\ UNCHANGED <<asking, open, worker>>
           [] OTHER -> UNCHANGED <<pc, pending, asking, open, worker>>
    /\ UNCHANGED <<uiVars, turnVars, reports, stranded, ident>>

\* The user answers the question and the coordinator still has the handle.
DeliverAnswer(t) ==
    /\ pc[t] = "ask" /\ t \in open /\ worker[asking[t]] # "accepted"
    /\ Goto(t, "run") /\ asking' = [asking EXCEPT ![t] = 0] /\ open' = open \ {t}
    /\ UNCHANGED <<uiVars, turnVars, worker, reports, stranded, pending, asks, ident>>

\* run() returns or raises.
LoopReturns(t) ==
    /\ pc[t] = "run" /\ Goto(t, "ran")
    /\ UNCHANGED <<uiVars, turnVars, approvalVars, workerVars, ident>>

\* A worker's thread reports to the coordinator; any other finishes the
\* foreground task, whose ever that is.
Report(t) ==
    /\ pc[t] = "ran" /\ Goto(t, "unbind")
    /\ LET context == contexts[ident[t]] IN
         IF context # 0
         THEN /\ reports' = reports \union {<<context, t>>}
              /\ worker' = IF worker[context] = "running"
                           THEN [worker EXCEPT ![context] = "reported"] ELSE worker
              /\ UNCHANGED <<foreground, status>>
         ELSE /\ status' = IF foreground = 0 THEN status
                           ELSE [status EXCEPT ![foreground] = "completed"]
              /\ foreground' = 0
              /\ UNCHANGED <<reports, worker>>
    /\ UNCHANGED <<uiVars, bound, contexts, approvalVars, open, stranded, ident>>

\* Mutant: the context of a thread outlives it.
UnbindNothing(t) ==
    /\ pc[t] = "unbind" /\ Goto(t, "done")
    /\ UNCHANGED <<uiVars, foreground, status, bound, approvalVars, worker, contexts,
                   open, reports, stranded, ident>>

\* The context stays while the foreground task is still the one it belongs to.
UnbindForegroundTask(t) ==
    /\ pc[t] = "unbind" /\ Goto(t, "done")
    /\ LET context == contexts[ident[t]]
           kept == foreground # 0 /\ context = foreground /\ status[foreground] = "worker"
       IN IF kept THEN stranded' = stranded \union {context} /\ UNCHANGED contexts
          ELSE contexts' = [contexts EXCEPT ![ident[t]] = 0] /\ UNCHANGED stranded
    /\ UNCHANGED <<uiVars, foreground, status, bound, approvalVars, worker,
                   open, reports, ident>>

ThreadStep(t) ==
    \/ BeginForegroundTask(t) \/ BindForegroundTask(t)
    \/ LoopReturns(t) \/ Report(t) \/ UnbindForegroundTask(t)

UiStep == HandleInput \/ RegisterWorker \/ MarkWorker \/ ForkSession \/ StartTurn \/ RunCommand

Next ==
    \/ AnswerApproval \/ Enter \/ Interrupt \/ UiStep
    \/ \E t \in Turns : ThreadStep(t) \/ RouteApproval(t) \/ DeliverAnswer(t) \/ AcceptResult(t)

Spec == Init /\ [][Next]_vars

---------------------------------------------------------------------------
(* Properties *)

\* The variables hold what the code's can.
TypeOK ==
    /\ ui \in {"ready", "handle", "register", "mark", "fork", "dispatch"}
    /\ {moving, foreground, pending} \subseteq 0..started
    /\ started \in 0..MaxTurns /\ asks \in 0..MaxAsks
    /\ status \in [Turns -> {"running", "completed", "worker"}]
    /\ pc \in [Turns -> {"none", "begin", "bind", "run", "approve", "ask",
                         "ran", "unbind", "done"}]
    /\ {ident, bound} \subseteq [Turns -> Idents \union {0}]
    /\ contexts \in [Idents -> 0..MaxTurns]
    /\ asking \in [Turns -> 0..MaxTurns]
    /\ worker \in [Turns -> {"none", "running", "reported", "cancelled", "accepted"}]
    /\ reports \subseteq Turns \X Turns /\ {open, stranded} \subseteq SUBSET Turns

\* A turn that becomes a worker while it is in its loop reports once, from its own
\* thread, before the thread ends.  Only a promotion that reaches the thread before
\* or after its loop, or ends after the thread has, leaves a task that nobody ends
\* or a context for which the next thread with that ident reports.
PromotedTurnReports ==
    \A t \in Turns \ stranded :
      /\ \A r \in reports : r[1] = t => r[2] = t
      /\ pc[t] = "done" /\ status[t] = "worker" => <<t, t>> \in reports

\* Whoever waits for an approval can get it: the terminal's pending request is
\* that of the one turn that waits there, and a turn that waits at the handle of
\* its own worker has a question that is open, unless its task was cancelled.
WaitingTurnCanBeAnswered ==
    \A t \in Turns :
      /\ pc[t] = "approve" <=> pending = t
      /\ pc[t] = "ask" /\ asking[t] = t =>
           (t \in open /\ worker[t] # "accepted") \/ worker[t] = "cancelled" \/ t \in stranded
      /\ pc[t] = "ask" => asking[t] = t \/ asking[t] \in stranded

=============================================================================
