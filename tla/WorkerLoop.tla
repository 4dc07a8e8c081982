----------------------------- MODULE WorkerLoop -----------------------------
(***************************************************************************)
(* A worker process in detail (worker_main.py), with the coordinator at the  *)
(* other end of its pipes and talk_to_peer waiting for its replies           *)
(* (async_runtime/coordinator.py).  TaskCoordinator has many workers whose   *)
(* inside is coarse; here is one worker and each step of its inbox.          *)
(*                                                                         *)
(* Commands are numbered in the order in which they are sent, turns of the   *)
(* model in the order in which they run; what they say is left out.          *)
(***************************************************************************)
EXTENDS Integers, Sequences, FiniteSets, SequencesExt

CONSTANTS
    MaxCommands,  \* bound: commands the coordinator sends
    MaxAsks,      \* bound: questions the worker asks
    MaxTimeouts   \* bound: talks whose reply comes after 120 seconds

ASSUME WorkerBounds == {MaxCommands, MaxAsks, MaxTimeouts} \subseteq Nat

VARIABLES
    pipe,        \* commands on their way to the worker's stdin
    hungup,      \* the coordinator's end of the pipe is closed
    sent,        \* kinds of the commands sent so far
    inbox,       \* WorkerInbox.queue
    cancelled,   \* WorkerInbox.cancelled
    closed,      \* WorkerInbox.closed
    pc,          \* where main() is
    tasks,       \* pending_tasks
    current,     \* the task whose turn runs, is_talk with it
    completion,  \* pending_completion: the turn that gave it, 0 for None
    turns,       \* turns that have run or run now
    appends,     \* what drain_queued_work has taken out of the inbox so far:
    talks,       \*   appended messages, talks,
    retained,    \*   and the commands it will put back
    asked,       \* questions asked so far
    out,         \* events on their way to the coordinator
    done,        \* commands a turn has worked on
    dropped,     \* commands taken out of the inbox for which no turn will run
    submitted,   \* turns whose answer was submitted, in order
    verdicts,    \* verdicts the coordinator has sent
    waiting,     \* the talk whose caller waits, 0 for none
    timedOut,    \* talks whose caller has given up
    replies      \* talks and what their callers got: pairs

inboxVars == <<pipe, hungup, sent, verdicts>>
drainVars == <<appends, talks, retained>>
peerVars == <<waiting, timedOut, replies>>
vars == <<inboxVars, inbox, cancelled, closed, pc, tasks, current, completion, turns,
          drainVars, asked, out, done, dropped, submitted, peerVars>>

Kinds == {"append", "talk", "feedback", "accepted", "answer", "cancel"}
Command(id, kind) == [id |-> id, kind |-> kind]
Task(id, isTalk) == [id |-> id, isTalk |-> isTalk]
Contract == Task(0, FALSE)
Ids(commands) == {commands[i].id : i \in DOMAIN commands}

Init ==
    /\ pipe = <<>> /\ hungup = FALSE /\ sent = <<>> /\ verdicts = 0
    /\ inbox = <<>> /\ cancelled = FALSE /\ closed = FALSE
    /\ pc = "loop" /\ tasks = <<Contract>> /\ current = Contract
    /\ completion = 0 /\ turns = 0 /\ asked = 0 /\ out = <<>>
    /\ appends = <<>> /\ talks = <<>> /\ retained = <<>>
    /\ done = {} /\ dropped = {} /\ submitted = <<>>
    /\ waiting = 0 /\ timedOut = {} /\ replies = {}

---------------------------------------------------------------------------
(* The coordinator's end *)

\* Mutant: another talk may take over the queue of replies.
MaySendAnyTalk(kind) ==
    /\ kind \in {"feedback", "accepted"} => verdicts < Len(submitted)
    /\ kind = "answer" => asked > Cardinality({i \in DOMAIN sent : sent[i] = "answer"})
    /\ \A i \in DOMAIN sent : sent[i] \notin {"cancel", "accepted"}

\* Verdicts answer submissions, answers answer questions, and one talk at a
\* time waits for its reply.
MaySend(kind) ==
    /\ kind \in {"feedback", "accepted"} => verdicts < Len(submitted)
    /\ kind = "answer" => asked > Cardinality({i \in DOMAIN sent : sent[i] = "answer"})
    /\ kind = "talk" => waiting = 0
    /\ \A i \in DOMAIN sent : sent[i] \notin {"cancel", "accepted"}

Send(kind) ==
    /\ ~hungup /\ Len(sent) < MaxCommands /\ MaySend(kind)
    /\ sent' = Append(sent, kind)
    /\ pipe' = Append(pipe, Command(Len(sent'), kind))
    /\ verdicts' = IF kind \in {"feedback", "accepted"} THEN verdicts + 1 ELSE verdicts
    /\ waiting' = IF kind = "talk" THEN Len(sent') ELSE waiting
    /\ UNCHANGED <<hungup, inbox, cancelled, closed, pc, tasks, current, completion, turns,
                   drainVars, asked, out, done, dropped, submitted, timedOut, replies>>

\* The coordinator takes the next event.  A reply goes to whoever waits, and to
\* nobody when nobody does; a completed is reviewed later.
TakeEvent ==
    /\ out # <<>> /\ ~hungup
    /\ out' = Tail(out)
    /\ LET e == Head(out) IN
         IF e.kind = "peer_reply" /\ waiting # 0
         THEN waiting' = 0 /\ replies' = replies \union {<<waiting, e.of>>}
         ELSE UNCHANGED <<waiting, replies>>
    /\ UNCHANGED <<inboxVars, inbox, cancelled, closed, pc, tasks, current, completion,
                   turns, drainVars, asked, done, dropped, submitted, timedOut>>

TalkTimesOut ==
    /\ waiting # 0 /\ Cardinality(timedOut) < MaxTimeouts
    /\ timedOut' = timedOut \union {waiting} /\ waiting' = 0
    /\ UNCHANGED <<inboxVars, inbox, cancelled, closed, pc, tasks, current, completion,
                   turns, drainVars, asked, out, done, dropped, submitted, replies>>

\* The coordinator's process ends.
HangUp ==
    /\ ~hungup /\ hungup' = TRUE
    /\ UNCHANGED <<pipe, sent, verdicts, inbox, cancelled, closed, pc, tasks, current,
                   completion, turns, drainVars, asked, out, done, dropped, submitted,
                   peerVars>>

---------------------------------------------------------------------------
(* The thread that reads stdin *)

ReadStdin ==
    /\ ~closed /\ pipe # <<>>
    /\ inbox' = Append(inbox, Head(pipe)) /\ pipe' = Tail(pipe)
    /\ cancelled' = (cancelled \/ Head(pipe).kind = "cancel")
    /\ UNCHANGED <<hungup, sent, verdicts, closed, pc, tasks, current, completion, turns,
                   drainVars, asked, out, done, dropped, submitted, peerVars>>

ReadEof ==
    /\ ~closed /\ pipe = <<>> /\ hungup
    /\ closed' = TRUE
    /\ UNCHANGED <<inboxVars, inbox, cancelled, pc, tasks, current, completion, turns,
                   drainVars, asked, out, done, dropped, submitted, peerVars>>

---------------------------------------------------------------------------
(* main() *)

Event(kind, of) == [kind |-> kind, of |-> of]
ThreadVars == <<inboxVars, cancelled, closed, peerVars>>

Exit(kind) ==
    /\ pc' = "exit" /\ out' = Append(out, Event(kind, 0))
    /\ UNCHANGED <<ThreadVars, tasks, current, completion, turns, drainVars, asked, done,
                   submitted>>

Submit(turn) ==
    /\ out' = Append(out, Event("completed", turn))
    /\ submitted' = Append(submitted, turn)
    /\ pc' = "followup"

\* Mutant: a worker that waits for a verdict does not look at the flag.
SeeCancelInLoop ==
    /\ cancelled /\ pc = "loop"
    /\ Exit("cancelled")
    /\ UNCHANGED <<inbox, dropped>>

\* A cancel is seen before each turn and while the worker waits for a verdict.
SeeCancel ==
    /\ cancelled /\ pc \in {"loop", "followup"}
    /\ Exit("cancelled")
    /\ UNCHANGED <<inbox, dropped>>

\* Mutant: the completion stays pending.
SubmitAndKeep ==
    /\ pc = "loop" /\ ~cancelled /\ tasks = <<>> /\ completion # 0
    /\ Submit(completion) /\ UNCHANGED completion
    /\ UNCHANGED <<ThreadVars, inbox, tasks, current, turns, drainVars, asked, done, dropped>>

SubmitPending ==
    /\ pc = "loop" /\ ~cancelled /\ tasks = <<>> /\ completion # 0
    /\ Submit(completion) /\ completion' = 0
    /\ UNCHANGED <<ThreadVars, inbox, tasks, current, turns, drainVars, asked, done, dropped>>

StartTurn ==
    /\ pc = "loop" /\ ~cancelled /\ tasks # <<>>
    /\ current' = Head(tasks) /\ tasks' = Tail(tasks)
    /\ turns' = turns + 1 /\ done' = done \union {Head(tasks).id}
    /\ pc' = "turn"
    /\ UNCHANGED <<ThreadVars, inbox, completion, drainVars, asked, out, dropped, submitted>>

\* A tool needs an approval, or the model asks the user.
Ask ==
    /\ pc = "turn" /\ asked < MaxAsks
    /\ asked' = asked + 1 /\ pc' = "ask"
    /\ out' = Append(out, Event("question", asked'))
    /\ UNCHANGED <<ThreadVars, inbox, tasks, current, completion, turns, drainVars, done,
                   dropped, submitted>>

\* The number of the question a command answers.
Answers(command) ==
    Cardinality({i \in 1..command.id : sent[i] = "answer"})

\* While it waits for an answer the worker reads its inbox and throws away what
\* is not the answer.
TakeWhileAsking ==
    /\ pc = "ask" /\ inbox # <<>>
    /\ inbox' = Tail(inbox)
    /\ IF cancelled
       THEN /\ Exit("failed") /\ dropped' = dropped \union {Head(inbox).id}
       ELSE /\ IF Head(inbox).kind = "answer" /\ Answers(Head(inbox)) = asked
               THEN pc' = "turn" /\ UNCHANGED dropped
               ELSE dropped' = dropped \union {Head(inbox).id} /\ UNCHANGED pc
            /\ UNCHANGED <<ThreadVars, tasks, current, completion, turns, drainVars, asked,
                           out, done, submitted>>

SeeCancelWhileAsking ==
    /\ pc = "ask" /\ inbox = <<>> /\ cancelled
    /\ Exit("failed")
    /\ UNCHANGED <<inbox, dropped>>

TurnFails ==
    /\ pc = "turn" /\ Exit("failed") /\ UNCHANGED <<inbox, dropped>>

FinishTurn ==
    /\ pc = "turn" /\ pc' = "drain"
    /\ UNCHANGED <<ThreadVars, inbox, tasks, current, completion, turns, drainVars, asked,
                   out, done, dropped, submitted>>

\* drain_queued_work takes one command after the other while the thread that
\* reads stdin goes on putting more in.
DrainOne ==
    /\ pc = "drain" /\ inbox # <<>>
    /\ inbox' = Tail(inbox)
    /\ LET c == Head(inbox) IN
         /\ appends' = IF c.kind = "append" THEN Append(appends, c) ELSE appends
         /\ talks' = IF c.kind = "talk" THEN Append(talks, c) ELSE talks
         /\ retained' = IF c.kind \in {"append", "talk", "cancel"} THEN retained
                        ELSE Append(retained, c)
         /\ dropped' = IF c.kind = "cancel" THEN dropped \union {c.id} ELSE dropped
    /\ UNCHANGED <<ThreadVars, pc, tasks, current, completion, turns, asked, out, done,
                   submitted>>

DrainEnds ==
    /\ pc = "drain" /\ inbox = <<>> /\ pc' = "drained"
    /\ UNCHANGED <<ThreadVars, inbox, tasks, current, completion, turns, drainVars, asked,
                   out, done, dropped, submitted>>

RequeueNothing == inbox' = inbox /\ retained' = <<>>   \* mutant
Requeue == inbox' = inbox \o retained /\ retained' = <<>>

AsTasks(commands, isTalk) == [i \in DOMAIN commands |-> Task(commands[i].id, isTalk)]
HasMoreWork == appends # <<>> \/ (talks # <<>> /\ ~current.isTalk)

\* After the turn: more work first, or a reply, or a submission.
AfterTurn ==
    /\ pc = "drained"
    /\ Requeue
    /\ appends' = <<>> /\ talks' = <<>>
    /\ IF HasMoreWork
       THEN /\ tasks' = tasks \o AsTasks(appends, FALSE) \o AsTasks(talks, TRUE)
            /\ \/ current.isTalk
                  /\ out' = Append(out, Event("peer_reply", current.id)) /\ UNCHANGED completion
               \/ ~current.isTalk /\ completion' = turns /\ UNCHANGED out
               \/ UNCHANGED <<completion, out>>   \* an empty answer
            /\ pc' = "loop"
            /\ UNCHANGED <<dropped, submitted>>
       ELSE IF current.isTalk
       THEN /\ out' = Append(out, Event("peer_reply", current.id))
            /\ dropped' = dropped \union Ids(talks)
            /\ pc' = IF tasks # <<>> \/ completion # 0 THEN "loop" ELSE "followup"
            /\ UNCHANGED <<tasks, completion, submitted>>
       ELSE /\ Submit(turns)
            /\ UNCHANGED <<tasks, completion, dropped>>
    /\ UNCHANGED <<ThreadVars, current, turns, asked, done>>

FollowupsButTalk == {"feedback", "append"}   \* mutant
Followups == {"feedback", "append", "talk"}

\* What the worker waits for after a submission or a reply.
TakeFollowup ==
    /\ pc = "followup" /\ ~cancelled /\ inbox # <<>>
    /\ inbox' = Tail(inbox)
    /\ LET c == Head(inbox) IN   \* a cancel has set the flag before it got there
         CASE c.kind = "accepted" ->
                /\ pc' = "exit" /\ dropped' = dropped \union {c.id} /\ UNCHANGED tasks
           [] c.kind \in Followups ->
                /\ tasks' = Append(tasks, Task(c.id, c.kind = "talk"))
                /\ pc' = "loop" /\ UNCHANGED dropped
           [] OTHER -> dropped' = dropped \union {c.id} /\ UNCHANGED <<pc, tasks>>
    /\ UNCHANGED <<ThreadVars, current, completion, turns, drainVars, asked, out, done,
                   submitted>>

\* The coordinator has gone and nothing is left to read.
LeaveAtEof ==
    /\ pc = "followup" /\ ~cancelled /\ inbox = <<>> /\ closed
    /\ pc' = "exit"
    /\ UNCHANGED <<ThreadVars, inbox, tasks, current, completion, turns, drainVars, asked,
                   out, done, dropped, submitted>>

MainStep == SeeCancel \/ SubmitPending \/ StartTurn \/ TakeWhileAsking
              \/ SeeCancelWhileAsking \/ TurnFails \/ FinishTurn \/ DrainOne \/ DrainEnds
              \/ AfterTurn \/ TakeFollowup \/ LeaveAtEof
ReaderStep == ReadStdin \/ ReadEof

Next == \/ \E kind \in Kinds : Send(kind)
        \/ TakeEvent \/ TalkTimesOut \/ HangUp \/ Ask \/ MainStep \/ ReaderStep

\* The worker's two threads run; nothing makes the coordinator send or a talk
\* time out.
Spec == Init /\ [][Next]_vars /\ WF_vars(MainStep) /\ WF_vars(ReaderStep)

---------------------------------------------------------------------------
(* Properties *)

Commands == [id : 1..MaxCommands, kind : Kinds]
Tasks == [id : 0..MaxCommands, isTalk : BOOLEAN]

\* The variables hold what the code's can.
TypeOK ==
    /\ pc \in {"loop", "turn", "ask", "drain", "drained", "followup", "exit"}
    /\ {pipe, inbox, appends, talks, retained} \subseteq Seq(Commands)
    /\ tasks \in Seq(Tasks) /\ current \in Tasks
    /\ {hungup, cancelled, closed} \subseteq BOOLEAN
    /\ sent \in Seq(Kinds) /\ Len(sent) <= MaxCommands
    /\ asked \in 0..MaxAsks /\ completion \in 0..turns
    /\ {done, dropped} \subseteq SUBSET (0..MaxCommands)
    /\ waiting \in 0..Len(sent) /\ timedOut \subseteq 1..Len(sent)

TaskIds == {tasks[i].id : i \in DOMAIN tasks}
Places == <<Ids(pipe), Ids(inbox), Ids(appends), Ids(talks), Ids(retained), TaskIds, done,
            dropped>>

\* No command gets lost or is worked on twice between the reader, the inbox, the
\* drain that puts commands back, and the tasks: while the worker lives each one
\* that asks for work is in one place.
EveryCommandIsSomewhere ==
    pc # "exit" =>
      \A id \in DOMAIN sent : sent[id] \in {"append", "talk", "feedback", "accepted"} =>
        Cardinality({p \in DOMAIN Places : id \in Places[p]}) = 1

\* A talk or an appended message is thrown away only by a worker that waits for an
\* answer, and a talk also when it comes during the turn of another talk.
OnlyTheseAreDropped ==
    [][\A id \in dropped' \ dropped :
         sent[id] \in {"append", "talk", "feedback", "accepted"} =>
           \/ pc = "ask"
           \/ sent[id] = "talk" /\ pc = "drained" /\ current.isTalk
           \/ sent[id] = "accepted" /\ pc = "followup"]_vars

\* The answer of a turn is submitted once at most, and a submission is never the
\* answer to a talk.
SubmittedOnce ==
    /\ \A i, j \in DOMAIN submitted : i # j => submitted[i] # submitted[j]
    /\ pc = "drained" /\ current.isTalk => \A i \in DOMAIN submitted : submitted[i] # turns

\* A caller gets the reply to its own talk until a talk has been given up.  From
\* then on replies may be one behind: each is taken for that of the next talk.
ReplyIsForItsTalk ==
    \A r \in replies : r[1] # r[2] => r[2] < r[1] /\ \E t \in timedOut : t <= r[2]

\* A worker that is cancelled ends, and so does one whose coordinator has gone,
\* unless it waits for an answer.
WorkerEnds ==
    /\ cancelled ~> pc = "exit"
    /\ closed ~> pc \in {"exit", "ask"}

=============================================================================
