------------------------------- MODULE Notices -------------------------------
(***************************************************************************)
(* How what happens in the background reaches the terminal: the mailbox of   *)
(* questions and results (mailbox.py), the notices the coordinator makes of   *)
(* them and the cache that suppresses repeated ones (coordinator.py), the     *)
(* buffer the terminal pulls them from (cli.py), and the turns that follow a  *)
(* task until its state changes.                                            *)
(*                                                                         *)
(* The coordinator's handlers run under its lock, so each is one action, and  *)
(* each of them ends by saving the mailbox.  The terminal pulls the buffer    *)
(* under another lock and marks what it shows one message at a time.  What   *)
(* becomes of tasks is in TaskCoordinator; here a task asks, reports          *)
(* progress, is settled by the user or ends.                                *)
(***************************************************************************)
EXTENDS Naturals, Sequences, SequencesExt, FiniteSets

CONSTANTS
    Tasks,
    Texts,        \* what workers ask and report
    MaxMessages   \* bound: messages in the mailbox

VARIABLES
    status,     \* TaskRecord.status: "needs_user", "ended", or "running" for all others
    progress,   \* TaskRecord.last_progress
    mailbox,    \* MailboxStore, in order: [task, text, reply, status, shown]
    recent,     \* _notice_cache: the questions announced within the window, [task, text]
    buffer,     \* AsyncNoticeBuffer._notices: the messages of those that have one
    showing,    \* the notices the terminal has pulled and not yet gone through
    follower,   \* a turn in follow_task: [task, status, progress, phase]
    swallowed   \* history: questions whose notice was taken for a repeated one

boardVars == <<status, progress, mailbox>>
noticeVars == <<recent, buffer>>
vars == <<boardVars, noticeVars, showing, follower, swallowed>>

NoFollower == [task |-> "none", status |-> "none", progress |-> "none", phase |-> "none"]

Init ==
    /\ status = [t \in Tasks |-> "running"] /\ progress = [t \in Tasks |-> "none"]
    /\ mailbox = <<>> /\ recent = {}
    /\ buffer = <<>> /\ showing = <<>> /\ follower = NoFollower
    /\ swallowed = {}

---------------------------------------------------------------------------
(* Notices *)

\* A question that waits for the user.
Pending(box, k) == box[k].reply /\ box[k].status = "pending"
PendingOf(box, t) == {k \in DOMAIN box : Pending(box, k) /\ box[k].task = t}

\* notice_candidates: those that were not shown yet.
Candidates(box) == {k \in DOMAIN box : Pending(box, k) /\ ~box[k].shown}

\* _notice for a question: dropped if the same was said of its task lately.  (The key
\* has the task's status too, which is needs_user whenever a question is announced,
\* and the notices of progress have other texts.)
AnnounceQuestion(box, k) ==
    LET key == [task |-> box[k].task, text |-> box[k].text] IN
    IF key \in recent
    THEN UNCHANGED <<buffer, recent>> /\ swallowed' = swallowed \union {k}
    ELSE /\ recent' = recent \union {key} /\ buffer' = Append(buffer, k)
         /\ UNCHANGED swallowed

\* An entry of the cache is older than the window (30 s).
Forget ==
    /\ \E key \in recent : recent' = recent \ {key}
    /\ UNCHANGED <<boardVars, buffer, showing, follower, swallowed>>

---------------------------------------------------------------------------
(* The coordinator's handlers *)

Message(t, text, reply) ==
    [task |-> t, text |-> text, reply |-> reply, status |-> "pending", shown |-> FALSE]
Post(message) == mailbox' = Append(mailbox, message)
AnswerOf(k) == mailbox' = [mailbox EXCEPT ![k].status = "answered"]

\* Every handler changes the board and notifies whoever follows a task.
Wake == follower' = IF follower.phase = "asleep" THEN [follower EXCEPT !.phase = "woken"]
                    ELSE follower
Transition(t, s, text) ==
    /\ status' = [status EXCEPT ![t] = s] /\ progress' = [progress EXCEPT ![t] = text]

\* Mutant: the task is not passed on.
FirstOfAny(box, t) == Min(Candidates(box))

\* _notice_pending_mailbox_question_locked takes the first candidate of the task.
FirstOf(box, t) == Min({k \in Candidates(box) : box[k].task = t})

\* A worker asks one question at a time.
HandleQuestion(t, text) ==
    /\ status[t] # "ended" /\ PendingOf(mailbox, t) = {}
    /\ Len(mailbox) < MaxMessages
    /\ Post(Message(t, text, TRUE))
    /\ Transition(t, "needs_user", text)
    /\ AnnounceQuestion(mailbox', FirstOf(mailbox', t))
    /\ Wake
    /\ UNCHANGED <<showing>>

\* The decider answers it: the user is told what it said.
HandleQuestionByDecider(t, text) ==
    /\ status[t] # "ended" /\ PendingOf(mailbox, t) = {}
    /\ Len(mailbox) < MaxMessages
    /\ Post([Message(t, text, TRUE) EXCEPT !.status = "answered"])
    /\ Transition(t, status[t], text)
    /\ Wake
    /\ UNCHANGED <<noticeVars, showing, swallowed>>

\* A message that expects no reply.
HandleProgress(t, text) ==
    /\ status[t] # "ended"
    /\ Len(mailbox) < MaxMessages
    /\ Post(Message(t, "none", FALSE))
    /\ Transition(t, status[t], text)
    /\ Wake
    /\ UNCHANGED <<noticeVars, showing, swallowed>>

\* assistant_delta, heartbeat, started, tool_started and tool_finished.
HandleDelta(t, text) ==
    /\ status[t] # "ended"
    /\ Transition(t, status[t], text)
    /\ Wake
    /\ UNCHANGED <<mailbox, noticeVars, showing, swallowed>>

\* failed or cancelled: the message stays pending.
HandleEnd(t) ==
    /\ status[t] # "ended" /\ PendingOf(mailbox, t) = {}
    /\ Len(mailbox) < MaxMessages
    /\ Post(Message(t, "none", FALSE))
    /\ Transition(t, "ended", "none")
    /\ Wake
    /\ UNCHANGED <<noticeVars, showing, swallowed>>

CancelAll(box, t) == [k \in DOMAIN box |->
    IF box[k].task = t /\ box[k].status = "pending" THEN [box[k] EXCEPT !.status = "cancelled"]
    ELSE box[k]]

CancelTask(t) ==
    /\ status[t] # "ended"
    /\ mailbox' = CancelAll(mailbox, t)
    /\ Transition(t, "ended", "none")
    /\ Wake
    /\ UNCHANGED <<noticeVars, showing, swallowed>>

\* The main model answers it, whether the terminal has shown it yet or not.
ReplyMailbox(k) ==
    /\ k \in DOMAIN mailbox /\ Pending(mailbox, k)
    /\ AnswerOf(k)
    /\ LET t == mailbox[k].task IN
         IF status[t] = "needs_user" THEN Transition(t, "running", "none")
         ELSE UNCHANGED <<status, progress>>
    /\ Wake
    /\ UNCHANGED <<noticeVars, showing, swallowed>>

---------------------------------------------------------------------------
(* The terminal *)

Pull ==
    /\ showing = <<>> /\ buffer # <<>>
    /\ showing' = buffer /\ buffer' = <<>>
    /\ UNCHANGED <<boardVars, recent, follower, swallowed>>

\* Each notice of a message marks it, whatever has become of it since.
MarkPresented ==
    /\ showing # <<>> /\ showing' = Tail(showing)
    /\ LET k == Head(showing) IN
         mailbox' = [mailbox EXCEPT ![k].shown = TRUE]
    /\ Wake
    /\ UNCHANGED <<status, progress, noticeVars, swallowed>>

---------------------------------------------------------------------------
(* A turn follows a task *)

\* A task that is over, or waits for the user, is reported at once.
Follow(t) ==
    /\ follower.phase = "none" /\ status[t] = "running"
    /\ follower' = [task |-> t, status |-> status[t], progress |-> progress[t],
                    phase |-> "asleep"]
    /\ UNCHANGED <<boardVars, noticeVars, showing, swallowed>>

Changed == LET t == follower.task IN
    status[t] # follower.status \/ progress[t] # follower.progress

FollowerLooks ==
    /\ follower.phase = "woken"
    /\ follower' = IF Changed THEN NoFollower ELSE [follower EXCEPT !.phase = "asleep"]
    /\ UNCHANGED <<boardVars, noticeVars, showing, swallowed>>

\* wait() returns at the deadline too; the turn looks once more.
FollowerTimesOut ==
    /\ follower.phase = "asleep"
    /\ follower' = NoFollower
    /\ UNCHANGED <<boardVars, noticeVars, showing, swallowed>>

Coordinate ==
    \E t \in Tasks, text \in Texts :
      \/ HandleQuestion(t, text) \/ HandleQuestionByDecider(t, text) \/ HandleProgress(t, text)
      \/ HandleDelta(t, text) \/ HandleEnd(t) \/ CancelTask(t)

Next ==
    \/ Coordinate
    \/ \E k \in 1..MaxMessages : ReplyMailbox(k)
    \/ Forget \/ Pull \/ MarkPresented
    \/ \E t \in Tasks : Follow(t)
    \/ FollowerLooks \/ FollowerTimesOut

Spec == Init /\ [][Next]_vars

---------------------------------------------------------------------------
(* Properties *)

\* A question the user has to answer is on the screen or on its way there.  Only one
\* whose text is that of a notice of the last 30 seconds, asked in the same status of
\* the same task, is never announced.
OpenQuestionIsAnnounced ==
    \A k \in DOMAIN mailbox :
      Pending(mailbox, k) /\ ~mailbox[k].shown /\ k \notin swallowed =>
        k \in ToSet(buffer \o showing)

\* A turn that waits for a task to change does not sleep through a change.
FollowerIsWoken == follower.phase = "asleep" => ~Changed
=============================================================================
