---------------------------- MODULE CodexSession ----------------------------
(***************************************************************************)
(* The worker whose agent is an external Codex session                       *)
(* (async_runtime/external_sessions.py): CodexWorkerProcess, its thread, and *)
(* the codex app-server it talks JSON-RPC to over two pipes.                 *)
(*                                                                         *)
(* What the server writes goes into a pipe; readline takes all that is in    *)
(* the pipe into the buffer of the text stream and returns one line, while   *)
(* select, which decides whether to read at all, sees the pipe only.         *)
(*                                                                         *)
(* The server is modelled as the code uses it: it answers one request after  *)
(* the other, and says that a turn is over with turn/completed and with the  *)
(* status idle, in either order.                                             *)
(***************************************************************************)
EXTENDS Integers, Sequences

CONSTANTS
    MaxMessages,   \* bound: messages for the worker, the first is its task
    MaxTexts       \* bound: message deltas of a turn

VARIABLES
    queue,     \* _queue, as the kinds of its messages
    messages,  \* messages sent so far
    stop,      \* _stop
    closing,   \* where send("cancel") or send("review_accepted") is
    pc,        \* where _run is
    kind,      \* the kind of the message it works on
    texts,     \* deltas it has read of this turn
    process,   \* session._process: none, running or exited
    request,   \* the request the server has to answer
    pipe, buffer,
    busy,      \* the server works on a turn
    spoken,    \* deltas of this turn so far
    ending,    \* what the server has still to say about the end of the turn
    events     \* what has been emitted since the last message was taken

handleVars == <<queue, messages, stop, closing>>
clientVars == <<pc, kind, texts, events>>
serverVars == <<request, busy, spoken, ending>>
vars == <<handleVars, clientVars, process, serverVars, pipe, buffer>>

Kinds == {"task", "talk"}
Lines == {"result", "error", "text", "idle", "completed", "failed"}
Requests == {"initialize", "thread", "turn"}

Init ==
    /\ queue = <<"task">> /\ messages = 1 /\ stop = FALSE /\ closing = "no"
    /\ pc = "top" /\ kind = "task" /\ texts = 0 /\ events = <<>>
    /\ process = "none" /\ request = "none" /\ pipe = <<>> /\ buffer = <<>>
    /\ busy = FALSE /\ spoken = 0 /\ ending = <<>>

---------------------------------------------------------------------------
(* The coordinator calls the handle *)

\* talk, append_user_message and review_feedback.  Nobody looks whether the
\* thread is still there to take them.
Send ==
    /\ messages < MaxMessages
    /\ messages' = messages + 1
    /\ \E k \in Kinds : queue' = queue \o <<k>>
    /\ UNCHANGED <<stop, closing, clientVars, process, serverVars, pipe, buffer>>

\* cancel, terminate and review_accepted set the flag and close the session.
Stop ==
    /\ closing = "no"
    /\ stop' = TRUE /\ closing' \in {"cancel", "accepted"}
    /\ UNCHANGED <<queue, messages, clientVars, process, serverVars, pipe, buffer>>

Close ==
    /\ closing \in {"cancel", "accepted"}
    /\ process' = "none" /\ request' = "none" /\ busy' = FALSE /\ ending' = <<>>
    /\ events' = IF closing = "cancel" THEN events \o <<"cancelled">> ELSE events
    /\ closing' = "done"
    /\ UNCHANGED <<queue, messages, stop, pc, kind, texts, spoken, pipe, buffer>>

---------------------------------------------------------------------------
(* The thread *)

Top ==
    /\ pc = "top" /\ pc' = IF stop THEN "ended" ELSE "get"
    /\ UNCHANGED <<handleVars, kind, texts, events, process, serverVars, pipe, buffer>>

\* queue.get with a timeout of 0.1 s.
Get ==
    /\ pc = "get"
    /\ IF queue = <<>> THEN pc' = "top" /\ UNCHANGED <<queue, kind, events>>
       ELSE /\ kind' = Head(queue) /\ queue' = Tail(queue)
            /\ pc' = "connect" /\ events' = <<>>
    /\ UNCHANGED <<messages, stop, closing, texts, process, serverVars, pipe, buffer>>

Await(what) == pc' = what /\ request' = what

\* _ensure_started: an app-server that is gone is started again.
EnsureStarted ==
    /\ pc = "connect"
    /\ IF process = "running"
       THEN Await("thread") /\ UNCHANGED <<process, pipe, buffer, busy, spoken, ending>>
       ELSE /\ Await("initialize")
            /\ process' = "running" /\ pipe' = <<>> /\ buffer' = <<>>
            /\ busy' = FALSE /\ spoken' = 0 /\ ending' = <<>>
    /\ UNCHANGED <<handleVars, kind, texts, events>>

\* _read_json once select finds the pipe readable: a line that is buffered comes
\* first, and only an empty buffer is filled.
Readable == process = "running" /\ pipe # <<>>
Line == Head(IF buffer = <<>> THEN pipe ELSE buffer)
ReadLine ==
    IF buffer = <<>> THEN buffer' = Tail(pipe) /\ pipe' = <<>>
    ELSE buffer' = Tail(buffer) /\ UNCHANGED pipe

Fail == pc' = "ended" /\ events' = events \o <<"failed">>

\* _request: lines that are not its response are read and dropped.
ReadResponse ==
    /\ pc \in Requests /\ Readable /\ ReadLine
    /\ CASE Line = "error" -> Fail /\ UNCHANGED <<request, texts>>
         [] Line = "result" /\ pc = "initialize" -> Await("thread") /\ UNCHANGED <<texts, events>>
         [] Line = "result" /\ pc = "thread" -> Await("turn") /\ UNCHANGED <<texts, events>>
         [] Line = "result" /\ pc = "turn" -> /\ pc' = "answer" /\ texts' = 0
                                              /\ UNCHANGED <<request, events>>
         [] OTHER -> UNCHANGED <<pc, request, texts, events>>
    /\ UNCHANGED <<handleVars, kind, process, busy, spoken, ending>>

\* Mutant: once there is text, whatever status the line says ends the answer.
LineEndsAnswer(line) == line = "completed" \/ texts > 0

\* Mutant: an answer without text is no answer.
TextEndsAnswer(line) == line \in {"completed", "idle"} /\ texts > 0

\* What ends _read_turn_answer: turn/completed, or the status idle after a text.
EndsAnswer(line) == line = "completed" \/ (line = "idle" /\ texts > 0)

ReadAnswer ==
    /\ pc = "answer" /\ Readable /\ ReadLine
    /\ texts' = IF Line = "text" THEN texts + 1 ELSE texts
    /\ CASE Line = "failed" -> Fail
         [] EndsAnswer(Line) ->
              /\ pc' = "top"
              /\ events' = events \o <<IF kind = "talk" THEN "peer_reply" ELSE "completed">>
         [] OTHER -> UNCHANGED <<pc, events>>
    /\ UNCHANGED <<handleVars, kind, process, serverVars>>

Awaits == pc \in Requests \union {"answer"}

\* The session is closed or the server has exited, whatever is left to read.
Disconnected ==
    /\ Awaits /\ process # "running"
    /\ Fail
    /\ UNCHANGED <<handleVars, kind, texts, process, serverVars, pipe, buffer>>

\* No response within timeout_seconds.  (Reading an answer, the thread says that
\* Codex is still working, and goes on.)
RequestTimesOut ==
    /\ pc \in Requests /\ ~Readable
    /\ Fail
    /\ UNCHANGED <<handleVars, kind, texts, process, serverVars, pipe, buffer>>

---------------------------------------------------------------------------
(* The app-server *)

Say(lines) == pipe' = pipe \o lines

\* A thread that is started or resumed may be reported idle.
Respond ==
    /\ process = "running" /\ request # "none" /\ ~busy /\ ending = <<>>
    /\ \E idle \in {<<>>, <<"idle">>} :
         \/ /\ idle # <<>> => request = "thread"
            /\ Say(<<"result">> \o idle) /\ busy' = (request = "turn")
         \/ idle = <<>> /\ Say(<<"error">>) /\ UNCHANGED busy
    /\ request' = "none" /\ spoken' = 0
    /\ UNCHANGED <<handleVars, clientVars, process, ending, buffer>>

Speak ==
    /\ process = "running" /\ busy /\ spoken < MaxTexts
    /\ spoken' = spoken + 1 /\ Say(<<"text">>)
    /\ UNCHANGED <<handleVars, clientVars, process, request, busy, ending, buffer>>

FinishTurn ==
    /\ process = "running" /\ busy
    /\ busy' = FALSE
    /\ ending' \in {<<"idle", "completed">>, <<"completed", "idle">>, <<"failed">>}
    /\ UNCHANGED <<handleVars, clientVars, process, request, spoken, pipe, buffer>>

Announce ==
    /\ process = "running" /\ ending # <<>>
    /\ Say(<<Head(ending)>>) /\ ending' = Tail(ending)
    /\ UNCHANGED <<handleVars, clientVars, process, request, busy, spoken, buffer>>

Exit ==
    /\ process = "running"
    /\ process' = "exited" /\ request' = "none" /\ busy' = FALSE /\ ending' = <<>>
    /\ UNCHANGED <<handleVars, clientVars, spoken, pipe, buffer>>

Thread ==
    \/ Top \/ Get \/ EnsureStarted \/ ReadResponse \/ ReadAnswer \/ Disconnected
    \/ RequestTimesOut

Next == Send \/ Stop \/ Close \/ Thread \/ Respond \/ Speak \/ FinishTurn \/ Announce \/ Exit

\* The thread runs, and so does the server until its turn is over.
Fairness == WF_vars(Thread) /\ WF_vars(Close) /\ WF_vars(Announce)
Spec == Init /\ [][Next]_vars /\ Fairness

---------------------------------------------------------------------------
(* Properties *)

\* The variables hold what the code's can.
TypeOK ==
    /\ queue \in Seq(Kinds) /\ Len(queue) <= MaxMessages /\ messages \in 1..MaxMessages
    /\ stop \in BOOLEAN /\ closing \in {"no", "cancel", "accepted", "done"}
    /\ pc \in {"top", "get", "connect", "answer", "ended"} \union Requests
    /\ kind \in Kinds /\ texts \in 0..MaxTexts /\ spoken \in 0..MaxTexts
    /\ process \in {"none", "running", "exited"} /\ request \in Requests \union {"none"}
    /\ {pipe, buffer, ending} \subseteq Seq(Lines) /\ busy \in BOOLEAN
    /\ events \in Seq({"completed", "peer_reply", "failed", "cancelled"})

\* The worker reports a turn as answered, and starts the next, only when the
\* server is done with it: an idle status that is about the thread as it was
\* loaded, or a line left from the turn before, does not end a turn.
AnswerMeansTheTurnIsOver ==
    pc \in {"top", "get", "connect", "initialize", "thread"} => ~busy

\* What the server says about the end of a turn reaches the coordinator, unless
\* it came in one chunk with an earlier line and waits in the buffer, where
\* select does not see it, or the server exits.
FinishedTurnIsReported ==
    (pc = "answer" /\ ending # <<>>) ~>
        (pc # "answer" \/ (pipe = <<>> /\ buffer # <<>>))

=============================================================================
