------------------------------ MODULE TurnLoop ------------------------------
(***************************************************************************)
(* One session of the agent: the turns of AgentLoop.run (agent_loop.py),    *)
(* the history and the prompt compiled from it (prompting/runtime.py,       *)
(* context/), and the log a later process replays (sessions/store.py).      *)
(*                                                                         *)
(* An item of the history is a record; what its text says is left out.  So  *)
(* are the events of the log that replay ignores (tool_call, tool_result),  *)
(* and the context hooks add: of a hook only its verdict is kept.           *)
(***************************************************************************)
EXTENDS Integers, FiniteSets, Subsequences

CONSTANTS
    Styles,       \* how providers write calls: see CallItems
    MaxTurns,     \* bound: turns the user starts
    MaxSteps,     \* max_turns, the requests one turn may make
    MaxCalls,     \* bound: tool calls of the session
    MaxParallel,  \* max_parallel_tool_calls
    MaxRetries,   \* model_max_retries
    RepeatLimit,  \* REPEATED_UNCHANGED_TOOL_RESULT_LIMIT
    MaxRestarts   \* bound: ends of the process

ASSUME TurnBounds == /\ Styles \subseteq {"chat", "function", "custom"}
                     /\ {MaxTurns, MaxCalls, MaxRetries, MaxRestarts} \subseteq Nat
                     /\ {MaxSteps, MaxParallel, RepeatLimit} \subseteq Nat \ {0}

VARIABLES
    style,     \* of the provider of this session
    pc,        \* where run() is
    turn,      \* the number of the turn
    step,      \* requests this turn has made
    retries,   \* failed attempts at the present request
    items,     \* session.input_items
    pending,   \* session.pending_turn.status
    prompt,    \* compiled.input_items
    rest,      \* calls of the response that no group has taken yet
    batch,     \* calls that have a result and are not finalized
    stopped,   \* a call of the group has stopped the turn
    repeats,   \* repeated_tool_result_count
    cancel,    \* what should_cancel() answers
    calls,     \* call ids given out
    diaries,   \* an accepted dream has left an active diary
    log,       \* the events of the session file
    mark,      \* its length before the present handler wrote to it
    restarts

vars == <<style, pc, turn, step, retries, items, pending, prompt, rest, batch,
          stopped, repeats, cancel, calls, diaries, log, mark, restarts>>

---------------------------------------------------------------------------
(* Items and events *)

User(t)     == [kind |-> "user", turn |-> t]
Context(t)  == [kind |-> "context", turn |-> t]
Text(t, n)  == [kind |-> "text", turn |-> t, step |-> n]
Summary(t)  == [kind |-> "summary", turn |-> t]
Aborted     == [kind |-> "aborted"]
Diary       == [kind |-> "diary"]
Output(type, id, state) == [kind |-> type, id |-> id, state |-> state]

\* Chat providers and streams write one assistant message with all calls, the
\* Responses API one item per call.
InOrder(S) == Sub([id \in 1..MaxCalls |-> id], S)
CallItems(S) ==
    IF style = "chat" THEN <<[kind |-> "chat", ids |-> S]>>
    ELSE Sub([id \in 1..MaxCalls |-> [kind |-> style, ids |-> {id}]], S)

OutputType == IF style = "custom" THEN "custom_output" ELSE "output"

IsOutput(item) == item.kind = "output"
CallKinds == {"chat", "function", "custom"}
CallIds(item) == IF item.kind \in CallKinds THEN item.ids ELSE {}

Outputs(S, state) == Sub([id \in 1..MaxCalls |-> Output("output", id, state)], S)
Interrupted(S) == Outputs(S, "interrupted")

\* The last item up to a position that is no output, with the outputs after it.
Block(history, n) == {i \in 1..n : \A k \in (i + 1)..n : IsOutput(history[k])}
\* The calls of that item, and those of them no output has answered.
Own(history, n, kinds) ==
    UNION {history[i].ids : i \in {i \in Block(history, n) : history[i].kind \in kinds}}
Missing(history, n, kinds) ==
    Own(history, n, kinds)
      \ {history[i].id : i \in {i \in Block(history, n) : IsOutput(history[i])}}

\* What for_prompt makes of a history: an output directly after the item of its call
\* is kept, others are dropped; calls that miss theirs when another item comes, or the
\* end, are said to be interrupted.
Shown(history, n) ==
    IF ~IsOutput(history[n])
    THEN Interrupted(Missing(history, n - 1, CallKinds)) \o <<history[n]>>
    ELSE IF history[n].id \in Own(history, n, CallKinds) THEN <<history[n]>> ELSE <<>>
AllShown(history) == Joined(Len(history), LAMBDA n : Shown(history, n))

\* Mutant: calls at the very end of the history stay without output.
NormalizeForPromptOpen(history) == AllShown(history)

\* Mutant: only the output directly after the calls is theirs.
NormalizeForPromptNext(history) ==
    Joined(Len(history), LAMBDA n :
        IF n > 1 /\ IsOutput(history[n]) /\ IsOutput(history[n - 1]) THEN <<>>
        ELSE Shown(history, n))
      \o Interrupted(Missing(history, Len(history), CallKinds))

NormalizeForPrompt(history) ==
    AllShown(history) \o Interrupted(Missing(history, Len(history), CallKinds))

Event(type, added) == [type |-> type, items |-> added]
Terminal == {"tool_output", "error", "turn_aborted", "turn_failed", "turn_completed"}
Resumable == {"assistant_output", "tool_output", "error", "turn_aborted"}

\* A chat message whose calls miss outputs when another item comes is repaired.
Repaired(history, n) ==
    IF IsOutput(history[n]) THEN <<history[n]>>
    ELSE Interrupted(Missing(history, n - 1, {"chat"})) \o <<history[n]>>
RepairDanglingToolCalls(history) ==
    Joined(Len(history), LAMBDA n : Repaired(history, n))
      \o Interrupted(Missing(history, Len(history), {"chat"}))

\* The items of a log: those of each event since the last compaction, that one included.
Replay(events) ==
    Joined(Len(events), LAMBDA n :
        IF \E k \in (n + 1)..Len(events) : events[k].type = "context_compaction_completed"
        THEN <<>> ELSE events[n].items)

\* The history a new process builds from the log.
Rehydrate(events) ==
    LET unfinished == \E n \in DOMAIN events :
          /\ events[n].type = "turn_started"
          /\ \A k \in (n + 1)..Len(events) : events[k].type \notin Terminal
    IN RepairDanglingToolCalls(
         IF unfinished THEN Append(Replay(events), Aborted) ELSE Replay(events))

---------------------------------------------------------------------------
Init ==
    /\ style \in Styles
    /\ pc = "idle" /\ turn = 0 /\ step = 0 /\ retries = 0
    /\ items = <<>> /\ pending = "none" /\ prompt = <<>>
    /\ rest = <<>> /\ batch = <<>> /\ stopped = FALSE /\ repeats = 0
    /\ cancel = FALSE /\ calls = 0 /\ diaries = FALSE
    /\ log = <<>> /\ mark = 0 /\ restarts = 0

\* Every handler writes to the end of the log; mark lets a crash cut what it wrote.
Write(events) == mark' = Len(log) /\ log' = log \o events

FailPending(status) ==
    pending' = IF pending \in {"none", "committed"} THEN pending ELSE status

AbortedEvent == Event("turn_aborted", <<Aborted>>)

\* What remains of a turn that run() has left.
Leave == /\ pc' = "idle" /\ rest' = <<>> /\ batch' = <<>> /\ stopped' = FALSE
         /\ step' = 0 /\ retries' = 0 /\ repeats' = 0 /\ prompt' = <<>>
         /\ cancel' = FALSE

TurnVars == <<step, retries, prompt, rest, batch, stopped, repeats>>

\* The user has typed something: a command, or the message of a turn.
Input ==
    /\ pc = "idle" /\ turn < MaxTurns
    /\ pc' = "input" /\ Write(<<>>)
    /\ UNCHANGED <<style, turn, items, pending, cancel, calls, diaries, restarts, TurnVars>>

\* A SessionStart or UserPromptSubmit hook stops the turn.
BlockTurn ==
    /\ pc = "input" /\ Leave /\ Write(<<>>)
    /\ UNCHANGED <<style, turn, items, pending, calls, diaries, restarts>>

\* /compact, or the threshold at the start of a turn.  A compaction that fails
\* changes nothing.  The budget keeps some of the newest user items, the newest
\* at least.  At most one per turn: a bound.
UserKinds == {"user", "context", "aborted", "summary"}
Compact ==
    /\ pc = "input" /\ items # <<>>
    /\ \A i \in DOMAIN items : items[i] # Summary(turn)
    /\ LET users == Filter(items, LAMBDA item : item.kind \in UserKinds)
       IN \E first \in IF users = <<>> THEN {1} ELSE DOMAIN users :
             items' = <<Summary(turn)>> \o SubSeq(users, first, Len(users))
    /\ Write(<<Event("context_compaction_completed", items')>>)
    /\ UNCHANGED <<style, pc, turn, pending, cancel, calls, diaries, restarts, TurnVars>>

\* /dream, and the dream is accepted.
AcceptDream ==
    /\ pc = "input" /\ ~diaries
    /\ diaries' = TRUE
    /\ Write(<<Event("memory_diary", <<>>)>>)
    /\ UNCHANGED <<style, pc, turn, items, pending, cancel, calls, restarts, TurnVars>>

StagedFor(t) == <<Context(t), User(t)>>
Staged == StagedFor(turn)

\* With an active diary the first prompt of a turn shows diaries for the history.
PrepareTurn ==
    /\ pc = "input"
    /\ pc' = "ask" /\ pending' = "staged" /\ turn' = turn + 1
    /\ prompt' = (IF diaries THEN <<Diary>> ELSE NormalizeForPrompt(items))
                   \o StagedFor(turn')
    /\ Write(<<Event("turn_started", <<>>)>>)
    /\ UNCHANGED <<style, step, retries, items, rest, batch, stopped, repeats,
                   cancel, calls, diaries, restarts>>

\* The user moves the foreground turn to a background worker.
RequestCancel ==
    /\ pc \in {"ask", "model", "backoff", "tools"} /\ ~cancel
    /\ cancel' = TRUE
    /\ UNCHANGED <<style, pc, turn, items, pending, calls, diaries, log, mark,
                   restarts, TurnVars>>

StopBeforeRequest ==
    /\ pc = "ask" /\ step < MaxSteps /\ cancel
    /\ FailPending("failed") /\ Leave
    /\ items' = Append(items, Aborted)
    /\ Write(<<AbortedEvent>>)
    /\ UNCHANGED <<style, turn, calls, diaries, restarts>>

\* MaxTurnsExceeded is raised and nothing is written.
RunOutOfSteps ==
    /\ pc = "ask" /\ step = MaxSteps
    /\ Leave /\ Write(<<>>)
    /\ UNCHANGED <<style, turn, items, pending, calls, diaries, restarts>>

SendPrompt ==
    /\ pc = "ask" /\ step < MaxSteps /\ ~cancel
    /\ pc' = "model" /\ step' = step + 1 /\ retries' = 0 /\ pending' = "sent"
    /\ Write(<<>>)
    /\ UNCHANGED <<style, turn, items, prompt, rest, batch, stopped, repeats, cancel,
                   calls, diaries, restarts>>

---------------------------------------------------------------------------
(* The model's answer *)

\* Mutant: the attempts are not counted.
SameAttempts(attempts) == attempts

NextAttempt(attempts) == attempts + 1

\* A failure that is retryable, a timeout for one: run() sleeps and asks again.
RetryModel ==
    /\ pc = "model" /\ retries < MaxRetries
    /\ pc' = "backoff" /\ retries' = NextAttempt(retries)
    /\ Write(<<>>)
    /\ UNCHANGED <<style, turn, step, items, pending, prompt, rest, batch, stopped, repeats,
                   cancel, calls, diaries, restarts>>

AskAgain ==
    /\ pc = "backoff" /\ pc' = "model"
    /\ Write(<<>>)
    /\ UNCHANGED <<style, turn, step, retries, items, pending, prompt, rest, batch, stopped,
                   repeats, cancel, calls, diaries, restarts>>

\* An error that is not retryable, or one retry too many, or an answer that is
\* a fatal error.
FailModel ==
    /\ pc = "model"
    /\ FailPending("failed") /\ Leave
    /\ Write(<<Event("error", <<>>), Event("turn_failed", <<>>)>>)
    /\ UNCHANGED <<style, turn, items, calls, diaries, restarts>>

\* KeyboardInterrupt while the model is asked leaves run() at once.
InterruptModel ==
    /\ pc \in {"model", "backoff"} /\ Leave /\ Write(<<>>)
    /\ UNCHANGED <<style, turn, items, pending, calls, diaries, restarts>>

\* Staged items go to the history unless it has them: mark_sent has made the
\* status "sent" again when a turn makes its second request.
Uncommitted == {i \in DOMAIN Staged : /\ pending # "committed"
                                      /\ \A j \in DOMAIN items : items[j] # Staged[i]}
Committed == Sub(Staged, Uncommitted)

UserEvent == Event("user_message", <<User(turn)>>)
StagedEvents == <<Event("prompt_item", <<Context(turn)>>), UserEvent>>

\* Mutant: only the message of the user is written to the log.
UserEvents == IF Uncommitted = {} THEN <<>> ELSE <<UserEvent>>

CommitEvents == Sub(StagedEvents, Uncommitted)

\* A payload over 40000 characters is written as a summary that replays as nothing.
Written(event, cut) == IF cut THEN Event(event.type, <<>>) ELSE event

Commit(output, cut) ==
    /\ items' = items \o Committed \o output
    /\ Write(CommitEvents \o <<Written(Event("assistant_output", output), cut)>>)
    /\ pending' = "committed"

AnswerWithText ==
    /\ pc = "model" /\ Leave /\ pending' = "committed"
    /\ LET output == <<Text(turn, step)>> IN
         /\ items' = items \o Committed \o output
         /\ Write(CommitEvents \o <<Event("assistant_output", output),
                                    Event("turn_completed", <<>>)>>)
    /\ UNCHANGED <<style, turn, calls, diaries, restarts>>

AnswerWithCalls ==
    /\ pc = "model" /\ pc' = "tools"
    /\ \E n \in 1..(MaxCalls - calls), cut \in BOOLEAN :
         LET ids == (calls + 1)..(calls + n)
         IN /\ calls' = calls + n
            /\ rest' = InOrder(ids)
            /\ Commit(CallItems(ids), cut)
    /\ UNCHANGED <<style, turn, step, retries, prompt, batch, stopped, repeats, cancel,
                   diaries, restarts>>

\* Calls whose arguments do not parse are answered with an error; the other
\* calls of the response are not run.
AnswerWithBadCalls ==
    /\ pc = "model" /\ pc' = "ask"
    /\ \E n \in 1..(MaxCalls - calls), cut \in BOOLEAN :
         LET ids == (calls + 1)..(calls + n)
             output == CallItems(ids)
         IN \E bad \in SUBSET ids \ {{}} :
              LET refusals == Outputs(bad, "refused")
              IN /\ calls' = calls + n
                 /\ items' = items \o Committed \o output \o refusals
                 /\ Write(CommitEvents
                            \o <<Written(Event("assistant_output", output), cut)>>
                            \o [i \in DOMAIN refusals |-> Event("error", <<>>)])
    /\ pending' = "committed"
    /\ prompt' = NormalizeForPrompt(items')
    /\ UNCHANGED <<style, turn, step, retries, rest, batch, stopped, repeats, cancel,
                   diaries, restarts>>

---------------------------------------------------------------------------
(* Tool calls *)

\* The next call, or a group of calls that may run in parallel; a PreToolUse
\* hook that denies one gives it a result as well.
RunGroup ==
    /\ pc = "tools" /\ batch = <<>> /\ rest # <<>>
    /\ \E n \in 1..MaxParallel :
         /\ n <= Len(rest)
         /\ batch' = SubSeq(rest, 1, n)
         /\ rest' = SubSeq(rest, n + 1, Len(rest))
    /\ Write(<<>>)
    /\ UNCHANGED <<style, pc, turn, step, retries, items, pending, prompt, stopped,
                   repeats, cancel, calls, diaries, restarts>>

\* KeyboardInterrupt during one call of the group: the other calls of the group
\* lose their results.
InterruptTool ==
    /\ pc = "tools" /\ batch = <<>> /\ rest # <<>>
    /\ \E n \in 1..MaxParallel :
         /\ n <= Len(rest)
         /\ LET output == Output(OutputType, rest[n], "interrupted") IN
              /\ items' = items \o <<output, Aborted>>
              /\ Write(<<Event("tool_output", <<output>>), AbortedEvent>>)
    /\ FailPending("interrupted") /\ Leave
    /\ UNCHANGED <<style, turn, calls, diaries, restarts>>

\* Why a finalized call may end the turn, in the order finalize_tool_call asks;
\* a result that repeats the last one counts towards the limit.
Unfinished == Tail(batch) \o rest
RepeatsAfter(same) == IF same THEN repeats + 1 ELSE 1
IsLoop(count) == count >= RepeatLimit

FinalizeToolCall ==
    /\ pc = "tools" /\ batch # <<>> /\ batch' = Tail(batch)
    /\ UNCHANGED <<style, turn, calls, diaries, restarts>>
    /\ \E stops \in {"no", "hook", "duplicate"}, same, cut \in BOOLEAN :
         LET output   == Output(OutputType, Head(batch), "result")
             recorded == Written(Event("tool_output", <<output>>), cut)
             aborts   == stops # "hook" /\ cancel /\ Unfinished = <<>>
             reads    == stops = "no" /\ ~aborts
             count    == IF reads THEN RepeatsAfter(same) ELSE repeats
             loops    == reads /\ IsLoop(count) /\ Unfinished = <<>>
             ends     == stopped \/ stops # "no" \/ aborts \/ loops
             outputs  == IF aborts THEN <<output, Aborted>> ELSE <<output>>
             closing  == IF aborts THEN <<AbortedEvent>>
                         ELSE IF stops # "no" \/ loops THEN <<Event("turn_completed", <<>>)>>
                         ELSE <<>>
         IN /\ same => repeats > 0
            /\ items' = items \o outputs
            /\ Write(<<recorded>> \o closing)
            /\ IF aborts THEN FailPending("failed") ELSE UNCHANGED pending
            /\ IF ends /\ Tail(batch) = <<>> THEN Leave
               ELSE /\ stopped' = ends /\ repeats' = count
                    /\ pc' = IF Unfinished = <<>> THEN "ask" ELSE "tools"
                    /\ prompt' = IF Unfinished = <<>> THEN NormalizeForPrompt(items')
                                 ELSE prompt
                    /\ UNCHANGED <<step, retries, rest, cancel>>

---------------------------------------------------------------------------
\* The process ends, perhaps in the middle of a handler, and a new one resumes
\* the session; a log without an answer is not resumed.
Restart ==
    /\ restarts < MaxRestarts
    /\ restarts' = restarts + 1
    /\ \E n \in mark..Len(log) :
         LET kept == SubSeq(log, 1, n)
             found == IF \E i \in 1..n : kept[i].type \in Resumable THEN kept ELSE <<>>
         IN /\ log' = found /\ mark' = Len(found)
            /\ items' = Rehydrate(found)
            /\ diaries' = \E i \in DOMAIN found : found[i].type = "memory_diary"
    /\ Leave /\ pending' = "none"
    /\ UNCHANGED <<style, turn, calls>>

LoopStep == BlockTurn \/ PrepareTurn \/ StopBeforeRequest \/ RunOutOfSteps \/ SendPrompt
              \/ RetryModel \/ AskAgain \/ FailModel \/ InterruptModel
              \/ AnswerWithText \/ AnswerWithCalls \/ AnswerWithBadCalls
              \/ RunGroup \/ InterruptTool \/ FinalizeToolCall

Next == Input \/ Compact \/ AcceptDream \/ RequestCancel \/ LoopStep \/ Restart

\* run() goes on by itself: requests time out and tools return.
Spec == Init /\ [][Next]_vars /\ WF_vars(LoopStep)

---------------------------------------------------------------------------
(* Properties *)

Items == [kind : {"user", "context", "summary"}, turn : 0..MaxTurns]
           \union [kind : {"text"}, turn : 1..MaxTurns, step : 1..MaxSteps]
           \union {Aborted, Diary}
           \union [kind : {"chat", "function", "custom"}, ids : SUBSET (1..MaxCalls)]
           \union [kind : {"output", "custom_output"}, id : 1..MaxCalls,
                   state : {"result", "refused", "interrupted", "placeholder"}]

\* The state of run() and of the session is what the code can hold.
TypeOK ==
    /\ style \in Styles
    /\ pc \in {"idle", "input", "ask", "model", "backoff", "tools"}
    /\ turn \in 0..MaxTurns /\ step \in 0..MaxSteps /\ retries \in 0..MaxRetries
    /\ pending \in {"none", "staged", "sent", "committed", "failed", "interrupted"}
    /\ rest \in Seq(1..MaxCalls) /\ batch \in Seq(1..MaxCalls)
    /\ {stopped, cancel, diaries} \subseteq BOOLEAN
    /\ repeats \in Nat /\ calls \in 0..MaxCalls
    /\ items \in Seq(Items) /\ prompt \in Seq(Items)
    /\ mark \in 0..Len(log) /\ restarts \in 0..MaxRestarts

CallsOf(history) == UNION {CallIds(history[i]) : i \in DOMAIN history}

\* Providers refuse a request in which a call lacks its output or an output its
\* call: in a prompt that is sent each call has one output, behind the item of
\* the call and other outputs, whatever interrupts, stops, refusals, crashes and
\* cut payloads came before.
PromptIsPaired ==
    pc = "model" /\ style # "custom" =>
      /\ \A id \in CallsOf(prompt) :
           Cardinality({i \in DOMAIN prompt : IsOutput(prompt[i]) /\ prompt[i].id = id}) = 1
      /\ \A i \in DOMAIN prompt : IsOutput(prompt[i]) =>
           \E j \in 1..(i - 1) : /\ prompt[i].id \in CallIds(prompt[j])
                                 /\ \A k \in (j + 1)..i : IsOutput(prompt[k])

\* Only the first prompt after a dream leaves the history out.
ShowsHistory == pc = "model" /\ ~(diaries /\ step = 1)

\* What a call gave is shown to the model: each output the history holds with its
\* call is in the prompt (chat items; the Responses API has items that lose it).
OutputsAreShown(history, request) ==
    \A i \in DOMAIN history :
      history[i].kind \in {"output", "custom_output"} /\ history[i].id \in CallsOf(history)
        => \E j \in DOMAIN request : request[j] = history[i]
OutputsReachTheModel ==
    ShowsHistory /\ style = "chat" => OutputsAreShown(items, prompt)

\* A session that is resumed has the conversation the process before it had,
\* and the result of each call it had finished.  Outputs the repair invents,
\* refusals and marks of aborted turns are not compared.
Conversation(history) ==
    Filter(history, LAMBDA item : item.kind \notin {"output", "custom_output", "aborted"})
Results(history) == {history[i] : i \in {j \in DOMAIN history :
    history[j].kind \in {"output", "custom_output"} /\ history[j].state = "result"}}
NothingCut == \A i \in DOMAIN log :
    log[i].type \in {"assistant_output", "tool_output"} => log[i].items # <<>>
ReplayAgrees ==
    pc = "idle" /\ NothingCut =>
      /\ Conversation(Rehydrate(log)) = Conversation(items)
      /\ Results(Rehydrate(log)) = Results(items)

\* A turn ends: the requests, their retries and the calls of a turn are bounded.
TurnEnds == pc # "idle" ~> pc = "idle"

=============================================================================
