------------------------------ MODULE ModelCall ------------------------------
(***************************************************************************)
(* The requests one turn makes of the model: what AgentLoop does between      *)
(* sending a prompt and having a response (_call_model_with_recovery,         *)
(* _stream_with_progress, _complete_with_progress), what StreamAccumulator    *)
(* makes of a stream, and what of it reaches whoever reads the turn.         *)
(*                                                                         *)
(* Each request has a thread of its own that talks to the provider, and a    *)
(* queue from it to the loop.  A request that timed out leaves its thread     *)
(* behind; nobody reads that queue any more, so only the thread of the last   *)
(* request is here.  A text is the sequence of the pieces the provider sent   *)
(* it in, each the request and a number.  TurnLoop has what a turn does with  *)
(* a response; a call of a tool only separates two calls of the model here.   *)
(***************************************************************************)
EXTENDS Naturals, Sequences, SequencesExt, FiniteSets

CONSTANTS
    Streaming,    \* use_stream
    MaxRetries,   \* model_max_retries
    MaxSteps,     \* max_turns: calls of the model in a turn
    MaxPieces     \* bound: pieces of text in one response

VARIABLES
    pc,         \* send, stream, complete, done, failed
    step,       \* calls of the model so far
    attempts,   \* retries of this call
    request,    \* requests so far
    said,       \* what the provider has sent of its response
    over,       \* the provider's thread has ended
    queue,      \* events from the thread of the last request
    heard,      \* the accumulator
    deltas,     \* text the reader was given since the last tool event
    tries,      \* history: requests since then
    streamed,   \* streamed_text: some response of this turn had text, and came from a stream
    final,      \* the text of the response that ended the turn
    returned    \* what run() returned

providerVars == <<said, over>>
resultVars == <<streamed, final, returned>>
vars == <<pc, step, attempts, request, providerVars, queue, heard, deltas, tries, resultVars>>

\* A response: its text, and how much is there of its tool call.  The arguments
\* may be no JSON yet, an object, or JSON that is no object.
Nothing == [text |-> <<>>, call |-> "none"]
Grows == {<<"none", "nameless">>, <<"none", "empty">>, <<"nameless", "empty">>,
          <<"empty", "cut">>, <<"cut", "object">>, <<"cut", "list">>}

Init ==
    /\ pc = "send" /\ step = 1 /\ attempts = 0 /\ request = 0
    /\ said = Nothing /\ over = TRUE /\ queue = <<>> /\ heard = Nothing
    /\ deltas = <<>> /\ tries = 0
    /\ streamed = FALSE /\ final = <<>> /\ returned = <<>>

---------------------------------------------------------------------------
(* The provider, and the thread that talks to it *)

Event(kind) == [kind |-> kind]
Put(events) == queue' = queue \o events
ProviderActs == pc \in {"stream", "complete"} /\ ~over
LoopRests == UNCHANGED <<pc, step, attempts, request, heard, deltas, tries, resultVars>>

\* The next piece of text, or a bit more of the call.
SayMore ==
    \/ /\ Len(said.text) < MaxPieces
       /\ said' = [said EXCEPT !.text = Append(@, <<request, Len(@) + 1>>)]
       /\ IF pc = "stream" THEN Put(<<[kind |-> "text", piece |-> Last(said'.text)]>>)
          ELSE UNCHANGED queue
    \/ \E call \in {g[2] : g \in {g \in Grows : g[1] = said.call}} :
       /\ said' = [said EXCEPT !.call = call]
       /\ IF pc = "stream" THEN Put(<<[kind |-> "call", call |-> call]>>) ELSE UNCHANGED queue

Speak == ProviderActs /\ SayMore /\ UNCHANGED over /\ LoopRests

\* The response is whole, or was cut at its limit.  Only without a stream, and with
\* no call in it, does that count as an error.
Finish ==
    /\ ProviderActs /\ over' = TRUE
    /\ \/ pc = "stream" /\ Put(<<Event("end")>>)
       \/ pc = "complete" /\ Put(<<Event("response")>>)
       \/ pc = "complete" /\ said.call = "none" /\ Put(<<Event("length")>>)
    /\ UNCHANGED said /\ LoopRests

\* An exception, which the provider classifies (errors.py).
Break ==
    /\ ProviderActs /\ over' = TRUE
    /\ \E kind \in {"overloaded", "refused"} : Put(<<Event(kind)>>)
    /\ UNCHANGED said /\ LoopRests

Provider == Speak \/ Finish \/ Break

---------------------------------------------------------------------------
(* The loop *)

\* Mutant: the accumulator is the call's, not the request's.
RequestKeepingText(kind) ==
    /\ pc' = kind /\ request' = request + 1 /\ tries' = tries + 1
    /\ said' = Nothing /\ over' = FALSE /\ queue' = <<>>
    /\ heard' = [Nothing EXCEPT !.text = heard.text]

\* A new request, with a queue and an accumulator of its own.
Request(kind) ==
    /\ pc' = kind /\ request' = request + 1 /\ tries' = tries + 1
    /\ said' = Nothing /\ over' = FALSE /\ queue' = <<>> /\ heard' = Nothing

Send ==
    /\ pc = "send" /\ Request(IF Streaming THEN "stream" ELSE "complete")
    /\ UNCHANGED <<step, attempts, deltas, resultVars>>

\* _maybe_retry
Retry(retryable) ==
    /\ IF retryable /\ attempts < MaxRetries
       THEN pc' = "send" /\ attempts' = attempts + 1
       ELSE pc' = "failed" /\ UNCHANGED attempts
    /\ UNCHANGED <<step, request, providerVars, queue, heard, deltas, tries, resultVars>>

\* The next call of the turn, if it has one left.
NextStep ==
    /\ pc' = (IF step < MaxSteps THEN "send" ELSE "failed")
    /\ step' = step + 1 /\ attempts' = 0
    /\ UNCHANGED <<request, providerVars, heard, final, returned>>

\* A tool event: a worker forgets the text before it.
RunTool == NextStep /\ deltas' = <<>> /\ tries' = 0

\* The parser refused the arguments: the model is told, and no tool runs.
Recover == NextStep /\ UNCHANGED <<deltas, tries>>

Fail == pc' = "failed" /\ UNCHANGED <<step, attempts, request, providerVars, heard, deltas,
                                     tries, final, returned>>

Answer(text) ==
    /\ pc' = "done" /\ final' = text
    /\ returned' = IF Streaming /\ streamed' THEN <<>> ELSE text
    /\ UNCHANGED <<step, attempts, request, providerVars, heard, deltas, tries>>

\* What run() does with a response.
Conclude(response, fromStream, refused) ==
    /\ streamed' = (streamed \/ (fromStream /\ response.text # <<>>))
    /\ CASE response.call = "nameless" -> Fail
         [] response.call \in refused -> Recover
         [] response.call = "none" -> Answer(response.text)
         [] OTHER -> RunTool

\* A stream whose arguments do not parse is asked for again, not as a stream.
EndOfStream ==
    IF heard.call = "cut"
    THEN Request("complete") /\ UNCHANGED <<step, attempts, deltas, resultVars>>
    ELSE Conclude(heard, TRUE, {"list"}) /\ queue' = Tail(queue)

Take ==
    /\ pc \in {"stream", "complete"} /\ queue # <<>>
    /\ LET event == Head(queue) IN
         CASE event.kind = "text" ->
                /\ heard' = [heard EXCEPT !.text = Append(@, event.piece)]
                /\ deltas' = Append(deltas, event.piece)
                /\ queue' = Tail(queue)
                /\ UNCHANGED <<pc, step, attempts, request, providerVars, tries, resultVars>>
           [] event.kind = "call" ->
                /\ heard' = [heard EXCEPT !.call = event.call]
                /\ queue' = Tail(queue)
                /\ UNCHANGED <<pc, step, attempts, request, providerVars, deltas, tries,
                               resultVars>>
           [] event.kind = "end" -> EndOfStream
           [] event.kind = "response" -> Conclude(said, FALSE, {"cut", "list"}) /\ queue' = <<>>
           [] event.kind = "length" -> Fail /\ queue' = <<>> /\ UNCHANGED streamed
           [] OTHER -> Retry(event.kind = "overloaded")

WaitsForMore == pc \in {"stream", "complete"} /\ heard # Nothing   \* mutant
Waits == pc \in {"stream", "complete"}

\* Nothing came for stream_idle_timeout_seconds, or the whole took too long.
TimeOut == Waits /\ Retry(TRUE)

Loop == Send \/ Take \/ TimeOut

Next == Provider \/ Loop

\* The loop waits for no event longer than its timeouts.
Spec == Init /\ [][Next]_vars /\ WF_vars(Loop)

---------------------------------------------------------------------------
(* Properties *)

\* What a worker submits: what run() returned, or the deltas it collected.
Submitted == IF returned # <<>> THEN returned ELSE deltas

\* The answer of a turn is all the text of one response and no other's, whatever
\* requests failed or timed out before it; and a worker submits just that, if no
\* other request has given it text since the last tool event.
AnswerIsOneResponse ==
    pc = "done" => final = said.text /\ (tries = 1 => Submitted = final)

\* A turn ends, though the provider may say nothing, or go on for ever.
TurnIsAnswered == pc = "send" ~> pc \in {"done", "failed"}
=============================================================================
