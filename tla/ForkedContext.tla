---------------------------- MODULE ForkedContext ----------------------------
(***************************************************************************)
(* What a new worker is given of the conversation (coordinator.py,           *)
(* _forked_input_items): the prompt the turn loop sent last and the answer to  *)
(* it, or, before the first request of the process, the history.  The reader   *)
(* is a tool call of the turn itself or the thread of the scheduler, which     *)
(* reads while the turn goes on; no lock is shared with the turn.            *)
(***************************************************************************)
EXTENDS TurnLoop, SequencesExt

VARIABLES
    lastPrompt,  \* session.last_prompt_input_items
    lastOutput,  \* session.last_model_output_items
    sending,     \* run() has assigned the first of them and not yet the second
    reading,     \* a worker is being prepared
    seen,        \* the prompt it was prepared from
    fresh,       \* no request was sent since: observation
    compacted    \* the history or the prompt left something out: observation

forkVars == <<lastPrompt, lastOutput, sending, reading, seen, fresh, compacted>>

\* A call without its outputs is left out, an output without its call as well.
OutputKinds == {"output", "custom_output"}
OutputsAfter(history, i) ==
    Sub(history, {k \in (i + 1)..Len(history) :
                    \A m \in (i + 1)..k : history[m].kind \in OutputKinds})
Completed(history, i) ==
    LET outputs == OutputsAfter(history, i) IN
      IF history[i].kind \in OutputKinds THEN <<>>
      ELSE IF CallIds(history[i]) = {} THEN <<history[i]>>
      ELSE IF CallIds(history[i]) \subseteq {outputs[k].id : k \in DOMAIN outputs}
           THEN <<history[i]>> \o outputs
      ELSE <<>>
CompletePromptHistory(history) ==
    Joined(Len(history), LAMBDA n : Completed(history, n))

PlaceholderToolOutputs(output) ==
    Joined(Len(output), LAMBDA n : Outputs(CallIds(output[n]), "placeholder"))

\* Mutant: the answer to the last request is left out.
ForkedPromptOnly(request, output, history) ==
    IF request = <<>> THEN CompletePromptHistory(history) ELSE request

ForkedInputItems(request, output, history) ==
    IF request = <<>> THEN CompletePromptHistory(history)
    ELSE request \o output \o PlaceholderToolOutputs(output)

---------------------------------------------------------------------------
ForkInit ==
    /\ Init
    /\ lastPrompt = <<>> /\ lastOutput = <<>> /\ sending = FALSE
    /\ reading = FALSE /\ seen = <<>> /\ fresh = TRUE /\ compacted = FALSE

\* run() assigns last_prompt_input_items, then last_model_output_items.
Send ==
    /\ SendPrompt
    /\ lastPrompt' = prompt /\ sending' = TRUE /\ fresh' = FALSE
    /\ compacted' = (compacted \/ prompt[1] = Diary)
    /\ UNCHANGED <<lastOutput, reading, seen>>

ForgetOutput ==
    /\ sending
    /\ sending' = FALSE /\ lastOutput' = <<>>
    /\ UNCHANGED <<vars, lastPrompt, reading, seen, fresh, compacted>>

\* The items of the response, without the outputs run() adds to refuse calls.
ResponseOf(committed) ==
    Filter(SubSeq(items', Len(items) + Len(committed) + 1, Len(items')),
              LAMBDA item : ~IsOutput(item))

Answer ==
    /\ ~sending
    /\ AnswerWithText \/ AnswerWithCalls \/ AnswerWithBadCalls
    /\ lastOutput' = ResponseOf(Committed)
    /\ UNCHANGED <<lastPrompt, sending, reading, seen, fresh, compacted>>

GoOn ==
    /\ ~sending
    /\ \/ Input \/ BlockTurn \/ AcceptDream \/ PrepareTurn \/ RequestCancel
       \/ StopBeforeRequest \/ RunOutOfSteps \/ RetryModel \/ AskAgain \/ FailModel
       \/ InterruptModel \/ RunGroup \/ InterruptTool \/ FinalizeToolCall
    /\ UNCHANGED forkVars

CompactHistory ==
    /\ Compact /\ compacted' = TRUE
    /\ UNCHANGED <<lastPrompt, lastOutput, sending, reading, seen, fresh>>

\* The new session object has no last prompt, and no worker is being prepared.
Resume ==
    /\ Restart
    /\ lastPrompt' = <<>> /\ lastOutput' = <<>> /\ sending' = FALSE
    /\ reading' = FALSE /\ seen' = <<>> /\ fresh' = TRUE
    /\ UNCHANGED compacted

\* _forked_prompt_snapshot_items reads the prompt, and the output after that.
StartFork ==
    /\ reading' = TRUE /\ seen' = lastPrompt /\ fresh' = TRUE
    /\ <<reading, seen, fresh>> # <<reading', seen', fresh'>>
    /\ UNCHANGED <<vars, lastPrompt, lastOutput, sending, compacted>>

ForkNext == Send \/ ForgetOutput \/ Answer \/ GoOn \/ CompactHistory \/ Resume \/ StartFork

ForkSpec == ForkInit /\ [][ForkNext]_<<vars, forkVars>>

---------------------------------------------------------------------------
(* Properties *)

Fork == ForkedInputItems(seen, lastOutput, items)
FirstRequest == NormalizeForPrompt(Fork)

\* The worker's model is shown the parent's prompt as the parent's model was, and,
\* of chat items, nothing that is repaired or lost on the way: even when the output
\* is read while a later request is on its way.
ForkIsShownAsTaken ==
    reading /\ seen # <<>> =>
      /\ IsPrefix(seen, FirstRequest)
      /\ style = "chat" => FirstRequest = Fork

\* Without a compaction or a dream, all that was said in the session is there,
\* unless a request was sent between the two reads.
ForkHasTheConversation ==
    reading /\ fresh /\ ~compacted /\ ~diaries =>
      \A i \in DOMAIN items :
        items[i].kind \in {"user", "text"} =>
          \E j \in DOMAIN FirstRequest : FirstRequest[j] = items[i]

\* Both: a worker starts from the conversation its user has had so far.
ForkIsFaithful == ForkIsShownAsTaken /\ ForkHasTheConversation
=============================================================================
