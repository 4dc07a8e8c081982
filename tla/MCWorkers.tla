----------------------------- MODULE MCWorkers -----------------------------
(***************************************************************************)
(* What may stand behind a worker handle of the coordinator: a worker        *)
(* process of XiaoMing (WorkerLoop), or a Codex session, when the task asks  *)
(* for that provider (CodexSession); and, in each turn of the first, the      *)
(* calls of the model (ModelCall).  A behaviour is about one of them; the    *)
(* others stay as they were.                                                *)
(***************************************************************************)
EXTENDS WorkerLoop

CONSTANTS MaxMessages, MaxTexts,            \* of CodexSession
          Streaming, MaxRetries, MaxSteps, MaxPieces    \* of ModelCall

VARIABLES
    handle,   \* process, codex or model
    queue, messages, stop, closing, place, topic, texts, process, request, stdout, buffer,
    busy, spoken, ending, events,
    phase, step, attempts, number, said, over, stream, heard, deltas, tries, streamed, final,
    returned

codexVars == <<queue, messages, stop, closing, place, topic, texts, process, request, stdout,
               buffer, busy, spoken, ending, events>>
modelVars == <<phase, step, attempts, number, said, over, stream, heard, deltas, tries,
               streamed, final, returned>>

Codex == INSTANCE CodexSession WITH pc <- place, kind <- topic, pipe <- stdout
Model == INSTANCE ModelCall WITH pc <- phase, request <- number, queue <- stream

MCInit ==
    /\ handle \in {"process", "codex", "model"}
    /\ Init /\ Codex!Init /\ Model!Init

MCNext ==
    /\ UNCHANGED handle
    /\ \/ handle = "process" /\ Next /\ UNCHANGED <<codexVars, modelVars>>
       \/ handle = "codex" /\ Codex!Next /\ UNCHANGED <<vars, modelVars>>
       \/ handle = "model" /\ Model!Next /\ UNCHANGED <<vars, codexVars>>

MCSpec ==
    /\ MCInit /\ [][MCNext]_<<handle, vars, codexVars, modelVars>>
    /\ WF_vars(handle = "process" /\ MainStep)
    /\ WF_vars(handle = "process" /\ ReaderStep)
    /\ WF_codexVars(handle = "codex" /\ Codex!Thread)
    /\ WF_codexVars(handle = "codex" /\ Codex!Close)
    /\ WF_codexVars(handle = "codex" /\ Codex!Announce)
    /\ WF_modelVars(handle = "model" /\ Model!Loop)

\* Of CodexSession: an answer is given up for complete only when its turn is over.
AnswerMeansTheTurnIsOver == Codex!AnswerMeansTheTurnIsOver

\* Of CodexSession: a turn that has finished is reported.
FinishedTurnIsReported == Codex!FinishedTurnIsReported

\* Of ModelCall: the answer is one response's text, and that is what a worker submits.
AnswerIsOneResponse == Model!AnswerIsOneResponse

\* Of ModelCall: a turn is answered or fails, whatever the provider does.
TurnIsAnswered == handle = "model" => Model!TurnIsAnswered
=============================================================================
