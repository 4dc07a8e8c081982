----------------------------- MODULE MCTerminal -----------------------------
(***************************************************************************)
(* What the threads of the terminal process share with each other and with   *)
(* the workers: the table of the threads that have become workers, and the    *)
(* approvals they wait for (Foreground), the runtime with its sessions and    *)
(* settings (ChatRuntime), the files of the workspace and their checkpoints   *)
(* (Checkpoints), the mailbox's notices (Notices), and the screen (Screen).   *)
(* They share no variable, and a behaviour is about one of them; the others  *)
(* stay as they were.                                                       *)
(*                                                                         *)
(* In the runs the turns of Checkpoints and the tasks of Notices are the same *)
(* values, and so are its workers and their texts.  Neither module tells them *)
(* apart, so a state stands for its permutations.                           *)
(***************************************************************************)
EXTENDS Foreground, TLC

CONSTANTS
    Configs, Unbuildable, Given, Rules, MaxCommands, MaxSessions,   \* of ChatRuntime,
                                            \* which is started with the settings Given
    Owners, Workers, Files, Existing, Nobody,
    MaxCalls, MaxPaths, Kept, MayCrash,     \* of Checkpoints, whose turns are Owners
    Tasks, Texts, MaxMessages,              \* of Notices
    MaxWrites                               \* of Screen

Alike == Permutations(Owners) \union Permutations(Workers)

VARIABLES
    part,   \* which of the five a behaviour is about
    line, leaving, commands, args, previous, loop, coordinator, rules, sessions, current, events,
    typed, turn, missed, reopened, cleared,
    file, editor, tool, paths, read, mark, target, taken, calls, active, listed, manifest,
    copies, holder, start, overtaken, torn,
    taskStatus, progress, mailbox, recent, noticed, showing, follower, swallowed,
    lines, streaming, refresh, completed, text, pos, pulled, written

chatVars == <<line, leaving, commands, args, previous, loop, coordinator, rules, sessions,
              current, events, typed, turn, missed, reopened, cleared>>
editVars == <<file, editor, tool, paths, read, mark, target, taken, calls, active, listed,
              manifest, copies, holder, start, overtaken, torn>>
mailVars == <<taskStatus, progress, mailbox, recent, noticed, showing, follower, swallowed>>
screenVars == <<lines, streaming, refresh, completed, text, pos, pulled, written>>

Chat == INSTANCE ChatRuntime WITH ui <- line, moving <- leaving, foreground <- typed,
            files <- events
Edits == INSTANCE Checkpoints WITH Turns <- Owners, pc <- editor
Mail == INSTANCE Notices WITH status <- taskStatus, buffer <- noticed
Display == INSTANCE Screen WITH notices <- pulled

\* Turns, workers and the mark of nobody are told apart, and the index keeps something.
ASSUME EditsAssumption ==
    /\ Owners \intersect Workers = {} /\ Nobody \notin Owners \union Workers
    /\ IsFiniteSet(Files) /\ {MaxPaths, Kept} \subseteq Nat \ {0}

MCInit ==
    /\ part \in {"threads", "runtime", "edits", "mail", "screen"} /\ args = Given
    /\ Init /\ Chat!Init /\ Edits!Init /\ Mail!Init /\ Display!Init

MCNext ==
    /\ UNCHANGED part
    /\ \/ part = "threads" /\ Next /\ UNCHANGED <<chatVars, editVars, mailVars, screenVars>>
       \/ part = "runtime" /\ Chat!Next /\ UNCHANGED <<vars, editVars, mailVars, screenVars>>
       \/ part = "edits" /\ Edits!Next /\ UNCHANGED <<vars, chatVars, mailVars, screenVars>>
       \/ part = "mail" /\ Mail!Next /\ UNCHANGED <<vars, chatVars, editVars, screenVars>>
       \/ part = "screen" /\ Display!Next /\ UNCHANGED <<vars, chatVars, editVars, mailVars>>

MCSpec == MCInit /\ [][MCNext]_<<part, vars, chatVars, editVars, mailVars, screenVars>>

\* Of ChatRuntime: an answered message is in its session, once, before its answer.  (The
\* other behaviours leave all of its variables as they were.)
MessageIsKept == part = "runtime" => Chat!MessageIsKept

\* Of ChatRuntime: a session is resumed as it was in memory.
ResumedAsItWas == part = "runtime" => Chat!ResumedAsItWas

\* Of ChatRuntime: between two lines all of the runtime has the same settings.
SettingsAgree == Chat!SettingsAgree

\* Of Checkpoints: rewinding a turn that ran alone brings back the files it found.
RewindUndoesTheTurn == Edits!RewindUndoesTheTurn

\* Of Checkpoints: a patch is written over the content it was made for.
LeaseKeepsWhatWasRead == Edits!LeaseKeepsWhatWasRead

\* README.md: "file snapshots before each turn with /rewind support".
EditsAreBackedUp == Edits!EditsAreBackedUp

\* Of Notices: an open question is on the screen or on its way there.
OpenQuestionIsAnnounced == Mail!OpenQuestionIsAnnounced

\* Of Screen: what a refresh overwrites is shown later.
NothingIsOverwritten == part = "screen" => Display!NothingIsOverwritten
=============================================================================
