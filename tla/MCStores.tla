------------------------------ MODULE MCStores ------------------------------
(***************************************************************************)
(* What the program keeps in files under .xiaoming that more than one writer *)
(* or more than one run of it works on: the lease files of worker processes  *)
(* (FileLease), the session files and their index (Sessions), the memory that *)
(* dreams leave in a session file (Dreams), the index of the tasks with their *)
(* mailbox (TaskFiles), and, under .agents, the skills (SkillInstall).  They   *)
(* share no variable, and a behaviour is about one of them; the others stay   *)
(* as they were.                                                            *)
(***************************************************************************)
EXTENDS MCFileLease

CONSTANTS
    Ids, Writers, NoId, MaxEvents, MaxCrashes,   \* of Sessions
    MaxDreams, MaxDrafts, MaxTurns,              \* of Dreams
    Tasks, Outcomes, MaxQuestions, MaxLoads,     \* of TaskFiles
    Installers, Skills, NameOf, TitleOf, MaxFiles, MaxInstalls, CopiesMayFail  \* of SkillInstall

VARIABLES
    store,   \* which of the five a behaviour is about
    index, readable, lines, tornLines, writerAt, using, seen, events, crashes, created, given,
    raced,
    dreamAt, dream, drafts, decision, turn, saved, diaries, runs, log, torn, cut,
    status, mail, at, late, taskIndex, box, loads, ended, disturbed,
    dirs, library, installing, job, answer, calls

sessionVars == <<index, readable, lines, tornLines, writerAt, using, seen, events, crashes,
                 created, given, raced>>
dreamVars == <<dreamAt, dream, drafts, decision, turn, saved, diaries, runs, log, torn, cut>>
taskVars == <<status, mail, at, late, taskIndex, box, loads, ended, disturbed>>
skillVars == <<dirs, library, installing, job, answer, calls>>

\* Two skills want the same directory, and two have the same title.
TwoOfAName == [s \in Skills |-> IF s = "c" THEN 2 ELSE 1]
TwoOfATitle == [s \in Skills |-> IF s = "b" THEN 2 ELSE 1]

Session == INSTANCE Sessions WITH pc <- writerAt, torn <- tornLines
Dream == INSTANCE Dreams WITH pc <- dreamAt
Saved == INSTANCE TaskFiles WITH index <- taskIndex
Skill == INSTANCE SkillInstall WITH at <- installing

\* The outcomes a behaviour may end a task with are terminal ones.
ASSUME OutcomesAreTerminal == Outcomes \subseteq Saved!TerminalStatuses

\* The dreams of a session are numbered.
ASSUME DreamsAssumption == MaxDreams \in Nat

\* Names and titles are sorted as numbers are.
ASSUME SkillsAssumption == {NameOf, TitleOf} \subseteq [Skills -> Nat] /\ MaxFiles \in Nat

MCInit ==
    /\ store \in {"leases", "sessions", "dreams", "tasks", "skills"}
    /\ Init /\ Session!Init /\ Dream!Init /\ Saved!Init /\ Skill!Init

MCNext ==
    /\ UNCHANGED store
    /\ \/ store = "leases" /\ Next /\ UNCHANGED <<sessionVars, dreamVars, taskVars, skillVars>>
       \/ store = "sessions" /\ Session!Next /\ UNCHANGED <<vars, dreamVars, taskVars, skillVars>>
       \/ store = "dreams" /\ Dream!Next /\ UNCHANGED <<vars, sessionVars, taskVars, skillVars>>
       \/ store = "tasks" /\ Saved!Next /\ UNCHANGED <<vars, sessionVars, dreamVars, skillVars>>
       \/ store = "skills" /\ Skill!Next /\ UNCHANGED <<vars, sessionVars, dreamVars, taskVars>>

MCSpec == MCInit /\ [][MCNext]_<<store, vars, sessionVars, dreamVars, taskVars,
                         skillVars>>

\* Of Sessions: no session disappears from the index.
SessionsStayListed == Session!SessionsStayListed

\* Of Sessions: a crash costs a session two events at most.
EventsAreReadBack == Session!EventsAreReadBack

\* Of Dreams: memory holds all the diaries of a dream that was accepted, or none.
DreamsAreAtomic == Dream!DreamsAreAtomic

\* Of TaskFiles: what has ended stays ended, and nothing is asked in its name.
RestartKeepsTheOutcome == Saved!RestartKeepsTheOutcome

\* Of SkillInstall: a skill that is reported as installed is whole and can be loaded.
InstalledSkillWorks == Skill!InstalledSkillWorks
=============================================================================
