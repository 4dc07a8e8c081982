------------------------------- MODULE Dreams -------------------------------
(***************************************************************************)
(* Dream memory (memory/): a dream shows the model the fragments of the      *)
(* session in packets and lets it write diaries, which the model accepts or  *)
(* rejects.  What is accepted goes into the session's memory and, record by  *)
(* record, into the session's log, from which a restart rebuilds it          *)
(* (rehydrate_session in sessions/store.py).                                 *)
(*                                                                         *)
(* A diary is the dream it comes from, its number, and how often it has been *)
(* revised; what the packets and the diaries say is left out.                *)
(***************************************************************************)
EXTENDS Integers, Sequences, SequencesExt

CONSTANTS
    MaxDreams,     \* bound: dreams
    MaxDrafts,     \* bound: diaries in a dream
    MaxTurns       \* DreamRunner.max_turns (8)

VARIABLES
    pc,         \* where DreamRunner.run is
    dream,      \* dreams started so far, the last one runs
    drafts,     \* state.draft_diaries, as their numbers of revisions
    decision,   \* state.accepted and state.rejected
    turn,       \* responses of the model so far
    saved,      \* diaries saved by this dream
    diaries,    \* session.memory_diaries
    runs,       \* session.dream_runs
    log,        \* the records of the session file that can be read
    torn,       \* its last line is cut short
    cut         \* history: dreams that a crash interrupted while they were saved

memory == <<diaries, runs>>
file == <<log, torn>>
vars == <<pc, dream, drafts, decision, turn, saved, memory, file, cut>>

---------------------------------------------------------------------------
Init ==
    /\ pc = "idle" /\ dream = 0 /\ drafts = <<>> /\ decision = "none" /\ turn = 0
    /\ saved = 0 /\ diaries = {} /\ runs = [d \in 1..MaxDreams |-> "none"]
    /\ log = <<>> /\ torn = FALSE /\ cut = {}

\* A record that is written after a line that was cut short is glued to it, and
\* neither can be read.
Record(entry) ==
    /\ log' = IF torn THEN log ELSE log \o <<entry>>
    /\ torn' = FALSE

SaveRun(d, status) ==
    /\ runs' = [runs EXCEPT ![d] = status]
    /\ Record([kind |-> "run", dream |-> d, status |-> status])

Start ==
    /\ pc = "idle" /\ dream < MaxDreams
    /\ dream' = dream + 1 /\ SaveRun(dream + 1, "running")
    /\ pc' = "model" /\ turn' = 0 /\ drafts' = <<>> /\ decision' = "none" /\ saved' = 0
    /\ UNCHANGED <<diaries, cut>>

Respond ==
    /\ pc = "model" /\ pc' = "tools"
    /\ UNCHANGED <<dream, drafts, decision, turn, saved, memory, file, cut>>

\* provider.complete raises: the dream stays as it is, running.
ModelFails ==
    /\ pc = "model" /\ pc' = "idle"
    /\ UNCHANGED <<dream, drafts, decision, turn, saved, memory, file, cut>>

\* The calls of a response; the tools that only read are left out.
WriteDiaryDraft ==
    /\ pc = "tools" /\ Len(drafts) < MaxDrafts
    /\ drafts' = drafts \o <<0>>
    /\ UNCHANGED <<pc, dream, decision, turn, saved, memory, file, cut>>

ReviseDiaryDraft ==
    /\ pc = "tools"
    /\ \E n \in DOMAIN drafts : drafts[n] = 0 /\ drafts' = [drafts EXCEPT ![n] = 1]
    /\ UNCHANGED <<pc, dream, decision, turn, saved, memory, file, cut>>

Decide ==
    /\ pc = "tools" /\ decision' \in {"accepted", "rejected"}
    /\ UNCHANGED <<pc, dream, drafts, turn, saved, memory, file, cut>>

\* After the calls of a response: the last decision among them counts.
EndOfResponse ==
    /\ pc = "tools"
    /\ turn' = turn + 1
    /\ \/ /\ decision = "accepted" /\ pc' = "save"
          /\ UNCHANGED <<runs, file>>
       \/ /\ decision = "rejected" /\ pc' = "idle"
          /\ SaveRun(dream, "rejected")
       \/ /\ decision = "none" /\ turn' < MaxTurns /\ pc' = "model"
          /\ UNCHANGED <<runs, file>>
       \/ /\ decision = "none" /\ turn' = MaxTurns /\ pc' = "idle"
          /\ SaveRun(dream, "failed")
    /\ UNCHANGED <<dream, drafts, decision, saved, diaries, cut>>

Diary(d, n, revision) == [kind |-> "diary", dream |-> d, number |-> n, revision |-> revision]

\* The diary that is active in memory replaces the one with its id.
SaveDiary ==
    /\ pc = "save" /\ saved < Len(drafts)
    /\ LET diary == Diary(dream, saved + 1, drafts[saved + 1]) IN
         /\ diaries' = diaries \union {diary}
         /\ Record(diary)
    /\ saved' = saved + 1
    /\ UNCHANGED <<pc, dream, drafts, decision, turn, runs, cut>>

SaveAccepted ==
    /\ pc = "save" /\ saved = Len(drafts)
    /\ SaveRun(dream, "accepted") /\ pc' = "idle"
    /\ UNCHANGED <<dream, drafts, decision, turn, saved, diaries, cut>>

\* Any other event of the session.
OtherEvent ==
    /\ pc = "idle" /\ torn /\ torn' = FALSE
    /\ UNCHANGED <<pc, dream, drafts, decision, turn, saved, memory, log, cut>>

\* The records of a dream among these, by their places.
RunsOf(records, d) ==
    {k \in DOMAIN records : records[k].kind = "run" /\ records[k].dream = d}

StatusAt(records, places) ==
    IF places = {} THEN "none" ELSE records[CHOOSE k \in places : TRUE].status

\* Mutant: the first record of a dream counts.
FirstStatusIn(records, d) ==
    LET of == RunsOf(records, d) IN StatusAt(records, {k \in of : \A l \in of : k <= l})

\* rehydrate_session: of two records with one id the later counts.
StatusIn(records, d) ==
    LET of == RunsOf(records, d) IN StatusAt(records, {k \in of : \A l \in of : k >= l})

Replay(records) ==
    [diaries |-> {r \in ToSet(records) : r.kind = "diary"},
     runs |-> [d \in 1..MaxDreams |-> StatusIn(records, d)]]

\* The process dies, perhaps in the middle of a line, and the session is resumed.
Crash ==
    /\ pc' = "idle"
    /\ torn' \in {torn, TRUE} /\ UNCHANGED log
    /\ diaries' = Replay(log).diaries /\ runs' = Replay(log).runs
    /\ cut' = IF pc = "save" THEN cut \union {dream} ELSE cut
    /\ UNCHANGED <<dream, drafts, decision, turn, saved>>

Next ==
    \/ Start \/ Respond \/ ModelFails \/ WriteDiaryDraft \/ ReviseDiaryDraft \/ Decide
    \/ EndOfResponse \/ SaveDiary \/ SaveAccepted \/ OtherEvent \/ Crash

Spec == Init /\ [][Next]_vars

---------------------------------------------------------------------------
(* Properties *)

\* The variables hold what the code's can.
TypeOK ==
    /\ pc \in {"idle", "model", "tools", "save"}
    /\ dream \in 0..MaxDreams /\ turn \in 0..MaxTurns /\ saved \in 0..MaxDrafts
    /\ drafts \in BoundedSeq({0, 1}, MaxDrafts)
    /\ decision \in {"none", "accepted", "rejected"}
    /\ runs \in [1..MaxDreams -> {"none", "running", "accepted", "rejected", "failed"}]
    /\ torn \in BOOLEAN /\ cut \subseteq 1..dream

\* Of the last dream memory holds all the diaries, as they were last revised, when
\* it was accepted, and none when it was not - also after a restart, unless the
\* crash came while they were being saved.
DreamsAreAtomic ==
    dream > 0 /\ dream \notin cut /\ pc # "save" =>
      {d \in diaries : d.dream = dream} =
        IF runs[dream] = "accepted"
        THEN {Diary(dream, n, drafts[n]) : n \in DOMAIN drafts} ELSE {}

=============================================================================
