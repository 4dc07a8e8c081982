------------------------------ MODULE Sessions ------------------------------
(***************************************************************************)
(* SessionStore (sessions/store.py): one file of events for each session and *)
(* one index.json, which every append reads, changes and writes again.       *)
(*                                                                         *)
(* Threads of the terminal process write at the same time: a turn that was   *)
(* promoted goes on with its session while the next turn runs on the session *)
(* that the interface has forked from it.  write_text truncates the index    *)
(* before it fills it, and an index that does not parse counts as empty.     *)
(***************************************************************************)
EXTENDS Integers, Sequences, SequencesExt, FiniteSets

CONSTANTS
    Ids,        \* sessions
    Writers,    \* threads
    NoId,       \* no session
    MaxEvents,  \* bound: events all threads append
    MaxCrashes  \* bound: crashes

VARIABLES
    index,     \* index.json: the sessions it lists (their order is left out)
    readable,  \* it parses
    lines,     \* the events of each file that parse
    torn,      \* files whose last line is cut short
    pc, using, \* where a thread is, and the session it writes
    seen,      \* the index as it has read it
    events,    \* events appended so far
    crashes,
    created,   \* history: sessions whose create has returned
    given,     \* history: the events of each session that append went on to write
    raced      \* history: two threads had the index in hand at once, or a crash hit one

indexVars == <<index, readable>>
fileVars == <<lines, torn>>
threadVars == <<pc, using, seen>>
history == <<created, given, raced>>
vars == <<indexVars, fileVars, threadVars, events, crashes, history>>

Init ==
    /\ index = {} /\ readable = TRUE
    /\ lines = [s \in Ids |-> <<>>] /\ torn = {}
    /\ pc = [w \in Writers |-> "idle"] /\ using = [w \in Writers |-> NoId]
    /\ seen = [w \in Writers |-> {}]
    /\ events = 0 /\ crashes = 0
    /\ created = {} /\ given = [s \in Ids |-> <<>>] /\ raced = FALSE

Goto(w, place) == pc' = [pc EXCEPT ![w] = place]

\* _read_index
Index == IF readable THEN index ELSE {}

\* A thread has the index in hand from reading it until it has written it.
Holds(w) == pc[w] \in {"truncate", "fill"}

\* create writes the first line of a new file, and then the index.
Create(w) ==
    /\ pc[w] = "idle" /\ Goto(w, "read")
    /\ \E s \in Ids : /\ s \notin created /\ \A v \in Writers : using[v] # s
                      /\ using' = [using EXCEPT ![w] = s]
    /\ UNCHANGED <<indexVars, fileVars, seen, events, crashes, history>>

\* append looks the session up.  That it is not there is no error: the event is gone.
\* No two threads run turns of one session.
LookUp(w, s) ==
    /\ pc[w] = "idle" /\ s \in created /\ \A v \in Writers : using[v] # s
    /\ events < MaxEvents /\ events' = events + 1
    /\ given' = [given EXCEPT ![s] = @ \o <<events'>>]
    /\ IF s \in Index THEN Goto(w, "write") /\ using' = [using EXCEPT ![w] = s]
       ELSE UNCHANGED <<pc, using>>
    /\ raced' = (raced \/ \E v \in Writers : Holds(v))
    /\ UNCHANGED <<indexVars, fileVars, seen, crashes, created>>

\* Mutant: the line that was cut short is never ended.
WriteUnended(w) ==
    /\ pc[w] = "write" /\ Goto(w, "read")
    /\ LET s == using[w] IN
         lines' = IF s \in torn THEN lines ELSE [lines EXCEPT ![s] = @ \o <<Last(given[s])>>]
    /\ UNCHANGED <<indexVars, using, seen, torn, events, crashes, history>>

\* A line after one that was cut short is glued to it, and neither parses.
WriteEvent(w) ==
    /\ pc[w] = "write" /\ Goto(w, "read")
    /\ LET s == using[w] IN
         /\ lines' = IF s \in torn THEN lines ELSE [lines EXCEPT ![s] = @ \o <<Last(given[s])>>]
         /\ torn' = torn \ {s}
    /\ UNCHANGED <<indexVars, using, seen, events, crashes, history>>

\* _upsert
ReadIndex(w) ==
    /\ pc[w] = "read" /\ Goto(w, "truncate")
    /\ seen' = [seen EXCEPT ![w] = Index]
    /\ raced' = (raced \/ \E v \in Writers : Holds(v))
    /\ UNCHANGED <<indexVars, fileVars, using, events, crashes, created, given>>

Truncate(w) ==
    /\ pc[w] = "truncate" /\ Goto(w, "fill")
    /\ readable' = FALSE
    /\ UNCHANGED <<index, fileVars, using, seen, events, crashes, history>>

\* Mutant: a session that is not in the index yet begins a new one.
OthersIfListed(w) == IF using[w] \in seen[w] THEN seen[w] \ {using[w]} ELSE {}

Others(w) == seen[w] \ {using[w]}

Fill(w) ==
    /\ pc[w] = "fill" /\ Goto(w, "idle")
    /\ index' = {using[w]} \union Others(w)
    /\ readable' = TRUE
    /\ created' = created \union {using[w]}
    /\ using' = [using EXCEPT ![w] = NoId] /\ seen' = [seen EXCEPT ![w] = {}]
    /\ UNCHANGED <<fileVars, events, crashes, given, raced>>

\* A line that was being written may be cut short; an index that was stays truncated.
Crash ==
    /\ crashes < MaxCrashes /\ crashes' = crashes + 1
    /\ torn' \in {torn, torn \union {using[w] : w \in {v \in Writers : pc[v] = "write"}}}
    /\ raced' = (raced \/ ~readable)
    /\ pc' = [w \in Writers |-> "idle"] /\ using' = [w \in Writers |-> NoId]
    /\ seen' = [w \in Writers |-> {}]
    /\ UNCHANGED <<indexVars, lines, events, created, given>>

Next ==
    \/ \E w \in Writers : \/ Create(w) \/ WriteEvent(w) \/ ReadIndex(w) \/ Truncate(w) \/ Fill(w)
                          \/ \E s \in Ids : LookUp(w, s)
    \/ Crash

Spec == Init /\ [][Next]_vars

---------------------------------------------------------------------------
(* Properties *)

\* The variables hold what the code's can.
TypeOK ==
    /\ index \subseteq Ids /\ readable \in BOOLEAN
    /\ \A s \in Ids : lines[s] \in Seq(1..events) /\ given[s] \in Seq(1..events)
    /\ torn \subseteq Ids /\ events \in 0..MaxEvents /\ crashes \in 0..MaxCrashes
    /\ pc \in [Writers -> {"idle", "write", "read", "truncate", "fill"}]
    /\ using \in [Writers -> Ids \union {NoId}] /\ created \subseteq Ids
    /\ \A w \in Writers : seen[w] \subseteq Ids

\* No session disappears from the index, whichever threads write and whatever
\* crashes, unless two had the index in hand at once or the crash hit it truncated.
SessionsStayListed ==
    ~raced /\ (\A w \in Writers : ~Holds(w)) => created \subseteq Index

\* As long as the index is whole, a crash costs a session two events at most, the
\* one that was being written and the next; the others are read back, in the order
\* in which they were appended (the events are numbered in that order).
EventsAreReadBack ==
    ~raced => \A s \in Ids :
      LET written == IF \E w \in Writers : using[w] = s /\ pc[w] = "write"
                     THEN Front(given[s]) ELSE given[s]
      IN /\ Len(written) - Len(lines[s]) <= 2 * crashes
         /\ ToSet(lines[s]) \subseteq ToSet(written)
         /\ \A j, k \in DOMAIN lines[s] : j < k => lines[s][j] < lines[s][k]

=============================================================================
