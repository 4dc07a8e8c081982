----------------------------- MODULE ChatRuntime -----------------------------
(***************************************************************************)
(* The runtime behind the terminal (ChatRuntime in cli.py): which session a   *)
(* turn works on and which loop runs it, when the user's next lines promote   *)
(* the turn, fork the session, open or resume another one, clear it, or       *)
(* change the configuration or the permission rules.                         *)
(*                                                                         *)
(* The interface handles a line in one thread, each turn has a thread of its  *)
(* own, and both read and write the runtime without a lock.  Foreground has   *)
(* the worker a promoted turn becomes; TurnLoop what a turn does to its       *)
(* session, of which only the user's message and the answer are kept here.    *)
(***************************************************************************)
EXTENDS Naturals, Sequences

CONSTANTS
    Configs,       \* what the settings may be
    Unbuildable,   \* those for which building a loop raises
    Rules,         \* permission rules the user may add
    MaxTurns,      \* bound: messages the user types
    MaxCommands,   \* bound: commands the user types
    MaxSessions    \* bound: session objects of one run of the program

VARIABLES
    ui,           \* ready, handle, fork, dispatch, rebuild, session, rollback, restart
    moving,       \* the turn promote_foreground_to_worker works on
    commands,     \* commands so far
    args,         \* runtime.args
    previous,     \* the settings try_update goes back to
    loop,         \* runtime.loop: the settings and rules it was built from
    coordinator,  \* the settings of the coordinator, or "stopped"
    rules,        \* .xiaoming/permissions.json
    sessions,     \* session objects: [id, items, pending]
    current,      \* runtime.session
    files,        \* the events of each session file
    foreground,   \* runtime.foreground_task
    turn,         \* the turns, in order: [pc, status, snapshot, session]
    missed,       \* history: turns the interface lost track of, see below
    reopened,     \* history: sessions that were resumed while a turn was in them
    cleared       \* history: session objects /clear has emptied

configVars == <<args, previous, loop, coordinator, rules>>
storeVars == <<sessions, current, files>>
history == <<missed, reopened, cleared>>
vars == <<ui, moving, commands, configVars, storeVars, foreground, turn, history>>

Begun == DOMAIN turn
User(t) == <<"user", t>>
Answer(t) == <<"answer", t>>
Promoted(t) == <<"promoted", t>>
Aborted == <<"aborted", 0>>
None == 0

---------------------------------------------------------------------------
(* Sessions and their files *)

Event(kind, value) == [kind |-> kind, value |-> value]

\* The items that the events of a file leave.
ItemsOf(events) ==
    LET read[n \in 0..Len(events)] ==
          IF n = 0 THEN <<>>
          ELSE IF events[n].kind = "replace" THEN events[n].value
          ELSE IF events[n].kind = "item" THEN Append(read[n - 1], events[n].value)
          ELSE read[n - 1]
    IN read[Len(events)]

\* The last turn that is recorded as started, when no end is recorded after it.
Unfinished(events) ==
    {n \in DOMAIN events :
       /\ events[n].kind = "started"
       /\ \A k \in DOMAIN events : k > n => events[k].kind \notin {"started", "ended"}}

\* rehydrate_session: a turn whose end is not recorded counts as aborted.
Rehydrated(events) ==
    ItemsOf(events) \o IF Unfinished(events) # {} THEN <<Aborted>> ELSE <<>>

Open(session) == sessions' = Append(sessions, session) /\ current' = Len(sessions')
Fresh(items) == [id |-> Len(files) + 1, items |-> items, pending |-> None]

\* start_new_session
StartNewSession ==
    /\ Len(sessions) < MaxSessions
    /\ Open(Fresh(<<>>)) /\ files' = Append(files, <<>>)

Record(id, events) == files' = [files EXCEPT ![id] = @ \o events]

Init ==
    /\ ui = "ready" /\ moving = None /\ commands = 0
    /\ args \in Configs \ Unbuildable /\ previous = args
    /\ rules = {} /\ loop = [config |-> args, rules |-> rules] /\ coordinator = args
    /\ sessions = <<[id |-> 1, items |-> <<>>, pending |-> None]>> /\ current = 1
    /\ files = << <<>> >>
    /\ foreground = None /\ turn = <<>>
    /\ missed = {} /\ reopened = {} /\ cleared = {}

Goto(t, place) == turn' = [turn EXCEPT ![t].pc = place]

---------------------------------------------------------------------------
(* A line is entered *)

\* A turn whose thread has not come to begin_foreground_task yet is not seen.
HandleInput ==
    /\ ui = "ready"
    /\ IF foreground # None /\ turn[foreground].status = "running"
       THEN ui' = "fork" /\ moving' = foreground
       ELSE ui' = "dispatch" /\ UNCHANGED moving
    /\ missed' = missed \union {t \in Begun : turn[t].pc = "begin"}
    /\ UNCHANGED <<commands, configVars, storeVars, foreground, turn, reopened, cleared>>

\* The turn is the worker's from here, if its thread has not ended meanwhile.
HandOver ==
    /\ ui = "fork" /\ ui' = "dispatch" /\ moving' = None /\ foreground' = None
    /\ turn' = [turn EXCEPT ![moving].status = "worker", ![moving].snapshot = <<>>]
    /\ missed' = missed \union ({foreground} \ {None, moving})
                        \union {t \in {moving} : turn[t].session = None}
    /\ UNCHANGED <<commands, configVars, reopened, cleared>>

\* Mutant: the main session stays the one the promoted turn works on.
StayInSession == HandOver /\ UNCHANGED storeVars

NoEvents(items) == <<>>   \* mutant: the fork is in memory only
ForkEvents(items) == <<Event("replace", items)>>

\* promote_foreground_to_worker: the main session becomes a copy of what it was
\* when the turn began.  A turn that has not taken its session takes the copy.
ForkMainSession ==
    /\ HandOver /\ Len(sessions) < MaxSessions
    /\ LET items == turn[moving].snapshot \o <<Promoted(moving)>> IN
         /\ Open(Fresh(items)) /\ files' = Append(files, ForkEvents(items))

StartTurn ==
    /\ ui = "dispatch" /\ Len(turn) < MaxTurns /\ ui' = "ready"
    /\ turn' = Append(turn, [pc |-> "begin", status |-> "running", snapshot |-> <<>>,
                             session |-> None])
    /\ UNCHANGED <<moving, commands, configVars, storeVars, foreground, history>>

---------------------------------------------------------------------------
(* Commands *)

Command == ui = "dispatch" /\ commands < MaxCommands /\ commands' = commands + 1
           /\ UNCHANGED moving

\* /clear: session.clear() empties the object, and nothing is recorded.
Clear ==
    /\ Command /\ ui' = "ready"
    /\ sessions' = [sessions EXCEPT ![current].items = <<>>, ![current].pending = None]
    /\ cleared' = cleared \union {current}
    /\ UNCHANGED <<configVars, current, files, foreground, turn, missed, reopened>>

\* /new
New ==
    /\ Command /\ ui' = "ready" /\ StartNewSession
    /\ UNCHANGED <<configVars, foreground, turn, history>>

\* /resume reads the session's file, then builds a loop.
Resume(id) ==
    /\ Command /\ ui' = "ready"
    /\ id \in DOMAIN files /\ Len(sessions) < MaxSessions
    /\ Open([id |-> id, items |-> Rehydrated(files[id]), pending |-> None])
    /\ loop' = [config |-> args, rules |-> rules]
    /\ reopened' = IF \E t \in Begun : /\ turn[t].pc # "over" /\ turn[t].session # None
                                       /\ sessions[turn[t].session].id = id
                   THEN reopened \union {id} ELSE reopened
    /\ UNCHANGED <<args, previous, coordinator, rules, files, foreground, turn, missed, cleared>>

\* /allow, /deny, /ask: add_project_rule, then reload_skills builds a loop.
AddRule(rule) ==
    /\ Command /\ ui' = "ready"
    /\ rules' = rules \union {rule}
    /\ loop' = [config |-> args, rules |-> rules']
    /\ UNCHANGED <<args, previous, coordinator, storeVars, foreground, turn, history>>

\* try_update
SetArgs(config) ==
    /\ Command /\ ui' = "rebuild"
    /\ previous' = args /\ args' = config
    /\ UNCHANGED <<loop, coordinator, rules, storeVars, foreground, turn, history>>

Rebuild ==
    /\ ui = "rebuild"
    /\ IF args \in Unbuildable THEN ui' = "rollback" /\ UNCHANGED loop
       ELSE ui' = "session" /\ loop' = [config |-> args, rules |-> rules]
    /\ UNCHANGED <<moving, commands, args, previous, coordinator, rules, storeVars, foreground, turn,
                   history>>

KeptArgs == UNCHANGED <<args, loop>>   \* mutant: the settings that failed stay

\* The settings are put back and a loop is built again, with a new session too.
RolledBack == args' = previous /\ loop' = [config |-> previous, rules |-> rules]

\* rebuild() ends with a new session, after a failure as well.
EndRebuild ==
    /\ ui \in {"session", "rollback"} /\ StartNewSession
    /\ IF ui = "session" THEN ui' = "restart" /\ UNCHANGED <<args, loop>>
       ELSE ui' = "ready" /\ RolledBack
    /\ previous' = args'
    /\ UNCHANGED <<moving, commands, coordinator, rules, foreground, turn, history>>

\* _restart_async_coordinator stops it, and builds and starts another one.
RestartCoordinator ==
    /\ ui = "restart"
    /\ IF coordinator = "stopped" THEN coordinator' = args /\ ui' = "ready"
       ELSE coordinator' = "stopped" /\ UNCHANGED ui
    /\ UNCHANGED <<moving, commands, args, previous, loop, rules, storeVars, foreground, turn, history>>

---------------------------------------------------------------------------
(* The thread of a turn *)

TurnRests == UNCHANGED <<ui, moving, commands, configVars, current>>

BeginForegroundTask(t) ==
    /\ turn[t].pc = "begin"
    /\ turn' = [turn EXCEPT ![t].pc = "pick",
                            ![t].snapshot = sessions[current].items \o <<User(t)>>]
    /\ foreground' = t /\ missed' = missed \union ({foreground} \ {None})
    /\ TurnRests /\ UNCHANGED <<sessions, files, reopened, cleared>>

TakeSession(t) ==
    /\ turn[t].pc = "pick"
    /\ turn' = [turn EXCEPT ![t].pc = "call", ![t].session = current]
    /\ TurnRests /\ UNCHANGED <<sessions, files, foreground, history>>

Session(t) == sessions[turn[t].session]

\* run() stages the message in the session: whoever stages last is pending.
Prepare(t) ==
    /\ turn[t].pc = "call"
    /\ Goto(t, "sent")
    /\ sessions' = [sessions EXCEPT ![turn[t].session].pending = t]
    /\ Record(Session(t).id, <<Event("started", t)>>)
    /\ TurnRests /\ UNCHANGED <<foreground, history>>

\* The first response commits what is pending, and is added to it.
Commit(t) ==
    /\ turn[t].pc = "sent" /\ Goto(t, "answered")
    /\ LET pending == Session(t).pending
           items == (IF pending = None THEN <<>> ELSE <<User(pending)>>) \o <<Answer(t)>>
       IN /\ sessions' = [sessions EXCEPT ![turn[t].session].items = @ \o items,
                                          ![turn[t].session].pending = None]
          /\ Record(Session(t).id, [k \in DOMAIN items |-> Event("item", items[k])])
    /\ TurnRests /\ UNCHANGED <<foreground, history>>

\* The turn is recorded as completed, or as failed if there was no response.
RunReturns(t) ==
    /\ turn[t].pc \in {"sent", "answered"}
    /\ turn' = [turn EXCEPT ![t].pc = IF turn[t].pc = "sent" THEN "failed" ELSE "finish"]
    /\ Record(Session(t).id, <<Event("ended", t)>>)
    /\ TurnRests /\ UNCHANGED <<sessions, foreground, history>>

\* finish_foreground_task finishes whatever is the foreground task.
Finish(t) ==
    /\ turn[t].pc \in {"finish", "failed"}
    /\ Goto(t, "over")
    /\ IF turn[t].status = "worker" THEN UNCHANGED <<foreground, missed>>
       ELSE /\ foreground' = None
            /\ missed' = missed \union ({foreground} \ {None, t})
    /\ TurnRests /\ UNCHANGED <<sessions, files, reopened, cleared>>

Line ==
    \/ HandleInput \/ ForkMainSession \/ StartTurn
    \/ Clear \/ New \/ Rebuild \/ EndRebuild \/ RestartCoordinator
    \/ \E id \in 1..MaxSessions : Resume(id)
    \/ \E rule \in Rules : AddRule(rule)
    \/ \E config \in Configs : SetArgs(config)

Thread(t) ==
    \/ BeginForegroundTask(t) \/ TakeSession(t) \/ Prepare(t) \/ Commit(t)
    \/ RunReturns(t) \/ Finish(t)

Next == Line \/ \E t \in Begun : Thread(t)

Spec == Init /\ [][Next]_vars

---------------------------------------------------------------------------
(* Properties *)

\* A turn the interface knows of has its session to itself, unless the user resumes
\* that session: the others are in other sessions.  What escapes it is a turn whose
\* thread had not begun when a line was handled, one that was promoted before it
\* took its session, and one whose foreground task another turn finished or replaced.
OwnSession(t) ==
    /\ Session(t).id \notin reopened
    /\ \A u \in Begun :
         turn[u].session # None /\ Session(u).id = Session(t).id => u \notin missed

\* A turn that got an answer has its message in its session once, right before it.
MessageIsKept ==
    \A t \in Begun :
      /\ turn[t].pc \in {"answered", "finish"} /\ OwnSession(t)
      /\ turn[t].session \notin cleared
      => LET items == Session(t).items IN
           \E k \in DOMAIN items \ {1} :
             /\ items[k - 1] = User(t) /\ items[k] = Answer(t)
             /\ \A n \in DOMAIN items : items[n] = User(t) => n = k - 1

\* A session that is resumed later is what it was in memory, when no turn is in it.
\* Only what /clear has emptied comes back, and what was written from two objects.
ResumedAsItWas ==
    \A s \in DOMAIN sessions :
      /\ s \notin cleared /\ sessions[s].id \notin reopened
      /\ \A t \in Begun : turn[t].session = s => turn[t].pc \in {"call", "finish", "failed", "over"}
      /\ \A r \in DOMAIN sessions : sessions[r].id = sessions[s].id => r <= s
      => Rehydrated(files[sessions[s].id]) = sessions[s].items

\* Between two lines the runtime, its loop and its coordinator have the same settings,
\* and the loop has every rule of the project.
SettingsAgree ==
    ui = "ready" =>
      /\ args \notin Unbuildable
      /\ loop = [config |-> args, rules |-> rules] /\ coordinator = args
=============================================================================
