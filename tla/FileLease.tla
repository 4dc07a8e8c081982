------------------------------ MODULE FileLease ------------------------------
(***************************************************************************)
(* FileWriteLeaseClient of async_runtime/leases.py, in worker processes    *)
(* that share one directory of lease files and nothing else.               *)
(*                                                                         *)
(* A worker process (worker_main.py) runs one tool at a time.  A tool that *)
(* writes files first calls acquire with the paths it was given, writes    *)
(* them if it may, and keeps the leases: they are released when the        *)
(* process leaves through main's finally clause, and not when it is killed.*)
(*                                                                         *)
(* A lease file is created (O_CREAT and O_EXCL) and filled in two steps,   *)
(* and whoever reads it in between cannot make out who holds it.           *)
(***************************************************************************)
EXTENDS Naturals, Sequences, FiniteSets

CONSTANTS
  Clients,          \* task ids, one worker process each
  Names,            \* paths as _normalize leaves them
  Files,            \* the files those paths lead to
  FileOf,           \* resolve_workspace_path: the file a path leads to
  MaxPaths,         \* bound: paths in one call
  FillingMayFail,   \* writing the payload may raise (the disk is full)
  WorkersMayBeKilled

NoFile == "none"   \* there is no lease file
Torn == "torn"     \* the lease file has no readable payload

ASSUME LeaseAssumption ==
  /\ FileOf \in [Names -> Files]
  /\ MaxPaths \in Nat
  /\ FillingMayFail \in BOOLEAN
  /\ WorkersMayBeKilled \in BOOLEAN
  /\ NoFile \notin Clients
  /\ Torn \notin Clients

VARIABLES
  lease,      \* the lease file of each path: absent, torn, or naming a task
  held,       \* FileWriteLeaseClient._held
  pc,         \* where each process is
  todo,       \* the paths of its call that are still to be leased
  acquired    \* the paths its call has leased so far

vars == <<lease, held, pc, todo, acquired>>

InCall == {"opening", "filling", "checking", "undoing", "writing"}
Locations == InCall \cup {"idle", "leaving", "exited", "killed"}

Calls == UNION {[1..n -> Names] : n \in 1..MaxPaths}

Init ==
  /\ lease = [n \in Names |-> NoFile]
  /\ held = [c \in Clients |-> {}]
  /\ pc = [c \in Clients |-> "idle"]
  /\ todo = [c \in Clients |-> <<>>]
  /\ acquired = [c \in Clients |-> {}]

GoTo(c, location) == pc' = [pc EXCEPT ![c] = location]
-----------------------------------------------------------------------------
\* A tool calls acquire.
Call(c) ==
  /\ pc[c] = "idle"
  /\ GoTo(c, "opening")
  /\ \E names \in Calls : todo' = [todo EXCEPT ![c] = names]
  /\ UNCHANGED <<lease, held, acquired>>

\* Mutant: the file is opened without O_EXCL.
CanCreate(n) == TRUE

\* os.open with O_CREAT and O_EXCL succeeds.
MayCreate(n) == lease[n] = NoFile

Create(c) ==
  /\ pc[c] = "opening"
  /\ todo[c] # <<>>
  /\ MayCreate(Head(todo[c]))
  /\ lease' = [lease EXCEPT ![Head(todo[c])] = Torn]
  /\ GoTo(c, "filling")
  /\ UNCHANGED <<held, todo, acquired>>

\* The next path of the call, once the first one is leased.
Advance(c) ==
  /\ todo' = [todo EXCEPT ![c] = Tail(@)]
  /\ acquired' = [acquired EXCEPT ![c] = @ \cup {Head(todo[c])}]
  /\ GoTo(c, "opening")

\* _held.add.
Recorded(c, n) == [held EXCEPT ![c] = @ \cup {n}]

\* The payload is on disk when the file is closed.
Fill(c) ==
  /\ pc[c] = "filling"
  /\ lease' = [lease EXCEPT ![Head(todo[c])] = c]
  /\ held' = Recorded(c, Head(todo[c]))
  /\ Advance(c)

\* The call ends and nothing is written.
GiveUp(c) ==
  /\ todo' = [todo EXCEPT ![c] = <<>>]
  /\ acquired' = [acquired EXCEPT ![c] = {}]
  /\ GoTo(c, "idle")

\* The exception ends the tool call, and the file stays as it is.
FillFails(c) ==
  /\ FillingMayFail
  /\ pc[c] = "filling"
  /\ GiveUp(c)
  /\ UNCHANGED <<lease, held>>

\* FileExistsError.
Exists(c) ==
  /\ pc[c] = "opening"
  /\ todo[c] # <<>>
  /\ ~MayCreate(Head(todo[c]))
  /\ GoTo(c, "checking")
  /\ UNCHANGED <<lease, held, todo, acquired>>

\* _held_by_current_task: the file may have gone, or changed, since.
Check(c) ==
  /\ pc[c] = "checking"
  /\ \/ /\ lease[Head(todo[c])] = c
        /\ Advance(c)
     \/ /\ lease[Head(todo[c])] # c
        /\ GoTo(c, "undoing")
        /\ UNCHANGED <<todo, acquired>>
  /\ UNCHANGED <<lease, held>>

\* One path of _release_paths.  The file is read and then removed: one step
\* here, since nobody but c changes a file that names c.
ReleasePath(c, n) ==
  /\ lease' = [lease EXCEPT ![n] = IF @ = c THEN NoFile ELSE @]
  /\ held' = [held EXCEPT ![c] = @ \ {n}]

\* A refused call releases what it has leased, what earlier calls had leased
\* included.  The order of the removals is left open.
Undo(c) ==
  /\ pc[c] = "undoing"
  /\ \/ \E n \in acquired[c] :
          /\ ReleasePath(c, n)
          /\ acquired' = [acquired EXCEPT ![c] = @ \ {n}]
          /\ UNCHANGED <<pc, todo>>
     \/ /\ acquired[c] = {}
        /\ GiveUp(c)
        /\ UNCHANGED <<lease, held>>

\* acquire returns True, and the tool writes its files.
Grant(c) ==
  /\ pc[c] = "opening"
  /\ todo[c] = <<>>
  /\ GoTo(c, "writing")
  /\ UNCHANGED <<lease, held, todo, acquired>>

\* The tool is done, and the leases stay.
Written(c) ==
  /\ pc[c] = "writing"
  /\ GiveUp(c)
  /\ UNCHANGED <<lease, held>>

\* The worker's turn is over, or failed.
Leave(c) ==
  /\ pc[c] = "idle"
  /\ GoTo(c, "leaving")
  /\ UNCHANGED <<lease, held, todo, acquired>>

\* release_all, one path after the other, then the process ends.
ReleaseAll(c) ==
  /\ pc[c] = "leaving"
  /\ \/ \E n \in held[c] : ReleasePath(c, n) /\ UNCHANGED pc
     \/ held[c] = {} /\ GoTo(c, "exited") /\ UNCHANGED <<lease, held>>
  /\ UNCHANGED <<todo, acquired>>

\* WorkerProcess.terminate after its timeout: nothing is released.
Kill(c) ==
  /\ WorkersMayBeKilled
  /\ pc[c] \notin {"exited", "killed"}
  /\ GoTo(c, "killed")
  /\ UNCHANGED <<lease, held, todo, acquired>>

Step(c) ==
  \/ Call(c)
  \/ Create(c)
  \/ Fill(c)
  \/ FillFails(c)
  \/ Exists(c)
  \/ Check(c)
  \/ Undo(c)
  \/ Grant(c)
  \/ Written(c)
  \/ Leave(c)
  \/ ReleaseAll(c)
  \/ Kill(c)

Next == \E c \in Clients : Step(c)

Spec == Init /\ [][Next]_vars
-----------------------------------------------------------------------------
(***************************************************************************)
(* Properties.                                                             *)
(***************************************************************************)

\* The type of every variable.
TypeOK ==
  /\ lease \in [Names -> Clients \cup {NoFile, Torn}]
  /\ held \in [Clients -> SUBSET Names]
  /\ pc \in [Clients -> Locations]
  /\ todo \in [Clients -> Seq(Names)]
  /\ acquired \in [Clients -> SUBSET Names]

\* README.md, "Write Leases": two workers never write the same file at the same
\* time.  It takes one name per file: two names of a file are two leases.
WritersExclude ==
  \A c, d \in Clients :
    c # d /\ pc[c] = "writing" /\ pc[d] = "writing" =>
      \A m \in acquired[c], n \in acquired[d] : FileOf[m] # FileOf[n]

\* A worker that left through its finally clause has no lease file: the table
\* _held and the directory agree, whatever calls were refused in between.
ExitReleasesAll ==
  \A c \in Clients : pc[c] = "exited" => \A n \in Names : lease[n] # c

\* The table the lease files stand for: a torn file belongs to nobody yet.
holder == [n \in Names |-> IF lease[n] = Torn THEN NoFile ELSE lease[n]]

Table == INSTANCE LeaseTable WITH holder <- holder, NoHolder <- NoFile

\* A lease that was obtained is kept, through the calls of every other process,
\* until its holder leaves or has a later call refused.
OnlyHolderReleases ==
  [][\A n \in Names, c \in Clients :
       lease[n] = c /\ lease'[n] # c => pc[c] \in {"undoing", "leaving"}]_vars

\* The lease files implement the lease table: a path goes from one task to
\* another only by being free in between, however the calls of the processes
\* overlap and wherever a process is killed.
ImplementsTable == Table!Spec
=============================================================================
