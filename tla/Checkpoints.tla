----------------------------- MODULE Checkpoints -----------------------------
(***************************************************************************)
(* The tools that change files (write_file, append_file, edit_file and       *)
(* apply_patch) and the checkpoints /rewind goes back to                     *)
(* (checkpoints/store.py).                                                   *)
(*                                                                         *)
(* Turns run in threads of the terminal process.  They hold no lease, and    *)
(* they snapshot into the checkpoint that is active, one for all threads.    *)
(* Workers are processes: they take leases (LeaseTable, which FileLease      *)
(* implements) and no snapshots.                                             *)
(*                                                                         *)
(* The content of a file is the set of the calls whose text it holds, with 0 *)
(* for what was there before; write_text truncates a file before it fills it.*)
(***************************************************************************)
EXTENDS Integers, Sequences, SequencesExt, FiniteSets

CONSTANTS
    Turns, Workers, Files,
    Existing,    \* files that are there at first, of Files
    Nobody,      \* no holder, no checkpoint
    MaxCalls,    \* bound: calls of these tools
    MaxPaths,    \* bound: files in one patch
    Kept,        \* checkpoints the index keeps (50)
    MayCrash     \* the terminal process may crash and be started again

Agents == Turns \union Workers
Missing == {-1}
Contents == {Missing} \union SUBSET (0..MaxCalls)
Foreign == {-2}

VARIABLES
    file,        \* the content of each file
    pc,          \* where a turn or a worker is
    tool, paths, \* the tool it runs and the files the call has still to change
    read,        \* the content it has read
    mark,        \* the number of its call
    target,      \* the checkpoint it snapshots into
    taken,       \* the manifest it is about to write
    calls,       \* calls made so far
    active,      \* runtime.active_checkpoint_id
    listed,      \* index.json, newest first
    manifest,    \* the files a checkpoint has entries for, in order
    copies,      \* its files/000000, files/000001, ...
    holder,      \* the lease table
    start,       \* history: the files as a turn found them, Foreign once others have
                 \* changed them or another turn has run beside it
    overtaken,   \* history: workers whose patch has read a file that a turn has changed
    torn         \* history: checkpoints whose manifest a crash cut short

callVars == <<tool, paths, read, mark, target, taken>>
storeVars == <<listed, manifest, copies>>
history == <<start, overtaken, torn>>
vars == <<file, pc, callVars, calls, active, storeVars, holder, history>>

Leases == INSTANCE LeaseTable WITH Clients <- Workers, Names <- Files, NoHolder <- Nobody

Init ==
    /\ file = [f \in Files |-> IF f \in Existing THEN {0} ELSE Missing]
    /\ pc = [a \in Agents |-> IF a \in Turns THEN "away" ELSE "idle"]
    /\ tool = [a \in Agents |-> "none"] /\ paths = [a \in Agents |-> <<>>]
    /\ read = [a \in Agents |-> {}] /\ mark = [a \in Agents |-> 0]
    /\ target = [a \in Agents |-> Nobody] /\ taken = [a \in Agents |-> <<>>]
    /\ calls = 0 /\ active = Nobody /\ listed = <<>>
    /\ manifest = [t \in Turns |-> <<>>]
    /\ copies = [t \in Turns |-> [n \in 1..Cardinality(Files) |-> Missing]]
    /\ Leases!Init
    /\ start = [t \in Turns |-> [f \in Files |-> Foreign]]
    /\ overtaken = {} /\ torn = {}

Goto(a, place) == pc' = [pc EXCEPT ![a] = place]
Live(t) == pc[t] \notin {"away", "over"}

---------------------------------------------------------------------------
(* Turns and workers come and go *)

BeginTurn(t) ==
    /\ pc[t] = "away" /\ Goto(t, "create")
    /\ LET others == {u \in Turns : Live(u)}
           none == [f \in Files |-> Foreign]
       IN start' = [u \in Turns |-> IF u = t /\ others = {} THEN file
                                    ELSE IF u \in others \union {t} THEN none ELSE start[u]]
    /\ UNCHANGED <<file, callVars, calls, active, storeVars, holder, overtaken, torn>>

\* CheckpointStore.create lists the new checkpoint first and drops the oldest.
Create(t) ==
    /\ pc[t] = "create" /\ Goto(t, "idle")
    /\ listed' = LET all == <<t>> \o listed IN
                 SubSeq(all, 1, IF Len(all) > Kept THEN Kept ELSE Len(all))
    /\ active' = t
    /\ UNCHANGED <<file, callVars, calls, manifest, copies, holder, history>>

EndTurn(t) ==
    /\ pc[t] = "idle" /\ Goto(t, "over")
    /\ active' = Nobody
    /\ UNCHANGED <<file, callVars, calls, storeVars, holder, history>>

ExitWorker(w) ==
    /\ pc[w] = "idle" /\ Goto(w, "over")
    /\ Leases!Release(w, Files)
    /\ UNCHANGED <<file, callVars, calls, active, storeVars, history>>

---------------------------------------------------------------------------
(* A call *)

\* The files of a patch, in the order of its hunks.
Patches == {s \in UNION {[1..n -> Files] : n \in 1..MaxPaths} : IsInjective(s)}

\* What each tool asks of the file before anybody is asked for approval.
Accepts(what, f) ==
    CASE what = "write" -> file[f] = Missing
      [] what = "append" -> file[f] # Missing
      [] what = "edit" -> file[f] \notin {Missing, {}}
      [] OTHER -> TRUE

\* A call that policy rejects, or whose file is not as the tool needs it, is an
\* error and changes nothing.
Call(a) ==
    /\ pc[a] = "idle" /\ calls < MaxCalls
    /\ \E what \in {"write", "append", "edit", "patch"}, p \in Patches :
         /\ what # "patch" => Len(p) = 1
         /\ Accepts(what, p[1])
         /\ tool' = [tool EXCEPT ![a] = what] /\ paths' = [paths EXCEPT ![a] = p]
         /\ read' = [read EXCEPT ![a] = IF what = "edit" THEN file[p[1]] ELSE {}]
    /\ calls' = calls + 1 /\ mark' = [mark EXCEPT ![a] = calls']
    /\ Goto(a, "approval")
    /\ UNCHANGED <<file, target, taken, active, storeVars, holder, history>>

\* The call is over.
Return(a) ==
    /\ Goto(a, "idle")
    /\ tool' = [tool EXCEPT ![a] = "none"] /\ paths' = [paths EXCEPT ![a] = <<>>]
    /\ read' = [read EXCEPT ![a] = {}] /\ mark' = [mark EXCEPT ![a] = 0]
    /\ target' = [target EXCEPT ![a] = Nobody] /\ taken' = [taken EXCEPT ![a] = <<>>]

Denied(a) ==
    /\ pc[a] = "approval" /\ Return(a)
    /\ UNCHANGED <<file, calls, active, storeVars, holder, history>>

\* Approved, or allowed without asking: a turn has no lease_callback.
Approved(t) ==
    /\ t \in Turns /\ pc[t] = "approval" /\ Goto(t, "snapshot")
    /\ UNCHANGED <<file, callVars, calls, active, storeVars, holder, history>>

LeaseGranted(w) ==
    /\ w \in Workers /\ pc[w] = "approval" /\ Goto(w, "change")
    /\ Leases!Acquire(w, ToSet(paths[w]))
    /\ UNCHANGED <<file, callVars, calls, active, storeVars, history>>

LeaseRefused(w) ==
    /\ w \in Workers /\ pc[w] = "approval" /\ Return(w)
    /\ \E f \in ToSet(paths[w]) : holder[f] \notin {Nobody, w}
    /\ UNCHANGED <<file, calls, active, storeVars, holder, history>>

SlotFromZero(n, entries) == n   \* mutant: each snapshot numbers its copies from 0
Slot(n, entries) == n - Len(entries)

\* The files of new, in the order they have in the call.
InOrderOf(call, new) ==
    {s \in SetToSeqs(new) : \A i, j \in DOMAIN s : i < j =>
        \E m, n \in DOMAIN call : m < n /\ call[m] = s[i] /\ call[n] = s[j]}

\* snapshot_paths reads the manifest and copies the files that have no entry; a copy
\* is named by the number of entries before it.
Snapshot(t) ==
    /\ pc[t] = "snapshot"
    /\ IF active \in ToSet(listed)
       THEN LET old == manifest[active]
            IN \E new \in InOrderOf(paths[t], ToSet(paths[t]) \ ToSet(old)) :
               /\ copies' = [copies EXCEPT ![active] = [n \in DOMAIN @ |->
                    IF Slot(n, old) \in DOMAIN new THEN file[new[Slot(n, old)]] ELSE @[n]]]
               /\ taken' = [taken EXCEPT ![t] = old \o new]
               /\ target' = [target EXCEPT ![t] = active]
               /\ Goto(t, "record")
       ELSE Goto(t, "change") /\ UNCHANGED <<copies, taken, target>>
    /\ UNCHANGED <<file, tool, paths, read, mark, calls, active, listed, manifest, holder,
                   history>>

WriteManifest(t) ==
    /\ pc[t] = "record" /\ Goto(t, "change")
    /\ manifest' = [manifest EXCEPT ![target[t]] = taken[t]]
    /\ UNCHANGED <<file, callVars, calls, active, listed, copies, holder, history>>

\* A changes f.  Workers do not reckon with each other: leases keep them apart.
Changes(a, f) ==
    /\ start' = [t \in Turns |-> IF t = a THEN start[t] ELSE [start[t] EXCEPT ![f] = Foreign]]
    /\ overtaken' = IF a \in Workers THEN overtaken \ {a}
                    ELSE overtaken \union {w \in Workers : pc[w] = "replace" /\ Head(paths[w]) = f}

AppendText(a) ==
    /\ pc[a] = "change" /\ tool[a] = "append"
    /\ LET f == Head(paths[a]) IN
         /\ file' = [file EXCEPT ![f] = (@ \ Missing) \union {mark[a]}]
         /\ Changes(a, f)
    /\ Return(a)
    /\ UNCHANGED <<calls, active, storeVars, holder, torn>>

\* A hunk that updates a file reads it; a block that is not there fails the patch,
\* and the files of its earlier hunks stay changed.
ReadHunk(a) ==
    /\ pc[a] = "change" /\ tool[a] = "patch"
    /\ LET f == Head(paths[a]) IN
         \/ /\ file[f] \notin {Missing, {}}
            /\ read' = [read EXCEPT ![a] = file[f]]
            /\ Goto(a, "replace")
            /\ UNCHANGED <<tool, paths, mark, target, taken>>
         \/ Return(a)
    /\ UNCHANGED <<file, calls, active, storeVars, holder, history>>

\* A hunk that adds a file writes it, whether it is there or not.
Truncate(a) ==
    /\ \/ pc[a] = "replace" /\ UNCHANGED read
       \/ pc[a] = "change" /\ tool[a] \in {"write", "edit"} /\ UNCHANGED read
       \/ pc[a] = "change" /\ tool[a] = "patch" /\ read' = [read EXCEPT ![a] = {}]
    /\ Goto(a, "fill")
    /\ file' = [file EXCEPT ![Head(paths[a])] = {}]
    /\ Changes(a, Head(paths[a]))
    /\ UNCHANGED <<tool, paths, mark, target, taken, calls, active, storeVars, holder, torn>>

Fill(a) ==
    /\ pc[a] = "fill"
    /\ LET f == Head(paths[a]) IN
         /\ file' = [file EXCEPT ![f] = read[a] \union {mark[a]}]
         /\ Changes(a, f)
    /\ IF Len(paths[a]) = 1 THEN Return(a)
       ELSE /\ Goto(a, "change") /\ paths' = [paths EXCEPT ![a] = Tail(@)]
            /\ UNCHANGED <<tool, read, mark, target, taken>>
    /\ UNCHANGED <<calls, active, storeVars, holder, torn>>

---------------------------------------------------------------------------
(* The user and the machine *)

\* What restore would leave in the files.
RestoredBy(t) == [f \in Files |->
    IF f \in ToSet(manifest[t])
    THEN copies[t][CHOOSE n \in DOMAIN manifest[t] : manifest[t][n] = f]
    ELSE file[f]]

Rewind(t) ==
    /\ t \in ToSet(listed)
    /\ file' = RestoredBy(t)
    /\ start' = [u \in Turns |-> [f \in Files |->
                    IF u = t \/ file'[f] = file[f] THEN start[u][f] ELSE Foreign]]
    /\ overtaken' = overtaken \union {w \in Workers : /\ pc[w] = "replace"
                         /\ \E f \in {Head(paths[w])} : file'[f] # file[f]}
    /\ UNCHANGED <<pc, callVars, calls, active, storeVars, holder, torn>>

\* The turns are gone; index.json or a manifest that was being written may not
\* parse, and then counts as empty.  Workers are processes of their own.
Crash ==
    /\ MayCrash /\ \E t \in Turns : Live(t)
    /\ LET cut == {target[t] : t \in {u \in Turns : pc[u] = "record"}}
           lost(a) == a \in Turns /\ Live(a)
       IN /\ pc' = [a \in Agents |-> IF lost(a) THEN "over" ELSE pc[a]]
          /\ tool' = [a \in Agents |-> IF lost(a) THEN "none" ELSE tool[a]]
          /\ paths' = [a \in Agents |-> IF lost(a) THEN <<>> ELSE paths[a]]
          /\ read' = [a \in Agents |-> IF lost(a) THEN {} ELSE read[a]]
          /\ mark' = [a \in Agents |-> IF lost(a) THEN 0 ELSE mark[a]]
          /\ target' = [a \in Agents |-> IF lost(a) THEN Nobody ELSE target[a]]
          /\ taken' = [a \in Agents |-> IF lost(a) THEN <<>> ELSE taken[a]]
          /\ manifest' = [t \in Turns |-> IF t \in cut THEN <<>> ELSE manifest[t]]
          /\ torn' = torn \union cut
    /\ \/ listed' = listed
       \/ (\E t \in Turns : pc[t] = "create") /\ listed' = <<>>
    /\ active' = Nobody
    /\ UNCHANGED <<file, calls, copies, holder, start, overtaken>>

Next ==
    \/ \E t \in Turns : \/ BeginTurn(t) \/ Create(t) \/ EndTurn(t) \/ Approved(t)
                        \/ Snapshot(t) \/ WriteManifest(t) \/ Rewind(t)
    \/ \E w \in Workers : ExitWorker(w) \/ LeaseGranted(w) \/ LeaseRefused(w)
    \/ \E a \in Agents : \/ Call(a) \/ Denied(a) \/ AppendText(a) \/ ReadHunk(a)
                         \/ Truncate(a) \/ Fill(a)
    \/ Crash

Spec == Init /\ [][Next]_vars

---------------------------------------------------------------------------
(* Properties *)

\* The variables hold what the code's can.
TypeOK ==
    /\ file \in [Files -> Contents]
    /\ pc \in [Agents -> {"away", "create", "idle", "approval", "snapshot", "record", "change",
                          "replace", "fill", "over"}]
    /\ tool \in [Agents -> {"none", "write", "append", "edit", "patch"}]
    /\ \A a \in Agents : /\ paths[a] \in Seq(Files) /\ taken[a] \in Seq(Files)
                         /\ read[a] \in Contents /\ mark[a] \in 0..MaxCalls
    /\ target \in [Agents -> Turns \union {Nobody}] /\ active \in Turns \union {Nobody}
    /\ calls \in 0..MaxCalls /\ listed \in Seq(Turns) /\ Len(listed) <= Kept
    /\ \A t \in Turns : manifest[t] \in Seq(Files) /\ ToSet(copies[t]) \subseteq Contents
    /\ holder \in [Files -> Workers \union {Nobody}]

\* /rewind to the checkpoint of a turn undoes the turn, whatever it has reached
\* when the user goes back or the process crashes: each file that nobody else has
\* changed is as the turn found it.  Not so for turns that run beside another, which
\* snapshot into each other's checkpoints, or when a crash cuts the manifest short.
RewindUndoesTheTurn ==
    \A t \in ToSet(listed) \ torn :
      \A f \in Files : start[t][f] \in {RestoredBy(t)[f], Foreign}

\* A file that a turn is about to change is in the manifest of the turn's checkpoint.
EditsAreBackedUp ==
    \A t \in ToSet(listed) \ torn :
      pc[t] \in {"change", "replace", "fill"} => ToSet(paths[t]) \subseteq ToSet(manifest[t])

\* What a worker's patch reads of a file under its lease is what it replaces: no
\* other worker changes the file in between (a turn, which takes no lease, may).
LeaseKeepsWhatWasRead ==
    \A w \in Workers : pc[w] = "replace" =>
      w \in overtaken \/ file[Head(paths[w])] = read[w]

=============================================================================
